------------------------------ MODULE Accounts ------------------------------
(* Users, from the seed and from registration, and the tokens they log in    *)
(* with. The container seeds the configured agent before it serves requests; *)
(* registrations of one address race each other between their existence      *)
(* check and their INSERT, while the password is hashed in a thread. Tokens  *)
(* are stateless: all there is to them is how long they are accepted still.  *)
EXTENDS Integers

CONSTANTS
  Requests,       \* registration requests, each made once
  Spellings,      \* addresses as they are written
  normalize,      \* normalize[x]: what normalize_email makes of a spelling
  AgentAddresses, \* what SEEDED_AGENT_EMAIL may say at some start, normalized
  NoRow,
  AccessLife,     \* lifetimes of tokens, in steps of the clock
  RefreshLife

Addresses == {normalize[x] : x \in Spellings}

(* A user's id: who created it. *)
Ids == Requests \cup AgentAddresses

(* Stripping and lower-casing twice changes nothing more. *)
ASSUME NormalizeAssumption ==
  /\ normalize \in [Spellings -> Spellings]
  /\ \A x \in Spellings : normalize[normalize[x]] = normalize[x]
ASSUME AgentAssumption ==
  AgentAddresses \subseteq Addresses /\ Requests \cap AgentAddresses = {}
ASSUME LifeAssumption == AccessLife \in Nat \ {0} /\ RefreshLife \in Nat \ {0}

Rows == [email : Spellings, role : {"CUSTOMER", "AGENT"}]
ASSUME NoRowAssumption == NoRow \notin Rows

VARIABLES
  server,       \* the container: down, seeded, up
  users,        \* users[i]: the committed row of users with that id
  step,         \* step[r]: how far a registration has come
  wanted,       \* wanted[r]: the spelling it was made with
  access,       \* access[i]: how long an access token of i is accepted still
  refresh,      \* refresh[i]: the same of its refresh tokens
  since         \* history: time since i last logged in, up to Forever

tokens == <<access, refresh, since>>
vars == <<server, users, step, wanted, tokens>>

Forever == AccessLife + RefreshLife
Steps == {"idle", "hashing", "inserted", "committed", "created", "conflict", "failed"}

TypeOK ==
  /\ server \in {"down", "seeded", "up"}
  /\ users \in [Ids -> Rows \cup {NoRow}]
  /\ step \in [Requests -> Steps]
  /\ wanted \in [Requests -> Spellings]
  /\ access \in [Ids -> 0..AccessLife]
  /\ refresh \in [Ids -> 0..RefreshLife]
  /\ since \in [Ids -> 0..Forever]

Init ==
  /\ server = "down"
  /\ users = [i \in Ids |-> NoRow]
  /\ step = [r \in Requests |-> "idle"]
  /\ wanted \in [Requests -> Spellings]
  /\ access = [i \in Ids |-> 0]
  /\ refresh = [i \in Ids |-> 0]
  /\ since = [i \in Ids |-> Forever]

Taken(address) == \E i \in Ids : users[i] # NoRow /\ users[i].email = address

----------------------------------------------------------------------------
(* The container: seed, serve, stop.                                         *)
(* As SeedAgent, had an account at the address been made an agent's. *)
SeedPromoting(a) ==
  /\ server = "down"
  /\ server' = "seeded"
  /\ users' = [i \in Ids |->
                 IF IF Taken(a) THEN users[i] # NoRow /\ users[i].email = a ELSE i = a
                   THEN [email |-> a, role |-> "AGENT"] ELSE users[i]]
  /\ UNCHANGED <<step, wanted, tokens>>

SeedAgent(a) ==
  /\ server = "down"
  /\ server' = "seeded"
  /\ users' = IF Taken(a) THEN users
              ELSE [users EXCEPT ![a] = [email |-> a, role |-> "AGENT"]]
  /\ UNCHANGED <<step, wanted, tokens>>

(* As Serve, had uvicorn not been chained after the seed. *)
ServeAtOnce ==
  /\ server \in {"down", "seeded"}
  /\ server' = "up"
  /\ UNCHANGED <<users, step, wanted, tokens>>

Serve ==
  /\ server = "seeded"
  /\ server' = "up"
  /\ UNCHANGED <<users, step, wanted, tokens>>

(* Registrations under way are lost, and what they inserted is rolled back.  *)
Stop ==
  /\ server # "down"
  /\ server' = "down"
  /\ step' = [r \in Requests |->
                IF step[r] \in {"hashing", "inserted", "committed"} THEN "failed"
                                                                    ELSE step[r]]
  /\ UNCHANGED <<users, wanted, tokens>>

----------------------------------------------------------------------------
(* register_customer.                                                        *)
Address(r) == normalize[wanted[r]]
Goes(r, from, to) == step[r] = from /\ step' = [step EXCEPT ![r] = to]

CheckFree(r) ==
  /\ server = "up"
  /\ ~Taken(Address(r))
  /\ Goes(r, "idle", "hashing")
  /\ UNCHANGED <<server, users, wanted, tokens>>

CheckTaken(r) ==
  /\ server = "up"
  /\ Taken(Address(r))
  /\ Goes(r, "idle", "conflict")
  /\ UNCHANGED <<server, users, wanted, tokens>>

(* The INSERT the commit flushes. The unique index makes it wait for another *)
(* transaction that has inserted the same address and not ended.             *)
Insert(r) ==
  /\ \A q \in Requests : step[q] = "inserted" => Address(q) # Address(r)
  /\ ~Taken(Address(r))
  /\ Goes(r, "hashing", "inserted")
  /\ UNCHANGED <<server, users, wanted, tokens>>

(* As InsertViolates, had the error been taken for success. *)
InsertIgnored(r) ==
  /\ Taken(Address(r))
  /\ Goes(r, "hashing", "created")
  /\ UNCHANGED <<server, users, wanted, tokens>>

(* IntegrityError, rollback, DuplicateEmailError. *)
InsertViolates(r) ==
  /\ Taken(Address(r))
  /\ Goes(r, "hashing", "conflict")
  /\ UNCHANGED <<server, users, wanted, tokens>>

(* As NewUser, had the address been stored as it was written. *)
NewUserAsWritten(r) == [email |-> wanted[r], role |-> "CUSTOMER"]

NewUser(r) == [email |-> Address(r), role |-> "CUSTOMER"]

Commit(r) ==
  /\ Goes(r, "inserted", "committed")
  /\ users' = [users EXCEPT ![r] = NewUser(r)]
  /\ UNCHANGED <<server, wanted, tokens>>

Refresh(r) ==
  /\ Goes(r, "committed", "created")
  /\ UNCHANGED <<server, users, wanted, tokens>>

(* The connection breaks: before the commit nothing happened, after it the   *)
(* client gets a 500 for an account it has.                                  *)
LoseConnection(r) ==
  /\ \E from \in {"idle", "hashing", "inserted", "committed"} : Goes(r, from, "failed")
  /\ server = "up"
  /\ UNCHANGED <<server, users, wanted, tokens>>

Register(r) ==
  \/ CheckFree(r)
  \/ CheckTaken(r)
  \/ Insert(r)
  \/ InsertViolates(r)
  \/ Commit(r)
  \/ Refresh(r)
  \/ LoseConnection(r)

----------------------------------------------------------------------------
(* Tokens. Whoever holds the latest one of a kind can do what the holders of *)
(* earlier ones can, so the latest expiry stands for all.                    *)
Login(i) ==
  /\ server = "up"
  /\ users[i] # NoRow
  /\ access' = [access EXCEPT ![i] = AccessLife]
  /\ refresh' = [refresh EXCEPT ![i] = RefreshLife]
  /\ since' = [since EXCEPT ![i] = 0]
  /\ UNCHANGED <<server, users, step, wanted>>

(* As RefreshAccess, had decode_token not looked at the type. *)
RefreshWithAnyToken(i) ==
  /\ server = "up"
  /\ refresh[i] > 0 \/ access[i] > 0
  /\ users[i] # NoRow
  /\ access' = [access EXCEPT ![i] = AccessLife]
  /\ UNCHANGED <<server, users, step, wanted, refresh, since>>

(* A refresh token is exchanged; it is not renewed itself. *)
RefreshAccess(i) ==
  /\ server = "up"
  /\ refresh[i] > 0
  /\ users[i] # NoRow
  /\ access' = [access EXCEPT ![i] = AccessLife]
  /\ UNCHANGED <<server, users, step, wanted, refresh, since>>

(* As Left, had nothing happened at the end of a lifetime. *)
LeftOff(t) == t - 1

(* exp draws nearer; at 0 it has been reached, and the token is refused.     *)
Left(t) == IF t > 0 THEN t - 1 ELSE 0

Tick ==
  /\ access' = [i \in Ids |-> Left(access[i])]
  /\ refresh' = [i \in Ids |-> Left(refresh[i])]
  /\ since' = [i \in Ids |-> IF since[i] < Forever THEN since[i] + 1 ELSE Forever]
  /\ UNCHANGED <<server, users, step, wanted>>

Next ==
  \/ \E a \in AgentAddresses : SeedAgent(a)
  \/ Serve
  \/ Stop
  \/ \E r \in Requests : Register(r)
  \/ \E i \in Ids : Login(i) \/ RefreshAccess(i)
  \/ Tick

Spec == Init /\ [][Next]_vars

----------------------------------------------------------------------------
(* However it is spelled, an address belongs to one user at most: neither    *)
(* registrations that race nor seeds at later starts add a second.           *)
OneUserPerAddress ==
  \A i, j \in Ids :
    /\ users[i] # NoRow
    /\ users[j] # NoRow
    /\ normalize[users[i].email] = normalize[users[j].email]
    => i = j

(* 201 is the answer of the request whose row is there, as a customer's; 409 *)
(* that of a request whose address somebody else has.                        *)
AnswersAreTrue ==
  \A r \in Requests :
    /\ step[r] = "created" => users[r] = [email |-> Address(r), role |-> "CUSTOMER"]
    /\ step[r] = "conflict" => \E i \in Ids \ {r} :
                                 users[i] # NoRow /\ users[i].email = Address(r)

(* The checks, hashes, inserts, restarts and retried seeds amount to the     *)
(* indivisible operations of AddressBook: an account is made of nothing,     *)
(* for a request not answered yet, and stays as it was made.                 *)
Row(i) == [email |-> users[i].email, user |-> i, role |-> users[i].role]

Table == {Row(i) : i \in {j \in Ids : users[j] # NoRow}}
Asked == [r \in Requests |-> Address(r)]
Answers ==
  [r \in Requests |-> IF step[r] \in {"created", "conflict", "failed"}
                        THEN step[r] ELSE "none"]

Book == INSTANCE AddressBook WITH
          accounts <- Table, address <- Asked, answer <- Answers

ImplementsAddressBook == Book!Spec

(* While requests are served there is an agent, although the seed skips an   *)
(* address that a customer has: the first start seeds an empty table.        *)
AgentWhileServing ==
  server = "up" => \E i \in Ids : users[i] # NoRow /\ users[i].role = "AGENT"

(* No chain of refreshes keeps a session open: a request is accepted at most *)
(* the lifetimes of a refresh and an access token after the user's login.    *)
SessionsEnd == \A i \in Ids : access[i] > 0 => since[i] < RefreshLife + AccessLife

(* What the proofs need besides: rows hold normalized addresses, inserts     *)
(* under way exclude each other and every row, and tokens run out in time.   *)
RowsAreNormalized ==
  \A i \in Ids : users[i] # NoRow =>
    /\ users[i].email \in Addresses
    /\ i \in AgentAddresses => users[i] = [email |-> i, role |-> "AGENT"]

InsertsExclude ==
  \A r \in Requests :
    /\ step[r] \in {"idle", "hashing", "inserted"} => users[r] = NoRow
    /\ step[r] \in {"committed", "created"} => users[r] = NewUser(r)
    /\ step[r] = "inserted" =>
         /\ ~Taken(Address(r))
         /\ \A q \in Requests \ {r} : step[q] = "inserted" => Address(q) # Address(r)

(* The table is empty until the first seed. *)
SeededFirst ==
  \/ \E a \in AgentAddresses : users[a] = [email |-> a, role |-> "AGENT"]
  \/ server = "down" /\ \A i \in Ids : users[i] = NoRow

RequestsNeedServer ==
  \A r \in Requests : step[r] \in {"hashing", "inserted", "committed"} => server = "up"

TokensRunOut ==
  \A i \in Ids :
    /\ refresh[i] > 0 => since[i] + refresh[i] = RefreshLife
    /\ access[i] > 0 => since[i] + access[i] < RefreshLife + AccessLife

InductiveInvariant ==
  /\ TypeOK
  /\ OneUserPerAddress
  /\ AnswersAreTrue
  /\ RowsAreNormalized
  /\ InsertsExclude
  /\ SeededFirst
  /\ RequestsNeedServer
  /\ TokensRunOut
=============================================================================
