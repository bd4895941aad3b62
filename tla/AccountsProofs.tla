--------------------------- MODULE AccountsProofs ---------------------------
(* Proofs about Accounts for any requests, spellings and lifetimes.          *)
EXTENDS Accounts, TLAPS

(* What a request registers is a normalized address.                         *)
LEMMA AddressIsNormal ==
  ASSUME TypeOK, NEW r \in Requests
  PROVE  /\ Address(r) \in Addresses /\ Address(r) \in Spellings
         /\ normalize[Address(r)] = Address(r)
  BY NormalizeAssumption DEF TypeOK, Address, Addresses

(* Normalizing a normalized address changes nothing.                         *)
LEMMA AddressesAreNormal ==
  ASSUME NEW x \in Addresses
  PROVE  x \in Spellings /\ normalize[x] = x
  BY NormalizeAssumption DEF Addresses

(* What a request inserts is a row.                                          *)
LEMMA NewUserIsRow ==
  ASSUME TypeOK, NEW r \in Requests
  PROVE  /\ NewUser(r) \in Rows /\ NewUser(r) # NoRow
         /\ NewUser(r).email = Address(r) /\ NewUser(r).role = "CUSTOMER"
  BY AddressIsNormal, NoRowAssumption DEF NewUser, Rows

(* The invariant holds before the first start.                               *)
LEMMA InitSound == Init => InductiveInvariant
<1> SUFFICES ASSUME Init PROVE InductiveInvariant
  OBVIOUS
<1>1. TypeOK
  BY LifeAssumption DEF Init, TypeOK, Steps, Forever
<1>2. OneUserPerAddress /\ AnswersAreTrue /\ RowsAreNormalized
  BY DEF Init, OneUserPerAddress, AnswersAreTrue, RowsAreNormalized
<1>3. InsertsExclude /\ SeededFirst /\ RequestsNeedServer /\ TokensRunOut
  BY DEF Init, InsertsExclude, SeededFirst, RequestsNeedServer, TokensRunOut, Ids
<1> QED BY <1>1, <1>2, <1>3 DEF InductiveInvariant

(* The part of the invariant that does not speak of tokens.                  *)
TableSound ==
  /\ OneUserPerAddress
  /\ AnswersAreTrue
  /\ RowsAreNormalized
  /\ InsertsExclude
  /\ SeededFirst
  /\ RequestsNeedServer

(* The invariant is types, the table's part and the tokens' part.            *)
LEMMA InvariantParts == InductiveInvariant <=> TypeOK /\ TableSound /\ TokensRunOut
  BY DEF InductiveInvariant, TableSound

(* The table's part rests on users, registrations and the server only.       *)
LEMMA TableKept ==
  ASSUME TableSound, UNCHANGED <<server, users, step, wanted>>
  PROVE  TableSound'
  BY DEF TableSound, OneUserPerAddress, AnswersAreTrue, RowsAreNormalized, InsertsExclude,
         SeededFirst, RequestsNeedServer, Address, NewUser, Taken

(* The tokens' part rests on the tokens and the time only.                   *)
LEMMA TokensKept ==
  ASSUME TokensRunOut, UNCHANGED tokens
  PROVE  TokensRunOut'
  BY DEF TokensRunOut, tokens

(* Log-in, refresh and time keep the invariant.                              *)
LEMMA TokenStepsKeep ==
  ASSUME InductiveInvariant,
         (\E i \in Ids : Login(i) \/ RefreshAccess(i)) \/ Tick
  PROVE  InductiveInvariant'
<1> USE InvariantParts
<1>1. UNCHANGED <<server, users, step, wanted>>
  BY DEF Login, RefreshAccess, Tick
<1>2. TableSound'
  BY <1>1, TableKept
<1>3. CASE Tick
  <2>1. TypeOK'
    BY <1>1, <1>3, LifeAssumption DEF TypeOK, Tick, Left, Forever
  <2>2. TokensRunOut'
    BY <1>3, LifeAssumption DEF TypeOK, Tick, Left, TokensRunOut, Forever
  <2> QED BY <1>2, <2>1, <2>2 DEF InductiveInvariant, TableSound
<1>4. ASSUME NEW i \in Ids, Login(i) \/ RefreshAccess(i)
      PROVE  InductiveInvariant'
  <2>1. TypeOK'
    BY <1>1, <1>4, LifeAssumption DEF TypeOK, Login, RefreshAccess, Forever
  <2>2. TokensRunOut'
    BY <1>4, LifeAssumption DEF TypeOK, Login, RefreshAccess, TokensRunOut, Forever
  <2> QED BY <1>2, <2>1, <2>2 DEF InductiveInvariant, TableSound
<1> QED BY <1>3, <1>4

(* The seed keeps it: it inserts only what nobody has.                       *)
LEMMA SeedKeeps ==
  ASSUME InductiveInvariant, NEW a \in AgentAddresses, SeedAgent(a)
  PROVE  InductiveInvariant'
<1> DEFINE row == [email |-> a, role |-> "AGENT"]
<1> USE DEF InductiveInvariant
<1>1. /\ a \in Ids /\ a \notin Requests /\ a \in Addresses
      /\ row \in Rows /\ row # NoRow /\ row.email = a /\ row.role = "AGENT"
      /\ normalize[a] = a
  BY AgentAssumption, AddressesAreNormal, NoRowAssumption DEF Ids, Rows
<1>2. TokensRunOut'
  BY TokensKept DEF SeedAgent
<1>3. CASE Taken(a)
  <2>1. users' = users /\ step' = step /\ wanted' = wanted /\ server' = "seeded"
        /\ server = "down"
    BY <1>3 DEF SeedAgent
  <2>2. \E b \in AgentAddresses : users[b] = [email |-> b, role |-> "AGENT"]
    BY <1>3 DEF SeededFirst, Taken
  <2>3. TypeOK'
    BY <2>1 DEF TypeOK, SeedAgent, tokens
  <2>4. OneUserPerAddress' /\ AnswersAreTrue' /\ RowsAreNormalized' /\ InsertsExclude'
    BY <2>1 DEF OneUserPerAddress, AnswersAreTrue, RowsAreNormalized, InsertsExclude,
                Address, NewUser, Taken
  <2>5. SeededFirst' /\ RequestsNeedServer'
    BY <2>1, <2>2 DEF SeededFirst, RequestsNeedServer
  <2> QED BY <1>2, <2>3, <2>4, <2>5
<1>4. CASE ~Taken(a)
  <2>1. /\ users' = [users EXCEPT ![a] = row] /\ users'[a] = row
        /\ \A i \in Ids \ {a} : users'[i] = users[i]
        /\ step' = step /\ wanted' = wanted /\ server' = "seeded" /\ server = "down"
    BY <1>1, <1>4 DEF SeedAgent, TypeOK
  <2>2. TypeOK'
    BY <1>1, <2>1 DEF TypeOK, SeedAgent, tokens
  <2>3. OneUserPerAddress'
    <3>1. \A i \in Ids : users[i] # NoRow => normalize[users[i].email] # a
      BY <1>4, AddressesAreNormal DEF Taken, RowsAreNormalized
    <3> QED BY <1>1, <2>1, <3>1 DEF OneUserPerAddress
  <2>4. users[a] = NoRow
    <3>1. SUFFICES ASSUME users[a] # NoRow PROVE FALSE
      OBVIOUS
    <3>2. users[a].email = a
      BY <1>1, <3>1 DEF RowsAreNormalized
    <3> QED BY <1>1, <1>4, <3>1, <3>2 DEF Taken
  <2>5. AnswersAreTrue' /\ RowsAreNormalized'
    BY <1>1, <2>1, <2>4 DEF AnswersAreTrue, RowsAreNormalized, Address
  <2>6. InsertsExclude'
    <3>1. \A r \in Requests : step[r] # "inserted"
      BY <2>1 DEF RequestsNeedServer
    <3> QED BY <1>1, <2>1, <3>1 DEF InsertsExclude, Address, NewUser, Ids
  <2>7. SeededFirst' /\ RequestsNeedServer'
    BY <1>1, <2>1 DEF SeededFirst, RequestsNeedServer
  <2> QED BY <1>2, <2>2, <2>3, <2>5, <2>6, <2>7
<1> QED BY <1>3, <1>4

(* Starting to serve and stopping keep it.                                   *)
LEMMA ServerStepsKeep ==
  ASSUME InductiveInvariant, Serve \/ Stop
  PROVE  InductiveInvariant'
<1> USE DEF InductiveInvariant
<1>1. users' = users /\ wanted' = wanted /\ UNCHANGED tokens
  BY DEF Serve, Stop
<1>2. TokensRunOut'
  BY <1>1, TokensKept
<1>3. CASE Serve
  <2>1. step' = step /\ server = "seeded" /\ server' = "up"
    BY <1>3 DEF Serve
  <2>2. TypeOK'
    BY <1>1, <2>1 DEF TypeOK, tokens
  <2>3. OneUserPerAddress' /\ AnswersAreTrue' /\ RowsAreNormalized' /\ InsertsExclude'
    BY <1>1, <2>1 DEF OneUserPerAddress, AnswersAreTrue, RowsAreNormalized,
                      InsertsExclude, Address, NewUser, Taken
  <2>4. SeededFirst' /\ RequestsNeedServer'
    BY <1>1, <2>1 DEF SeededFirst, RequestsNeedServer
  <2> QED BY <1>2, <2>2, <2>3, <2>4
<1>4. CASE Stop
  <2>1. /\ server' = "down"
        /\ \A r \in Requests :
             /\ step'[r] \in Steps \ {"hashing", "inserted", "committed"}
             /\ step'[r] # "failed" => step'[r] = step[r]
    BY <1>4 DEF Stop, TypeOK, Steps
  <2>2. TypeOK'
    <3>1. step' \in [Requests -> Steps]
      BY <1>4 DEF Stop, TypeOK, Steps
    <3> QED BY <1>1, <2>1, <3>1 DEF TypeOK, tokens
  <2>3. OneUserPerAddress' /\ AnswersAreTrue' /\ RowsAreNormalized'
    BY <1>1, <2>1 DEF OneUserPerAddress, AnswersAreTrue, RowsAreNormalized, Address
  <2>4. InsertsExclude'
    BY <1>1, <2>1 DEF InsertsExclude, Address, NewUser, Taken
  <2>5. SeededFirst' /\ RequestsNeedServer'
    BY <1>1, <2>1, <1>4 DEF SeededFirst, RequestsNeedServer, Stop
  <2> QED BY <1>2, <2>2, <2>3, <2>4, <2>5
<1> QED BY <1>3, <1>4

(* A step of a registration that writes no row keeps what is said of rows.   *)
LEMMA NoRowWritten ==
  ASSUME InductiveInvariant, NEW r \in Requests, NEW to \in Steps,
         step' = [step EXCEPT ![r] = to], server = "up",
         UNCHANGED <<server, users, wanted, tokens>>,
         to \in {"hashing", "inserted"} => step[r] \in {"idle", "hashing"},
         to = "inserted" =>
           /\ ~Taken(Address(r))
           /\ \A q \in Requests : step[q] = "inserted" => Address(q) # Address(r),
         to # "idle" /\ to # "committed",
         to = "created" => step[r] = "committed",
         to = "conflict" => Taken(Address(r)) /\ users[r] = NoRow
  PROVE  InductiveInvariant'
<1> USE DEF InductiveInvariant
<1>1. /\ step' \in [Requests -> Steps] /\ step'[r] = to
      /\ \A q \in Requests \ {r} : step'[q] = step[q]
  BY DEF TypeOK
<1>2. TypeOK'
  BY <1>1 DEF TypeOK, tokens
<1>3. TokensRunOut'
  BY TokensKept
<1>4. OneUserPerAddress' /\ RowsAreNormalized'
  BY DEF OneUserPerAddress, RowsAreNormalized
<1>5. AnswersAreTrue'
  <2>1. ASSUME NEW q \in Requests, step'[q] = "created"
        PROVE  users[q] = NewUser(q)
    BY <1>1, <2>1 DEF InsertsExclude
  <2>2. ASSUME NEW q \in Requests, step'[q] = "conflict"
        PROVE  \E i \in Ids \ {q} : users[i] # NoRow /\ users[i].email = Address(q)
    BY <1>1, <2>2 DEF AnswersAreTrue, Taken
  <2> QED BY <2>1, <2>2 DEF AnswersAreTrue, Address, NewUser
<1>6. InsertsExclude'
  BY <1>1 DEF InsertsExclude, Address, NewUser, Taken
<1>7. SeededFirst' /\ RequestsNeedServer'
  BY <1>1 DEF SeededFirst, RequestsNeedServer
<1> QED BY <1>2, <1>3, <1>4, <1>5, <1>6, <1>7

(* Committing an insert keeps it: others of its address are waiting.         *)
LEMMA CommitKeeps ==
  ASSUME InductiveInvariant, NEW r \in Requests, Commit(r)
  PROVE  InductiveInvariant'
<1> USE DEF InductiveInvariant
<1>1. /\ step[r] = "inserted" /\ users[r] = NoRow /\ r \in Ids /\ r \notin AgentAddresses
      /\ server = "up"
  BY AgentAssumption DEF Commit, Goes, InsertsExclude, Ids, RequestsNeedServer
<1>2. /\ step' \in [Requests -> Steps] /\ step'[r] = "committed"
      /\ \A q \in Requests \ {r} : step'[q] = step[q]
      /\ wanted' = wanted /\ server' = server
  BY DEF Commit, Goes, TypeOK, Steps
<1>3. /\ users' \in [Ids -> Rows \cup {NoRow}] /\ users'[r] = NewUser(r)
      /\ \A i \in Ids \ {r} : users'[i] = users[i]
  BY <1>1, NewUserIsRow DEF Commit, TypeOK
<1>4. TypeOK'
  BY <1>2, <1>3 DEF TypeOK, Commit, tokens
<1>5. TokensRunOut'
  BY TokensKept DEF Commit
<1>6. \A i \in Ids : users[i] # NoRow =>
        users[i].email # Address(r) /\ normalize[users[i].email] # Address(r)
  <2>1. ~Taken(Address(r))
    BY <1>1 DEF InsertsExclude
  <2>2. ASSUME NEW i \in Ids, users[i] # NoRow
        PROVE  users[i].email # Address(r) /\ normalize[users[i].email] = users[i].email
    BY <2>1, <2>2, AddressesAreNormal DEF Taken, RowsAreNormalized
  <2> QED BY <2>2
<1>7. OneUserPerAddress'
  BY <1>1, <1>3, <1>6, NewUserIsRow, AddressIsNormal DEF OneUserPerAddress
<1>8. AnswersAreTrue'
  <2>1. ASSUME NEW q \in Requests, step'[q] = "created"
        PROVE  users'[q] = NewUser(q)
    BY <1>2, <1>3, <2>1 DEF AnswersAreTrue, Ids, NewUser
  <2>2. ASSUME NEW q \in Requests, step'[q] = "conflict"
        PROVE  \E i \in Ids \ {q} : users'[i] # NoRow /\ users'[i].email = Address(q)
    BY <1>1, <1>2, <1>3, <2>2 DEF AnswersAreTrue
  <2> QED BY <1>2, <2>1, <2>2 DEF AnswersAreTrue, Address, NewUser
<1>9. RowsAreNormalized'
  <2>1. NewUser(r).email \in Addresses
    BY NewUserIsRow, AddressIsNormal
  <2>2. \A i \in Ids : users'[i] # NoRow => users'[i].email \in Addresses
    BY <1>3, <2>1 DEF RowsAreNormalized
  <2>3. \A i \in AgentAddresses : i # r /\ i \in Ids
    BY <1>1 DEF Ids
  <2> QED BY <1>3, <2>2, <2>3 DEF RowsAreNormalized
<1>10. InsertsExclude'
  <2>1. ASSUME NEW q \in Requests
        PROVE  /\ step'[q] \in {"idle", "hashing", "inserted"} => users'[q] = NoRow
               /\ step'[q] \in {"committed", "created"} => users'[q] = NewUser(q)
    BY <1>2, <1>3 DEF InsertsExclude, Ids
  <2>2. ASSUME NEW q \in Requests, step'[q] = "inserted"
        PROVE  /\ \A i \in Ids : users'[i] # NoRow => users'[i].email # Address(q)
               /\ \A p \in Requests \ {q} : step'[p] = "inserted" => Address(p) # Address(q)
    BY <1>1, <1>2, <1>3, <2>2, NewUserIsRow DEF InsertsExclude, Taken
  <2> QED BY <1>2, <2>1, <2>2 DEF InsertsExclude, Address, NewUser, Taken
<1>11. SeededFirst' /\ RequestsNeedServer'
  BY <1>1, <1>2, <1>3, AgentAssumption DEF SeededFirst, RequestsNeedServer, Ids
<1> QED BY <1>4, <1>5, <1>7, <1>8, <1>9, <1>10, <1>11

(* Every step of a registration keeps it.                                    *)
LEMMA RegisterKeeps ==
  ASSUME InductiveInvariant, NEW r \in Requests, Register(r)
  PROVE  InductiveInvariant'
<1>1. CASE Commit(r)
  BY <1>1, CommitKeeps
<1>2. RequestsNeedServer /\ InsertsExclude
  BY DEF InductiveInvariant
<1>3. CASE CheckFree(r)
  <2>1. step[r] = "idle" /\ step' = [step EXCEPT ![r] = "hashing"] /\ server = "up"
        /\ UNCHANGED <<server, users, wanted, tokens>>
    BY <1>3 DEF CheckFree, Goes
  <2> QED BY <2>1, NoRowWritten DEF Steps
<1>4. CASE CheckTaken(r) \/ InsertViolates(r)
  <2>1. step[r] \in {"idle", "hashing"} /\ step' = [step EXCEPT ![r] = "conflict"]
        /\ Taken(Address(r)) /\ UNCHANGED <<server, users, wanted, tokens>>
        /\ (step[r] = "idle" => server = "up")
    BY <1>4 DEF CheckTaken, InsertViolates, Goes
  <2>2. users[r] = NoRow /\ server = "up"
    BY <1>2, <2>1 DEF InsertsExclude, RequestsNeedServer
  <2> QED BY <2>1, <2>2, NoRowWritten DEF Steps
<1>5. CASE Insert(r)
  <2>1. step[r] = "hashing" /\ step' = [step EXCEPT ![r] = "inserted"]
        /\ ~Taken(Address(r)) /\ UNCHANGED <<server, users, wanted, tokens>>
        /\ \A q \in Requests : step[q] = "inserted" => Address(q) # Address(r)
    BY <1>5 DEF Insert, Goes
  <2>2. server = "up"
    BY <1>2, <2>1 DEF RequestsNeedServer
  <2> QED BY <2>1, <2>2, NoRowWritten DEF Steps
<1>6. CASE Refresh(r)
  <2>1. step[r] = "committed" /\ step' = [step EXCEPT ![r] = "created"]
        /\ UNCHANGED <<server, users, wanted, tokens>>
    BY <1>6 DEF Refresh, Goes
  <2>2. server = "up"
    BY <1>2, <2>1 DEF RequestsNeedServer
  <2> QED BY <2>1, <2>2, NoRowWritten DEF Steps
<1>7. CASE LoseConnection(r)
  <2>1. step' = [step EXCEPT ![r] = "failed"] /\ server = "up"
        /\ UNCHANGED <<server, users, wanted, tokens>>
    BY <1>7 DEF LoseConnection, Goes
  <2> QED BY <2>1, NoRowWritten DEF Steps
<1> QED BY <1>1, <1>3, <1>4, <1>5, <1>6, <1>7 DEF Register

(* Every step keeps the invariant.                                           *)
LEMMA StepKeeps == InductiveInvariant /\ [Next]_vars => InductiveInvariant'
<1> SUFFICES ASSUME InductiveInvariant, [Next]_vars PROVE InductiveInvariant'
  OBVIOUS
<1>1. CASE UNCHANGED vars
  <2>1. TypeOK' /\ TableSound' /\ TokensRunOut'
    BY <1>1, InvariantParts, TableKept, TokensKept DEF vars, tokens, TypeOK
  <2> QED BY <2>1 DEF InductiveInvariant, TableSound
<1>2. CASE Next
  BY <1>2, SeedKeeps, ServerStepsKeep, RegisterKeeps, TokenStepsKeep DEF Next
<1> QED BY <1>1, <1>2

----------------------------------------------------------------------------
(* The invariant of registration, seeding and tokens holds always.           *)
THEOREM InductiveInvariantHolds == Spec => []InductiveInvariant
  BY InitSound, StepKeeps, PTL DEF Spec

(* Rows, tokens and requests keep their types.                               *)
THEOREM TypeCorrect == Spec => []TypeOK
<1>1. InductiveInvariant => TypeOK
  BY DEF InductiveInvariant
<1> QED BY <1>1, InductiveInvariantHolds, PTL

(* However registrations and seeds race, no address has two users.           *)
THEOREM OneUserPerAddressHolds == Spec => []OneUserPerAddress
<1>1. InductiveInvariant => OneUserPerAddress
  BY DEF InductiveInvariant
<1> QED BY <1>1, InductiveInvariantHolds, PTL

(* 201 is only said of a stored customer, 409 only of an address in use.     *)
THEOREM AnswersAreTrueHolds == Spec => []AnswersAreTrue
<1>1. InductiveInvariant => AnswersAreTrue
  BY DEF InductiveInvariant
<1> QED BY <1>1, InductiveInvariantHolds, PTL

(* There is an agent whenever requests are served.                           *)
THEOREM AgentWhileServingHolds == Spec => []AgentWhileServing
<1>1. InductiveInvariant => AgentWhileServing
  <2> SUFFICES ASSUME SeededFirst, server = "up" PROVE AgentWhileServing
    BY DEF InductiveInvariant, AgentWhileServing
  <2>1. PICK a \in AgentAddresses : users[a] = [email |-> a, role |-> "AGENT"]
    BY DEF SeededFirst
  <2> QED BY <2>1, NoRowAssumption, AgentAssumption, AddressesAreNormal
          DEF AgentWhileServing, Ids, Rows
<1> QED BY <1>1, InductiveInvariantHolds, PTL

(* No request is accepted later than the two lifetimes after a login.        *)
THEOREM SessionsEndHolds == Spec => []SessionsEnd
<1>1. InductiveInvariant => SessionsEnd
  <2> SUFFICES ASSUME TypeOK, TokensRunOut, NEW i \in Ids, access[i] > 0
               PROVE  since[i] < RefreshLife + AccessLife
    BY DEF InductiveInvariant, SessionsEnd
  <2> QED BY LifeAssumption DEF TypeOK, TokensRunOut, Forever
<1> QED BY <1>1, InductiveInvariantHolds, PTL

----------------------------------------------------------------------------
(* Refinement: what each step is to the address book.                        *)
LEMMA RowsOfTable ==
  ASSUME NEW x \in Table
  PROVE  \E i \in Ids : x = Row(i) /\ users[i] # NoRow
  BY DEF Table

(* A stored user is a row of the book.                                       *)
LEMMA RowInTable ==
  ASSUME NEW i \in Ids, users[i] # NoRow
  PROVE  Row(i) \in Table
  BY DEF Table

(* An address is free in the book exactly if no row has it.                  *)
LEMMA FreeInBook ==
  ASSUME NEW a, ~Taken(a)
  PROVE  \A x \in Table : x.email # a
  BY RowsOfTable DEF Row, Taken

(* The initial states map to initial states.                                 *)
LEMMA InitRefines == Init => Book!Init
<1> SUFFICES ASSUME Init PROVE Book!Init
  OBVIOUS
<1>1. TypeOK
  BY InitSound DEF InductiveInvariant
<1>2. Asked \in [Requests -> Addresses]
  BY <1>1, AddressIsNormal DEF Asked
<1>3. Table = {} /\ Answers = [r \in Requests |-> "none"]
  BY DEF Init, Table, Answers
<1> QED BY <1>2, <1>3 DEF Book!Init

(* A step that changes no user and no answer is a stutter.                   *)
LEMMA BookUntouched ==
  ASSUME UNCHANGED <<users, wanted>>, Answers' = Answers
  PROVE  UNCHANGED Book!book
  BY DEF Book!book, Table, Row, Asked, Address

(* What is asked for follows from what the requests want.                    *)
LEMMA AskedUnchanged ==
  ASSUME UNCHANGED wanted
  PROVE  Asked' = Asked
  BY DEF Asked, Address

(* A row written under an unused id is the one row the book gains. *)
LEMMA TableGains ==
  ASSUME TypeOK, NEW i \in Ids, users[i] = NoRow, NEW row \in Rows,
         users' = [users EXCEPT ![i] = row]
  PROVE  Table' = Table \cup {[email |-> row.email, user |-> i, role |-> row.role]}
<1>1. /\ row # NoRow /\ users'[i] = row
      /\ \A j \in Ids \ {i} : users'[j] = users[j]
  BY NoRowAssumption DEF TypeOK
<1>2. /\ Row(i)' = [email |-> row.email, user |-> i, role |-> row.role]
      /\ \A j \in Ids \ {i} : Row(j)' = Row(j)
  BY <1>1 DEF Row
<1>3. \A x : x \in Table' <=> \E j \in Ids : users'[j] # NoRow /\ x = Row(j)'
  BY DEF Table
<1>4. \A x : x \in Table <=> \E j \in Ids : users[j] # NoRow /\ x = Row(j)
  BY DEF Table
<1> QED BY <1>1, <1>2, <1>3, <1>4

(* A seed gives away an agent's address, or does nothing.                    *)
LEMMA SeedRefines ==
  ASSUME InductiveInvariant, NEW a \in AgentAddresses, SeedAgent(a)
  PROVE  [Book!Next]_Book!book
<1>1. UNCHANGED wanted /\ Answers' = Answers
  BY DEF SeedAgent, Answers
<1>2. CASE Taken(a)
  BY <1>1, <1>2, BookUntouched DEF SeedAgent
<1>3. CASE ~Taken(a)
  <2> DEFINE row == [email |-> a, role |-> "AGENT"]
  <2>1. a \in Ids /\ row \in Rows /\ row.email = a /\ row.role = "AGENT"
    BY AgentAssumption, AddressesAreNormal DEF Ids, Rows
  <2>2. users[a] = NoRow
    <3> SUFFICES ASSUME users[a] # NoRow PROVE FALSE
      OBVIOUS
    <3>1. users[a].email = a
      BY <2>1 DEF InductiveInvariant, RowsAreNormalized
    <3> QED BY <1>3, <2>1, <3>1 DEF Taken
  <2>3. users' = [users EXCEPT ![a] = row]
    BY <1>3 DEF SeedAgent
  <2>4. Table' = Table \cup {Book!Agent(a)}
    <3> HIDE DEF row
    <3>1. Table' = Table \cup {[email |-> row.email, user |-> a, role |-> row.role]}
      BY <2>1, <2>2, <2>3, TableGains DEF InductiveInvariant
    <3> QED BY <2>1, <3>1 DEF Book!Agent
  <2>5. \A x \in Table : x.email # Book!Agent(a).email
    BY <1>3, FreeInBook DEF Book!Agent
  <2>6. Book!Seed(a)
    BY <1>1, <2>4, <2>5, AskedUnchanged DEF Book!Seed, Book!GiveAway
  <2> QED BY <2>6 DEF Book!Next
<1> QED BY <1>2, <1>3

(* The commit is where a registration gets its address.                      *)
LEMMA CommitRefines ==
  ASSUME InductiveInvariant, NEW r \in Requests, Commit(r)
  PROVE  Book!Next
<1>1. /\ step[r] = "inserted" /\ users[r] = NoRow /\ ~Taken(Address(r))
      /\ users' = [users EXCEPT ![r] = NewUser(r)] /\ wanted' = wanted
      /\ step' = [step EXCEPT ![r] = "committed"] /\ step \in [Requests -> Steps]
  BY DEF InductiveInvariant, TypeOK, InsertsExclude, Commit, Goes
<1>2. Answers' = Answers /\ Answers[r] = "none"
  BY <1>1 DEF Answers
<1>3. Book!Customer(r) = [email |-> Address(r), user |-> r, role |-> "CUSTOMER"]
  BY DEF Book!Customer, Asked
<1>4. Table' = Table \cup {Book!Customer(r)}
  <2>1. NewUser(r) \in Rows /\ r \in Ids
    BY NewUserIsRow DEF InductiveInvariant, Ids
  <2>2. Table' = Table \cup
           {[email |-> NewUser(r).email, user |-> r, role |-> NewUser(r).role]}
    BY <1>1, <2>1, TableGains DEF InductiveInvariant
  <2> QED BY <1>3, <2>2, NewUserIsRow DEF InductiveInvariant
<1>5. \A x \in Table : x.email # Book!Customer(r).email
  BY <1>1, <1>3, FreeInBook
<1>6. Book!Register(r)
  BY <1>1, <1>2, <1>4, <1>5, AskedUnchanged DEF Book!Register, Book!GiveAway
<1> QED BY <1>6 DEF Book!Next

(* A step of a registration that answers it.                                 *)
LEMMA AnswerGiven ==
  ASSUME TypeOK, NEW r \in Requests, NEW what \in {"created", "conflict", "failed"},
         step' = [step EXCEPT ![r] = what],
         step[r] \notin {"created", "conflict", "failed"},
         UNCHANGED <<users, wanted>>
  PROVE  /\ Answers[r] = "none" /\ Answers' = [Answers EXCEPT ![r] = what]
         /\ Table' = Table /\ Asked' = Asked
  BY AskedUnchanged DEF TypeOK, Answers, Table, Row

(* A step of a registration is one of the book's, or hidden.                 *)
LEMMA RegisterRefines ==
  ASSUME InductiveInvariant, NEW r \in Requests, Register(r)
  PROVE  [Book!Next]_Book!book
<1> USE DEF Goes
<1>1. CASE Commit(r)
  BY <1>1, CommitRefines
<1>2. CASE CheckFree(r) \/ Insert(r)
  <2>1. Answers' = Answers /\ UNCHANGED <<users, wanted>>
    BY <1>2 DEF CheckFree, Insert, Answers, InductiveInvariant, TypeOK
  <2> QED BY <2>1, BookUntouched
<1>3. CASE CheckTaken(r) \/ InsertViolates(r)
  <2>1. /\ Taken(Address(r)) /\ step[r] \in {"idle", "hashing"}
        /\ step' = [step EXCEPT ![r] = "conflict"] /\ UNCHANGED <<users, wanted>>
    BY <1>3 DEF CheckTaken, InsertViolates
  <2>2. users[r] = NoRow
    BY <2>1 DEF InductiveInvariant, InsertsExclude
  <2>3. PICK i \in Ids : users[i] # NoRow /\ users[i].email = Address(r)
    BY <2>1 DEF Taken
  <2>4. Row(i) \in Table /\ Row(i).email = Asked[r] /\ Row(i).user # r
    BY <2>2, <2>3, RowInTable DEF Row, Asked
  <2>5. Book!TurnDown(r)
    BY <2>1, <2>4, AnswerGiven DEF InductiveInvariant, Book!TurnDown, Book!Tell
  <2> QED BY <2>5 DEF Book!Next
<1>4. CASE Refresh(r)
  <2>1. /\ step[r] = "committed" /\ step' = [step EXCEPT ![r] = "created"]
        /\ UNCHANGED <<users, wanted>>
    BY <1>4 DEF Refresh
  <2>2. users[r] = NewUser(r) /\ r \in Ids
    BY <2>1 DEF InductiveInvariant, InsertsExclude, Ids
  <2>3. Book!Customer(r) \in Table
    <3>1. Book!Customer(r) = Row(r)
      BY <2>2 DEF Book!Customer, Asked, Row, NewUser
    <3> QED BY <2>2, <3>1, NewUserIsRow, RowInTable DEF InductiveInvariant
  <2>4. Book!Confirm(r)
    BY <2>1, <2>3, AnswerGiven DEF InductiveInvariant, Book!Confirm, Book!Tell
  <2> QED BY <2>4 DEF Book!Next
<1>5. CASE LoseConnection(r)
  <2>1. /\ step[r] \in {"idle", "hashing", "inserted", "committed"}
        /\ step' = [step EXCEPT ![r] = "failed"] /\ UNCHANGED <<users, wanted>>
    BY <1>5 DEF LoseConnection
  <2>2. /\ Answers[r] = "none" /\ Answers' = [Answers EXCEPT ![r] = "failed"]
        /\ Table' = Table /\ Asked' = Asked
    BY <2>1, AnswerGiven DEF InductiveInvariant
  <2>3. Book!GiveUp({r})
    BY <2>2 DEF Book!GiveUp, Answers
  <2> QED BY <2>3 DEF Book!Next
<1> QED BY <1>1, <1>2, <1>3, <1>4, <1>5 DEF Register

(* A stop leaves the requests under way unanswered.                          *)
LEMMA StopRefines ==
  ASSUME InductiveInvariant, Stop
  PROVE  Book!Next
<1> DEFINE lost == {r \in Requests : step[r] \in {"hashing", "inserted", "committed"}}
<1>1. Table' = Table /\ Asked' = Asked
  BY AskedUnchanged DEF Stop, Table, Row
<1>2. Answers' = [r \in Requests |-> IF r \in lost THEN "failed" ELSE Answers[r]]
  BY DEF Stop, Answers
<1>3. \A r \in lost : Answers[r] = "none"
  BY DEF Answers
<1>4. Book!GiveUp(lost)
  BY <1>1, <1>2, <1>3 DEF Book!GiveUp
<1> QED BY <1>4 DEF Book!Next

(* Every step maps to a step of the address book or to a stutter.            *)
LEMMA StepRefines ==
  ASSUME InductiveInvariant, [Next]_vars
  PROVE  [Book!Next]_Book!book
<1>1. ASSUME UNCHANGED <<users, step, wanted>>
      PROVE  UNCHANGED Book!book
  BY <1>1, BookUntouched DEF Answers
<1>2. CASE UNCHANGED vars
  BY <1>1, <1>2 DEF vars
<1>3. CASE Serve \/ Tick \/ \E i \in Ids : Login(i) \/ RefreshAccess(i)
  BY <1>1, <1>3 DEF Serve, Tick, Login, RefreshAccess
<1> QED BY <1>2, <1>3, SeedRefines, StopRefines, RegisterRefines DEF Next

(* Existence checks, hashing, unique index, seeds and restarts implement the *)
(* address book: an address is given away once and for all.                  *)
THEOREM Refinement == Spec => ImplementsAddressBook
  BY InitRefines, StepRefines, InductiveInvariantHolds, PTL
     DEF Spec, ImplementsAddressBook, Book!Spec

----------------------------------------------------------------------------
(* An account is for good: no step changes the address, the role or the id   *)
(* of a user that is there, so no seed takes an account over and no retry    *)
(* overwrites one. A user comes from a seed before the server is up, or from *)
(* the one INSERT its registration is committing.                            *)
RowChanges ==
  \A i \in Ids : users'[i] # users[i] =>
    /\ users[i] = NoRow
    /\ \/ i \in AgentAddresses /\ server = "down"
       \/ i \in Requests /\ step[i] = "inserted" /\ step'[i] = "committed"
AccountsNeverChange == [][RowChanges]_vars

(* An answer is for good, too: what a client was told of its registration is *)
(* not contradicted by a row that comes or goes afterwards.                  *)
Answered(r) == step[r] \in {"created", "conflict", "failed"}
AnswerChanges ==
  \A r \in Requests : Answered(r) => step'[r] = step[r] /\ users'[r] = users[r]
AnswersAreFinal == [][AnswerChanges]_vars

(* Only an address the operator configured is ever an agent's; a customer    *)
(* who took it first stays a customer, seed or no seed.                      *)
AgentsAreConfigured ==
  \A i \in Ids : users[i] # NoRow /\ users[i].role = "AGENT" =>
    i \in AgentAddresses /\ users[i].email = i

(* What a seed may write: nothing, or a row under an id that has none.       *)
LEMMA SeedWrites ==
  ASSUME InductiveInvariant, NEW a \in AgentAddresses, SeedAgent(a)
  PROVE  /\ \A i \in Ids \ {a} : users'[i] = users[i]
         /\ users'[a] # users[a] =>
              users[a] = NoRow /\ users'[a] = [email |-> a, role |-> "AGENT"]
<1>1. CASE Taken(a)
  BY <1>1 DEF SeedAgent
<1>2. CASE ~Taken(a)
  <2>1. a \in Ids
    BY DEF Ids
  <2>2. users[a] = NoRow
    <3> SUFFICES ASSUME users[a] # NoRow PROVE FALSE
      OBVIOUS
    <3>1. users[a] = [email |-> a, role |-> "AGENT"]
      BY <2>1 DEF InductiveInvariant, RowsAreNormalized
    <3>2. users[a].email = a
      BY <3>1
    <3> QED BY <1>2, <2>1, <3>2 DEF Taken
  <2>3. users' = [users EXCEPT ![a] = [email |-> a, role |-> "AGENT"]]
    BY <1>2 DEF SeedAgent
  <2> QED BY <2>1, <2>2, <2>3 DEF InductiveInvariant, TypeOK
<1> QED BY <1>1, <1>2

(* What a registration may do to the table and to other registrations. *)
LEMMA RegisterWrites ==
  ASSUME InductiveInvariant, NEW r \in Requests, Register(r)
  PROVE  /\ ~Answered(r)
         /\ \A q \in Requests \ {r} : step'[q] = step[q]
         /\ \/ users' = users
            \/ /\ step[r] = "inserted" /\ step'[r] = "committed"
               /\ users[r] = NoRow /\ users' = [users EXCEPT ![r] = NewUser(r)]
<1>1. /\ ~Answered(r)
      /\ \A q \in Requests \ {r} : step'[q] = step[q]
  BY DEF Register, CheckFree, CheckTaken, Insert, InsertViolates, Commit, Refresh,
     LoseConnection, Goes, Answered, InductiveInvariant, TypeOK
<1>2. CASE Commit(r)
  BY <1>1, <1>2 DEF Commit, Goes, InductiveInvariant, TypeOK, InsertsExclude
<1>3. CASE ~Commit(r)
  BY <1>1, <1>3 DEF Register, CheckFree, CheckTaken, Insert, InsertViolates,
     Refresh, LoseConnection
<1> QED BY <1>2, <1>3

(* Rows and answers are written once.                                        *)
THEOREM WrittenOnce == Spec => AccountsNeverChange /\ AnswersAreFinal
<1>1. InductiveInvariant /\ [Next]_vars => [RowChanges]_vars /\ [AnswerChanges]_vars
  <2> SUFFICES ASSUME InductiveInvariant, Next PROVE RowChanges /\ AnswerChanges
    OBVIOUS
  <2> USE DEF RowChanges, AnswerChanges
  <2>1. ASSUME NEW a \in AgentAddresses, SeedAgent(a)
        PROVE  RowChanges /\ AnswerChanges
    <3>1. /\ server = "down" /\ step' = step
          /\ \A r \in Requests : r \in Ids \ {a}
      BY <2>1, AgentAssumption DEF SeedAgent, Ids
    <3> QED BY <2>1, <3>1, SeedWrites
  <2>2. CASE Stop
    BY <2>2 DEF Stop, Answered
  <2>3. ASSUME NEW r \in Requests, Register(r)
        PROVE  RowChanges /\ AnswerChanges
    <3>1. \A i \in Ids \ {r} : users'[i] = users[i]
      BY <2>3, RegisterWrites DEF InductiveInvariant, TypeOK
    <3>2. \A q \in Requests : q \in Ids
      BY DEF Ids
    <3> QED BY <2>3, <3>1, <3>2, RegisterWrites
  <2>4. CASE Serve \/ Tick \/ \E i \in Ids : Login(i) \/ RefreshAccess(i)
    BY <2>4 DEF Serve, Tick, Login, RefreshAccess
  <2> QED BY <2>1, <2>2, <2>3, <2>4 DEF Next
<1> QED
  BY <1>1, InductiveInvariantHolds, PTL DEF Spec, AccountsNeverChange, AnswersAreFinal

(* Requests only ever make customers, whatever became of the request.        *)
CustomersRegister == \A r \in Requests : users[r] # NoRow => users[r].role = "CUSTOMER"

(* Every agent has a configured address.                                     *)
THEOREM AgentsAreConfiguredHolds == Spec => []AgentsAreConfigured
<1>1. Init => CustomersRegister
  BY DEF Init, CustomersRegister, Ids
<1>2. InductiveInvariant /\ CustomersRegister /\ [Next]_vars => CustomersRegister'
  <2> SUFFICES ASSUME InductiveInvariant, CustomersRegister, [Next]_vars
               PROVE  CustomersRegister'
    OBVIOUS
  <2>1. ASSUME users' = users PROVE CustomersRegister'
    BY <2>1 DEF CustomersRegister
  <2>2. ASSUME NEW a \in AgentAddresses, SeedAgent(a) PROVE CustomersRegister'
    <3>1. \A r \in Requests : r \in Ids \ {a}
      BY AgentAssumption DEF Ids
    <3> QED BY <2>2, <3>1, SeedWrites DEF CustomersRegister
  <2>3. ASSUME NEW r \in Requests, Register(r) PROVE CustomersRegister'
    <3>1. CASE users' = users
      BY <2>1, <3>1
    <3>2. CASE users' = [users EXCEPT ![r] = NewUser(r)]
      <4>1. \A q \in Requests : users'[q] = IF q = r THEN NewUser(r) ELSE users[q]
        BY <3>2 DEF InductiveInvariant, TypeOK, Ids
      <4> QED BY <4>1 DEF CustomersRegister, NewUser
    <3> QED BY <2>3, <3>1, <3>2, RegisterWrites
  <2>4. CASE UNCHANGED vars
    BY <2>1, <2>4 DEF vars
  <2>5. CASE Serve \/ Stop \/ Tick \/ \E i \in Ids : Login(i) \/ RefreshAccess(i)
    BY <2>1, <2>5 DEF Serve, Stop, Tick, Login, RefreshAccess
  <2> QED BY <2>2, <2>3, <2>4, <2>5 DEF Next
<1>3. InductiveInvariant /\ CustomersRegister => AgentsAreConfigured
  <2> SUFFICES ASSUME InductiveInvariant, CustomersRegister, NEW i \in Ids,
                      users[i] # NoRow, users[i].role = "AGENT"
               PROVE  i \in AgentAddresses /\ users[i].email = i
    BY DEF AgentsAreConfigured
  <2>1. i \in AgentAddresses
    BY DEF CustomersRegister, Ids
  <2>2. users[i] = [email |-> i, role |-> "AGENT"]
    BY <2>1 DEF InductiveInvariant, RowsAreNormalized
  <2>3. users[i].email = i
    BY <2>2
  <2> QED BY <2>1, <2>3
<1> QED BY <1>1, <1>2, <1>3, InductiveInvariantHolds, PTL DEF Spec
=============================================================================
