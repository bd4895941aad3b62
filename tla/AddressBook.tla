----------------------------- MODULE AddressBook -----------------------------
(* What the users table promises: an address is given away once, in one      *)
(* indivisible step, and an account once made is never changed or removed.   *)
(* A request for an address is answered once: with the account that is its   *)
(* own, with the fact that somebody else has the address, or not at all.     *)
(* There are no sessions, restarts, spellings or races here.                 *)
CONSTANTS
  Requests,       \* registrations, one account each at most
  Addresses,      \* normalized addresses
  AgentAddresses  \* those an agent's account may be made for

VARIABLES
  accounts,     \* the rows of the table
  address,      \* address[r]: the one r asks for
  answer        \* answer[r]: what r was told, or none yet

book == <<accounts, address, answer>>

Customer(r) == [email |-> address[r], user |-> r, role |-> "CUSTOMER"]
Agent(a) == [email |-> a, user |-> a, role |-> "AGENT"]

Init ==
  /\ accounts = {}
  /\ address \in [Requests -> Addresses]
  /\ answer = [r \in Requests |-> "none"]

GiveAway(row) ==
  /\ \A other \in accounts : other.email # row.email
  /\ accounts' = accounts \cup {row}
  /\ UNCHANGED <<address, answer>>

(* Nothing is made for a request that has been answered. *)
Register(r) == answer[r] = "none" /\ GiveAway(Customer(r))

Seed(a) == GiveAway(Agent(a))

Tell(r, what) ==
  /\ answer[r] = "none"
  /\ answer' = [answer EXCEPT ![r] = what]
  /\ UNCHANGED <<accounts, address>>

Confirm(r) == Customer(r) \in accounts /\ Tell(r, "created")

TurnDown(r) ==
  /\ \E other \in accounts : other.email = address[r] /\ other.user # r
  /\ Tell(r, "conflict")

(* No answer, to one request or to all a stop of the server interrupts;      *)
(* nothing is said of whether their accounts are there.                      *)
GiveUp(lost) ==
  /\ \A r \in lost : answer[r] = "none"
  /\ answer' = [r \in Requests |-> IF r \in lost THEN "failed" ELSE answer[r]]
  /\ UNCHANGED <<accounts, address>>

Next ==
  \/ \E r \in Requests : Register(r) \/ Confirm(r) \/ TurnDown(r)
  \/ \E a \in AgentAddresses : Seed(a)
  \/ \E lost \in SUBSET Requests : GiveUp(lost)

Spec == Init /\ [][Next]_book
=============================================================================
