---------------------------- MODULE TicketStore ----------------------------
(* The mutating ticket and comment requests over PostgreSQL, statement by    *)
(* statement: the locking SELECT, the commit, and the separate SELECT of     *)
(* session.refresh that runs after the commit has given up the row lock.     *)
(* Any number of requests are in flight at once, each with its own session   *)
(* and, while its transaction lasts, a connection of the shared pool;        *)
(* sessions interleave at every await, and a connection may be lost between  *)
(* any two statements.                                                       *)
EXTENDS Tickets, Naturals, FiniteSets

CONSTANTS
  TicketIds,    \* ids uuid4() may draw, or a client may name
  Customers,    \* users whose role is CUSTOMER
  Agents,       \* users whose role is AGENT
  Fields,       \* the columns TicketUpdateRequest can name
  Requests,     \* HTTP requests; each is made once, which bounds the run
  PoolSize,     \* connections of the engine's pool, overflow included
  Original,     \* content written before the run began
  Nobody,       \* "no request holds the row lock"
  NoCall        \* the call of a request that was not made yet

Users == Customers \cup Agents

(* What an authenticated client can ask for after the role dependencies      *)
(* (require_customer, require_agent) and the schemas have let it through:    *)
(* a PATCH names at least one column, a status is any TicketStatus.          *)
Call ==
  [op : {"create", "update", "delete", "status", "comment"}, user : Users,
   ticket : TicketIds, target : Status, fields : SUBSET Fields]

PermittedCalls ==
  {c \in Call :
     /\ c.op \in {"create", "update", "delete"} => c.user \in Customers
     /\ c.op = "status" => c.user \in Agents
     /\ c.op # "status" => c.target = "OPEN"
     /\ c.op # "update" => c.fields = Fields
     /\ c.fields # {}}

ASSUME StoreAssumption ==
  /\ Customers \cap Agents = {}
  /\ Fields # {}
  /\ Nobody \notin Requests
  /\ Original \notin Requests
  /\ NoCall \notin Call
  /\ PoolSize \in Nat \ {0}

Stages == {"idle", "queued", "arrived", "holding", "committed", "answered"}
Outcomes == {"none", "ok", "conflict", "not_found", "error"}

VARIABLES
  status,       \* status[t]: the committed status column, or why t has no row
  owner,        \* owner[t]: the committed customer_id column
  content,      \* content[t][f]: the request whose value column f holds
  comments,     \* the committed rows of comments; the id names the request
  locked,       \* locked[t]: the request holding the row lock of t
  pc,           \* pc[r]: how far the handler of r has come
  call,         \* call[r]: what r asks for
  before,       \* before[r]: old_status, read under the lock
  after,        \* after[r]: ticket.status as session.refresh left it
  outcome,      \* outcome[r]: what the client was answered
  landed        \* history: the requests whose commit took effect

tables == <<status, owner, content, comments>>
vars == <<tables, locked, pc, call, before, after, outcome, landed>>

Comment ==
  [id : Requests, ticket : TicketIds, author : Users,
   author_role : {"CUSTOMER", "AGENT"}]

TypeOK ==
  /\ status \in [TicketIds -> Status \cup NoRow]
  /\ owner \in [TicketIds -> Customers]
  /\ content \in [TicketIds -> [Fields -> Requests \cup {Original}]]
  /\ comments \subseteq Comment
  /\ locked \in [TicketIds -> Requests \cup {Nobody}]
  /\ pc \in [Requests -> Stages]
  /\ call \in [Requests -> PermittedCalls \cup {NoCall}]
  /\ \A r \in Requests : pc[r] # "idle" => call[r] # NoCall
  /\ before \in [Requests -> Status \cup {"none"}]
  /\ after \in [Requests -> Status \cup {"none"}]
  /\ outcome \in [Requests -> Outcomes]
  /\ landed \subseteq Requests

----------------------------------------------------------------------------
(* The tables may hold tickets of any status, and ids may already be gone.   *)
Init ==
  /\ status \in [TicketIds -> Status \cup NoRow]
  /\ owner \in [TicketIds -> Customers]
  /\ content = [t \in TicketIds |-> [f \in Fields |-> Original]]
  /\ comments = {}
  /\ locked = [t \in TicketIds |-> Nobody]
  /\ pc = [r \in Requests |-> "idle"]
  /\ call = [r \in Requests |-> NoCall]
  /\ before = [r \in Requests |-> "none"]
  /\ after = [r \in Requests |-> "none"]
  /\ outcome = [r \in Requests |-> "none"]
  /\ landed = {}

(* uuid4() draws an id that no row has, had, or is about to get. *)
Fresh(t) ==
  /\ status[t] = "unused"
  /\ \A q \in Requests : pc[q] # "idle" /\ call[q].op = "create" =>
                           call[q].ticket # t

(* The WHERE clause of the locking SELECT: agents see every row, customers   *)
(* only their own.                                                           *)
Accessible(u, t) ==
  /\ status[t] \in Status
  /\ u \in Agents \/ owner[t] = u

(* As Allowed, had the next status been looked up for the new one and the    *)
(* OPEN rule of delete been forgotten.                                       *)
AllowedBackwards(r) ==
  CASE call[r].op = "update" -> before[r] = "OPEN"
    [] call[r].op = "status" -> before[r] = AllowedNext[call[r].target]
    [] OTHER -> TRUE

(* As Allowed, had delete only refused what is closed. *)
AllowedDelete(r) ==
  CASE call[r].op = "update" -> before[r] = "OPEN"
    [] call[r].op = "delete" -> before[r] # "CLOSED"
    [] call[r].op = "status" -> call[r].target = AllowedNext[before[r]]
    [] OTHER -> TRUE

(* The rules a locked row must pass: _require_open for the customer's edits, *)
(* exactly the next status for the agent's, nothing for a comment.           *)
Allowed(r) ==
  CASE call[r].op \in {"update", "delete"} -> before[r] = "OPEN"
    [] call[r].op = "status" -> call[r].target = AllowedNext[before[r]]
    [] OTHER -> TRUE

Advances(r, from, to) == pc[r] = from /\ pc' = [pc EXCEPT ![r] = to]

Answer(r, from, result) ==
  /\ Advances(r, from, "answered")
  /\ outcome' = [outcome EXCEPT ![r] = result]

(* Ending the transaction releases the row lock it took, if it took one. *)
EndTransaction(r) ==
  locked' = [t \in TicketIds |-> IF locked[t] = r THEN Nobody ELSE locked[t]]

(* session.commit() succeeded: the transaction is over, the request is not. *)
Commit(r) ==
  /\ EndTransaction(r)
  /\ landed' = landed \cup {r}
  /\ UNCHANGED <<call, before, after, outcome>>

(* A transaction has a connection from its first statement, the SELECT of    *)
(* the user, to its end: a request that waits for a row lock keeps it.       *)
Connected == {r \in Requests : pc[r] \in {"arrived", "holding"}}
ConnectionFree == Cardinality(Connected) < PoolSize

Arrive(r) ==
  /\ Advances(r, "idle", IF ConnectionFree THEN "arrived" ELSE "queued")
  /\ \E c \in PermittedCalls :
       /\ c.op = "create" => Fresh(c.ticket)
       /\ call' = [call EXCEPT ![r] = c]
  /\ UNCHANGED <<tables, locked, before, after, outcome, landed>>

(* The pool hands out a connection that was given back, or gives up after 30 *)
(* seconds: a 500, and nothing is changed.                                   *)
Connect(r) ==
  /\ ConnectionFree
  /\ Advances(r, "queued", "arrived")
  /\ UNCHANGED <<tables, locked, call, before, after, outcome, landed>>

ConnectTimesOut(r) ==
  /\ ~ConnectionFree
  /\ Answer(r, "queued", "error")
  /\ UNCHANGED <<tables, locked, call, before, after, landed>>

----------------------------------------------------------------------------
(* POST /tickets: INSERT and COMMIT of a new OPEN row; there is no row to    *)
(* lock and nothing to compete with.                                         *)
CreateTicket(r) ==
  LET t == call[r].ticket IN
  /\ Advances(r, "arrived", "committed")
  /\ call[r].op = "create"
  /\ status' = [status EXCEPT ![t] = "OPEN"]
  /\ owner' = [owner EXCEPT ![t] = call[r].user]
  /\ content' = [content EXCEPT ![t] = [f \in Fields |-> r]]
  /\ UNCHANGED comments
  /\ Commit(r)

(* As SelectForUpdate, had for_update been forgotten: a plain SELECT. *)
SelectWithoutLock(r) ==
  /\ Advances(r, "arrived", "holding")
  /\ call[r].op # "create"
  /\ Accessible(call[r].user, call[r].ticket)
  /\ before' = [before EXCEPT ![r] = status[call[r].ticket]]
  /\ UNCHANGED <<tables, locked, call, after, outcome, landed>>

(* SELECT ... FOR UPDATE returns the row once no other transaction has it;   *)
(* a waiter that gets through reads the row as the last commit left it.      *)
SelectForUpdate(r) ==
  LET t == call[r].ticket IN
  /\ Advances(r, "arrived", "holding")
  /\ call[r].op # "create"
  /\ Accessible(call[r].user, t)
  /\ locked[t] = Nobody
  /\ locked' = [locked EXCEPT ![t] = r]
  /\ before' = [before EXCEPT ![r] = status[t]]
  /\ UNCHANGED <<tables, call, after, outcome, landed>>

(* The same SELECT returns nothing: no row, or none the user may see. *)
TicketNotFound(r) ==
  /\ Answer(r, "arrived", "not_found")
  /\ call[r].op # "create"
  /\ ~Accessible(call[r].user, call[r].ticket)
  /\ UNCHANGED <<tables, locked, call, before, after, landed>>

(* As TicketStateError, had the refusal left the transaction open. *)
RefuseKeepingLock(r) ==
  /\ Answer(r, "holding", "conflict")
  /\ ~Allowed(r)
  /\ UNCHANGED <<tables, locked, call, before, after, landed>>

(* The row's status forbids the call: 409, and closing the session rolls     *)
(* the transaction back.                                                     *)
TicketStateError(r) ==
  /\ Answer(r, "holding", "conflict")
  /\ ~Allowed(r)
  /\ EndTransaction(r)
  /\ UNCHANGED <<tables, call, before, after, landed>>

(* As UpdateOpenTicket, had the whole row been written back. *)
UpdateWholeTicket(r) ==
  /\ Advances(r, "holding", "committed")
  /\ call[r].op = "update"
  /\ Allowed(r)
  /\ content' = [content EXCEPT ![call[r].ticket] =
       [f \in Fields |-> IF f \in call[r].fields THEN r ELSE Original]]
  /\ UNCHANGED <<status, owner, comments>>
  /\ Commit(r)

(* PATCH /tickets/{id}: only the columns the request names are written. *)
UpdateOpenTicket(r) ==
  LET t == call[r].ticket IN
  /\ Advances(r, "holding", "committed")
  /\ call[r].op = "update"
  /\ Allowed(r)
  /\ content' = [content EXCEPT ![t] =
       [f \in Fields |-> IF f \in call[r].fields THEN r ELSE content[t][f]]]
  /\ UNCHANGED <<status, owner, comments>>
  /\ Commit(r)

(* As DeleteOpenTicket, had comments.ticket_id been no foreign key at all: a *)
(* key that only lacks ON DELETE CASCADE would make the DELETE fail.         *)
DeleteOnlyTicket(r) ==
  /\ Advances(r, "holding", "committed")
  /\ call[r].op = "delete"
  /\ Allowed(r)
  /\ status' = [status EXCEPT ![call[r].ticket] = "deleted"]
  /\ UNCHANGED <<owner, content, comments>>
  /\ Commit(r)

(* DELETE /tickets/{id}: the foreign key's ON DELETE CASCADE takes the       *)
(* comments with the row.                                                    *)
DeleteOpenTicket(r) ==
  LET t == call[r].ticket IN
  /\ Advances(r, "holding", "committed")
  /\ call[r].op = "delete"
  /\ Allowed(r)
  /\ status' = [status EXCEPT ![t] = "deleted"]
  /\ comments' = {c \in comments : c.ticket # t}
  /\ UNCHANGED <<owner, content>>
  /\ Commit(r)

(* As ChangeTicketStatus, had it taken the next status on trust. *)
ChangeToNextStatus(r) ==
  /\ Advances(r, "holding", "committed")
  /\ call[r].op = "status"
  /\ status' = [status EXCEPT ![call[r].ticket] = AllowedNext[before[r]]]
  /\ UNCHANGED <<owner, content, comments>>
  /\ Commit(r)

(* PATCH /tickets/{id}/status. *)
ChangeTicketStatus(r) ==
  /\ Advances(r, "holding", "committed")
  /\ call[r].op = "status"
  /\ Allowed(r)
  /\ status' = [status EXCEPT ![call[r].ticket] = call[r].target]
  /\ UNCHANGED <<owner, content, comments>>
  /\ Commit(r)

(* POST /tickets/{id}/comments, in any status of the ticket. *)
CreateComment(r) ==
  /\ Advances(r, "holding", "committed")
  /\ call[r].op = "comment"
  /\ Allowed(r)
  /\ comments' = comments \cup
       {[id |-> r, ticket |-> call[r].ticket, author |-> call[r].user,
         author_role |-> IF call[r].user \in Agents THEN "AGENT"
                                                    ELSE "CUSTOMER"]}
  /\ UNCHANGED <<status, owner, content>>
  /\ Commit(r)

----------------------------------------------------------------------------
(* The row session.refresh re-reads is still there: the comment for a        *)
(* comment, the ticket otherwise.                                            *)
Refreshable(r) ==
  IF call[r].op = "comment" THEN \E c \in comments : c.id = r
                            ELSE status[call[r].ticket] \in Status

(* session.refresh: a new SELECT, on a connection taken anew and without a   *)
(* lock, of whatever is committed by now.                                    *)
Refresh(r) ==
  /\ Answer(r, "committed", "ok")
  /\ call[r].op # "delete"
  /\ ConnectionFree
  /\ Refreshable(r)
  /\ after' = IF call[r].op = "comment" THEN after
               ELSE [after EXCEPT ![r] = status[call[r].ticket]]
  /\ UNCHANGED <<tables, locked, call, before, landed>>

(* The row went away after the commit (InvalidRequestError), or the pool had *)
(* no connection for 30 seconds: answered 500.                               *)
RefreshFails(r) ==
  /\ Answer(r, "committed", "error")
  /\ call[r].op # "delete"
  /\ ~Refreshable(r) \/ ~ConnectionFree
  /\ UNCHANGED <<tables, locked, call, before, after, landed>>

(* delete_open_ticket has no object left to refresh. *)
FinishDelete(r) ==
  /\ Answer(r, "committed", "ok")
  /\ call[r].op = "delete"
  /\ UNCHANGED <<tables, locked, call, before, after, landed>>

(* The connection or the process is lost: PostgreSQL rolls back what was not *)
(* committed; what was committed stays, although the client sees an error.   *)
LoseConnection(r) ==
  /\ \E from \in {"queued", "arrived", "holding", "committed"} :
       Answer(r, from, "error")
  /\ EndTransaction(r)
  /\ UNCHANGED <<tables, call, before, after, landed>>

Handle(r) ==
  \/ Connect(r)
  \/ ConnectTimesOut(r)
  \/ CreateTicket(r)
  \/ SelectForUpdate(r)
  \/ TicketNotFound(r)
  \/ TicketStateError(r)
  \/ UpdateOpenTicket(r)
  \/ DeleteOpenTicket(r)
  \/ ChangeTicketStatus(r)
  \/ CreateComment(r)
  \/ Refresh(r)
  \/ RefreshFails(r)
  \/ FinishDelete(r)

Next == \E r \in Requests : Arrive(r) \/ Handle(r) \/ LoseConnection(r)

Spec == Init /\ [][Next]_vars

(* A handler that has a step to take takes it, and PostgreSQL grants a row   *)
(* lock that stays free; clients need not call and connections need not fail. *)
FairSpec == Spec /\ \A r \in Requests : WF_vars(Handle(r))

----------------------------------------------------------------------------
(* To everyone who reads committed rows, the requests look like the          *)
(* indivisible operations of TicketLifecycle: edits and deletions only while *)
(* OPEN and only by the owner, one workflow step at a time, columns of       *)
(* concurrent PATCHes never lost, nothing done twice.                        *)
Lifecycle ==
  INSTANCE TicketLifecycle WITH Texts <- Requests \cup {Original},
                                CommentIds <- Requests
ImplementsLifecycle == Lifecycle!Spec

(* What a handler read is still so when it acts on it: between its locking   *)
(* SELECT and its commit, the ticket keeps the status the handler saw and    *)
(* the user keeps the access the handler checked.                            *)
JudgedOnCurrentRow ==
  \A r \in Requests : pc[r] = "holding" =>
    /\ before[r] = status[call[r].ticket]
    /\ Accessible(call[r].user, call[r].ticket)

(* Of the agents who race to move one ticket to one status, at most one      *)
(* commits, even if its client was told otherwise.                           *)
OneWinner ==
  \A r, q \in landed :
    /\ call[r].op = "status" /\ call[q].op = "status"
    /\ call[r].ticket = call[q].ticket
    /\ call[r].target = call[q].target
    => r = q

(* An acknowledged status change reports a move forward in the workflow: the *)
(* status re-read after the lock is gone is the target or a later one.       *)
ReportedChangeMovesForward ==
  \A r \in Requests : outcome[r] = "ok" /\ call[r].op = "status" =>
    /\ after[r] \in Status
    /\ Rank[before[r]] < Rank[call[r].target]
    /\ Rank[call[r].target] <= Rank[after[r]]

(* The refresh after a status change always finds its row: a ticket that has *)
(* left OPEN can no longer be deleted, so the change is never answered with  *)
(* the 500 an edit or a comment may get because its row is gone.             *)
StatusChangeKeepsItsRow ==
  \A r \in Requests :
    pc[r] = "committed" /\ call[r].op = "status" => Refreshable(r)

(* No comment outlives its ticket, whichever of delete and comment wins. *)
CommentsHaveTickets == \A c \in comments : status[c.ticket] \in Status

(* Requests that reached the server are answered: nobody waits for ever for  *)
(* a row lock or a connection, although those who wait for the lock keep the *)
(* connections others wait for, and a refusal gives both back. As no request *)
(* is made twice, it is enough that again and again nobody is left waiting.  *)
EveryRequestAnswered ==
  []<>(\A r \in Requests : pc[r] \in {"idle", "answered"})

(* What makes the properties above inductive. A row lock is held exactly by  *)
(* the request that is between its locking SELECT and the end of its         *)
(* transaction.                                                              *)
LockDiscipline ==
  \A r \in Requests, t \in TicketIds :
    locked[t] = r <=> pc[r] = "holding" /\ call[r].ticket = t

(* The ids drawn for rows that are not inserted yet stay free and distinct. *)
IdsAreFresh ==
  \A r \in Requests : pc[r] \in {"queued", "arrived"} /\ call[r].op = "create" =>
    /\ status[call[r].ticket] = "unused"
    /\ \A q \in Requests :
         /\ pc[q] \in {"queued", "arrived"} /\ call[q].op = "create"
         /\ call[q].ticket = call[r].ticket
         => q = r

(* A request takes effect once, at its commit, and is acknowledged only then. *)
EffectAtCommit ==
  \A r \in Requests :
    /\ pc[r] \in {"idle", "queued", "arrived", "holding"} =>
         r \notin landed /\ outcome[r] = "none"
    /\ pc[r] = "committed" => r \in landed /\ outcome[r] = "none"
    /\ outcome[r] = "ok" => r \in landed

(* A status change that took effect was one step of the workflow, and its    *)
(* ticket has not gone back, or away, since.                                 *)
WorkflowOnlyAdvances ==
  \A r \in landed : call[r].op = "status" =>
    /\ before[r] \in Status
    /\ call[r].target = AllowedNext[before[r]]
    /\ status[call[r].ticket] \in Status
    /\ Rank[call[r].target] <= Rank[status[call[r].ticket]]

(* Every comment was left by a comment request that took effect. *)
CommentsWereMade == \A c \in comments : c.id \in landed

InductiveInvariant ==
  /\ TypeOK
  /\ LockDiscipline
  /\ JudgedOnCurrentRow
  /\ IdsAreFresh
  /\ EffectAtCommit
  /\ WorkflowOnlyAdvances
  /\ OneWinner
  /\ CommentsWereMade
  /\ CommentsHaveTickets

(* TicketStatusChange, "a committed status mutation and the state it         *)
(* replaced": the pair an acknowledged change publishes is one workflow      *)
(* step. The code does not keep this: refresh may read a later status.       *)
ReportedChangeIsOneTransition ==
  \A r \in Requests : outcome[r] = "ok" /\ call[r].op = "status" =>
    after[r] = AllowedNext[before[r]]
=============================================================================
