------------------------- MODULE TicketStoreProofs -------------------------
(* Theorems about TicketStore for any number of tickets, users and requests. *)
(* Each invariant is proved from the ones before it, one step per action.    *)
EXTENDS TicketStore, TLAPS

(* The fields of a permitted call have the types their uses rely on. *)
LEMMA CallType ==
  ASSUME NEW c \in PermittedCalls
  PROVE  /\ c \in Call
         /\ c.op \in {"create", "update", "delete", "status", "comment"}
         /\ c.user \in Customers \cup Agents
         /\ c.op \in {"create", "update", "delete"} => c.user \in Customers
         /\ c.op = "status" => c.user \in Agents
         /\ c.ticket \in TicketIds
         /\ c.target \in Status
         /\ c.fields \in SUBSET Fields
  BY DEF PermittedCalls, Call, Users

(* The workflow table moves one rank up, and only CLOSED has no successor. *)
LEMMA Workflow ==
  /\ \A s \in Status : Rank[s] \in Nat
  /\ \A s \in Status : AllowedNext[s] \in Status => Rank[AllowedNext[s]] = Rank[s] + 1
  /\ \A s \in Status : AllowedNext[s] \in Status <=> s # "CLOSED"
  /\ \A s \in Status : AllowedNext[s] # "OPEN"
  BY DEF Status, Rank, AllowedNext

(* A request that has arrived has a call, and the call is permitted. *)
LEMMA CallOfRequest ==
  ASSUME TypeOK, NEW r \in Requests, pc[r] # "idle"
  PROVE  call[r] \in PermittedCalls
  BY DEF TypeOK

(* Only a request that has arrived is handled. *)
LEMMA HandlersHaveCalls ==
  ASSUME NEW r \in Requests, Handle(r) \/ LoseConnection(r)
  PROVE  pc[r] # "idle"
  BY DEF Handle, Connect, ConnectTimesOut, CreateTicket, SelectForUpdate, TicketNotFound,
     TicketStateError, UpdateOpenTicket, DeleteOpenTicket,
     ChangeTicketStatus, CreateComment, Refresh, RefreshFails,
     FinishDelete, LoseConnection, Advances, Answer

----------------------------------------------------------------------------
(* Type correctness: in particular, no status change ever writes "none",     *)
(* what follows CLOSED in the workflow table, to the status column.          *)
THEOREM TypeCorrect == Spec => []TypeOK
<1>1. Init => TypeOK
  BY DEF Init, TypeOK, Stages, Outcomes
<1>2. TypeOK /\ [Next]_vars => TypeOK'
  <2> SUFFICES ASSUME TypeOK, [Next]_vars PROVE TypeOK'
    OBVIOUS
  <2>1. CASE UNCHANGED vars
    BY <2>1 DEF TypeOK, vars, tables
  <2>2. ASSUME NEW r \in Requests, Arrive(r) PROVE TypeOK'
    <3>1. NoCall \notin PermittedCalls
      BY StoreAssumption DEF PermittedCalls
    <3> QED
      BY <2>2, <3>1 DEF TypeOK, Arrive, Advances, tables, Stages
  <2>3. ASSUME NEW r \in Requests, pc[r] # "idle", Handle(r) \/ LoseConnection(r)
        PROVE  TypeOK'
    <3> DEFINE t == call[r].ticket
    <3>1. /\ call[r] \in PermittedCalls
          /\ t \in TicketIds
          /\ call[r].user \in Users
          /\ call[r].target \in Status
          /\ call[r].fields \in SUBSET Fields
          /\ call[r].op = "create" => call[r].user \in Customers
      BY <2>3, CallOfRequest, CallType DEF Users
    <3> HIDE DEF t
    <3> USE DEF TypeOK, Advances, Answer, EndTransaction, Commit, tables,
                Stages, Outcomes
    <3>2. CASE CreateTicket(r)
      <4>1. [f \in Fields |-> r] \in [Fields -> Requests \cup {Original}]
        OBVIOUS
      <4>2. /\ status' \in [TicketIds -> Status \cup NoRow]
            /\ owner' \in [TicketIds -> Customers]
            /\ content' \in [TicketIds -> [Fields -> Requests \cup {Original}]]
        BY <3>1, <3>2, <4>1 DEF CreateTicket, t, Status
      <4> QED
        BY <3>1, <3>2, <4>2 DEF CreateTicket
    <3>3. CASE SelectForUpdate(r)
      BY <3>1, <3>3 DEF SelectForUpdate, Accessible, t
    <3>4. CASE TicketNotFound(r)
      BY <3>1, <3>4 DEF TicketNotFound
    <3>5. CASE TicketStateError(r)
      BY <3>1, <3>5 DEF TicketStateError
    <3>6. CASE UpdateOpenTicket(r)
      BY <3>1, <3>6 DEF UpdateOpenTicket, t
    <3>7. CASE DeleteOpenTicket(r)
      BY <3>1, <3>7 DEF DeleteOpenTicket, NoRow, t
    <3>8. CASE ChangeTicketStatus(r)
      BY <3>1, <3>8 DEF ChangeTicketStatus
    <3>9. CASE CreateComment(r)
      <4> DEFINE role == IF call[r].user \in Agents THEN "AGENT" ELSE "CUSTOMER"
                 row == [id |-> r, ticket |-> t, author |-> call[r].user,
                         author_role |-> role]
      <4>1. row \in Comment
        BY <3>1 DEF Comment
      <4>2. comments' \subseteq Comment
        BY <3>9, <4>1 DEF CreateComment, t
      <4> QED
        BY <3>1, <3>9, <4>2 DEF CreateComment
    <3>10. CASE Refresh(r)
      BY <3>1, <3>10 DEF Refresh, Refreshable
    <3>0. CASE Connect(r) \/ ConnectTimesOut(r)
      BY <3>1, <3>0 DEF Connect, ConnectTimesOut
    <3>11. CASE RefreshFails(r)
      BY <3>1, <3>11 DEF RefreshFails
    <3>12. CASE FinishDelete(r)
      BY <3>1, <3>12 DEF FinishDelete
    <3>13. CASE LoseConnection(r)
      BY <3>1, <3>13 DEF LoseConnection
    <3> QED
      BY <2>3, <3>0, <3>2, <3>3, <3>4, <3>5, <3>6, <3>7, <3>8, <3>9,
         <3>10, <3>11, <3>12, <3>13 DEF Handle
  <2> QED
    BY <2>1, <2>2, <2>3, HandlersHaveCalls DEF Next
<1> QED
  BY <1>1, <1>2, PTL DEF Spec

----------------------------------------------------------------------------
(* The row locks do their work: they are held exactly from the locking       *)
(* SELECT to the end of the transaction, so what a handler read is still     *)
(* true when it commits. Id freshness is needed along the way: an INSERT     *)
(* must not write over a row somebody holds.                                 *)
Locking == LockDiscipline /\ JudgedOnCurrentRow /\ IdsAreFresh

(* The commits that write the status column: they leave the rows that others *)
(* hold, and the ids that others drew, as they were.                         *)
LEMMA StatusCommit ==
  ASSUME TypeOK, Locking, NEW r \in Requests, NEW t \in TicketIds,
         pc[r] \in {"arrived", "holding"},
         pc' = [pc EXCEPT ![r] = "committed"],
         EndTransaction(r), call' = call, before' = before,
         \A x \in TicketIds \ {t} : status'[x] = status[x] /\ owner'[x] = owner[x],
         \A q \in Requests : q # r /\ pc[q] = "holding" => call[q].ticket # t,
         \A q \in Requests :
           q # r /\ pc[q] \in {"queued", "arrived"} /\ call[q].op = "create" =>
             call[q].ticket # t
  PROVE  Locking'
<1>1. LockDiscipline'
  BY StoreAssumption DEF Locking, LockDiscipline, TypeOK, EndTransaction
<1>2. JudgedOnCurrentRow'
  <2> SUFFICES ASSUME NEW q \in Requests, pc'[q] = "holding"
               PROVE  /\ before'[q] = status'[call'[q].ticket]
                      /\ status'[call'[q].ticket] \in Status
                      /\ call'[q].user \in Agents \/ owner'[call'[q].ticket] = call'[q].user
    BY DEF JudgedOnCurrentRow, Accessible
  <2>1. q # r /\ pc[q] = "holding"
    BY DEF TypeOK
  <2>2. call[q].ticket \in TicketIds \ {t}
    BY <2>1, CallOfRequest, CallType
  <2>3. /\ before[q] = status[call[q].ticket]
        /\ Accessible(call[q].user, call[q].ticket)
    BY <2>1 DEF Locking, JudgedOnCurrentRow
  <2>4. /\ status'[call[q].ticket] = status[call[q].ticket]
        /\ owner'[call[q].ticket] = owner[call[q].ticket]
    BY <2>2
  <2> QED
    BY <2>3, <2>4 DEF Accessible
<1>3. IdsAreFresh'
  <2> SUFFICES ASSUME NEW q \in Requests, pc'[q] \in {"queued", "arrived"},
                      call[q].op = "create"
               PROVE  /\ status'[call[q].ticket] = "unused"
                      /\ \A p \in Requests :
                           /\ pc'[p] \in {"queued", "arrived"} /\ call[p].op = "create"
                           /\ call[p].ticket = call[q].ticket
                           => p = q
    BY DEF IdsAreFresh
  <2>1. q # r /\ pc[q] \in {"queued", "arrived"}
    BY DEF TypeOK
  <2>2. call[q].ticket \in TicketIds \ {t}
    BY <2>1, CallOfRequest, CallType
  <2>3. status'[call[q].ticket] = status[call[q].ticket]
    BY <2>2
  <2>4. \A p \in Requests : pc'[p] \in {"queued", "arrived"} =>
                             pc[p] \in {"queued", "arrived"}
    BY DEF TypeOK
  <2> QED
    BY <2>1, <2>3, <2>4 DEF Locking, IdsAreFresh
<1> QED
  BY <1>1, <1>2, <1>3 DEF Locking

(* Locks, judgements and drawn ids hold in every state the requests reach.   *)
THEOREM LockingHolds == Spec => []Locking
<1>1. Init => Locking
  BY StoreAssumption DEF Init, Locking, LockDiscipline, JudgedOnCurrentRow, IdsAreFresh
<1>2. TypeOK /\ Locking /\ [Next]_vars => Locking'
  <2> SUFFICES ASSUME TypeOK, Locking, [Next]_vars PROVE Locking'
    OBVIOUS
  <2>1. CASE UNCHANGED vars
    BY <2>1 DEF Locking, LockDiscipline, JudgedOnCurrentRow, IdsAreFresh,
       Accessible, vars, tables
  <2>2. ASSUME NEW r \in Requests, Arrive(r) PROVE Locking'
    <3> USE <2>2 DEF TypeOK, Locking, Arrive, Advances, tables
    <3>1. PICK c \in PermittedCalls :
            /\ c.op = "create" => Fresh(c.ticket)
            /\ call' = [call EXCEPT ![r] = c]
      OBVIOUS
    <3>2. LockDiscipline'
      BY <3>1, CallType DEF LockDiscipline
    <3>3. JudgedOnCurrentRow'
      BY <3>1 DEF JudgedOnCurrentRow, Accessible
    <3>4. IdsAreFresh'
      BY <3>1 DEF IdsAreFresh, Fresh
    <3> QED
      BY <3>2, <3>3, <3>4
  <2>3. ASSUME NEW r \in Requests, pc[r] # "idle", Handle(r) \/ LoseConnection(r)
        PROVE  Locking'
    <3>1. call[r] \in PermittedCalls /\ call[r].ticket \in TicketIds
      BY <2>3, CallOfRequest, CallType
    <3>2. CASE CreateTicket(r)
      <4>1. /\ status[call[r].ticket] = "unused"
            /\ \A q \in Requests :
                 pc[q] \in {"queued", "arrived"} /\ call[q].op = "create" =>
                   (call[q].ticket = call[r].ticket => q = r)
        BY <3>2 DEF CreateTicket, Advances, Locking, IdsAreFresh
      <4>2. \A q \in Requests : pc[q] = "holding" => call[q].ticket # call[r].ticket
        BY <4>1 DEF Locking, JudgedOnCurrentRow, Accessible, Status
      <4>3. \A x \in TicketIds \ {call[r].ticket} :
              status'[x] = status[x] /\ owner'[x] = owner[x]
        BY <3>2 DEF CreateTicket, TypeOK
      <4>4. \A q \in Requests :
              q # r /\ pc[q] \in {"queued", "arrived"} /\ call[q].op = "create" =>
                call[q].ticket # call[r].ticket
        BY <4>1
      <4>5. /\ pc[r] = "arrived" /\ pc' = [pc EXCEPT ![r] = "committed"]
            /\ EndTransaction(r) /\ call' = call /\ before' = before
        BY <3>2 DEF CreateTicket, Advances, Commit
      <4> QED
        BY <3>1, <4>2, <4>3, <4>4, <4>5, StatusCommit
    <3>3. CASE DeleteOpenTicket(r)
      <4>1. pc[r] = "holding" /\ status[call[r].ticket] \in Status
        BY <3>3 DEF DeleteOpenTicket, Advances, Locking, JudgedOnCurrentRow, Accessible
      <4>2. \A q \in Requests : q # r /\ pc[q] = "holding" =>
                                call[q].ticket # call[r].ticket
        BY <3>1, <4>1 DEF Locking, LockDiscipline
      <4>3. \A q \in Requests :
              pc[q] \in {"queued", "arrived"} /\ call[q].op = "create" =>
                call[q].ticket # call[r].ticket
        BY <4>1 DEF Locking, IdsAreFresh, Status
      <4>4. \A x \in TicketIds \ {call[r].ticket} :
              status'[x] = status[x] /\ owner'[x] = owner[x]
        BY <3>3 DEF DeleteOpenTicket, TypeOK
      <4>5. /\ pc' = [pc EXCEPT ![r] = "committed"]
            /\ EndTransaction(r) /\ call' = call /\ before' = before
        BY <3>3 DEF DeleteOpenTicket, Advances, Commit
      <4> QED
        BY <3>1, <4>1, <4>2, <4>3, <4>4, <4>5, StatusCommit
    <3>4. CASE ChangeTicketStatus(r)
      <4>1. pc[r] = "holding" /\ status[call[r].ticket] \in Status
        BY <3>4 DEF ChangeTicketStatus, Advances, Locking, JudgedOnCurrentRow, Accessible
      <4>2. \A q \in Requests : q # r /\ pc[q] = "holding" =>
                                call[q].ticket # call[r].ticket
        BY <3>1, <4>1 DEF Locking, LockDiscipline
      <4>3. \A q \in Requests :
              pc[q] \in {"queued", "arrived"} /\ call[q].op = "create" =>
                call[q].ticket # call[r].ticket
        BY <4>1 DEF Locking, IdsAreFresh, Status
      <4>4. \A x \in TicketIds \ {call[r].ticket} :
              status'[x] = status[x] /\ owner'[x] = owner[x]
        BY <3>4 DEF ChangeTicketStatus, TypeOK
      <4>5. /\ pc' = [pc EXCEPT ![r] = "committed"]
            /\ EndTransaction(r) /\ call' = call /\ before' = before
        BY <3>4 DEF ChangeTicketStatus, Advances, Commit
      <4> QED
        BY <3>1, <4>1, <4>2, <4>3, <4>4, <4>5, StatusCommit
    <3> USE StoreAssumption
    <3> USE DEF TypeOK, Locking, LockDiscipline, JudgedOnCurrentRow, IdsAreFresh,
                Accessible, Advances, Answer, EndTransaction, Commit, tables
    <3>5. CASE SelectForUpdate(r)
      BY <3>1, <3>5 DEF SelectForUpdate
    <3>6. CASE TicketNotFound(r)
      BY <3>1, <3>6 DEF TicketNotFound
    <3>7. CASE TicketStateError(r)
      BY <3>1, <3>7 DEF TicketStateError
    <3>8. CASE UpdateOpenTicket(r)
      BY <3>1, <3>8 DEF UpdateOpenTicket
    <3>9. CASE CreateComment(r)
      BY <3>1, <3>9 DEF CreateComment
    <3>10. CASE Refresh(r)
      BY <3>1, <3>10 DEF Refresh
    <3>0. CASE Connect(r) \/ ConnectTimesOut(r)
      BY <3>1, <3>0 DEF Connect, ConnectTimesOut
    <3>11. CASE RefreshFails(r)
      BY <3>1, <3>11 DEF RefreshFails
    <3>12. CASE FinishDelete(r)
      BY <3>1, <3>12 DEF FinishDelete
    <3>13. CASE LoseConnection(r)
      BY <3>1, <3>13 DEF LoseConnection
    <3> QED
      BY <2>3, <3>0, <3>2, <3>3, <3>4, <3>5, <3>6, <3>7, <3>8, <3>9,
         <3>10, <3>11, <3>12, <3>13 DEF Handle
  <2> QED
    BY <2>1, <2>2, <2>3, HandlersHaveCalls DEF Next
<1> QED
  BY <1>1, <1>2, TypeCorrect, PTL DEF Spec

(* What a handler read under the lock is still true when it commits. *)
THEOREM JudgedOnCurrentRowHolds == Spec => []JudgedOnCurrentRow
<1>1. Locking => JudgedOnCurrentRow
  BY DEF Locking
<1> QED
  BY <1>1, LockingHolds, PTL

----------------------------------------------------------------------------
(* A request takes effect at most once, at its commit, and is never          *)
(* acknowledged without having taken effect.                                 *)
THEOREM EffectAtCommitHolds == Spec => []EffectAtCommit
<1>1. Init => EffectAtCommit
  BY DEF Init, EffectAtCommit
<1>2. TypeOK /\ EffectAtCommit /\ [Next]_vars => EffectAtCommit'
  <2> SUFFICES ASSUME TypeOK, EffectAtCommit, [Next]_vars PROVE EffectAtCommit'
    OBVIOUS
  <2> USE DEF TypeOK, EffectAtCommit, Advances, Answer, Commit
  <2>1. CASE UNCHANGED vars
    BY <2>1 DEF vars
  <2>2. ASSUME NEW r \in Requests, Arrive(r) PROVE EffectAtCommit'
    BY <2>2 DEF Arrive
  <2>3. ASSUME NEW r \in Requests, Handle(r) \/ LoseConnection(r)
        PROVE  EffectAtCommit'
    <3>1. CASE CreateTicket(r)
      BY <3>1 DEF CreateTicket
    <3>2. CASE SelectForUpdate(r)
      BY <3>2 DEF SelectForUpdate
    <3>3. CASE TicketNotFound(r)
      BY <3>3 DEF TicketNotFound
    <3>4. CASE TicketStateError(r)
      BY <3>4 DEF TicketStateError
    <3>5. CASE UpdateOpenTicket(r)
      BY <3>5 DEF UpdateOpenTicket
    <3>6. CASE DeleteOpenTicket(r)
      BY <3>6 DEF DeleteOpenTicket
    <3>7. CASE ChangeTicketStatus(r)
      BY <3>7 DEF ChangeTicketStatus
    <3>8. CASE CreateComment(r)
      BY <3>8 DEF CreateComment
    <3>9. CASE Refresh(r)
      BY <3>9 DEF Refresh
    <3>0. CASE Connect(r) \/ ConnectTimesOut(r)
      BY <3>0 DEF Connect, ConnectTimesOut
    <3>10. CASE RefreshFails(r)
      BY <3>10 DEF RefreshFails
    <3>11. CASE FinishDelete(r)
      BY <3>11 DEF FinishDelete
    <3>12. CASE LoseConnection(r)
      BY <3>12 DEF LoseConnection
    <3> QED
      BY <2>3, <3>0, <3>1, <3>2, <3>3, <3>4, <3>5, <3>6, <3>7, <3>8,
         <3>9, <3>10, <3>11, <3>12 DEF Handle
  <2> QED
    BY <2>1, <2>2, <2>3 DEF Next
<1> QED
  BY <1>1, <1>2, TypeCorrect, PTL DEF Spec

----------------------------------------------------------------------------
(* At most one of the agents racing to move a ticket to a status commits,    *)
(* because every committed change leaves the ticket at or past its target    *)
(* and a later one starts where the ticket stands.                           *)
Workflowing == WorkflowOnlyAdvances /\ OneWinner

(* Status changes took effect as single steps, one winner for each.          *)
THEOREM WorkflowingHolds == Spec => []Workflowing
<1>1. Init => Workflowing
  BY DEF Init, Workflowing, WorkflowOnlyAdvances, OneWinner
<1>2. /\ TypeOK /\ Locking /\ EffectAtCommit /\ Workflowing /\ [Next]_vars
      => Workflowing'
  <2> SUFFICES ASSUME TypeOK, Locking, EffectAtCommit, Workflowing, [Next]_vars
               PROVE  Workflowing'
    OBVIOUS
  <2>1. CASE UNCHANGED vars
    BY <2>1 DEF Workflowing, WorkflowOnlyAdvances, OneWinner, vars, tables
  <2>2. ASSUME NEW r \in Requests, Arrive(r) PROVE Workflowing'
    BY <2>2 DEF Workflowing, WorkflowOnlyAdvances, OneWinner, Arrive, Advances,
       tables, TypeOK, EffectAtCommit
  <2>3. ASSUME NEW r \in Requests, pc[r] # "idle", Handle(r) \/ LoseConnection(r)
        PROVE  Workflowing'
    <3> DEFINE t == call[r].ticket
    <3>a. call[r] \in PermittedCalls /\ t \in TicketIds /\ call[r].target \in Status
      BY <2>3, CallOfRequest, CallType
    <3>b. \A q \in landed : pc[q] # "idle" /\ call[q].ticket \in TicketIds
      <4> SUFFICES ASSUME NEW q \in landed PROVE pc[q] # "idle" /\ call[q].ticket \in TicketIds
        OBVIOUS
      <4>1. q \in Requests /\ pc[q] # "idle"
        BY DEF TypeOK, EffectAtCommit
      <4> QED
        BY <4>1, CallOfRequest, CallType
    <3> HIDE DEF t
    <3>1. CASE ChangeTicketStatus(r)
      <4>1. /\ pc[r] = "holding" /\ call[r].op = "status" /\ r \notin landed
            /\ before[r] = status[t] /\ status[t] \in Status
            /\ call[r].target = AllowedNext[status[t]]
        BY <3>1 DEF ChangeTicketStatus, Advances, Allowed, Locking,
           JudgedOnCurrentRow, Accessible, EffectAtCommit, t
      <4>2. /\ call' = call /\ before' = before /\ landed' = landed \cup {r}
            /\ status' = [status EXCEPT ![t] = call[r].target]
        BY <3>1 DEF ChangeTicketStatus, Commit, t
      <4>3. Rank[call[r].target] = Rank[status[t]] + 1 /\ Rank[status[t]] \in Nat
        BY <3>a, <4>1, Workflow
      <4>4. \A q \in landed : call[q].op = "status" /\ call[q].ticket = t =>
              Rank[call[q].target] <= Rank[status[t]]
        BY DEF Workflowing, WorkflowOnlyAdvances
      <4>5. WorkflowOnlyAdvances'
        <5> SUFFICES ASSUME NEW q \in landed', call[q].op = "status"
                     PROVE  /\ before[q] \in Status
                            /\ call[q].target = AllowedNext[before[q]]
                            /\ status'[call[q].ticket] \in Status
                            /\ Rank[call[q].target] <= Rank[status'[call[q].ticket]]
          BY <4>2 DEF WorkflowOnlyAdvances
        <5>1. CASE q = r
          BY <3>a, <4>1, <4>2, <4>3, <5>1 DEF TypeOK, t
        <5>2. CASE q # r /\ call[q].ticket = t
          <6>1. q \in landed /\ call[q].target \in Status
            BY <4>2, <5>2, <3>b, CallOfRequest, CallType DEF TypeOK
          <6>2. Rank[call[q].target] \in Nat
            BY <6>1, Workflow
          <6> QED
            BY <3>a, <4>2, <4>3, <4>4, <5>2, <6>1, <6>2
            DEF Workflowing, WorkflowOnlyAdvances, TypeOK
        <5>3. CASE q # r /\ call[q].ticket # t
          BY <3>b, <4>2, <5>3 DEF Workflowing, WorkflowOnlyAdvances, TypeOK
        <5> QED
          BY <5>1, <5>2, <5>3
      <4>6. OneWinner'
        <5>1. \A q \in landed : call[q].op = "status" /\ call[q].ticket = t =>
                call[q].target # call[r].target
          BY <4>3, <4>4
        <5> QED
          BY <4>2, <5>1 DEF Workflowing, OneWinner, t
      <4> QED
        BY <4>5, <4>6 DEF Workflowing
    <3>2. CASE DeleteOpenTicket(r)
      <4>1. /\ status[t] = "OPEN" /\ call[r].op = "delete"
            /\ status' = [status EXCEPT ![t] = "deleted"]
            /\ call' = call /\ before' = before /\ landed' = landed \cup {r}
        BY <3>2 DEF DeleteOpenTicket, Advances, Allowed, Commit, Locking,
           JudgedOnCurrentRow, t
      <4>2. \A q \in landed : call[q].op = "status" => call[q].ticket # t
        <5> SUFFICES ASSUME NEW q \in landed, call[q].op = "status", call[q].ticket = t
                     PROVE  FALSE
          OBVIOUS
        <5>1. /\ before[q] \in Status /\ call[q].target = AllowedNext[before[q]]
              /\ Rank[call[q].target] <= Rank["OPEN"]
          BY <4>1 DEF Workflowing, WorkflowOnlyAdvances
        <5>2. q \in Requests /\ call[q].target \in Status
          BY <3>b, CallOfRequest, CallType DEF TypeOK
        <5> QED
          BY <5>1, <5>2, Workflow DEF Rank, Status
      <4> QED
        BY <3>b, <4>1, <4>2 DEF Workflowing, WorkflowOnlyAdvances, OneWinner, TypeOK
    <3>3. CASE CreateTicket(r)
      <4>1. /\ status[t] \notin Status /\ call[r].op = "create"
            /\ status' = [status EXCEPT ![t] = "OPEN"]
            /\ call' = call /\ before' = before /\ landed' = landed \cup {r}
        BY <3>3 DEF CreateTicket, Advances, Commit, Locking, IdsAreFresh, Status, t
      <4> QED
        BY <3>b, <4>1 DEF Workflowing, WorkflowOnlyAdvances, OneWinner, TypeOK
    <3> USE DEF TypeOK, EffectAtCommit, Workflowing, WorkflowOnlyAdvances,
                OneWinner, Advances, Answer, Commit, tables
    <3>4. CASE SelectForUpdate(r)
      BY <3>b, <3>4 DEF SelectForUpdate
    <3>5. CASE TicketNotFound(r)
      BY <3>b, <3>5 DEF TicketNotFound
    <3>6. CASE TicketStateError(r)
      BY <3>b, <3>6 DEF TicketStateError
    <3>7. CASE UpdateOpenTicket(r)
      BY <3>b, <3>7 DEF UpdateOpenTicket
    <3>8. CASE CreateComment(r)
      BY <3>b, <3>8 DEF CreateComment
    <3>9. CASE Refresh(r)
      BY <3>b, <3>9 DEF Refresh
    <3>0. CASE Connect(r) \/ ConnectTimesOut(r)
      BY <3>b, <3>0 DEF Connect, ConnectTimesOut
    <3>10. CASE RefreshFails(r)
      BY <3>b, <3>10 DEF RefreshFails
    <3>11. CASE FinishDelete(r)
      BY <3>b, <3>11 DEF FinishDelete
    <3>12. CASE LoseConnection(r)
      BY <3>b, <3>12 DEF LoseConnection
    <3> QED
      BY <2>3, <3>0, <3>1, <3>2, <3>3, <3>4, <3>5, <3>6, <3>7, <3>8,
         <3>9, <3>10, <3>11, <3>12 DEF Handle
  <2> QED
    BY <2>1, <2>2, <2>3, HandlersHaveCalls DEF Next
<1> QED
  BY <1>1, <1>2, TypeCorrect, LockingHolds, EffectAtCommitHolds, PTL DEF Spec

(* At most one of the agents racing to a status wins. *)
THEOREM OneWinnerHolds == Spec => []OneWinner
<1>1. Workflowing => OneWinner
  BY DEF Workflowing
<1> QED
  BY <1>1, WorkflowingHolds, PTL

(* A status change that committed still finds its row when it refreshes. *)
THEOREM StatusChangeKeepsItsRowHolds == Spec => []StatusChangeKeepsItsRow
<1>1. EffectAtCommit /\ Workflowing => StatusChangeKeepsItsRow
  BY DEF EffectAtCommit, Workflowing, WorkflowOnlyAdvances,
     StatusChangeKeepsItsRow, Refreshable
<1> QED
  BY <1>1, EffectAtCommitHolds, WorkflowingHolds, PTL

----------------------------------------------------------------------------
(* What an acknowledged status change reports is a move forward: the change  *)
(* itself was a step of the workflow, and the refresh without a lock reads   *)
(* its target or a status that came after.                                   *)
RefreshedForward ==
  \A r \in Requests : outcome[r] = "ok" /\ call[r].op = "status" =>
    after[r] \in Status /\ Rank[call[r].target] <= Rank[after[r]]

(* A reported change is never a step back.                                   *)
THEOREM ReportedChangeMovesForwardHolds == Spec => []ReportedChangeMovesForward
<1>1. Init => RefreshedForward
  BY DEF Init, RefreshedForward
<1>2. /\ TypeOK /\ EffectAtCommit /\ Workflowing /\ RefreshedForward /\ [Next]_vars
      => RefreshedForward'
  <2> SUFFICES ASSUME TypeOK, EffectAtCommit, Workflowing, RefreshedForward, [Next]_vars
               PROVE  RefreshedForward'
    OBVIOUS
  <2> USE DEF TypeOK, RefreshedForward, Advances, Answer, Commit, tables
  <2>1. CASE UNCHANGED vars
    BY <2>1 DEF vars
  <2>2. ASSUME NEW r \in Requests, Arrive(r) PROVE RefreshedForward'
    BY <2>2 DEF Arrive, EffectAtCommit
  <2>3. ASSUME NEW r \in Requests, Handle(r) \/ LoseConnection(r)
        PROVE  RefreshedForward'
    <3>1. CASE CreateTicket(r)
      BY <3>1 DEF CreateTicket
    <3>2. CASE SelectForUpdate(r)
      BY <3>2 DEF SelectForUpdate
    <3>3. CASE TicketNotFound(r)
      BY <3>3 DEF TicketNotFound
    <3>4. CASE TicketStateError(r)
      BY <3>4 DEF TicketStateError
    <3>5. CASE UpdateOpenTicket(r)
      BY <3>5 DEF UpdateOpenTicket
    <3>6. CASE DeleteOpenTicket(r)
      BY <3>6 DEF DeleteOpenTicket
    <3>7. CASE ChangeTicketStatus(r)
      BY <3>7 DEF ChangeTicketStatus
    <3>8. CASE CreateComment(r)
      BY <3>8 DEF CreateComment
    <3>9. CASE Refresh(r)
      <4>1. call[r].op = "status" => /\ status[call[r].ticket] \in Status
                                     /\ Rank[call[r].target] <= Rank[status[call[r].ticket]]
        BY <3>9 DEF Refresh, EffectAtCommit, Workflowing, WorkflowOnlyAdvances
      <4> QED
        BY <3>9, <4>1 DEF Refresh
    <3>0. CASE Connect(r) \/ ConnectTimesOut(r)
      BY <3>0 DEF Connect, ConnectTimesOut
    <3>10. CASE RefreshFails(r)
      BY <3>10 DEF RefreshFails
    <3>11. CASE FinishDelete(r)
      BY <3>11 DEF FinishDelete
    <3>12. CASE LoseConnection(r)
      BY <3>12 DEF LoseConnection
    <3> QED
      BY <2>3, <3>0, <3>1, <3>2, <3>3, <3>4, <3>5, <3>6, <3>7, <3>8,
         <3>9, <3>10, <3>11, <3>12 DEF Handle
  <2> QED
    BY <2>1, <2>2, <2>3 DEF Next
<1>3. TypeOK /\ EffectAtCommit /\ Workflowing /\ RefreshedForward => ReportedChangeMovesForward
  <2> SUFFICES ASSUME TypeOK, EffectAtCommit, Workflowing, RefreshedForward,
                      NEW r \in Requests, outcome[r] = "ok", call[r].op = "status"
               PROVE  /\ after[r] \in Status
                      /\ Rank[before[r]] < Rank[call[r].target]
                      /\ Rank[call[r].target] <= Rank[after[r]]
    BY DEF ReportedChangeMovesForward
  <2>1. /\ before[r] \in Status /\ call[r].target = AllowedNext[before[r]]
        /\ r \in landed
    BY DEF EffectAtCommit, Workflowing, WorkflowOnlyAdvances
  <2>2. call[r].target \in Status
    BY <2>1, CallOfRequest, CallType DEF EffectAtCommit
  <2>3. Rank[call[r].target] = Rank[before[r]] + 1 /\ Rank[before[r]] \in Nat
    BY <2>1, <2>2, Workflow
  <2> QED
    BY <2>3 DEF RefreshedForward
<1> QED
  BY <1>1, <1>2, <1>3, TypeCorrect, EffectAtCommitHolds, WorkflowingHolds, PTL DEF Spec

----------------------------------------------------------------------------
(* Comments: each was left by a request that took effect, which makes its id *)
(* unique, and none outlives its ticket.                                     *)
Threads == CommentsWereMade /\ CommentsHaveTickets

(* Every comment was made by a request and has its ticket.                   *)
THEOREM ThreadsHold == Spec => []Threads
<1>1. Init => Threads
  BY DEF Init, Threads, CommentsWereMade, CommentsHaveTickets
<1>2. TypeOK /\ Locking /\ Threads /\ [Next]_vars => Threads'
  <2> SUFFICES ASSUME TypeOK, Locking, Threads, [Next]_vars PROVE Threads'
    OBVIOUS
  <2>a. \A c \in comments : c.ticket \in TicketIds
    BY DEF TypeOK, Comment
  <2> USE DEF Threads, CommentsWereMade, CommentsHaveTickets
  <2>1. CASE UNCHANGED vars
    BY <2>1 DEF vars, tables
  <2>2. ASSUME NEW r \in Requests, Arrive(r) PROVE Threads'
    BY <2>2 DEF Arrive, tables
  <2>3. ASSUME NEW r \in Requests, Handle(r) \/ LoseConnection(r), pc[r] # "idle"
        PROVE  Threads'
    <3> DEFINE t == call[r].ticket
    <3>a. t \in TicketIds /\ call[r].target \in Status
      BY <2>3, CallOfRequest, CallType
    <3> HIDE DEF t
    <3> USE DEF Commit, tables
    <3>1. CASE CreateTicket(r)
      BY <2>a, <3>a, <3>1 DEF CreateTicket, TypeOK, Status, t
    <3>2. CASE SelectForUpdate(r)
      BY <3>2 DEF SelectForUpdate
    <3>3. CASE TicketNotFound(r)
      BY <3>3 DEF TicketNotFound
    <3>4. CASE TicketStateError(r)
      BY <3>4 DEF TicketStateError
    <3>5. CASE UpdateOpenTicket(r)
      BY <3>5 DEF UpdateOpenTicket
    <3>6. CASE DeleteOpenTicket(r)
      BY <2>a, <3>a, <3>6 DEF DeleteOpenTicket, TypeOK, t
    <3>7. CASE ChangeTicketStatus(r)
      BY <2>a, <3>a, <3>7 DEF ChangeTicketStatus, TypeOK, t
    <3>8. CASE CreateComment(r)
      <4>1. status[t] \in Status
        BY <3>8 DEF CreateComment, Advances, Locking, JudgedOnCurrentRow, Accessible, t
      <4> QED
        BY <3>8, <4>1 DEF CreateComment, t
    <3>9. CASE Refresh(r)
      BY <3>9 DEF Refresh
    <3>0. CASE Connect(r) \/ ConnectTimesOut(r)
      BY <3>0 DEF Connect, ConnectTimesOut
    <3>10. CASE RefreshFails(r)
      BY <3>10 DEF RefreshFails
    <3>11. CASE FinishDelete(r)
      BY <3>11 DEF FinishDelete
    <3>12. CASE LoseConnection(r)
      BY <3>12 DEF LoseConnection
    <3> QED
      BY <2>3, <3>0, <3>1, <3>2, <3>3, <3>4, <3>5, <3>6, <3>7, <3>8,
         <3>9, <3>10, <3>11, <3>12 DEF Handle
  <2> QED
    BY <2>1, <2>2, <2>3, HandlersHaveCalls DEF Next
<1> QED
  BY <1>1, <1>2, TypeCorrect, LockingHolds, PTL DEF Spec

(* No comment outlives its ticket. *)
THEOREM CommentsHaveTicketsHolds == Spec => []CommentsHaveTickets
<1>1. Threads => CommentsHaveTickets
  BY DEF Threads
<1> QED
  BY <1>1, ThreadsHold, PTL

(* The conjunction a run checks as one invariant. *)
THEOREM InductiveInvariantHolds == Spec => []InductiveInvariant
<1>1. TypeOK /\ Locking /\ EffectAtCommit /\ Workflowing /\ Threads => InductiveInvariant
  BY DEF InductiveInvariant, Locking, Workflowing, Threads
<1> QED
  BY <1>1, TypeCorrect, LockingHolds, EffectAtCommitHolds, WorkflowingHolds,
     ThreadsHold, PTL

----------------------------------------------------------------------------
(* Each commit is one of the indivisible operations of TicketLifecycle, and  *)
(* every other step leaves the tables alone.                                 *)
LEMMA StepRefines ==
  ASSUME TypeOK, Locking, EffectAtCommit, Threads, [Next]_vars
  PROVE  Lifecycle!Next \/ UNCHANGED tables
<1> USE DEF Lifecycle!Status, Lifecycle!NoRow, Status, NoRow
<1>1. CASE UNCHANGED vars
  BY <1>1 DEF vars
<1>2. ASSUME NEW r \in Requests, Arrive(r) PROVE UNCHANGED tables
  BY <1>2 DEF Arrive
<1>3. ASSUME NEW r \in Requests, pc[r] # "idle", Handle(r) \/ LoseConnection(r)
      PROVE  Lifecycle!Next \/ UNCHANGED tables
  <2> DEFINE t == call[r].ticket
             u == call[r].user
  <2>a. call[r] \in PermittedCalls /\ t \in TicketIds /\ u \in Customers \cup Agents
    BY <1>3, CallOfRequest, CallType
  <2>b. /\ call[r].op \in {"create", "update", "delete"} => u \in Customers
        /\ call[r].fields \in SUBSET Fields
    BY <2>a, CallType
  <2>c. pc[r] = "holding" => /\ before[r] = status[t]
                             /\ status[t] \in Status
                             /\ u \in Agents \/ owner[t] = u
                             /\ r \notin landed
    BY DEF Locking, JudgedOnCurrentRow, Accessible, EffectAtCommit
  <2> HIDE DEF t, u
  <2>1. CASE CreateTicket(r)
    <3>1. u \in Customers /\ Lifecycle!Open(u, t, r)
      BY <2>b, <2>1 DEF CreateTicket, Advances, Locking, IdsAreFresh, t, u, Lifecycle!Open
    <3> QED
      BY <2>a, <3>1 DEF Lifecycle!Next
  <2>2. CASE UpdateOpenTicket(r)
    <3>1. status[t] = "OPEN" /\ u \in Customers /\ owner[t] = u
      BY <2>b, <2>c, <2>2, StoreAssumption DEF UpdateOpenTicket, Advances, Allowed
    <3>2. Lifecycle!Edit(u, t, call[r].fields, r)
      BY <2>2, <3>1 DEF UpdateOpenTicket, t, Lifecycle!Edit
    <3> QED
      BY <2>a, <2>b, <3>1, <3>2 DEF Lifecycle!Next
  <2>3. CASE DeleteOpenTicket(r)
    <3>1. status[t] = "OPEN" /\ u \in Customers /\ owner[t] = u
      BY <2>b, <2>c, <2>3, StoreAssumption DEF DeleteOpenTicket, Advances, Allowed
    <3>2. Lifecycle!Remove(u, t)
      BY <2>3, <3>1 DEF DeleteOpenTicket, t, Lifecycle!Remove
    <3> QED
      BY <2>a, <3>1, <3>2 DEF Lifecycle!Next
  <2>4. CASE ChangeTicketStatus(r)
    <3>1. call[r].target = AllowedNext[status[t]] /\ status[t] \in Status
      BY <2>c, <2>4 DEF ChangeTicketStatus, Advances, Allowed
    <3>2. status[t] # "CLOSED"
      BY <2>a, <3>1, CallType, Workflow
    <3>3. Lifecycle!Advance(t)
      BY <2>4, <3>1, <3>2
      DEF ChangeTicketStatus, t, Lifecycle!Advance, AllowedNext, Lifecycle!AllowedNext
    <3> QED
      BY <2>a, <3>3 DEF Lifecycle!Next
  <2>5. CASE CreateComment(r)
    <3> DEFINE role == IF u \in Agents THEN "AGENT" ELSE "CUSTOMER"
    <3>1. /\ status[t] \in Status
          /\ \/ role = "CUSTOMER" /\ u \in Customers /\ owner[t] = u
             \/ role = "AGENT" /\ u \in Agents
      BY <2>a, <2>c, <2>5 DEF CreateComment, Advances
    <3>2. \A c \in comments : c.id # r
      BY <2>c, <2>5 DEF CreateComment, Advances, Threads, CommentsWereMade
    <3>3. Lifecycle!Reply(u, role, t, r)
      BY <2>5, <3>1, <3>2 DEF CreateComment, t, u, Lifecycle!Reply
    <3>4. role \in {"CUSTOMER", "AGENT"}
      OBVIOUS
    <3> HIDE DEF role
    <3> QED
      BY <2>a, <3>3, <3>4 DEF Lifecycle!Next
  <2>6. CASE \/ SelectForUpdate(r) \/ TicketNotFound(r) \/ TicketStateError(r)
             \/ Refresh(r) \/ RefreshFails(r) \/ FinishDelete(r)
             \/ LoseConnection(r) \/ Connect(r) \/ ConnectTimesOut(r)
    BY <2>6 DEF SelectForUpdate, TicketNotFound, TicketStateError, Refresh,
       RefreshFails, FinishDelete, LoseConnection, Connect, ConnectTimesOut
  <2> QED
    BY <1>3, <2>1, <2>2, <2>3, <2>4, <2>5, <2>6 DEF Handle
<1> QED
  BY <1>1, <1>2, <1>3, HandlersHaveCalls DEF Next

(* The requests implement TicketLifecycle.                                   *)
THEOREM Refinement == Spec => ImplementsLifecycle
<1>1. Init => Lifecycle!Init
  BY DEF Init, Lifecycle!Init, Lifecycle!Status, Lifecycle!NoRow, Status, NoRow
<1>2. TypeOK /\ Locking /\ EffectAtCommit /\ Threads /\ [Next]_vars
      => [Lifecycle!Next]_(Lifecycle!tables)
  BY StepRefines DEF tables, Lifecycle!tables
<1> QED
  BY <1>1, <1>2, TypeCorrect, LockingHolds, EffectAtCommitHolds,
     ThreadsHold, PTL
  DEF Spec, ImplementsLifecycle, Lifecycle!Spec

----------------------------------------------------------------------------
(* What the refinement rules out for a row. Its status takes one of three    *)
(* kinds of step and no other: it is created OPEN, it is deleted while OPEN, *)
(* or it moves to the next status; no interleaving of agents, customers and  *)
(* lost connections makes it skip a status, go back, or come back to life.   *)
RowMoves ==
  \A t \in TicketIds : status'[t] # status[t] =>
    \/ status[t] = "unused" /\ status'[t] = "OPEN"
    \/ status[t] = "OPEN" /\ status'[t] = "deleted"
    \/ status[t] \in Status \ {"CLOSED"} /\ status'[t] = AllowedNext[status[t]]
RowsOnlyMoveForward == [][RowMoves]_tables

(* The columns of a row change only while it is OPEN or being created, and   *)
(* its owner only at its creation: once an agent has started on a ticket, no *)
(* PATCH that was already under way rewrites what the agent is reading.      *)
RowWrites ==
  \A t \in TicketIds :
    /\ content'[t] # content[t] =>
         status[t] \in {"unused", "OPEN"} /\ status'[t] = "OPEN"
    /\ owner'[t] # owner[t] => status[t] = "unused"
WrittenOnlyWhileOpen == [][RowWrites]_tables

(* A comment goes only with its ticket, in the same commit, and no comment   *)
(* gets an id another one has.                                               *)
ThreadChanges ==
  /\ \A c \in comments \ comments' :
       status[c.ticket] = "OPEN" /\ status'[c.ticket] = "deleted"
  /\ \A c \in comments' \ comments, d \in comments : c.id # d.id
ThreadsGoWithTheirTicket == [][ThreadChanges]_tables

(* What an indivisible operation of TicketLifecycle may do to a row and to   *)
(* the comments.                                                             *)
LEMMA OperationsOnRows ==
  ASSUME TypeOK, Lifecycle!Next
  PROVE  RowMoves /\ RowWrites /\ ThreadChanges
<1> USE DEF RowMoves, RowWrites, ThreadChanges
<1>1. PICK t \in TicketIds :
        \/ \E u \in Customers, x \in Requests \cup {Original} : Lifecycle!Open(u, t, x)
        \/ \E u \in Customers, named \in SUBSET Fields, x \in Requests \cup {Original} :
             Lifecycle!Edit(u, t, named, x)
        \/ \E u \in Customers : Lifecycle!Remove(u, t)
        \/ Lifecycle!Advance(t)
        \/ \E u \in Customers \cup Agents, role \in {"CUSTOMER", "AGENT"},
              i \in Requests : Lifecycle!Reply(u, role, t, i)
  BY DEF Lifecycle!Next
<1>2. /\ DOMAIN status = TicketIds /\ DOMAIN owner = TicketIds
      /\ DOMAIN content = TicketIds
      /\ \A c \in comments : c.ticket \in TicketIds
  BY DEF TypeOK, Comment
<1>3. CASE \E u \in Customers, x \in Requests \cup {Original} : Lifecycle!Open(u, t, x)
  BY <1>2, <1>3 DEF Lifecycle!Open
<1>4. CASE \E u \in Customers, named \in SUBSET Fields, x \in Requests \cup {Original} :
             Lifecycle!Edit(u, t, named, x)
  BY <1>2, <1>4 DEF Lifecycle!Edit
<1>5. CASE \E u \in Customers : Lifecycle!Remove(u, t)
  BY <1>2, <1>5 DEF Lifecycle!Remove
<1>6. CASE Lifecycle!Advance(t)
  BY <1>2, <1>6 DEF Lifecycle!Advance, Lifecycle!Status, Status,
     Lifecycle!AllowedNext, AllowedNext
<1>7. CASE \E u \in Customers \cup Agents, role \in {"CUSTOMER", "AGENT"},
              i \in Requests : Lifecycle!Reply(u, role, t, i)
  BY <1>2, <1>7 DEF Lifecycle!Reply
<1> QED
  BY <1>1, <1>3, <1>4, <1>5, <1>6, <1>7

(* Rows move forward, are written only while OPEN, and lose their comments   *)
(* only by being deleted.                                                    *)
THEOREM RowsAndThreadsHold ==
  Spec => RowsOnlyMoveForward /\ WrittenOnlyWhileOpen /\ ThreadsGoWithTheirTicket
<1>1. TypeOK /\ Locking /\ EffectAtCommit /\ Threads /\ [Next]_vars
      => [RowMoves]_tables /\ [RowWrites]_tables /\ [ThreadChanges]_tables
  BY StepRefines, OperationsOnRows
<1> QED
  BY <1>1, TypeCorrect, LockingHolds, EffectAtCommitHolds, ThreadsHold, PTL
  DEF Spec, RowsOnlyMoveForward, WrittenOnlyWhileOpen, ThreadsGoWithTheirTicket

----------------------------------------------------------------------------
(* Who may have changed the tables. Every change is the commit of exactly    *)
(* one request, that had changed nothing before: no handler takes effect     *)
(* twice, and none in two halves.                                            *)
OneCommit ==
  \E r \in Requests \ landed : landed' = landed \cup {r} /\ pc'[r] = "committed"
EveryChangeIsOneCommit == [][OneCommit]_tables

(* A client that was told 404 or 409 can rely on it: its request changed     *)
(* nothing, neither before the refusal nor later. (Not so for a 500: see     *)
(* RefreshFails and LoseConnection.)                                         *)
RefusalsLeaveNoTrace ==
  \A r \in Requests : outcome[r] \in {"not_found", "conflict"} => r \notin landed

(* r is blocked in its locking SELECT by q: the row it may see is locked.    *)
WaitsFor(r, q) ==
  /\ pc[r] = "arrived" /\ call[r].op # "create"
  /\ Accessible(call[r].user, call[r].ticket)
  /\ locked[call[r].ticket] = q

(* Whoever is waited for waits for nobody: chains of waiters are one request *)
(* long, so no cycle can form, whichever rows the requests ask for and in    *)
(* whichever order they arrive. The holder has the ticket the waiter wants.  *)
WaitingIsNotChained ==
  \A r, q \in Requests : WaitsFor(r, q) =>
    /\ \A p \in Requests : ~WaitsFor(q, p)
    /\ pc[q] = "holding" /\ call[q].ticket = call[r].ticket

(* Every change of the tables is one new request's commit.                   *)
THEOREM EveryChangeIsOneCommitHolds == Spec => EveryChangeIsOneCommit
<1>1. TypeOK /\ EffectAtCommit /\ [Next]_vars => [OneCommit]_tables
  <2> SUFFICES ASSUME TypeOK, EffectAtCommit, [Next]_vars
               PROVE  OneCommit \/ UNCHANGED tables
    OBVIOUS
  <2>1. CASE UNCHANGED vars
    BY <2>1 DEF vars
  <2>2. ASSUME NEW r \in Requests, Arrive(r) PROVE UNCHANGED tables
    BY <2>2 DEF Arrive
  <2>3. ASSUME NEW r \in Requests, Handle(r) \/ LoseConnection(r)
        PROVE  OneCommit \/ UNCHANGED tables
    <3>1. CASE \/ CreateTicket(r) \/ UpdateOpenTicket(r) \/ DeleteOpenTicket(r)
               \/ ChangeTicketStatus(r) \/ CreateComment(r)
      <4>1. /\ pc[r] \in {"arrived", "holding"}
            /\ pc' = [pc EXCEPT ![r] = "committed"]
            /\ landed' = landed \cup {r}
        BY <3>1 DEF CreateTicket, UpdateOpenTicket, DeleteOpenTicket,
           ChangeTicketStatus, CreateComment, Advances, Commit
      <4> QED
        BY <4>1 DEF TypeOK, EffectAtCommit, OneCommit
    <3>2. CASE \/ SelectForUpdate(r) \/ TicketNotFound(r) \/ TicketStateError(r)
               \/ Refresh(r) \/ RefreshFails(r) \/ FinishDelete(r)
               \/ LoseConnection(r) \/ Connect(r) \/ ConnectTimesOut(r)
      BY <3>2 DEF SelectForUpdate, TicketNotFound, TicketStateError, Refresh,
         RefreshFails, FinishDelete, LoseConnection, Connect, ConnectTimesOut
    <3> QED
      BY <2>3, <3>1, <3>2 DEF Handle
  <2> QED
    BY <2>1, <2>2, <2>3 DEF Next
<1> QED
  BY <1>1, TypeCorrect, EffectAtCommitHolds, PTL DEF Spec, EveryChangeIsOneCommit

(* A request that was refused with 404 or 409 never took effect.             *)
THEOREM RefusalsLeaveNoTraceHolds == Spec => []RefusalsLeaveNoTrace
<1>1. Init => RefusalsLeaveNoTrace
  BY DEF Init, RefusalsLeaveNoTrace
<1>2. TypeOK /\ EffectAtCommit /\ RefusalsLeaveNoTrace /\ [Next]_vars
      => RefusalsLeaveNoTrace'
  <2> SUFFICES ASSUME TypeOK, EffectAtCommit, RefusalsLeaveNoTrace, [Next]_vars
               PROVE  RefusalsLeaveNoTrace'
    OBVIOUS
  <2> USE DEF TypeOK, EffectAtCommit, RefusalsLeaveNoTrace, Advances, Answer, Commit
  <2>1. CASE UNCHANGED vars
    BY <2>1 DEF vars
  <2>2. ASSUME NEW r \in Requests, Arrive(r) PROVE RefusalsLeaveNoTrace'
    BY <2>2 DEF Arrive
  <2>3. ASSUME NEW r \in Requests, Handle(r) \/ LoseConnection(r)
        PROVE  RefusalsLeaveNoTrace'
    <3>1. CASE \/ CreateTicket(r) \/ UpdateOpenTicket(r) \/ DeleteOpenTicket(r)
               \/ ChangeTicketStatus(r) \/ CreateComment(r)
      <4>1. /\ pc[r] \in {"arrived", "holding"}
            /\ landed' = landed \cup {r} /\ outcome' = outcome
        BY <3>1 DEF CreateTicket, UpdateOpenTicket, DeleteOpenTicket,
           ChangeTicketStatus, CreateComment
      <4> QED
        BY <4>1
    <3>2. CASE SelectForUpdate(r) \/ Connect(r)
      BY <3>2 DEF SelectForUpdate, Connect
    <3>3. CASE TicketNotFound(r) \/ TicketStateError(r)
      <4>1. /\ pc[r] \in {"arrived", "holding"} /\ landed' = landed
            /\ \A q \in Requests \ {r} : outcome'[q] = outcome[q]
        BY <3>3 DEF TicketNotFound, TicketStateError
      <4> QED
        BY <4>1
    <3>4. CASE \/ Refresh(r) \/ RefreshFails(r) \/ FinishDelete(r)
               \/ LoseConnection(r) \/ ConnectTimesOut(r)
      <4>1. /\ landed' = landed /\ outcome'[r] \in {"ok", "error"}
            /\ \A q \in Requests \ {r} : outcome'[q] = outcome[q]
        BY <3>4 DEF Refresh, RefreshFails, FinishDelete, LoseConnection, ConnectTimesOut
      <4> QED
        BY <4>1
    <3> QED
      BY <2>3, <3>1, <3>2, <3>3, <3>4 DEF Handle
  <2> QED
    BY <2>1, <2>2, <2>3 DEF Next
<1> QED
  BY <1>1, <1>2, TypeCorrect, EffectAtCommitHolds, PTL DEF Spec

(* Requests that wait for a row lock wait for one that does not wait.        *)
THEOREM WaitingIsNotChainedHolds == Spec => []WaitingIsNotChained
<1>1. TypeOK /\ Locking => WaitingIsNotChained
  <2> SUFFICES ASSUME TypeOK, Locking, NEW r \in Requests, NEW q \in Requests,
                      WaitsFor(r, q)
               PROVE  /\ \A p \in Requests : ~WaitsFor(q, p)
                      /\ pc[q] = "holding" /\ call[q].ticket = call[r].ticket
    BY DEF WaitingIsNotChained
  <2>1. call[r].ticket \in TicketIds
    BY CallOfRequest, CallType DEF WaitsFor
  <2>2. pc[q] = "holding" /\ call[q].ticket = call[r].ticket
    BY <2>1 DEF WaitsFor, Locking, LockDiscipline
  <2> QED
    BY <2>2 DEF WaitsFor
<1> QED
  BY <1>1, TypeCorrect, LockingHolds, PTL

----------------------------------------------------------------------------
(* How wrong a report can be. The status an acknowledged change reports may  *)
(* be a later one than its own (see ReportedChangeIsOneTransition), but it   *)
(* is never made up: it is the target of a status change of the same ticket  *)
(* that has committed, its own or that of an agent who came after.           *)
MovedTo(t, s) ==
  \E q \in landed : call[q].op = "status" /\ call[q].ticket = t /\ call[q].target = s
ReportsAreExplained ==
  \A r \in Requests : outcome[r] = "ok" /\ call[r].op = "status" =>
    MovedTo(call[r].ticket, after[r])

(* Once a ticket's status has been changed, it is what some change made it.  *)
Authored ==
  \A r \in landed : call[r].op = "status" =>
    MovedTo(call[r].ticket, status[call[r].ticket])
Explained == Authored /\ ReportsAreExplained

(* A commit of anything but a status change leaves the tickets whose status  *)
(* was changed as they were: it has no right to the others.                  *)
LEMMA OtherCommit ==
  ASSUME TypeOK, EffectAtCommit, Explained, NEW r \in Requests,
         pc[r] \in {"arrived", "holding"}, call[r].op # "status",
         Commit(r),
         \A q \in landed : call[q].op = "status" =>
           status'[call[q].ticket] = status[call[q].ticket]
  PROVE  Explained'
<1>1. landed' = landed \cup {r} /\ call' = call /\ outcome' = outcome /\ after' = after
  BY DEF Commit
<1>2. Authored'
  <2> SUFFICES ASSUME NEW q \in landed', call[q].op = "status"
               PROVE  \E p \in landed' : /\ call[p].op = "status"
                                        /\ call[p].ticket = call[q].ticket
                                        /\ call[p].target = status'[call[q].ticket]
    BY <1>1 DEF Authored, MovedTo
  <2>1. q \in landed /\ MovedTo(call[q].ticket, status[call[q].ticket])
    BY <1>1 DEF Explained, Authored
  <2> QED
    BY <1>1, <2>1 DEF MovedTo
<1>3. ReportsAreExplained'
  BY <1>1 DEF Explained, ReportsAreExplained, MovedTo
<1> QED
  BY <1>2, <1>3 DEF Explained

(* An acknowledged status change reports a status some change set. *)
THEOREM ReportsAreExplainedHolds == Spec => []ReportsAreExplained
<1>1. Init => Explained
  BY DEF Init, Explained, Authored, ReportsAreExplained
<1>2. TypeOK /\ Locking /\ EffectAtCommit /\ Workflowing /\ Explained /\ [Next]_vars
        => Explained'
  <2> SUFFICES ASSUME TypeOK, Locking, EffectAtCommit, Workflowing, Explained,
                      [Next]_vars
               PROVE  Explained'
    OBVIOUS
  <2>1. CASE UNCHANGED vars
    BY <2>1 DEF Explained, Authored, ReportsAreExplained, MovedTo, vars, tables
  <2>2. ASSUME NEW r \in Requests, Arrive(r) PROVE Explained'
    <3>1. /\ \A q \in Requests \ {r} : call'[q] = call[q]
          /\ landed' = landed /\ outcome' = outcome /\ after' = after /\ status' = status
          /\ r \notin landed /\ outcome[r] = "none"
      BY <2>2 DEF Arrive, Advances, TypeOK, tables, EffectAtCommit
    <3>2. landed \subseteq Requests \ {r}
      BY <3>1 DEF TypeOK
    <3>3. \A t, s : MovedTo(t, s) => MovedTo(t, s)'
      BY <3>1, <3>2 DEF MovedTo
    <3>4. Authored'
      BY <3>1, <3>2, <3>3 DEF Explained, Authored
    <3>5. ReportsAreExplained'
      BY <3>1, <3>3 DEF Explained, ReportsAreExplained
    <3> QED
      BY <3>4, <3>5 DEF Explained
  <2>3. ASSUME NEW r \in Requests, pc[r] # "idle", Handle(r) \/ LoseConnection(r)
        PROVE  Explained'
    <3>1. \A q \in landed : call[q].op = "status" =>
            /\ call[q].ticket \in TicketIds
            /\ status[call[q].ticket] \in Status \ {"OPEN"}
      <4> SUFFICES ASSUME NEW q \in landed, call[q].op = "status"
                   PROVE  /\ call[q].ticket \in TicketIds
                          /\ status[call[q].ticket] \in Status \ {"OPEN"}
        OBVIOUS
      <4>1. q \in Requests /\ pc[q] # "idle"
        BY DEF TypeOK, EffectAtCommit
      <4>2. /\ before[q] \in Status /\ call[q].target = AllowedNext[before[q]]
            /\ status[call[q].ticket] \in Status
            /\ Rank[call[q].target] <= Rank[status[call[q].ticket]]
        BY DEF Workflowing, WorkflowOnlyAdvances
      <4>3. call[q].target \in Status \ {"OPEN"} /\ call[q].ticket \in TicketIds
        BY <4>1, <4>2, CallOfRequest, CallType, Workflow
      <4> QED
        BY <4>2, <4>3 DEF Rank, Status
    <3>2. CASE CreateTicket(r)
      <4>1. pc[r] = "arrived" /\ call[r].op = "create" /\ Commit(r)
        BY <3>2 DEF CreateTicket, Advances
      <4>2. status[call[r].ticket] = "unused"
        BY <4>1 DEF Locking, IdsAreFresh
      <4>3. \A t \in TicketIds \ {call[r].ticket} : status'[t] = status[t]
        BY <3>2 DEF CreateTicket, TypeOK
      <4>4. \A q \in landed : call[q].op = "status" =>
              status'[call[q].ticket] = status[call[q].ticket]
        BY <3>1, <4>2, <4>3 DEF Status
      <4> QED
        BY <4>1, <4>4, OtherCommit
    <3>3. CASE DeleteOpenTicket(r)
      <4>1. pc[r] = "holding" /\ call[r].op = "delete" /\ Commit(r)
        BY <3>3 DEF DeleteOpenTicket, Advances
      <4>2. status[call[r].ticket] = "OPEN"
        BY <3>3, <4>1 DEF DeleteOpenTicket, Allowed, Locking, JudgedOnCurrentRow
      <4>3. \A t \in TicketIds \ {call[r].ticket} : status'[t] = status[t]
        BY <3>3 DEF DeleteOpenTicket, TypeOK
      <4>4. \A q \in landed : call[q].op = "status" =>
              status'[call[q].ticket] = status[call[q].ticket]
        BY <3>1, <4>2, <4>3
      <4> QED
        BY <4>1, <4>4, OtherCommit
    <3>4. CASE UpdateOpenTicket(r)
      BY <3>4, OtherCommit DEF UpdateOpenTicket, Advances
    <3>5. CASE CreateComment(r)
      BY <3>5, OtherCommit DEF CreateComment, Advances
    <3>6. CASE ChangeTicketStatus(r)
      <4> DEFINE t == call[r].ticket
      <4>1. /\ landed' = landed \cup {r} /\ call' = call
            /\ outcome' = outcome /\ after' = after /\ call[r].op = "status"
            /\ status' = [status EXCEPT ![t] = call[r].target]
        BY <3>6 DEF ChangeTicketStatus, Commit
      <4>2. t \in TicketIds
        BY <2>3, CallOfRequest, CallType
      <4>3. status'[t] = call[r].target
        BY <4>1, <4>2 DEF TypeOK
      <4>4. \A x \in TicketIds \ {t} : status'[x] = status[x]
        BY <4>1 DEF TypeOK
      <4>5. \A x, s : MovedTo(x, s) => MovedTo(x, s)'
        BY <4>1 DEF MovedTo
      <4> HIDE DEF t
      <4>6. ASSUME NEW q \in landed', call[q].op = "status"
            PROVE  \E p \in landed' : /\ call[p].op = "status"
                                     /\ call[p].ticket = call[q].ticket
                                     /\ call[p].target = status'[call[q].ticket]
        <5>1. CASE call[q].ticket = t
          BY <4>1, <4>3, <5>1 DEF t
        <5>2. CASE call[q].ticket # t
          <6>1. q \in landed
            BY <4>1, <5>2 DEF t
          <6>2. /\ status'[call[q].ticket] = status[call[q].ticket]
                /\ MovedTo(call[q].ticket, status[call[q].ticket])
            BY <3>1, <4>4, <4>6, <5>2, <6>1 DEF Explained, Authored
          <6> QED
            BY <4>1, <6>2 DEF MovedTo
        <5> QED
          BY <5>1, <5>2
      <4>7. Authored'
        BY <4>1, <4>6 DEF Authored, MovedTo
      <4>8. ReportsAreExplained'
        BY <4>1, <4>5 DEF Explained, ReportsAreExplained
      <4> QED
        BY <4>7, <4>8 DEF Explained
    <3>7. CASE Refresh(r)
      <4>1. /\ landed' = landed /\ call' = call /\ status' = status
            /\ \A q \in Requests \ {r} : outcome'[q] = outcome[q] /\ after'[q] = after[q]
            /\ call[r].op = "status" => after'[r] = status[call[r].ticket]
            /\ r \in landed
        BY <3>7 DEF Refresh, Answer, Advances, tables, TypeOK, EffectAtCommit
      <4>2. \A t, s : MovedTo(t, s) <=> MovedTo(t, s)'
        BY <4>1 DEF MovedTo
      <4>3. Authored'
        BY <4>1, <4>2 DEF Explained, Authored
      <4>4. call[r].op = "status" => MovedTo(call[r].ticket, after'[r])
        BY <4>1 DEF Explained, Authored
      <4>5. ReportsAreExplained'
        BY <4>1, <4>2, <4>4 DEF Explained, ReportsAreExplained
      <4> QED
        BY <4>3, <4>5 DEF Explained
    <3>8. CASE \/ SelectForUpdate(r) \/ TicketNotFound(r) \/ TicketStateError(r)
               \/ RefreshFails(r) \/ FinishDelete(r) \/ LoseConnection(r)
               \/ Connect(r) \/ ConnectTimesOut(r)
      <4>1. /\ landed' = landed /\ call' = call /\ status' = status /\ after' = after
            /\ \A q \in Requests : outcome'[q] = "ok" =>
                 outcome[q] = "ok" \/ call[q].op = "delete"
        BY <3>8 DEF SelectForUpdate, TicketNotFound, TicketStateError, RefreshFails,
           FinishDelete, LoseConnection, Connect, ConnectTimesOut, Answer, Advances,
           tables, TypeOK
      <4> QED
        BY <4>1 DEF Explained, Authored, ReportsAreExplained, MovedTo
    <3> QED
      BY <2>3, <3>2, <3>3, <3>4, <3>5, <3>6, <3>7, <3>8 DEF Handle
  <2> QED
    BY <2>1, <2>2, <2>3, HandlersHaveCalls DEF Next
<1>3. Explained => ReportsAreExplained
  BY DEF Explained
<1> QED
  BY <1>1, <1>2, <1>3, TypeCorrect, LockingHolds, EffectAtCommitHolds, WorkflowingHolds,
     PTL DEF Spec
=============================================================================
