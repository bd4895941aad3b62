------------------------ MODULE WebhookDeliveryProofs ------------------------
(* Proofs about WebhookDelivery for any requests, registrations and pool.    *)
EXTENDS WebhookDelivery, TLAPS

(* The invariant holds when the process starts.                              *)
LEMMA InitSound == Init => InductiveInvariant
  BY DEF Init, InductiveInvariant, TypeOK, Subscriptions, Steps, Stages,
     NothingToTheDeactivated, DeliveriesFollowTheirHandler, AnswersComeOnce,
     LogIsExact, DeactivationIsFinal, TargetsKeepTheirRow, Pairs

(* The rows accepted so far, kept by steps that log nothing and forget no    *)
(* logged reply.                                                             *)
LEMMA LogUntouched ==
  ASSUME LogIsExact, log' = log,
         \A p \in Pairs : /\ stage'[p] = "logged" <=> stage[p] = "logged"
                          /\ stage[p] = "logged" => reply'[p] = reply[p]
  PROVE  LogIsExact'
<1>1. \A p \in Pairs : stage[p] = "logged" => Row(p[1], p[2])' = Row(p[1], p[2])
  BY DEF Row, Pairs
<1> QED BY <1>1 DEF LogIsExact

(* A registration's row stays, and only deliveries under way get anywhere.   *)
LEMMA RowsStay ==
  ASSUME TargetsKeepTheirRow, subscription' = subscription,
         \A p \in Pairs : stage[p] = "none" => stage'[p] = "none"
  PROVE  TargetsKeepTheirRow'
  BY DEF TargetsKeepTheirRow, Pairs

(* What is said of deliveries does not depend on subscriptions or handlers.  *)
LEMMA DeliveriesUntouched ==
  ASSUME AnswersComeOnce, LogIsExact, UNCHANGED deliveries
  PROVE  AnswersComeOnce' /\ LogIsExact'
<1>1. AnswersComeOnce'
  BY DEF AnswersComeOnce, deliveries
<1>2. LogIsExact'
  BY LogUntouched DEF deliveries
<1> QED BY <1>1, <1>2

(* A delivery that moves while its handler stays in place.                   *)
LEMMA DeliveryMoves ==
  ASSUME DeliveriesFollowTheirHandler, NEW r \in Requests, NEW w \in Webhooks,
         step' = step, step[r] = "dispatching", stage'[<<r, w>>] # "queued",
         \A q \in Pairs \ {<<r, w>>} : stage'[q] = stage[q]
  PROVE  DeliveriesFollowTheirHandler'
<1> SUFFICES ASSUME NEW a \in Requests, NEW b \in Webhooks
             PROVE  /\ stage'[<<a, b>>] # "none" =>
                         step[a] \in {"scheduled", "dispatching", "done", "failed"}
                    /\ stage'[<<a, b>>] = "queued" => step[a] \in {"scheduled", "dispatching"}
                    /\ stage'[<<a, b>>] \in {"posting", "answered", "writing"} =>
                         step[a] = "dispatching"
  BY DEF DeliveriesFollowTheirHandler
<1>1. CASE <<a, b>> = <<r, w>>
  BY <1>1
<1>2. CASE <<a, b>> # <<r, w>>
  BY <1>2 DEF DeliveriesFollowTheirHandler, Pairs
<1> QED BY <1>1, <1>2

(* Steps of the agents leave requests and deliveries alone.                  *)
LEMMA AgentsKeep ==
  ASSUME InductiveInvariant, NEW w \in Webhooks,
         CreateRegistration(w) \/ Deactivate(w)
  PROVE  InductiveInvariant'
<1> USE DEF CreateRegistration, Deactivate, InductiveInvariant, deliveries
<1>1. /\ subscription' \in [Webhooks -> Subscriptions]
      /\ \A v \in Webhooks : subscription[v] = "inactive" => subscription'[v] = "inactive"
      /\ \A v \in Webhooks : subscription[v] # "absent" => subscription'[v] # "absent"
  BY DEF TypeOK, Subscriptions, Topics
<1>2. TypeOK'
  BY <1>1 DEF TypeOK
<1>3. NothingToTheDeactivated' /\ DeliveriesFollowTheirHandler'
  BY DEF NothingToTheDeactivated, DeliveriesFollowTheirHandler
<1>4. AnswersComeOnce' /\ LogIsExact'
  BY DeliveriesUntouched DEF deliveries
<1>5. DeactivationIsFinal' /\ TargetsKeepTheirRow'
  BY <1>1 DEF DeactivationIsFinal, TargetsKeepTheirRow
<1> QED BY <1>2, <1>3, <1>4, <1>5

(* The steps of a handler that touch no delivery.                            *)
Moves(r) ==
  \/ Begin(r) \/ BeginTimesOut(r) \/ Refresh(r) \/ RefreshTimesOut(r)
  \/ HandlerFails(r) \/ ScheduleNothing(r) \/ Respond(r) \/ Finish(r)

(* Steps of requests that leave deliveries and registrations alone keep it.  *)
LEMMA MovesKeep ==
  ASSUME InductiveInvariant, NEW r \in Requests, Moves(r)
  PROVE  InductiveInvariant'
<1> USE DEF Moves, Begin, BeginTimesOut, Refresh, RefreshTimesOut, HandlerFails,
            ScheduleNothing, Respond, Finish, Goes, InductiveInvariant, deliveries
<1>1. TypeOK'
  BY DEF TypeOK, Steps
<1>2. NothingToTheDeactivated' /\ DeactivationIsFinal' /\ TargetsKeepTheirRow'
  BY RowsStay DEF NothingToTheDeactivated, DeactivationIsFinal
<1>3. DeliveriesFollowTheirHandler'
  <2>1. /\ \/ /\ step[r] \in {"idle", "working"}
              /\ step'[r] \in {"working", "failed"}
           \/ /\ step[r] \in {"committed", "refreshed"}
              /\ step'[r] \in {"refreshed", "failed", "done"}
           \/ step[r] = "scheduled" /\ step'[r] = "dispatching"
           \/ /\ step[r] = "dispatching" /\ step'[r] = "done"
              /\ \A w \in Webhooks : stage[<<r, w>>] \in Settled
        /\ \A q \in Requests \ {r} : step'[q] = step[q]
        /\ stage' = stage
    BY DEF TypeOK
  <2> HIDE DEF Moves
  <2> QED BY <2>1 DEF DeliveriesFollowTheirHandler, Settled
<1>4. AnswersComeOnce' /\ LogIsExact'
  BY DeliveriesUntouched DEF deliveries
<1> QED BY <1>1, <1>2, <1>3, <1>4

(* A commit fixes what each registration was to the request.                 *)
LEMMA CommitKeeps ==
  ASSUME InductiveInvariant, NEW r \in Requests, Commit(r)
  PROVE  InductiveInvariant'
<1> USE DEF Commit, Goes, InductiveInvariant, deliveries
<1>1. /\ step[r] = "working"
      /\ known' \in [Requests -> [Webhooks -> {"active", "inactive", "other"}]]
      /\ \A w \in Webhooks : known'[r][w] = "inactive" => subscription[w] = "inactive"
      /\ \A q \in Requests \ {r} : known'[q] = known[q]
  BY DEF TypeOK
<1>2. TypeOK'
  BY <1>1 DEF TypeOK, Steps
<1>3. NothingToTheDeactivated'
  BY <1>1 DEF NothingToTheDeactivated, DeliveriesFollowTheirHandler
<1>4. DeactivationIsFinal' /\ TargetsKeepTheirRow'
  BY <1>1, RowsStay DEF DeactivationIsFinal
<1>5. DeliveriesFollowTheirHandler'
  <2>1. /\ step'[r] = "committed" /\ stage' = stage
        /\ \A q \in Requests \ {r} : step'[q] = step[q]
    BY DEF TypeOK
  <2>2. \A w \in Webhooks : stage[<<r, w>>] = "none"
    BY <1>1 DEF DeliveriesFollowTheirHandler
  <2> HIDE DEF Commit, InductiveInvariant
  <2>3. DeliveriesFollowTheirHandler
    BY DEF InductiveInvariant
  <2> QED BY <2>1, <2>2, <2>3 DEF DeliveriesFollowTheirHandler
<1>6. AnswersComeOnce' /\ LogIsExact'
  BY DeliveriesUntouched DEF deliveries
<1> QED BY <1>2, <1>3, <1>4, <1>5, <1>6

(* Scheduling queues deliveries to captured targets and nothing else.        *)
LEMMA ScheduleKeeps ==
  ASSUME InductiveInvariant, NEW r \in Requests, Schedule(r)
  PROVE  InductiveInvariant'
<1> USE DEF Schedule, Goes, InductiveInvariant
<1>1. step[r] = "refreshed" /\ (\A w \in Webhooks : stage[<<r, w>>] = "none")
  BY DEF DeliveriesFollowTheirHandler
<1>2. /\ \A p \in Pairs : \/ stage'[p] = stage[p]
                          \/ /\ p[1] = r /\ p[2] \in Captured(r)
                             /\ stage[p] = "none" /\ stage'[p] = "queued"
      /\ step' \in [Requests -> Steps] /\ step'[r] = "scheduled"
      /\ \A q \in Requests \ {r} : step'[q] = step[q]
  BY <1>1 DEF TypeOK, Pairs, Steps
<1>3. TypeOK'
  BY <1>2 DEF TypeOK, Stages
<1>4. NothingToTheDeactivated'
  <2>1. \A w \in Captured(r) : w \in Webhooks /\ known[r][w] # "inactive"
    BY TopicAssumption DEF Captured, DeactivationIsFinal, Topics
  <2> QED BY <1>2, <2>1 DEF NothingToTheDeactivated, Pairs
<1>5. DeliveriesFollowTheirHandler'
  BY <1>1, <1>2 DEF DeliveriesFollowTheirHandler, Pairs
<1>6. AnswersComeOnce'
  BY <1>2 DEF AnswersComeOnce
<1>7. LogIsExact'
  BY <1>2, LogUntouched
<1>8. DeactivationIsFinal'
  BY DEF DeactivationIsFinal
<1>9. TargetsKeepTheirRow'
  <2>1. \A w \in Captured(r) : subscription[w] # "absent"
    BY TopicAssumption DEF Captured, Topics
  <2> QED BY <1>2, <2>1 DEF TargetsKeepTheirRow, Pairs
<1> QED BY <1>3, <1>4, <1>5, <1>6, <1>7, <1>8, <1>9

(* The steps of a delivery that write no row.                                *)
Travels(r, w) ==
  \/ Post(r, w) \/ Answer(r, w) \/ PostRaises(r, w) \/ OpenSession(r, w)
  \/ SessionTimesOut(r, w) \/ RecordRejected(r, w) \/ RecordFails(r, w)

(* A delivery on its way to its receiver and to the database keeps it.       *)
LEMMA TravelsKeep ==
  ASSUME InductiveInvariant, NEW r \in Requests, NEW w \in Webhooks, Travels(r, w)
  PROVE  InductiveInvariant'
<1> DEFINE p == <<r, w>>
<1> USE DEF Travels, Post, Answer, PostRaises, OpenSession, SessionTimesOut,
            RecordRejected, RecordFails, Proceeds, InductiveInvariant
<1>1. /\ p \in Pairs
      /\ stage[p] \in {"queued", "posting", "answered", "writing"}
      /\ stage'[p] \in {"posting", "answered", "writing", "rejected", "lost"}
      /\ \A q \in Pairs \ {p} : stage'[q] = stage[q] /\ reply'[q] = reply[q]
      /\ step' = step /\ log' = log /\ known' = known /\ subscription' = subscription
  BY DEF TypeOK, Pairs
<1>7. step[r] = "dispatching"
  BY <1>1 DEF DeliveriesFollowTheirHandler
<1>8. /\ stage'[p] \in {"posting", "rejected", "lost"} => reply'[p] = "none"
      /\ stage'[p] \in {"answered", "writing"} => reply'[p] \in Replies
  BY <1>1 DEF TypeOK, AnswersComeOnce
<1>2. TypeOK'
  BY DEF TypeOK, Stages
<1>3. NothingToTheDeactivated' /\ DeactivationIsFinal' /\ TargetsKeepTheirRow'
  BY <1>1, RowsStay DEF NothingToTheDeactivated, DeactivationIsFinal, Pairs
<1>4. DeliveriesFollowTheirHandler'
  BY <1>1, <1>7, DeliveryMoves
<1>5. AnswersComeOnce'
  BY <1>1, <1>8 DEF AnswersComeOnce
<1>6. LogIsExact'
  BY <1>1, LogUntouched
<1> QED BY <1>2, <1>3, <1>4, <1>5, <1>6

(* Recording adds the row of this delivery and of no other.                  *)
LEMMA RecordKeeps ==
  ASSUME InductiveInvariant, NEW r \in Requests, NEW w \in Webhooks, Record(r, w)
  PROVE  InductiveInvariant'
<1> DEFINE p == <<r, w>>
<1> USE DEF Record, Proceeds, InductiveInvariant
<1>1. /\ p \in Pairs /\ p[1] = r /\ p[2] = w
      /\ stage[p] = "writing" /\ stage'[p] = "logged"
      /\ reply[p] \in Replies
      /\ \A q \in Pairs \ {p} : stage'[q] = stage[q]
  BY DEF TypeOK, Pairs, AnswersComeOnce
<1>2. TypeOK'
  BY DEF TypeOK, Stages, Admissible
<1>3. NothingToTheDeactivated' /\ DeactivationIsFinal' /\ TargetsKeepTheirRow'
  BY <1>1, RowsStay DEF NothingToTheDeactivated, DeactivationIsFinal, Pairs
<1>4. DeliveriesFollowTheirHandler'
  <2>1. step[r] = "dispatching"
    BY <1>1 DEF DeliveriesFollowTheirHandler
  <2> QED BY <1>1, <2>1, DeliveryMoves
<1>5. AnswersComeOnce'
  BY <1>1 DEF AnswersComeOnce
<1>6. LogIsExact'
  <2>1. \A a, b : Row(a, b)' = Row(a, b)
    BY DEF Row
  <2>2. {q \in Pairs : stage'[q] = "logged"} = {q \in Pairs : stage[q] = "logged"} \cup {p}
    BY <1>1
  <2>3. log' = {Row(q[1], q[2]) : q \in {q \in Pairs : stage[q] = "logged"} \cup {p}}
    BY <1>1 DEF LogIsExact
  <2> QED BY <2>1, <2>2, <2>3 DEF LogIsExact
<1> QED BY <1>2, <1>3, <1>4, <1>5, <1>6

(* A crash loses what is under way and no row.                               *)
LEMMA CrashKeeps ==
  ASSUME InductiveInvariant, Crash
  PROVE  InductiveInvariant'
<1> USE DEF Crash, InductiveInvariant
<1>1. \A p \in Pairs : \/ stage[p] \in Settled /\ stage'[p] = stage[p] /\ reply'[p] = reply[p]
                       \/ stage[p] \notin Settled /\ stage'[p] = "lost" /\ reply'[p] = "none"
  BY DEF Pairs
<1>2. TypeOK'
  BY DEF TypeOK, Stages, Steps
<1>3. NothingToTheDeactivated' /\ DeactivationIsFinal' /\ TargetsKeepTheirRow'
  BY <1>1, RowsStay DEF NothingToTheDeactivated, DeactivationIsFinal, Pairs, Settled
<1>4. DeliveriesFollowTheirHandler'
  BY <1>1 DEF DeliveriesFollowTheirHandler, Pairs, Settled
<1>5. AnswersComeOnce'
  BY <1>1 DEF AnswersComeOnce, Settled
<1>6. LogIsExact'
  BY <1>1, LogUntouched DEF Settled
<1> QED BY <1>2, <1>3, <1>4, <1>5, <1>6

(* Every step keeps the invariant.                                           *)
LEMMA StepKeeps ==
  ASSUME InductiveInvariant, [Next]_vars
  PROVE  InductiveInvariant'
<1>1. CASE UNCHANGED vars
  <2>1. UNCHANGED <<subscription, outlives, step, known, deliveries, stage, reply, log>>
    BY <1>1 DEF vars, deliveries
  <2>2. TypeOK'
    BY <2>1 DEF InductiveInvariant, TypeOK
  <2>3. AnswersComeOnce' /\ LogIsExact'
    BY <2>1, DeliveriesUntouched DEF InductiveInvariant
  <2>4. NothingToTheDeactivated' /\ DeliveriesFollowTheirHandler'
    BY <2>1 DEF InductiveInvariant, NothingToTheDeactivated, DeliveriesFollowTheirHandler
  <2>5. DeactivationIsFinal' /\ TargetsKeepTheirRow'
    BY <2>1 DEF InductiveInvariant, DeactivationIsFinal, TargetsKeepTheirRow
  <2> QED BY <2>2, <2>3, <2>4, <2>5 DEF InductiveInvariant
<1>2. ASSUME NEW w \in Webhooks, CreateRegistration(w) \/ Deactivate(w)
      PROVE  InductiveInvariant'
  BY <1>2, AgentsKeep
<1>3. ASSUME NEW r \in Requests,
             Begin(r) \/ BeginTimesOut(r) \/ HandlerFails(r) \/ Handle(r)
      PROVE  InductiveInvariant'
  BY <1>3, CommitKeeps, MovesKeep, ScheduleKeeps DEF Handle, Moves
<1>4. ASSUME NEW r \in Requests, NEW w \in Webhooks,
             Answer(r, w) \/ PostRaises(r, w) \/ RecordFails(r, w) \/ Deliver(r, w)
      PROVE  InductiveInvariant'
  BY <1>4, TravelsKeep, RecordKeeps DEF Deliver, Travels
<1>5. CASE Crash
  BY <1>5, CrashKeeps
<1> QED BY <1>1, <1>2, <1>3, <1>4, <1>5 DEF Next, Work

----------------------------------------------------------------------------
(* The inductive invariant of deliveries, the one a run checks. *)
THEOREM InductiveInvariantHolds == Spec => []InductiveInvariant
  BY InitSound, StepKeeps, PTL DEF Spec

(* Requests, deliveries and the log keep their types: in particular the log  *)
(* holds no status code its CHECK constraint forbids.                        *)
THEOREM TypeCorrect == Spec => []TypeOK
<1>1. InductiveInvariant => TypeOK
  BY DEF InductiveInvariant
<1> QED BY <1>1, InductiveInvariantHolds, PTL

(* No event is delivered to a registration deactivated before its commit. *)
THEOREM NothingToTheDeactivatedHolds == Spec => []NothingToTheDeactivated
<1>1. InductiveInvariant => NothingToTheDeactivated
  BY DEF InductiveInvariant
<1> QED BY <1>1, InductiveInvariantHolds, PTL

(* The audit log is exactly the rows of the deliveries that were accepted:   *)
(* no crash or lost connection leaves a row that tells of something else.    *)
THEOREM LogIsExactHolds == Spec => []LogIsExact
<1>1. InductiveInvariant => LogIsExact
  BY DEF InductiveInvariant
<1> QED BY <1>1, InductiveInvariantHolds, PTL

----------------------------------------------------------------------------
(* Refinement: what each step is to the promise.                             *)
Fates == [p \in Pairs |-> FateOf[stage[p]]]

(* What each stage of a delivery looks like to the promise.                  *)
LEMMA FateValues ==
  /\ FateOf["none"] = "none"
  /\ FateOf["queued"] = "owed"
  /\ FateOf["posting"] = "tried"
  /\ FateOf["answered"] = "tried"
  /\ FateOf["writing"] = "tried"
  /\ FateOf["logged"] = "logged"
  /\ FateOf["rejected"] = "lost"
  /\ FateOf["lost"] = "lost"
  BY DEF FateOf, Stages

(* The initial states map to initial states.                                 *)
LEMMA InitRefines == Init => Promise!Init
  BY FateValues DEF Init, Promise!Init, Pairs, Promise!Pairs

(* A step that leaves the deliveries alone is a stutter.                     *)
LEMMA StaySame ==
  ASSUME UNCHANGED deliveries
  PROVE  UNCHANGED Promise!vars
  BY DEF deliveries, Promise!vars

(* One delivery changes its fate as told and all others keep theirs.         *)
LEMMA FateChanges ==
  ASSUME NEW p \in Pairs, NEW to \in Stages, stage' = [stage EXCEPT ![p] = to],
         stage \in [Pairs -> Stages]
  PROVE  Fates' = [Fates EXCEPT ![p] = FateOf[to]]
  BY DEF Fates

(* Scheduling is the promise's choice of targets, or a stutter.              *)
LEMMA ScheduleRefines ==
  ASSUME InductiveInvariant, NEW r \in Requests, Schedule(r)
  PROVE  Promise!Next
<1> USE DEF Schedule, Goes
<1>1. \A w \in Webhooks : stage[<<r, w>>] = "none"
  BY DEF InductiveInvariant, DeliveriesFollowTheirHandler
<1>2. PICK targets \in (SUBSET Webhooks) \ {{}} : targets = Captured(r)
  BY DEF Captured
<1>3. Fates' = [p \in Pairs |-> IF p[1] = r /\ p[2] \in targets THEN "owed"
                                                              ELSE Fates[p]]
  BY <1>2, FateValues DEF Fates
<1>4. Promise!Capture(r, targets)
  BY <1>1, <1>3, FateValues DEF Promise!Capture, Fates, Pairs, Promise!Pairs
<1> QED BY <1>4 DEF Promise!Next

(* Posting is the promised attempt.                                          *)
LEMMA PostRefines ==
  ASSUME InductiveInvariant, NEW r \in Requests, NEW w \in Webhooks, Post(r, w)
  PROVE  Promise!Next
<1> USE DEF Post, Proceeds
<1>1. <<r, w>> \in Pairs /\ stage \in [Pairs -> Stages]
  BY DEF Pairs, InductiveInvariant, TypeOK
<1>2. Fates' = [Fates EXCEPT ![<<r, w>>] = "tried"] /\ Fates[<<r, w>>] = "owed"
  BY <1>1, FateChanges, FateValues DEF Fates, Stages
<1>3. Promise!Try(r, w)
  BY <1>2 DEF Promise!Try, Fates
<1> QED BY <1>3 DEF Promise!Next

(* An answer is the promise's, although it is not recorded yet.              *)
LEMMA AnswerRefines ==
  ASSUME InductiveInvariant, NEW r \in Requests, NEW w \in Webhooks, Answer(r, w)
  PROVE  Promise!Next
<1> USE DEF Answer, Proceeds
<1>1. <<r, w>> \in Pairs /\ stage \in [Pairs -> Stages] /\ reply[<<r, w>>] = "none"
  BY DEF Pairs, InductiveInvariant, TypeOK, AnswersComeOnce
<1>2. Fates' = Fates /\ Fates[<<r, w>>] = "tried"
  BY <1>1, FateValues DEF Fates
<1>3. Promise!ComeBack(r, w)
  BY <1>1, <1>2 DEF Promise!ComeBack, Fates, Replies, Promise!Replies, Codes, Promise!Codes
<1> QED BY <1>3 DEF Promise!Next

(* Waiting for a connection is hidden.                                       *)
LEMMA OpenSessionRefines ==
  ASSUME InductiveInvariant, NEW r \in Requests, NEW w \in Webhooks, OpenSession(r, w)
  PROVE  UNCHANGED Promise!vars
<1> USE DEF OpenSession, Proceeds
<1>1. <<r, w>> \in Pairs /\ stage \in [Pairs -> Stages]
  BY DEF Pairs, InductiveInvariant, TypeOK
<1>2. Fates' = Fates
  BY <1>1, FateValues DEF Fates
<1> QED BY <1>2 DEF Promise!vars, Fates

(* Whatever ends a delivery without a row loses it, and its answer.          *)
LEMMA LossRefines ==
  ASSUME InductiveInvariant, NEW r \in Requests, NEW w \in Webhooks,
         \/ PostRaises(r, w) \/ SessionTimesOut(r, w)
         \/ RecordRejected(r, w) \/ RecordFails(r, w)
  PROVE  Promise!Next
<1> DEFINE p == <<r, w>>
<1> USE DEF PostRaises, SessionTimesOut, RecordRejected, RecordFails, Proceeds
<1>1. /\ p \in Pairs /\ stage \in [Pairs -> Stages]
      /\ reply \in [Pairs -> Replies \cup {"none"}]
      /\ stage[p] = "posting" => reply[p] = "none"
  BY DEF Pairs, InductiveInvariant, TypeOK, AnswersComeOnce
<1>2. Fates' = [Fates EXCEPT ![p] = "lost"] /\ Fates[p] = "tried"
  <2>1. CASE stage' = [stage EXCEPT ![p] = "lost"]
    BY <1>1, <2>1, FateChanges, FateValues DEF Fates, Stages
  <2>2. CASE stage' = [stage EXCEPT ![p] = "rejected"]
    BY <1>1, <2>2, FateChanges, FateValues DEF Fates, Stages
  <2> QED BY <2>1, <2>2
<1>3. reply' = [reply EXCEPT ![p] = "none"] /\ log' = log
  BY <1>1
<1>4. Promise!Lose({p})
  <2>1. Fates' = [q \in Pairs |-> IF q \in {p} THEN "lost" ELSE Fates[q]]
    BY <1>2 DEF Fates
  <2>2. reply' = [q \in Pairs |-> IF q \in {p} THEN "none" ELSE reply[q]]
    BY <1>1, <1>3
  <2> QED BY <1>2, <1>3, <2>1, <2>2 DEF Promise!Lose, Fates, Pairs, Promise!Pairs
<1> QED BY <1>4 DEF Promise!Next

(* Recording writes the promised row.                                        *)
LEMMA RecordRefines ==
  ASSUME InductiveInvariant, NEW r \in Requests, NEW w \in Webhooks, Record(r, w)
  PROVE  Promise!Next
<1> DEFINE row == Row(r, w)
<1> USE DEF Record, Proceeds
<1>1. /\ <<r, w>> \in Pairs /\ stage \in [Pairs -> Stages]
      /\ reply[<<r, w>>] \in Replies
  BY DEF Pairs, InductiveInvariant, TypeOK, AnswersComeOnce
<1>2. Fates' = [Fates EXCEPT ![<<r, w>>] = "logged"] /\ Fates[<<r, w>>] = "tried"
  <2>1. stage[<<r, w>>] = "writing" /\ stage' = [stage EXCEPT ![<<r, w>>] = "logged"]
    OBVIOUS
  <2>2. Fates' = [Fates EXCEPT ![<<r, w>>] = FateOf["logged"]]
    <3> HIDE DEF Record, Proceeds
    <3> QED BY <1>1, <2>1, FateChanges DEF Stages
  <2> QED BY <1>1, <2>1, <2>2, FateValues DEF Fates
<1>3. /\ row = [request |-> r, webhook |-> w, success |-> row.success, code |-> row.code]
      /\ row.success \in BOOLEAN /\ row.code \in Promise!Codes \cup {"null"}
  BY <1>1 DEF Row, Codes, Promise!Codes
<1>4. Promise!Truthful(row)
  BY <1>1 DEF Promise!Truthful, Row, Codes, Promise!Codes, Replies, Promise!Replies
<1>5. Promise!Log(r, w)
  <2> HIDE DEF row
  <2>1. log' = log \cup {row} /\ reply' = reply
    BY DEF row
  <2> QED BY <1>2, <1>3, <1>4, <2>1 DEF Promise!Log, Fates
<1> QED BY <1>5 DEF Promise!Next

(* A crash gives up the deliveries under way.                                *)
LEMMA CrashRefines ==
  ASSUME InductiveInvariant, Crash
  PROVE  Promise!Next
<1> DEFINE gone == {p \in Pairs : Fates[p] \in {"owed", "tried"}}
<1>1. \A p \in Pairs : p \in gone <=> stage[p] \notin Settled
  BY FateValues DEF Fates, Settled, InductiveInvariant, TypeOK, Stages
<1>2. Fates' = [p \in Pairs |-> IF p \in gone THEN "lost" ELSE Fates[p]]
  BY <1>1, FateValues DEF Crash, Fates
<1>3. reply' = [p \in Pairs |-> IF p \in gone THEN "none" ELSE reply[p]] /\ log' = log
  BY <1>1 DEF Crash
<1>4. Promise!Lose(gone)
  BY <1>2, <1>3 DEF Promise!Lose, Fates, Pairs, Promise!Pairs
<1> QED BY <1>4 DEF Promise!Next, Fates, Pairs, Promise!Pairs

(* Every step maps to a step of the promise or to a stutter.                 *)
LEMMA StepRefines ==
  ASSUME InductiveInvariant, [Next]_vars
  PROVE  [Promise!Next]_Promise!vars
<1>1. CASE UNCHANGED vars
  BY <1>1, StaySame DEF vars, deliveries
<1>2. ASSUME NEW w \in Webhooks, CreateRegistration(w) \/ Deactivate(w)
      PROVE  UNCHANGED Promise!vars
  BY <1>2, StaySame DEF CreateRegistration, Deactivate
<1>3. ASSUME NEW r \in Requests, Commit(r) \/ Moves(r)
      PROVE  UNCHANGED Promise!vars
  BY <1>3, StaySame DEF Moves, Commit, Begin, BeginTimesOut, Refresh,
     RefreshTimesOut, HandlerFails, ScheduleNothing, Respond, Finish
<1>4. ASSUME NEW r \in Requests, NEW w \in Webhooks,
             Answer(r, w) \/ PostRaises(r, w) \/ RecordFails(r, w) \/ Deliver(r, w)
      PROVE  [Promise!Next]_Promise!vars
  BY <1>4, PostRefines, AnswerRefines, OpenSessionRefines, LossRefines, RecordRefines
     DEF Deliver
<1> QED BY <1>1, <1>2, <1>3, <1>4, ScheduleRefines, CrashRefines
        DEF Next, Work, Handle, Moves

(* Handlers, background tasks, pool and crashes implement the promise: at    *)
(* most one attempt per event and registration, and a log that only holds    *)
(* what came of an attempt.                                                  *)
THEOREM Refinement == Spec => ImplementsPromise
  BY InitRefines, StepRefines, InductiveInvariantHolds, PTL
     DEF Spec, ImplementsPromise, Promise!Spec

----------------------------------------------------------------------------
(* The audit log never has two rows for one event and registration, although *)
(* the table has no unique key to see to it: a delivery writes once, and a   *)
(* second one for the same pair never starts.                                *)
OneRowPerDelivery ==
  \A a, b \in log : a.request = b.request /\ a.webhook = b.webhook => a = b

(* No event has two rows for one registration.                               *)
THEOREM OneRowPerDeliveryHolds == Spec => []OneRowPerDelivery
<1>1. LogIsExact => OneRowPerDelivery
  <2> SUFFICES ASSUME LogIsExact, NEW a \in log, NEW b \in log,
                      a.request = b.request, a.webhook = b.webhook
               PROVE  a = b
    BY DEF OneRowPerDelivery
  <2>1. PICK p \in Pairs : a = Row(p[1], p[2])
    BY DEF LogIsExact
  <2>2. PICK q \in Pairs : b = Row(q[1], q[2])
    BY DEF LogIsExact
  <2>3. /\ a.request = p[1] /\ a.webhook = p[2]
        /\ b.request = q[1] /\ b.webhook = q[2]
    BY <2>1, <2>2 DEF Row
  <2> QED BY <2>1, <2>2, <2>3
<1> QED BY <1>1, LogIsExactHolds, PTL

----------------------------------------------------------------------------
(* A delivery only goes forward, from being captured to its post, its answer *)
(* and its row, or to being lost on the way; where it ended it stays. So no  *)
(* receiver is sent an event twice, not even by a process started again      *)
(* after a crash, and no row is ever taken back.                             *)
Phase ==
  [s \in Stages |-> CASE s = "none"     -> 0
                      [] s = "queued"   -> 1
                      [] s = "posting"  -> 2
                      [] s = "answered" -> 3
                      [] s = "writing"  -> 4
                      [] s \in {"logged", "rejected", "lost"} -> 5]
Onward ==
  /\ \A p \in Pairs : stage'[p] # stage[p] => Phase[stage[p]] < Phase[stage'[p]]
  /\ log \subseteq log'
DeliveriesOnlyAdvance == [][Onward]_vars

(* The phases, one by one.                                                   *)
LEMMA PhaseValues ==
  /\ Phase["none"] = 0
  /\ Phase["queued"] = 1
  /\ Phase["posting"] = 2
  /\ Phase["answered"] = 3
  /\ Phase["writing"] = 4
  /\ Phase["logged"] = 5
  /\ Phase["rejected"] = 5
  /\ Phase["lost"] = 5
  BY DEF Phase, Stages

(* Deliveries only go forward and rows stay.                                 *)
THEOREM DeliveriesOnlyAdvanceHolds == Spec => DeliveriesOnlyAdvance
<1>1. InductiveInvariant /\ [Next]_vars => [Onward]_vars
  <2> SUFFICES ASSUME InductiveInvariant, Next PROVE Onward
    BY DEF Onward
  <2>1. ASSUME UNCHANGED <<stage, log>> PROVE Onward
    BY <2>1 DEF Onward
  <2>2. ASSUME NEW w \in Webhooks, CreateRegistration(w) \/ Deactivate(w)
        PROVE  Onward
    BY <2>1, <2>2 DEF CreateRegistration, Deactivate, deliveries
  <2>3. ASSUME NEW r \in Requests, Commit(r) \/ Moves(r) PROVE Onward
    BY <2>1, <2>3 DEF Commit, Moves, Begin, BeginTimesOut, Refresh,
       RefreshTimesOut, HandlerFails, ScheduleNothing, Respond, Finish, deliveries
  <2>4. ASSUME NEW r \in Requests, Schedule(r) PROVE Onward
    <3>1. \A w \in Webhooks : stage[<<r, w>>] = "none"
      BY <2>4 DEF Schedule, Goes, InductiveInvariant, DeliveriesFollowTheirHandler
    <3>2. \A p \in Pairs : stage'[p] # stage[p] => stage[p] = "none" /\ stage'[p] = "queued"
      BY <2>4, <3>1 DEF Schedule, Pairs
    <3> QED BY <2>4, <3>2, PhaseValues DEF Onward, Schedule
  <2>5. ASSUME NEW r \in Requests, NEW w \in Webhooks, Travels(r, w) \/ Record(r, w)
        PROVE  Onward
    <3> DEFINE p == <<r, w>>
    <3>1. /\ p \in Pairs
          /\ \A q \in Pairs \ {p} : stage'[q] = stage[q]
          /\ log \subseteq log'
      BY <2>5 DEF Travels, Post, Answer, PostRaises, OpenSession, SessionTimesOut,
         RecordRejected, RecordFails, Record, Proceeds, InductiveInvariant, TypeOK, Pairs
    <3>2. \/ stage[p] = "queued" /\ stage'[p] = "posting"
          \/ stage[p] = "posting" /\ stage'[p] \in {"answered", "lost"}
          \/ stage[p] = "answered" /\ stage'[p] \in {"writing", "lost"}
          \/ stage[p] = "writing" /\ stage'[p] \in {"logged", "rejected", "lost"}
      BY <2>5, <3>1 DEF Travels, Post, Answer, PostRaises, OpenSession, SessionTimesOut,
         RecordRejected, RecordFails, Record, Proceeds, InductiveInvariant, TypeOK
    <3> HIDE DEF p
    <3> QED BY <3>1, <3>2, PhaseValues DEF Onward
  <2>6. CASE Crash
    <3>1. \A p \in Pairs : stage'[p] # stage[p] =>
            stage[p] \in {"queued", "posting", "answered", "writing"} /\ stage'[p] = "lost"
      BY <2>6 DEF Crash, Settled, InductiveInvariant, TypeOK, Stages
    <3> QED BY <2>6, <3>1, PhaseValues DEF Onward, Crash
  <2> QED BY <2>2, <2>3, <2>4, <2>5, <2>6 DEF Next, Work, Handle, Moves, Deliver, Travels
<1> QED BY <1>1, InductiveInvariantHolds, PTL DEF Spec, DeliveriesOnlyAdvance

----------------------------------------------------------------------------
(* Only a status code outside the table's range keeps an attempt that        *)
(* reached the database out of the log. The foreign key to the registration  *)
(* never does, whenever the registration is deactivated: the row stays.      *)
RejectedForItsCode ==
  \A p \in Pairs :
    stage[p] # "rejected" /\ stage'[p] = "rejected" => reply[p] = "6xx"
OnlyCodesAreRejected == [][RejectedForItsCode]_vars

(* No attempt is rejected for want of its registration.                      *)
THEOREM OnlyCodesAreRejectedHolds == Spec => OnlyCodesAreRejected
<1>1. ASSUME InductiveInvariant, NEW r \in Requests, NEW w \in Webhooks,
             RecordRejected(r, w)
      PROVE  reply[<<r, w>>] = "6xx"
  <2>1. /\ subscription[w] # "absent" /\ Row(r, w) \notin Rows
        /\ reply[<<r, w>>] \in Replies
    BY <1>1 DEF RecordRejected, Proceeds, Admissible, InductiveInvariant,
       TargetsKeepTheirRow, AnswersComeOnce, Pairs
  <2>2. CASE reply[<<r, w>>] \in {"2xx", "other", "network_error"}
    BY <2>1, <2>2 DEF Row, Rows, Codes
  <2> QED BY <2>1, <2>2 DEF Replies, Codes
<1>2. InductiveInvariant /\ [Next]_vars => [RejectedForItsCode]_vars
  <2> SUFFICES ASSUME InductiveInvariant, Next, NEW p \in Pairs,
                      stage[p] # "rejected", stage'[p] = "rejected"
               PROVE  reply[p] = "6xx"
    BY DEF RejectedForItsCode
  <2>1. stage \in [Pairs -> Stages]
    BY DEF InductiveInvariant, TypeOK
  <2>2. ASSUME NEW w \in Webhooks, CreateRegistration(w) \/ Deactivate(w)
        PROVE  FALSE
    BY <2>2 DEF CreateRegistration, Deactivate, deliveries
  <2>3. ASSUME NEW r \in Requests, Commit(r) \/ Moves(r) PROVE FALSE
    BY <2>3 DEF Commit, Moves, Begin, BeginTimesOut, Refresh, RefreshTimesOut,
       HandlerFails, ScheduleNothing, Respond, Finish, deliveries
  <2>4. ASSUME NEW r \in Requests, Schedule(r) PROVE FALSE
    BY <2>4 DEF Schedule
  <2>5. ASSUME NEW r \in Requests, NEW w \in Webhooks, RecordRejected(r, w)
        PROVE  reply[p] = "6xx"
    <3>1. p = <<r, w>>
      BY <2>1, <2>5 DEF RecordRejected, Proceeds
    <3> QED BY <1>1, <2>5, <3>1
  <2>6. ASSUME NEW r \in Requests, NEW w \in Webhooks,
               \/ Post(r, w) \/ Answer(r, w) \/ PostRaises(r, w) \/ OpenSession(r, w)
               \/ SessionTimesOut(r, w) \/ Record(r, w) \/ RecordFails(r, w)
        PROVE  FALSE
    BY <2>1, <2>6 DEF Post, Answer, PostRaises, OpenSession, SessionTimesOut,
       Record, RecordFails, Proceeds
  <2>7. CASE Crash
    BY <2>7 DEF Crash
  <2> QED BY <2>2, <2>3, <2>4, <2>5, <2>6, <2>7 DEF Next, Work, Handle, Moves, Deliver
<1> QED BY <1>2, InductiveInvariantHolds, PTL DEF Spec, OnlyCodesAreRejected
=============================================================================
