--------------------------- MODULE WebhookDelivery ---------------------------
(* Outgoing webhooks of one API process: agents register and deactivate      *)
(* subscriptions, request handlers capture the subscriptions of their event  *)
(* after their commit, and a background task delivers to all of them at once *)
(* and writes one row each to the audit log. Handlers and deliveries draw    *)
(* database connections from one pool.                                       *)
EXTENDS Naturals, FiniteSets

CONSTANTS
  Requests,     \* requests that publish an event, each made once
  Webhooks,     \* registrations, each made at most once
  topic,        \* topic[r]: the type of the event r publishes
  PoolSize      \* connections of the engine's pool, overflow included

Topics == {"ticket.created", "ticket.status_changed"}

ASSUME TopicAssumption == topic \in [Requests -> Topics]
ASSUME PoolAssumption == PoolSize \in Nat \ {0}

VARIABLES
  subscription, \* subscription[w]: absent, the event type while active, inactive
  outlives,     \* whether a request's session is open until its tasks are done
  step,         \* step[r]: how far the request has come
  known,        \* history: known[r][w], what w was to r when r committed
  stage,        \* stage[<<r, w>>]: how far the delivery of r's event to w has come
  reply,        \* reply[<<r, w>>]: what came of the POST, as the delivery knows it
  log           \* rows of webhook_delivery_logs

deliveries == <<stage, reply, log>>
vars == <<subscription, outlives, step, known, deliveries>>

Pairs == Requests \X Webhooks
Subscriptions == Topics \cup {"absent", "inactive"}

(* Status codes by what the code and the table tell apart: success, failures *)
(* up to 599, and 600 to 999, which the HTTP client lets through as well.    *)
Codes == {"2xx", "other", "6xx"}
Replies == Codes \cup {"network_error"}

Steps == {"idle", "working", "committed", "refreshed", "scheduled",
          "dispatching", "done", "failed"}
Stages == {"none", "queued", "posting", "answered", "writing", "logged",
           "rejected", "lost"}

(* The columns of a row; CHECK response_code_valid admits NULL and 100-599.  *)
Rows == [request : Requests, webhook : Webhooks, success : BOOLEAN,
         code : {"2xx", "other", "null"}]

TypeOK ==
  /\ subscription \in [Webhooks -> Subscriptions]
  /\ outlives \in BOOLEAN
  /\ step \in [Requests -> Steps]
  /\ known \in [Requests -> [Webhooks -> {"active", "inactive", "other"}]]
  /\ stage \in [Pairs -> Stages]
  /\ reply \in [Pairs -> Replies \cup {"none"}]
  /\ log \subseteq Rows

Init ==
  /\ subscription = [w \in Webhooks |-> "absent"]
  /\ outlives \in BOOLEAN
  /\ step = [r \in Requests |-> "idle"]
  /\ known = [r \in Requests |-> [w \in Webhooks |-> "other"]]
  /\ stage = [p \in Pairs |-> "none"]
  /\ reply = [p \in Pairs |-> "none"]
  /\ log = {}

(* Who has a connection checked out: handlers from the SELECT of their user  *)
(* to the commit and from the refresh after it until their session is        *)
(* closed, deliveries while they write.                                      *)
HoldingRequests ==
  {r \in Requests : \/ step[r] \in {"working", "refreshed", "scheduled"}
                    \/ step[r] = "dispatching" /\ outlives}
Writing == {p \in Pairs : stage[p] = "writing"}
ConnectionFree == Cardinality(HoldingRequests) + Cardinality(Writing) < PoolSize

----------------------------------------------------------------------------
(* Agents.                                                                   *)
CreateRegistration(w) ==
  /\ subscription[w] = "absent"
  /\ \E t \in Topics : subscription' = [subscription EXCEPT ![w] = t]
  /\ UNCHANGED <<outlives, step, known, deliveries>>

(* As Deactivate, had the registration been deleted. *)
DeleteRegistration(w) ==
  /\ subscription[w] \in Topics
  /\ subscription' = [subscription EXCEPT ![w] = "absent"]
  /\ UNCHANGED <<outlives, step, known, deliveries>>

(* The row lock lets one of several deactivations through; the others find   *)
(* no active row.                                                            *)
Deactivate(w) ==
  /\ subscription[w] \in Topics
  /\ subscription' = [subscription EXCEPT ![w] = "inactive"]
  /\ UNCHANGED <<outlives, step, known, deliveries>>

----------------------------------------------------------------------------
(* Request handlers.                                                         *)
Goes(r, from, to) == step[r] = from /\ step' = [step EXCEPT ![r] = to]

(* The session's first statement, the SELECT of the user, checks out a       *)
(* connection, and the transaction keeps it.                                 *)
Begin(r) ==
  /\ ConnectionFree
  /\ Goes(r, "idle", "working")
  /\ UNCHANGED <<subscription, outlives, known, deliveries>>

(* QueuePool gives up after 30 seconds: a 500, and nothing is changed.       *)
BeginTimesOut(r) ==
  /\ ~ConnectionFree
  /\ Goes(r, "idle", "failed")
  /\ UNCHANGED <<subscription, outlives, known, deliveries>>

(* The ticket's change is committed, and the connection back in the pool.    *)
Commit(r) ==
  /\ Goes(r, "working", "committed")
  /\ known' = [known EXCEPT ![r] = [w \in Webhooks |->
                                     IF subscription[w] = topic[r] THEN "active"
                                     ELSE IF subscription[w] = "inactive" THEN "inactive"
                                     ELSE "other"]]
  /\ UNCHANGED <<subscription, outlives, deliveries>>

Refresh(r) ==
  /\ ConnectionFree
  /\ Goes(r, "committed", "refreshed")
  /\ UNCHANGED <<subscription, outlives, known, deliveries>>

(* The same timeout, now a 500 for a committed change.                       *)
RefreshTimesOut(r) ==
  /\ ~ConnectionFree
  /\ Goes(r, "committed", "failed")
  /\ UNCHANGED <<subscription, outlives, known, deliveries>>

(* The request is refused, the connection breaks during one of the handler's *)
(* statements, or the broadcast after the commit raises.                     *)
HandlerFails(r) ==
  /\ Goes(r, "working", "failed") \/ Goes(r, "refreshed", "failed")
  /\ UNCHANGED <<subscription, outlives, known, deliveries>>

(* As Captured, had is_active been forgotten. *)
CapturedAnyState(r) ==
  {w \in Webhooks : subscription[w] \in {topic[r], "inactive"}}

(* The registrations the SELECT finds active for the type. *)
Captured(r) == {w \in Webhooks : subscription[w] = topic[r]}

(* Without a match nothing is added to the background tasks. *)
ScheduleNothing(r) ==
  /\ Captured(r) = {}
  /\ Goes(r, "refreshed", "done")
  /\ UNCHANGED <<subscription, outlives, known, deliveries>>

Schedule(r) ==
  /\ Captured(r) # {}
  /\ Goes(r, "refreshed", "scheduled")
  /\ stage' = [p \in Pairs |-> IF p[1] = r /\ p[2] \in Captured(r)
                                 THEN "queued" ELSE stage[p]]
  /\ UNCHANGED <<subscription, outlives, known, reply, log>>

(* The response is out; only now the background task starts. *)
Respond(r) ==
  /\ Goes(r, "scheduled", "dispatching")
  /\ UNCHANGED <<subscription, outlives, known, deliveries>>

Settled == {"none", "logged", "rejected", "lost"}

(* As Finish, had the dispatch waited for all rows instead of all results. *)
FinishWhenLogged(r) ==
  /\ \A w \in Webhooks : stage[<<r, w>>] \in {"none", "logged"}
  /\ Goes(r, "dispatching", "done")
  /\ UNCHANGED <<subscription, outlives, known, deliveries>>

(* gather has every result, and the session is closed if it was open still. *)
Finish(r) ==
  /\ \A w \in Webhooks : stage[<<r, w>>] \in Settled
  /\ Goes(r, "dispatching", "done")
  /\ UNCHANGED <<subscription, outlives, known, deliveries>>

Handle(r) ==
  \/ Commit(r)
  \/ Refresh(r)
  \/ RefreshTimesOut(r)
  \/ Schedule(r)
  \/ ScheduleNothing(r)
  \/ Respond(r)
  \/ Finish(r)

----------------------------------------------------------------------------
(* Deliveries: the coroutines gather runs side by side.                      *)
Proceeds(r, w, from, to) ==
  stage[<<r, w>>] = from /\ stage' = [stage EXCEPT ![<<r, w>>] = to]

(* As Post, had the receivers been served one after the other. *)
PostInTurn(r, w) ==
  /\ step[r] = "dispatching"
  /\ \A v \in Webhooks : stage[<<r, v>>] \in Settled \cup {"queued"}
  /\ Proceeds(r, w, "queued", "posting")
  /\ UNCHANGED <<subscription, outlives, step, known, reply, log>>

Post(r, w) ==
  /\ step[r] = "dispatching"
  /\ Proceeds(r, w, "queued", "posting")
  /\ UNCHANGED <<subscription, outlives, step, known, reply, log>>

(* A response of any status, or an httpx.HTTPError such as a timeout. *)
Answer(r, w) ==
  /\ Proceeds(r, w, "posting", "answered")
  /\ \E a \in Replies : reply' = [reply EXCEPT ![<<r, w>>] = a]
  /\ UNCHANGED <<subscription, outlives, step, known, log>>

(* As PostRaises, had the delivery been started over. *)
PostAgain(r, w) ==
  /\ Proceeds(r, w, "posting", "queued")
  /\ UNCHANGED <<subscription, outlives, step, known, reply, log>>

(* Any other exception ends this coroutine, and nothing is recorded. *)
PostRaises(r, w) ==
  /\ Proceeds(r, w, "posting", "lost")
  /\ UNCHANGED <<subscription, outlives, step, known, reply, log>>

OpenSession(r, w) ==
  /\ ConnectionFree
  /\ Proceeds(r, w, "answered", "writing")
  /\ UNCHANGED <<subscription, outlives, step, known, reply, log>>

(* The pool's 30 seconds pass: the attempt was made and is not recorded. *)
SessionTimesOut(r, w) ==
  /\ ~ConnectionFree
  /\ Proceeds(r, w, "answered", "lost")
  /\ reply' = [reply EXCEPT ![<<r, w>>] = "none"]
  /\ UNCHANGED <<subscription, outlives, step, known, log>>

(* The row of WebhookDeliveryLog for what came back. *)
Row(r, w) ==
  [request |-> r, webhook |-> w, success |-> reply[<<r, w>>] = "2xx",
   code |-> IF reply[<<r, w>>] \in Codes THEN reply[<<r, w>>] ELSE "null"]

(* CHECK response_code_valid and the foreign key to the registration.        *)
Admissible(r, w) == Row(r, w) \in Rows /\ subscription[w] # "absent"

(* As Record, had the table no CHECK. *)
RecordUnchecked(r, w) ==
  /\ subscription[w] # "absent"
  /\ Proceeds(r, w, "writing", "logged")
  /\ log' = log \cup {Row(r, w)}
  /\ UNCHANGED <<subscription, outlives, step, known, reply>>

Record(r, w) ==
  /\ Admissible(r, w)
  /\ Proceeds(r, w, "writing", "logged")
  /\ log' = log \cup {Row(r, w)}
  /\ UNCHANGED <<subscription, outlives, step, known, reply>>

(* A constraint of the table rejects the row; the IntegrityError ends here. *)
RecordRejected(r, w) ==
  /\ ~Admissible(r, w)
  /\ Proceeds(r, w, "writing", "rejected")
  /\ reply' = [reply EXCEPT ![<<r, w>>] = "none"]
  /\ UNCHANGED <<subscription, outlives, step, known, log>>

(* The connection breaks before the row is committed. *)
RecordFails(r, w) ==
  /\ Proceeds(r, w, "writing", "lost")
  /\ reply' = [reply EXCEPT ![<<r, w>>] = "none"]
  /\ UNCHANGED <<subscription, outlives, step, known, log>>

Deliver(r, w) ==
  \/ Post(r, w)
  \/ OpenSession(r, w)
  \/ SessionTimesOut(r, w)
  \/ Record(r, w)
  \/ RecordRejected(r, w)

(* What a request's handler and its background task do by themselves. *)
Work(r) == Handle(r) \/ \E w \in Webhooks : Deliver(r, w)

(* The process stops: handlers and background tasks are gone with it, the    *)
(* database stays. It is started again for the requests still to come.       *)
Crash ==
  /\ \E r \in Requests : step[r] \notin {"idle", "done", "failed"}
  /\ step' = [r \in Requests |->
                IF step[r] \in {"idle", "done"} THEN step[r] ELSE "failed"]
  /\ stage' = [p \in Pairs |-> IF stage[p] \in Settled THEN stage[p] ELSE "lost"]
  /\ reply' = [p \in Pairs |-> IF stage[p] \in Settled THEN reply[p] ELSE "none"]
  /\ UNCHANGED <<subscription, outlives, known, log>>

Next ==
  \/ \E w \in Webhooks : CreateRegistration(w) \/ Deactivate(w)
  \/ \E r \in Requests :
       Begin(r) \/ BeginTimesOut(r) \/ HandlerFails(r) \/ Work(r)
  \/ \E r \in Requests, w \in Webhooks :
       Answer(r, w) \/ PostRaises(r, w) \/ RecordFails(r, w)
  \/ Crash

Spec == Init /\ [][Next]_vars

(* The event loop, the database and the pool's timer are live for requests   *)
(* that have begun; one need not be made, and may be refused. Receivers are  *)
(* not: the HTTP client's timeout is per read, and a receiver that trickles  *)
(* bytes is never cut off, so no answer is ever certain.                     *)
FairSpec == Spec /\ \A r \in Requests : WF_vars(Work(r))

----------------------------------------------------------------------------
(* A registration that was deactivated before the change was committed gets  *)
(* nothing of its event; one deactivated later may still get that one.       *)
NothingToTheDeactivated ==
  \A r \in Requests, w \in Webhooks :
    known[r][w] = "inactive" => stage[<<r, w>>] = "none"

(* A registration that was active for the event's type when the change was   *)
(* committed, and still is, has not been sent the event yet.                 *)
Owing(r) ==
  /\ step[r] \notin {"idle", "failed"}
  /\ \E w \in Webhooks : /\ known[r][w] = "active"
                         /\ subscription[w] # "inactive"
                         /\ stage[<<r, w>>] \in {"none", "queued"}

(* Whoever is owed an event is sent it, whatever the other receivers do with *)
(* theirs, unless the handler fails or the process stops. As no request is   *)
(* made twice, it is enough that again and again nobody is owed anything.    *)
EveryTargetTried == []<>(\A r \in Requests : ~Owing(r))

(* All receivers have answered or failed; only the log is left to be written. *)
AllAnswered(r) ==
  /\ step[r] = "dispatching"
  /\ \A w \in Webhooks : stage[<<r, w>>] \notin {"queued", "posting"}

(* A request whose receivers have all answered comes to its end: deliveries  *)
(* do not wait for each other's connections for ever, although the handlers  *)
(* they belong to may each keep one until their deliveries are done.         *)
AnsweredRequestsEnd == []<>(\A r \in Requests : ~AllAnswered(r))

(* "Perform and log exactly one delivery attempt": an attempt whose INSERT   *)
(* reached the database is in the audit log.                                 *)
AttemptsAreLogged ==
  \A r \in Requests, w \in Webhooks :
    stage[<<r, w>>] \in {"logged", "rejected"} =>
      \E row \in log : row.request = r /\ row.webhook = w

(* At most one attempt per event and registration, and log rows that say     *)
(* what came of it: the handlers, the pool and the crashes of this module    *)
(* hide behind DeliveryPromise.                                              *)
FateOf ==
  [s \in Stages |-> CASE s \in {"none", "logged"} -> s
                      [] s = "queued" -> "owed"
                      [] s \in {"posting", "answered", "writing"} -> "tried"
                      [] s \in {"rejected", "lost"} -> "lost"]

Promise == INSTANCE DeliveryPromise WITH fate <- [p \in Pairs |-> FateOf[stage[p]]]

ImplementsPromise == Promise!Spec

(* What the proofs need besides: deliveries exist only while their handler   *)
(* dispatches, an answer is there from the post on, the log is exactly the   *)
(* rows that were accepted, a deactivation is final, and a registration that *)
(* has deliveries keeps the row their log refers to, deactivated or not.     *)
DeliveriesFollowTheirHandler ==
  \A r \in Requests, w \in Webhooks :
    /\ stage[<<r, w>>] # "none" => step[r] \in {"scheduled", "dispatching", "done", "failed"}
    /\ stage[<<r, w>>] = "queued" => step[r] \in {"scheduled", "dispatching"}
    /\ stage[<<r, w>>] \in {"posting", "answered", "writing"} => step[r] = "dispatching"

AnswersComeOnce ==
  \A p \in Pairs :
    /\ stage[p] \in {"none", "queued", "posting", "rejected", "lost"} => reply[p] = "none"
    /\ stage[p] \in {"answered", "writing", "logged"} => reply[p] \in Replies

LogIsExact == log = {Row(p[1], p[2]) : p \in {q \in Pairs : stage[q] = "logged"}}

DeactivationIsFinal ==
  \A r \in Requests, w \in Webhooks :
    known[r][w] = "inactive" => subscription[w] = "inactive"

TargetsKeepTheirRow ==
  \A r \in Requests, w \in Webhooks :
    stage[<<r, w>>] # "none" => subscription[w] # "absent"

InductiveInvariant ==
  /\ TypeOK
  /\ NothingToTheDeactivated
  /\ DeliveriesFollowTheirHandler
  /\ AnswersComeOnce
  /\ LogIsExact
  /\ DeactivationIsFinal
  /\ TargetsKeepTheirRow
=============================================================================
