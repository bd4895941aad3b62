--------------------------- MODULE DeliveryPromise ---------------------------
(* What outgoing webhooks promise of an event and a registration: who is     *)
(* owed the event is decided once, each of those is tried at most once, and  *)
(* the audit log holds only what came of a try. Nothing is promised of a     *)
(* delivery that is lost on the way.                                         *)
CONSTANTS
  Requests,     \* the requests that publish an event, one each
  Webhooks      \* registrations

VARIABLES
  fate,         \* fate[<<r, w>>]: how far the event of r is on its way to w
  reply,        \* reply[<<r, w>>]: what came back, unless lost
  log           \* rows of the audit log

vars == <<fate, reply, log>>

Pairs == Requests \X Webhooks
Codes == {"2xx", "other", "6xx"}
Replies == Codes \cup {"network_error"}

Init ==
  /\ fate = [p \in Pairs |-> "none"]
  /\ reply = [p \in Pairs |-> "none"]
  /\ log = {}

(* All registrations that are owed the event, decided once. *)
Capture(r, targets) ==
  /\ \A w \in Webhooks : fate[<<r, w>>] = "none"
  /\ fate' = [p \in Pairs |-> IF p[1] = r /\ p[2] \in targets THEN "owed"
                                                              ELSE fate[p]]
  /\ UNCHANGED <<reply, log>>

Try(r, w) ==
  /\ fate[<<r, w>>] = "owed"
  /\ fate' = [fate EXCEPT ![<<r, w>>] = "tried"]
  /\ UNCHANGED <<reply, log>>

(* The one answer there will be. *)
ComeBack(r, w) ==
  /\ fate[<<r, w>>] = "tried"
  /\ reply[<<r, w>>] = "none"
  /\ \E a \in Replies : reply' = [reply EXCEPT ![<<r, w>>] = a]
  /\ UNCHANGED <<fate, log>>

(* Only success is called success, and only a response has a status.         *)
Truthful(row) ==
  LET came == reply[<<row.request, row.webhook>>] IN
  /\ came \in Replies
  /\ row.success <=> came = "2xx"
  /\ row.code = IF came \in Codes THEN came ELSE "null"

Log(r, w) ==
  /\ fate[<<r, w>>] = "tried"
  /\ fate' = [fate EXCEPT ![<<r, w>>] = "logged"]
  /\ \E success \in BOOLEAN, code \in Codes \cup {"null"} :
       LET row == [request |-> r, webhook |-> w, success |-> success, code |-> code]
       IN  Truthful(row) /\ log' = log \cup {row}
  /\ UNCHANGED reply

(* One delivery comes to nothing, or all there are under way.                *)
Lose(gone) ==
  /\ \A p \in gone : fate[p] \in {"owed", "tried"}
  /\ fate' = [p \in Pairs |-> IF p \in gone THEN "lost" ELSE fate[p]]
  /\ UNCHANGED log
  /\ reply' = [p \in Pairs |-> IF p \in gone THEN "none" ELSE reply[p]]

Next ==
  \/ \E r \in Requests, targets \in (SUBSET Webhooks) \ {{}} : Capture(r, targets)
  \/ \E r \in Requests, w \in Webhooks :
       Try(r, w) \/ ComeBack(r, w) \/ Log(r, w) \/ Lose({<<r, w>>})
  \/ Lose({p \in Pairs : fate[p] \in {"owed", "tried"}})

Spec == Init /\ [][Next]_vars
=============================================================================
