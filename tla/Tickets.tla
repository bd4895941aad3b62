------------------------------ MODULE Tickets ------------------------------
(* The vocabulary of a ticket row: the values of its status column and the   *)
(* workflow table that says which status may follow which.                   *)
EXTENDS Naturals

(* TicketStatus: the states of a ticket that has a row. *)
Status == {"OPEN", "IN_PROGRESS", "RESOLVED", "CLOSED"}

(* A ticket id that no INSERT has used yet, or whose row was hard-deleted,   *)
(* has no row; ids are uuid4 values, so a deleted id never comes back.       *)
NoRow == {"unused", "deleted"}

(* ALLOWED_STATUS_TRANSITIONS: the one status that may follow each; "none"   *)
(* is Python's None and no request can name it.                              *)
AllowedNext ==
  [s \in Status |-> CASE s = "OPEN"        -> "IN_PROGRESS"
                      [] s = "IN_PROGRESS" -> "RESOLVED"
                      [] s = "RESOLVED"    -> "CLOSED"
                      [] s = "CLOSED"      -> "none"]

(* Position in the declared order of TicketStatus. *)
Rank ==
  [s \in Status |-> CASE s = "OPEN"        -> 0
                      [] s = "IN_PROGRESS" -> 1
                      [] s = "RESOLVED"    -> 2
                      [] s = "CLOSED"      -> 3]
=============================================================================
