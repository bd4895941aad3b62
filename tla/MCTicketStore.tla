--------------------------- MODULE MCTicketStore ---------------------------
(* TicketStore for TLC: the symmetry of its clients.                         *)
EXTENDS TicketStore, TLC

(* Requests and customers are interchangeable: no action names one. *)
Interchangeable == Permutations(Requests) \cup Permutations(Customers)
=============================================================================
