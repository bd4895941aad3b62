--------------------------- MODULE MCTicketCache ---------------------------
(* TicketCache for TLC: the symmetry of its clients.                         *)
EXTENDS TicketCache, TLC

(* Mutations, readers and list keys are interchangeable. *)
Interchangeable ==
  Permutations(Mutations) \cup Permutations(Readers) \cup Permutations(Keys)
=============================================================================
