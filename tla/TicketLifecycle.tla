-------------------------- MODULE TicketLifecycle --------------------------
(* What the ticket tables promise to everyone who looks at committed rows:   *)
(* every change is one of five indivisible operations, each judged on the    *)
(* row as it stands at that instant, and each done at most once on behalf of *)
(* a request. There are no sessions, row locks or retries here; TicketStore  *)
(* has them and is shown to implement this module.                           *)
EXTENDS Tickets

CONSTANTS
  TicketIds,    \* ids a ticket row may have
  Customers,    \* users whose role is CUSTOMER
  Agents,       \* users whose role is AGENT
  Fields,       \* the columns a customer may edit
  Texts,        \* values of those columns
  CommentIds    \* ids a comment row may have

VARIABLES
  status,       \* status[t]: the status column, or why t has no row
  owner,        \* owner[t]: the customer_id column
  content,      \* content[t][f]: the columns a customer can edit
  comments      \* the rows of the comments table

tables == <<status, owner, content, comments>>

Init ==
  /\ status \in [TicketIds -> Status \cup NoRow]
  /\ owner \in [TicketIds -> Customers]
  /\ content \in [TicketIds -> [Fields -> Texts]]
  /\ comments = {}

(* A customer files a ticket under an id never used before. *)
Open(u, t, x) ==
  /\ status[t] = "unused"
  /\ status' = [status EXCEPT ![t] = "OPEN"]
  /\ owner' = [owner EXCEPT ![t] = u]
  /\ content' = [content EXCEPT ![t] = [f \in Fields |-> x]]
  /\ UNCHANGED comments

(* The owner rewrites some columns of a ticket nobody has started to work on. *)
(* The columns the edit does not name keep whatever the last edit left there. *)
Edit(u, t, named, x) ==
  /\ status[t] = "OPEN"
  /\ owner[t] = u
  /\ content' = [content EXCEPT ![t] =
                   [f \in Fields |-> IF f \in named THEN x ELSE content[t][f]]]
  /\ UNCHANGED <<status, owner, comments>>

(* The owner removes such a ticket, and its thread with it. *)
Remove(u, t) ==
  /\ status[t] = "OPEN"
  /\ owner[t] = u
  /\ status' = [status EXCEPT ![t] = "deleted"]
  /\ comments' = {c \in comments : c.ticket # t}
  /\ UNCHANGED <<owner, content>>

(* An agent moves a ticket to the next status of the workflow. *)
Advance(t) ==
  /\ status[t] \in Status \ {"CLOSED"}
  /\ status' = [status EXCEPT ![t] = AllowedNext[status[t]]]
  /\ UNCHANGED <<owner, content, comments>>

(* The owner or an agent adds a comment, signed with the role of its author, *)
(* to a ticket that exists.                                                  *)
Reply(u, role, t, i) ==
  /\ status[t] \in Status
  /\ \/ role = "CUSTOMER" /\ u \in Customers /\ owner[t] = u
     \/ role = "AGENT" /\ u \in Agents
  /\ \A c \in comments : c.id # i
  /\ comments' = comments \cup
       {[id |-> i, ticket |-> t, author |-> u, author_role |-> role]}
  /\ UNCHANGED <<status, owner, content>>

Next ==
  \E t \in TicketIds :
    \/ \E u \in Customers, x \in Texts : Open(u, t, x)
    \/ \E u \in Customers, named \in SUBSET Fields, x \in Texts :
         Edit(u, t, named, x)
    \/ \E u \in Customers : Remove(u, t)
    \/ Advance(t)
    \/ \E u \in Customers \cup Agents, role \in {"CUSTOMER", "AGENT"},
          i \in CommentIds : Reply(u, role, t, i)

Spec == Init /\ [][Next]_tables
=============================================================================
