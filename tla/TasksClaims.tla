---------------------------- MODULE TasksClaims ----------------------------
(***************************************************************************)
(* What the repository's documents and comments say of a task, and the     *)
(* code does not keep.  Each is quoted in the README with the run that     *)
(* shows how it is broken.                                                 *)
(***************************************************************************)
EXTENDS Tasks

\* "when the cited task reaches done every waiter here is swept back to todo"
\* (convex/schema.ts), whoever closes the cited task.
EveryWaiterSwept ==
  [][\A b \in Task : status[b] # "done" /\ status'[b] = "done" =>
       \A w \in Waiters(b) : status'[w] # "blocked"]_vars
=============================================================================
