----------------------------- MODULE ParallelFor -----------------------------
(***************************************************************************)
(* What a caller of the row store's thread pool is promised: one loop at a *)
(* time runs over the indices 0 .. size-1 of a piece of work, each index   *)
(* is handled once, and the call comes back only when all of them are.     *)
(* Nothing is said of who handles an index, or in which order.             *)
(***************************************************************************)
EXTENDS Integers

CONSTANTS
  Callers,    \* the threads that call row_store_lookup
  Counts,     \* the numbers of ids a lookup may hold
  NoThread    \* no caller is inside the loop

VARIABLES
  owner,      \* the caller whose loop is running, or NoThread
  size,       \* how many indices its work has
  done        \* the indices handled so far

vars == <<owner, size, done>>

Init ==
  /\ owner = NoThread
  /\ size = 0
  /\ done = {}

Begin(c, n) ==
  /\ owner = NoThread
  /\ owner' = c
  /\ size' = n
  /\ done' = {}

\* A batch of indices nobody has handled yet.
Handle(batch) ==
  /\ owner # NoThread
  /\ batch # {}
  /\ batch \cap done = {}
  /\ done' = done \cup batch
  /\ UNCHANGED <<owner, size>>

End ==
  /\ owner # NoThread
  /\ done = 0 .. size - 1
  /\ owner' = NoThread
  /\ size' = 0
  /\ done' = {}

Next ==
  \/ \E c \in Callers, n \in Counts : Begin(c, n)
  \/ \E batch \in SUBSET (0 .. size - 1) : Handle(batch)
  \/ End

Spec == Init /\ [][Next]_vars
=============================================================================
