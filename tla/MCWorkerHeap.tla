---------------------------- MODULE MCWorkerHeap ----------------------------
(***************************************************************************)
(* An instance of WorkerHeap for TLC.  Six workers are the fewest for      *)
(* which the element that RemoveAtIndex puts in the place of another may   *)
(* have to go up: it comes from the other side of the root.                *)
(***************************************************************************)
EXTENDS WorkerHeap

CONSTANTS j1, j2, j3, j4

SomeSlots == [w \in Worker |-> IF w \in {1, 4} THEN 2 ELSE 1]

\* The four jobs that may become ready: an urgent one, two that are equal, of
\* unknown duration, and one that is short.
SomePriority == [j \in Job |-> IF j = j2 THEN 1 ELSE 0]
SomeDuration == [j \in Job |-> CASE j = j1 -> 3 [] j = j2 -> 7 [] OTHER -> None]
=============================================================================
