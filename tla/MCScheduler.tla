----------------------------- MODULE MCScheduler -----------------------------
(***************************************************************************)
(* Instances of Scheduler for TLC.                                         *)
(***************************************************************************)
EXTENDS Scheduler

CONSTANTS c1, c2, j1, j2, j3, j4, j5

\* Jobs of one client, of the same priority but different durations, and
\* an urgent job of another.
MCOwner ==
  [j \in Job |-> IF j = j2 THEN c2 ELSE c1]
MCPriority ==
  [j \in Job |-> IF j = j2 THEN 1 ELSE 0]
MCDuration ==
  [j \in Job |-> CASE j = j1 -> 3 [] j = j3 -> None [] j = j5 -> 5 [] OTHER -> 7]

\* Workers 1 and 3 have one slot and worker 2 has two.
MCSlots == [w \in Worker |-> IF w = 2 THEN 2 ELSE 1]

\* Either up to three jobs with workers 1 and 2, in full detail, or up to
\* five, one more than workers 1 and 3 take, requested in one order and
\* ready at once.
MCDetailed == SUBSET {c1, c2, 1, 2, j1, j2, j3}
MCCrowded ==
  {{c1} \cup others \cup come :
     others \in {{}, {1}, {1, 3}},
     come \in {{}, {j4}, {j4, j5}, {j4, j5, j1}, {j4, j5, j1, j3},
               {j4, j5, j1, j3, c2}, {j4, j5, j1, j3, c2, j2}}}
MCArrivals == MCDetailed \cup MCCrowded
=============================================================================
