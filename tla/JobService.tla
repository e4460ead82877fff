----------------------------- MODULE JobService -----------------------------
(***************************************************************************)
(* What whoever runs jobs promises whoever requests them: the broker its   *)
(* clients, and a worker its broker.                                       *)
(*                                                                         *)
(* A requested job is open until it is answered, once, or abandoned by     *)
(* whoever requested it, who may do so at any time, and is not answered    *)
(* any more then.  Only of open jobs is anything told.                     *)
(***************************************************************************)
EXTENDS Naturals

CONSTANT Job

VARIABLES
  open,       \* the jobs that were requested, and neither answered nor abandoned
  answers,    \* how often each job was answered
  abandoned,  \* the jobs that were abandoned
  told        \* what was last told of each job

vars == <<open, answers, abandoned, told>>

Init ==
  /\ open = {} /\ abandoned = {}
  /\ answers = [j \in Job |-> 0]
  /\ told = [j \in Job |-> "none"]

\* Whatever is told in a step is told of jobs that are open after it.
TellOpen == \A j \in Job : told'[j] # told[j] => j \in open'

Request(j) ==
  /\ j \notin open \cup abandoned /\ answers[j] = 0
  /\ open' = open \cup {j}
  /\ TellOpen
  /\ UNCHANGED <<answers, abandoned>>

\* One failure may answer several jobs.
Answer(J) ==
  /\ J # {} /\ J \subseteq open
  /\ open' = open \ J
  /\ answers' = [j \in Job |-> answers[j] + IF j \in J THEN 1 ELSE 0]
  /\ TellOpen
  /\ UNCHANGED abandoned

Abandon(J) ==
  /\ open' = open \ J
  /\ abandoned' = abandoned \cup J
  /\ UNCHANGED <<answers, told>>

Tell ==
  /\ TellOpen
  /\ UNCHANGED <<open, answers, abandoned>>

Next ==
  \/ \E j \in Job : Request(j)
  \/ \E J \in SUBSET Job : Answer(J) \/ Abandon(J)
  \/ Tell

Spec == Init /\ [][Next]_vars
=============================================================================
