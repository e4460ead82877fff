-------------------------- MODULE GathererContract --------------------------
(***************************************************************************)
(* What the scheduler relies on of the artifact gatherer (the trait        *)
(* ArtifactGatherer of scheduler.rs), and Scheduler assumes in its actions *)
(* JobRequestReady, JobRequestNotReady and GathererAnnounces:              *)
(*   - a started job is ready at once, or announced once, later, as ready  *)
(*     or as failed, in a message with others of the same kind;            *)
(*   - a job whose client has gone is not announced;                       *)
(*   - from when a job is ready until it is completed or its client goes,  *)
(*     whatever it needs is stored.                                        *)
(***************************************************************************)
CONSTANTS
  Client,    \* client ids
  Job,       \* job ids
  ClientOf,  \* the client of a job
  Needs      \* the artifacts a job needs

VARIABLES
  connected,  \* the clients
  started,    \* the jobs that were started
  said,       \* what was said of each job: "none", "ready" or "failed"
  completed,  \* the ready jobs that were completed
  stored      \* the artifacts in the cache

vars == <<connected, started, said, completed, stored>>

Promised ==
  {j \in started \ completed : said[j] = "ready" /\ ClientOf[j] \in connected}

Init ==
  /\ connected = {} /\ started = {} /\ completed = {} /\ stored = {}
  /\ said = [j \in Job |-> "none"]

\* The cache may change in every step, but for what it must keep.
Keep == \A j \in Promised' : Needs[j] \subseteq stored'

Connect(c) ==
  /\ connected' = connected \cup {c}
  /\ UNCHANGED <<started, said, completed>>

Disconnect(c) ==
  /\ connected' = connected \ {c}
  /\ UNCHANGED <<started, said, completed>>

Start(j) ==
  /\ j \notin started /\ ClientOf[j] \in connected
  /\ started' = started \cup {j}
  /\ said' \in {said, [said EXCEPT ![j] = "ready"]}
  /\ UNCHANGED <<connected, completed>>

Announce(kind, J) ==
  /\ J \subseteq started
  /\ \A j \in J : said[j] = "none" /\ ClientOf[j] \in connected
  /\ said' = [j \in Job |-> IF j \in J THEN kind ELSE said[j]]
  /\ UNCHANGED <<connected, started, completed>>

Complete(j) ==
  /\ j \in Promised
  /\ completed' = completed \cup {j}
  /\ UNCHANGED <<connected, started, said>>

Next ==
  /\ \/ \E c \in Client : Connect(c) \/ Disconnect(c)
     \/ \E j \in Job : Start(j) \/ Complete(j)
     \/ \E kind \in {"ready", "failed"}, J \in SUBSET Job : Announce(kind, J)
  /\ Keep

Spec == Init /\ [][Next]_vars
=============================================================================
