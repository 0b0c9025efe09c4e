----------------------------- MODULE Admission -----------------------------
(***************************************************************************)
(* What the worker promises the LiveKit server about job admission,        *)
(* without goroutines, locks or connections.                               *)
(*                                                                         *)
(* The worker answers an availability request with "yes" only when fewer   *)
(* than Capacity jobs are active, but a yes reserves nothing: the job      *)
(* counts against the capacity only once its assignment arrives.  The      *)
(* server keeps at most Window offers open at a time.                      *)
(***************************************************************************)
EXTENDS Integers, FiniteSets

CONSTANTS
  Job,       \* job identifiers
  Capacity,  \* config.MaxConcurrentJobs
  Window     \* offers the server keeps open towards one worker

\* The values of the constants that make sense.
AdmissionConstants ==
  /\ Capacity \in Nat \ {0}
  /\ Window \in Nat \ {0}

VARIABLES
  promised,  \* jobs answered "available", assignment not yet received
  active     \* jobs in the worker's activeJobs map

vars == <<promised, active>>

Init ==
  /\ promised = {}
  /\ active = {}

\* A yes goes out to the server.
Promise(j) ==
  /\ j \notin promised
  /\ Cardinality(active) < Capacity
  /\ Cardinality(promised) < Window
  /\ promised' = promised \union {j}
  /\ UNCHANGED active

\* The server gives the promised job to someone else, or drops it.
Withdraw(j) ==
  /\ j \in promised
  /\ promised' = promised \ {j}
  /\ UNCHANGED active

\* The assignment of a promised job arrives.
Start(j) ==
  /\ j \in promised
  /\ promised' = promised \ {j}
  /\ active' = active \union {j}

\* The job's goroutine takes it out of the map.
Finish(j) ==
  /\ j \in active
  /\ active' = active \ {j}
  /\ UNCHANGED promised

Next == \E j \in Job : Promise(j) \/ Withdraw(j) \/ Start(j) \/ Finish(j)

Spec == Init /\ [][Next]_vars

-----------------------------------------------------------------------------

\* Both sets hold job identifiers.
TypeOK ==
  /\ promised \subseteq Job
  /\ active \subseteq Job

\* The worker overshoots its capacity by at most Window - 1 jobs, and what it
\* has promised and not yet been given is inside that bound too.
OverCommitBound ==
  Cardinality(active) + Cardinality(promised) <= Capacity - 1 + Window

=============================================================================
