------------------------------ MODULE MCWorker ------------------------------
(* Instances of Worker for TLC. *)
EXTENDS Worker, TLC

\* Every job id is assigned at most once: one runner per job.
OneRunner == Job
OwnJob == [r \in Runner |-> r]

JobSymmetry == Permutations(Job)

=============================================================================
