------------------------------- MODULE MCJob -------------------------------
(* Two jobs, each with a room; the first has the tracks. *)
EXTENDS Job, TLC

CONSTANTS job1, job2, room1, room2, track1

RoomOfJob == (job1 :> room1) @@ (job2 :> room2)
JobOfTrack == [t \in Track |-> job1]

=============================================================================
