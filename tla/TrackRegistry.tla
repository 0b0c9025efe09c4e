--------------------------- MODULE TrackRegistry ---------------------------
(***************************************************************************)
(* What a bridge promises about ingress tracks, without its locks and      *)
(* goroutines: a participant has one track listed at most, a track that    *)
(* leaves the list is taken by somebody, and is closed once.               *)
(***************************************************************************)
CONSTANTS
  Identity,  \* participants
  Handler,   \* ingress tracks that may come to be
  None       \* no track

VARIABLES
  listed,    \* the track of each participant, or None
  taken,     \* tracks that are being stopped
  closed     \* tracks that have ended

vars == <<listed, taken, closed>>

Init ==
  /\ listed = [i \in Identity |-> None]
  /\ taken = {} /\ closed = {}

\* HandleTrack: a new track is listed for a participant that has none.
List(i, h) ==
  /\ listed[i] = None
  /\ h \notin taken \union closed
  /\ \A k \in Identity : listed[k] # h
  /\ listed' = [listed EXCEPT ![i] = h]
  /\ UNCHANGED <<taken, closed>>

\* RemoveTrack and Stop take a track off the list ...
Take(i) ==
  /\ listed[i] # None
  /\ taken' = taken \union {listed[i]}
  /\ listed' = [listed EXCEPT ![i] = None]
  /\ UNCHANGED closed

\* ... and close it when its goroutine is over.
Close(h) ==
  /\ h \in taken
  /\ taken' = taken \ {h} /\ closed' = closed \union {h}
  /\ UNCHANGED listed

Next ==
  \/ \E h \in Handler : Close(h) \/ \E i \in Identity : List(i, h)
  \/ \E i \in Identity : Take(i)

Spec == Init /\ [][Next]_vars
=============================================================================
