---------------------------- MODULE BridgeProofs ----------------------------
(***************************************************************************)
(* Bridge, for every set of participants, tracks and HandleTrack calls:    *)
(* its types, who holds its lock and its tracks, what is over and who is   *)
(* left when Run returns, and the refinement of TrackRegistry.             *)
(***************************************************************************)
EXTENDS Bridge, TLAPS

\* Where a caller is between two critical sections, with nothing in hand.
Free == {"idle", "start", "serve", "leave", "done", "stopEgress", "lockTracks"}

\* RemoveTrack has taken a track off the map and is not through with it.
Removing == {"cancelTrack", "joinTrack", "dropTrack"}

Types ==
  /\ pc \in [Caller -> PC]
  /\ held \in [Caller -> Handler \union {None}]
  /\ mu \in Caller \union Handler \union {None}
  /\ todo \subseteq Handler
  /\ call \in [Handler ->
                 {"new", "called", "connect", "create", "done", "refused"}]
  /\ trackOf \in [Handler -> Track \union {None}]
  /\ ingress \in [Identity -> Handler \union {None}]
  /\ reader \in [Handler -> {"off", "reading", "exited"}]
  /\ stopped \in [Handler -> BOOLEAN]
  /\ closes \in [Handler -> {0, 1}]
  /\ connected \subseteq Handler /\ orphaned \subseteq Handler
  /\ kept \subseteq connected

\* The lock: a Stop between its range and its return, or a HandleTrack that
\* was not refused, has it, and nobody else.
LockHeld ==
  /\ \A c \in Caller : mu = c <=> pc[c] \in {"stopTracks", "joinNext"}
  /\ \A h \in Handler : mu = h <=> call[h] \in {"connect", "create"}

\* A track is in the hands of one caller at most.
OneHand ==
  /\ \A c \in Caller : held[c] = None <=> pc[c] \in Free \union {"stopTracks"}
  /\ \A c, d \in Caller : held[c] = held[d] => c = d \/ held[c] = None

\* HandleTrack on its way to a started track.
Progress ==
  \A h \in Handler :
    /\ call[h] # "new" => trackOf[h] \in Track
    /\ call[h] \in {"connect", "create"} => ingress[Who(h)] = None
    /\ reader[h] # "off" => call[h] = "done"
    /\ h \in connected => call[h] \in {"create", "done"}

\* A listed track was started, for the participant it is listed under.
Listing ==
  \A i \in Identity : ingress[i] # None =>
    Who(ingress[i]) = i /\ reader[ingress[i]] # "off"

\* Stop takes every track of the map, each once, and forgets none.
Taking ==
  /\ mu \in Caller => todo = Registered \ orphaned
  /\ mu \notin Caller => todo = {} /\ Registered \intersect orphaned = {}
  /\ \A c \in Caller :
       /\ pc[c] \in Removing => held[c] \notin Registered \union orphaned
       /\ pc[c] = "joinNext" => held[c] \in Registered \intersect orphaned

\* A track is closed after it has ended and by the one who has it in hand.
Closing ==
  /\ \A h \in Handler :
       /\ closes[h] = 1
            => reader[h] = "exited" /\ h \notin Registered \ orphaned
       /\ h \in orphaned => reader[h] # "off" /\ (closes[h] = 1 \/ ~Unheld(h))
  /\ \A c \in Caller :
       held[c] # None =>
         /\ reader[held[c]] # "off"
         /\ closes[held[c]] = 1 <=> pc[c] = "dropTrack"

\* A track that was started is listed, in somebody's hands, or closed.
InReach ==
  \A h \in Handler :
    reader[h] # "off" /\ Unheld(h) => h \in Registered \/ closes[h] = 1

\* A participant stays in the conference as long as its track is listed or in
\* somebody's hands, and for good when a Stop took the track.
InRoom ==
  /\ Registered \union orphaned \subseteq connected
  /\ \A c \in Caller : held[c] = None \/ held[c] \in connected
  /\ \A h \in Handler : call[h] = "create" => h \in connected
  /\ \A h \in kept : call[h] = "done" /\ Unheld(h) /\ h \notin Registered

\* Nobody else is in the conference, but the participant of a HandleTrack on
\* its way and of a track that is being removed.
Left ==
  \A h \in connected :
    \/ ~Unheld(h) \/ call[h] = "create"
    \/ h \in Registered \union orphaned \union kept

IInv ==
  /\ Types /\ LockHeld /\ OneHand /\ Progress /\ Listing /\ Taking /\ Closing
  /\ InReach /\ InRoom /\ Left

-----------------------------------------------------------------------------
(* The steps.                                                              *)

\* What the room, the job and the events do to the tracks: nothing.
Quiet ==
  /\ UNCHANGED <<held, trackVars>>
  /\ pc' \in [Caller -> PC]
  /\ \A c \in Caller : pc'[c] = pc[c] \/ (pc[c] \in Free /\ pc'[c] \in Free)

\* A step is quiet, or one of RemoveTrack, of Stop's range, of HandleTrack or
\* of a reader.
LEMMA StepCases ==
  ASSUME TypeOK, [Next]_vars
  PROVE  \/ Quiet
         \/ \E c \in Caller :
              \/ \E i \in Identity : RemoveLookup(c, i)
              \/ RemoveCancel(c) \/ RemoveJoin(c) \/ RemoveDisconnect(c)
              \/ LockTracks(c) \/ JoinNext(c) \/ ClearTracks(c)
              \/ \E h \in Handler : StopTrack(c, h)
         \/ \E h \in Handler :
              \/ \E t \in Track : CallHandleTrack(h, t)
              \/ HandleTrack(h) \/ ConnectIngress(h) \/ CreateIngress(h)
              \/ ReaderExits(h)
<1> USE DEF Caller
<1>1. CASE Start \/ RunStops \/ RunLeaves
  BY <1>1 DEF Start, RunStops, RunLeaves, ToStop, Quiet, Free, TypeOK, PC
<1>2. ASSUME NEW c \in Caller, StopEgress(c) PROVE Quiet
  BY <1>2 DEF StopEgress, stopRest, trackVars, Quiet, Free, TypeOK, PC
<1>3. CASE Disconnected \/ StopOpcode \/ OpcodeLeaves
  BY <1>3
     DEF Disconnected, StopOpcode, OpcodeLeaves, ToStop, Quiet, Free, TypeOK,
         PC
<1>4. ASSUME NEW t \in Track, TrackUnsubscribed(t)
      PROVE  Quiet \/ \E i \in Identity : RemoveLookup("signal", i)
  BY <1>4, BridgeAssumption DEF TrackUnsubscribed, callerVars, Quiet, TypeOK
<1>5. CASE JobCancelled \/ RoomLost
           \/ \E t \in Track : TrackSubscribed(t) \/ TrackEnds(t)
  BY <1>5
     DEF JobCancelled, RoomLost, TrackSubscribed, TrackEnds, callerVars, Quiet,
         TypeOK
<1>6. CASE UNCHANGED vars
  BY <1>6 DEF vars, callerVars, Quiet, TypeOK
<1> QED
  BY <1>1, <1>2, <1>3, <1>4, <1>5, <1>6
     DEF Next, Run, Signal, Opcode, RemoveTrack, Stop, HandleTrackStep,
         ReadEnds, PacketAfterStop, ParticipantLeft, RemoveOpcode

\* A track the map lists and no Stop has come to is nobody's.
LEMMA ListedUnheld ==
  ASSUME IInv, NEW h \in Registered \ orphaned
  PROVE  h \in Handler /\ Unheld(h) /\ closes[h] = 0 /\ reader[h] # "off"
  BY BridgeAssumption
     DEF IInv, Types, PC, OneHand, Free, Listing, Taking, Removing, Closing,
         Registered, Unheld

LEMMA InitIInv == Init => IInv
  BY BridgeAssumption
     DEF Init, IInv, Types, LockHeld, OneHand, Progress, Listing, Taking,
         Closing, InReach, InRoom, Left, Registered, Free, PC

\* The room, the job and the events.
LEMMA QuietStep ==
  ASSUME IInv, Quiet
  PROVE  IInv'
<1> USE DEF Quiet, IInv, Types, trackVars
<1>1. Types'
  OBVIOUS
<1>2. LockHeld' /\ OneHand'
  BY DEF LockHeld, OneHand, Free
<1>3. Progress' /\ Listing' /\ InReach' /\ InRoom' /\ Left'
  BY DEF Progress, Listing, Who, InReach, InRoom, Left, Registered, Unheld
<1>4. Taking' /\ Closing'
  BY DEF Taking, Closing, Registered, Unheld, Free, Removing
<1> QED
  BY <1>1, <1>2, <1>3, <1>4

\* RemoveTrack takes a track off the map ...
LEMMA RemoveLookupStep ==
  ASSUME IInv, NEW c \in Caller, NEW i \in Identity, RemoveLookup(c, i)
  PROVE  IInv'
<1> USE DEF RemoveLookup, Removes, IInv, Types
<1>1. Types'
  BY DEF PC
<1>2. LockHeld'
  BY DEF LockHeld
<1>3. OneHand'
  BY BridgeAssumption, ListedUnheld
     DEF OneHand, Taking, Registered, Unheld, Free
<1>4. Progress'
  BY DEF Progress, Who
<1>5. Listing'
  BY DEF Listing, Who
<1>6. Taking'
  BY BridgeAssumption DEF Taking, Registered, Listing
<1>7. Closing'
  BY BridgeAssumption, ListedUnheld
     DEF Closing, Unheld, Registered, OneHand, Taking, Free
<1>8. InReach'
  BY DEF InReach, Registered, Unheld, OneHand, Free
<1>9. Left'
  BY DEF Left, Registered, Unheld, OneHand, Free
<1>10. InRoom'
  BY BridgeAssumption DEF InRoom, Registered, Unheld, OneHand, Free, Listing
<1> QED
  BY <1>1, <1>2, <1>3, <1>4, <1>5, <1>6, <1>7, <1>8, <1>9, <1>10

\* ... cancels it,
LEMMA RemoveCancelStep ==
  ASSUME IInv, NEW c \in Caller, RemoveCancel(c)
  PROVE  IInv'
<1> USE DEF RemoveCancel, stopRest, IInv, Types
<1>1. Types'
  BY BridgeAssumption DEF PC
<1>2. LockHeld'
  BY DEF LockHeld
<1>3. OneHand'
  BY DEF OneHand, Free
<1>4. Taking'
  BY DEF Taking, Registered, Removing
<1>5. Closing'
  BY DEF Closing, Unheld, Registered
<1>6. Progress' /\ Listing' /\ InReach' /\ Left'
  BY DEF Progress, Who, Listing, InReach, Registered, Unheld,
         Left
<1>7. InRoom'
  BY DEF InRoom, Registered, Unheld
<1> QED
  BY <1>1, <1>2, <1>3, <1>4, <1>5, <1>6, <1>7

\* waits for its goroutine and closes it,
LEMMA RemoveJoinStep ==
  ASSUME IInv, NEW c \in Caller, RemoveJoin(c)
  PROVE  IInv'
<1> USE DEF RemoveJoin, TrackStopped, stopRest, IInv, Types
<1>1. Types'
  BY DEF PC, OneHand, Closing, Free
<1>2. LockHeld'
  BY DEF LockHeld
<1>3. OneHand'
  BY DEF OneHand, Free
<1>4. Taking'
  BY DEF Taking, Registered, Removing
<1>5. Closing'
  BY DEF Closing, Unheld, Registered, OneHand, Taking, Removing
<1>6. InReach'
  BY DEF InReach, Registered, Unheld
<1>7. Progress' /\ Listing' /\ Left'
  BY DEF Progress, Who, Listing, Left, Registered, Unheld
<1>8. InRoom'
  BY DEF InRoom, Registered, Unheld
<1> QED
  BY <1>1, <1>2, <1>3, <1>4, <1>5, <1>6, <1>7, <1>8

\* and disconnects its participant.
LEMMA RemoveDisconnectStep ==
  ASSUME IInv, NEW c \in Caller, RemoveDisconnect(c)
  PROVE  IInv'
<1> USE DEF RemoveDisconnect, Disconnects, stopRest, IInv, Types
<1>1. Types'
  BY DEF PC, InRoom, Unheld, OneHand, Free
<1>2. LockHeld'
  BY DEF LockHeld
<1>3. OneHand'
  BY DEF OneHand, Free
<1>4. Progress'
  BY DEF Progress, Who
<1>5. Taking'
  BY BridgeAssumption DEF Taking, Registered
<1>6. Closing'
  BY DEF Closing, Unheld, Registered
<1>7. InReach'
  BY DEF InReach, Registered, Unheld, Closing
<1>8. Left'
  BY DEF Left, Registered, Unheld
<1>9. Listing'
  BY DEF Listing, Who
<1>10. InRoom'
  BY BridgeAssumption
     DEF InRoom, Registered, Unheld, Taking, Removing, Progress, Closing,
         OneHand, Free
<1> QED
  BY <1>1, <1>2, <1>3, <1>4, <1>5, <1>6, <1>7, <1>8, <1>9, <1>10

\* Stop comes to its range over the map,
LEMMA LockTracksStep ==
  ASSUME IInv, NEW c \in Caller, LockTracks(c)
  PROVE  IInv'
<1> USE DEF LockTracks, stopRest, IInv, Types
<1>1. Types'
  BY DEF PC, Registered
<1>2. LockHeld'
  BY BridgeAssumption DEF LockHeld
<1>3. OneHand'
  BY DEF OneHand, Free
<1>4. Taking'
  BY BridgeAssumption DEF Taking, Registered, OneHand, Free
<1>5. Closing'
  BY DEF Closing, Unheld, Registered
<1>6. Progress' /\ Listing' /\ InReach' /\ Left'
  BY DEF Progress, Who, Listing, InReach, Registered, Unheld,
         Left
<1>7. InRoom'
  BY DEF InRoom, Registered, Unheld
<1> QED
  BY <1>1, <1>2, <1>3, <1>4, <1>5, <1>6, <1>7

\* cancels the next track,
LEMMA StopTrackStep ==
  ASSUME IInv, NEW c \in Caller, NEW h \in Handler, StopTrack(c, h)
  PROVE  IInv'
<1> USE DEF StopTrack, TakeTrack, stopRest, IInv, Types
<1>1. Types'
  BY DEF PC
<1>2. LockHeld'
  BY DEF LockHeld
<1>3. OneHand'
  BY ListedUnheld DEF OneHand, Taking, Unheld, Free
<1>4. Taking'
  BY DEF Taking, Registered, Removing
<1>5. Closing'
  BY BridgeAssumption, ListedUnheld
     DEF Closing, Unheld, Registered, OneHand, Taking
<1>6. InReach'
  BY BridgeAssumption DEF InReach, Registered, Unheld, OneHand
<1>7. Left'
  BY BridgeAssumption DEF Left, Registered, Unheld, OneHand
<1>8. Progress' /\ Listing'
  BY DEF Progress, Who, Listing
<1>9. InRoom'
  BY DEF InRoom, Registered, Unheld, Taking
<1> QED
  BY <1>1, <1>2, <1>3, <1>4, <1>5, <1>6, <1>7, <1>8, <1>9

\* waits for it and closes it,
LEMMA JoinNextStep ==
  ASSUME IInv, NEW c \in Caller, JoinNext(c)
  PROVE  IInv'
<1> USE DEF JoinNext, TrackStopped, stopRest, IInv, Types
<1>1. Types'
  BY BridgeAssumption DEF PC, Taking, Closing
<1>2. LockHeld'
  BY DEF LockHeld
<1>3. OneHand'
  BY DEF OneHand
<1>4. Taking'
  BY BridgeAssumption DEF Taking, Registered
<1>5. Closing'
  BY DEF Closing, Unheld, Registered, OneHand, Taking
<1>6. InReach'
  BY DEF InReach, Registered, Unheld, Taking
<1>7. Left'
  BY DEF Left, Registered, Unheld, Taking
<1>8. Progress' /\ Listing'
  BY DEF Progress, Who, Listing
<1>9. InRoom'
  BY BridgeAssumption DEF InRoom, Registered, Unheld
<1> QED
  BY <1>1, <1>2, <1>3, <1>4, <1>5, <1>6, <1>7, <1>8, <1>9

\* and ends with a new map.
LEMMA ClearTracksStep ==
  ASSUME IInv, NEW c \in Caller, ClearTracks(c)
  PROVE  IInv'
<1> USE DEF ClearTracks, EndStop, AfterStop, NoTracks, stopRest, IInv, Types
<1>1. Types'
  BY DEF PC, Caller
<1>2. LockHeld'
  BY BridgeAssumption DEF LockHeld, Caller
<1>3. OneHand'
  BY DEF OneHand, Free, Caller
<1>4. Progress'
  BY BridgeAssumption DEF Progress, Who
<1>5. Listing'
  BY DEF Listing
<1>6. Taking'
  BY BridgeAssumption DEF Taking, Registered, LockHeld, OneHand, Caller
<1>7. Closing'
  BY BridgeAssumption DEF Closing, Unheld, Registered, OneHand
<1>8. InReach'
  BY DEF InReach, Unheld, LockHeld, Taking, Closing
<1>9. Left'
  BY DEF Left, Unheld, LockHeld, Taking
<1>10. InRoom'
  BY BridgeAssumption DEF InRoom, Registered, Unheld
<1> QED
  BY <1>1, <1>2, <1>3, <1>4, <1>5, <1>6, <1>7, <1>8, <1>9, <1>10

\* HandleTrack is called,
LEMMA CallHandleTrackStep ==
  ASSUME IInv, NEW h \in Handler, NEW t \in Track, CallHandleTrack(h, t)
  PROVE  IInv'
<1> USE DEF CallHandleTrack, callerVars, IInv, Types
<1>1. Types'
  OBVIOUS
<1>2. LockHeld'
  BY DEF LockHeld
<1>3. Progress'
  BY DEF Progress, Who
<1>4. Listing'
  BY DEF Listing, Who, Progress
<1>5. Left'
  BY DEF Left, Registered, Unheld
<1>6. OneHand' /\ Taking' /\ Closing' /\ InReach'
  BY DEF OneHand, Taking, Registered, Closing, Unheld, InReach
<1>7. InRoom'
  BY DEF InRoom, Registered, Unheld
<1> QED
  BY <1>1, <1>2, <1>3, <1>4, <1>5, <1>6, <1>7

\* has the lock or is refused,
LEMMA EnterStep ==
  ASSUME IInv, NEW h \in Handler, HandleTrack(h)
  PROVE  IInv'
<1> USE DEF HandleTrack, EntersHandleTrack, trackRest, callerVars, IInv, Types
<1>1. Types'
  OBVIOUS
<1>2. LockHeld'
  BY BridgeAssumption DEF LockHeld
<1>3. Progress'
  BY DEF Progress, Who
<1>4. Taking'
  BY BridgeAssumption DEF Taking, Registered
<1>5. Left'
  BY DEF Left, Registered, Unheld
<1>6. OneHand' /\ Listing' /\ Closing' /\ InReach'
  BY DEF OneHand, Listing, Who, Closing, Unheld, Registered, InReach
<1>7. InRoom'
  BY DEF InRoom, Registered, Unheld
<1> QED
  BY <1>1, <1>2, <1>3, <1>4, <1>5, <1>6, <1>7

\* connects a participant,
LEMMA ConnectIngressStep ==
  ASSUME IInv, NEW h \in Handler, ConnectIngress(h)
  PROVE  IInv'
<1> USE DEF ConnectIngress, trackRest, callerVars, IInv, Types
<1>1. Types'
  OBVIOUS
<1>2. LockHeld'
  BY BridgeAssumption DEF LockHeld
<1>3. Progress'
  BY DEF Progress, Who
<1>4. Taking'
  BY BridgeAssumption DEF Taking, Registered, LockHeld
<1>5. Left'
  BY DEF Left, Registered, Unheld, Progress
<1>6. OneHand' /\ Listing' /\ Closing' /\ InReach'
  BY DEF OneHand, Listing, Who, Closing, Unheld, Registered, InReach
<1>7. InRoom'
  BY DEF InRoom, Registered, Unheld, Progress
<1> QED
  BY <1>1, <1>2, <1>3, <1>4, <1>5, <1>6, <1>7

\* and starts the track.
LEMMA CreateIngressStep ==
  ASSUME IInv, NEW h \in Handler, CreateIngress(h)
  PROVE  IInv'
<1> USE DEF CreateIngress, Registers, NoIngress, Disconnects, trackRest,
            callerVars, IInv, Types
<1>1. Types'
  BY DEF InRoom
<1>2. LockHeld'
  BY BridgeAssumption DEF LockHeld
<1>3. Progress'
  BY DEF Progress, LockHeld
<1>4. Listing'
  BY DEF Listing, Who
<1>5. Taking'
  BY BridgeAssumption DEF Taking, Registered, LockHeld, Progress, Closing
<1>6. Closing'
  BY DEF Closing, Unheld, Registered, Progress
<1>7. InReach'
  BY BridgeAssumption DEF InReach, Registered, Unheld, Progress, Who
<1>8. Left'
  BY BridgeAssumption DEF Left, Registered, Unheld, Progress, Who
<1>9. OneHand'
  BY DEF OneHand
<1>10. InRoom'
  BY BridgeAssumption
     DEF InRoom, Registered, Unheld, Progress, Listing, Closing
<1> QED
  BY <1>1, <1>2, <1>3, <1>4, <1>5, <1>6, <1>7, <1>8, <1>9, <1>10

\* The goroutine of a track ends.
LEMMA ReaderExitsStep ==
  ASSUME IInv, NEW h \in Handler, ReaderExits(h)
  PROVE  IInv'
<1> USE DEF ReaderExits, trackRest, callerVars, IInv, Types
<1>1. Types'
  OBVIOUS
<1>2. Progress'
  BY DEF Progress, Who
<1>3. Listing'
  BY DEF Listing, Who
<1>4. Closing'
  BY DEF Closing, Unheld, Registered
<1>5. InReach'
  BY DEF InReach, Registered, Unheld
<1>6. LockHeld' /\ OneHand' /\ Taking' /\ Left'
  BY DEF LockHeld, OneHand, Taking, Registered, Left, Unheld
<1>7. InRoom'
  BY DEF InRoom, Registered, Unheld
<1> QED
  BY <1>1, <1>2, <1>3, <1>4, <1>5, <1>6, <1>7

\* What the inductive invariant leaves of TypeOK.
LEMMA RestTypes ==
  ASSUME TypeOK, [Next]_vars
  PROVE  /\ (media \in [Track -> {"new", "live", "ended"}])'
         /\ (gone \subseteq Track)'
         /\ (room \in {"up", "down"} /\ lost \in BOOLEAN)'
         /\ (exposed \in BOOLEAN /\ jobDone \in BOOLEAN)'
         /\ (deferred \in BOOLEAN)'
<1> USE DEF TypeOK, roomVars, jobVars
<1>1. CASE Run
  BY <1>1
     DEF Run, Start, RunStops, RunLeaves, Stop, StopEgress, LockTracks,
         StopTrack, TakeTrack, JoinNext, TrackStopped, ClearTracks, EndStop,
         stopRest
<1>2. CASE Signal
  BY <1>2
     DEF Signal, TrackUnsubscribed, ParticipantLeft, RemoveLookup, Removes,
         Disconnected, RemoveTrack, RemoveCancel, RemoveJoin, RemoveDisconnect,
         Stop, StopEgress, LockTracks, StopTrack, TakeTrack, JoinNext,
         TrackStopped, ClearTracks, EndStop, stopRest
<1>3. CASE Opcode
  BY <1>3
     DEF Opcode, RemoveOpcode, StopOpcode, OpcodeLeaves, RemoveLookup, Removes,
         RemoveTrack, RemoveCancel, RemoveJoin, RemoveDisconnect, Stop,
         StopEgress, LockTracks, StopTrack, TakeTrack, JoinNext, TrackStopped,
         ClearTracks, EndStop, stopRest
<1>4. ASSUME NEW h \in Handler,
             \/ \E t \in Track : CallHandleTrack(h, t)
             \/ HandleTrackStep(h) \/ ReadEnds(h) \/ PacketAfterStop(h)
      PROVE  UNCHANGED <<roomVars, jobVars>>
  BY <1>4
     DEF CallHandleTrack, HandleTrackStep, HandleTrack, EntersHandleTrack,
         ConnectIngress, CreateIngress, Registers, NoIngress, ReadEnds,
         PacketAfterStop, ReaderExits, trackRest
<1>5. CASE \/ JobCancelled \/ RoomLost
           \/ \E t \in Track : TrackSubscribed(t) \/ TrackEnds(t)
  BY <1>5 DEF JobCancelled, RoomLost, TrackSubscribed, TrackEnds
<1>6. CASE UNCHANGED vars
  BY <1>6 DEF vars
<1> QED
  BY <1>1, <1>2, <1>3, <1>4, <1>5, <1>6 DEF Next

LEMMA IInvAlways == Spec => [](IInv /\ TypeOK)
<1>1. IInv /\ TypeOK /\ [Next]_vars => (IInv /\ TypeOK)'
  <2> SUFFICES ASSUME IInv, TypeOK, [Next]_vars PROVE (IInv /\ TypeOK)'
    OBVIOUS
  <2>1. IInv'
    BY StepCases, QuietStep, RemoveLookupStep, RemoveCancelStep,
       RemoveJoinStep, RemoveDisconnectStep, LockTracksStep, StopTrackStep,
       JoinNextStep, ClearTracksStep, CallHandleTrackStep, EnterStep,
       ConnectIngressStep, CreateIngressStep, ReaderExitsStep
  <2> QED
    BY <2>1, RestTypes DEF IInv, Types, TypeOK
<1>2. Init => TypeOK
  BY InitIInv DEF Init, IInv, Types, TypeOK
<1> QED
  BY InitIInv, <1>1, <1>2, PTL DEF Spec

\* Every variable keeps its type; with it, the resampler of a track is closed
\* at most once, by whichever of RemoveTrack and three calls of Stop
\* (bridge.go 131-143, 205-213; ingress_track.go 250-262).
THEOREM BridgeTypes == Spec => []TypeOK
  BY IInvAlways, PTL

\* Only the end of a Stop lets Run return, and that Stop has taken every
\* track of the map.
LEMMA ReturnIsClear ==
  ASSUME IInv, TypeOK, [Next]_vars, RunReturns, exposed
  PROVE  /\ ClearTracks("run")
         /\ Registered \subseteq orphaned
         /\ \A h \in Handler : call[h] # "create"
<1> USE DEF TypeOK, RunReturns, Caller
<1>1. ClearTracks("run")
  <2>1. CASE Run
    BY <2>1
       DEF Run, Start, RunStops, RunLeaves, ToStop, Stop, StopEgress,
           LockTracks, StopTrack, TakeTrack, JoinNext, TrackStopped
  <2>2. CASE Signal
    BY <2>2
       DEF Signal, TrackUnsubscribed, ParticipantLeft, Disconnected, ToStop,
           RemoveLookup, Removes, RemoveTrack, RemoveCancel, RemoveJoin,
           RemoveDisconnect, Stop, StopEgress, LockTracks, StopTrack,
           TakeTrack, JoinNext, TrackStopped, ClearTracks, EndStop, callerVars
  <2>3. CASE Opcode
    BY <2>3
       DEF Opcode, RemoveOpcode, StopOpcode, OpcodeLeaves, ToStop,
           RemoveLookup, Removes, RemoveTrack, RemoveCancel, RemoveJoin,
           RemoveDisconnect, Stop, StopEgress, LockTracks, StopTrack,
           TakeTrack, JoinNext, TrackStopped, ClearTracks, EndStop
  <2>4. ASSUME NEW h \in Handler,
               \/ \E t \in Track : CallHandleTrack(h, t)
               \/ HandleTrackStep(h) \/ ReadEnds(h) \/ PacketAfterStop(h)
        PROVE  FALSE
    BY <2>4
       DEF CallHandleTrack, HandleTrackStep, HandleTrack, EntersHandleTrack,
           ConnectIngress, CreateIngress, Registers, NoIngress, ReadEnds,
           PacketAfterStop, ReaderExits, trackRest, callerVars
  <2>5. CASE \/ JobCancelled \/ RoomLost
             \/ \E t \in Track : TrackSubscribed(t) \/ TrackEnds(t)
    BY <2>5 DEF JobCancelled, RoomLost, TrackSubscribed, TrackEnds, callerVars
  <2>6. CASE UNCHANGED vars
    BY <2>6 DEF vars, callerVars
  <2> QED
    BY <2>1, <2>2, <2>3, <2>4, <2>5, <2>6 DEF Next
<1>2. mu = "run" /\ todo = {}
  BY <1>1 DEF ClearTracks, EndStop, IInv, LockHeld
<1> QED
  BY <1>1, <1>2, BridgeAssumption DEF IInv, Types, Taking, LockHeld

\* When Run returns from a bridge that had started, no goroutine reads a track
\* but those a RemoveTrack is waiting for, and every track is closed, for any
\* number of tracks, participants and calls.
THEOREM BridgeEndsTracks == Spec => RunEndsTracks
<1>1. ASSUME IInv, TypeOK, [Next]_vars, RunReturns, exposed,
             NEW h \in Handler, reader[h] # "off", Unheld(h)
      PROVE  reader[h] = "exited" /\ closes[h] = 1
  <2>1. closes[h] = 1
    BY <1>1, ReturnIsClear DEF IInv, InReach, Closing
  <2> QED
    BY <1>1, <2>1 DEF IInv, Closing
<1>2. IInv /\ TypeOK /\ [Next]_vars =>
        [RunReturns /\ exposed =>
           \A h \in Handler :
             reader[h] # "off" /\ Unheld(h)
               => reader[h] = "exited" /\ closes[h] = 1]_vars
  BY <1>1
<1> QED
  BY <1>2, IInvAlways, PTL DEF Spec, RunEndsTracks

\* Then the participants in the conference are those whose track a Stop ended
\* and those that could not be disconnected, and all of these.
THEOREM BridgeLeavesParticipants == Spec => LeftByRun
<1>1. ASSUME IInv, TypeOK, [Next]_vars, RunReturns, exposed,
             NEW h \in Handler, Unheld(h)
      PROVE  h \in connected <=> h \in orphaned \union kept
  BY <1>1, ReturnIsClear DEF IInv, Types, InRoom, Left
<1>2. IInv /\ TypeOK /\ [Next]_vars =>
        [RunReturns /\ exposed =>
           \A h \in Handler :
             Unheld(h)
               => (h \in connected <=> h \in orphaned \union kept)]_vars
  BY <1>1
<1> QED
  BY <1>2, IInvAlways, PTL DEF Spec, LeftByRun

-----------------------------------------------------------------------------
(* The refinement of TrackRegistry.                                        *)

\* The mapping of Bridge, under names.
Listed ==
  [i \in Identity |-> IF ingress[i] \in orphaned THEN None ELSE ingress[i]]
Taken == {held[c] : c \in {d \in Caller : pc[d] # "dropTrack"}} \ {None}
Closed == {h \in Handler : closes[h] # 0}

LEMMA RegistryInit == Init => Registry!Init
  BY DEF Init, Registry!Init

\* The tracks taken, before and after a step.
LEMMA TakenDef ==
  /\ \A h : h \in Taken <=>
       h # None /\ \E c \in Caller : held[c] = h /\ pc[c] # "dropTrack"
  /\ \A h : h \in Taken' <=>
       h # None /\ \E c \in Caller : held'[c] = h /\ pc'[c] # "dropTrack"
  BY DEF Taken

\* Nobody takes or closes a track.
LEMMA TakenSame ==
  ASSUME \A d \in Caller :
           \/ /\ held'[d] = held[d]
              /\ pc'[d] = "dropTrack" <=> pc[d] = "dropTrack"
           \/ pc[d] = "dropTrack" /\ held'[d] = None
  PROVE  Taken' = Taken
<1>1. ASSUME NEW h PROVE h \in Taken' <=> h \in Taken
  BY TakenDef
<1> QED
  BY <1>1

LEMMA MappedStutter ==
  ASSUME Listed' = Listed, Taken' = Taken, Closed' = Closed
  PROVE  [Registry!Next]_(Registry!vars)
  BY DEF Registry!vars, Listed, Taken, Closed

LEMMA MappedTake ==
  ASSUME NEW i \in Identity, Listed[i] # None,
         Taken' = Taken \union {Listed[i]},
         Listed' = [Listed EXCEPT ![i] = None], Closed' = Closed
  PROVE  [Registry!Next]_(Registry!vars)
<1>1. Registry!Take(i)
  BY DEF Registry!Take, Listed, Taken, Closed
<1> QED
  BY <1>1 DEF Registry!Next

LEMMA MappedClose ==
  ASSUME NEW h \in Handler, h \in Taken,
         Taken' = Taken \ {h}, Closed' = Closed \union {h}, Listed' = Listed
  PROVE  [Registry!Next]_(Registry!vars)
<1>1. Registry!Close(h)
  BY DEF Registry!Close, Listed, Taken, Closed
<1> QED
  BY <1>1 DEF Registry!Next

LEMMA MappedList ==
  ASSUME NEW i \in Identity, NEW h \in Handler,
         Listed[i] = None, h \notin Taken \union Closed,
         \A k \in Identity : Listed[k] # h,
         Listed' = [Listed EXCEPT ![i] = h], Taken' = Taken, Closed' = Closed
  PROVE  [Registry!Next]_(Registry!vars)
<1>1. Registry!List(i, h)
  BY DEF Registry!List, Listed, Taken, Closed
<1> QED
  BY <1>1 DEF Registry!Next

\* RemoveTrack takes a track with its entry, Stop without.
LEMMA TakeSteps ==
  ASSUME IInv, NEW c \in Caller,
         \/ \E i \in Identity : RemoveLookup(c, i)
         \/ \E h \in Handler : StopTrack(c, h)
  PROVE  [Registry!Next]_(Registry!vars)
<1> USE BridgeAssumption DEF IInv, Types
<1>1. ASSUME NEW i \in Identity, RemoveLookup(c, i)
      PROVE  [Registry!Next]_(Registry!vars)
  <2> USE <1>1 DEF RemoveLookup, Removes
  <2>1. ingress[i] \notin orphaned /\ Listed[i] = ingress[i]
    BY DEF Taking, Registered, Listed
  <2>2. Listed' = [Listed EXCEPT ![i] = None]
    BY DEF Listed
  <2>3. Taken' = Taken \union {Listed[i]}
    BY <2>1, TakenDef DEF OneHand, Free
  <2>4. Closed' = Closed
    BY DEF Closed
  <2> QED
    BY <2>1, <2>2, <2>3, <2>4, MappedTake
<1>2. ASSUME NEW h \in Handler, StopTrack(c, h)
      PROVE  [Registry!Next]_(Registry!vars)
  <2> USE <1>2 DEF StopTrack, TakeTrack, stopRest
  <2>1. PICK i \in Identity : ingress[i] = h /\ h \notin orphaned
    BY DEF Taking, Registered
  <2>2. Listed[i] = h /\ \A k \in Identity : k # i => ingress[k] # h
    BY <2>1 DEF Listed, Listing
  <2>3. Listed' = [Listed EXCEPT ![i] = None]
    BY <2>1, <2>2 DEF Listed
  <2>4. Taken' = Taken \union {h}
    BY TakenDef DEF OneHand
  <2>5. Closed' = Closed
    BY DEF Closed
  <2> QED
    BY <2>2, <2>4, <2>5, <2>3, MappedTake
<1> QED
  BY <1>1, <1>2

\* The one who waited for a track closes it.
LEMMA CloseSteps ==
  ASSUME IInv, NEW c \in Caller, RemoveJoin(c) \/ JoinNext(c)
  PROVE  [Registry!Next]_(Registry!vars)
<1> DEFINE h == held[c]
<1> USE BridgeAssumption
       DEF IInv, Types, RemoveJoin, JoinNext, TrackStopped, stopRest
<1>1. h \in Handler /\ h \in Taken /\ closes[h] = 0
  BY TakenDef DEF OneHand, Free, Closing
<1>2. Taken' = Taken \ {h}
  BY TakenDef DEF OneHand
<1>3. Closed' = Closed \union {h}
  BY <1>1 DEF Closed
<1>4. Listed' = Listed
  BY DEF Listed
<1> QED
  BY <1>1, <1>2, <1>3, <1>4, MappedClose

\* A started track is listed for a participant that has none.
LEMMA ListSteps ==
  ASSUME IInv, NEW h \in Handler, Registers(h)
  PROVE  [Registry!Next]_(Registry!vars)
<1> USE BridgeAssumption DEF IInv, Types, Registers, trackRest, callerVars
<1>1. Who(h) \in Identity /\ ingress[Who(h)] = None
  BY DEF Progress, Who
<1>2. reader[h] = "off" /\ h \notin orphaned /\ h \notin Taken \union Closed
  BY TakenDef DEF Progress, Closing, Closed
<1>3. Listed[Who(h)] = None /\ \A k \in Identity : Listed[k] # h
  BY <1>1 DEF Listed, Listing
<1>4. Listed' = [Listed EXCEPT ![Who(h)] = h]
  BY <1>1, <1>2 DEF Listed
<1>5. Taken' = Taken /\ Closed' = Closed
  BY DEF Taken, Closed
<1> QED
  BY <1>1, <1>2, <1>3, <1>4, <1>5, MappedList

\* Whatever else happens leaves the registry alone; what a Stop throws away
\* with the map was taken before.
LEMMA StutterSteps ==
  ASSUME IInv,
         \/ Quiet
         \/ \E c \in Caller : \/ RemoveCancel(c) \/ RemoveDisconnect(c)
                              \/ LockTracks(c) \/ ClearTracks(c)
         \/ \E h \in Handler :
              \/ \E t \in Track : CallHandleTrack(h, t)
              \/ HandleTrack(h) \/ ConnectIngress(h) \/ ReaderExits(h)
              \/ CreateIngress(h) /\ ~Registers(h)
  PROVE  [Registry!Next]_(Registry!vars)
<1> USE BridgeAssumption DEF IInv, Types, stopRest, trackRest, callerVars
<1>1. Listed' = Listed
  <2>1. ASSUME NEW c \in Caller, ClearTracks(c) PROVE Listed' = Listed
    BY <2>1
       DEF ClearTracks, EndStop, NoTracks, Listed, LockHeld, Taking, Registered
  <2> QED
    BY <2>1
       DEF Listed, Quiet, trackVars, RemoveCancel, RemoveDisconnect,
           LockTracks, CallHandleTrack, HandleTrack, EntersHandleTrack,
           ConnectIngress, ReaderExits, CreateIngress, NoIngress
<1>2. Taken' = Taken
  <2>1. ASSUME NEW c \in Caller,
               RemoveCancel(c) \/ LockTracks(c) \/ ClearTracks(c)
        PROVE  Taken' = Taken
    BY <2>1, TakenSame
       DEF RemoveCancel, LockTracks, ClearTracks, EndStop, AfterStop, Caller
  <2>2. CASE Quiet
    BY <2>2, TakenSame DEF Quiet, Free
  <2>3. ASSUME NEW c \in Caller, RemoveDisconnect(c)
        PROVE  Taken' = Taken
    BY <2>3, TakenSame DEF RemoveDisconnect
  <2>4. CASE \E h \in Handler :
              \/ \E t \in Track : CallHandleTrack(h, t)
              \/ HandleTrack(h) \/ ConnectIngress(h) \/ ReaderExits(h)
              \/ CreateIngress(h) /\ ~Registers(h)
    BY <2>4
       DEF Taken, CallHandleTrack, HandleTrack, EntersHandleTrack,
           ConnectIngress, ReaderExits, CreateIngress, NoIngress
  <2> QED
    BY <2>1, <2>2, <2>3, <2>4
<1>3. Closed' = Closed
  BY DEF Closed, Quiet, trackVars, RemoveCancel, RemoveDisconnect, LockTracks,
         ClearTracks, EndStop, CallHandleTrack, HandleTrack, EntersHandleTrack,
         ConnectIngress, ReaderExits, CreateIngress, NoIngress
<1> QED
  BY <1>1, <1>2, <1>3, MappedStutter

LEMMA RegistryStep ==
  ASSUME IInv, TypeOK, [Next]_vars
  PROVE  [Registry!Next]_(Registry!vars)
  BY StepCases, TakeSteps, CloseSteps, ListSteps, StutterSteps

\* The bridge is a TrackRegistry: with its lock, its two ways to take a track
\* and its three callers it lists one track for a participant, takes a track
\* once and closes it once, after it was taken.
THEOREM BridgeImplementsRegistry == Spec => RegistrySpec
<1>1. IInv /\ TypeOK /\ [Next]_vars => [Registry!Next]_(Registry!vars)
  BY RegistryStep
<1> QED
  BY RegistryInit, IInvAlways, <1>1, PTL DEF Spec, RegistrySpec, Registry!Spec

=============================================================================
