------------------------------ MODULE JobProofs -----------------------------
(***************************************************************************)
(* Job, for every number of jobs, conferences and tracks: what Run leaves  *)
(* behind, the tracks that were there before the bridge, the uses of       *)
(* audioBridge that are out of date, and the opcodes that end a job.       *)
(***************************************************************************)
EXTENDS Job, TLAPS

\* Run has not started its bridge yet.
Early == {"new", "connect", "joining", "create", "start"}

\* What TypeOK says of each variable by itself.
Types ==
  /\ at \in [Job -> RunPC]
  /\ handler \in Job \union {None}
  /\ todo \subseteq Track
  /\ bridge \in [Job -> {"nil", "set"}]
  /\ audio \in [Job -> {"off", "on", "stopped"}]
  /\ room \in [Job -> {"none", "up", "down"}]
  /\ agent \subseteq Track /\ subs \subseteq Track /\ handled \subseteq subs
  /\ callback \in [Track -> {"none", "called", "tested", "dropped", "done"}]
  /\ event \in [Job -> {"none", "called", "tested", "done"}]
  /\ op \in [pc : {"idle", "called", "tested", "stopping", "leave"},
             kind : {"none", "disconnect", "merge"},
             conf : Conference \union {None}, who : Job \union {None},
             serving : SUBSET Job]
  /\ panicked \subseteq Job

\* An opcode that is on its way was given to a handler.
OpcodeHasJob == op.pc # "idle" => op.who \in Job

\* A job that served when its opcode came has a room and does not start its
\* bridge again; its own handler goes past the Stop with the bridge stopped.
Meant ==
  \A j \in op.serving :
    /\ op.kind = "disconnect" /\ op.conf = RoomOf[j]
    /\ at[j] \in {"serve", "leave", "returned"} /\ room[j] # "none"
    /\ op.who = j /\ op.pc \in {"stopping", "leave"} => audio[j] # "on"

\* A bridge is on between its start and Run's Stop, and one that Run has
\* dropped, or not created, never was.
BridgePhase ==
  \A j \in Job :
    /\ at[j] \in Early \/ bridge[j] = "nil" => audio[j] = "off"
    /\ at[j] = "start" => bridge[j] = "set"
    /\ audio[j] = "on" => at[j] \in {"list", "existing", "serve"}

\* The room is up between Connect and Run's Disconnect at most, and it is
\* there, or was, when Run serves.
RoomPhase ==
  \A j \in Job :
    /\ room[j] = "up" => at[j] \notin {"new", "connect", "returned"}
    /\ room[j] = "none" => at[j] \in {"new", "connect", "returned"}

\* A callback that gave its track up found no bridge.  When there is one now,
\* Run has still to list the track, or to come to it, or has handled it,
\* unless it is an agent's.
Callbacks ==
  \A t \in Track :
    /\ callback[t] # "none" => t \in subs
    /\ callback[t] = "done" => t \in handled
    /\ callback[t] = "dropped" /\ bridge[JobOf[t]] = "set" /\ t \notin agent =>
         /\ at[JobOf[t]] = "existing" => t \in todo \union handled
         /\ at[JobOf[t]] = "serve" => t \in handled

\* Only a nil audioBridge brings the process down.
Panicked == \A j \in panicked : bridge[j] = "nil"

IInv ==
  /\ Types /\ OpcodeHasJob /\ Meant
  /\ BridgePhase /\ RoomPhase /\ Callbacks /\ Panicked

LEMMA InitIInv == Init => IInv
  BY DEF Init, IInv, Types, RunPC, Idle, OpcodeHasJob, Meant, BridgePhase,
         RoomPhase, Callbacks, Panicked

\* Run, up to the room and from it.
LEMMA RunSteps ==
  ASSUME IInv, NEW j \in Job,
         \/ InstallHandler(j) \/ JoinRoom(j) \/ RoomSet(j)
         \/ RunServes(j) \/ RunLeaves(j)
  PROVE  IInv'
<1> USE JobAssumption
       DEF IInv, Types, RunPC, Goes, runRest, InstallHandler, JoinRoom,
           RoomSet, RunServes, RunLeaves
<1>1. Types'
  OBVIOUS
<1>2. OpcodeHasJob' /\ Meant' /\ BridgePhase' /\ RoomPhase' /\ Panicked'
  BY DEF OpcodeHasJob, Meant, BridgePhase, Early, RoomPhase, Panicked
<1>3. Callbacks'
  BY DEF Callbacks, TracksOf
<1> QED
  BY <1>1, <1>2, <1>3

\* The bridge is created, started and stopped.
LEMMA BridgeSteps ==
  ASSUME IInv, panicked = {}, NEW j \in Job,
         CreateBridge(j) \/ StartBridge(j) \/ RunStops(j)
  PROVE  IInv'
<1> USE JobAssumption
       DEF IInv, Types, RunPC, Goes, runRest, CreateBridge, StartBridge,
           BridgeStarts, BridgeFails, RunStops, StopsBridge, Stops
<1>1. panicked' = panicked /\ Types'
  OBVIOUS
<1>2. OpcodeHasJob' /\ Meant' /\ RoomPhase'
  BY DEF OpcodeHasJob, Meant, RoomPhase
<1>3. BridgePhase'
  BY DEF BridgePhase, Early
<1>4. Callbacks'
  BY DEF Callbacks
<1> QED
  BY <1>1, <1>2, <1>3, <1>4 DEF Panicked

\* Run looks at the tracks that are there already.
LEMMA ExistingSteps ==
  ASSUME IInv, NEW j \in Job,
         ListParticipants(j) \/ \E t \in Track : ExistingTrack(j, t)
  PROVE  IInv'
<1> USE JobAssumption
       DEF IInv, Types, RunPC, runRest, ListParticipants, Goes, ExistingTrack,
           VisitsTrack, TracksOf
<1>1. Types'
  OBVIOUS
<1>2. OpcodeHasJob' /\ Meant' /\ BridgePhase' /\ RoomPhase' /\ Panicked'
  BY DEF OpcodeHasJob, Meant, BridgePhase, Early, RoomPhase, Panicked
<1>3. Callbacks'
  BY DEF Callbacks
<1> QED
  BY <1>1, <1>2, <1>3

\* The room's callbacks and the loss of the room.
LEMMA CallbackSteps ==
  ASSUME IInv, panicked = {},
         \/ \E t \in Track : Subscribed(t) \/ TrackTests(t) \/ TrackUses(t)
         \/ \E j \in Job : RoomLost(j) \/ EventTests(j) \/ EventUses(j)
  PROVE  IInv'
<1> USE JobAssumption
       DEF IInv, Types, callbackRest, Subscribed, TrackTests, TrackUses,
           RoomLost, EventTests, EventUses, Panics, Stops
<1>1. Types'
  BY DEF Callbacks
<1>2. OpcodeHasJob' /\ Meant' /\ RoomPhase' /\ BridgePhase'
  BY DEF OpcodeHasJob, Meant, RoomPhase, BridgePhase
<1>3. Callbacks'
  BY DEF Callbacks
<1>4. Panicked'
  BY DEF Panicked
<1> QED
  BY <1>1, <1>2, <1>3, <1>4

\* An opcode is given to a handler and obeyed, or not.
LEMMA OpcodeSteps ==
  ASSUME IInv, panicked = {},
         \/ \E kind \in {"disconnect", "merge"}, c \in Conference :
              OpcodeArrives(kind, c)
         \/ OpcodeTests \/ OpcodeUses \/ OpcodeStopped \/ OpcodeLeaves
  PROVE  IInv'
<1> USE JobAssumption
       DEF IInv, Types, opRest, trackVars, OpcodeArrives, OpcodeTests,
           OpcodeUses, UsesBridge, OpcodeStopped, OpcodeLeaves, Panics, callbackRest, Stops,
           Idle, OpcodeHasJob
<1>1. Types' /\ OpcodeHasJob'
  OBVIOUS
<1>2. BridgePhase' /\ RoomPhase'
  BY DEF BridgePhase, RoomPhase
<1>3. Callbacks'
  BY DEF Callbacks
<1>4. Panicked'
  BY DEF Panicked
<1>5. Meant'
  BY DEF Meant, BridgePhase, RoomPhase
<1> QED
  BY <1>1, <1>2, <1>3, <1>4, <1>5

LEMMA StutterStep ==
  ASSUME IInv, UNCHANGED vars
  PROVE  IInv'
  BY DEF vars, trackVars, IInv, Types, OpcodeHasJob, Meant, BridgePhase,
         RoomPhase, Callbacks, Panicked

LEMMA IInvAlways == Spec => []IInv
<1>1. IInv /\ [Next]_vars => IInv'
  BY RunSteps, BridgeSteps, ExistingSteps, CallbackSteps, OpcodeSteps,
     StutterStep DEF Next, Run, Callback, Handle
<1> QED
  BY InitIInv, <1>1, PTL DEF Spec

-----------------------------------------------------------------------------
\* The types, and with them: on every path on which Run returns, its room is
\* left and its bridge stopped (job.go 61-258).
THEOREM JobTypes == Spec => []TypeOK
<1>1. IInv => TypeOK
  BY DEF IInv, Types, BridgePhase, RoomPhase, TypeOK
<1> QED
  BY <1>1, IInvAlways, PTL

\* However many tracks and jobs there are, and wherever the creation of the
\* bridge falls between a track's callback and Run's look at the room, no
\* track is missed but an agent's, and that only when its callback came
\* before the bridge (job.go 176, 217-249).
THEOREM JobMissesNoTrack == Spec => []NoTrackMissed
<1>1. IInv => NoTrackMissed
  BY JobAssumption DEF IInv, Types, Callbacks, NoTrackMissed
<1> QED
  BY <1>1, IInvAlways, PTL

\* A nil audioBridge is used only after a failed Start (job.go 206-212): Run
\* clears the variable nowhere else.
THEOREM JobPanics == Spec => []PanicOnlyAfterFailedStart
<1>1. IInv => PanicOnlyAfterFailedStart
  BY DEF IInv, Types, BridgePhase, Panicked, PanicOnlyAfterFailedStart
<1> QED
  BY <1>1, IInvAlways, PTL

\* The job that installed its handler last obeys its opcode when Stop returns:
\* for the tests of audioBridge and room that the handler makes are of a job
\* that served, and the bridge of such a job is never started again
\* (job.go 113-127).
THEOREM JobObeys == Spec => LastJobObeys
<1>1. ASSUME IInv, Next, Handled, NEW j \in op.serving, op.who = j
      PROVE  TornDown(j)'
  <2> USE <1>1, JobAssumption DEF IInv, Types, Handled
  <2>1. OpcodeTests \/ OpcodeUses \/ OpcodeLeaves
    <3> USE DEF runRest, callbackRest, opRest, trackVars
    <3>1. ASSUME NEW k \in Job, Run(k) \/ RoomLost(k) PROVE FALSE
      BY <3>1
         DEF Run, InstallHandler, JoinRoom, RoomSet, CreateBridge, StartBridge,
             ListParticipants, ExistingTrack, VisitsTrack, RunServes, RunStops,
             StopsBridge, RunLeaves, RoomLost
    <3>2. ASSUME NEW t \in Track, Subscribed(t) PROVE FALSE
      BY <3>2 DEF Subscribed
    <3>3. CASE Callback
      BY <3>3
         DEF Callback, TrackTests, TrackUses, EventTests, EventUses, Panics
    <3> QED
      BY <3>1, <3>2, <3>3
         DEF Next, vars, Handle, OpcodeArrives, OpcodeStopped
  <2>2. OpcodeLeaves
    BY <2>1
       DEF OpcodeTests, OpcodeUses, UsesBridge, Panics, callbackRest, Meant,
           Idle
  <2> QED
    BY <2>2 DEF OpcodeLeaves, opRest, Meant, TornDown
<1>2. IInv /\ [Next]_vars
        => [Handled => \A j \in op.serving : op.who = j => TornDown(j)']_vars
  BY <1>1
<1> QED
  BY <1>2, IInvAlways, PTL DEF Spec, LastJobObeys

=============================================================================
