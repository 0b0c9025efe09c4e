-------------------------------- MODULE Job --------------------------------
(***************************************************************************)
(* Jobs of one worker (job.go) and what they share: each Run gives the     *)
(* conference client a control handler of its own, which replaces the one  *)
(* before and stays when Run has returned.                                 *)
(*                                                                         *)
(* The handler, the room's callbacks and Run are different goroutines;     *)
(* they test the variable audioBridge and use it in two steps, without a   *)
(* lock.  What a bridge does inside is in Bridge and Egress: here it is up *)
(* or not, and is called about tracks.                                     *)
(***************************************************************************)
EXTENDS Integers

CONSTANTS
  Job,         \* calls of Run
  Conference,  \* names of rooms and conferences
  RoomOf,      \* j.RoomName
  Track,       \* audio tracks
  JobOf,       \* the job whose room a track is in
  None         \* no handler, no conference

ASSUME JobAssumption ==
  /\ RoomOf \in [Job -> Conference]
  /\ JobOf \in [Track -> Job]
  /\ None \notin Job \union Conference

VARIABLES
  at,        \* where Run is
  handler,   \* the job whose handler the conference client has
  todo,      \* existing tracks Run has still to look at
  bridge,    \* the variable audioBridge: "nil" or "set"
  audio,     \* the bridge: "off" before it is started, "on" or "stopped"
  room,      \* the room: "none", "up" or "down"
  agent,     \* tracks of participants named agent-..., who keep their names
  subs,      \* tracks that are subscribed: their publication has a track
  callback,  \* OnTrackSubscribed for a track
  handled,   \* tracks HandleTrack was called with
  event,     \* OnDisconnected
  op,        \* the opcode being delivered, one at a time; history: the jobs
             \* it is to disconnect and that served when it came
  panicked   \* jobs that used an audioBridge that was nil

trackVars == <<agent, subs, callback, handled>>
vars == <<at, handler, todo, bridge, audio, room, trackVars, event, op,
          panicked>>

\* What the steps of Run leave alone, those of callbacks and of opcodes.
runRest      == <<agent, subs, callback, event, op, panicked>>
callbackRest == <<at, handler, todo, bridge, agent, subs, op>>
opRest       == <<at, handler, todo, bridge, trackVars, event>>

Idle ==
  [pc |-> "idle", kind |-> "none", conf |-> None, who |-> None, serving |-> {}]

\* Bridge.Stop as far as the end of the egress: nothing lasting to a bridge
\* that Start still builds.  The rest may take for ever (module Bridge), and
\* Stop returns in a step of its caller's own.
Stops(j) ==
  audio' = [audio EXCEPT ![j] = IF @ = "on" THEN "stopped" ELSE @]

Init ==
  /\ at = [j \in Job |-> "new"]
  /\ handler = None /\ todo = {}
  /\ bridge = [j \in Job |-> "nil"]
  /\ audio = [j \in Job |-> "off"]
  /\ room = [j \in Job |-> "none"]
  /\ agent \in SUBSET Track
  /\ subs = {} /\ callback = [t \in Track |-> "none"] /\ handled = {}
  /\ event = [j \in Job |-> "none"]
  /\ op = Idle /\ panicked = {}

-----------------------------------------------------------------------------
(* Run.                                                                    *)

Goes(j, from, to) == at[j] = from /\ at' = [at EXCEPT ![j] = to]

InstallHandler(j) ==
  /\ Goes(j, "new", "connect")
  /\ handler' = j
  /\ UNCHANGED <<todo, bridge, audio, room, handled, runRest>>

\* The room is joined, and its callbacks begin, before Connect returns and
\* the variable room is set; or Run returns with an error.
JoinRoom(j) ==
  /\ \/ Goes(j, "connect", "joining") /\ room' = [room EXCEPT ![j] = "up"]
     \/ Goes(j, "connect", "returned") /\ UNCHANGED room
  /\ UNCHANGED <<handler, todo, bridge, audio, handled, runRest>>

RoomSet(j) ==
  /\ Goes(j, "joining", "create")
  /\ UNCHANGED <<handler, todo, bridge, audio, room, handled, runRest>>

\* NewBridge: callbacks and opcodes find the bridge from here on.
CreateBridge(j) ==
  /\ Goes(j, "create", "start")
  /\ bridge' = [bridge EXCEPT ![j] = "set"]
  /\ UNCHANGED <<handler, todo, audio, room, handled, runRest>>

BridgeStarts(j) ==
  Goes(j, "start", "list") /\ audio' = [audio EXCEPT ![j] = "on"]
    /\ UNCHANGED bridge

BridgeFails(j, next) ==
  Goes(j, "start", next) /\ bridge' = [bridge EXCEPT ![j] = "nil"]
    /\ UNCHANGED audio

\* Fault: a bridge that does not start ends Run, and room.Disconnect is not
\* deferred before it.
StartBridge_Returns(j) ==
  /\ BridgeStarts(j) \/ BridgeFails(j, "returned")
  /\ UNCHANGED <<handler, todo, room, handled, runRest>>

\* A bridge that does not start is dropped, and Run goes on.
StartBridge(j) ==
  /\ BridgeStarts(j) \/ BridgeFails(j, "list")
  /\ UNCHANGED <<handler, todo, room, handled, runRest>>

TracksOf(j) == {t \in Track : JobOf[t] = j}

\* The participants in the room now: they have all the subscribed tracks, and
\* tracks that are not subscribed yet.  Run skips agents, as
\* OnTrackSubscribed does not.
ListParticipants(j) ==
  /\ Goes(j, "list", "existing")
  /\ \E new \in SUBSET (TracksOf(j) \ subs) :
       todo' = todo \union (((TracksOf(j) \intersect subs) \union new) \ agent)
  /\ UNCHANGED <<handler, bridge, audio, room, handled, runRest>>

VisitsTrack(j, t) ==
  /\ at[j] = "existing" /\ t \in todo \intersect TracksOf(j)
  /\ todo' = todo \ {t}
  /\ UNCHANGED <<at, handler, bridge, audio, room, runRest>>

\* Fault: the track is subscribed to and left to the callback.
ExistingTrack_Subscribes(j, t) == VisitsTrack(j, t) /\ UNCHANGED handled

\* A track that is there already is handled at once.
ExistingTrack(j, t) ==
  /\ VisitsTrack(j, t)
  /\ handled' = IF bridge[j] = "set" /\ t \in subs THEN handled \union {t}
                ELSE handled

RunServes(j) ==
  /\ todo \intersect TracksOf(j) = {}
  /\ Goes(j, "existing", "serve")
  /\ UNCHANGED <<handler, todo, bridge, audio, room, handled, runRest>>

\* The context of the job is done: Stop, which has returned when Run leaves.
StopsBridge(j) ==
  /\ Goes(j, "serve", "leave")
  /\ Stops(j)
  /\ UNCHANGED <<handler, todo, room, handled, runRest>>

\* Fault: the variable is cleared when the bridge is stopped.
RunStops_ClearsBridge(j) ==
  StopsBridge(j) /\ bridge' = [bridge EXCEPT ![j] = "nil"]

RunStops(j) == StopsBridge(j) /\ UNCHANGED bridge

\* The room is left; the cleanup disconnects lk:<identity>, names that no
\* participant of the bridge has; the deferred Stop and Disconnect.
RunLeaves(j) ==
  /\ Goes(j, "leave", "returned")
  /\ room' = [room EXCEPT ![j] = "down"]
  /\ UNCHANGED <<handler, todo, bridge, audio, handled, runRest>>

Run(j) ==
  \/ InstallHandler(j) \/ JoinRoom(j) \/ RoomSet(j) \/ CreateBridge(j)
  \/ StartBridge(j) \/ ListParticipants(j)
  \/ (\E t \in Track : ExistingTrack(j, t))
  \/ RunServes(j) \/ RunStops(j) \/ RunLeaves(j)

-----------------------------------------------------------------------------
(* The room's callbacks.                                                   *)

\* A method is called on a nil audioBridge; the process ends.
Panics(j) ==
  /\ bridge[j] = "nil"
  /\ panicked' = panicked \union {j}
  /\ UNCHANGED <<audio, room, callback, handled, event, callbackRest>>

Subscribed(t) ==
  /\ room[JobOf[t]] = "up" /\ t \notin subs
  /\ subs' = subs \union {t}
  /\ callback' = [callback EXCEPT ![t] = "called"]
  /\ UNCHANGED <<at, handler, todo, bridge, audio, room, agent, handled, event,
                 op, panicked>>

TrackTests(t) ==
  /\ callback[t] = "called"
  /\ callback' = [callback EXCEPT ![t] =
                    IF bridge[JobOf[t]] = "set" THEN "tested" ELSE "dropped"]
  /\ UNCHANGED <<audio, room, handled, event, panicked, callbackRest>>

TrackUses(t) ==
  /\ callback[t] = "tested"
  /\ \/ Panics(JobOf[t])
     \/ /\ bridge[JobOf[t]] = "set"
        /\ handled' = handled \union {t}
        /\ callback' = [callback EXCEPT ![t] = "done"]
        /\ UNCHANGED <<audio, room, event, panicked, callbackRest>>

RoomLost(j) ==
  /\ room[j] = "up"
  /\ room' = [room EXCEPT ![j] = "down"]
  /\ event' = [event EXCEPT ![j] = "called"]
  /\ UNCHANGED <<audio, callback, handled, panicked, callbackRest>>

\* OnDisconnected; the callbacks that remove a track test and use likewise.
EventTests(j) ==
  /\ event[j] = "called"
  /\ event' = [event EXCEPT ![j] =
                 IF bridge[j] = "set" THEN "tested" ELSE "done"]
  /\ UNCHANGED <<audio, room, callback, handled, panicked, callbackRest>>

EventUses(j) ==
  /\ event[j] = "tested"
  /\ \/ Panics(j)
     \/ /\ bridge[j] = "set"
        /\ Stops(j)
        /\ event' = [event EXCEPT ![j] = "done"]
        /\ UNCHANGED <<room, callback, handled, panicked, callbackRest>>

Callback ==
  \/ \E t \in Track : TrackTests(t) \/ TrackUses(t)
  \/ \E j \in Job : EventTests(j) \/ EventUses(j)

-----------------------------------------------------------------------------
(* Opcodes that name no participant.                                       *)

\* An opcode for conference c is given to the handler of the moment.
OpcodeArrives(kind, c) ==
  /\ op.pc = "idle" /\ handler # None
  /\ op' = [pc |-> "called", kind |-> kind, conf |-> c, who |-> handler,
            serving |-> {j \in Job : /\ kind = "disconnect"
                                     /\ RoomOf[j] = c /\ at[j] = "serve"}]
  /\ UNCHANGED <<audio, room, panicked, opRest>>

\* It is for the handler's room or for nobody.  Without a bridge a merge is
\* dropped, and a disconnect leaves the room only.
OpcodeTests ==
  /\ op.pc = "called"
  /\ op' = IF op.conf # RoomOf[op.who] THEN Idle
           ELSE IF bridge[op.who] = "set" THEN [op EXCEPT !.pc = "tested"]
           ELSE IF op.kind = "merge" THEN Idle
           ELSE [op EXCEPT !.pc = "leave"]
  /\ UNCHANGED <<audio, room, panicked, opRest>>

UsesBridge(afterStop) ==
  /\ op.pc = "tested"
  /\ \/ Panics(op.who)
     \/ /\ bridge[op.who] = "set"
        /\ IF op.kind = "merge"
             THEN op' = Idle /\ UNCHANGED audio
             ELSE op' = afterStop /\ Stops(op.who)
        /\ UNCHANGED <<room, panicked, opRest>>

\* Fault: the bridge is stopped and the room is not left.
OpcodeUses_StaysInRoom == UsesBridge(Idle)

\* MergeToConference (module Egress), or Stop, which may not come back.
OpcodeUses == UsesBridge([op EXCEPT !.pc = "stopping"])

OpcodeStopped ==
  /\ op.pc = "stopping"
  /\ op' = [op EXCEPT !.pc = "leave"]
  /\ UNCHANGED <<audio, room, panicked, opRest>>

\* The room is left, when the variable room is set.
OpcodeLeaves ==
  /\ op.pc = "leave"
  /\ op' = Idle
  /\ room' = IF at[op.who] \in {"new", "connect", "joining"} THEN room
             ELSE [room EXCEPT ![op.who] = IF @ = "up" THEN "down" ELSE @]
  /\ UNCHANGED <<audio, panicked, opRest>>

Handle == OpcodeTests \/ OpcodeUses \/ OpcodeLeaves

-----------------------------------------------------------------------------
\* Nothing happens any more once the process has panicked.
Next ==
  \/ /\ panicked = {}
     /\ \/ \E j \in Job : Run(j) \/ RoomLost(j)
        \/ \E t \in Track : Subscribed(t)
        \/ Callback
        \/ \E kind \in {"disconnect", "merge"}, c \in Conference :
             OpcodeArrives(kind, c)
        \/ Handle \/ OpcodeStopped
  \/ panicked # {} /\ UNCHANGED vars

\* Nothing here must happen: Bridge shows when a Stop does not return.
Spec == Init /\ [][Next]_vars

-----------------------------------------------------------------------------
RunPC == {"new", "connect", "joining", "create", "start", "list", "existing",
          "serve", "leave", "returned"}

\* When Run has returned, on whatever path, its room is left and its bridge,
\* if it ever started, is stopped; the rest are the variables' types.
TypeOK ==
  /\ at \in [Job -> RunPC]
  /\ handler \in Job \union {None}
  /\ todo \subseteq Track
  /\ bridge \in [Job -> {"nil", "set"}]
  /\ audio \in [Job -> {"off", "on", "stopped"}]
  /\ room \in [Job -> {"none", "up", "down"}]
  /\ agent \subseteq Track /\ subs \subseteq Track /\ handled \subseteq subs
  /\ callback \in [Track -> {"none", "called", "tested", "dropped", "done"}]
  /\ event \in [Job -> {"none", "called", "tested", "done"}]
  /\ op \in [pc : {"idle", "called", "tested", "stopping", "leave"},
             kind : {"none", "disconnect", "merge"},
             conf : Conference \union {None}, who : Job \union {None},
             serving : SUBSET Job]
  /\ panicked \subseteq Job
  /\ \A j \in Job : at[j] = "returned" => room[j] # "up" /\ audio[j] # "on"

\* No track falls between the callback, which drops it while there is no
\* bridge, and the look at the participants that are there already: once Run
\* serves, every track whose callback is over has been handled
\* (job.go:176, 217-249).  Only an agent's does, and only when its callback
\* came before the bridge: the same agent is heard when it comes later.
NoTrackMissed ==
  \A t \in Track :
    at[JobOf[t]] = "serve" /\ bridge[JobOf[t]] = "set" /\ t \notin handled
      => \/ callback[t] \notin {"dropped", "done"}
         \/ callback[t] = "dropped" /\ t \in agent

\* The use of audioBridge after a test that is out of date brings the process
\* down only when a bridge did not start: Run clears the variable there and
\* nowhere else (job.go:210), not when it stops the bridge.
PanicOnlyAfterFailedStart == \A j \in panicked : audio[j] = "off"

\* The room is left and the bridge's egress stopped.  The context of the job
\* is not cancelled: Run stays until it is.
TornDown(j) == room[j] = "down" /\ audio[j] # "on"

\* The handler comes back from an opcode.
Handled == op.pc # "idle" /\ op'.pc = "idle"

\* A job that served when its opcode came, to its own handler, is torn down
\* when the handler comes back (job.go:113-127), whatever its room and its Run
\* have done between the test of audioBridge, the Stop and the Disconnect.
\* The handler does not come back from a Stop that waits for a muted track.
LastJobObeys ==
  [][Handled => \A j \in op.serving : op.who = j => TornDown(j)']_vars

-----------------------------------------------------------------------------
(* What the documentation says and the code does not do.                   *)

\* README: the job that a disconnect opcode targets leaves its room.  But a
\* serving job's opcode is given to the handler that another job, of another
\* room, has put in place of its own.
OpcodeObeyed == [][Handled => \A j \in op.serving : TornDown(j)']_vars

=============================================================================
