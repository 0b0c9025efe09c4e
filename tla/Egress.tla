------------------------------- MODULE Egress -------------------------------
(***************************************************************************)
(* The egress side of one bridge (bridge.go, egress.go): Start builds it,  *)
(* processEgress moves the conference's mix into the room, a merge gives   *)
(* it a new participant, Stop takes it down.                               *)
(*                                                                         *)
(*   run     Job.Run: Start, wait, Stop, leave the room, deferred Stop     *)
(*   signal  the room's events: Stop when the room is lost                 *)
(*   opcode  the conference client's goroutine: Stop or merge              *)
(*   loop    processEgress                                                 *)
(*                                                                         *)
(* A Participant is what one call of ConnectParticipant returns for the    *)
(* egress ID, numbered in the order of the calls, with its EgressChan.     *)
(* Audio is counted in units, Frame of which make a frame of 960 samples;  *)
(* a unit is known by the participant it came from.                        *)
(***************************************************************************)
EXTENDS Integers, Sequences, FiniteSets

CONSTANTS
  MaxParticipant,  \* bound: successful connects of the egress ID
  Frame,           \* units per frame
  Delay            \* units the resampler holds back at most

ASSUME EgressAssumption ==
  /\ MaxParticipant \in Nat \ {0}
  /\ Frame \in Nat \ {0}
  /\ Delay \in Nat

Caller == {"run", "signal", "opcode"}
Participant == 1..MaxParticipant
None == 0  \* no participant

VARIABLES
  pc,           \* where each caller is
  emu,          \* b.egressMu: the caller that holds it, or "free"
  egress,       \* b.egress: "nil" or "set"
  egressID,     \* b.egressID has been set
  exposed,      \* audioBridge is not nil: callbacks use the bridge
  deferred,     \* Run has come to its deferred Stop
  participant,  \* e.participant
  stopped,      \* e.cancel() has been called
  track,        \* e.egressTrack: "open", "shut" by the SDK, or "nil"
  resampler,    \* "open" or "closed"
  loop,         \* where processEgress is
  current,      \* its currentParticipant
  fifo,         \* audio inside the resampler
  hold,         \* its buffer of resampled audio
  connected,    \* the egress participant in the conference
  born,         \* participants returned so far
  closed,       \* participants whose channel is closed and drained
  merged,       \* history: the participant of the last merge that succeeded
  late,         \* history: units of older ones written since then
  kept          \* history: DisconnectParticipant failed for connected

lockVars == <<emu, egress, egressID>>
eVars    == <<participant, stopped, track, resampler>>
loopVars == <<loop, current, fifo, hold>>
confVars == <<connected, born, closed>>
history  == <<merged, late, kept>>
vars == <<pc, lockVars, exposed, deferred, eVars, loopVars, confVars, history>>

\* What the steps of the callers leave alone, and those of the loop.
callerRest == <<loopVars, deferred>>
loopRest   == <<pc, lockVars, exposed, deferred, eVars, confVars, merged,
              kept>>

Init ==
  /\ pc = [c \in Caller |-> IF c = "run" THEN "connect" ELSE "idle"]
  /\ emu = "free" /\ egress = "nil" /\ egressID = FALSE
  /\ exposed = TRUE /\ deferred = FALSE
  /\ participant = None /\ stopped = FALSE
  /\ track = "nil" /\ resampler = "closed"
  /\ loop = "off" /\ current = None /\ fifo = <<>> /\ hold = <<>>
  /\ connected = None /\ born = 0 /\ closed = {}
  /\ merged = None /\ late = 0 /\ kept = FALSE

-----------------------------------------------------------------------------
(* Start, on run.                                                          *)

Goes(c, next) == pc' = [pc EXCEPT ![c] = next]

\* ConnectParticipant with the egress ID succeeds: the participant is in the
\* conference, and no longer where it was.
Connects ==
  /\ born < MaxParticipant
  /\ born' = born + 1
  /\ connected' = born + 1 /\ kept' = FALSE
  /\ UNCHANGED closed

\* Job.Run: audioBridge becomes nil, so that nobody stops the bridge.
StartFails == Goes("run", "done") /\ exposed' = FALSE

ConnectEgress ==
  /\ pc["run"] = "connect"
  /\ \/ Connects /\ Goes("run", "identify") /\ UNCHANGED exposed
     \/ StartFails /\ UNCHANGED <<confVars, kept>>
  /\ UNCHANGED <<lockVars, eVars, merged, late, callerRest>>

SetEgressID ==
  /\ pc["run"] = "identify"
  /\ egressID' = TRUE
  /\ Goes("run", "create")
  /\ UNCHANGED <<emu, egress, exposed, eVars, confVars, history, callerRest>>

\* DisconnectParticipant; an error is ignored (Start) or logged (Stop).
Disconnects ==
  \/ connected' = None /\ kept' = FALSE
  \/ UNCHANGED connected /\ kept' = (connected # None)

\* NewEgress publishes the track, or the participant is disconnected again.
CreateEgress ==
  /\ pc["run"] = "create"
  /\ \/ /\ participant' = born
        /\ track' = "open" /\ resampler' = "open"
        /\ Goes("run", "attach")
        /\ UNCHANGED <<exposed, confVars, kept>>
     \/ /\ StartFails
        /\ Disconnects
        /\ UNCHANGED <<participant, track, resampler, born, closed>>
  /\ UNCHANGED <<lockVars, stopped, merged, late, callerRest>>

AttachEgress ==
  /\ pc["run"] = "attach" /\ emu = "free"
  /\ egress' = "set"
  /\ Goes("run", "launch")
  /\ UNCHANGED <<emu, egressID, exposed, eVars, confVars, history, callerRest>>

LaunchEgress ==
  /\ pc["run"] = "launch"
  /\ loop' = "fetch"
  /\ Goes("run", "serve")
  /\ UNCHANGED <<lockVars, exposed, deferred, eVars, current, fifo, hold,
                 confVars, history>>

-----------------------------------------------------------------------------
(* The loop.  It holds e.egressMu for the length of one action at a time,  *)
(* and e.participant is never nil.                                         *)

LoopGoes(next) ==
  /\ loop' = next
  /\ UNCHANGED <<current, fifo, hold, late, loopRest>>

\* The loop returns: nobody reads its buffer and the resampler any more.
LoopEnds ==
  /\ loop' = "exited" /\ current' = None
  /\ fifo' = <<>> /\ hold' = <<>>
  /\ UNCHANGED <<late, loopRest>>

\* The top of the loop.
Fetch ==
  /\ loop = "fetch"
  /\ loop' = "select"
  /\ current' = participant
  /\ UNCHANGED <<fifo, hold, late, loopRest>>

SelectDone == loop = "select" /\ stopped /\ LoopEnds

\* Fault: the tick waits for the next one instead of starting over.
Tick_Waits == loop = "select" /\ LoopGoes("select")

\* Every 100 ms: whether the participant was updated or not, start over.
Tick == loop = "select" /\ LoopGoes("fetch")

\* Fault: a closed channel ends the loop, updated participant or not.
SelectClosed_NoRecheck ==
  loop = "select" /\ current \in closed /\ LoopEnds

\* A closed channel ends the loop unless the participant was updated.
SelectClosed ==
  /\ loop = "select" /\ current \in closed
  /\ IF participant = current THEN LoopEnds ELSE LoopGoes("fetch")

SelectFrame ==
  loop = "select" /\ current \notin closed /\ LoopGoes("recheck")

\* The frame is dropped when the participant was updated meanwhile, or when
\* its size is wrong.
Recheck ==
  /\ loop = "recheck"
  /\ LoopGoes(IF participant = current THEN "resample" ELSE "fetch")

DropFrame == loop = "recheck" /\ LoopGoes("fetch")

\* The frame goes into the resampler, which gives out all but some units.
\* It fails when Stop has closed it, and may fail anyway.
Resample ==
  /\ loop = "resample"
  /\ \/ /\ resampler = "open"
        /\ LET audio == fifo \o [u \in 1..Frame |-> current]
           IN  \E n \in 0..Len(audio) :
                 /\ Len(audio) - n <= Delay
                 /\ hold' = hold \o SubSeq(audio, 1, n)
                 /\ fifo' = SubSeq(audio, n + 1, Len(audio))
        /\ loop' = "write"
     \/ loop' = "fetch" /\ UNCHANGED <<fifo, hold>>
  /\ UNCHANGED <<current, late, loopRest>>

Older(s) == Cardinality({i \in 1..Len(s) : s[i] < merged})

\* An open track takes a frame; a write that fails otherwise loses it.
WritesFrame ==
  /\ loop = "write" /\ Len(hold) >= Frame /\ track = "open"
  /\ hold' = SubSeq(hold, Frame + 1, Len(hold))
  /\ late' = late + Older(SubSeq(hold, 1, Frame))
  /\ UNCHANGED <<current, fifo, loopRest>>

\* Fault: one frame is written for each one received.
WriteFrame_Once == WritesFrame /\ loop' = "fetch"

WriteFrame == WritesFrame /\ loop' = "write"

\* Nothing to write; or the track is gone, or the error says it is closed.
WriteEnds ==
  /\ loop = "write"
  /\ \/ Len(hold) < Frame /\ LoopGoes("fetch")
     \/ Len(hold) >= Frame /\ track # "open" /\ LoopEnds

\* What the loop does by itself: not when the conference sends a frame.
LoopStep ==
  \/ Fetch \/ SelectDone \/ Tick \/ SelectClosed \/ Recheck \/ DropFrame
  \/ Resample \/ WriteFrame \/ WriteEnds

-----------------------------------------------------------------------------
(* Stop: all of it up to the participant under b.egressMu.                 *)

FindsEgress(c) ==
  /\ pc[c] = "stop" /\ emu = "free"
  /\ IF egress = "set" THEN Goes(c, "closeTrack") /\ emu' = c
                       ELSE Goes(c, "drop") /\ UNCHANGED emu
  /\ UNCHANGED <<egress, egressID, exposed, participant, track, resampler,
                 confVars, history, callerRest>>

\* Fault: Egress.Stop leaves out the cancel.
StopEgress_NoCancel(c) == FindsEgress(c) /\ UNCHANGED stopped

StopEgress(c) == FindsEgress(c) /\ stopped' = (stopped \/ egress = "set")

CloseTrack(c) ==
  /\ pc[c] = "closeTrack"
  /\ track' = "nil"
  /\ Goes(c, "closeResampler")
  /\ UNCHANGED <<lockVars, exposed, participant, stopped, resampler, confVars,
                 history, callerRest>>

CloseResampler(c) ==
  /\ pc[c] = "closeResampler"
  /\ resampler' = "closed"
  /\ Goes(c, "join")
  /\ UNCHANGED <<lockVars, exposed, participant, stopped, track, confVars,
                 history, callerRest>>

\* The loop has ended, or was not launched yet.
JoinLoop(c) ==
  /\ pc[c] = "join" /\ loop \in {"off", "exited"}
  /\ egress' = "nil" /\ emu' = "free"
  /\ Goes(c, "drop")
  /\ UNCHANGED <<egressID, exposed, eVars, confVars, history, callerRest>>

\* Without an egressID a participant that does not exist is disconnected.
\* Then the ingress tracks (module Bridge), and Stop returns.
DropEgress(c) ==
  /\ pc[c] = "drop"
  /\ IF egressID THEN Disconnects ELSE UNCHANGED <<connected, kept>>
  /\ Goes(c, IF c # "run" THEN "idle" ELSE IF deferred THEN "done" ELSE "leave")
  /\ UNCHANGED <<lockVars, exposed, eVars, born, closed, merged, late,
                 callerRest>>

Stop(c) ==
  \/ StopEgress(c) \/ CloseTrack(c) \/ CloseResampler(c)
  \/ JoinLoop(c) \/ DropEgress(c)

\* The context of the job is done.
RunStops ==
  /\ pc["run"] = "serve"
  /\ Goes("run", "stop")
  /\ UNCHANGED <<lockVars, exposed, deferred, eVars, loopVars, confVars,
                 history>>

\* The room is left; the deferred Stop.
RunLeaves ==
  /\ pc["run"] = "leave"
  /\ deferred' = TRUE
  /\ Goes("run", "stop")
  /\ UNCHANGED <<lockVars, exposed, eVars, loopVars, confVars, history>>

\* OnDisconnected, or an opcode that ends the job; nothing without a bridge.
CallsStop(c) ==
  /\ c # "run" /\ pc[c] = "idle"
  /\ Goes(c, IF exposed THEN "stop" ELSE "idle")
  /\ UNCHANGED <<lockVars, exposed, deferred, eVars, loopVars, confVars,
                 history>>

Start == ConnectEgress \/ SetEgressID \/ CreateEgress \/ AttachEgress
           \/ LaunchEgress

-----------------------------------------------------------------------------
(* MergeToConference.                                                      *)

Merges ==
  /\ pc["opcode"] = "idle" /\ exposed
  /\ emu = "free" /\ egress = "set"
  /\ Goes("opcode", "merge")
  /\ UNCHANGED <<egress, egressID, exposed, eVars, confVars, history,
                 callerRest>>

\* Fault: the lock covers the check of b.egress only.
BeginMerge_Unlocks == Merges /\ UNCHANGED emu

\* The lock is held for all of it; without an egress the merge fails.
BeginMerge == Merges /\ emu' = "opcode"

\* The egress ID is connected to the target conference, or not.
ConnectTarget ==
  /\ pc["opcode"] = "merge"
  /\ \/ Connects /\ Goes("opcode", "merged") /\ UNCHANGED emu
     \/ Goes("opcode", "idle") /\ emu' = "free" /\ UNCHANGED <<confVars, kept>>
  /\ UNCHANGED <<egress, egressID, exposed, eVars, merged, late, callerRest>>

EndsMerge ==
  /\ pc["opcode"] = "merged"
  /\ emu' = "free"
  /\ merged' = born /\ late' = 0
  /\ Goes("opcode", "idle")
  /\ UNCHANGED <<kept, egress, egressID, exposed, stopped, track, resampler,
                 confVars, callerRest>>

\* Fault: the bridge notes the conference and forgets the egress.
EndMerge_NoUpdate == EndsMerge /\ UNCHANGED participant

\* UpdateParticipant.
EndMerge == EndsMerge /\ participant' = born

-----------------------------------------------------------------------------
\* The conference closes a channel, whether its participant was replaced,
\* disconnected, or neither.
ChannelCloses(p) ==
  /\ p <= born /\ p \notin closed
  /\ closed' = closed \union {p}
  /\ UNCHANGED <<pc, lockVars, exposed, deferred, eVars, loopVars, connected,
                 born, history>>

\* LiveKit's SDK closes the tracks of a room that is lost or left, before it
\* says so.
TrackShut ==
  /\ track = "open"
  /\ track' = "shut"
  /\ UNCHANGED <<pc, lockVars, exposed, deferred, participant, stopped,
                 resampler, loopVars, confVars, history>>

Next ==
  \/ Start \/ RunStops \/ RunLeaves
  \/ \E c \in Caller : Stop(c) \/ CallsStop(c)
  \/ BeginMerge \/ ConnectTarget \/ EndMerge
  \/ LoopStep \/ SelectFrame \/ TrackShut
  \/ \E p \in Participant : ChannelCloses(p)

Spec == Init /\ [][Next]_vars

\* Goroutines are scheduled, calls to the conference return, a ticker ticks, a
\* mutex goes to whoever waits for it long enough, and select, which chooses
\* at random, does not pass over a context that is done for ever.  Nobody
\* promises a frame, the end of a channel, an event or an opcode.
Fairness ==
  /\ WF_vars(LoopStep) /\ SF_vars(SelectDone)
  /\ SF_vars(Start \/ Stop("run"))
  /\ SF_vars(Stop("signal"))
  /\ SF_vars(Stop("opcode") \/ ConnectTarget \/ EndMerge)

FairSpec == Spec /\ Fairness

-----------------------------------------------------------------------------
StopPC == {"stop", "closeTrack", "closeResampler", "join", "drop"}
PC == StopPC \union {"connect", "identify", "create", "attach", "launch",
                     "serve", "leave", "done", "idle", "merge", "merged"}

\* What the loop holds back never grows to a frame, however unevenly the
\* resampler gives its output; the rest are the variables' types.
TypeOK ==
  /\ pc \in [Caller -> PC]
  /\ emu \in Caller \union {"free"}
  /\ egress \in {"nil", "set"} /\ egressID \in BOOLEAN
  /\ exposed \in BOOLEAN /\ deferred \in BOOLEAN
  /\ participant \in 0..born /\ current \in 0..born
  /\ stopped \in BOOLEAN
  /\ track \in {"open", "shut", "nil"} /\ resampler \in {"open", "closed"}
  /\ loop \in {"off", "fetch", "select", "recheck", "resample", "write",
               "exited"}
  /\ fifo \in Seq(Participant) /\ Len(fifo) <= Delay
  /\ hold \in Seq(Participant)
  /\ loop \notin {"write", "exited"} => Len(hold) < Frame
  /\ born \in 0..MaxParticipant /\ connected \in 0..born
  /\ closed \subseteq 1..born
  /\ merged \in 0..born /\ late \in Nat /\ kept \in BOOLEAN

\* After a merge the room hears of the old conference what was under way: less
\* than a frame in hold, a frame that had passed the recheck, and what the
\* resampler holds back (egress.go:190-201, 231-260).
OldAudioBound == late <= 2 * Frame - 1 + Delay

\* When Run has returned, the egress participant is out of the conference,
\* or the conference did not let it go, and the loop is told to end: even when
\* an opcode stopped the bridge while Start was still building it or merged it
\* while Run was stopping it.
EgressCleanedUp ==
  pc["run"] = "done" =>
    /\ connected = None \/ kept
    /\ loop \notin {"off", "exited"} => stopped

\* A loop that nobody stopped ends only when the channel it should read now is
\* closed or the SDK has closed its track: an old channel may close before,
\* during or after UpdateParticipant (egress.go:176-188, 236-243).  When the
\* cause comes first, a merge reports success all the same and the room stays
\* silent.
EndsForCause ==
  [][loop # "exited" /\ loop' = "exited"
       => stopped \/ participant \in closed \/ track = "shut"]_vars

\* A running loop that reads another channel comes to the one of the participant
\* it has by then, even when the old channel is open and silent for ever.
MergeTakesOver ==
  participant # current /\ loop \notin {"off", "exited"}
    ~> participant = current \/ loop = "exited"

\* A Stop that was begun comes to the end of its egress part, whatever the
\* loop, a merge and other calls of Stop are at.
StopReturns == \A c \in Caller : pc[c] \in StopPC ~> pc[c] \notin StopPC

=============================================================================
