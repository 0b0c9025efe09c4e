------------------------------- MODULE Bridge -------------------------------
(***************************************************************************)
(* One bridge (internal/bridge/bridge.go) with the ingress tracks it owns, *)
(* from the moment Job.Run has created it until Run returns.  Its egress   *)
(* side is module Egress: here Start succeeds or fails, and stopping the   *)
(* egress is a step that takes its time.                                   *)
(*                                                                         *)
(* Who runs on what                                                        *)
(*   run     the goroutine of Job.Run: Start, wait, Stop, leave the room,  *)
(*           Stop again (deferred)                                         *)
(*   signal  the room's event goroutine: unsubscribed, participant left,   *)
(*           disconnected; one event at a time                             *)
(*   opcode  the conference client's goroutine: remove a participant, stop *)
(*           the job; one opcode at a time                                 *)
(*   HandleTrack is called on a goroutine of its own for each subscription *)
(*           and by run for the tracks it finds; as it holds ingressMu     *)
(*           from its first look at the map to its end, there is one call  *)
(*           at a time inside, and a call outside has no state             *)
(*                                                                         *)
(* A Handler is a HandleTrack call and the IngressTrack it may create, so  *)
(* a track may have several.  A short critical section is one action.      *)
(***************************************************************************)
EXTENDS Integers, FiniteSets

CONSTANTS
  Identity,    \* LiveKit participants
  Track,       \* their audio tracks
  Handler,     \* HandleTrack calls
  IdentityOf,  \* the participant of a track
  None         \* no handler, no track, no lock owner

Caller == {"run", "signal", "opcode"}

ASSUME BridgeAssumption ==
  /\ IdentityOf \in [Track -> Identity]
  /\ None \notin Handler \union Track \union Caller
  /\ Handler \intersect Caller = {}

VARIABLES
  pc,          \* where each caller is
  held,        \* the handler a caller is stopping
  mu,          \* b.ingressMu: the caller or handler that holds it
  todo,        \* tracks Stop has still to stop while it holds ingressMu
  call,        \* the progress of each HandleTrack call
  trackOf,     \* the track it was called for
  ingress,     \* b.ingressTracks, with None for an absent key
  reader,      \* the goroutine of an ingress track
  stopped,     \* t.cancel() has been called
  closes,      \* how often the resampler of an ingress track was closed
  exposed,     \* audioBridge is not nil: callbacks use the bridge
  connected,   \* handlers whose participant is in the conference
  media,       \* a track: "new", "live" or "ended"
  gone,        \* ended tracks whose unsubscription is still to be reported
  room,        \* the room: "up" or "down"
  lost,        \* the loss of the room is still to be reported
  jobDone,     \* the context of the job is cancelled
  deferred,    \* Run has come to its deferred calls
  orphaned,    \* history: handlers whose track Stop stopped
  kept         \* history: those DisconnectParticipant failed for

callerVars == <<pc, held>>
trackVars  == <<mu, todo, call, trackOf, ingress, reader, stopped, closes,
                connected, orphaned, kept>>
roomVars   == <<media, gone, room, lost>>
jobVars    == <<exposed, jobDone, deferred>>
vars == <<callerVars, trackVars, roomVars, jobVars>>

-----------------------------------------------------------------------------
\* The values of the map.
Registered == {h \in Handler : \E i \in Identity : ingress[i] = h}

\* What follows when Stop returns.
AfterStop(c) ==
  CASE c = "run"    -> IF deferred THEN "done" ELSE "leave"
    [] c = "opcode" -> "leave"
    [] c = "signal" -> "idle"

Init ==
  /\ pc = [c \in Caller |-> IF c = "run" THEN "start" ELSE "idle"]
  /\ held = [c \in Caller |-> None]
  /\ mu = None /\ todo = {}
  /\ call = [h \in Handler |-> "new"]
  /\ trackOf = [h \in Handler |-> None]
  /\ ingress = [i \in Identity |-> None]
  /\ reader = [h \in Handler |-> "off"]
  /\ stopped = [h \in Handler |-> FALSE]
  /\ closes = [h \in Handler |-> 0]
  /\ connected = {}
  /\ media = [t \in Track |-> "new"]
  /\ gone = {} /\ room = "up" /\ lost = FALSE
  /\ exposed = TRUE /\ jobDone = FALSE /\ deferred = FALSE
  /\ orphaned = {} /\ kept = {}

-----------------------------------------------------------------------------
(* Start, on run.                                                          *)

\* Start returns; when it fails audioBridge becomes nil and Run goes on.
Start ==
  /\ pc["run"] = "start"
  /\ pc' = [pc EXCEPT !["run"] = "serve"]
  /\ exposed' \in BOOLEAN
  /\ UNCHANGED <<held, trackVars, roomVars, jobDone, deferred>>

-----------------------------------------------------------------------------
(* HandleTrack.                                                            *)

\* The participant of the call, once it is made.
Who(h) == IdentityOf[trackOf[h]]

\* OnTrackSubscribed, or the loop over existing participants, finds
\* audioBridge set and calls; the track may be over by then.
CallHandleTrack(h, t) ==
  /\ exposed /\ media[t] # "new"
  /\ call[h] = "new"
  /\ call' = [call EXCEPT ![h] = "called"]
  /\ trackOf' = [trackOf EXCEPT ![h] = t]
  /\ UNCHANGED <<callerVars, mu, todo, ingress, reader, stopped, closes,
                 connected, orphaned, kept, roomVars, jobVars>>

\* What a step of HandleTrack leaves alone in any case.
trackRest == <<callerVars, todo, trackOf, stopped, closes, orphaned, roomVars,
               jobVars>>

EntersHandleTrack(h, refused) ==
  /\ call[h] = "called" /\ mu = None
  /\ IF refused
       THEN call' = [call EXCEPT ![h] = "refused"] /\ UNCHANGED mu
       ELSE call' = [call EXCEPT ![h] = "connect"] /\ mu' = h
  /\ UNCHANGED <<ingress, reader, connected, kept, trackRest>>

\* Fault: the new track replaces the one in the map.
HandleTrack_Replaces(h) == EntersHandleTrack(h, FALSE)

\* The lock is taken; a participant that has a track already is left alone.
HandleTrack(h) == EntersHandleTrack(h, ingress[Who(h)] # None)

\* ConnectParticipant, or it fails.
ConnectIngress(h) ==
  /\ call[h] = "connect"
  /\ \/ /\ connected' = connected \union {h}
        /\ call' = [call EXCEPT ![h] = "create"]
        /\ UNCHANGED mu
     \/ /\ call' = [call EXCEPT ![h] = "done"]
        /\ mu' = None
        /\ UNCHANGED connected
  /\ UNCHANGED <<ingress, reader, kept, trackRest>>

\* The entry in the map, and Start.
Registers(h) ==
  /\ call[h] = "create"
  /\ call' = [call EXCEPT ![h] = "done"]
  /\ ingress' = [ingress EXCEPT ![Who(h)] = h]
  /\ reader' = [reader EXCEPT ![h] = "reading"]
  /\ mu' = None
  /\ UNCHANGED <<connected, kept, trackRest>>

NoIngress(h) ==
  /\ call[h] = "create"
  /\ call' = [call EXCEPT ![h] = "done"]
  /\ UNCHANGED <<ingress, reader, trackRest>>

\* Fault: a failure leaves the participant in the conference.
CreateIngress_NoDisconnect(h) ==
  \/ Registers(h)
  \/ NoIngress(h) /\ mu' = None /\ UNCHANGED <<connected, kept>>

\* DisconnectParticipant; an error is ignored (HandleTrack) or logged.
Disconnects(h) ==
  \/ connected' = connected \ {h} /\ UNCHANGED kept
  \/ kept' = kept \union {h} /\ UNCHANGED connected

\* Fault: a failure returns with the lock held.
CreateIngress_NoUnlock(h) ==
  \/ Registers(h)
  \/ NoIngress(h) /\ Disconnects(h) /\ UNCHANGED mu

\* NewIngressTrack fails and the participant is disconnected, or not.
CreateIngress(h) ==
  \/ Registers(h)
  \/ NoIngress(h) /\ Disconnects(h) /\ mu' = None

ReaderExits(h) ==
  /\ reader[h] = "reading"
  /\ reader' = [reader EXCEPT ![h] = "exited"]
  /\ UNCHANGED <<mu, call, ingress, connected, kept, trackRest>>

\* processTrack: Read fails when the track is over ...
ReadEnds(h) == ReaderExits(h) /\ media[trackOf[h]] = "ended"

\* ... and returns with a packet while it is not; the context is looked at
\* only between two reads.
PacketAfterStop(h) ==
  ReaderExits(h) /\ media[trackOf[h]] = "live" /\ stopped[h]

-----------------------------------------------------------------------------
(* RemoveTrack, and IngressTrack.Stop as it uses it: cancel, then wait for *)
(* the goroutine and close the resampler.                                  *)

\* What a step of RemoveTrack or Stop leaves alone in any case.
stopRest == <<call, trackOf, reader, roomVars, jobVars>>

Removes(c, i) ==
  /\ exposed /\ pc[c] = "idle"
  /\ mu = None /\ ingress[i] # None
  /\ held' = [held EXCEPT ![c] = ingress[i]]
  /\ pc' = [pc EXCEPT ![c] = "cancelTrack"]
  /\ UNCHANGED <<mu, todo, call, trackOf, reader, stopped, closes, connected,
                 orphaned, kept, jobVars>>

\* Fault: the entry is deleted elsewhere, after the track was closed.
RemoveLookup_KeepsEntry(c, i) == Removes(c, i) /\ UNCHANGED ingress

\* The entry leaves the map; nothing happens when there is none.
RemoveLookup(c, i) ==
  Removes(c, i) /\ ingress' = [ingress EXCEPT ![i] = None]

RemoveCancel(c) ==
  /\ pc[c] = "cancelTrack"
  /\ stopped' = [stopped EXCEPT ![held[c]] = TRUE]
  /\ pc' = [pc EXCEPT ![c] = "joinTrack"]
  /\ UNCHANGED <<held, mu, todo, ingress, closes, connected, orphaned, kept,
                 stopRest>>

TrackStopped(c, next) ==
  /\ reader[held[c]] = "exited"
  /\ closes' = [closes EXCEPT ![held[c]] = @ + 1]
  /\ pc' = [pc EXCEPT ![c] = next]
  /\ UNCHANGED <<mu, todo, ingress, stopped, connected, orphaned, kept,
                 stopRest>>

RemoveJoin(c) ==
  /\ pc[c] = "joinTrack"
  /\ TrackStopped(c, "dropTrack")
  /\ UNCHANGED held

RemoveDisconnect(c) ==
  /\ pc[c] = "dropTrack"
  /\ Disconnects(held[c])
  /\ held' = [held EXCEPT ![c] = None]
  /\ pc' = [pc EXCEPT ![c] = "idle"]
  /\ UNCHANGED <<mu, todo, ingress, stopped, closes, orphaned, stopRest>>

RemoveTrack(c) == RemoveCancel(c) \/ RemoveJoin(c) \/ RemoveDisconnect(c)

-----------------------------------------------------------------------------
(* Stop.  b.cancel() comes first and nobody looks at b.ctx but Stop itself. *)

\* The egress is stopped and its participant disconnected (module Egress).
StopEgress(c) ==
  /\ pc[c] = "stopEgress"
  /\ pc' = [pc EXCEPT ![c] = "lockTracks"]
  /\ UNCHANGED <<held, mu, todo, ingress, stopped, closes, connected, orphaned,
                 kept, stopRest>>

LockTracks(c) ==
  /\ pc[c] = "lockTracks" /\ mu = None
  /\ mu' = c
  /\ todo' = Registered
  /\ pc' = [pc EXCEPT ![c] = "stopTracks"]
  /\ UNCHANGED <<held, ingress, stopped, closes, connected, orphaned, kept,
                 stopRest>>

TakeTrack(c, h) ==
  /\ pc[c] = "stopTracks" /\ h \in todo
  /\ todo' = todo \ {h}
  /\ held' = [held EXCEPT ![c] = h]
  /\ orphaned' = orphaned \union {h}
  /\ pc' = [pc EXCEPT ![c] = "joinNext"]
  /\ UNCHANGED <<mu, ingress, closes, connected, kept, stopRest>>

\* Fault: the goroutine is waited for and not cancelled.
StopTrack_NoCancel(c, h) == TakeTrack(c, h) /\ UNCHANGED stopped

\* The next track of the range over the map is cancelled ...
StopTrack(c, h) ==
  TakeTrack(c, h) /\ stopped' = [stopped EXCEPT ![h] = TRUE]

\* ... and waited for.
JoinNext(c) ==
  /\ pc[c] = "joinNext"
  /\ TrackStopped(c, "stopTracks")
  /\ held' = [held EXCEPT ![c] = None]

\* The lock is released, Stop returns.
EndStop(c) ==
  /\ pc[c] = "stopTracks"
  /\ mu' = None /\ todo' = {}
  /\ pc' = [pc EXCEPT ![c] = AfterStop(c)]
  /\ UNCHANGED <<held, stopped, closes, connected, orphaned, kept, stopRest>>

NoTracks == [i \in Identity |-> None]

\* Fault: Stop leaves the old map in place.
ClearTracks_KeepsMap(c) == EndStop(c) /\ todo = {} /\ UNCHANGED ingress

\* The range is over and the map is new.
ClearTracks(c) == EndStop(c) /\ todo = {} /\ ingress' = NoTracks

Stop(c) ==
  \/ StopEgress(c) \/ LockTracks(c)
  \/ (\E h \in Handler : StopTrack(c, h))
  \/ JoinNext(c) \/ ClearTracks(c)

-----------------------------------------------------------------------------
(* Job.Run after the start.                                                *)

JobCancelled ==
  /\ ~jobDone
  /\ jobDone' = TRUE
  /\ UNCHANGED <<callerVars, trackVars, roomVars, exposed, deferred>>

\* Where a caller that stops the bridge goes next, when there is one or not.
ToStop(c, otherwise) ==
  pc' = [pc EXCEPT ![c] = IF exposed THEN "stopEgress" ELSE otherwise]

\* The context is done: Stop, when there is a bridge.
RunStops ==
  /\ pc["run"] = "serve" /\ jobDone
  /\ ToStop("run", "leave")
  /\ UNCHANGED <<held, trackVars, roomVars, jobVars>>

\* room.Disconnect.  The loop after it disconnects lk:<identity>, a name no
\* ingress participant has (theirs end in a random suffix), so the conference
\* does not change.  Then the deferred Stop.
RunLeaves ==
  /\ pc["run"] = "leave"
  /\ room' = "down"
  /\ deferred' = TRUE
  /\ ToStop("run", "done")
  /\ UNCHANGED <<held, trackVars, media, gone, lost, exposed, jobDone>>

Run == Start \/ RunStops \/ RunLeaves \/ Stop("run")

-----------------------------------------------------------------------------
(* The room and its events.                                                *)

TrackSubscribed(t) ==
  /\ media[t] = "new" /\ room = "up"
  /\ media' = [media EXCEPT ![t] = "live"]
  /\ UNCHANGED <<gone, room, lost, callerVars, trackVars, jobVars>>

\* Leaving the room ends its tracks too, with or without an event.
TrackEnds(t) ==
  /\ media[t] = "live"
  /\ media' = [media EXCEPT ![t] = "ended"]
  /\ \/ gone' = gone \union {t}
     \/ room = "down" /\ UNCHANGED gone
  /\ UNCHANGED <<room, lost, callerVars, trackVars, jobVars>>

RoomLost ==
  /\ room = "up"
  /\ room' = "down" /\ lost' = TRUE
  /\ UNCHANGED <<media, gone, callerVars, trackVars, jobVars>>

\* OnTrackUnsubscribed; without a bridge or an entry the event is used up.
TrackUnsubscribed(t) ==
  /\ pc["signal"] = "idle" /\ t \in gone
  /\ gone' = gone \ {t}
  /\ \/ RemoveLookup("signal", IdentityOf[t])
     \/ /\ ~exposed \/ (mu = None /\ ingress[IdentityOf[t]] = None)
        /\ UNCHANGED <<callerVars, trackVars, jobVars>>
  /\ UNCHANGED <<media, room, lost>>

\* OnParticipantDisconnected, after the events of its tracks.
ParticipantLeft(i) ==
  /\ \A t \in Track : IdentityOf[t] = i => media[t] # "live" /\ t \notin gone
  /\ RemoveLookup("signal", i)
  /\ UNCHANGED roomVars

\* OnDisconnected.
Disconnected ==
  /\ pc["signal"] = "idle" /\ lost
  /\ lost' = FALSE
  /\ ToStop("signal", "idle")
  /\ UNCHANGED <<held, trackVars, media, gone, room, jobVars>>

Signal ==
  \/ \E t \in Track : TrackUnsubscribed(t)
  \/ \E i \in Identity : ParticipantLeft(i)
  \/ Disconnected
  \/ RemoveTrack("signal") \/ Stop("signal")

-----------------------------------------------------------------------------
(* Opcodes.                                                                *)

\* disconnect or leave_conference with a target participant.
RemoveOpcode(i) == RemoveLookup("opcode", i) /\ UNCHANGED roomVars

\* disconnect or leave_conference without one: Stop, then leave the room.
StopOpcode ==
  /\ pc["opcode"] = "idle"
  /\ ToStop("opcode", "leave")
  /\ UNCHANGED <<held, trackVars, roomVars, jobVars>>

OpcodeLeaves ==
  /\ pc["opcode"] = "leave"
  /\ room' = "down"
  /\ pc' = [pc EXCEPT !["opcode"] = "idle"]
  /\ UNCHANGED <<held, trackVars, media, gone, lost, jobVars>>

Opcode ==
  \/ \E i \in Identity : RemoveOpcode(i)
  \/ StopOpcode \/ OpcodeLeaves
  \/ RemoveTrack("opcode") \/ Stop("opcode")

-----------------------------------------------------------------------------
HandleTrackStep(h) ==
  HandleTrack(h) \/ ConnectIngress(h) \/ CreateIngress(h)

Next ==
  \/ Run \/ Signal \/ Opcode
  \/ \E h \in Handler :
       \/ (\E t \in Track : CallHandleTrack(h, t)) \/ HandleTrackStep(h)
       \/ ReadEnds(h) \/ PacketAfterStop(h)
  \/ JobCancelled \/ RoomLost
  \/ \E t \in Track : TrackSubscribed(t) \/ TrackEnds(t)

Spec == Init /\ [][Next]_vars

\* A goroutine is scheduled, calls to the conference and to LiveKit return, a
\* room that was left ends its tracks, and a mutex goes to whoever waits for
\* it long enough (Go's starvation mode).  Egress.Stop returns: Egress shows
\* it.  Nobody promises an event, an opcode or a packet.
Fairness ==
  /\ SF_vars(Run)
  /\ SF_vars(RemoveTrack("signal") \/ Stop("signal"))
  /\ SF_vars(RemoveTrack("opcode") \/ Stop("opcode") \/ OpcodeLeaves)
  /\ \A h \in Handler : SF_vars(HandleTrackStep(h)) /\ WF_vars(ReadEnds(h))
  /\ \A t \in Track : WF_vars(room = "down" /\ TrackEnds(t))

FairSpec == Spec /\ Fairness

\* Every live track delivers another packet some time.
PacketSpec == FairSpec /\ \A h \in Handler : WF_vars(PacketAfterStop(h))

-----------------------------------------------------------------------------
PC == {"idle", "start", "serve", "leave", "done", "cancelTrack", "joinTrack",
       "dropTrack", "stopEgress", "lockTracks", "stopTracks", "joinNext"}

\* A resampler is closed at most once: RemoveTrack, Stop and a second Stop
\* never get hold of the same track.  The rest are the variables' types.
TypeOK ==
  /\ pc \in [Caller -> PC]
  /\ held \in [Caller -> Handler \union {None}]
  /\ mu \in Caller \union Handler \union {None}
  /\ todo \subseteq Handler
  /\ call \in [Handler ->
                 {"new", "called", "connect", "create", "done", "refused"}]
  /\ trackOf \in [Handler -> Track \union {None}]
  /\ ingress \in [Identity -> Handler \union {None}]
  /\ reader \in [Handler -> {"off", "reading", "exited"}]
  /\ stopped \in [Handler -> BOOLEAN]
  /\ closes \in [Handler -> {0, 1}]
  /\ connected \subseteq Handler /\ orphaned \subseteq Handler
  /\ kept \subseteq connected
  /\ media \in [Track -> {"new", "live", "ended"}]
  /\ gone \subseteq Track /\ room \in {"up", "down"} /\ lost \in BOOLEAN
  /\ exposed \in BOOLEAN /\ jobDone \in BOOLEAN /\ deferred \in BOOLEAN

\* Nobody is stopping or removing the track of h.
Unheld(h) == \A c \in Caller : held[c] # h

\* The deferred Stop, and with it Run, comes to its end.
RunReturns == pc["run"] # "done" /\ pc'["run"] = "done"

\* When Run returns and the bridge had started, every track has ended and is
\* closed, but those that a RemoveTrack is busy with: whatever the order of
\* HandleTrack, RemoveTrack and the calls of Stop, and whether a track came
\* while Start was building, or between the two Stops (bridge.go:138-143, 174,
\* 205-213, job.go:212).  A bridge that did not start is dropped and never
\* stopped, so what it had registered reads on (job.go:210); so does a track
\* whose HandleTrack has the lock after this Stop.
RunEndsTracks ==
  [][RunReturns /\ exposed =>
       \A h \in Handler :
         reader[h] # "off" /\ Unheld(h)
           => reader[h] = "exited" /\ closes[h] = 1]_vars

\* The tracks Stop has taken stay in the map until its end.
Registry == INSTANCE TrackRegistry WITH
  listed <- [i \in Identity |->
               IF ingress[i] \in orphaned THEN None ELSE ingress[i]],
  taken  <- {held[c] : c \in {d \in Caller : pc[d] # "dropTrack"}} \ {None},
  closed <- {h \in Handler : closes[h] # 0}

\* With its locks and its three stoppers a bridge is such a registry: a track
\* is never listed beside another one of its participant, never taken from
\* the map twice, never closed before it is taken.
RegistrySpec == Registry!Spec

\* When Run returns and the bridge had started, the ingress participants in
\* the conference are those whose track a Stop ended, all of them (Stop
\* disconnects none, and the cleanup names others, bridge.go:138-143,
\* job.go:265-272), those DisconnectParticipant failed for, and those that a
\* RemoveTrack is busy with.  RemoveTrack and the failures of HandleTrack take
\* theirs along (bridge.go:182-196, 213-217).
LeftByRun ==
  [][RunReturns /\ exposed =>
       \A h \in Handler :
         Unheld(h) => (h \in connected <=> h \in orphaned \union kept)]_vars

\* A job whose context is cancelled returns from Run: Stop gets its lock and
\* every goroutine it waits for ends (job.go:252, bridge.go:116-143).
BridgeStops == jobDone ~> pc["run"] = "done"

\* A room event or an opcode that was begun is finished, whoever else is
\* stopping the bridge: the SDKs' goroutines are not lost to it.
CallersReturn ==
  \A c \in {"signal", "opcode"} : pc[c] # "idle" ~> pc[c] = "idle"

-----------------------------------------------------------------------------
(* What the documentation says and the code does not do.                   *)

\* A room participant's audio goes into the conference (README): a live
\* track is turned away only for one that is live.
LiveTrackServed ==
  [][\A h \in Handler :
       call'[h] = "refused" /\ call[h] = "called"
         => \/ media[trackOf[h]] = "ended"
            \/ media[trackOf[ingress[Who(h)]]] = "live"]_vars

=============================================================================
