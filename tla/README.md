# Verification of coralie-livekit-worker

TLA+ models of the worker, TLC runs that check them on small instances, and TLAPS
proofs for every value of the constants. Source paths are relative to the
repository; `worker.go` is `internal/worker/worker.go`, and so on.

- [The system](#the-system)
- [Modules](#modules)
- [Worker](#worker)
- [Bridge](#bridge)
- [Egress](#egress)
- [Job](#job)
- [Ingress](#ingress)
- [Startup](#startup)
- [Runs, bounds and fairness](#runs-bounds-and-fairness)
- [What is proved](#what-is-proved)
- [What the code does and its documentation does not say](#what-the-code-does-and-its-documentation-does-not-say)
- [Not modelled](#not-modelled)
- [Plan](#plan)

## The system

A worker process registers with a LiveKit server as an agent and with the Coralie
conference service as a worker. For each job the LiveKit server assigns, it joins the
LiveKit room, forwards every participant's audio into a conference (ingress) and the
conference's mix back into the room (egress), until it is told to stop.

| Component | State | Operations | Talks to |
|---|---|---|---|
| Worker (`worker.go`) | `activeJobs`, `draining`, `currentLoad`, `conn`, `ctx` | answer availability, start a job, terminate a job, report load, drain, clean up | LiveKit server over one websocket; `Job.Run`; the conference client |
| Connection (`worker.go`) | `conn` under `connMu` | dial, register, read a frame, write a frame | message loop, load reporter and every job's goroutine share it |
| Job (`job.go`) | `audioBridge`, `room`, `participantsMap` | run, room callbacks, conference opcodes, cleanup | Bridge; room callbacks and the opcode handler run on the SDKs' goroutines |
| Bridge (`bridge.go`) | `ingressTracks`, `egress`, `egressID`, `roomName` | start, handle track, remove track, merge, stop | conference client (connect and disconnect participants), ingress tracks, egress |
| Ingress track (`ingress_track.go`) | `remainingSamples`, decoder, resampler | read RTP, decode, resample, cut into frames of 480, send | conference client, transcription tap |
| Egress (`egress.go`) | `participant`, `egressTrack`, resampler | loop over the mix's channel, switch participant, stop | LiveKit track |
| Configuration (`config.go`) | the `Config` record | default, then `.env` and environment, then flag | everything |
| Logging, tap, pprof, `main` | none that matters | | |

What is hard in each, and what makes it correct:

- **Worker.** Five kinds of goroutine share the job map, the draining flag, one
  context and one connection. Decisions are taken under a lock and acted on after it.
  The shutdown must see every job, close nothing a job still needs, and yet end when
  jobs, server or network hang. Correct: bounded overcommit, the map is exactly the
  set of live jobs, a drain leaves nothing behind that it could have waited for,
  nothing misleading is said to the server while draining, the process ends.
- **Connection.** The dial and the registration wait for others under time-outs, with
  goroutines of their own. Correct: one reader at a time, no message of the jobs lost to a
  reader that is left behind, and startup ends whatever the server does.
- **Job.** Callbacks come on other goroutines while `Run` starts and stops the bridge;
  all jobs share one opcode handler. Correct: no track is missed, no callback uses a bridge
  that is gone, an opcode reaches the job of its room, and when `Run` has returned the room
  is left and the bridge is stopped.
- **Bridge.** Subscribe, unsubscribe, leave, stop and merge overlap. Correct: one
  running track per subscribed participant, each stopped once, each with its conference
  participant and no participant without a track; stop ends.
- **Egress.** The channel may close before, while or after the participant is replaced.
  Correct: the loop follows the participant it is given, old audio after a merge is bounded,
  and nothing of the egress is left behind.
- **Ingress.** Samples are cut across packet boundaries, in a buffer that is reused.
  Correct: every sample sent once, in order, in frames of 480 that do not change afterwards.
- **Configuration.** A value may come from the shell, a file, a flag or nowhere. Correct: a
  worker that serves has what it needs and room for a job.

`PROJECT.json` lists the hazards one by one, each at its line.

## Modules

| Module | What it is |
|---|---|
| `Admission` | abstract: what the worker promises the server about accepting jobs |
| `Worker` | `worker.go` from the end of registration to the end of the process |
| `TrackRegistry` | abstract: what a bridge promises about ingress tracks |
| `Bridge` | the ingress side of one bridge, from its creation to the return of `Job.Run`: `bridge.go`, the goroutines of `ingress_track.go`, and what `job.go` does with them |
| `Egress` | the egress side of the same: `egress.go` with start, merge and stop in `bridge.go` |
| `Job` | several calls of `Job.Run` with their callbacks and the control handler they share |
| `Ingress` | the cutting of samples into frames in `ingress_track.go` |
| `Startup` | `main.go`, `config.go`, `NewWorker` and `Start` up to the message loop |
| `MCWorker`, `MCBridge`, `MCEgress`, `MCJob`, `MCIngress`, `MCStartup` | instances for TLC |
| `AdmissionProofs` | the overcommit bound of `Admission` |
| `WorkerProofs` | types, admission, and that `Worker` implements `Admission` |
| `WorkerDrainProofs` | registry, drain, cleanup, late advertisements |
| `BridgeProofs` | types, what is over and who is left when `Run` returns, and that `Bridge` implements `TrackRegistry` |
| `EgressProofs` | types, what a finished `Run` leaves behind, why the loop ends, and how much old audio a merge lets through |
| `JobProofs` | types, missed tracks, uses of a nil bridge, and obeyed opcodes |
| `IngressProofs` | conservation of the samples and the memory of a frame |
| `StartupProofs` | one reader, a worker that is ready, no job lost, and the limit |

How they fit together: `Startup` ends where `Worker` begins. `Worker` has a job as three
states; `Job` has what is inside, with a bridge that is up or not; `Bridge` and `Egress`
have the two halves of that bridge. The halves share the callers and nothing else: each lock
guards one half, and `Stop` does one after the other, so that each module has the other's
half as a step that takes its time. `Egress!StopReturns` is what `Bridge` assumes of that
step, and `BridgeStops` with `CallersReturn` is what `Worker` assumes of a job's teardown.
`Job` assumes nothing of it: its `Stop` may not return.

Operators named `X_Fault` (for example `AvailabilityRequest_OffByOne`)
are plausible bugs of the definition `X`: with the fault in its place the property it is
paired with in `PROJECT.json` fails, which shows that the property depends on that code.

## Worker

### State

| Variable | Code |
|---|---|
| `main` | where `Start` is: `serve` (select on signal and context), `drain`, `wait` (drain select), `cancel`, `closeClient`, `closeConn`, `join` (`wg.Wait` or 5 s), `exited` |
| `waiter` | the goroutine that runs `waitForJobs`; `done` when its channel is closed |
| `loop` | `messageLoop`: `read`, `handle` (a message was read), and the half-way points of the handlers |
| `runner[r]` | the goroutine of a `JobRunner`: `inserted` in the map, `connecting`, `connected`, `succeeded` or `failed` (Run returned), `removing` (status written), `finished` |
| `reporter` | `loadReporter` |
| `draining`, `ctxDone`, `conn`, `activeJobs`, `currentLoad` | the fields of `Worker` |
| `cancelled[r]` | the runner's own context was cancelled (it is also over when `ctxDone`) |
| `linkUp`, `confOpen` | the websocket's peer is there; the conference client is open |
| `offer[j]` | what the server knows: nothing, asked, accepted by this worker |
| `available`, `target`, `advertised` | locals a handler or `updateLoad` carries over an unlock |
| `forced`, `late`, `lost`, `stranded`, `lateAdverts` | history, read by properties only |

A job is identified by `Job`; `Runner` are the `JobRunner` objects that can be created and
`JobOf` their job ids, so two runners with one job are a job id assigned twice. `Window` is
the number of offers the server has open towards this worker.

### Actions and atomicity

One action is one critical section of `w.mu` or `w.connMu`, one network operation or one
context cancellation. What a handler does after its unlock is a second action:
`AvailabilityRequest` / `AvailabilityResponse`, `Assignment` / `Spawn`,
`Termination` / `Terminate`, `ComputeLoad` / `SendLoad`. `ReadFails` covers both a broken
connection (`w.conn` becomes nil) and a frame that does not unmarshal (it does not); both
end the message loop, and `LoopCancels` cancels `w.ctx`. `updateLoad` reads `w.draining`
without a lock: both values the read can give are reachable, because `ComputeLoad` and
`StartDrain` may come in either order.

Timers are alternatives that are always enabled, so no bound on anybody's speed is
assumed: the drain timeout may expire at once, and `waitForJobs`' one-second waits may all
expire. `waitForJobs` looks at the map twice per round (lines 625 and 654); the two looks
are one action, `WaiterCheck`, because nothing but time is between the second and the
first of the next round. The two seconds of `cancelAllJobs` and the five at the end are
only a delay.

`Job.Run` is three states here: connecting succeeds or fails, a connected job waits for
its context, the teardown ends. What happens inside is in `Job`, `Bridge` and `Egress`.

### Abstract specification

`Admission` has two sets: jobs promised (answered yes, not yet assigned) and jobs active.
A yes needs fewer than `Capacity` active jobs and fewer than `Window` promises; it reserves
nothing. `Worker` implements it with `promised <- Accepted` and `active <- Active`: checked
as the property `AdmissionSpec`, proved as `WorkerRefinesAdmission`.

## Bridge

### Who runs

`run` is the goroutine of `Job.Run`: `Start`, `<-ctx.Done()`, `Stop`, `room.Disconnect`, and
the deferred `Stop`. `signal` is the goroutine on which the LiveKit SDK reports
unsubscriptions, leaving participants and the loss of the room, one at a time. `opcode` is
the goroutine on which the conference client delivers opcodes, one at a time; the handler
stays installed after `Run` has returned. A `HandleTrack` call is a `Handler`: the SDK makes
it on a goroutine of its own per track, and `Run` makes it for the tracks it finds, so one
track may be handled twice. A `Handler` also stands for the `IngressTrack` the call creates.
A call has no state before it holds `ingressMu`, so one that waits for the lock and one that
comes later are the same.

### State

| Variable | Code |
|---|---|
| `pc[c]`, `held[c]` | where a caller is in `Start`, `Stop` or `RemoveTrack`, and the track it is stopping |
| `mu` | `ingressMu`, as the one that holds it |
| `ingress` | `ingressTracks`; `todo` is what the range of `Stop` has still to visit |
| `call[h]`, `trackOf[h]` | `HandleTrack`: called, connecting, creating, done, or refused because the participant has a track; and for which track |
| `reader[h]`, `stopped[h]`, `closes[h]` | `processTrack`, the track's context, and how often its resampler was closed |
| `connected` | external: the bridge's participants in the conference |
| `exposed` | `audioBridge` is not nil |
| `media`, `gone`, `room`, `lost` | external: tracks, the room, and the events still to be delivered |
| `jobDone`, `deferred` | the job's context; whether `Run` is in its deferred calls |
| `orphaned`, `kept` | tracks that `Stop` took, and those whose `DisconnectParticipant` failed; read by properties only |

A critical section that waits for nothing is one action. Whoever holds the lock while it
waits (a `HandleTrack` call on the conference, `Stop` on a goroutine) takes it in one action
and gives it back in a later one. `ConnectParticipant`, the creation of a track and
`DisconnectParticipant` may fail; the code ignores (`bridge.go:195`) or logs
(`bridge.go:215`) the last and goes on, and the participant stays in the conference
(`Disconnects`).

### Properties

`RunEndsTracks` and `LeftByRun` are about the moment `Run` returns, the end of the deferred
`Stop`. `RunEndsTracks`: every track that was ever started has ended and was closed, but one
that a `RemoveTrack` is still busy with. `LeftByRun`: the ingress participants in the
conference are those whose track a `Stop` ended, those that could not be disconnected and
nobody else, again but for a `RemoveTrack` on its way. The first half of that is what
`job.go:265` and README's opcode list deny, see below.

Both are for a bridge that had started, and end where `Run` does. Two cases are outside, in
the code and in the model:

- A `HandleTrack` may come while `Start` is building, as `audioBridge` is set already. When
  `Start` then fails (`job.go:208-210`) the bridge is dropped and no `Stop` follows: the
  track is read, and its participant stays in the conference, until the room ends the track.
- `HandleTrack` does not look at `b.ctx`. One that gets `ingressMu` after the last `Stop`
  starts a track on a stopped bridge, with its participant in the conference; only the end
  of the room's track ends it.

`TypeOK` contains that no resampler is closed twice. `BridgeStops` and `CallersReturn`:
`Run`, room events and opcodes come to their ends.

`RegistrySpec`: a bridge implements `TrackRegistry`, which lists at most one track per
participant, takes it off the list once, and closes what was taken. The mapping reads
`listed` from the map, without what `Stop` has taken and leaves in the map to its end;
`taken` from what the callers hold; `closed` from the resamplers.

## Egress

The callers are those of `Bridge`; the fourth goroutine is `processEgress`, step by step. A
`Participant` is what one `ConnectParticipant` for the egress ID returned, with its channel:
a merge makes a new one. Audio is counted in units, `Frame` of them to a frame of 960
samples, and a unit is known by the participant it came from.

| Variable | Code |
|---|---|
| `pc[c]`, `emu` | where a caller is in `Start`, `Stop` or `MergeToConference`; `b.egressMu` as its holder |
| `egress`, `egressID` | `b.egress` is set, `b.egressID` is set |
| `participant`, `stopped`, `track`, `resampler` | the fields of `Egress`: `e.participant`, the context, `egressTrack`, the resampler |
| `loop`, `current` | where `processEgress` is, and the participant it has fetched |
| `fifo`, `hold` | what the resampler holds back, and the buffer `hold` |
| `connected`, `born`, `closed` | external: who is in the conference, and whose channel is closed |
| `merged`, `late`, `kept` | history: the last merge, old units written after it, and that the participant in the conference is one whose disconnect failed |

`e.egressMu` is held for one action at a time, so it has no variable. The resampler keeps up
to `Delay` units and gives the rest at once, which makes its output uneven. A write to a
closed resampler fails. A write to a track that `Stop` has removed ends the loop, and so does
one that fails because the SDK has closed the track, which it does when the room is lost
(`TrackShut`); a write that fails otherwise loses its frame. The conference may refuse to
disconnect the egress participant, as in `Bridge`.

`EndsForCause`: a loop that nobody stopped ends only when the channel it should read now is
closed or the SDK has closed its track. This is what the second look at the participant is
for when a channel closes; the converse is not promised, and a channel that closes before
`UpdateParticipant` ends the loop although the merge goes on and reports success.
`MergeTakesOver`: a running loop that reads another channel comes to the one of the
participant it has by then, or ends, though the old one is silent for ever: this is what the
ticker is for. `OldAudioBound`: after a merge less than two
frames and what the resampler keeps are still written for the old conference; the exact
bound is reached. `EgressCleanedUp`: when `Run` has returned the egress participant is
disconnected, or the conference did not let it go, and the loop is told to end, also when an
opcode stopped the bridge inside `Start`, or merged it inside `Stop`. `StopReturns`: `Stop`
ends, although it joins the loop with `egressMu` held.

## Job

`at[j]` is where `Run` is; `bridge[j]` is the variable `audioBridge` and `audio[j]` the
bridge itself; `room[j]` the room. `Run`, the room's callbacks and the control handler are
different goroutines that share the variable without a lock, so a callback and an opcode
test it in one action and use it in another. `handler` is the one control handler of the
conference client: `InstallHandler` replaces it, and nothing takes it away. Opcodes are
delivered one at a time to the handler of the moment, and name any conference. `todo` is
the snapshot of existing participants that `Run` goes through, `callback[t]` and `handled`
what has become of a subscribed track.

`NoTrackMissed`: a track that is subscribed before there is a bridge is dropped by its
callback and found by `Run`; none falls between the two but an agent's (`agent`: the tracks
of participants named `agent-…`, any set of tracks). `Run` skips those and `OnTrackSubscribed` does not, so an
agent is heard when its track comes after `NewBridge` and not when it comes before.
`PanicOnlyAfterFailedStart`: a callback that tested the variable before `Run` cleared it
uses nil, and the process ends; this happens after a failed start only. `op` is the opcode
being delivered; when it arrives, `op.serving` notes the jobs it is to disconnect and that
serve at that moment. `LastJobObeys`: when the handler comes back from an opcode for such a
job, and the handler was that job's own, the bridge's egress is stopped and the room is
left, whatever `Run` and the room have done meanwhile. This is a safety property: the
handler waits for `Stop` (`OpcodeStopped`), which never comes back while a muted track is
read (`bridge_muted`), and then the room is not left. Nothing in `Job` must happen, so
nothing here claims the contrary. Nor does the property contain all that README promises:
the job's context is not cancelled, and who stays in the conference is `LeftByRun`.
`OpcodeObeyed` leaves out the premise that the handler is the job's own, and is violated.
`TypeOK` contains that when `Run` has returned its room is left and no bridge of it is on:
it was stopped, or had not started.

## Ingress

The n-th sample out of the resampler is the number n. `remainingSamples` has one array for
its life, of one frame: `append` writes into it when the result fits and allocates when it
does not, and a frame is a slice of the result. `array` and `remaining` are that buffer,
`combined` and `offset` the samples being cut and where they begin in the array, and
`frames` what was sent, with the place each has in memory.

`NothingLost`: sent frames, buffer and samples in hand together are the stream, so cutting
packet by packet gives what cutting the whole stream would. `TypeOK` contains that less than
a frame remains, so that the limit of the buffer drops nothing. `FramesKeepSamples`: a
receiver that keeps a frame finds its samples in it later, except when a packet filled the
frame exactly: that frame is the buffer's own array, and the next packet overwrites it.

## Startup

`settings` is where the process was started: a required setting `url` and one with a
default, `max`, each with the shell's value, the file's and the flag's; `LK_JOB_TYPE`; and
the file. Each action up to `RegisterClient` is a step of `config.Load`, `NewWorker` or
`main`. `dial` is the goroutine that dials and its two channels; `deadline` is the context
`main` waits with, 15 seconds for the dial and 10 for the registration. `reading` counts
goroutines of `register` in `readMessage`, and `answer` is what they have put in their
channels; every iteration makes new channels and a new goroutine. `Exits` is `os.Exit`: no
deferred call runs, so nothing is closed and no log is flushed, and a goroutine that is
still in a read is gone with the process.

`TypeOK` contains that `register` has one reader at a time. `LoopGetsAll`: no goroutine it
leaves behind takes a job from the message loop. `StartupEnds`: with a silent or a talkative
server startup still ends, as `select` comes to the deadline. `ServesWhenReady`: jobs are
taken only when both services know the worker. `SafeLimit`: a limit below one can come from
a flag only; `updateLoad` divides by it.

## Runs, bounds and fairness

| Run | Instance | Shows |
|---|---|---|
| `worker_safety` | 2 jobs, limit 1, 2 offers | `TypeOK`, `LateAdvertBound`, `RegistrySound`, `RegistryExact`, `DrainIsClean`, `DrainLosesNothing`, and that `Worker` implements `Admission` |
| `worker_liveness` | 2 jobs, limit 1, 1 offer | `ShutdownCompletes`, `CancelledJobLeaves`, and `OverCommitBound`, which with one offer is the limit itself |
| `bridge_safety` | two participants with a track each, two calls for either | `TypeOK`, `RunEndsTracks`, `LeftByRun`, and that `Bridge` implements `TrackRegistry` |
| `bridge_stops` | one track handled once | `BridgeStops`, `CallersReturn` |
| `egress` | one merge, half frames, a delay of one | `TypeOK`, `OldAudioBound`, `EgressCleanedUp`, `EndsForCause`, `MergeTakesOver`, `StopReturns` |
| `job` | two jobs, a track, an agent's or not | `TypeOK`, `NoTrackMissed`, `PanicOnlyAfterFailedStart`, `LastJobObeys` |
| `ingress` | frames of 4, packets up to 9, 20 samples | `TypeOK`, `NothingLost`, `FramesKeepSamples` |
| `startup` | 1458 ways to set two settings, the job type and the file | `TypeOK`, `SafeLimit`, `ServesWhenReady`, `LoopGetsAll`, `StartupEnds` |
| `drain_grace` | 1 job | violation, see below |
| `bridge_muted`, `bridge_replaced` | 1 or 2 tracks | violations, see below |
| `job_opcode` | 2 jobs | violation, see below |

**Bounds of Worker.** Two jobs with a limit of one and two open offers is the smallest
instance in which the worker overcommits, in which one job can end while another starts,
and in which a late assignment meets an earlier job. Each runner is used once, so a
behaviour is finite up to `Termination` messages and load reports; nothing else is bounded.
A safety run of three jobs, limit two (7 million states) passes as well and is left out for
its time. What the runs check of the worker's safety is proved without bounds, and the
proofs say which properties need that no job id is assigned twice, as the instance has it.
Symmetry in
jobs is used for the safety run only.

**Bounds of Bridge.** A call may be for either track, so the two calls are two for one
participant or one for each. The first is what it takes to have a second call meet the first
one's entry, a removal and a stop compete, and a track come back after it was removed; the
second gives the range of `Stop` more than one track to visit. Participants are
interchangeable, each with its track, and so are calls: `Swaps` is that symmetry. Each call
is used once; opcodes and events come in any number.

**Bounds of Egress.** One merge (`MaxParticipant = 2`) has every order of the channel's end,
the update, the loop and two calls of `Stop`; the safety properties were also checked with
two merges (341 thousand states). With half frames and a delay of one the resampler gives
nothing, one unit, two or three, so that `hold` crosses the frame at every offset.

**Bounds of Job, Ingress and Startup.** Two jobs are what it takes for a handler to be
replaced; each `Run` is called once and opcodes come in any number, one at a time. Packets
of up to two frames and one sample, from every remainder, meet each way to fill, exceed or
miss a frame, exactly or by one, and five frames in all repeat each several times. Two
messages under way (`MaxWire`) let a job follow the registration's answer while a reader of
`register` could still be there; what a server sends besides is not bounded.

**Fairness.** `ShutdownSpec` schedules `main` and lets the timers it selects on fire: the
Go scheduler and `time.After`. It assumes nothing of jobs, server, network or message loop,
and that is enough for `ShutdownCompletes`. `CancelledJobLeaves` has as its premise
`JobFairness`: a handler finishes the message it has begun, and a job's goroutine advances
when it can, so that connecting ends and the teardown of a cancelled job returns. The
teardown is an assumption: `bridge_muted` shows when it fails. Signals, messages and
failures are never promised.

In `Bridge` and `Egress` goroutines are scheduled, remote calls return, and a mutex goes to
whoever waits for it: Go's mutexes hand themselves to a waiter after a millisecond, which is
strong fairness on the steps that lock. A room that was left ends its tracks. `PacketSpec`
adds that a live track delivers another packet some time, which is what `Stop` relies on. In
`Egress` and `Startup` a `select` does not pass over a branch that stays ready for ever (Go
chooses at random), which is strong fairness on `SelectDone` and `RegisterTimeout`, and a
ticker ticks. `Job` has safety properties only and no fairness. In `Startup` `main` goes on,
so that a call to the conference service returns in the end, and time passes. Events,
opcodes, frames, messages and the end of a channel are never promised.

Deadlock is checked in every run but `startup`: there the process may have exited, and after
it serves what remains depends on the server alone.

## What is proved

Every invariant and every action property that a run checks, and the two refinements, are
theorems, for every value of the constants. Each rests on one inductive invariant per
module, which is a conjunction of named parts; TLC was used to check it on the instances of
the runs before it was proved. One lemma per action, or per group of actions that
disturb the same parts, shows that a step keeps it.

### Worker and Admission

The theorems are for arbitrary `Job`, `Runner`, `JobOf`, limit and window; none of the sets
need be finite. The named assumptions are that the limit and the window are positive
(`WorkerAssumption`, `AdmissionConstants`) and, where a theorem says so, `AssignedOnce`: no
job id is assigned a second time.

- `TypeCorrect`: `TypeOK`. The clamp in `updateLoad` is about a number only when the map is
  finite, so the invariant is `TypeInv == TypeOK /\ IsFiniteSet(Active)`.
- `OverCommitBounded`: the bound is not inductive. An answer adds to the sum of active and
  accepted jobs, so the decision it carries must still be true when it goes out.
  `AdmissionInv` says so (`loop = "answer" /\ available => Cardinality(Active) < Max`): only
  the message loop adds to the map, and it is busy answering.
- `WorkerRefinesAdmission`: from the same invariant, every step maps to `Promise`,
  `Withdraw`, `Start`, `Finish` or a stutter.
- `RegistryIsSound` (without `AssignedOnce`), `RegistryIsExact` (with it).
- `DrainWaitsForJobs`: `DrainInv` ties `main` to `waiter` and `waiter` to the goroutines;
  `RegistryExact` is what makes an empty map mean that nobody runs.
- `CleanupLosesNothing`: `w.conn` is nil while the link works only after `CloseConn`, the
  conference client is closed only after `CloseClient`, and both come after the drain, so
  `DrainIsClean` applies to whoever finds them closed.
- `LateAdvertsBounded`: what was said late and what is composed and unsent never grow
  together once `draining` is set; there are two who compose.
- `AdmissionOverCommit`: the bound in the abstract specification, from
  `AdmissionConstants`; TLC meets `Admission` through `Worker` only.

### Bridge

For arbitrary sets of participants, tracks and calls. `BridgeAssumption` says which values
differ: a call is not `None`, and no call is also a caller, as either may be what `mu` holds.
`StepCases` first sorts the steps into those that touch tracks and the `Quiet` ones, so that
the invariant is proved over fourteen steps instead of thirty.

- `BridgeTypes`: `TypeOK`, and in it that a resampler is closed once at most. `OneHand` (a
  track is in the hands of one caller) and `Closing` (closed by the one who holds it, after
  its goroutine has ended) are the reason: the count of a track in hand is still zero.
- `BridgeEndsTracks`: `RunEndsTracks`. At every moment a started track is listed, in
  somebody's hands, or closed (`InReach`). `Taking` is what makes that inductive: while a
  `Stop` has the lock, `todo` is exactly what the map lists and nobody took, so that the new
  map `Stop` ends with throws nothing away; `LockHeld` keeps `HandleTrack` from adding to
  the old one meanwhile. `ReturnIsClear` finds that a `Run` whose bridge had started returns
  by that step, when nothing listed is left to take.
- `BridgeLeavesParticipants`: `LeftByRun`, from `InRoom` (who is listed, in hand or stopped
  by a `Stop` is in the conference) and `Left` (nobody else is, but the participant of a
  `HandleTrack` under way): a failed creation disconnects the participant again, under the
  lock it was connected under.
- `BridgeImplementsRegistry`: `RegistrySpec`. `RemoveLookup` and `StopTrack` map to `Take`,
  `RemoveJoin` and `JoinNext` to `Close`, a successful `CreateIngress` to `List`; all else
  is a stutter, the new map of `Stop` included.

### Egress

For every number of participants, frame size and delay (`EgressAssumption`: the first two
are positive). No assumption on the order or the number of merges and calls of `Stop`.

- `EgressTypes`: `TypeOK`, and in it that the loop never starts over with a whole frame.
- `EgressCleansUp`: `EgressCleanedUp`. `RunGone` says that `Run` has come past its `Stop`
  without an egress, and that nobody connects its participant again: a merge needs an egress
  that is set, with the lock held from the test to the update (`LockHeld`). `Cancelled` says
  that a loop whose egress is gone was told to end, and `Building` that a `Stop` inside
  `Start` finds either nothing or all of it.
- `EgressEndsForCause`: the action property `EndsForCause`. Of the ways to end, `Cancelled`
  takes away one: a track is removed by `Stop` only, after the cancel.
- `EgressOldAudio`: `OldAudioBound`. The sum of what was written late, the old units in
  `hold` and in the resampler, and the frame that has passed the second look (`InFlight`)
  stays below the bound, for the resampler only moves units, and a frame that is let in has
  the current participant. `InLoop` bounds the sum at the moment of a merge. `Count…` are
  the lemmas on counting in sequences: in two pieces there is what there is in the whole.
  For their sake `Older` is a cardinality, of which the library has facts.

### Job

For arbitrary sets of jobs, tracks and conferences.

- `JobTypes`: `TypeOK`, and in it that `Run` returns with its room left and its bridge
  stopped (`BridgePhase`, `RoomPhase`). `BridgePhase` has to say that a bridge about to be
  started is there: `StartBridge` relies on it.
- `JobMissesNoTrack`: `NoTrackMissed`. `Callbacks` follows a track whose callback found no
  bridge: once there is one, `Run` has still to look at the room, or has the track in the
  snapshot it goes through, or has handled it.
- `JobPanics`: `PanicOnlyAfterFailedStart`: a goroutine that panics has found the variable
  nil (`Panicked`), and `BridgePhase` says what that means for `audio`.
- `JobObeys`: `LastJobObeys`. `Meant` follows an opcode that came for a job which served:
  the variable `room` is set by then, the job's own handler goes on to leave the room only
  when no bridge of it is on, and `Run`, which is past its start, starts no other.

### Ingress

For every size of frame and packet and every number of samples (`IngressAssumption`).

- `IngressTypes`: `TypeOK`, and in it that less than a frame remains.
- `IngressLosesNothing`: `NothingLost`. The invariant `InOrder` has no sequences: the n-th
  sample of the f-th frame is the number (f - 1) * Frame + n, and what waits is numbered on
  from there. `Division` brings a place in the whole stream to a frame and a place in it.
- `IngressKeepsFrames`: `FramesKeepSamples`. `InArray` gives the reason: `append` writes in
  place only when all fits into one frame, so a frame cut from the array is all there was.

### Startup

For every set of settings and every number of messages under way (`StartupAssumption`:
a setting is a triple of values, and `MaxWire` is a natural number).

- `StartupTypes`: `TypeOK`, and in it that one goroutine reads the websocket (`OneReader`).
- `StartupReady`: `ServesWhenReady`, from `Registered`.
- `StartupKeepsJobs`: `LoopGetsAll`. `AnswerFirst`: while `register` expects the answer it
  is on its way ahead of every job, so the goroutine reads no job and, once it has read the
  answer, it is the last.
- `StartupLimit`: `SafeLimit`.

### Only checked by TLC

The liveness properties: `ShutdownCompletes`, `CancelledJobLeaves`, `BridgeStops`,
`CallersReturn`, `MergeTakesOver`, `StopReturns`, `StartupEnds`. They
depend on fairness, which is outside what the prover does. So do the four violations,
which are counterexamples on one instance.

## What the code does and its documentation does not say

Found by a run:

| Run | Documentation | Code |
|---|---|---|
| `drain_grace` | README: `LK_DRAIN_TIMEOUT` is the timeout for graceful shutdown | when the shutdown comes from the conference service or a broken websocket, `w.ctx` is cancelled first and with it every job |
| `bridge_muted` | README: "Context cancellation everywhere: Shutdown is fast" | `Stop` waits for a goroutine blocked in `track.Read`, and the room, whose end would unblock it, is left only afterwards: a muted participant keeps `Run` from returning |
| `bridge_replaced` | README: participants' audio is fed into the conference | a track subscribed before its predecessor is removed is refused, and nobody handles it again |
| `job_opcode` | README: a disconnect opcode disconnects the job it targets immediately | the opcode goes to the handler that was installed last (`job.go:46`), which ignores conferences other than its own: in the run job1 serves, job2's `Run` installs its handler, and the opcode for job1's room that comes then is dropped by it |

Where the code promises less than it says, and a property that holds states how much:

- `LK_MAX_CONCURRENT_JOBS` is "maximum concurrent jobs". Offers in flight are not counted
  (`worker.go:388`) and an assignment is never refused: the limit can be passed, by
  `Window - 1` jobs and never by more (`OverCommitBound`).
- `worker.go:208` says "all jobs completed". An assignment handled after `waitForJobs`
  returned starts a job nobody waits for; those are the only ones (`DrainIsClean`).
- `job.go:265` says "Clean up all conference participants", and README's opcode list
  "Disconnect Coralie participants". `Stop` disconnects no ingress participant, and the
  cleanup names `lk:<identity>` instead of `lk:<identity>-<suffix>`: all whose track `Stop`
  ended stay in the conference, and `LeftByRun` says that these are the ones.
- Participants named `agent-…` are skipped when they connect (`job.go:148`) and among the
  existing ones (`job.go:220`), but not in `OnTrackSubscribed`: whether their audio is
  forwarded depends on when it comes (`NoTrackMissed`).
- A merge that finds its loop ended succeeds: `b.egress` stays set. `EndsForCause` says when
  the loop ends.
- The second look at the participant after a frame was received (`egress.go:190`) drops a
  frame whose participant has been replaced; one that is replaced right after it is written
  (`OldAudioBound`).
- README says that flags override the environment: they do, without the check for a
  positive limit that the environment's value has to pass (`SafeLimit`). With a limit of
  zero `updateLoad` divides by zero and no job is accepted.

Seen while modelling, with nothing to check:

- `LK_JOB_TIMEOUT` is "max runtime per job": no code outside `config.go` reads it.
- A disconnect opcode cancels the job's context, says README: `job.go:118-125` stops the
  bridge and leaves the room only, so that `Run`, and the job's slot, go on.
- An opcode that comes while `Run` connects is dropped for lack of a bridge, and one that
  comes during `Start` stops a bridge that is then built to its end, though `job.go:45` sets
  the handler early "to ensure it's ready when opcodes arrive". So does `OnDisconnected`.
- A disconnect opcode for a participant looks for the LiveKit identity under a name that
  still has its suffix (`job.go:91`), and finds nobody.
- After a merge the job answers to its old conference only (`job.go:61`).

## Not modelled

- Logging, the transcription tap (a no-op), pprof, the audio codecs and resamplers, and the
  insides of the LiveKit and conference services: no state of theirs takes part in what the
  components promise, beyond what the modules say of it.
- `participantsMap` of `Job.Run`: only the cleanup reads it, for names nobody has.
- Writes that overlap on the websocket (`worker.go:620`): what happens then is inside the
  library.
- Torn reads of `roomName` and `audioBridge`, which are shared without a lock. A test of
  `audioBridge` that is out of date when it is used is in `Job`.
- Which conference a participant is in: a `HandleTrack` during a merge reads `roomName`
  without the lock and may connect to either.

## Plan

The components are modelled and their safety properties proved. What is left:

1. `TrackRegistry`: its own invariants (no track is listed twice or after it was taken),
   so that the refinement carries them over to `Bridge`, as `AdmissionOverCommit` does for
   `Worker`.
2. The safety part of what the liveness properties rest on: that a `Stop` which waits for
   the loop has told it to end, and that whoever waits for a lock waits for one who can go
   on.
3. `Ingress` and `Bridge` share a goroutine, each with its half; a module that composes
   them, if a property needs both.
