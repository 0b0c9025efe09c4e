------------------------------- MODULE Worker -------------------------------
(***************************************************************************)
(* The worker process of internal/worker/worker.go, from the moment        *)
(* Start has registered with LiveKit until the process exits.              *)
(*                                                                         *)
(* Goroutines and their program counters                                   *)
(*   main      Start: wait for shutdown, drain, cancel, clean up           *)
(*   waiter    waitForJobs, spawned by the drain                           *)
(*   loop      messageLoop and the handlers it runs, one message at a time *)
(*   runner[r] the goroutine handleAssignment starts for a JobRunner r     *)
(*   reporter  loadReporter                                                *)
(*   monitorShutdown has no state but w.ctx                                *)
(*                                                                         *)
(* Each action is one critical section of w.mu or w.connMu, one network    *)
(* operation, or one context cancellation.  A timer (drain timeout, 2 s,   *)
(* 5 s, the 1 s and 100 ms of waitForJobs) is an alternative that is       *)
(* always enabled: no bound on how fast the others run is assumed.         *)
(* What a message of the server says is chosen when it is handled; the     *)
(* delay before the choice is its time on the wire and in the read buffer. *)
(***************************************************************************)
EXTENDS Integers, FiniteSets

CONSTANTS
  Job,                \* job identifiers
  Runner,             \* the *JobRunner objects handleAssignment can create
  JobOf,              \* the job a runner is created for
  NoRunner,           \* a missing map entry
  MaxConcurrentJobs,  \* cfg.MaxConcurrentJobs
  Window              \* availability offers the server keeps open at a time

ASSUME WorkerAssumption ==
  /\ JobOf \in [Runner -> Job]
  /\ NoRunner \notin Runner
  /\ MaxConcurrentJobs \in Nat \ {0}
  /\ Window \in Nat \ {0}

VARIABLES
  main, waiter, loop, runner, reporter,
  draining,    \* w.draining
  ctxDone,     \* w.ctx is cancelled
  conn,        \* w.conn: "open" or "nil"
  linkUp,      \* the websocket still works (network and server)
  confOpen,    \* w.confClient has not been closed
  activeJobs,  \* w.activeJobs, with NoRunner for an absent key
  cancelled,   \* jobRunner.cancel() has been called
  currentLoad, \* w.currentLoad, in units of 1/MaxConcurrentJobs
  offer,       \* what the server knows of each job
  available,   \* local of handleAvailability
  target,      \* local of handleTermination: the runner looked up
  advertised,  \* local of updateLoad: the status it is about to send
  \* history
  forced,      \* the drain timeout expired
  late,        \* runners registered after waitForJobs returned
  lost,        \* runners whose final status was not sent though the link works
  stranded,    \* runners torn down after the conference client was closed
  lateAdverts  \* times "available" was sent after the drain began

mainVars   == <<main, waiter, draining, forced>>
connVars   == <<conn, linkUp, confOpen>>
loopVars   == <<loop, available, target, offer>>
jobVars    == <<activeJobs, runner, cancelled, late, lost, stranded>>
loadVars   == <<reporter, advertised, currentLoad>>
vars == <<mainVars, connVars, loopVars, jobVars, loadVars,
          ctxDone, lateAdverts>>

-----------------------------------------------------------------------------
Active      == {j \in Job : activeJobs[j] # NoRunner}   \* keys of the map
Accepted    == {j \in Job : offer[j] = "accepted"}
Outstanding == {j \in Job : offer[j] # "none"}
Live(r)     == runner[r] \notin {"unused", "finished"}
Running     == main # "exited"   \* the process has not ended

\* readMessage and writeMessage work: w.conn is set and the peer is there.
Connected == conn = "open" /\ linkUp

\* Counts an "available" sent although the drain has begun.
Advertise(yes) ==
  lateAdverts' = IF yes /\ draining /\ Connected THEN lateAdverts + 1
                                                 ELSE lateAdverts

Init ==
  /\ main = "serve" /\ waiter = "off" /\ loop = "read"
  /\ runner = [r \in Runner |-> "unused"]
  /\ reporter = "idle"
  /\ draining = FALSE /\ ctxDone = FALSE
  /\ conn = "open" /\ linkUp = TRUE /\ confOpen = TRUE
  /\ activeJobs = [j \in Job |-> NoRunner]
  /\ cancelled = [r \in Runner |-> FALSE]
  /\ currentLoad = 0
  /\ offer = [j \in Job |-> "none"]
  /\ available = FALSE /\ target = NoRunner /\ advertised = FALSE
  /\ forced = FALSE /\ late = {} /\ lost = {} /\ stranded = {}
  /\ lateAdverts = 0

-----------------------------------------------------------------------------
(* The message loop.                                                       *)

\* readMessage returns a message.
MessageRead ==
  /\ Running /\ loop = "read" /\ Connected
  /\ loop' = "handle"
  /\ UNCHANGED <<mainVars, connVars, jobVars, loadVars, available, target,
                 offer, ctxDone, lateAdverts>>

\* A pong, or a message handleMessage does not know.
OtherMessage ==
  /\ Running /\ loop = "handle"
  /\ loop' = "read"
  /\ UNCHANGED <<mainVars, connVars, jobVars, loadVars, available, target,
                 offer, ctxDone, lateAdverts>>

\* handleAvailability, under w.mu: the decision.  The server offers a job that
\* still has an assignment to come, and keeps at most Window offers open.
Decide(j, yes) ==
  /\ Running /\ loop = "handle"
  /\ offer[j] = "none"
  /\ \E r \in Runner : JobOf[r] = j /\ runner[r] = "unused"
  /\ Cardinality(Outstanding) < Window
  /\ available' = yes
  /\ offer' = [offer EXCEPT ![j] = "asked"]
  /\ loop' = "answer"
  /\ UNCHANGED <<mainVars, connVars, jobVars, loadVars, target, ctxDone,
                 lateAdverts>>

\* Fault: <= for <.
AvailabilityRequest_OffByOne(j) ==
  Decide(j, ~draining /\ Cardinality(Active) <= MaxConcurrentJobs)

\* Fault: the draining flag is not looked at.
AvailabilityRequest_WhileDraining(j) ==
  Decide(j, Cardinality(Active) < MaxConcurrentJobs)

AvailabilityRequest(j) ==
  Decide(j, ~draining /\ Cardinality(Active) < MaxConcurrentJobs)

\* handleAvailability, after the unlock: the answer goes out, or the write
\* fails and the server gives up on this worker.
Answer(j, yes) ==
  /\ Running /\ loop = "answer" /\ offer[j] = "asked"
  /\ offer' = [offer EXCEPT ![j] =
                 IF yes /\ Connected THEN "accepted" ELSE "none"]
  /\ Advertise(yes)
  /\ available' = FALSE
  /\ loop' = "read"
  /\ UNCHANGED <<mainVars, connVars, jobVars, loadVars, target, ctxDone>>

\* Fault: the decision does not reach the response.
AvailabilityResponse_AlwaysYes(j) == Answer(j, TRUE)

AvailabilityResponse(j) == Answer(j, available)

\* handleAssignment: the runner enters the map, whatever entry was there and
\* whether or not the worker drains.
Assignment(r) ==
  /\ Running /\ loop = "handle"
  /\ runner[r] = "unused" /\ offer[JobOf[r]] = "accepted"
  /\ offer' = [offer EXCEPT ![JobOf[r]] = "none"]
  /\ activeJobs' = [activeJobs EXCEPT ![JobOf[r]] = r]
  /\ runner' = [runner EXCEPT ![r] = "inserted"]
  /\ late' = IF waiter = "done" THEN late \union {r} ELSE late
  /\ loop' = "spawn"
  /\ UNCHANGED <<mainVars, connVars, loadVars, available, target, cancelled,
                 lost, stranded, ctxDone, lateAdverts>>

\* handleAssignment: jobRunner.wg.Add(1) and the go statement.
Spawn(r) ==
  /\ Running /\ loop = "spawn" /\ runner[r] = "inserted"
  /\ runner' = [runner EXCEPT ![r] = "connecting"]
  /\ loop' = "read"
  /\ UNCHANGED <<mainVars, connVars, loadVars, available, target, offer,
                 activeJobs, cancelled, late, lost, stranded, ctxDone,
                 lateAdverts>>

\* handleTermination, under w.mu.  A job the map does not have is ignored.
Termination(j) ==
  /\ Running /\ loop = "handle"
  /\ \E r \in Runner : JobOf[r] = j /\ runner[r] # "unused"
  /\ target' = activeJobs[j]
  /\ loop' = IF activeJobs[j] = NoRunner THEN "read" ELSE "terminate"
  /\ UNCHANGED <<mainVars, connVars, jobVars, loadVars, available, offer,
                 ctxDone, lateAdverts>>

\* handleTermination, after the unlock: cancel the runner looked up before.
Terminate ==
  /\ Running /\ loop = "terminate"
  /\ cancelled' = [cancelled EXCEPT ![target] = TRUE]
  /\ target' = NoRunner
  /\ loop' = "read"
  /\ UNCHANGED <<mainVars, connVars, loadVars, available, offer, activeJobs,
                 runner, late, lost, stranded, ctxDone, lateAdverts>>

\* readMessage returns an error: the connection is gone (w.conn becomes nil)
\* or a frame does not unmarshal (w.conn stays).
ReadFails ==
  /\ Running /\ loop = "read"
  /\ \/ ~Connected /\ conn' = "nil"
     \/ Connected /\ UNCHANGED conn
  /\ loop' = IF ctxDone THEN "exited" ELSE "failed"
  /\ UNCHANGED <<mainVars, linkUp, confOpen, jobVars, loadVars, available,
                 target, offer, ctxDone, lateAdverts>>

\* messageLoop gives up: w.cancel() and return.
LoopCancels ==
  /\ Running /\ loop = "failed"
  /\ ctxDone' = TRUE
  /\ loop' = "exited"
  /\ UNCHANGED <<mainVars, connVars, jobVars, loadVars, available, target,
                 offer, lateAdverts>>

Loop ==
  \/ MessageRead
  \/ OtherMessage
  \/ \E j \in Job : AvailabilityRequest(j)
  \/ \E j \in Job : AvailabilityResponse(j)
  \/ \E r \in Runner : Assignment(r)
  \/ \E r \in Runner : Spawn(r)
  \/ \E j \in Job : Termination(j)
  \/ Terminate
  \/ ReadFails
  \/ LoopCancels

-----------------------------------------------------------------------------
(* The goroutine of a job.  Job.Run is three states here: it connects to   *)
(* the room or fails, waits for its context, tears down and returns.       *)

JobConnects(r) ==
  /\ Running /\ runner[r] = "connecting"
  /\ \E outcome \in {"connected", "failed"} :
       runner' = [runner EXCEPT ![r] = outcome]
  /\ UNCHANGED <<mainVars, connVars, loopVars, loadVars, activeJobs,
                 cancelled, late, lost, stranded, ctxDone, lateAdverts>>

\* The job's context is a child of w.ctx.  The teardown calls the shared
\* conference client.
JobReturns(r, stop) ==
  /\ Running /\ runner[r] = "connected"
  /\ stop
  /\ runner' = [runner EXCEPT ![r] = "succeeded"]
  /\ stranded' = IF confOpen THEN stranded ELSE stranded \union {r}
  /\ UNCHANGED <<mainVars, connVars, loopVars, loadVars, cancelled, late,
                 lost, ctxDone, lateAdverts>>

\* Fault: the job leaves the map before its status is reported.
RunReturns_RemovesFirst(r) ==
  /\ JobReturns(r, cancelled[r] \/ ctxDone)
  /\ activeJobs' = [activeJobs EXCEPT ![JobOf[r]] = NoRunner]

\* Fault: Run waits on w.ctx, not on the job's own context.
RunReturns_IgnoresTermination(r) ==
  JobReturns(r, ctxDone) /\ UNCHANGED activeJobs

RunReturns(r) ==
  JobReturns(r, cancelled[r] \/ ctxDone) /\ UNCHANGED activeJobs

\* Fault: a failed write returns before the job is removed.
ReportStatus_ReturnsOnError(r) ==
  /\ Running /\ runner[r] \in {"succeeded", "failed"}
  /\ runner' = [runner EXCEPT ![r] = IF Connected THEN "removing"
                                               ELSE "finished"]
  /\ lost' = IF linkUp /\ ~Connected THEN lost \union {r} ELSE lost
  /\ UNCHANGED <<mainVars, connVars, loopVars, loadVars, activeJobs,
                 cancelled, late, stranded, ctxDone, lateAdverts>>

\* writeMessage(UpdateJob): an error is logged and the job removed anyway.
ReportStatus(r) ==
  /\ Running /\ runner[r] \in {"succeeded", "failed"}
  /\ runner' = [runner EXCEPT ![r] = "removing"]
  /\ lost' = IF linkUp /\ ~Connected THEN lost \union {r} ELSE lost
  /\ UNCHANGED <<mainVars, connVars, loopVars, loadVars, activeJobs,
                 cancelled, late, stranded, ctxDone, lateAdverts>>

\* delete(w.activeJobs, jobID), whatever runner the key holds, then the
\* deferred cancel and wg.Done.
RemoveJob(r) ==
  /\ Running /\ runner[r] = "removing"
  /\ activeJobs' = [activeJobs EXCEPT ![JobOf[r]] = NoRunner]
  /\ runner' = [runner EXCEPT ![r] = "finished"]
  /\ cancelled' = [cancelled EXCEPT ![r] = TRUE]
  /\ UNCHANGED <<mainVars, connVars, loopVars, loadVars, late, lost, stranded,
                 ctxDone, lateAdverts>>

JobGoroutine(r) ==
  JobConnects(r) \/ RunReturns(r) \/ ReportStatus(r) \/ RemoveJob(r)

-----------------------------------------------------------------------------
(* loadReporter, monitorShutdown and the environment.                      *)

\* updateLoad up to the composed message.  w.draining is read without w.mu.
SetLoad(load) ==
  /\ Running /\ reporter = "idle" /\ conn = "open"
  /\ currentLoad' = load
  /\ advertised' = ~draining
  /\ reporter' = "send"
  /\ UNCHANGED <<mainVars, connVars, loopVars, jobVars, ctxDone, lateAdverts>>

\* Fault: the clamp to 1.0 is missing.
ComputeLoad_Unclamped == SetLoad(Cardinality(Active))

ComputeLoad ==
  SetLoad(IF Cardinality(Active) > MaxConcurrentJobs
          THEN MaxConcurrentJobs ELSE Cardinality(Active))

SendLoad ==
  /\ Running /\ reporter = "send"
  /\ Advertise(advertised)
  /\ advertised' = FALSE
  /\ reporter' = "idle"
  /\ UNCHANGED <<mainVars, connVars, loopVars, jobVars, currentLoad, ctxDone>>

ReporterExits ==
  /\ Running /\ reporter = "idle"
  /\ ctxDone \/ conn = "nil"
  /\ reporter' = "exited"
  /\ UNCHANGED <<mainVars, connVars, loopVars, jobVars, advertised,
                 currentLoad, ctxDone, lateAdverts>>

\* The conference service announces its shutdown; monitorShutdown calls
\* w.cancel() and returns (cancelling a second time changes nothing).
ConferenceShutdown ==
  /\ Running /\ ~ctxDone
  /\ ctxDone' = TRUE
  /\ UNCHANGED <<mainVars, connVars, loopVars, jobVars, loadVars,
                 lateAdverts>>

\* The server withdraws an offer this worker accepted.
OfferWithdrawn(j) ==
  /\ Running /\ offer[j] = "accepted"
  /\ offer' = [offer EXCEPT ![j] = "none"]
  /\ UNCHANGED <<mainVars, connVars, loop, available, target, jobVars,
                 loadVars, ctxDone, lateAdverts>>

LinkDown ==
  /\ Running /\ linkUp
  /\ linkUp' = FALSE
  /\ UNCHANGED <<mainVars, conn, confOpen, loopVars, jobVars, loadVars,
                 ctxDone, lateAdverts>>

Others ==
  \/ ComputeLoad \/ SendLoad \/ ReporterExits \/ ConferenceShutdown
  \/ \E j \in Job : OfferWithdrawn(j)
  \/ LinkDown

-----------------------------------------------------------------------------
(* Start after registration, and waitForJobs.                              *)

\* A signal arrives, or w.ctx is already cancelled.
SignalReceived ==
  /\ main = "serve"
  /\ main' = "drain"
  /\ UNCHANGED <<waiter, draining, forced, connVars, loopVars, jobVars,
                 loadVars, ctxDone, lateAdverts>>

ContextDone ==
  /\ main = "serve" /\ ctxDone
  /\ main' = "drain"
  /\ UNCHANGED <<waiter, draining, forced, connVars, loopVars, jobVars,
                 loadVars, ctxDone, lateAdverts>>

StartDrain ==
  /\ main = "drain"
  /\ draining' = TRUE
  /\ waiter' = "check"
  /\ main' = "wait"
  /\ UNCHANGED <<forced, connVars, loopVars, jobVars, loadVars, ctxDone,
                 lateAdverts>>

\* The drain select: all jobs are done ...
JobsDone ==
  /\ main = "wait" /\ waiter = "done"
  /\ main' = "cancel"
  /\ UNCHANGED <<waiter, draining, forced, connVars, loopVars, jobVars,
                 loadVars, ctxDone, lateAdverts>>

\* ... or DrainTimeout has passed: cancelAllJobs cancels every runner in the
\* map and waits for them at most 2 s (so the wait itself needs no state).
TimeoutStep ==
  /\ main = "wait"
  /\ forced' = TRUE
  /\ cancelled' = [r \in Runner |-> cancelled[r] \/ activeJobs[JobOf[r]] = r]
  /\ main' = "cancel"
  /\ UNCHANGED <<waiter, draining, connVars, loopVars, activeJobs, runner,
                 late, lost, stranded, loadVars, ctxDone, lateAdverts>>

\* Fault: the drain waits for the jobs however long they take.
DrainTimeout_Never == waiter = "done" /\ TimeoutStep

DrainTimeout == TimeoutStep

CancelContext ==
  /\ main = "cancel"
  /\ ctxDone' = TRUE
  /\ main' = "closeClient"
  /\ UNCHANGED <<waiter, draining, forced, connVars, loopVars, jobVars,
                 loadVars, lateAdverts>>

CloseClient ==
  /\ main = "closeClient"
  /\ confOpen' = FALSE
  /\ main' = "closeConn"
  /\ UNCHANGED <<waiter, draining, forced, conn, linkUp, loopVars, jobVars,
                 loadVars, ctxDone, lateAdverts>>

CloseConn ==
  /\ main = "closeConn"
  /\ conn' = "nil"
  /\ main' = "join"
  /\ UNCHANGED <<waiter, draining, forced, linkUp, confOpen, loopVars,
                 jobVars, loadVars, ctxDone, lateAdverts>>

\* w.wg is done or 5 s have passed; Start returns and the process ends.
Exit ==
  /\ main = "join"
  /\ main' = "exited"
  /\ UNCHANGED <<waiter, draining, forced, connVars, loopVars, jobVars,
                 loadVars, ctxDone, lateAdverts>>

Main ==
  \/ SignalReceived \/ ContextDone \/ StartDrain \/ JobsDone \/ DrainTimeout
  \/ CancelContext \/ CloseClient \/ CloseConn \/ Exit

\* waitForJobs: look at the map; when it is not empty wait for each runner or
\* one second, whichever is first, and look again.
WaiterCheck ==
  /\ Running /\ waiter = "check"
  /\ waiter' = IF Active = {} THEN "done" ELSE "join"
  /\ UNCHANGED <<main, draining, forced, connVars, loopVars, jobVars,
                 loadVars, ctxDone, lateAdverts>>

\* Fault: waitForJobs returns after one round of bounded waits.
WaiterJoin_NoRecheck ==
  /\ Running /\ waiter = "join"
  /\ waiter' = "done"
  /\ UNCHANGED <<main, draining, forced, connVars, loopVars, jobVars,
                 loadVars, ctxDone, lateAdverts>>

WaiterJoin ==
  /\ Running /\ waiter = "join"
  /\ waiter' = "check"
  /\ UNCHANGED <<main, draining, forced, connVars, loopVars, jobVars,
                 loadVars, ctxDone, lateAdverts>>

Waiter == WaiterCheck \/ WaiterJoin

-----------------------------------------------------------------------------
\* The process is gone: nothing moves any more.
Exited == ~Running /\ UNCHANGED vars

Next ==
  \/ Loop
  \/ \E r \in Runner : JobGoroutine(r)
  \/ Others
  \/ Main
  \/ Waiter
  \/ Exited

Spec == Init /\ [][Next]_vars

\* The scheduler runs main, and the timers main selects on fire.  Signals are
\* not promised, nor anything about jobs, the server or the network.
ShutdownStep ==
  \/ ContextDone \/ StartDrain \/ JobsDone \/ DrainTimeout
  \/ CancelContext \/ CloseClient \/ CloseConn \/ Exit

ShutdownSpec == Spec /\ WF_vars(ShutdownStep)

\* A handler finishes the message it has begun.
HandlerStep ==
  \/ \E j \in Job : AvailabilityResponse(j)
  \/ \E r \in Runner : Spawn(r)
  \/ Terminate
  \/ LoopCancels

\* A job's goroutine advances whenever it can: connecting to a room succeeds or
\* fails, and the teardown of a cancelled job returns (which job.go does not
\* promise by itself, see the README).
JobFairness ==
  WF_vars(HandlerStep) /\ \A r \in Runner : WF_vars(JobGoroutine(r))

-----------------------------------------------------------------------------
MainPC   == {"serve", "drain", "wait", "cancel", "closeClient", "closeConn",
             "join", "exited"}
RunnerPC == {"unused", "inserted", "connecting", "connected", "succeeded",
             "failed", "removing", "finished"}
LoopPC   == {"read", "handle", "answer", "spawn", "terminate", "failed", "exited"}

ControlTypes ==
  /\ main \in MainPC
  /\ waiter \in {"off", "check", "join", "done"}
  /\ loop \in LoopPC
  /\ runner \in [Runner -> RunnerPC]
  /\ reporter \in {"idle", "send", "exited"}
  /\ conn \in {"open", "nil"}

FlagTypes ==
  /\ draining \in BOOLEAN /\ ctxDone \in BOOLEAN /\ linkUp \in BOOLEAN
  /\ confOpen \in BOOLEAN /\ available \in BOOLEAN /\ advertised \in BOOLEAN
  /\ forced \in BOOLEAN

DataTypes ==
  /\ activeJobs \in [Job -> Runner \union {NoRunner}]
  /\ cancelled \in [Runner -> BOOLEAN]
  /\ currentLoad \in 0..MaxConcurrentJobs
  /\ offer \in [Job -> {"none", "asked", "accepted"}]
  /\ target \in Runner \union {NoRunner}
  /\ late \subseteq Runner /\ lost \subseteq Runner /\ stranded \subseteq Runner
  /\ lateAdverts \in Nat

\* The load reported never exceeds 1, although more jobs than
\* MaxConcurrentJobs can be active; the rest are the variables' types.
TypeOK == ControlTypes /\ FlagTypes /\ DataTypes

\* Admission control: a yes reserves nothing, so the map can outgrow
\* MaxConcurrentJobs, but never by more than the offers that were open, and
\* the offers already accepted are inside the same bound.
OverCommitBound ==
  Cardinality(Active) + Cardinality(Accepted) <= MaxConcurrentJobs - 1 + Window

\* handleAvailability reads w.draining and answers after the unlock, and
\* updateLoad does not take the lock at all; still, of everything sent after
\* the drain has begun at most one answer and one load report, both composed
\* before, say "available".
LateAdvertBound == lateAdverts <= 2

\* An entry of the map is a goroutine that still runs, under its own job id:
\* the drain waits for no job that is over, and a termination finds the job it
\* names or none (it cancels after the unlock, when that one may have ended;
\* worker.go:489-493, 498-513).
RegistrySound ==
  \A j \in Job : j \in Active =>
    /\ activeJobs[j] \in Runner
    /\ JobOf[activeJobs[j]] = j
    /\ Live(activeJobs[j])

\* The server assigns no job id a second time.
AssignedOnce == \A r, s \in Runner : JobOf[r] = JobOf[s] => r = s

\* Under AssignedOnce, every goroutine that still runs is in the map: drain,
\* termination and load count all see it until it is done.
RegistryExact == \A r \in Runner : Live(r) => activeJobs[JobOf[r]] = r

\* When the drain ends because waitForJobs returned, no job assigned before
\* that moment is still running: the shutdown that follows cancels only jobs
\* whose assignment came after it.
DrainIsClean ==
  main \in MainPC \ {"serve", "drain", "wait"} /\ ~forced
    => \A r \in Runner : Live(r) => r \in late

\* A drain that does not time out closes the websocket after the last final
\* status was written and the conference client after the last teardown, for
\* every job but those assigned after waitForJobs returned.
DrainLosesNothing == forced \/ lost \union stranded \subseteq late

\* Once the drain begins or w.ctx is cancelled the process exits, even when
\* jobs hang, the server is silent or the link is down.
ShutdownCompletes == draining \/ ctxDone ~> ~Running

\* A job told to stop gives its slot back, if handlers and jobs are scheduled
\* fairly too.
CancelledJobLeaves ==
  JobFairness =>
    \A r \in Runner :
      cancelled[r] ~> runner[r] = "finished" \/ ~Running

\* The worker admits jobs the way the abstract specification says.
A == INSTANCE Admission
       WITH promised <- Accepted, active <- Active,
            Capacity <- MaxConcurrentJobs

AdmissionSpec == A!Spec

-----------------------------------------------------------------------------
(* What the documentation says and the code does not do.                   *)

\* README: jobs have LK_DRAIN_TIMEOUT for a graceful shutdown; the context of
\* a job nobody terminated is not cancelled before it has passed.
DrainGrace ==
  ctxDone /\ ~forced
    => \A r \in Runner : runner[r] = "connected" => cancelled[r]

=============================================================================
