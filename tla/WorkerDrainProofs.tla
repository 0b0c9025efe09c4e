------------------------- MODULE WorkerDrainProofs -------------------------
(***************************************************************************)
(* Worker, for every value of the constants: the registry of jobs, what    *)
(* the drain waits for, and what the worker still says to the server while *)
(* it drains.                                                              *)
(***************************************************************************)
EXTENDS WorkerProofs

-----------------------------------------------------------------------------
(* The registry.                                                           *)

\* Only these steps change the map or who is live.
LEMMA RegistrySteps ==
  ASSUME TypeOK, [Next]_vars
  PROVE  \/ \E r \in Runner : Assignment(r) \/ RemoveJob(r)
         \/ /\ UNCHANGED <<activeJobs, late>>
            /\ \A s \in Runner : Live(s)' <=> Live(s)
<1> DEFINE Calm == /\ UNCHANGED <<activeJobs, late>>
                   /\ \A s \in Runner : Live(s)' <=> Live(s)
<1>0. runner \in [Runner -> RunnerPC]
  BY DEF TypeOK, ControlTypes
<1>1. ASSUME NEW r \in Runner,
             Spawn(r) \/ JobConnects(r) \/ RunReturns(r) \/ ReportStatus(r)
      PROVE  Calm
  BY <1>0, <1>1 DEF Spawn, JobConnects, RunReturns, JobReturns, ReportStatus,
     Live
<1>2. CASE UNCHANGED <<activeJobs, late, runner>>
  BY <1>2 DEF Live
<1>3. \/ \E r \in Runner : \/ Assignment(r) \/ RemoveJob(r)
                           \/ Spawn(r) \/ JobConnects(r) \/ RunReturns(r)
                           \/ ReportStatus(r)
      \/ UNCHANGED <<activeJobs, late, runner>>
  BY DEF Next, Loop, JobGoroutine, Others, Main, Waiter, vars, jobVars,
     MessageRead, OtherMessage, AvailabilityRequest, Decide,
     AvailabilityResponse, Answer, Termination, Terminate, ReadFails,
     LoopCancels, ComputeLoad, SetLoad, SendLoad, ReporterExits,
     ConferenceShutdown, OfferWithdrawn, LinkDown, SignalReceived,
     ContextDone, StartDrain, JobsDone, DrainTimeout, TimeoutStep,
     CancelContext, CloseClient, CloseConn, Exit, WaiterCheck, WaiterJoin,
     Exited
<1> QED
  BY <1>1, <1>2, <1>3

LEMMA RegistrySoundStep ==
  TypeOK /\ RegistrySound /\ [Next]_vars => RegistrySound'
<1> SUFFICES ASSUME TypeOK, RegistrySound, [Next]_vars PROVE RegistrySound'
  OBVIOUS
<1> USE WorkerAssumption
<1>0. /\ activeJobs \in [Job -> Runner \union {NoRunner}]
      /\ runner \in [Runner -> RunnerPC]
  BY DEF TypeOK, ControlTypes, DataTypes
<1>1. ASSUME NEW r \in Runner, Assignment(r) PROVE RegistrySound'
  BY <1>0, <1>1 DEF Assignment, RegistrySound, Active, Live
<1>2. ASSUME NEW r \in Runner, RemoveJob(r) PROVE RegistrySound'
  BY <1>0, <1>2 DEF RemoveJob, RegistrySound, Active, Live
<1>3. CASE /\ UNCHANGED <<activeJobs, late>>
           /\ \A s \in Runner : Live(s)' <=> Live(s)
  BY <1>3 DEF RegistrySound, Active
<1> QED
  BY <1>1, <1>2, <1>3, RegistrySteps

\* Even when job ids are assigned twice, what the map holds is a goroutine
\* that has not finished, under its own id (handleAssignment and the deletes,
\* worker.go:440-492).
THEOREM RegistryIsSound == Spec => []RegistrySound
<1>1. Init => RegistrySound
  BY DEF Init, RegistrySound, Active
<1>2. TypeInv => TypeOK
  BY DEF TypeInv
<1> QED
  BY <1>1, <1>2, RegistrySoundStep, TypeInvAlways, PTL DEF Spec

LEMMA RegistryExactStep ==
  ASSUME AssignedOnce
  PROVE  TypeOK /\ RegistryExact /\ [Next]_vars => RegistryExact'
<1> SUFFICES ASSUME TypeOK, RegistryExact, [Next]_vars PROVE RegistryExact'
  OBVIOUS
<1> USE WorkerAssumption
<1>0. /\ activeJobs \in [Job -> Runner \union {NoRunner}]
      /\ runner \in [Runner -> RunnerPC]
  BY DEF TypeOK, ControlTypes, DataTypes
<1>1. ASSUME NEW r \in Runner, Assignment(r) PROVE RegistryExact'
  BY <1>0, <1>1 DEF Assignment, RegistryExact, Live, AssignedOnce
<1>2. ASSUME NEW r \in Runner, RemoveJob(r) PROVE RegistryExact'
  BY <1>0, <1>2 DEF RemoveJob, RegistryExact, Live, AssignedOnce
<1>3. CASE /\ UNCHANGED <<activeJobs, late>>
           /\ \A s \in Runner : Live(s)' <=> Live(s)
  BY <1>3 DEF RegistryExact
<1> QED
  BY <1>1, <1>2, <1>3, RegistrySteps

\* When no id is assigned twice no running job is missing from the map.
THEOREM RegistryIsExact ==
  ASSUME AssignedOnce
  PROVE  Spec => []RegistryExact
<1>1. Init => RegistryExact
  BY DEF Init, RegistryExact, Live
<1>2. TypeInv => TypeOK
  BY DEF TypeInv
<1>3. TypeOK /\ RegistryExact /\ [Next]_vars => RegistryExact'
  BY RegistryExactStep
<1> QED
  BY <1>1, <1>2, <1>3, TypeInvAlways, PTL DEF Spec

-----------------------------------------------------------------------------
(* The drain.                                                              *)

AfterWait == {"cancel", "closeClient", "closeConn", "join", "exited"}

\* DrainIsClean speaks of main, but what empties the map is waitForJobs: the
\* invariant ties main to the waiter and the waiter to the goroutines.
DrainInv ==
  /\ waiter = "done" => \A r \in Runner : Live(r) => r \in late
  /\ main \in AfterWait /\ ~forced => waiter = "done"

LEMMA DrainInvStep ==
  TypeOK /\ RegistryExact /\ DrainInv /\ [Next]_vars => DrainInv'
<1> SUFFICES ASSUME TypeOK, RegistryExact, DrainInv, [Next]_vars
             PROVE  DrainInv'
  OBVIOUS
<1> USE WorkerAssumption DEF AfterWait
<1>0. runner \in [Runner -> RunnerPC] /\ waiter \in {"off", "check", "join", "done"}
  BY DEF TypeOK, ControlTypes
<1>1. ASSUME NEW r \in Runner, Assignment(r) PROVE DrainInv'
  BY <1>0, <1>1 DEF Assignment, DrainInv, Live, mainVars
<1>2. ASSUME NEW r \in Runner, RemoveJob(r) PROVE DrainInv'
  BY <1>0, <1>2 DEF RemoveJob, DrainInv, Live, mainVars
<1>3. CASE WaiterCheck
  <2>1. UNCHANGED <<main, forced, late, runner>>
    BY <1>3 DEF WaiterCheck, jobVars
  <2>2. Active = {} => \A r \in Runner : ~Live(r)
    BY DEF Active, RegistryExact
  <2> QED
    BY <1>3, <2>1, <2>2 DEF WaiterCheck, DrainInv, Live
<1>4. CASE WaiterJoin
  BY <1>4 DEF WaiterJoin, DrainInv, jobVars, Live
<1>5. CASE Main
  BY <1>5 DEF Main, SignalReceived, ContextDone, StartDrain, JobsDone,
     DrainTimeout, TimeoutStep, CancelContext, CloseClient, CloseConn, Exit,
     DrainInv, jobVars, Live
<1>6. CASE /\ UNCHANGED <<main, waiter, forced, late>>
           /\ \A s \in Runner : Live(s)' <=> Live(s)
  BY <1>6 DEF DrainInv
<1>7. \/ UNCHANGED <<main, waiter, forced>>
      \/ Main \/ WaiterCheck \/ WaiterJoin
  BY DEF Next, Loop, JobGoroutine, Others, Waiter, vars, mainVars,
     MessageRead, OtherMessage, AvailabilityRequest, Decide,
     AvailabilityResponse, Answer, Assignment, Spawn, Termination, Terminate,
     ReadFails, LoopCancels, JobConnects, RunReturns, JobReturns,
     ReportStatus, RemoveJob, ComputeLoad, SetLoad, SendLoad, ReporterExits,
     ConferenceShutdown, OfferWithdrawn, LinkDown, Exited
<1> QED
  BY <1>1, <1>2, <1>3, <1>4, <1>5, <1>6, <1>7, RegistrySteps

LEMMA DrainInvAlways ==
  ASSUME AssignedOnce
  PROVE  Spec => [](TypeOK /\ RegistryExact /\ DrainInv)
<1>1. Init => DrainInv
  BY DEF Init, DrainInv, AfterWait
<1>2. TypeInv => TypeOK
  BY DEF TypeInv
<1>3. Spec => []RegistryExact
  BY RegistryIsExact
<1> QED
  BY <1>1, <1>2, <1>3, TypeInvAlways, DrainInvStep, PTL DEF Spec

\* A drain that ends because waitForJobs returned (worker.go:623-664) leaves
\* only jobs assigned after that moment.
THEOREM DrainWaitsForJobs ==
  ASSUME AssignedOnce
  PROVE  Spec => []DrainIsClean
<1>1. TypeOK /\ DrainInv => DrainIsClean
  BY DEF TypeOK, ControlTypes, DrainInv, DrainIsClean, MainPC, AfterWait
<1>2. Spec => [](TypeOK /\ RegistryExact /\ DrainInv)
  BY DrainInvAlways
<1> QED
  BY <1>1, <1>2, PTL

-----------------------------------------------------------------------------
(* What the cleanup closes, and when.                                      *)

\* w.conn is nil while the link works only because Start has closed it, and
\* only Start closes the conference client: both after the drain.
CloseInv ==
  /\ conn = "nil" /\ linkUp => main \in {"join", "exited"}
  /\ ~confOpen => main \in {"closeConn", "join", "exited"}

LEMMA CloseInvStep == TypeOK /\ CloseInv /\ [Next]_vars => CloseInv'
<1> SUFFICES ASSUME TypeOK, CloseInv, [Next]_vars PROVE CloseInv'
  OBVIOUS
<1>0. conn \in {"open", "nil"}
  BY DEF TypeOK, ControlTypes
<1>1. CASE ReadFails
  BY <1>0, <1>1 DEF ReadFails, Connected, CloseInv, mainVars
<1>2. CASE LinkDown
  BY <1>2 DEF LinkDown, CloseInv, mainVars
<1>3. CASE Main
  BY <1>3 DEF Main, SignalReceived, ContextDone, StartDrain, JobsDone,
     DrainTimeout, TimeoutStep, CancelContext, CloseClient, CloseConn, Exit,
     CloseInv, connVars
<1>4. CASE UNCHANGED <<main, conn, linkUp, confOpen>>
  BY <1>4 DEF CloseInv
<1>5. ReadFails \/ LinkDown \/ Main \/ UNCHANGED <<main, conn, linkUp, confOpen>>
  BY DEF Next, Loop, JobGoroutine, Others, Waiter, vars, mainVars, connVars,
     MessageRead, OtherMessage, AvailabilityRequest, Decide,
     AvailabilityResponse, Answer, Assignment, Spawn, Termination, Terminate,
     LoopCancels, JobConnects, RunReturns, JobReturns, ReportStatus,
     RemoveJob, ComputeLoad, SetLoad, SendLoad, ReporterExits,
     ConferenceShutdown, OfferWithdrawn, WaiterCheck, WaiterJoin, Exited
<1> QED
  BY <1>1, <1>2, <1>3, <1>4, <1>5

LEMMA LosesNothingStep ==
  TypeOK /\ DrainIsClean /\ CloseInv /\ DrainLosesNothing /\ [Next]_vars
    => DrainLosesNothing'
<1> SUFFICES ASSUME TypeOK, DrainIsClean, CloseInv, DrainLosesNothing,
                    [Next]_vars
             PROVE  DrainLosesNothing'
  OBVIOUS
<1>0. conn \in {"open", "nil"}
  BY DEF TypeOK, ControlTypes
<1>1. ASSUME NEW r \in Runner, RunReturns(r) PROVE DrainLosesNothing'
  <2>1. ~confOpen /\ ~forced => r \in late
    BY <1>1 DEF RunReturns, JobReturns, CloseInv, DrainIsClean, MainPC, Live
  <2> QED
    BY <1>1, <2>1 DEF RunReturns, JobReturns, DrainLosesNothing, mainVars
<1>2. ASSUME NEW r \in Runner, ReportStatus(r) PROVE DrainLosesNothing'
  <2>1. linkUp /\ ~Connected /\ ~forced => r \in late
    BY <1>0, <1>2 DEF ReportStatus, Connected, CloseInv, DrainIsClean, MainPC,
       Live
  <2> QED
    BY <1>2, <2>1 DEF ReportStatus, DrainLosesNothing, mainVars
<1>3. CASE (forced => forced') /\ late \subseteq late' /\ UNCHANGED <<lost, stranded>>
  BY <1>3 DEF DrainLosesNothing
<1>4. \/ \E r \in Runner : RunReturns(r) \/ ReportStatus(r)
      \/ (forced => forced') /\ late \subseteq late' /\ UNCHANGED <<lost, stranded>>
  BY DEF Next, Loop, JobGoroutine, Others, Main, Waiter, vars, mainVars,
     jobVars, MessageRead, OtherMessage, AvailabilityRequest, Decide,
     AvailabilityResponse, Answer, Assignment, Spawn, Termination, Terminate,
     ReadFails, LoopCancels, JobConnects, RemoveJob, ComputeLoad, SetLoad,
     SendLoad, ReporterExits, ConferenceShutdown, OfferWithdrawn, LinkDown,
     SignalReceived, ContextDone, StartDrain, JobsDone, DrainTimeout,
     TimeoutStep, CancelContext, CloseClient, CloseConn, Exit, WaiterCheck,
     WaiterJoin, Exited
<1> QED
  BY <1>1, <1>2, <1>3, <1>4

\* Closing the websocket and the conference client (worker.go:214-230) takes
\* the final status or the teardown from no job the drain has waited for.
THEOREM CleanupLosesNothing ==
  ASSUME AssignedOnce
  PROVE  Spec => []DrainLosesNothing
<1>1. Init => CloseInv /\ DrainLosesNothing
  BY DEF Init, CloseInv, DrainLosesNothing
<1>2. TypeInv => TypeOK
  BY DEF TypeInv
<1>3. Spec => []DrainIsClean
  BY DrainWaitsForJobs
<1> QED
  BY <1>1, <1>2, <1>3, TypeInvAlways, CloseInvStep, LosesNothingStep, PTL
     DEF Spec

-----------------------------------------------------------------------------
(* What the worker says while it drains.                                   *)

\* An "available" in the making: decided or composed, and not sent.
AnswerPending == IF loop = "answer" /\ available THEN 1 ELSE 0
LoadPending   == IF reporter = "send" /\ advertised THEN 1 ELSE 0

\* Once the drain has begun nothing new is composed, so what was sent and
\* what is pending together never grow.
AdvertInv ==
  /\ draining => lateAdverts + AnswerPending + LoadPending <= 2
  /\ ~draining => lateAdverts = 0

LEMMA AdvertInvStep == TypeOK /\ AdvertInv /\ [Next]_vars => AdvertInv'
<1> SUFFICES ASSUME TypeOK, AdvertInv, [Next]_vars PROVE AdvertInv'
  OBVIOUS
<1> USE DEF AnswerPending, LoadPending
<1>0. lateAdverts \in Nat
  BY DEF TypeOK, DataTypes
<1>1. ASSUME NEW j \in Job, AvailabilityRequest(j) PROVE AdvertInv'
  BY <1>0, <1>1 DEF AvailabilityRequest, Decide, AdvertInv, mainVars, loadVars
<1>2. ASSUME NEW j \in Job, AvailabilityResponse(j) PROVE AdvertInv'
  BY <1>0, <1>2 DEF AvailabilityResponse, Answer, Advertise, AdvertInv,
     mainVars, loadVars
<1>3. CASE ComputeLoad
  BY <1>0, <1>3 DEF ComputeLoad, SetLoad, AdvertInv, mainVars, loopVars
<1>4. CASE SendLoad
  BY <1>0, <1>4 DEF SendLoad, Advertise, AdvertInv, mainVars, loopVars
<1>5. CASE StartDrain
  BY <1>0, <1>5 DEF StartDrain, AdvertInv, loopVars, loadVars
<1>6. CASE /\ UNCHANGED <<draining, lateAdverts>>
           /\ loop' # "answer" \/ UNCHANGED <<loop, available>>
           /\ reporter' # "send" \/ UNCHANGED <<reporter, advertised>>
  BY <1>0, <1>6 DEF AdvertInv
<1>7. \/ \E j \in Job : AvailabilityRequest(j) \/ AvailabilityResponse(j)
      \/ ComputeLoad \/ SendLoad \/ StartDrain
      \/ /\ UNCHANGED <<draining, lateAdverts>>
         /\ loop' # "answer" \/ UNCHANGED <<loop, available>>
         /\ reporter' # "send" \/ UNCHANGED <<reporter, advertised>>
  BY DEF Next, Loop, JobGoroutine, Others, Main, Waiter, vars, mainVars,
     loopVars, loadVars, MessageRead, OtherMessage, Assignment, Spawn,
     Termination, Terminate, ReadFails, LoopCancels, JobConnects, RunReturns,
     JobReturns, ReportStatus, RemoveJob, ReporterExits, ConferenceShutdown,
     OfferWithdrawn, LinkDown, SignalReceived, ContextDone, JobsDone,
     DrainTimeout, TimeoutStep, CancelContext, CloseClient, CloseConn, Exit,
     WaiterCheck, WaiterJoin, Exited
<1> QED
  BY <1>1, <1>2, <1>3, <1>4, <1>5, <1>6, <1>7

\* handleAvailability and updateLoad use a draining flag that may be stale by
\* then (worker.go:383-410, 559-572): two late advertisements, never three.
THEOREM LateAdvertsBounded == Spec => []LateAdvertBound
<1>1. Init => AdvertInv
  BY DEF Init, AdvertInv
<1>2. TypeInv => TypeOK
  BY DEF TypeInv
<1>3. TypeOK /\ AdvertInv => LateAdvertBound
  BY DEF AdvertInv, LateAdvertBound, TypeOK, FlagTypes, DataTypes,
     AnswerPending, LoadPending
<1> QED
  BY <1>1, <1>2, <1>3, TypeInvAlways, AdvertInvStep, PTL DEF Spec

=============================================================================
