---------------------------- MODULE WorkerProofs ----------------------------
(***************************************************************************)
(* Worker, for every set of jobs, every assignment of runners to jobs,     *)
(* every capacity and every window: types, admission control, and the      *)
(* refinement of Admission.                                                *)
(***************************************************************************)
EXTENDS Worker, FiniteSetTheorems, TLAPS

-----------------------------------------------------------------------------
(* How the derived sets follow the maps they are read from.                *)

LEMMA ActiveInsert ==
  ASSUME TypeOK, NEW j \in Job, NEW r \in Runner,
         activeJobs' = [activeJobs EXCEPT ![j] = r]
  PROVE  Active' = Active \union {j}
  BY WorkerAssumption DEF TypeOK, DataTypes, Active

LEMMA ActiveDelete ==
  ASSUME TypeOK, NEW j \in Job,
         activeJobs' = [activeJobs EXCEPT ![j] = NoRunner]
  PROVE  Active' = Active \ {j}
  BY DEF TypeOK, DataTypes, Active

LEMMA OfferMade ==
  ASSUME TypeOK, NEW j \in Job, offer[j] = "none",
         offer' = [offer EXCEPT ![j] = "asked"]
  PROVE  /\ Accepted' = Accepted
         /\ Outstanding' = Outstanding \union {j}
         /\ j \notin Outstanding
  BY DEF TypeOK, DataTypes, Accepted, Outstanding

LEMMA OfferAccepted ==
  ASSUME TypeOK, NEW j \in Job, offer[j] = "asked",
         offer' = [offer EXCEPT ![j] = "accepted"]
  PROVE  /\ Accepted' = Accepted \union {j}
         /\ j \notin Accepted
         /\ Outstanding' = Outstanding
  BY DEF TypeOK, DataTypes, Accepted, Outstanding

LEMMA OfferClosed ==
  ASSUME TypeOK, NEW j \in Job,
         offer' = [offer EXCEPT ![j] = "none"]
  PROVE  /\ Accepted' = Accepted \ {j}
         /\ Outstanding' = Outstanding \ {j}
  BY DEF TypeOK, DataTypes, Accepted, Outstanding

-----------------------------------------------------------------------------
(* Type correctness.                                                       *)

\* The clamp in updateLoad is a number only if the map is finite.
TypeInv == TypeOK /\ IsFiniteSet(Active)

LEMMA TypeInvInit == Init => TypeInv
<1> SUFFICES ASSUME Init PROVE TypeInv
  OBVIOUS
<1>1. TypeOK
  <2>1. ControlTypes
    BY DEF Init, ControlTypes, MainPC, RunnerPC, LoopPC
  <2>2. FlagTypes
    BY Zenon DEF Init, FlagTypes
  <2>3. DataTypes
    BY WorkerAssumption DEF Init, DataTypes
  <2> QED
    BY <2>1, <2>2, <2>3 DEF TypeOK
<1>2. Active = {}
  BY DEF Init, Active
<1> QED
  BY <1>1, <1>2, FS_EmptySet DEF TypeInv

LEMMA FiniteStep == TypeInv /\ [Next]_vars => IsFiniteSet(Active)'
<1> SUFFICES ASSUME TypeInv, [Next]_vars PROVE IsFiniteSet(Active)'
  OBVIOUS
<1>1. ASSUME NEW r \in Runner, Assignment(r) PROVE IsFiniteSet(Active)'
  <2>1. Active' = Active \union {JobOf[r]}
    BY <1>1, ActiveInsert, WorkerAssumption DEF Assignment, TypeInv
  <2> QED
    BY <2>1, FS_AddElement DEF TypeInv
<1>2. ASSUME NEW r \in Runner, RemoveJob(r) PROVE IsFiniteSet(Active)'
  <2>1. Active' = Active \ {JobOf[r]}
    BY <1>2, ActiveDelete, WorkerAssumption DEF RemoveJob, TypeInv
  <2> QED
    BY <2>1, FS_RemoveElement DEF TypeInv
<1>3. CASE UNCHANGED activeJobs
  BY <1>3 DEF TypeInv, Active
<1>4. [Next]_vars => \/ \E r \in Runner : Assignment(r) \/ RemoveJob(r)
                     \/ UNCHANGED activeJobs
  BY DEF Next, Loop, JobGoroutine, Others, Main, Waiter, vars, jobVars,
         MessageRead, OtherMessage, AvailabilityRequest, Decide,
         AvailabilityResponse, Answer, Spawn, Termination, Terminate,
         ReadFails, LoopCancels, JobConnects, RunReturns, JobReturns,
         ReportStatus, ComputeLoad, SetLoad, SendLoad, ReporterExits,
         ConferenceShutdown, OfferWithdrawn, LinkDown, SignalReceived,
         ContextDone, StartDrain, JobsDone, DrainTimeout, TimeoutStep,
         CancelContext, CloseClient, CloseConn, Exit, WaiterCheck,
         WaiterJoin, Exited
<1> QED
  BY <1>1, <1>2, <1>3, <1>4

LEMMA ControlStep == TypeOK /\ [Next]_vars => ControlTypes'
<1> SUFFICES ASSUME ControlTypes, [Next]_vars PROVE ControlTypes'
  BY DEF TypeOK
<1> USE DEF ControlTypes, MainPC, RunnerPC, LoopPC
<1>1. CASE MessageRead \/ OtherMessage
  BY <1>1 DEF MessageRead, OtherMessage, mainVars, connVars, loopVars,
     jobVars, loadVars
<1>2. ASSUME NEW j \in Job, AvailabilityRequest(j) PROVE ControlTypes'
  BY <1>2 DEF AvailabilityRequest, Decide, mainVars, connVars, loopVars,
     jobVars, loadVars
<1>3. ASSUME NEW j \in Job, AvailabilityResponse(j) PROVE ControlTypes'
  BY <1>3 DEF AvailabilityResponse, Answer, mainVars, connVars, loopVars,
     jobVars, loadVars
<1>4. ASSUME NEW r \in Runner, Assignment(r) PROVE ControlTypes'
  BY <1>4 DEF Assignment, mainVars, connVars, loopVars, jobVars, loadVars
<1>5. ASSUME NEW r \in Runner, Spawn(r) PROVE ControlTypes'
  BY <1>5 DEF Spawn, mainVars, connVars, loopVars, jobVars, loadVars
<1>6. ASSUME NEW j \in Job, Termination(j) PROVE ControlTypes'
  BY <1>6 DEF Termination, mainVars, connVars, loopVars, jobVars, loadVars
<1>7. CASE Terminate
  BY <1>7 DEF Terminate, mainVars, connVars, loopVars, jobVars, loadVars
<1>8. CASE ReadFails \/ LoopCancels
  BY <1>8 DEF ReadFails, LoopCancels, mainVars, connVars, loopVars, jobVars,
     loadVars
<1>9. ASSUME NEW r \in Runner, JobConnects(r) PROVE ControlTypes'
  BY <1>9 DEF JobConnects, mainVars, connVars, loopVars, jobVars, loadVars
<1>10. ASSUME NEW r \in Runner, RunReturns(r) PROVE ControlTypes'
  BY <1>10 DEF RunReturns, JobReturns, mainVars, connVars, loopVars, jobVars,
     loadVars
<1>11. ASSUME NEW r \in Runner, ReportStatus(r) PROVE ControlTypes'
  BY <1>11 DEF ReportStatus, mainVars, connVars, loopVars, jobVars, loadVars
<1>12. ASSUME NEW r \in Runner, RemoveJob(r) PROVE ControlTypes'
  BY <1>12 DEF RemoveJob, mainVars, connVars, loopVars, jobVars, loadVars
<1>13. CASE ComputeLoad
  BY <1>13 DEF ComputeLoad, SetLoad, mainVars, connVars, loopVars, jobVars,
     loadVars
<1>14. CASE SendLoad
  BY <1>14 DEF SendLoad, mainVars, connVars, loopVars, jobVars, loadVars
<1>15. CASE ReporterExits \/ ConferenceShutdown \/ LinkDown
  BY <1>15 DEF ReporterExits, ConferenceShutdown, LinkDown, mainVars,
     connVars, loopVars, jobVars, loadVars
<1>16. ASSUME NEW j \in Job, OfferWithdrawn(j) PROVE ControlTypes'
  BY <1>16 DEF OfferWithdrawn, mainVars, connVars, loopVars, jobVars, loadVars
<1>17. CASE Main
  BY <1>17 DEF Main, SignalReceived, ContextDone, StartDrain, JobsDone,
     DrainTimeout, TimeoutStep, CancelContext, CloseClient, CloseConn, Exit,
     mainVars, connVars, loopVars, jobVars, loadVars
<1>18. CASE Waiter
  BY <1>18 DEF Waiter, WaiterCheck, WaiterJoin, mainVars, connVars, loopVars,
     jobVars, loadVars
<1>19. CASE UNCHANGED vars
  BY <1>19 DEF vars, mainVars, connVars, loopVars, jobVars, loadVars
<1> QED
  BY <1>1, <1>2, <1>3, <1>4, <1>5, <1>6, <1>7, <1>8, <1>9, <1>10, <1>11,
     <1>12, <1>13, <1>14, <1>15, <1>16, <1>17, <1>18, <1>19 DEF Next, Loop,
     JobGoroutine, Others, Main, Waiter, Exited

LEMMA FlagStep == TypeOK /\ [Next]_vars => FlagTypes'
<1> SUFFICES ASSUME FlagTypes, [Next]_vars PROVE FlagTypes'
  BY DEF TypeOK
<1> USE DEF FlagTypes
<1>1. CASE MessageRead \/ OtherMessage
  BY <1>1, Zenon DEF MessageRead, OtherMessage, mainVars, connVars, loopVars,
     jobVars, loadVars
<1>2. ASSUME NEW j \in Job, AvailabilityRequest(j) PROVE FlagTypes'
  BY <1>2, Zenon DEF AvailabilityRequest, Decide, mainVars, connVars,
     loopVars, jobVars, loadVars
<1>3. ASSUME NEW j \in Job, AvailabilityResponse(j) PROVE FlagTypes'
  BY <1>3, Zenon DEF AvailabilityResponse, Answer, mainVars, connVars,
     loopVars, jobVars, loadVars
<1>4. ASSUME NEW r \in Runner, Assignment(r) PROVE FlagTypes'
  BY <1>4, Zenon DEF Assignment, mainVars, connVars, loopVars, jobVars,
     loadVars
<1>5. ASSUME NEW r \in Runner, Spawn(r) PROVE FlagTypes'
  BY <1>5, Zenon DEF Spawn, mainVars, connVars, loopVars, jobVars, loadVars
<1>6. ASSUME NEW j \in Job, Termination(j) PROVE FlagTypes'
  BY <1>6, Zenon DEF Termination, mainVars, connVars, loopVars, jobVars,
     loadVars
<1>7. CASE Terminate
  BY <1>7, Zenon DEF Terminate, mainVars, connVars, loopVars, jobVars,
     loadVars
<1>8. CASE ReadFails \/ LoopCancels
  BY <1>8, Zenon DEF ReadFails, LoopCancels, mainVars, connVars, loopVars,
     jobVars, loadVars
<1>9. ASSUME NEW r \in Runner, JobGoroutine(r) PROVE FlagTypes'
  BY <1>9, Zenon DEF JobGoroutine, JobConnects, RunReturns, JobReturns,
     ReportStatus, RemoveJob, mainVars, connVars, loopVars, jobVars, loadVars
<1>10. CASE ComputeLoad
  BY <1>10, Zenon DEF ComputeLoad, SetLoad, mainVars, connVars, loopVars,
     jobVars, loadVars
<1>11. CASE SendLoad
  BY <1>11, Zenon DEF SendLoad, mainVars, connVars, loopVars, jobVars,
     loadVars
<1>12. CASE ReporterExits \/ ConferenceShutdown \/ LinkDown
  BY <1>12, Zenon DEF ReporterExits, ConferenceShutdown, LinkDown, mainVars,
     connVars, loopVars, jobVars, loadVars
<1>13. ASSUME NEW j \in Job, OfferWithdrawn(j) PROVE FlagTypes'
  BY <1>13, Zenon DEF OfferWithdrawn, mainVars, connVars, loopVars, jobVars,
     loadVars
<1>14. CASE Main
  BY <1>14, Zenon DEF Main, SignalReceived, ContextDone, StartDrain, JobsDone,
     DrainTimeout, TimeoutStep, CancelContext, CloseClient, CloseConn, Exit,
     mainVars, connVars, loopVars, jobVars, loadVars
<1>15. CASE Waiter
  BY <1>15, Zenon DEF Waiter, WaiterCheck, WaiterJoin, mainVars, connVars,
     loopVars, jobVars, loadVars
<1>16. CASE UNCHANGED vars
  BY <1>16, Zenon DEF vars, mainVars, connVars, loopVars, jobVars, loadVars
<1> QED
  BY <1>1, <1>2, <1>3, <1>4, <1>5, <1>6, <1>7, <1>8, <1>9, <1>10, <1>11,
     <1>12, <1>13, <1>14, <1>15, <1>16 DEF Next, Loop, Others, Exited

LEMMA DataStep == TypeInv /\ [Next]_vars => DataTypes'
<1> SUFFICES ASSUME TypeInv, DataTypes, [Next]_vars PROVE DataTypes'
  BY DEF TypeInv, TypeOK
<1> USE WorkerAssumption DEF DataTypes
<1>1. CASE MessageRead \/ OtherMessage
  BY <1>1 DEF MessageRead, OtherMessage, mainVars, connVars, loopVars,
     jobVars, loadVars
<1>2. ASSUME NEW j \in Job, AvailabilityRequest(j) PROVE DataTypes'
  BY <1>2 DEF AvailabilityRequest, Decide, mainVars, connVars, loopVars,
     jobVars, loadVars
<1>3. ASSUME NEW j \in Job, AvailabilityResponse(j) PROVE DataTypes'
  BY <1>3 DEF AvailabilityResponse, Answer, Advertise, mainVars, connVars,
     loopVars, jobVars, loadVars
<1>4. ASSUME NEW r \in Runner, Assignment(r) PROVE DataTypes'
  BY <1>4 DEF Assignment, mainVars, connVars, loopVars, jobVars, loadVars
<1>5. ASSUME NEW r \in Runner, Spawn(r) PROVE DataTypes'
  BY <1>5 DEF Spawn, mainVars, connVars, loopVars, jobVars, loadVars
<1>6. ASSUME NEW j \in Job, Termination(j) PROVE DataTypes'
  BY <1>6 DEF Termination, mainVars, connVars, loopVars, jobVars, loadVars
<1>7. CASE Terminate
  BY <1>7 DEF Terminate, mainVars, connVars, loopVars, jobVars, loadVars
<1>8. CASE ReadFails \/ LoopCancels
  BY <1>8 DEF ReadFails, LoopCancels, mainVars, connVars, loopVars, jobVars,
     loadVars
<1>9. ASSUME NEW r \in Runner, JobGoroutine(r) PROVE DataTypes'
  BY <1>9 DEF JobGoroutine, JobConnects, RunReturns, JobReturns, ReportStatus,
     RemoveJob, mainVars, connVars, loopVars, jobVars, loadVars
<1>10. CASE ComputeLoad
  <2>1. Cardinality(Active) \in Nat
    BY FS_CardinalityType DEF TypeInv
  <2> QED
    BY <2>1, <1>10 DEF ComputeLoad, SetLoad, mainVars, connVars, loopVars, jobVars,
     loadVars
<1>11. CASE SendLoad
  BY <1>11 DEF SendLoad, Advertise, mainVars, connVars, loopVars, jobVars,
     loadVars
<1>12. CASE ReporterExits \/ ConferenceShutdown \/ LinkDown
  BY <1>12 DEF ReporterExits, ConferenceShutdown, LinkDown, mainVars,
     connVars, loopVars, jobVars, loadVars
<1>13. ASSUME NEW j \in Job, OfferWithdrawn(j) PROVE DataTypes'
  BY <1>13 DEF OfferWithdrawn, mainVars, connVars, loopVars, jobVars, loadVars
<1>14. CASE Main
  BY <1>14 DEF Main, SignalReceived, ContextDone, StartDrain, JobsDone,
     DrainTimeout, TimeoutStep, CancelContext, CloseClient, CloseConn, Exit,
     mainVars, connVars, loopVars, jobVars, loadVars
<1>15. CASE Waiter
  BY <1>15 DEF Waiter, WaiterCheck, WaiterJoin, mainVars, connVars, loopVars,
     jobVars, loadVars
<1>16. CASE UNCHANGED vars
  BY <1>16 DEF vars, mainVars, connVars, loopVars, jobVars, loadVars
<1> QED
  BY <1>1, <1>2, <1>3, <1>4, <1>5, <1>6, <1>7, <1>8, <1>9, <1>10, <1>11,
     <1>12, <1>13, <1>14, <1>15, <1>16 DEF Next, Loop, Others, Exited

LEMMA TypeInvAlways == Spec => []TypeInv
<1>1. TypeInv /\ [Next]_vars => TypeInv'
  BY FiniteStep, ControlStep, FlagStep, DataStep DEF TypeInv, TypeOK
<1> QED
  BY TypeInvInit, <1>1, PTL DEF Spec

\* The variables keep their types; with the clamp of updateLoad
\* (worker.go:545-551) the load sent is a fraction of the capacity however
\* many jobs are active.
THEOREM TypeCorrect == Spec => []TypeOK
<1>1. TypeInv => TypeOK
  BY DEF TypeInv
<1> QED
  BY <1>1, TypeInvAlways, PTL

-----------------------------------------------------------------------------
(* Admission control.                                                      *)

\* OverCommitBound is not inductive alone: an answer adds to the sum, so the
\* decision it carries must still be true when it goes out (only the message
\* loop adds to the map, and it is busy answering), and the offers that are
\* accepted are some of the at most Window that are open.
AdmissionInv ==
  /\ IsFiniteSet(Outstanding)
  /\ Cardinality(Outstanding) <= Window
  /\ loop = "answer" /\ available => Cardinality(Active) < MaxConcurrentJobs
  /\ OverCommitBound

LEMMA Cardinalities ==
  ASSUME TypeInv, AdmissionInv
  PROVE  /\ IsFiniteSet(Active) /\ Cardinality(Active) \in Nat
         /\ IsFiniteSet(Outstanding) /\ Cardinality(Outstanding) \in Nat
         /\ IsFiniteSet(Accepted) /\ Cardinality(Accepted) \in Nat
         /\ Cardinality(Accepted) <= Cardinality(Outstanding)
         /\ Accepted \subseteq Outstanding
<1>1. Accepted \subseteq Outstanding
  BY DEF Accepted, Outstanding
<1>2. IsFiniteSet(Active) /\ IsFiniteSet(Outstanding)
  BY DEF TypeInv, AdmissionInv
<1>3. IsFiniteSet(Accepted) /\ Cardinality(Accepted) <= Cardinality(Outstanding)
  BY <1>1, <1>2, FS_Subset
<1> QED
  BY <1>1, <1>2, <1>3, FS_CardinalityType

\* Closing an offer keeps every part of the invariant.
LEMMA OfferShrinks ==
  ASSUME TypeOK, TypeInv, AdmissionInv, NEW j \in Job,
         offer' = [offer EXCEPT ![j] = "none"], Active' = Active
  PROVE  /\ IsFiniteSet(Outstanding') /\ Cardinality(Outstanding') <= Window
         /\ OverCommitBound'
<1>1. Accepted' \subseteq Accepted /\ Outstanding' \subseteq Outstanding
  BY OfferClosed
<1>2. /\ IsFiniteSet(Outstanding') /\ Cardinality(Outstanding') \in Nat
      /\ Cardinality(Outstanding') <= Cardinality(Outstanding)
      /\ Cardinality(Accepted') \in Nat
      /\ Cardinality(Accepted') <= Cardinality(Accepted)
  BY <1>1, FS_Subset, FS_CardinalityType, Cardinalities
<1> QED
  BY <1>2, Cardinalities, WorkerAssumption DEF AdmissionInv, OverCommitBound

LEMMA AdmissionInvInit == Init => AdmissionInv
<1> SUFFICES ASSUME Init PROVE AdmissionInv
  OBVIOUS
<1>1. Active = {} /\ Outstanding = {} /\ Accepted = {}
  BY DEF Init, Active, Outstanding, Accepted
<1> QED
  BY <1>1, FS_EmptySet, WorkerAssumption
     DEF AdmissionInv, OverCommitBound, Init

\* Only these steps touch the map or the offers.
LEMMA AdmissionSteps ==
  ASSUME [Next]_vars
  PROVE  \/ \E j \in Job : \/ AvailabilityRequest(j)
                           \/ AvailabilityResponse(j)
                           \/ OfferWithdrawn(j)
         \/ \E r \in Runner : Assignment(r) \/ RemoveJob(r)
         \/ /\ UNCHANGED <<activeJobs, offer>>
            /\ loop' # "answer" \/ UNCHANGED <<loop, available>>
  BY DEF Next, Loop, JobGoroutine, Others, Main, Waiter, vars, jobVars,
     loopVars, MessageRead, OtherMessage, Spawn, Termination, Terminate,
     ReadFails, LoopCancels, JobConnects, RunReturns, JobReturns,
     ReportStatus, ComputeLoad, SetLoad, SendLoad, ReporterExits,
     ConferenceShutdown, LinkDown, SignalReceived, ContextDone, StartDrain,
     JobsDone, DrainTimeout, TimeoutStep, CancelContext, CloseClient,
     CloseConn, Exit, WaiterCheck, WaiterJoin, Exited

LEMMA AdmissionInvStep ==
  TypeInv /\ AdmissionInv /\ [Next]_vars => AdmissionInv'
<1> SUFFICES ASSUME TypeInv, AdmissionInv, [Next]_vars PROVE AdmissionInv'
  OBVIOUS
<1> USE WorkerAssumption
<1>0. TypeOK
  BY DEF TypeInv
<1>1. ASSUME NEW j \in Job, AvailabilityRequest(j) PROVE AdmissionInv'
  <2>1. /\ Active' = Active
        /\ Accepted' = Accepted
        /\ Outstanding' = Outstanding \union {j}
        /\ j \notin Outstanding
    BY <1>0, <1>1, OfferMade DEF AvailabilityRequest, Decide, jobVars, Active
  <2>2. /\ IsFiniteSet(Outstanding')
        /\ Cardinality(Outstanding') = Cardinality(Outstanding) + 1
    BY <2>1, FS_AddElement, Cardinalities
  <2>3. Cardinality(Outstanding') <= Window
    BY <1>1, <2>2, Cardinalities DEF AvailabilityRequest, Decide
  <2>4. available' => Cardinality(Active) < MaxConcurrentJobs
    BY <1>1 DEF AvailabilityRequest, Decide
  <2> QED
    BY <2>1, <2>2, <2>3, <2>4 DEF AdmissionInv, OverCommitBound
<1>2. ASSUME NEW j \in Job, AvailabilityResponse(j) PROVE AdmissionInv'
  <2>1. Active' = Active /\ loop' = "read"
    BY <1>2 DEF AvailabilityResponse, Answer, jobVars, Active
  <2>2. CASE available /\ Connected
    <3>1. offer' = [offer EXCEPT ![j] = "accepted"] /\ offer[j] = "asked"
      BY <1>2, <2>2 DEF AvailabilityResponse, Answer
    <3>2. /\ Accepted' = Accepted \union {j}
          /\ j \notin Accepted
          /\ Outstanding' = Outstanding
      BY <1>0, <3>1, OfferAccepted
    <3>3. j \in Outstanding /\ Accepted' \subseteq Outstanding
      BY <3>1, <3>2, Cardinalities DEF Outstanding
    <3>4. Cardinality(Accepted') <= Window /\ Cardinality(Accepted') \in Nat
      BY <3>3, FS_Subset, FS_CardinalityType, Cardinalities DEF AdmissionInv
    <3>5. Cardinality(Active) <= MaxConcurrentJobs - 1
      BY <1>2, <2>2, Cardinalities
         DEF AvailabilityResponse, Answer, AdmissionInv
    <3> QED
      BY <2>1, <3>2, <3>4, <3>5, Cardinalities DEF AdmissionInv, OverCommitBound
  <2>3. CASE ~(available /\ Connected)
    <3>1. offer' = [offer EXCEPT ![j] = "none"]
      BY <1>2, <2>3 DEF AvailabilityResponse, Answer
    <3> QED
      BY <1>0, <2>1, <3>1, OfferShrinks DEF AdmissionInv
  <2> QED
    BY <2>2, <2>3
<1>3. ASSUME NEW j \in Job, OfferWithdrawn(j) PROVE AdmissionInv'
  <2>1. /\ offer' = [offer EXCEPT ![j] = "none"]
        /\ Active' = Active
        /\ UNCHANGED <<loop, available>>
    BY <1>3 DEF OfferWithdrawn, jobVars, Active
  <2> QED
    BY <1>0, <2>1, OfferShrinks DEF AdmissionInv
<1>4. ASSUME NEW r \in Runner, Assignment(r) PROVE AdmissionInv'
  <2> DEFINE j == JobOf[r]
  <2>1. /\ j \in Job /\ offer[j] = "accepted" /\ loop' = "spawn"
        /\ offer' = [offer EXCEPT ![j] = "none"]
        /\ activeJobs' = [activeJobs EXCEPT ![j] = r]
    BY <1>4 DEF Assignment
  <2>2. /\ Active' = Active \union {j}
        /\ Accepted' = Accepted \ {j}
        /\ Outstanding' = Outstanding \ {j}
        /\ j \in Accepted
    BY <1>0, <2>1, ActiveInsert, OfferClosed DEF Accepted
  <2>3. /\ IsFiniteSet(Outstanding')
        /\ Cardinality(Outstanding') <= Cardinality(Outstanding)
    BY <2>2, FS_Subset, Cardinalities
  <2>4. Cardinality(Accepted') = Cardinality(Accepted) - 1
    BY <2>2, FS_RemoveElement, Cardinalities
  <2>5. Cardinality(Active') = IF j \in Active THEN Cardinality(Active)
                                               ELSE Cardinality(Active) + 1
    BY <2>2, FS_AddElement, Cardinalities
  <2>6. Cardinality(Outstanding') <= Window
    BY <2>3, FS_CardinalityType, Cardinalities DEF AdmissionInv
  <2> QED
    BY <2>1, <2>3, <2>4, <2>5, <2>6, Cardinalities
       DEF AdmissionInv, OverCommitBound
<1>5. ASSUME NEW r \in Runner, RemoveJob(r) PROVE AdmissionInv'
  <2>1. /\ Active' = Active \ {JobOf[r]}
        /\ Accepted' = Accepted /\ Outstanding' = Outstanding
        /\ UNCHANGED <<loop, available>>
    BY <1>0, <1>5, ActiveDelete
       DEF RemoveJob, loopVars, Accepted, Outstanding
  <2>2. Cardinality(Active') = IF JobOf[r] \in Active
                               THEN Cardinality(Active) - 1
                               ELSE Cardinality(Active)
    BY <2>1, FS_RemoveElement, Cardinalities
  <2> QED
    BY <2>1, <2>2, Cardinalities DEF AdmissionInv, OverCommitBound
<1>6. CASE /\ UNCHANGED <<activeJobs, offer>>
           /\ loop' # "answer" \/ UNCHANGED <<loop, available>>
  BY <1>6 DEF AdmissionInv, OverCommitBound, Active, Accepted, Outstanding
<1> QED
  BY <1>1, <1>2, <1>3, <1>4, <1>5, <1>6, AdmissionSteps

LEMMA AdmissionInvAlways == Spec => [](TypeInv /\ AdmissionInv)
  BY TypeInvAlways, AdmissionInvInit, AdmissionInvStep, PTL DEF Spec

\* However many jobs and whatever the capacity: the jobs in the map and the
\* offers accepted but not yet assigned stay below MaxConcurrentJobs + Window,
\* although handleAvailability (worker.go:376-421) reserves nothing.
THEOREM OverCommitBounded == Spec => []OverCommitBound
<1>1. AdmissionInv => OverCommitBound
  BY DEF AdmissionInv
<1> QED
  BY <1>1, AdmissionInvAlways, PTL

-----------------------------------------------------------------------------
(* The worker implements Admission.                                        *)

\* The instance brings its own copy of Cardinality.
LEMMA SameCardinality ==
  /\ A!Cardinality(Active) = Cardinality(Active)
  /\ A!Cardinality(Accepted) = Cardinality(Accepted)
  BY Zenon DEF A!Cardinality, Cardinality

LEMMA RefinementInit == Init => A!Init
  BY DEF Init, A!Init, Active, Accepted

LEMMA RefinementStep ==
  TypeInv /\ AdmissionInv /\ [Next]_vars => [A!Next]_(A!vars)
<1> SUFFICES ASSUME TypeInv, AdmissionInv, [Next]_vars
             PROVE  A!Next \/ UNCHANGED A!vars
  OBVIOUS
<1> USE WorkerAssumption
<1>0. TypeOK
  BY DEF TypeInv
<1>1. ASSUME NEW j \in Job, AvailabilityRequest(j) PROVE UNCHANGED A!vars
  BY <1>0, <1>1, OfferMade
     DEF AvailabilityRequest, Decide, jobVars, Active, A!vars
<1>2. ASSUME NEW j \in Job, AvailabilityResponse(j)
      PROVE  A!Promise(j) \/ UNCHANGED A!vars
  <2>1. Active' = Active /\ offer[j] = "asked"
    BY <1>2 DEF AvailabilityResponse, Answer, jobVars, Active
  <2>2. CASE available /\ Connected
    <3>1. offer' = [offer EXCEPT ![j] = "accepted"]
      BY <1>2, <2>2 DEF AvailabilityResponse, Answer
    <3>2. Accepted' = Accepted \union {j} /\ j \notin Accepted
      BY <1>0, <2>1, <3>1, OfferAccepted
    <3>3. Cardinality(Active) < MaxConcurrentJobs
      BY <1>2, <2>2 DEF AvailabilityResponse, Answer, AdmissionInv
    <3>4. Accepted # Outstanding
      BY <2>1, <3>2 DEF Outstanding
    <3>5. Cardinality(Accepted) < Window
      <4>1. Cardinality(Accepted) < Cardinality(Outstanding)
        BY <3>4, FS_Subset, Cardinalities
      <4> QED
        BY <4>1, Cardinalities DEF AdmissionInv
    <3>6. A!Promise(j)
      BY <2>1, <3>2, <3>3, <3>5, SameCardinality DEF A!Promise
    <3> QED
      BY <3>6
  <2>3. CASE ~(available /\ Connected)
    <3>1. offer' = [offer EXCEPT ![j] = "none"]
      BY <1>2, <2>3 DEF AvailabilityResponse, Answer
    <3>2. Accepted' = Accepted
      BY <1>0, <2>1, <3>1, OfferClosed DEF Accepted
    <3> QED
      BY <2>1, <3>2 DEF A!vars
  <2> QED
    BY <2>2, <2>3
<1>3. ASSUME NEW j \in Job, OfferWithdrawn(j) PROVE A!Withdraw(j)
  BY <1>0, <1>3, OfferClosed
     DEF OfferWithdrawn, jobVars, Active, Accepted, A!Withdraw
<1>4. ASSUME NEW r \in Runner, Assignment(r) PROVE A!Start(JobOf[r])
  <2>1. JobOf[r] \in Job
    OBVIOUS
  <2>2. Active' = Active \union {JobOf[r]}
    BY <1>0, <1>4, <2>1, ActiveInsert DEF Assignment
  <2>3. Accepted' = Accepted \ {JobOf[r]} /\ JobOf[r] \in Accepted
    BY <1>0, <1>4, <2>1, OfferClosed DEF Assignment, Accepted
  <2> QED
    BY <2>2, <2>3 DEF A!Start
<1>5. ASSUME NEW r \in Runner, RemoveJob(r)
      PROVE  A!Finish(JobOf[r]) \/ UNCHANGED A!vars
  <2>1. Active' = Active \ {JobOf[r]} /\ Accepted' = Accepted
    BY <1>0, <1>5, ActiveDelete DEF RemoveJob, loopVars, Accepted
  <2> QED
    BY <2>1 DEF A!Finish, A!vars
<1>6. CASE UNCHANGED <<activeJobs, offer>>
  BY <1>6 DEF A!vars, Active, Accepted
<1> QED
  BY <1>1, <1>2, <1>3, <1>4, <1>5, <1>6, AdmissionSteps DEF A!Next

\* Every behaviour of the worker is one of Admission: goroutines, the drain,
\* failing writes and lost connections add no way to admit a job.
THEOREM WorkerRefinesAdmission == Spec => AdmissionSpec
  BY RefinementInit, RefinementStep, AdmissionInvAlways, PTL
     DEF Spec, AdmissionSpec, A!Spec

=============================================================================
