-------------------------- MODULE AdmissionProofs --------------------------
(* Admission, for every set of jobs, capacity and window. *)
EXTENDS Admission, FiniteSetTheorems, TLAPS

\* The bound alone is not inductive: Cardinality says something only of finite
\* sets, Promise needs the window, and Start must not lose a job from the sum.
IInv ==
  /\ TypeOK
  /\ IsFiniteSet(promised)
  /\ IsFiniteSet(active)
  /\ Cardinality(promised) <= Window
  /\ OverCommitBound

LEMMA IInvInit ==
  ASSUME AdmissionConstants
  PROVE  Init => IInv
  BY FS_EmptySet DEF AdmissionConstants, Init, IInv, TypeOK, OverCommitBound

LEMMA IInvStep ==
  ASSUME AdmissionConstants
  PROVE  IInv /\ [Next]_vars => IInv'
<1> SUFFICES ASSUME IInv, [Next]_vars PROVE IInv'
  OBVIOUS
<1> USE DEF AdmissionConstants
<1>1. Cardinality(promised) \in Nat /\ Cardinality(active) \in Nat
  BY FS_CardinalityType DEF IInv
<1>2. ASSUME NEW j \in Job, Promise(j) PROVE IInv'
  <2>1. IsFiniteSet(promised') /\ Cardinality(promised') = Cardinality(promised) + 1
    BY <1>2, FS_AddElement DEF Promise, IInv
  <2> QED
    BY <1>1, <1>2, <2>1 DEF Promise, IInv, TypeOK, OverCommitBound
<1>3. ASSUME NEW j \in Job, Withdraw(j) PROVE IInv'
  <2>1. IsFiniteSet(promised') /\ Cardinality(promised') = Cardinality(promised) - 1
    BY <1>3, FS_RemoveElement DEF Withdraw, IInv
  <2> QED
    BY <1>1, <1>3, <2>1 DEF Withdraw, IInv, TypeOK, OverCommitBound
<1>4. ASSUME NEW j \in Job, Start(j) PROVE IInv'
  <2>1. IsFiniteSet(promised') /\ Cardinality(promised') = Cardinality(promised) - 1
    BY <1>4, FS_RemoveElement DEF Start, IInv
  <2>2. /\ IsFiniteSet(active')
        /\ Cardinality(active') = IF j \in active THEN Cardinality(active)
                                  ELSE Cardinality(active) + 1
    BY <1>4, FS_AddElement DEF Start, IInv
  <2> QED
    BY <1>1, <1>4, <2>1, <2>2 DEF Start, IInv, TypeOK, OverCommitBound
<1>5. ASSUME NEW j \in Job, Finish(j) PROVE IInv'
  <2>1. IsFiniteSet(active') /\ Cardinality(active') = Cardinality(active) - 1
    BY <1>5, FS_RemoveElement DEF Finish, IInv
  <2> QED
    BY <1>1, <1>5, <2>1 DEF Finish, IInv, TypeOK, OverCommitBound
<1>6. CASE UNCHANGED vars
  BY <1>6 DEF vars, IInv, TypeOK, OverCommitBound
<1> QED
  BY <1>2, <1>3, <1>4, <1>5, <1>6 DEF Next

LEMMA IInvAlways ==
  ASSUME AdmissionConstants
  PROVE  Spec => []IInv
  BY IInvInit, IInvStep, PTL DEF Spec

\* Whatever the capacity and the window, active and promised jobs together
\* never exceed Capacity - 1 + Window: handleAvailability's unreserved yes
\* (worker.go:376-421) costs at most Window - 1 jobs over the limit.
THEOREM AdmissionOverCommit ==
  ASSUME AdmissionConstants
  PROVE  Spec => []OverCommitBound
<1>1. IInv => OverCommitBound
  BY DEF IInv
<1> QED
  BY <1>1, IInvAlways, PTL

=============================================================================
