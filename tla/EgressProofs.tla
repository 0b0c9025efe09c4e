---------------------------- MODULE EgressProofs ----------------------------
(***************************************************************************)
(* Egress, for every number of merges, size of a frame and delay of the    *)
(* resampler: its types, what a finished Run leaves behind, why the loop   *)
(* ends, and how much of the old conference a merge lets through.          *)
(***************************************************************************)
EXTENDS Egress, FiniteSetTheorems, FunctionTheorems, SequenceTheorems, TLAPS

\* The lock is held through Egress.Stop and through a merge, and what it
\* protects is there meanwhile.
Stopping == {"closeTrack", "closeResampler", "join"}
Merging  == {"merge", "merged"}

LockHeld ==
  /\ \A c \in Caller : emu = c <=> pc[c] \in Stopping \union Merging
  /\ \A c \in Caller : pc[c] \in Stopping \union Merging => egress = "set"
  /\ \A c \in Caller : pc[c] \in Stopping => stopped

\* How far Start has come.
Building ==
  /\ pc["run"] = "connect" => born = 0
  /\ pc["run"] \in {"identify", "create"} => born # 0
  /\ pc["run"] \in {"connect", "identify", "create", "attach"}
       => egress = "nil"
  /\ pc["run"] \in {"connect", "identify", "create", "attach", "launch"}
       => loop = "off"
  /\ pc["run"] \in {"attach", "launch"} \/ egress = "set" \/ loop # "off"
       => participant # None
  /\ pc["run"] \notin {"connect", "identify"} /\ exposed => egressID
  /\ ~ exposed => pc["run"] = "done" /\ loop = "off"

\* A loop without its egress, or without its track, was told to end.
Cancelled ==
  /\ pc["run"] = "launch" \/ loop # "off" => egress = "set" \/ stopped
  /\ pc["run"] \in {"attach", "launch"} \/ egress = "set" \/ loop # "off"
       => track # "nil" \/ stopped

\* Run comes past its Stop when there is no egress, and nobody brings one
\* back: neither the egress nor its participant, unless it never went.
RunGone ==
  /\ deferred => pc["run"] \in StopPC \union {"done"}
  /\ pc["run"] \in {"drop", "leave", "done"} \/ deferred => egress = "nil"
  /\ pc["run"] \in {"leave", "done"} \/ deferred
       => connected = None \/ kept

\* What is in the loop's hands.
InLoop ==
  /\ loop \notin {"off", "fetch", "exited"} => current # None
  /\ Len(hold) + Len(fifo) <= 2 * Frame - 1 + Delay

\* What is, or will be, written of older participants: a frame that has
\* passed the recheck counts too.
InFlight == IF loop = "resample" /\ current < merged THEN Frame ELSE 0

OldAudio ==
  /\ merged <= participant
  /\ late + Older(hold) + Older(fifo) + InFlight <= 2 * Frame - 1 + Delay

\* What TypeOK says, in parts.
Places ==
  /\ pc \in [Caller -> PC]
  /\ emu \in Caller \union {"free"}
  /\ loop \in {"off", "fetch", "select", "recheck", "resample", "write",
               "exited"}

Flags ==
  /\ egress \in {"nil", "set"} /\ track \in {"open", "shut", "nil"}
  /\ resampler \in {"open", "closed"}
  /\ egressID \in BOOLEAN /\ exposed \in BOOLEAN
  /\ deferred \in BOOLEAN /\ stopped \in BOOLEAN /\ kept \in BOOLEAN

Numbers ==
  /\ participant \in 0..born /\ current \in 0..born
  /\ born \in 0..MaxParticipant /\ connected \in 0..born
  /\ \A p \in closed : p \in 1..born
  /\ merged \in 0..born /\ late \in Nat

Audio ==
  /\ fifo \in Seq(Participant) /\ Len(fifo) <= Delay
  /\ hold \in Seq(Participant)
  /\ loop \notin {"write", "exited"} => Len(hold) < Frame

IInv ==
  /\ Places /\ Flags /\ Numbers /\ Audio
  /\ LockHeld /\ Building /\ Cancelled /\ RunGone /\ InLoop /\ OldAudio

-----------------------------------------------------------------------------
(* Counting the units that are older than a participant.                   *)

Count(s, m) == Cardinality({i \in 1..Len(s) : s[i] < m})

\* The counts rest on what the library says of finite sets.
LEMMA FirstN ==
  ASSUME NEW n \in Nat
  PROVE  IsFiniteSet(1..n) /\ Cardinality(1..n) = n
  BY FS_Interval

\* No more is counted than there is.
LEMMA CountBound ==
  ASSUME NEW s \in Seq(Int), NEW m \in Int
  PROVE  /\ IsFiniteSet({i \in 1..Len(s) : s[i] < m})
         /\ Count(s, m) \in 0..Len(s)
<1> DEFINE S == {i \in 1..Len(s) : s[i] < m}
<1>1. Len(s) \in Nat /\ S \in SUBSET (1..Len(s))
  OBVIOUS
<1>2. IsFiniteSet(1..Len(s)) /\ Cardinality(1..Len(s)) = Len(s)
  BY <1>1, FirstN
<1> HIDE DEF S
<1>3. IsFiniteSet(S) /\ Cardinality(S) <= Len(s) /\ Cardinality(S) \in Nat
  BY <1>1, <1>2, FS_Subset, FS_CardinalityType
<1> QED
  BY <1>1, <1>3 DEF Count, S

\* A sequence of the same element over and over.
LEMMA CountUniform ==
  ASSUME NEW s \in Seq(Int), NEW m \in Int, NEW p \in Int,
         \A i \in 1..Len(s) : s[i] = p
  PROVE  Count(s, m) = IF p < m THEN Len(s) ELSE 0
<1>1. Len(s) \in Nat
  OBVIOUS
<1>2. {i \in 1..Len(s) : s[i] < m} = IF p < m THEN 1..Len(s) ELSE {}
  OBVIOUS
<1> QED
  BY <1>1, <1>2, FirstN, FS_EmptySet DEF Count

\* What is counted in a sequence r is counted in its two pieces s and t.
LEMMA CountPieces ==
  ASSUME NEW r \in Seq(Int), NEW s \in Seq(Int), NEW t \in Seq(Int),
         NEW m \in Int, Len(r) = Len(s) + Len(t),
         \A i \in 1..Len(s) : r[i] = s[i],
         \A i \in 1..Len(t) : r[Len(s) + i] = t[i]
  PROVE  Count(r, m) = Count(s, m) + Count(t, m)
<1> DEFINE R == {i \in 1..Len(r) : r[i] < m}
           S == {i \in 1..Len(s) : s[i] < m}
           T == {i \in 1..Len(t) : t[i] < m}
           U == {i \in Len(s) + 1..Len(r) : r[i] < m}
           shift == [i \in T |-> Len(s) + i]
<1>1. Len(r) \in Nat /\ Len(s) \in Nat /\ Len(t) \in Nat
  OBVIOUS
<1>2. R = S \union U /\ S \intersect U = {}
  <2>1. ASSUME NEW i
        PROVE  i \in 1..Len(r) <=> i \in 1..Len(s) \/ i \in Len(s) + 1..Len(r)
    BY <1>1
  <2>2. (1..Len(s)) \intersect (Len(s) + 1..Len(r)) = {}
    BY <1>1
  <2> QED
    BY <2>1, <2>2
<1>3. shift \in Bijection(T, U)
  <2>1. ASSUME NEW i \in T PROVE Len(s) + i \in U
    BY <1>1
  <2>2. ASSUME NEW i \in T, NEW j \in T, shift[i] = shift[j] PROVE i = j
    BY <1>1, <2>2
  <2>3. ASSUME NEW u \in U PROVE \E i \in T : shift[i] = u
    <3>1. u - Len(s) \in 1..Len(t) /\ Len(s) + (u - Len(s)) = u
      BY <1>1
    <3>2. u - Len(s) \in T
      BY <1>1, <3>1
    <3> QED
      BY <3>1, <3>2
  <2>4. shift \in [T -> U]
    BY <2>1
  <2> HIDE DEF shift, T, U
  <2> QED
    BY <2>2, <2>3, <2>4, Fun_IsBij
<1>4. IsFiniteSet(S) /\ IsFiniteSet(T)
  BY CountBound
<1> HIDE DEF R, S, T, U, shift
<1>5. IsFiniteSet(U) /\ Cardinality(U) = Cardinality(T)
  BY <1>3, <1>4, FS_Bijection, Fun_ExistsBij
<1>6. Cardinality(R) = Cardinality(S) + Cardinality(U)
  <2>1. Cardinality(S \union U)
          = Cardinality(S) + Cardinality(U) - Cardinality(S \intersect U)
    BY <1>4, <1>5, FS_Union, Zenon
  <2>2. Cardinality(S) \in Nat /\ Cardinality(U) \in Nat
    BY <1>4, <1>5, FS_CardinalityType
  <2>3. Cardinality(S \intersect U) = 0
    BY <1>2, FS_EmptySet
  <2> QED
    BY <1>2, <2>1, <2>2, <2>3
<1> QED
  BY <1>5, <1>6 DEF Count, R, S, T

\* A concatenation, and a sequence cut in two.
LEMMA CountConcat ==
  ASSUME NEW s \in Seq(Int), NEW t \in Seq(Int), NEW m \in Int
  PROVE  Count(s \o t, m) = Count(s, m) + Count(t, m)
<1>1. /\ s \o t \in Seq(Int) /\ Len(s \o t) = Len(s) + Len(t)
      /\ \A i \in 1..Len(s) : (s \o t)[i] = s[i]
      /\ \A i \in 1..Len(t) : (s \o t)[Len(s) + i] = t[i]
  OBVIOUS
<1> QED
  BY <1>1, CountPieces

LEMMA CountSplit ==
  ASSUME NEW s \in Seq(Int), NEW n \in 0..Len(s), NEW m \in Int
  PROVE  Count(s, m)
           = Count(SubSeq(s, 1, n), m) + Count(SubSeq(s, n + 1, Len(s)), m)
<1> DEFINE first == SubSeq(s, 1, n)
           rest == SubSeq(s, n + 1, Len(s))
<1>1. /\ first \in Seq(Int) /\ Len(first) = n
      /\ \A i \in 1..Len(first) : first[i] = s[i]
  OBVIOUS
<1>2. /\ rest \in Seq(Int) /\ Len(rest) = Len(s) - n
      /\ \A i \in 1..Len(rest) : rest[i] = s[n + i]
  OBVIOUS
<1> HIDE DEF first, rest
<1>3. /\ first \in Seq(Int) /\ rest \in Seq(Int)
      /\ Len(s) = Len(first) + Len(rest)
      /\ \A i \in 1..Len(first) : s[i] = first[i]
      /\ \A i \in 1..Len(rest) : s[Len(first) + i] = rest[i]
  BY <1>1, <1>2
<1>4. Count(s, m) = Count(first, m) + Count(rest, m)
  BY <1>3, CountPieces
<1> QED
  BY <1>4 DEF first, rest

-----------------------------------------------------------------------------
(* The steps.                                                              *)

\* Start dials the conference, takes its egress id, and attaches the loop.
LEMMA StartSteps ==
  ASSUME IInv, ConnectEgress \/ SetEgressID \/ AttachEgress \/ LaunchEgress
  PROVE  IInv'
<1> USE EgressAssumption
       DEF IInv, Caller, lockVars, eVars, loopVars, confVars, history,
           callerRest, Goes, ConnectEgress, Connects, StartFails, SetEgressID,
           AttachEgress, LaunchEgress
<1>1. Places'
  BY DEF Places, PC
<1>2. Flags'
  BY DEF Flags
<1>3. Numbers'
  BY DEF Numbers
<1>4. Audio'
  BY DEF Audio, Building
<1>5. LockHeld'
  BY DEF LockHeld, Stopping, Merging, Places
<1>6. Building'
  BY DEF Building, Places
<1>7. Cancelled'
  BY DEF Cancelled, Places
<1>8. RunGone'
  BY DEF RunGone, Building, None, StopPC, Places, Numbers
<1>9. InLoop'
  BY DEF InLoop
<1>10. OldAudio'
  BY DEF OldAudio, InFlight, Older, Building, None, Places, Flags, Numbers
<1> QED
  BY <1>1, <1>2, <1>3, <1>4, <1>5, <1>6, <1>7, <1>8, <1>9, <1>10

\* The participant becomes the egress's.
LEMMA CreateEgressStep ==
  ASSUME IInv, CreateEgress
  PROVE  IInv'
<1> USE EgressAssumption
       DEF IInv, Caller, lockVars, eVars, loopVars, confVars, history,
           callerRest, Goes, CreateEgress, StartFails, Disconnects
<1>1. Places'
  BY DEF Places, PC
<1>2. Flags'
  BY DEF Flags
<1>3. Numbers'
  BY DEF Numbers, None
<1>4. Audio'
  BY DEF Audio
<1>5. LockHeld'
  BY DEF LockHeld, Stopping, Merging, Places
<1>6. Building'
  BY DEF Building, None, Places
<1>7. Cancelled'
  BY DEF Cancelled, Places
<1>8. RunGone'
  BY DEF RunGone, Building, StopPC, Places
<1>9. InLoop'
  BY DEF InLoop
<1>10. OldAudio'
  BY DEF OldAudio, InFlight, Older, Numbers
<1> QED
  BY <1>1, <1>2, <1>3, <1>4, <1>5, <1>6, <1>7, <1>8, <1>9, <1>10

\* Run turns to its Stop, and leaves.
LEMMA RunSteps ==
  ASSUME IInv, RunStops \/ RunLeaves
  PROVE  IInv'
<1> USE EgressAssumption
       DEF IInv, Caller, lockVars, eVars, loopVars, confVars, history,
           callerRest, Goes, RunStops, RunLeaves
<1>1. Places'
  BY DEF Places, PC, StopPC
<1>2. Flags'
  BY DEF Flags
<1>3. Numbers'
  BY DEF Numbers
<1>4. Audio'
  BY DEF Audio
<1>5. LockHeld'
  BY DEF LockHeld, Stopping, Merging, Places
<1>6. Building'
  BY DEF Building, Places
<1>7. Cancelled'
  BY DEF Cancelled, Places
<1>8. RunGone'
  BY DEF RunGone, StopPC, Places
<1>9. InLoop'
  BY DEF InLoop
<1>10. OldAudio'
  BY DEF OldAudio, InFlight, Older
<1> QED
  BY <1>1, <1>2, <1>3, <1>4, <1>5, <1>6, <1>7, <1>8, <1>9, <1>10

\* Stop, up to the wait for the loop: the flag is set before the track goes.
LEMMA StopSteps ==
  ASSUME IInv, NEW c \in Caller,
         StopEgress(c) \/ CloseTrack(c) \/ CloseResampler(c)
  PROVE  IInv'
<1> USE EgressAssumption
       DEF IInv, Caller, lockVars, eVars, loopVars, confVars, history,
           callerRest, Goes, StopEgress, FindsEgress, CloseTrack,
           CloseResampler
<1>1. Places'
  BY DEF Places, PC, StopPC
<1>2. Flags'
  BY DEF Flags
<1>3. Numbers'
  BY DEF Numbers
<1>4. Audio'
  BY DEF Audio
<1>5. LockHeld'
  BY DEF LockHeld, Stopping, Merging, Places, Flags, Numbers
<1>6. Building'
  BY DEF Building, Places
<1>7. Cancelled'
  BY DEF Cancelled, LockHeld, Stopping, Places, Flags
<1>8. RunGone'
  BY DEF RunGone, StopPC, Places, Flags
<1>9. InLoop'
  BY DEF InLoop
<1>10. OldAudio'
  BY DEF OldAudio, InFlight, Older
<1> QED
  BY <1>1, <1>2, <1>3, <1>4, <1>5, <1>6, <1>7, <1>8, <1>9, <1>10

\* The loop is joined, the egress and its participant are dropped.
LEMMA StopEnds ==
  ASSUME IInv, NEW c \in Caller, JoinLoop(c) \/ DropEgress(c) \/ CallsStop(c)
  PROVE  IInv'
<1> USE EgressAssumption
       DEF IInv, Caller, lockVars, eVars, loopVars, confVars, history,
           callerRest, Goes, JoinLoop, DropEgress, Disconnects, CallsStop
<1>1. Places'
  BY DEF Places, PC, StopPC
<1>2. Flags'
  BY DEF Flags
<1>3. Numbers'
  BY DEF Numbers, None
<1>4. Audio'
  BY DEF Audio
<1>5. LockHeld'
  BY DEF LockHeld, Stopping, Merging, Places
<1>6. Building'
  BY DEF Building, Places
<1>7. Cancelled'
  BY DEF Cancelled, LockHeld, Stopping, Places
<1>8. RunGone'
  <2>1. pc["run"] = "drop" => egressID
    BY DEF Building
  <2>2. CASE DropEgress(c) /\ c = "run"
    BY <2>1, <2>2 DEF RunGone, Places, Flags
  <2>3. CASE ~ (DropEgress(c) /\ c = "run")
    BY <2>3 DEF RunGone, LockHeld, Stopping, Places, Flags
  <2> QED
    BY <2>2, <2>3
<1>9. InLoop'
  BY DEF InLoop
<1>10. OldAudio'
  BY DEF OldAudio, InFlight, Older
<1> QED
  BY <1>1, <1>2, <1>3, <1>4, <1>5, <1>6, <1>7, <1>8, <1>9, <1>10

\* A merge takes the lock and dials the target.
LEMMA MergeSteps ==
  ASSUME IInv, BeginMerge \/ ConnectTarget
  PROVE  IInv'
<1> USE EgressAssumption
       DEF IInv, Caller, lockVars, eVars, loopVars, confVars, history,
           callerRest, Goes, BeginMerge, Merges, ConnectTarget, Connects
<1>1. Places'
  BY DEF Places, PC
<1>2. Flags'
  BY DEF Flags
<1>3. Numbers'
  BY DEF Numbers
<1>4. Audio'
  BY DEF Audio
<1>5. LockHeld'
  BY DEF LockHeld, Stopping, Merging, Places
<1>6. Building'
  BY DEF Building, LockHeld, Merging, Places
<1>7. Cancelled'
  BY DEF Cancelled, LockHeld, Merging
<1>8. RunGone'
  BY DEF RunGone, LockHeld, Merging, Places
<1>9. InLoop'
  BY DEF InLoop
<1>10. OldAudio'
  BY DEF OldAudio, InFlight, Older
<1> QED
  BY <1>1, <1>2, <1>3, <1>4, <1>5, <1>6, <1>7, <1>8, <1>9, <1>10

\* The conference closes a participant's channel, LiveKit's SDK the track.
LEMMA ClosingSteps ==
  ASSUME IInv, (\E p \in Participant : ChannelCloses(p)) \/ TrackShut
  PROVE  IInv'
<1> USE EgressAssumption
       DEF IInv, Caller, lockVars, eVars, loopVars, confVars, history,
           callerRest, Goes, ChannelCloses, TrackShut
<1>1. Places'
  BY DEF Places
<1>2. Flags'
  BY DEF Flags
<1>3. Numbers'
  BY DEF Numbers, Participant
<1>4. Audio'
  BY DEF Audio
<1>5. LockHeld'
  BY DEF LockHeld
<1>6. Building'
  BY DEF Building
<1>7. Cancelled'
  BY DEF Cancelled
<1>8. RunGone'
  BY DEF RunGone
<1>9. InLoop'
  BY DEF InLoop
<1>10. OldAudio'
  BY DEF OldAudio, InFlight, Older
<1> QED
  BY <1>1, <1>2, <1>3, <1>4, <1>5, <1>6, <1>7, <1>8, <1>9, <1>10

\* The audio is of participants, which are numbers: what is counted in it is
\* bounded by what there is.
LEMMA AudioCount ==
  ASSUME NEW s \in Seq(Participant), NEW m \in Int
  PROVE  /\ s \in Seq(Int) /\ Len(s) \in Nat
         /\ Count(s, m) \in Nat /\ Count(s, m) <= Len(s)
<1>1. Participant \subseteq Int
  BY DEF Participant
<1>2. /\ s \in [1..Len(s) -> Participant] /\ Len(s) \in Nat
      /\ s = [i \in 1..Len(s) |-> s[i]]
  OBVIOUS
<1>3. s \in Seq(Int)
  BY <1>1, <1>2
<1>4. Count(s, m) \in 0..Len(s)
  BY <1>3, CountBound
<1> QED
  BY <1>2, <1>3, <1>4

\* UpdateParticipant, and the merge ends.
LEMMA EndMergeStep ==
  ASSUME IInv, EndMerge
  PROVE  IInv'
<1> USE EgressAssumption
       DEF IInv, Caller, lockVars, eVars, loopVars, confVars, history,
           callerRest, Goes, EndMerge, EndsMerge
<1>1. born # 0
  BY DEF LockHeld, Merging, Building, None, Numbers
<1>2. Places'
  BY DEF Places, PC
<1>3. Flags'
  BY DEF Flags
<1>4. Numbers'
  BY DEF Numbers
<1>5. Audio'
  BY DEF Audio
<1>6. LockHeld'
  BY DEF LockHeld, Stopping, Merging, Places
<1>7. Building'
  BY <1>1 DEF Building, None
<1>8. Cancelled' /\ RunGone' /\ InLoop'
  BY DEF Cancelled, RunGone, InLoop
<1>9. OldAudio'
  <2>1. hold \in Seq(Participant) /\ fifo \in Seq(Participant) /\ born \in Nat
        /\ late' = 0 /\ merged' = born /\ participant' = born
        /\ hold' = hold /\ fifo' = fifo /\ loop' = loop /\ current' = current
    BY DEF Audio, Numbers
  <2>2. Older(hold)' = Count(hold, born) /\ Older(fifo)' = Count(fifo, born)
    BY DEF Older, Count
  <2>3. /\ Len(hold) \in Nat /\ Count(hold, born) \in Nat
        /\ Count(hold, born) <= Len(hold)
        /\ Len(fifo) \in Nat /\ Count(fifo, born) \in Nat
        /\ Count(fifo, born) <= Len(fifo)
    <3> HIDE DEF IInv, EndMerge, EndsMerge
    <3>1. born \in Int
      BY <2>1
    <3>2. /\ Len(hold) \in Nat /\ Count(hold, born) \in Nat
          /\ Count(hold, born) <= Len(hold)
      BY <2>1, <3>1, AudioCount
    <3>3. /\ Len(fifo) \in Nat /\ Count(fifo, born) \in Nat
          /\ Count(fifo, born) <= Len(fifo)
      BY <2>1, <3>1, AudioCount
    <3> QED
      BY <3>2, <3>3
  <2>4. loop = "resample" => Len(hold) <= Frame - 1 /\ Len(fifo) <= Delay
    BY DEF Audio
  <2>5. Len(hold) + Len(fifo) <= 2 * Frame - 1 + Delay
    BY DEF InLoop
  <2> HIDE DEF EndMerge, EndsMerge, IInv
  <2> QED
    BY <2>1, <2>2, <2>3, <2>4, <2>5 DEF OldAudio, InFlight
<1> QED
  BY <1>2, <1>3, <1>4, <1>5, <1>6, <1>7, <1>8, <1>9

\* The loop decides where to go, with the audio as it is.
LEMMA LoopSteps ==
  ASSUME IInv, ~ LoopEnds,
         \/ Fetch \/ SelectDone \/ Tick \/ SelectClosed \/ SelectFrame
         \/ Recheck \/ DropFrame \/ WriteEnds
  PROVE  IInv'
<1> USE EgressAssumption
       DEF IInv, Caller, lockVars, eVars, loopVars, confVars, history,
           loopRest, LoopGoes, Fetch, SelectDone, Tick, SelectClosed,
           SelectFrame, Recheck, DropFrame, WriteEnds
<1>1. Places'
  BY DEF Places
<1>2. Flags'
  BY DEF Flags
<1>3. Numbers'
  BY DEF Numbers
<1>4. Audio'
  BY DEF Audio
<1>5. LockHeld' /\ RunGone'
  BY DEF LockHeld, RunGone
<1>6. Building' /\ Cancelled'
  BY DEF Building, Cancelled
<1>7. InLoop'
  BY DEF InLoop, Building
<1>8. OldAudio'
  <2>1. /\ hold \in Seq(Participant) /\ fifo \in Seq(Participant)
        /\ merged \in Int
        /\ merged' = merged /\ late' = late /\ participant' = participant
        /\ hold' = hold /\ fifo' = fifo
    BY DEF Numbers, Audio
  <2>2. Older(hold)' = Older(hold) /\ Older(fifo)' = Older(fifo)
    BY <2>1 DEF Older
  <2>3. \/ loop' # "resample"
        \/ current' = current /\ current = participant
    OBVIOUS
  <2>4. merged <= participant
        /\ (loop = "resample" \/ InFlight = 0)
    BY DEF OldAudio, InFlight
  <2>5. InFlight' = 0
    BY <2>4 DEF InFlight, Numbers
  <2>6. Older(hold) \in Nat /\ Older(fifo) \in Nat /\ InFlight \in Nat
    BY <2>1, AudioCount DEF Older, Count, InFlight
  <2> HIDE DEF Fetch, SelectDone, Tick, SelectClosed, SelectFrame, Recheck,
               DropFrame, WriteEnds
  <2> QED
    BY <2>1, <2>2, <2>5, <2>6 DEF OldAudio, Numbers
<1> QED
  BY <1>1, <1>2, <1>3, <1>4, <1>5, <1>6, <1>7, <1>8

\* The loop returns, and nothing is left in its hands.
LEMMA LoopReturns ==
  ASSUME IInv, LoopEnds, loop # "off"
  PROVE  IInv'
<1> USE EgressAssumption
       DEF IInv, Caller, lockVars, eVars, confVars, loopRest, LoopEnds, None
<1>1. Places' /\ Flags'
  BY DEF Places, Flags
<1>2. Numbers'
  BY DEF Numbers
<1>3. Audio'
  BY DEF Audio
<1>4. LockHeld' /\ RunGone'
  BY DEF LockHeld, RunGone
<1>5. Building' /\ Cancelled'
  BY DEF Building, Cancelled
<1>6. InLoop'
  BY DEF InLoop
<1>7. OldAudio'
  <2>1. Older(hold)' = 0 /\ Older(fifo)' = 0
    <3>1. /\ {i \in 1..Len(hold') : hold'[i] < merged'} = {}
          /\ {i \in 1..Len(fifo') : fifo'[i] < merged'} = {}
      OBVIOUS
    <3> QED
      BY <3>1, FS_EmptySet DEF Older
  <2>2. Older(hold) \in Nat /\ Older(fifo) \in Nat /\ InFlight \in Nat
    BY AudioCount DEF Numbers, Audio, Older, Count, InFlight
  <2>3. InFlight' = 0
    BY DEF InFlight
  <2>4. late' = late /\ merged' = merged /\ participant' = participant
    OBVIOUS
  <2> HIDE DEF LoopEnds
  <2> QED
    BY <2>1, <2>2, <2>3, <2>4 DEF OldAudio, Numbers
<1> QED
  BY <1>1, <1>2, <1>3, <1>4, <1>5, <1>6, <1>7

\* The resampler takes a frame and gives out what it does not hold back.
LEMMA ResampleStep ==
  ASSUME IInv, Resample
  PROVE  IInv'
<1> USE EgressAssumption DEF IInv, loopRest
<1> DEFINE new == [u \in 1..Frame |-> current]
           audio == fifo \o new
<1>1. /\ loop = "resample" /\ UNCHANGED <<current, merged, participant, late>>
      /\ merged \in Int /\ late \in Nat
      /\ hold \in Seq(Participant) /\ fifo \in Seq(Participant)
  BY DEF Resample, eVars, Numbers, Audio
<1>2. \/ loop' = "fetch" /\ UNCHANGED <<fifo, hold>>
      \/ \E n \in 0..Len(audio) :
           /\ loop' = "write" /\ Len(audio) - n <= Delay
           /\ hold' = hold \o SubSeq(audio, 1, n)
           /\ fifo' = SubSeq(audio, n + 1, Len(audio))
  BY DEF Resample
<1>3. LockHeld' /\ RunGone' /\ Building' /\ Cancelled'
  BY DEF Resample, lockVars, eVars, confVars, LockHeld, RunGone, Building,
         Cancelled
<1>4. Places' /\ Flags' /\ Numbers'
  BY DEF Resample, lockVars, eVars, confVars, Places, Flags, Numbers
<1>5. /\ Len(hold) \in Nat /\ Len(fifo) \in Nat
      /\ Older(hold) \in Nat /\ Older(fifo) \in Nat
  BY <1>1, AudioCount DEF Older, Count
<1>6. /\ Len(hold) <= Frame - 1 /\ Len(fifo) <= Delay
      /\ current \in Participant /\ Participant \subseteq Int
  BY <1>1 DEF InLoop, Numbers, Audio, None, Participant
<1>7. CASE loop' = "fetch" /\ UNCHANGED <<fifo, hold>>
  <2>1. Older(hold)' = Older(hold) /\ Older(fifo)' = Older(fifo)
    BY <1>1, <1>7 DEF Older
  <2>2. Audio' /\ InLoop'
    BY <1>1, <1>7 DEF Audio, InLoop
  <2>3. OldAudio'
    BY <1>1, <1>5, <2>1 DEF OldAudio, InFlight
  <2> QED
    BY <1>3, <1>4, <2>2, <2>3
<1>8. ASSUME NEW n \in 0..Len(audio), loop' = "write", Len(audio) - n <= Delay,
             hold' = hold \o SubSeq(audio, 1, n),
             fifo' = SubSeq(audio, n + 1, Len(audio))
      PROVE  IInv'
  <2>1. /\ new \in Seq(Participant) /\ Len(new) = Frame
        /\ \A i \in 1..Len(new) : new[i] = current
    BY <1>6
  <2> HIDE DEF new, IInv
  <2>2. audio \in Seq(Participant) /\ Len(audio) = Len(fifo) + Frame
    BY <1>1, <2>1
  <2> HIDE DEF audio
  <2> DEFINE out == SubSeq(audio, 1, n)
  <2>3. /\ out \in Seq(Participant) /\ Len(out) = n
        /\ fifo' \in Seq(Participant) /\ Len(fifo') = Len(audio) - n
    BY <1>8, <2>2
  <2>4. hold' = hold \o out
    BY <1>8
  <2>5. Count(audio, merged) = Count(out, merged) + Count(fifo', merged)
    BY <1>1, <1>8, <2>2, AudioCount, CountSplit
  <2> HIDE DEF out
  <2>6. hold' \in Seq(Participant) /\ Len(hold') = Len(hold) + n
    BY <1>1, <2>3, <2>4, ConcatProperties
  <2>7. Count(hold', merged) = Count(hold, merged) + Count(out, merged)
    BY <1>1, <2>3, <2>4, AudioCount, CountConcat
  <2>8. Count(audio, merged) = Count(fifo, merged) + Count(new, merged)
    BY <1>1, <2>1, AudioCount, CountConcat DEF audio
  <2>9. Count(new, merged) = IF current < merged THEN Frame ELSE 0
    <3>1. new \in Seq(Int) /\ current \in Int
      BY <1>6, <2>1
    <3> QED
      BY <1>1, <2>1, <3>1, CountUniform
  <2>10. /\ Older(hold)' = Count(hold', merged)
         /\ Older(fifo)' = Count(fifo', merged)
         /\ Older(hold) = Count(hold, merged)
         /\ Older(fifo) = Count(fifo, merged)
    BY <1>1 DEF Older, Count
  <2>11. /\ Count(hold', merged) \in Nat /\ Count(fifo', merged) \in Nat
         /\ Count(out, merged) \in Nat
    BY <1>1, <2>3, <2>6, AudioCount
  <2>12. Audio'
    BY <1>8, <2>3, <2>6 DEF Audio
  <2>13. InLoop'
    <3>1. Len(hold') + Len(fifo') = Len(hold) + Len(fifo) + Frame
      BY <2>2, <2>3, <2>6
    <3>2. Len(hold') + Len(fifo') <= 2 * Frame - 1 + Delay
      BY <1>6, <3>1
    <3>3. current' # None
      BY <1>1, <1>6 DEF Participant, None
    <3> QED
      BY <3>2, <3>3 DEF InLoop
  <2>14. OldAudio'
    <3> DEFINE old == IF current < merged THEN Frame ELSE 0
               before == Older(hold) + Older(fifo)
               after == Older(hold)' + Older(fifo)'
    <3>1. merged <= participant /\ late + before + old <= 2 * Frame - 1 + Delay
      BY <1>1, <1>5 DEF IInv, OldAudio, InFlight
    <3>2. Count(new, merged) = old
      BY <2>9
    <3>3. before \in Nat /\ after \in Nat /\ old \in Nat /\ late \in Nat
      BY <1>1, <1>5, <2>10, <2>11
    <3> HIDE DEF old
    <3>4. after = before + old
      <4>1. after = Count(hold', merged) + Count(fifo', merged)
        BY <2>10
      <4>2. before = Count(hold, merged) + Count(fifo, merged)
        BY <2>10
      <4>3. Count(hold, merged) \in Nat /\ Count(fifo, merged) \in Nat
        BY <1>5, <2>10
      <4>4. after = Count(hold, merged) + Count(audio, merged)
        BY <2>5, <2>7, <2>11, <4>1, <4>3
      <4>5. Count(audio, merged) = Count(fifo, merged) + old
        BY <2>8, <3>2
      <4> HIDE DEF before, after
      <4> QED
        BY <3>3, <4>2, <4>3, <4>4, <4>5
    <3>5. InFlight' = 0
      BY <1>8 DEF InFlight
    <3> HIDE DEF before, after
    <3>6. late + after + 0 <= 2 * Frame - 1 + Delay
      BY <3>1, <3>3, <3>4
    <3>7. late' + Older(hold)' + Older(fifo)' + InFlight' = late + after + 0
      BY <1>1, <2>10, <2>11, <3>5 DEF after
    <3> QED
      BY <1>1, <3>1, <3>6, <3>7 DEF OldAudio
  <2> QED
    BY <1>3, <1>4, <2>12, <2>13, <2>14 DEF IInv
<1> HIDE DEF audio
<1> QED
  BY <1>2, <1>7, <1>8

\* A frame is written.
LEMMA WriteFrameStep ==
  ASSUME IInv, WriteFrame
  PROVE  IInv'
<1> USE EgressAssumption DEF IInv, loopRest, WriteFrame, WritesFrame
<1> DEFINE frame == SubSeq(hold, 1, Frame)
<1>1. /\ hold \in Seq(Participant) /\ fifo \in Seq(Participant)
      /\ merged \in Int /\ late \in Nat
      /\ merged' = merged /\ fifo' = fifo /\ participant' = participant
      /\ loop = "write" /\ loop' = "write" /\ late' = late + Older(frame)
      /\ Frame <= Len(hold) /\ hold' = SubSeq(hold, Frame + 1, Len(hold))
  BY DEF Numbers, Audio, eVars
<1>2. Len(hold) \in Nat /\ Frame \in 0..Len(hold) /\ Len(fifo) \in Nat
  OBVIOUS
<1>3. /\ hold' \in Seq(Participant) /\ Len(hold') = Len(hold) - Frame
      /\ frame \in Seq(Participant)
  BY <1>1
<1>4. Count(hold, merged) = Count(frame, merged) + Count(hold', merged)
  BY <1>1, AudioCount, CountSplit
<1> HIDE DEF frame
<1>5. /\ Older(hold) = Count(hold, merged)
      /\ Older(hold)' = Count(hold', merged)
      /\ Older(frame) = Count(frame, merged)
      /\ Older(fifo)' = Older(fifo) /\ Older(fifo) = Count(fifo, merged)
  BY DEF Older, Count
<1>6. /\ Count(frame, merged) \in Nat /\ Count(hold', merged) \in Nat
      /\ Count(fifo, merged) \in Nat
  BY <1>1, <1>3, AudioCount
<1>7. Places' /\ Flags' /\ Numbers'
  BY <1>1, <1>5, <1>6 DEF lockVars, eVars, confVars, Places, Flags, Numbers
<1>8. Audio'
  BY DEF Audio
<1>9. LockHeld' /\ RunGone' /\ Building' /\ Cancelled'
  BY DEF lockVars, eVars, confVars, LockHeld, RunGone, Building, Cancelled
<1>10. InLoop'
  BY DEF InLoop
<1>11. OldAudio'
  <2>1. /\ merged <= participant
        /\ late + Older(hold) + Older(fifo) <= 2 * Frame - 1 + Delay
    BY <1>1, <1>4, <1>5, <1>6 DEF OldAudio, InFlight
  <2> HIDE DEF WriteFrame, WritesFrame, IInv
  <2> QED
    BY <1>1, <1>4, <1>5, <1>6, <2>1 DEF OldAudio, InFlight
<1> QED
  BY <1>7, <1>8, <1>9, <1>10, <1>11

-----------------------------------------------------------------------------
\* The invariant holds of every behaviour.
LEMMA InitIInv == Init => IInv
<1> SUFFICES ASSUME Init PROVE IInv
  OBVIOUS
<1>1. Places
  BY DEF Init, Places, PC
<1>2. Flags
  BY DEF Init, Flags
<1>3. Numbers
  BY EgressAssumption DEF Init, Numbers, None
<1>4. Audio
  BY EgressAssumption DEF Init, Audio
<1>5. LockHeld /\ Building /\ Cancelled /\ RunGone
  BY DEF Init, LockHeld, Building, Cancelled, RunGone, Stopping, Merging,
         Caller
<1>6. InLoop
  BY EgressAssumption DEF Init, InLoop
<1>7. OldAudio
  <2>1. Older(hold) = 0 /\ Older(fifo) = 0
    <3>1. /\ {i \in 1..Len(hold) : hold[i] < merged} = {}
          /\ {i \in 1..Len(fifo) : fifo[i] < merged} = {}
      BY DEF Init
    <3> QED
      BY <3>1, FS_EmptySet DEF Older
  <2> QED
    BY <2>1, EgressAssumption DEF Init, OldAudio, InFlight, None
<1> QED
  BY <1>1, <1>2, <1>3, <1>4, <1>5, <1>6, <1>7 DEF IInv

LEMMA StutterStep ==
  ASSUME IInv, UNCHANGED vars
  PROVE  IInv'
  BY DEF vars, lockVars, eVars, loopVars, confVars, history, IInv, Places,
         Flags, Numbers, Audio, LockHeld, Building, Cancelled, RunGone, InLoop,
         OldAudio, InFlight, Older

LEMMA NextStep ==
  ASSUME IInv, [Next]_vars
  PROVE  IInv'
<1>1. CASE \/ Fetch \/ SelectDone \/ Tick \/ SelectClosed \/ SelectFrame
           \/ Recheck \/ DropFrame \/ WriteEnds
  <2>1. loop # "off"
    BY <1>1 DEF Fetch, SelectDone, Tick, SelectClosed, SelectFrame, Recheck,
                DropFrame, WriteEnds
  <2>2. CASE LoopEnds
    BY <2>1, <2>2, LoopReturns
  <2>3. CASE ~ LoopEnds
    BY <1>1, <2>3, LoopSteps
  <2> QED
    BY <2>2, <2>3
<1>2. CASE Start
  BY <1>2, StartSteps, CreateEgressStep DEF Start
<1>3. CASE RunStops \/ RunLeaves
  BY <1>3, RunSteps
<1>4. CASE \E c \in Caller : Stop(c) \/ CallsStop(c)
  BY <1>4, StopSteps, StopEnds DEF Stop
<1>5. CASE BeginMerge \/ ConnectTarget \/ EndMerge
  BY <1>5, MergeSteps, EndMergeStep
<1>6. CASE Resample \/ WriteFrame
  BY <1>6, ResampleStep, WriteFrameStep
<1>7. CASE TrackShut \/ \E p \in Participant : ChannelCloses(p)
  BY <1>7, ClosingSteps
<1> QED
  BY <1>1, <1>2, <1>3, <1>4, <1>5, <1>6, <1>7, StutterStep DEF Next, LoopStep

LEMMA IInvAlways == Spec => []IInv
  BY InitIInv, NextStep, PTL DEF Spec

\* The types, and that the loop never holds back a whole frame.
THEOREM EgressTypes == Spec => []TypeOK
<1>1. IInv => TypeOK
  BY DEF IInv, Places, Flags, Numbers, Audio, TypeOK
<1> QED
  BY <1>1, IInvAlways, PTL

\* After Run the participant is out of the conference, or the conference kept
\* it, and the loop is told to end, whatever an opcode, the room's events and
\* Start did meanwhile: Stop found an egress and cancelled it, or somebody else
\* did, and RunGone keeps another from coming (bridge.go:78-100,
\* job.go:150-170).
THEOREM EgressCleansUp == Spec => []EgressCleanedUp
<1>1. IInv => EgressCleanedUp
  BY DEF IInv, RunGone, Cancelled, EgressCleanedUp
<1> QED
  BY <1>1, IInvAlways, PTL

\* A loop that nobody stopped ends only when its own channel is closed or the
\* SDK has closed its track: while it runs the track is not nil, for only Stop
\* makes it so.
THEOREM EgressEndsForCause == Spec => EndsForCause
<1>1. ASSUME IInv, Next, loop # "exited", loop' = "exited"
      PROVE  stopped \/ participant \in closed \/ track = "shut"
  <2>1. SelectDone \/ SelectClosed \/ WriteEnds
    <3> USE <1>1
           DEF lockVars, eVars, loopVars, confVars, history, callerRest,
               loopRest, Goes, LoopGoes, LoopEnds
    <3>1. CASE Start \/ RunStops \/ RunLeaves
      BY <3>1
         DEF Start, ConnectEgress, SetEgressID, CreateEgress, AttachEgress,
             LaunchEgress, RunStops, RunLeaves
    <3>2. ASSUME NEW c \in Caller, Stop(c) \/ CallsStop(c) PROVE FALSE
      BY <3>2
         DEF Stop, StopEgress, FindsEgress, CloseTrack, CloseResampler,
             JoinLoop, DropEgress, CallsStop
    <3>3. CASE BeginMerge \/ ConnectTarget \/ EndMerge
      BY <3>3 DEF BeginMerge, Merges, ConnectTarget, EndMerge, EndsMerge
    <3>4. CASE LoopStep \/ SelectFrame
      BY <3>4
         DEF LoopStep, Fetch, Tick, Recheck, DropFrame, Resample, WriteFrame,
             SelectFrame
    <3>5. ASSUME NEW p \in Participant, ChannelCloses(p) PROVE FALSE
      BY <3>5 DEF ChannelCloses
    <3>6. CASE TrackShut
      BY <3>6 DEF TrackShut
    <3> QED
      BY <3>1, <3>2, <3>3, <3>4, <3>5, <3>6 DEF Next
  <2> QED
    BY <1>1, <2>1
       DEF IInv, Flags, Cancelled, SelectDone, SelectClosed, WriteEnds,
           LoopGoes, LoopEnds
<1>2. IInv /\ [Next]_vars
        => [loop # "exited" /\ loop' = "exited"
              => stopped \/ participant \in closed \/ track = "shut"]_vars
  BY <1>1
<1> QED
  BY <1>2, IInvAlways, PTL DEF Spec, EndsForCause

\* However long the loop runs and however often the conference is merged, the
\* room hears of the old one no more than what was under way.
THEOREM EgressOldAudio == Spec => []OldAudioBound
<1>1. IInv => OldAudioBound
  <2> SUFFICES ASSUME IInv PROVE OldAudioBound
    OBVIOUS
  <2>1. Older(hold) \in Nat /\ Older(fifo) \in Nat /\ InFlight \in Nat
    BY EgressAssumption, AudioCount
       DEF IInv, Numbers, Audio, Older, Count, InFlight
  <2> QED
    BY <2>1, EgressAssumption
       DEF IInv, Places, Flags, Numbers, OldAudio, OldAudioBound
<1> QED
  BY <1>1, IInvAlways, PTL

=============================================================================
