--------------------------- MODULE IngressProofs ---------------------------
(***************************************************************************)
(* Ingress, for every size of a frame and of a packet: the stream of       *)
(* samples is cut without loss, in order, and a frame that its receiver    *)
(* keeps is changed only when it filled the array.                         *)
(***************************************************************************)
EXTENDS Ingress, SequenceTheorems, TLAPS

\* Whatever is sent is numbered on from here.
Before == Len(frames) * Frame

Types ==
  /\ pc \in {"read", "cut", "ended"}
  /\ total \in 0..MaxSample
  /\ array \in [1..Frame -> 0..MaxSample]
  /\ remaining \in 0..(Frame - 1)
  /\ combined \in Seq(1..MaxSample)
  /\ offset \in {Apart} \union 0..Frame
  /\ frames \in Seq([samples : Seq(1..MaxSample),
                     offset : {Apart} \union 0..Frame, last : BOOLEAN])
  /\ \A f \in 1..Len(frames) : Len(frames[f].samples) = Frame

\* Samples wait in one place at a time.
OnePlace == IF pc = "cut" THEN remaining = 0 ELSE combined = <<>>

\* What was sent, what waits and what is at hand, one after the other.
InOrder ==
  /\ total = Before + remaining + Len(combined)
  /\ \A i \in 1..remaining : array[i] = Before + i
  /\ \A i \in 1..Len(combined) : combined[i] = Before + remaining + i
  /\ \A f \in 1..Len(frames), i \in 1..Frame :
       frames[f].samples[i] = (f - 1) * Frame + i

\* A frame that is a part of the array is the last one of its packet.
InArray ==
  /\ offset # Apart => offset + Len(combined) <= Frame
  /\ \A f \in 1..Len(frames) : frames[f].offset = Apart \/ frames[f].last

IInv == Types /\ OnePlace /\ InOrder /\ InArray

-----------------------------------------------------------------------------
\* A sequence that has all its elements in S, two sequences in a row, and one
\* with an element more.
LEMMA InSeq ==
  ASSUME NEW S, NEW T, NEW s \in Seq(T), \A i \in 1..Len(s) : s[i] \in S
  PROVE  s \in Seq(S)
<1>1. Len(s) \in Nat /\ s = [i \in 1..Len(s) |-> s[i]]
  OBVIOUS
<1>2. s \in [1..Len(s) -> S]
  OBVIOUS
<1> QED
  BY <1>1, <1>2, SeqDef

LEMMA Joined ==
  ASSUME NEW S, NEW s \in Seq(S), NEW t \in Seq(S)
  PROVE  /\ s \o t \in Seq(S) /\ Len(s \o t) = Len(s) + Len(t)
         /\ \A i \in 1..Len(s) : (s \o t)[i] = s[i]
         /\ \A i \in 1..Len(t) : (s \o t)[Len(s) + i] = t[i]
  OBVIOUS

-----------------------------------------------------------------------------
(* The steps.                                                              *)

\* The samples of a packet are appended.
LEMMA CombineStep ==
  ASSUME IInv, NEW n \in 1..MaxPacket, Combine(n)
  PROVE  IInv'
<1> USE IngressAssumption
<1> DEFINE rest == SubSeq(array, 1, remaining)
           new == [i \in 1..n |-> total + i]
           samples == rest \o new
<1>1. /\ pc = "read" /\ pc' = "cut"
      /\ total + n <= MaxSample /\ total' = total + n
      /\ combined' = samples /\ remaining' = 0 /\ frames' = frames
      /\ IF Len(samples) <= Capacity
           THEN offset' = 0 /\ array' = Overwrite(samples)
           ELSE offset' = Apart /\ array' = array
  BY DEF Combine, AppendsTo
<1>2. /\ n \in Nat /\ n # 0 /\ total \in Nat
      /\ remaining \in Nat /\ remaining < Frame
      /\ Frame \in Nat /\ MaxSample \in Nat
  BY DEF IInv, Types
<1>3. /\ rest \in Seq(0..MaxSample) /\ Len(rest) = remaining
      /\ \A i \in 1..remaining : rest[i] = array[i]
  <2>1. array \in Seq(0..MaxSample) /\ Len(array) = Frame
    BY DEF IInv, Types
  <2> QED
    BY <1>2, <2>1
<1>4. /\ new \in Seq(0..MaxSample) /\ Len(new) = n
      /\ \A i \in 1..n : new[i] = total + i
  BY <1>1, <1>2
<1> HIDE DEF rest, new
<1>5. /\ samples \in Seq(0..MaxSample) /\ Len(samples) = remaining + n
      /\ \A i \in 1..remaining : samples[i] = rest[i]
      /\ \A i \in 1..n : samples[remaining + i] = new[i]
  <2>1. /\ samples \in Seq(0..MaxSample) /\ Len(samples) = Len(rest) + Len(new)
        /\ \A i \in 1..Len(rest) : samples[i] = rest[i]
        /\ \A i \in 1..Len(new) : samples[Len(rest) + i] = new[i]
    <3>1. /\ rest \in Seq(0..MaxSample) /\ new \in Seq(0..MaxSample)
          /\ samples = rest \o new
      BY <1>3, <1>4
    <3> HIDE DEF samples
    <3> QED
      BY <3>1, Joined
  <2> QED
    BY <1>3, <1>4, <2>1
<1> HIDE DEF samples
<1>6. Before \in Nat /\ Before' = Before /\ total = Before + remaining
  <2>1. Len(frames) \in Nat /\ combined = <<>>
    BY <1>1 DEF IInv, OnePlace
  <2>2. Before \in Nat
    BY DEF Before
  <2> QED
    BY <1>1, <1>2, <2>1, <2>2 DEF IInv, InOrder, Before
<1>7. \A i \in 1..Len(samples) : samples[i] = Before + i
  <2> SUFFICES ASSUME NEW i \in 1..Len(samples) PROVE samples[i] = Before + i
    OBVIOUS
  <2>1. CASE i <= remaining
    <3>1. i \in 1..remaining
      BY <2>1
    <3>2. samples[i] = array[i] /\ array[i] = Before + i
      BY <1>3, <1>5, <3>1 DEF IInv, InOrder
    <3> QED
      BY <3>2
  <2>2. CASE i > remaining
    <3>1. i - remaining \in 1..n /\ remaining + (i - remaining) = i
      BY <1>2, <1>5, <2>2
    <3>2. samples[i] = total + (i - remaining)
      BY <1>4, <1>5, <3>1
    <3> QED
      BY <1>2, <1>6, <3>2
  <2> QED
    BY <1>2, <1>5, <2>1, <2>2
<1>8. samples \in Seq(1..MaxSample)
  <2>1. \A i \in 1..Len(samples) : samples[i] \in 1..MaxSample
    <3> SUFFICES ASSUME NEW i \in 1..Len(samples)
                 PROVE  samples[i] \in 1..MaxSample
      OBVIOUS
    <3>1. samples[i] = Before + i /\ i \in 1..(remaining + n)
      BY <1>5, <1>7
    <3>2. Before + remaining + n <= MaxSample
      BY <1>1, <1>6
    <3> QED
      BY <1>2, <1>6, <3>1, <3>2
  <2> QED
    BY <1>2, <1>5, <2>1, InSeq
<1>9. /\ array' \in [1..Frame -> 0..MaxSample]
      /\ offset' \in {Apart} \union 0..Frame
      /\ (offset' # Apart => offset' + Len(samples) <= Frame)
  <2>1. array \in [1..Frame -> 0..MaxSample]
    BY DEF IInv, Types
  <2>2. CASE Len(samples) <= Frame
    <3>1. \A i \in 1..Len(samples) : samples[i] \in 0..MaxSample
      BY <1>5
    <3>2. ASSUME NEW i \in 1..Frame
          PROVE  (IF i <= Len(samples) THEN samples[i] ELSE array[i])
                   \in 0..MaxSample
      <4>1. i <= Len(samples) => i \in 1..Len(samples)
        OBVIOUS
      <4> QED
        BY <2>1, <3>1, <4>1
    <3>3. array' = Overwrite(samples) /\ offset' = 0
      BY <1>1, <2>2 DEF Capacity
    <3> QED
      BY <1>2, <1>5, <2>2, <3>2, <3>3 DEF Overwrite, Capacity
  <2>3. CASE ~ (Len(samples) <= Frame)
    BY <1>1, <2>1, <2>3 DEF Capacity
  <2> QED
    BY <2>2, <2>3
<1>10. Types'
  BY <1>1, <1>2, <1>8, <1>9 DEF IInv, Types
<1>11. InOrder'
  <2>1. total' = Before' + remaining' + Len(combined')
    BY <1>1, <1>2, <1>5, <1>6
  <2>2. \A i \in 1..Len(combined') : combined'[i] = Before' + remaining' + i
    BY <1>1, <1>6, <1>7
  <2>3. \A f \in 1..Len(frames'), i \in 1..Frame :
          frames'[f].samples[i] = (f - 1) * Frame + i
    BY <1>1 DEF IInv, InOrder
  <2>4. \A i \in 1..remaining' : array'[i] = Before' + i
    BY <1>1
  <2> QED
    BY <2>1, <2>2, <2>3, <2>4 DEF InOrder
<1>12. OnePlace' /\ InArray'
  BY <1>1, <1>9 DEF IInv, OnePlace, InArray
<1> QED
  BY <1>10, <1>11, <1>12 DEF IInv

\* A frame is cut off and sent.
LEMMA CutsFrameStep ==
  ASSUME IInv, CutsFrame, Len(combined) >= Frame
  PROVE  IInv'
<1> USE IngressAssumption
<1> DEFINE cut == SubSeq(combined, 1, Frame)
           frame == [samples |-> cut, offset |-> offset,
                     last |-> Len(combined) = Frame]
<1>1. /\ pc = "cut" /\ frames' = Append(frames, frame)
      /\ combined' = SubSeq(combined, Frame + 1, Len(combined))
      /\ offset' = IF offset = Apart THEN Apart ELSE offset + Frame
      /\ pc' = pc /\ total' = total /\ array' = array /\ remaining' = remaining
  BY DEF CutsFrame
<1>2. /\ Frame \in Nat /\ Frame # 0
      /\ Len(combined) \in Nat /\ Len(frames) \in Nat
      /\ 1..Frame \subseteq 1..Len(combined)
      /\ combined \in Seq(1..MaxSample) /\ remaining = 0
  BY DEF IInv, Types, OnePlace
<1>3. /\ cut \in Seq(1..MaxSample) /\ Len(cut) = Frame
      /\ \A i \in 1..Frame : cut[i] = combined[i]
  BY <1>2
<1>4. /\ combined' \in Seq(1..MaxSample)
      /\ Len(combined') = Len(combined) - Frame
      /\ \A i \in 1..Len(combined') : combined'[i] = combined[Frame + i]
  <2> DEFINE tail == SubSeq(combined, Frame + 1, Len(combined))
  <2>1. /\ tail \in Seq(1..MaxSample) /\ Len(tail) = Len(combined) - Frame
        /\ \A i \in 1..Len(tail) : tail[i] = combined[Frame + i]
    BY <1>2
  <2> QED
    BY <1>1, <2>1
<1>5. offset # Apart => offset = 0 /\ Len(combined) = Frame
  BY DEF IInv, Types, InArray
<1>6. /\ frame \in [samples : Seq(1..MaxSample),
                   offset : {Apart} \union 0..Frame, last : BOOLEAN]
      /\ frame.samples = cut /\ (frame.offset = Apart \/ frame.last)
  BY <1>3, <1>5 DEF IInv, Types
<1> HIDE DEF frame, cut
<1>7. /\ frames' \in Seq([samples : Seq(1..MaxSample),
                          offset : {Apart} \union 0..Frame, last : BOOLEAN])
      /\ Len(frames') = Len(frames) + 1
      /\ \A f \in 1..Len(frames) : frames'[f] = frames[f]
      /\ frames'[Len(frames) + 1] = frame
  BY <1>1, <1>6 DEF IInv, Types
<1>8. Before \in Nat /\ Before' = Before + Frame
  BY <1>2, <1>7 DEF Before
<1>9. Types'
  <2>1. ASSUME NEW f \in 1..Len(frames') PROVE Len(frames'[f].samples) = Frame
    <3>1. f \in 1..Len(frames) \/ f = Len(frames) + 1
      BY <1>7
    <3> QED
      BY <1>3, <1>6, <1>7, <3>1 DEF IInv, Types
  <2>2. offset' \in {Apart} \union 0..Frame
    BY <1>1, <1>5
  <2> QED
    BY <1>1, <1>2, <1>4, <1>7, <2>1, <2>2 DEF IInv, Types
<1>10. InOrder'
  <2>1. \A i \in 1..Len(combined) : combined[i] = Before + i
    BY <1>2, <1>8 DEF IInv, InOrder
  <2>2. \A i \in 1..Len(combined') : combined'[i] = Before' + remaining' + i
    BY <1>1, <1>2, <1>8, <2>1
  <2>3. ASSUME NEW f \in 1..Len(frames'), NEW i \in 1..Frame
        PROVE  frames'[f].samples[i] = (f - 1) * Frame + i
    <3>1. CASE f \in 1..Len(frames)
      <4>1. frames[f].samples[i] = (f - 1) * Frame + i
        BY <3>1 DEF IInv, InOrder
      <4> QED
        BY <1>7, <3>1, <4>1
    <3>2. CASE f = Len(frames) + 1
      <4>1. f - 1 = Len(frames)
        BY <3>2
      <4> QED
        <5>1. frames'[f].samples = cut
          BY <1>6, <1>7, <3>2
        <5>2. cut[i] = Before + i
          BY <1>3, <2>1
        <5> QED
          BY <4>1, <5>1, <5>2 DEF Before
    <3> QED
      BY <1>2, <1>7, <3>1, <3>2
  <2>4. total' = Before' + remaining' + Len(combined')
    <3>1. total = Before + remaining + Len(combined)
      BY DEF IInv, InOrder
    <3>2. Before' \in Nat /\ Len(combined') \in Nat
      BY <1>8
    <3>3. total' = total /\ remaining' = remaining
      BY <1>1
    <3> QED
      BY <1>2, <1>4, <1>8, <3>1, <3>2, <3>3
  <2>5. \A i \in 1..remaining' : array'[i] = Before' + i
    BY <1>1, <1>2
  <2> QED
    BY <2>2, <2>3, <2>4, <2>5 DEF InOrder
<1>11. InArray'
  <2>1. offset' # Apart => offset' + Len(combined') <= Frame
    BY <1>1, <1>5
  <2>2. ASSUME NEW f \in 1..Len(frames')
        PROVE  frames'[f].offset = Apart \/ frames'[f].last
    <3>1. f \in 1..Len(frames) \/ f = Len(frames) + 1
      BY <1>7
    <3> QED
      BY <1>6, <1>7, <3>1 DEF IInv, InArray
  <2> QED
    BY <2>1, <2>2 DEF InArray
<1>12. OnePlace'
  BY <1>1, <1>2 DEF OnePlace
<1> QED
  BY <1>9, <1>10, <1>11, <1>12 DEF IInv

\* The rest waits in the array: all of it, for it is less than a frame.
LEMMA KeepsStep ==
  ASSUME IInv, Keeps, Len(combined) < Frame
  PROVE  IInv'
<1> USE IngressAssumption
<1> DEFINE none == SubSeq(array, 1, remaining)
<1>1. /\ Frame \in Nat /\ Frame # 0 /\ Len(combined) \in Nat
      /\ pc = "cut" /\ remaining = 0 /\ combined \in Seq(1..MaxSample)
      /\ Before \in Nat /\ Len(frames) \in Nat
  BY DEF IInv, Types, OnePlace, Keeps, Before
<1>2. none = <<>>
  <2>1. array \in Seq(0..MaxSample) /\ Len(array) = Frame
    BY DEF IInv, Types
  <2> QED
    BY <1>1, <2>1
<1> HIDE DEF none
<1>3. none \o combined = combined
  BY <1>2
<1>4. SubSeq(combined, 0 + 1, Len(combined)) = combined
  BY <1>1
<1>5. /\ pc' = "read" /\ remaining' = Len(combined)
      /\ array' = Overwrite(combined) /\ combined' = <<>>
      /\ offset' = Apart /\ total' = total /\ frames' = frames
  <2>1. Len(combined) = 0 + Len(combined) /\ ~ (Len(combined) > Frame)
    OBVIOUS
  <2> QED
    BY <1>3, <1>4, <2>1 DEF Keeps, none
<1>6. array' \in [1..Frame -> 0..MaxSample]
      /\ \A i \in 1..Len(combined) : array'[i] = combined[i]
  BY <1>1, <1>5 DEF IInv, Types, Overwrite, Capacity
<1>7. Types'
  BY <1>5, <1>6 DEF IInv, Types
<1>8. InOrder'
  BY <1>1, <1>5, <1>6 DEF IInv, InOrder, Before
<1>9. OnePlace' /\ InArray'
  BY <1>5 DEF IInv, OnePlace, InArray
<1> QED
  BY <1>7, <1>8, <1>9 DEF IInv

LEMMA InitIInv == Init => IInv
  BY IngressAssumption
     DEF Init, IInv, Types, OnePlace, InOrder, InArray, Before, Capacity

\* The track ends, or a packet brings nothing.
LEMMA SameIInv ==
  ASSUME IInv, UNCHANGED <<total, array, remaining, combined, offset, frames>>,
         pc' = pc \/ (pc = "read" /\ pc' = "ended")
  PROVE  IInv'
  BY DEF IInv, Types, OnePlace, InOrder, InArray, Before

LEMMA IInvAlways == Spec => []IInv
<1>1. IInv /\ [Next]_vars => IInv'
  BY CombineStep, CutsFrameStep, KeepsStep, SameIInv
     DEF Next, Cut, ReadFails, NoSamples, vars
<1> QED
  BY InitIInv, <1>1, PTL DEF Spec

-----------------------------------------------------------------------------
\* The types, and with them: between two packets less than a frame waits in
\* remainingBuf (ingress_track.go:204-216).
THEOREM IngressTypes == Spec => []TypeOK
<1>1. IInv => TypeOK
  BY DEF IInv, Types, TypeOK, Capacity
<1> QED
  BY <1>1, IInvAlways, PTL

\* For every size of packet, a frame that its receiver keeps has the samples it
\* was sent with, unless it is the last of its packet and a part of the array:
\* the frames before the last lie in memory of their own
\* (ingress_track.go:169-216).
THEOREM IngressKeepsFrames == Spec => []FramesKeepSamples
<1>1. IInv => FramesKeepSamples
  BY DEF IInv, InArray, FramesKeepSamples, Content
<1> QED
  BY <1>1, IInvAlways, PTL

\* Every whole number is some frames and a rest.
LEMMA Division ==
  ASSUME NEW k \in Nat, NEW m \in Nat, NEW d \in Nat \ {0}, k < m * d
  PROVE  \E q \in 0..(m - 1), r \in 0..(d - 1) :
           q = k \div d /\ r = k % d /\ k = q * d + r
<1>1. k \div d \in Nat /\ k % d \in 0..(d - 1)
  OBVIOUS
<1>2. k % d = k - d * (k \div d)
  OBVIOUS
<1>3. PICK q \in Nat, r \in 0..(d - 1) : q = k \div d /\ r = k % d
  OBVIOUS
<1>4. r = k - d * q
  BY <1>3
<1>5. k = q * d + r
  BY <1>4
<1>6. q < m
  BY <1>5
<1> QED
  BY <1>3, <1>5, <1>6

\* However the packets divide the stream, what was sent, what waits and what is
\* at hand are the whole of it, in order (ingress_track.go:169-216).
THEOREM IngressLosesNothing == Spec => []NothingLost
<1>1. IInv => NothingLost
  <2> SUFFICES ASSUME IInv PROVE NothingLost
    OBVIOUS
  <2> USE IngressAssumption
  <2> DEFINE kept == SubSeq(array, 1, remaining)
             stream == Sent \o kept \o combined
  <2>1. /\ Before \in Nat /\ remaining \in Nat
        /\ Len(combined) \in Nat /\ combined \in Seq(Int)
        /\ Len(frames) \in Nat /\ Frame \in Nat \ {0} /\ total \in Nat
    BY DEF IInv, Types, Before
  <2>2. /\ Sent \in Seq(Int) /\ Len(Sent) = Before
        /\ \A k \in 1..Before : Sent[k] = k
    <3>1. ASSUME NEW k \in 1..Before
          PROVE  frames[((k - 1) \div Frame) + 1].samples
                     [((k - 1) % Frame) + 1] = k
      <4>1. k - 1 \in Nat /\ k - 1 < Len(frames) * Frame
        BY DEF Before
      <4>2. PICK f \in 0..(Len(frames) - 1), i \in 0..(Frame - 1) :
              /\ f = (k - 1) \div Frame /\ i = (k - 1) % Frame
              /\ k - 1 = f * Frame + i
        BY <2>1, <4>1, Division
      <4>3. frames[f + 1].samples[i + 1] = ((f + 1) - 1) * Frame + (i + 1)
        BY DEF IInv, InOrder
      <4>4. ((f + 1) - 1) * Frame + (i + 1) = k
        BY <4>2
      <4> QED
        BY <4>2, <4>3, <4>4
    <3>2. Sent = [k \in 1..Before |-> k]
      BY <3>1 DEF Sent, Before
    <3> QED
      BY <2>1, <3>2
  <2>3. /\ kept \in Seq(Int) /\ Len(kept) = remaining
        /\ \A i \in 1..remaining : kept[i] = Before + i
    <3>1. array \in Seq(Int) /\ Len(array) = Frame /\ remaining <= Frame
      BY DEF IInv, Types
    <3> QED
      BY <2>1, <3>1 DEF IInv, InOrder
  <2>4. \A i \in 1..Len(combined) : combined[i] = Before + remaining + i
    BY DEF IInv, InOrder
  <2> HIDE DEF kept
  <2>5. /\ Sent \o kept \in Seq(Int) /\ Len(Sent \o kept) = Before + remaining
        /\ \A k \in 1..(Before + remaining) : (Sent \o kept)[k] = k
    <3> DEFINE first == Sent \o kept
    <3>1. /\ first \in Seq(Int) /\ Len(first) = Before + remaining
          /\ \A i \in 1..Before : first[i] = i
          /\ \A i \in 1..remaining : first[Before + i] = Before + i
      <4>1. /\ first \in Seq(Int) /\ Len(first) = Len(Sent) + Len(kept)
            /\ \A i \in 1..Len(Sent) : first[i] = Sent[i]
            /\ \A i \in 1..Len(kept) : first[Len(Sent) + i] = kept[i]
        <5>1. Sent \in Seq(Int) /\ kept \in Seq(Int) /\ first = Sent \o kept
          BY <2>2, <2>3
        <5> HIDE DEF first
        <5> QED
          BY <5>1, Joined
      <4> HIDE DEF first
      <4> QED
        BY <2>2, <2>3, <4>1
    <3> HIDE DEF first
    <3>2. ASSUME NEW k \in 1..(Before + remaining) PROVE first[k] = k
      <4>1. CASE k <= Before
        BY <3>1, <4>1
      <4>2. CASE k > Before
        <5>1. k - Before \in 1..remaining /\ Before + (k - Before) = k
          BY <2>1, <4>2
        <5> QED
          BY <3>1, <5>1
      <4> QED
        BY <2>1, <4>1, <4>2
    <3> QED
      BY <3>1, <3>2 DEF first
  <2>6. /\ stream \in Seq(Int) /\ Len(stream) = total
        /\ \A k \in 1..total : stream[k] = k
    <3>1. total = Before + remaining + Len(combined)
      BY DEF IInv, InOrder
    <3>2. /\ stream \in Seq(Int)
          /\ Len(stream) = Before + remaining + Len(combined)
          /\ \A i \in 1..(Before + remaining) : stream[i] = i
          /\ \A i \in 1..Len(combined) :
               stream[Before + remaining + i] = Before + remaining + i
      <4> DEFINE first == Sent \o kept
      <4>1. first \in Seq(Int) /\ stream = first \o combined
        BY <2>5
      <4> HIDE DEF first, stream
      <4>2. /\ stream \in Seq(Int) /\ Len(stream) = Len(first) + Len(combined)
            /\ \A i \in 1..Len(first) : stream[i] = first[i]
            /\ \A i \in 1..Len(combined) : stream[Len(first) + i] = combined[i]
        BY <2>1, <4>1
      <4>3. /\ Len(first) = Before + remaining
            /\ \A k \in 1..(Before + remaining) : first[k] = k
        BY <2>5 DEF first
      <4> QED
        BY <2>1, <2>4, <4>2, <4>3
    <3> HIDE DEF stream
    <3>3. ASSUME NEW k \in 1..total PROVE stream[k] = k
      <4>1. CASE k <= Before + remaining
        BY <3>2, <4>1
      <4>2. CASE k > Before + remaining
        <5>1. /\ k - (Before + remaining) \in 1..Len(combined)
              /\ Before + remaining + (k - (Before + remaining)) = k
          BY <2>1, <3>1, <4>2
        <5> QED
          BY <3>2, <5>1
      <4> QED
        BY <2>1, <4>1, <4>2
    <3> QED
      BY <3>1, <3>2, <3>3
  <2> HIDE DEF stream
  <2>7. stream = [k \in 1..total |-> k]
    BY <2>6
  <2> QED
    BY <2>7 DEF NothingLost, stream, kept
<1> QED
  BY <1>1, IInvAlways, PTL

=============================================================================
