------------------------------ MODULE Ingress ------------------------------
(***************************************************************************)
(* processTrack (ingress_track.go): what the decoder and the resampler     *)
(* give is cut into frames, and what is left waits for the next packet.    *)
(*                                                                         *)
(* The n-th sample out of the resampler is the number n.  The buffer       *)
(* remainingSamples keeps one array for its life; Go's append writes into  *)
(* that array when the result fits and makes a new one when it does not,   *)
(* so a frame cut from the result may be a part of the array that later    *)
(* samples go into.  The receivers of a frame may keep it.                 *)
(***************************************************************************)
EXTENDS Integers, Sequences

CONSTANTS
  Frame,      \* samples in a frame: 480 in the code
  MaxPacket,  \* bound: samples out of the resampler for one packet
  MaxSample   \* bound: samples in all

ASSUME IngressAssumption ==
  /\ Frame \in Nat \ {0}
  /\ MaxPacket \in Nat \ {0}
  /\ MaxSample \in Nat

VARIABLES
  pc,         \* "read", "cut" or "ended"
  total,      \* samples so far
  array,      \* the array of remainingSamples
  remaining,  \* len(t.remainingSamples)
  combined,   \* combinedSamples: its samples
  offset,     \* where combined begins in array, or Apart
  frames      \* the frames given to the tap and the client, in order

vars == <<pc, total, array, remaining, combined, offset, frames>>

Apart == -1  \* in an array of its own

\* Fault: room for two frames.
Capacity_TwoFrames == 2 * Frame

\* NewIngressTrack: room for one frame.
Capacity == Frame

\* The array after s was copied to its beginning.
Overwrite(s) ==
  [i \in 1..Capacity |-> IF i <= Len(s) THEN s[i] ELSE array[i]]

Init ==
  /\ pc = "read" /\ total = 0
  /\ array = [i \in 1..Capacity |-> 0] /\ remaining = 0
  /\ combined = <<>> /\ offset = Apart
  /\ frames = <<>>

-----------------------------------------------------------------------------
\* The context is done or Read fails.
ReadFails ==
  /\ pc = "read"
  /\ pc' = "ended"
  /\ UNCHANGED <<total, array, remaining, combined, offset, frames>>

\* A packet that is no RTP, has no payload, does not decode or resample, or
\* whose samples the resampler holds back.
NoSamples == pc = "read" /\ UNCHANGED vars

\* The samples of a packet, n of them, are appended to what remains.
AppendsTo(rest, n) ==
  LET samples == rest \o [i \in 1..n |-> total + i]
  IN  /\ pc = "read" /\ total + n <= MaxSample
      /\ pc' = "cut"
      /\ total' = total + n
      /\ combined' = samples
      /\ remaining' = 0
      /\ IF Len(samples) <= Capacity
           THEN offset' = 0 /\ array' = Overwrite(samples)
           ELSE offset' = Apart /\ UNCHANGED array
      /\ UNCHANGED frames

\* Fault: the buffer is cleared first.
Combine_ClearsFirst(n) == AppendsTo(<<>>, n)

Combine(n) == AppendsTo(SubSeq(array, 1, remaining), n)

\* The next frame goes to the tap and to the client.  A send that fails, or
\* comes before the conference is in sync, is not repeated.
CutsFrame ==
  /\ pc = "cut"
  /\ frames' = Append(frames, [samples |-> SubSeq(combined, 1, Frame),
                               offset |-> offset,
                               last |-> Len(combined) = Frame])
  /\ combined' = SubSeq(combined, Frame + 1, Len(combined))
  /\ offset' = IF offset = Apart THEN Apart ELSE offset + Frame
  /\ UNCHANGED <<pc, total, array, remaining>>

Keeps ==
  /\ pc = "cut"
  /\ pc' = "read"
  /\ LET kept == SubSeq(array, 1, remaining) \o combined
         from == IF Len(kept) > Frame THEN Len(kept) - Frame ELSE 0
         some == SubSeq(kept, from + 1, Len(kept))
     IN  remaining' = Len(some) /\ array' = Overwrite(some)
  /\ combined' = <<>> /\ offset' = Apart
  /\ UNCHANGED <<total, frames>>

\* Fault: > for >= in the loop.
Cut_OffByOne ==
  \/ Len(combined) > Frame /\ CutsFrame
  \/ Len(combined) <= Frame /\ Keeps

\* Frames are cut while there is a whole one; what is left is copied to the
\* array, at most a frame of it and the newest.
Cut ==
  \/ Len(combined) >= Frame /\ CutsFrame
  \/ Len(combined) < Frame /\ Keeps

Next ==
  \/ ReadFails \/ NoSamples
  \/ \E n \in 1..MaxPacket : Combine(n)
  \/ Cut
  \/ pc = "ended" /\ UNCHANGED vars

Spec == Init /\ [][Next]_vars

-----------------------------------------------------------------------------
\* What a receiver that kept frame f finds in it now.
Content(f) ==
  IF f.offset = Apart THEN f.samples
  ELSE SubSeq(array, f.offset + 1, f.offset + Frame)

\* Between two packets less than a frame remains, so that the limit at
\* ingress_track.go:209 never drops a sample; the rest are types.
TypeOK ==
  /\ pc \in {"read", "cut", "ended"}
  /\ total \in 0..MaxSample
  /\ array \in [1..Capacity -> 0..MaxSample]
  /\ remaining \in 0..(Frame - 1)
  /\ combined \in Seq(1..MaxSample)
  /\ offset \in {Apart} \union 0..Capacity
  /\ \A i \in DOMAIN frames : Len(frames[i].samples) = Frame

\* The samples of all frames, one after the other.
Sent ==
  [i \in 1..(Len(frames) * Frame) |->
     frames[((i - 1) \div Frame) + 1].samples[((i - 1) % Frame) + 1]]

\* Every sample is sent once and in order, or still waits: cutting the whole
\* stream at once gives the same frames (ingress_track.go:169-216).
NothingLost ==
  Sent \o SubSeq(array, 1, remaining) \o combined = [i \in 1..total |-> i]

\* A frame that its receiver keeps is overwritten by later samples only when
\* it was the whole of what append had put into the array: the packet filled
\* the frame exactly (ingress_track.go:171, 178).
FramesKeepSamples ==
  \A i \in DOMAIN frames :
    Content(frames[i]) = frames[i].samples \/ frames[i].last

=============================================================================
