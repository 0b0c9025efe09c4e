---------------------------- MODULE StartupProofs ---------------------------
(***************************************************************************)
(* Startup, for every setting and every number of messages under way: one  *)
(* reader of the websocket, a worker that serves only when it is ready,    *)
(* and no job lost to register's goroutine.                                *)
(***************************************************************************)
EXTENDS Startup, TLAPS

\* A goroutine of register is in readMessage exactly while its iteration
\* waits for it; an iteration that has the response or an error is the last.
OneReader ==
  /\ reading = IF pc = "await" /\ answer = "none" THEN 1 ELSE 0
  /\ pc \notin {"await", "serve", "exited"} => answer \in {"none", "other"}

\* What main has behind it, by where it is.
Registered ==
  /\ pc \in {"build", "dial", "respond", "write", "spawn", "await", "serve"}
       => client = "registered"
  /\ pc = "serve" => server = "answered" /\ deadline = "off"

\* LiveKit says nothing before it is asked, and no job before its answer.
Unanswered ==
  /\ server # "idle" => pc \in {"spawn", "await", "serve", "exited"}
  /\ server # "answered" =>
       /\ \A k \in 1 .. Len(wire) : wire[k] = "other"
       /\ answer \in {"none", "error", "other"}
  /\ answer # "job"

\* While register still reads for the response, it is under way ahead of
\* every job, or the link is down and nothing more comes.
Expecting == pc \in {"spawn", "await"} /\ answer \notin {"registered", "error"}

AnswerFirst ==
  Expecting =>
    /\ server = "answered" /\ link
         => \E j \in 1 .. Len(wire) : wire[j] = "registered"
    /\ \A k \in 1 .. Len(wire) : wire[k] = "job"
         => \E j \in 1 .. k - 1 : wire[j] = "registered"

\* The limit is what Load made of the settings.
Limited ==
  pc \notin {"load", "exited"} /\ ~ FlagGiven(settings.max) => limit > 0

IInv ==
  /\ TypeOK /\ OneReader /\ Registered /\ Unanswered /\ AnswerFirst /\ Limited
  /\ LoopGetsAll

LEMMA InitIInv == Init => IInv
  BY StartupAssumption
     DEF Init, IInv, TypeOK, OneReader, Registered, Unanswered, AnswerFirst,
         Limited, LoopGetsAll, DefaultLimit

\* An unusable number in the environment is no number at all.
LEMMA EnvLimitPositive ==
  EnvLimit \in Int /\ EnvLimit > 0
  BY DEF EnvLimit, Number, DefaultLimit

\* config.Load, NewWorker and the dial.
LEMMA EarlySteps ==
  ASSUME IInv,
         \/ LoadFails \/ Load \/ NewClient \/ RegisterClient \/ Build
         \/ DialEnds \/ Dialed \/ Responded \/ Dials \/ Passes
  PROVE  IInv'
<1> USE DEF IInv, load, socket
<1>1. CASE Load
  <2>1. limit' \in Int /\ (~ FlagGiven(settings.max) => limit' > 0)
    BY <1>1, EnvLimitPositive DEF Load, FlagsBad, Number
  <2> QED
    BY <1>1, <2>1
       DEF Load, TypeOK, OneReader, Registered, Unanswered, Expecting,
           AnswerFirst, Limited, LoopGetsAll
<1>2. CASE \/ LoadFails \/ NewClient \/ RegisterClient \/ Build
           \/ DialEnds \/ Dialed \/ Responded
  BY <1>2
     DEF LoadFails, NewClient, RegisterClient, Build, DialEnds, Dialed,
         Responded, Exits, TypeOK, OneReader, Registered, Unanswered,
         AnswerFirst, Limited, LoopGetsAll
<1>3. CASE Dials \/ Passes
  BY <1>3
     DEF Dials, Passes, TypeOK, OneReader, Registered, Unanswered, Expecting,
         AnswerFirst, Limited, LoopGetsAll
<1> QED
  BY <1>1, <1>2, <1>3

\* register, but for its goroutine.
LEMMA RegisterSteps ==
  ASSUME IInv,
         \/ WriteRegister \/ SpawnReader \/ RegisterTimeout
         \/ RegisterFails \/ Receive
  PROVE  IInv'
<1> USE DEF IInv, load, socket, Exits
<1>1. CASE WriteRegister \/ RegisterTimeout \/ RegisterFails
  BY <1>1
     DEF WriteRegister, RegisterTimeout, RegisterFails, TypeOK, OneReader,
         Registered, Unanswered, Expecting, AnswerFirst, Limited, LoopGetsAll
<1>2. CASE SpawnReader
  BY <1>2
     DEF SpawnReader, TypeOK, OneReader, Registered, Unanswered, Expecting,
         AnswerFirst, Limited, LoopGetsAll
<1>3. CASE Receive
  BY <1>3
     DEF Receive, TypeOK, OneReader, Registered, Unanswered, Expecting,
         AnswerFirst, Limited, LoopGetsAll
<1> QED
  BY <1>1, <1>2, <1>3

\* A message leaves the wire.
LEMMA TailSteps ==
  ASSUME IInv, Reads \/ LoopReads
  PROVE  IInv'
<1> USE DEF IInv, load, TypeOK
<1>1. ASSUME wire # <<>>, wire' = Tail(wire)
      PROVE  /\ wire' \in Seq({"other", "registered", "job"})
             /\ Len(wire') <= MaxWire
             /\ Len(wire') = Len(wire) - 1 /\ Len(wire) > 0
             /\ Head(wire) = wire[1]
             /\ Head(wire) \in {"other", "registered", "job"}
             /\ \A k \in 1 .. Len(wire') : wire'[k] = wire[k + 1]
  BY <1>1, StartupAssumption
<1>2. CASE LoopReads
  BY <1>1, <1>2
     DEF LoopReads, OneReader, Registered, Unanswered, Expecting, AnswerFirst,
         Limited, LoopGetsAll
<1>3. CASE Reads
  <2>1. pc = "await" /\ answer = "none" /\ reading' = 0
    BY <1>3 DEF Reads, OneReader
  <2>2. CASE wire # <<>> /\ wire' = Tail(wire)
    <3>1. Head(wire) # "job" /\ strays' = 0
      BY <1>3, <2>1, <2>2 DEF Reads, AnswerFirst, Expecting, LoopGetsAll
    <3>2. AnswerFirst'
      <4>1. CASE Head(wire) = "registered"
        BY <1>3, <4>1 DEF Reads, AnswerFirst, Expecting
      <4>2. CASE Head(wire) = "other"
        <5>1. ASSUME NEW j \in 1 .. Len(wire), wire[j] # "other"
              PROVE  j - 1 \in 1 .. Len(wire') /\ wire'[j - 1] = wire[j]
          BY <2>2, <4>2, <5>1
        <5>2. server' = "answered" /\ link'
                => \E j \in 1 .. Len(wire') : wire'[j] = "registered"
          BY <1>3, <2>1, <5>1 DEF Reads, AnswerFirst, Expecting
        <5>3. ASSUME NEW k \in 1 .. Len(wire'), wire'[k] = "job"
              PROVE  \E j \in 1 .. k - 1 : wire'[j] = "registered"
          <6>1. k + 1 \in 1 .. Len(wire) /\ wire[k + 1] = "job"
            BY <2>2, <5>3
          <6>2. PICK j \in 1 .. (k + 1) - 1 : wire[j] = "registered"
            BY <2>1, <6>1 DEF AnswerFirst, Expecting
          <6>3. j \in 1 .. Len(wire)
            BY <6>1
          <6> QED
            BY <5>1, <6>2, <6>3
        <5> QED
          BY <5>2, <5>3 DEF AnswerFirst
      <4> QED
        BY <1>1, <2>2, <3>1, <4>1, <4>2
    <3> QED
      BY <1>1, <1>3, <2>1, <2>2, <3>1, <3>2
         DEF Reads, OneReader, Registered, Unanswered, Limited, LoopGetsAll
  <2> QED
    BY <1>3, <2>1, <2>2
       DEF Reads, OneReader, Registered, Unanswered, Expecting, AnswerFirst,
           Limited, LoopGetsAll
<1> QED
  BY <1>2, <1>3

\* A message enters it.
LEMMA ServerSendsStep ==
  ASSUME IInv, ServerSends
  PROVE  IInv'
<1> USE DEF IInv, load, TypeOK, ServerSends
<1>1. PICK m \in {"other", "registered", "job"} : wire' = Append(wire, m)
  OBVIOUS
<1>2. /\ wire' \in Seq({"other", "registered", "job"}) /\ Len(wire') <= MaxWire
      /\ Len(wire') = Len(wire) + 1 /\ wire'[Len(wire')] = m
      /\ \A k \in 1 .. Len(wire) : wire'[k] = wire[k]
  BY <1>1, StartupAssumption
<1>3. AnswerFirst'
  BY <1>1 DEF AnswerFirst, Expecting
<1> QED
  BY <1>1, <1>2, <1>3
     DEF OneReader, Registered, Unanswered, Limited, LoopGetsAll

\* The wire is lost, with what is on it or after it.
LEMMA LinkDownStep ==
  ASSUME IInv, LinkDown
  PROVE  IInv'
<1> USE DEF IInv, load, LinkDown
<1>1. /\ wire' \in Seq({"other", "registered", "job"}) /\ Len(wire') <= MaxWire
      /\ wire' = wire \/ Len(wire') = 0
  <2>1. CASE wire' = <<>>
    BY <2>1, StartupAssumption
  <2> QED
    BY <2>1 DEF TypeOK
<1>2. AnswerFirst' /\ Unanswered'
  BY DEF AnswerFirst, Expecting, Unanswered
<1> QED
  BY <1>1, <1>2 DEF TypeOK, OneReader, Registered, Limited, LoopGetsAll

LEMMA StutterStep ==
  ASSUME IInv, UNCHANGED vars
  PROVE  IInv'
  BY DEF vars, load, socket, IInv, TypeOK, OneReader, Registered, Unanswered,
         Expecting, AnswerFirst, Limited, LoopGetsAll

LEMMA IInvAlways == Spec => []IInv
<1>1. IInv /\ [Next]_vars => IInv'
  BY EarlySteps, RegisterSteps, TailSteps, ServerSendsStep, LinkDownStep,
     StutterStep DEF Next, Main
<1> QED
  BY InitIInv, <1>1, PTL DEF Spec

-----------------------------------------------------------------------------
\* The variables keep their types whatever the settings and the traffic, and
\* register never leaves a reader on the websocket when it starts another
\* (worker.go 301-332).
THEOREM StartupTypes == Spec => []TypeOK
<1>1. IInv => TypeOK
  BY DEF IInv
<1> QED
  BY <1>1, IInvAlways, PTL

\* Every way to "serve" goes through the conference service's and LiveKit's
\* registration, and ends the context that register waits with
\* (worker.go 107-131, 280-341).
THEOREM StartupReady == Spec => []ServesWhenReady
<1>1. IInv => ServesWhenReady
  BY DEF IInv, Registered, ServesWhenReady
<1> QED
  BY <1>1, IInvAlways, PTL

\* However long the wire and however many other messages come first, no job is
\* read by register's goroutine (worker.go 301-332).
THEOREM StartupKeepsJobs == Spec => []LoopGetsAll
<1>1. IInv => LoopGetsAll
  BY DEF IInv
<1> QED
  BY <1>1, IInvAlways, PTL

\* Every combination of shell and file leaves a limit above zero, unless a flag
\* says otherwise (config.go 81-85, 109).
THEOREM StartupLimit == Spec => []SafeLimit
<1>1. IInv => SafeLimit
  BY DEF IInv, Limited, SafeLimit
<1> QED
  BY <1>1, IInvAlways, PTL

=============================================================================
