------------------------------ MODULE Startup ------------------------------
(***************************************************************************)
(* From main to the first job: config.Load, NewWorker, and Start up to the *)
(* message loop (main.go, config.go, worker.go).  What follows is Worker.  *)
(*                                                                         *)
(* Two settings stand for all: "url" for the four required ones and "max"  *)
(* for those with a default.  A value is what the code tells apart: text   *)
(* (no number), "zero" (any number below one) or "two" (any other).        *)
(***************************************************************************)
EXTENDS Integers, Sequences

CONSTANTS
  Urls, Maxs,  \* the settings to start with: records [shell, file, flag]
  JobTypes,    \* LK_JOB_TYPE: "", "JT_ROOM" or something else
  MaxWire      \* bound: messages under way from the LiveKit server

VARIABLES
  settings,    \* [url, max, jobType, file]: where the process was started
  limit,       \* cfg.MaxConcurrentJobs
  pc,          \* where main is
  client,      \* the conference client: "none", "open", "registered", "closed"
  dial,        \* the goroutine of Start: "none", "dialing", "failed",
               \*   "conn" (connChan is full) or "done" (respChan too)
  deadline,    \* the context main waits with: "off", "armed" or "passed"
  reading,     \* goroutines of register that are in readMessage
  answer,      \* what their channels hold: "none", "error" or a message
  link,        \* the websocket works
  wire,        \* messages under way, in order
  server,      \* LiveKit: "idle", "asked" or "answered"
  strays       \* history: jobs that a goroutine of register has read

load == <<settings, limit>>
socket == <<link, wire, server, strays>>
vars == <<load, pc, client, dial, deadline, reading, answer, socket>>

Values == {"unset", "", "text", "zero", "two"}

ASSUME StartupAssumption ==
  /\ Urls \union Maxs \subseteq [shell : Values, file : Values, flag : Values]
  /\ MaxWire \in Nat

Number == [zero |-> 0, two |-> 2]
DefaultLimit == 8

\* godotenv.Load: the file gives a value only to a name the shell does not
\* have; a name with an empty value is one it has.
Environment(setting) == IF setting.shell = "unset" THEN setting.file ELSE setting.shell

\* getEnv: an empty value is no value.
Present(value) == value \notin {"unset", ""}

\* Fault: any number will do.
EnvLimit_AnyNumber ==
  LET value == Environment(settings.max) IN
  IF value \in DOMAIN Number THEN Number[value] ELSE DefaultLimit

\* The limit before the flags are parsed.
EnvLimit ==
  LET value == Environment(settings.max) IN
  IF value \in DOMAIN Number /\ Number[value] > 0 THEN Number[value] ELSE DefaultLimit

\* A flag that is given counts, with an empty value too.
FlagGiven(setting) == setting.flag # "unset"

EnvironmentBad ==
  \/ settings.file = "unreadable"
  \/ settings.jobType \notin {"", "JT_ROOM", "JT_PUBLISHER"}

FlagsBad == FlagGiven(settings.max) /\ settings.max.flag \notin DOMAIN Number

UrlMissing ==
  IF FlagGiven(settings.url) THEN settings.url.flag = ""
                             ELSE ~ Present(Environment(settings.url))

Init ==
  /\ settings \in [url : Urls, max : Maxs, jobType : JobTypes,
                   file : {"missing", "read", "unreadable"}]
  /\ settings.file # "read" => settings.url.file = "unset" /\ settings.max.file = "unset"
  /\ limit = DefaultLimit
  /\ pc = "load"
  /\ client = "none" /\ dial = "none" /\ deadline = "off"
  /\ reading = 0 /\ answer = "none"
  /\ link = TRUE /\ wire = <<>> /\ server = "idle" /\ strays = 0

-----------------------------------------------------------------------------
(* config.Load. *)

\* main exits: no deferred call runs, and every goroutine is gone.
Exits == pc' = "exited" /\ reading' = 0

LoadFails ==
  /\ pc = "load"
  /\ EnvironmentBad \/ FlagsBad \/ UrlMissing
  /\ Exits
  /\ UNCHANGED <<load, client, dial, deadline, answer, socket>>

\* A flag replaces the environment's value; nothing checks a number again.
Load ==
  /\ pc = "load"
  /\ ~ EnvironmentBad /\ ~ FlagsBad /\ ~ UrlMissing
  /\ limit' = IF FlagGiven(settings.max) THEN Number[settings.max.flag] ELSE EnvLimit
  /\ pc' = "client"
  /\ UNCHANGED <<settings, client, dial, deadline, reading, answer, socket>>

-----------------------------------------------------------------------------
(* NewWorker. *)

NewClient ==
  /\ pc = "client"
  /\ \/ Exits /\ UNCHANGED client
     \/ pc' = "join" /\ client' = "open" /\ UNCHANGED reading
  /\ UNCHANGED <<load, dial, deadline, answer, socket>>

\* Fault: an error of Register is not returned.
RegisterClient_GoesOn ==
  /\ pc = "join"
  /\ pc' = "build" /\ client' \in {"closed", "registered"}
  /\ UNCHANGED <<load, dial, deadline, reading, answer, socket>>

RegisterClient ==
  /\ pc = "join"
  /\ \/ Exits /\ client' = "closed"
     \/ pc' = "build" /\ client' = "registered" /\ UNCHANGED reading
  /\ UNCHANGED <<load, dial, deadline, answer, socket>>

-----------------------------------------------------------------------------
(* Start: the connection. *)

\* The token and the URL; then the goroutine that dials.
Build ==
  /\ pc = "build"
  /\ \/ Exits /\ UNCHANGED <<dial, deadline>>
     \/ pc' = "dial" /\ dial' = "dialing" /\ deadline' = "armed" /\ UNCHANGED reading
  /\ UNCHANGED <<load, client, answer, socket>>

Dials ==
  /\ pc \in {"dial", "respond"}
  /\ \/ dial = "dialing" /\ dial' \in {"failed", "conn"}
     \/ dial = "conn" /\ dial' = "done"
  /\ UNCHANGED <<load, pc, client, deadline, reading, answer, socket>>

\* Time passes in either context.
Passes ==
  /\ pc # "exited" /\ deadline = "armed"
  /\ deadline' = "passed"
  /\ UNCHANGED <<load, pc, client, dial, reading, answer, socket>>

DialEnds ==
  /\ pc = "dial"
  /\ deadline = "passed" \/ dial = "failed"
  /\ Exits
  /\ UNCHANGED <<load, client, dial, deadline, answer, socket>>

Dialed ==
  /\ pc = "dial" /\ dial \in {"conn", "done"}
  /\ pc' = "respond"
  /\ UNCHANGED <<load, client, dial, deadline, reading, answer, socket>>

\* The response is received with no time-out.
Responded ==
  /\ pc = "respond" /\ dial = "done"
  /\ pc' = "write"
  /\ UNCHANGED <<load, client, dial, deadline, reading, answer, socket>>

-----------------------------------------------------------------------------
(* Start: register. *)

WriteRegister ==
  /\ pc = "write"
  /\ \/ /\ ~ link
        /\ Exits
        /\ UNCHANGED <<deadline, server>>
     \/ /\ link
        /\ pc' = "spawn" /\ deadline' = "armed" /\ server' = "asked"
        /\ UNCHANGED reading
  /\ UNCHANGED <<load, client, dial, answer, link, wire, strays>>

\* An iteration: channels of its own and a goroutine to fill them.
SpawnReader ==
  /\ pc = "spawn"
  /\ pc' = "await" /\ reading' = reading + 1 /\ answer' = "none"
  /\ UNCHANGED <<load, client, dial, deadline, socket>>

\* readMessage in such a goroutine.
Reads ==
  /\ reading > 0 /\ reading' = reading - 1
  /\ \/ /\ wire # <<>> /\ wire' = Tail(wire)
        /\ answer' \in {Head(wire), "error"}  \* a frame may not unmarshal
        /\ strays' = strays + (IF Head(wire) = "job" THEN 1 ELSE 0)
     \/ /\ wire = <<>> /\ ~ link
        /\ answer' = "error"
        /\ UNCHANGED <<wire, strays>>
  /\ UNCHANGED <<load, pc, client, dial, deadline, link, server>>

\* Fault: another attempt, and the goroutine of this one reads on.
RegisterTimeout_Retries ==
  /\ pc = "await" /\ deadline = "passed"
  /\ pc' = "spawn" /\ deadline' = "armed"
  /\ UNCHANGED <<load, client, dial, reading, answer, socket>>

\* Fault: register waits for an answer only.
RegisterTimeout_Never ==
  /\ FALSE
  /\ UNCHANGED vars

\* The select may take this branch with an answer in the channel.
RegisterTimeout ==
  /\ pc = "await" /\ deadline = "passed"
  /\ Exits
  /\ UNCHANGED <<load, client, dial, deadline, answer, socket>>

RegisterFails ==
  /\ pc = "await" /\ answer = "error"
  /\ Exits
  /\ UNCHANGED <<load, client, dial, deadline, answer, socket>>

\* Fault: the next read begins before the message is looked at.
Receive_ReadsAhead ==
  /\ pc = "await" /\ answer \notin {"none", "error"}
  /\ reading' = reading + 1 /\ answer' = "none"
  /\ \/ answer = "registered" /\ pc' = "serve" /\ deadline' = "off"
     \/ answer # "registered" /\ pc' = "await" /\ UNCHANGED deadline
  /\ UNCHANGED <<load, client, dial, socket>>

\* Any message but the response is dropped.
Receive ==
  /\ pc = "await" /\ answer \notin {"none", "error"}
  /\ \/ answer = "registered" /\ pc' = "serve" /\ deadline' = "off"
     \/ answer # "registered" /\ pc' = "spawn" /\ UNCHANGED deadline
  /\ UNCHANGED <<load, client, dial, reading, answer, socket>>

\* messageLoop reads too from here on; Worker has the rest of it.
LoopReads ==
  /\ pc = "serve" /\ wire # <<>>
  /\ wire' = Tail(wire)
  /\ UNCHANGED <<load, pc, client, dial, deadline, reading, answer, link, server, strays>>

-----------------------------------------------------------------------------
(* The LiveKit server and the network. *)

\* LiveKit answers a registration once, and sends jobs after that.
ServerSends ==
  /\ link /\ server # "idle" /\ pc # "exited" /\ Len(wire) < MaxWire
  /\ \/ wire' = Append(wire, "other") /\ UNCHANGED server
     \/ server = "asked" /\ server' = "answered" /\ wire' = Append(wire, "registered")
     \/ server = "answered" /\ wire' = Append(wire, "job") /\ UNCHANGED server
  /\ UNCHANGED <<load, pc, client, dial, deadline, reading, answer, link, strays>>

\* What is under way may arrive or not.
LinkDown ==
  /\ link /\ dial = "done" /\ pc # "exited"
  /\ link' = FALSE /\ wire' \in {wire, <<>>}
  /\ UNCHANGED <<load, pc, client, dial, deadline, reading, answer, server, strays>>

Main ==
  \/ LoadFails \/ Load \/ NewClient \/ RegisterClient \/ Build
  \/ DialEnds \/ Dialed \/ Responded
  \/ WriteRegister \/ SpawnReader \/ RegisterTimeout \/ RegisterFails \/ Receive

Next == Main \/ Dials \/ Passes \/ Reads \/ LoopReads \/ ServerSends \/ LinkDown

\* main runs on, and time passes.  Go's select chooses at random among what is
\* ready, so a deadline that has passed is taken in the end.  The goroutine
\* that dials hands over the response it has.  Nothing is assumed of the
\* network, the server or the readers; the two services' own calls return.
Fairness ==
  /\ WF_vars(Main) /\ WF_vars(Passes) /\ SF_vars(RegisterTimeout)
  /\ WF_vars(dial = "conn" /\ Dials)

Spec == Init /\ [][Next]_vars /\ Fairness

-----------------------------------------------------------------------------
(* Properties. *)

\* At most one goroutine of register is in readMessage at a time: the
\* websocket supports one reader.
TypeOK ==
  /\ settings.url \in [shell : Values, file : Values, flag : Values]
  /\ settings.max \in [shell : Values, file : Values, flag : Values]
  /\ limit \in Int
  /\ pc \in {"load", "client", "join", "build", "dial", "respond", "write",
             "spawn", "await", "serve", "exited"}
  /\ client \in {"none", "open", "registered", "closed"}
  /\ dial \in {"none", "dialing", "failed", "conn", "done"}
  /\ deadline \in {"off", "armed", "passed"}
  /\ reading \in 0 .. 1
  /\ answer \in {"none", "error", "other", "registered", "job"}
  /\ link \in BOOLEAN
  /\ wire \in Seq({"other", "registered", "job"}) /\ Len(wire) <= MaxWire
  /\ server \in {"idle", "asked", "answered"}
  /\ strays \in Nat

\* Whatever the environment and the file hold, a worker that takes jobs has
\* room for one unless a flag said otherwise (config.go 81-85, 109).
SafeLimit == pc = "serve" /\ ~ FlagGiven(settings.max) => limit > 0

\* A worker takes jobs only when the conference service knows it, LiveKit has
\* answered its registration and no context of the startup is left to expire.
ServesWhenReady ==
  pc = "serve" => client = "registered" /\ server = "answered" /\ deadline = "off"

\* Every job LiveKit sends after its answer is left to the message loop: no
\* goroutine that register leaves behind reads one (worker.go 301-332).
LoopGetsAll == strays = 0

\* Startup succeeds or gives up, though the server may be silent, send other
\* messages for ever or never finish the handshake.
StartupEnds == <>(pc \in {"serve", "exited"})
=============================================================================
