-------------------------------- MODULE Bunny --------------------------------
(***************************************************************************)
(* The control plane of Bunny: the main function, the five goroutines it   *)
(* starts (config, egress, ingress, telemetry, signals), the channels of   *)
(* capacity one between them, and how the process ends.                    *)
(*                                                                         *)
(* A configuration is its version: the n-th value config loads is n, and 0 *)
(* is no configuration.  What an ill-formed configuration makes a handler  *)
(* do (panic) is a nondeterministic choice that ends in proc = "rejected". *)
(***************************************************************************)
EXTENDS Integers, Sequences

CONSTANTS
  MaxLoads,     \* bound on how often config loads the file
  MaxSignals    \* bound on how many SIGINT/SIGTERM the OS delivers

ASSUME BoundsAssumption == MaxLoads \in Nat \ {0} /\ MaxSignals \in Nat

(***************************************************************************)
(* The wiring of main: the goroutines in the order they are started, and   *)
(* the listeners of each publisher in the order they were added.           *)
(***************************************************************************)
\* Faulty: signals, which tells the others to return, is started first.
SignalsFirst == <<"signals", "config", "telemetry", "egress", "ingress">>
StartOrder == <<"config", "egress", "ingress", "telemetry", "signals">>
\* Faulty: telemetry is added before the others.
TelemetryFirst == <<"telemetry", "egress", "ingress", "signals">>
\* Faulty: the channel of egress is added twice, that of telemetry never.
TelemetryUnheard == <<"egress", "egress", "ingress", "signals">>
ConfigListeners == <<"egress", "ingress", "signals", "telemetry">>
\* Faulty: the channel of egress is added twice.
EgressTwice == <<"egress", "egress">>
StageListeners == <<"egress", "ingress">>
\* Faulty: the channel of ingress is added twice, that of telemetry never.
TelemetryForgotten == <<"config", "egress", "ingress", "ingress">>
SignalListeners == <<"config", "egress", "ingress", "telemetry">>

Routines == {"config", "egress", "ingress", "telemetry", "signals"}
Updated == Routines \ {"config"}
Staged == {"egress", "ingress"}
Signalled == Routines \ {"signals"}

VARIABLES
  proc,        \* how the process stands
  started,     \* goroutines main has started
  added,       \* calls of wg.Add main has made
  wg,          \* the counter of the WaitGroup
  pc,          \* where each goroutine is
  loads,       \* configurations loaded so far: the version of bunnyConfig
  notified,    \* config listeners sent the current version
  update,      \* ConfigUpdateChannel of each listener (0: empty)
  cur,         \* version each listener received last
  registry,    \* version whose handling made telemetry.PromRegistry
  provider,    \* version whose handling set the global OpenTelemetry providers
  staged,      \* stage listeners told of the current version
  stage,       \* values waiting in ConfigStageChannel of egress and ingress
  meter,       \* provider the meter of egress and ingress came from
  registered,  \* registries that hold the metrics of egress and ingress
  server,      \* registry the HTTP server of ingress exposes (0: no server)
  sent,        \* signals the OS has delivered
  osSignal,    \* is a signal waiting in signals.osSignalsChannel?
  watching,    \* is watchedProcessCommandLineRegEx set?
  appAlive,    \* is a process running that the expression matches?
  forwarded,   \* signal listeners sent the signal
  signal       \* OSSignalsChannel of each listener: is a signal waiting?

mainVars == <<started, added>>
configVars == <<loads, notified>>
telemetryVars == <<registry, provider, staged>>
metricVars == <<meter, registered, server>>
signalVars == <<sent, osSignal, watching, appAlive, forwarded>>
vars == <<proc, mainVars, wg, pc, configVars, update, cur, telemetryVars,
          stage, metricVars, signalVars, signal>>

Init ==
  /\ proc = "running"
  /\ started = 0 /\ added = 0 /\ wg = 0
  /\ pc = [r \in Routines |-> "unborn"]
  /\ loads = 0 /\ notified = 0
  /\ update = [r \in Updated |-> 0]
  /\ cur = [r \in Updated |-> 0]
  /\ registry = 0 /\ provider = 0 /\ staged = 0
  /\ stage = [r \in Staged |-> 0]
  /\ meter = [r \in Staged |-> 0]
  /\ registered = [r \in Staged |-> {}]
  /\ server = 0
  /\ sent = 0 /\ osSignal = FALSE /\ forwarded = 0
  /\ watching = FALSE
  /\ appAlive \in BOOLEAN
  /\ signal = [r \in Signalled |-> FALSE]

Goto(r, from, to) ==
  /\ proc = "running"
  /\ pc[r] = from
  /\ pc' = [pc EXCEPT ![r] = to]

(***************************************************************************)
(* A goroutine returns: the deferred wg.Done panics when it takes the      *)
(* counter below zero, which main makes possible by calling wg.Add after   *)
(* the go statement.                                                       *)
(***************************************************************************)
Return(r, from) ==
  /\ Goto(r, from, "done")
  /\ wg' = wg - 1
  /\ proc' = IF wg = 0 THEN "crashed" ELSE proc

-----------------------------------------------------------------------------
(* main *)

\* The first statement of each goroutine whose effect another one can see.
Entry(r) ==
  CASE r = "config" -> "read"
    [] r = "signals" -> "notify"
    [] OTHER -> "select"

Go ==
  /\ started = added
  /\ started < Len(StartOrder)
  /\ LET r == StartOrder[started + 1] IN Goto(r, "unborn", Entry(r))
  /\ started' = started + 1
  /\ UNCHANGED <<proc, added, wg, configVars, update, cur, telemetryVars,
                 stage, metricVars, signalVars, signal>>

WgAdd ==
  /\ proc = "running"
  /\ added < started
  /\ added' = added + 1
  /\ wg' = wg + 1
  /\ UNCHANGED <<proc, started, pc, configVars, update, cur, telemetryVars,
                 stage, metricVars, signalVars, signal>>

WgWait ==
  /\ proc = "running"
  /\ added = Len(StartOrder)
  /\ wg = 0
  /\ proc' = "exited"
  /\ UNCHANGED <<mainVars, wg, pc, configVars, update, cur, telemetryVars,
                 stage, metricVars, signalVars, signal>>

-----------------------------------------------------------------------------
(* config *)

\* Faulty: the loop over the listeners does not start again.
LoadNoRestart(from) ==
  /\ Goto("config", from, "send")
  /\ loads < MaxLoads
  /\ loads' = loads + 1
  /\ UNCHANGED <<proc, mainVars, wg, notified, update, cur, telemetryVars,
                 stage, metricVars, signalVars, signal>>

\* readBunnyConfigFile; a file that says null makes bunnyConfig nil, which
\* the first send dereferences.
Load(from) ==
  /\ Goto("config", from, "send")
  /\ proc' \in {"running", "rejected"}
  /\ loads < MaxLoads
  /\ loads' = loads + 1
  /\ notified' = 0
  /\ UNCHANGED <<mainVars, wg, update, cur, telemetryVars, stage,
                 metricVars, signalVars, signal>>

ReadFirst == Load("read")

\* An event of the watcher after which the hash of the file differs.
Reload == Load("select")

\* One send of the loop over configUpdateChannels; it blocks while the
\* listener's buffer is full.
ConfigSend ==
  LET r == ConfigListeners[notified + 1]
      last == notified + 1 = Len(ConfigListeners)
  IN /\ Goto("config", "send", IF ~last THEN "send"
                               ELSE IF loads = 1 THEN "watch" ELSE "select")
     /\ update[r] = 0
     /\ update' = [update EXCEPT ![r] = loads]
     /\ notified' = notified + 1
     /\ UNCHANGED <<proc, mainVars, wg, loads, cur, telemetryVars, stage,
                    metricVars, signalVars, signal>>

CreateWatcher ==
  /\ Goto("config", "watch", "select")
  /\ proc' \in {"running", "rejected"}  \* a nil watcher is dereferenced
  /\ UNCHANGED <<mainVars, wg, configVars, update, cur, telemetryVars, stage,
                 metricVars, signalVars, signal>>

ConfigSignal ==
  /\ signal["config"]
  /\ Return("config", "select")
  /\ signal' = [signal EXCEPT !["config"] = FALSE]
  /\ UNCHANGED <<mainVars, configVars, update, cur, telemetryVars, stage,
                 metricVars, signalVars>>

-----------------------------------------------------------------------------
(* What egress, ingress and telemetry do first with an update. *)

Receive(r, to) ==
  /\ Goto(r, "select", to)
  /\ update[r] # 0
  /\ cur' = [cur EXCEPT ![r] = update[r]]
  /\ update' = [update EXCEPT ![r] = 0]

(* egress and ingress: wait for telemetry, then bind to what it made. *)

\* Faulty: the stage is not waited for.
StagedReceiveNoWait(r) ==
  /\ Receive(r, "meter")
  /\ UNCHANGED <<proc, mainVars, wg, configVars, telemetryVars, stage,
                 metricVars, signalVars, signal>>

StagedReceive(r) ==
  /\ Receive(r, "stage")
  /\ UNCHANGED <<proc, mainVars, wg, configVars, telemetryVars, stage,
                 metricVars, signalVars, signal>>

TakeStage(r) ==
  /\ Goto(r, "stage", "meter")
  /\ stage[r] = 1
  /\ stage' = [stage EXCEPT ![r] = 0]
  /\ UNCHANGED <<proc, mainVars, wg, configVars, update, cur, telemetryVars,
                 metricVars, signalVars, signal>>

\* The meter is bound, and the list of probes or endpoints starts empty.
BindMeter(r) ==
  /\ Goto(r, "meter", "register")
  /\ meter' = [meter EXCEPT ![r] = provider]
  /\ registered' = [registered EXCEPT ![r] = {}]
  /\ UNCHANGED <<proc, mainVars, wg, configVars, update, cur, telemetryVars,
                 stage, server, signalVars, signal>>

\* One probe or endpoint: its metrics go to the registry of that moment.
Register(r) ==
  /\ Goto(r, "register", "register")
  /\ proc' \in {"running", "rejected"}
  /\ registered' = [registered EXCEPT ![r] = @ \cup {registry}]
  /\ UNCHANGED <<mainVars, wg, configVars, update, cur, telemetryVars, stage,
                 meter, server, signalVars, signal>>

AllRegistered(r) ==
  /\ Goto(r, "register", IF r = "ingress" THEN "serve" ELSE "select")
  /\ UNCHANGED <<proc, mainVars, wg, configVars, update, cur, telemetryVars,
                 stage, metricVars, signalVars, signal>>

\* Faulty: a server that already runs is left alone.
KeepServer ==
  /\ Goto("ingress", "serve", "select")
  /\ proc' \in {"running", "rejected"}
  /\ server' = IF server = 0 THEN registry ELSE server
  /\ UNCHANGED <<mainVars, wg, configVars, update, cur, telemetryVars, stage,
                 meter, registered, signalVars, signal>>

\* shutdownHTTPServer, then startHTTPServer.
RestartServer ==
  /\ Goto("ingress", "serve", "select")
  /\ proc' \in {"running", "rejected"}
  /\ server' = registry
  /\ UNCHANGED <<mainVars, wg, configVars, update, cur, telemetryVars, stage,
                 meter, registered, signalVars, signal>>

\* Faulty: ingress returns without shutting its server down.
StagedSignalKeepServer(r) ==
  /\ signal[r]
  /\ Return(r, "select")
  /\ signal' = [signal EXCEPT ![r] = FALSE]
  /\ UNCHANGED <<mainVars, configVars, update, cur, telemetryVars, stage,
                 metricVars, signalVars>>

StagedSignal(r) ==
  /\ signal[r]
  /\ Return(r, "select")
  /\ signal' = [signal EXCEPT ![r] = FALSE]
  /\ server' = IF r = "ingress" THEN 0 ELSE server
  /\ UNCHANGED <<mainVars, configVars, update, cur, telemetryVars, stage,
                 meter, registered, signalVars>>

-----------------------------------------------------------------------------
(* telemetry *)

TelemetryReceive ==
  /\ Receive("telemetry", "registry")
  /\ staged' = 0
  /\ UNCHANGED <<proc, mainVars, wg, configVars, registry, provider, stage,
                 metricVars, signalVars, signal>>

NewRegistry ==
  /\ Goto("telemetry", "registry", "provider")
  /\ proc' \in {"running", "rejected"}
  /\ registry' = cur["telemetry"]
  /\ UNCHANGED <<mainVars, wg, configVars, update, cur, provider, staged,
                 stage, metricVars, signalVars, signal>>

\* Faulty: the version is handled again from the start.
SetProviderRetry ==
  /\ Goto("telemetry", "provider", "registry")
  /\ provider' = cur["telemetry"]
  /\ UNCHANGED <<proc, mainVars, wg, configVars, update, cur, registry,
                 staged, stage, metricVars, signalVars, signal>>

SetProvider ==
  /\ Goto("telemetry", "provider", "stage")
  /\ provider' = cur["telemetry"]
  /\ UNCHANGED <<proc, mainVars, wg, configVars, update, cur, registry,
                 staged, stage, metricVars, signalVars, signal>>

SendStage ==
  LET r == StageListeners[staged + 1]
      last == staged + 1 = Len(StageListeners)
  IN /\ Goto("telemetry", "stage", IF last THEN "select" ELSE "stage")
     /\ stage[r] = 0
     /\ stage' = [stage EXCEPT ![r] = 1]
     /\ staged' = staged + 1
     /\ UNCHANGED <<proc, mainVars, wg, configVars, update, cur, registry,
                    provider, metricVars, signalVars, signal>>

\* Shutdown is called on both providers; before the first configuration they
\* are nil.
TelemetrySignal ==
  /\ signal["telemetry"]
  /\ IF provider = 0
       THEN /\ Goto("telemetry", "select", "select")
            /\ proc' = "crashed"
            /\ UNCHANGED wg
       ELSE Return("telemetry", "select")
  /\ signal' = [signal EXCEPT !["telemetry"] = FALSE]
  /\ UNCHANGED <<mainVars, configVars, update, cur, telemetryVars, stage,
                 metricVars, signalVars>>

-----------------------------------------------------------------------------
(* signals *)

Notify ==
  /\ Goto("signals", "notify", "select")
  /\ UNCHANGED <<proc, mainVars, wg, configVars, update, cur, telemetryVars,
                 stage, metricVars, signalVars, signal>>

\* An expression that compiles is watched, one that does not clears the
\* watch, and none at all leaves the previous one in place.
SignalsReceive ==
  /\ Receive("signals", "select")
  /\ watching' \in BOOLEAN
  /\ UNCHANGED <<proc, mainVars, wg, configVars, telemetryVars, stage,
                 metricVars, sent, osSignal, appAlive, forwarded, signal>>

TakeSignal ==
  /\ Goto("signals", "select", IF watching THEN "wait" ELSE "forward")
  /\ osSignal
  /\ osSignal' = FALSE
  /\ UNCHANGED <<proc, mainVars, wg, configVars, update, cur, telemetryVars,
                 stage, metricVars, sent, watching, appAlive, forwarded,
                 signal>>

\* waitForProcess: as long as the process is found the loop sleeps and polls
\* again.  It ends when no process matches, and also when the list of
\* processes cannot be read.
ProcessNotFound ==
  /\ Goto("signals", "wait", "forward")
  /\ ~appAlive
  /\ UNCHANGED <<proc, mainVars, wg, configVars, update, cur, telemetryVars,
                 stage, metricVars, signalVars, signal>>

ProcessListFails ==
  /\ Goto("signals", "wait", "forward")
  /\ UNCHANGED <<proc, mainVars, wg, configVars, update, cur, telemetryVars,
                 stage, metricVars, signalVars, signal>>

ForwardSignal ==
  LET r == SignalListeners[forwarded + 1]
      last == forwarded + 1 = Len(SignalListeners)
  IN /\ \/ last /\ Return("signals", "forward")
        \/ /\ ~last /\ Goto("signals", "forward", "forward")
           /\ UNCHANGED <<proc, wg>>
     /\ ~signal[r]
     /\ signal' = [signal EXCEPT ![r] = TRUE]
     /\ forwarded' = forwarded + 1
     /\ UNCHANGED <<mainVars, configVars, update, cur, telemetryVars, stage,
                    metricVars, sent, osSignal, watching, appAlive>>

-----------------------------------------------------------------------------
(* The environment: the operating system and the application. *)

\* Before signal.Notify the default action of the signal ends the process;
\* after it a signal that finds osSignalsChannel full is dropped.
DeliverSignal ==
  /\ proc = "running"
  /\ sent < MaxSignals
  /\ sent' = sent + 1
  /\ IF pc["signals"] \in {"unborn", "notify"}
       THEN proc' = "killed" /\ UNCHANGED osSignal
       ELSE osSignal' = TRUE /\ UNCHANGED proc
  /\ UNCHANGED <<mainVars, wg, pc, configVars, update, cur, telemetryVars,
                 stage, metricVars, watching, appAlive, forwarded, signal>>

AppExits ==
  /\ proc = "running"
  /\ appAlive
  /\ appAlive' = FALSE
  /\ UNCHANGED <<proc, mainVars, wg, pc, configVars, update, cur,
                 telemetryVars, stage, metricVars, sent, osSignal, watching,
                 forwarded, signal>>

-----------------------------------------------------------------------------
Main == Go \/ WgAdd \/ WgWait
GoConfig == ReadFirst \/ ConfigSend \/ CreateWatcher \/ ConfigSignal
GoStaged(r) ==
  \/ StagedReceive(r) \/ TakeStage(r) \/ BindMeter(r) \/ Register(r)
  \/ AllRegistered(r) \/ StagedSignal(r)
GoEgress == GoStaged("egress")
GoIngress == GoStaged("ingress") \/ RestartServer
GoTelemetry ==
  \/ TelemetryReceive \/ NewRegistry \/ SetProvider \/ SendStage
  \/ TelemetrySignal
GoSignals ==
  \/ Notify \/ SignalsReceive \/ TakeSignal \/ ProcessNotFound
  \/ ForwardSignal
Environment == Reload \/ ProcessListFails \/ DeliverSignal \/ AppExits

Next ==
  \/ Main \/ GoConfig \/ GoEgress \/ GoIngress \/ GoTelemetry \/ GoSignals
  \/ Environment

Spec == Init /\ [][Next]_vars

(***************************************************************************)
(* Go's scheduler runs every runnable goroutine, and a select with a ready *)
(* case is runnable.  Nothing is assumed of the environment.               *)
(***************************************************************************)
Fairness ==
  /\ WF_vars(Main) /\ WF_vars(GoConfig) /\ WF_vars(GoEgress)
  /\ WF_vars(GoIngress) /\ WF_vars(GoTelemetry) /\ WF_vars(GoSignals)

FairSpec == Spec /\ Fairness

-----------------------------------------------------------------------------
(* Safety *)

Locations ==
  {"unborn", "read", "send", "watch", "notify", "select", "stage", "meter",
   "register", "serve", "registry", "provider", "wait", "forward", "done"}

\* The type of every variable, with the range of every index into a list of
\* listeners.
TypeOK ==
  /\ proc \in {"running", "exited", "killed", "rejected", "crashed"}
  /\ started \in 0..5 /\ added \in 0..5 /\ wg \in Int
  /\ pc \in [Routines -> Locations]
  /\ loads \in 0..MaxLoads /\ notified \in 0..4
  /\ update \in [Updated -> Nat]
  /\ cur \in [Updated -> Nat]
  /\ registry \in Nat /\ provider \in Nat /\ staged \in 0..2
  /\ stage \in [Staged -> {0, 1}]
  /\ meter \in [Staged -> Nat]
  /\ registered \in [Staged -> SUBSET Nat]
  /\ server \in Nat
  /\ sent \in 0..MaxSignals /\ osSignal \in BOOLEAN /\ forwarded \in 0..4
  /\ watching \in BOOLEAN /\ appAlive \in BOOLEAN
  /\ signal \in [Signalled -> BOOLEAN]
  /\ pc["config"] = "send" => notified < 4
  /\ pc["telemetry"] = "stage" => staged < 2
  /\ pc["signals"] = "forward" => forwarded < 4

\* Once egress or ingress has applied a version, none of its metrics sits in
\* a provider or registry older than that version: the bare token on
\* ConfigStageChannel, which carries no version, always stands for telemetry
\* having finished this version or a later one.
NoStaleMetrics ==
  \A r \in Staged :
    pc[r] = "select" /\ cur[r] > 0 =>
      /\ meter[r] >= cur[r]
      /\ \A v \in registered[r] : v >= cur[r]

\* telemetry runs at most one version ahead of egress and ingress, so the
\* registry they fill and serve while applying a version is that of this
\* version or of the next.  This rests on the order of the listeners in main.
RegistrySkew ==
  \A r \in Staged :
    /\ registry <= cur[r] + 1
    /\ pc[r] \in {"meter", "register", "serve"} => registry >= cur[r]

\* The pipeline is at rest: nothing is buffered and everybody is in select.
Settled ==
  /\ proc = "running"
  /\ loads > 0
  /\ \A r \in Routines \ {"signals"} : pc[r] = "select"
  /\ \A r \in Updated \ {"signals"} : update[r] = 0

\* When the pipeline is at rest everybody has the version loaded last, and
\* what the HTTP server of ingress exposes is the registry that holds the
\* metrics of the probes and of the endpoints.
MetricsVisible ==
  Settled =>
    /\ \A r \in Updated \ {"signals"} : cur[r] = loads
    /\ provider = loads /\ registry = loads /\ server = loads
    /\ \A r \in Staged : meter[r] = loads /\ registered[r] \subseteq {server}

\* a can go on only after b has done something: a blocked send waits for the
\* receiver, a blocked receive for the sender.
WaitsFor(a, b) ==
  \/ /\ a = "config" /\ pc[a] = "send"
     /\ b = ConfigListeners[notified + 1] /\ update[b] # 0
  \/ /\ a \in Updated /\ pc[a] = "select"
     /\ b = "config" /\ update[a] = 0
  \/ /\ a \in Staged /\ pc[a] = "stage"
     /\ b = "telemetry" /\ stage[a] = 0
  \/ /\ a = "telemetry" /\ pc[a] = "stage"
     /\ b = StageListeners[staged + 1] /\ stage[b] = 1

\* No group of goroutines waits only for each other: sends of config, sends of
\* telemetry and the waits for a stage never close a circle, in operation or
\* during a shutdown.  A goroutine that hangs waits for one that returned.
NoCircularWait ==
  ~ \E S \in (SUBSET Routines) \ {{}} :
      \A a \in S : \E b \in S : WaitsFor(a, b)

\* Forwarding the signal never blocks: the buffer of the next listener is
\* always free, whatever the listeners are doing and however many signals
\* arrive.
ForwardNeverBlocks ==
  pc["signals"] = "forward" => ~signal[SignalListeners[forwarded + 1]]

\* main returns only when every goroutine has, with the HTTP server shut down.
ExitComplete ==
  proc = "exited" => server = 0 /\ \A r \in Routines : pc[r] = "done"

\* Once telemetry has applied a configuration, a shutdown can still panic in
\* one way only: all five goroutines return before main calls wg.Add for the
\* last of them.  Before that the signal can meet nil providers.
CrashOnlyAtTheEdges ==
  proc = "crashed" => provider = 0 \/ \A r \in Routines : pc[r] = "done"

\* r cannot go on by itself: it has returned, or it is in a select with no
\* case ready, in a send to a full channel, in a receive from an empty one, or
\* in the loop that waits for the watched process.
Blocked(r) ==
  \/ pc[r] = "done"
  \/ /\ pc[r] = "select"
     /\ r \in Updated => update[r] = 0
     /\ IF r = "signals" THEN ~osSignal ELSE ~signal[r]
  \/ /\ r = "config" /\ pc[r] = "send"
     /\ update[ConfigListeners[notified + 1]] # 0
  \/ r \in Staged /\ pc[r] = "stage" /\ stage[r] = 0
  \/ /\ r = "telemetry" /\ pc[r] = "stage"
     /\ stage[StageListeners[staged + 1]] = 1
  \/ r = "signals" /\ pc[r] = "wait" /\ appAlive

\* main is in wg.Wait and nobody can go on without an event from outside.
Standstill ==
  proc = "running" /\ added = 5 /\ wg # 0 /\ \A r \in Routines : Blocked(r)

\* Bunny comes to a standstill in three ways only.  Everybody is in select and
\* has the version loaded last; or signals waits for the watched process; or
\* the signal was forwarded and telemetry returned before the others, of which
\* one waits for a stage or config for the room in the channel of a goroutine
\* that has returned.
StandstillExplained ==
  Standstill =>
    \/ /\ \A r \in Routines : pc[r] = "select"
       /\ \A r \in Updated : cur[r] = loads
    \/ pc["signals"] = "wait" /\ appAlive
    \/ /\ pc["signals"] = "done" /\ pc["telemetry"] = "done"
       /\ \/ \E r \in Staged : pc[r] = "stage"
          \/ /\ pc["config"] = "send"
             /\ pc[ConfigListeners[notified + 1]] = "done"

(***************************************************************************)
(* The work at hand: how many steps main and the goroutines can still take *)
(* without an event from outside, those that their sends cause included.   *)
(***************************************************************************)
MainWork == (5 - added) + (IF proc = "running" THEN 1 ELSE 0)
ConfigWork ==
  (IF pc["config"] = "unborn" THEN 27
   ELSE IF pc["config"] = "read" THEN 26
   ELSE IF pc["config"] = "send"
     THEN IF notified = 0 THEN 25 ELSE IF notified = 1 THEN 18
          ELSE IF notified = 2 THEN 11 ELSE 9
   ELSE IF pc["config"] = "watch" THEN 1 ELSE 0)
  + (IF signal["config"] THEN 1 ELSE 0)
StagedWork(r) ==
  (IF pc[r] = "stage" THEN 5
   ELSE IF pc[r] = "meter" THEN 4
   ELSE IF pc[r] = "register" THEN IF registry \in registered[r] THEN 2 ELSE 3
   ELSE IF pc[r] \in {"serve", "unborn"} THEN 1 ELSE 0)
  + (IF update[r] # 0 THEN 6 ELSE 0) + (IF signal[r] THEN 1 ELSE 0)
TelemetryWork ==
  (IF pc["telemetry"] = "registry" THEN 6
   ELSE IF pc["telemetry"] = "provider" THEN 3
   ELSE IF pc["telemetry"] = "stage" THEN 2 - staged
   ELSE IF pc["telemetry"] = "unborn" THEN 1 ELSE 0)
  + (IF update["telemetry"] # 0 THEN 7 ELSE 0)
  + (IF signal["telemetry"] THEN 1 ELSE 0)
SignalsWork ==
  (IF pc["signals"] = "unborn" THEN 2
   ELSE IF pc["signals"] = "notify" THEN 1
   ELSE IF pc["signals"] = "wait" THEN 9
   ELSE IF pc["signals"] = "forward" THEN 2 * (4 - forwarded) ELSE 0)
  + (IF update["signals"] # 0 THEN 1 ELSE 0) + (IF osSignal THEN 10 ELSE 0)
Work ==
  MainWork + ConfigWork + StagedWork("egress") + StagedWork("ingress")
    + TelemetryWork + SignalsWork

\* No goroutine spins and none makes work for another without end: a reload
\* costs all of them together at most 25 steps, a signal at most 10, and every
\* step of theirs brings the end of the work nearer.
WorkIsFinite ==
  /\ [](Work \in Nat)
  /\ [][ \/ Work' < Work
         \/ Reload /\ Work' <= Work + 25
         \/ DeliverSignal /\ Work' <= Work + 10
         \/ AppExits /\ Work' = Work ]_vars

(* Liveness *)

Applied(n) ==
  /\ \A r \in Updated : cur[r] >= n
  /\ \A r \in Updated \ {"signals"} : pc[r] = "select"

\* As long as no signal arrives every version that is loaded is applied by
\* all four listeners, unless an ill-formed one ends the process: whatever was
\* loaded last, there is a later moment at which all have come that far.
UpdatesAreApplied ==
  []<>(loads = 0 \/ Applied(loads) \/ sent > 0 \/ proc # "running")

\* A signal that arrives while the pipeline is at rest, with the file no
\* longer changing and the watched process gone, ends in a clean exit.
QuietShutdown ==
  (osSignal /\ Settled /\ loads = MaxLoads /\ ~appAlive) ~> (proc = "exited")

\* egress and ingress wait for ever for a stage only in the course of a
\* shutdown: because telemetry took the signal and returned, or because signals
\* waits for a process that does not end and no longer takes configurations,
\* which holds config up.
StuckOnlyInShutdown ==
  \A r \in Staged :
    <>[](proc = "running" /\ pc[r] = "stage") =>
      <>[](pc["telemetry"] = "done" \/ (pc["signals"] = "wait" /\ appAlive))

-----------------------------------------------------------------------------
(* Refinement: what the metrics rely on, as module Rollout states it. *)

phaseBar ==
  [r \in Staged |->
     IF pc[r] = "stage" THEN "waiting"
     ELSE IF pc[r] \in {"meter", "register", "serve"} THEN "applying"
     ELSE "rest"]

versionBar == [r \in Staged |-> cur[r]]

R == INSTANCE Rollout WITH Appliers <- Staged, version <- versionBar,
                           phase <- phaseBar

\* With its channels, its blocking sends and its bare stage tokens, signals
\* and panics at any moment included, the control plane keeps telemetry,
\* egress and ingress in the step that Rollout prescribes.
ImplementsRollout == R!Spec

(* What the documentation says and the code does not do. *)

\* README: Bunny exits when it is told to.
ShutdownCompletes == (osSignal /\ ~appAlive) ~> (proc # "running")
=============================================================================
