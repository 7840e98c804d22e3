----------------------------- MODULE BunnyProofs -----------------------------
(***************************************************************************)
(* Proofs about the control plane, for any number of loads and of signals. *)
(*                                                                         *)
(* The channels carry no history, so the properties are not inductive.     *)
(* The strengthening counts what went through each channel: config has     *)
(* sent listener r the versions up to SentTo(r), all received but for the  *)
(* one in the buffer; telemetry has sent Told(r) stage tokens, of which r  *)
(* has taken Taken(r), and the difference is in the buffer.                *)
(*                                                                         *)
(* On it rest the freshness of the metrics, the implementation of Rollout, *)
(* the three ways to come to a standstill, and the end of all work; the    *)
(* last is proved part by part, one lemma for each goroutine.              *)
(***************************************************************************)
EXTENDS MCBunnyRunning, TLAPS

\* The place of r among the listeners of config and of telemetry.
ConfigPos(r) ==
  IF r = "egress" THEN 1
  ELSE IF r = "ingress" THEN 2
  ELSE IF r = "signals" THEN 3 ELSE 4

StagePos(r) == IF r = "egress" THEN 1 ELSE 2

SentTo(r) ==
  IF pc["config"] = "send" /\ notified < ConfigPos(r) THEN loads - 1 ELSE loads

Told(r) ==
  IF \/ pc["telemetry"] \in {"registry", "provider"}
     \/ pc["telemetry"] = "stage" /\ staged < StagePos(r)
    THEN cur["telemetry"] - 1
    ELSE cur["telemetry"]

Taken(r) == IF pc[r] = "stage" THEN cur[r] - 1 ELSE cur[r]

\* Every update is delivered once and in order, and at most one is buffered.
UpdateInv ==
  \A r \in Updated :
    /\ update[r] = 0 => SentTo(r) = cur[r]
    /\ update[r] # 0 => update[r] = cur[r] + 1 /\ SentTo(r) = cur[r] + 1

\* A token in the buffer stands for exactly one version of telemetry that the
\* listener has not waited for yet.
StageInv == \A r \in Staged : stage[r] = Told(r) - Taken(r)

TelemetryInv ==
  /\ pc["telemetry"] \in {"registry", "provider"} => staged = 0
  /\ registry = IF pc["telemetry"] = "registry" THEN cur["telemetry"] - 1
                ELSE cur["telemetry"]
  /\ provider = IF pc["telemetry"] \in {"registry", "provider"}
                  THEN cur["telemetry"] - 1
                  ELSE cur["telemetry"]

\* Nothing is bound to what does not exist yet, and from the moment the meter
\* is bound nothing is bound to what a finished version replaced.
MetricInv ==
  /\ server <= registry
  /\ \A r \in Staged :
       /\ meter[r] <= provider
       /\ \A v \in registered[r] : v <= registry
       /\ pc[r] = "unborn" => cur[r] = 0
       /\ pc[r] \in {"register", "serve", "select"} /\ cur[r] > 0 =>
            /\ meter[r] >= cur[r]
            /\ \A v \in registered[r] : v >= cur[r]
  /\ pc["ingress"] = "select" => server >= cur["ingress"]

\* The listeners not sent the signal yet have an empty buffer.
SignalInv ==
  /\ pc["signals"] \notin {"forward", "done"} => forwarded = 0
  /\ \A i \in 1..4 : forwarded < i => ~signal[SignalListeners[i]]

Finished(r) == IF pc[r] = "done" THEN 1 ELSE 0

\* The WaitGroup counts the goroutines that were added and have not returned.
WaitInv ==
  /\ wg = added - (Finished("config") + Finished("egress")
                   + Finished("ingress") + Finished("telemetry")
                   + Finished("signals"))
  /\ proc = "exited" => added = 5 /\ wg = 0
  /\ pc["ingress"] = "done" => server = 0

IInv ==
  /\ TypeOK /\ UpdateInv /\ StageInv /\ TelemetryInv /\ MetricInv
  /\ SignalInv /\ WaitInv

\* main is at most one wg.Add behind, signals is the last to be started, and
\* nobody returns before signals has begun to forward.
StartInv ==
  /\ added <= started /\ started <= added + 1
  /\ pc["signals"] # "unborn" => started = 5
  /\ \A r \in Signalled : pc[r] = "done" => pc["signals"] \in {"forward", "done"}
  /\ CrashOnlyAtTheEdges

\* Every step keeps the type of every variable.
LEMMA TypeStep == IInv /\ [Next]_vars => TypeOK'
<1> SUFFICES ASSUME IInv, [Next]_vars PROVE TypeOK'
  BY Zenon
<1> USE DEF IInv, TypeOK, Routines, Updated, Staged, Signalled, TelemetryInv,
            SignalInv, Locations
<1> USE DEF Goto, Return, Receive, mainVars, configVars, telemetryVars,
            metricVars, signalVars
<1>1. CASE Main
  <2>1. CASE Go
    BY <2>1 DEF Go, StartOrder, Entry
  <2>2. CASE WgAdd
    BY <2>2 DEF WgAdd
  <2>3. CASE WgWait
    BY <2>3, Zenon DEF WgWait
  <2> QED
    BY <1>1, <2>1, <2>2, <2>3, Zenon DEF Main
<1>2. CASE ReadFirst \/ Reload
  BY BoundsAssumption, <1>2 DEF ReadFirst, Reload, Load
<1>3. CASE ConfigSend
  BY <1>3 DEF ConfigSend, ConfigListeners
<1>4. CASE CreateWatcher \/ ConfigSignal
  <2>1. CASE CreateWatcher
    BY <2>1, Zenon DEF CreateWatcher
  <2>2. CASE ConfigSignal
    BY <2>2 DEF ConfigSignal
  <2> QED
    BY <1>4, <2>1, <2>2, Zenon
<1>5. ASSUME NEW r \in Staged, GoStaged(r) PROVE TypeOK'
  <2>1. CASE StagedReceive(r)
    BY <1>5, <2>1, Zenon DEF StagedReceive
  <2>2. CASE TakeStage(r)
    BY <1>5, <2>2, Zenon DEF TakeStage
  <2>3. CASE BindMeter(r)
    BY <1>5, <2>3, Zenon DEF BindMeter
  <2>4. CASE Register(r)
    BY <1>5, <2>4, Zenon DEF Register
  <2>5. CASE AllRegistered(r)
    BY <1>5, <2>5, Zenon DEF AllRegistered
  <2>6. CASE StagedSignal(r)
    BY <1>5, <2>6 DEF StagedSignal
  <2> QED
    BY <1>5, <2>1, <2>2, <2>3, <2>4, <2>5, <2>6, Zenon DEF GoStaged
<1>6. CASE RestartServer
  BY <1>6, Zenon DEF RestartServer
<1>7. CASE GoTelemetry
  <2>1. CASE TelemetryReceive
    BY <2>1 DEF TelemetryReceive
  <2>2. CASE NewRegistry
    BY <2>2, Zenon DEF NewRegistry
  <2>3. CASE SetProvider
    BY <2>3 DEF SetProvider
  <2>4. CASE SendStage
    BY <2>4 DEF SendStage, StageListeners
  <2>5. CASE TelemetrySignal
    BY <2>5 DEF TelemetrySignal
  <2> QED
    BY <1>7, <2>1, <2>2, <2>3, <2>4, <2>5, Zenon DEF GoTelemetry
<1>8. CASE GoSignals
  <2>1. CASE Notify
    BY <2>1, Zenon DEF Notify
  <2>2. CASE SignalsReceive
    BY <2>2, Zenon DEF SignalsReceive
  <2>3. CASE TakeSignal
    <3>1. osSignal' \in BOOLEAN
      BY <2>3, Zenon DEF TakeSignal
    <3> QED
      BY <2>3, <3>1 DEF TakeSignal
  <2>4. CASE ProcessNotFound
    BY <2>4 DEF ProcessNotFound
  <2>5. CASE ForwardSignal
    BY <2>5 DEF ForwardSignal, SignalListeners
  <2> QED
    BY <1>8, <2>1, <2>2, <2>3, <2>4, <2>5 DEF GoSignals
<1>9. CASE ProcessListFails \/ DeliverSignal \/ AppExits
  <2>1. CASE ProcessListFails
    BY <2>1 DEF ProcessListFails
  <2>2. CASE DeliverSignal
    <3>1. osSignal' \in BOOLEAN
      BY <2>2, Zenon DEF DeliverSignal
    <3> QED
      BY BoundsAssumption, <2>2, <3>1 DEF DeliverSignal
  <2>3. CASE AppExits
    BY <2>3, Zenon DEF AppExits
  <2> QED
    BY <1>9, <2>1, <2>2, <2>3, Zenon
<1>10. CASE UNCHANGED vars
  BY <1>10, Zenon DEF vars
<1> QED
  BY <1>1, <1>2, <1>3, <1>4, <1>5, <1>6, <1>7, <1>8, <1>9, <1>10, Zenon
     DEF Next, GoConfig, GoEgress, GoIngress, Environment

\* Sends of config and receives of its listeners keep the count of versions.
LEMMA UpdateStep == IInv /\ [Next]_vars => UpdateInv'
<1> SUFFICES ASSUME IInv, [Next]_vars PROVE UpdateInv'
  OBVIOUS
<1> USE DEF IInv, TypeOK, Routines, Updated, Staged, Signalled, UpdateInv,
            SentTo, ConfigPos
<1> USE DEF Goto, Return, Receive, mainVars, configVars, telemetryVars,
            metricVars, signalVars
<1>1. CASE Main
  BY <1>1 DEF Main, Go, WgAdd, WgWait, StartOrder, Entry
<1>2. CASE ReadFirst \/ Reload
  BY <1>2 DEF ReadFirst, Reload, Load
<1>3. CASE ConfigSend
  BY <1>3 DEF ConfigSend, ConfigListeners
<1>4. CASE CreateWatcher \/ ConfigSignal
  BY <1>4, Zenon DEF CreateWatcher, ConfigSignal
<1>5. ASSUME NEW r \in Staged, GoStaged(r) PROVE UpdateInv'
  BY <1>5 DEF GoStaged, StagedReceive, TakeStage, BindMeter, Register,
              AllRegistered, StagedSignal
<1>6. CASE RestartServer
  BY <1>6, Zenon DEF RestartServer
<1>7. CASE GoTelemetry
  BY <1>7 DEF GoTelemetry, TelemetryReceive, NewRegistry, SetProvider,
              SendStage, TelemetrySignal, StageListeners
<1>8. CASE GoSignals
  BY <1>8 DEF GoSignals, Notify, SignalsReceive, TakeSignal,
              ProcessNotFound, ForwardSignal, SignalListeners
<1>9. CASE ProcessListFails \/ DeliverSignal \/ AppExits
  BY <1>9 DEF ProcessListFails, DeliverSignal, AppExits
<1>10. CASE UNCHANGED vars
  BY <1>10, Zenon DEF vars
<1> QED
  BY <1>1, <1>2, <1>3, <1>4, <1>5, <1>6, <1>7, <1>8, <1>9, <1>10, Zenon
     DEF Next, GoConfig, GoEgress, GoIngress, Environment

\* Sends of telemetry and the waits of egress and ingress keep the count of
\* stage tokens.
LEMMA StageStep == IInv /\ [Next]_vars => StageInv'
<1> SUFFICES ASSUME IInv, [Next]_vars PROVE StageInv'
  OBVIOUS
<1> USE DEF IInv, TypeOK, Routines, Updated, Staged, Signalled, UpdateInv,
            TelemetryInv, StageInv, Told, Taken, StagePos
<1> USE DEF Goto, Return, Receive, mainVars, configVars, telemetryVars,
            metricVars, signalVars
<1>1. CASE Main
  BY <1>1 DEF Main, Go, WgAdd, WgWait, StartOrder, Entry
<1>2. CASE ReadFirst \/ Reload
  BY <1>2 DEF ReadFirst, Reload, Load
<1>3. CASE ConfigSend
  BY <1>3, Zenon DEF ConfigSend, ConfigListeners
<1>4. CASE CreateWatcher \/ ConfigSignal
  BY <1>4 DEF CreateWatcher, ConfigSignal
<1>5. ASSUME NEW r \in Staged, GoStaged(r) PROVE StageInv'
  <2>1. CASE StagedReceive(r)
    BY <1>5, <2>1 DEF StagedReceive
  <2>2. CASE TakeStage(r)
    <3>1. \A q \in Staged : Told(q)' = Told(q)
      BY <1>5, <2>2, Zenon DEF TakeStage
    <3>2. Taken(r)' = Taken(r) + 1
      BY <1>5, <2>2 DEF TakeStage
    <3>3. \A q \in Staged \ {r} : Taken(q)' = Taken(q)
      BY <1>5, <2>2, Zenon DEF TakeStage
    <3>4. \A q \in Staged : stage'[q] = IF q = r THEN 0 ELSE stage[q]
      BY <1>5, <2>2, Zenon DEF TakeStage
    <3>5. stage[r] = 1
      BY <2>2, Zenon DEF TakeStage
    <3>6. \A q \in Staged : Told(q) \in Int /\ Taken(q) \in Int
      OBVIOUS
    <3> HIDE DEF Told, Taken, TypeOK, TelemetryInv, UpdateInv
    <3> QED
      BY <1>5, <3>1, <3>2, <3>3, <3>4, <3>5, <3>6
  <2>3. CASE BindMeter(r)
    BY <1>5, <2>3, Zenon DEF BindMeter
  <2>4. CASE Register(r)
    BY <1>5, <2>4, Zenon DEF Register
  <2>5. CASE AllRegistered(r)
    BY <1>5, <2>5, Zenon DEF AllRegistered
  <2>6. CASE StagedSignal(r)
    BY <1>5, <2>6 DEF StagedSignal
  <2> QED
    BY <1>5, <2>1, <2>2, <2>3, <2>4, <2>5, <2>6, Zenon DEF GoStaged
<1>6. CASE RestartServer
  BY <1>6, Zenon DEF RestartServer
<1>7. CASE GoTelemetry
  <2>1. CASE TelemetryReceive
    BY <2>1 DEF TelemetryReceive
  <2>2. CASE NewRegistry
    BY <2>2, Zenon DEF NewRegistry
  <2>3. CASE SetProvider
    BY <2>3 DEF SetProvider
  <2>4. CASE SendStage
    BY <2>4 DEF SendStage, StageListeners
  <2>5. CASE TelemetrySignal
    BY <2>5, SMTT(30) DEF TelemetrySignal
  <2> QED
    BY <1>7, <2>1, <2>2, <2>3, <2>4, <2>5, Zenon DEF GoTelemetry
<1>8. CASE GoSignals
  BY <1>8, SMTT(30) DEF GoSignals, Notify, SignalsReceive, TakeSignal,
              ProcessNotFound, ForwardSignal, SignalListeners
<1>9. CASE ProcessListFails \/ DeliverSignal \/ AppExits
  BY <1>9 DEF ProcessListFails, DeliverSignal, AppExits
<1>10. CASE UNCHANGED vars
  BY <1>10, SMTT(30) DEF vars
<1> QED
  BY <1>1, <1>2, <1>3, <1>4, <1>5, <1>6, <1>7, <1>8, <1>9, <1>10, Zenon
     DEF Next, GoConfig, GoEgress, GoIngress, Environment

\* configureTelemetry replaces the registry first and the providers later.
LEMMA TelemetryStep == IInv /\ [Next]_vars => TelemetryInv'
<1> SUFFICES ASSUME IInv, [Next]_vars PROVE TelemetryInv'
  OBVIOUS
<1> USE DEF IInv, TypeOK, Routines, Updated, Staged, Signalled, UpdateInv,
            TelemetryInv
<1> USE DEF Goto, Return, Receive, mainVars, configVars, telemetryVars,
            metricVars, signalVars
<1>1. CASE Main
  BY <1>1, Zenon DEF Main, Go, WgAdd, WgWait, StartOrder, Entry
<1>2. CASE ReadFirst \/ Reload
  BY <1>2, Zenon DEF ReadFirst, Reload, Load
<1>3. CASE ConfigSend
  BY <1>3, Zenon DEF ConfigSend, ConfigListeners
<1>4. CASE CreateWatcher \/ ConfigSignal
  BY <1>4, SMTT(30) DEF CreateWatcher, ConfigSignal
<1>5. ASSUME NEW r \in Staged, GoStaged(r) PROVE TelemetryInv'
  BY <1>5, Zenon DEF GoStaged, StagedReceive, TakeStage, BindMeter, Register,
              AllRegistered, StagedSignal
<1>6. CASE RestartServer
  BY <1>6, Zenon DEF RestartServer
<1>7. CASE GoTelemetry
  <2>1. CASE TelemetryReceive
    BY <2>1 DEF TelemetryReceive
  <2>2. CASE NewRegistry
    BY <2>2, Zenon DEF NewRegistry
  <2>3. CASE SetProvider
    BY <2>3, Zenon DEF SetProvider
  <2>4. CASE SendStage
    BY <2>4, Zenon DEF SendStage, StageListeners
  <2>5. CASE TelemetrySignal
    BY <2>5, SMTT(30) DEF TelemetrySignal
  <2> QED
    BY <1>7, <2>1, <2>2, <2>3, <2>4, <2>5, Zenon DEF GoTelemetry
<1>8. CASE GoSignals
  BY <1>8, Zenon DEF GoSignals, Notify, SignalsReceive, TakeSignal,
              ProcessNotFound, ForwardSignal, SignalListeners
<1>9. CASE ProcessListFails \/ DeliverSignal \/ AppExits
  BY <1>9, Zenon DEF ProcessListFails, DeliverSignal, AppExits
<1>10. CASE UNCHANGED vars
  BY <1>10, Zenon DEF vars
<1> QED
  BY <1>1, <1>2, <1>3, <1>4, <1>5, <1>6, <1>7, <1>8, <1>9, <1>10, Zenon
     DEF Next, GoConfig, GoEgress, GoIngress, Environment

\* Whoever is past its wait for the stage finds the registry and the
\* providers of its version, or of a later one.
LEMMA Barrier ==
  IInv => \A r \in Staged :
            pc[r] \in {"meter", "register", "serve"} =>
              provider >= cur[r] /\ registry >= cur[r]
<1> SUFFICES ASSUME IInv, NEW r \in Staged,
                    pc[r] \in {"meter", "register", "serve"}
             PROVE  provider >= cur[r] /\ registry >= cur[r]
  OBVIOUS
<1> USE DEF IInv, TypeOK, Staged, Routines, Updated
<1>1. Taken(r) = cur[r]
  BY DEF Taken
<1>2. Told(r) >= cur[r]
  <2>1. stage[r] = Told(r) - cur[r] /\ stage[r] \in {0, 1}
    BY <1>1, Zenon DEF StageInv
  <2>2. Told(r) \in Int /\ cur[r] \in Int
    BY DEF Told
  <2> HIDE DEF IInv, TypeOK
  <2> QED
    BY <2>1, <2>2
<1>3. provider >= Told(r) /\ registry >= Told(r)
  BY DEF TelemetryInv, Told
<1>4. Told(r) \in Int
  BY SMTT(30) DEF Told
<1> QED
  BY <1>2, <1>3, <1>4

\* Binding meters, metrics and the server keeps them between the version
\* being applied and what telemetry has made.
LEMMA MetricStep == IInv /\ [Next]_vars => MetricInv'
<1> SUFFICES ASSUME IInv, [Next]_vars PROVE MetricInv'
  OBVIOUS
<1> USE DEF IInv, TypeOK, Routines, Updated, Staged, Signalled, UpdateInv,
            MetricInv, TelemetryInv
<1> USE DEF Goto, Return, Receive, mainVars, configVars, telemetryVars,
            metricVars, signalVars
<1>1. CASE Main
  BY <1>1, SMTT(30) DEF Main, Go, WgAdd, WgWait, StartOrder, Entry
<1>2. CASE ReadFirst \/ Reload
  BY <1>2, SMTT(30) DEF ReadFirst, Reload, Load
<1>3. CASE ConfigSend
  BY <1>3, SMTT(30) DEF ConfigSend, ConfigListeners
<1>4. CASE CreateWatcher \/ ConfigSignal
  <2>1. CASE CreateWatcher
    BY <2>1, Zenon DEF CreateWatcher
  <2>2. CASE ConfigSignal
    BY <2>2, SMTT(30) DEF ConfigSignal
  <2> QED
    BY <1>4, <2>1, <2>2, Zenon
<1>5. ASSUME NEW r \in Staged, GoStaged(r) PROVE MetricInv'
  <2>1. CASE StagedReceive(r)
    BY <1>5, <2>1, SMTT(30) DEF StagedReceive
  <2>2. CASE TakeStage(r)
    BY <1>5, <2>2, SMTT(30) DEF TakeStage
  <2>3. CASE BindMeter(r)
    <3>1. /\ UNCHANGED <<registry, provider, server, cur>>
          /\ pc[r] = "meter" /\ pc' = [pc EXCEPT ![r] = "register"]
          /\ meter' = [meter EXCEPT ![r] = provider]
          /\ registered' = [registered EXCEPT ![r] = {}]
      BY <2>3, SMTT(30) DEF BindMeter
    <3>2. provider >= cur[r]
      BY <1>5, <3>1, Barrier, Zenon
    <3> QED
      BY <1>5, <3>1, <3>2, SMTT(30)
  <2>4. CASE Register(r)
    BY <1>5, <2>4, Barrier DEF Register
  <2>5. CASE AllRegistered(r)
    BY <1>5, <2>5, Zenon DEF AllRegistered
  <2>6. CASE StagedSignal(r)
    <3>1. /\ UNCHANGED <<registry, provider, meter, registered, cur>>
          /\ pc' = [pc EXCEPT ![r] = "done"]
          /\ server' = IF r = "ingress" THEN 0 ELSE server
      BY <2>6, SMTT(30) DEF StagedSignal
    <3> QED
      BY <1>5, <3>1
  <2> QED
    BY <1>5, <2>1, <2>2, <2>3, <2>4, <2>5, <2>6, Zenon DEF GoStaged
<1>6. CASE RestartServer
  BY <1>6, Barrier, SMTT(30) DEF RestartServer
<1>7. CASE GoTelemetry
  <2>1. CASE TelemetryReceive
    BY <2>1, Zenon DEF TelemetryReceive
  <2>2. CASE NewRegistry
    BY <2>2 DEF NewRegistry
  <2>3. CASE SetProvider
    BY <2>3, SMTT(30) DEF SetProvider
  <2>4. CASE SendStage
    BY <2>4, SMTT(30) DEF SendStage, StageListeners
  <2>5. CASE TelemetrySignal
    BY <2>5 DEF TelemetrySignal
  <2> QED
    BY <1>7, <2>1, <2>2, <2>3, <2>4, <2>5, SMTT(30) DEF GoTelemetry
<1>8. CASE GoSignals
  <2>1. CASE Notify
    BY <2>1, Zenon DEF Notify
  <2>2. CASE SignalsReceive
    BY <2>2, Zenon DEF SignalsReceive
  <2>3. CASE TakeSignal
    BY <2>3, Zenon DEF TakeSignal
  <2>4. CASE ProcessNotFound
    BY <2>4, Zenon DEF ProcessNotFound
  <2>5. CASE ForwardSignal
    BY <2>5, SMTT(30) DEF ForwardSignal, SignalListeners
  <2> QED
    BY <1>8, <2>1, <2>2, <2>3, <2>4, <2>5 DEF GoSignals
<1>9. CASE ProcessListFails \/ DeliverSignal \/ AppExits
  BY <1>9 DEF ProcessListFails, DeliverSignal, AppExits
<1>10. CASE UNCHANGED vars
  BY <1>10, Zenon DEF vars
<1> QED
  BY <1>1, <1>2, <1>3, <1>4, <1>5, <1>6, <1>7, <1>8, <1>9, <1>10, Zenon
     DEF Next, GoConfig, GoEgress, GoIngress, Environment

\* Forwarding fills the buffers in the order of the list, each once.
LEMMA SignalStep == IInv /\ [Next]_vars => SignalInv'
<1> SUFFICES ASSUME IInv, [Next]_vars PROVE SignalInv'
  OBVIOUS
<1> USE DEF IInv, TypeOK, Routines, Updated, Staged, Signalled, SignalInv
<1> USE DEF Goto, Return, Receive, mainVars, configVars, telemetryVars,
            metricVars, signalVars
<1>1. CASE Main
  BY <1>1, Zenon DEF Main, Go, WgAdd, WgWait, StartOrder, Entry, SignalListeners
<1>2. CASE ReadFirst \/ Reload
  BY <1>2 DEF ReadFirst, Reload, Load, SignalListeners
<1>3. CASE ConfigSend
  BY <1>3, Zenon DEF ConfigSend, ConfigListeners, SignalListeners
<1>4. CASE CreateWatcher \/ ConfigSignal
  BY <1>4, SMTT(30) DEF CreateWatcher, ConfigSignal, SignalListeners
<1>5. ASSUME NEW r \in Staged, GoStaged(r) PROVE SignalInv'
  BY <1>5 DEF GoStaged, StagedReceive, TakeStage, BindMeter, Register,
              AllRegistered, StagedSignal, SignalListeners
<1>6. CASE RestartServer
  BY <1>6, SMTT(30) DEF RestartServer, SignalListeners
<1>7. CASE GoTelemetry
  BY <1>7, SMTT(30) DEF GoTelemetry, TelemetryReceive, NewRegistry, SetProvider,
              SendStage, TelemetrySignal, StageListeners, SignalListeners
<1>8. CASE GoSignals
  BY <1>8 DEF GoSignals, Notify, SignalsReceive, TakeSignal,
              ProcessNotFound, ForwardSignal, SignalListeners
<1>9. CASE ProcessListFails \/ DeliverSignal \/ AppExits
  BY <1>9 DEF ProcessListFails, DeliverSignal, AppExits, SignalListeners
<1>10. CASE UNCHANGED vars
  BY <1>10, SMTT(30) DEF vars, SignalListeners
<1> QED
  BY <1>1, <1>2, <1>3, <1>4, <1>5, <1>6, <1>7, <1>8, <1>9, <1>10, Zenon
     DEF Next, GoConfig, GoEgress, GoIngress, Environment

\* wg.Add and the deferred wg.Done keep the count of goroutines.
LEMMA WaitStep == IInv /\ [Next]_vars => WaitInv'
<1> SUFFICES ASSUME IInv, [Next]_vars PROVE WaitInv'
  OBVIOUS
<1> USE DEF IInv, TypeOK, Routines, Updated, Staged, Signalled, WaitInv,
            Finished
<1> USE DEF Goto, Return, Receive, mainVars, configVars, telemetryVars,
            metricVars, signalVars
<1>1. CASE Main
  BY <1>1 DEF Main, Go, WgAdd, WgWait, StartOrder, Entry
<1>2. CASE ReadFirst \/ Reload
  BY <1>2, SMTT(30) DEF ReadFirst, Reload, Load
<1>3. CASE ConfigSend
  BY <1>3, SMTT(30) DEF ConfigSend, ConfigListeners
<1>4. CASE CreateWatcher \/ ConfigSignal
  BY <1>4, SMTT(30) DEF CreateWatcher, ConfigSignal
<1>5. ASSUME NEW r \in Staged, GoStaged(r) PROVE WaitInv'
  BY <1>5 DEF GoStaged, StagedReceive, TakeStage, BindMeter, Register,
              AllRegistered, StagedSignal
<1>6. CASE RestartServer
  BY <1>6, SMTT(30) DEF RestartServer
<1>7. CASE GoTelemetry
  BY <1>7, SMTT(30) DEF GoTelemetry, TelemetryReceive, NewRegistry, SetProvider,
              SendStage, TelemetrySignal, StageListeners
<1>8. CASE GoSignals
  BY <1>8 DEF GoSignals, Notify, SignalsReceive, TakeSignal,
              ProcessNotFound, ForwardSignal, SignalListeners
<1>9. CASE ProcessListFails \/ DeliverSignal \/ AppExits
  BY <1>9, Zenon DEF ProcessListFails, DeliverSignal, AppExits
<1>10. CASE UNCHANGED vars
  BY <1>10, Zenon DEF vars
<1> QED
  BY <1>1, <1>2, <1>3, <1>4, <1>5, <1>6, <1>7, <1>8, <1>9, <1>10, Zenon
     DEF Next, GoConfig, GoEgress, GoIngress, Environment

-----------------------------------------------------------------------------
\* The process starts with empty channels and no goroutine.
LEMMA InitIInv == Init => IInv
<1> SUFFICES ASSUME Init PROVE IInv
  BY Zenon
<1> USE DEF Init, Routines, Updated, Staged, Signalled
<1>1. TypeOK
  <2>1. /\ osSignal \in BOOLEAN /\ watching \in BOOLEAN /\ appAlive \in BOOLEAN
        /\ signal \in [Signalled -> BOOLEAN]
    BY Zenon
  <2>2. /\ started \in 0..5 /\ added \in 0..5 /\ wg \in Int
        /\ loads \in 0..MaxLoads /\ notified \in 0..4 /\ staged \in 0..2
        /\ sent \in 0..MaxSignals /\ forwarded \in 0..4
        /\ registry \in Nat /\ provider \in Nat /\ server \in Nat
    BY BoundsAssumption
  <2>3. /\ update \in [Updated -> Nat] /\ cur \in [Updated -> Nat]
        /\ stage \in [Staged -> {0, 1}] /\ meter \in [Staged -> Nat]
        /\ registered \in [Staged -> SUBSET Nat]
    BY Zenon
  <2>4. /\ pc \in [Routines -> Locations]
        /\ \A r \in Routines : pc[r] = "unborn"
        /\ proc \in {"running", "exited", "killed", "rejected", "crashed"}
    BY Zenon DEF Locations
  <2> HIDE DEF Init
  <2> QED
    BY <2>1, <2>2, <2>3, <2>4 DEF TypeOK
<1>2. UpdateInv /\ StageInv /\ TelemetryInv
  BY DEF UpdateInv, SentTo, StageInv, Told, Taken, TelemetryInv
<1>3. MetricInv
  BY DEF MetricInv
<1>5. WaitInv
  <2>1. \A r \in Routines : pc[r] = "unborn" /\ Finished(r) = 0
    BY DEF Finished
  <2>2. added = 0 /\ wg = 0 /\ proc = "running"
    BY Zenon
  <2> HIDE DEF Init
  <2> QED
    BY <2>1, <2>2 DEF WaitInv
<1>4. SignalInv
  BY DEF SignalInv, SignalListeners
<1> QED
  BY <1>1, <1>2, <1>3, <1>4, <1>5 DEF IInv

\* Every step keeps IInv.
LEMMA Inductive == IInv /\ [Next]_vars => IInv'
BY TypeStep, UpdateStep, StageStep, TelemetryStep, MetricStep, SignalStep,
   WaitStep DEF IInv

\* IInv is an invariant of the control plane.
THEOREM Invariance == Spec => []IInv
BY InitIInv, Inductive, PTL DEF Spec

\* Every variable keeps its type, and every index into a list of listeners
\* its range, in every behaviour of the five goroutines.
THEOREM TypeCorrect == Spec => []TypeOK
<1>1. IInv => TypeOK
  BY Zenon DEF IInv
<1> QED
  BY <1>1, Invariance, PTL

\* IInv implies NoStaleMetrics.
LEMMA NotStaleOfIInv == IInv => NoStaleMetrics
BY Zenon DEF IInv, MetricInv, NoStaleMetrics

\* The version-less token of ConfigStageChannel is enough: egress and ingress
\* never end an update bound to a registry or provider of an older version.
THEOREM MetricsNotStale == Spec => []NoStaleMetrics
BY NotStaleOfIInv, Invariance, PTL

\* IInv implies RegistrySkew.
LEMMA SkewOfIInv == IInv => RegistrySkew
<1>1. ASSUME IInv, NEW r \in Staged PROVE registry <= cur[r] + 1
  <2> USE DEF IInv, TypeOK, Staged, Routines, Updated
  <2>1. registry <= cur["telemetry"]
    BY <1>1 DEF TelemetryInv
  <2>2. cur["telemetry"] <= SentTo("telemetry")
    BY <1>1 DEF UpdateInv, SentTo
  <2>3. SentTo("telemetry") <= SentTo(r)
    BY <1>1 DEF SentTo, ConfigPos
  <2>4. SentTo(r) <= cur[r] + 1
    BY <1>1 DEF UpdateInv, SentTo
  <2>5. SentTo("telemetry") \in Int /\ SentTo(r) \in Int
    BY <1>1 DEF SentTo
  <2> QED
    BY <1>1, <2>1, <2>2, <2>3, <2>4, <2>5
<1> QED
  BY <1>1, Barrier, Zenon DEF RegistrySkew

\* telemetry is at most one version ahead of egress and ingress, and never
\* behind one that is past its wait.
THEOREM TelemetryOneAhead == Spec => []RegistrySkew
BY SkewOfIInv, Invariance, PTL

\* IInv implies MetricsVisible.
LEMMA RestOfIInv == IInv => MetricsVisible
<1>1. ASSUME IInv, Settled PROVE MetricsVisible
  <2> USE <1>1 DEF IInv, TypeOK, Staged, Routines, Updated, Settled
  <2>1. \A r \in Updated \ {"signals"} : cur[r] = loads
    BY Zenon DEF UpdateInv, SentTo
  <2>2. provider = loads /\ registry = loads
    BY <2>1, Zenon DEF TelemetryInv
  <2>3. server = loads
    BY <2>1, <2>2 DEF MetricInv
  <2>4. \A r \in Staged : meter[r] = loads /\ registered[r] \subseteq {loads}
    BY <2>1, <2>2 DEF MetricInv
  <2> QED
    BY <2>1, <2>2, <2>3, <2>4, Zenon DEF MetricsVisible
<1> QED
  BY <1>1, Zenon DEF MetricsVisible

\* With the pipeline at rest the HTTP server exposes the registry that holds
\* all metrics, and it is that of the version loaded last.
THEOREM RestIsConsistent == Spec => []MetricsVisible
BY RestOfIInv, Invariance, PTL

\* telemetry never waits for a listener that does not wait for it: the listener
\* was sent the version before telemetry was, and cannot be done with it before
\* telemetry.
LEMMA NoWaitForIdle ==
  ASSUME IInv, NEW r \in Staged, pc["telemetry"] = "stage",
         r = StageListeners[staged + 1], stage[r] = 1, pc[r] # "stage"
  PROVE  FALSE
<1> USE DEF IInv, TypeOK, Staged, Routines, Updated
<1>1. staged < StagePos(r)
  BY DEF StageListeners, StagePos
<1>2. cur["telemetry"] = cur[r] + 2
  BY <1>1 DEF StageInv, Told, Taken
<1>3. SentTo(r) <= cur[r] + 1
  BY DEF UpdateInv, SentTo
<1>4. cur["telemetry"] <= SentTo("telemetry")
  BY DEF UpdateInv, SentTo
<1>5. SentTo("telemetry") <= SentTo(r)
  BY DEF SentTo, ConfigPos
<1> QED
  BY <1>2, <1>3, <1>4, <1>5 DEF SentTo

\* config never waits for a listener whose stage an idle telemetry owes it.
LEMMA NoWaitForOwed ==
  ASSUME IInv, NEW r \in Staged, pc["config"] = "send",
         r = ConfigListeners[notified + 1], update[r] # 0,
         pc[r] = "stage", stage[r] = 0,
         pc["telemetry"] = "select", update["telemetry"] = 0
  PROVE  FALSE
<1> USE DEF IInv, TypeOK, Staged, Routines, Updated
<1>1. notified < ConfigPos(r) /\ notified < ConfigPos("telemetry")
  BY DEF ConfigListeners, ConfigPos
<1>2. cur[r] = loads - 2
  BY <1>1 DEF UpdateInv, SentTo
<1>3. cur["telemetry"] = loads - 1
  BY <1>1, Zenon DEF UpdateInv, SentTo
<1>4. cur["telemetry"] = cur[r] - 1
  BY DEF StageInv, Told, Taken
<1> QED
  BY <1>2, <1>3, <1>4

\* IInv implies NoCircularWait.
LEMMA NoCircleOfIInv == IInv => NoCircularWait
<1>1. ASSUME IInv, NEW S \in SUBSET Routines, S # {},
             \A a \in S : \E b \in S : WaitsFor(a, b)
      PROVE  FALSE
  <2>1. ASSUME "telemetry" \in S, pc["telemetry"] = "stage" PROVE FALSE
    <3>1. PICK r \in S : WaitsFor("telemetry", r)
      BY <1>1, <2>1, Zenon
    <3>2. /\ r \in Staged /\ r = StageListeners[staged + 1] /\ stage[r] = 1
      BY <1>1, <2>1, <3>1
         DEF WaitsFor, StageListeners, Staged, IInv, TypeOK
    <3>3. PICK b \in S : WaitsFor(r, b)
      BY <1>1, <3>1, Zenon
    <3>4. pc[r] = "select" /\ update[r] = 0
      BY <3>2, <3>3 DEF WaitsFor, Staged
    <3> QED
      BY <1>1, <2>1, <3>2, <3>4, NoWaitForIdle
  <2>2. ASSUME "telemetry" \in S
        PROVE  pc["telemetry"] = "select" /\ update["telemetry"] = 0
    <3>1. PICK b \in S : WaitsFor("telemetry", b)
      BY <1>1, <2>2
    <3> QED
      BY <2>1, <2>2, <3>1 DEF WaitsFor, Staged
  <2>3. "config" \in S
    <3>1. PICK a \in S : TRUE
      BY <1>1
    <3>2. PICK b \in S : WaitsFor(a, b)
      BY <1>1, Zenon
    <3>3. a = "config" \/ b = "config" \/ "telemetry" \in S
      BY <3>1, <3>2, Zenon DEF WaitsFor
    <3>4. CASE "telemetry" \in S
      <4>1. PICK c \in S : WaitsFor("telemetry", c)
        BY <1>1, <3>4
      <4> QED
        BY <2>2, <3>4, <4>1 DEF WaitsFor, Staged
    <3> QED
      BY <3>1, <3>2, <3>3, <3>4
  <2>4. PICK r \in S : WaitsFor("config", r)
    BY <1>1, <2>3, Zenon
  <2>5. /\ pc["config"] = "send" /\ r = ConfigListeners[notified + 1]
        /\ update[r] # 0
    BY <2>4, Zenon DEF WaitsFor, Updated, Staged
  <2>6. PICK b \in S : WaitsFor(r, b)
    BY <1>1
  <2>7. r # "config"
    BY <1>1, <2>5 DEF ConfigListeners, IInv, TypeOK
  <2>8. \/ r \in Staged /\ pc[r] = "stage" /\ stage[r] = 0 /\ b = "telemetry"
        \/ r = "telemetry" /\ pc[r] = "stage"
    BY <2>5, <2>6, <2>7, Zenon DEF WaitsFor
  <2> QED
    BY <1>1, <2>1, <2>2, <2>5, <2>8, NoWaitForOwed, Zenon
<1> QED
  BY <1>1, Zenon DEF NoCircularWait

\* The goroutines never deadlock among themselves: whatever set of them is
\* taken, one waits for nobody in it.
THEOREM DeadlockFree == Spec => []NoCircularWait
BY NoCircleOfIInv, Invariance, PTL

\* IInv implies ForwardNeverBlocks.
LEMMA ForwardOfIInv == IInv => ForwardNeverBlocks
BY DEF IInv, TypeOK, SignalInv, ForwardNeverBlocks

\* signals never blocks while it forwards a signal.
THEOREM ForwardingIsFree == Spec => []ForwardNeverBlocks
BY ForwardOfIInv, Invariance, PTL

\* IInv implies ExitComplete.
LEMMA ExitOfIInv == IInv => ExitComplete
BY DEF IInv, TypeOK, Routines, WaitInv, Finished, ExitComplete

\* main returns from wg.Wait only when all five goroutines have returned.
THEOREM ExitIsComplete == Spec => []ExitComplete
BY ExitOfIInv, Invariance, PTL

-----------------------------------------------------------------------------
\* Before signals forwards, every other goroutine has been added.
LEMMA AddedBeforeForward ==
  IInv /\ StartInv /\ pc["signals"] \in {"forward", "done"} => added >= 4
BY DEF IInv, TypeOK, StartInv

\* Whoever has a signal waiting was sent it by signals.
LEMMA SignalFromSignals ==
  ASSUME IInv, NEW r \in Signalled, signal[r]
  PROVE  pc["signals"] \in {"forward", "done"}
BY DEF IInv, TypeOK, SignalInv, SignalListeners, Signalled, Routines

\* A return that takes the counter below zero is the last of the five.
LEMMA LastReturn ==
  ASSUME IInv, StartInv, NEW r \in Routines, NEW from, Return(r, from),
         from # "done", pc["signals"] \in {"forward", "done"}
  PROVE  CrashOnlyAtTheEdges'
<1>1. added >= 4
  BY AddedBeforeForward, Zenon
<1>2. CASE wg = 0
  <2>1. \A q \in Routines \ {r} : pc[q] = "done"
    BY <1>1, <1>2 DEF IInv, TypeOK, WaitInv, Finished, Return, Goto, Routines
  <2> QED
    BY <2>1, Zenon DEF CrashOnlyAtTheEdges, Return, Goto, IInv, TypeOK
<1>3. CASE wg # 0
  BY <1>3, SMTT(30) DEF CrashOnlyAtTheEdges, Return, Goto
<1> QED
  BY <1>2, <1>3

\* Starting, forwarding and returning keep StartInv.
LEMMA StartStep == IInv /\ StartInv /\ [Next]_vars => StartInv'
<1> SUFFICES ASSUME IInv, StartInv, [Next]_vars PROVE StartInv'
  BY Zenon
<1> USE DEF TypeOK, Routines, Updated, Staged, Signalled, StartInv
<1> USE DEF Goto, Receive, mainVars, configVars, telemetryVars, metricVars,
            signalVars
<1>0. TypeOK
  BY DEF IInv
<1>1. CASE Main
  BY <1>0, <1>1, SMTT(30) DEF Main, Go, WgAdd, WgWait, StartOrder, Entry,
                    CrashOnlyAtTheEdges
<1>2. CASE ReadFirst \/ Reload
  BY <1>0, <1>2, SMTT(30) DEF ReadFirst, Reload, Load, CrashOnlyAtTheEdges
<1>3. CASE ConfigSend
  BY <1>0, <1>3, Zenon DEF ConfigSend, ConfigListeners, CrashOnlyAtTheEdges
<1>4. CASE CreateWatcher
  BY <1>0, <1>4, Zenon DEF CreateWatcher, CrashOnlyAtTheEdges
<1>5. CASE ConfigSignal
  <2>1. pc["signals"] \in {"forward", "done"}
    BY <1>5, SignalFromSignals, Zenon DEF ConfigSignal
  <2>2. CrashOnlyAtTheEdges'
    BY <1>5, <2>1, LastReturn, Zenon DEF ConfigSignal
  <2> QED
    BY <1>0, <1>5, <2>1, <2>2, Zenon DEF ConfigSignal, Return
<1>6. ASSUME NEW r \in Staged, GoStaged(r) PROVE StartInv'
  <2>1. CASE StagedSignal(r)
    <3>1. pc["signals"] \in {"forward", "done"}
      BY <2>1, SignalFromSignals, Zenon DEF StagedSignal
    <3>2. CrashOnlyAtTheEdges'
      BY <2>1, <3>1, LastReturn, SMTT(30) DEF StagedSignal
    <3> QED
      BY <1>0, <2>1, <3>1, <3>2, Zenon DEF StagedSignal, Return
  <2>2. CASE ~StagedSignal(r)
    BY <1>0, <1>6, <2>2, SMTT(30)
       DEF GoStaged, StagedReceive, TakeStage, BindMeter, Register,
           AllRegistered, CrashOnlyAtTheEdges
  <2> QED
    BY <2>1, <2>2, SMTT(30)
<1>7. CASE RestartServer
  BY <1>0, <1>7, SMTT(30) DEF RestartServer, CrashOnlyAtTheEdges
<1>8. CASE TelemetrySignal
  <2>1. pc["signals"] \in {"forward", "done"}
    BY <1>8, SignalFromSignals, Zenon DEF TelemetrySignal
  <2>2. CrashOnlyAtTheEdges'
    <3>1. CASE provider = 0
      BY <1>8, <3>1, Zenon DEF TelemetrySignal, CrashOnlyAtTheEdges
    <3>2. CASE provider # 0
      BY <1>8, <2>1, <3>2, LastReturn, SMTT(30) DEF TelemetrySignal
    <3> QED
      BY <3>1, <3>2, Zenon
  <2> QED
    BY <1>0, <1>8, <2>1, <2>2, Zenon DEF TelemetrySignal, Return
<1>9. CASE TelemetryReceive \/ NewRegistry \/ SetProvider \/ SendStage
  BY <1>0, <1>9, SMTT(30) DEF TelemetryReceive, NewRegistry, SetProvider, SendStage,
                    StageListeners, CrashOnlyAtTheEdges
<1>10. CASE ForwardSignal
  <2>1. pc["signals"] = "forward"
    BY <1>10, Zenon DEF ForwardSignal, Return
  <2>2. CrashOnlyAtTheEdges'
    <3>1. CASE Return("signals", "forward")
      BY <2>1, <3>1, LastReturn, SMTT(30)
    <3>2. CASE ~Return("signals", "forward")
      BY <1>10, <3>2, SMTT(30) DEF ForwardSignal, CrashOnlyAtTheEdges
    <3> QED
      BY <3>1, <3>2, Zenon
  <2> QED
    BY <1>0, <1>10, <2>1, <2>2, Zenon DEF ForwardSignal, Return
<1>11. CASE Notify \/ SignalsReceive \/ TakeSignal \/ ProcessNotFound
  BY <1>0, <1>11, SMTT(30) DEF Notify, SignalsReceive, TakeSignal, ProcessNotFound,
                     CrashOnlyAtTheEdges
<1>12. CASE ProcessListFails \/ DeliverSignal \/ AppExits
  BY <1>0, <1>12, SMTT(30) DEF ProcessListFails, DeliverSignal, AppExits,
                     CrashOnlyAtTheEdges
<1>13. CASE UNCHANGED vars
  BY <1>13 DEF vars, CrashOnlyAtTheEdges
<1> QED
  BY <1>1, <1>2, <1>3, <1>4, <1>5, <1>6, <1>7, <1>8, <1>9, <1>10, <1>11,
     <1>12, <1>13, Zenon
     DEF Next, GoConfig, GoEgress, GoIngress, GoTelemetry, GoSignals,
         Environment

\* After the first configuration a shutdown panics only if all five goroutines
\* return before main's last wg.Add, although main adds after it starts.
THEOREM CrashesAreEarly == Spec => []CrashOnlyAtTheEdges
<1>1. Init => StartInv
  BY DEF Init, StartInv, CrashOnlyAtTheEdges, Routines, Signalled
<1>2. StartInv => CrashOnlyAtTheEdges
  BY Zenon DEF StartInv
<1> QED
  BY <1>1, <1>2, StartStep, Invariance, PTL DEF Spec

-----------------------------------------------------------------------------
(* The control plane implements Rollout.  Three steps of Rollout have a      *)
(* guard that no test in the code corresponds to; each follows from the      *)
(* counts of IInv.                                                           *)

\* What egress or ingress receives is the version after its last.
LEMMA NextVersion ==
  ASSUME IInv, NEW r \in Staged, update[r] # 0
  PROVE  update[r] = cur[r] + 1
BY Zenon DEF IInv, UpdateInv, Staged, Updated, Routines

\* A stage token in the buffer stands for a version telemetry has finished.
LEMMA TokenMeansProvider ==
  ASSUME IInv, NEW r \in Staged, pc[r] = "stage", stage[r] = 1
  PROVE  provider >= cur[r]
<1> USE DEF IInv, TypeOK, Staged, Routines, Updated
<1>1. Told(r) = cur[r]
  BY DEF StageInv, Told, Taken
<1>2. provider >= Told(r)
  BY DEF TelemetryInv, Told
<1> QED
  BY <1>1, <1>2, Zenon

\* telemetry begins a version when egress and ingress have received the one
\* before: config sends a version to them first.
LEMMA OthersHaveReceived ==
  ASSUME IInv, NEW r \in Staged, pc["telemetry"] = "registry"
  PROVE  cur[r] >= registry
<1> USE DEF IInv, TypeOK, Staged, Routines, Updated
<1>1. registry = cur["telemetry"] - 1
  BY Zenon DEF TelemetryInv
<1>2. cur["telemetry"] <= SentTo("telemetry")
  BY DEF UpdateInv, SentTo
<1>3. SentTo("telemetry") <= SentTo(r)
  BY DEF SentTo, ConfigPos
<1>4. SentTo(r) <= cur[r] + 1
  BY DEF UpdateInv, SentTo
<1>5. SentTo("telemetry") \in Int /\ SentTo(r) \in Int
  BY DEF SentTo
<1> QED
  BY <1>1, <1>2, <1>3, <1>4, <1>5

\* A step that keeps the registry, the provider, the versions and the phases is
\* a stutter of Rollout.
LEMMA Stutter ==
  ASSUME UNCHANGED <<registry, provider>>,
         \A r \in Staged : cur'[r] = cur[r] /\ phaseBar'[r] = phaseBar[r]
  PROVE  UNCHANGED R!rolloutVars
<1>1. versionBar' = versionBar
  BY Zenon DEF versionBar
<1>2. phaseBar' = phaseBar
  BY Zenon DEF phaseBar
<1> QED
  BY <1>1, <1>2, Zenon DEF R!rolloutVars

\* Every step of the control plane is a step of Rollout or a stutter.
LEMMA RolloutStep == IInv /\ [Next]_vars => [R!Next]_(R!rolloutVars)
<1> SUFFICES ASSUME IInv, [Next]_vars PROVE [R!Next]_(R!rolloutVars)
  OBVIOUS
<1> USE DEF Goto, Return, Receive, mainVars, configVars, telemetryVars,
            metricVars, signalVars
<1>0. TypeOK
  BY Zenon DEF IInv
<1> USE DEF TypeOK, Routines, Updated, Staged, Signalled
<1>1. CASE Main
  BY <1>0, <1>1, Stutter, Zenon
     DEF Main, Go, WgAdd, WgWait, StartOrder, Entry, phaseBar
<1>2. CASE ReadFirst \/ Reload \/ ConfigSend
  BY <1>0, <1>2, Stutter, Zenon
     DEF ReadFirst, Reload, Load, ConfigSend, ConfigListeners, phaseBar
<1>3. CASE CreateWatcher \/ ConfigSignal
  BY <1>0, <1>3, Stutter, Zenon DEF CreateWatcher, ConfigSignal, phaseBar
<1>4. ASSUME NEW r \in Staged, GoStaged(r) PROVE [R!Next]_(R!rolloutVars)
  <2>1. CASE StagedReceive(r)
    <3>1. phaseBar[r] = "rest" /\ phaseBar' = [phaseBar EXCEPT ![r] = "waiting"]
      BY <1>0, <1>4, <2>1, Zenon DEF StagedReceive, phaseBar
    <3>2. versionBar' = [versionBar EXCEPT ![r] = @ + 1]
      BY <1>0, <1>4, <2>1, NextVersion, Zenon DEF StagedReceive, versionBar
    <3> QED
      BY <1>4, <2>1, <3>1, <3>2, Zenon DEF StagedReceive, R!Receive, R!Next
  <2>2. CASE TakeStage(r)
    <3>1. phaseBar[r] = "waiting" /\ phaseBar' = [phaseBar EXCEPT ![r] = "applying"]
      BY <1>0, <1>4, <2>2, Zenon DEF TakeStage, phaseBar
    <3>2. provider >= versionBar[r] /\ versionBar' = versionBar
      BY <1>0, <1>4, <2>2, TokenMeansProvider, Zenon DEF TakeStage, versionBar
    <3> QED
      BY <1>4, <2>2, <3>1, <3>2, Zenon DEF TakeStage, R!Start, R!Next
  <2>3. CASE BindMeter(r) \/ Register(r) \/ StagedSignal(r)
    BY <1>0, <1>4, <2>3, Stutter DEF BindMeter, Register, StagedSignal, phaseBar
  <2>4. CASE AllRegistered(r)
    <3>1. CASE r = "ingress"
      BY <1>0, <2>4, <3>1, Stutter DEF AllRegistered, phaseBar
    <3>2. CASE r = "egress"
      <4>1. /\ phaseBar[r] = "applying"
            /\ phaseBar' = [phaseBar EXCEPT ![r] = "rest"]
        BY <1>0, <2>4, <3>2, Zenon DEF AllRegistered, phaseBar
      <4>2. versionBar' = versionBar
        BY <2>4, Zenon DEF AllRegistered, versionBar
      <4> QED
        BY <1>4, <2>4, <4>1, <4>2, Zenon DEF AllRegistered, R!Finish, R!Next
    <3> QED
      BY <1>4, <3>1, <3>2, Zenon
  <2> QED
    BY <1>4, <2>1, <2>2, <2>3, <2>4 DEF GoStaged
<1>5. CASE RestartServer
  <2>1. /\ phaseBar["ingress"] = "applying"
        /\ phaseBar' = [phaseBar EXCEPT !["ingress"] = "rest"]
    BY <1>0, <1>5, Zenon DEF RestartServer, phaseBar
  <2>2. versionBar' = versionBar
    BY <1>5, Zenon DEF RestartServer, versionBar
  <2> QED
    BY <1>5, <2>1, <2>2 DEF RestartServer, R!Finish, R!Next
<1>6. CASE NewRegistry
  <2>1. provider = registry /\ registry' = registry + 1
    BY <1>0, <1>6 DEF NewRegistry, IInv, TelemetryInv
  <2>2. \A r \in Staged : versionBar[r] >= registry
    BY <1>6, OthersHaveReceived, Zenon DEF NewRegistry, versionBar
  <2>3. versionBar' = versionBar /\ phaseBar' = phaseBar
    BY <1>0, <1>6, Zenon DEF NewRegistry, versionBar, phaseBar
  <2> QED
    BY <1>6, <2>1, <2>2, <2>3, Zenon DEF NewRegistry, R!NewRegistry, R!Next
<1>7. CASE SetProvider
  <2>1. provider < registry /\ provider' = registry
    BY <1>0, <1>7 DEF SetProvider, IInv, TelemetryInv
  <2>2. versionBar' = versionBar /\ phaseBar' = phaseBar
    BY <1>0, <1>7, Zenon DEF SetProvider, versionBar, phaseBar
  <2> QED
    BY <1>7, <2>1, <2>2, Zenon DEF SetProvider, R!NewProvider, R!Next
<1>8. CASE TelemetryReceive \/ SendStage \/ TelemetrySignal
  BY <1>0, <1>8, Stutter
     DEF TelemetryReceive, SendStage, TelemetrySignal, StageListeners, phaseBar
<1>9. CASE GoSignals
  BY <1>0, <1>9, Stutter, Zenon
     DEF GoSignals, Notify, SignalsReceive, TakeSignal, ProcessNotFound,
         ForwardSignal, SignalListeners, phaseBar
<1>10. CASE ProcessListFails \/ DeliverSignal \/ AppExits
  BY <1>0, <1>10, Stutter, Zenon DEF ProcessListFails, DeliverSignal, AppExits, phaseBar
<1>11. CASE UNCHANGED vars
  BY <1>11, Stutter DEF vars, phaseBar
<1> QED
  BY <1>1, <1>2, <1>3, <1>4, <1>5, <1>6, <1>7, <1>8, <1>9, <1>10, <1>11, Zenon
     DEF Next, GoConfig, GoEgress, GoIngress, GoTelemetry, Environment

\* The five goroutines, with all their channels and whatever signals and
\* panics do to them, keep telemetry and the goroutines that bind to it in the
\* step that Rollout prescribes, and so Registry and Exporters may build on it.
THEOREM RolloutImplemented == Spec => ImplementsRollout
<1>1. Init => R!Init
  BY Zenon DEF Init, R!Init, versionBar, phaseBar, Staged, Routines, Updated
<1> QED
  BY <1>1, RolloutStep, Invariance, PTL DEF Spec, ImplementsRollout, R!Spec

-----------------------------------------------------------------------------
(* The work at hand. *)

\* The parts of the work are natural numbers.
WorkPartsOK ==
  /\ MainWork \in Nat /\ ConfigWork \in Nat
  /\ StagedWork("egress") \in Nat /\ StagedWork("ingress") \in Nat
  /\ TelemetryWork \in Nat /\ SignalsWork \in Nat

\* They are in every state.
LEMMA WorkParts == TypeOK => WorkPartsOK
<1> SUFFICES ASSUME TypeOK PROVE WorkPartsOK
  OBVIOUS
<1>1. MainWork \in Nat
  BY DEF TypeOK, MainWork
<1>2. ConfigWork \in Nat
  BY DEF ConfigWork
<1>3. \A r \in Staged : StagedWork(r) \in Nat
  BY DEF StagedWork
<1>4. TelemetryWork \in Nat
  BY DEF TypeOK, TelemetryWork
<1>5. SignalsWork \in Nat
  BY DEF TypeOK, SignalsWork
<1> QED
  BY <1>1, <1>2, <1>3, <1>4, <1>5 DEF WorkPartsOK, Staged

\* And so after every step.
LEMMA WorkPartsNext == TypeOK' => WorkPartsOK'
BY WorkParts, PTL

\* What a part of the work depends on.
LEMMA SameMain ==
  ASSUME added' = added, proc = "running" \/ proc' = proc, TypeOK
  PROVE  MainWork' <= MainWork
BY DEF MainWork, TypeOK

\* The same for config.
LEMMA SameConfig ==
  ASSUME pc'["config"] = pc["config"], notified' = notified,
         signal'["config"] = signal["config"]
  PROVE  ConfigWork' = ConfigWork
BY Zenon DEF ConfigWork

\* The same for egress and ingress.
LEMMA SameStaged ==
  ASSUME NEW r, pc'[r] = pc[r], update'[r] = update[r],
         signal'[r] = signal[r], registry' = registry,
         registered'[r] = registered[r]
  PROVE  StagedWork(r)' = StagedWork(r)
BY Zenon DEF StagedWork

\* The same for telemetry.
LEMMA SameTelemetry ==
  ASSUME pc'["telemetry"] = pc["telemetry"], staged' = staged,
         update'["telemetry"] = update["telemetry"],
         signal'["telemetry"] = signal["telemetry"]
  PROVE  TelemetryWork' = TelemetryWork
BY Zenon DEF TelemetryWork

\* The same for signals.
LEMMA SameSignals ==
  ASSUME pc'["signals"] = pc["signals"], forwarded' = forwarded,
         update'["signals"] = update["signals"], osSignal' = osSignal
  PROVE  SignalsWork' = SignalsWork
BY Zenon DEF SignalsWork

\* A step of main is less for main, or starts a goroutine.
LEMMA MainLess ==
  ASSUME TypeOK, WorkPartsOK, WorkPartsOK', Main
  PROVE  Work' < Work
<1> USE DEF Routines, Updated, Staged, Signalled
<1> USE DEF Goto, mainVars, configVars, telemetryVars, metricVars, signalVars
<1>1. /\ UNCHANGED <<update, signal, registered>>
      /\ UNCHANGED <<notified, registry, staged, forwarded, osSignal>>
      /\ proc = "running"
  BY Zenon DEF Main, Go, WgAdd, WgWait
<1>2. CASE WgAdd \/ WgWait
  <2>1. pc' = pc
    BY <1>2, Zenon DEF WgAdd, WgWait
  <2>2. /\ ConfigWork' = ConfigWork /\ TelemetryWork' = TelemetryWork
        /\ SignalsWork' = SignalsWork
        /\ \A x \in Staged : StagedWork(x)' = StagedWork(x)
    BY <1>1, <2>1, SameConfig, SameStaged, SameTelemetry, SameSignals, Zenon
  <2>3. WgAdd => MainWork' < MainWork
    BY DEF TypeOK, WgAdd, MainWork
  <2>4. WgWait => MainWork' < MainWork
    BY DEF TypeOK, WgWait, MainWork
  <2> QED
    BY <1>2, <2>2, <2>3, <2>4 DEF WorkPartsOK, Work
<1>3. CASE Go
  <2>1. started \in {0, 1, 2, 3, 4} /\ proc' = proc /\ added' = added
    BY <1>3 DEF TypeOK, Go, StartOrder
  <2>2. PICK r \in Routines : /\ pc[r] = "unborn" /\ pc'[r] = Entry(r)
                              /\ \A x \in Routines \ {r} : pc'[x] = pc[x]
    BY <1>3, <2>1 DEF TypeOK, Go, StartOrder
  <2>3. /\ r # "config" => ConfigWork' = ConfigWork
        /\ r # "telemetry" => TelemetryWork' = TelemetryWork
        /\ r # "signals" => SignalsWork' = SignalsWork
        /\ \A x \in Staged \ {r} : StagedWork(x)' = StagedWork(x)
    BY <1>1, <2>2, SameConfig, SameStaged, SameTelemetry, SameSignals, Zenon
  <2>4. MainWork' = MainWork
    BY <2>1, Zenon DEF MainWork
  <2>5. r = "config" => ConfigWork' < ConfigWork
    BY <1>1, <2>2 DEF TypeOK, Entry, ConfigWork
  <2>6. r \in Staged => StagedWork(r)' < StagedWork(r)
    BY <1>1, <2>2 DEF TypeOK, Entry, StagedWork
  <2>7. r = "telemetry" => TelemetryWork' < TelemetryWork
    BY <1>1, <2>2 DEF TypeOK, Entry, TelemetryWork
  <2>8. r = "signals" => SignalsWork' < SignalsWork
    BY <1>1, <2>2 DEF TypeOK, Entry, SignalsWork
  <2> QED
    BY <2>3, <2>4, <2>5, <2>6, <2>7, <2>8 DEF WorkPartsOK, Work
<1> QED
  BY <1>2, <1>3, Zenon DEF Main

\* So is a step of config, though it may send; a reload is worth its sends.
LEMMA ConfigLess ==
  ASSUME TypeOK, WorkPartsOK, WorkPartsOK', GoConfig \/ Reload
  PROVE  Work' < Work \/ (Reload /\ Work' <= Work + 25)
<1> USE DEF Routines, Updated, Staged, Signalled
<1> USE DEF Goto, Return, mainVars, configVars, telemetryVars, metricVars,
            signalVars
<1>1. /\ \A x \in Routines \ {"config"} : pc'[x] = pc[x]
      /\ \A x \in Signalled \ {"config"} : signal'[x] = signal[x]
      /\ UNCHANGED <<added, registry, registered, staged, forwarded, osSignal>>
      /\ proc = "running"
  BY Zenon DEF TypeOK, GoConfig, ReadFirst, Reload, Load, ConfigSend,
               CreateWatcher, ConfigSignal
<1>2. MainWork' <= MainWork
  BY <1>1, SameMain, Zenon
<1>3. CASE ConfigSend
  <2>0. notified \in {0, 1, 2, 3}
    BY <1>3 DEF TypeOK, ConfigSend
  <2>1. PICK r \in Updated :
          /\ r = ConfigListeners[notified + 1]
          /\ \/ notified = 0 /\ r = "egress"
             \/ notified = 1 /\ r = "ingress"
             \/ notified = 2 /\ r = "signals"
             \/ notified = 3 /\ r = "telemetry"
    BY <2>0 DEF ConfigListeners
  <2>2. /\ update[r] = 0 /\ update'[r] = loads
        /\ \A x \in Updated \ {r} : update'[x] = update[x]
    BY <1>3, <2>1 DEF TypeOK, ConfigSend
  <2>3. /\ r # "telemetry" => TelemetryWork' = TelemetryWork
        /\ r # "signals" => SignalsWork' = SignalsWork
        /\ \A x \in Staged \ {r} : StagedWork(x)' = StagedWork(x)
    BY <1>1, <2>2, SameStaged, SameTelemetry, SameSignals, Zenon
  <2>4. /\ pc["config"] = "send" /\ notified' = notified + 1
        /\ signal' = signal
        /\ pc'["config"] \in {"send", "watch", "select"}
        /\ pc'["config"] # "send" => notified = 3
    BY <1>3, <2>0 DEF TypeOK, ConfigSend, ConfigListeners
  <2>5. pc'["config"] = "send" => notified \in {0, 1, 2}
    BY <1>3, <2>0 DEF TypeOK, ConfigSend, ConfigListeners
  <2>6. /\ r \in Staged => ConfigWork' <= ConfigWork - 7
        /\ r = "signals" => ConfigWork' <= ConfigWork - 2
        /\ r = "telemetry" => ConfigWork' <= ConfigWork - 8
    BY <2>1, <2>4, <2>5 DEF TypeOK, ConfigWork
  <2>7. r \in Staged => StagedWork(r)' <= StagedWork(r) + 6
    BY <1>1, <2>2, <2>4 DEF TypeOK, StagedWork
  <2>8. r = "signals" => SignalsWork' <= SignalsWork + 1
    BY <1>1, <2>2, <2>4 DEF TypeOK, SignalsWork
  <2>9. r = "telemetry" => TelemetryWork' <= TelemetryWork + 7
    BY <1>1, <2>2, <2>4 DEF TypeOK, TelemetryWork
  <2> QED
    BY <1>2, <2>3, <2>6, <2>7, <2>8, <2>9 DEF WorkPartsOK, Work
<1>4. CASE ~ ConfigSend
  <2>1. update' = update
    BY <1>4, Zenon DEF GoConfig, ReadFirst, Reload, Load, CreateWatcher,
                       ConfigSignal
  <2>2. /\ TelemetryWork' = TelemetryWork /\ SignalsWork' = SignalsWork
        /\ \A x \in Staged : StagedWork(x)' = StagedWork(x)
    BY <1>1, <2>1, SameStaged, SameTelemetry, SameSignals, Zenon
  <2>3. ReadFirst \/ CreateWatcher \/ ConfigSignal => ConfigWork' < ConfigWork
    BY DEF TypeOK, ReadFirst, Load, CreateWatcher, ConfigSignal, ConfigWork
  <2>4. Reload => ConfigWork' <= ConfigWork + 25
    BY DEF TypeOK, Reload, Load, ConfigWork
  <2> QED
    BY <1>2, <1>4, <2>2, <2>3, <2>4 DEF GoConfig, WorkPartsOK, Work
<1> QED
  BY <1>3, <1>4, Zenon

\* A step of egress or ingress, which sends nothing.
LEMMA StagedLess ==
  ASSUME TypeOK, WorkPartsOK, WorkPartsOK', NEW r \in Staged,
         GoStaged(r) \/ (r = "ingress" /\ RestartServer)
  PROVE  Work' < Work \/ UNCHANGED vars
<1> USE DEF Routines, Updated, Staged, Signalled
<1> USE DEF Goto, Return, Receive, mainVars, configVars, telemetryVars,
            metricVars, signalVars
<1>1. /\ \A x \in Routines \ {r} : pc'[x] = pc[x]
      /\ \A x \in Updated \ {r} : update'[x] = update[x]
      /\ \A x \in Signalled \ {r} : signal'[x] = signal[x]
      /\ \A x \in Staged \ {r} : registered'[x] = registered[x]
      /\ UNCHANGED <<added, notified, registry, staged, forwarded, osSignal>>
      /\ proc = "running"
  BY ZenonT(30) DEF TypeOK, GoStaged, StagedReceive, TakeStage, BindMeter,
                    Register, AllRegistered, StagedSignal, RestartServer
<1>2. MainWork' <= MainWork
  BY <1>1, SameMain, Zenon
<1>3. /\ ConfigWork' = ConfigWork /\ TelemetryWork' = TelemetryWork
      /\ SignalsWork' = SignalsWork
  BY <1>1, SameConfig, SameTelemetry, SameSignals, Zenon
<1>4. \A x \in Staged \ {r} : StagedWork(x)' = StagedWork(x)
  BY <1>1, SameStaged, Zenon
<1>5. StagedReceive(r) \/ TakeStage(r) => StagedWork(r)' < StagedWork(r)
  BY DEF TypeOK, StagedReceive, TakeStage, StagedWork
<1>6. BindMeter(r) \/ AllRegistered(r) => StagedWork(r)' < StagedWork(r)
  BY DEF TypeOK, BindMeter, AllRegistered, StagedWork
<1>7. Register(r) => \/ StagedWork(r)' < StagedWork(r)
                     \/ StagedWork(r)' = StagedWork(r) /\ MainWork' < MainWork
                     \/ UNCHANGED vars
  BY DEF TypeOK, Register, StagedWork, MainWork, vars
<1>8. StagedSignal(r) => StagedWork(r)' < StagedWork(r)
  BY DEF TypeOK, StagedSignal, StagedWork
<1>9. r = "ingress" /\ RestartServer => StagedWork(r)' < StagedWork(r)
  BY DEF TypeOK, RestartServer, StagedWork
<1>10. \/ StagedWork(r)' < StagedWork(r)
       \/ StagedWork(r)' = StagedWork(r) /\ MainWork' < MainWork
       \/ UNCHANGED vars
  BY <1>5, <1>6, <1>7, <1>8, <1>9, Zenon DEF GoStaged
<1> QED
  BY <1>2, <1>3, <1>4, <1>10 DEF WorkPartsOK, Work

\* A step of telemetry; a new registry lets egress and ingress register anew.
LEMMA TelemetryLess ==
  ASSUME TypeOK, WorkPartsOK, WorkPartsOK', GoTelemetry
  PROVE  Work' < Work
<1> USE DEF Routines, Updated, Staged, Signalled
<1> USE DEF Goto, Return, Receive, mainVars, configVars, telemetryVars,
            metricVars, signalVars
<1>1. /\ \A x \in Routines \ {"telemetry"} : pc'[x] = pc[x]
      /\ \A x \in Updated \ {"telemetry"} : update'[x] = update[x]
      /\ \A x \in Signalled \ {"telemetry"} : signal'[x] = signal[x]
      /\ UNCHANGED <<added, notified, registered, forwarded, osSignal>>
      /\ proc = "running"
  BY Zenon DEF TypeOK, GoTelemetry, TelemetryReceive, NewRegistry,
               SetProvider, SendStage, TelemetrySignal
<1>2. MainWork' <= MainWork
  BY <1>1, SameMain, Zenon
<1>3. ConfigWork' = ConfigWork /\ SignalsWork' = SignalsWork
  BY <1>1, SameConfig, SameSignals, Zenon
<1>4. CASE NewRegistry
  <2>1. TelemetryWork' = TelemetryWork - 3
    BY <1>4 DEF TypeOK, NewRegistry, TelemetryWork
  <2>2. \A x \in Staged : StagedWork(x)' <= StagedWork(x) + 1
    BY <1>1 DEF TypeOK, StagedWork
  <2> QED
    BY <1>2, <1>3, <2>1, <2>2 DEF WorkPartsOK, Work
<1>5. CASE ~ NewRegistry
  <2>1. registry' = registry
    BY <1>5, Zenon DEF GoTelemetry, TelemetryReceive, SetProvider, SendStage,
                       TelemetrySignal
  <2>2. \A x \in Staged : StagedWork(x)' = StagedWork(x)
    BY <1>1, <2>1, SameStaged, Zenon
  <2>3. TelemetryReceive \/ SetProvider => TelemetryWork' < TelemetryWork
    BY DEF TypeOK, TelemetryReceive, SetProvider, TelemetryWork
  <2>4. SendStage \/ TelemetrySignal => TelemetryWork' < TelemetryWork
    BY DEF TypeOK, SendStage, StageListeners, TelemetrySignal, TelemetryWork
  <2> QED
    BY <1>2, <1>3, <1>5, <2>2, <2>3, <2>4 DEF GoTelemetry, WorkPartsOK, Work
<1> QED
  BY <1>4, <1>5, Zenon

\* A step of signals, though it may forward.
LEMMA SignalsLess ==
  ASSUME TypeOK, WorkPartsOK, WorkPartsOK', GoSignals \/ ProcessListFails
  PROVE  Work' < Work
<1> USE DEF Routines, Updated, Staged, Signalled
<1> USE DEF Goto, Return, Receive, mainVars, configVars, telemetryVars,
            metricVars, signalVars
<1>1. /\ \A x \in Routines \ {"signals"} : pc'[x] = pc[x]
      /\ \A x \in Updated \ {"signals"} : update'[x] = update[x]
      /\ UNCHANGED <<added, notified, registry, registered, staged>>
      /\ proc = "running"
  BY Zenon DEF TypeOK, GoSignals, Notify, SignalsReceive, TakeSignal,
               ProcessNotFound, ProcessListFails, ForwardSignal
<1>2. MainWork' <= MainWork
  BY <1>1, SameMain, Zenon
<1>3. CASE ForwardSignal
  <2>0. forwarded \in {0, 1, 2, 3}
    BY <1>3 DEF TypeOK, ForwardSignal
  <2>1. PICK r \in Signalled : r = SignalListeners[forwarded + 1]
    BY <2>0 DEF SignalListeners
  <2>2. /\ ~ signal[r] /\ signal'[r]
        /\ \A x \in Signalled \ {r} : signal'[x] = signal[x]
    BY <1>3, <2>1, Zenon DEF TypeOK, ForwardSignal
  <2>3. /\ r # "config" => ConfigWork' = ConfigWork
        /\ r # "telemetry" => TelemetryWork' = TelemetryWork
        /\ \A x \in Staged \ {r} : StagedWork(x)' = StagedWork(x)
    BY <1>1, <2>2, SameConfig, SameStaged, SameTelemetry, Zenon
  <2>4. r = "config" => ConfigWork' <= ConfigWork + 1
    BY <1>1, <2>2 DEF TypeOK, ConfigWork
  <2>5. r \in Staged => StagedWork(r)' <= StagedWork(r) + 1
    BY <1>1, <2>2 DEF TypeOK, StagedWork
  <2>6. r = "telemetry" => TelemetryWork' <= TelemetryWork + 1
    BY <1>1, <2>2 DEF TypeOK, TelemetryWork
  <2>7. SignalsWork' <= SignalsWork - 2
    BY <1>3 DEF TypeOK, ForwardSignal, SignalListeners, SignalsWork
  <2> QED
    BY <1>2, <2>3, <2>4, <2>5, <2>6, <2>7 DEF WorkPartsOK, Work
<1>4. CASE ~ ForwardSignal
  <2>1. signal' = signal
    BY <1>4, Zenon DEF GoSignals, Notify, SignalsReceive, TakeSignal,
                       ProcessNotFound, ProcessListFails
  <2>2. /\ ConfigWork' = ConfigWork /\ TelemetryWork' = TelemetryWork
        /\ \A x \in Staged : StagedWork(x)' = StagedWork(x)
    BY <1>1, <2>1, SameConfig, SameStaged, SameTelemetry, Zenon
  <2>3. Notify \/ SignalsReceive => SignalsWork' < SignalsWork
    BY DEF TypeOK, Notify, SignalsReceive, SignalsWork
  <2>4. TakeSignal => SignalsWork' < SignalsWork
    BY DEF TypeOK, TakeSignal, SignalsWork
  <2>5. ProcessNotFound \/ ProcessListFails => SignalsWork' < SignalsWork
    BY DEF TypeOK, ProcessNotFound, ProcessListFails, SignalsWork
  <2> QED
    BY <1>2, <1>4, <2>2, <2>3, <2>4, <2>5 DEF GoSignals, WorkPartsOK, Work
<1> QED
  BY <1>3, <1>4, Zenon

\* A signal that is delivered is worth forwarding it; the end of the watched
\* process makes no work.
LEMMA OutsideWork ==
  ASSUME TypeOK, WorkPartsOK, WorkPartsOK', DeliverSignal \/ AppExits
  PROVE  /\ DeliverSignal => Work' <= Work + 10
         /\ AppExits => Work' = Work
<1> USE DEF Routines, Updated, Staged, Signalled
<1> USE DEF mainVars, configVars, telemetryVars, metricVars, signalVars
<1>1. /\ UNCHANGED <<pc, update, signal, registered>>
      /\ UNCHANGED <<added, notified, registry, staged, forwarded>>
      /\ proc = "running"
  BY Zenon DEF DeliverSignal, AppExits
<1>2. /\ ConfigWork' = ConfigWork /\ TelemetryWork' = TelemetryWork
      /\ \A x \in Staged : StagedWork(x)' = StagedWork(x)
  BY <1>1, SameConfig, SameStaged, SameTelemetry, Zenon
<1>3. MainWork' <= MainWork /\ (AppExits => MainWork' = MainWork)
  BY <1>1, SameMain DEF TypeOK, AppExits, MainWork
<1>4. SignalsWork' <= SignalsWork + 10
  BY <1>1 DEF TypeOK, DeliverSignal, AppExits, SignalsWork
<1>5. AppExits => SignalsWork' = SignalsWork
  BY <1>1, SameSignals, Zenon DEF AppExits
<1> QED
  BY <1>2, <1>3, <1>4, <1>5 DEF WorkPartsOK, Work

\* Every step of main and of the goroutines leaves less work than it found.
LEMMA WorkStep ==
  ASSUME IInv, [Next]_vars
  PROVE  \/ Work' < Work
         \/ Reload /\ Work' <= Work + 25
         \/ DeliverSignal /\ Work' <= Work + 10
         \/ AppExits /\ Work' = Work
         \/ UNCHANGED vars
<1>1. TypeOK /\ TypeOK'
  BY Inductive, Zenon DEF IInv
<1>2. WorkPartsOK /\ WorkPartsOK'
  BY <1>1, WorkParts, WorkPartsNext
<1>3. ASSUME GoEgress \/ GoIngress PROVE Work' < Work \/ UNCHANGED vars
  BY <1>1, <1>2, <1>3, StagedLess DEF GoEgress, GoIngress, Staged
<1> QED
  BY <1>1, <1>2, <1>3, MainLess, ConfigLess, TelemetryLess, SignalsLess,
     OutsideWork, Zenon DEF Next, Environment

\* The work is a natural number.
LEMMA WorkNatural == IInv => Work \in Nat
BY WorkParts DEF IInv, WorkPartsOK, Work

\* The work at hand never grows but by an event from outside, and by no more
\* than that event is worth.
THEOREM WorkEnds == Spec => WorkIsFinite
<1> DEFINE A == \/ Work' < Work
                \/ Reload /\ Work' <= Work + 25
                \/ DeliverSignal /\ Work' <= Work + 10
                \/ AppExits /\ Work' = Work
<1>1. IInv /\ [Next]_vars => [A]_vars
  BY WorkStep
<1> HIDE DEF A
<1>2. Spec => [](Work \in Nat) /\ [][A]_vars
  BY <1>1, WorkNatural, Invariance, PTL DEF Spec
<1> QED
  BY <1>2, Zenon DEF A, WorkIsFinite

-----------------------------------------------------------------------------
(* Standstill. *)

\* While the process runs, everybody who was sent the signal has it waiting or
\* has returned, and signals returns when it has sent all four.
ForwardInv ==
  /\ pc["signals"] = "done" => forwarded = 4
  /\ proc = "running" =>
       \A i \in 1..4 : i <= forwarded =>
         \/ signal[SignalListeners[i]]
         \/ pc[SignalListeners[i]] = "done"

\* A signal is consumed by returning, and nobody comes back.
LEMMA ForwardStep == IInv /\ ForwardInv /\ [Next]_vars => ForwardInv'
<1> SUFFICES ASSUME IInv, ForwardInv, [Next]_vars PROVE ForwardInv'
  OBVIOUS
<1>0. TypeOK
  BY DEF IInv
<1> USE DEF TypeOK, Routines, Updated, Staged, Signalled, ForwardInv,
            SignalListeners
<1> USE DEF Goto, Return, Receive, mainVars, configVars, telemetryVars,
            metricVars, signalVars
<1>1. CASE Main
  BY <1>0, <1>1, SMTT(30) DEF Main, Go, WgAdd, WgWait, StartOrder, Entry
<1>2. CASE ReadFirst \/ Reload
  BY <1>0, <1>2, SMTT(30) DEF ReadFirst, Reload, Load
<1>3. CASE ConfigSend
  BY <1>0, <1>3, SMTT(30) DEF ConfigSend, ConfigListeners
<1>4. CASE CreateWatcher
  BY <1>0, <1>4, SMTT(30) DEF CreateWatcher
<1>5. CASE ConfigSignal
  BY <1>0, <1>5, SMTT(30) DEF ConfigSignal
<1>6. ASSUME NEW r \in Staged, GoStaged(r) PROVE ForwardInv'
  <2>1. CASE StagedSignal(r)
    BY <1>0, <1>6, <2>1, SMTT(30) DEF StagedSignal
  <2>2. CASE StagedReceive(r) \/ TakeStage(r) \/ BindMeter(r)
    BY <1>0, <1>6, <2>2, SMTT(30) DEF StagedReceive, TakeStage, BindMeter
  <2>3. CASE Register(r) \/ AllRegistered(r)
    BY <1>0, <1>6, <2>3, SMTT(30) DEF Register, AllRegistered
  <2> QED
    BY <1>6, <2>1, <2>2, <2>3, Zenon DEF GoStaged
<1>7. CASE RestartServer
  BY <1>0, <1>7, SMTT(30) DEF RestartServer
<1>8. CASE TelemetryReceive \/ NewRegistry \/ SetProvider \/ SendStage
  BY <1>0, <1>8, SMTT(30) DEF TelemetryReceive, NewRegistry, SetProvider,
                              SendStage, StageListeners
<1>9. CASE TelemetrySignal
  BY <1>0, <1>9, SMTT(30) DEF TelemetrySignal
<1>10. CASE Notify \/ SignalsReceive \/ TakeSignal \/ ProcessNotFound
  BY <1>0, <1>10, SMTT(30) DEF Notify, SignalsReceive, TakeSignal,
                               ProcessNotFound
<1>11. CASE ForwardSignal
  BY <1>0, <1>11, SMTT(30) DEF ForwardSignal
<1>12. CASE ProcessListFails \/ DeliverSignal \/ AppExits
  BY <1>0, <1>12, SMTT(30) DEF ProcessListFails, DeliverSignal, AppExits
<1>13. CASE UNCHANGED vars
  BY <1>13, SMTT(30) DEF vars
<1> HIDE DEF ForwardInv
<1> QED
  BY <1>1, <1>2, <1>3, <1>4, <1>5, <1>6, <1>7, <1>8, <1>9, <1>10, <1>11,
     <1>12, <1>13, Zenon
     DEF Next, GoConfig, GoEgress, GoIngress, GoTelemetry, GoSignals,
         Environment

\* In a standstill telemetry does not wait for a listener: one with a token in
\* its channel waits for it and could take it.
LEMMA TelemetryNeverHeld ==
  ASSUME IInv, Standstill
  PROVE  \/ pc["telemetry"] = "done"
         \/ /\ pc["telemetry"] = "select" /\ update["telemetry"] = 0
            /\ ~signal["telemetry"]
<1>1. Blocked("telemetry") /\ Blocked("egress") /\ Blocked("ingress")
  BY Zenon DEF Standstill, Routines
<1>2. ASSUME pc["telemetry"] = "stage", stage[StageListeners[staged + 1]] = 1
      PROVE  FALSE
  <2>1. PICK r \in Staged : r = StageListeners[staged + 1]
    BY <1>2 DEF IInv, TypeOK, StageListeners, Staged
  <2>2. pc[r] = "stage"
    BY <1>2, <2>1, NoWaitForIdle, Zenon
  <2>3. stage[r] = 0
    BY <1>1, <2>2, Zenon DEF Blocked, Staged
  <2> QED
    BY <1>2, <2>1, <2>3
<1> QED
  BY <1>1, <1>2, Zenon DEF Blocked, Staged, Updated, Routines

\* Without a shutdown the pipeline has come to rest.
LEMMA RestWithoutSignal ==
  ASSUME IInv, StartInv, Standstill, pc["signals"] = "select"
  PROVE  /\ \A r \in Routines : pc[r] = "select"
         /\ \A r \in Updated : cur[r] = loads
<1>0. TypeOK
  BY Zenon DEF IInv
<1>1. \A r \in Routines : Blocked(r) /\ pc[r] # "done"
  BY Zenon DEF Standstill, StartInv, Signalled, Routines
<1>2. pc["telemetry"] = "select" /\ update["telemetry"] = 0
  BY <1>1, TelemetryNeverHeld, Zenon DEF Routines
<1>3. update["signals"] = 0
  BY <1>1, Zenon DEF Blocked, Updated, Routines, Staged
<1>4. \A r \in Staged : \/ pc[r] = "select" /\ update[r] = 0
                        \/ pc[r] = "stage" /\ stage[r] = 0
  BY <1>1, Zenon DEF Blocked, Updated, Routines, Staged
<1>5. pc["config"] = "select"
  <2>1. SUFFICES ASSUME pc["config"] = "send",
                        update[ConfigListeners[notified + 1]] # 0
                 PROVE  FALSE
    BY <1>1, Zenon DEF Blocked, Updated, Routines, Staged
  <2>2. PICK r \in Updated : r = ConfigListeners[notified + 1]
    BY <1>0, <2>1 DEF TypeOK, ConfigListeners, Updated, Routines
  <2>3. r \in Staged /\ pc[r] = "stage" /\ stage[r] = 0
    BY <1>2, <1>3, <1>4, <2>1, <2>2, Zenon DEF Updated, Routines, Staged
  <2> QED
    BY <1>2, <2>1, <2>2, <2>3, NoWaitForOwed, Zenon
<1>6. \A r \in Updated : update[r] = 0 => cur[r] = loads
  BY <1>5, Zenon DEF IInv, UpdateInv, SentTo
<1>7. ASSUME NEW r \in Staged, pc[r] = "stage", stage[r] = 0 PROVE FALSE
  <2>1. cur["telemetry"] = loads /\ Told(r) = loads
    BY <1>2, <1>6, Zenon DEF Told, Updated, Routines
  <2>2. cur[r] - 1 = loads
    BY <1>0, <1>7, <2>1 DEF IInv, StageInv, Taken, TypeOK, Staged, Updated,
                            Routines
  <2>3. cur[r] <= loads
    BY <1>0, <1>5, <1>7
       DEF IInv, UpdateInv, SentTo, TypeOK, Staged, Updated, Routines
  <2> QED
    BY <1>0, <1>7, <2>2, <2>3 DEF TypeOK, Staged, Updated, Routines
<1>8. \A r \in Staged : pc[r] = "select" /\ update[r] = 0
  BY <1>4, <1>7, Zenon
<1> QED
  BY <1>2, <1>3, <1>5, <1>6, <1>8 DEF Routines, Updated, Staged

\* After a shutdown telemetry has returned and somebody has not.
LEMMA HeldAfterSignal ==
  ASSUME IInv, ForwardInv, Standstill, pc["signals"] = "done"
  PROVE  /\ pc["telemetry"] = "done"
         /\ \/ \E r \in Staged : pc[r] = "stage"
            \/ /\ pc["config"] = "send"
               /\ pc[ConfigListeners[notified + 1]] = "done"
<1>0. TypeOK
  BY Zenon DEF IInv
<1>1. \A r \in Routines : Blocked(r)
  BY Zenon DEF Standstill
<1>2. \A r \in Signalled : signal[r] \/ pc[r] = "done"
  BY <1>0 DEF Standstill, ForwardInv, SignalListeners, Signalled, Routines
<1>3. pc["telemetry"] = "done"
  BY <1>2, TelemetryNeverHeld, Zenon DEF Signalled, Routines
<1>4. \A r \in Staged : pc[r] = "done" \/ pc[r] = "stage"
  BY <1>1, <1>2, Zenon DEF Blocked, Staged, Signalled, Routines, Updated
<1>5. \/ pc["config"] = "done"
      \/ pc["config"] = "send" /\ update[ConfigListeners[notified + 1]] # 0
  BY <1>1, <1>2, Zenon DEF Blocked, Staged, Signalled, Routines, Updated
<1>6. \E r \in Routines : pc[r] # "done"
  BY <1>0 DEF Standstill, IInv, WaitInv, Finished, TypeOK, Routines
<1>7. ASSUME \A r \in Staged : pc[r] = "done"
      PROVE  pc["config"] = "send" /\ pc[ConfigListeners[notified + 1]] = "done"
  <2>1. pc["config"] = "send"
    BY <1>3, <1>5, <1>6, <1>7, Zenon DEF Staged, Routines
  <2>2. ConfigListeners[notified + 1] \in Updated
    BY <1>0, <2>1 DEF TypeOK, ConfigListeners, Updated, Routines
  <2> QED
    BY <1>3, <1>7, <2>1, <2>2, Zenon DEF Staged, Updated, Routines
<1> QED
  BY <1>3, <1>4, <1>7

\* The three ways to come to a standstill.
LEMMA StandstillCases == IInv /\ StartInv /\ ForwardInv => StandstillExplained
<1> SUFFICES ASSUME IInv, StartInv, ForwardInv, Standstill
             PROVE  StandstillExplained
  BY Zenon DEF StandstillExplained
<1>1. \/ pc["signals"] = "select" \/ pc["signals"] = "done"
      \/ pc["signals"] = "wait" /\ appAlive
  BY DEF Standstill, Blocked, Routines, Staged
<1> QED
  BY <1>1, RestWithoutSignal, HeldAfterSignal, Zenon DEF StandstillExplained

\* Whenever nothing moves, Bunny is up to date, waits for the watched process,
\* or hangs in a shutdown in the one way that the order of the returns allows.
THEOREM StandstillsAreThree == Spec => []StandstillExplained
<1>1. Init => StartInv /\ ForwardInv
  BY DEF Init, StartInv, CrashOnlyAtTheEdges, ForwardInv, Routines, Signalled
<1> QED
  BY <1>1, StartStep, ForwardStep, StandstillCases, Invariance, PTL DEF Spec

-----------------------------------------------------------------------------
(* The runs that start with Bunny in operation. *)

\* Bunny with every goroutine in select satisfies the inductive invariants: it
\* is a state like those the process comes to by itself.
LEMMA RunningIInv == Running => IInv /\ StartInv /\ ForwardInv
<1> SUFFICES ASSUME Running PROVE IInv /\ StartInv /\ ForwardInv
  BY Zenon
<1> USE DEF Running, Routines, Updated, Staged, Signalled
<1>1. TypeOK
  <2>1. /\ osSignal \in BOOLEAN /\ watching \in BOOLEAN /\ appAlive \in BOOLEAN
        /\ signal \in [Signalled -> BOOLEAN]
    BY Zenon
  <2>2. /\ started \in 0..5 /\ added \in 0..5 /\ wg \in Int
        /\ loads \in 0..MaxLoads /\ notified \in 0..4 /\ staged \in 0..2
        /\ sent \in 0..MaxSignals /\ forwarded \in 0..4
        /\ registry \in Nat /\ provider \in Nat /\ server \in Nat
    BY BoundsAssumption
  <2>3. /\ update \in [Updated -> Nat] /\ cur \in [Updated -> Nat]
        /\ stage \in [Staged -> {0, 1}] /\ meter \in [Staged -> Nat]
        /\ registered \in [Staged -> SUBSET Nat]
    OBVIOUS
  <2>4. /\ pc \in [Routines -> Locations]
        /\ \A r \in Routines : pc[r] = "select"
        /\ proc \in {"running", "exited", "killed", "rejected", "crashed"}
    BY Zenon DEF Locations
  <2> HIDE DEF Running
  <2> QED
    BY <2>1, <2>2, <2>3, <2>4 DEF TypeOK
<1>2. UpdateInv /\ StageInv /\ TelemetryInv
  BY DEF UpdateInv, SentTo, StageInv, Told, Taken, TelemetryInv
<1>3. MetricInv
  BY DEF MetricInv
<1>4. WaitInv
  <2>1. \A r \in Routines : pc[r] = "select" /\ Finished(r) = 0
    BY Zenon DEF Finished
  <2>2. added = 5 /\ wg = 5 /\ proc = "running"
    BY Zenon
  <2> HIDE DEF Running
  <2> QED
    BY <2>1, <2>2 DEF WaitInv
<1>5. SignalInv
  BY DEF SignalInv, SignalListeners
<1>6. StartInv /\ ForwardInv
  BY DEF StartInv, CrashOnlyAtTheEdges, ForwardInv
<1> QED
  BY <1>1, <1>2, <1>3, <1>4, <1>5, <1>6, Zenon DEF IInv

\* So what reloads and signals do to a Bunny that is up is safe in the same
\* ways as what they do to one that starts.
THEOREM RunningIsSafe ==
  RunningSpec =>
    /\ [](NoStaleMetrics /\ RegistrySkew /\ MetricsVisible /\ NoCircularWait)
    /\ [](ForwardNeverBlocks /\ ExitComplete /\ StandstillExplained)
    /\ WorkIsFinite
<1> DEFINE A == \/ Work' < Work
                \/ Reload /\ Work' <= Work + 25
                \/ DeliverSignal /\ Work' <= Work + 10
                \/ AppExits /\ Work' = Work
<1>1. IInv /\ [Next]_vars => [A]_vars
  BY WorkStep
<1> HIDE DEF A
<1>2. RunningSpec => [](IInv /\ StartInv /\ ForwardInv)
  BY RunningIInv, Inductive, StartStep, ForwardStep, PTL DEF RunningSpec
<1>3. RunningSpec => [](Work \in Nat) /\ [][A]_vars
  BY <1>1, <1>2, WorkNatural, PTL DEF RunningSpec
<1>4. RunningSpec =>
        [](NoStaleMetrics /\ RegistrySkew /\ MetricsVisible /\ NoCircularWait)
  BY <1>2, NotStaleOfIInv, SkewOfIInv, RestOfIInv, NoCircleOfIInv, PTL
<1>5. RunningSpec =>
        [](ForwardNeverBlocks /\ ExitComplete /\ StandstillExplained)
  BY <1>2, ForwardOfIInv, ExitOfIInv, StandstillCases, PTL
<1> QED
  BY <1>3, <1>4, <1>5 DEF A, WorkIsFinite
=============================================================================
