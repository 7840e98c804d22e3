--------------------------- MODULE RegistryProofs ---------------------------
(***************************************************************************)
(* Proofs that registering is safe, for any metrics, appliers and number   *)
(* of versions, whatever names OpenTelemetry and Prometheus accept.        *)
(*                                                                         *)
(* A goroutine fills the registry of its version or, being late, that of   *)
(* the next: telemetry gets no further ahead.  So whatever the registry    *)
(* holds or remembers comes from one of two versions.                      *)
(***************************************************************************)
EXTENDS Registry, TLAPS

Busy == {"unregister", "register"}

RolloutInv ==
  /\ provider \in {registry - 1, registry}
  /\ \A r \in Appliers :
       /\ version[r] >= registry - 1
       /\ phase[r] = "waiting" => version[r] > 0
       /\ phase[r] = "applying" => version[r] > 0 /\ version[r] <= provider
       /\ phase[r] = "rest" => version[r] <= provider
       /\ step[r] = "idle" <=> phase[r] # "applying"

\* A goroutine works on one collector, the last of its version.
MakingInv ==
  /\ \A c \in making :
       /\ c.of = version[c.by] /\ c.nth = count[c.by]
       /\ step[c.by] \in Busy
  /\ \A c, d \in making : c.by = d.by => c = d

\* Collectors are of two versions, and numbered.
MadeInv ==
  \A c \in made :
    /\ c.of \in {registry - 1, registry} /\ c.of <= version[c.by]
    /\ c.of = version[c.by] =>
         /\ phase[c.by] # "waiting" /\ c.nth <= count[c.by]
         /\ c.nth = count[c.by] /\ step[c.by] \in Busy => c \in making

\* Between its two calls a goroutine has nothing of its own in the way.
UnregisteredInv ==
  \A c \in making, d \in content :
    step[c.by] = "register" /\ c.metric \in PromAccepts /\ d.by = c.by
      => Id(d) # Id(c)

\* A collector of the registry's version is in it once it is registered.
ExposedInv ==
  \A c \in made \ making : c.of = registry => c \in content \/ Displaced(c)

IInv ==
  /\ TypeOK /\ RolloutInv /\ MakingInv /\ MadeInv /\ UnregisteredInv
  /\ ExposedInv /\ RegistrationIsSafe

-----------------------------------------------------------------------------
\* What a goroutine makes next.
Made(r, m) == [metric |-> m, by |-> r, of |-> version[r], nth |-> count[r] + 1]

\* The fields of a collector.
LEMMA CollectorType ==
  ASSUME TypeOK, NEW c \in made
  PROVE  /\ c.metric \in Metrics /\ c.by \in Appliers
         /\ c.of \in Versions /\ c.nth \in 1..MaxMetrics
         /\ c.of \in Int /\ c.nth \in Int
<1>1. c \in Collectors
  BY DEF TypeOK
<1> QED
  BY <1>1, RegistryAssumption DEF Collectors, Versions

\* The two ways a goroutine can come to its next metric.
LEMMA NewMetricStep ==
  ASSUME IInv, NEW r \in Appliers, NEW m \in Metrics, NewMetric(r, m)
  PROVE  /\ step[r] = "make" /\ phase[r] = "applying"
         /\ version[r] \in {registry - 1, registry} /\ version[r] \in Versions
         /\ count[r] \in Nat /\ count[r] < MaxMetrics
         /\ UNCHANGED <<registry, provider, version, phase, content, dims,
                        panicked>>
         /\ count' = [count EXCEPT ![r] = count[r] + 1]
         /\ \/ UNCHANGED <<step, made, making>>
            \/ /\ step' = [step EXCEPT ![r] = "unregister"]
               /\ made' = made \cup {Made(r, m)}
               /\ making' = making \cup {Made(r, m)}
         /\ Made(r, m) \in Collectors
         /\ Made(r, m).by = r /\ Made(r, m).of = version[r]
         /\ Made(r, m).nth = count[r] + 1
<1>1. step[r] = "make" /\ count[r] < MaxMetrics
  BY DEF NewMetric
<1>2. phase[r] = "applying" /\ version[r] <= provider /\ version[r] > 0
  BY <1>1 DEF IInv, RolloutInv, TypeOK
<1>3. version[r] \in {registry - 1, registry} /\ version[r] \in Versions
  BY <1>2, RegistryAssumption DEF IInv, RolloutInv, TypeOK, Versions
<1>4. count[r] \in Nat
  BY RegistryAssumption DEF IInv, TypeOK
<1>5. Made(r, m) \in Collectors
  BY <1>1, <1>3, <1>4, RegistryAssumption DEF Made, Collectors
<1>6. /\ UNCHANGED <<registry, provider, version, phase, content, dims,
                     panicked>>
      /\ count' = [count EXCEPT ![r] = count[r] + 1]
      /\ \/ UNCHANGED <<step, made, making>>
         \/ /\ step' = [step EXCEPT ![r] = "unregister"]
            /\ made' = made \cup {Made(r, m)}
            /\ making' = making \cup {Made(r, m)}
  BY Zenon DEF NewMetric, Made, rolloutVars
<1> QED
  BY <1>1, <1>2, <1>3, <1>4, <1>5, <1>6 DEF Made

\* Every step keeps the type of every variable.
LEMMA TypeStep == IInv /\ [Next]_vars => TypeOK'
<1> SUFFICES ASSUME IInv, [Next]_vars PROVE TypeOK'
  OBVIOUS
<1>0. TypeOK
  BY DEF IInv
<1>1. CASE NewRegistry
  <2>1. /\ registry' = registry + 1 /\ registry < MaxVersions
        /\ \A r \in Appliers : version[r] >= registry
        /\ content' = {} /\ dims' = {}
        /\ made' = {c \in made : c.of >= registry}
        /\ UNCHANGED <<provider, version, phase, step, count, making, panicked>>
    BY <1>1 DEF NewRegistry, R!NewRegistry
  <2>2. making' \subseteq made'
    BY <1>0, <2>1, CollectorType DEF IInv, TypeOK, MakingInv
  <2>3. made' \subseteq Collectors
    BY <1>0, <2>1 DEF TypeOK
  <2>4. registry' \in 0..MaxVersions /\ provider' \in 0..registry'
    BY <1>0, <2>1, RegistryAssumption DEF TypeOK
  <2> QED
    BY <1>0, <2>1, <2>2, <2>3, <2>4 DEF TypeOK
<1>2. CASE NewProvider
  BY <1>0, <1>2 DEF NewProvider, R!NewProvider, TypeOK, Dim
<1>3. ASSUME NEW r \in Appliers, Receive(r) PROVE TypeOK'
  BY <1>0, <1>3, RegistryAssumption DEF Receive, R!Receive, R!Phases, TypeOK, Dim
<1>4. ASSUME NEW r \in Appliers, Start(r) PROVE TypeOK'
  BY <1>0, <1>4, RegistryAssumption DEF Start, R!Start, R!Phases, TypeOK, Dim
<1>5. ASSUME NEW r \in Appliers, NEW m \in Metrics, NewMetric(r, m)
      PROVE  TypeOK'
  <2>1. /\ made \subseteq made' /\ made' \subseteq Collectors
        /\ making' \subseteq made' /\ making \subseteq making'
    BY <1>0, <1>5, NewMetricStep DEF TypeOK
  <2>2. /\ step' \in [Appliers -> {"idle", "make", "unregister", "register"}]
        /\ count' \in [Appliers -> 0..MaxMetrics]
    <3>1. /\ count[r] + 1 \in 0..MaxMetrics
          /\ count' = [count EXCEPT ![r] = count[r] + 1]
          /\ \/ step' = step \/ step' = [step EXCEPT ![r] = "unregister"]
      BY <1>5, NewMetricStep, RegistryAssumption
    <3> QED
      BY <1>0, <3>1 DEF TypeOK
  <2>3. dims' \subseteq {Dim(c) : c \in made'}
    BY <1>0, <1>5, <2>1, NewMetricStep DEF TypeOK
  <2>4. UNCHANGED <<registry, provider, version, phase, content, panicked>>
    BY <1>5, NewMetricStep
  <2> QED
    BY <1>0, <2>1, <2>2, <2>3, <2>4 DEF TypeOK
<1>6. ASSUME NEW c \in making, Unregister(c) PROVE TypeOK'
  <2>1. /\ content' \subseteq content
        /\ UNCHANGED <<registry, provider, version, phase, count, made, making,
                       dims, panicked>>
        /\ step' = [step EXCEPT ![c.by] = "register"]
    BY <1>6 DEF Unregister, rolloutVars
  <2>2. step' \in [Appliers -> {"idle", "make", "unregister", "register"}]
    BY <1>0, <2>1 DEF TypeOK
  <2> QED
    BY <1>0, <2>1, <2>2 DEF TypeOK, Dim
<1>7. ASSUME NEW c \in making, MustRegister(c) PROVE TypeOK'
  <2>1. UNCHANGED <<registry, provider, version, phase, count, made>>
    BY <1>7 DEF MustRegister, rolloutVars
  <2>2. \/ panicked' = {c} /\ UNCHANGED <<step, making, content, dims>>
        \/ /\ step' = [step EXCEPT ![c.by] = "make"]
           /\ making' = making \ {c}
           /\ content' = content \cup {c}
           /\ dims' = dims \cup {Dim(c)}
           /\ panicked' = {}
    BY <1>7, Zenon DEF MustRegister, Running
  <2>3. step' \in [Appliers -> {"idle", "make", "unregister", "register"}]
    BY <1>0, <2>2 DEF TypeOK
  <2>4. making' \subseteq made /\ content' \subseteq made /\ panicked' \subseteq making'
    BY <1>0, <2>2 DEF TypeOK
  <2>5. dims' \subseteq {Dim(d) : d \in made}
    BY <1>0, <2>2 DEF TypeOK
  <2> QED
    BY <1>0, <2>1, <2>3, <2>4, <2>5 DEF TypeOK, Dim
<1>8. ASSUME NEW r \in Appliers, Finish(r) PROVE TypeOK'
  BY <1>0, <1>8 DEF Finish, R!Finish, R!Phases, TypeOK, Dim
<1>9. CASE UNCHANGED vars
  BY <1>0, <1>9 DEF vars, rolloutVars, TypeOK, Dim
<1> QED
  BY <1>1, <1>2, <1>3, <1>4, <1>5, <1>6, <1>7, <1>8, <1>9, Zenon
     DEF Next, Applier

\* telemetry stays within one version of every goroutine.
LEMMA RolloutStep == IInv /\ [Next]_vars => RolloutInv'
<1> SUFFICES ASSUME IInv, [Next]_vars PROVE RolloutInv'
  OBVIOUS
<1>0. TypeOK /\ RolloutInv
  BY DEF IInv
<1>1. CASE NewRegistry
  BY <1>0, <1>1 DEF NewRegistry, R!NewRegistry, TypeOK, RolloutInv
<1>2. CASE NewProvider
  BY <1>0, <1>2 DEF NewProvider, R!NewProvider, TypeOK, RolloutInv
<1>3. ASSUME NEW r \in Appliers, Receive(r) PROVE RolloutInv'
  BY <1>0, <1>3 DEF Receive, R!Receive, R!Phases, TypeOK, RolloutInv
<1>4. ASSUME NEW r \in Appliers, Start(r) PROVE RolloutInv'
  BY <1>0, <1>4 DEF Start, R!Start, R!Phases, TypeOK, RolloutInv
<1>5. ASSUME NEW r \in Appliers, Finish(r) PROVE RolloutInv'
  BY <1>0, <1>5 DEF Finish, R!Finish, R!Phases, TypeOK, RolloutInv
<1>6. CASE /\ UNCHANGED rolloutVars
           /\ \A r \in Appliers : step'[r] = "idle" <=> step[r] = "idle"
  BY <1>0, <1>6, Zenon DEF rolloutVars, RolloutInv
<1>7. ASSUME NEW r \in Appliers, NEW m \in Metrics, NewMetric(r, m)
      PROVE  \A s \in Appliers : step'[s] = "idle" <=> step[s] = "idle"
  BY <1>0, <1>7, NewMetricStep DEF TypeOK
<1>8. ASSUME NEW c \in making, Unregister(c) \/ MustRegister(c)
      PROVE  \A s \in Appliers : step'[s] = "idle" <=> step[s] = "idle"
  BY <1>0, <1>8 DEF Unregister, MustRegister, TypeOK
<1>9. CASE UNCHANGED vars
  BY <1>6, <1>9, Zenon DEF vars
<1>10. ASSUME NEW r \in Appliers, NEW m \in Metrics, NewMetric(r, m)
       PROVE  RolloutInv'
  BY <1>6, <1>7, <1>10, Zenon DEF NewMetric
<1>11. ASSUME NEW c \in making, Unregister(c) \/ MustRegister(c)
       PROVE  RolloutInv'
  BY <1>6, <1>8, <1>11, Zenon DEF Unregister, MustRegister
<1> QED
  BY <1>1, <1>2, <1>3, <1>4, <1>5, <1>9, <1>10, <1>11, Zenon DEF Next, Applier

\* A goroutine has one collector in its hands.
LEMMA MakingStep == IInv /\ [Next]_vars => MakingInv'
<1> SUFFICES ASSUME IInv, [Next]_vars PROVE MakingInv'
  OBVIOUS
<1>0. TypeOK /\ MakingInv /\ RolloutInv
  BY DEF IInv
<1>1. \A c \in making : c.by \in Appliers
  BY <1>0, CollectorType DEF TypeOK
<1>2. CASE UNCHANGED <<version, count, step, making>>
  BY <1>0, <1>2, Zenon DEF MakingInv
<1>3. ASSUME NEW r \in Appliers, Receive(r) \/ Start(r) \/ Finish(r)
      PROVE  MakingInv'
  <2>1. step[r] \notin Busy /\ making' = making
    BY <1>0, <1>3 DEF Receive, R!Receive, Start, R!Start, Finish, RolloutInv, Busy
  <2>2. \A s \in Appliers \ {r} : /\ version'[s] = version[s]
                                  /\ count'[s] = count[s] /\ step'[s] = step[s]
    BY <1>0, <1>3 DEF Receive, R!Receive, Start, R!Start, Finish, R!Finish, TypeOK
  <2>3. \A c \in making : c.by \in Appliers \ {r}
    BY <1>0, <1>1, <2>1 DEF MakingInv
  <2> QED
    BY <1>0, <2>1, <2>2, <2>3 DEF MakingInv
<1>4. ASSUME NEW r \in Appliers, NEW m \in Metrics, NewMetric(r, m)
      PROVE  MakingInv'
  <2>1. step[r] \notin Busy
    BY <1>4 DEF NewMetric, Busy
  <2>2. \A c \in making : c.by \in Appliers \ {r}
    BY <1>0, <1>1, <2>1 DEF MakingInv
  <2>3. \A s \in Appliers \ {r} : /\ version'[s] = version[s]
                                  /\ count'[s] = count[s] /\ step'[s] = step[s]
    BY <1>0, <1>4, NewMetricStep DEF TypeOK
  <2>4. version'[r] = version[r] /\ count'[r] = count[r] + 1
    BY <1>0, <1>4, NewMetricStep DEF TypeOK
  <2>5. CASE making' = making
    BY <1>0, <2>2, <2>3, <2>5 DEF MakingInv
  <2>6. CASE /\ step' = [step EXCEPT ![r] = "unregister"]
             /\ making' = making \cup {Made(r, m)}
    <3>1. /\ Made(r, m).by = r /\ Made(r, m).of = version'[r]
          /\ Made(r, m).nth = count'[r]
      BY <1>4, <2>4, NewMetricStep
    <3>2. step'[r] \in Busy
      BY <1>0, <2>6 DEF TypeOK, Busy
    <3> QED
      BY <1>0, <2>2, <2>3, <2>6, <3>1, <3>2 DEF MakingInv
  <2>7. \/ making' = making
        \/ /\ step' = [step EXCEPT ![r] = "unregister"]
           /\ making' = making \cup {Made(r, m)}
    BY <1>4, NewMetricStep
  <2> QED
    BY <2>5, <2>6, <2>7, Zenon
<1>5. ASSUME NEW c \in making, Unregister(c) PROVE MakingInv'
  <2>1. UNCHANGED <<version, count, making>>
    BY <1>5 DEF Unregister, rolloutVars
  <2>2. \A s \in Appliers : step[s] \in Busy => step'[s] \in Busy
    BY <1>0, <1>5 DEF Unregister, TypeOK, Busy
  <2> QED
    BY <1>0, <1>1, <2>1, <2>2, Zenon DEF MakingInv
<1>6. ASSUME NEW c \in making, MustRegister(c) PROVE MakingInv'
  <2>1. CASE UNCHANGED <<step, making>>
    BY <1>2, <1>6, <2>1, Zenon DEF MustRegister, rolloutVars
  <2>2. CASE making' = making \ {c} /\ step' = [step EXCEPT ![c.by] = "make"]
    <3>1. \A d \in making' : d \in making /\ d.by \in Appliers \ {c.by}
      BY <1>0, <1>1, <2>2 DEF MakingInv
    <3>2. \A s \in Appliers \ {c.by} : step'[s] = step[s]
      BY <1>0, <2>2 DEF TypeOK
    <3>3. UNCHANGED <<version, count>>
      BY <1>6 DEF MustRegister, rolloutVars
    <3> QED
      BY <1>0, <3>1, <3>2, <3>3 DEF MakingInv
  <2> QED
    BY <1>6, <2>1, <2>2, Zenon DEF MustRegister
<1>7. CASE NewRegistry \/ NewProvider
  BY <1>2, <1>7, Zenon DEF NewRegistry, R!NewRegistry, NewProvider, R!NewProvider
<1>8. CASE UNCHANGED vars
  BY <1>2, <1>8, Zenon DEF vars, rolloutVars
<1> QED
  BY <1>3, <1>4, <1>5, <1>6, <1>7, <1>8, Zenon DEF Next, Applier

\* Collectors stay within the two versions and keep their numbers.
LEMMA MadeStep == IInv /\ [Next]_vars => MadeInv'
<1> SUFFICES ASSUME IInv, [Next]_vars PROVE MadeInv'
  OBVIOUS
<1>0. TypeOK /\ MakingInv /\ RolloutInv /\ MadeInv
  BY DEF IInv
<1>1. \A c \in made : c.by \in Appliers /\ c.of \in Int /\ c.nth \in Int
  BY <1>0, CollectorType
<1>2. CASE UNCHANGED <<registry, version, phase, count, step, made, making>>
  BY <1>0, <1>2, Zenon DEF MadeInv
<1>3. CASE NewRegistry
  <2>1. /\ registry' = registry + 1 /\ registry \in Nat
        /\ made' = {c \in made : c.of >= registry}
        /\ UNCHANGED <<version, phase, step, count, making>>
    BY <1>0, <1>3 DEF NewRegistry, R!NewRegistry, TypeOK
  <2>2. ASSUME NEW c \in made' PROVE c.of \in {registry' - 1, registry'}
    BY <1>0, <1>1, <2>1 DEF MadeInv
  <2> QED
    BY <1>0, <2>1, <2>2 DEF MadeInv
<1>4. CASE NewProvider
  BY <1>2, <1>4, Zenon DEF NewProvider, R!NewProvider
<1>5. ASSUME NEW r \in Appliers, Receive(r) PROVE MadeInv'
  <2>1. /\ phase[r] = "rest" /\ version[r] <= registry
        /\ UNCHANGED <<registry, count, step, made, making>>
        /\ version'[r] = version[r] + 1 /\ version[r] \in Int
        /\ \A s \in Appliers \ {r} :
             version'[s] = version[s] /\ phase'[s] = phase[s]
    BY <1>0, <1>5 DEF Receive, R!Receive, RolloutInv, TypeOK
  <2>2. ASSUME NEW c \in made, c.by = r PROVE c.of < version'[r]
    BY <1>0, <1>1, <2>1, <2>2 DEF MadeInv
  <2> QED
    BY <1>0, <1>1, <2>1, <2>2 DEF MadeInv
<1>6. ASSUME NEW r \in Appliers, Start(r) PROVE MadeInv'
  <2>1. /\ phase[r] = "waiting"
        /\ UNCHANGED <<registry, version, made, making>>
        /\ \A s \in Appliers \ {r} : /\ count'[s] = count[s]
                                     /\ step'[s] = step[s]
                                     /\ phase'[s] = phase[s]
    BY <1>0, <1>6 DEF Start, R!Start, TypeOK
  <2>2. ASSUME NEW c \in made, c.by = r PROVE c.of # version[r]
    BY <1>0, <2>1, <2>2 DEF MadeInv
  <2> QED
    BY <1>0, <1>1, <2>1, <2>2 DEF MadeInv
<1>7. ASSUME NEW r \in Appliers, Finish(r) PROVE MadeInv'
  <2>1. /\ UNCHANGED <<registry, version, count, made, making>>
        /\ \A s \in Appliers : /\ phase'[s] \in {phase[s], "rest"}
                               /\ step'[s] \in {step[s], "idle"}
    BY <1>0, <1>7 DEF Finish, R!Finish, TypeOK
  <2> QED
    BY <1>0, <1>1, <2>1 DEF MadeInv, Busy
<1>8. ASSUME NEW r \in Appliers, NEW m \in Metrics, NewMetric(r, m)
      PROVE  MadeInv'
  <2>1. /\ step[r] = "make" /\ phase[r] = "applying"
        /\ version[r] \in {registry - 1, registry} /\ version[r] \in Int
        /\ count[r] \in Nat
        /\ UNCHANGED <<registry, version, phase>>
        /\ count'[r] = count[r] + 1
        /\ \A s \in Appliers \ {r} : count'[s] = count[s]
    BY <1>0, <1>8, NewMetricStep DEF TypeOK, Versions
  <2>2. CASE UNCHANGED <<step, made, making>>
    BY <1>0, <1>1, <2>1, <2>2 DEF MadeInv, Busy
  <2>3. CASE /\ step' = [step EXCEPT ![r] = "unregister"]
             /\ made' = made \cup {Made(r, m)}
             /\ making' = making \cup {Made(r, m)}
    <3>1. /\ Made(r, m).by = r /\ Made(r, m).of = version[r]
          /\ Made(r, m).nth = count[r] + 1
      BY <1>8, NewMetricStep
    <3>2. \A s \in Appliers \ {r} : step'[s] = step[s]
      BY <1>0, <2>3 DEF TypeOK
    <3>3. ASSUME NEW c \in made, c.by = r, c.of = version[r]
          PROVE  c.nth < count'[r]
      BY <1>0, <1>1, <2>1, <3>3 DEF MadeInv
    <3>4. ASSUME NEW c \in made PROVE MadeInv!(c)'
      BY <1>0, <1>1, <2>1, <2>3, <3>2, <3>3 DEF MadeInv
    <3> QED
      BY <2>1, <2>3, <3>1, <3>4 DEF MadeInv
  <2>4. \/ UNCHANGED <<step, made, making>>
        \/ /\ step' = [step EXCEPT ![r] = "unregister"]
           /\ made' = made \cup {Made(r, m)}
           /\ making' = making \cup {Made(r, m)}
    BY <1>8, NewMetricStep
  <2> QED
    BY <2>2, <2>3, <2>4, Zenon
<1>9. ASSUME NEW k \in making, Unregister(k) PROVE MadeInv'
  <2>1. /\ UNCHANGED <<registry, version, phase, count, made, making>>
        /\ step' = [step EXCEPT ![k.by] = "register"]
        /\ step[k.by] = "unregister"
    BY <1>9 DEF Unregister, rolloutVars
  <2>2. \A s \in Appliers : step'[s] \in Busy => step[s] \in Busy
    BY <1>0, <2>1 DEF TypeOK, Busy
  <2> QED
    BY <1>0, <1>1, <2>1, <2>2, Zenon DEF MadeInv
<1>10. ASSUME NEW k \in making, MustRegister(k) PROVE MadeInv'
  <2>1. UNCHANGED <<registry, version, phase, count, made>>
    BY <1>10 DEF MustRegister, rolloutVars
  <2>2. CASE UNCHANGED <<step, making>>
    BY <1>2, <2>1, <2>2, Zenon
  <2>3. CASE making' = making \ {k} /\ step' = [step EXCEPT ![k.by] = "make"]
    <3>1. \A s \in Appliers : step'[s] \in Busy => step[s] \in Busy /\ s # k.by
      BY <1>0, <2>3 DEF TypeOK, Busy
    <3> QED
      BY <1>0, <1>1, <2>1, <2>3, <3>1 DEF MadeInv
  <2> QED
    BY <1>10, <2>2, <2>3, Zenon DEF MustRegister
<1>11. CASE UNCHANGED vars
  BY <1>2, <1>11, Zenon DEF vars, rolloutVars
<1> QED
  BY <1>3, <1>4, <1>5, <1>6, <1>7, <1>8, <1>9, <1>10, <1>11, Zenon
     DEF Next, Applier

\* Nobody else registers a goroutine's collector.
LEMMA UnregisteredStep == IInv /\ [Next]_vars => UnregisteredInv'
<1> SUFFICES ASSUME IInv, [Next]_vars,
                    NEW c \in making', NEW d \in content',
                    step'[c.by] = "register", c.metric \in PromAccepts,
                    d.by = c.by
             PROVE  Id(d) # Id(c)
  BY DEF UnregisteredInv, Id
<1>0. TypeOK /\ MakingInv /\ RolloutInv /\ UnregisteredInv
  BY DEF IInv
<1>1. CASE c \in making /\ d \in content /\ step[c.by] = "register"
  BY <1>0, <1>1, Zenon DEF UnregisteredInv
<1>2. CASE NewRegistry
  BY <1>2 DEF NewRegistry
<1>3. CASE NewProvider \/ UNCHANGED vars
  BY <1>1, <1>3, Zenon DEF NewProvider, vars
<1>4. ASSUME NEW r \in Appliers, Receive(r) \/ Start(r) \/ Finish(r)
      PROVE  Id(d) # Id(c)
  <2>1. c \in making /\ d \in content
    BY <1>4 DEF Receive, Start, Finish
  <2>2. step[c.by] = "register"
    BY <1>0, <1>4, <2>1, CollectorType DEF Receive, Start, Finish, TypeOK
  <2> QED
    BY <1>1, <2>1, <2>2
<1>5. ASSUME NEW r \in Appliers, NEW m \in Metrics, NewMetric(r, m)
      PROVE  Id(d) # Id(c)
  <2>1. d \in content /\ step[r] = "make"
    BY <1>5 DEF NewMetric
  <2>2. CASE UNCHANGED <<step, making>>
    BY <1>1, <2>1, <2>2
  <2>3. CASE /\ step' = [step EXCEPT ![r] = "unregister"]
             /\ making' = making \cup {Made(r, m)}
    <3>1. c.by # r
      BY <1>0, <2>3 DEF TypeOK
    <3>2. c \in making
      BY <1>5, <2>3, <3>1, NewMetricStep
    <3>3. step[c.by] = "register"
      BY <1>0, <2>3, <3>1, <3>2, CollectorType DEF TypeOK
    <3> QED
      BY <1>1, <2>1, <3>2, <3>3
  <2>4. \/ UNCHANGED <<step, making>>
        \/ /\ step' = [step EXCEPT ![r] = "unregister"]
           /\ making' = making \cup {Made(r, m)}
    BY <1>5, NewMetricStep
  <2> QED
    BY <2>2, <2>3, <2>4, Zenon
<1>6. ASSUME NEW k \in making, Unregister(k) PROVE Id(d) # Id(c)
  <2>1. /\ c \in making /\ d \in content
        /\ step' = [step EXCEPT ![k.by] = "register"]
    BY <1>6 DEF Unregister
  <2>2. CASE c.by = k.by
    <3>1. c = k
      BY <1>0, <2>1, <2>2, Zenon DEF MakingInv
    <3> QED
      BY <1>6, <3>1 DEF Unregister
  <2>3. CASE c.by # k.by
    <3>1. step[c.by] = "register"
      BY <1>0, <2>1, <2>3, CollectorType DEF TypeOK
    <3> QED
      BY <1>1, <2>1, <3>1
  <2> QED
    BY <2>2, <2>3
<1>7. ASSUME NEW k \in making, MustRegister(k) PROVE Id(d) # Id(c)
  <2>1. CASE UNCHANGED <<step, making, content>>
    BY <1>1, <2>1
  <2>2. CASE /\ step' = [step EXCEPT ![k.by] = "make"]
             /\ making' = making \ {k}
             /\ content' = content \cup {k}
    <3>1. c \in making /\ c.by # k.by /\ c.by \in Appliers
      BY <1>0, <2>2, CollectorType DEF TypeOK, MakingInv
    <3>2. d \in content /\ step[c.by] = "register"
      BY <1>0, <2>2, <3>1 DEF TypeOK
    <3> QED
      BY <1>1, <3>1, <3>2
  <2> QED
    BY <1>7, <2>1, <2>2, Zenon DEF MustRegister
<1> QED
  BY <1>2, <1>3, <1>4, <1>5, <1>6, <1>7, Zenon DEF Next, Applier

\* A panic has one of the reasons.
LEMMA SafeStep == IInv /\ [Next]_vars => RegistrationIsSafe'
<1> SUFFICES ASSUME IInv, [Next]_vars PROVE RegistrationIsSafe'
  OBVIOUS
<1>0. TypeOK /\ UnregisteredInv /\ RegistrationIsSafe
  BY DEF IInv
<1>1. CASE UNCHANGED vars
  BY <1>0, <1>1, Zenon DEF vars, RegistrationIsSafe, AtOdds
<1>2. CASE panicked' = {}
  BY <1>2 DEF RegistrationIsSafe
<1>3. ASSUME NEW c \in making, MustRegister(c) PROVE RegistrationIsSafe'
  <2>1. CASE ~Refused(c)
    BY <1>2, <1>3, <2>1 DEF MustRegister, Running
  <2>2. CASE Refused(c)
    <3>1. panicked' = {c} /\ made' = made /\ step[c.by] = "register"
      BY <1>3, <2>2 DEF MustRegister
    <3>2. c.metric \notin PromAccepts \/ AtOdds(c)
      <4>1. CASE c.metric \notin PromAccepts
        BY <4>1
      <4>2. CASE /\ c.metric \in PromAccepts
                 /\ \E d \in content : Id(d) = Id(c)
        <5>1. PICK d \in content : Id(d) = Id(c)
          BY <4>2
        <5>2. d.by # c.by /\ d \in made
          BY <1>0, <3>1, <4>2, <5>1, Zenon DEF TypeOK, UnregisteredInv
        <5>3. Dim(d)[1] = Dim(c)[1]
          BY <5>1 DEF Id, Dim
        <5> QED
          BY <5>1, <5>2, <5>3, Zenon DEF AtOdds
      <4>3. CASE \E e \in dims : e[1] = Dim(c)[1] /\ e # Dim(c)
        <5>1. PICK d \in made : Dim(d)[1] = Dim(c)[1] /\ Dim(d) # Dim(c)
          BY <1>0, <4>3, Zenon DEF TypeOK
        <5> QED
          BY <5>1, Zenon DEF AtOdds
      <4> QED
        BY <2>2, <4>1, <4>2, <4>3, Zenon DEF Refused
    <3> QED
      BY <3>1, <3>2 DEF RegistrationIsSafe, AtOdds
  <2> QED
    BY <2>1, <2>2
<1> QED
  BY <1>1, <1>2, <1>3, Zenon
     DEF Next, Applier, NewRegistry, NewProvider, Receive, Start, NewMetric,
         Unregister, Finish, Running

\* Displaced only depends on what has been made.
LEMMA StaysDisplaced ==
  ASSUME made \subseteq made', NEW c, Displaced(c)
  PROVE  Displaced(c)'
BY DEF Displaced, Id

\* Once registered, a collector stays until the next registry unless another
\* one takes its place.
LEMMA ExposedStep == IInv /\ [Next]_vars => ExposedInv'
<1> SUFFICES ASSUME IInv, [Next]_vars, NEW c \in made' \ making',
                    c.of = registry'
             PROVE  c \in content' \/ Displaced(c)'
  BY DEF ExposedInv
<1>0. TypeOK /\ MakingInv /\ MadeInv /\ RolloutInv /\ ExposedInv
  BY DEF IInv
<1>1. CASE /\ made \subseteq made' /\ content \subseteq content'
           /\ registry' = registry /\ c \in made \ making
  BY <1>0, <1>1, StaysDisplaced, Zenon DEF ExposedInv
<1>2. CASE NewRegistry
  <2>1. c \in made /\ registry' = registry + 1 /\ registry \in Int
    BY <1>0, <1>2 DEF NewRegistry, R!NewRegistry, TypeOK
  <2> QED
    BY <1>0, <2>1 DEF MadeInv
<1>3. CASE NewProvider \/ UNCHANGED vars
  BY <1>1, <1>3 DEF NewProvider, R!NewProvider, vars, rolloutVars
<1>4. ASSUME NEW r \in Appliers, Receive(r) \/ Start(r) \/ Finish(r)
      PROVE  c \in content' \/ Displaced(c)'
  BY <1>1, <1>4
     DEF Receive, R!Receive, Start, R!Start, Finish, R!Finish
<1>5. ASSUME NEW r \in Appliers, NEW m \in Metrics, NewMetric(r, m)
      PROVE  c \in content' \/ Displaced(c)'
  <2>1. /\ registry' = registry /\ content' = content
        /\ \/ made' = made /\ making' = making
           \/ /\ made' = made \cup {Made(r, m)}
              /\ making' = making \cup {Made(r, m)}
    BY <1>5, NewMetricStep
  <2>2. made \subseteq made' /\ c \in made \ making
    BY <2>1
  <2> QED
    BY <1>1, <2>1, <2>2
<1>6. ASSUME NEW k \in making, Unregister(k)
      PROVE  c \in content' \/ Displaced(c)'
  <2>1. UNCHANGED <<registry, made, making>>
    BY <1>6 DEF Unregister, rolloutVars
  <2>2. CASE Displaced(c) \/ (c \in content /\ Id(c) # Id(k))
    <3>1. CASE Displaced(c)
      BY <2>1, <3>1, StaysDisplaced
    <3>2. CASE c \in content /\ Id(c) # Id(k)
      BY <1>6, <3>2 DEF Unregister
    <3> QED
      BY <2>2, <3>1, <3>2
  <2>3. CASE Id(c) = Id(k)
    <3>1. k \in made /\ c \in made /\ c # k
      BY <1>0, <2>1 DEF TypeOK
    <3>2. CASE k.by # c.by
      BY <2>1, <2>3, <3>1, <3>2, StaysDisplaced, Zenon DEF Displaced
    <3>3. CASE k.by = c.by
      <4>1. /\ c.of \in Int /\ k.of \in Int /\ c.nth \in Int /\ k.nth \in Int
            /\ registry \in Int
        BY <1>0, <3>1, CollectorType DEF TypeOK
      <4>2. /\ k.of = version[k.by] /\ k.nth = count[k.by]
            /\ step[k.by] \in Busy
        BY <1>0, Zenon DEF MakingInv
      <4>3. k.of = c.of
        BY <1>0, <2>1, <3>1, <3>3, <4>1, <4>2 DEF MadeInv
      <4>4. c.nth <= k.nth /\ (c.nth = k.nth => c \in making)
        BY <1>0, <3>1, <3>3, <4>2, <4>3 DEF MadeInv
      <4>5. k.nth > c.nth
        BY <2>1, <4>1, <4>4
      <4> QED
        BY <2>1, <2>3, <3>1, <4>3, <4>5, StaysDisplaced, Zenon DEF Displaced
    <3> QED
      BY <3>2, <3>3
  <2> QED
    BY <1>0, <2>1, <2>2, <2>3, Zenon DEF ExposedInv
<1>7. ASSUME NEW k \in making, MustRegister(k)
      PROVE  c \in content' \/ Displaced(c)'
  <2>1. /\ registry' = registry /\ made' = made
        /\ \/ making' = making /\ content' = content
           \/ making' = making \ {k} /\ content' = content \cup {k}
    BY <1>7 DEF MustRegister, rolloutVars
  <2> QED
    BY <1>1, <2>1
<1> QED
  BY <1>2, <1>3, <1>4, <1>5, <1>6, <1>7, Zenon DEF Next, Applier

-----------------------------------------------------------------------------
\* However telemetry and the appliers interleave, the registry is filled from
\* two versions at most and nobody registers for another.
THEOREM Invariance == Spec => []IInv
<1>1. ASSUME Init PROVE IInv
  <2> USE <1>1, RegistryAssumption DEF Init, R!Init
  <2>1. TypeOK
    BY DEF TypeOK, R!Phases
  <2>2. RolloutInv
    BY DEF RolloutInv
  <2>3. MakingInv /\ MadeInv /\ UnregisteredInv /\ ExposedInv
        /\ RegistrationIsSafe
    BY DEF MakingInv, MadeInv, UnregisteredInv, ExposedInv, RegistrationIsSafe
  <2> QED
    BY <2>1, <2>2, <2>3 DEF IInv
<1>2. IInv /\ [Next]_vars => IInv'
  BY TypeStep, RolloutStep, MakingStep, MadeStep, UnregisteredStep,
     ExposedStep, SafeStep, Zenon DEF IInv
<1> QED
  BY <1>1, <1>2, PTL DEF Spec

\* The type of every variable.
THEOREM TypeCorrect == Spec => []TypeOK
<1>1. IInv => TypeOK
  BY DEF IInv
<1> QED
  BY Invariance, <1>1, PTL

\* MustRegister panics only on a name or label names that Prometheus does not
\* accept, on a name that is used with two sets of label names in versions
\* that can meet, or on a metric that egress and ingress both have.
THEOREM SafeRegistration == Spec => []RegistrationIsSafe
<1>1. IInv => RegistrationIsSafe
  BY DEF IInv
<1> QED
  BY Invariance, <1>1, PTL

\* At rest the registry exposes the collectors in use that no other displaced,
\* and nothing older than the version before.
THEOREM MetricsExposed == Spec => []CurrentMetricsExposed
<1>1. ASSUME IInv, AtRest PROVE CurrentMetricsExposed
  <2>1. TypeOK /\ MakingInv /\ MadeInv /\ RolloutInv /\ ExposedInv
    BY <1>1 DEF IInv
  <2>2. \A c \in making : c.by \in Appliers /\ step[c.by] # "idle"
    BY <2>1, CollectorType DEF TypeOK, MakingInv, Busy
  <2>3. making = {}
    BY <1>1, <2>1, <2>2 DEF AtRest, RolloutInv
  <2> QED
    BY <2>1, <2>3, Zenon DEF CurrentMetricsExposed, ExposedInv, MadeInv, TypeOK
<1>2. IInv => CurrentMetricsExposed
  BY <1>1 DEF CurrentMetricsExposed
<1> QED
  BY Invariance, <1>2, PTL
=============================================================================
