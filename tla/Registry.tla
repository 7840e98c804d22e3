------------------------------- MODULE Registry -------------------------------
(***************************************************************************)
(* How egress and ingress put their metrics into telemetry.PromRegistry:   *)
(* for every probe or endpoint of a version NewCounterMetric and           *)
(* NewResponseTimeMetric make a collector, unregister what is in its place *)
(* and register it, in whatever registry the global holds at each of the   *)
(* two calls, while the other goroutine does the same and telemetry may    *)
(* already have replaced the registry for the next version.                *)
(*                                                                         *)
(* A metric is a kind, a name and labels; labels are <<label names, label  *)
(* values>>.  Only what is in the present registry is kept.                *)
(***************************************************************************)
EXTENDS Integers

CONSTANTS
  Appliers,     \* egress and ingress
  Metrics,      \* the metrics a configuration can ask for
  OtelAccepts,  \* those whose name OpenTelemetry accepts
  PromAccepts,  \* those whose name and label names Prometheus accepts
  MaxVersions,  \* bound on the number of versions
  MaxMetrics    \* bound on the metrics of an applier in a version

ASSUME RegistryAssumption == MaxVersions \in Nat /\ MaxMetrics \in Nat

VARIABLES
  registry, provider, version, phase,   \* those of Rollout
  step,         \* where each applier is in its list of metrics
  count,        \* metrics each applier has come to in its version
  made,         \* the collectors made for the versions that can meet
  making,       \* those of them that are not registered yet
  content,      \* the collectors in the registry
  dims,         \* the label names the registry knows for a metric name
  panicked      \* the collector with which MustRegister panicked, if any

rolloutVars == <<registry, provider, version, phase>>
vars == <<rolloutVars, step, count, made, making, content, dims, panicked>>

R == INSTANCE Rollout

Versions == 1..MaxVersions
Collectors ==
  [metric : Metrics, by : Appliers, of : Versions, nth : 1..MaxMetrics]

\* What tells collectors apart in a registry: the hash of a descriptor covers
\* the name and the label values, the hash of its dimensions the label names.
Id(c) == <<c.metric.name, c.metric.labels[2]>>
Dim(c) == <<c.metric.name, c.metric.labels[1]>>

Init ==
  /\ R!Init
  /\ step = [r \in Appliers |-> "idle"]
  /\ count = [r \in Appliers |-> 0]
  /\ made = {} /\ making = {}
  /\ content = {} /\ dims = {}
  /\ panicked = {}

Running == panicked = {}

-----------------------------------------------------------------------------
(* telemetry *)

\* The new registry is empty.  No applier can be further back than the version
\* of the old one.
NewRegistry ==
  /\ Running
  /\ registry < MaxVersions
  /\ R!NewRegistry
  /\ content' = {} /\ dims' = {}
  /\ made' = {c \in made : c.of >= registry}
  /\ UNCHANGED <<step, count, making, panicked>>

NewProvider ==
  /\ Running
  /\ R!NewProvider
  /\ UNCHANGED <<step, count, made, making, content, dims, panicked>>

-----------------------------------------------------------------------------
(* egress and ingress *)

Receive(r) ==
  /\ Running
  /\ version[r] < MaxVersions
  /\ R!Receive(r)
  /\ UNCHANGED <<step, count, made, making, content, dims, panicked>>

Start(r) ==
  /\ Running
  /\ R!Start(r)
  /\ step' = [step EXCEPT ![r] = "make"]
  /\ count' = [count EXCEPT ![r] = 0]
  /\ UNCHANGED <<made, making, content, dims, panicked>>

\* The instrument is made first.  If OpenTelemetry refuses its name there is
\* no counter at all; the gauge goes on without an instrument.
NewMetric(r, m) ==
  LET c == [metric |-> m, by |-> r, of |-> version[r], nth |-> count[r] + 1]
  IN /\ Running
     /\ step[r] = "make" /\ count[r] < MaxMetrics
     /\ count' = [count EXCEPT ![r] = @ + 1]
     /\ IF m.kind = "counter" /\ m \notin OtelAccepts
          THEN UNCHANGED <<step, made, making>>
          ELSE /\ step' = [step EXCEPT ![r] = "unregister"]
               /\ made' = made \cup {c}
               /\ making' = making \cup {c}
     /\ UNCHANGED <<rolloutVars, content, dims, panicked>>

\* Faulty: nothing is unregistered.
UnregisterNothing(c) ==
  /\ Running
  /\ step[c.by] = "unregister"
  /\ step' = [step EXCEPT ![c.by] = "register"]
  /\ UNCHANGED <<rolloutVars, count, made, making, content, dims, panicked>>

\* A collector with this name and these label values leaves the registry, which
\* keeps the label names it has seen for the name.  An invalid descriptor
\* stands for no collector.
Unregister(c) ==
  /\ Running
  /\ step[c.by] = "unregister"
  /\ step' = [step EXCEPT ![c.by] = "register"]
  /\ content' = IF c.metric \in PromAccepts
                  THEN {d \in content : Id(d) # Id(c)} ELSE content
  /\ UNCHANGED <<rolloutVars, count, made, making, dims, panicked>>

\* A registry refuses an invalid descriptor, a second collector with the same
\* name and label values, and a name with other label names than it has seen.
Refused(c) ==
  \/ c.metric \notin PromAccepts
  \/ \E d \in content : Id(d) = Id(c)
  \/ \E e \in dims : e[1] = Dim(c)[1] /\ e # Dim(c)

\* Faulty: a name the registry has seen is taken to be registered.
RegisterNewNames(c) ==
  /\ Running
  /\ step[c.by] = "register"
  /\ step' = [step EXCEPT ![c.by] = "make"]
  /\ making' = making \ {c}
  /\ content' = IF \E e \in dims : e[1] = Dim(c)[1]
                  THEN content ELSE content \cup {c}
  /\ dims' = dims \cup {Dim(c)}
  /\ UNCHANGED <<rolloutVars, count, made, panicked>>

\* MustRegister panics when Register refuses.
MustRegister(c) ==
  /\ Running
  /\ step[c.by] = "register"
  /\ IF Refused(c)
       THEN panicked' = {c} /\ UNCHANGED <<step, making, content, dims>>
       ELSE /\ step' = [step EXCEPT ![c.by] = "make"]
            /\ making' = making \ {c}
            /\ content' = content \cup {c}
            /\ dims' = dims \cup {Dim(c)}
            /\ UNCHANGED panicked
  /\ UNCHANGED <<rolloutVars, count, made>>

\* All probes or endpoints of the version are made.
Finish(r) ==
  /\ Running
  /\ step[r] = "make"
  /\ R!Finish(r)
  /\ step' = [step EXCEPT ![r] = "idle"]
  /\ UNCHANGED <<count, made, making, content, dims, panicked>>

Applier(r) ==
  \/ Receive(r) \/ Start(r) \/ Finish(r)
  \/ \E m \in Metrics : NewMetric(r, m)

Next ==
  \/ NewRegistry \/ NewProvider
  \/ \E r \in Appliers : Applier(r)
  \/ \E c \in making : Unregister(c) \/ MustRegister(c)

Spec == Init /\ [][Next]_vars

-----------------------------------------------------------------------------
\* The type of every variable.
TypeOK ==
  /\ registry \in 0..MaxVersions /\ provider \in 0..registry
  /\ version \in [Appliers -> 0..MaxVersions]
  /\ phase \in [Appliers -> R!Phases]
  /\ step \in [Appliers -> {"idle", "make", "unregister", "register"}]
  /\ count \in [Appliers -> 0..MaxMetrics]
  /\ made \subseteq Collectors
  /\ making \subseteq made
  /\ content \subseteq made
  /\ dims \subseteq {Dim(c) : c \in made}
  /\ panicked \subseteq making

\* Something else the configuration asks for is at odds with c: a metric of
\* the same name with other label names, of either goroutine, in this version
\* or the one before or after; or a metric of the other goroutine with the
\* name and the label values of c.
AtOdds(c) ==
  \E d \in made :
    /\ Dim(d)[1] = Dim(c)[1]
    /\ Dim(d) # Dim(c) \/ (d.by # c.by /\ Id(d) = Id(c))

\* Registering panics only if the configuration is to blame: Prometheus does
\* not accept the name or the label names of the metric, or another metric is
\* at odds with it.  A goroutine that is late and puts its metrics into the
\* registry of the next version, or that finds its registry replaced between
\* the two calls, does no harm by itself, and neither does one that configures
\* the same metric twice, because a metric is unregistered first.
RegistrationIsSafe ==
  \A c \in panicked : c.metric \notin PromAccepts \/ AtOdds(c)

\* Everybody has applied the version of the registry.
AtRest ==
  /\ Running /\ registry > 0
  /\ \A r \in Appliers : version[r] = registry /\ phase[r] = "rest"

\* Another collector can have taken the place of c in the registry: one of the
\* other goroutine, or one that the same goroutine made later in the version.
Displaced(c) ==
  \E d \in made :
    /\ Id(d) = Id(c)
    /\ d.by # c.by \/ (d.of = c.of /\ d.nth > c.nth)

\* At rest the registry exposes every collector that a goroutine made for the
\* version and counts on, unless it is displaced; and what else is exposed is
\* one version old.
CurrentMetricsExposed ==
  AtRest =>
    /\ \A c \in made : c.of = registry => c \in content \/ Displaced(c)
    /\ \A c \in content : c.of \in {registry - 1, registry}
=============================================================================
