------------------------------- MODULE Exporters -------------------------------
(***************************************************************************)
(* What becomes of the OpenTelemetry metrics: the meter provider that      *)
(* configureTelemetry makes for every version, which replaces the previous *)
(* one without shutting it down; the readers of its exporters; the probes  *)
(* and queries that still hold instruments of a replaced provider, and     *)
(* that nobody waits for in a shutdown; the map common.ResponseTimes they  *)
(* share; and the shutdown of the last provider.                           *)
(*                                                                         *)
(* A reader is "push" (stdoutmetric, otlpmetrichttp, otlpmetricgrpc) or    *)
(* "pull" (prometheus).  An applier stands for one of its metrics, which   *)
(* has the same name in every version; a series is an applier and the      *)
(* provider its instruments belong to.                                     *)
(***************************************************************************)
EXTENDS Integers, Sequences, FiniteSets

CONSTANTS
  Appliers,     \* egress and ingress
  MaxVersions,  \* bound on the number of versions
  MaxCounts,    \* bound on the number of times a counter is increased
  MaxMeasures   \* bound on the number of response times measured

ASSUME ExportersAssumption ==
  MaxVersions \in Nat /\ MaxCounts \in Nat /\ MaxMeasures \in Nat

VARIABLES
  registry, provider, version, phase,   \* those of Rollout
  push,           \* the push reader of the provider of each version
  pull,           \* its pull reader
  series,         \* the series there are
  counts,         \* the series of each increase of a counter
  unsent,         \* increases that no push reader has delivered
  fresh,          \* those of them that no push reader has collected
  responseTimes,  \* ResponseTimes: the number of a measurement (0: nil)
  measured,       \* response times measured so far
  taken,          \* the readers that observed each measurement
  scrape,         \* how the last scrape ended
  stop,           \* how far the shutdown of the provider has come
  atSignal        \* increases up to the moment telemetry took the signal

rolloutVars == <<registry, provider, version, phase>>
readerVars == <<push, pull>>
dataVars == <<series, counts, unsent, fresh>>
timeVars == <<responseTimes, measured, taken>>
stopVars == <<stop, atSignal>>
vars == <<rolloutVars, readerVars, dataVars, timeVars, scrape, stopVars>>

R == INSTANCE Rollout

Versions == 1..MaxVersions
Measures == 1..MaxMeasures
Kinds == {"push", "pull"}

Init ==
  /\ R!Init
  /\ push = [v \in Versions |-> "none"]
  /\ pull = [v \in Versions |-> "none"]
  /\ series = {} /\ counts = <<>> /\ unsent = {} /\ fresh = {}
  /\ responseTimes = [r \in Appliers |-> 0]
  /\ measured = 0 /\ taken = [n \in Measures |-> {}]
  /\ scrape = "none"
  /\ stop = "no" /\ atSignal = 0

-----------------------------------------------------------------------------
(* Updates *)

NewRegistry ==
  /\ stop = "no"
  /\ registry < MaxVersions
  /\ R!NewRegistry
  /\ UNCHANGED <<readerVars, dataVars, timeVars, scrape, stopVars>>

\* Faulty: the provider that is replaced is shut down, and its readers are gone.
NewProviderShutsOld ==
  /\ R!NewProvider
  /\ \E a, b \in {"none", "open"} :
       /\ push' = [v \in Versions |-> IF v = registry THEN a ELSE "none"]
       /\ pull' = [v \in Versions |-> IF v = registry THEN b ELSE "none"]
  /\ UNCHANGED <<dataVars, timeVars, scrape, stopVars>>

\* The exporters the configuration names, of which some may fail to be made.
\* The readers of the provider that is replaced go on.
NewProvider ==
  /\ R!NewProvider
  /\ \E a \in {"none", "open"} : push' = [push EXCEPT ![registry] = a]
  /\ \E b \in {"none", "open"} : pull' = [pull EXCEPT ![registry] = b]
  /\ UNCHANGED <<dataVars, timeVars, scrape, stopVars>>

Receive(r) ==
  /\ version[r] < MaxVersions
  /\ R!Receive(r)
  /\ UNCHANGED <<readerVars, dataVars, timeVars, scrape, stopVars>>

\* The meter comes from the global provider of the moment, and so do the
\* instruments; the callback of the gauge is registered with it for good.
\* Once its shutdown has begun a provider hands out a meter that does nothing.
Start(r) ==
  /\ R!Start(r)
  /\ series' = IF stop = "no" THEN series \cup {<<r, provider>>} ELSE series
  /\ UNCHANGED <<readerVars, counts, unsent, fresh, timeVars, scrape, stopVars>>

Finish(r) ==
  /\ R!Finish(r)
  /\ UNCHANGED <<readerVars, dataVars, timeVars, scrape, stopVars>>

Update ==
  \/ NewRegistry \/ NewProvider
  \/ \E r \in Appliers : Receive(r) \/ Start(r) \/ Finish(r)

-----------------------------------------------------------------------------
(* Probes and queries, which may have begun before the last update. *)

Add(s) ==
  LET n == Len(counts) + 1
  IN /\ s \in series /\ n <= MaxCounts
     /\ counts' = Append(counts, s)
     /\ unsent' = unsent \cup {n}
     /\ fresh' = fresh \cup {n}

PreMeasurable(s) ==
  /\ Add(s)
  /\ UNCHANGED <<rolloutVars, readerVars, series, timeVars, scrape, stopVars>>

\* PostMeasurable of a success.  The map is keyed by the name of the metric,
\* so a response time nobody observed is overwritten.
PostMeasurable(s) ==
  /\ measured < MaxMeasures
  /\ Add(s)
  /\ measured' = measured + 1
  /\ responseTimes' = [responseTimes EXCEPT ![s[1]] = measured']
  /\ UNCHANGED <<rolloutVars, readerVars, series, taken, scrape, stopVars>>

-----------------------------------------------------------------------------
(* Readers *)

Series(p) == {r \in Appliers : <<r, p>> \in series}

\* The increases on instruments of provider p.
On(p) == {n \in DOMAIN counts : counts[n][2] = p}

\* The callbacks of gauges, each under the mutex.  by says which provider's
\* readers of kind k come to which gauge first.
Taken(by, k) ==
  [n \in Measures |->
     taken[n] \cup {<<by[r], k>> : r \in {r \in DOMAIN by : responseTimes[r] = n}}]

\* Faulty: what was observed stays in the map.
ObserveAndKeep(by, k) ==
  /\ taken' = Taken(by, k)
  /\ UNCHANGED <<responseTimes, measured>>

\* What was observed leaves the map.
Observe(by, k) ==
  /\ taken' = Taken(by, k)
  /\ responseTimes' = [r \in Appliers |->
                         IF r \in DOMAIN by THEN 0 ELSE responseTimes[r]]
  /\ UNCHANGED measured

\* The push reader of p collects what its instruments hold.
Gather(p, to) ==
  /\ push[p] = "open"
  /\ push' = [push EXCEPT ![p] = to]
  /\ Observe([r \in Series(p) |-> p], "push")
  /\ fresh' = fresh \ On(p)
  /\ UNCHANGED <<rolloutVars, pull, series, counts, unsent, scrape, stopVars>>

Collect(p) == Gather(p, "exporting")

\* What was collected reaches its endpoint or does not.  In that case the
\* counters are sent again, being cumulative; the response times are lost.
ExportEnds(p, sent) ==
  /\ push[p] \in {"exporting", "last"}
  /\ push' = [push EXCEPT ![p] = IF @ = "exporting" THEN "open"
                                 ELSE IF sent THEN "closed" ELSE "failed"]
  /\ unsent' = IF sent THEN unsent \ (On(p) \ fresh) ELSE unsent
  /\ UNCHANGED <<rolloutVars, pull, series, counts, fresh, timeVars, scrape,
                 stopVars>>

Pullers(r) == {p \in Versions : pull[p] = "open" /\ r \in Series(p)}
Recorded == {counts[n] : n \in DOMAIN counts}

\* promhttp.Handler gathers from the default registerer, where the reader of
\* every prometheus exporter made so far is registered.  A metric that two
\* readers report with the same labels makes the response an error.
Scrape ==
  /\ \E by \in [{r \in Appliers : Pullers(r) # {}} -> Versions] :
       /\ \A r \in DOMAIN by : by[r] \in Pullers(r)
       /\ Observe(by, "pull")
  /\ scrape' = IF \E r \in Appliers : \E p, q \in Pullers(r) :
                    p # q /\ {<<r, p>>, <<r, q>>} \subseteq Recorded
                 THEN "error" ELSE "ok"
  /\ UNCHANGED <<rolloutVars, readerVars, dataVars, stopVars>>

-----------------------------------------------------------------------------
(* The signal case of GoTelemetry.  Shutdown is called on the last provider; *)
(* the providers it replaced are not shut down.                              *)

MayShutDown == stop = "no" /\ provider = registry /\ provider > 0

\* Faulty: the goroutine returns without a shutdown.
TakeSignalOnly ==
  /\ MayShutDown
  /\ stop' = "done"
  /\ atSignal' = Len(counts)
  /\ UNCHANGED <<rolloutVars, readerVars, dataVars, timeVars, scrape>>

TakeSignal ==
  /\ MayShutDown
  /\ stop' = "stopping"
  /\ atSignal' = Len(counts)
  /\ UNCHANGED <<rolloutVars, readerVars, dataVars, timeVars, scrape>>

\* The loop of the push reader has ended, with no export under way: it collects
\* a last time.
LastCollect == stop = "stopping" /\ Gather(provider, "last")

\* The pull reader reports nothing from now on.
ClosePull ==
  /\ stop = "stopping" /\ pull[provider] = "open"
  /\ pull' = [pull EXCEPT ![provider] = "closed"]
  /\ UNCHANGED <<rolloutVars, push, dataVars, timeVars, scrape, stopVars>>

\* Both readers are shut down, and the goroutine returns.
ShutdownReturns ==
  /\ stop = "stopping"
  /\ push[provider] \in {"none", "closed", "failed"}
  /\ pull[provider] \in {"none", "closed"}
  /\ stop' = "done"
  /\ UNCHANGED <<rolloutVars, readerVars, dataVars, timeVars, scrape, atSignal>>

Shutdown == TakeSignal \/ LastCollect \/ ClosePull \/ ShutdownReturns

Next ==
  \/ Update
  \/ \E s \in series : PreMeasurable(s) \/ PostMeasurable(s)
  \/ \E p \in Versions : Collect(p)
  \/ \E p \in Versions, sent \in BOOLEAN : ExportEnds(p, sent)
  \/ Scrape
  \/ Shutdown

Spec == Init /\ [][Next]_vars

\* A periodic reader collects once per period, and the endpoint it pushes to
\* answers often enough.  Nothing is assumed of updates, probes or scrapes.
FairSpec ==
  Spec /\ \A p \in Versions : WF_vars(Collect(p)) /\ SF_vars(ExportEnds(p, TRUE))

-----------------------------------------------------------------------------
\* The type of every variable.
TypeOK ==
  /\ registry \in 0..MaxVersions /\ provider \in 0..registry
  /\ version \in [Appliers -> 0..MaxVersions]
  /\ phase \in [Appliers -> R!Phases]
  /\ push \in
       [Versions -> {"none", "open", "exporting", "last", "closed", "failed"}]
  /\ pull \in [Versions -> {"none", "open", "closed"}]
  /\ series \subseteq Appliers \X Versions
  /\ counts \in Seq(Appliers \X Versions) /\ Len(counts) <= MaxCounts
  /\ unsent \subseteq DOMAIN counts /\ fresh \subseteq unsent
  /\ responseTimes \in [Appliers -> 0..measured]
  /\ measured \in 0..MaxMeasures
  /\ taken \in [Measures -> SUBSET (Versions \X Kinds)]
  /\ scrape \in {"none", "ok", "error"}
  /\ stop \in {"no", "stopping", "done"}
  /\ atSignal \in 0..Len(counts)

\* However many readers a reload leaves behind, a response time is reported by
\* one of them, once: the callback takes it out of the map under the mutex.
ReportedOnce ==
  \A n \in Measures :
    /\ Cardinality(taken[n]) <= 1
    /\ taken[n] # {} => \A r \in Appliers : responseTimes[r] # n

\* When telemetry has returned, what was counted on the provider of the last
\* version before telemetry took the signal has been delivered, though an older
\* export was under way at that moment and probes went on counting, unless the
\* last export failed.  What can be lost is what probes count after the signal,
\* and what was counted on a provider that a reload replaced.
ShutdownSendsAll ==
  stop = "done" /\ push[provider] \notin {"none", "failed"} =>
    \A n \in unsent \cap On(provider) : n > atSignal

\* What is counted on a provider with a push exporter is sent sooner or later,
\* though a reload has replaced the provider meanwhile, unless bunny shuts
\* down: a probe that began under the previous version is not lost to a reload.
CountsAreSent ==
  \A n \in 1..MaxCounts :
    (n \in unsent /\ push[counts[n][2]] # "none") ~> (n \notin unsent \/ stop # "no")

(* What the documentation says and the code does not do. *)

\* README: openTelemetryMetricsPath is the path to scrape metrics from.
MetricsCanBeScraped == scrape # "error"
=============================================================================
