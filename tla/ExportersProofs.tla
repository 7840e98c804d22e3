--------------------------- MODULE ExportersProofs ---------------------------
(***************************************************************************)
(* Proofs about the OpenTelemetry metrics, for any appliers and any number *)
(* of versions, counts and measurements.                                   *)
(*                                                                         *)
(* Three facts carry them: a series belongs to the present provider or to  *)
(* one it replaced, so that the readers of its provider are never made     *)
(* again; a measurement is in one place, the map or one reader; and after  *)
(* the last collection of the last provider only what came later is fresh. *)
(***************************************************************************)
EXTENDS Exporters, FiniteSetTheorems, TLAPS

\* A goroutine makes instruments when there is a provider.
PhaseInv == \A r \in Appliers : phase[r] # "rest" => version[r] > 0

SeriesInv ==
  /\ \A s \in series : s[2] <= provider
  /\ \A n \in DOMAIN counts : counts[n] \in series

\* A measurement is unmade, or waits in the map, or was taken once.
ReportInv ==
  /\ \A r, s \in Appliers :
       responseTimes[r] = responseTimes[s] /\ r # s => responseTimes[r] = 0
  /\ \A n \in Measures :
       /\ n > measured => taken[n] = {}
       /\ \A x, y \in taken[n] : x = y
       /\ taken[n] # {} => \A r \in Appliers : responseTimes[r] # n

\* Only the last provider is shut down, and nothing is loaded after the signal.
StopInv ==
  /\ stop # "no" => provider = registry /\ provider > 0
  /\ stop = "done" => push[provider] \in {"none", "closed", "failed"}
  /\ \A p \in Versions :
       /\ push[p] \in {"last", "closed", "failed"} => p = provider /\ stop # "no"
       /\ pull[p] = "closed" => stop # "no"

\* What the last collection did not find was counted after the signal.
FlushInv ==
  \A p \in Versions, n \in DOMAIN counts :
    counts[n][2] = p =>
      /\ push[p] \in {"last", "closed"} /\ n \in fresh => n > atSignal
      /\ push[p] = "closed" /\ n \in unsent => n \in fresh

IInv == TypeOK /\ PhaseInv /\ SeriesInv /\ ReportInv /\ StopInv /\ FlushInv

-----------------------------------------------------------------------------
\* What the callbacks of the gauges do to the map and to the measurements.
LEMMA ObserveStep ==
  ASSUME IInv, NEW by, DOMAIN by \subseteq Appliers,
         \A r \in DOMAIN by : by[r] \in Versions,
         NEW k \in Kinds, Observe(by, k)
  PROVE  /\ responseTimes' \in [Appliers -> 0..measured] /\ measured' = measured
         /\ taken' \in [Measures -> SUBSET (Versions \X Kinds)]
         /\ ReportInv'
<1> DEFINE new(n) == {<<by[r], k>> : r \in {r \in DOMAIN by : responseTimes[r] = n}}
<1>0. /\ responseTimes \in [Appliers -> 0..measured] /\ measured \in Nat
      /\ taken \in [Measures -> SUBSET (Versions \X Kinds)] /\ ReportInv
  BY ExportersAssumption DEF IInv, TypeOK
<1>1. measured' = measured /\ measured \in Nat
  BY <1>0 DEF Observe
<1>2. \A r \in Appliers :
        responseTimes'[r] = IF r \in DOMAIN by THEN 0 ELSE responseTimes[r]
  BY DEF Observe
<1>3. responseTimes' \in [Appliers -> 0..measured]
  BY <1>0, <1>1 DEF Observe
<1>4. \A n \in Measures : taken'[n] = taken[n] \cup new(n)
  BY <1>0 DEF Observe, Taken
<1>5. \A n \in Measures : new(n) \subseteq Versions \X Kinds
  OBVIOUS
<1>6. taken' \in [Measures -> SUBSET (Versions \X Kinds)]
  <2>1. taken' = [n \in Measures |-> taken[n] \cup new(n)]
    BY DEF Observe, Taken
  <2>2. \A n \in Measures : taken[n] \cup new(n) \in SUBSET (Versions \X Kinds)
    BY <1>0, <1>5
  <2> HIDE DEF new
  <2> QED
    BY <2>1, <2>2
<1>7. \A n \in Measures : \A x \in new(n) :
        \E r \in Appliers \cap DOMAIN by :
          responseTimes[r] = n /\ x = <<by[r], k>>
  OBVIOUS
<1> HIDE DEF new
<1>8. ASSUME NEW n \in Measures
      PROVE  /\ \A x, y \in new(n) : x = y
             /\ new(n) # {} => /\ taken[n] = {} /\ n <= measured
                               /\ \A r \in Appliers : responseTimes'[r] # n
  <2>1. n \in Nat /\ n # 0
    BY DEF Measures
  <2>2. \A r, s \in Appliers : responseTimes[r] = n /\ responseTimes[s] = n => r = s
    BY <1>0, <2>1 DEF ReportInv
  <2>3. \A x, y \in new(n) : x = y
    BY <1>7, <2>2
  <2>4. ASSUME new(n) # {}
        PROVE  \E r \in Appliers \cap DOMAIN by : responseTimes[r] = n
    BY <1>7, <2>4
  <2>5. ASSUME new(n) # {}, NEW r \in Appliers PROVE responseTimes'[r] # n
    BY <1>2, <2>1, <2>2, <2>4, <2>5
  <2>6. ASSUME new(n) # {} PROVE taken[n] = {} /\ n <= measured
    BY <1>0, <2>4, <2>6 DEF ReportInv
  <2> QED
    BY <2>3, <2>5, <2>6
<1>9. \A n \in Measures : \A r \in Appliers :
         responseTimes'[r] = n => responseTimes[r] = n
  BY <1>2 DEF Measures
<1>10. ASSUME NEW r \in Appliers, NEW s \in Appliers, r # s,
              responseTimes'[r] = responseTimes'[s]
       PROVE  responseTimes'[r] = 0
  BY <1>0, <1>2, <1>10 DEF ReportInv
<1>11. ASSUME NEW n \in Measures
       PROVE  /\ n > measured => taken'[n] = {}
              /\ \A x, y \in taken'[n] : x = y
              /\ taken'[n] # {} => \A r \in Appliers : responseTimes'[r] # n
  <2>1. n \in Nat
    BY DEF Measures
  <2>2. CASE new(n) = {}
    BY <1>0, <1>4, <1>9, <2>2 DEF ReportInv
  <2>3. CASE new(n) # {}
    BY <1>1, <1>4, <1>8, <2>1, <2>3
  <2> QED
    BY <2>2, <2>3
<1> QED
  BY <1>1, <1>3, <1>6, <1>10, <1>11 DEF ReportInv

\* Push readers and pull readers observe like this.
LEMMA GatherStep ==
  ASSUME IInv, NEW p \in Versions, NEW to, Gather(p, to)
  PROVE  /\ responseTimes' \in [Appliers -> 0..measured] /\ measured' = measured
         /\ taken' \in [Measures -> SUBSET (Versions \X Kinds)]
         /\ ReportInv'
<1> DEFINE by == [r \in Series(p) |-> p]
<1>1. Observe(by, "push")
  BY DEF Gather
<1>2. DOMAIN by \subseteq Appliers /\ \A r \in DOMAIN by : by[r] \in Versions
  BY DEF Series
<1>3. "push" \in Kinds
  BY DEF Kinds
<1> HIDE DEF by
<1> QED
  BY <1>1, <1>2, <1>3, ObserveStep

LEMMA ScrapeObserves ==
  ASSUME IInv, Scrape
  PROVE  /\ responseTimes' \in [Appliers -> 0..measured] /\ measured' = measured
         /\ taken' \in [Measures -> SUBSET (Versions \X Kinds)]
         /\ ReportInv'
<1>1. PICK by \in [{r \in Appliers : Pullers(r) # {}} -> Versions] :
        Observe(by, "pull")
  BY DEF Scrape
<1>2. DOMAIN by \subseteq Appliers /\ \A r \in DOMAIN by : by[r] \in Versions
  OBVIOUS
<1>3. "pull" \in Kinds
  BY DEF Kinds
<1> QED
  BY <1>1, <1>2, <1>3, ObserveStep

-----------------------------------------------------------------------------
\* A provider is made once, after all series there are.
LEMMA ProviderIsNew ==
  ASSUME IInv, NewProvider
  PROVE  /\ registry \in Versions /\ provider < registry /\ provider' = registry
         /\ stop = "no"
         /\ \E a \in {"none", "open"} : push' = [push EXCEPT ![registry] = a]
         /\ \E b \in {"none", "open"} : pull' = [pull EXCEPT ![registry] = b]
         /\ UNCHANGED <<registry, version, phase, series, counts, unsent, fresh,
                        responseTimes, measured, taken, scrape, stop, atSignal>>
<1>1. /\ provider < registry /\ provider' = registry
      /\ UNCHANGED <<registry, version, phase, series, counts, unsent, fresh,
                     responseTimes, measured, taken, scrape, stop, atSignal>>
  BY DEF NewProvider, R!NewProvider, dataVars, timeVars, stopVars
<1>2. registry \in Versions
  BY <1>1, ExportersAssumption DEF IInv, TypeOK, Versions
<1>3. stop = "no"
  BY <1>1 DEF IInv, TypeOK, StopInv
<1>4. /\ \E a \in {"none", "open"} : push' = [push EXCEPT ![registry] = a]
      /\ \E b \in {"none", "open"} : pull' = [pull EXCEPT ![registry] = b]
  BY Zenon DEF NewProvider
<1> QED
  BY <1>1, <1>2, <1>3, <1>4

\* Instruments belong to a provider there is.
LEMMA StartAdds ==
  ASSUME IInv, NEW r \in Appliers, Start(r)
  PROVE  /\ provider \in Versions
         /\ series \subseteq series' /\ series' \subseteq series \cup {<<r, provider>>}
         /\ phase' \in [Appliers -> R!Phases] /\ version[r] > 0
         /\ \A s \in Appliers \ {r} : phase'[s] = phase[s]
         /\ UNCHANGED <<registry, provider, version, push, pull, counts, unsent,
                        fresh, responseTimes, measured, taken, scrape, stop,
                        atSignal>>
<1>1. version[r] > 0 /\ provider >= version[r]
  BY DEF Start, R!Start, IInv, PhaseInv
<1>2. version[r] \in Nat /\ provider \in 0..MaxVersions
  BY ExportersAssumption DEF IInv, TypeOK
<1>3. provider \in Versions
  BY <1>1, <1>2, ExportersAssumption DEF Versions
<1>4. series \subseteq series' /\ series' \subseteq series \cup {<<r, provider>>}
  BY DEF Start
<1>5. phase' \in [Appliers -> R!Phases] /\ \A s \in Appliers \ {r} : phase'[s] = phase[s]
  BY DEF Start, R!Start, R!Phases, IInv, TypeOK
<1>6. UNCHANGED <<registry, provider, version, push, pull, counts, unsent, fresh,
                  responseTimes, measured, taken, scrape, stop, atSignal>>
  BY Zenon DEF Start, R!Start, readerVars, timeVars, stopVars
<1> QED
  BY <1>1, <1>3, <1>4, <1>5, <1>6

\* An increase comes after all there were.
LEMMA AddStep ==
  ASSUME IInv, NEW s \in series, Add(s)
  PROVE  /\ Len(counts) \in Nat /\ Len(counts') = Len(counts) + 1
         /\ Len(counts') <= MaxCounts
         /\ counts' \in Seq(Appliers \X Versions)
         /\ DOMAIN counts = 1..Len(counts)
         /\ DOMAIN counts' = DOMAIN counts \cup {Len(counts) + 1}
         /\ \A n \in DOMAIN counts : counts'[n] = counts[n]
         /\ counts'[Len(counts) + 1] = s
         /\ unsent' = unsent \cup {Len(counts) + 1}
         /\ fresh' = fresh \cup {Len(counts) + 1}
<1>1. s \in Appliers \X Versions
  BY DEF IInv, TypeOK
<1>2. counts \in Seq(Appliers \X Versions)
  BY DEF IInv, TypeOK
<1>3. /\ counts' = Append(counts, s) /\ Len(counts) + 1 <= MaxCounts
      /\ unsent' = unsent \cup {Len(counts) + 1}
      /\ fresh' = fresh \cup {Len(counts) + 1}
  BY DEF Add
<1> QED
  BY <1>1, <1>2, <1>3

\* What changes in which steps.
LEMMA Frames ==
  ASSUME [Next]_vars
  PROVE  \/ NewRegistry \/ NewProvider
         \/ \E r \in Appliers : Receive(r) \/ Start(r) \/ Finish(r)
         \/ \E s \in series : PreMeasurable(s) \/ PostMeasurable(s)
         \/ \E p \in Versions : Gather(p, "exporting")
         \/ \E p \in Versions, sent \in BOOLEAN : ExportEnds(p, sent)
         \/ Scrape
         \/ TakeSignal
         \/ stop = "stopping" /\ Gather(provider, "last")
         \/ ClosePull \/ ShutdownReturns
         \/ UNCHANGED vars
BY Zenon DEF Next, Update, Collect, Shutdown, LastCollect

\* A provider that is shut down is one there is.
LEMMA LastProvider == ASSUME IInv, stop # "no" PROVE provider \in Versions
BY ExportersAssumption DEF IInv, StopInv, TypeOK, Versions

\* Every step keeps the type of every variable.
LEMMA TypeStep == IInv /\ [Next]_vars => TypeOK'
<1> SUFFICES ASSUME IInv, [Next]_vars PROVE TypeOK'
  OBVIOUS
<1> USE DEF rolloutVars, readerVars, dataVars, timeVars, stopVars
<1>0. TypeOK
  BY DEF IInv
<1>1. CASE NewRegistry
  <2>1. registry' = registry + 1 /\ registry < MaxVersions
    BY <1>1 DEF NewRegistry, R!NewRegistry
  <2>2. registry' \in 0..MaxVersions /\ provider \in 0..registry'
    BY <1>0, <2>1, ExportersAssumption DEF TypeOK
  <2> QED
    BY <1>0, <1>1, <2>2 DEF NewRegistry, R!NewRegistry, TypeOK
<1>2. CASE NewProvider
  <2>1. push' \in [Versions -> {"none", "open", "exporting", "last", "closed", "failed"}]
    BY <1>0, <1>2, ProviderIsNew DEF TypeOK
  <2>2. pull' \in [Versions -> {"none", "open", "closed"}]
    BY <1>0, <1>2, ProviderIsNew DEF TypeOK
  <2>3. registry \in Nat /\ provider' \in 0..registry
    BY <1>0, <1>2, ProviderIsNew DEF TypeOK
  <2> QED
    BY <1>0, <1>2, <2>1, <2>2, <2>3, ProviderIsNew DEF TypeOK
<1>3. ASSUME NEW r \in Appliers, Receive(r) PROVE TypeOK'
  <2>1. version' \in [Appliers -> 0..MaxVersions] /\ phase' \in [Appliers -> R!Phases]
    BY <1>0, <1>3, ExportersAssumption DEF Receive, R!Receive, R!Phases, TypeOK
  <2> QED
    BY <1>0, <1>3, <2>1 DEF Receive, R!Receive, TypeOK
<1>4. ASSUME NEW r \in Appliers, Start(r) PROVE TypeOK'
  <2>1. series' \subseteq Appliers \X Versions
    BY <1>0, <1>4, StartAdds DEF TypeOK
  <2> QED
    BY <1>0, <1>4, <2>1, StartAdds DEF TypeOK
<1>5. ASSUME NEW r \in Appliers, Finish(r) PROVE TypeOK'
  <2>1. phase' \in [Appliers -> R!Phases]
    BY <1>0, <1>5 DEF Finish, R!Finish, R!Phases, TypeOK
  <2> QED
    BY <1>0, <1>5, <2>1 DEF Finish, R!Finish, TypeOK
<1>6. ASSUME NEW s \in series, Add(s)
      PROVE  /\ counts' \in Seq(Appliers \X Versions) /\ Len(counts') <= MaxCounts
             /\ unsent' \subseteq DOMAIN counts' /\ fresh' \subseteq unsent'
             /\ atSignal \in 0..Len(counts')
  BY <1>0, <1>6, AddStep DEF TypeOK
<1>7. ASSUME NEW s \in series, PreMeasurable(s) PROVE TypeOK'
  BY <1>0, <1>6, <1>7 DEF PreMeasurable, TypeOK
<1>8. ASSUME NEW s \in series, PostMeasurable(s) PROVE TypeOK'
  <2>1. /\ measured' = measured + 1 /\ measured' \in 0..MaxMeasures
        /\ s[1] \in Appliers
        /\ responseTimes' = [responseTimes EXCEPT ![s[1]] = measured + 1]
    BY <1>0, <1>8, ExportersAssumption DEF PostMeasurable, TypeOK
  <2>2. responseTimes' \in [Appliers -> 0..measured']
    BY <1>0, <2>1, ExportersAssumption DEF TypeOK
  <2> QED
    BY <1>0, <1>6, <1>8, <2>1, <2>2 DEF PostMeasurable, TypeOK
<1>9. ASSUME NEW p \in Versions, NEW to \in {"exporting", "last"}, Gather(p, to)
      PROVE  TypeOK'
  <2>1. push' \in [Versions -> {"none", "open", "exporting", "last", "closed", "failed"}]
    BY <1>0, <1>9 DEF Gather, TypeOK
  <2>2. fresh' \subseteq unsent
    BY <1>0, <1>9 DEF Gather, TypeOK
  <2> QED
    BY <1>0, <1>9, <2>1, <2>2, GatherStep DEF Gather, TypeOK
<1>10. ASSUME NEW p \in Versions, NEW sent \in BOOLEAN, ExportEnds(p, sent)
       PROVE  TypeOK'
  <2>1. push' \in [Versions -> {"none", "open", "exporting", "last", "closed", "failed"}]
    BY <1>0, <1>10 DEF ExportEnds, TypeOK
  <2>2. unsent' \subseteq DOMAIN counts /\ fresh \subseteq unsent'
    BY <1>0, <1>10 DEF ExportEnds, TypeOK
  <2> QED
    BY <1>0, <1>10, <2>1, <2>2 DEF ExportEnds, TypeOK
<1>11. CASE Scrape
  <2>1. scrape' \in {"none", "ok", "error"}
    BY <1>11, Zenon DEF Scrape
  <2>2. UNCHANGED <<rolloutVars, readerVars, dataVars, stopVars>>
    BY <1>11, Zenon DEF Scrape
  <2> QED
    BY <1>0, <1>11, <2>1, <2>2, ScrapeObserves DEF TypeOK
<1>12. CASE TakeSignal
  <2>1. Len(counts) \in Nat
    BY <1>0 DEF TypeOK
  <2> QED
    BY <1>0, <1>12, <2>1 DEF TakeSignal, TypeOK
<1>13. CASE ClosePull
  BY <1>0, <1>13 DEF ClosePull, TypeOK
<1>14. CASE ShutdownReturns
  BY <1>0, <1>14 DEF ShutdownReturns, TypeOK
<1>15. CASE UNCHANGED vars
  BY <1>0, <1>15 DEF vars, TypeOK
<1> QED
  BY <1>1, <1>2, <1>3, <1>4, <1>5, <1>7, <1>8, <1>9, <1>10, <1>11, <1>12, <1>13,
     <1>14, <1>15, LastProvider, Frames, Zenon

\* Series stay with the providers there are.
LEMMA SeriesStep == IInv /\ [Next]_vars => PhaseInv' /\ SeriesInv'
<1> SUFFICES ASSUME IInv, [Next]_vars PROVE PhaseInv' /\ SeriesInv'
  OBVIOUS
<1> USE DEF rolloutVars, dataVars
<1>0. TypeOK /\ PhaseInv /\ SeriesInv
  BY DEF IInv
<1>1. CASE NewRegistry
  BY <1>0, <1>1 DEF NewRegistry, R!NewRegistry, PhaseInv, SeriesInv
<1>2. CASE NewProvider
  <2>1. \A s \in series : s[2] \in Nat
    BY <1>0 DEF TypeOK, Versions
  <2>2. provider \in Nat /\ registry \in Nat
    BY <1>0 DEF TypeOK
  <2> QED
    BY <1>0, <1>2, <2>1, <2>2, ProviderIsNew DEF PhaseInv, SeriesInv
<1>3. ASSUME NEW r \in Appliers, Receive(r) PROVE PhaseInv' /\ SeriesInv'
  BY <1>0, <1>3 DEF Receive, R!Receive, TypeOK, PhaseInv, SeriesInv
<1>4. ASSUME NEW r \in Appliers, Start(r) PROVE PhaseInv' /\ SeriesInv'
  <2>1. PhaseInv'
    BY <1>0, <1>4, StartAdds DEF PhaseInv
  <2>2. provider \in Int
    BY <1>0 DEF TypeOK
  <2>3. SeriesInv'
    BY <1>0, <1>4, <2>2, StartAdds DEF SeriesInv
  <2> QED
    BY <2>1, <2>3
<1>5. ASSUME NEW r \in Appliers, Finish(r) PROVE PhaseInv' /\ SeriesInv'
  BY <1>0, <1>5 DEF Finish, R!Finish, TypeOK, PhaseInv, SeriesInv
<1>6. ASSUME NEW s \in series, PreMeasurable(s) \/ PostMeasurable(s)
      PROVE  PhaseInv' /\ SeriesInv'
  <2>1. Add(s) /\ UNCHANGED <<version, phase, provider, series>>
    BY <1>6 DEF PreMeasurable, PostMeasurable
  <2> QED
    BY <1>0, <2>1, AddStep DEF PhaseInv, SeriesInv
<1>7. CASE UNCHANGED <<version, phase, provider, series, counts>>
  BY <1>0, <1>7, Zenon DEF PhaseInv, SeriesInv
<1>8. ASSUME NEW p, NEW to, Gather(p, to) PROVE PhaseInv' /\ SeriesInv'
  BY <1>7, <1>8, Zenon DEF Gather
<1>9. ASSUME NEW p, NEW sent, ExportEnds(p, sent) PROVE PhaseInv' /\ SeriesInv'
  BY <1>7, <1>9, Zenon DEF ExportEnds
<1>10. CASE Scrape \/ TakeSignal \/ ClosePull \/ ShutdownReturns \/ UNCHANGED vars
  BY <1>7, <1>10, Zenon DEF Scrape, TakeSignal, ClosePull, ShutdownReturns, vars
<1> QED
  BY <1>1, <1>2, <1>3, <1>4, <1>5, <1>6, <1>8, <1>9, <1>10, Frames, Zenon

\* A measurement stays in one place.
LEMMA ReportStep == IInv /\ [Next]_vars => ReportInv'
<1> SUFFICES ASSUME IInv, [Next]_vars PROVE ReportInv'
  OBVIOUS
<1>1. CASE UNCHANGED timeVars
  BY <1>1, Zenon DEF IInv, timeVars, ReportInv
<1>2. ASSUME NEW s \in series, PostMeasurable(s) PROVE ReportInv'
  <2>0. /\ responseTimes \in [Appliers -> 0..measured] /\ measured \in Nat
        /\ ReportInv /\ s[1] \in Appliers
    BY ExportersAssumption DEF IInv, TypeOK
  <2>1. /\ measured' = measured + 1 /\ taken' = taken /\ measured' \in Measures
    BY <1>2, <2>0, ExportersAssumption DEF PostMeasurable, Measures
  <2>2. /\ responseTimes'[s[1]] = measured + 1
        /\ \A r \in Appliers \ {s[1]} : responseTimes'[r] = responseTimes[r]
    BY <1>2, <2>0, <2>1 DEF PostMeasurable
  <2>3. \A r \in Appliers : responseTimes[r] \in Nat /\ responseTimes[r] <= measured
    BY <2>0
  <2>4. taken[measured + 1] = {}
    BY <2>0, <2>1 DEF ReportInv
  <2>5. \A n \in Measures : n \in Nat
    BY DEF Measures
  <2>6. ASSUME NEW r \in Appliers, NEW t \in Appliers, r # t,
               responseTimes'[r] = responseTimes'[t]
        PROVE  responseTimes'[r] = 0
    BY <2>0, <2>2, <2>3, <2>6 DEF ReportInv
  <2>7. ASSUME NEW n \in Measures
        PROVE  /\ n > measured + 1 => taken[n] = {}
               /\ \A x, y \in taken[n] : x = y
               /\ taken[n] # {} => \A r \in Appliers : responseTimes'[r] # n
    BY <2>0, <2>2, <2>4, <2>5 DEF ReportInv
  <2> QED
    BY <2>1, <2>6, <2>7 DEF ReportInv
<1>3. ASSUME NEW p \in Versions, NEW to, Gather(p, to) PROVE ReportInv'
  BY <1>3, GatherStep
<1>4. CASE Scrape
  BY <1>4, ScrapeObserves
<1>5. ASSUME NEW s \in series, PreMeasurable(s) PROVE ReportInv'
  BY <1>1, <1>5 DEF PreMeasurable
<1>6. ASSUME NEW p, NEW sent, ExportEnds(p, sent) PROVE ReportInv'
  BY <1>1, <1>6 DEF ExportEnds
<1>7. CASE TakeSignal \/ ClosePull \/ ShutdownReturns \/ UNCHANGED vars
  BY <1>1, <1>7, Zenon DEF TakeSignal, ClosePull, ShutdownReturns, vars
<1>8. CASE \/ NewRegistry \/ NewProvider
           \/ \E r \in Appliers : Receive(r) \/ Start(r) \/ Finish(r)
  BY <1>1, <1>8, Zenon DEF NewRegistry, NewProvider, Receive, Start, Finish
<1> QED
  BY <1>2, <1>3, <1>4, <1>5, <1>6, <1>7, <1>8, LastProvider, Frames, Zenon

\* The last provider is shut down and stays the last.
LEMMA StopStep == IInv /\ [Next]_vars => StopInv'
<1> SUFFICES ASSUME IInv, [Next]_vars PROVE StopInv'
  OBVIOUS
<1> USE DEF rolloutVars, readerVars, stopVars
<1>0. /\ StopInv /\ registry \in Nat /\ provider \in Nat
      /\ push \in
           [Versions -> {"none", "open", "exporting", "last", "closed", "failed"}]
      /\ pull \in [Versions -> {"none", "open", "closed"}]
      /\ stop \in {"no", "stopping", "done"}
  BY ExportersAssumption DEF IInv, TypeOK
<1>1. CASE UNCHANGED <<registry, provider, push, pull, stop>>
  BY <1>0, <1>1, Zenon DEF StopInv
<1>2. CASE NewRegistry
  BY <1>0, <1>2 DEF NewRegistry, R!NewRegistry, StopInv
<1>3. CASE NewProvider
  <2>1. stop = "no" /\ stop' = "no"
    BY <1>3, ProviderIsNew
  <2>2. \A p \in Versions : push'[p] \notin {"last", "closed", "failed"}
    BY <1>0, <1>3, <2>1, ProviderIsNew DEF StopInv
  <2>3. \A p \in Versions : pull'[p] # "closed"
    BY <1>0, <1>3, <2>1, ProviderIsNew DEF StopInv
  <2> QED
    BY <2>1, <2>2, <2>3 DEF StopInv
<1>4. ASSUME NEW r \in Appliers, Receive(r) \/ Start(r) \/ Finish(r) PROVE StopInv'
  BY <1>1, <1>4 DEF Receive, R!Receive, Start, R!Start, Finish, R!Finish
<1>5. ASSUME NEW s \in series, PreMeasurable(s) \/ PostMeasurable(s) PROVE StopInv'
  BY <1>1, <1>5 DEF PreMeasurable, PostMeasurable
<1>6. ASSUME NEW p \in Versions, Gather(p, "exporting") PROVE StopInv'
  BY <1>0, <1>6 DEF Gather, StopInv
<1>7. ASSUME stop = "stopping", Gather(provider, "last") PROVE StopInv'
  BY <1>0, <1>7 DEF Gather, StopInv
<1>8. ASSUME NEW p \in Versions, NEW sent \in BOOLEAN, ExportEnds(p, sent)
      PROVE  StopInv'
  BY <1>0, <1>8 DEF ExportEnds, StopInv
<1>9. CASE Scrape \/ UNCHANGED vars
  BY <1>1, <1>9, Zenon DEF Scrape, vars
<1>10. CASE TakeSignal
  BY <1>0, <1>10 DEF TakeSignal, MayShutDown, StopInv
<1>11. CASE ClosePull
  BY <1>0, <1>11 DEF ClosePull, StopInv
<1>12. CASE ShutdownReturns
  BY <1>0, <1>12 DEF ShutdownReturns, StopInv
<1> QED
  BY <1>2, <1>3, <1>4, <1>5, <1>6, <1>7, <1>8, <1>9, <1>10, <1>11, <1>12, Frames,
     Zenon

\* Only what is counted after the signal can miss the last collection.
LEMMA FlushStep == IInv /\ [Next]_vars => FlushInv'
<1> SUFFICES ASSUME IInv, [Next]_vars PROVE FlushInv'
  OBVIOUS
<1> USE DEF dataVars, readerVars, stopVars
<1>0. /\ FlushInv /\ StopInv
      /\ push \in
           [Versions -> {"none", "open", "exporting", "last", "closed", "failed"}]
      /\ \A n \in DOMAIN counts : counts[n][2] \in Versions
      /\ atSignal \in 0..Len(counts) /\ Len(counts) \in Nat
      /\ unsent \subseteq DOMAIN counts
  BY DEF IInv, TypeOK
<1>1. CASE UNCHANGED <<push, counts, unsent, fresh, atSignal>>
  BY <1>0, <1>1, Zenon DEF FlushInv
<1>2. CASE NewProvider
  <2>1. /\ UNCHANGED <<counts, unsent, fresh, atSignal>>
        /\ \A p \in Versions : push'[p] \in {push[p], "none", "open"}
    BY <1>0, <1>2, ProviderIsNew
  <2> QED
    BY <1>0, <2>1 DEF FlushInv
<1>3. ASSUME NEW s \in series, PreMeasurable(s) \/ PostMeasurable(s) PROVE FlushInv'
  <2>1. Add(s) /\ UNCHANGED <<push, atSignal>>
    BY <1>3 DEF PreMeasurable, PostMeasurable
  <2>2. Len(counts) + 1 > atSignal
    BY <1>0
  <2> QED
    BY <1>0, <2>1, <2>2, AddStep DEF FlushInv
<1>4. ASSUME NEW p \in Versions, NEW to \in {"exporting", "last"}, Gather(p, to)
      PROVE  FlushInv'
  <2>1. /\ push[p] = "open" /\ push'[p] = to
        /\ \A o \in Versions \ {p} : push'[o] = push[o]
        /\ UNCHANGED <<counts, unsent, atSignal>>
        /\ fresh' = fresh \ On(p)
    BY <1>0, <1>4 DEF Gather
  <2> QED
    BY <1>0, <2>1 DEF FlushInv, On
<1>5. ASSUME NEW p \in Versions, NEW sent \in BOOLEAN, ExportEnds(p, sent)
      PROVE  FlushInv'
  <2>1. /\ push'[p] = "closed" => push[p] = "last" /\ sent
        /\ push'[p] # "last"
        /\ \A o \in Versions \ {p} : push'[o] = push[o]
        /\ UNCHANGED <<counts, fresh, atSignal>>
        /\ unsent' = IF sent THEN unsent \ (On(p) \ fresh) ELSE unsent
    BY <1>0, <1>5 DEF ExportEnds
  <2> QED
    BY <1>0, <2>1 DEF FlushInv, On
<1>6. CASE TakeSignal
  <2>1. stop = "no" /\ UNCHANGED <<push, counts, unsent, fresh>>
    BY <1>6 DEF TakeSignal, MayShutDown
  <2>2. \A p \in Versions : push[p] \notin {"last", "closed"}
    BY <1>0, <2>1 DEF StopInv
  <2> QED
    BY <2>1, <2>2 DEF FlushInv
<1>7. CASE NewRegistry \/ Scrape \/ ClosePull \/ ShutdownReturns \/ UNCHANGED vars
  BY <1>1, <1>7, Zenon
     DEF NewRegistry, Scrape, ClosePull, ShutdownReturns, vars
<1>8. ASSUME NEW r \in Appliers, Receive(r) \/ Start(r) \/ Finish(r) PROVE FlushInv'
  BY <1>1, <1>8, Zenon DEF Receive, Start, Finish
<1>9. CASE stop = "stopping" /\ Gather(provider, "last")
  BY <1>4, <1>9, LastProvider
<1> QED
  BY <1>2, <1>3, <1>4, <1>5, <1>6, <1>7, <1>8, <1>9, Frames, Zenon

-----------------------------------------------------------------------------
\* Two prometheus readers have data of one metric.
Duplicate ==
  \E r \in Appliers : \E p, q \in Versions :
    /\ p # q /\ pull[p] = "open" /\ pull[q] = "open"
    /\ <<r, p>> \in Recorded /\ <<r, q>> \in Recorded

\* What has been counted stays recorded.
LEMMA RecordedStays == ASSUME IInv, [Next]_vars PROVE Recorded \subseteq Recorded'
<1>1. CASE counts' = counts
  BY <1>1 DEF Recorded
<1>2. ASSUME NEW s \in series, PreMeasurable(s) \/ PostMeasurable(s)
      PROVE  Recorded \subseteq Recorded'
  <2>1. Add(s)
    BY <1>2 DEF PreMeasurable, PostMeasurable
  <2> QED
    BY <2>1, AddStep DEF Recorded
<1>3. CASE \/ NewRegistry \/ NewProvider
           \/ \E r \in Appliers : Receive(r) \/ Start(r) \/ Finish(r)
  BY <1>1, <1>3, Zenon DEF NewRegistry, NewProvider, Receive, Start, Finish, dataVars
<1>4. ASSUME NEW p, NEW to, Gather(p, to) \/ ExportEnds(p, to)
      PROVE  Recorded \subseteq Recorded'
  BY <1>1, <1>4, Zenon DEF Gather, ExportEnds
<1>5. CASE Scrape \/ TakeSignal \/ ClosePull \/ ShutdownReturns \/ UNCHANGED vars
  BY <1>1, <1>5, Zenon
     DEF Scrape, TakeSignal, ClosePull, ShutdownReturns, vars, dataVars
<1> QED
  BY <1>2, <1>3, <1>4, <1>5, Frames, Zenon

\* The pull readers of a provider with series stay until the shutdown.
LEMMA PullStays ==
  ASSUME IInv, [Next]_vars, stop = "no",
         NEW p \in Versions, p <= provider, pull[p] = "open"
  PROVE  pull'[p] = "open"
<1>1. CASE pull' = pull
  BY <1>1
<1>2. CASE NewProvider
  <2>1. p # registry
    BY <1>2, ProviderIsNew DEF IInv, TypeOK, Versions
  <2> QED
    BY <1>2, <2>1, ProviderIsNew DEF IInv, TypeOK
<1>3. CASE NewRegistry \/ \E r \in Appliers : Receive(r) \/ Start(r) \/ Finish(r)
  BY <1>1, <1>3, Zenon DEF NewRegistry, Receive, Start, Finish, readerVars
<1>4. ASSUME NEW s \in series, PreMeasurable(s) \/ PostMeasurable(s) PROVE pull' = pull
  BY <1>4, Zenon DEF PreMeasurable, PostMeasurable, readerVars
<1>5. ASSUME NEW o, NEW to, Gather(o, to) \/ ExportEnds(o, to) PROVE pull' = pull
  BY <1>5, Zenon DEF Gather, ExportEnds
<1>6. CASE Scrape \/ TakeSignal \/ UNCHANGED vars
  BY <1>1, <1>6, Zenon DEF Scrape, TakeSignal, vars, readerVars
<1>7. ~ClosePull /\ ~ShutdownReturns
  BY DEF ClosePull, ShutdownReturns
<1> QED
  BY <1>1, <1>2, <1>3, <1>4, <1>5, <1>6, <1>7, Frames, Zenon

\* What has been counted belongs to a series, and to a provider there is.
LEMMA RecordedSeries ==
  ASSUME IInv, NEW r, NEW p, <<r, p>> \in Recorded
  PROVE  <<r, p>> \in series /\ p <= provider
<1>1. <<r, p>> \in series
  BY DEF IInv, SeriesInv, Recorded
<1> QED
  BY <1>1 DEF IInv, SeriesInv

LEMMA DuplicateStays ==
  ASSUME IInv, [Next]_vars, stop = "no", Duplicate PROVE Duplicate'
<1>1. PICK r \in Appliers, p \in Versions, q \in Versions :
        /\ p # q /\ pull[p] = "open" /\ pull[q] = "open"
        /\ <<r, p>> \in Recorded /\ <<r, q>> \in Recorded
  BY DEF Duplicate
<1>2. pull'[p] = "open" /\ pull'[q] = "open"
  BY <1>1, RecordedSeries, PullStays
<1>3. <<r, p>> \in Recorded' /\ <<r, q>> \in Recorded'
  BY <1>1, RecordedStays
<1> QED
  BY <1>1, <1>2, <1>3, Zenon DEF Duplicate

LEMMA ScrapeFails == ASSUME IInv, Scrape PROVE scrape' = "error" <=> Duplicate
<1> DEFINE Clash(r, p, q) == p # q /\ {<<r, p>>, <<r, q>>} \subseteq Recorded
<1>1. scrape' = IF \E r \in Appliers : \E p, q \in Pullers(r) : Clash(r, p, q)
                  THEN "error" ELSE "ok"
  BY DEF Scrape
<1>2. ASSUME scrape' = "error" PROVE Duplicate
  <2>1. PICK r \in Appliers : \E p, q \in Pullers(r) : Clash(r, p, q)
    BY <1>1, <1>2
  <2> QED
    BY <2>1 DEF Pullers, Duplicate
<1>3. ASSUME Duplicate PROVE scrape' = "error"
  <2>1. PICK r \in Appliers, p \in Versions, q \in Versions :
          /\ p # q /\ pull[p] = "open" /\ pull[q] = "open"
          /\ <<r, p>> \in Recorded /\ <<r, q>> \in Recorded
    BY <1>3 DEF Duplicate
  <2>2. <<r, p>> \in series /\ <<r, q>> \in series
    BY <2>1, RecordedSeries
  <2>3. p \in Pullers(r) /\ q \in Pullers(r)
    BY <2>1, <2>2 DEF Pullers, Series
  <2> QED
    BY <1>1, <2>1, <2>3
<1> QED
  BY <1>2, <1>3

-----------------------------------------------------------------------------
\* However reloads, probes, readers, scrapes and the shutdown interleave, a
\* measurement is in one place, and what the last collection of the last
\* provider missed was counted after the signal.
THEOREM Invariance == Spec => []IInv
<1>1. ASSUME Init PROVE IInv
  <2> USE <1>1, ExportersAssumption DEF Init, R!Init
  <2>1. TypeOK
    BY DEF TypeOK, R!Phases, Versions, Measures, Kinds
  <2>2. PhaseInv /\ SeriesInv /\ StopInv /\ FlushInv
    BY DEF PhaseInv, SeriesInv, StopInv, FlushInv
  <2>3. ReportInv
    BY DEF ReportInv
  <2> QED
    BY <2>1, <2>2, <2>3 DEF IInv
<1>2. IInv /\ [Next]_vars => IInv'
  BY TypeStep, SeriesStep, ReportStep, StopStep, FlushStep DEF IInv
<1> QED
  BY <1>1, <1>2, PTL DEF Spec

\* The type of every variable.
THEOREM TypeCorrect == Spec => []TypeOK
<1>1. IInv => TypeOK
  BY DEF IInv
<1> QED
  BY Invariance, <1>1, PTL

\* The callback of NewResponseTimeMetric reports a response time once, to one
\* of the readers of all the providers there have been.
THEOREM TimesReportedOnce == Spec => []ReportedOnce
<1>1. IInv => ReportedOnce
  <2> SUFFICES ASSUME IInv, NEW n \in Measures PROVE Cardinality(taken[n]) <= 1
    BY DEF ReportedOnce, IInv, ReportInv
  <2>1. CASE taken[n] = {}
    BY <2>1, FS_EmptySet
  <2>2. CASE taken[n] # {}
    <3>1. PICK x : x \in taken[n]
      BY <2>2
    <3>2. taken[n] = {x}
      BY <3>1 DEF IInv, ReportInv
    <3>3. Cardinality({x}) = 1
      BY FS_Singleton, Zenon
    <3> QED
      BY <3>2, <3>3
  <2> QED
    BY <2>1, <2>2
<1> QED
  BY Invariance, <1>1, PTL

\* Of what was counted on the last provider, the shutdown in GoTelemetry leaves
\* behind only what came after the signal, unless its last export failed.
THEOREM LastProviderFlushed == Spec => []ShutdownSendsAll
<1>1. IInv => ShutdownSendsAll
  <2> SUFFICES ASSUME IInv, stop = "done", push[provider] \notin {"none", "failed"},
                      NEW n \in unsent \cap On(provider)
               PROVE  n > atSignal
    BY DEF ShutdownSendsAll
  <2>1. provider \in Versions /\ push[provider] = "closed"
    BY LastProvider DEF IInv, StopInv
  <2> QED
    BY <2>1 DEF IInv, FlushInv, On
<1> QED
  BY Invariance, <1>1, PTL

\* A scrape of openTelemetryMetricsPath fails if and only if two prometheus
\* readers that reloads left in the default registerer have data of one metric,
\* and until the shutdown no reload, probe or reader changes that.
THEOREM ScrapesStayBroken ==
  Spec => [][/\ Scrape => (scrape' = "error" <=> Duplicate)
             /\ Duplicate /\ stop = "no" => Duplicate']_vars
<1>1. IInv /\ [Next]_vars =>
        [/\ Scrape => (scrape' = "error" <=> Duplicate)
         /\ Duplicate /\ stop = "no" => Duplicate']_vars
  BY ScrapeFails, DuplicateStays
<1> QED
  BY Invariance, <1>1, PTL DEF Spec
=============================================================================
