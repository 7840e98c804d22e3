---------------------------- MODULE ProbesProofs ----------------------------
(***************************************************************************)
(* Proofs about egress in time, for any configurations and any number of   *)
(* versions and runs.                                                      *)
(***************************************************************************)
EXTENDS Probes, FiniteSetTheorems, TLAPS

RunType ==
  [of : Versions,
   at : {"new", "begun", "waiting", "connected", "held", "answered", "done"},
   left : Int, trace : Nat, tried : BOOLEAN, unbounded : BOOLEAN,
   held : BOOLEAN, late : BOOLEAN, ok : BOOLEAN]

TypeInv ==
  /\ egress \in {"select", "stage", "gone"}
  /\ confs \in Seq(Confs) /\ Len(confs) <= MaxVersions
  /\ applied \in Nat
  /\ applied = IF egress = "stage" THEN Len(confs) - 1 ELSE Len(confs)
  /\ age \in 0..MaxAge /\ rounds \in Nat /\ rounds <= Len(runs)
  /\ runs \in Seq(RunType) /\ Len(runs) <= MaxRuns
  /\ \A i \in DOMAIN runs : runs[i].of <= applied /\ runs[i].left >= -1
  /\ spareEnv \in [Versions -> 0..Len(runs)]
  /\ attempts \in [Versions -> Nat] /\ successes \in [Versions -> Nat]
  /\ crashed \in BOOLEAN

\* What the state of the run r says of its outcome, r being in the place i and
\* c its configuration.
Fine(i, r, c) ==
  /\ r.at \in {"new", "begun"} => ~r.tried
  /\ r.at \in {"new", "begun", "waiting", "connected"} => ~r.ok
  /\ r.at = "held" => r.held
  /\ r.trace \notin {0, i} => Spare(c.env)
  /\ r.ok /\ r.late => r.held \/ (r.unbounded /\ ~c.steps)

RunInv == \A i \in DOMAIN runs : Fine(i, runs[i], Conf(runs[i].of))

\* The ticker is in step with the age of the version: a round or a tick in
\* the channel for every period that is over, and perhaps one tick of old.
Pace(period, in, waiting, old, n) ==
  IF period <= 0
    THEN in = 0 /\ n + waiting <= 1
    ELSE in = period - (old % period) /\ n + waiting <= 1 + (old \div period)

Delayed(delay, remaining, old) ==
  IF remaining >= 0 THEN old + remaining >= delay ELSE old >= delay

Waiting == IF ticked THEN 1 ELSE 0

TimeInv ==
  /\ tickIn \in Nat /\ ticked \in BOOLEAN /\ delayLeft \in Int
  /\ applied = 0 => tickIn = 0 /\ ~ticked
  /\ applied > 0 =>
       /\ tickIn > 0 => Conf(applied).period > 0
       /\ age < MaxAge => Pace(Conf(applied).period, tickIn, Waiting, age, rounds)
       /\ Delayed(Conf(applied).delay, delayLeft, age)

IInv == TypeInv /\ RunInv /\ TimeInv /\ CountedWhereStarted

-----------------------------------------------------------------------------
\* How the counters go with a run r that takes the place of run i.
Counts(i, r) ==
  \/ /\ UNCHANGED <<attempts, successes>>
     /\ r.tried <=> runs[i].tried
     /\ ~(r.at = "done" /\ r.ok)
  \/ /\ attempts' = [attempts EXCEPT ![runs[i].of] = @ + 1]
     /\ UNCHANGED successes
     /\ ~runs[i].tried /\ r.tried /\ r.at # "done"
  \/ /\ UNCHANGED attempts
     /\ r.tried <=> runs[i].tried
     /\ r.at = "done"
     /\ successes' = IF r.ok THEN [successes EXCEPT ![runs[i].of] = @ + 1]
                     ELSE successes

Changed(i, r) ==
  /\ runs' = [runs EXCEPT ![i] = r]
  /\ r \in RunType /\ r.of = runs[i].of /\ runs[i].at # "done"
  /\ r.left >= -1 /\ Fine(i, r, Conf(r.of)) /\ Counts(i, r)

\* A field at a time.
LEMMA Fields ==
  ASSUME NEW q \in RunType
  PROVE  /\ \A x \in {"new", "begun", "waiting", "connected", "held", "answered",
                      "done"} : [q EXCEPT !.at = x] \in RunType
         /\ \A x \in Int : [q EXCEPT !.left = x] \in RunType
         /\ \A x \in Nat : [q EXCEPT !.trace = x] \in RunType
BY DEF RunType

LEMMA Flags ==
  ASSUME NEW q \in RunType, NEW b \in BOOLEAN
  PROVE  /\ [q EXCEPT !.tried = b] \in RunType
         /\ [q EXCEPT !.unbounded = b] \in RunType
         /\ [q EXCEPT !.held = b] \in RunType
         /\ [q EXCEPT !.late = b] \in RunType
         /\ [q EXCEPT !.ok = b] \in RunType
BY DEF RunType

\* A run belongs to a version that was received.
LEMMA RunOf ==
  ASSUME IInv, NEW i \in DOMAIN runs
  PROVE  /\ runs[i] \in RunType /\ i \in Nat
         /\ runs[i].of \in Versions /\ runs[i].of \in 1..Len(confs)
<1>1. runs \in Seq(RunType)
  BY DEF IInv, TypeInv
<1>2. runs[i] \in RunType /\ i \in Nat
  BY <1>1
<1>3. runs[i].of \in Versions /\ runs[i].of <= applied
  BY <1>2, Zenon DEF RunType, IInv, TypeInv
<1>4. applied \in Nat /\ Len(confs) \in Nat /\ applied <= Len(confs)
  BY DEF IInv, TypeInv
<1> QED
  BY <1>2, <1>3, <1>4 DEF Versions

\* An answer, however it comes about.
LEMMA AnsweredRun ==
  ASSUME IInv, NEW i \in DOMAIN runs, NEW ok \in BOOLEAN, Answered(i, ok),
         runs[i].at \in {"waiting", "connected", "held"},
         UNCHANGED <<attempts, successes>>,
         ok => \/ InTime(i)
               \/ runs[i].held
               \/ runs[i].unbounded /\ ~Conf(runs[i].of).steps
  PROVE  \E r : Changed(i, r)
<1> DEFINE late == ~InTime(i)
           r == [runs[i] EXCEPT !.at = "answered", !.ok = ok, !.late = late]
<1>1. runs[i] \in RunType
  BY RunOf
<1>2. late \in BOOLEAN
  BY DEF InTime
<1>3. r \in RunType
  <2>1. [runs[i] EXCEPT !.at = "answered"] \in RunType
    BY <1>1, Fields, Zenon
  <2>2. [[runs[i] EXCEPT !.at = "answered"] EXCEPT !.ok = ok] \in RunType
    BY <2>1, Flags, Zenon
  <2>3. [[[runs[i] EXCEPT !.at = "answered"] EXCEPT !.ok = ok]
            EXCEPT !.late = late] \in RunType
    BY <1>2, <2>2, Flags, Zenon
  <2> QED
    BY <2>3, Zenon
<1>4. /\ r.at = "answered" /\ r.ok = ok /\ r.late = late
      /\ r.of = runs[i].of /\ r.left = runs[i].left /\ r.trace = runs[i].trace
      /\ r.tried = runs[i].tried /\ r.unbounded = runs[i].unbounded
      /\ r.held = runs[i].held
  BY <1>1 DEF RunType
<1>5. runs' = [runs EXCEPT ![i] = r]
  BY DEF Answered, Become
<1> HIDE DEF r
<1>6. r.left >= -1 /\ Fine(i, r, Conf(r.of))
  BY <1>4, Zenon DEF Fine, IInv, TypeInv, RunInv
<1>7. Counts(i, r)
  BY <1>4 DEF Counts
<1> QED
  BY <1>3, <1>4, <1>5, <1>6, <1>7, Zenon DEF Changed

\* The deadline is set.
LEMMA BeginRun ==
  ASSUME IInv, NEW i \in DOMAIN runs, Begin(i)
  PROVE  \E r : Changed(i, r)
<1> DEFINE timeout == Conf(runs[i].of).timeout
           begun(at) == [runs[i] EXCEPT !.at = at, !.left = timeout]
<1>1. runs[i] \in RunType /\ runs[i].of \in 1..Len(confs)
  BY RunOf
<1>2. timeout \in Int /\ timeout >= -1
  BY <1>1, ProbesAssumption DEF IInv, TypeInv, Conf
<1>3. PICK at \in {"begun", "done"} : runs' = [runs EXCEPT ![i] = begun(at)]
  <2>1. [begun("begun") EXCEPT !.at = "done"] = begun("done")
    BY <1>1, Zenon DEF RunType
  <2> QED
    BY <2>1 DEF Begin, Become
<1> DEFINE r == begun(at)
<1>4. r \in RunType
  <2>1. [runs[i] EXCEPT !.at = at] \in RunType
    BY <1>1, Fields, Zenon
  <2>2. [[runs[i] EXCEPT !.at = at] EXCEPT !.left = timeout] \in RunType
    BY <1>2, <2>1, Fields, Zenon
  <2> QED
    BY <2>2, Zenon
<1>5. /\ r.at = at /\ r.left = timeout
      /\ r.of = runs[i].of /\ r.trace = runs[i].trace
      /\ r.tried = runs[i].tried /\ r.unbounded = runs[i].unbounded
      /\ r.held = runs[i].held /\ r.late = runs[i].late /\ r.ok = runs[i].ok
  BY <1>1 DEF RunType
<1>6. runs' = [runs EXCEPT ![i] = r]
  BY <1>3
<1>7. runs[i].at = "new" /\ UNCHANGED <<attempts, successes>>
  BY DEF Begin
<1> HIDE DEF r
<1>8. r.left >= -1 /\ Fine(i, r, Conf(r.of))
  BY <1>2, <1>5, <1>7 DEF Fine, IInv, RunInv
<1>9. Counts(i, r)
  BY <1>5, <1>7 DEF Counts, IInv, RunInv, Fine
<1> QED
  BY <1>4, <1>5, <1>6, <1>7, <1>8, <1>9, Zenon DEF Changed

\* The attempt is counted, and the command gets a trace ID.
LEMMA AttemptRun ==
  ASSUME IInv, NEW i \in DOMAIN runs, Attempt(i)
  PROVE  \E r : Changed(i, r)
<1> DEFINE v == runs[i].of
           trace == IF Kind(i) # "exec" THEN 0
                    ELSE IF Spare(Conf(v).env) THEN spareEnv[v] ELSE i
           tried(b) == [runs[i] EXCEPT !.at = "waiting", !.tried = TRUE,
                                       !.trace = trace, !.unbounded = b]
<1>1. runs[i] \in RunType /\ v \in Versions /\ i \in Nat
  BY RunOf
<1>2. trace \in Nat /\ (trace \notin {0, i} => Spare(Conf(v).env))
  BY <1>1 DEF IInv, TypeInv
<1> HIDE DEF trace
<1>3. PICK b \in BOOLEAN : runs' = [runs EXCEPT ![i] = tried(b)]
  <2> DEFINE t == [runs[i] EXCEPT !.at = "waiting", !.tried = TRUE, !.trace = trace]
  <2>1. [t EXCEPT !.unbounded = TRUE] = tried(TRUE)
    BY Zenon
  <2>2. t = tried(runs[i].unbounded)
    BY <1>1, Zenon DEF RunType
  <2>3. runs[i].unbounded \in BOOLEAN
    BY <1>1 DEF RunType
  <2>4. \/ runs' = [runs EXCEPT ![i] = t]
        \/ runs' = [runs EXCEPT ![i] = [t EXCEPT !.unbounded = TRUE]]
    BY DEF Attempt, Become, trace
  <2> QED
    BY <2>1, <2>2, <2>3, <2>4, Zenon
<1> DEFINE r == tried(b)
<1>4. r \in RunType
  <2>1. [runs[i] EXCEPT !.at = "waiting"] \in RunType
    BY <1>1, Fields, Zenon
  <2>2. [[runs[i] EXCEPT !.at = "waiting"] EXCEPT !.tried = TRUE] \in RunType
    BY <2>1, Flags, Zenon
  <2>3. [[[runs[i] EXCEPT !.at = "waiting"] EXCEPT !.tried = TRUE]
            EXCEPT !.trace = trace] \in RunType
    BY <1>2, <2>2, Fields, Zenon
  <2>4. [[[[runs[i] EXCEPT !.at = "waiting"] EXCEPT !.tried = TRUE]
            EXCEPT !.trace = trace] EXCEPT !.unbounded = b] \in RunType
    BY <2>3, Flags, Zenon
  <2> QED
    BY <2>4, Zenon
<1>5. /\ r.at = "waiting" /\ r.left = runs[i].left
      /\ r.of = v /\ r.trace = trace /\ r.tried = TRUE
      /\ r.held = runs[i].held /\ r.late = runs[i].late /\ r.ok = runs[i].ok
  BY <1>1 DEF RunType
<1>6. /\ runs[i].at = "begun" /\ UNCHANGED successes
      /\ attempts' = [attempts EXCEPT ![v] = @ + 1]
  BY DEF Attempt
<1>7. runs' = [runs EXCEPT ![i] = r]
  BY <1>3
<1> HIDE DEF r
<1>8. r.left >= -1 /\ Fine(i, r, Conf(r.of))
  BY <1>2, <1>5, <1>6 DEF Fine, IInv, TypeInv, RunInv
<1>9. Counts(i, r)
  BY <1>5, <1>6 DEF Counts, IInv, RunInv, Fine
<1> QED
  BY <1>4, <1>5, <1>6, <1>7, <1>8, <1>9, Zenon DEF Changed

\* The command is over and its output is not.
LEMMA HeldRun ==
  ASSUME IInv, NEW i \in DOMAIN runs, NEW ok \in BOOLEAN, Hold(i, ok)
  PROVE  \E r : Changed(i, r)
<1> DEFINE r == [runs[i] EXCEPT !.at = "held", !.held = TRUE, !.ok = ok]
<1>1. runs[i] \in RunType
  BY RunOf
<1>2. r \in RunType
  <2>1. [runs[i] EXCEPT !.at = "held"] \in RunType
    BY <1>1, Fields, Zenon
  <2>2. [[runs[i] EXCEPT !.at = "held"] EXCEPT !.held = TRUE] \in RunType
    BY <2>1, Flags, Zenon
  <2>3. [[[runs[i] EXCEPT !.at = "held"] EXCEPT !.held = TRUE]
            EXCEPT !.ok = ok] \in RunType
    BY <2>2, Flags, Zenon
  <2> QED
    BY <2>3, Zenon
<1>3. /\ r.at = "held" /\ r.held = TRUE /\ r.ok = ok
      /\ r.of = runs[i].of /\ r.left = runs[i].left /\ r.trace = runs[i].trace
      /\ r.tried = runs[i].tried
  BY <1>1 DEF RunType
<1>4. /\ runs' = [runs EXCEPT ![i] = r] /\ runs[i].at = "waiting"
      /\ UNCHANGED <<attempts, successes>>
  BY DEF Hold, Become, countVars
<1> HIDE DEF r
<1>5. r.left >= -1 /\ Fine(i, r, Conf(r.of))
  BY <1>3 DEF Fine, IInv, TypeInv, RunInv
<1>6. Counts(i, r)
  BY <1>3, <1>4 DEF Counts
<1> QED
  BY <1>2, <1>3, <1>4, <1>5, <1>6, Zenon DEF Changed

\* The outcome is counted.
LEMMA PostRun ==
  ASSUME IInv, NEW i \in DOMAIN runs, Post(i)
  PROVE  \E r : Changed(i, r)
<1> DEFINE r == [runs[i] EXCEPT !.at = "done"]
<1>1. runs[i] \in RunType
  BY RunOf
<1>2. r \in RunType
  BY <1>1, Fields, Zenon
<1>3. /\ r.at = "done" /\ r.held = runs[i].held /\ r.ok = runs[i].ok
      /\ r.of = runs[i].of /\ r.left = runs[i].left /\ r.trace = runs[i].trace
      /\ r.tried = runs[i].tried /\ r.late = runs[i].late
      /\ r.unbounded = runs[i].unbounded
  BY <1>1 DEF RunType
<1>4. /\ runs' = [runs EXCEPT ![i] = r] /\ runs[i].at = "answered"
      /\ UNCHANGED attempts
      /\ successes' = IF r.ok THEN [successes EXCEPT ![runs[i].of] = @ + 1]
                      ELSE successes
  BY <1>3 DEF Post, Become
<1> HIDE DEF r
<1>5. r.left >= -1 /\ Fine(i, r, Conf(r.of))
  BY <1>3 DEF Fine, IInv, TypeInv, RunInv
<1>6. Counts(i, r)
  BY <1>3, <1>4 DEF Counts
<1> QED
  BY <1>2, <1>3, <1>4, <1>5, <1>6, Zenon DEF Changed

\* Every step of a goroutine leaves its run fine, and all else but the counters
\* and the array behind action.env alone.
LEMMA RunStep ==
  ASSUME IInv, NEW i \in DOMAIN runs, Run(i)
  PROVE  /\ \E r : Changed(i, r)
         /\ UNCHANGED otherVars
         /\ spareEnv' \in [Versions -> 0..Len(runs)]
<1>1. CASE Connect(i)
  <2>1. CASE Answered(i, TRUE) /\ ~Conf(runs[i].of).steps
    BY <1>1, <2>1, AnsweredRun, Zenon DEF Connect, countVars, IInv, TypeInv
  <2>2. CASE Become(i, [runs[i] EXCEPT !.at = "connected"])
    <3> DEFINE r == [runs[i] EXCEPT !.at = "connected"]
    <3>1. runs[i] \in RunType
      BY RunOf
    <3>2. r \in RunType
      BY <3>1, Fields, Zenon
    <3>3. /\ r.at = "connected" /\ r.ok = runs[i].ok /\ r.tried = runs[i].tried
          /\ r.of = runs[i].of /\ r.left = runs[i].left
          /\ r.trace = runs[i].trace
      BY <3>1 DEF RunType
    <3>4. /\ runs' = [runs EXCEPT ![i] = r] /\ runs[i].at = "waiting"
          /\ UNCHANGED <<attempts, successes>>
      BY <1>1, <2>2 DEF Connect, Become, countVars
    <3> HIDE DEF r
    <3>5. r.left >= -1 /\ Fine(i, r, Conf(r.of))
      BY <3>3, <3>4 DEF Fine, IInv, TypeInv, RunInv
    <3>6. Counts(i, r)
      BY <3>3, <3>4 DEF Counts
    <3>7. \E q : Changed(i, q)
      BY <3>2, <3>3, <3>4, <3>5, <3>6, Zenon DEF Changed
    <3> QED
      BY <1>1, <3>7 DEF Connect, countVars, IInv, TypeInv
  <2> QED
    BY <1>1, <2>1, <2>2, Zenon DEF Connect, countVars, IInv, TypeInv
<1>2. CASE Succeed(i)
  BY <1>2, AnsweredRun, Zenon DEF Succeed, countVars, IInv, TypeInv
<1>3. CASE Fail(i)
  BY <1>3, AnsweredRun, ZenonT(60) DEF Fail, countVars, IInv, TypeInv
<1>4. CASE Release(i)
  <2>1. runs[i].ok \in BOOLEAN
    BY RunOf DEF RunType
  <2>2. runs[i].held
    BY <1>4 DEF Release, IInv, RunInv, Fine
  <2> QED
    BY <1>4, <2>1, <2>2, AnsweredRun DEF Release, countVars, IInv, TypeInv
<1>5. CASE \E ok \in BOOLEAN : Hold(i, ok)
  BY <1>5, HeldRun, Zenon DEF Hold, countVars, IInv, TypeInv
<1>6. CASE Begin(i)
  <2>1. i \in 0..Len(runs) /\ spareEnv \in [Versions -> 0..Len(runs)]
    BY RunOf, SMTT(30) DEF IInv, TypeInv
  <2>2. spareEnv' = spareEnv \/ spareEnv' = [spareEnv EXCEPT ![runs[i].of] = i]
    BY <1>6 DEF Begin, newEnvVars
  <2>3. spareEnv' \in [Versions -> 0..Len(runs)]
    BY <2>1, <2>2
  <2> QED
    BY <1>6, <2>3, BeginRun, Zenon DEF Begin
<1>7. CASE Attempt(i)
  BY <1>7, AttemptRun, Zenon DEF Attempt, IInv, TypeInv
<1>8. CASE Post(i)
  BY <1>8, PostRun, Zenon DEF Post, IInv, TypeInv
<1> QED
  BY <1>1, <1>2, <1>3, <1>4, <1>5, <1>6, <1>7, <1>8 DEF Run

-----------------------------------------------------------------------------
\* A round belongs to a version that was applied.
LEMMA TickRun ==
  ASSUME IInv, Tick, runs' # runs
  PROVE  /\ runs' = Append(runs, NewRun) /\ rounds' = rounds + 1
         /\ delayLeft <= 0 /\ Len(runs) < MaxRuns
         /\ applied \in Versions /\ NewRun \in RunType
<1>1. /\ runs' = Append(runs, NewRun) /\ rounds' = rounds + 1 /\ ticked
      /\ delayLeft <= 0 /\ Len(runs) < MaxRuns /\ egress = "select"
  BY DEF Tick, performProbes
<1>2. applied \in Versions
  <2>1. applied # 0
    BY <1>1 DEF IInv, TimeInv
  <2> QED
    BY <1>1, <2>1, ProbesAssumption DEF IInv, TypeInv, Versions
<1>3. FALSE \in BOOLEAN
  OBVIOUS
<1>4. NewRun \in RunType
  BY <1>2, <1>3 DEF NewRun, RunType
<1> QED
  BY <1>1, <1>2, <1>4

\* Time runs out, and nothing else happens to a run.
LEMMA ElapseRuns ==
  ASSUME IInv, Elapse
  PROVE  /\ runs' \in Seq(RunType) /\ Len(runs') = Len(runs)
         /\ DOMAIN runs' = DOMAIN runs
         /\ \A i \in DOMAIN runs :
              /\ runs'[i].left >= -1 /\ runs'[i].of = runs[i].of
              /\ runs'[i].at = runs[i].at /\ runs'[i].trace = runs[i].trace
              /\ runs'[i].tried = runs[i].tried /\ runs'[i].ok = runs[i].ok
              /\ runs'[i].held = runs[i].held /\ runs'[i].late = runs[i].late
              /\ runs'[i].unbounded = runs[i].unbounded
<1> DEFINE left(i) == IF runs[i].at \in {"new", "answered", "done"}
                        THEN runs[i].left ELSE Down(runs[i].left)
           new(i) == [runs[i] EXCEPT !.left = left(i)]
<1>1. runs' = [i \in DOMAIN runs |-> new(i)]
  BY DEF Elapse
<1>2. \A i \in DOMAIN runs : left(i) \in Int /\ left(i) >= -1
  <2> SUFFICES ASSUME NEW i \in DOMAIN runs PROVE left(i) \in Int /\ left(i) >= -1
    OBVIOUS
  <2>1. runs[i].left \in Int /\ runs[i].left >= -1
    BY RunOf, Zenon DEF RunType, IInv, TypeInv
  <2> QED
    BY <2>1 DEF Down
<1>3. ASSUME NEW i \in DOMAIN runs
      PROVE  /\ new(i) \in RunType
             /\ new(i).left = left(i) /\ new(i).of = runs[i].of
             /\ new(i).at = runs[i].at /\ new(i).trace = runs[i].trace
             /\ new(i).tried = runs[i].tried /\ new(i).ok = runs[i].ok
             /\ new(i).held = runs[i].held /\ new(i).late = runs[i].late
             /\ new(i).unbounded = runs[i].unbounded
  <2>1. runs[i] \in RunType
    BY RunOf
  <2> HIDE DEF left
  <2>2. new(i) \in RunType
    BY <1>2, <2>1, Fields, Zenon
  <2> QED
    BY <2>1, <2>2 DEF RunType
<1> HIDE DEF new, left
<1>4. runs \in Seq(RunType) /\ DOMAIN runs = 1..Len(runs) /\ Len(runs) \in Nat
  BY DEF IInv, TypeInv
<1>5. runs' \in Seq(RunType) /\ Len(runs') = Len(runs) /\ DOMAIN runs' = DOMAIN runs
  BY <1>1, <1>3, <1>4
<1> QED
  BY <1>1, <1>2, <1>3, <1>5

\* Every step keeps the types.
LEMMA TypeStep == IInv /\ [Next]_vars => TypeInv'
<1> SUFFICES ASSUME IInv, [Next]_vars PROVE TypeInv'
  OBVIOUS
<1> USE ProbesAssumption DEF TypeInv, timeVars, countVars
<1>1. TypeInv
  BY DEF IInv
<1>2. CASE Receive
  BY <1>1, <1>2 DEF Receive
<1>3. CASE Update
  <2>1. crashed' \in BOOLEAN
    BY <1>1, <1>3, Zenon DEF Update
  <2>2. /\ egress = "stage"
        /\ UNCHANGED <<confs, runs, spareEnv, attempts, successes>>
        /\ \/ UNCHANGED <<egress, applied, age, rounds>>
           \/ /\ applied' = Len(confs) /\ egress' = "select"
              /\ age' = 0 /\ rounds' = 0
    BY <1>3 DEF Update
  <2>3. \A i \in DOMAIN runs : runs[i].of \in Nat
    BY RunOf DEF Versions
  <2>4. CASE UNCHANGED <<egress, applied, age, rounds>>
    BY <1>1, <2>1, <2>2, <2>4
  <2>5. CASE applied' = Len(confs) /\ egress' = "select" /\ age' = 0 /\ rounds' = 0
    BY <1>1, <2>1, <2>2, <2>3, <2>5
  <2> QED
    BY <2>2, <2>4, <2>5
<1>4. CASE Tick
  <2>1. CASE runs' = runs
    BY <1>1, <1>4, <2>1 DEF Tick, performProbes
  <2>2. CASE runs' # runs
    <3>1. /\ runs' = Append(runs, NewRun) /\ rounds' = rounds + 1
          /\ Len(runs) < MaxRuns /\ NewRun \in RunType
      BY <1>4, <2>2, TickRun
    <3>2. NewRun.of = applied /\ NewRun.left = 0
      BY DEF NewRun
    <3>3. /\ runs' \in Seq(RunType) /\ Len(runs') = Len(runs) + 1
          /\ \A i \in DOMAIN runs' : runs'[i].of <= applied /\ runs'[i].left >= -1
      BY <1>1, <3>1, <3>2
    <3>4. spareEnv \in [Versions -> 0..(Len(runs) + 1)]
      BY <1>1
    <3>5. UNCHANGED <<egress, confs, applied, age, spareEnv, attempts, successes,
                      crashed>>
      BY <1>4 DEF Tick
    <3> QED
      BY <1>1, <3>1, <3>3, <3>4, <3>5
  <2> QED
    BY <2>1, <2>2
<1>5. CASE Signal
  BY <1>1, <1>5 DEF Signal
<1>6. CASE Elapse
  <2>1. age' \in 0..MaxAge
    BY <1>1, <1>6 DEF Elapse
  <2>2. UNCHANGED <<egress, confs, applied, rounds, spareEnv, attempts, successes,
                    crashed>>
    BY <1>6 DEF Elapse
  <2> QED
    BY <1>1, <1>6, <2>1, <2>2, ElapseRuns
<1>7. ASSUME NEW i \in DOMAIN runs, Run(i) PROVE TypeInv'
  <2>1. PICK r : Changed(i, r)
    BY <1>7, RunStep
  <2>2. UNCHANGED <<egress, confs, applied, age, rounds, crashed>>
    BY <1>7, RunStep DEF otherVars
  <2>3. /\ runs' \in Seq(RunType) /\ Len(runs') = Len(runs)
        /\ \A j \in DOMAIN runs' : runs'[j].of <= applied /\ runs'[j].left >= -1
    BY <1>1, <2>1 DEF Changed
  <2>4. attempts' \in [Versions -> Nat]
    <3>1. \/ attempts' = attempts
          \/ attempts' = [attempts EXCEPT ![runs[i].of] = @ + 1]
      BY <2>1 DEF Changed, Counts
    <3>2. runs[i].of \in Versions /\ attempts \in [Versions -> Nat]
      BY <1>1, RunOf
    <3> HIDE DEF TypeInv
    <3> QED
      BY <3>1, <3>2
  <2>5. successes' \in [Versions -> Nat]
    <3>1. \/ successes' = successes
          \/ successes' = [successes EXCEPT ![runs[i].of] = @ + 1]
      BY <2>1 DEF Changed, Counts
    <3>2. runs[i].of \in Versions /\ successes \in [Versions -> Nat]
      BY <1>1, RunOf
    <3> HIDE DEF TypeInv
    <3> QED
      BY <3>1, <3>2
  <2> QED
    BY <1>1, <1>7, <2>2, <2>3, <2>4, <2>5, RunStep
<1>8. CASE UNCHANGED vars
  BY <1>1, <1>8 DEF vars
<1> QED
  BY <1>2, <1>3, <1>4, <1>5, <1>6, <1>7, <1>8 DEF Next

\* A configuration that was received does not change.
LEMMA ConfsStay ==
  ASSUME IInv, [Next]_vars, NEW v \in 1..Len(confs)
  PROVE  Conf(v)' = Conf(v)
<1>1. CASE Receive
  BY <1>1 DEF Receive, Conf, IInv, TypeInv
<1>2. CASE UNCHANGED confs
  BY <1>2 DEF Conf
<1>3. ASSUME NEW i \in DOMAIN runs, Run(i) PROVE UNCHANGED confs
  BY <1>3, RunStep DEF otherVars
<1> QED
  BY <1>1, <1>2, <1>3 DEF Next, Update, Tick, Signal, Elapse, vars

\* Every run stays fine.
LEMMA OutcomeStep == IInv /\ [Next]_vars => RunInv'
<1> SUFFICES ASSUME IInv, [Next]_vars, NEW i \in DOMAIN runs'
             PROVE  Fine(i, runs'[i], Conf(runs[i].of)')
  BY DEF RunInv
<1>1. ASSUME i \in DOMAIN runs, runs'[i].of = runs[i].of
      PROVE  Conf(runs[i].of)' = Conf(runs[i].of)
  <2>1. runs[i].of \in 1..Len(confs)
    BY <1>1, RunOf
  <2>2. \A v \in 1..Len(confs) : confs'[v] = confs[v]
    BY ConfsStay DEF Conf
  <2> QED
    BY <1>1, <2>1, <2>2 DEF Conf
<1>2. ASSUME i \in DOMAIN runs PROVE Fine(i, runs[i], Conf(runs[i].of))
  BY <1>2 DEF IInv, RunInv
<1>3. CASE UNCHANGED runs
  BY <1>1, <1>2, <1>3
<1>4. CASE Tick /\ runs' # runs
  <2>1. runs' = Append(runs, NewRun) /\ runs \in Seq(RunType)
    BY <1>4, TickRun DEF IInv, TypeInv
  <2>2. CASE i \in DOMAIN runs
    <3>1. runs'[i] = runs[i]
      BY <2>1, <2>2
    <3> QED
      BY <1>1, <1>2, <2>2, <3>1
  <2>3. CASE i \notin DOMAIN runs
    <3>1. runs'[i] = NewRun
      BY <2>1, <2>3
    <3> QED
      BY <3>1 DEF Fine, NewRun
  <2> QED
    BY <2>2, <2>3
<1>5. CASE Elapse
  BY <1>1, <1>2, <1>5, ElapseRuns DEF Fine
<1>6. ASSUME NEW j \in DOMAIN runs, Run(j)
      PROVE  Fine(i, runs'[i], Conf(runs[i].of)')
  <2>1. PICK r : Changed(j, r)
    BY <1>6, RunStep
  <2>2. i \in DOMAIN runs
    BY <2>1 DEF Changed
  <2>3. CASE i = j
    <3>1. runs'[i] = r /\ r.of = runs[i].of
      BY <2>1, <2>3 DEF Changed
    <3> QED
      BY <1>1, <2>1, <2>2, <2>3, <3>1 DEF Changed
  <2>4. CASE i # j
    <3>1. runs'[i] = runs[i]
      BY <2>1, <2>2, <2>4 DEF Changed
    <3> QED
      BY <1>1, <1>2, <2>2, <3>1
  <2> QED
    BY <2>3, <2>4
<1> QED
  BY <1>3, <1>4, <1>5, <1>6 DEF Next, Receive, Update, Signal, vars

-----------------------------------------------------------------------------
\* The runs of version v that were counted as attempts, and as successes.
Tried(v) == {i \in DOMAIN runs : runs[i].of = v /\ runs[i].tried}
Won(v) ==
  {i \in DOMAIN runs : runs[i].of = v /\ runs[i].at = "done" /\ runs[i].ok}

LEMMA FiniteRuns ==
  ASSUME IInv, NEW v
  PROVE  /\ IsFiniteSet(Tried(v)) /\ Cardinality(Tried(v)) <= Len(runs)
         /\ IsFiniteSet(Won(v)) /\ Cardinality(Won(v)) <= Len(runs)
<1>1. DOMAIN runs = 1..Len(runs) /\ Len(runs) \in Nat
  BY DEF IInv, TypeInv
<1>2. IsFiniteSet(1..Len(runs)) /\ Cardinality(1..Len(runs)) = Len(runs)
  <2>1. \A n \in Nat : IsFiniteSet(1..n) /\ Cardinality(1..n) = n
    BY FS_Interval
  <2> QED
    BY <1>1, <2>1
<1>3. Tried(v) \subseteq 1..Len(runs) /\ Won(v) \subseteq 1..Len(runs)
  BY <1>1 DEF Tried, Won
<1> QED
  BY <1>2, <1>3, FS_Subset

\* Every step counts a run where it was started.
LEMMA CountStep == IInv /\ [Next]_vars => CountedWhereStarted'
<1> SUFFICES ASSUME IInv, [Next]_vars, NEW v \in Versions
             PROVE  /\ attempts'[v] = Cardinality(Tried(v)')
                    /\ successes'[v] = Cardinality(Won(v)')
  BY DEF CountedWhereStarted, Tried, Won
<1>1. attempts[v] = Cardinality(Tried(v)) /\ successes[v] = Cardinality(Won(v))
  BY DEF IInv, CountedWhereStarted, Tried, Won
<1>2. CASE UNCHANGED <<runs, attempts, successes>>
  BY <1>1, <1>2 DEF Tried, Won
<1>3. CASE Tick /\ runs' # runs
  <2>1. runs' = Append(runs, NewRun) /\ runs \in Seq(RunType)
    BY <1>3, TickRun DEF IInv, TypeInv
  <2>2. ~NewRun.tried /\ NewRun.at = "new"
    BY DEF NewRun
  <2>3. Tried(v)' = Tried(v) /\ Won(v)' = Won(v)
    BY <2>1, <2>2 DEF Tried, Won
  <2> QED
    BY <1>1, <1>3, <2>3 DEF Tick, countVars
<1>4. CASE Elapse
  <2>1. Tried(v)' = Tried(v) /\ Won(v)' = Won(v)
    BY <1>4, ElapseRuns DEF Tried, Won
  <2> QED
    BY <1>1, <1>4, <2>1 DEF Elapse, countVars
<1>5. ASSUME NEW i \in DOMAIN runs, Run(i)
      PROVE  /\ attempts'[v] = Cardinality(Tried(v)')
             /\ successes'[v] = Cardinality(Won(v)')
  <2>1. PICK r : Changed(i, r)
    BY <1>5, RunStep
  <2>2. /\ DOMAIN runs' = DOMAIN runs /\ runs'[i] = r
        /\ r.of = runs[i].of /\ runs[i].at # "done"
        /\ \A j \in DOMAIN runs \ {i} : runs'[j] = runs[j]
    BY <2>1 DEF Changed
  <2>3. /\ runs[i].of \in Versions
        /\ attempts \in [Versions -> Nat] /\ successes \in [Versions -> Nat]
    BY RunOf, SMTT(30) DEF IInv, TypeInv
  <2>4. i \notin Won(v)
    BY <2>2 DEF Won
  <2>5. attempts'[v] = Cardinality(Tried(v)')
    <3>1. CASE attempts' = attempts /\ (r.tried <=> runs[i].tried)
      <4>1. Tried(v)' = Tried(v)
        BY <2>2, <3>1 DEF Tried
      <4> QED
        BY <1>1, <3>1, <4>1
    <3>2. CASE /\ attempts' = [attempts EXCEPT ![runs[i].of] = @ + 1]
               /\ ~runs[i].tried /\ r.tried
      <4>1. i \notin Tried(v)
        BY <3>2 DEF Tried
      <4>2. CASE runs[i].of = v
        <5>1. Tried(v)' = Tried(v) \cup {i}
          BY <2>2, <3>2, <4>2 DEF Tried
        <5>2. Cardinality(Tried(v) \cup {i}) = Cardinality(Tried(v)) + 1
          BY <4>1, FiniteRuns, FS_AddElement, Zenon
        <5>3. attempts'[v] = attempts[v] + 1
          BY <2>3, <3>2, <4>2
        <5> QED
          BY <1>1, <5>1, <5>2, <5>3
      <4>3. CASE runs[i].of # v
        <5>1. Tried(v)' = Tried(v)
          BY <2>2, <3>2, <4>3 DEF Tried
        <5>2. attempts'[v] = attempts[v]
          BY <2>3, <3>2, <4>3
        <5> QED
          BY <1>1, <5>1, <5>2
      <4> QED
        BY <4>2, <4>3
    <3> QED
      BY <2>1, <3>1, <3>2 DEF Changed, Counts
  <2>6. successes'[v] = Cardinality(Won(v)')
    <3>1. CASE successes' = successes /\ ~(r.at = "done" /\ r.ok)
      <4>1. Won(v)' = Won(v)
        BY <2>2, <3>1 DEF Won
      <4> QED
        BY <1>1, <3>1, <4>1
    <3>2. CASE /\ successes' = [successes EXCEPT ![runs[i].of] = @ + 1]
               /\ r.at = "done" /\ r.ok
      <4>1. CASE runs[i].of = v
        <5>1. Won(v)' = Won(v) \cup {i}
          BY <2>2, <3>2, <4>1 DEF Won
        <5>2. Cardinality(Won(v) \cup {i}) = Cardinality(Won(v)) + 1
          BY <2>4, FiniteRuns, FS_AddElement, Zenon
        <5>3. successes'[v] = successes[v] + 1
          BY <2>3, <3>2, <4>1
        <5> QED
          BY <1>1, <5>1, <5>2, <5>3
      <4>2. CASE runs[i].of # v
        <5>1. Won(v)' = Won(v)
          BY <2>2, <3>2, <4>2 DEF Won
        <5>2. successes'[v] = successes[v]
          BY <2>3, <3>2, <4>2
        <5> QED
          BY <1>1, <5>1, <5>2
      <4> QED
        BY <4>1, <4>2
    <3> QED
      BY <2>1, <3>1, <3>2 DEF Changed, Counts
  <2> QED
    BY <2>5, <2>6
<1> QED
  BY <1>2, <1>3, <1>4, <1>5, Zenon
     DEF Next, Receive, Update, Signal, Tick, vars, countVars

-----------------------------------------------------------------------------
\* A unit of time for the ticker.
LEMMA PaceElapses ==
  ASSUME NEW period \in Int, NEW in \in Nat, NEW w \in {0, 1}, NEW u \in {0, 1},
         NEW old \in Nat, NEW n \in Nat,
         Pace(period, in, w, old, n), u = IF in = 1 THEN 1 ELSE w
  PROVE  Pace(period, IF in = 1 THEN period ELSE IF in = 0 THEN 0 ELSE in - 1, u,
              old + 1, n)
<1>1. CASE period <= 0
  BY <1>1 DEF Pace
<1>2. CASE period > 0
  <2>1. old % period \in 0..(period - 1)
    BY <1>2
  <2>2. CASE old % period = period - 1
    <3>1. (old + 1) \div period = (old \div period) + 1 /\ (old + 1) % period = 0
      BY <1>2, <2>2
    <3>2. in = 1
      BY <1>2, <2>2 DEF Pace
    <3>3. n + w <= 1 + (old \div period) /\ old \div period \in Int
      BY <1>2 DEF Pace
    <3> QED
      BY <1>2, <3>1, <3>2, <3>3 DEF Pace
  <2>3. CASE old % period # period - 1
    <3>1. /\ (old + 1) \div period = old \div period
          /\ (old + 1) % period = (old % period) + 1
      BY <1>2, <2>1, <2>3
    <3>2. in = period - (old % period) /\ in > 1
      BY <1>2, <2>1, <2>3 DEF Pace
    <3> QED
      BY <1>2, <2>1, <3>1, <3>2 DEF Pace
  <2> QED
    BY <2>2, <2>3
<1> QED
  BY <1>1, <1>2

\* An update resets the ticker, and leaves at most one tick in the channel.
LEMMA PaceBegins ==
  ASSUME NEW period \in Int, NEW w \in {0, 1}
  PROVE  Pace(period, IF period > 0 THEN period ELSE 0, w, 0, 0)
<1>1. CASE period <= 0
  BY <1>1 DEF Pace
<1>2. CASE period > 0
  <2>1. 0 % period = 0 /\ 0 \div period = 0
    BY <1>2
  <2> QED
    BY <1>2, <2>1 DEF Pace
<1> QED
  BY <1>1, <1>2

\* A round takes the tick out of the channel.
LEMMA PaceTicks ==
  ASSUME NEW period \in Int, NEW in \in Nat, NEW old \in Nat, NEW n \in Nat,
         NEW m \in {n, n + 1}, Pace(period, in, 1, old, n)
  PROVE  Pace(period, in, 0, old, m)
<1>1. CASE period <= 0
  BY <1>1 DEF Pace
<1>2. CASE period > 0
  <2>1. old \div period \in Int
    BY <1>2
  <2> QED
    BY <1>2, <2>1 DEF Pace
<1> QED
  BY <1>1, <1>2

\* The ticker and the delay stay in step with the age of a version.
LEMMA TimeStep == IInv /\ [Next]_vars => TimeInv'
<1> SUFFICES ASSUME IInv, [Next]_vars PROVE TimeInv'
  OBVIOUS
<1>1. /\ TimeInv /\ applied \in 0..Len(confs) /\ Len(confs) \in Nat
      /\ confs \in Seq(Confs) /\ age \in Nat /\ rounds \in Nat
  BY DEF IInv, TypeInv
<1>2. applied > 0 => Conf(applied) \in Confs
  BY <1>1 DEF Conf
<1>3. CASE UNCHANGED <<timeVars, applied>>
  <2>1. applied > 0 => confs'[applied] = confs[applied]
    BY <1>1, ConfsStay DEF Conf
  <2> QED
    BY <1>1, <1>3, <2>1 DEF TimeInv, timeVars, Waiting, Conf
<1>4. CASE Update /\ ~UNCHANGED <<timeVars, applied>>
  <2> DEFINE c == confs[Len(confs)]
  <2>1. /\ applied' = Len(confs) /\ delayLeft' = c.delay /\ age' = 0 /\ rounds' = 0
        /\ tickIn' = (IF c.period > 0 THEN c.period ELSE 0)
        /\ UNCHANGED <<confs, ticked>> /\ egress = "stage"
    BY <1>4 DEF Update
  <2>2. Len(confs) > 0
    BY <2>1 DEF IInv, TypeInv
  <2>3. c \in Confs
    BY <1>1, <2>2
  <2>4. c.period \in Int /\ c.delay \in Int
    BY <2>3, ProbesAssumption
  <2>5. Conf(applied)' = c
    BY <2>1 DEF Conf
  <2> HIDE DEF c
  <2>7. Waiting' \in {0, 1}
    BY DEF Waiting
  <2>8. Pace(c.period, tickIn', Waiting', 0, 0)
    BY <2>1, <2>4, <2>7, PaceBegins
  <2>9. Delayed(c.delay, delayLeft', 0)
    BY <2>1, <2>4 DEF Delayed
  <2>10. tickIn' \in Nat /\ delayLeft' \in Int /\ ticked' \in BOOLEAN
    BY <1>1, <2>1, <2>4 DEF TimeInv
  <2>11. (Conf(applied).period)' = c.period /\ (Conf(applied).delay)' = c.delay
    BY <2>5
  <2>12. tickIn' > 0 => c.period > 0
    BY <2>1, <2>4
  <2> QED
    BY <2>1, <2>2, <2>8, <2>9, <2>10, <2>11, <2>12, SMTT(30) DEF TimeInv
<1>5. CASE Tick
  <2>1. /\ UNCHANGED <<confs, applied, tickIn, delayLeft, age>>
        /\ ticked /\ ticked' = FALSE
        /\ rounds' \in {rounds, rounds + 1}
    BY <1>5 DEF Tick, performProbes
  <2>2. applied > 0
    BY <1>1, <2>1 DEF TimeInv
  <2>3. Conf(applied)' = Conf(applied)
    BY <2>1 DEF Conf
  <2>4. Waiting = 1 /\ Waiting' = 0
    BY <2>1 DEF Waiting
  <2>5. age < MaxAge =>
          Pace(Conf(applied).period, tickIn, Waiting', age, rounds')
    <3>1. Conf(applied).period \in Int
      BY <1>2, <2>2, ProbesAssumption
    <3>2. SUFFICES ASSUME age < MaxAge
                   PROVE  Pace(Conf(applied).period, tickIn, 0, age, rounds')
      BY <2>4
    <3>3. Pace(Conf(applied).period, tickIn, 1, age, rounds) /\ tickIn \in Nat
      BY <1>1, <2>2, <2>4, <3>2 DEF TimeInv
    <3> QED
      BY <1>1, <2>1, <3>1, <3>3, PaceTicks
  <2>6. ticked' \in BOOLEAN
    BY <2>1, Zenon
  <2> QED
    BY <1>1, <2>1, <2>2, <2>3, <2>5, <2>6 DEF TimeInv
<1>6. CASE Elapse
  <2>1. /\ UNCHANGED <<confs, applied, rounds>>
        /\ ticked' = (ticked \/ tickIn = 1)
        /\ tickIn' = Rearm(tickIn) /\ delayLeft' = Down(delayLeft)
        /\ age' = IF age < MaxAge THEN age + 1 ELSE age
    BY <1>6 DEF Elapse
  <2>2. ticked' \in BOOLEAN
    BY <2>1
  <2>3. CASE applied = 0
    BY <1>1, <2>1, <2>2, <2>3 DEF TimeInv, Rearm, Down
  <2>4. CASE applied > 0
    <3>1. /\ Conf(applied)' = Conf(applied) /\ Conf(applied).period \in Int
          /\ Conf(applied).delay \in Int /\ Conf(applied).delay <= MaxAge
      BY <1>2, <2>1, <2>4, ProbesAssumption DEF Conf
    <3>2. Delayed(Conf(applied).delay, delayLeft', age') /\ delayLeft' \in Int
      BY <1>1, <2>1, <2>4, <3>1, ProbesAssumption, SMTT(30) DEF TimeInv, Delayed, Down
    <3>3. Waiting \in {0, 1} /\ Waiting' \in {0, 1}
          /\ Waiting' = IF tickIn = 1 THEN 1 ELSE Waiting
      BY <1>1, <2>1, Zenon DEF Waiting, TimeInv
    <3>4. tickIn' \in Nat /\ (tickIn' > 0 => Conf(applied).period > 0)
      BY <1>1, <2>1, <2>4, <3>1 DEF TimeInv, Rearm
    <3>5. ASSUME age' < MaxAge
          PROVE  Pace(Conf(applied).period, tickIn', Waiting', age', rounds)
      <4>1. age < MaxAge /\ age' = age + 1
        BY <1>1, <2>1, <3>5, ProbesAssumption
      <4>2. Pace(Conf(applied).period, tickIn, Waiting, age, rounds)
        BY <1>1, <2>4, <4>1 DEF TimeInv
      <4>3. tickIn \in Nat
        BY <1>1 DEF TimeInv
      <4> QED
        BY <1>1, <2>1, <3>1, <3>3, <4>1, <4>2, <4>3, PaceElapses, SMTT(30) DEF Rearm
    <3> QED
      BY <2>1, <2>2, <2>4, <3>1, <3>2, <3>4, <3>5 DEF TimeInv
  <2> QED
    BY <1>1, <2>3, <2>4
<1>7. ASSUME NEW i \in DOMAIN runs, Run(i) PROVE UNCHANGED <<timeVars, applied>>
  BY <1>7, RunStep DEF otherVars
<1> QED
  BY <1>3, <1>4, <1>5, <1>6, <1>7 DEF Next, Receive, Signal, vars

-----------------------------------------------------------------------------
\* The inductive invariant holds in every reachable state.
THEOREM Invariance == Spec => []IInv
<1>1. Init => IInv
  <2> SUFFICES ASSUME Init PROVE IInv
    OBVIOUS
  <2>1. /\ confs = <<>> /\ runs = <<>> /\ Len(confs) = 0 /\ Len(runs) = 0
        /\ confs \in Seq(Confs)
    BY DEF Init
  <2>2. TypeInv
    <3>1. runs \in Seq(RunType) /\ \A i \in DOMAIN runs : FALSE
      BY <2>1
    <3>2. age \in 0..MaxAge /\ 0 <= MaxVersions /\ 0 <= MaxRuns
      BY ProbesAssumption DEF Init
    <3>3. /\ spareEnv \in [Versions -> 0..0]
          /\ attempts \in [Versions -> Nat] /\ successes \in [Versions -> Nat]
      BY DEF Init
    <3>4. crashed \in BOOLEAN
      BY Zenon DEF Init
    <3> QED
      BY <2>1, <3>1, <3>2, <3>3, <3>4 DEF Init, TypeInv
  <2>3. RunInv
    BY <2>1 DEF RunInv
  <2>4. TimeInv
    <3>1. ticked \in BOOLEAN /\ ~ticked
      BY Zenon DEF Init
    <3> QED
      BY <3>1 DEF Init, TimeInv
  <2>5. CountedWhereStarted
    <3>1. \A v : Tried(v) = {} /\ Won(v) = {}
      BY <2>1 DEF Tried, Won
    <3>2. \A v \in Versions : attempts[v] = 0 /\ successes[v] = 0
      BY DEF Init
    <3> QED
      BY <3>1, <3>2, FS_EmptySet, Zenon DEF CountedWhereStarted, Tried, Won
  <2> QED
    BY <2>2, <2>3, <2>4, <2>5 DEF IInv
<1>2. IInv /\ [Next]_vars => IInv'
  BY TypeStep, OutcomeStep, TimeStep, CountStep DEF IInv
<1> QED
  BY <1>1, <1>2, PTL DEF Spec

\* The types, the counters included: no version counts more attempts or
\* successes than there were runs.
THEOREM TypeCorrect == Spec => []TypeOK
<1>1. IInv => TypeOK
  <2> SUFFICES ASSUME IInv PROVE TypeOK
    OBVIOUS
  <2>1. TypeInv /\ TimeInv /\ CountedWhereStarted
    BY DEF IInv
  <2>2. \A v \in Versions : attempts[v] <= Len(runs) /\ successes[v] <= Len(runs)
    <3>1. \A v \in Versions : /\ attempts[v] = Cardinality(Tried(v))
                              /\ successes[v] = Cardinality(Won(v))
      BY <2>1 DEF CountedWhereStarted, Tried, Won
    <3> QED
      BY <3>1, FiniteRuns
  <2>3. /\ attempts \in [Versions -> 0..Len(runs)]
        /\ successes \in [Versions -> 0..Len(runs)]
    BY <2>1, <2>2 DEF TypeInv
  <2>4. Len(confs) \in Nat /\ Len(runs) \in Nat
    BY <2>1 DEF TypeInv
  <2>5. applied \in {Len(confs), Len(confs) - 1} /\ rounds \in 0..MaxRuns
    BY <2>1, <2>4, ProbesAssumption DEF TypeInv
  <2>6. \A i \in DOMAIN runs :
          /\ runs[i].of \in 1..applied
          /\ runs[i].at \in {"new", "begun", "waiting", "connected", "held",
                             "answered", "done"}
          /\ runs[i].left >= -1
    <3> SUFFICES ASSUME NEW i \in DOMAIN runs
                 PROVE  /\ runs[i].of \in 1..applied
                        /\ runs[i].at \in {"new", "begun", "waiting", "connected",
                                           "held", "answered", "done"}
                        /\ runs[i].left >= -1
      OBVIOUS
    <3>1. runs[i] \in RunType /\ runs[i].of <= applied /\ runs[i].left >= -1
      BY <2>1, RunOf DEF TypeInv
    <3>2. runs[i].of \in 1..applied
      BY <2>1, <3>1, ProbesAssumption DEF RunType, Versions, TypeInv
    <3> QED
      BY <3>1, <3>2 DEF RunType
  <2> QED
    BY <2>1, <2>3, <2>5, <2>6 DEF TypeInv, TimeInv, TypeOK
<1> QED
  BY <1>1, Invariance, PTL

\* A version starts at most one round more than its age has periods: the tick
\* that Reset and Stop leave in the channel of the ticker is at most one.
THEOREM PaceKept == Spec => []RoundsKeepPace
<1>1. IInv => RoundsKeepPace
  <2> SUFFICES ASSUME IInv, applied > 0, age < MaxAge
               PROVE  rounds <= 1 + (IF Conf(applied).period <= 0 THEN 0
                                     ELSE age \div Conf(applied).period)
    BY DEF RoundsKeepPace
  <2>1. Pace(Conf(applied).period, tickIn, Waiting, age, rounds)
    BY DEF IInv, TimeInv
  <2>2. Waiting \in {0, 1} /\ rounds \in Nat /\ age \in Nat
    BY DEF Waiting, IInv, TypeInv
  <2>3. \A p \in Int, t, old, n \in Nat, w \in {0, 1} : Pace(p, t, w, old, n) =>
          n <= 1 + (IF p <= 0 THEN 0 ELSE old \div p)
    <3> TAKE p \in Int, t, old, n \in Nat, w \in {0, 1}
    <3>1. p > 0 => old \div p \in Int
      OBVIOUS
    <3> QED
      BY <3>1 DEF Pace
  <2>4. Conf(applied) \in Confs /\ tickIn \in Nat
    BY DEF Conf, IInv, TypeInv, TimeInv
  <2>5. Conf(applied).period \in Int
    BY <2>4, ProbesAssumption
  <2> QED
    BY <2>1, <2>2, <2>3, <2>4, <2>5
<1> QED
  BY <1>1, Invariance, PTL

\* No step starts a round before the initial delay of the version is over.
THEOREM DelayKept == Spec => DelayIsKept
<1>1. IInv /\ [Next]_vars =>
        [rounds' = rounds + 1 => age >= Conf(applied).delay]_vars
  <2> SUFFICES ASSUME IInv, Next, rounds' = rounds + 1
               PROVE  age >= Conf(applied).delay
    OBVIOUS
  <2>1. rounds \in Nat /\ age \in Nat /\ TimeInv /\ rounds' # rounds
    BY DEF IInv, TypeInv
  <2>2. ASSUME NEW i \in DOMAIN runs, Run(i) PROVE FALSE
    BY <2>1, <2>2, RunStep DEF otherVars, timeVars
  <2>3. Tick
    BY <2>1, <2>2 DEF Next, Receive, Update, Signal, Elapse, timeVars
  <2>4. delayLeft <= 0 /\ ticked
    BY <2>1, <2>3 DEF Tick
  <2>5. applied > 0
    <3>1. applied # 0
      BY <2>1, <2>4 DEF TimeInv
    <3>2. applied \in Nat
      BY DEF IInv, TypeInv
    <3> QED
      BY <3>1, <3>2
  <2>6. Delayed(Conf(applied).delay, delayLeft, age) /\ delayLeft \in Int
    BY <2>1, <2>5 DEF TimeInv
  <2>7. Conf(applied) \in Confs
    BY <2>5 DEF Conf, IInv, TypeInv
  <2>8. Conf(applied).delay \in Int
    BY <2>7, ProbesAssumption, SMTT(30)
  <2> QED
    BY <2>1, <2>4, <2>6, <2>8 DEF Delayed
<1> QED
  BY <1>1, Invariance, PTL DEF Spec, DelayIsKept

\* A probe succeeds within its timeout, but for the two cases the property
\* names: CombinedOutput of a held command and a dialer without a timeout.
THEOREM SuccessesInTime == Spec => []SuccessInTime
<1>1. IInv => SuccessInTime
  BY DEF IInv, RunInv, Fine, SuccessInTime
<1> QED
  BY <1>1, Invariance, PTL

\* PreMeasurable and PostMeasurable of a run count on its own version.
THEOREM CountsWhereStarted == Spec => []CountedWhereStarted
<1>1. IInv => CountedWhereStarted
  BY DEF IInv
<1> QED
  BY <1>1, Invariance, PTL

\* The append of act shares the end of action.env only from three variables on.
THEOREM CommandTraces == Spec => []CommandHasItsTrace
<1>1. ASSUME NEW n \in Nat, Spare(n) PROVE n >= 3
  <2>1. n > 0 /\ \A k \in 0..n : n # 2^k
    BY <1>1, Zenon DEF Spare
  <2>2. 0 \in 0..n /\ 1 \in 0..n
    BY <2>1
  <2>3. n # 2^0 /\ n # 2^1
    BY <2>1, <2>2, Zenon
  <2>4. 2^0 = 1 /\ 2^1 = 2
    OBVIOUS
  <2>5. n # 1 /\ n # 2
    BY <2>3, <2>4, Zenon
  <2> QED
    BY <2>1, <2>5
<1>2. IInv => CommandHasItsTrace
  <2> SUFFICES ASSUME IInv, NEW i \in DOMAIN runs, runs[i].trace \notin {0, i}
               PROVE  Conf(runs[i].of).env >= 3
    BY DEF CommandHasItsTrace
  <2>1. Spare(Conf(runs[i].of).env)
    BY DEF IInv, RunInv, Fine
  <2>2. Conf(runs[i].of) \in Confs
    BY RunOf, SMTT(30) DEF Conf, IInv, TypeInv
  <2>3. Conf(runs[i].of).env \in Nat
    BY <2>2, ProbesAssumption
  <2> QED
    BY <1>1, <2>1, <2>3
<1> QED
  BY <1>2, Invariance, PTL
=============================================================================
