-------------------------------- MODULE Probes --------------------------------
(***************************************************************************)
(* The egress goroutine in time: its ticker, the initial delay, updates,   *)
(* and the goroutines that run the probes, which outlive the tick and the  *)
(* version that started them.                                              *)
(*                                                                         *)
(* A configuration has one probe, and a command at least one word.  Time   *)
(* is discrete: the timers count down to 0, and -1 says that the moment    *)
(* has passed.  Any time may pass before a goroutine takes its next step.  *)
(***************************************************************************)
EXTENDS Integers, Sequences, FiniteSets

CONSTANTS
  Confs,     \* configurations: [actions, period, delay, timeout, env, steps]
  MaxVersions, MaxRuns, MaxAge   \* bounds: versions, runs, age of a version

ASSUME ProbesAssumption ==
  /\ MaxVersions \in Nat /\ MaxRuns \in Nat /\ MaxAge \in Nat
  /\ \A c \in Confs :
       /\ c.period \in Int /\ c.env \in Nat
       /\ c.delay \in Int /\ c.delay <= MaxAge
       /\ c.timeout \in Int /\ c.timeout >= -1

VARIABLES
  egress,     \* where GoEgress is: "select", "stage" (in updateConfig), "gone"
  confs,      \* the configurations received; the last may not be applied yet
  applied,    \* the version applied last
  tickIn,     \* time to the next tick (0: the ticker is stopped)
  ticked,     \* there is a tick in ticker.C
  delayLeft,  \* time to initialDelayTime
  age,        \* time since the update (at most MaxAge)
  rounds,     \* calls of performProbes since the update
  runs,       \* the runs started so far
  spareEnv,   \* per version: whose trace ID is behind the end of action.env
  attempts, successes,  \* per version: the counters of its probe
  crashed     \* a nil dereference ended the process

timeVars == <<tickIn, ticked, delayLeft, age, rounds>>
countVars == <<spareEnv, attempts, successes>>
vars == <<egress, confs, applied, timeVars, runs, countVars, crashed>>

Versions == 1..MaxVersions
Conf(v) == confs[v]

\* newProbe: the first action that is configured and valid, or nil.
newProbe(c) ==
  SelectSeq(<<"exec", "grpc", "httpGet", "tcpSocket">>,
            LAMBDA k : k \in c.actions)

Kind(i) == Head(newProbe(Conf(runs[i].of)))

Init ==
  /\ egress = "select" /\ confs = <<>> /\ applied = 0
  /\ tickIn = 0 /\ ticked = FALSE /\ delayLeft = -1 /\ age = 0 /\ rounds = 0
  /\ runs = <<>>
  /\ spareEnv = [v \in Versions |-> 0]
  /\ attempts = [v \in Versions |-> 0] /\ successes = [v \in Versions |-> 0]
  /\ crashed = FALSE

-----------------------------------------------------------------------------
(* GoEgress *)

\* A configuration arrives; egress waits for telemetry and handles no ticks.
Receive ==
  /\ egress = "select" /\ ~crashed
  /\ Len(confs) < MaxVersions
  /\ \E c \in Confs : confs' = Append(confs, c)
  /\ egress' = "stage"
  /\ UNCHANGED <<applied, timeVars, runs, countVars, crashed>>

\* Faulty: the ticker of the previous version goes on.
UpdateKeepsTicker ==
  LET c == confs[Len(confs)]
  IN /\ egress = "stage" /\ ~crashed /\ newProbe(c) # <<>>
     /\ applied' = Len(confs) /\ egress' = "select"
     /\ delayLeft' = c.delay /\ age' = 0 /\ rounds' = 0
     /\ tickIn' = IF c.period > 0 THEN c.period ELSE tickIn
     /\ UNCHANGED <<confs, ticked, runs, countVars, crashed>>

\* The stage arrives.  A probe without an action is dereferenced; otherwise the
\* delay begins and the ticker is reset or stopped, which takes no tick out of
\* its channel.
Update ==
  LET c == confs[Len(confs)]
  IN /\ egress = "stage" /\ ~crashed
     /\ IF newProbe(c) = <<>>
          THEN crashed' = TRUE /\ UNCHANGED <<egress, applied, timeVars>>
          ELSE /\ applied' = Len(confs) /\ egress' = "select"
               /\ delayLeft' = c.delay /\ age' = 0 /\ rounds' = 0
               /\ tickIn' = IF c.period > 0 THEN c.period ELSE 0
               /\ UNCHANGED <<ticked, crashed>>
     /\ UNCHANGED <<confs, runs, countVars>>

NewRun == [of |-> applied, at |-> "new", left |-> 0, trace |-> 0,
           tried |-> FALSE, unbounded |-> FALSE, held |-> FALSE, late |-> FALSE,
           ok |-> FALSE]

performProbes ==
  /\ Len(runs) < MaxRuns
  /\ runs' = Append(runs, NewRun)
  /\ rounds' = rounds + 1

\* Faulty: a tick before the end of the initial delay starts a round.
TickNoDelay ==
  /\ egress = "select" /\ ~crashed
  /\ ticked /\ ticked' = FALSE
  /\ performProbes
  /\ UNCHANGED <<egress, confs, applied, tickIn, delayLeft, age, countVars, crashed>>

\* initialDelayTime.Before(now) can go either way in the last instant.
Tick ==
  /\ egress = "select" /\ ~crashed
  /\ ticked /\ ticked' = FALSE
  /\ \/ delayLeft <= 0 /\ performProbes
     \/ delayLeft >= 0 /\ UNCHANGED <<runs, rounds>>
  /\ UNCHANGED <<egress, confs, applied, tickIn, delayLeft, age, countVars, crashed>>

\* The goroutine returns; its runs and its ticker go on.
Signal ==
  /\ egress = "select" /\ ~crashed
  /\ egress' = "gone"
  /\ UNCHANGED <<confs, applied, timeVars, runs, countVars, crashed>>

-----------------------------------------------------------------------------
(* Time *)

Down(t) == IF t >= 0 THEN t - 1 ELSE t
Rearm(t) == IF t = 1 THEN Conf(applied).period ELSE IF t = 0 THEN 0 ELSE t - 1

\* Faulty: a run has no deadline.
ElapseNoDeadline ==
  /\ ~crashed
  /\ ticked' = (ticked \/ tickIn = 1)
  /\ tickIn' = Rearm(tickIn)
  /\ delayLeft' = Down(delayLeft)
  /\ age' = IF age < MaxAge THEN age + 1 ELSE age
  /\ UNCHANGED <<egress, confs, applied, rounds, runs, countVars, crashed>>

\* One unit of time.  A tick that finds one in the channel is dropped.
Elapse ==
  /\ ~crashed
  /\ ticked' = (ticked \/ tickIn = 1)
  /\ tickIn' = Rearm(tickIn)
  /\ delayLeft' = Down(delayLeft)
  /\ age' = IF age < MaxAge THEN age + 1 ELSE age
  /\ runs' = [i \in DOMAIN runs |-> [runs[i] EXCEPT !.left =
                IF runs[i].at \in {"new", "answered", "done"} THEN @ ELSE Down(@)]]
  /\ UNCHANGED <<egress, confs, applied, rounds, countVars, crashed>>

-----------------------------------------------------------------------------
(* Runs of a probe: act, in the goroutine it starts. *)

InTime(i) == runs[i].left >= 0

Become(i, r) == runs' = [runs EXCEPT ![i] = r]

otherVars == <<egress, confs, applied, timeVars, crashed>>

\* Faulty: newExecAction leaves room for the trace ID.
SpareForTrace(n) == n >= 0

\* n variables appended one by one to an empty []string: its capacity is the
\* next power of two (up to 512), so the append of act is in place unless n is
\* 0 or a power of two.
Spare(n) == n > 0 /\ \A k \in 0..n : n # 2^k

\* The environment of a command is extended, in place if action.env has room.
newEnvVars(i) ==
  LET v == runs[i].of
  IN IF Kind(i) = "exec" /\ Spare(Conf(v).env) THEN [spareEnv EXCEPT ![v] = i]
     ELSE spareEnv

\* The deadline is set and the span begins.  The request of httpGet may not be
\* built, which ends the run without an attempt.
Begin(i) ==
  LET v == runs[i].of
      begun == [runs[i] EXCEPT !.at = "begun", !.left = Conf(v).timeout]
  IN /\ runs[i].at = "new" /\ ~crashed
     /\ \/ Become(i, begun)
        \/ Kind(i) = "httpGet" /\ Become(i, [begun EXCEPT !.at = "done"])
     /\ spareEnv' = newEnvVars(i)
     /\ UNCHANGED <<otherVars, attempts, successes>>

\* PreMeasurable, and the command, the request or the dialling begins.  The
\* timeout of a tcpSocket dialer is what is left: 0, exactly then, is none.
Attempt(i) ==
  LET v == runs[i].of
      trace == IF Kind(i) # "exec" THEN 0
               ELSE IF Spare(Conf(v).env) THEN spareEnv[v] ELSE i
      tried == [runs[i] EXCEPT !.at = "waiting", !.tried = TRUE,
                             !.trace = trace]
  IN /\ runs[i].at = "begun" /\ ~crashed
     /\ attempts' = [attempts EXCEPT ![v] = @ + 1]
     /\ \/ Become(i, tried)
        \/ /\ Kind(i) = "tcpSocket" /\ runs[i].left = 0
           /\ Become(i, [tried EXCEPT !.unbounded = TRUE])
     /\ UNCHANGED <<otherVars, spareEnv, successes>>

Answered(i, ok) ==
  Become(i, [runs[i] EXCEPT !.at = "answered", !.ok = ok, !.late = ~InTime(i)])

\* grpc and tcpSocket are connected.  Without expect steps that is all.
Connect(i) ==
  /\ runs[i].at = "waiting" /\ ~crashed
  /\ InTime(i) \/ runs[i].unbounded
  /\ \/ /\ Kind(i) = "grpc" \/ (Kind(i) = "tcpSocket" /\ Conf(runs[i].of).steps)
        /\ Become(i, [runs[i] EXCEPT !.at = "connected"])
     \/ /\ Kind(i) = "tcpSocket" /\ ~Conf(runs[i].of).steps
        /\ Answered(i, TRUE)
  /\ UNCHANGED <<otherVars, countVars>>

\* Faulty: the connection has no deadline.
SucceedNoDeadline(i) ==
  /\ ~crashed
  /\ \/ runs[i].at = "waiting" /\ InTime(i) /\ Kind(i) \in {"exec", "httpGet"}
     \/ runs[i].at = "connected"
  /\ Answered(i, TRUE)
  /\ UNCHANGED <<otherVars, countVars>>

\* Exit status 0, status OK, SERVING, or the last expect step.
Succeed(i) ==
  /\ InTime(i) /\ ~crashed
  /\ \/ runs[i].at = "waiting" /\ Kind(i) \in {"exec", "httpGet"}
     \/ runs[i].at = "connected"
  /\ Answered(i, TRUE)
  /\ UNCHANGED <<otherVars, countVars>>

\* An error, another answer, or the deadline.
Fail(i) ==
  /\ runs[i].at \in {"waiting", "connected"} /\ ~crashed
  /\ Answered(i, FALSE)
  /\ UNCHANGED <<otherVars, countVars>>

\* The command exits or is killed, and a child of it keeps its output open:
\* CombinedOutput returns when that is closed, with the status of the command.
Hold(i, ok) ==
  /\ runs[i].at = "waiting" /\ Kind(i) = "exec" /\ ~crashed
  /\ ok => InTime(i)
  /\ Become(i, [runs[i] EXCEPT !.at = "held", !.held = TRUE, !.ok = ok])
  /\ UNCHANGED <<otherVars, countVars>>

Release(i) ==
  /\ runs[i].at = "held" /\ ~crashed
  /\ Answered(i, runs[i].ok)
  /\ UNCHANGED <<otherVars, countVars>>

\* Faulty: the success goes to the metrics of the present version.
PostCurrent(i) ==
  /\ runs[i].at = "answered" /\ ~crashed
  /\ Become(i, [runs[i] EXCEPT !.at = "done"])
  /\ successes' = IF runs[i].ok THEN [successes EXCEPT ![applied] = @ + 1]
                  ELSE successes
  /\ UNCHANGED <<otherVars, spareEnv, attempts>>

\* PostMeasurable.
Post(i) ==
  /\ runs[i].at = "answered" /\ ~crashed
  /\ Become(i, [runs[i] EXCEPT !.at = "done"])
  /\ successes' = IF runs[i].ok THEN [successes EXCEPT ![runs[i].of] = @ + 1]
                  ELSE successes
  /\ UNCHANGED <<otherVars, spareEnv, attempts>>

Run(i) ==
  \/ Begin(i) \/ Attempt(i) \/ Connect(i) \/ Succeed(i) \/ Fail(i)
  \/ \E ok \in BOOLEAN : Hold(i, ok)
  \/ Release(i) \/ Post(i)

Next ==
  \/ Receive \/ Update \/ Tick \/ Signal \/ Elapse
  \/ \E i \in DOMAIN runs : Run(i)

Spec == Init /\ [][Next]_vars

\* What a context, a client or a connection with a deadline does once that has
\* passed.
Expire(i) ==
  /\ ~InTime(i) /\ (runs[i].unbounded => runs[i].at = "connected")
  /\ Fail(i)

\* Time passes, a goroutine that can go on does, and a deadline is kept.
\* Nothing is assumed of configurations, signals and probed programs.
FairSpec ==
  /\ Spec
  /\ WF_vars(Elapse)
  /\ \A i \in 1..MaxRuns :
       WF_vars(i \in DOMAIN runs /\ (Begin(i) \/ Attempt(i) \/ Expire(i) \/ Post(i)))

-----------------------------------------------------------------------------
\* The type of every variable.
TypeOK ==
  /\ egress \in {"select", "stage", "gone"}
  /\ confs \in Seq(Confs) /\ Len(confs) <= MaxVersions
  /\ applied \in {Len(confs), Len(confs) - 1}
  /\ tickIn \in Nat /\ ticked \in BOOLEAN
  /\ delayLeft \in Int /\ age \in 0..MaxAge /\ rounds \in 0..MaxRuns
  /\ \A i \in DOMAIN runs :
       /\ runs[i].of \in 1..applied
       /\ runs[i].at \in {"new", "begun", "waiting", "connected", "held",
                          "answered", "done"}
       /\ runs[i].left >= -1
  /\ spareEnv \in [Versions -> 0..Len(runs)]
  /\ attempts \in [Versions -> 0..Len(runs)]
  /\ successes \in [Versions -> 0..Len(runs)]
  /\ crashed \in BOOLEAN

\* A version starts at most as many rounds as its age has periods, and one more
\* for a tick of the version before, which neither Reset nor Stop of a ticker
\* takes back; a version without a period starts none but that.
RoundsKeepPace ==
  (applied > 0 /\ age < MaxAge) =>
    LET period == Conf(applied).period
    IN rounds <= 1 + (IF period <= 0 THEN 0 ELSE age \div period)

\* No round starts before the initial delay of its version is over, though a
\* tick of the version before may be waiting when the delay begins.
DelayIsKept ==
  [][rounds' = rounds + 1 => age >= Conf(applied).delay]_vars

\* A success means that the probe was answered within its timeout.  The code
\* lets two through: a command whose output a child of it keeps open, and a
\* tcpSocket probe without expect steps that began to dial exactly when the
\* timeout ended.
SuccessInTime ==
  \A i \in DOMAIN runs :
    (runs[i].ok /\ runs[i].late) =>
      \/ runs[i].held
      \/ runs[i].unbounded /\ ~Conf(runs[i].of).steps

\* A run is counted on the metrics of the version that started it, when it
\* begins and when it succeeds, whatever was loaded in between.
CountedWhereStarted ==
  \A v \in Versions :
    /\ attempts[v] = Cardinality({i \in DOMAIN runs :
         runs[i].of = v /\ runs[i].tried})
    /\ successes[v] = Cardinality({i \in DOMAIN runs :
         runs[i].of = v /\ runs[i].at = "done" /\ runs[i].ok})

\* The command of an exec probe gets the trace ID of its own span unless three
\* variables or more are configured: then two runs that overlap can write to
\* the same place behind the end of action.env.
CommandHasItsTrace ==
  \A i \in DOMAIN runs :
    runs[i].trace \notin {0, i} => Conf(runs[i].of).env >= 3

\* Every run ends, unless the output of a command is kept open or a tcpSocket
\* probe dials without a timeout, and unless bunny crashes.
RunsEnd ==
  \A i \in 1..MaxRuns :
    (i \in DOMAIN runs) ~>
      \/ crashed
      \/ i \in DOMAIN runs /\ (runs[i].at \in {"done", "held"} \/ runs[i].unbounded)
=============================================================================
