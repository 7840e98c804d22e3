----------------------------- MODULE ExpectProofs -----------------------------
(***************************************************************************)
(* Proofs about Expect, for every configuration of a probe.                *)
(*                                                                         *)
(* Where each end is in its script, and how many texts wait for it, are    *)
(* tied together by counting.  In any conversation a probe has received    *)
(* and can still receive no more texts than Bee has sent (Delivered).  As  *)
(* long as the probe's script is answerable, nobody's deadline has passed  *)
(* and the probe is not finished, nothing is lost either: what waits for   *)
(* each end is exactly what the other has sent beyond what was received,   *)
(* text for text (InStep).  That a conversation is finite is shown with a  *)
(* measure that every step makes smaller (Work).                           *)
(***************************************************************************)
EXTENDS Expect, FiniteSetTheorems, TLAPS

\* How many steps of kind op the end e has behind it.
Done(e, op) == Count(script[e], pos[e] - 1, op)

\* Bee's script is fixed, and nothing happens before the probe connects.
Begun ==
  /\ script["bee"] = BeeScript
  /\ result["probe"] = "new" <=> result["bee"] = "new"
  /\ result["probe"] = "new" =>
       \A e \in Ends : pos[e] = 1 /\ inbound[e] = << >>
  /\ \A e \in Ends : result[e] = "succeeded" => pos[e] = Len(script[e]) + 1

Delivered ==
  Done("probe", "receive") + Len(inbound["probe"]) <= Done("bee", "send")

\* The texts that wait for e are those Bee's script has for the steps of kind
\* op that follow the first n.
Waiting(e, op, n) ==
  \A k \in DOMAIN inbound[e] : \E j \in DOMAIN BeeScript :
    /\ BeeScript[j].op = op
    /\ Count(BeeScript, j, op) = n + k
    /\ inbound[e][k] = Text(BeeScript[j])

\* Nothing is lost, and nothing waits that the other end did not mean.
Exact ==
  /\ result["bee"] \in {"running", "succeeded"}
  /\ Done("bee", "receive") + Len(inbound["bee"]) = Done("probe", "send")
  /\ Done("probe", "receive") + Len(inbound["probe"]) = Done("bee", "send")
  /\ Done("probe", "send") <= 2
  /\ Waiting("bee", "receive", Done("bee", "receive"))
  /\ Waiting("probe", "send", Done("probe", "receive"))

InStep ==
  Answerable(script["probe"]) /\ expired = {} /\ result["probe"] = "running"
    => Exact

IInv == TypeOK /\ Begun /\ Delivered /\ InStep /\ AnswerableSucceeds

-----------------------------------------------------------------------------
(* Counting steps. *)

\* A count is a natural number, and of no steps it is zero.
LEMMA CountType ==
  ASSUME NEW s, NEW n \in Nat, NEW op
  PROVE  Count(s, n, op) \in Nat /\ Count(s, 0, op) = 0
<1> DEFINE Of(m) == {i \in 1..m : s[i].op = op}
<1>1. IsFiniteSet(1..n)
  BY FS_Interval
<1>2. Of(n) \in SUBSET (1..n)
  OBVIOUS
<1>3. IsFiniteSet(Of(n))
  BY <1>1, <1>2, FS_Subset
<1>4. Cardinality(Of(n)) \in Nat
  BY <1>3, FS_CardinalityType
<1>5. Of(0) = {}
  OBVIOUS
<1>6. Cardinality(Of(0)) = 0
  BY <1>5, FS_EmptySet
<1> QED
  BY <1>4, <1>6 DEF Count

\* One step more counts one more if it is of that kind.
LEMMA CountNext ==
  ASSUME NEW s, NEW n \in Nat, NEW op
  PROVE  Count(s, n + 1, op) =
           IF s[n + 1].op = op THEN Count(s, n, op) + 1 ELSE Count(s, n, op)
<1> DEFINE Of(m) == {i \in 1..m : s[i].op = op}
<1>1. IsFiniteSet(1..n)
  BY FS_Interval
<1>2. Of(n) \in SUBSET (1..n)
  OBVIOUS
<1>3. IsFiniteSet(Of(n))
  BY <1>1, <1>2, FS_Subset
<1>4. CASE s[n + 1].op = op
  <2>1. Of(n + 1) = Of(n) \cup {n + 1}
    BY <1>4
  <2>2. n + 1 \notin Of(n)
    OBVIOUS
  <2>3. Cardinality(Of(n) \cup {n + 1}) = Cardinality(Of(n)) + 1
    BY <1>3, <2>2, FS_AddElement, Zenon
  <2> QED
    BY <1>4, <2>1, <2>3 DEF Count
<1>5. CASE s[n + 1].op # op
  <2>1. Of(n + 1) = Of(n)
    BY <1>5
  <2> QED
    BY <1>5, <2>1, Zenon DEF Count
<1> QED
  BY <1>4, <1>5

\* Four members of a set make a sequence over it.
LEMMA FourOf ==
  ASSUME NEW S, NEW a \in S, NEW b \in S, NEW c \in S, NEW d \in S
  PROVE  << a, b, c, d >> \in Seq(S)
OBVIOUS

\* Bee's four steps.
LEMMA BeeSteps ==
  /\ BeeScript \in Seq(ExpectStep)
  /\ Len(BeeScript) = 4 /\ DOMAIN BeeScript = 1..4
  /\ BeeScript[1].op = "receive" /\ BeeScript[2].op = "send"
  /\ BeeScript[3].op = "receive" /\ BeeScript[4].op = "send"
  /\ \A j \in 1..4 : BeeScript[j].delimiter = Newline
<1> DEFINE Line(op, w) == [op |-> op, word |-> w, delimiter |-> Newline]
<1>1. /\ BeeScript[1] = Line("receive", BeeScript[1].word)
      /\ BeeScript[2] = Line("send", BeeScript[2].word)
      /\ BeeScript[3] = Line("receive", BeeScript[3].word)
      /\ BeeScript[4] = Line("send", BeeScript[4].word)
  BY DEF BeeScript
<1>2. /\ BeeScript[1] \in ExpectStep /\ BeeScript[2] \in ExpectStep
      /\ BeeScript[3] \in ExpectStep /\ BeeScript[4] \in ExpectStep
  BY <1>1, TextsAssumption DEF ExpectStep
<1>3. BeeScript \in Seq(ExpectStep)
  <2>1. BeeScript = << BeeScript[1], BeeScript[2], BeeScript[3], BeeScript[4] >>
    BY DEF BeeScript
  <2> QED
    BY <1>2, <2>1, FourOf, Zenon
<1>4. Len(BeeScript) = 4 /\ DOMAIN BeeScript = 1..4
  BY DEF BeeScript
<1>5. /\ BeeScript[1].op = "receive" /\ BeeScript[2].op = "send"
      /\ BeeScript[3].op = "receive" /\ BeeScript[4].op = "send"
  BY DEF BeeScript
<1>6. /\ BeeScript[1].delimiter = Newline /\ BeeScript[2].delimiter = Newline
      /\ BeeScript[3].delimiter = Newline /\ BeeScript[4].delimiter = Newline
  BY DEF BeeScript
<1> QED
  BY <1>3, <1>4, <1>5, <1>6

\* How many of its first n steps Bee receives and how many it sends.
LEMMA BeeCounts ==
  /\ Count(BeeScript, 0, "receive") = 0 /\ Count(BeeScript, 0, "send") = 0
  /\ Count(BeeScript, 1, "receive") = 1 /\ Count(BeeScript, 1, "send") = 0
  /\ Count(BeeScript, 2, "receive") = 1 /\ Count(BeeScript, 2, "send") = 1
  /\ Count(BeeScript, 3, "receive") = 2 /\ Count(BeeScript, 3, "send") = 1
  /\ Count(BeeScript, 4, "receive") = 2 /\ Count(BeeScript, 4, "send") = 2
<1>0. Count(BeeScript, 0, "receive") = 0 /\ Count(BeeScript, 0, "send") = 0
  BY CountType
<1>1. Count(BeeScript, 1, "receive") = 1 /\ Count(BeeScript, 1, "send") = 0
  <2>1. 0 \in Nat /\ 0 + 1 = 1
    OBVIOUS
  <2> QED
    BY <1>0, <2>1, CountNext, BeeSteps
<1>2. Count(BeeScript, 2, "receive") = 1 /\ Count(BeeScript, 2, "send") = 1
  <2>1. 1 \in Nat /\ 1 + 1 = 2
    OBVIOUS
  <2> QED
    BY <1>1, <2>1, CountNext, BeeSteps
<1>3. Count(BeeScript, 3, "receive") = 2 /\ Count(BeeScript, 3, "send") = 1
  <2>1. 2 \in Nat /\ 2 + 1 = 3
    OBVIOUS
  <2> QED
    BY <1>2, <2>1, CountNext, BeeSteps
<1>4. Count(BeeScript, 4, "receive") = 2 /\ Count(BeeScript, 4, "send") = 2
  <2>1. 3 \in Nat /\ 3 + 1 = 4
    OBVIOUS
  <2> QED
    BY <1>3, <2>1, CountNext, BeeSteps
<1> QED
  BY <1>0, <1>1, <1>2, <1>3, <1>4

\* Kind and count tell a step of Bee's script.
LEMMA BeePlace ==
  ASSUME NEW j \in 1..4, NEW k \in 1..4, BeeScript[j].op = BeeScript[k].op,
         Count(BeeScript, j, BeeScript[j].op)
           = Count(BeeScript, k, BeeScript[k].op)
  PROVE  j = k
<1>1. j \in {1, 2, 3, 4} /\ k \in {1, 2, 3, 4}
  OBVIOUS
<1> QED
  BY <1>1, BeeSteps, BeeCounts

\* There are two steps of each kind.
LEMMA BeeTwo ==
  ASSUME NEW j \in 1..4
  PROVE  Count(BeeScript, j, BeeScript[j].op) \in {1, 2}
<1>1. j \in {1, 2, 3, 4}
  OBVIOUS
<1> QED
  BY <1>1, BeeSteps, BeeCounts

-----------------------------------------------------------------------------
(* Where an end is in its script. *)

\* A step done is counted, and the others stay.
LEMMA DoneSteps ==
  ASSUME TypeOK, NEW e \in Ends, NEW op
  PROVE  /\ Done(e, op) \in Nat
         /\ script'[e] = script[e] /\ pos'[e] = pos[e] =>
              Done(e, op)' = Done(e, op)
         /\ script'[e] = script[e] /\ pos'[e] = pos[e] + 1 =>
              Done(e, op)' = IF Step(e).op = op THEN Done(e, op) + 1
                                                ELSE Done(e, op)
<1>1. pos[e] - 1 \in Nat /\ (pos[e] - 1) + 1 = pos[e]
  BY DEF TypeOK
<1>2. Done(e, op) \in Nat
  BY <1>1, CountType DEF Done
<1>3. ASSUME script'[e] = script[e], pos'[e] = pos[e]
      PROVE  Done(e, op)' = Done(e, op)
  BY <1>3 DEF Done
<1>4. ASSUME script'[e] = script[e], pos'[e] = pos[e] + 1
      PROVE  Done(e, op)' = IF Step(e).op = op THEN Done(e, op) + 1
                                               ELSE Done(e, op)
  <2>1. pos'[e] - 1 = pos[e]
    BY <1>1, <1>4
  <2>2. Done(e, op)' = Count(script[e], pos[e], op)
    BY <1>4, <2>1 DEF Done
  <2>3. Count(script[e], pos[e], op) =
          IF script[e][pos[e]].op = op THEN Count(script[e], pos[e] - 1, op) + 1
                                       ELSE Count(script[e], pos[e] - 1, op)
    BY <1>1, CountNext
  <2> QED
    BY <2>2, <2>3 DEF Done, Step
<1> QED
  BY <1>2, <1>3, <1>4

\* A step that newExpectStep keeps is a step.
LEMMA KeptStep ==
  ASSUME NEW c \in ExpectConfig
  PROVE  newExpectStep(c) \in Seq(ExpectStep)
<1> DEFINE kept == [op |-> c.kind, word |-> c.word, delimiter |-> c.delimiter]
<1>1. << >> \in Seq(ExpectStep)
  OBVIOUS
<1>2. ASSUME c.kind = "send" \/ (c.kind = "receive" /\ c.compiles),
             c.delimiter # "long"
      PROVE  << kept >> \in Seq(ExpectStep)
  <2>1. kept \in ExpectStep
    BY <1>2 DEF ExpectConfig, ExpectStep
  <2> HIDE DEF kept
  <2> QED
    BY <2>1
<1> QED
  BY <1>1, <1>2 DEF newExpectStep

-----------------------------------------------------------------------------
(* Type correctness. *)

\* The types hold at first.
LEMMA TypeInit == Init => TypeOK
BY BeeSteps, ConfsAssumption DEF Init, TypeOK, Ends

\* Every step keeps them.
LEMMA TypeStep == TypeOK /\ [Next]_vars => TypeOK'
<1> SUFFICES ASSUME TypeOK, [Next]_vars PROVE TypeOK'
  OBVIOUS
<1>1. CASE newTCPSocketAction
  <2>1. Head(conf) \in ExpectConfig /\ Tail(conf) \in Seq(ExpectConfig)
    BY <1>1 DEF newTCPSocketAction, TypeOK
  <2>2. newExpectStep(Head(conf)) \in Seq(ExpectStep)
    BY <2>1, KeptStep
  <2>3. ASSUME NEW s \in Seq(ExpectStep), NEW t \in Seq(ExpectStep)
        PROVE  s \o t \in Seq(ExpectStep) /\ Len(s) <= Len(s \o t)
    BY <2>3
  <2>4. "probe" \in Ends /\ script["probe"] \in Seq(ExpectStep)
    BY DEF TypeOK, Ends
  <2>5. script["probe"] \o newExpectStep(Head(conf)) \in Seq(ExpectStep)
    BY <2>2, <2>3, <2>4
  <2>6. script' \in [Ends -> Seq(ExpectStep)]
    BY <1>1, <2>5, Zenon DEF newTCPSocketAction, TypeOK
  <2>7. \A e \in Ends : Len(script[e]) <= Len(script'[e])
    BY <1>1, <2>2, <2>3, <2>4 DEF newTCPSocketAction, TypeOK, Ends
  <2>8. \A e \in Ends : pos[e] <= Len(script'[e]) + 1
    BY <2>6, <2>7 DEF TypeOK
  <2> QED
    BY <1>1, <2>1, <2>6, <2>8, SMTT(30) DEF newTCPSocketAction, TypeOK
<1>2. CASE Dial
  BY <1>2 DEF Dial, TypeOK
<1>3. ASSUME NEW e \in Ends, Send(e) PROVE TypeOK'
  <2>1. Step(e) \in ExpectStep
    BY <1>3 DEF Send, At, Step, TypeOK
  <2>2. Text(Step(e)) \in Texts
    BY <2>1 DEF Text, Texts, ExpectStep
  <2>3. Peer(e) \in Ends
    BY DEF Peer, Ends
  <2>4. Append(inbound[Peer(e)], Text(Step(e))) \in Seq(Texts)
    BY <2>2, <2>3 DEF TypeOK
  <2>5. inbound' \in [Ends -> Seq(Texts)]
    BY <1>3, <2>4, Zenon DEF Send, TypeOK
  <2>6. /\ pos' \in [Ends -> Nat \ {0}]
        /\ \A x \in Ends : pos'[x] <= Len(script[x]) + 1
    BY <1>3 DEF Send, At, TypeOK
  <2> QED
    BY <1>3, <2>5, <2>6 DEF Send, TypeOK
<1>4. ASSUME NEW e \in Ends, Receive(e) PROVE TypeOK'
  <2>1. PICK n \in DOMAIN inbound[e] :
          /\ inbound' = [inbound EXCEPT ![e] = SubSeq(@, n + 1, Len(@))]
          /\ IF Matches(e, n)
               THEN pos' = [pos EXCEPT ![e] = @ + 1] /\ UNCHANGED result
               ELSE End(e, "failed") /\ UNCHANGED pos
    BY <1>4, Zenon DEF Receive
  <2>2. inbound[e] \in Seq(Texts)
    BY DEF TypeOK
  <2>3. ASSUME NEW q \in Seq(Texts), NEW m \in DOMAIN q
        PROVE  SubSeq(q, m + 1, Len(q)) \in Seq(Texts)
    BY <2>3
  <2>4. SubSeq(inbound[e], n + 1, Len(inbound[e])) \in Seq(Texts)
    BY <2>2, <2>3
  <2>5. inbound' \in [Ends -> Seq(Texts)]
    BY <2>1, <2>4 DEF TypeOK
  <2>6. /\ pos' \in [Ends -> Nat \ {0}]
        /\ \A x \in Ends : pos'[x] <= Len(script[x]) + 1
    <3>1. pos[e] <= Len(script[e]) /\ Len(script[e]) \in Nat
      BY <1>4 DEF Receive, At, TypeOK
    <3>2. pos' = pos \/ pos' = [pos EXCEPT ![e] = @ + 1]
      BY <2>1
    <3>3. CASE pos' = pos
      BY <3>3 DEF TypeOK
    <3>4. CASE pos' = [pos EXCEPT ![e] = @ + 1]
      BY <3>1, <3>4 DEF TypeOK
    <3> QED
      BY <3>2, <3>3, <3>4
  <2>7. result' \in [Ends -> {"new", "running", "succeeded", "failed",
                              "panicked"}]
    BY <2>1, Zenon DEF End, TypeOK
  <2> QED
    BY <1>4, <2>5, <2>6, <2>7, SMTT(30) DEF Receive, TypeOK
<1>5. ASSUME NEW e \in Ends, Succeed(e) \/ Fail(e) PROVE TypeOK'
  BY <1>5, Zenon DEF Succeed, Fail, End, TypeOK
<1>6. ASSUME NEW e \in Ends, Expire(e) PROVE TypeOK'
  BY <1>6 DEF Expire, TypeOK
<1>7. ASSUME NEW e \in Ends, Reset(e) PROVE TypeOK'
  BY <1>7 DEF Reset, TypeOK
<1>8. CASE UNCHANGED vars
  BY <1>8 DEF vars, TypeOK
<1> QED
  BY <1>1, <1>2, <1>3, <1>4, <1>5, <1>6, <1>7, <1>8 DEF Next, Converse

-----------------------------------------------------------------------------
(* The ends and their peers. *)

\* What a receive takes and where it leads.
LEMMA Received ==
  ASSUME TypeOK, NEW e \in Ends, Receive(e)
  PROVE  \E n \in 1..Len(inbound[e]) :
           /\ EndsLine(e, n)
           /\ inbound'[e] = SubSeq(inbound[e], n + 1, Len(inbound[e]))
           /\ Len(inbound'[e]) = Len(inbound[e]) - n
           /\ \A k \in 1..(Len(inbound[e]) - n) : inbound'[e][k] = inbound[e][n + k]
           /\ \A x \in Ends \ {e} : inbound'[x] = inbound[x] /\ pos'[x] = pos[x]
                                      /\ result'[x] = result[x]
           /\ IF Matches(e, n)
                THEN pos'[e] = pos[e] + 1 /\ result' = result
                ELSE pos' = pos /\ result'[e] = "failed"
<1>1. inbound[e] \in Seq(Texts) /\ DOMAIN inbound[e] = 1..Len(inbound[e])
  BY DEF TypeOK
<1>2. PICK n \in 1..Len(inbound[e]) :
        /\ EndsLine(e, n)
        /\ inbound' = [inbound EXCEPT ![e] = SubSeq(@, n + 1, Len(@))]
        /\ IF Matches(e, n)
             THEN pos' = [pos EXCEPT ![e] = @ + 1] /\ UNCHANGED result
             ELSE End(e, "failed") /\ UNCHANGED pos
  BY <1>1, Zenon DEF Receive
<1>3. /\ inbound'[e] = SubSeq(inbound[e], n + 1, Len(inbound[e]))
      /\ \A x \in Ends \ {e} : inbound'[x] = inbound[x]
  BY <1>2 DEF TypeOK
<1>4. ASSUME NEW q \in Seq(Texts), NEW m \in 1..Len(q)
      PROVE  /\ Len(SubSeq(q, m + 1, Len(q))) = Len(q) - m
             /\ \A k \in 1..(Len(q) - m) : SubSeq(q, m + 1, Len(q))[k] = q[m + k]
  BY <1>4
<1>5. /\ Len(inbound'[e]) = Len(inbound[e]) - n
      /\ \A k \in 1..(Len(inbound[e]) - n) : inbound'[e][k] = inbound[e][n + k]
  BY <1>1, <1>3, <1>4
<1>6. CASE Matches(e, n)
  <2>1. pos' = [pos EXCEPT ![e] = @ + 1] /\ result' = result
    BY <1>2, <1>6
  <2>2. pos'[e] = pos[e] + 1 /\ \A x \in Ends \ {e} : pos'[x] = pos[x]
    BY <2>1 DEF TypeOK
  <2> QED
    BY <1>2, <1>3, <1>5, <1>6, <2>1, <2>2
<1>7. CASE ~Matches(e, n)
  <2>1. pos' = pos /\ result' = [result EXCEPT ![e] = "failed"]
    BY <1>2, <1>7 DEF End
  <2>2. result'[e] = "failed" /\ \A x \in Ends \ {e} : result'[x] = result[x]
    BY <2>1 DEF TypeOK
  <2> QED
    BY <1>2, <1>3, <1>5, <1>7, <2>1, <2>2, SMTT(30)
<1> QED
  BY <1>6, <1>7

\* What a send adds and where it leads.
LEMMA SentOn ==
  ASSUME TypeOK, NEW e \in Ends, Send(e)
  PROVE  /\ Peer(e) \in Ends /\ Peer(e) # e
         /\ Len(inbound'[Peer(e)]) = Len(inbound[Peer(e)]) + 1
         /\ inbound'[Peer(e)][Len(inbound[Peer(e)]) + 1] = Text(Step(e))
         /\ \A k \in 1..Len(inbound[Peer(e)]) :
              inbound'[Peer(e)][k] = inbound[Peer(e)][k]
         /\ inbound'[e] = inbound[e]
         /\ pos'[e] = pos[e] + 1 /\ pos'[Peer(e)] = pos[Peer(e)]
<1>1. Peer(e) \in Ends /\ Peer(e) # e
  BY DEF Peer, Ends
<1>2. /\ inbound'[Peer(e)] = Append(inbound[Peer(e)], Text(Step(e)))
      /\ inbound'[e] = inbound[e]
  BY <1>1 DEF Send, TypeOK
<1>3. pos'[e] = pos[e] + 1 /\ pos'[Peer(e)] = pos[Peer(e)]
  BY <1>1 DEF Send, TypeOK
<1>4. inbound[Peer(e)] \in Seq(Texts)
  BY <1>1 DEF TypeOK
<1>5. ASSUME NEW q \in Seq(Texts), NEW x
      PROVE  /\ Len(Append(q, x)) = Len(q) + 1
             /\ Append(q, x)[Len(q) + 1] = x
             /\ \A k \in 1..Len(q) : Append(q, x)[k] = q[k]
  BY <1>5
<1> QED
  BY <1>1, <1>2, <1>3, <1>4, <1>5

\* The script of the end e is no longer written, and e has something to do.
LEMMA AtStep ==
  ASSUME TypeOK, NEW e \in Ends, NEW op, At(e, op)
  PROVE  /\ Step(e) \in ExpectStep /\ Step(e).op = op
         /\ pos[e] \in 1..Len(script[e]) /\ pos[e] \in DOMAIN script[e]
         /\ Step(e) = script[e][pos[e]]
         /\ Count(script[e], pos[e], op) = Done(e, op) + 1
<1>1. pos[e] \in 1..Len(script[e]) /\ pos[e] \in DOMAIN script[e]
  BY DEF At, TypeOK
<1>2. Step(e) \in ExpectStep /\ Step(e).op = op
  BY <1>1 DEF At, Step, TypeOK
<1>3. pos[e] - 1 \in Nat /\ (pos[e] - 1) + 1 = pos[e]
  BY DEF TypeOK
<1>4. Count(script[e], pos[e], op) = Count(script[e], pos[e] - 1, op) + 1
  BY <1>2, <1>3, CountNext DEF Step
<1> QED
  BY <1>1, <1>2, <1>4 DEF Done, Step

-----------------------------------------------------------------------------
(* The inductive invariant, conjunct by conjunct. *)

\* Bee's script stays, and an end that succeeded is at the end of its own.
LEMMA BegunStep == TypeOK /\ Begun /\ [Next]_vars => Begun'
<1> SUFFICES ASSUME TypeOK, Begun, [Next]_vars PROVE Begun'
  OBVIOUS
<1>1. CASE newTCPSocketAction
  <2>1. /\ script'["bee"] = script["bee"] /\ pos' = pos /\ inbound' = inbound
        /\ \/ result' = result /\ result["probe"] = "new"
           \/ result' = [e \in Ends |-> "panicked"]
    BY <1>1 DEF newTCPSocketAction, TypeOK, Ends
  <2> QED
    BY <2>1 DEF Begun, Ends
<1>2. CASE Dial
  BY <1>2 DEF Dial, Begun, Ends
<1>3. ASSUME NEW e \in Ends, Send(e) PROVE Begun'
  <2>1. /\ script' = script /\ result' = result /\ result[e] = "running"
        /\ \A x \in Ends : pos'[x] = pos[x] \/ x = e
    BY <1>3 DEF Send, At, TypeOK
  <2> QED
    BY <2>1 DEF Begun, Ends
<1>4. ASSUME NEW e \in Ends, Receive(e) PROVE Begun'
  <2>1. script' = script /\ result[e] = "running"
    BY <1>4 DEF Receive, At
  <2>2. /\ result'[e] \in {"running", "failed"}
        /\ \A x \in Ends \ {e} : result'[x] = result[x] /\ pos'[x] = pos[x]
    BY <1>4, <2>1, Received
  <2> QED
    BY <2>1, <2>2 DEF Begun, Ends
<1>5. ASSUME NEW e \in Ends, Succeed(e) PROVE Begun'
  <2>1. /\ script' = script /\ pos' = pos /\ result[e] = "running"
        /\ result'[e] = "succeeded"
        /\ \A x \in Ends \ {e} : result'[x] = result[x]
    BY <1>5 DEF Succeed, End, TypeOK
  <2>2. pos[e] = Len(script[e]) + 1
    BY <1>5 DEF Succeed, TypeOK
  <2> QED
    BY <2>1, <2>2 DEF Begun, Ends
<1>6. ASSUME NEW e \in Ends, Fail(e) PROVE Begun'
  <2>1. /\ script' = script /\ pos' = pos /\ result[e] = "running"
        /\ result'[e] = "failed"
        /\ \A x \in Ends \ {e} : result'[x] = result[x]
    BY <1>6 DEF Fail, At, End, TypeOK
  <2> QED
    BY <2>1 DEF Begun, Ends
<1>7. ASSUME NEW e \in Ends, Expire(e) PROVE Begun'
  BY <1>7 DEF Expire, Begun
<1>8. ASSUME NEW e \in Ends, Reset(e) PROVE Begun'
  <2>1. /\ script' = script /\ pos' = pos /\ result' = result
        /\ result[Peer(e)] # "new"
    BY <1>8 DEF Reset, Closed
  <2> QED
    BY <2>1 DEF Begun, Peer, Ends
<1>9. CASE UNCHANGED vars
  BY <1>9 DEF vars, Begun
<1> QED
  BY <1>1, <1>2, <1>3, <1>4, <1>5, <1>6, <1>7, <1>8, <1>9 DEF Next, Converse

\* Of what Bee sent nothing is received twice, by whatever steps.
LEMMA DeliveredStep ==
  TypeOK /\ Begun /\ Delivered /\ [Next]_vars => Delivered'
<1> SUFFICES ASSUME TypeOK, Begun, Delivered, [Next]_vars PROVE Delivered'
  OBVIOUS
<1>0. /\ TypeOK' /\ "probe" \in Ends /\ "bee" \in Ends
      /\ Len(inbound["probe"]) \in Nat /\ Len(inbound'["probe"]) \in Nat
  <2>1. TypeOK'
    BY TypeStep
  <2> QED
    BY <2>1, SMTT(30) DEF TypeOK, Ends
<1>a. /\ Done("probe", "receive") \in Nat /\ Done("bee", "send") \in Nat
  BY <1>0, DoneSteps
<1>1. CASE newTCPSocketAction \/ Dial
  <2>1. /\ pos' = pos /\ inbound' = inbound
        /\ pos["probe"] = 1 /\ pos["bee"] = 1 /\ inbound["probe"] = << >>
    BY <1>1, Zenon DEF newTCPSocketAction, Dial, Begun, Ends
  <2>2. Done("probe", "receive")' = 0
    <3>1. pos'["probe"] - 1 = 0
      BY <2>1
    <3> QED
      BY <3>1, CountType DEF Done
  <2>3. Done("bee", "send")' = 0
    <3>1. pos'["bee"] - 1 = 0
      BY <2>1
    <3> QED
      BY <3>1, CountType DEF Done
  <2>4. Len(inbound'["probe"]) = 0
    BY <2>1
  <2> QED
    BY <2>2, <2>3, <2>4 DEF Delivered
<1>2. ASSUME script' = script, pos' = pos,
             Len(inbound'["probe"]) <= Len(inbound["probe"])
      PROVE  Delivered'
  <2>1. /\ Done("probe", "receive")' = Done("probe", "receive")
        /\ Done("bee", "send")' = Done("bee", "send")
    BY <1>2 DEF Done
  <2> QED
    BY <1>0, <1>2, <1>a, <2>1 DEF Delivered
<1>3. CASE Send("probe")
  <2>1. /\ script' = script /\ pos'["probe"] = pos["probe"] + 1
        /\ pos'["bee"] = pos["bee"] /\ inbound'["probe"] = inbound["probe"]
    BY <1>0, <1>3, SentOn, Zenon DEF Send, Peer
  <2>2. Step("probe").op # "receive"
    BY <1>0, <1>3, AtStep DEF Send
  <2>3. /\ Done("probe", "receive")' = Done("probe", "receive")
        /\ Done("bee", "send")' = Done("bee", "send")
    BY <1>0, <2>1, <2>2, DoneSteps
  <2> QED
    BY <2>1, <2>3 DEF Delivered
<1>4. CASE Send("bee")
  <2>1. /\ script' = script /\ pos'["bee"] = pos["bee"] + 1
        /\ pos'["probe"] = pos["probe"]
        /\ Len(inbound'["probe"]) = Len(inbound["probe"]) + 1
    BY <1>0, <1>4, SentOn, Zenon DEF Send, Peer
  <2>2. Step("bee").op = "send"
    BY <1>0, <1>4, AtStep DEF Send
  <2>3. /\ Done("probe", "receive")' = Done("probe", "receive")
        /\ Done("bee", "send")' = Done("bee", "send") + 1
    BY <1>0, <2>1, <2>2, DoneSteps
  <2> QED
    BY <1>0, <1>a, <2>1, <2>3 DEF Delivered
<1>5. CASE Receive("probe")
  <2>1. /\ script' = script /\ pos'["bee"] = pos["bee"]
        /\ \/ pos'["probe"] = pos["probe"] + 1
           \/ pos'["probe"] = pos["probe"]
        /\ Len(inbound'["probe"]) + 1 <= Len(inbound["probe"])
    <3>1. PICK n \in 1..Len(inbound["probe"]) :
            /\ Len(inbound'["probe"]) = Len(inbound["probe"]) - n
            /\ \A x \in Ends \ {"probe"} : pos'[x] = pos[x]
            /\ IF Matches("probe", n) THEN pos'["probe"] = pos["probe"] + 1
                                      ELSE pos' = pos
      BY <1>0, <1>5, Received
    <3>2. "bee" \in Ends \ {"probe"} /\ script' = script
      BY <1>5 DEF Ends, Receive
    <3>3. \/ pos'["probe"] = pos["probe"] + 1
          \/ pos'["probe"] = pos["probe"]
      BY <3>1
    <3>4. Len(inbound'["probe"]) + 1 <= Len(inbound["probe"])
      BY <1>0, <3>1
    <3> QED
      BY <3>1, <3>2, <3>3, <3>4
  <2>2. Step("probe").op = "receive"
    BY <1>0, <1>5, AtStep DEF Receive
  <2>3. /\ Done("probe", "receive")' <= Done("probe", "receive") + 1
        /\ Done("probe", "receive")' \in Nat
        /\ Done("bee", "send")' = Done("bee", "send")
    BY <1>0, <1>a, <2>1, <2>2, DoneSteps
  <2> QED
    BY <1>0, <1>a, <2>1, <2>3 DEF Delivered
<1>6. CASE Receive("bee")
  <2>1. /\ script' = script /\ pos'["probe"] = pos["probe"]
        /\ inbound'["probe"] = inbound["probe"]
        /\ pos'["bee"] = pos["bee"] + 1 \/ pos'["bee"] = pos["bee"]
    <3>1. "probe" \in Ends \ {"bee"} /\ script' = script
      BY <1>6 DEF Ends, Receive
    <3> QED
      BY <1>0, <1>6, <3>1, Received
  <2>2. Step("bee").op = "receive"
    BY <1>0, <1>6, AtStep DEF Receive
  <2>3. /\ Done("probe", "receive")' = Done("probe", "receive")
        /\ Done("bee", "send")' = Done("bee", "send")
    BY <1>0, <2>1, <2>2, DoneSteps
  <2> QED
    BY <2>1, <2>3 DEF Delivered
<1>7. ASSUME NEW e \in Ends, Succeed(e) \/ Fail(e) \/ Expire(e)
      PROVE  Delivered'
  BY <1>0, <1>2, <1>7 DEF Succeed, Fail, Expire
<1>8. ASSUME NEW e \in Ends, Reset(e) PROVE Delivered'
  <2>1. inbound'["probe"] = << >> \/ inbound'["probe"] = inbound["probe"]
    BY <1>8 DEF Reset, TypeOK, Ends
  <2>2. Len(inbound'["probe"]) <= Len(inbound["probe"])
    BY <1>0, <2>1
  <2> QED
    BY <1>2, <1>8, <2>2 DEF Reset
<1>9. CASE UNCHANGED vars
  BY <1>0, <1>2, <1>9 DEF vars
<1> QED
  BY <1>1, <1>3, <1>4, <1>5, <1>6, <1>7, <1>8, <1>9 DEF Next, Converse, Ends

\* Where a probe with an answerable script is: its step is the next that Bee
\* has for it.
LEMMA NextOfBee ==
  ASSUME TypeOK, Answerable(script["probe"]), NEW op, At("probe", op)
  PROVE  \E j \in 1..4 :
           /\ BeeScript[j].op # op /\ BeeScript[j].op \in {"send", "receive"}
           /\ Count(BeeScript, j, BeeScript[j].op) = Done("probe", op) + 1
           /\ Text(BeeScript[j]) = Text(Step("probe"))
<1>1. /\ pos["probe"] \in DOMAIN script["probe"] /\ Step("probe").op = op
      /\ Step("probe") = script["probe"][pos["probe"]]
      /\ Count(script["probe"], pos["probe"], op) = Done("probe", op) + 1
  BY AtStep DEF Ends
<1>2. PICK j \in DOMAIN BeeScript :
        /\ BeeScript[j].op # Step("probe").op
        /\ Count(BeeScript, j, BeeScript[j].op)
             = Count(script["probe"], pos["probe"], Step("probe").op)
        /\ Text(BeeScript[j]) = Text(Step("probe"))
  BY <1>1 DEF Answerable
<1>3. j \in 1..4 /\ BeeScript[j].op \in {"send", "receive"}
  <2>1. j \in {1, 2, 3, 4}
    BY BeeSteps
  <2> QED
    BY <2>1, BeeSteps
<1> QED
  BY <1>1, <1>2, <1>3

\* A text sent after those that wait is one that waits.
LEMMA WaitingLonger ==
  ASSUME TypeOK, TypeOK', NEW e \in Ends, NEW op, NEW n \in Nat, NEW j \in 1..4,
         Waiting(e, op, n), BeeScript[j].op = op,
         Count(BeeScript, j, op) = n + Len(inbound[e]) + 1,
         Len(inbound'[e]) = Len(inbound[e]) + 1,
         inbound'[e][Len(inbound[e]) + 1] = Text(BeeScript[j]),
         \A k \in 1..Len(inbound[e]) : inbound'[e][k] = inbound[e][k]
  PROVE  Waiting(e, op, n)'
<1>1. /\ DOMAIN inbound[e] = 1..Len(inbound[e]) /\ Len(inbound[e]) \in Nat
      /\ DOMAIN inbound'[e] = 1..Len(inbound'[e]) /\ DOMAIN BeeScript = 1..4
  BY BeeSteps DEF TypeOK
<1> SUFFICES ASSUME NEW k \in 1..Len(inbound'[e])
             PROVE  \E i \in 1..4 : /\ BeeScript[i].op = op
                                    /\ Count(BeeScript, i, op) = n + k
                                    /\ inbound'[e][k] = Text(BeeScript[i])
  BY <1>1, SMTT(30) DEF Waiting
<1>2. CASE k \in 1..Len(inbound[e])
  BY <1>1, <1>2, ZenonT(60) DEF Waiting
<1>3. CASE k = Len(inbound[e]) + 1
  <2>1. Count(BeeScript, j, op) = n + k
    BY <1>1, <1>3
  <2> QED
    BY <1>3, <2>1
<1> QED
  BY <1>1, <1>2, <1>3

\* Without the first text, the others wait behind one step more.
LEMMA WaitingShorter ==
  ASSUME TypeOK, TypeOK', NEW e \in Ends, NEW op, NEW n \in Nat,
         Waiting(e, op, n), Len(inbound[e]) >= 1,
         Len(inbound'[e]) = Len(inbound[e]) - 1,
         \A k \in 1..(Len(inbound[e]) - 1) : inbound'[e][k] = inbound[e][1 + k]
  PROVE  Waiting(e, op, n + 1)'
<1>1. /\ DOMAIN inbound[e] = 1..Len(inbound[e]) /\ Len(inbound[e]) \in Nat
      /\ DOMAIN inbound'[e] = 1..Len(inbound'[e]) /\ DOMAIN BeeScript = 1..4
  BY BeeSteps DEF TypeOK
<1> SUFFICES ASSUME NEW k \in 1..Len(inbound'[e])
             PROVE  \E i \in 1..4 : /\ BeeScript[i].op = op
                                    /\ Count(BeeScript, i, op) = (n + 1) + k
                                    /\ inbound'[e][k] = Text(BeeScript[i])
  BY <1>1, SMTT(30) DEF Waiting
<1>2. 1 + k \in 1..Len(inbound[e]) /\ inbound'[e][k] = inbound[e][1 + k]
  BY <1>1
<1>3. PICK i \in 1..4 : /\ BeeScript[i].op = op
                        /\ Count(BeeScript, i, op) = n + (1 + k)
                        /\ inbound[e][1 + k] = Text(BeeScript[i])
  BY <1>1, <1>2, Zenon DEF Waiting
<1>4. n + (1 + k) = (n + 1) + k
  OBVIOUS
<1> QED
  BY <1>2, <1>3, <1>4

\* A receive that finds the text it expects first takes exactly that.
LEMMA TakesFirst ==
  ASSUME TypeOK, NEW e \in Ends, Receive(e), inbound[e][1] = Text(Step(e))
  PROVE  /\ Len(inbound[e]) >= 1 /\ Len(inbound'[e]) = Len(inbound[e]) - 1
         /\ \A k \in 1..(Len(inbound[e]) - 1) : inbound'[e][k] = inbound[e][1 + k]
         /\ pos'[e] = pos[e] + 1 /\ result' = result
         /\ \A x \in Ends \ {e} : inbound'[x] = inbound[x] /\ pos'[x] = pos[x]
<1>1. PICK n \in 1..Len(inbound[e]) :
        /\ EndsLine(e, n)
        /\ Len(inbound'[e]) = Len(inbound[e]) - n
        /\ \A k \in 1..(Len(inbound[e]) - n) : inbound'[e][k] = inbound[e][n + k]
        /\ \A x \in Ends \ {e} : inbound'[x] = inbound[x] /\ pos'[x] = pos[x]
        /\ IF Matches(e, n)
             THEN pos'[e] = pos[e] + 1 /\ result' = result
             ELSE pos' = pos /\ result'[e] = "failed"
  BY Received
<1>2. /\ inbound[e][1].word = Step(e).word
      /\ inbound[e][1].delimiter = Step(e).delimiter
  BY DEF Text
<1>3. Len(inbound[e]) \in Nat
  BY DEF TypeOK
<1>4. n = 1
  <2>1. n \in Nat /\ n >= 1
    BY <1>3
  <2>2. ~(1 \in 1..(n - 1))
    BY <1>1, <1>2 DEF EndsLine
  <2> QED
    BY <2>1, <2>2
<1>5. Matches(e, n)
  BY <1>2, <1>4 DEF Matches
<1> QED
  BY <1>1, <1>3, <1>4, <1>5

\* Steps of a conversation that is in step: it stays so, and the probe does not
\* fail.
LEMMA ExactStep ==
  ASSUME TypeOK, TypeOK', Begun, Answerable(script["probe"]), expired = {},
         result["probe"] = "running", Exact, [Next]_vars, expired' = {}
  PROVE  result'["probe"] # "failed" /\ Exact'
<1>0. /\ "probe" \in Ends /\ "bee" \in Ends
      /\ "bee" \in Ends \ {"probe"} /\ "probe" \in Ends \ {"bee"}
      /\ Peer("probe") = "bee" /\ Peer("bee") = "probe"
  BY DEF Ends, Peer
<1>a. /\ Done("probe", "receive") \in Nat /\ Done("bee", "receive") \in Nat
      /\ Done("probe", "send") \in Nat /\ Done("bee", "send") \in Nat
      /\ Len(inbound["probe"]) \in Nat /\ Len(inbound["bee"]) \in Nat
      /\ DOMAIN inbound["probe"] = 1..Len(inbound["probe"])
      /\ DOMAIN inbound["bee"] = 1..Len(inbound["bee"])
      /\ script["bee"] = BeeScript /\ DOMAIN BeeScript = 1..4
  <2>1. /\ Done("probe", "receive") \in Nat /\ Done("bee", "receive") \in Nat
        /\ Done("probe", "send") \in Nat /\ Done("bee", "send") \in Nat
    BY <1>0, DoneSteps
  <2>2. inbound["probe"] \in Seq(Texts) /\ inbound["bee"] \in Seq(Texts)
    BY <1>0 DEF TypeOK
  <2>3. script["bee"] = BeeScript /\ DOMAIN BeeScript = 1..4
    BY BeeSteps DEF Begun
  <2> QED
    BY <2>1, <2>2, <2>3
<1>b. ~Closed("probe")
  BY DEF Closed
<1>c. Closed("bee") =>
        Done("bee", "receive") = 2 /\ Done("bee", "send") = 2
  <2>1. SUFFICES ASSUME Closed("bee")
                 PROVE  Done("bee", "receive") = 2 /\ Done("bee", "send") = 2
    OBVIOUS
  <2>2. pos["bee"] = 5
    <3>1. result["bee"] = "succeeded"
      BY <2>1 DEF Closed, Exact
    <3>2. pos["bee"] = Len(BeeScript) + 1
      BY <1>0, <3>1 DEF Begun
    <3> QED
      BY <3>2, BeeSteps
  <2>3. pos["bee"] - 1 = 4
    BY <2>2
  <2> QED
    BY <1>a, <2>3, BeeCounts DEF Done
<1>d. ASSUME script' = script, pos' = pos, inbound' = inbound,
             result'["bee"] \in {"running", "succeeded"}
      PROVE  Exact'
  <2>1. \A e \in Ends, op \in {"send", "receive"} : Done(e, op)' = Done(e, op)
    BY <1>d DEF Done
  <2> QED
    BY <1>0, <1>d, <2>1 DEF Exact, Waiting
<1>1. ~newTCPSocketAction /\ ~Dial
  BY DEF newTCPSocketAction, Dial
<1>2. ASSUME Send("probe") PROVE result'["probe"] # "failed" /\ Exact'
  <2>1. /\ At("probe", "send") /\ script' = script /\ result' = result
        /\ Step("probe").op = "send"
    BY <1>0, <1>2, AtStep DEF Send
  <2>2. PICK j \in 1..4 :
          /\ BeeScript[j].op = "receive"
          /\ Count(BeeScript, j, "receive") = Done("probe", "send") + 1
          /\ Text(BeeScript[j]) = Text(Step("probe"))
    BY <2>1, NextOfBee
  <2>3. /\ Len(inbound'["bee"]) = Len(inbound["bee"]) + 1
        /\ inbound'["bee"][Len(inbound["bee"]) + 1] = Text(Step("probe"))
        /\ \A k \in 1..Len(inbound["bee"]) : inbound'["bee"][k] = inbound["bee"][k]
        /\ inbound'["probe"] = inbound["probe"]
        /\ pos'["probe"] = pos["probe"] + 1 /\ pos'["bee"] = pos["bee"]
    BY <1>0, <1>2, SentOn
  <2>4. /\ Done("probe", "send")' = Done("probe", "send") + 1
        /\ Done("probe", "receive")' = Done("probe", "receive")
        /\ Done("bee", "send")' = Done("bee", "send")
        /\ Done("bee", "receive")' = Done("bee", "receive")
    BY <1>0, <2>1, <2>3, DoneSteps
  <2>5. Done("probe", "send") + 1 <= 2
    BY <1>a, <2>2, BeeTwo
  <2>6. Waiting("bee", "receive", Done("bee", "receive"))'
    <3>1. Count(BeeScript, j, "receive")
            = Done("bee", "receive") + Len(inbound["bee"]) + 1
      BY <2>2 DEF Exact
    <3>2. Waiting("bee", "receive", Done("bee", "receive"))
      BY DEF Exact
    <3>3. ASSUME NEW n \in Nat, n = Done("bee", "receive")
          PROVE  Waiting("bee", "receive", n)'
      BY <1>0, <2>2, <2>3, <3>1, <3>2, <3>3, WaitingLonger, SMTT(30)
    <3> QED
      BY <1>a, <2>4, <3>3 DEF Waiting
  <2>7. Waiting("probe", "send", Done("probe", "receive"))'
    BY <2>3, <2>4 DEF Exact, Waiting
  <2> QED
    BY <1>a, <2>1, <2>3, <2>4, <2>5, <2>6, <2>7, SMTT(30) DEF Exact
<1>3. ASSUME Send("bee") PROVE result'["probe"] # "failed" /\ Exact'
  <2>1. /\ At("bee", "send") /\ script' = script /\ result' = result
        /\ Step("bee").op = "send" /\ Step("bee") = BeeScript[pos["bee"]]
        /\ pos["bee"] \in 1..4
        /\ Count(BeeScript, pos["bee"], "send") = Done("bee", "send") + 1
    BY <1>0, <1>3, <1>a, AtStep DEF Send
  <2>2. /\ Len(inbound'["probe"]) = Len(inbound["probe"]) + 1
        /\ inbound'["probe"][Len(inbound["probe"]) + 1] = Text(Step("bee"))
        /\ \A k \in 1..Len(inbound["probe"]) :
             inbound'["probe"][k] = inbound["probe"][k]
        /\ inbound'["bee"] = inbound["bee"]
        /\ pos'["bee"] = pos["bee"] + 1 /\ pos'["probe"] = pos["probe"]
    BY <1>0, <1>3, SentOn
  <2>3. /\ Done("bee", "send")' = Done("bee", "send") + 1
        /\ Done("bee", "receive")' = Done("bee", "receive")
        /\ Done("probe", "send")' = Done("probe", "send")
        /\ Done("probe", "receive")' = Done("probe", "receive")
    BY <1>0, <2>1, <2>2, DoneSteps
  <2>4. Waiting("probe", "send", Done("probe", "receive"))'
    <3>1. Count(BeeScript, pos["bee"], "send")
            = Done("probe", "receive") + Len(inbound["probe"]) + 1
      BY <2>1 DEF Exact
    <3>2. Waiting("probe", "send", Done("probe", "receive"))
      BY DEF Exact
    <3>3. ASSUME NEW n \in Nat, n = Done("probe", "receive")
          PROVE  Waiting("probe", "send", n)'
      BY <1>0, <2>1, <2>2, <3>1, <3>2, <3>3, WaitingLonger, Zenon
    <3> QED
      BY <1>a, <2>3, <3>3 DEF Waiting
  <2>5. Waiting("bee", "receive", Done("bee", "receive"))'
    BY <2>2, <2>3 DEF Exact, Waiting
  <2> QED
    BY <1>a, <2>1, <2>2, <2>3, <2>4, <2>5, SMTT(30) DEF Exact
<1>4. ASSUME Receive("probe") PROVE result'["probe"] # "failed" /\ Exact'
  <2>1. At("probe", "receive") /\ script' = script /\ Step("probe").op = "receive"
    BY <1>0, <1>4, AtStep DEF Receive
  <2>2. PICK j \in 1..4 :
          /\ BeeScript[j].op = "send"
          /\ Count(BeeScript, j, "send") = Done("probe", "receive") + 1
          /\ Text(BeeScript[j]) = Text(Step("probe"))
    BY <2>1, NextOfBee
  <2>3. 1 \in 1..Len(inbound["probe"])
    BY <1>0, <1>4, <1>a, Received
  <2>4. PICK i \in 1..4 :
          /\ BeeScript[i].op = "send"
          /\ Count(BeeScript, i, "send") = Done("probe", "receive") + 1
          /\ inbound["probe"][1] = Text(BeeScript[i])
    BY <1>a, <2>3, SMTT(30) DEF Exact, Waiting
  <2>5. i = j
    BY <2>2, <2>4, BeePlace
  <2>6. /\ Len(inbound["probe"]) >= 1
        /\ Len(inbound'["probe"]) = Len(inbound["probe"]) - 1
        /\ \A k \in 1..(Len(inbound["probe"]) - 1) :
             inbound'["probe"][k] = inbound["probe"][1 + k]
        /\ pos'["probe"] = pos["probe"] + 1 /\ result' = result
        /\ inbound'["bee"] = inbound["bee"] /\ pos'["bee"] = pos["bee"]
    BY <1>0, <1>4, <2>2, <2>4, <2>5, TakesFirst
  <2>7. /\ Done("probe", "receive")' = Done("probe", "receive") + 1
        /\ Done("probe", "send")' = Done("probe", "send")
        /\ Done("bee", "send")' = Done("bee", "send")
        /\ Done("bee", "receive")' = Done("bee", "receive")
    BY <1>0, <2>1, <2>6, DoneSteps, SMTT(30)
  <2>8. Waiting("probe", "send", Done("probe", "receive"))'
    <3>1. Waiting("probe", "send", Done("probe", "receive"))
      BY DEF Exact
    <3>2. ASSUME NEW n \in Nat, n = Done("probe", "receive")
          PROVE  Waiting("probe", "send", n + 1)'
      BY <1>0, <2>6, <3>1, <3>2, WaitingShorter
    <3> QED
      BY <1>a, <2>7, <3>2 DEF Waiting
  <2>9. Waiting("bee", "receive", Done("bee", "receive"))'
    BY <2>6, <2>7 DEF Exact, Waiting
  <2> QED
    BY <1>a, <2>6, <2>7, <2>8, <2>9, SMTT(30) DEF Exact
<1>5. ASSUME Receive("bee") PROVE result'["probe"] # "failed" /\ Exact'
  <2>1. /\ At("bee", "receive") /\ script' = script
        /\ Step("bee").op = "receive" /\ Step("bee") = BeeScript[pos["bee"]]
        /\ pos["bee"] \in 1..4
        /\ Count(BeeScript, pos["bee"], "receive") = Done("bee", "receive") + 1
    BY <1>0, <1>5, <1>a, AtStep, SMTT(30) DEF Receive
  <2>2. 1 \in 1..Len(inbound["bee"])
    BY <1>0, <1>5, <1>a, Received, SMTT(30)
  <2>3. PICK i \in 1..4 :
          /\ BeeScript[i].op = "receive"
          /\ Count(BeeScript, i, "receive") = Done("bee", "receive") + 1
          /\ inbound["bee"][1] = Text(BeeScript[i])
    BY <1>a, <2>2, SMTT(30) DEF Exact, Waiting
  <2>4. i = pos["bee"]
    BY <2>1, <2>3, BeePlace, SMTT(30)
  <2>5. /\ Len(inbound["bee"]) >= 1
        /\ Len(inbound'["bee"]) = Len(inbound["bee"]) - 1
        /\ \A k \in 1..(Len(inbound["bee"]) - 1) :
             inbound'["bee"][k] = inbound["bee"][1 + k]
        /\ pos'["bee"] = pos["bee"] + 1 /\ result' = result
        /\ inbound'["probe"] = inbound["probe"] /\ pos'["probe"] = pos["probe"]
    BY <1>0, <1>5, <2>1, <2>3, <2>4, TakesFirst
  <2>6. /\ Done("bee", "receive")' = Done("bee", "receive") + 1
        /\ Done("bee", "send")' = Done("bee", "send")
        /\ Done("probe", "send")' = Done("probe", "send")
        /\ Done("probe", "receive")' = Done("probe", "receive")
    BY <1>0, <2>1, <2>5, DoneSteps
  <2>7. Waiting("bee", "receive", Done("bee", "receive"))'
    <3>1. Waiting("bee", "receive", Done("bee", "receive"))
      BY DEF Exact
    <3>2. ASSUME NEW n \in Nat, n = Done("bee", "receive")
          PROVE  Waiting("bee", "receive", n + 1)'
      BY <1>0, <2>5, <3>1, <3>2, WaitingShorter, SMTT(30)
    <3> QED
      BY <1>a, <2>6, <3>2 DEF Waiting
  <2>8. Waiting("probe", "send", Done("probe", "receive"))'
    BY <2>5, <2>6 DEF Exact, Waiting
  <2> QED
    BY <1>a, <2>5, <2>6, <2>7, <2>8, SMTT(30) DEF Exact
<1>6. ASSUME NEW e \in Ends, Succeed(e)
      PROVE  result'["probe"] # "failed" /\ Exact'
  <2>1. /\ script' = script /\ pos' = pos /\ inbound' = inbound
        /\ result'["bee"] \in {"running", "succeeded"}
        /\ result'["probe"] # "failed"
    BY <1>6 DEF Succeed, End, TypeOK, Exact, Ends
  <2> QED
    BY <1>d, <2>1
<1>7. ~Fail("probe")
  <2>1. ASSUME At("probe", "send"), Closed("bee") PROVE FALSE
    <3>1. PICK j \in 1..4 :
            /\ BeeScript[j].op = "receive"
            /\ Count(BeeScript, j, "receive") = Done("probe", "send") + 1
      BY <2>1, NextOfBee
    <3>2. Done("probe", "send") + 1 <= 2
      BY <1>a, <3>1, BeeTwo
    <3> QED
      BY <1>a, <1>c, <2>1, <3>2 DEF Exact
  <2>2. ASSUME At("probe", "receive"), Closed("bee"), ~LineWaits("probe")
        PROVE  FALSE
    <3>1. PICK j \in 1..4 :
            /\ BeeScript[j].op = "send"
            /\ Count(BeeScript, j, "send") = Done("probe", "receive") + 1
            /\ Text(BeeScript[j]) = Text(Step("probe"))
      BY <2>2, NextOfBee
    <3>2. Done("probe", "receive") + 1 <= 2
      BY <1>a, <3>1, BeeTwo
    <3>3. 1 \in 1..Len(inbound["probe"])
      BY <1>a, <1>c, <2>2, <3>2 DEF Exact
    <3>4. PICK i \in 1..4 : inbound["probe"][1] = Text(BeeScript[i])
      BY <1>a, <3>3 DEF Exact, Waiting
    <3>5. /\ BeeScript[i].delimiter = Newline /\ BeeScript[j].delimiter = Newline
      BY BeeSteps
    <3>6. inbound["probe"][1].delimiter = Step("probe").delimiter
      BY <3>1, <3>4, <3>5 DEF Text
    <3> QED
      BY <1>a, <2>2, <3>3, <3>6 DEF LineWaits
  <2> QED
    BY <1>0, <2>1, <2>2 DEF Fail
<1>8. ~Fail("bee")
  BY <1>0, <1>b DEF Fail
<1>9. ASSUME NEW e \in Ends, Expire(e) PROVE FALSE
  BY <1>9, SMTT(30) DEF Expire
<1>10. ~Reset("probe")
  <2>1. SUFFICES ASSUME Closed("bee"), inbound["bee"] # << >> PROVE FALSE
    BY <1>0 DEF Reset
  <2>2. Len(inbound["bee"]) # 0
    BY <2>1 DEF TypeOK, Ends
  <2> QED
    BY <1>a, <1>c, <2>1, <2>2 DEF Exact
<1>11. ~Reset("bee")
  BY <1>0, <1>b DEF Reset
<1>12. ASSUME UNCHANGED vars PROVE result'["probe"] # "failed" /\ Exact'
  <2>1. /\ script' = script /\ pos' = pos /\ inbound' = inbound
        /\ result' = result
    BY <1>12 DEF vars
  <2> QED
    BY <1>d, <2>1 DEF Exact
<1> QED
  BY <1>1, <1>2, <1>3, <1>4, <1>5, <1>6, <1>7, <1>8, <1>9, <1>10, <1>11, <1>12
     DEF Next, Converse, Ends

\* A conversation that begins is in step.
LEMMA ExactBegins ==
  ASSUME TypeOK, Begun, Dial
  PROVE  Exact'
<1>1. /\ pos'["probe"] = 1 /\ pos'["bee"] = 1 /\ inbound'["probe"] = << >>
      /\ inbound'["bee"] = << >> /\ result'["bee"] = "running"
  BY DEF Dial, Begun, Ends
<1>2. pos'["probe"] - 1 = 0 /\ pos'["bee"] - 1 = 0
  BY <1>1
<1>3. /\ Done("probe", "send")' = 0 /\ Done("probe", "receive")' = 0
      /\ Done("bee", "send")' = 0 /\ Done("bee", "receive")' = 0
  BY <1>2, CountType DEF Done
<1>4. /\ Len(inbound'["probe"]) = 0 /\ Len(inbound'["bee"]) = 0
      /\ DOMAIN inbound'["probe"] = {} /\ DOMAIN inbound'["bee"] = {}
  BY <1>1
<1>5. /\ Waiting("bee", "receive", Done("bee", "receive"))'
      /\ Waiting("probe", "send", Done("probe", "receive"))'
  BY <1>4 DEF Waiting
<1> QED
  BY <1>1, <1>3, <1>4, <1>5 DEF Exact

\* So does every step of an answerable conversation; after its end nothing of
\* the probe changes.
LEMMA InStepStep ==
  TypeOK /\ Begun /\ InStep /\ AnswerableSucceeds /\ [Next]_vars
    => InStep' /\ AnswerableSucceeds'
<1> SUFFICES ASSUME TypeOK, Begun, InStep, AnswerableSucceeds, [Next]_vars
             PROVE  InStep' /\ AnswerableSucceeds'
  OBVIOUS
<1>0. TypeOK'
  BY TypeStep
<1>1. CASE newTCPSocketAction
  <2>1. result'["probe"] \in {"new", "panicked"}
    BY <1>1 DEF newTCPSocketAction, Ends
  <2> QED
    BY <2>1 DEF InStep, AnswerableSucceeds
<1>2. CASE Dial
  <2>1. result'["probe"] = "running"
    BY <1>2 DEF Dial, Ends
  <2> QED
    BY <1>2, <2>1, ExactBegins DEF InStep, AnswerableSucceeds
<1>3. CASE ~newTCPSocketAction /\ ~Dial
  <2> SUFFICES ASSUME Answerable(script'["probe"]), expired' = {}
               PROVE  /\ result'["probe"] = "running" => Exact'
                      /\ result'["probe"] # "failed"
    BY SMTT(30) DEF InStep, AnswerableSucceeds, Answerable
  <2>1. script' = script /\ expired = {}
    BY <1>3 DEF Next, Converse, Send, Receive, Succeed, Fail, Expire, Reset, vars
  <2>2. CASE result["probe"] = "running"
    BY <1>0, <2>1, <2>2, ExactStep DEF InStep
  <2>3. CASE result["probe"] # "running"
    <3>1. result'["probe"] = result["probe"]
      <4>1. ASSUME NEW e \in Ends, Receive(e)
            PROVE  result'["probe"] = result["probe"]
        <5>1. e # "probe"
          BY <2>3, <4>1 DEF Receive, At
        <5>2. "probe" \in Ends \ {e}
          BY <5>1 DEF Ends
        <5> QED
          BY <4>1, <5>2, Received
      <4>2. ASSUME NEW e \in Ends, Send(e) \/ Expire(e) \/ Reset(e)
            PROVE  result'["probe"] = result["probe"]
        BY <4>2 DEF Send, Expire, Reset
      <4>3. ASSUME NEW e \in Ends, Succeed(e) \/ Fail(e)
            PROVE  result'["probe"] = result["probe"]
        BY <2>3, <4>3 DEF Succeed, Fail, At, End, TypeOK, Ends
      <4>4. CASE UNCHANGED vars
        BY <4>4 DEF vars
      <4> QED
        BY <1>3, <4>1, <4>2, <4>3, <4>4 DEF Next, Converse
    <3> QED
      BY <2>1, <2>3, <3>1 DEF AnswerableSucceeds
  <2> QED
    BY <2>2, <2>3
<1> QED
  BY <1>1, <1>2, <1>3

-----------------------------------------------------------------------------
(* The theorems. *)

\* The invariant holds at first.
LEMMA Initial == Init => IInv
<1> SUFFICES ASSUME Init PROVE IInv
  OBVIOUS
<1>1. TypeOK
  BY TypeInit
<1>2. Begun
  BY DEF Init, Begun, Ends
<1>3. Delivered
  <2>1. pos["probe"] - 1 = 0 /\ pos["bee"] - 1 = 0 /\ Len(inbound["probe"]) = 0
    BY DEF Init, Ends
  <2>2. Done("probe", "receive") = 0 /\ Done("bee", "send") = 0
    BY <2>1, CountType DEF Done
  <2> QED
    BY <2>1, <2>2 DEF Delivered
<1>4. InStep /\ AnswerableSucceeds
  BY DEF Init, InStep, AnswerableSucceeds, Ends
<1> QED
  BY <1>1, <1>2, <1>3, <1>4 DEF IInv

\* The invariant is inductive.
LEMMA Inductive == IInv /\ [Next]_vars => IInv'
BY TypeStep, BegunStep, DeliveredStep, InStepStep DEF IInv

\* The invariant holds throughout.
LEMMA IInvHolds == Spec => []IInv
BY Initial, Inductive, PTL DEF Spec

\* Whatever is configured, the probe's script consists of steps that can be
\* carried out, both ends stay within their scripts, and what waits is text.
THEOREM TypeCorrect == Spec => []TypeOK
<1>1. IInv => TypeOK
  BY DEF IInv
<1> QED
  BY <1>1, IInvHolds, PTL

\* A probe that asks Bee what it expects fails only by a timeout, however it
\* orders its questions and its reading and wherever it stops.
THEOREM AnswerableProbesSucceed == Spec => []AnswerableSucceeds
<1>1. IInv => AnswerableSucceeds
  BY DEF IInv
<1> QED
  BY <1>1, IInvHolds, PTL

\* Whatever the configured steps are, answerable or not, and however the
\* conversation ends: a probe that succeeds has heard one line of Bee's for
\* every receive step.
THEOREM SuccessWasHeard == Spec => []HeardMeansSaid
<1>1. IInv => HeardMeansSaid
  <2> SUFFICES ASSUME IInv, result["probe"] = "succeeded"
               PROVE  Count(script["probe"], Len(script["probe"]), "receive")
                        <= Count(BeeScript, pos["bee"] - 1, "send")
    BY DEF HeardMeansSaid
  <2>0. "probe" \in Ends /\ "bee" \in Ends
    BY DEF Ends
  <2>1. pos["probe"] = Len(script["probe"]) + 1 /\ script["bee"] = BeeScript
    BY <2>0 DEF IInv, Begun
  <2>2. Len(script["probe"]) \in Nat /\ Len(inbound["probe"]) \in Nat
    BY <2>0 DEF IInv, TypeOK
  <2>3. pos["probe"] - 1 = Len(script["probe"])
    BY <2>1, <2>2
  <2>4. Done("probe", "receive") \in Nat /\ Done("bee", "send") \in Nat
    BY <2>0, DoneSteps DEF IInv
  <2>5. Done("probe", "receive") <= Done("bee", "send")
    BY <2>2, <2>4 DEF IInv, Delivered
  <2> QED
    BY <2>1, <2>3, <2>5 DEF Done
<1> QED
  BY <1>1, IInvHolds, PTL

-----------------------------------------------------------------------------
(* A conversation is finite: every step uses up some of what is left to do. *)

StepsLeft(e) == Len(script[e]) + 1 - pos[e]
Life(e) ==
  IF result[e] = "new" THEN 2 ELSE IF result[e] = "running" THEN 1 ELSE 0
Time(e) == IF e \in expired THEN 0 ELSE 1
Lines(e) == IF inbound[e] = << >> THEN 0 ELSE 1

\* What is left to do for an end, and altogether.  A configured step may become
\* a step of the script, and a step of the script a line that waits.
EndWork(e) == 2 * StepsLeft(e) + Life(e) + Time(e) + Lines(e)
Work == 3 * Len(conf) + EndWork("probe") + EndWork("bee")

\* The parts of the work are natural numbers.
WorkTypeOK ==
  /\ Len(conf) \in Nat
  /\ \A e \in Ends : /\ StepsLeft(e) \in Nat /\ Life(e) \in 0..2
                    /\ Time(e) \in 0..1 /\ Lines(e) \in 0..1
                    /\ EndWork(e) \in Nat
  /\ Work \in Nat

\* They are in every state.
LEMMA WorkType == TypeOK => WorkTypeOK
<1> SUFFICES ASSUME TypeOK PROVE WorkTypeOK
  OBVIOUS
<1>1. Len(conf) \in Nat
  BY DEF TypeOK
<1>2. \A e \in Ends : Len(script[e]) \in Nat /\ pos[e] \in Nat
                      /\ pos[e] <= Len(script[e]) + 1
  BY DEF TypeOK
<1>3. \A e \in Ends : StepsLeft(e) \in Nat
  BY <1>2 DEF StepsLeft
<1>4. \A e \in Ends : Life(e) \in 0..2 /\ Time(e) \in 0..1 /\ Lines(e) \in 0..1
  BY DEF Life, Time, Lines
<1>5. \A e \in Ends : EndWork(e) \in Nat
  BY <1>3, <1>4 DEF EndWork
<1>6. Work \in Nat
  BY <1>1, <1>5 DEF Work, Ends
<1> QED
  BY <1>1, <1>3, <1>4, <1>5, <1>6 DEF WorkTypeOK

\* And so after every step.
LEMMA WorkTypeNext == TypeOK' => WorkTypeOK'
BY WorkType, PTL

\* A step of one end that leaves the configuration alone need only be followed
\* at that end and at its peer.
LEMMA WorkOfEnds ==
  ASSUME TypeOK, TypeOK', UNCHANGED conf, NEW e \in Ends,
         EndWork(e)' + EndWork(Peer(e))' < EndWork(e) + EndWork(Peer(e))
  PROVE  Work' < Work
<1>1. WorkTypeOK /\ WorkTypeOK'
  BY WorkType, WorkTypeNext
<1>2. /\ Len(conf) \in Nat /\ Len(conf)' = Len(conf)
      /\ EndWork("probe") \in Nat /\ EndWork("bee") \in Nat
      /\ EndWork("probe")' \in Nat /\ EndWork("bee")' \in Nat
  BY <1>1 DEF WorkTypeOK, Ends
<1>3. EndWork("probe")' + EndWork("bee")' < EndWork("probe") + EndWork("bee")
  <2>1. CASE e = "probe"
    BY <2>1 DEF Peer
  <2>2. CASE e = "bee"
    BY <1>2, <2>2 DEF Peer
  <2> QED
    BY <2>1, <2>2 DEF Ends
<1> HIDE DEF EndWork
<1> QED
  BY <1>2, <1>3 DEF Work

\* The parts of the work at one end.
LEMMA PartsBefore ==
  ASSUME WorkTypeOK, NEW e \in Ends
  PROVE  /\ StepsLeft(e) \in Int /\ Life(e) \in Int
         /\ Time(e) \in Int /\ Lines(e) \in Int
BY DEF WorkTypeOK

\* The same after the step.
LEMMA PartsAfter ==
  ASSUME WorkTypeOK', NEW e \in Ends
  PROVE  /\ StepsLeft(e)' \in Int /\ Life(e)' \in Int
         /\ Time(e)' \in Int /\ Lines(e)' \in Int
BY DEF WorkTypeOK

\* If no part grows by more than was said, their sum does not either.
LEMMA EndWorkChange ==
  ASSUME WorkTypeOK, WorkTypeOK', NEW e \in Ends,
         NEW s \in Int, NEW l \in Int, NEW t \in Int, NEW n \in Int,
         StepsLeft(e)' <= StepsLeft(e) + s, Life(e)' <= Life(e) + l,
         Time(e)' <= Time(e) + t, Lines(e)' <= Lines(e) + n
  PROVE  EndWork(e)' <= EndWork(e) + (2 * s + l + t + n)
<1>1. /\ StepsLeft(e) \in Int /\ StepsLeft(e)' \in Int
      /\ Life(e) \in Int /\ Life(e)' \in Int
      /\ Time(e) \in Int /\ Time(e)' \in Int
      /\ Lines(e) \in Int /\ Lines(e)' \in Int
  BY PartsBefore, PartsAfter
<1>2. ASSUME NEW a \in Int, NEW b \in Int, NEW c \in Int, NEW d \in Int,
             NEW ap \in Int, NEW bp \in Int, NEW cp \in Int, NEW dp \in Int,
             ap <= a + s, bp <= b + l, cp <= c + t, dp <= d + n
      PROVE  2 * ap + bp + cp + dp <= 2 * a + b + c + d + (2 * s + l + t + n)
  BY <1>2
<1> QED
  BY <1>1, <1>2 DEF EndWork

\* Every step leaves less to do.
LEMMA WorkStep == TypeOK /\ Begun /\ [Next]_vars => [Work' < Work]_vars
<1> SUFFICES ASSUME TypeOK, Begun, Next PROVE Work' < Work
  OBVIOUS
<1>0. TypeOK'
  BY TypeStep
<1>a. WorkTypeOK /\ WorkTypeOK'
  BY <1>0, WorkType, WorkTypeNext
<1>b. \A e \in Ends : Peer(e) \in Ends /\ Peer(e) # e
  BY DEF Peer, Ends
<1>c. \A e \in Ends : Len(script[e]) \in Nat /\ pos[e] \in Nat
                      /\ Len(script'[e]) \in Nat /\ pos'[e] \in Nat
  BY <1>0 DEF TypeOK
<1>d. \A e \in Ends : EndWork(e) \in Nat
  BY <1>a DEF WorkTypeOK
<1>e. \A e \in Ends : EndWork(e)' \in Nat
  BY <1>a DEF WorkTypeOK
<1>1. CASE newTCPSocketAction
  <2>0. "probe" \in Ends /\ "bee" \in Ends
    BY DEF Ends
  <2>1. Len(conf') = Len(conf) - 1 /\ Len(conf) \in Nat
    BY <1>1 DEF newTCPSocketAction, TypeOK
  <2>2. newExpectStep(Head(conf)) \in Seq(ExpectStep)
        /\ Len(newExpectStep(Head(conf))) <= 1
    BY <1>1, KeptStep, SMTT(30) DEF newTCPSocketAction, TypeOK, newExpectStep
  <2>3. Len(script'["probe"]) <= Len(script["probe"]) + 1
    BY <1>1, <2>2 DEF newTCPSocketAction, TypeOK, Ends
  <2>4. script'["bee"] = script["bee"]
    BY <1>1 DEF newTCPSocketAction, TypeOK, Ends
  <2>5. /\ StepsLeft("probe")' <= StepsLeft("probe") + 1
        /\ StepsLeft("bee")' <= StepsLeft("bee") + 0
    <3>1. pos' = pos
      BY <1>1 DEF newTCPSocketAction
    <3>2. StepsLeft("probe")' <= StepsLeft("probe") + 1
      BY <1>c, <2>0, <2>3, <3>1, SMTT(30) DEF StepsLeft
    <3>3. StepsLeft("bee")' <= StepsLeft("bee") + 0
      BY <1>c, <2>0, <2>4, <3>1 DEF StepsLeft
    <3> QED
      BY <3>2, <3>3
  <2>6. ASSUME NEW e \in Ends
        PROVE  /\ Life(e)' <= Life(e) + 0
               /\ Time(e)' <= Time(e) + 0 /\ Lines(e)' <= Lines(e) + 0
    BY <1>1 DEF newTCPSocketAction, Life, Time, Lines
  <2>7. EndWork("probe")' <= EndWork("probe") + 2
    BY <1>a, <1>d, <1>e, <2>0, <2>5, <2>6, EndWorkChange
  <2>8. EndWork("bee")' <= EndWork("bee")
    BY <1>a, <1>d, <1>e, <2>0, <2>5, <2>6, EndWorkChange
  <2> QED
    BY <1>d, <1>e, <2>0, <2>1, <2>7, <2>8 DEF Work
<1>2. CASE Dial
  <2>1. ASSUME NEW e \in Ends PROVE EndWork(e)' < EndWork(e)
    <3>1. result[e] = "new" /\ result'[e] = "running"
      BY <1>2 DEF Dial, Begun, Ends
    <3>2. Life(e)' <= Life(e) + (-1)
      BY <3>1 DEF Life
    <3>3. StepsLeft(e)' <= StepsLeft(e) + 0
      BY <1>2, <1>c DEF Dial, StepsLeft
    <3>4. Time(e)' <= Time(e) + 0 /\ Lines(e)' <= Lines(e) + 0
      BY <1>2 DEF Dial, Time, Lines
    <3> QED
      BY <1>a, <1>d, <1>e, <3>2, <3>3, <3>4, EndWorkChange
  <2>2. Len(conf) \in Nat /\ conf' = conf
    BY <1>2 DEF Dial, TypeOK
  <2> QED
    BY <1>d, <1>e, <2>1, <2>2 DEF Work, Ends
<1>3. ASSUME NEW e \in Ends, Send(e) PROVE Work' < Work
  <2>1. StepsLeft(e)' <= StepsLeft(e) + (-1)
        /\ StepsLeft(Peer(e))' <= StepsLeft(Peer(e)) + 0
    <3>1. pos'[e] = pos[e] + 1 /\ pos'[Peer(e)] = pos[Peer(e)]
      BY <1>b, <1>3 DEF Send, TypeOK
    <3> QED
      BY <1>3, <1>b, <1>c, <3>1, SMTT(30) DEF Send, StepsLeft
  <2>2. Lines(e)' <= Lines(e) + 0 /\ Lines(Peer(e))' <= Lines(Peer(e)) + 1
    <3>1. inbound'[e] = inbound[e]
      BY <1>b, <1>3 DEF Send, TypeOK
    <3> QED
      BY <3>1 DEF Lines
  <2>3. ASSUME NEW x \in Ends
        PROVE  Life(x)' <= Life(x) + 0 /\ Time(x)' <= Time(x) + 0
    BY <1>3 DEF Send, Life, Time
  <2>4. EndWork(e)' <= EndWork(e) - 2
    BY <1>a, <1>d, <1>e, <2>1, <2>2, <2>3, EndWorkChange
  <2>5. EndWork(Peer(e))' <= EndWork(Peer(e)) + 1
    BY <1>a, <1>b, <1>d, <1>e, <2>1, <2>2, <2>3, EndWorkChange
  <2>6. EndWork(e)' + EndWork(Peer(e))' < EndWork(e) + EndWork(Peer(e))
    BY <1>b, <1>d, <1>e, <2>4, <2>5
  <2> QED
    BY <1>0, <1>3, <2>6, WorkOfEnds DEF Send
<1>4. ASSUME NEW e \in Ends, Receive(e) PROVE Work' < Work
  <2>1. PICK n \in DOMAIN inbound[e] :
          /\ inbound' = [inbound EXCEPT ![e] = SubSeq(@, n + 1, Len(@))]
          /\ IF Matches(e, n)
               THEN pos' = [pos EXCEPT ![e] = @ + 1] /\ UNCHANGED result
               ELSE End(e, "failed") /\ UNCHANGED pos
    BY <1>4, Zenon DEF Receive
  <2>2. Lines(e)' <= Lines(e) + 0 /\ Lines(Peer(e))' = Lines(Peer(e))
    <3>1. inbound[e] # << >> /\ inbound'[Peer(e)] = inbound[Peer(e)]
      BY <1>b, <2>1 DEF TypeOK
    <3> QED
      BY <3>1 DEF Lines
  <2>3. Time(e)' <= Time(e) + 0 /\ Time(Peer(e))' = Time(Peer(e))
    BY <1>4, SMTT(30) DEF Receive, Time
  <2>4. StepsLeft(Peer(e))' = StepsLeft(Peer(e)) /\ Life(Peer(e))' = Life(Peer(e))
    <3>1. pos'[Peer(e)] = pos[Peer(e)] /\ result'[Peer(e)] = result[Peer(e)]
      BY <1>b, <2>1 DEF End, TypeOK
    <3> QED
      BY <1>4, <3>1 DEF Receive, StepsLeft, Life
  <2>5. EndWork(e)' < EndWork(e)
    <3>1. CASE pos' = [pos EXCEPT ![e] = @ + 1] /\ UNCHANGED result
      <4>1. StepsLeft(e)' <= StepsLeft(e) + (-1)
        BY <1>4, <1>c, <3>1, SMTT(30) DEF Receive, StepsLeft, TypeOK
      <4>2. Life(e)' <= Life(e) + 0
        BY <3>1 DEF Life
      <4> QED
        BY <1>a, <1>d, <1>e, <2>2, <2>3, <4>1, <4>2, EndWorkChange
    <3>2. CASE End(e, "failed") /\ UNCHANGED pos
      <4>1. StepsLeft(e)' <= StepsLeft(e) + 0
        BY <1>4, <1>c, <3>2 DEF Receive, StepsLeft
      <4>2. result[e] = "running" /\ result'[e] = "failed"
        BY <1>4, <3>2 DEF Receive, At, End, TypeOK
      <4>3. Life(e)' <= Life(e) + (-1)
        BY <4>2 DEF Life
      <4> QED
        BY <1>a, <1>d, <1>e, <2>2, <2>3, <4>1, <4>3, EndWorkChange
    <3> QED
      BY <2>1, <3>1, <3>2
  <2>6. EndWork(Peer(e))' = EndWork(Peer(e))
    BY <2>2, <2>3, <2>4 DEF EndWork
  <2>7. EndWork(e)' + EndWork(Peer(e))' < EndWork(e) + EndWork(Peer(e))
    BY <1>b, <1>d, <1>e, <2>5, <2>6
  <2> QED
    BY <1>0, <1>4, <2>7, WorkOfEnds DEF Receive
<1>5. ASSUME NEW e \in Ends, Succeed(e) \/ Fail(e) PROVE Work' < Work
  <2>1. /\ result[e] = "running" /\ result'[e] \in {"succeeded", "failed"}
        /\ result'[Peer(e)] = result[Peer(e)]
    BY <1>5, <1>b DEF Succeed, Fail, At, End, TypeOK
  <2>2. Life(e)' <= Life(e) + (-1) /\ Life(Peer(e))' = Life(Peer(e))
    BY <2>1 DEF Life
  <2>3. ASSUME NEW x \in Ends
        PROVE  /\ StepsLeft(x)' = StepsLeft(x) /\ Time(x)' = Time(x)
               /\ Lines(x)' = Lines(x)
    BY <1>5 DEF Succeed, Fail, StepsLeft, Time, Lines
  <2>4. /\ StepsLeft(e)' <= StepsLeft(e) + 0
        /\ Time(e)' <= Time(e) + 0
        /\ Lines(e)' <= Lines(e) + 0
    BY <1>a, <2>3, PartsBefore
  <2>5. EndWork(e)' < EndWork(e)
    BY <1>a, <1>d, <1>e, <2>2, <2>4, EndWorkChange
  <2>6. EndWork(Peer(e))' = EndWork(Peer(e))
    BY <1>b, <2>2, <2>3 DEF EndWork
  <2>7. EndWork(e)' + EndWork(Peer(e))' < EndWork(e) + EndWork(Peer(e))
    BY <1>b, <1>d, <1>e, <2>5, <2>6
  <2> QED
    BY <1>0, <1>5, <2>7, WorkOfEnds DEF Succeed, Fail
<1>6. ASSUME NEW e \in Ends, Expire(e) PROVE Work' < Work
  <2>1. /\ e \notin expired /\ e \in expired'
        /\ Peer(e) \in expired' <=> Peer(e) \in expired
    BY <1>6, <1>b DEF Expire
  <2>2. Time(e)' <= Time(e) + (-1) /\ Time(Peer(e))' = Time(Peer(e))
    BY <2>1 DEF Time
  <2>3. ASSUME NEW x \in Ends
        PROVE  /\ StepsLeft(x)' = StepsLeft(x) /\ Life(x)' = Life(x)
               /\ Lines(x)' = Lines(x)
    BY <1>6 DEF Expire, StepsLeft, Life, Lines
  <2>4. /\ StepsLeft(e)' <= StepsLeft(e) + 0
        /\ Life(e)' <= Life(e) + 0
        /\ Lines(e)' <= Lines(e) + 0
    BY <1>a, <2>3, PartsBefore
  <2>5. EndWork(e)' < EndWork(e)
    BY <1>a, <1>d, <1>e, <2>2, <2>4, EndWorkChange
  <2>6. EndWork(Peer(e))' = EndWork(Peer(e))
    BY <1>b, <2>2, <2>3 DEF EndWork
  <2>7. EndWork(e)' + EndWork(Peer(e))' < EndWork(e) + EndWork(Peer(e))
    BY <1>b, <1>d, <1>e, <2>5, <2>6
  <2> QED
    BY <1>0, <1>6, <2>7, WorkOfEnds DEF Expire
<1>7. ASSUME NEW e \in Ends, Reset(e) PROVE Work' < Work
  <2>1. /\ inbound[e] # << >> /\ inbound'[e] = << >>
        /\ inbound'[Peer(e)] = inbound[Peer(e)]
    BY <1>7, <1>b DEF Reset, TypeOK
  <2>2. Lines(e)' <= Lines(e) + (-1) /\ Lines(Peer(e))' = Lines(Peer(e))
    BY <2>1 DEF Lines
  <2>3. ASSUME NEW x \in Ends
        PROVE  /\ StepsLeft(x)' = StepsLeft(x) /\ Life(x)' = Life(x)
               /\ Time(x)' = Time(x)
    BY <1>7 DEF Reset, StepsLeft, Life, Time
  <2>4. /\ StepsLeft(e)' <= StepsLeft(e) + 0
        /\ Life(e)' <= Life(e) + 0
        /\ Time(e)' <= Time(e) + 0
    BY <1>a, <2>3, PartsBefore
  <2>5. EndWork(e)' < EndWork(e)
    BY <1>a, <1>d, <1>e, <2>2, <2>4, EndWorkChange
  <2>6. EndWork(Peer(e))' = EndWork(Peer(e))
    BY <1>b, <2>2, <2>3 DEF EndWork
  <2>7. EndWork(e)' + EndWork(Peer(e))' < EndWork(e) + EndWork(Peer(e))
    BY <1>b, <1>d, <1>e, <2>5, <2>6
  <2> QED
    BY <1>0, <1>7, <2>7, WorkOfEnds DEF Reset
<1> QED
  BY <1>1, <1>2, <1>3, <1>4, <1>5, <1>6, <1>7 DEF Next, Converse

\* Whatever is configured, no conversation goes on for ever: what is left to
\* do is a natural number that every step of newTCPSocketAction, of expect, of
\* Bee's handleTCPConnection, of a deadline or of TCP makes smaller.
THEOREM ConversationsAreFinite ==
  Spec => [](Work \in Nat) /\ [][Work' < Work]_vars
<1>1. IInv => Work \in Nat
  BY WorkType DEF IInv, WorkTypeOK
<1>2. IInv /\ [Next]_vars => [Work' < Work]_vars
  BY WorkStep DEF IInv
<1> QED
  BY <1>1, <1>2, IInvHolds, PTL DEF Spec
=============================================================================
