-------------------------------- MODULE Expect --------------------------------
(***************************************************************************)
(* The conversation of a tcpSocket probe: the steps that newExpectStep     *)
(* keeps of a configuration, and expect working through them over a        *)
(* connection whose other end is the TCP server of Bee, the program Bunny  *)
(* is tried out on.  Both ends are a script of lines to send and to        *)
(* receive, and both have a deadline.                                      *)
(*                                                                         *)
(* What was sent and not yet read is a sequence of texts, each a word that *)
(* has no delimiter in it and the delimiter sent after it.                 *)
(***************************************************************************)
EXTENDS Integers, Sequences, FiniteSets

CONSTANTS
  Words,        \* what is said in a conversation
  Delimiters,   \* the bytes that end a line
  Confs         \* the expect parts a probe may be configured with

\* A configured step: a send, a receive, both or neither; "long" is a delimiter
\* that is not one byte long.
ExpectConfig ==
  [kind : {"send", "receive", "both", "neither"}, word : Words,
   delimiter : Delimiters \cup {"long"}, compiles : BOOLEAN]

\* SendStep and ReceiveStep, and what is sent.
ExpectStep ==
  [op : {"send", "receive"}, word : Words, delimiter : Delimiters]
Texts == [word : Words, delimiter : Delimiters]

ASSUME ConfsAssumption == \A c \in Confs : c \in Seq(ExpectConfig)

VARIABLES
  conf,      \* the configured steps newTCPSocketAction has yet to look at
  script,    \* what each end has to do
  pos,       \* the step each end is at
  inbound,   \* what each end has not read yet
  expired,   \* the ends whose deadline has passed
  result     \* "new" (the probe, not configured), "running", "succeeded",
             \* "failed" or "panicked"

vars == <<conf, script, pos, inbound, expired, result>>

Ends == {"probe", "bee"}
Peer(e) == IF e = "probe" THEN "bee" ELSE "probe"
Newline == "\n"

\* The four calls of handleTCPConnection.
BeeScript ==
  << [op |-> "receive", word |-> "hello", delimiter |-> Newline],
     [op |-> "send", word |-> "yellow", delimiter |-> Newline],
     [op |-> "receive", word |-> "how're ya now?", delimiter |-> Newline],
     [op |-> "send", word |-> "can't complain", delimiter |-> Newline] >>

ASSUME TextsAssumption ==
  /\ \A i \in 1..4 : BeeScript[i].word \in Words
  /\ Newline \in Delimiters /\ "long" \notin Delimiters

\* Faulty: a delimiter of any length is taken.
newExpectStepLong(c) ==
  IF c.kind = "send" \/ (c.kind = "receive" /\ c.compiles)
    THEN << [op |-> c.kind, word |-> c.word, delimiter |-> c.delimiter] >>
    ELSE << >>

\* The configured step c as a sequence of none or one.  Not kept are a step
\* with both a send and a receive, with a delimiter that is not one byte long,
\* and with a regular expression that does not compile.
newExpectStep(c) ==
  IF /\ c.kind = "send" \/ (c.kind = "receive" /\ c.compiles)
     /\ c.delimiter # "long"
    THEN << [op |-> c.kind, word |-> c.word, delimiter |-> c.delimiter] >>
    ELSE << >>

Init ==
  /\ conf \in Confs
  /\ script = [e \in Ends |-> IF e = "bee" THEN BeeScript ELSE << >>]
  /\ pos = [e \in Ends |-> 1]
  /\ inbound = [e \in Ends |-> << >>]
  /\ expired = {}
  /\ result = [e \in Ends |-> "new"]

\* The loop over the configured steps: one that newExpectStep keeps is
\* appended; of one that is neither, the Receive that is nil is dereferenced.
newTCPSocketAction ==
  /\ result["probe"] = "new" /\ conf # << >>
  /\ script' = [script EXCEPT !["probe"] = @ \o newExpectStep(Head(conf))]
  /\ result' = IF Head(conf).kind = "neither" THEN [e \in Ends |-> "panicked"]
                                              ELSE result
  /\ conf' = Tail(conf)
  /\ UNCHANGED <<pos, inbound, expired>>

\* The probe connects to Bee, which starts handleTCPConnection.  (What becomes
\* of a probe that cannot connect is in Probes.)
Dial ==
  /\ result["probe"] = "new" /\ conf = << >>
  /\ result' = [e \in Ends |-> "running"]
  /\ UNCHANGED <<conf, script, pos, inbound, expired>>

-----------------------------------------------------------------------------
(* Either end: a step of its script, the end of it, or an error. *)

Step(e) == script[e][pos[e]]
At(e, op) ==
  result[e] = "running" /\ pos[e] <= Len(script[e]) /\ Step(e).op = op
Closed(e) == result[e] \in {"succeeded", "failed"}
Text(step) == [word |-> step.word, delimiter |-> step.delimiter]
\* The n-th text that waits for e is the first to end in the delimiter of its
\* step.
EndsLine(e, n) ==
  /\ inbound[e][n].delimiter = Step(e).delimiter
  /\ \A m \in 1..(n - 1) : inbound[e][m].delimiter # Step(e).delimiter
LineWaits(e) ==
  \E n \in DOMAIN inbound[e] : inbound[e][n].delimiter = Step(e).delimiter
End(e, r) == result' = [result EXCEPT ![e] = r]

\* The text and its delimiter are written and flushed.
Send(e) ==
  /\ At(e, "send")
  /\ inbound' = [inbound EXCEPT ![Peer(e)] =
                   Append(@, Text(Step(e)))]
  /\ pos' = [pos EXCEPT ![e] = @ + 1]
  /\ UNCHANGED <<conf, script, expired, result>>

\* Bee compares the line, the first n texts; a regular expression matches a
\* part of it.
Matches(e, n) ==
  IF e = "bee" THEN n = 1 /\ inbound[e][1].word = Step(e).word
               ELSE \E m \in 1..n : inbound[e][m].word = Step(e).word

\* Faulty: every line that has arrived is taken with the one that is asked for,
\* as a new bufio.Reader for every step would.
ReceiveAll(e) ==
  /\ At(e, "receive")
  /\ \E n \in DOMAIN inbound[e] :
       /\ EndsLine(e, n)
       /\ inbound' = [inbound EXCEPT ![e] = << >>]
       /\ IF Matches(e, n)
            THEN pos' = [pos EXCEPT ![e] = @ + 1] /\ UNCHANGED result
            ELSE End(e, "failed") /\ UNCHANGED pos
  /\ UNCHANGED <<conf, script, expired>>

\* Faulty: the line is looked at and not taken.
ReceivePeek(e) ==
  /\ At(e, "receive")
  /\ \E n \in DOMAIN inbound[e] :
       /\ EndsLine(e, n)
       /\ IF Matches(e, n)
            THEN pos' = [pos EXCEPT ![e] = @ + 1] /\ UNCHANGED result
            ELSE End(e, "failed") /\ UNCHANGED pos
  /\ UNCHANGED <<conf, script, inbound, expired>>

\* ReadString returns what comes before the first delimiter and keeps the rest.
Receive(e) ==
  /\ At(e, "receive")
  /\ \E n \in DOMAIN inbound[e] :
       /\ EndsLine(e, n)
       /\ inbound' = [inbound EXCEPT ![e] = SubSeq(@, n + 1, Len(@))]
       /\ IF Matches(e, n)
            THEN pos' = [pos EXCEPT ![e] = @ + 1] /\ UNCHANGED result
            ELSE End(e, "failed") /\ UNCHANGED pos
  /\ UNCHANGED <<conf, script, expired>>

\* The script is done; the connection is closed.
Succeed(e) ==
  /\ result[e] = "running" /\ pos[e] > Len(script[e])
  /\ End(e, "succeeded")
  /\ UNCHANGED <<conf, script, pos, inbound, expired>>

\* Faulty: reading goes on after the deadline.
FailNoDeadline(e) ==
  /\ \/ At(e, "send") /\ (Closed(Peer(e)) \/ e \in expired)
     \/ At(e, "receive") /\ Closed(Peer(e)) /\ ~LineWaits(e)
  /\ End(e, "failed")
  /\ UNCHANGED <<conf, script, pos, inbound, expired>>

\* The deadline has passed; or there is no line and there will be none; or the
\* other end no longer takes what is sent.  The connection is closed.
Fail(e) ==
  /\ \/ At(e, "send") /\ (Closed(Peer(e)) \/ e \in expired)
     \/ /\ At(e, "receive")
        /\ e \in expired \/ (Closed(Peer(e)) /\ ~LineWaits(e))
  /\ End(e, "failed")
  /\ UNCHANGED <<conf, script, pos, inbound, expired>>

\* SetDeadline, of the connection at either end.
Expire(e) ==
  /\ result[e] = "running" /\ e \notin expired
  /\ expired' = expired \cup {e}
  /\ UNCHANGED <<conf, script, pos, inbound, result>>

\* TCP resets a connection that was closed before all was read: what had
\* arrived at the other end may be lost.
Reset(e) ==
  /\ Closed(Peer(e)) /\ inbound[Peer(e)] # << >> /\ inbound[e] # << >>
  /\ inbound' = [inbound EXCEPT ![e] = << >>]
  /\ UNCHANGED <<conf, script, pos, expired, result>>

Converse(e) == Send(e) \/ Receive(e) \/ Succeed(e) \/ Fail(e)

Next ==
  \/ newTCPSocketAction \/ Dial
  \/ \E e \in Ends : Converse(e) \/ Expire(e) \/ Reset(e)

Spec == Init /\ [][Next]_vars

\* Goroutines that can go on do, and time passes.
FairSpec ==
  Spec /\ WF_vars(newTCPSocketAction \/ Dial)
       /\ \A e \in Ends : WF_vars(Converse(e)) /\ WF_vars(Expire(e))

-----------------------------------------------------------------------------
\* How many of the first n steps of the script s are of kind op.
Count(s, n, op) == Cardinality({i \in 1..n : s[i].op = op})

\* The type of every variable.
TypeOK ==
  /\ conf \in Seq(ExpectConfig)
  /\ script \in [Ends -> Seq(ExpectStep)]
  /\ pos \in [Ends -> Nat \ {0}] /\ \A e \in Ends : pos[e] <= Len(script[e]) + 1
  /\ inbound \in [Ends -> Seq(Texts)]
  /\ expired \subseteq Ends
  /\ result \in [Ends -> {"new", "running", "succeeded", "failed", "panicked"}]

\* The steps ask Bee what it expects, in its order, listen for what it answers,
\* in its order, and wait for no answer before its question is asked.
Answerable(s) ==
  \A i \in DOMAIN s :
    /\ \E j \in DOMAIN BeeScript :
         /\ BeeScript[j].op # s[i].op
         /\ Count(BeeScript, j, BeeScript[j].op) = Count(s, i, s[i].op)
         /\ Text(BeeScript[j]) = Text(s[i])
    /\ Count(s, i, "receive") <= Count(s, i, "send")

\* Such a probe fails only by its timeout or Bee's, also if it asks everything
\* before it reads an answer, or stops halfway: the buffered readers of expect
\* and of Bee keep the lines that arrive early.
AnswerableSucceeds ==
  Answerable(script["probe"]) /\ expired = {} => result["probe"] # "failed"

\* Success of the probe means that Bee has sent a line for every receive step:
\* no line satisfies two of them, and the end of the connection none.
HeardMeansSaid ==
  result["probe"] = "succeeded" =>
    Count(script["probe"], Len(script["probe"]), "receive")
      <= Count(BeeScript, pos["bee"] - 1, "send")

\* The conversation ends on both sides, also if both wait for the other.
BothEnd ==
  <>(\A e \in Ends : result[e] \in {"succeeded", "failed", "panicked"})
=============================================================================
