----------------------------- MODULE HealthQuery -----------------------------
(***************************************************************************)
(* What a health endpoint answers: the query behind it, how its result is  *)
(* turned into a yes, a no or an error, the metrics of the endpoint and    *)
(* the status of the response.                                             *)
(*                                                                         *)
(* A float is "one" (1.0) or "other"; a string is the words it is split    *)
(* into.  promql is modelled as an arbitrary result of each type, and      *)
(* tsdb.Open as a call that may fail: it does when the directory is still  *)
(* locked by the database of the previous configuration.  All metrics of   *)
(* the endpoint are enabled.                                               *)
(***************************************************************************)
EXTENDS Integers, FiniteSets, SequencesExt

CONSTANTS
  Requests,     \* requests handled at the same time
  MaxLen        \* bound on the length of vectors, matrices, series, strings

ASSUME HealthAssumption == IsFiniteSet(Requests) /\ MaxLen \in Nat \ {0}

Floats == {"one", "other"}
Words == {"1", "1.0", "0", "0.0", "text"}

Value(type, values) == [type : {type}, v : values]

Results ==
  Value("error", {"none"})
  \cup Value("scalar", Floats)
  \cup Value("vector", BoundedSeq(Floats \cup {"histogram"}, MaxLen))
  \cup Value("matrix", BoundedSeq([floats : BoundedSeq(Floats, 1),
                                   histograms : {0, 1}], MaxLen))
  \cup Value("string", BoundedSeq(Words, MaxLen) \ {<<>>})

Yes == [ok |-> TRUE, err |-> FALSE]
No == [ok |-> FALSE, err |-> FALSE]
Err == [ok |-> FALSE, err |-> TRUE]

\* The first sample that is not 1.0 decides.
Vector(samples) ==
  LET bad == {i \in DOMAIN samples : samples[i] # "one"}
  IN IF bad = {} THEN Yes
     ELSE IF samples[Min(bad)] = "histogram" THEN Err ELSE No

\* Faulty: the loop looks at the first series only.
MatrixFirst(series) ==
  IF series = <<>> \/ ToSet(series[1].floats) \subseteq {"one"} THEN Yes
  ELSE No

\* Only the floats of a series are looked at.
Matrix(series) ==
  IF \A i \in DOMAIN series : ToSet(series[i].floats) \subseteq {"one"}
    THEN Yes ELSE No

\* Only the first word is looked at.
String(words) ==
  CASE words[1] \in {"1", "1.0"} -> Yes
    [] words[1] \in {"0", "0.0"} -> No
    [] OTHER -> Err

handleQueryResult(result) ==
  CASE result.type = "scalar" -> (IF result.v = "one" THEN Yes ELSE No)
    [] result.type = "vector" -> Vector(result.v)
    [] result.type = "matrix" -> Matrix(result.v)
    [] result.type = "string" -> String(result.v)
    [] OTHER -> Err

-----------------------------------------------------------------------------
VARIABLES
  promDB,       \* the database of the last configuration: "open" or "nil"
  pc,           \* where each request is
  result,       \* what promql returned to it
  handled,      \* what handleQueryResult made of that
  status,       \* the status of the response
  attempts,     \* AttemptsMetric of the endpoint
  successes     \* SuccessesMetric of the endpoint

vars == <<promDB, pc, result, handled, status, attempts, successes>>

Pending == [type |-> "none", v |-> "none"]

Init ==
  /\ promDB \in {"open", "nil"}
  /\ pc = [r \in Requests |-> "handler"]
  /\ result = [r \in Requests |-> Pending]
  /\ handled = [r \in Requests |-> Err]
  /\ status = [r \in Requests |-> 0]
  /\ attempts = 0 /\ successes = 0

Goto(r, from, to) ==
  /\ pc[r] = from
  /\ pc' = [pc EXCEPT ![r] = to]
  /\ UNCHANGED promDB

\* configureTelemetry opens a database for each configuration, and goes on
\* without one when that fails.
OpenDB ==
  /\ promDB' \in {"open", "nil"}
  /\ UNCHANGED <<pc, result, handled, status, attempts, successes>>

PreMeasurable(r) ==
  /\ Goto(r, "handler", "query")
  /\ attempts' = attempts + 1
  /\ UNCHANGED <<result, handled, status, successes>>

\* NewInstantQuery or NewRangeQuery fails: nothing is executed.
CreateFails(r) ==
  /\ Goto(r, "query", "post")
  /\ handled' = [handled EXCEPT ![r] = Err]
  /\ result' = [result EXCEPT ![r] = [type |-> "error", v |-> "none"]]
  /\ UNCHANGED <<status, attempts, successes>>

\* The query dereferences the nil database.  net/http recovers from the panic
\* and closes the connection without a response.
ExecPanics(r) ==
  /\ Goto(r, "query", "aborted")
  /\ promDB = "nil"
  /\ UNCHANGED <<result, handled, status, attempts, successes>>

Exec(r) ==
  /\ promDB = "open"
  /\ Goto(r, "query", "post")
  /\ \E x \in Results :
       /\ result' = [result EXCEPT ![r] = x]
       /\ handled' = [handled EXCEPT ![r] = handleQueryResult(x)]
  /\ UNCHANGED <<status, attempts, successes>>

\* Faulty: a query that says no is not counted.
PostIfTrue(r) ==
  /\ Goto(r, "post", "answer")
  /\ successes' = IF handled[r].ok THEN successes + 1 ELSE successes
  /\ UNCHANGED <<result, handled, status, attempts>>

\* The query succeeded if it ended without an error, whatever it says.
PostMeasurable(r) ==
  /\ Goto(r, "post", "answer")
  /\ successes' = IF handled[r].err THEN successes ELSE successes + 1
  /\ UNCHANGED <<result, handled, status, attempts>>

Respond(r) ==
  /\ Goto(r, "answer", "done")
  /\ status' = [status EXCEPT ![r] = IF handled[r].ok THEN 200 ELSE 503]
  /\ UNCHANGED <<result, handled, attempts, successes>>

Handler(r) ==
  \/ PreMeasurable(r) \/ CreateFails(r) \/ ExecPanics(r) \/ Exec(r)
  \/ PostMeasurable(r) \/ Respond(r)

Next == OpenDB \/ \E r \in Requests : Handler(r)

Spec == Init /\ [][Next]_vars

-----------------------------------------------------------------------------
\* README: which results make the endpoint successful.
DocumentedSuccess(x) ==
  CASE x.type = "scalar" -> x.v = "one"
    [] x.type = "vector" -> ToSet(x.v) \subseteq {"one"}
    [] x.type = "matrix" ->
         \A i \in DOMAIN x.v : /\ ToSet(x.v[i].floats) \subseteq {"one"}
                               /\ x.v[i].histograms = 0
    [] x.type = "string" -> x.v \in {<<"1">>, <<"1.0">>}
    [] OTHER -> FALSE

\* A matrix without histograms, a string of one word, or anything else.
Plain(x) ==
  /\ x.type = "matrix" => \A i \in DOMAIN x.v : x.v[i].histograms = 0
  /\ x.type = "string" => Len(x.v) = 1

\* handleQueryResult and healthEndpointHandler together: for results without
\* histograms in a matrix and without blanks in a string, a response is 200
\* exactly when the documentation says so.  (Histograms in a matrix and words
\* after the first are ignored, where the documentation says no.)
StatusAsDocumented ==
  \A r \in Requests :
    pc[r] = "done" /\ Plain(result[r]) =>
      (status[r] = 200 <=> DocumentedSuccess(result[r]))

\* Every attempt without a success is a request on its way, one whose query
\* failed, or one that was aborted: PreMeasurable and PostMeasurable stay
\* paired whatever the interleaving and whether or not there is a database.
AttemptsAreAccounted ==
  attempts - successes =
    Cardinality({r \in Requests :
                   \/ pc[r] \in {"query", "post", "aborted"}
                   \/ pc[r] \in {"answer", "done"} /\ handled[r].err})
=============================================================================
