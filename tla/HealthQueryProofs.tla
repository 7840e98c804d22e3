-------------------------- MODULE HealthQueryProofs --------------------------
(***************************************************************************)
(* Proofs about health endpoints, for any number of requests and results   *)
(* of any length.                                                          *)
(***************************************************************************)
EXTENDS HealthQuery, FiniteSetTheorems, TLAPS

Handled == {Yes, No, Err}

\* Where a request is says what its result and its status are.
RequestInv ==
  \A r \in Requests :
    /\ pc[r] \in {"post", "answer", "done"} =>
         result[r] \in Results /\ handled[r] = handleQueryResult(result[r])
    /\ pc[r] = "done" => status[r] = IF handled[r].ok THEN 200 ELSE 503

\* Requests that have been counted as an attempt and not as a success.
Owing ==
  {r \in Requests :
     \/ pc[r] \in {"query", "post", "aborted"}
     \/ pc[r] \in {"answer", "done"} /\ handled[r].err}

TypeInv ==
  /\ pc \in [Requests -> {"handler", "query", "post", "aborted", "answer", "done"}]
  /\ DOMAIN result = Requests /\ DOMAIN status = Requests
  /\ result = [r \in Requests |-> result[r]]
  /\ status = [r \in Requests |-> status[r]]
  /\ handled \in [Requests -> Handled]
  /\ attempts \in Int /\ successes \in Int

IInv == TypeInv /\ RequestInv /\ AttemptsAreAccounted

-----------------------------------------------------------------------------
LEMMA Outcomes ==
  /\ Yes.ok = TRUE /\ Yes.err = FALSE
  /\ No.ok = FALSE /\ No.err = FALSE
  /\ Err.ok = FALSE /\ Err.err = TRUE
BY DEF Yes, No, Err

\* What handleQueryResult does with each type of result.
LEMMA Dispatch ==
  ASSUME NEW x
  PROVE  /\ x.type = "scalar" =>
              handleQueryResult(x) = IF x.v = "one" THEN Yes ELSE No
         /\ x.type = "vector" => handleQueryResult(x) = Vector(x.v)
         /\ x.type = "matrix" => handleQueryResult(x) = Matrix(x.v)
         /\ x.type = "string" => handleQueryResult(x) = String(x.v)
         /\ x.type \notin {"scalar", "vector", "matrix", "string"} =>
              handleQueryResult(x) = Err
BY Zenon DEF handleQueryResult

LEMMA DocumentedDispatch ==
  ASSUME NEW x
  PROVE  /\ x.type = "scalar" => (DocumentedSuccess(x) <=> x.v = "one")
         /\ x.type = "vector" =>
              (DocumentedSuccess(x) <=> ToSet(x.v) \subseteq {"one"})
         /\ x.type = "matrix" =>
              (DocumentedSuccess(x) <=>
                 \A i \in DOMAIN x.v : /\ ToSet(x.v[i].floats) \subseteq {"one"}
                                       /\ x.v[i].histograms = 0)
         /\ x.type = "string" =>
              (DocumentedSuccess(x) <=> x.v \in {<<"1">>, <<"1.0">>})
         /\ x.type \notin {"scalar", "vector", "matrix", "string"} =>
              ~DocumentedSuccess(x)
BY Zenon DEF DocumentedSuccess

LEMMA StringDispatch ==
  ASSUME NEW w
  PROVE  /\ w[1] \in {"1", "1.0"} => String(w) = Yes
         /\ w[1] \in {"0", "0.0"} => String(w) = No
         /\ w[1] \notin {"1", "1.0", "0", "0.0"} => String(w) = Err
BY Zenon DEF String

\* handleQueryResult returns true, false or an error.
LEMMA HandledType ==
  ASSUME NEW x
  PROVE  handleQueryResult(x) \in Handled
<1>1. Vector(x.v) \in Handled
  BY DEF Vector, Handled
<1>2. Matrix(x.v) \in Handled
  BY DEF Matrix, Handled
<1>3. String(x.v) \in Handled
  BY StringDispatch, Zenon DEF Handled
<1>4. (IF x.v = "one" THEN Yes ELSE No) \in Handled /\ Err \in Handled
  BY DEF Handled
<1> QED
  BY <1>1, <1>2, <1>3, <1>4, Dispatch, Zenon

\* A vector, a matrix and a string say yes when the documentation does.
LEMMA VectorAsDocumented ==
  ASSUME NEW v
  PROVE  Vector(v).ok <=> ToSet(v) \subseteq {"one"}
<1> DEFINE bad == {i \in DOMAIN v : v[i] # "one"}
<1>1. bad = {} <=> ToSet(v) \subseteq {"one"}
  BY DEF ToSet
<1>2. CASE bad = {}
  <2>1. Vector(v) = Yes
    BY <1>2 DEF Vector
  <2> QED
    BY <1>1, <1>2, <2>1, Outcomes
<1>3. CASE bad # {}
  <2>1. Vector(v) \in {No, Err}
    BY <1>3 DEF Vector
  <2>2. ~Vector(v).ok
    BY <2>1, Outcomes
  <2> QED
    BY <1>1, <1>3, <2>2
<1> QED
  BY <1>2, <1>3

LEMMA StringAsDocumented ==
  ASSUME NEW w \in BoundedSeq(Words, MaxLen), Len(w) = 1
  PROVE  String(w).ok <=> w \in {<<"1">>, <<"1.0">>}
<1>1. w \in Seq(Words)
  <2>1. PICK m \in 0..MaxLen : w \in [1..m -> Words]
    BY DEF BoundedSeq, SeqOf
  <2> QED
    BY <2>1, HealthAssumption
<1>2. w = <<w[1]>> /\ w[1] \in Words
  BY <1>1
<1>3. w \in {<<"1">>, <<"1.0">>} <=> w[1] \in {"1", "1.0"}
  BY <1>2
<1>4. CASE w[1] \in {"1", "1.0"}
  <2>1. String(w).ok
    BY <1>4, StringDispatch, Outcomes
  <2> QED
    BY <1>3, <1>4, <2>1
<1>5. CASE w[1] \notin {"1", "1.0"}
  <2>1. String(w) \in {No, Err}
    BY <1>5, StringDispatch, Zenon
  <2>2. ~String(w).ok
    BY <2>1, Outcomes
  <2> QED
    BY <1>3, <1>5, <2>2
<1> QED
  BY <1>4, <1>5

\* handleQueryResult is as the documentation says for plain results.
LEMMA AsDocumented ==
  ASSUME NEW x \in Results, Plain(x)
  PROVE  handleQueryResult(x).ok <=> DocumentedSuccess(x)
<1>1. CASE x.type = "scalar"
  <2>1. CASE x.v = "one"
    BY <1>1, <2>1, Dispatch, DocumentedDispatch, Outcomes, SMTT(30)
  <2>2. CASE x.v # "one"
    BY <1>1, <2>2, Dispatch, DocumentedDispatch, Outcomes, SMTT(30)
  <2> QED
    BY <2>1, <2>2
<1>2. CASE x.type = "vector"
  BY <1>2, Dispatch, DocumentedDispatch, VectorAsDocumented
<1>3. CASE x.type = "matrix"
  <2>1. \A i \in DOMAIN x.v : x.v[i].histograms = 0
    BY <1>3 DEF Plain
  <2>2. DocumentedSuccess(x) <=>
          \A i \in DOMAIN x.v : ToSet(x.v[i].floats) \subseteq {"one"}
    BY <1>3, <2>1, DocumentedDispatch, Zenon
  <2>3. handleQueryResult(x) = IF DocumentedSuccess(x) THEN Yes ELSE No
    BY <1>3, <2>2, Dispatch, Zenon DEF Matrix
  <2> QED
    BY <2>3, Outcomes
<1>4. CASE x.type = "string"
  <2>1. x.v \in BoundedSeq(Words, MaxLen) /\ Len(x.v) = 1
    BY <1>4 DEF Results, Value, Plain
  <2> QED
    BY <1>4, <2>1, Dispatch, DocumentedDispatch, StringAsDocumented, SMTT(30)
<1>5. CASE x.type \notin {"scalar", "vector", "matrix", "string"}
  BY <1>5, Dispatch, DocumentedDispatch, Outcomes, SMTT(30)
<1> QED
  BY <1>1, <1>2, <1>3, <1>4, <1>5, SMTT(30)

-----------------------------------------------------------------------------
\* A step of one request leaves the others alone.
LEMMA OthersStay ==
  ASSUME IInv, NEW r \in Requests, Handler(r)
  PROVE  /\ TypeInv'
         /\ \A s \in Requests \ {r} :
              /\ pc'[s] = pc[s] /\ result'[s] = result[s]
              /\ handled'[s] = handled[s] /\ status'[s] = status[s]
<1> USE DEF IInv, TypeInv
<1>1. CASE CreateFails(r)
  <2>1. Err \in Handled
    BY DEF Handled
  <2> QED
    BY <1>1, <2>1 DEF CreateFails, Goto
<1>2. CASE Exec(r)
  <2>1. PICK x \in Results :
          /\ result' = [result EXCEPT ![r] = x]
          /\ handled' = [handled EXCEPT ![r] = handleQueryResult(x)]
    BY <1>2, Zenon DEF Exec
  <2>2. handleQueryResult(x) \in Handled
    BY HandledType
  <2> QED
    BY <1>2, <2>1, <2>2 DEF Exec, Goto
<1>3. CASE PreMeasurable(r)
  BY <1>3 DEF PreMeasurable, Goto
<1>4. CASE ExecPanics(r)
  BY <1>4 DEF ExecPanics, Goto
<1>5. CASE PostMeasurable(r)
  BY <1>5 DEF PostMeasurable, Goto
<1>6. CASE Respond(r)
  BY <1>6 DEF Respond, Goto
<1> QED
  BY <1>1, <1>2, <1>3, <1>4, <1>5, <1>6, SMTT(30) DEF Handler

\* The status of a request follows from its result.
LEMMA RequestStep ==
  ASSUME IInv, NEW r \in Requests, Handler(r)
  PROVE  RequestInv'
<1> USE DEF IInv, TypeInv, RequestInv
<1> DEFINE Fine ==
      /\ pc[r] \in {"post", "answer", "done"} =>
           result[r] \in Results /\ handled[r] = handleQueryResult(result[r])
      /\ pc[r] = "done" => status[r] = IF handled[r].ok THEN 200 ELSE 503
<1>1. SUFFICES Fine'
  BY <1>1, OthersStay
<1>2. CASE CreateFails(r)
  <2> DEFINE x == [type |-> "error", v |-> "none"]
  <2>1. x \in Results
    BY DEF Results, Value
  <2>2. handleQueryResult(x) = Err
    BY Dispatch
  <2>3. result'[r] = x /\ handled'[r] = Err /\ pc'[r] = "post"
    BY <1>2 DEF CreateFails, Goto
  <2> QED
    BY <2>1, <2>2, <2>3
<1>3. CASE Exec(r)
  <2>1. PICK x \in Results :
          /\ result' = [result EXCEPT ![r] = x]
          /\ handled' = [handled EXCEPT ![r] = handleQueryResult(x)]
    BY <1>3, Zenon DEF Exec
  <2>2. /\ result'[r] = x /\ handled'[r] = handleQueryResult(x)
        /\ pc'[r] = "post"
    BY <1>3, <2>1 DEF Exec, Goto
  <2> QED
    BY <2>2
<1>4. CASE PreMeasurable(r) \/ ExecPanics(r)
  BY <1>4 DEF PreMeasurable, ExecPanics, Goto
<1>5. CASE PostMeasurable(r)
  BY <1>5 DEF PostMeasurable, Goto
<1>6. CASE Respond(r)
  BY <1>6 DEF Respond, Goto
<1> QED
  BY <1>2, <1>3, <1>4, <1>5, <1>6 DEF Handler

\* Every step of a request keeps the counters paired.
LEMMA CountStep ==
  ASSUME IInv, NEW r \in Requests, Handler(r)
  PROVE  AttemptsAreAccounted'
<1> USE DEF IInv, TypeInv
<1>1. IsFiniteSet(Owing) /\ Cardinality(Owing) = attempts - successes
  <2>1. IsFiniteSet(Owing)
    BY HealthAssumption, FS_Subset DEF Owing
  <2> QED
    BY <2>1 DEF AttemptsAreAccounted, Owing
<1>2. SUFFICES Cardinality(Owing') = attempts' - successes'
  BY <1>2 DEF AttemptsAreAccounted, Owing
<1>3. \A s \in Requests \ {r} : s \in Owing' <=> s \in Owing
  BY OthersStay DEF Owing
<1>4. CASE PreMeasurable(r)
  <2>1. r \notin Owing /\ r \in Owing' /\ attempts' = attempts + 1
        /\ successes' = successes
    BY <1>4 DEF PreMeasurable, Goto, Owing
  <2>2. Owing' = Owing \cup {r}
    BY <1>3, <2>1 DEF Owing
  <2>3. Cardinality(Owing \cup {r}) = Cardinality(Owing) + 1
    BY <1>1, <2>1, FS_AddElement, Zenon
  <2> QED
    BY <1>1, <2>1, <2>2, <2>3
<1>5. CASE CreateFails(r) \/ ExecPanics(r) \/ Exec(r)
  <2>1. r \in Owing /\ r \in Owing' /\ UNCHANGED <<attempts, successes>>
    BY <1>5 DEF CreateFails, ExecPanics, Exec, Goto, Owing
  <2>2. Owing' = Owing
    BY <1>3, <2>1 DEF Owing
  <2> QED
    BY <1>1, <2>1, <2>2
<1>6. CASE PostMeasurable(r)
  <2>1. /\ pc[r] = "post" /\ pc'[r] = "answer"
        /\ UNCHANGED <<handled, attempts>>
        /\ successes' = IF handled[r].err THEN successes ELSE successes + 1
    BY <1>6 DEF PostMeasurable, Goto
  <2>2. r \in Owing
    BY <2>1 DEF Owing
  <2>3. CASE handled[r].err
    <3>1. Owing' = Owing
      BY <1>3, <2>1, <2>2, <2>3 DEF Owing
    <3> QED
      BY <1>1, <2>1, <2>3, <3>1
  <2>4. CASE ~handled[r].err
    <3>1. Owing' = Owing \ {r}
      BY <1>3, <2>1, <2>2, <2>4 DEF Owing
    <3>2. Cardinality(Owing \ {r}) = Cardinality(Owing) - 1
      BY <1>1, <2>2, FS_RemoveElement, Zenon
    <3> QED
      BY <1>1, <2>1, <2>4, <3>1, <3>2
  <2> QED
    BY <2>3, <2>4
<1>7. CASE Respond(r)
  <2>1. (r \in Owing' <=> r \in Owing) /\ UNCHANGED <<attempts, successes>>
    BY <1>7 DEF Respond, Goto, Owing
  <2>2. Owing' = Owing
    BY <1>3, <2>1 DEF Owing
  <2> QED
    BY <1>1, <2>1, <2>2
<1> QED
  BY <1>4, <1>5, <1>6, <1>7 DEF Handler

\* Requests that interleave leave each other's results alone.
THEOREM Invariance == Spec => []IInv
<1>1. ASSUME Init PROVE IInv
  <2>1. TypeInv
    <3>1. Err \in Handled
      BY DEF Handled
    <3> QED
      BY <1>1, <3>1 DEF Init, TypeInv
  <2>2. RequestInv
    BY <1>1 DEF Init, RequestInv
  <2>3. Owing = {} /\ attempts - successes = 0
    BY <1>1 DEF Init, Owing
  <2>4. AttemptsAreAccounted
    BY <2>3, FS_EmptySet DEF AttemptsAreAccounted, Owing
  <2> QED
    BY <2>1, <2>2, <2>4 DEF IInv
<1>2. IInv /\ [Next]_vars => IInv'
  <2> SUFFICES ASSUME IInv, [Next]_vars PROVE IInv'
    OBVIOUS
  <2>1. CASE \E r \in Requests : Handler(r)
    BY <2>1, OthersStay, RequestStep, CountStep, SMTT(30) DEF IInv
  <2>2. CASE UNCHANGED <<pc, result, handled, status, attempts, successes>>
    BY <2>2 DEF IInv, TypeInv, RequestInv, AttemptsAreAccounted
  <2> QED
    BY <2>1, <2>2 DEF Next, OpenDB, vars
<1> QED
  BY <1>1, <1>2, PTL DEF Spec

\* healthEndpointHandler answers plain results as the documentation says.
THEOREM AnswersAsDocumented == Spec => []StatusAsDocumented
<1>1. IInv => StatusAsDocumented
  <2> SUFFICES ASSUME IInv, NEW r \in Requests, pc[r] = "done", Plain(result[r])
               PROVE  status[r] = 200 <=> DocumentedSuccess(result[r])
    BY DEF StatusAsDocumented
  <2>1. /\ result[r] \in Results
        /\ status[r] = 200 <=> handleQueryResult(result[r]).ok
    BY SMTT(30) DEF IInv, RequestInv
  <2> QED
    BY <2>1, AsDocumented
<1> QED
  BY Invariance, <1>1, PTL

\* PreMeasurable and PostMeasurable of an endpoint stay paired.
THEOREM AttemptsAccounted == Spec => []AttemptsAreAccounted
<1>1. IInv => AttemptsAreAccounted
  BY DEF IInv
<1> QED
  BY Invariance, <1>1, PTL
=============================================================================
