---------------------------- MODULE IngressProofs ----------------------------
(***************************************************************************)
(* Proofs about the HTTP side of ingress, for any paths, ports and number  *)
(* of requests and updates.                                                *)
(*                                                                         *)
(* What makes the properties inductive is which servers are closing: all   *)
(* that were replaced, and the present one from its shutdown on.  A late   *)
(* goroutine can therefore only come to serve the present server.          *)
(***************************************************************************)
EXTENDS Ingress, TLAPS

Late == {"launched", "check", "bind", "track"}

ServerInv ==
  /\ \A s \in 1..(httpServer - 1) : s \in closing
  /\ \A s \in closing : s <= httpServer
  /\ pc \in {"idle", "rebuild"} => httpServer \notin closing
  /\ pc \in {"rebuild", "drain"} => httpServer < MaxUpdates
  /\ pc \in {"drain", "leave", "done"} /\ httpServer > 0 => httpServer \in closing
  /\ \A g \in Servers :
       /\ listener[g].at # "none" => g <= httpServer
       /\ listener[g].at \in {"check", "bind", "track", "serving"} =>
            listener[g].srv >= 1 /\ listener[g].srv <= httpServer

EndpointInv ==
  /\ endpoints = {p \in Paths : health[p] = "valid"} \ todo
  /\ pc # "rebuild" => todo = {}
  /\ pc = "idle" /\ httpServer > 0 => routes[httpServer] = Configured

\* A request that met no update so far: its path is one of the configuration.
QuietInv ==
  \A r \in Requests :
    req[r].at # "none" /\ req[r].quiet =>
      /\ pc \in {"idle", "leave", "done"}
      /\ req[r].path \in Configured

\* As long as no shutdown was hasty only the goroutine of the present server
\* is under way.
UnhurriedInv ==
  ~hasty =>
    /\ pc = "drain" => \A g \in Servers : listener[g].at \in {"none", "ended"}
    /\ pc \in {"idle", "rebuild"} =>
         \A g \in Servers :
           /\ g # httpServer => listener[g].at \in {"none", "ended"}
           /\ g = httpServer => listener[g].at \in Late \cup {"serving"}
           /\ g = httpServer /\ listener[g].at # "launched" =>
                listener[g].srv = httpServer

IInv ==
  /\ TypeOK /\ ServerInv /\ EndpointInv /\ QuietInv /\ UnhurriedInv
  /\ OnlyCurrentServes /\ RequestsOnCurrentServer /\ QuietRequestsRunTheirQuery

\* Records of listener and req keep their type when one field changes.
LEMMA GoroutineAt ==
  ASSUME NEW l \in [Servers -> Goroutine], NEW g \in Servers,
         NEW to \in {"bind", "track", "serving", "ended"}
  PROVE  [l EXCEPT ![g].at = to] \in [Servers -> Goroutine]
<1>1. [l[g] EXCEPT !.at = to] \in Goroutine
  BY DEF Goroutine
<1> QED
  BY <1>1

LEMMA RequestAt ==
  ASSUME NEW q \in Request, NEW at \in {"query", "answered"}
  PROVE  [q EXCEPT !.at = at] \in Request
BY DEF Request

LEMMA RequestQuiet ==
  ASSUME NEW q \in Request, NEW b \in BOOLEAN
  PROVE  [q EXCEPT !.quiet = b] \in Request
BY DEF Request

LEMMA RequestDisturbed ==
  ASSUME NEW q \in Request
  PROVE  [q EXCEPT !.quiet = FALSE] \in Request
BY RequestQuiet, Zenon

\* An answer leaves req a function of requests.
LEMMA AnswerType ==
  ASSUME NEW r \in Requests, req \in [Requests -> Request],
         NEW status \in {0, 200, 503},
         NEW result \in {"none", "true", "false", "error"},
         Answer(r, status, result)
  PROVE  req' \in [Requests -> Request]
<1>1. req' = [req EXCEPT ![r] = [req[r] EXCEPT !.at = "answered",
                                  !.status = status, !.result = result]]
  BY DEF Answer
<1>2. [req[r] EXCEPT !.at = "answered"] \in Request
  BY DEF Request
<1>3. \A q \in Request : [q EXCEPT !.status = status] \in Request
  BY DEF Request
<1>4. \A q \in Request : [q EXCEPT !.result = result] \in Request
  BY DEF Request
<1>5. [req[r] EXCEPT !.at = "answered", !.status = status, !.result = result]
        = [[[req[r] EXCEPT !.at = "answered"] EXCEPT !.status = status]
              EXCEPT !.result = result]
  BY Zenon
<1>6. [req[r] EXCEPT !.at = "answered", !.status = status, !.result = result]
        \in Request
  BY <1>2, <1>3, <1>4, <1>5, ZenonT(60)
<1> QED
  BY <1>1, <1>6

\* Every step keeps the type of every variable.
LEMMA TypeStep == IInv /\ [Next]_vars => TypeOK'
<1> SUFFICES ASSUME IInv, [Next]_vars PROVE TypeOK'
  OBVIOUS
<1> USE IngressAssumption DEF IInv, TypeOK, Servers, ingressVars, serverVars
<1>1. CASE Update
  <2>1. req' \in [Requests -> Request]
    BY <1>1, RequestDisturbed DEF Update
  <2> QED
    BY <1>1, <2>1 DEF Update
<1>2. CASE \E p \in Paths : AddEndpoint(p)
  BY <1>2 DEF AddEndpoint
<1>3. ASSUME NEW next \in {"drain", "leave"}, Shutdown(next) PROVE TypeOK'
  <2>1. listener' \in [Servers -> Goroutine]
    BY <1>3 DEF Shutdown, Goroutine
  <2>2. hasty' \in BOOLEAN
    BY <1>3 DEF Shutdown
  <2>3. closing' \subseteq Servers /\ pc' = next
    BY <1>3 DEF Shutdown
  <2> QED
    BY <1>3, <2>1, <2>2, <2>3 DEF Shutdown
<1>4. CASE StartHTTPServer
  <2>1. httpServer' \in Servers
    BY <1>4 DEF StartHTTPServer, ServerInv
  <2>2. listener' \in [Servers -> Goroutine]
    BY <1>4, <2>1, SMTT(30) DEF StartHTTPServer, Goroutine
  <2>3. routes' \in [Servers -> SUBSET Paths] /\ addr' \in [Servers -> Ports]
    BY <1>4, <2>1 DEF StartHTTPServer, Configured
  <2> QED
    BY <1>4, <2>1, <2>2, <2>3 DEF StartHTTPServer
<1>5. CASE Leave
  BY <1>5 DEF Leave
<1>6. ASSUME NEW g \in Servers, Listener(g) PROVE TypeOK'
  <2>1. listener' \in [Servers -> Goroutine]
    <3>1. CASE ReadServer(g)
      BY <3>1 DEF ReadServer, Goroutine
    <3>2. CASE CheckClosing(g)
      BY <3>2, GoroutineAt, Zenon DEF CheckClosing, Move
    <3>3. CASE Bind(g)
      BY <3>3, GoroutineAt, Zenon DEF Bind, Move
    <3>4. CASE Track(g)
      BY <3>4, GoroutineAt, Zenon DEF Track, Move
    <3> QED
      BY <1>6, <3>1, <3>2, <3>3, <3>4 DEF Listener
  <2>2. UNCHANGED <<pc, health, port, todo, endpoints, httpServer, addr, routes,
                    closing, hasty, req>>
    BY <1>6 DEF Listener, ReadServer, CheckClosing, Bind, Track, Move
  <2> QED
    BY <2>1, <2>2
<1>7. ASSUME NEW r \in Requests,
             Handler(r) \/ \E p \in Paths : Accept(r, p)
      PROVE  TypeOK'
  <2>1. req' \in [Requests -> Request]
    <3>1. ASSUME NEW p \in Paths, Accept(r, p) PROVE req' \in [Requests -> Request]
      <4>1. PICK g \in Servers :
              req' = [req EXCEPT ![r] =
                        [NoRequest EXCEPT !.at = "lookup", !.path = p,
                                          !.on = listener[g].srv,
                                          !.quiet = (pc = "idle")]]
        BY <3>1 DEF Accept
      <4>2. listener[g].srv \in 0..MaxUpdates
        BY DEF Goroutine
      <4>3. (pc = "idle") \in BOOLEAN
        OBVIOUS
      <4>4. [NoRequest EXCEPT !.at = "lookup", !.path = p,
                              !.on = listener[g].srv] \in Request
        BY <4>2, ZenonT(60) DEF NoRequest, Request
      <4>5. [[NoRequest EXCEPT !.at = "lookup", !.path = p,
                               !.on = listener[g].srv]
               EXCEPT !.quiet = (pc = "idle")] \in Request
        BY <4>3, <4>4, RequestQuiet, Zenon
      <4> QED
        BY <4>1, <4>5
    <3>2. CASE LookupFound(r)
      BY <3>2, RequestAt, Zenon DEF LookupFound
    <3>3. CASE LookupNotFound(r)
      BY <3>3, AnswerType DEF LookupNotFound
    <3>4. CASE LookupTorn(r)
      BY <3>4, AnswerType DEF LookupTorn
    <3>5. CASE Exec(r)
      BY <3>5, AnswerType DEF Exec
    <3> QED
      BY <1>7, <3>1, <3>2, <3>3, <3>4, <3>5 DEF Handler
  <2>2. UNCHANGED <<pc, health, port, todo, endpoints, httpServer, addr, routes,
                    closing, listener, hasty>>
    BY <1>7, Zenon DEF Handler, LookupFound, LookupNotFound, LookupTorn, Exec, Answer,
                Accept
  <2> QED
    BY <2>1, <2>2
<1>8. CASE UNCHANGED vars
  BY <1>8 DEF vars
<1> QED
  BY <1>1, <1>2, <1>3, <1>4, <1>5, <1>6, <1>7, <1>8, Zenon
     DEF Next, GoIngress, ShutdownForUpdate, ShutdownForSignal

\* Replaced servers are closing, whatever goroutine is late.
LEMMA ServerStep == IInv /\ [Next]_vars => ServerInv'
<1> SUFFICES ASSUME IInv, [Next]_vars PROVE ServerInv'
  OBVIOUS
<1> USE IngressAssumption DEF IInv, TypeOK, Servers, Goroutine, Request,
      ingressVars, serverVars, ServerInv
<1>1. CASE Update
  BY <1>1 DEF Update
<1>2. CASE \E p \in Paths : AddEndpoint(p)
  BY <1>2 DEF AddEndpoint
<1>3. CASE ShutdownForUpdate
  BY <1>3 DEF ShutdownForUpdate, Shutdown, Quiet
<1>4. CASE ShutdownForSignal
  BY <1>4 DEF ShutdownForSignal, Shutdown, Quiet
<1>5. CASE StartHTTPServer
  BY <1>5 DEF StartHTTPServer, Draining, InFlight
<1>6. CASE Leave
  BY <1>6 DEF Leave
<1>7. CASE \E g \in Servers : ReadServer(g)
  BY <1>7 DEF ReadServer
<1>8. CASE \E g \in Servers : CheckClosing(g)
  BY <1>8 DEF CheckClosing, Move, Closing
<1>9. CASE \E g \in Servers : Bind(g)
  BY <1>9 DEF Bind, Move, Taken
<1>10. CASE \E g \in Servers : Track(g)
  BY <1>10 DEF Track, Move, Closing
<1>11. CASE \E r \in Requests : \E p \in Paths : Accept(r, p)
  BY <1>11 DEF Accept, InFlight, NoRequest
<1>12. CASE \E r \in Requests : LookupFound(r)
  BY <1>12 DEF LookupFound
<1>13. CASE \E r \in Requests : LookupNotFound(r)
  BY <1>13 DEF LookupNotFound, Answer
<1>14. CASE \E r \in Requests : LookupTorn(r)
  BY <1>14 DEF LookupTorn, Answer
<1>15. CASE \E r \in Requests : Exec(r)
  BY <1>15 DEF Exec, Answer
<1>16. CASE UNCHANGED vars
  BY <1>16, SMTT(30) DEF vars
<1> QED
BY <1>1, <1>2, <1>3, <1>4, <1>5, <1>6, <1>7, <1>8, <1>9, <1>10, <1>11, <1>12,
     <1>13, <1>14, <1>15, <1>16
     DEF Next, GoIngress, Listener, Handler

\* The endpoints are those accepted so far.
LEMMA EndpointStep == IInv /\ [Next]_vars => EndpointInv'
<1> SUFFICES ASSUME IInv, [Next]_vars PROVE EndpointInv'
  OBVIOUS
<1> USE IngressAssumption DEF IInv, TypeOK, Servers, Goroutine, Request,
      ingressVars, serverVars, EndpointInv, ServerInv, Configured, Health
<1>1. CASE Update
  BY <1>1 DEF Update
<1>2. CASE \E p \in Paths : AddEndpoint(p)
  BY <1>2 DEF AddEndpoint
<1>3. CASE ShutdownForUpdate
  BY <1>3 DEF ShutdownForUpdate, Shutdown, Quiet
<1>4. CASE ShutdownForSignal
  BY <1>4 DEF ShutdownForSignal, Shutdown, Quiet
<1>5. CASE StartHTTPServer
  BY <1>5 DEF StartHTTPServer, Draining, InFlight
<1>6. CASE Leave
  BY <1>6 DEF Leave
<1>7. CASE \E g \in Servers : ReadServer(g)
  BY <1>7 DEF ReadServer
<1>8. CASE \E g \in Servers : CheckClosing(g)
  BY <1>8 DEF CheckClosing, Move, Closing
<1>9. CASE \E g \in Servers : Bind(g)
  BY <1>9 DEF Bind, Move, Taken
<1>10. CASE \E g \in Servers : Track(g)
  BY <1>10 DEF Track, Move, Closing
<1>11. CASE \E r \in Requests : \E p \in Paths : Accept(r, p)
  BY <1>11 DEF Accept, InFlight, NoRequest
<1>12. CASE \E r \in Requests : LookupFound(r)
  BY <1>12 DEF LookupFound
<1>13. CASE \E r \in Requests : LookupNotFound(r)
  BY <1>13 DEF LookupNotFound, Answer
<1>14. CASE \E r \in Requests : LookupTorn(r)
  BY <1>14 DEF LookupTorn, Answer
<1>15. CASE \E r \in Requests : Exec(r)
  BY <1>15 DEF Exec, Answer
<1>16. CASE UNCHANGED vars
  BY <1>16, SMTT(30) DEF vars
<1> QED
BY <1>1, <1>2, <1>3, <1>4, <1>5, <1>6, <1>7, <1>8, <1>9, <1>10, <1>11, <1>12,
     <1>13, <1>14, <1>15, <1>16
     DEF Next, GoIngress, Listener, Handler

\* An update makes every request one that met an update.
LEMMA QuietStep == IInv /\ [Next]_vars => QuietInv'
<1> SUFFICES ASSUME IInv, [Next]_vars PROVE QuietInv'
  OBVIOUS
<1> USE IngressAssumption DEF IInv, TypeOK, Servers, Goroutine, Request,
      ingressVars, serverVars, QuietInv, ServerInv, EndpointInv, Configured,
      OnlyCurrentServes, NoRequest
<1>1. CASE Update
  BY <1>1 DEF Update
<1>2. CASE \E p \in Paths : AddEndpoint(p)
  BY <1>2 DEF AddEndpoint
<1>3. CASE ShutdownForUpdate
  BY <1>3 DEF ShutdownForUpdate, Shutdown, Quiet
<1>4. CASE ShutdownForSignal
  BY <1>4 DEF ShutdownForSignal, Shutdown, Quiet
<1>5. CASE StartHTTPServer
  BY <1>5 DEF StartHTTPServer, Draining, InFlight
<1>6. CASE Leave
  BY <1>6 DEF Leave
<1>7. CASE \E g \in Servers : ReadServer(g)
  BY <1>7 DEF ReadServer
<1>8. CASE \E g \in Servers : CheckClosing(g)
  BY <1>8 DEF CheckClosing, Move, Closing
<1>9. CASE \E g \in Servers : Bind(g)
  BY <1>9 DEF Bind, Move, Taken
<1>10. CASE \E g \in Servers : Track(g)
  BY <1>10 DEF Track, Move, Closing
<1>11. CASE \E r \in Requests : \E p \in Paths : Accept(r, p)
  <2>1. PICK r \in Requests, p \in Paths, g \in Servers :
          /\ listener[g].at = "serving"
          /\ p \in routes[listener[g].srv]
          /\ req' = [req EXCEPT ![r] =
                       [NoRequest EXCEPT !.at = "lookup", !.path = p,
                                         !.on = listener[g].srv,
                                         !.quiet = (pc = "idle")]]
          /\ UNCHANGED <<pc, health>>
    BY <1>11, ZenonT(60) DEF Accept
  <2>2. pc = "idle" => p \in Configured
    BY <2>1
  <2>3. req'[r] = [NoRequest EXCEPT !.at = "lookup", !.path = p,
                                    !.on = listener[g].srv,
                                    !.quiet = (pc = "idle")]
    BY <2>1
  <2>5. req'[r].path = p /\ req'[r].quiet = (pc = "idle")
    BY <2>3
  <2>4. \A q \in Requests \ {r} : req'[q] = req[q]
    BY <2>1
  <2>6. Configured' = Configured
    BY <2>1
  <2>7. SUFFICES ASSUME NEW q \in Requests, req'[q].at # "none", req'[q].quiet
                 PROVE  /\ pc \in {"idle", "leave", "done"}
                        /\ req'[q].path \in Configured
    BY <2>1, <2>6
  <2>8. CASE q = r
    BY <2>2, <2>5, <2>7, <2>8, Zenon
  <2>9. CASE q # r
    BY <2>4, <2>7, <2>9
  <2> QED
    BY <2>8, <2>9, SMTT(30)
<1>12. CASE \E r \in Requests : LookupFound(r)
  BY <1>12 DEF LookupFound
<1>13. CASE \E r \in Requests : LookupNotFound(r)
  BY <1>13 DEF LookupNotFound, Answer
<1>14. CASE \E r \in Requests : LookupTorn(r)
  BY <1>14 DEF LookupTorn, Answer
<1>15. CASE \E r \in Requests : Exec(r)
  BY <1>15 DEF Exec, Answer
<1>16. CASE UNCHANGED vars
  BY <1>16, SMTT(30) DEF vars
<1> QED
BY <1>1, <1>2, <1>3, <1>4, <1>5, <1>6, <1>7, <1>8, <1>9, <1>10, <1>11, <1>12,
     <1>13, <1>14, <1>15, <1>16
     DEF Next, GoIngress, Listener, Handler

\* Without a hasty shutdown goroutines come one after the other.
LEMMA UnhurriedStep == IInv /\ [Next]_vars => UnhurriedInv'
<1> SUFFICES ASSUME IInv, [Next]_vars PROVE UnhurriedInv'
  OBVIOUS
<1> USE IngressAssumption DEF IInv, TypeOK, Servers, Goroutine, Request,
      ingressVars, serverVars, UnhurriedInv, ServerInv, Late
<1>1. CASE Update
  BY <1>1 DEF Update
<1>2. CASE \E p \in Paths : AddEndpoint(p)
  BY <1>2 DEF AddEndpoint
<1>3. CASE ShutdownForUpdate
  <2>1. pc = "rebuild" /\ pc' = "drain" /\ hasty' = (hasty \/ ~Quiet)
    BY <1>3 DEF ShutdownForUpdate, Shutdown
  <2>2. SUFFICES ASSUME ~hasty, Quiet, NEW g \in Servers
                 PROVE  listener'[g].at \in {"none", "ended"}
    BY <2>1, Zenon
  <2>3. CASE g # httpServer
    BY <1>3, <2>1, <2>2, <2>3 DEF ShutdownForUpdate, Shutdown
  <2>4. CASE g = httpServer
    <3>1. listener[g].at = "serving" /\ listener[g].srv = httpServer
      BY <2>1, <2>2, <2>4 DEF Quiet
    <3> QED
      BY <1>3, <3>1 DEF ShutdownForUpdate, Shutdown
  <2> QED
    BY <2>3, <2>4
<1>4. CASE ShutdownForSignal
  BY <1>4 DEF ShutdownForSignal, Shutdown, Quiet
<1>5. CASE StartHTTPServer
  BY <1>5 DEF StartHTTPServer, Draining, InFlight
<1>6. CASE Leave
  BY <1>6 DEF Leave
<1>7. CASE \E g \in Servers : ReadServer(g)
  BY <1>7 DEF ReadServer
<1>8. CASE \E g \in Servers : CheckClosing(g)
  BY <1>8 DEF CheckClosing, Move, Closing
<1>9. CASE \E g \in Servers : Bind(g)
  <2>1. PICK g \in Servers : Bind(g)
    BY <1>9
  <2>2. UNCHANGED <<pc, httpServer, hasty>> /\ listener[g].at = "bind"
    BY <2>1 DEF Bind, Move
  <2>3. \A h \in Servers \ {g} : listener'[h] = listener[h]
    BY <2>1 DEF Bind, Move
  <2>4. listener'[g].srv = listener[g].srv
    BY <2>1 DEF Bind, Move
  <2>5. SUFFICES ASSUME ~hasty PROVE UnhurriedInv'
    BY <2>2, Zenon
  <2>6. pc # "drain"
    BY <2>2, <2>5
  <2>7. CASE pc \in {"idle", "rebuild"}
    <3>1. g = httpServer
      BY <2>2, <2>5, <2>7, Zenon
    <3>2. ~Taken(addr[listener[g].srv])
      BY <2>2, <2>5, <2>7, <3>1, Zenon DEF Taken
    <3>3. listener'[g].at = "track"
      BY <2>1, <3>2 DEF Bind, Move
    <3>4. listener'[g].srv = httpServer
      BY <2>2, <2>4, <2>5, <2>7, <3>1
    <3>5. \A h \in Servers : h # httpServer => listener'[h].at \in {"none", "ended"}
      BY <2>3, <2>5, <2>7, <3>1
    <3>6. pc' # "drain" /\ httpServer' = httpServer
      BY <2>2, <2>7
    <3> QED
      BY <3>1, <3>3, <3>4, <3>5, <3>6, Zenon
  <2> QED
    BY <2>2, <2>6, <2>7
<1>10. CASE \E g \in Servers : Track(g)
  BY <1>10 DEF Track, Move, Closing
<1>11. CASE \E r \in Requests : \E p \in Paths : Accept(r, p)
  BY <1>11 DEF Accept, InFlight, NoRequest
<1>12. CASE \E r \in Requests : LookupFound(r)
  BY <1>12 DEF LookupFound
<1>13. CASE \E r \in Requests : LookupNotFound(r)
  BY <1>13 DEF LookupNotFound, Answer
<1>14. CASE \E r \in Requests : LookupTorn(r)
  BY <1>14 DEF LookupTorn, Answer
<1>15. CASE \E r \in Requests : Exec(r)
  BY <1>15 DEF Exec, Answer
<1>16. CASE UNCHANGED vars
  BY <1>16, SMTT(30) DEF vars
<1> QED
BY <1>1, <1>2, <1>3, <1>4, <1>5, <1>6, <1>7, <1>8, <1>9, <1>10, <1>11, <1>12,
     <1>13, <1>14, <1>15, <1>16
     DEF Next, GoIngress, Listener, Handler

\* A goroutine comes to serve only the present server.
LEMMA CurrentStep == IInv /\ [Next]_vars => OnlyCurrentServes'
<1> SUFFICES ASSUME IInv, [Next]_vars PROVE OnlyCurrentServes'
  OBVIOUS
<1> USE IngressAssumption DEF IInv, TypeOK, Servers, Goroutine, Request,
      ingressVars, serverVars, OnlyCurrentServes, ServerInv
<1>1. CASE Update
  BY <1>1 DEF Update
<1>2. CASE \E p \in Paths : AddEndpoint(p)
  BY <1>2 DEF AddEndpoint
<1>3. CASE ShutdownForUpdate
  BY <1>3 DEF ShutdownForUpdate, Shutdown, Quiet
<1>4. CASE ShutdownForSignal
  BY <1>4 DEF ShutdownForSignal, Shutdown, Quiet
<1>5. CASE StartHTTPServer
  BY <1>5 DEF StartHTTPServer, Draining, InFlight
<1>6. CASE Leave
  BY <1>6 DEF Leave
<1>7. CASE \E g \in Servers : ReadServer(g)
  BY <1>7 DEF ReadServer
<1>8. CASE \E g \in Servers : CheckClosing(g)
  BY <1>8 DEF CheckClosing, Move, Closing
<1>9. CASE \E g \in Servers : Bind(g)
  BY <1>9 DEF Bind, Move, Taken
<1>10. CASE \E g \in Servers : Track(g)
  BY <1>10 DEF Track, Move, Closing
<1>11. CASE \E r \in Requests : \E p \in Paths : Accept(r, p)
  BY <1>11 DEF Accept, InFlight, NoRequest
<1>12. CASE \E r \in Requests : LookupFound(r)
  BY <1>12 DEF LookupFound
<1>13. CASE \E r \in Requests : LookupNotFound(r)
  BY <1>13 DEF LookupNotFound, Answer
<1>14. CASE \E r \in Requests : LookupTorn(r)
  BY <1>14 DEF LookupTorn, Answer
<1>15. CASE \E r \in Requests : Exec(r)
  BY <1>15 DEF Exec, Answer
<1>16. CASE UNCHANGED vars
  BY <1>16, SMTT(30) DEF vars
<1> QED
BY <1>1, <1>2, <1>3, <1>4, <1>5, <1>6, <1>7, <1>8, <1>9, <1>10, <1>11, <1>12,
     <1>13, <1>14, <1>15, <1>16
     DEF Next, GoIngress, Listener, Handler

\* A server is replaced when its requests are answered.
LEMMA RequestStep == IInv /\ [Next]_vars => RequestsOnCurrentServer'
<1> SUFFICES ASSUME IInv, [Next]_vars PROVE RequestsOnCurrentServer'
  OBVIOUS
<1> USE IngressAssumption DEF IInv, TypeOK, Servers, Goroutine, Request,
      ingressVars, serverVars, RequestsOnCurrentServer, InFlight,
      OnlyCurrentServes
<1>1. CASE Update
  BY <1>1 DEF Update
<1>2. CASE \E p \in Paths : AddEndpoint(p)
  BY <1>2 DEF AddEndpoint
<1>3. CASE ShutdownForUpdate
  BY <1>3 DEF ShutdownForUpdate, Shutdown, Quiet
<1>4. CASE ShutdownForSignal
  BY <1>4 DEF ShutdownForSignal, Shutdown, Quiet
<1>5. CASE StartHTTPServer
  BY <1>5 DEF StartHTTPServer, Draining, InFlight
<1>6. CASE Leave
  BY <1>6 DEF Leave
<1>7. CASE \E g \in Servers : ReadServer(g)
  BY <1>7 DEF ReadServer
<1>8. CASE \E g \in Servers : CheckClosing(g)
  BY <1>8 DEF CheckClosing, Move, Closing
<1>9. CASE \E g \in Servers : Bind(g)
  BY <1>9 DEF Bind, Move, Taken
<1>10. CASE \E g \in Servers : Track(g)
  BY <1>10 DEF Track, Move, Closing
<1>11. CASE \E r \in Requests : \E p \in Paths : Accept(r, p)
  BY <1>11 DEF Accept, InFlight, NoRequest
<1>12. CASE \E r \in Requests : LookupFound(r)
  BY <1>12 DEF LookupFound
<1>13. CASE \E r \in Requests : LookupNotFound(r)
  BY <1>13 DEF LookupNotFound, Answer
<1>14. CASE \E r \in Requests : LookupTorn(r)
  BY <1>14 DEF LookupTorn, Answer
<1>15. CASE \E r \in Requests : Exec(r)
  BY <1>15 DEF Exec, Answer
<1>16. CASE UNCHANGED vars
  BY <1>16, SMTT(30) DEF vars
<1> QED
BY <1>1, <1>2, <1>3, <1>4, <1>5, <1>6, <1>7, <1>8, <1>9, <1>10, <1>11, <1>12,
     <1>13, <1>14, <1>15, <1>16, ZenonT(60)
     DEF Next, GoIngress, Listener, Handler

\* An answer without a query is that of a rejected endpoint.
LEMMA AnswerStep == IInv /\ [Next]_vars => QuietRequestsRunTheirQuery'
<1> SUFFICES ASSUME IInv, [Next]_vars PROVE QuietRequestsRunTheirQuery'
  OBVIOUS
<1> USE IngressAssumption DEF IInv, TypeOK, Servers, Goroutine, Request,
      ingressVars, serverVars, QuietRequestsRunTheirQuery, QuietInv,
      EndpointInv, Configured, Health, NoRequest
<1>1. CASE Update
  BY <1>1 DEF Update
<1>2. CASE \E p \in Paths : AddEndpoint(p)
  BY <1>2 DEF AddEndpoint
<1>3. CASE ShutdownForUpdate
  BY <1>3 DEF ShutdownForUpdate, Shutdown, Quiet
<1>4. CASE ShutdownForSignal
  BY <1>4 DEF ShutdownForSignal, Shutdown, Quiet
<1>5. CASE StartHTTPServer
  BY <1>5 DEF StartHTTPServer, Draining, InFlight
<1>6. CASE Leave
  BY <1>6 DEF Leave
<1>7. CASE \E g \in Servers : ReadServer(g)
  BY <1>7 DEF ReadServer
<1>8. CASE \E g \in Servers : CheckClosing(g)
  BY <1>8 DEF CheckClosing, Move, Closing
<1>9. CASE \E g \in Servers : Bind(g)
  BY <1>9 DEF Bind, Move, Taken
<1>10. CASE \E g \in Servers : Track(g)
  BY <1>10 DEF Track, Move, Closing
<1>11. CASE \E r \in Requests : \E p \in Paths : Accept(r, p)
  BY <1>11 DEF Accept, InFlight, NoRequest
<1>12. CASE \E r \in Requests : LookupFound(r)
  BY <1>12 DEF LookupFound
<1>13. CASE \E r \in Requests : LookupNotFound(r)
  BY <1>13 DEF LookupNotFound, Answer
<1>14. CASE \E r \in Requests : LookupTorn(r)
  BY <1>14 DEF LookupTorn, Answer
<1>15. CASE \E r \in Requests : Exec(r)
  BY <1>15 DEF Exec, Answer
<1>16. CASE UNCHANGED vars
  BY <1>16 DEF vars
<1> QED
BY <1>1, <1>2, <1>3, <1>4, <1>5, <1>6, <1>7, <1>8, <1>9, <1>10, <1>11, <1>12,
     <1>13, <1>14, <1>15, <1>16
     DEF Next, GoIngress, Listener, Handler

LEMMA InitIInv == Init => IInv
<1> SUFFICES ASSUME Init PROVE IInv
  OBVIOUS
<1> USE IngressAssumption DEF Init, Servers
<1>1. TypeOK
  <2>1. req \in [Requests -> Request]
    <3>1. NoRequest \in Request
      BY DEF NoRequest, Request
    <3> QED
      BY <3>1
  <2>2. listener \in [Servers -> Goroutine]
    BY DEF Goroutine
  <2>3. FALSE \in BOOLEAN
    OBVIOUS
  <2>4. httpServer \in 0..MaxUpdates /\ closing \subseteq Servers
    OBVIOUS
  <2>5. addr \in [Servers -> Ports] /\ routes \in [Servers -> SUBSET Paths]
    OBVIOUS
  <2>6. health \in [Paths -> Health]
    BY DEF Health
  <2> QED
    BY <2>1, <2>2, <2>3, <2>4, <2>5, <2>6, Zenon DEF TypeOK
<1>2. ServerInv /\ EndpointInv /\ UnhurriedInv
  BY DEF ServerInv, EndpointInv, UnhurriedInv
<1>3. QuietInv /\ QuietRequestsRunTheirQuery
  BY DEF QuietInv, QuietRequestsRunTheirQuery, NoRequest
<1>4. OnlyCurrentServes /\ RequestsOnCurrentServer
  BY DEF OnlyCurrentServes, RequestsOnCurrentServer, InFlight, NoRequest
<1> QED
  BY <1>1, <1>2, <1>3, <1>4 DEF IInv

\* The strengthened invariant holds however updates, late goroutines and
\* requests interleave.
THEOREM Invariance == Spec => []IInv
<1>1. IInv /\ [Next]_vars => IInv'
  BY TypeStep, ServerStep, EndpointStep, QuietStep, UnhurriedStep, CurrentStep,
     RequestStep, AnswerStep DEF IInv
<1> QED
  BY InitIInv, <1>1, PTL DEF Spec

\* The type of every variable.
THEOREM TypeCorrect == Spec => []TypeOK
<1>1. IInv => TypeOK
  BY DEF IInv
<1> QED
  BY Invariance, <1>1, PTL

\* Only the server startHTTPServer made last accepts requests.
THEOREM CurrentServes == Spec => []OnlyCurrentServes
<1>1. IInv => OnlyCurrentServes
  BY DEF IInv
<1> QED
  BY Invariance, <1>1, PTL

\* No handler of a server that was replaced is running.
THEOREM NoRequestOutlivesServer == Spec => []RequestsOnCurrentServer
<1>1. IInv => RequestsOnCurrentServer
  BY DEF IInv
<1> QED
  BY Invariance, <1>1, PTL

\* healthEndpointHandler runs the query of a request that meets no update,
\* unless the endpoint was rejected.
THEOREM QuietRequestsAsked == Spec => []QuietRequestsRunTheirQuery
<1>1. IInv => QuietRequestsRunTheirQuery
  BY DEF IInv
<1> QED
  BY Invariance, <1>1, PTL

\* After updates none of which shuts a server down before its goroutine
\* listens, the new server listens.
THEOREM UnhurriedServes == Spec => []UnhurriedUpdateServes
<1>1. IInv => UnhurriedUpdateServes
  <2> SUFFICES ASSUME IInv, pc = "idle", httpServer > 0, Quiet, ~hasty
               PROVE  \E g \in Servers : /\ listener[g].at = "serving"
                                         /\ listener[g].srv = httpServer
    BY DEF UnhurriedUpdateServes
  <2>1. httpServer \in Servers
    BY IngressAssumption DEF IInv, TypeOK, Servers
  <2>2. listener[httpServer].at \in Late \cup {"serving"}
    BY <2>1 DEF IInv, UnhurriedInv
  <2>3. listener[httpServer].at = "serving"
    BY <2>1, <2>2 DEF Quiet, Late
  <2>4. listener[httpServer].srv = httpServer
    BY <2>1, <2>3 DEF IInv, UnhurriedInv
  <2> QED
    BY <2>1, <2>3, <2>4
<1> QED
  BY Invariance, <1>1, PTL
=============================================================================
