------------------------------- MODULE Ingress -------------------------------
(***************************************************************************)
(* The HTTP side of ingress: how an update rebuilds the health endpoints   *)
(* and replaces the server, the goroutine that startHTTPServer launches to *)
(* listen, and the requests that the handler answers meanwhile.            *)
(*                                                                         *)
(* The n-th server is n.  An update is the part of a configuration the     *)
(* server depends on: its port, and for each path whether there is a       *)
(* health endpoint and whether newHealthEndpoint accepts it.  net/http is  *)
(* modelled from what ListenAndServe and Shutdown do.                      *)
(***************************************************************************)
EXTENDS Integers

CONSTANTS
  Paths,        \* paths of health endpoints
  Ports,        \* ports a configuration can name
  Requests,     \* requests that can be in flight at once
  MaxUpdates    \* bound on the number of updates

ASSUME IngressAssumption == MaxUpdates \in Nat

Servers == 1..MaxUpdates

VARIABLES
  pc,           \* where GoIngress is
  health,       \* ingressConfig: the endpoint of each path, if any
  port,         \* ingressConfig: the port
  todo,         \* paths newHealthEndpoint has not been called for yet
  endpoints,    \* paths of healthEndpoints
  httpServer,   \* the global of that name (0: nil)
  addr,         \* the port of each server
  routes,       \* the paths of the mux of each server
  closing,      \* servers Shutdown was called on
  listener,     \* the goroutine of each server: where it is and for whom
  hasty,        \* was Shutdown called while a goroutine had yet to listen?
  req           \* the requests

ingressVars == <<health, port, todo, endpoints>>
serverVars == <<httpServer, addr, routes>>
vars == <<pc, ingressVars, serverVars, closing, listener, hasty, req>>

Health == {"none", "valid", "rejected"}
NoRequest == [at |-> "none", path |-> "none", on |-> 0, quiet |-> FALSE,
              status |-> 0, result |-> "none"]

Init ==
  /\ pc = "idle"
  /\ health = [p \in Paths |-> "none"] /\ port \in Ports
  /\ todo = {} /\ endpoints = {}
  /\ httpServer = 0
  /\ addr = [s \in Servers |-> port] /\ routes = [s \in Servers |-> {}]
  /\ closing = {}
  /\ listener = [s \in Servers |-> [at |-> "none", srv |-> 0]]
  /\ hasty = FALSE
  /\ req = [r \in Requests |-> NoRequest]

InFlight(r) == req[r].at \in {"lookup", "query"}
Draining(s) == \E r \in Requests : InFlight(r) /\ req[r].on = s

-----------------------------------------------------------------------------
(* GoIngress *)

Configured == {p \in Paths : health[p] # "none"}

\* An update whose stage has been awaited; healthEndpoints starts empty while
\* the previous server still answers.
Update ==
  /\ pc = "idle"
  /\ httpServer < MaxUpdates
  /\ pc' = "rebuild"
  /\ health' \in [Paths -> Health]
  /\ port' \in Ports
  /\ todo' = {p \in Paths : health'[p] # "none"}
  /\ endpoints' = {}
  /\ req' = [r \in Requests |-> [req[r] EXCEPT !.quiet = FALSE]]
  /\ UNCHANGED <<serverVars, closing, listener, hasty>>

\* Faulty: an endpoint that is rejected is tried again.
AddEndpointRetry(p) ==
  /\ pc = "rebuild"
  /\ p \in todo
  /\ todo' = IF health[p] = "valid" THEN todo \ {p} ELSE todo
  /\ endpoints' = IF health[p] = "valid" THEN endpoints \cup {p} ELSE endpoints
  /\ UNCHANGED <<pc, health, port, serverVars, closing, listener, hasty, req>>

\* newHealthEndpoint: an endpoint without exactly one query, or with a
\* duration that does not parse, is left out.
AddEndpoint(p) ==
  /\ pc = "rebuild"
  /\ p \in todo
  /\ todo' = todo \ {p}
  /\ endpoints' = IF health[p] = "valid" THEN endpoints \cup {p} ELSE endpoints
  /\ UNCHANGED <<pc, health, port, serverVars, closing, listener, hasty, req>>

\* No goroutine is on its way to listen.
Quiet == \A g \in Servers : listener[g].at \in {"none", "serving", "ended"}

\* shutdownHTTPServer as far as Shutdown's wait: the listeners the server
\* knows of are closed, and their goroutines return.
Shutdown(next) ==
  /\ pc' = next
  /\ closing' = closing \cup ({httpServer} \ {0})
  /\ listener' = [g \in Servers |->
                    IF /\ listener[g].at = "serving"
                       /\ listener[g].srv = httpServer
                      THEN [listener[g] EXCEPT !.at = "ended"]
                      ELSE listener[g]]
  /\ hasty' = (hasty \/ ~Quiet)
  /\ UNCHANGED <<ingressVars, serverVars, req>>

\* Faulty: the previous server is not shut down.
SkipShutdown ==
  /\ pc = "rebuild"
  /\ todo = {}
  /\ pc' = "drain"
  /\ UNCHANGED <<ingressVars, serverVars, closing, listener, hasty, req>>

\* Faulty: the server is replaced before the endpoints are complete.
ShutdownEarly == pc = "rebuild" /\ Shutdown("drain")

ShutdownForUpdate == pc = "rebuild" /\ todo = {} /\ Shutdown("drain")
ShutdownForSignal == pc = "idle" /\ Shutdown("leave")

\* Faulty: the answers that are being written are not waited for.
StartHTTPServerAtOnce ==
  /\ pc = "drain"
  /\ pc' = "idle"
  /\ httpServer' = httpServer + 1
  /\ addr' = [addr EXCEPT ![httpServer'] = port]
  /\ routes' = [routes EXCEPT ![httpServer'] = Configured]
  /\ listener' = [listener EXCEPT ![httpServer'].at = "launched"]
  /\ UNCHANGED <<ingressVars, closing, hasty, req>>

\* Shutdown returns when the server answers no request any more; then
\* startHTTPServer.  A path is routed even if its endpoint was left out.
StartHTTPServer ==
  /\ pc = "drain"
  /\ ~Draining(httpServer)
  /\ pc' = "idle"
  /\ httpServer' = httpServer + 1
  /\ addr' = [addr EXCEPT ![httpServer'] = port]
  /\ routes' = [routes EXCEPT ![httpServer'] = Configured]
  /\ listener' = [listener EXCEPT ![httpServer'].at = "launched"]
  /\ UNCHANGED <<ingressVars, closing, hasty, req>>

Leave ==
  /\ pc = "leave"
  /\ ~Draining(httpServer)
  /\ pc' = "done"
  /\ UNCHANGED <<ingressVars, serverVars, closing, listener, hasty, req>>

GoIngress ==
  \/ \E p \in Paths : AddEndpoint(p)
  \/ ShutdownForUpdate \/ StartHTTPServer \/ Leave

-----------------------------------------------------------------------------
(* The goroutine that calls httpServer.ListenAndServe. *)

Move(g, from, to) ==
  /\ listener[g].at = from
  /\ listener' = [listener EXCEPT ![g].at = to]
  /\ UNCHANGED <<pc, ingressVars, serverVars, closing, hasty, req>>

\* The global is read when the goroutine runs, not when it is launched.
ReadServer(g) ==
  /\ listener[g].at = "launched"
  /\ listener' = [listener EXCEPT ![g] = [at |-> "check", srv |-> httpServer]]
  /\ UNCHANGED <<pc, ingressVars, serverVars, closing, hasty, req>>

Closing(g) == listener[g].srv \in closing

CheckClosing(g) == Move(g, "check", IF Closing(g) THEN "ended" ELSE "bind")

\* A goroutine holds its port from net.Listen until its listener is closed.
Taken(p) ==
  \E g \in Servers :
    listener[g].at \in {"track", "serving"} /\ addr[listener[g].srv] = p

Bind(g) ==
  Move(g, "bind", IF Taken(addr[listener[g].srv]) THEN "ended" ELSE "track")

\* Serve: the server takes note of the listener, or closes it.
Track(g) == Move(g, "track", IF Closing(g) THEN "ended" ELSE "serving")

Listener(g) == ReadServer(g) \/ CheckClosing(g) \/ Bind(g) \/ Track(g)

-----------------------------------------------------------------------------
(* A request, and healthEndpointHandler. *)

Accept(r, p) ==
  /\ ~InFlight(r)
  /\ \E g \in Servers :
       /\ listener[g].at = "serving"
       /\ p \in routes[listener[g].srv]
       /\ req' = [req EXCEPT ![r] =
                    [NoRequest EXCEPT !.at = "lookup", !.path = p,
                                      !.on = listener[g].srv,
                                      !.quiet = (pc = "idle")]]
  /\ UNCHANGED <<pc, ingressVars, serverVars, closing, listener, hasty>>

Answer(r, status, result) ==
  /\ req' = [req EXCEPT ![r] = [@ EXCEPT !.at = "answered", !.status = status,
                                         !.result = result]]
  /\ UNCHANGED <<pc, ingressVars, serverVars, closing, listener, hasty>>

LookupFound(r) ==
  /\ req[r].at = "lookup"
  /\ req[r].path \in endpoints
  /\ req' = [req EXCEPT ![r].at = "query"]
  /\ UNCHANGED <<pc, ingressVars, serverVars, closing, listener, hasty>>

\* Nothing is written, which net/http turns into 200.
LookupNotFound(r) ==
  /\ req[r].at = "lookup"
  /\ req[r].path \notin endpoints
  /\ Answer(r, 200, "none")

\* The slice is read while it is being assigned, without a lock: the handler
\* can see the length of one and the array of another, and panics.
LookupTorn(r) ==
  /\ req[r].at = "lookup"
  /\ pc = "rebuild"
  /\ Answer(r, 0, "none")

Exec(r) ==
  /\ req[r].at = "query"
  /\ \E result \in {"true", "false", "error"} :
       Answer(r, IF result = "true" THEN 200 ELSE 503, result)

Handler(r) ==
  LookupFound(r) \/ LookupNotFound(r) \/ LookupTorn(r) \/ Exec(r)

-----------------------------------------------------------------------------
Next ==
  \/ Update \/ ShutdownForSignal \/ GoIngress
  \/ \E g \in Servers : Listener(g)
  \/ \E r \in Requests : Handler(r) \/ \E p \in Paths : Accept(r, p)

Spec == Init /\ [][Next]_vars

\* The scheduler runs every goroutine, and queries end: they have a deadline.
\* Nothing is assumed of updates, of signals or of clients.
FairSpec ==
  /\ Spec
  /\ WF_vars(GoIngress)
  /\ \A g \in Servers : WF_vars(Listener(g))
  /\ \A r \in Requests : WF_vars(Handler(r))

-----------------------------------------------------------------------------
Goroutine ==
  [at: {"none", "launched", "check", "bind", "track", "serving", "ended"},
   srv: 0..MaxUpdates]

Request ==
  [at: {"none", "lookup", "query", "answered"},
   path: Paths \cup {"none"}, on: 0..MaxUpdates, quiet: BOOLEAN,
   status: {0, 200, 503}, result: {"none", "true", "false", "error"}]

\* The type of every variable.
TypeOK ==
  /\ pc \in {"idle", "rebuild", "drain", "leave", "done"}
  /\ health \in [Paths -> Health] /\ port \in Ports
  /\ todo \subseteq Paths /\ endpoints \subseteq Paths
  /\ httpServer \in 0..MaxUpdates
  /\ addr \in [Servers -> Ports] /\ routes \in [Servers -> SUBSET Paths]
  /\ closing \subseteq Servers /\ hasty \in BOOLEAN
  /\ listener \in [Servers -> Goroutine]
  /\ req \in [Requests -> Request]

\* Only the server made last accepts requests, and only until ingress shuts
\* it down, although a goroutine may find another server in the global than
\* the one it was launched for, and may listen after the shutdown.
OnlyCurrentServes ==
  \A g \in Servers :
    listener[g].at = "serving" =>
      listener[g].srv = httpServer /\ httpServer \notin closing

\* No request outlives its server: when startHTTPServer replaces the server no
\* handler of the previous one is running any more.
RequestsOnCurrentServer ==
  \A r \in Requests : InFlight(r) => req[r].on = httpServer

\* A request that meets no update is answered without a query only if the
\* endpoint of its path was rejected.
QuietRequestsRunTheirQuery ==
  \A r \in Requests :
    req[r].at = "answered" /\ req[r].quiet /\ req[r].result = "none" =>
      health[req[r].path] = "rejected"

\* An update or a signal always ends: the shutdown of a server waits only for
\* requests that end.
UpdateEnds ==
  (pc \in {"rebuild", "drain", "leave"}) ~> (pc \in {"idle", "done"})

\* After an update the new server listens, as long as every Shutdown so far
\* found the goroutines of startHTTPServer at their goal.  Otherwise none may:
\* a late goroutine can hold the port when the next one wants it, and give it
\* up afterwards, and ListenAndServe is not tried again.
UnhurriedUpdateServes ==
  pc = "idle" /\ httpServer > 0 /\ Quiet /\ ~hasty =>
    \E g \in Servers : listener[g].at = "serving" /\ listener[g].srv = httpServer
=============================================================================
