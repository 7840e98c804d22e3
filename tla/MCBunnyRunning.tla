---------------------------- MODULE MCBunnyRunning ----------------------------
(***************************************************************************)
(* Bunny in operation: the behaviours of Bunny from the point where every  *)
(* goroutine has applied the first configuration, for the runs about what  *)
(* reloads and signals do to a process that is up.                         *)
(***************************************************************************)
EXTENDS Bunny

\* Main is in wg.Wait, version 1 is applied everywhere and served.
Running ==
  /\ proc = "running"
  /\ started = 5 /\ added = 5 /\ wg = 5
  /\ pc = [r \in Routines |-> "select"]
  /\ loads = 1 /\ notified = 4
  /\ update = [r \in Updated |-> 0]
  /\ cur = [r \in Updated |-> 1]
  /\ registry = 1 /\ provider = 1 /\ staged = 2
  /\ stage = [r \in Staged |-> 0]
  /\ meter = [r \in Staged |-> 1]
  /\ registered = [r \in Staged |-> {1}]
  /\ server = 1
  /\ sent = 0 /\ osSignal = FALSE /\ forwarded = 0
  /\ watching \in BOOLEAN
  /\ appAlive \in BOOLEAN
  /\ signal = [r \in Signalled |-> FALSE]

RunningSpec == Running /\ [][Next]_vars /\ Fairness
=============================================================================
