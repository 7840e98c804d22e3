------------------------------- MODULE Rollout -------------------------------
(***************************************************************************)
(* What the control plane promises the metrics: how telemetry, which makes *)
(* a registry and then a meter provider for every version of the           *)
(* configuration, and the goroutines that fill them keep in step.  Neither *)
(* channels nor signals appear here; module Bunny implements this one.     *)
(***************************************************************************)
EXTENDS Integers

CONSTANT Appliers   \* the goroutines that apply a version after telemetry

VARIABLES
  registry,    \* version of telemetry.PromRegistry
  provider,    \* version of the global meter provider
  version,     \* version each applier received last
  phase        \* what each applier does with it

rolloutVars == <<registry, provider, version, phase>>

Phases == {"rest", "waiting", "applying"}

Init ==
  /\ registry = 0 /\ provider = 0
  /\ version = [r \in Appliers |-> 0]
  /\ phase = [r \in Appliers |-> "rest"]

\* telemetry turns to the next version only when every applier has received
\* the one before: it is the last listener of config, and the buffers of the
\* others hold one version.
NewRegistry ==
  /\ provider = registry
  /\ \A r \in Appliers : version[r] >= registry
  /\ registry' = registry + 1
  /\ UNCHANGED <<provider, version, phase>>

NewProvider ==
  /\ provider < registry
  /\ provider' = registry
  /\ UNCHANGED <<registry, version, phase>>

Receive(r) ==
  /\ phase[r] = "rest"
  /\ version' = [version EXCEPT ![r] = @ + 1]
  /\ phase' = [phase EXCEPT ![r] = "waiting"]
  /\ UNCHANGED <<registry, provider>>

\* The wait for a stage ends when telemetry has finished the version.
Start(r) ==
  /\ phase[r] = "waiting"
  /\ provider >= version[r]
  /\ phase' = [phase EXCEPT ![r] = "applying"]
  /\ UNCHANGED <<registry, provider, version>>

Finish(r) ==
  /\ phase[r] = "applying"
  /\ phase' = [phase EXCEPT ![r] = "rest"]
  /\ UNCHANGED <<registry, provider, version>>

Next ==
  \/ NewRegistry \/ NewProvider
  \/ \E r \in Appliers : Receive(r) \/ Start(r) \/ Finish(r)

Spec == Init /\ [][Next]_rolloutVars
=============================================================================
