------------------------------ MODULE MCRegistry ------------------------------
(* Registry with a few metrics that get in each other's way. *)
EXTENDS Registry

Metric(kind, name, label, value) ==
  [kind |-> kind, name |-> name, labels |-> <<label, value>>]

\* One name with two values of a label and with another label, and a name that
\* neither OpenTelemetry nor Prometheus accepts.
MCAccepted ==
  {Metric("counter", "n", "a", 1), Metric("gauge", "n", "a", 2),
   Metric("counter", "n", "b", 1)}
MCMetrics ==
  MCAccepted \cup
  {Metric("counter", "n n", "a", 1), Metric("gauge", "n n", "a", 1)}
=============================================================================
