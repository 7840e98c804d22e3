------------------------------- MODULE MCProbes -------------------------------
(* Probes with a configuration for every way a run can go. *)
EXTENDS Probes

Plain == [actions |-> {"exec"}, period |-> 1, delay |-> 0, timeout |-> 1,
          env |-> 2, steps |-> FALSE]

MCConfs ==
  { Plain,                                                \* no room for a third
    [Plain EXCEPT !.env = 3],                             \* room for a fourth
    [Plain EXCEPT !.actions = {"grpc"}, !.period = 0],    \* ticker stopped
    [Plain EXCEPT !.actions = {"httpGet", "tcpSocket"}, !.period = 2, !.delay = 2],
    [Plain EXCEPT !.actions = {"tcpSocket"}, !.steps = TRUE, !.delay = 1],
    [Plain EXCEPT !.actions = {"tcpSocket"}, !.period = 0],
    [Plain EXCEPT !.actions = {}] }                       \* no valid action
=============================================================================
