------------------------------- MODULE MCSite -------------------------------
(* Demo mode, replay with every combination of files and RTR, and a refused *)
(* flag; pages are opened in demo mode and with a live cache.               *)
EXTENDS Site

Config(accepted, mode, mrt, rel, vrp, rtr) ==
  [accepted |-> accepted, mode |-> mode, mrt |-> mrt, rel |-> rel, vrp |-> vrp, rtr |-> rtr]

Demo == Config(TRUE, "demo", FALSE, FALSE, FALSE, FALSE)

LiveCache == Config(TRUE, "replay", FALSE, FALSE, FALSE, TRUE)

AllConfigs ==
  {Demo, Config(TRUE, "demo", TRUE, FALSE, TRUE, TRUE), Config(FALSE, "replay", FALSE, FALSE, FALSE, FALSE)}
  \cup {Config(TRUE, "replay", mrt, rel, vrp, rtr) : mrt, rel, vrp, rtr \in BOOLEAN}

VisitedConfigs == {Demo, LiveCache}
=============================================================================
