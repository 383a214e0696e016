------------------------------ MODULE MCMonitor ------------------------------
(* Bounds for checking SessionMonitor with TLC. *)
EXTENDS SessionMonitor

CONSTANTS m1, m2

TwoMonitors == {m1, m2}

\* Auto-sleep after a minute, or off: what matters is whether the time has passed.
OneMinuteOrOff == {1, None}
=============================================================================
