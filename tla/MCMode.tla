------------------------------- MODULE MCMode -------------------------------
(* SystemMode from the modes a journal is found in.                        *)
EXTENDS SystemMode

\* A journal just initialised, one halted, and one whose process was killed
\* while READY or in EMERGENCY_EXIT.
MCOrigins ==
  {[mode |-> "halted", reason |-> "init"], [mode |-> "halted", reason |-> "incident"],
   [mode |-> "ready", reason |-> "transition"],
   [mode |-> "emergency_exit", reason |-> "transition"]}

=============================================================================
