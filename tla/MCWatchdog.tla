----------------------------- MODULE MCWatchdog -----------------------------
(***************************************************************************)
(* Values for the constants of Watchdog: one watchdog that only tasks and  *)
(* its own function start, and one that handlers start, too.               *)
(***************************************************************************)
EXTENDS Watchdog

CONSTANTS own, any
=============================================================================
