------------------------------ MODULE MC_KMsg ------------------------------
(* Two timers, the CI frame and the DIP switch message; ids 0 and 1 stand  *)
(* for module ids below MSG_ID_TIMER_EXPIRED, 4 for an id nobody uses.     *)
EXTENDS KMsg, TLC

CONSTANTS tm1, tm2, ci, dip

MCHome == (tm1 :> 2) @@ (tm2 :> 2) @@ (ci :> 3) @@ (dip :> 4)
=============================================================================
