---------------------------- MODULE MC_SysTimer ----------------------------
(* Timers only: the ids are cut down to MSG_ID_TIMER_EXPIRED, id 0 here.   *)
EXTENDS SysTimer, TLC

CONSTANTS t1, t2

MCHome == [t \in Timers |-> 0]
=============================================================================
