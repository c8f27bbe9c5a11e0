----------------------------- MODULE MC_MsgPool -----------------------------
(* A pool of two slots and the CI frame message.  Ids 0 and 1 are modules  *)
(* (MOD_APP, MOD_RAD); the loop starts at 2 (MSG_ID_TIMER_EXPIRED); 3 is   *)
(* MSG_ID_CI.                                                              *)
EXTENDS MsgPool, TLC

CONSTANT ci

MCHome == ci :> 3
MCMsgs == Slots \cup {ci}
=============================================================================
