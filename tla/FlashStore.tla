----------------------------- MODULE FlashStore -----------------------------
(***************************************************************************)
(* Both stores in flash.  The SYS task runs the commands of both, one at a *)
(* time; they share the reset and, since their sectors are different,      *)
(* nothing else, so a behaviour is explored for one of them (which).       *)
(***************************************************************************)
EXTENDS UserSetting, SysData

VARIABLE which

vars == <<userVars, sysVars, which>>

Init == UserInit /\ SysInit /\ which \in {"settings", "calibration"}

Next ==
  \/ which = "settings" /\ UserNext /\ UNCHANGED <<sysVars, which>>
  \/ which = "calibration" /\ (SysStep \/ SysReset) /\ UNCHANGED <<userVars, which>>

Spec == Init /\ [][Next]_vars
=============================================================================
