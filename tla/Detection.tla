----------------------------- MODULE Detection -----------------------------
(***************************************************************************)
(* The modules around the detection: the settings on their way to it, and  *)
(* the light it switches.  Both are open: the setters are called, and the  *)
(* light is asked for, at any time.  They share no state, so a behaviour   *)
(* is explored for one of them (which), with one configuration of the      *)
(* light where it is the settings'.                                        *)
(***************************************************************************)
EXTENDS RadarMgr, LightCtrl

VARIABLE which

detectionVars == <<vars, lightVars, which>>

DetectionInit ==
  /\ Init /\ LightInit
  /\ which \in {"radar", "light"}
  /\ which = "radar" => conf = CHOOSE c \in Confs : TRUE

OfRadar(A) == which = "radar" /\ A /\ UNCHANGED <<lightVars, which>>
OfLight(A) == which = "light" /\ A /\ UNCHANGED <<vars, which>>

DetectionNext == OfRadar(Next) \/ OfLight(LightNext)

DetectionSpec == DetectionInit /\ [][DetectionNext]_detectionVars

(* The fairness of FairSpec and of LightFairSpec. *)
RadarFairness ==
  /\ \A t \in Tasks :
       /\ SF_detectionVars(OfRadar(Lock(t)))
       /\ WF_detectionVars(OfRadar(Send(t) \/ Unlock(t) \/ Expire(t)))
  /\ WF_detectionVars(OfRadar(Rad)) /\ WF_detectionVars(OfRadar(AppTake))

LightFairness ==
  /\ WF_detectionVars(OfLight(Light))
  /\ SF_detectionVars(OfLight(Pass)) /\ WF_detectionVars(OfLight(LotExpire))

DetectionFairSpec == DetectionSpec /\ RadarFairness /\ LightFairness
=============================================================================
