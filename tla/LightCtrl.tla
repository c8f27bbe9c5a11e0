----------------------------- MODULE LightCtrl -----------------------------
(***************************************************************************)
(* apps/common/src/light_ctrl.c of the builds with FreeRTOS: one light.    *)
(*                                                                         *)
(* Tasks ask for the light by setting bits of an event group; the timer    *)
(* task sets others when tm_lot expires, whose callback the light changes  *)
(* as it goes from state to state; the light task (light_proc), of a lower *)
(* priority than all of them, takes the bits and serves one after another. *)
(* While the light is off for LIGHT_PWR_OFF_PROT_TIME_MS (SILENT) and      *)
(* while it blinks the detection is paused.                                *)
(*                                                                         *)
(* A handler runs up to its change of the timer's callback, and from there *)
(* to its end: what other tasks do between shows only there.  The periods  *)
(* are seconds: one ends only when the light task has had nothing to do    *)
(* since it began, but then at any moment.  Commands to the timers take    *)
(* effect at once (the timer task has the highest priority); that one may  *)
(* fail when their queue is full is left out, as are the messages to the   *)
(* radar (skip_num), the gradual change of the light and the second light. *)
(***************************************************************************)
EXTENDS Naturals, Sequences

CONSTANTS Confs       \* configurations: [dim    : CFG_LED_PWM with PARA_PWM_DIM_OFF,
                      \*                  blinks : light_ctrl_blink is called,
                      \*                  forever: light_ctrl_switch gets 0xffffffff]

ASSUME LightAssumption ==
  Confs \subseteq [dim : BOOLEAN, blinks : BOOLEAN, forever : BOOLEAN]

VARIABLES conf,
          state,      \* m_light_ctrl_dev.state
          lamp,       \* hal_light_set: what the light shows
          mdet,       \* the detection processes data
          cb, running, periodic,  \* tm_lot: callback, active, mode
          due,        \* its period is over, its expiry to be handled
          ms,         \* m_light_ctrl_dev.ms
          group,      \* the bits of m_light_ctrl_dev.event
          events,     \* the bits light_proc has taken
          rest        \* the handler light_proc is in the second half of, or "none"

lightVars == <<conf, state, lamp, mdet, cb, running, periodic, due, ms, group, events, rest>>

Expiries == {"LOT_EXPIRED", "SILENT_EXPIRED", "DIM_EXPIRED"}
Requests == {"SWITCH_ON", "SWITCH_OFF", "BLINK"}
Events == Expiries \cup Requests

States == {"ON", "SILENT", "DIM", "BLINK", "OFF"}
Times == {"finite", "forever"}

LightTypeOK ==
  /\ conf \in Confs
  /\ state \in States /\ (state = "DIM" => conf.dim) /\ (state = "BLINK" => conf.blinks)
  /\ lamp \in {"ON", "DIM", "OFF"}
  /\ mdet \in BOOLEAN
  /\ cb \in {"LOT_EXPIRED", "SILENT_EXPIRED", "DIM_EXPIRED", "BLINK"}
  /\ running \in BOOLEAN /\ periodic \in BOOLEAN /\ due \in BOOLEAN
  /\ ms \in Times
  /\ group \subseteq Events /\ events \subseteq Events
  /\ rest \in {"none", "on", "dim", "silent", "blink", "unblink"}

(* light_ctrl_init. *)
LightInit ==
  /\ conf \in Confs
  /\ state = "OFF" /\ lamp = "OFF" /\ mdet = TRUE
  /\ cb = "LOT_EXPIRED" /\ running = FALSE /\ periodic = FALSE /\ due = FALSE
  /\ ms = "finite" /\ group = {} /\ events = {} /\ rest = "none"

-----------------------------------------------------------------------------
Pending == group \cup events

(* The requests, from any task. *)
Ask(bit, t) ==
  /\ ms' = t
  /\ group' = group \cup {bit}
  /\ UNCHANGED <<conf, state, lamp, mdet, cb, running, periodic, due, events, rest>>

light_ctrl_on(t) == (t = "forever" => conf.forever) /\ Ask("SWITCH_ON", t)
light_ctrl_off == Ask("SWITCH_OFF", ms)
light_ctrl_blink == conf.blinks /\ Ask("BLINK", "finite")

(* light_proc waits and has nothing to do. *)
LightIdle == rest = "none" /\ Pending = {}

(* The period of the timer comes to its end. *)
Pass ==
  /\ running /\ ~due /\ LightIdle
  /\ due' = TRUE
  /\ UNCHANGED <<conf, state, lamp, mdet, cb, running, periodic, ms, group, events, rest>>

(* The timer task: tm_lot expires.  The callbacks of the three periods set *)
(* their bit, tm_blink_hdl turns the light over.                           *)
LotExpire ==
  /\ running /\ due
  /\ running' = periodic /\ due' = FALSE
  /\ \/ /\ cb \in Expiries
        /\ group' = group \cup {cb}
        /\ UNCHANGED lamp
     \/ /\ cb = "BLINK"
        /\ lamp' = IF lamp = "OFF" THEN "ON" ELSE "OFF"
        /\ UNCHANGED group
  /\ UNCHANGED <<conf, state, mdet, cb, periodic, ms, events, rest>>

-----------------------------------------------------------------------------
(* light_proc waits for bits and clears those it takes. *)
Wait ==
  /\ rest = "none" /\ events = {} /\ group # {}
  /\ events' = group
  /\ group' = {}
  /\ UNCHANGED <<conf, state, lamp, mdet, cb, running, periodic, due, ms, rest>>

(* The first halves of enter_silent_state and enter_dim_state. *)
EnterSilent ==
  /\ lamp' = "OFF" /\ cb' = "SILENT_EXPIRED" /\ rest' = "silent"
  /\ UNCHANGED <<state, mdet, running, periodic, due>>

EnterDim ==
  /\ lamp' = "DIM" /\ cb' = "DIM_EXPIRED" /\ rest' = "dim"
  /\ UNCHANGED <<state, mdet, running, periodic, due>>

(* Mutant: a light that is on is not kept on for the new time. *)
event_light_on_NoRestart ==
  \/ /\ state = "ON"
     /\ lamp' = "ON"
     /\ UNCHANGED <<state, mdet, cb, running, periodic, due, rest>>
  \/ /\ state \in {"SILENT", "BLINK"}
     /\ UNCHANGED <<state, lamp, mdet, cb, running, periodic, due, rest>>
  \/ /\ state \in {"OFF", "DIM"}
     /\ lamp' = "ON" /\ state' = "ON"
     /\ cb' = "LOT_EXPIRED" /\ rest' = "on"
     /\ UNCHANGED <<mdet, running, periodic, due>>

(* Mutant: the callback is left as it is. *)
event_light_on_NoCallback ==
  \/ /\ state = "ON"
     /\ lamp' = "ON"
     /\ IF ms = "forever" THEN UNCHANGED <<running, due>>
        ELSE running' = TRUE /\ due' = FALSE
     /\ UNCHANGED <<state, mdet, cb, periodic, rest>>
  \/ /\ state \in {"SILENT", "BLINK"}
     /\ UNCHANGED <<state, lamp, mdet, cb, running, periodic, due, rest>>
  \/ /\ state \in {"OFF", "DIM"}
     /\ lamp' = "ON" /\ state' = "ON"
     /\ rest' = IF ms = "forever" THEN rest ELSE "on"
     /\ UNCHANGED <<mdet, cb, running, periodic, due>>

(* event_light_on.  While the light is silent or blinks it does nothing; a *)
(* time of 0xffffffff leaves the timer as it is.                           *)
event_light_on ==
  \/ /\ state = "ON"
     /\ lamp' = "ON"
     /\ IF ms = "forever" THEN UNCHANGED <<running, due>>
        ELSE running' = TRUE /\ due' = FALSE
     /\ UNCHANGED <<state, mdet, cb, periodic, rest>>
  \/ /\ state \in {"SILENT", "BLINK"}
     /\ UNCHANGED <<state, lamp, mdet, cb, running, periodic, due, rest>>
  \/ /\ state \in {"OFF", "DIM"}
     /\ lamp' = "ON" /\ state' = "ON"
     /\ IF ms = "forever" THEN UNCHANGED <<cb, rest>>
        ELSE cb' = "LOT_EXPIRED" /\ rest' = "on"
     /\ UNCHANGED <<mdet, running, periodic, due>>

(* Mutant: the silence is cut short. *)
event_light_off_Cuts ==
  \/ /\ state \in {"ON", "SILENT"}
     /\ lamp' = "OFF" /\ running' = FALSE /\ due' = FALSE /\ state' = "OFF"
     /\ UNCHANGED <<mdet, cb, periodic, rest>>
  \/ /\ state = "DIM"
     /\ EnterSilent
  \/ /\ state = "OFF"
     /\ lamp' = "OFF"
     /\ UNCHANGED <<state, mdet, cb, running, periodic, due, rest>>
  \/ /\ state = "BLINK"
     /\ lamp' = "OFF" /\ mdet' = TRUE /\ rest' = "unblink"
     /\ UNCHANGED <<state, cb, running, periodic, due>>

event_light_off ==
  \/ /\ state = "ON"
     /\ lamp' = "OFF" /\ running' = FALSE /\ due' = FALSE /\ state' = "OFF"
     /\ UNCHANGED <<mdet, cb, periodic, rest>>
  \/ /\ state = "DIM"
     /\ EnterSilent
  \/ /\ state \in {"SILENT", "OFF"}
     /\ lamp' = "OFF"
     /\ UNCHANGED <<state, mdet, cb, running, periodic, due, rest>>
  \/ /\ state = "BLINK"
     /\ lamp' = "OFF" /\ mdet' = TRUE /\ rest' = "unblink"
     /\ UNCHANGED <<state, cb, running, periodic, due>>

event_lot_expired == IF conf.dim THEN EnterDim ELSE EnterSilent

(* Mutant: the detection is not resumed. *)
event_silent_expired_NoResume ==
  /\ cb' = "LOT_EXPIRED" /\ state' = "OFF"
  /\ UNCHANGED <<lamp, mdet, running, periodic, due, rest>>

(* The timer is not stopped: the code takes it to have expired. *)
event_silent_expired ==
  /\ mdet' = TRUE /\ cb' = "LOT_EXPIRED" /\ state' = "OFF"
  /\ UNCHANGED <<lamp, running, periodic, due, rest>>

event_light_blink ==
  /\ mdet' = FALSE /\ lamp' = "ON" /\ cb' = "BLINK" /\ rest' = "blink"
  /\ UNCHANGED <<state, running, periodic, due>>

(* light_proc serves the bits in this order; a request for the light takes *)
(* an expiry that came with it away.                                       *)
light_proc ==
  /\ rest = "none"
  /\ \/ /\ "SWITCH_ON" \in events
        /\ event_light_on
        /\ events' = events \ {"SWITCH_ON", "LOT_EXPIRED"}
     \/ /\ "SWITCH_ON" \notin events /\ "SWITCH_OFF" \in events
        /\ event_light_off
        /\ events' = events \ {"SWITCH_OFF"}
     \/ /\ events \cap {"SWITCH_ON", "SWITCH_OFF"} = {} /\ "LOT_EXPIRED" \in events
        /\ event_lot_expired
        /\ events' = events \ {"LOT_EXPIRED"}
     \/ /\ events \subseteq {"SILENT_EXPIRED", "DIM_EXPIRED", "BLINK"} /\ "SILENT_EXPIRED" \in events
        /\ event_silent_expired
        /\ events' = events \ {"SILENT_EXPIRED"}
     \/ /\ events \subseteq {"DIM_EXPIRED", "BLINK"} /\ "DIM_EXPIRED" \in events
        /\ EnterSilent
        /\ events' = events \ {"DIM_EXPIRED"}
     \/ /\ events = {"BLINK"}
        /\ event_light_blink
        /\ events' = {}
  /\ UNCHANGED <<conf, ms, group>>

(* Mutant: the silence is not timed. *)
Finish_NoTimer ==
  /\ rest # "none"
  /\ rest' = "none"
  /\ running' = (rest \notin {"unblink", "silent"}) /\ due' = FALSE
  /\ periodic' = CASE rest = "blink" -> TRUE [] rest = "unblink" -> FALSE [] OTHER -> periodic
  /\ state' = CASE rest = "on" -> "ON" [] rest = "dim" -> "DIM" [] rest = "silent" -> "SILENT"
                [] rest = "blink" -> "BLINK" [] rest = "unblink" -> "OFF"
  /\ mdet' = (mdet /\ rest # "silent")
  /\ UNCHANGED <<conf, lamp, cb, ms, group, events>>

(* The second halves: the timer is started (restart_tm_lot), stopped or    *)
(* made periodic, the new state set.                                       *)
Finish ==
  /\ rest # "none"
  /\ rest' = "none"
  /\ running' = (rest # "unblink") /\ due' = FALSE
  /\ periodic' = CASE rest = "blink" -> TRUE [] rest = "unblink" -> FALSE [] OTHER -> periodic
  /\ state' = CASE rest = "on" -> "ON" [] rest = "dim" -> "DIM" [] rest = "silent" -> "SILENT"
                [] rest = "blink" -> "BLINK" [] rest = "unblink" -> "OFF"
  /\ mdet' = (mdet /\ rest # "silent")
  /\ UNCHANGED <<conf, lamp, cb, ms, group, events>>

-----------------------------------------------------------------------------
Light == Wait \/ light_proc \/ Finish

LightNext ==
  \/ \E t \in Times : light_ctrl_on(t)
  \/ light_ctrl_off \/ light_ctrl_blink
  \/ Pass \/ LotExpire \/ Light

LightSpec == LightInit /\ [][LightNext]_lightVars

(* The light task gets the processor, and a running timer runs out where   *)
(* the light task is idle again and again.                                 *)
LightFairSpec == LightSpec /\ WF_lightVars(Light) /\ SF_lightVars(Pass) /\ WF_lightVars(LotExpire)

-----------------------------------------------------------------------------
(* Whatever the light is in that is to end after a time, its timer runs or *)
(* has just run out: no order of requests and expiries, nor a stale expiry *)
(* served late, leaves the light on, dimmed or silent for good.            *)
Attended ==
  rest = "none" /\ (state \in {"SILENT", "DIM"} \/ (state = "ON" /\ ~conf.forever)) =>
    running \/ Pending \cap Expiries # {}

(* The timer that runs is the one of the state the light is in, although   *)
(* it is restarted with another callback while it may be running out.  (A  *)
(* light that is switched on for ever while it is dimmed keeps the timer   *)
(* that ends the dimming.)                                                 *)
TimerMatches ==
  rest = "none" /\ running /\ ~conf.forever =>
    cb = CASE state = "DIM" -> "DIM_EXPIRED"
           [] state = "SILENT" -> "SILENT_EXPIRED"
           [] state = "BLINK" -> "BLINK"
           [] OTHER -> "LOT_EXPIRED"

(* The detection is paused while the light is silent and at no other time, *)
(* unless it is made to blink.                                             *)
DetectsWhenLit ==
  rest = "none" /\ ~conf.blinks => (mdet <=> state # "SILENT")

(* When there are no more requests the light goes off, and the detection   *)
(* runs.                                                                   *)
GoesDark ==
  <>[](Pending \cap Requests = {}) =>
    conf.forever \/ conf.blinks \/ <>[](lamp = "OFF" /\ mdet)

(* A pause of the detection ends, whatever is requested meanwhile.         *)
DetectionResumes == []<>LightIdle => conf.blinks \/ (~mdet ~> mdet)
=============================================================================
