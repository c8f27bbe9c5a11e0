-------------------------- MODULE SysTimer_proofs --------------------------
(***************************************************************************)
(* The timers keep time: for every number of timers, every delay and every *)
(* interleaving of the tick with the timer calls and the main loop, each   *)
(* step of sys_timer.c is a step of the alarm clock, or none.              *)
(***************************************************************************)
EXTENDS SysTimer, FiniteSetTheorems, TLAPS

Starts == [op : {"start"}, t : Timers \ IsrTimers, ticks : 0 .. WindowTicks]

TimerTypes ==
  /\ queue \in [Ids -> Seq(Msgs)] /\ msgid \in Ids /\ msg \in Msgs \cup {NoMsg}
  /\ where \in [Timers -> {"free", "stopped", "running"}]
  /\ state \in [Timers -> {"STOPPED", "RUNNING", "EXPIRED"}]
  /\ opt \in [Timers -> Modes]
  /\ delay \in [Timers -> Nat]
  /\ period \in [Timers -> Delays \cup {0}]
  /\ step \in {"none", "entry", "oneshot", "callback"}
  /\ call = NoCall \/ call \in Starts

(* A timer that is not stopped is in the list the tick walks; one that     *)
(* runs has ticks left, so its delay does not wrap below zero.             *)
Active ==
  \A t \in Timers : state[t] # "STOPPED" =>
    /\ where[t] = "running" /\ period[t] \in Delays
    /\ state[t] = "RUNNING" => delay[t] \in 1 .. W - 1

(* The timer whose message is handled; between the test of its state and   *)
(* the critical section nothing changes it.                                *)
Handling ==
  /\ pc = "got" => msg \in Timers
  /\ step # "none" => pc = "run" /\ msg \in Timers
  /\ step = "oneshot" => state[msg] = "EXPIRED" /\ opt[msg] = "ONE_SHOT"

(* Between its two halves start_timer leaves the delay for the critical    *)
(* section; a timer that was running counts it down already, and cannot    *)
(* expire before the critical section.                                     *)
Starting ==
  call # NoCall =>
    /\ pc \in {"app", "run"} /\ step \in {"none", "callback"}
    /\ where[call.t] # "free" /\ period[call.t] \in Delays
    /\ IF state[call.t] = "RUNNING" THEN delay[call.t] + call.ticks > WindowTicks
       ELSE delay[call.t] \in Delays

TimerInv == TimerTypes /\ Active /\ Handling /\ Starting

LEMMA TimerFacts ==
  /\ NoMsg \notin Msgs /\ FirstId \in Ids /\ Timers = Msgs
  /\ IsFiniteSet(Timers) /\ DOMAIN Home = Timers
  /\ W \in Nat /\ WindowTicks \in Nat
  /\ \A d \in Delays : d \in Nat /\ 1 <= d /\ d <= W - 1
  /\ IsrTimers \subseteq Timers
BY KMsgAssumption, SysTimerAssumption DEF Timers

LEMMA CallFacts ==
  /\ \A c \in Starts : /\ c # NoCall /\ c.t \in Timers /\ c.t \notin IsrTimers
                       /\ c.ticks \in 0 .. WindowTicks
  /\ \A t \in Timers \ IsrTimers : [op |-> "start", t |-> t, ticks |-> 0] \in Starts
  /\ \A c \in Starts : c.ticks < WindowTicks =>
       /\ [c EXCEPT !.ticks = @ + 1] \in Starts
       /\ [c EXCEPT !.ticks = @ + 1].t = c.t
       /\ [c EXCEPT !.ticks = @ + 1].ticks = c.ticks + 1
<1>1. WindowTicks \in Nat
  BY TimerFacts
<1>2. \A c \in Starts : /\ c.op = "start" /\ c.t \in Timers /\ c.t \notin IsrTimers
                        /\ c.ticks \in 0 .. WindowTicks
  BY DEF Starts
<1>3. \A c \in Starts : c # NoCall
  <2>1. NoCall.op = "none"
    BY DEF NoCall
  <2> QED
    BY <1>2, <2>1
<1>4. \A t \in Timers \ IsrTimers : [op |-> "start", t |-> t, ticks |-> 0] \in Starts
  BY <1>1 DEF Starts
<1>5. ASSUME NEW c \in Starts, c.ticks < WindowTicks
      PROVE  /\ [c EXCEPT !.ticks = @ + 1] \in Starts
             /\ [c EXCEPT !.ticks = @ + 1].t = c.t
             /\ [c EXCEPT !.ticks = @ + 1].ticks = c.ticks + 1
  BY <1>1, <1>5 DEF Starts
<1> QED
  BY <1>2, <1>3, <1>4, <1>5

LEMMA InitTimer == sys_timer_init => TimerInv
<1> SUFFICES ASSUME sys_timer_init PROVE TimerInv
  OBVIOUS
<1>1. TimerTypes
  BY TimerFacts DEF sys_timer_init, TimerTypes, Modes
<1>2. Active /\ Handling /\ Starting
  BY DEF sys_timer_init, Active, Handling, Starting
<1> QED
  BY <1>1, <1>2 DEF TimerInv

-----------------------------------------------------------------------------
(* The tick: the timers that expire are posted, in some order.             *)
LEMMA OrdersTyped ==
  ASSUME NEW S \in SUBSET Timers, NEW s \in Orders(S)
  PROVE  s \in Seq(Msgs)
<1>1. IsFiniteSet(S)
  BY TimerFacts, FS_Subset
<1>2. Cardinality(S) \in Nat
  BY <1>1, FS_CardinalityType
<1>3. s \in [1 .. Cardinality(S) -> Msgs]
  BY TimerFacts DEF Orders
<1> QED
  BY <1>2, <1>3

LEMMA TickTimer ==
  ASSUME TimerInv, sys_timer_period
  PROVE  /\ TimerInv'
         /\ \A t \in Timers :
              IF state[t] = "RUNNING"
              THEN /\ delay[t] > 0 /\ delay'[t] = delay[t] - 1
                   /\ state'[t] = IF delay[t] = 1 THEN "EXPIRED" ELSE "RUNNING"
              ELSE delay'[t] = delay[t] /\ state'[t] = state[t]
<1> DEFINE left == [t \in Timers |-> IF t \in Counting THEN (delay[t] - 1) % W ELSE delay[t]]
           S == {t \in Counting : left[t] = 0}
<1>1. /\ call = NoCall \/ call.ticks < WindowTicks
      /\ call' = IF call = NoCall THEN call ELSE [call EXCEPT !.ticks = @ + 1]
      /\ delay' = left
      /\ expire(S)
      /\ UNCHANGED <<hdl, pc, msgid, msg, where, opt, period, step, calls>>
  BY DEF sys_timer_period, loopVars
<1>2. TimerTypes /\ Active /\ Handling /\ Starting
  BY DEF TimerInv
<1>3. \A t \in Timers : t \in Counting <=> state[t] = "RUNNING"
  BY <1>2 DEF Counting, Active, TimerTypes
<1>4. \A t \in Timers : state[t] = "RUNNING" => delay[t] \in 1 .. W - 1
  BY <1>2 DEF Active
<1>5. \A n \in 1 .. W - 1 : (n - 1) % W = n - 1 /\ n \in Nat
  BY TimerFacts
<1>6. \A t \in Timers : IF state[t] = "RUNNING" THEN left[t] = delay[t] - 1
                        ELSE left[t] = delay[t]
  BY <1>3, <1>4, <1>5
<1>7. \A t \in Timers : t \in S <=> state[t] = "RUNNING" /\ delay[t] = 1
  BY <1>3, <1>4, <1>5, <1>6 DEF Counting
<1>8. \A t \in Timers : state'[t] = IF t \in S THEN "EXPIRED" ELSE state[t]
  BY <1>1 DEF expire
<1> HIDE DEF left
<1>9. \A t \in Timers :
        IF state[t] = "RUNNING"
        THEN /\ delay[t] > 0 /\ delay'[t] = delay[t] - 1
             /\ state'[t] = IF delay[t] = 1 THEN "EXPIRED" ELSE "RUNNING"
        ELSE delay'[t] = delay[t] /\ state'[t] = state[t]
  BY <1>1, <1>4, <1>5, <1>6, <1>7, <1>8
<1>10. queue' \in [Ids -> Seq(Msgs)]
  <2>1. PICK s \in Orders(S \ Linked(FirstId)) :
          queue' = [queue EXCEPT ![FirstId] = @ \o s]
    BY <1>1 DEF expire
  <2>2. s \in Seq(Msgs)
    BY OrdersTyped DEF Counting
  <2> QED
    BY <1>2, <2>1, <2>2, TimerFacts DEF TimerTypes
<1>11. delay' \in [Timers -> Nat]
  <2>1. \A t \in Timers : left[t] \in Nat
    BY <1>2, <1>4, <1>5, <1>6 DEF TimerTypes
  <2> QED
    BY <1>1, <2>1 DEF left
<1>12. state' \in [Timers -> {"STOPPED", "RUNNING", "EXPIRED"}]
  BY <1>1, <1>2 DEF expire, TimerTypes
<1>13. call' = NoCall \/ call' \in Starts
  BY <1>1, <1>2, CallFacts DEF TimerTypes
<1>14. TimerTypes'
  BY <1>1, <1>2, <1>10, <1>11, <1>12, <1>13 DEF TimerTypes
<1>15. Active'
  <2> SUFFICES ASSUME NEW t \in Timers, state'[t] # "STOPPED"
               PROVE  /\ where'[t] = "running" /\ period'[t] \in Delays
                      /\ state'[t] = "RUNNING" => delay'[t] \in 1 .. W - 1
    BY DEF Active
  <2>1. state[t] # "STOPPED"
    BY <1>9
  <2>2. state'[t] = "RUNNING" =>
          state[t] = "RUNNING" /\ delay[t] # 1 /\ delay'[t] = delay[t] - 1
    BY <1>2, <1>9 DEF TimerTypes
  <2>3. state'[t] = "RUNNING" => delay'[t] \in 1 .. W - 1
    BY <1>4, <2>2, TimerFacts
  <2> QED
    BY <1>1, <1>2, <2>1, <2>3 DEF Active
<1>16. Handling'
  BY <1>1, <1>2, <1>9 DEF Handling
<1>17. Starting'
  <2> SUFFICES ASSUME call' # NoCall
               PROVE  /\ pc' \in {"app", "run"} /\ step' \in {"none", "callback"}
                      /\ where'[call'.t] # "free" /\ period'[call'.t] \in Delays
                      /\ IF state'[call'.t] = "RUNNING"
                         THEN delay'[call'.t] + call'.ticks > WindowTicks
                         ELSE delay'[call'.t] \in Delays
    BY DEF Starting
  <2>1. /\ call \in Starts /\ call.t \in Timers /\ call'.t = call.t
        /\ call'.ticks = call.ticks + 1 /\ call.ticks \in 0 .. WindowTicks
        /\ call.ticks < WindowTicks
    BY <1>1, <1>2, CallFacts DEF TimerTypes
  <2>2. /\ pc \in {"app", "run"} /\ step \in {"none", "callback"}
        /\ where[call.t] # "free" /\ period[call.t] \in Delays
        /\ IF state[call.t] = "RUNNING" THEN delay[call.t] + call.ticks > WindowTicks
           ELSE delay[call.t] \in Delays
    BY <1>2, <2>1, CallFacts DEF Starting
  <2>3. CASE state[call.t] = "RUNNING"
    <3>1. delay[call.t] \in Nat /\ delay[call.t] + call.ticks > WindowTicks
      BY <1>2, <2>1, <2>2, <2>3 DEF TimerTypes
    <3>2. delay[call.t] # 1 /\ delay'[call.t] = delay[call.t] - 1
          /\ state'[call.t] = "RUNNING"
      BY <1>9, <2>1, <2>3, <3>1, TimerFacts
    <3>3. delay'[call'.t] + call'.ticks > WindowTicks
      BY <2>1, <3>1, <3>2, TimerFacts
    <3> QED
      BY <1>1, <2>1, <2>2, <3>2, <3>3
  <2>4. CASE state[call.t] # "RUNNING"
    BY <1>1, <1>9, <2>1, <2>2, <2>4
  <2> QED
    BY <2>3, <2>4
<1> QED
  BY <1>9, <1>14, <1>15, <1>16, <1>17 DEF TimerInv

-----------------------------------------------------------------------------
(* What a change of one timer needs. *)
LEMMA OneTimer ==
  ASSUME TimerInv, NEW t \in Timers,
         UNCHANGED <<queue, msgid, pc, msg, step>>,
         where' \in [Timers -> {"free", "stopped", "running"}],
         state' \in [Timers -> {"STOPPED", "RUNNING", "EXPIRED"}],
         opt' \in [Timers -> Modes],
         delay' \in [Timers -> Nat],
         period' \in [Timers -> Delays \cup {0}],
         \A u \in Timers \ {t} :
           /\ where'[u] = where[u] /\ state'[u] = state[u] /\ delay'[u] = delay[u]
           /\ period'[u] = period[u] /\ opt'[u] = opt[u],
         state'[t] # "STOPPED" =>
           /\ where'[t] = "running" /\ period'[t] \in Delays
           /\ state'[t] = "RUNNING" => delay'[t] \in 1 .. W - 1,
         step = "oneshot" => t # msg
  PROVE  /\ Active' /\ Handling'
         /\ call' = NoCall \/ call' \in Starts => TimerTypes'
         /\ call' = NoCall \/ (call' = call /\ call.t # t) => TimerTypes' /\ Starting'
<1>1. TimerTypes /\ Active /\ Handling /\ Starting
  BY DEF TimerInv
<1>2. Active'
  BY <1>1 DEF Active
<1>3. Handling'
  BY <1>1 DEF Handling
<1>4. call' = NoCall \/ call' \in Starts => TimerTypes'
  BY <1>1 DEF TimerTypes
<1>5. ASSUME call' = NoCall \/ (call' = call /\ call.t # t)
      PROVE  TimerTypes' /\ Starting'
  <2>1. TimerTypes'
    BY <1>1, <1>4, <1>5 DEF TimerTypes
  <2>2. CASE call' = NoCall
    BY <2>1, <2>2 DEF Starting
  <2>3. CASE call' = call /\ call.t # t /\ call # NoCall
    <3>1. call.t \in Timers \ {t}
      BY <1>1, <2>3, CallFacts DEF TimerTypes
    <3> QED
      BY <1>1, <2>1, <2>3, <3>1 DEF Starting
  <2> QED
    BY <1>5, <2>2, <2>3
<1> QED
  BY <1>2, <1>3, <1>4, <1>5

LEMMA CanCallFacts ==
  ASSUME TimerInv, CanCall
  PROVE  /\ call = NoCall /\ step \in {"none", "callback"}
         /\ pc \in {"app", "run"}
BY DEF TimerInv, Handling, TimerTypes, CanCall

LEMMA CallTimer ==
  ASSUME TimerInv, ApiCall, \A d \in Delays : d > WindowTicks
  PROVE  TimerInv'
<1> USE DEF CanCall, Called, kmsgVars
<1>0. /\ TimerTypes /\ call = NoCall /\ step \in {"none", "callback"}
      /\ pc \in {"app", "run"}
  <2>1. CanCall
    BY DEF ApiCall, create_timer, osal_timer_change_mode, start_timer,
           osal_timer_change_period, stop_timer, osal_timer_delete
  <2> QED
    BY <2>1, CanCallFacts DEF TimerInv
<1>1. ASSUME NEW t \in Timers, NEW o \in Modes, NEW ms \in Delays \cup {0},
             create_timer(t, o, ms)
      PROVE  TimerInv'
  <2>1. ms \in Nat
    BY TimerFacts
  <2>2. state'[t] = "STOPPED"
    BY <1>0, <1>1 DEF create_timer, TimerTypes
  <2> QED
    BY <1>0, <1>1, <2>1, <2>2, OneTimer DEF create_timer, TimerTypes, TimerInv
<1>2. ASSUME NEW t \in Timers \ IsrTimers, NEW o \in Modes, osal_timer_change_mode(t, o)
      PROVE  TimerInv'
  BY <1>0, <1>2, OneTimer DEF osal_timer_change_mode, TimerTypes, TimerInv, Active
<1>3. ASSUME NEW t \in Timers \ IsrTimers, stop_timer(t) \/ osal_timer_delete(t)
      PROVE  TimerInv'
  <2>1. state' = [state EXCEPT ![t] = "STOPPED"]
    BY <1>3 DEF stop_timer, stop, osal_timer_delete
  <2>2. \E l \in {where[t], "stopped", "free"} : where' = [where EXCEPT ![t] = l]
    BY <1>0, <1>3 DEF stop_timer, stop, osal_timer_delete, TimerTypes
  <2>3. UNCHANGED <<queue, hdl, pc, msgid, msg, step, opt, delay, period, call>>
    BY <1>3 DEF stop_timer, osal_timer_delete
  <2>4. /\ where' \in [Timers -> {"free", "stopped", "running"}]
        /\ state' \in [Timers -> {"STOPPED", "RUNNING", "EXPIRED"}]
        /\ state'[t] = "STOPPED"
        /\ \A u \in Timers \ {t} : where'[u] = where[u] /\ state'[u] = state[u]
    BY <1>0, <2>1, <2>2 DEF TimerTypes
  <2> QED
    BY <1>0, <2>3, <2>4, OneTimer DEF TimerTypes, TimerInv
<1>4. ASSUME NEW t \in Timers \ IsrTimers, NEW d \in Delays, osal_timer_change_period(t, d)
      PROVE  TimerInv'
  <2>1. state'[t] = "STOPPED"
    BY <1>0, <1>4 DEF osal_timer_change_period, TimerTypes
  <2> QED
    BY <1>0, <1>4, <2>1, OneTimer DEF osal_timer_change_period, TimerTypes, TimerInv
<1>5. ASSUME NEW t \in Timers \ IsrTimers, NEW d \in Delays, start_timer(t, d),
             d > WindowTicks
      PROVE  TimerInv'
  <2>1. d \in Nat /\ d \in 1 .. W - 1
    BY TimerFacts
  <2>2. /\ call' \in Starts /\ call'.t = t /\ call'.ticks = 0
        /\ where[t] # "free"
    BY <1>5, CallFacts DEF start_timer
  <2>3. /\ delay'[t] = d /\ period'[t] = d /\ state' = state /\ where' = where
        /\ UNCHANGED <<pc, step>>
    BY <1>0, <1>5 DEF start_timer, TimerTypes
  <2>4. TimerTypes' /\ Active' /\ Handling'
    BY <1>0, <1>5, <2>1, <2>2, <2>3, OneTimer DEF start_timer, TimerTypes, TimerInv, Active
  <2>5. d + 0 > WindowTicks
    BY <1>5, <2>1
  <2>6. Starting'
    BY <1>0, <2>2, <2>3, <2>5 DEF Starting
  <2> QED
    BY <2>4, <2>6 DEF TimerInv
<1> QED
  BY <1>1, <1>2, <1>3, <1>4, <1>5 DEF ApiCall

(* An interrupt that starts or stops its timer: not the one between the    *)
(* test of its state and the critical section.                             *)
LEMMA IsrTimer ==
  ASSUME TimerInv, IsrInExpiry = FALSE, IsrCall PROVE TimerInv'
<1>0. TimerTypes /\ step # "oneshot"
  BY DEF IsrCall, TimerInv
<1>1. ASSUME NEW t \in IsrTimers, IsrStop(t) PROVE TimerInv'
  <2>1. call.t # t \/ call = NoCall
    BY <1>0, TimerFacts, CallFacts DEF TimerTypes
  <2>2. t \in Timers /\ state'[t] = "STOPPED"
    BY <1>0, <1>1, TimerFacts DEF IsrStop, stop, TimerTypes
  <2> QED
    BY <1>0, <1>1, <2>1, <2>2, OneTimer
       DEF IsrStop, stop, kmsgVars, ctxVars, TimerTypes, TimerInv
<1>2. ASSUME NEW t \in IsrTimers, NEW d \in Delays, IsrStart(t, d) PROVE TimerInv'
  <2>1. t \in Timers /\ (call.t # t \/ call = NoCall)
    BY <1>0, TimerFacts, CallFacts DEF TimerTypes
  <2>2. d \in Nat /\ d \in 1 .. W - 1
    BY TimerFacts
  <2>3. where'[t] = "running" /\ state'[t] = "RUNNING" /\ delay'[t] = d /\ period'[t] = d
    BY <1>0, <1>2, <2>1 DEF IsrStart, run, TimerTypes, TimerInv, Active
  <2> QED
    BY <1>0, <1>2, <2>1, <2>2, <2>3, OneTimer
       DEF IsrStart, run, kmsgVars, ctxVars, TimerTypes, TimerInv
<1> QED
  BY <1>1, <1>2 DEF IsrCall

(* The critical section of start_timer. *)
LEMMA CommitTimer ==
  ASSUME TimerInv, StartCommit
  PROVE  /\ TimerInv'
         /\ call.t \in Timers
         /\ IF state[call.t] = "RUNNING" THEN state' = state
            ELSE /\ delay[call.t] \in Delays
                 /\ state' = [state EXCEPT ![call.t] = "RUNNING"]
<1> DEFINE t == call.t
<1>1. /\ TimerTypes /\ Active /\ call \in Starts /\ t \in Timers
      /\ step \in {"none", "callback"}
      /\ period[t] \in Delays
      /\ state[t] # "RUNNING" => delay[t] \in Delays
  BY CallFacts DEF StartCommit, TimerInv, TimerTypes, Starting
<1>2. delay[t] \in 1 .. W - 1
  BY <1>1, TimerFacts DEF Active, TimerTypes
<1>3. /\ state' = [state EXCEPT ![t] = "RUNNING"] /\ call' = NoCall
      /\ where'[t] = "running"
      /\ where' = where \/ where' = [where EXCEPT ![t] = "running"]
      /\ UNCHANGED <<queue, hdl, pc, msgid, msg, opt, delay, period, step>>
  BY <1>1 DEF StartCommit, run, kmsgVars, TimerTypes, Active
<1> HIDE DEF t
<1>4. TimerInv'
  BY <1>1, <1>2, <1>3, OneTimer DEF TimerTypes, TimerInv
<1> QED
  BY <1>1, <1>3, <1>4 DEF t, TimerTypes

-----------------------------------------------------------------------------
(* The main loop: it hands over messages that are timers.                  *)
LEMMA LoopTimer ==
  ASSUME TimerInv, Enter \/ Pop \/ Dispatch \/ Test
  PROVE  /\ TimerInv'
         /\ UNCHANGED <<state, delay, opt, period>>
         /\ step' \in {"none", "entry"} /\ step = "none"
<1>0. /\ TimerTypes /\ Active /\ Handling /\ Starting
      /\ NoMsg \notin Msgs /\ Timers = Msgs /\ FirstId \in Ids
  BY TimerFacts DEF TimerInv
<1>1. UNCHANGED <<where, state, delay, opt, period, call>>
  BY DEF Enter, Pop, Dispatch, Test, timerVars, ctxVars
<1>2. /\ step' \in {"none", "entry"} /\ step = "none"
      /\ step' = "entry" => pc' = "run" /\ pc = "got" /\ msg' = msg
  BY <1>0 DEF Enter, Pop, Dispatch, Test, ctxVars, LoopEnter, LoopPop, LoopDispatch,
              LoopTest, Handling, TimerTypes
<1>3. queue' \in [Ids -> Seq(Msgs)] /\ msgid' \in Ids /\ msg' \in Msgs \cup {NoMsg}
  <2>1. ASSUME NEW q \in Seq(Msgs), q # <<>>
        PROVE  Tail(q) \in Seq(Msgs) /\ Head(q) \in Msgs
    BY <2>1
  <2>2. CASE Enter \/ Dispatch \/ Test
    BY <1>0, <2>2, KMsgAssumption
       DEF Enter, Dispatch, Test, LoopEnter, LoopDispatch, LoopTest, TimerTypes, Ids
  <2>3. CASE Pop /\ queue[msgid] # <<>>
    <3>1. Tail(queue[msgid]) \in Seq(Msgs) /\ Head(queue[msgid]) \in Msgs
      BY <1>0, <2>1, <2>3 DEF TimerTypes
    <3>2. /\ queue' = [queue EXCEPT ![msgid] = Tail(queue[msgid])] /\ msgid' = msgid
          /\ msg' = Head(queue[msgid])
      BY <2>3 DEF Pop, LoopPop
    <3> QED
      BY <1>0, <3>1, <3>2 DEF TimerTypes
  <2>4. CASE Pop /\ queue[msgid] = <<>>
    BY <1>0, <2>4 DEF Pop, LoopPop, TimerTypes
  <2> QED
    BY <2>2, <2>3, <2>4
<1>4. pc' = "got" => msg' \in Timers
  <2>1. CASE Pop
    <3>1. pc' = "got" => msg' # NoMsg
      BY <2>1 DEF Pop, LoopPop
    <3> QED
      BY <1>0, <1>3, <3>1
  <2>2. CASE Enter \/ Dispatch \/ Test
    BY <2>2 DEF Enter, Dispatch, Test, LoopEnter, LoopDispatch, LoopTest
  <2> QED
    BY <2>1, <2>2
<1>5. TimerTypes'
  BY <1>0, <1>1, <1>2, <1>3 DEF TimerTypes
<1>6. Active'
  BY <1>0, <1>1 DEF Active
<1>7. Handling'
  BY <1>0, <1>2, <1>4 DEF Handling
<1>8. call = NoCall
  BY <1>0, <1>2 DEF Starting, Enter, Pop, Dispatch, Test, LoopPop, LoopDispatch, LoopTest
<1>9. Starting'
  BY <1>1, <1>8 DEF Starting
<1> QED
  BY <1>1, <1>2, <1>5, <1>6, <1>7, <1>9 DEF TimerInv

LEMMA HandlerTimer ==
  ASSUME TimerInv, Noos = FALSE, OnExpired \/ OneShotStops \/ Return
  PROVE  TimerInv'
<1>0. TimerTypes /\ Active /\ Handling /\ Starting
  BY DEF TimerInv
<1>1. CASE OnExpired
  <2>1. /\ msg \in Timers /\ step = "entry" /\ pc = "run" /\ state[msg] = "EXPIRED"
        /\ period[msg] \in Delays /\ where[msg] = "running" /\ call = NoCall
    BY <1>0, <1>1 DEF OnExpired, Handling, Active, Starting
  <2>2. period[msg] \in Nat /\ period[msg] \in 1 .. W - 1
    BY <2>1, TimerFacts
  <2>3. /\ UNCHANGED <<queue, hdl, pc, msgid, msg, where, opt, period, call>>
        /\ step' = IF opt[msg] = "ONE_SHOT" THEN "oneshot" ELSE "callback"
    BY <1>1 DEF OnExpired, kmsgVars
  <2>4. CASE opt[msg] = "PERIODIC"
    <3>1. /\ delay' = [delay EXCEPT ![msg] = period[msg]]
          /\ state' = [state EXCEPT ![msg] = "RUNNING"] /\ step' = "callback"
      BY <1>1, <2>4 DEF OnExpired
    <3>2. TimerTypes'
      BY <1>0, <2>1, <2>2, <2>3, <3>1 DEF TimerTypes
    <3>3. Active' /\ Handling' /\ Starting'
      BY <1>0, <2>1, <2>2, <2>3, <3>1 DEF TimerTypes, Active, Handling, Starting
    <3> QED
      BY <3>2, <3>3 DEF TimerInv
  <2>5. CASE opt[msg] = "ONE_SHOT"
    <3>1. UNCHANGED <<delay, state>> /\ step' = "oneshot"
      BY <1>1, <2>5 DEF OnExpired
    <3> QED
      BY <1>0, <2>1, <2>3, <2>5, <3>1 DEF TimerInv, TimerTypes, Active, Handling, Starting
  <2> QED
    BY <1>0, <2>1, <2>4, <2>5 DEF TimerTypes, Modes
<1>2. CASE OneShotStops
  <2>1. /\ msg \in Timers /\ call = NoCall /\ pc = "run"
    BY <1>0, <1>2 DEF OneShotStops, Handling, Starting
  <2>2. /\ where' = [where EXCEPT ![msg] = "stopped"]
        /\ state' = [state EXCEPT ![msg] = "STOPPED"]
        /\ step' = "callback"
        /\ UNCHANGED <<queue, hdl, pc, msgid, msg, opt, delay, period, call>>
    BY <1>2 DEF OneShotStops, kmsgVars
  <2> QED
    BY <1>0, <2>1, <2>2 DEF TimerInv, TimerTypes, Active, Handling, Starting
<1>3. CASE Return
  <2>1. /\ step' = "none" /\ pc' = "test" /\ delay' = delay
        /\ UNCHANGED <<queue, hdl, msgid, msg, where, state, opt, period, call>>
    BY <1>3 DEF Return, HandlerReturn
  <2>2. call = NoCall
    BY <1>0, <1>3 DEF Return, Starting
  <2> QED
    BY <1>0, <2>1, <2>2 DEF TimerInv, TimerTypes, Active, Handling, Starting
<1> QED
  BY <1>1, <1>2, <1>3

LEMMA StepTimer ==
  ASSUME Noos = FALSE, IsrInExpiry = FALSE, \A d \in Delays : d > WindowTicks,
         TimerInv, [TimerNext]_allVars
  PROVE  TimerInv'
<1>1. CASE UNCHANGED allVars
  BY <1>1 DEF allVars, kmsgVars, timerVars, ctxVars, TimerInv, TimerTypes, Active,
              Handling, Starting
<1> QED
  BY <1>1, TickTimer, CallTimer, IsrTimer, CommitTimer, LoopTimer, HandlerTimer
     DEF TimerNext, MainStep

-----------------------------------------------------------------------------
(* The steps as the alarm clock sees them.                                 *)

(* A change of one timer that is not a ring: another mode, interval or     *)
(* stop, or an alarm set to d.                                             *)
LEMMA OneChanges ==
  ASSUME TimerTypes, TimerTypes', NEW t \in Timers, UNCHANGED <<step, msg>>,
         \A u \in Timers \ {t} :
           /\ state'[u] = state[u] /\ delay'[u] = delay[u]
           /\ period'[u] = period[u] /\ opt'[u] = opt[u],
         \/ Left'[t] \in {Left[t], -1}
         \/ \E d \in Delays : Left'[t] = d /\ Every'[t] \in {Every[t], d}
  PROVE  Clock!Next
<1>1. Ringing' = Ringing
  BY DEF Ringing
<1>2. Left' = [Left EXCEPT ![t] = Left'[t]]
  <2>1. \A u \in Timers \ {t} : Left'[u] = Left[u]
    BY DEF Left
  <2>2. DOMAIN Left = Timers /\ Left = [u \in Timers |-> Left[u]]
        /\ DOMAIN Left' = Timers /\ Left' = [u \in Timers |-> Left'[u]]
    BY DEF Left
  <2> QED
    BY <2>1, <2>2
<1>3. Every' = [Every EXCEPT ![t] = Every'[t]] /\ Every'[t] \in Delays \cup {0}
  <2>1. \A u \in Timers \ {t} : Every'[u] = Every[u]
    BY DEF Every
  <2>2. DOMAIN Every = Timers /\ Every = [u \in Timers |-> Every[u]]
        /\ DOMAIN Every' = Timers /\ Every' = [u \in Timers |-> Every'[u]]
    BY DEF Every
  <2>3. Every'[t] \in Delays \cup {0}
    BY DEF Every, TimerTypes
  <2> QED
    BY <2>1, <2>2, <2>3
<1>4. CASE Left'[t] \in {Left[t], -1}
  <2>1. Clock!Configure(t)
    BY <1>1, <1>2, <1>3, <1>4 DEF Clock!Configure, Clock!Off
  <2> QED
    BY <2>1 DEF Clock!Next
<1>5. CASE \E d \in Delays : Left'[t] = d /\ Every'[t] \in {Every[t], d}
  <2>1. PICK d \in Delays : Left'[t] = d /\ Every'[t] \in {Every[t], d}
    BY <1>5
  <2>2. Clock!Arm(t, d)
    BY <1>1, <1>2, <1>3, <2>1 DEF Clock!Arm
  <2> QED
    BY <2>2 DEF Clock!Next
<1> QED
  BY <1>4, <1>5

LEMMA NothingChanges ==
  ASSUME UNCHANGED <<state, delay, period, opt>>, Ringing' = Ringing
  PROVE  UNCHANGED Clock!vars
BY DEF Clock!vars, Left, Every

LEMMA TickClock ==
  ASSUME TimerInv, sys_timer_period
  PROVE  Clock!Tick
<1>1. UNCHANGED <<opt, period, step, msg>>
  BY DEF sys_timer_period, loopVars
<1>2. Every' = Every /\ Ringing' = Ringing
  BY <1>1 DEF Every, Ringing
<1>3. \A t \in Timers : Left'[t] = IF Left[t] > 0 THEN Left[t] - 1 ELSE Left[t]
  <2> TAKE t \in Timers
  <2>1. IF state[t] = "RUNNING"
        THEN /\ delay[t] > 0 /\ delay'[t] = delay[t] - 1
             /\ state'[t] = IF delay[t] = 1 THEN "EXPIRED" ELSE "RUNNING"
        ELSE delay'[t] = delay[t] /\ state'[t] = state[t]
    BY TickTimer
  <2>2. delay[t] \in Nat
    BY DEF TimerInv, TimerTypes
  <2> QED
    BY <2>1, <2>2 DEF Left
<1>4. Left' = [t \in Timers |-> IF Left[t] > 0 THEN Left[t] - 1 ELSE Left[t]]
  BY <1>3 DEF Left
<1> QED
  BY <1>2, <1>4 DEF Clock!Tick

LEMMA CallClock ==
  ASSUME TimerInv, TimerInv', ApiCall
  PROVE  Clock!Next
<1> USE DEF Called, kmsgVars
<1>0. TimerTypes /\ TimerTypes' /\ Active
  BY DEF TimerInv
<1>1. ASSUME NEW t \in Timers, NEW o \in Modes, NEW ms \in Delays \cup {0},
             create_timer(t, o, ms)
      PROVE  Clock!Next
  <2>1. Left'[t] = -1
    BY <1>0, <1>1 DEF create_timer, TimerTypes, Left
  <2> QED
    BY <1>0, <1>1, <2>1, OneChanges DEF create_timer, TimerTypes
<1>2. ASSUME NEW t \in Timers, NEW o \in Modes, osal_timer_change_mode(t, o)
      PROVE  Clock!Next
  <2>1. Left'[t] = Left[t]
    BY <1>0, <1>2 DEF osal_timer_change_mode, Left
  <2> QED
    BY <1>0, <1>2, <2>1, OneChanges DEF osal_timer_change_mode, TimerTypes
<1>3. ASSUME NEW t \in Timers, stop_timer(t) \/ osal_timer_delete(t)
      PROVE  Clock!Next
  <2>1. state' = [state EXCEPT ![t] = "STOPPED"]
    BY <1>3 DEF stop_timer, stop, osal_timer_delete
  <2>2. Left'[t] = -1
    BY <1>0, <2>1 DEF TimerTypes, Left
  <2>3. UNCHANGED <<opt, delay, period, step, msg>>
    BY <1>3 DEF stop_timer, osal_timer_delete
  <2> QED
    BY <1>0, <2>1, <2>2, <2>3, OneChanges DEF TimerTypes
<1>4. ASSUME NEW t \in Timers, NEW d \in Delays, osal_timer_change_period(t, d)
      PROVE  Clock!Next
  <2>1. Left'[t] = -1
    BY <1>0, <1>4 DEF osal_timer_change_period, TimerTypes, Left
  <2> QED
    BY <1>0, <1>4, <2>1, OneChanges DEF osal_timer_change_period, TimerTypes
<1>5. ASSUME NEW t \in Timers, NEW d \in Delays, start_timer(t, d)
      PROVE  Clock!Next
  <2>1. /\ delay' = [delay EXCEPT ![t] = d] /\ period' = [period EXCEPT ![t] = d]
        /\ UNCHANGED <<state, opt, step, msg>>
    BY <1>5 DEF start_timer
  <2>2. CASE state[t] = "RUNNING"
    <3>1. Left'[t] = d /\ Every'[t] \in {Every[t], d}
      BY <1>0, <2>1, <2>2 DEF TimerTypes, Left, Every
    <3> QED
      BY <1>0, <2>1, <3>1, OneChanges DEF TimerTypes
  <2>3. CASE state[t] # "RUNNING"
    <3>1. Left'[t] = Left[t]
      BY <1>0, <2>1, <2>3 DEF TimerTypes, Left
    <3> QED
      BY <1>0, <2>1, <3>1, OneChanges DEF TimerTypes
  <2> QED
    BY <2>2, <2>3
<1> QED
  BY <1>1, <1>2, <1>3, <1>4, <1>5 DEF ApiCall

LEMMA IsrClock ==
  ASSUME TimerInv, TimerInv', IsrCall
  PROVE  Clock!Next
<1>0. TimerTypes /\ TimerTypes' /\ Active /\ IsrTimers \subseteq Timers
  BY TimerFacts DEF TimerInv
<1>1. ASSUME NEW t \in Timers, IsrStop(t) PROVE Clock!Next
  <2>1. /\ state' = [state EXCEPT ![t] = "STOPPED"]
        /\ UNCHANGED <<opt, delay, period, step, msg>>
    BY <1>1 DEF IsrStop, stop, kmsgVars, ctxVars
  <2>2. Left'[t] = -1
    BY <1>0, <2>1 DEF TimerTypes, Left
  <2> QED
    BY <1>0, <2>1, <2>2, OneChanges DEF TimerTypes
<1>2. ASSUME NEW t \in Timers, NEW d \in Delays, IsrStart(t, d) PROVE Clock!Next
  <2>1. /\ delay' = [delay EXCEPT ![t] = d] /\ period' = [period EXCEPT ![t] = d]
        /\ state' = [state EXCEPT ![t] = "RUNNING"]
        /\ UNCHANGED <<opt, step, msg>>
    BY <1>2 DEF IsrStart, run, kmsgVars, ctxVars
  <2>2. Left'[t] = d /\ Every'[t] \in {Every[t], d}
    BY <1>0, <2>1 DEF TimerTypes, Left, Every
  <2> QED
    BY <1>0, <2>1, <2>2, OneChanges DEF TimerTypes
<1> QED
  BY <1>0, <1>1, <1>2 DEF IsrCall

LEMMA CommitClock ==
  ASSUME TimerInv, TimerInv', StartCommit
  PROVE  [Clock!Next]_(Clock!vars)
<1>0. TimerTypes /\ TimerTypes'
  BY DEF TimerInv
<1> DEFINE t == call.t
<1>1. UNCHANGED <<opt, delay, period, step, msg>>
  BY DEF StartCommit, kmsgVars
<1>2. /\ t \in Timers
      /\ IF state[t] = "RUNNING" THEN state' = state
         ELSE /\ delay[t] \in Delays
              /\ state' = [state EXCEPT ![t] = "RUNNING"]
  BY CommitTimer
<1> HIDE DEF t
<1>3. CASE state[t] = "RUNNING"
  <2>1. Ringing' = Ringing
    BY <1>1 DEF Ringing
  <2> QED
    BY <1>1, <1>2, <1>3, <2>1, NothingChanges
<1>4. CASE state[t] # "RUNNING"
  <2>1. Left'[t] = delay[t] /\ Every'[t] = Every[t] /\ delay[t] \in Delays
    BY <1>0, <1>1, <1>2, <1>4 DEF TimerTypes, Left, Every
  <2>2. \A u \in Timers \ {t} : state'[u] = state[u]
    BY <1>0, <1>2, <1>4 DEF TimerTypes
  <2> QED
    BY <1>0, <1>1, <1>2, <2>1, <2>2, OneChanges
<1> QED
  BY <1>3, <1>4

(* A timer rings when process_timer_expired_msg has armed it again or      *)
(* stopped it.                                                             *)
LEMMA HandlerClock ==
  ASSUME TimerInv, TimerInv', Noos = FALSE, OnExpired \/ OneShotStops \/ Return
  PROVE  [Clock!Next]_(Clock!vars)
<1>0. /\ TimerTypes /\ TimerTypes' /\ Active /\ Handling
      /\ NoTimer \notin Timers
  BY TimerFacts DEF TimerInv, NoTimer
<1>1. CASE OnExpired
  <2>1. /\ msg \in Timers /\ step = "entry" /\ state[msg] = "EXPIRED"
        /\ period[msg] \in Delays /\ period[msg] # 0
    BY <1>0, <1>1, TimerFacts DEF OnExpired, Handling, Active
  <2>2. UNCHANGED <<msg, opt, period>> /\ Ringing = NoTimer
    BY <1>1, <2>1 DEF OnExpired, kmsgVars, Ringing
  <2>3. CASE opt[msg] = "PERIODIC"
    <3>1. /\ delay' = [delay EXCEPT ![msg] = period[msg]]
          /\ state' = [state EXCEPT ![msg] = "RUNNING"] /\ step' = "callback"
      BY <1>1, <2>3 DEF OnExpired
    <3>2. Left[msg] = 0 /\ Every[msg] = period[msg] /\ Every' = Every
      BY <2>1, <2>2, <2>3 DEF Left, Every
    <3>3. Left' = [Left EXCEPT ![msg] = period[msg]]
      BY <1>0, <2>1, <3>1 DEF TimerTypes, Left
    <3>4. Ringing' = msg
      BY <2>2, <3>1 DEF Ringing
    <3>5. Clock!Ring(msg)
      BY <2>1, <2>2, <3>2, <3>3, <3>4 DEF Clock!Ring
    <3> QED
      BY <2>1, <3>5 DEF Clock!Next
  <2>4. CASE opt[msg] = "ONE_SHOT"
    <3>1. UNCHANGED <<delay, state>> /\ step' = "oneshot"
      BY <1>1, <2>4 DEF OnExpired
    <3>2. Ringing' = Ringing
      BY <2>2, <3>1 DEF Ringing
    <3> QED
      BY <2>2, <3>1, <3>2, NothingChanges
  <2> QED
    BY <1>0, <2>1, <2>3, <2>4 DEF TimerTypes, Modes
<1>2. CASE OneShotStops
  <2>1. /\ msg \in Timers /\ step = "oneshot" /\ state[msg] = "EXPIRED"
        /\ opt[msg] = "ONE_SHOT"
    BY <1>0, <1>2 DEF OneShotStops, Handling
  <2>2. /\ state' = [state EXCEPT ![msg] = "STOPPED"]
        /\ step' = "callback"
        /\ UNCHANGED <<msg, opt, delay, period>>
    BY <1>2 DEF OneShotStops, kmsgVars
  <2>3. Left[msg] = 0 /\ Every[msg] = 0 /\ Every' = Every
    BY <2>1, <2>2 DEF Left, Every
  <2>4. Left' = [Left EXCEPT ![msg] = -1]
    BY <1>0, <2>1, <2>2 DEF TimerTypes, Left
  <2>5. Ringing = NoTimer /\ Ringing' = msg
    BY <2>1, <2>2 DEF Ringing
  <2>6. Clock!Ring(msg)
    BY <2>1, <2>3, <2>4, <2>5 DEF Clock!Ring, Clock!Off
  <2> QED
    BY <2>1, <2>6 DEF Clock!Next
<1>3. CASE Return
  <2>1. /\ step' = "none" /\ UNCHANGED <<msg, state, delay, opt, period>>
        /\ step \in {"callback", "entry"}
    BY <1>3 DEF Return, HandlerReturn
  <2>2. Left' = Left /\ Every' = Every /\ Ringing' = NoTimer
    BY <2>1 DEF Left, Every, Ringing
  <2>3. CASE step = "callback"
    <3>1. Ringing # NoTimer
      BY <1>0, <2>3 DEF Handling, Ringing
    <3> QED
      BY <2>2, <3>1 DEF Clock!Next, Clock!Return
  <2>4. CASE step = "entry"
    <3>1. Ringing = NoTimer
      BY <2>4 DEF Ringing
    <3> QED
      BY <2>2, <3>1 DEF Clock!vars
  <2> QED
    BY <2>1, <2>3, <2>4
<1> QED
  BY <1>1, <1>2, <1>3

LEMMA StepClock ==
  ASSUME TimerInv, TimerInv', Noos = FALSE, [TimerNext]_allVars
  PROVE  [Clock!Next]_(Clock!vars)
<1>1. CASE UNCHANGED allVars
  <2>1. UNCHANGED <<state, delay, period, opt, step, msg>>
    BY <1>1 DEF allVars, kmsgVars, timerVars, ctxVars
  <2> QED
    BY <2>1, NothingChanges DEF Ringing
<1>2. CASE Enter \/ Pop \/ Dispatch \/ Test
  <2>1. UNCHANGED <<state, delay, opt, period>> /\ Ringing' = Ringing
    BY <1>2, LoopTimer DEF Ringing
  <2> QED
    BY <2>1, NothingChanges
<1>3. CASE sys_timer_period
  BY <1>3, TickClock DEF Clock!Next
<1> QED
  BY <1>1, <1>2, <1>3, CallClock, IsrClock, CommitClock, HandlerClock
     DEF TimerNext, MainStep

(* The timers implement the alarm clock: each tick counts for every armed  *)
(* timer, none rings before its ticks have passed, twice for one expiry or *)
(* after it was stopped, and a periodic one keeps its interval, wherever   *)
(* the ticks, the receive interrupt and the queued messages fall.  This    *)
(* holds where osal_task_invalid_msg does not write into the timer, no     *)
(* interrupt comes between the test and the critical section of            *)
(* process_timer_expired_msg, and no delay passes inside start_timer.      *)
THEOREM RefinesAlarmClock ==
  ASSUME Noos = FALSE, IsrInExpiry = FALSE, \A d \in Delays : d > WindowTicks
  PROVE  TimerSpec => Clock!Spec
<1>1. sys_timer_init => Clock!Init
  BY DEF sys_timer_init, Clock!Init, Clock!Off, Left, Every, Ringing
<1>2. TimerInv /\ [TimerNext]_allVars => TimerInv'
  BY StepTimer
<1>3. TimerInv /\ TimerInv' /\ [TimerNext]_allVars => [Clock!Next]_(Clock!vars)
  BY StepClock
<1> QED
  BY <1>1, <1>2, <1>3, InitTimer, PTL DEF TimerSpec, Clock!Spec
=============================================================================
