------------------------------ MODULE SysTimer ------------------------------
(***************************************************************************)
(* platform/system/time/sys_timer.c and the wrappers of                    *)
(* kernel/baremetal/osal_timer.c, on top of the message loop of KMsg.  The *)
(* 1 ms tick interrupt (jiffies.c) counts the running timers down and      *)
(* posts the message of one that reaches zero; the main loop hands the     *)
(* message to process_timer_expired_msg, which runs the callback.          *)
(*                                                                         *)
(* The message object of a timer is the timer.  The position of a timer in *)
(* its list is left out: it only decides the order in which timers that    *)
(* expire in one tick are posted, which is left open here.                 *)
(***************************************************************************)
EXTENDS KMsg, Integers, FiniteSets

CONSTANTS Delays,       \* the delays callers pass to start_timer
          W,            \* 2^32: delay is a u32
          Byte,         \* 2^8
          Noos,         \* the build has kernel/baremetal/osal_task.c, whose
                        \* osal_task_invalid_msg writes in front of the msg_t
          IsrTimers,    \* timers an interrupt handler starts and stops: the
                        \* receive timeout of ci_port.c
          IsrInExpiry,  \* they may do so between the state test and the
                        \* critical section of process_timer_expired_msg, as
                        \* the code has it
          MaxCalls,     \* bound: timer calls in one callback or loop turn
          WindowTicks   \* ticks that fall inside one start_timer call

Timers == Msgs
NoTimer == NoMsg
Modes == {"ONE_SHOT", "PERIODIC"}
NoCall == [op |-> "none", ticks |-> 0]

ASSUME SysTimerAssumption ==
  /\ IsFiniteSet(Timers)
  /\ DOMAIN Home = Timers
  /\ \A t \in Timers : Home[t] = FirstId
  /\ W \in Nat /\ Byte \in Nat \ {0}
  /\ Delays \subseteq 1 .. W - 1
  /\ Noos \in BOOLEAN
  /\ IsrTimers \subseteq Timers
  /\ IsrInExpiry \in BOOLEAN
  /\ MaxCalls \in Nat /\ WindowTicks \in Nat

VARIABLES where,          \* the list the timer is linked in
          state,          \* STOPPED, RUNNING or EXPIRED
          opt,
          delay, period,
          step,           \* process_timer_expired_msg's place
          call,           \* start_timer of the main context in progress
          calls           \* calls since the callback or loop turn began

timerVars == <<where, state, opt, delay, period>>
ctxVars   == <<step, call, calls>>
allVars   == <<kmsgVars, timerVars, ctxVars>>

(* After sys_timer_init, which registers process_timer_expired_msg. *)
sys_timer_init ==
  /\ queue = [id \in Ids |-> <<>>]
  /\ hdl = [id \in Ids |-> id = FirstId]
  /\ pc = "app" /\ msgid = FirstId /\ msg = NoMsg
  /\ where = [t \in Timers |-> "free"]
  /\ state = [t \in Timers |-> "STOPPED"]
  /\ opt = [t \in Timers |-> "ONE_SHOT"]
  /\ delay = [t \in Timers |-> 0]
  /\ period = [t \in Timers |-> 0]
  /\ step = "none" /\ call = NoCall /\ calls = 0

-----------------------------------------------------------------------------
(* The tick interrupt.                                                     *)

(* The timers the tick counts down. *)
Counting == {t \in Timers : where[t] = "running" /\ state[t] = "RUNNING"}

(* The orders in which a set of timers can be posted. *)
Orders(S) ==
  {s \in [1 .. Cardinality(S) -> S] :
     \A i, j \in 1 .. Cardinality(S) : s[i] = s[j] => i = j}

(* The timers of S reached zero: they change state and their messages are  *)
(* posted, those that are not linked already.                              *)
expire(S) ==
  /\ state' = [t \in Timers |-> IF t \in S THEN "EXPIRED" ELSE state[t]]
  /\ \E s \in Orders(S \ Linked(FirstId)) :
       queue' = [queue EXCEPT ![FirstId] = @ \o s]

sys_timer_period ==
  LET left == [t \in Timers |-> IF t \in Counting THEN (delay[t] - 1) % W ELSE delay[t]]
  IN /\ call = NoCall \/ call.ticks < WindowTicks
     /\ call' = IF call = NoCall THEN call ELSE [call EXCEPT !.ticks = @ + 1]
     /\ delay' = left
     /\ expire({t \in Counting : left[t] = 0})
     /\ UNCHANGED <<loopVars, where, opt, period, step, calls>>

-----------------------------------------------------------------------------
(* The timer calls of main code: a callback, or the application between    *)
(* two rounds of k_msg_loop.                                               *)
CanCall == /\ pc = "app" \/ (pc = "run" /\ step = "callback")
           /\ call = NoCall
           /\ calls < MaxCalls

Called == /\ calls' = calls + 1
          /\ UNCHANGED <<kmsgVars, step>>

(* create_timer takes a timer from the free list; osal_timer_create then   *)
(* stores the interval ms, which stays 0 for users of sys_timer.h.         *)
create_timer(t, o, ms) ==
  /\ CanCall
  /\ where[t] = "free"
  /\ where' = [where EXCEPT ![t] = "stopped"]
  /\ state' = [state EXCEPT ![t] = "STOPPED"]
  /\ opt' = [opt EXCEPT ![t] = o]
  /\ delay' = [delay EXCEPT ![t] = ms]
  /\ period' = [period EXCEPT ![t] = ms]
  /\ Called /\ UNCHANGED call

(* stop_timer's critical section. *)
stop(t) ==
  /\ where' = IF state[t] = "STOPPED" THEN where ELSE [where EXCEPT ![t] = "stopped"]
  /\ state' = [state EXCEPT ![t] = "STOPPED"]

stop_timer(t) ==
  /\ CanCall
  /\ where[t] # "free"
  /\ stop(t)
  /\ Called /\ UNCHANGED <<opt, delay, period, call>>

(* Every caller stops the timer it deletes, as osal_timer_delete does.  A  *)
(* tick between the two critical sections does not count a stopped timer.  *)
osal_timer_delete(t) ==
  /\ CanCall
  /\ where[t] # "free"
  /\ where' = [where EXCEPT ![t] = "free"]
  /\ state' = [state EXCEPT ![t] = "STOPPED"]
  /\ Called /\ UNCHANGED <<opt, delay, period, call>>

(* reconfig_timer stops the timer and leaves it in its list. *)
osal_timer_change_period(t, ms) ==
  /\ CanCall
  /\ where[t] # "free"
  /\ state' = [state EXCEPT ![t] = "STOPPED"]
  /\ delay' = [delay EXCEPT ![t] = 0]
  /\ period' = [period EXCEPT ![t] = ms]
  /\ Called /\ UNCHANGED <<where, opt, call>>

osal_timer_change_mode(t, o) ==
  /\ CanCall
  /\ where[t] # "free"
  /\ opt' = [opt EXCEPT ![t] = o]
  /\ Called /\ UNCHANGED <<where, state, delay, period, call>>

(* start_timer stores the delay before its critical section. *)
start_timer(t, d) ==
  /\ CanCall
  /\ where[t] # "free"
  /\ delay' = [delay EXCEPT ![t] = d]
  /\ period' = [period EXCEPT ![t] = d]
  /\ call' = [op |-> "start", t |-> t, ticks |-> 0]
  /\ Called /\ UNCHANGED <<where, state, opt>>

(* The critical section of start_timer. *)
run(t) ==
  /\ where' = IF state[t] = "STOPPED" THEN [where EXCEPT ![t] = "running"] ELSE where
  /\ state' = [state EXCEPT ![t] = "RUNNING"]

StartCommit ==
  /\ call # NoCall
  /\ run(call.t)
  /\ call' = NoCall
  /\ UNCHANGED <<kmsgVars, opt, delay, period, step, calls>>

(* The receive interrupt of ci_port.c starts and stops its timeout timer. *)
IsrStart(t, d) ==
  /\ where[t] # "free"
  /\ delay' = [delay EXCEPT ![t] = d]
  /\ period' = [period EXCEPT ![t] = d]
  /\ run(t)
  /\ UNCHANGED <<kmsgVars, opt, ctxVars>>

IsrStop(t) ==
  /\ where[t] # "free"
  /\ stop(t)
  /\ UNCHANGED <<kmsgVars, opt, delay, period, ctxVars>>

-----------------------------------------------------------------------------
(* The main loop.                                                          *)
Enter == /\ call = NoCall
         /\ LoopEnter
         /\ calls' = 0
         /\ UNCHANGED <<timerVars, step, call>>

Dispatch == /\ LoopDispatch
            /\ step' = IF pc' = "run" THEN "entry" ELSE "none"
            /\ UNCHANGED <<timerVars, call, calls>>

(* Mutant: the message is taken for an expiry whatever the state. *)
OnExpired_Unchecked ==
  /\ step = "entry"
  /\ step' = IF opt[msg] = "ONE_SHOT" THEN "oneshot" ELSE "callback"
  /\ IF opt[msg] = "PERIODIC"
     THEN /\ delay' = [delay EXCEPT ![msg] = period[msg]]
          /\ state' = [state EXCEPT ![msg] = "RUNNING"]
     ELSE UNCHANGED <<delay, state>>
  /\ UNCHANGED <<kmsgVars, where, opt, period, call, calls>>

(* process_timer_expired_msg reads the state outside a critical section; a *)
(* periodic timer is armed again at once, before its callback.             *)
OnExpired ==
  /\ step = "entry"
  /\ state[msg] = "EXPIRED"
  /\ step' = IF opt[msg] = "ONE_SHOT" THEN "oneshot" ELSE "callback"
  /\ IF opt[msg] = "PERIODIC"
     THEN /\ delay' = [delay EXCEPT ![msg] = period[msg]]
          /\ state' = [state EXCEPT ![msg] = "RUNNING"]
     ELSE UNCHANGED <<delay, state>>
  /\ UNCHANGED <<kmsgVars, where, opt, period, call, calls>>

OneShotStops ==
  /\ step = "oneshot"
  /\ where' = [where EXCEPT ![msg] = "stopped"]
  /\ state' = [state EXCEPT ![msg] = "STOPPED"]
  /\ step' = "callback"
  /\ UNCHANGED <<kmsgVars, opt, delay, period, call, calls>>

(* The handler returns, at once when the timer is not EXPIRED.  In a build *)
(* without an RTOS osal_task_invalid_msg takes the message for part of a   *)
(* pool slot and clears the byte 12 in front of it: the low byte of delay. *)
Return ==
  /\ \/ step = "callback" /\ call = NoCall
     \/ step = "entry" /\ state[msg] # "EXPIRED"
  /\ HandlerReturn
  /\ step' = "none"
  /\ delay' = IF Noos THEN [delay EXCEPT ![msg] = @ - (@ % Byte)] ELSE delay
  /\ calls' = 0
  /\ UNCHANGED <<where, state, opt, period, call>>

Pop  == LoopPop /\ UNCHANGED <<timerVars, ctxVars>>
Test == LoopTest /\ UNCHANGED <<timerVars, ctxVars>>

MainStep == Enter \/ Pop \/ Dispatch \/ OnExpired \/ OneShotStops \/ Return \/ Test
            \/ StartCommit

(* Every timer has one owner: main code creates the timer of the receive   *)
(* interrupt and does nothing else with it.                                *)
ApiCall ==
  \/ \E t \in Timers, o \in Modes, ms \in Delays \cup {0} : create_timer(t, o, ms)
  \/ \E t \in Timers \ IsrTimers :
       \/ \E o \in Modes : osal_timer_change_mode(t, o)
       \/ \E d \in Delays : start_timer(t, d) \/ osal_timer_change_period(t, d)
       \/ stop_timer(t)
       \/ osal_timer_delete(t)

IsrCall ==
  /\ IsrInExpiry \/ step # "oneshot"
  /\ \E t \in IsrTimers : IsrStop(t) \/ \E d \in Delays : IsrStart(t, d)

TimerNext == MainStep \/ ApiCall \/ IsrCall \/ sys_timer_period

TimerSpec == sys_timer_init /\ [][TimerNext]_allVars

(* The tick interrupt keeps coming; main runs on, callbacks return.        *)
FairTimerSpec ==
  TimerSpec /\ WF_allVars(MainStep) /\ WF_allVars(sys_timer_period)

-----------------------------------------------------------------------------
(* The timers implement the alarm clock: an armed timer rings, exactly     *)
(* when its ticks have passed and not before, never after it was stopped,  *)
(* and a periodic timer keeps its interval -- although start_timer and     *)
(* process_timer_expired_msg work outside critical sections, the message   *)
(* of a stopped timer stays queued, and a timer can expire again before    *)
(* its last message is handled.                                            *)
Left == [t \in Timers |-> IF state[t] = "RUNNING" THEN delay[t]
                          ELSE IF state[t] = "EXPIRED" THEN 0 ELSE -1]
Every == [t \in Timers |-> IF opt[t] = "PERIODIC" THEN period[t] ELSE 0]
Ringing == IF step = "callback" THEN msg ELSE NoTimer

Clock == INSTANCE AlarmClock WITH left <- Left, every <- Every, ringing <- Ringing
KeepsTime == Clock!FairSpec

=============================================================================
