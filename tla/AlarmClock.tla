----------------------------- MODULE AlarmClock -----------------------------
(***************************************************************************)
(* What a soft timer promises to its user, without lists, messages or a    *)
(* main loop: an armed timer counts down once per tick, rings when it has  *)
(* counted to zero and only then, one callback at a time, and a periodic   *)
(* timer then starts again with the interval it was given.                 *)
(***************************************************************************)
EXTENDS Integers

CONSTANTS Timers, NoTimer, Delays

Off == -1

VARIABLES left,     \* left[t]: ticks left, 0 when due, Off when not armed
          every,    \* every[t]: the interval of a periodic timer, else 0
          ringing   \* the timer whose callback runs, or NoTimer

vars == <<left, every, ringing>>

Init == /\ left = [t \in Timers |-> Off]
        /\ every = [t \in Timers |-> 0]
        /\ ringing = NoTimer

Arm(t, d) == /\ left' = [left EXCEPT ![t] = d]
             /\ \E e \in {every[t], d} : every' = [every EXCEPT ![t] = e]
             /\ UNCHANGED ringing

(* Stopped, deleted, created anew, or given another mode or interval. *)
Configure(t) == /\ \E l \in {left[t], Off} : left' = [left EXCEPT ![t] = l]
                /\ \E e \in Delays \cup {0} : every' = [every EXCEPT ![t] = e]
                /\ UNCHANGED ringing

Tick == /\ left' = [t \in Timers |-> IF left[t] > 0 THEN left[t] - 1 ELSE left[t]]
        /\ UNCHANGED <<every, ringing>>

Ring(t) == /\ ringing = NoTimer
           /\ left[t] = 0
           /\ left' = [left EXCEPT ![t] = IF every[t] = 0 THEN Off ELSE every[t]]
           /\ ringing' = t
           /\ UNCHANGED every

Return == /\ ringing # NoTimer
          /\ ringing' = NoTimer
          /\ UNCHANGED <<left, every>>

Next == \/ \E t \in Timers : \/ \E d \in Delays : Arm(t, d)
                             \/ Configure(t)
                             \/ Ring(t)
        \/ Tick
        \/ Return

Spec == Init /\ [][Next]_vars

(* Ticks keep coming and a timer that stays due rings. *)
FairSpec == /\ Spec
            /\ WF_vars(Tick)
            /\ WF_vars(Return)
            /\ \A t \in Timers : WF_vars(Ring(t))
=============================================================================
