------------------------------- MODULE Kernel -------------------------------
(***************************************************************************)
(* kernel/freertos: the scheduler of tasks.c, the lists of list.c, and the *)
(* queue and mutexes of queue.c under osal_queue, osal_task_send_msg and   *)
(* osal_mutex, in the configuration of FreeRTOSConfig.h: preemption, time  *)
(* slices, priority inheritance, the ready priorities in a bitmap          *)
(* (configUSE_PORT_OPTIMISED_TASK_SELECTION), the Cortex-M0 port, where a  *)
(* yield requests the PendSV interrupt.                                    *)
(*                                                                         *)
(* A critical section is one step.  Interrupts come between any two steps; *)
(* tasks are switched there too, by PendSV.  Steps that only run while the *)
(* scheduler is suspended and touch nothing an interrupt touches are       *)
(* joined to the step before.                                              *)
(*                                                                         *)
(* k holds what tasks.c keeps; each function of tasks.c is an operator on  *)
(* it.  The contents of queue items are left out: what counts is how many  *)
(* there are.  One queue is modelled; an item's value in an event list is  *)
(* always the priority of its task, as the kernel updates both together.   *)
(***************************************************************************)
EXTENDS Integers, SequencesExt

CONSTANTS Task,         \* the tasks, the idle task among them
          Idle,
          Mutex,
          None,         \* no task
          TickMod,      \* the tick count is kept modulo this: 2^32 in the code
          InitialTick,  \* configINITIAL_TICK_COUNT
          MaxTime,      \* bound: ticks of a behaviour
          MaxNotes,     \* bound: notifications a task has not taken
          QueueLength,
          MAX_PRIORITIES,  \* configMAX_PRIORITIES
          Confs         \* priorities, and the calls the tasks and interrupts make

MAX_DELAY == TickMod - 1   \* portMAX_DELAY: wait for ever

(* A call, of what and for how long it waits. *)
CallType ==
  {c \in [op : {"send", "recv", "take", "give", "delay", "ntake", "ngive", "create", "delete"},
          obj : {"q", "none"} \cup Mutex \cup Task, wait : 0 .. MAX_DELAY] :
     /\ c.op \in {"take", "give"} => c.obj \in Mutex
     /\ c.op \in {"ngive", "create"} => c.obj \in Task}

ASSUME KernelAssumption ==
  /\ IsFiniteSet(Task) /\ Idle \in Task /\ None \notin Task
  /\ TickMod \in Nat /\ TickMod > 2 /\ InitialTick \in 0 .. TickMod - 1
  /\ MaxTime \in Nat /\ MaxNotes \in Nat /\ MAX_PRIORITIES \in Nat /\ QueueLength \in Nat \ {0}
  /\ Mutex \cap {"send", "recv"} = {}
  /\ \A c \in Confs : /\ c.prio \in [Task -> 0 .. MAX_PRIORITIES - 1] /\ c.prio[Idle] = 0
                       /\ c.calls \in [Task -> SUBSET CallType] /\ c.calls[Idle] = {}
                       /\ c.later \subseteq Task \ {Idle} /\ c.notified \subseteq Task

VARIABLES k,       \* the variables of tasks.c and the task control blocks
          que,     \* the queue: uxMessagesWaiting, cTxLock, cRxLock
          holder,  \* xMutexHolder of each mutex
          loc,     \* each task's place in its call, and the call's locals
          pendsv,  \* the PendSV interrupt is requested
          conf

vars == <<k, que, holder, loc, pendsv, conf>>

Base(t) == conf.prio[t]          \* uxBasePriority
Prios == 0 .. MAX_PRIORITIES - 1
EventLists == {"send", "recv"} \cup Mutex
UNLOCKED == -1

LeastOf(S) == CHOOSE x \in S : \A y \in S : x <= y
GreatestOf(S) == CHOOSE x \in S : \A y \in S : x >= y

-----------------------------------------------------------------------------
(* list.c.  A ready list is walked: idx is the place of pxIndex, 0 for the *)
(* end marker.  The other lists are only read from their head.             *)

EmptyList == [items |-> <<>>, idx |-> 0]

(* Before pxIndex: the last to be reached by the walk. *)
vListInsertEnd(l, t) ==
  IF l.idx = 0 THEN [l EXCEPT !.items = Append(@, t)]
  ELSE [items |-> InsertAt(l.items, l.idx, t), idx |-> l.idx + 1]

(* If pxIndex is at the item it goes back to the one before. *)
PlaceOf(list, t) == CHOOSE i \in DOMAIN list : list[i] = t
uxListRemove(l, t) ==
  LET i == PlaceOf(l.items, t)
  IN [items |-> RemoveAt(l.items, i), idx |-> IF i <= l.idx THEN l.idx - 1 ELSE l.idx]

(* listGET_OWNER_OF_NEXT_ENTRY; the marker is skipped. *)
Walk(l) == [l EXCEPT !.idx = (@ % Len(l.items)) + 1]

(* By the values, behind equal ones. *)
vListInsert(list, t, value) ==
  LET later == {i \in DOMAIN list : value[list[i]] > value[t]}
  IN IF later = {} THEN Append(list, t) ELSE InsertAt(list, LeastOf(later), t)

Without(list, t) == IF t \in ToSet(list) THEN RemoveAt(list, PlaceOf(list, t)) ELSE list

-----------------------------------------------------------------------------
(* tasks.c.                                                                *)

prvAddTaskToReadyList(s, t) ==
  [s EXCEPT !.rl[s.prio[t]] = vListInsertEnd(@, t), !.top = @ \cup {s.prio[t]}]

(* uxListRemove from the task's ready list, and portRESET_READY_PRIORITY. *)
UnReady(s, t) ==
  LET p == s.prio[t]
      l == uxListRemove(s.rl[p], t)
  IN [s EXCEPT !.rl[p] = l, !.top = IF l.items = <<>> THEN @ \ {p} ELSE @]

IsReady(s, t) == t \in ToSet(s.rl[s.prio[t]].items)

(* listREMOVE_ITEM: the state item leaves the list it is in.  The value of *)
(* an item that waits for no time is read no more: it is kept 0.           *)
Detach(s, t) ==
  [s EXCEPT !.delayed = Without(@, t), !.overflow = Without(@, t),
            !.suspended = @ \ {t}, !.wake[t] = 0,
            !.rl[s.prio[t]] = IF IsReady(s, t) THEN uxListRemove(@, t) ELSE @]

LeaveEvent(s, t) == [s EXCEPT !.ev = [e \in EventLists |-> Without(@[e], t)]]

(* listREMOVE_ITEM and then prvAddTaskToReadyList, wherever a task is woken. *)
MakeReady(s, t) == prvAddTaskToReadyList(Detach(s, t), t)

prvResetNextTaskUnblockTime(s) ==
  [s EXCEPT !.next = IF s.delayed = <<>> THEN MAX_DELAY ELSE s.wake[Head(s.delayed)]]

(* Mutant: a wake time that wrapped goes to the current list. *)
prvAddCurrentTaskToDelayedList_NoOverflow(s, wait, indefinitely) ==
  LET t == s.cur
      r == [UnReady(s, t) EXCEPT !.wake[t] = (s.tick + wait) % TickMod]
  IN IF wait = MAX_DELAY /\ indefinitely
     THEN [UnReady(s, t) EXCEPT !.suspended = @ \cup {t}]
     ELSE [r EXCEPT !.delayed = vListInsert(@, t, r.wake),
                    !.next = LeastOf({@, r.wake[t]})]

prvAddCurrentTaskToDelayedList(s, wait, indefinitely) ==
  LET t == s.cur
      r == [UnReady(s, t) EXCEPT !.wake[t] = (s.tick + wait) % TickMod]
  IN IF wait = MAX_DELAY /\ indefinitely
     THEN [UnReady(s, t) EXCEPT !.suspended = @ \cup {t}]
     ELSE IF r.wake[t] < s.tick
     THEN [r EXCEPT !.overflow = vListInsert(@, t, r.wake)]
     ELSE [r EXCEPT !.delayed = vListInsert(@, t, r.wake),
                    !.next = LeastOf({@, r.wake[t]})]

(* Event lists are kept by falling priority. *)
vTaskPlaceOnEventList(s, e, wait) ==
  LET value == [t \in Task |-> -s.prio[t]]
  IN prvAddCurrentTaskToDelayedList([s EXCEPT !.ev[e] = vListInsert(@, s.cur, value)],
                                    wait, TRUE)

(* Mutant: only a task of a higher priority than any is worth a yield. *)
xTaskRemoveFromEventList_NoYield(s, e) ==
  LET t == Head(s.ev[e])
      r == [s EXCEPT !.ev[e] = Tail(@)]
      u == IF s.susp THEN [r EXCEPT !.pending = Append(@, t)]
           ELSE MakeReady(r, t)
  IN [s |-> u, yield |-> s.prio[t] > s.prio[s.cur] + 1]

(* The first of the list is made ready, or pending while the scheduler is  *)
(* suspended; yield is whether it should run instead of the caller.        *)
xTaskRemoveFromEventList(s, e) ==
  LET t == Head(s.ev[e])
      r == [s EXCEPT !.ev[e] = Tail(@)]
      u == IF s.susp THEN [r EXCEPT !.pending = Append(@, t)]
           ELSE MakeReady(r, t)
      higher == s.prio[t] > s.prio[s.cur]
  IN [s |-> [u EXCEPT !.ypend = @ \/ higher], yield |-> higher]

(* The tasks whose time has come, in the order of the delayed list. *)
Wakeup(s, t) == prvAddTaskToReadyList(LeaveEvent(Detach(s, t), t), t)
WakeAll(s, list) == FoldLeft(Wakeup, s, list)

(* A tick while the scheduler runs; sw is whether it asks for a switch.    *)
xTaskIncrementTick(s) ==
  LET now == (s.tick + 1) % TickMod
      a == [s EXCEPT !.tick = now]
      b == IF now # 0 THEN a
           ELSE prvResetNextTaskUnblockTime(
                  [a EXCEPT !.delayed = a.overflow, !.overflow = a.delayed,
                            !.over = @ + 1])
      late == {i \in DOMAIN b.delayed : b.wake[b.delayed[i]] > now}
      due == IF now < b.next THEN <<>>
             ELSE IF late = {} THEN b.delayed ELSE SubSeq(b.delayed, 1, LeastOf(late) - 1)
      c == WakeAll(b, due)
      d == IF now < b.next THEN c ELSE prvResetNextTaskUnblockTime(c)
  IN [s |-> d,
      sw |-> \/ \E t \in ToSet(due) : d.prio[t] >= d.prio[d.cur]
             \/ Len(d.rl[d.prio[d.cur]].items) > 1
             \/ d.ypend]

(* Pending tasks become ready, then the ticks that were held back pass. *)
ReadyPending(s, t) ==
  LET u == MakeReady(s, t) IN [u EXCEPT !.ypend = @ \/ u.prio[t] >= u.prio[u.cur]]
ReadyAll(s, list) == FoldLeft(ReadyPending, s, list)

PassTick(s, i) ==
  LET n == xTaskIncrementTick(s) IN [n.s EXCEPT !.ypend = @ \/ n.sw]
PassTicks(s, count) == FoldLeft(PassTick, s, [i \in 1 .. count |-> i])

xTaskResumeAll(s) ==
  LET a == ReadyAll([s EXCEPT !.susp = FALSE, !.pending = <<>>], s.pending)
      b == IF s.pending = <<>> THEN a ELSE prvResetNextTaskUnblockTime(a)
  IN [PassTicks(b, s.pended) EXCEPT !.pended = 0]

vTaskSwitchContext(s) ==
  IF s.susp THEN [s EXCEPT !.ypend = TRUE]
  ELSE LET p == GreatestOf(s.top)
           l == Walk(s.rl[p])
       IN [s EXCEPT !.rl[p] = l, !.cur = l.items[l.idx], !.ypend = FALSE]

(* Mutant: the bit of the list it leaves is not looked at. *)
SetPriority_OldBit(s, t, p) ==
  IF IsReady(s, t)
  THEN prvAddTaskToReadyList([s EXCEPT !.rl[s.prio[t]] = uxListRemove(@, t),
                                       !.prio[t] = p], t)
  ELSE [s EXCEPT !.prio[t] = p]

(* The notification value and state of a task; while the scheduler is     *)
(* suspended an interrupt leaves the task pending.                         *)
Notify(s, t) ==
  LET r == [s EXCEPT !.note[t] = [n |-> @.n + 1, state |-> "received"]]
      u == IF s.susp THEN [r EXCEPT !.pending = Append(@, t)]
           ELSE MakeReady(r, t)
  IN IF s.note[t].state # "waiting" THEN [s |-> r, yield |-> FALSE]
     ELSE [s |-> u, yield |-> s.prio[t] > s.prio[s.cur]]

(* The holder's new priority takes it to another ready list if it is in one. *)
SetPriority(s, t, p) ==
  IF IsReady(s, t)
  THEN prvAddTaskToReadyList([UnReady(s, t) EXCEPT !.prio[t] = p], t)
  ELSE [s EXCEPT !.prio[t] = p]

(* Mutant: a holder that is blocked does not inherit. *)
xTaskPriorityInherit_OnlyReady(s, h) ==
  IF h = None THEN [s |-> s, yes |-> FALSE]
  ELSE IF s.prio[h] < s.prio[s.cur] /\ IsReady(s, h)
  THEN [s |-> SetPriority(s, h, s.prio[s.cur]), yes |-> TRUE]
  ELSE [s |-> s, yes |-> Base(h) < s.prio[s.cur]]

xTaskPriorityInherit(s, h) ==
  IF h = None THEN [s |-> s, yes |-> FALSE]
  ELSE IF s.prio[h] < s.prio[s.cur]
  THEN [s |-> SetPriority(s, h, s.prio[s.cur]), yes |-> TRUE]
  ELSE [s |-> s, yes |-> Base(h) < s.prio[s.cur]]

(* Only when no other mutex is held. *)
xTaskPriorityDisinherit(s, h) ==
  LET r == [s EXCEPT !.held[h] = @ - 1]
  IN IF r.prio[h] # Base(h) /\ r.held[h] = 0
     THEN [s |-> SetPriority(r, h, Base(h)), yield |-> TRUE]
     ELSE [s |-> r, yield |-> FALSE]

(* The bit that is reset when the ready list runs empty is that of the new *)
(* priority, which adding the task sets again.                             *)
vTaskPriorityDisinheritAfterTimeout(s, h, waiting) ==
  IF h = None THEN s
  ELSE LET to == GreatestOf({Base(h), waiting})
           from == s.prio[h]
           l == uxListRemove(s.rl[from], h)
       IN IF from = to \/ s.held[h] # 1 THEN s
          ELSE IF ~IsReady(s, h) THEN [s EXCEPT !.prio[h] = to]
          ELSE prvAddTaskToReadyList(
                 [s EXCEPT !.prio[h] = to, !.rl[from] = l,
                           !.top = IF l.items = <<>> THEN @ \ {to} ELSE @], h)

-----------------------------------------------------------------------------
(* A task's place and the locals of its call: op, obj, the ticks left to   *)
(* wait, xTimeOut (on, None before it is set), xInheritanceOccurred, where *)
(* to go after xTaskResumeAll.  due is the time at which the caller's wait *)
(* ends, counted from Now; no code looks at it.                            *)

Home == [pc |-> "app", op |-> "none", obj |-> "none", left |-> 0, on |-> None,
         inherited |-> FALSE, after |-> "none", due |-> 0]

(* Ticks that have passed, as the kernel counted them. *)
Now(s) == s.over * TickMod + s.tick
EndOf(wait) == IF wait = MAX_DELAY THEN MaxTime + TickMod ELSE Now(k) + wait

Init ==
  /\ conf \in Confs
  /\ LET p == conf.prio
         tasks == Task \ conf.later
         ready(q) == SetToSeq({t \in tasks : p[t] = q})
         first == CHOOSE t \in tasks : \A u \in tasks : p[t] >= p[u]
     IN k = [rl |-> [q \in Prios |-> [items |-> ready(q), idx |-> 0]],
             top |-> {p[t] : t \in tasks},
             prio |-> p, held |-> [t \in Task |-> 0],
             delayed |-> <<>>, overflow |-> <<>>, suspended |-> {}, pending |-> <<>>,
             wake |-> [t \in Task |-> 0], ev |-> [e \in EventLists |-> <<>>],
             cur |-> first, susp |-> FALSE, ypend |-> FALSE, pended |-> 0,
             note |-> [t \in Task |-> [n |-> 0, state |-> "none"]],
             term |-> {}, gone |-> conf.later, tick |-> InitialTick, over |-> 0, next |-> MAX_DELAY]
  /\ que = [n |-> 0, tx |-> UNLOCKED, rx |-> UNLOCKED]
  /\ holder = [m \in Mutex |-> None]
  /\ loc = [t \in Task |-> Home]
  /\ pendsv = TRUE       \* vTaskStartScheduler: the first task is switched to

(* configASSERT has stopped the system, interrupts disabled. *)
Halted == \E t \in Task : loc[t].pc = "asserted"

(* The task runs its next instruction. *)
Runs(t) == k.cur = t /\ ~pendsv /\ ~Halted

(* The calls a task may be about to make, or the one it is making. *)
Calls(t) ==
  IF loc[t].pc = "try" THEN {loc[t]}
  ELSE IF loc[t].pc = "app"
  THEN {[Home EXCEPT !.op = c.op, !.obj = c.obj, !.left = c.wait] : c \in conf.calls[t]}
  ELSE {}

Goto(t, l, place) == loc' = [loc EXCEPT ![t] = [l EXCEPT !.pc = place]]
Return(t) == loc' = [loc EXCEPT ![t] = Home]

(* The call cannot be served now: fail, or wait, setting the timeout once. *)
(* configASSERT( xInheritanceOccurred == pdFALSE ) stops the system.       *)
NotNow(t, c) ==
  /\ IF c.left = 0 THEN IF c.inherited THEN Goto(t, c, "asserted") ELSE Return(t)
     ELSE Goto(t, IF c.on # None THEN c
                  ELSE [c EXCEPT !.on = [tick |-> k.tick, over |-> k.over],
                                 !.due = EndOf(c.left)], "suspend")
  /\ UNCHANGED <<k, que, holder, pendsv>>

(* Someone waited for what the caller just did. *)
Wake(s, e, otherwise) ==
  IF s.ev[e] # <<>>
  THEN LET r == xTaskRemoveFromEventList(s, e) IN k' = r.s /\ pendsv' = r.yield
  ELSE k' = s /\ pendsv' = otherwise

(* xQueueGenericSend and xQueueReceive, the first critical section. *)
TrySend(t) ==
  /\ Runs(t)
  /\ \E c \in Calls(t) :
       /\ c.op = "send"
       /\ IF que.n < QueueLength
          THEN /\ que' = [que EXCEPT !.n = @ + 1]
               /\ Wake(k, "recv", FALSE)
               /\ Return(t) /\ UNCHANGED holder
          ELSE NotNow(t, c)
  /\ UNCHANGED conf

TryReceive(t) ==
  /\ Runs(t)
  /\ \E c \in Calls(t) :
       /\ c.op = "recv"
       /\ IF que.n > 0
          THEN /\ que' = [que EXCEPT !.n = @ - 1]
               /\ Wake(k, "send", FALSE)
               /\ Return(t) /\ UNCHANGED holder
          ELSE NotNow(t, c)
  /\ UNCHANGED conf

(* xQueueSemaphoreTake of a mutex; no task takes one that it holds. *)
TryTake(t) ==
  /\ Runs(t)
  /\ \E c \in Calls(t) :
       /\ c.op = "take" /\ holder[c.obj] # t
       /\ IF holder[c.obj] = None
          THEN /\ holder' = [holder EXCEPT ![c.obj] = t]
               /\ k' = [k EXCEPT !.held[t] = @ + 1]
               /\ Return(t) /\ UNCHANGED <<que, pendsv>>
          ELSE NotNow(t, c)
  /\ UNCHANGED conf

(* xSemaphoreGive: xQueueGenericSend of a mutex.  The yield that giving    *)
(* back a priority asks for is looked at only if no task waits.            *)
xSemaphoreGive(t) ==
  /\ Runs(t)
  /\ \E c \in Calls(t) :
       /\ c.op = "give" /\ holder[c.obj] = t
       /\ holder' = [holder EXCEPT ![c.obj] = None]
       /\ LET d == xTaskPriorityDisinherit(k, t) IN Wake(d.s, c.obj, d.yield)
  /\ Return(t)
  /\ UNCHANGED <<que, conf>>

(* vTaskDelay puts its task to sleep with the scheduler suspended; a delay *)
(* of no ticks only yields.                                                *)
vTaskDelay(t) ==
  /\ Runs(t)
  /\ \E c \in Calls(t) :
       /\ c.op = "delay"
       /\ \/ /\ c.left = 0
             /\ pendsv' = TRUE
             /\ Return(t) /\ UNCHANGED k
          \/ /\ c.left > 0
             /\ k' = [prvAddCurrentTaskToDelayedList(k, c.left, FALSE) EXCEPT !.susp = TRUE]
             /\ Goto(t, [c EXCEPT !.after = "block", !.due = Now(k) + c.left], "resume")
             /\ UNCHANGED pendsv
  /\ UNCHANGED <<que, holder, conf>>

(* ulTaskNotifyTake: wait, if there is nothing, and then clear the count. *)
ulTaskNotifyTake(t) ==
  /\ Runs(t)
  /\ \E c \in Calls(t) :
       /\ c.op = "ntake"
       /\ LET s == IF k.note[t].n = 0 THEN [k EXCEPT !.note[t].state = "waiting"] ELSE k
          IN IF k.note[t].n = 0 /\ c.left > 0
             THEN k' = prvAddCurrentTaskToDelayedList(s, c.left, TRUE) /\ pendsv' = TRUE
             ELSE k' = s /\ UNCHANGED pendsv
       /\ Goto(t, [c EXCEPT !.due = EndOf(c.left)], "notified")
  /\ UNCHANGED <<que, holder, conf>>

Notified(t) ==
  /\ Runs(t) /\ loc[t].pc = "notified"
  /\ k' = [k EXCEPT !.note[t] = [n |-> 0, state |-> "none"]]
  /\ Return(t)
  /\ UNCHANGED <<que, holder, pendsv, conf>>

xTaskNotifyGive(t) ==
  /\ Runs(t)
  /\ \E c \in Calls(t) :
       /\ c.op = "ngive" /\ c.obj \notin k.gone /\ k.note[c.obj].n < MaxNotes
       /\ LET r == Notify(k, c.obj) IN k' = r.s /\ pendsv' = r.yield
  /\ Return(t)
  /\ UNCHANGED <<que, holder, conf>>

(* xTaskCreate, which fails for want of memory, and the ready list. *)
xTaskCreate(t) ==
  /\ Runs(t)
  /\ \E c \in Calls(t) :
       /\ c.op = "create" /\ c.obj \in k.gone
       /\ \/ UNCHANGED <<k, pendsv>>
          \/ /\ k' = prvAddTaskToReadyList([k EXCEPT !.gone = @ \ {c.obj}], c.obj)
             /\ pendsv' = (k.prio[t] < k.prio[c.obj])
  /\ Return(t)
  /\ UNCHANGED <<que, holder, conf>>

(* vTaskDelete of the caller, which holds no mutex: never to run again.   *)
vTaskDelete(t) ==
  /\ Runs(t)
  /\ \E c \in Calls(t) : c.op = "delete"
  /\ k' = [UnReady(k, t) EXCEPT !.term = @ \cup {t}]
  /\ pendsv' = TRUE
  /\ Return(t)
  /\ UNCHANGED <<que, holder, conf>>

(* The idle task frees its stack. *)
prvCheckTasksWaitingTermination ==
  /\ Runs(Idle)
  /\ \E t \in k.term :
       k' = [k EXCEPT !.term = @ \ {t}, !.gone = @ \cup {t},
                      !.note[t] = [n |-> 0, state |-> "none"]]
  /\ UNCHANGED <<que, holder, loc, pendsv, conf>>

vTaskSuspendAll(t) ==
  /\ Runs(t) /\ loc[t].pc = "suspend"
  /\ k' = [k EXCEPT !.susp = TRUE]
  /\ Goto(t, loc[t], "lock")
  /\ UNCHANGED <<que, holder, pendsv, conf>>

(* Mutant: any wrap of the tick count ends the wait. *)
xTaskCheckForTimeOut_Wrap(s, c) ==
  LET elapsed == (s.tick - c.on.tick) % TickMod
  IN IF c.left = MAX_DELAY THEN [over |-> FALSE, c |-> c]
     ELSE IF s.over # c.on.over THEN [over |-> TRUE, c |-> [c EXCEPT !.left = 0]]
     ELSE IF elapsed < c.left
     THEN [over |-> FALSE,
           c |-> [c EXCEPT !.left = @ - elapsed,
                           !.on = [tick |-> s.tick, over |-> s.over]]]
     ELSE [over |-> TRUE, c |-> [c EXCEPT !.left = 0]]

(* The state of the wait: over, or with these ticks left from now on. *)
xTaskCheckForTimeOut(s, c) ==
  LET elapsed == (s.tick - c.on.tick) % TickMod
  IN IF c.left = MAX_DELAY THEN [over |-> FALSE, c |-> c]
     ELSE IF s.over # c.on.over /\ s.tick >= c.on.tick
     THEN [over |-> TRUE, c |-> [c EXCEPT !.left = 0]]
     ELSE IF elapsed < c.left
     THEN [over |-> FALSE,
           c |-> [c EXCEPT !.left = @ - elapsed,
                           !.on = [tick |-> s.tick, over |-> s.over]]]
     ELSE [over |-> TRUE, c |-> [c EXCEPT !.left = 0]]

(* prvLockQueue, and xTaskCheckForTimeOut: the tick count stands still. A  *)
(* mutex is never changed by an interrupt; its locks are left out.         *)
LockAndCheck(t) ==
  /\ Runs(t) /\ loc[t].pc = "lock"
  /\ LET r == xTaskCheckForTimeOut(k, loc[t])
         q == loc[t].op \in {"send", "recv"}
     IN /\ que' = IF q THEN [que EXCEPT !.tx = 0, !.rx = 0] ELSE que
        /\ IF ~r.over THEN Goto(t, r.c, "place")
           ELSE Goto(t, [r.c EXCEPT !.after = "expired"],
                     IF q THEN "unlockTx" ELSE "resume")
  /\ UNCHANGED <<k, holder, pendsv, conf>>

(* prvIsQueueFull or prvIsQueueEmpty, then vTaskPlaceOnEventList: the      *)
(* queue is locked, so interrupts do not look at the list.                 *)
Place(t) ==
  /\ Runs(t) /\ loc[t].pc = "place"
  /\ LET c == loc[t]
         must == \/ c.op = "send" /\ que.n = QueueLength
                 \/ c.op = "recv" /\ que.n = 0
                 \/ c.op = "take" /\ holder[c.obj] # None
         e == IF c.op = "take" THEN c.obj ELSE c.op
         i == IF c.op = "take" THEN xTaskPriorityInherit(k, holder[c.obj])
              ELSE [s |-> k, yes |-> FALSE]
         next == IF c.op = "take" THEN "resume" ELSE "unlockTx"
     IN IF must
        THEN /\ k' = vTaskPlaceOnEventList(i.s, e, c.left)
             /\ Goto(t, [c EXCEPT !.after = "block", !.inherited = i.yes], next)
        ELSE Goto(t, [c EXCEPT !.after = "retry"], next) /\ UNCHANGED k
  /\ UNCHANGED <<que, holder, pendsv, conf>>

(* Mutant: the lock counts are forgotten. *)
Unlocked_Forgets(s, e, count) == s

(* As many waiting tasks are woken as items came or went meanwhile. *)
UnlockOne(s, e) == IF s.ev[e] = <<>> THEN s ELSE xTaskRemoveFromEventList(s, e).s
Unlocked(s, e, count) == FoldLeft(UnlockOne, s, [i \in 1 .. count |-> e])

(* The two critical sections of prvUnlockQueue. *)
UnlockTx(t) ==
  /\ Runs(t) /\ loc[t].pc = "unlockTx"
  /\ k' = Unlocked(k, "recv", que.tx)
  /\ que' = [que EXCEPT !.tx = UNLOCKED]
  /\ Goto(t, loc[t], "unlockRx")
  /\ UNCHANGED <<holder, pendsv, conf>>

UnlockRx(t) ==
  /\ Runs(t) /\ loc[t].pc = "unlockRx"
  /\ k' = Unlocked(k, "send", que.rx)
  /\ que' = [que EXCEPT !.rx = UNLOCKED]
  /\ Goto(t, loc[t], "resume")
  /\ UNCHANGED <<holder, pendsv, conf>>

(* xTaskResumeAll yields if it must; a call that blocks yields anyway. *)
Resume(t) ==
  /\ Runs(t) /\ loc[t].pc = "resume"
  /\ LET s == xTaskResumeAll(k)
         c == loc[t]
     IN /\ k' = s
        /\ pendsv' = (s.ypend \/ c.after = "block")
        /\ CASE c.op = "delay" -> Goto(t, c, "back")
             [] c.op # "delay" /\ c.after \in {"block", "retry"} ->
                  Goto(t, [c EXCEPT !.after = "none"], "try")
             [] c.op = "send" /\ c.after = "expired" -> Return(t)
             [] c.op \in {"recv", "take"} /\ c.after = "expired" -> Goto(t, c, "expired")
  /\ UNCHANGED <<que, holder, conf>>

Back(t) ==
  /\ Runs(t) /\ loc[t].pc = "back"
  /\ Return(t)
  /\ UNCHANGED <<k, que, holder, pendsv, conf>>

(* The wait is over: try once more if there is something now; else fail,   *)
(* and give the holder back the priority it inherited.                     *)
Expired(t) ==
  /\ Runs(t) /\ loc[t].pc = "expired"
  /\ LET c == loc[t]
         empty == IF c.op = "recv" THEN que.n = 0 ELSE holder[c.obj] # None
     IN IF ~empty THEN Goto(t, [c EXCEPT !.after = "none"], "try")
        ELSE IF c.inherited THEN Goto(t, c, "disinherit")
        ELSE Return(t)
  /\ UNCHANGED <<k, que, holder, pendsv, conf>>

prvGetDisinheritPriorityAfterTimeout(m) ==
  IF k.ev[m] = <<>> THEN 0 ELSE k.prio[Head(k.ev[m])]

Disinherit(t) ==
  /\ Runs(t) /\ loc[t].pc = "disinherit"
  /\ LET m == loc[t].obj
     IN k' = vTaskPriorityDisinheritAfterTimeout(
               k, holder[m], prvGetDisinheritPriorityAfterTimeout(m))
  /\ Return(t)
  /\ UNCHANGED <<que, holder, pendsv, conf>>

-----------------------------------------------------------------------------
(* Interrupts.                                                             *)

(* xPortSysTickHandler. *)
Tick ==
  /\ ~Halted /\ Now(k) + k.pended < MaxTime
  /\ IF k.susp THEN k' = [k EXCEPT !.pended = @ + 1] /\ UNCHANGED pendsv
     ELSE LET r == xTaskIncrementTick(k)
          IN k' = r.s /\ pendsv' = (pendsv \/ r.sw)
  /\ UNCHANGED <<que, holder, loc, conf>>

WakeFromISR(lock, e) ==
  IF lock = UNLOCKED /\ k.ev[e] # <<>>
  THEN LET r == xTaskRemoveFromEventList(k, e)
       IN k' = r.s /\ pendsv' = (pendsv \/ r.yield)
  ELSE UNCHANGED <<k, pendsv>>

Counted(lock) == IF lock = UNLOCKED THEN lock ELSE lock + 1

xQueueGenericSendFromISR ==
  /\ ~Halted /\ "send" \in conf.isr
  /\ que.n < QueueLength
  /\ que' = [que EXCEPT !.n = @ + 1, !.tx = Counted(@)]
  /\ WakeFromISR(que.tx, "recv")
  /\ UNCHANGED <<holder, loc, conf>>

xQueueReceiveFromISR ==
  /\ ~Halted /\ "recv" \in conf.isr
  /\ que.n > 0
  /\ que' = [que EXCEPT !.n = @ - 1, !.rx = Counted(@)]
  /\ WakeFromISR(que.rx, "send")
  /\ UNCHANGED <<holder, loc, conf>>

(* osal_task_give_notify of an interrupt; taskWoken, which it leaves       *)
(* uninitialized, may ask for a switch that nobody needs.                  *)
vTaskNotifyGiveFromISR ==
  /\ ~Halted
  /\ \E t \in conf.notified \ (k.term \cup k.gone) :
       /\ k.note[t].n < MaxNotes
       /\ LET r == Notify(k, t)
          IN /\ k' = [r.s EXCEPT !.ypend = @ \/ r.yield]
             /\ \E taskWoken \in BOOLEAN : pendsv' = (pendsv \/ r.yield \/ taskWoken)
  /\ UNCHANGED <<que, holder, loc, conf>>

(* xPortPendSVHandler. *)
PendSV ==
  /\ pendsv /\ ~Halted
  /\ pendsv' = FALSE
  /\ k' = vTaskSwitchContext(k)
  /\ UNCHANGED <<que, holder, loc, conf>>

QueueStep(t) ==
  \/ TrySend(t) \/ TryReceive(t) \/ TryTake(t) \/ xSemaphoreGive(t) \/ vTaskDelay(t)
  \/ vTaskSuspendAll(t) \/ LockAndCheck(t) \/ Place(t)
  \/ ulTaskNotifyTake(t) \/ Notified(t) \/ xTaskNotifyGive(t)
  \/ xTaskCreate(t) \/ vTaskDelete(t)
  \/ UnlockTx(t) \/ UnlockRx(t) \/ Resume(t) \/ Back(t) \/ Expired(t) \/ Disinherit(t)

Next == \/ \E t \in Task : QueueStep(t)
        \/ prvCheckTasksWaitingTermination
        \/ Tick \/ xQueueGenericSendFromISR \/ xQueueReceiveFromISR
        \/ vTaskNotifyGiveFromISR \/ PendSV

Spec == Init /\ [][Next]_vars

-----------------------------------------------------------------------------
Ready(s) == {t \in Task : IsReady(s, t)}
Blocked(s) == ToSet(s.delayed) \cup ToSet(s.overflow) \cup s.suspended

(* The lists and the bitmap agree through every move: a task is in one of  *)
(* the lists of the ready, delayed, suspended and deleted, or in none and  *)
(* freed; it waits for an event only while it is blocked, and is pending   *)
(* only while the scheduler is suspended; and the bitmap the switch looks  *)
(* at has the priorities of the ready tasks, so that none is missed and no *)
(* empty list is picked.                                                   *)
ListsAgree ==
  /\ k.top = {p \in Prios : k.rl[p].items # <<>>}
  /\ \A t \in Task :
       LET lists == <<{u \in Task : \E p \in Prios : u \in ToSet(k.rl[p].items)},
                      ToSet(k.delayed), ToSet(k.overflow), k.suspended, k.term, k.gone>>
       IN Cardinality({i \in DOMAIN lists : t \in lists[i]}) = 1
  /\ \A e \in EventLists : ToSet(k.ev[e]) \subseteq Blocked(k)
  /\ ~k.susp => k.pending = <<>>

(* Whenever a task executes with the scheduler running, none of a higher   *)
(* priority is ready: whoever is made ready by a send, a give, an          *)
(* interrupt or a tick, with the scheduler suspended or not, gets its      *)
(* switch at once.  (Not where a mutex is given back under a lower waiter, *)
(* after a higher task has timed out of waiting: queue.c:911 drops the     *)
(* yield that xSemaphoreGive owes the higher task.)                        *)
HighestRuns ==
  ~pendsv /\ ~k.susp =>
     k.cur \in Ready(k) /\ \A t \in Ready(k) : k.prio[t] <= k.prio[k.cur]

(* A task that takes its priority back from the holder of the mutex it has *)
(* waited for in vain leaves a task in the ready list it takes the holder  *)
(* from: as a rule itself.  vTaskPriorityDisinheritAfterTimeout depends on *)
(* it, since of an empty list it would reset the wrong bit.                *)
HolderNotAlone ==
  \A t \in Task :
    LET h == holder[loc[t].obj]
    IN Runs(t) /\ loc[t].pc = "disinherit" /\ h \in Ready(k) =>
         \E u \in Ready(k) \ {h} : k.prio[u] = k.prio[h]

(* What queue.c asserts of a mutex that is taken and asked for with no     *)
(* time left: "For inheritance to have occurred there must have been an    *)
(* initial timeout, and an adjusted timeout cannot become 0".              *)
NoTimeLeftNoInheritance ==
  \A t \in Task : loc[t].pc = "asserted" => ~loc[t].inherited

(* No wake-up is lost: if tasks wait for items while there are some, at    *)
(* least as many others are awake in the same call and will look; so for   *)
(* room in the queue and for a mutex.  The interrupts that come while a    *)
(* task is about to block are counted in the locks.  And no task sleeps on *)
(* a notification it was given.                                            *)
Awake(op, obj) ==
  {t \in Task : /\ loc[t].op = op /\ loc[t].obj = obj
                /\ t \notin Blocked(k)}

NoLostWakeup ==
  ~k.susp =>
    /\ k.ev["recv"] # <<>> => que.n <= Cardinality(Awake("recv", "q"))
    /\ k.ev["send"] # <<>> => QueueLength - que.n <= Cardinality(Awake("send", "q"))
    /\ \A m \in Mutex : k.ev[m] # <<>> /\ holder[m] = None => Awake("take", m) # {}
    /\ \A t \in Blocked(k) : loc[t].pc = "notified" => k.note[t].n = 0

(* Priority inheritance: a task that waits for a mutex is never held up by *)
(* a holder of a lower priority than its own, wherever the holder is       *)
(* (ready, delayed, waiting for the queue); no task keeps a priority that  *)
(* is not its own once it holds nothing; and taking it back leaves no      *)
(* empty list (HolderNotAlone).                                            *)
Inherited ==
  /\ \A m \in Mutex : \A t \in ToSet(k.ev[m]) :
       holder[m] # None => k.prio[holder[m]] >= Base(t)
  /\ \A t \in Task : k.held[t] = 0 => k.prio[t] = Base(t)
  /\ HolderNotAlone

(* A wait lasts as many ticks as were asked for, across the wrap of the    *)
(* tick count and the switch of the delayed lists: no task sleeps past its *)
(* time, and no call gives up before it (or at all, if it is to wait for   *)
(* ever).                                                                  *)
NeverLate ==
  \A t \in Task : t \in ToSet(k.delayed) \cup ToSet(k.overflow) /\ ~k.susp
                  => Now(k) < loc[t].due
NeverEarly ==
  [][\A t \in Task :
       /\ \/ loc[t].pc \in {"back", "resume", "expired", "disinherit"} /\ loc'[t].pc = "app"
          \/ loc[t].pc = "notified" /\ loc'[t].pc = "app" /\ k.note[t].n = 0
       => loc[t].due <= Now(k)]_vars
=============================================================================
