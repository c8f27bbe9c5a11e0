------------------------------ MODULE RadarMgr ------------------------------
(***************************************************************************)
(* framework/radar/src/radar_mgr.c with mdet_mgr.c, radar_task.c and the   *)
(* queues and mutex of kernel/osal/freertos: several tasks change the      *)
(* detection settings, one task (RAD) applies them.                        *)
(*                                                                         *)
(* A setter compares the cached setting, takes the mutex, changes the      *)
(* cache, sends one message for each parameter to the RAD task and         *)
(* releases the mutex.  The RAD task applies the messages in order and     *)
(* sends what it detects to the APP task, which is itself a caller of the  *)
(* setters: each may wait for room in the other's queue.                   *)
(*                                                                         *)
(* The waits are OSAL_WAIT_FOREVER, which OSAL_MS2TICK turns into 71       *)
(* minutes; they expire only where nothing else happens for so long.  No   *)
(* caller looks at the result.  Power, start and stop of the radar and the *)
(* settings of the breath detection (the same code again) are left out.    *)
(***************************************************************************)
EXTENDS Integers, Sequences, SequencesExt

CONSTANTS Tasks,      \* the tasks that call setters
          App,        \* the APP task, one of them
          FieldOrder, \* the parameters, in the order user_cfg_set sends them
          Values,     \* values of a parameter
          Unset,      \* the initial 0xFFFF: no setter was called
          Levels,     \* 0 .. RAD_DIST_LV_MAX - 1
          Paras,      \* m_mot_dist_paras[level]
          Single,     \* the parameters the run sets one at a time
          RadLen, AppLen,   \* OSAL_MSG_QUEUE_LEN
          MaxData     \* RAD keeps up with the frames: at most so many of its
                      \* messages are frame data

Fields == Range(FieldOrder)
NoTask == "none"

ASSUME RadarMgrAssumption ==
  /\ App \in Tasks /\ NoTask \notin Tasks
  /\ FieldOrder \in Seq(Fields)
  /\ \A i, j \in DOMAIN FieldOrder : FieldOrder[i] = FieldOrder[j] => i = j
  /\ Unset \notin Values \cup Levels
  /\ Paras \in [Levels -> [Fields -> Values]]
  /\ Single \subseteq Fields
  /\ RadLen \in Nat \ {0} /\ AppLen \in Nat \ {0} /\ MaxData \in Nat

VARIABLES cfg,      \* m_radmgr_env.mot_cfg_val
          val,      \* the cached parameters of m_radmgr_env
          mutex,    \* the holder of m_radar_mgr_mutex, or NoTask
          call,     \* the setter a task is in
          radq,     \* the queue of the RAD task
          rad,      \* RAD's place: waiting for a message, or with a result
          param,    \* the parameters of the detection
          appq,     \* messages in the queue of the APP task
          mode      \* "normal", "expired": a wait has expired, "halted"

vars == <<cfg, val, mutex, call, radq, rad, param, appq, mode>>

Idle == [pc |-> "idle"]

Para(f, v) == [id |-> "MDET_PARA_SET", field |-> f, v |-> v]
Data == [id |-> "DAT_RDY"]
ParaMsgs == [id : {"MDET_PARA_SET"}, field : Fields, v : Values]

Calls == {Idle}
         \cup [pc : {"lock"}, cfg : Levels] \cup [pc : {"lock"}, field : Single, v : Values]
         \cup [pc : {"send"}, todo : Seq(ParaMsgs)]

RadarTypeOK ==
  /\ cfg \in Levels \cup {Unset}
  /\ val \in [Fields -> Values \cup {Unset}]
  /\ mutex \in Tasks \cup {NoTask}
  /\ call \in [Tasks -> Calls]
  /\ radq \in Seq(ParaMsgs \cup {Data}) /\ Len(radq) <= RadLen
  /\ rad \in {"wait", "result"}
  /\ param \in [Fields -> Values \cup {Unset}]
  /\ appq \in 0 .. AppLen
  /\ mode \in {"normal", "expired", "halted"}

Init ==
  /\ cfg = Unset /\ val = [f \in Fields |-> Unset]
  /\ mutex = NoTask /\ call = [t \in Tasks |-> Idle]
  /\ radq = <<>> /\ rad = "wait" /\ param = [f \in Fields |-> Unset]
  /\ appq = 0 /\ mode = "normal"

-----------------------------------------------------------------------------
(* The setters.  The cache is compared before the mutex is taken: a call   *)
(* that would change nothing returns at once.  (Bound: no calls after an   *)
(* expired wait, only those that were under way.)                          *)
Enter(t, c) ==
  /\ call[t] = Idle /\ mode = "normal"
  /\ call' = [call EXCEPT ![t] = c]
  /\ UNCHANGED <<cfg, val, mutex, radq, rad, param, appq, mode>>

radar_mgr_mdet_user_cfg_set(t, lev) ==
  /\ cfg # lev
  /\ Enter(t, [pc |-> "lock", cfg |-> lev])

radar_mgr_mdet_para_set(t, f, v) ==
  /\ val[f] # v
  /\ Enter(t, [pc |-> "lock", field |-> f, v |-> v])

(* Mutant: user_cfg_set sends the first parameter and no other. *)
Change_Forgets(t) ==
  LET c == call[t] IN
  /\ \/ /\ "cfg" \in DOMAIN c
        /\ cfg' = c.cfg
        /\ val' = Paras[c.cfg]
        /\ call' = [call EXCEPT ![t] =
             [pc |-> "send", todo |-> <<Para(FieldOrder[1], Paras[c.cfg][FieldOrder[1]])>>]]
     \/ /\ "field" \in DOMAIN c
        /\ val' = [val EXCEPT ![c.field] = c.v]
        /\ call' = [call EXCEPT ![t] = [pc |-> "send", todo |-> <<Para(c.field, c.v)>>]]
        /\ UNCHANGED cfg
  /\ UNCHANGED <<radq, rad, param, appq>>

(* The cache is changed; the messages that tell RAD of it are to be sent.  *)
Change(t) ==
  LET c == call[t] IN
  /\ \/ /\ "cfg" \in DOMAIN c
        /\ cfg' = c.cfg
        /\ val' = Paras[c.cfg]
        /\ call' = [call EXCEPT ![t] =
             [pc |-> "send", todo |-> [i \in DOMAIN FieldOrder |->
                Para(FieldOrder[i], Paras[c.cfg][FieldOrder[i]])]]]
     \/ /\ "field" \in DOMAIN c
        /\ val' = [val EXCEPT ![c.field] = c.v]
        /\ call' = [call EXCEPT ![t] = [pc |-> "send", todo |-> <<Para(c.field, c.v)>>]]
        /\ UNCHANGED cfg
  /\ UNCHANGED <<radq, rad, param, appq>>

(* Mutant: the mutex is not taken. *)
Lock_Not(t) ==
  /\ mode # "halted" /\ call[t].pc = "lock"
  /\ Change(t)
  /\ UNCHANGED <<mutex, mode>>

Lock(t) ==
  /\ mode # "halted" /\ call[t].pc = "lock" /\ mutex = NoTask
  /\ mutex' = t
  /\ Change(t)
  /\ UNCHANGED mode

(* osal_task_send_msg of the next message. *)
Send(t) ==
  /\ mode # "halted" /\ call[t].pc = "send" /\ call[t].todo # <<>>
  /\ Len(radq) < RadLen
  /\ radq' = Append(radq, Head(call[t].todo))
  /\ call' = [call EXCEPT ![t].todo = Tail(@)]
  /\ UNCHANGED <<cfg, val, mutex, rad, param, appq, mode>>

(* osal_mutex_unlock and return.  After an expired wait the caller may not *)
(* be the holder: giving a free mutex fails, and giving another task's     *)
(* ends in configASSERT, which stops the system.                           *)
Unlock(t) ==
  /\ mode # "halted" /\ call[t].pc = "send" /\ call[t].todo = <<>>
  /\ \/ /\ mutex \in {t, NoTask}
        /\ mutex' = NoTask
        /\ call' = [call EXCEPT ![t] = Idle]
        /\ UNCHANGED mode
     \/ /\ mutex \notin {t, NoTask}
        /\ mode' = "halted"
        /\ UNCHANGED <<mutex, call>>
  /\ UNCHANGED <<cfg, val, radq, rad, param, appq>>

-----------------------------------------------------------------------------
(* External: the closed library lib_alg_fmcw has sampled a frame and sends *)
(* MSG_RAD_DAT_RDY from its interrupt, which drops what does not fit.  (In *)
(* if_sample.c the same sends are compiled out.)                           *)
DataReady ==
  /\ mode # "halted"
  /\ Len(SelectSeq(radq, LAMBDA m : m = Data)) < MaxData
  /\ Len(radq) < RadLen
  /\ radq' = Append(radq, Data)
  /\ UNCHANGED <<cfg, val, mutex, call, rad, param, appq, mode>>

(* radar_task_entry: one message.  mdet_proc has a result or not. *)
RadTake ==
  /\ mode # "halted" /\ rad = "wait" /\ radq # <<>>
  /\ radq' = Tail(radq)
  /\ LET m == Head(radq) IN
     \/ /\ m.id = "MDET_PARA_SET"
        /\ param' = [param EXCEPT ![m.field] = m.v]
        /\ UNCHANGED rad
     \/ /\ m.id = "DAT_RDY"
        /\ rad' \in {"wait", "result"}
        /\ UNCHANGED param
  /\ UNCHANGED <<cfg, val, mutex, call, appq, mode>>

(* Mutant: the result is not forgotten when it is sent. *)
RadSend_Again ==
  /\ mode # "halted" /\ rad = "result" /\ appq < AppLen
  /\ appq' = appq + 1
  /\ UNCHANGED <<cfg, val, mutex, call, radq, rad, param, mode>>

(* mdet_msg_handler sends the result to APP. *)
RadSend ==
  /\ mode # "halted" /\ rad = "result" /\ appq < AppLen
  /\ appq' = appq + 1
  /\ rad' = "wait"
  /\ UNCHANGED <<cfg, val, mutex, call, radq, param, mode>>

(* The APP task takes a message when it is in no setter. *)
AppTake ==
  /\ mode # "halted" /\ call[App] = Idle /\ appq > 0
  /\ appq' = appq - 1
  /\ UNCHANGED <<cfg, val, mutex, call, radq, rad, param, mode>>

-----------------------------------------------------------------------------
(* Seventy-one minutes pass only where nobody who is waited for can go on: *)
(* RAD waits for room in APP's queue and APP, in a setter, for room in     *)
(* RAD's or for the mutex of a task that does.                             *)
Waits(t) == call[t].pc = "send" /\ call[t].todo # <<>> /\ Len(radq) = RadLen

CircularWait ==
  /\ mode # "halted"
  /\ rad = "result" /\ appq = AppLen
  /\ \/ Waits(App)
     \/ call[App].pc = "lock" /\ \E t \in Tasks : mutex = t /\ Waits(t)

(* The wait of RAD expires: its result is lost. *)
RadExpire ==
  /\ CircularWait
  /\ rad' = "wait" /\ mode' = "expired"
  /\ UNCHANGED <<cfg, val, mutex, call, radq, param, appq>>

(* The wait of a setter expires: its message is lost, or it goes on        *)
(* without the mutex.                                                      *)
Expire(t) ==
  /\ CircularWait
  /\ mode' = "expired"
  /\ \/ /\ Waits(t)
        /\ call' = [call EXCEPT ![t].todo = Tail(@)]
        /\ UNCHANGED <<cfg, val, mutex, radq, rad, param, appq>>
     \/ /\ call[t].pc = "lock"
        /\ Change(t)
        /\ UNCHANGED mutex

(* configASSERT failed: an endless loop with the interrupts masked. *)
vAssertCalled ==
  /\ mode = "halted"
  /\ UNCHANGED vars

-----------------------------------------------------------------------------
Step(t) == Lock(t) \/ Send(t) \/ Unlock(t) \/ Expire(t)
Rad == RadTake \/ RadSend \/ RadExpire

Next ==
  \/ \E t \in Tasks :
       \/ \E lev \in Levels : radar_mgr_mdet_user_cfg_set(t, lev)
       \/ \E f \in Single, v \in Values : radar_mgr_mdet_para_set(t, f, v)
       \/ Step(t)
  \/ DataReady \/ Rad \/ AppTake \/ vAssertCalled

Spec == Init /\ [][Next]_vars

(* The scheduler runs every task that can run, the mutex is given to tasks *)
(* in turn, and time passes.                                               *)
FairSpec ==
  /\ Spec
  /\ \A t \in Tasks : SF_vars(Lock(t)) /\ WF_vars(Send(t) \/ Unlock(t) \/ Expire(t))
  /\ WF_vars(Rad) /\ WF_vars(AppTake)

-----------------------------------------------------------------------------
(* What is under way to RAD: the queue and the rest of the setter that     *)
(* holds the mutex.                                                        *)
Todo == IF mutex # NoTask /\ call[mutex].pc = "send" THEN call[mutex].todo ELSE <<>>
UnderWay == radq \o Todo

IsFor(m, f) == m.id = "MDET_PARA_SET" /\ m.field = f

(* The cache tells the truth: for every parameter its last message under   *)
(* way carries the cached value, and without one the detection has it.     *)
(* Setters of several tasks, each of which changes several parameters,     *)
(* must not get their messages into another order than their changes; a    *)
(* cache that is wrong stays wrong, for the setters compare with it.       *)
CacheIsTrue ==
  mode = "normal" =>
    \A f \in Fields :
      \/ \E i \in DOMAIN UnderWay :
           /\ IsFor(UnderWay[i], f) /\ UnderWay[i].v = val[f]
           /\ \A j \in DOMAIN UnderWay : j > i => ~IsFor(UnderWay[j], f)
      \/ /\ \A i \in DOMAIN UnderWay : ~IsFor(UnderWay[i], f)
         /\ param[f] = val[f]

(* When the tasks call no more setters, the detection gets what was set,   *)
(* unless a wait has expired.                                              *)
SettingsReach ==
  <>[](\A t \in Tasks : call[t] = Idle) => <>[](param = val \/ mode # "normal")

(* Every setter returns: RAD and APP, which send to each other, may wait   *)
(* for each other, but not for ever.  (Only where a task went on without   *)
(* the mutex may the system stop.)                                         *)
CallsReturn == \A t \in Tasks : call[t] # Idle ~> call[t] = Idle \/ mode = "halted"
=============================================================================
