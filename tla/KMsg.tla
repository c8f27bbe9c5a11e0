------------------------------- MODULE KMsg -------------------------------
(***************************************************************************)
(* kernel/senos/core/k_msg.c: one message queue per id, posts from the     *)
(* main loop and from interrupt handlers, and k_msg_loop, the cooperative  *)
(* loop that takes the messages out and calls their handlers.              *)
(*                                                                         *)
(* Interrupts are disabled inside critical_section_start/_end, so each     *)
(* critical section is one step; between two of them an interrupt may run, *)
(* and it runs to completion before the main context continues.            *)
(*                                                                         *)
(* The list links of a message live in the message: posting links the      *)
(* object itself.  A queue is the sequence of the objects linked in it.    *)
(***************************************************************************)
EXTENDS Naturals, Sequences

CONSTANTS Msgs,      \* message objects (msg_t) of the system
          NoMsg,     \* the NULL pointer k_msg_loop starts each id with
          IdMax,     \* MSG_ID_MAX: the ids are 0 .. IdMax - 1
          FirstId,   \* MSG_ID_TIMER_EXPIRED: the id k_msg_loop starts from
          Home       \* for a message its owner always posts under one id
                     \* (timers, CI, DIP switch, ADC key): that id

Ids == 0 .. IdMax - 1

ASSUME KMsgAssumption ==
  /\ IdMax \in Nat
  /\ FirstId \in Ids
  /\ NoMsg \notin Msgs
  /\ DOMAIN Home \subseteq Msgs
  /\ \A m \in DOMAIN Home : Home[m] \in Ids

VARIABLES queue,     \* m_msg_queue[id].list_head
          hdl,       \* hdl[id]: m_msg_queue[id].hdl is not NULL
          pc,        \* where the main context is in k_msg_loop
          msgid,     \* k_msg_loop's msg_id
          msg        \* k_msg_loop's msg

loopVars == <<hdl, pc, msgid, msg>>
kmsgVars == <<queue, hdl, pc, msgid, msg>>

(***************************************************************************)
(* pc: "app"  outside k_msg_loop (initialisation, task_schedule_proc, ...) *)
(*     "pop"  before the critical section that unlinks the first message   *)
(*     "got"  after it, before the handler is looked up                    *)
(*     "run"  in the handler                                               *)
(*     "test" before the list_empty() of the do-while                      *)
(***************************************************************************)
Places == {"app", "pop", "got", "run", "test"}

KMsgTypeOK ==
  /\ queue \in [Ids -> Seq(Msgs)]
  /\ hdl \in [Ids -> BOOLEAN]
  /\ pc \in Places
  /\ msgid \in Ids
  /\ msg \in Msgs \cup {NoMsg}

KMsgInit ==
  /\ queue = [id \in Ids |-> <<>>]
  /\ hdl = [id \in Ids |-> FALSE]
  /\ pc = "app"
  /\ msgid = FirstId
  /\ msg = NoMsg

-----------------------------------------------------------------------------
(* The messages linked in the list of an id. *)
Linked(id) == {queue[id][k] : k \in 1 .. Len(queue[id])}

check_msg_existed(id, m) == m \in Linked(id)

(* Mutant: the search for the message is dropped. *)
k_msg_post_Unchecked(id, m) ==
  queue' = [queue EXCEPT ![id] = Append(@, m)]

(* k_msg_post: only the list it is posted to is searched for the message. *)
k_msg_post(id, m) ==
  queue' = IF check_msg_existed(id, m)
           THEN queue
           ELSE [queue EXCEPT ![id] = Append(@, m)]

(* The main context runs code of its own: a handler or the application. *)
MainCode == pc \in {"app", "run"}

k_msg_reg_hdl(id) ==
  /\ MainCode
  /\ hdl' = [hdl EXCEPT ![id] = TRUE]
  /\ UNCHANGED <<queue, pc, msgid, msg>>

(* Mutant: the loop starts one id late. *)
LoopEnter_Late ==
  /\ pc = "app"
  /\ pc' = "pop"
  /\ msgid' = FirstId + 1
  /\ msg' = NoMsg
  /\ UNCHANGED <<queue, hdl>>

LoopEnter ==
  /\ pc = "app"
  /\ pc' = "pop"
  /\ msgid' = FirstId
  /\ msg' = NoMsg
  /\ UNCHANGED <<queue, hdl>>

(* Mutant: the message is read and not unlinked. *)
LoopPop_NoUnlink ==
  /\ pc = "pop"
  /\ msg' = IF queue[msgid] # <<>> THEN Head(queue[msgid]) ELSE msg
  /\ pc' = IF msg' = NoMsg THEN "test" ELSE "got"
  /\ UNCHANGED <<queue, hdl, msgid>>

(* msg keeps its value when the list turns out to be empty: it is set to   *)
(* NULL once per id, not once per turn of the do-while.                    *)
LoopPop ==
  /\ pc = "pop"
  /\ IF queue[msgid] # <<>>
     THEN /\ msg' = Head(queue[msgid])
          /\ queue' = [queue EXCEPT ![msgid] = Tail(@)]
     ELSE UNCHANGED <<msg, queue>>
  /\ pc' = IF msg' = NoMsg THEN "test" ELSE "got"
  /\ UNCHANGED <<hdl, msgid>>

LoopDispatch ==
  /\ pc = "got"
  /\ pc' = IF hdl[msgid] THEN "run" ELSE "test"
  /\ UNCHANGED <<queue, hdl, msgid, msg>>

(* The handler returns; osal_task_invalid_msg(msg) touches no queue. *)
HandlerReturn ==
  /\ pc = "run"
  /\ pc' = "test"
  /\ UNCHANGED <<queue, hdl, msgid, msg>>

(* Mutant: msg is set to NULL once per loop and not once per id. *)
LoopTest_KeepMsg ==
  /\ pc = "test"
  /\ IF queue[msgid] # <<>>
     THEN pc' = "pop" /\ UNCHANGED msgid
     ELSE IF msgid + 1 < IdMax
     THEN pc' = "pop" /\ msgid' = msgid + 1
     ELSE pc' = "app" /\ UNCHANGED msgid
  /\ UNCHANGED <<queue, hdl, msg>>

LoopTest ==
  /\ pc = "test"
  /\ IF queue[msgid] # <<>>
     THEN pc' = "pop" /\ UNCHANGED <<msgid, msg>>
     ELSE IF msgid + 1 < IdMax
     THEN pc' = "pop" /\ msgid' = msgid + 1 /\ msg' = NoMsg
     ELSE pc' = "app" /\ UNCHANGED <<msgid, msg>>
  /\ UNCHANGED <<queue, hdl>>

LoopStep == LoopEnter \/ LoopPop \/ LoopDispatch \/ HandlerReturn \/ LoopTest

(* The owner of m posts it, from an interrupt handler or from main code.   *)
PostOwned(m) ==
  /\ k_msg_post(Home[m], m)
  /\ UNCHANGED loopVars

Next ==
  \/ LoopStep
  \/ \E id \in Ids : k_msg_reg_hdl(id)
  \/ \E m \in DOMAIN Home : PostOwned(m)

Spec == KMsgInit /\ [][Next]_kmsgVars

(* Main runs whenever no interrupt does, and interrupts end.  The modules  *)
(* register their handlers when they are initialised.                      *)
FairSpec ==
  /\ Spec
  /\ WF_kmsgVars(LoopStep)

-----------------------------------------------------------------------------
(* A message object is linked at most once, and only in the list of its    *)
(* owner's id: list_add_tail of an object that is already linked would cut *)
(* one list and join two.                                                  *)
LinkedOnce ==
  \A id \in Ids : \A j, k \in 1 .. Len(queue[id]) :
    queue[id][j] = queue[id][k] => j = k

LinkedAtHome ==
  \A id \in Ids : \A m \in Linked(id) : m \in DOMAIN Home /\ Home[m] = id

ListIntegrity == LinkedOnce /\ LinkedAtHome

(* Every handler call is for a message that this turn of the do-while took *)
(* out: the list_empty() of the while is read outside the critical section *)
(* and msg is not reset, so an empty list at "pop" would run the previous  *)
(* message a second time.                                                  *)
NoStaleMessage == pc = "pop" => (msg = NoMsg \/ queue[msgid] # <<>>)

(* The queues and the loop implement the mailbox: no post is lost, merged  *)
(* with anything but a pending post of the same object, or handled twice.  *)
HandledBy == IF pc \in {"got", "run"} THEN msg ELSE NoMsg
PendingMsgs == UNION {Linked(id) : id \in Ids}

Service == INSTANCE Mailbox WITH pending <- PendingMsgs, running <- HandledBy

ImplementsMailbox == Service!Spec
ServesMailbox == Service!FairSpec

(* The only way a posted message waits for ever is a drain that never      *)
(* ends: if the loop always comes back to main, every message is taken.    *)
LoopReturns == []<>(pc = "app")
NothingStarves ==
  LoopReturns => \A m \in DOMAIN Home : (m \in PendingMsgs) ~> (HandledBy = m)

=============================================================================
