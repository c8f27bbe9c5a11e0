------------------------------ MODULE MsgPool ------------------------------
(***************************************************************************)
(* kernel/baremetal/osal_task.c on top of k_msg: in the builds without an  *)
(* RTOS osal_task_send_msg copies the message into a slot of g_msg_pool    *)
(* and posts the slot, and osal_task_invalid_msg frees the slot after the  *)
(* handler returned.  The slot is searched, taken and filled outside any   *)
(* critical section, so an interrupt falls between any two of these steps. *)
(* The scan is one step: only main frees slots, so what an interrupt does  *)
(* to the slots the scan has passed, or has not reached, changes nothing.  *)
(*                                                                         *)
(* A send is identified by a token, the position of the send in the run.   *)
(* accepted[id] and served[id] are history variables: the tokens posted    *)
(* under id with OSAL_OK and the tokens the loop passed to id's handler.   *)
(* hit records that an interrupt has sent between main's test of bUsed and *)
(* its bUsed = 1, and so took the slot main had found.                     *)
(***************************************************************************)
EXTENDS KMsg

CONSTANTS PoolSize,  \* MSG_POOL_ELEM_TOTAL; slot i is the message object i
          ModMax,    \* MOD_ID_MAX: what osal_task_send_msg asserts of id
          MaxSends,  \* bound: sends in a run
          Senders    \* the contexts that call osal_task_send_msg: "main",
                     \* "isr" (the sampling callbacks of if_sample.c, which
                     \* this revision compiles out; lib_alg_fmcw also calls
                     \* it and comes without source)

Slots == 1 .. PoolSize
ModIds == 0 .. ModMax - 1

ASSUME MsgPoolAssumption ==
  /\ PoolSize \in Nat /\ Slots \subseteq Msgs
  /\ ModMax \in Nat /\ ModMax <= IdMax
  /\ MaxSends \in Nat
  /\ Senders \subseteq {"main", "isr"}
  /\ DOMAIN Home \cap Slots = {}
  /\ \A m \in DOMAIN Home : Home[m] \notin ModIds

VARIABLES used,      \* used[s]: bUsed of slot s
          os_msg,    \* os_msg[s]: the token copied into slot s, 0 if none
          snd,       \* the osal_task_send_msg call of the main context
          sends,     \* tokens given out
          accepted, served, hit

poolVars == <<used, os_msg, snd, sends, accepted, served, hit>>
vars == <<kmsgVars, poolVars>>

Idle == [pc |-> "idle", slot |-> 0, id |-> 0, token |-> 0]

MsgPoolInit ==
  /\ KMsgInit
  /\ used = [s \in Slots |-> FALSE]
  /\ os_msg = [s \in Slots |-> 0]
  /\ snd = Idle
  /\ sends = 0
  /\ accepted = [id \in Ids |-> <<>>]
  /\ served = [id \in Ids |-> <<>>]
  /\ hit = FALSE

-----------------------------------------------------------------------------
(* The first slot the scan finds with bUsed == 0. *)
FirstFree(s) == ~used[s] /\ \A r \in Slots : r < s => used[r]

(* The main context starts a send, finds a slot or returns OSAL_NOMEM.     *)
SendScan(id) ==
  /\ "main" \in Senders
  /\ MainCode /\ snd = Idle
  /\ sends < MaxSends
  /\ sends' = sends + 1
  /\ IF \E s \in Slots : ~used[s]
     THEN \E s \in Slots :
            /\ FirstFree(s)
            /\ snd' = [pc |-> "found", slot |-> s, id |-> id, token |-> sends']
     ELSE UNCHANGED snd
  /\ UNCHANGED <<kmsgVars, used, os_msg, accepted, served, hit>>

(* Mutant: the slot is not marked. *)
SendTake_NotMarked ==
  /\ snd.pc = "found"
  /\ snd' = [snd EXCEPT !.pc = "taken"]
  /\ UNCHANGED <<kmsgVars, used, os_msg, sends, accepted, served, hit>>

(* bUsed = 1 *)
SendTake ==
  /\ snd.pc = "found"
  /\ used' = [used EXCEPT ![snd.slot] = TRUE]
  /\ snd' = [snd EXCEPT !.pc = "taken"]
  /\ UNCHANGED <<kmsgVars, os_msg, sends, accepted, served, hit>>

(* The copy of the message. *)
SendCopy ==
  /\ snd.pc = "taken"
  /\ os_msg' = [os_msg EXCEPT ![snd.slot] = snd.token]
  /\ snd' = [snd EXCEPT !.pc = "copied"]
  /\ UNCHANGED <<kmsgVars, used, sends, accepted, served, hit>>

(* k_msg_post and return OSAL_OK. *)
SendPost ==
  /\ snd.pc = "copied"
  /\ k_msg_post(snd.id, snd.slot)
  /\ accepted' = [accepted EXCEPT ![snd.id] = Append(@, snd.token)]
  /\ snd' = Idle
  /\ UNCHANGED <<loopVars, used, os_msg, sends, served, hit>>

(* A whole send in an interrupt handler, between any two steps of main.    *)
(* The first free slot is main's when main has found it and not marked it. *)
IsrSend(id) ==
  /\ "isr" \in Senders
  /\ sends < MaxSends
  /\ sends' = sends + 1
  /\ IF \E s \in Slots : ~used[s]
     THEN /\ \E s \in Slots :
               /\ FirstFree(s)
               /\ used' = [used EXCEPT ![s] = TRUE]
               /\ os_msg' = [os_msg EXCEPT ![s] = sends']
               /\ k_msg_post(id, s)
          /\ accepted' = [accepted EXCEPT ![id] = Append(@, sends')]
          /\ hit' = (hit \/ snd.pc = "found")
     ELSE UNCHANGED <<queue, used, os_msg, accepted, hit>>
  /\ UNCHANGED <<loopVars, snd, served>>

-----------------------------------------------------------------------------
(* The loop, with what its steps do to the pool.  Main is in one place: no *)
(* step of the loop while a send of the main context is in progress.       *)
Dispatch ==
  /\ LoopDispatch
  /\ served' = IF msg \in Slots
               THEN [served EXCEPT ![msgid] = Append(@, os_msg[msg])]
               ELSE served
  /\ UNCHANGED <<used, os_msg, snd, sends, accepted, hit>>

(* The handler returned: osal_task_invalid_msg clears the bUsed in front   *)
(* of the message.  In front of a message that is no pool slot lies memory *)
(* of another module: SysTimer models what that does to a timer.           *)
Return ==
  /\ snd = Idle
  /\ HandlerReturn
  /\ used' = IF msg \in Slots THEN [used EXCEPT ![msg] = FALSE] ELSE used
  /\ UNCHANGED <<os_msg, snd, sends, accepted, served, hit>>

Enter == snd = Idle /\ LoopEnter /\ UNCHANGED poolVars
Pop   == LoopPop /\ UNCHANGED poolVars
Test  == LoopTest /\ UNCHANGED poolVars

MainLoop == Enter \/ Pop \/ Dispatch \/ Return \/ Test

PoolNext ==
  \/ MainLoop
  \/ SendTake \/ SendCopy \/ SendPost
  \/ \E id \in ModIds : SendScan(id) \/ IsrSend(id)
  \/ \E id \in Ids : snd = Idle /\ k_msg_reg_hdl(id) /\ UNCHANGED poolVars
  \/ \E m \in DOMAIN Home : PostOwned(m) /\ UNCHANGED poolVars

PoolSpec == MsgPoolInit /\ [][PoolNext]_vars

-----------------------------------------------------------------------------
(* The tokens in the slots linked under an id, in their order. *)
Queued(id) == [k \in 1 .. Len(queue[id]) |-> os_msg[queue[id][k]]]

(* Nothing a caller was told is sent gets lost, overwritten, duplicated or *)
(* reordered: what an id's handler got, followed by what is still in its   *)
(* queue (and the message just taken out), is what was accepted.  So it is *)
(* with interrupts sending between any two steps of main, of a send or of  *)
(* the loop, except the two that hit records: from then on one slot is the *)
(* message of two senders, in two lists whose links are the same words,    *)
(* and nothing is claimed (nor are the broken lists modelled).             *)
InHand(id) == IF pc = "got" /\ msgid = id /\ msg \in Slots
              THEN <<os_msg[msg]>> ELSE <<>>
NothingMissing ==
  \A id \in ModIds : served[id] \o InHand(id) \o Queued(id) = accepted[id]

Lossless == ~hit => NothingMissing

(* A slot is reused only after osal_task_invalid_msg: while a slot is      *)
(* linked in a list or its message is handled, its contents stay.  Two     *)
(* senders that find the same free slot break it.                          *)
ReusedAfterInvalid ==
  [][\A s \in Slots :
       s \in PendingMsgs \cup {HandledBy} => os_msg'[s] = os_msg[s]]_vars
=============================================================================
