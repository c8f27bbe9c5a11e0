--------------------------- MODULE MsgPool_proofs ---------------------------
(***************************************************************************)
(* Proofs about the message queues and the main loop (KMsg), for every     *)
(* number of ids and messages, and about the message pool beneath them     *)
(* (MsgPool): it loses, repeats and changes nothing, for every number of   *)
(* ids, slots and sends, wherever interrupts send, up to the first that    *)
(* sends between main's test of a slot and its mark.                       *)
(***************************************************************************)
EXTENDS MsgPool, SequenceTheorems, TLAPS

(*** The queues and the main loop: KMsg, its Spec and its Next ***)

(* Taking the tail of a non-empty queue: what is left and how it is indexed. *)
LEMMA TailIndex ==
  ASSUME NEW S, NEW s \in Seq(S), s # <<>>
  PROVE  /\ Tail(s) \in Seq(S)
         /\ Head(s) = s[1]
         /\ Len(s) \in Nat \ {0}
         /\ Len(Tail(s)) = Len(s) - 1
         /\ \A k \in 1 .. Len(Tail(s)) : Tail(s)[k] = s[k + 1]
  OBVIOUS

(* Linking a message at the tail of a queue. *)
LEMMA AppendIndex ==
  ASSUME NEW S, NEW s \in Seq(S), NEW e \in S
  PROVE  /\ Append(s, e) \in Seq(S)
         /\ Len(Append(s, e)) = Len(s) + 1
         /\ \A k \in 1 .. Len(s) : Append(s, e)[k] = s[k]
         /\ Append(s, e)[Len(s) + 1] = e
  OBVIOUS

LEMMA InitTypeOK == KMsgInit => KMsgTypeOK
  BY KMsgAssumption DEF KMsgInit, KMsgTypeOK, Ids, Places

LEMMA NextTypeOK == KMsgTypeOK /\ [Next]_kmsgVars => KMsgTypeOK'
<1> SUFFICES ASSUME KMsgTypeOK, [Next]_kmsgVars PROVE KMsgTypeOK'
  OBVIOUS
<1> USE KMsgAssumption DEF KMsgTypeOK, Places
<1>1. CASE LoopEnter
  BY <1>1 DEF LoopEnter
<1>2. CASE LoopPop
  <2>1. CASE queue[msgid] # <<>>
    <3>1. queue[msgid] \in Seq(Msgs)
      OBVIOUS
    <3>2. Tail(queue[msgid]) \in Seq(Msgs) /\ Head(queue[msgid]) \in Msgs
      BY <2>1, <3>1, TailIndex
    <3> QED
      BY <1>2, <2>1, <3>2 DEF LoopPop
  <2>2. CASE queue[msgid] = <<>>
    BY <1>2, <2>2 DEF LoopPop
  <2> QED
    BY <2>1, <2>2
<1>3. CASE LoopDispatch
  BY <1>3 DEF LoopDispatch
<1>4. CASE HandlerReturn
  BY <1>4 DEF HandlerReturn
<1>5. CASE LoopTest
  BY <1>5 DEF LoopTest, Ids
<1>6. ASSUME NEW id \in Ids, k_msg_reg_hdl(id) PROVE KMsgTypeOK'
  BY <1>6 DEF k_msg_reg_hdl
<1>7. ASSUME NEW m \in DOMAIN Home, PostOwned(m) PROVE KMsgTypeOK'
  <2>1. queue[Home[m]] \in Seq(Msgs) /\ m \in Msgs
    OBVIOUS
  <2>2. Append(queue[Home[m]], m) \in Seq(Msgs)
    BY <2>1, AppendIndex
  <2> QED
    BY <1>7, <2>2 DEF PostOwned, k_msg_post, loopVars
<1>8. CASE UNCHANGED kmsgVars
  BY <1>8 DEF kmsgVars
<1> QED
  BY <1>1, <1>2, <1>3, <1>4, <1>5, <1>6, <1>7, <1>8 DEF Next, LoopStep

(* Every variable of the message service keeps its type. *)
THEOREM TypeCorrect == Spec => []KMsgTypeOK
<1> QED
  BY InitTypeOK, NextTypeOK, PTL DEF Spec

-----------------------------------------------------------------------------
(* No step links an object twice or outside the list of its owner's id.    *)
LEMMA InitIntegrity == KMsgInit => ListIntegrity
  BY DEF KMsgInit, ListIntegrity, LinkedOnce, LinkedAtHome, Linked

LEMMA NextIntegrity ==
  KMsgTypeOK /\ ListIntegrity /\ [Next]_kmsgVars => ListIntegrity'
<1> SUFFICES ASSUME KMsgTypeOK, ListIntegrity, [Next]_kmsgVars
             PROVE  ListIntegrity'
  OBVIOUS
<1>1. ASSUME UNCHANGED queue PROVE ListIntegrity'
  BY <1>1 DEF ListIntegrity, LinkedOnce, LinkedAtHome, Linked
(* It is enough to look at the one list a step changes. *)
<1>2. ASSUME NEW h \in Ids,
             \A id \in Ids \ {h} : queue'[id] = queue[id],
             \A j, k \in 1 .. Len(queue'[h]) : queue'[h][j] = queue'[h][k] => j = k,
             \A k \in 1 .. Len(queue'[h]) :
               queue'[h][k] \in DOMAIN Home /\ Home[queue'[h][k]] = h
      PROVE  ListIntegrity'
  <2>1. LinkedOnce'
    BY <1>2 DEF ListIntegrity, LinkedOnce
  <2>2. LinkedAtHome'
    BY <1>2 DEF ListIntegrity, LinkedAtHome, Linked
  <2> QED
    BY <2>1, <2>2 DEF ListIntegrity
<1>3. CASE LoopPop /\ queue[msgid] # <<>>
  <2> DEFINE q == queue[msgid]
             t == Tail(q)
  <2>1. PICK h \in Ids : h = msgid
    BY DEF KMsgTypeOK
  <2>2. q \in Seq(Msgs) /\ q # <<>>
    BY <1>3 DEF KMsgTypeOK
  <2>3. /\ Len(q) \in Nat \ {0}
        /\ Len(t) = Len(q) - 1
        /\ \A k \in 1 .. Len(t) : t[k] = q[k + 1]
    BY <2>2, TailIndex
  <2>4. /\ queue'[h] = t
        /\ \A id \in Ids \ {h} : queue'[id] = queue[id]
    BY <1>3, <2>1 DEF KMsgTypeOK, LoopPop
  <2>5. /\ \A j, k \in 1 .. Len(q) : q[j] = q[k] => j = k
        /\ \A k \in 1 .. Len(q) : q[k] \in DOMAIN Home /\ Home[q[k]] = h
    BY <2>1 DEF ListIntegrity, LinkedOnce, LinkedAtHome, Linked
  <2> HIDE DEF t, q
  <2>6. \A k \in 1 .. Len(t) : k + 1 \in 1 .. Len(q)
    BY <2>3
  <2>7. \A j, k \in 1 .. Len(t) : t[j] = t[k] => j = k
    BY <2>3, <2>5, <2>6
  <2>8. \A k \in 1 .. Len(t) : t[k] \in DOMAIN Home /\ Home[t[k]] = h
    BY <2>3, <2>5, <2>6
  <2> QED
    BY <1>2, <2>1, <2>4, <2>7, <2>8
<1>4. ASSUME NEW m \in DOMAIN Home, PostOwned(m) PROVE ListIntegrity'
  <2> DEFINE h == Home[m]
             q == queue[h]
  <2>1. h \in Ids /\ m \in Msgs /\ q \in Seq(Msgs)
    BY KMsgAssumption DEF KMsgTypeOK
  <2>2. CASE m \in Linked(h)
    BY <1>1, <1>4, <2>2 DEF PostOwned, k_msg_post, check_msg_existed
  <2>3. CASE m \notin Linked(h)
    <3>1. /\ queue'[h] = Append(q, m)
          /\ \A id \in Ids \ {h} : queue'[id] = queue[id]
      BY <1>4, <2>1, <2>3 DEF PostOwned, k_msg_post, check_msg_existed, KMsgTypeOK
    <3>2. /\ Len(q) \in Nat
          /\ Len(Append(q, m)) = Len(q) + 1
          /\ \A k \in 1 .. Len(q) : Append(q, m)[k] = q[k]
          /\ Append(q, m)[Len(q) + 1] = m
      BY <2>1, AppendIndex
    <3>3. /\ \A j, k \in 1 .. Len(q) : q[j] = q[k] => j = k
          /\ \A k \in 1 .. Len(q) : q[k] \in DOMAIN Home /\ Home[q[k]] = h
      BY <2>1 DEF ListIntegrity, LinkedOnce, LinkedAtHome, Linked
    <3>4. \A k \in 1 .. Len(q) : q[k] # m
      BY <2>3 DEF Linked
    <3>5. m \in DOMAIN Home /\ Home[m] = h
      OBVIOUS
    <3> HIDE DEF h, q
    <3>6. \A j, k \in 1 .. Len(Append(q, m)) : Append(q, m)[j] = Append(q, m)[k] => j = k
      BY <3>2, <3>3, <3>4
    <3>7. \A k \in 1 .. Len(Append(q, m)) :
            Append(q, m)[k] \in DOMAIN Home /\ Home[Append(q, m)[k]] = h
      BY <3>2, <3>3, <3>5
    <3> QED
      BY <1>2, <2>1, <3>1, <3>6, <3>7
  <2> QED
    BY <2>2, <2>3
<1>5. CASE LoopPop /\ queue[msgid] = <<>>
  BY <1>1, <1>5 DEF LoopPop
<1>6. CASE LoopEnter \/ LoopDispatch \/ HandlerReturn \/ LoopTest
  BY <1>1, <1>6 DEF LoopEnter, LoopDispatch, HandlerReturn, LoopTest
<1>7. ASSUME NEW id \in Ids, k_msg_reg_hdl(id) PROVE ListIntegrity'
  BY <1>1, <1>7 DEF k_msg_reg_hdl
<1>8. CASE UNCHANGED kmsgVars
  BY <1>1, <1>8 DEF kmsgVars
<1> QED
  BY <1>3, <1>4, <1>5, <1>6, <1>7, <1>8 DEF Next, LoopStep

(* The lists of the message queues are never cut or joined: no interrupt   *)
(* between any two steps of k_msg_loop makes a message linked twice.       *)
THEOREM IntegrityHolds == Spec => []ListIntegrity
<1> QED
  BY InitTypeOK, NextTypeOK, InitIntegrity, NextIntegrity, PTL DEF Spec

-----------------------------------------------------------------------------
(* No handler runs on a stale message: the main context is the only one    *)
(* that unlinks, so a list it saw non-empty is non-empty at the next pop.  *)
LEMMA NextNoStale ==
  KMsgTypeOK /\ NoStaleMessage /\ [Next]_kmsgVars => NoStaleMessage'
<1> SUFFICES ASSUME KMsgTypeOK, NoStaleMessage, [Next]_kmsgVars
             PROVE  NoStaleMessage'
  OBVIOUS
<1> USE DEF NoStaleMessage
<1>1. CASE LoopEnter
  BY <1>1 DEF LoopEnter
<1>2. CASE LoopPop \/ LoopDispatch \/ HandlerReturn
  BY <1>2 DEF LoopPop, LoopDispatch, HandlerReturn
<1>3. CASE LoopTest
  BY <1>3 DEF LoopTest
<1>4. ASSUME NEW id \in Ids, k_msg_reg_hdl(id) PROVE NoStaleMessage'
  BY <1>4 DEF k_msg_reg_hdl
<1>5. ASSUME NEW m \in DOMAIN Home, PostOwned(m) PROVE NoStaleMessage'
  <2> DEFINE h == Home[m]
  <2>1. h \in Ids /\ m \in Msgs /\ queue[h] \in Seq(Msgs)
    BY KMsgAssumption DEF KMsgTypeOK
  <2>2. Append(queue[h], m) # <<>>
    BY <2>1, AppendIndex
  <2> QED
    BY <1>5, <2>1, <2>2 DEF PostOwned, k_msg_post, loopVars, KMsgTypeOK
<1>6. CASE UNCHANGED kmsgVars
  BY <1>6 DEF kmsgVars
<1> QED
  BY <1>1, <1>2, <1>3, <1>4, <1>5, <1>6 DEF Next, LoopStep

(* The list_empty() of k_msg_loop's while, read outside the critical       *)
(* section, is still right when the next critical section relies on it.    *)
THEOREM NoStaleHandling == Spec => []NoStaleMessage
<1>1. KMsgInit => NoStaleMessage
  BY DEF KMsgInit, NoStaleMessage
<1> QED
  BY <1>1, InitTypeOK, NextTypeOK, NextNoStale, PTL DEF Spec

-----------------------------------------------------------------------------
(* Every step of the queues and the loop is a step of the mailbox, or none.*)
LEMMA NextRefines ==
  KMsgTypeOK /\ ListIntegrity /\ NoStaleMessage /\ [Next]_kmsgVars
    => [Service!Next]_(Service!vars)
<1> SUFFICES ASSUME KMsgTypeOK, ListIntegrity, NoStaleMessage, [Next]_kmsgVars
             PROVE  [Service!Next]_(Service!vars)
  OBVIOUS
<1>1. ASSUME UNCHANGED queue, HandledBy' = HandledBy PROVE UNCHANGED Service!vars
  BY <1>1 DEF Service!vars, PendingMsgs, Linked
<1>2. CASE LoopEnter
  BY <1>1, <1>2 DEF LoopEnter, HandledBy
<1>3. CASE LoopPop
  <2>1. CASE queue[msgid] = <<>>
    BY <1>1, <1>3, <2>1 DEF LoopPop, HandledBy, NoStaleMessage
  <2>2. CASE queue[msgid] # <<>>
    <3>1. PICK h \in Ids : h = msgid
      BY DEF KMsgTypeOK
    <3> DEFINE q == queue[h]
               t == Tail(q)
               left == {t[k] : k \in 1 .. Len(t)}
    <3>2. q \in Seq(Msgs) /\ q # <<>>
      BY <2>2, <3>1 DEF KMsgTypeOK
    <3>3. /\ Head(q) = q[1]
          /\ Len(q) \in Nat \ {0}
          /\ Len(t) = Len(q) - 1
          /\ \A k \in 1 .. Len(t) : t[k] = q[k + 1]
      BY <3>2, TailIndex
    <3>4. /\ queue'[h] = t
          /\ \A id \in Ids \ {h} : queue'[id] = queue[id]
          /\ msg' = q[1]
      BY <1>3, <2>2, <3>1, <3>3 DEF KMsgTypeOK, LoopPop
    <3>5. q[1] \in Msgs /\ q[1] # NoMsg
      BY <3>2, <3>3, KMsgAssumption
    <3>6. HandledBy = NoMsg /\ HandledBy' = q[1]
      BY <1>3, <3>4, <3>5 DEF LoopPop, HandledBy
    <3>7. /\ \A j, k \in 1 .. Len(q) : q[j] = q[k] => j = k
          /\ \A id \in Ids : \A m \in Linked(id) : Home[m] = id
      BY DEF ListIntegrity, LinkedOnce, LinkedAtHome
    <3>8. Linked(h) = {q[k] : k \in 1 .. Len(q)} /\ Linked(h)' = left
      BY <3>4 DEF Linked
    <3>9. \A id \in Ids \ {h} : Linked(id)' = Linked(id)
      BY <3>4 DEF Linked
    <3> HIDE DEF q, t
    <3>10. left = {q[k] : k \in 1 .. Len(q)} \ {q[1]}
      <4>1. \A k \in 1 .. Len(t) : k + 1 \in 1 .. Len(q) /\ k + 1 # 1
        BY <3>3
      <4>2. \A k \in 1 .. Len(q) : k # 1 => k - 1 \in 1 .. Len(t) /\ q[k] = t[k - 1]
        BY <3>3
      <4>3. 1 \in 1 .. Len(q)
        BY <3>3
      <4> QED
        BY <3>3, <3>7, <4>1, <4>2, <4>3
    <3>11. q[1] \in Linked(h)
      BY <3>3, <3>8
    <3>12. \A id \in Ids \ {h} : q[1] \notin Linked(id)
      BY <3>1, <3>7, <3>11
    <3>13. Linked(h)' = Linked(h) \ {q[1]}
      BY <3>8, <3>10
    <3>14. PendingMsgs' = PendingMsgs \ {q[1]} /\ q[1] \in PendingMsgs
      BY <3>1, <3>9, <3>11, <3>12, <3>13 DEF PendingMsgs
    <3> QED
      BY <3>5, <3>6, <3>14 DEF Service!Next, Service!Take
  <2> QED
    BY <2>1, <2>2
<1>4. CASE LoopDispatch \/ HandlerReturn
  <2>1. UNCHANGED queue /\ (HandledBy' = HandledBy \/ (HandledBy # NoMsg /\ HandledBy' = NoMsg))
    BY <1>4 DEF LoopDispatch, HandlerReturn, HandledBy
  <2>2. CASE HandledBy' = HandledBy
    BY <1>1, <2>1, <2>2
  <2>3. CASE HandledBy # NoMsg /\ HandledBy' = NoMsg
    <3>1. PendingMsgs' = PendingMsgs
      BY <2>1 DEF PendingMsgs, Linked
    <3> QED
      BY <2>3, <3>1 DEF Service!Next, Service!Done
  <2> QED
    BY <2>1, <2>2, <2>3
<1>5. CASE LoopTest
  BY <1>1, <1>5 DEF LoopTest, HandledBy
<1>6. ASSUME NEW id \in Ids, k_msg_reg_hdl(id) PROVE UNCHANGED Service!vars
  BY <1>1, <1>6 DEF k_msg_reg_hdl, HandledBy
<1>7. ASSUME NEW m \in DOMAIN Home, PostOwned(m) PROVE Service!Post(m)
  <2> DEFINE h == Home[m]
             q == queue[h]
  <2>1. h \in Ids /\ m \in Msgs /\ q \in Seq(Msgs)
    BY KMsgAssumption DEF KMsgTypeOK
  <2>2. HandledBy' = HandledBy
    BY <1>7 DEF PostOwned, loopVars, HandledBy
  <2>3. PendingMsgs' = PendingMsgs \cup {m}
    <3>1. CASE m \in Linked(h)
      <4>1. queue' = queue /\ m \in PendingMsgs
        BY <1>7, <2>1, <3>1 DEF PostOwned, k_msg_post, check_msg_existed, PendingMsgs
      <4>2. PendingMsgs' = PendingMsgs
        BY <4>1 DEF PendingMsgs, Linked
      <4> QED
        BY <4>1, <4>2
    <3>2. CASE m \notin Linked(h)
      <4>1. /\ queue'[h] = Append(q, m)
            /\ \A id \in Ids \ {h} : queue'[id] = queue[id]
        BY <1>7, <2>1, <3>2 DEF PostOwned, k_msg_post, check_msg_existed, KMsgTypeOK
      <4>2. /\ Len(q) \in Nat
            /\ Len(Append(q, m)) = Len(q) + 1
            /\ \A k \in 1 .. Len(q) : Append(q, m)[k] = q[k]
            /\ Append(q, m)[Len(q) + 1] = m
        BY <2>1, AppendIndex
      <4>3. Linked(h)' = Linked(h) \cup {m}
        <5>1. Linked(h)' = {Append(q, m)[k] : k \in 1 .. Len(q) + 1}
          BY <4>1, <4>2 DEF Linked
        <5>2. Linked(h) = {q[k] : k \in 1 .. Len(q)}
          BY DEF Linked
        <5> HIDE DEF q, h
        <5>3. 1 .. Len(q) + 1 = (1 .. Len(q)) \cup {Len(q) + 1}
          BY <4>2
        <5> QED
          BY <4>2, <5>1, <5>2, <5>3
      <4>4. \A id \in Ids \ {h} : Linked(id)' = Linked(id)
        BY <4>1 DEF Linked
      <4> HIDE DEF q, h
      <4> QED
        BY <2>1, <4>3, <4>4 DEF PendingMsgs
    <3> QED
      BY <3>1, <3>2
  <2> QED
    BY <2>2, <2>3 DEF Service!Post
<1>8. CASE UNCHANGED kmsgVars
  BY <1>1, <1>8 DEF kmsgVars, HandledBy
<1>9. DOMAIN Home \subseteq Msgs
  BY KMsgAssumption
<1> QED
  BY <1>2, <1>3, <1>4, <1>5, <1>6, <1>7, <1>8, <1>9 DEF Next, LoopStep, Service!Next

(* k_msg.c delivers what Mailbox promises: a post is never lost and never  *)
(* handled twice, wherever interrupts fall between the steps of the loop.  *)
THEOREM RefinesMailbox == Spec => ImplementsMailbox
<1>1. KMsgInit => Service!Init
  BY DEF KMsgInit, Service!Init, PendingMsgs, Linked, HandledBy
<1>2. KMsgInit => NoStaleMessage
  BY DEF KMsgInit, NoStaleMessage
<1> QED
  BY <1>1, <1>2, InitTypeOK, NextTypeOK, InitIntegrity, NextIntegrity, NextNoStale, NextRefines, PTL
     DEF Spec, ImplementsMailbox, Service!Spec

(*** The message pool: MsgPool, its PoolSpec and its PoolNext ***)

(* The messages of a list, that they are different, and the tokens in them. *)
Members(q) == {q[k] : k \in 1 .. Len(q)}
Different(q) == \A j, k \in 1 .. Len(q) : q[j] = q[k] => j = k
Tokens(os, q) == [k \in 1 .. Len(q) |-> os[q[k]]]

InLists == UNION {Linked(id) : id \in ModIds}

PoolTypes ==
  /\ used \in [Slots -> BOOLEAN]
  /\ os_msg \in [Slots -> Nat]
  /\ snd = Idle \/ snd \in [pc : {"found", "taken", "copied"}, slot : Slots, id : ModIds, token : Nat]
  /\ sends \in Nat
  /\ accepted \in [Ids -> Seq(Nat)]
  /\ served \in [Ids -> Seq(Nat)]

(* A slot is linked once, under the id of a module; the lists of modules
   hold slots only. *)
SlotsLinked ==
  /\ \A id \in ModIds : Linked(id) \subseteq Slots /\ Different(queue[id])
  /\ \A id \in Ids \ ModIds : Linked(id) \cap Slots = {}
  /\ \A i, j \in ModIds : i # j => Linked(i) \cap Linked(j) = {}

(* The slot the loop holds, and the one the send of main is about to post. *)
Holding == pc \in {"got", "run"} /\ msg \in Slots

SlotsTaken ==
  /\ \A s \in InLists : used[s]
  /\ Holding => used[msg] /\ msg \notin InLists
  /\ pc = "got" /\ msg \in Slots => msgid \in ModIds
  /\ snd # Idle => pc \in {"app", "run"}
  /\ snd.pc = "found" => ~used[snd.slot]
  /\ snd.pc \in {"taken", "copied"} =>
       /\ used[snd.slot] /\ snd.slot \notin InLists
       /\ Holding => msg # snd.slot
  /\ snd.pc = "copied" => os_msg[snd.slot] = snd.token

PoolInv ==
  KMsgTypeOK /\ NoStaleMessage /\ PoolTypes /\ SlotsLinked /\ SlotsTaken /\ NothingMissing

-----------------------------------------------------------------------------
(* Lists of slots.                                                         *)

LEMMA PoolFacts ==
  /\ NoMsg \notin Msgs /\ Slots \subseteq Msgs /\ ModIds \subseteq Ids
  /\ DOMAIN Home \subseteq Msgs /\ DOMAIN Home \cap Slots = {}
  /\ \A m \in DOMAIN Home : Home[m] \in Ids \ ModIds
BY KMsgAssumption, MsgPoolAssumption DEF ModIds, Ids

(* Token sequences that are joined. *)
LEMMA Joining ==
  /\ \A a, b \in Seq(Nat) : a \o b \in Seq(Nat)
  /\ \A a, b, c \in Seq(Nat) : (a \o b) \o c = a \o (b \o c)
  /\ \A a \in Seq(Nat) : a \o <<>> = a /\ <<>> \o a = a
  /\ \A a \in Seq(Nat) : \A t \in Nat : <<t>> \in Seq(Nat) /\ Append(a, t) = a \o <<t>>
<1>1. \A a, b \in Seq(Nat) : a \o b \in Seq(Nat)
  BY ConcatProperties
<1>2. \A a, b, c \in Seq(Nat) : (a \o b) \o c = a \o (b \o c)
  BY ConcatAssociative
<1>3. \A a \in Seq(Nat) : a \o <<>> = a /\ <<>> \o a = a
  BY ConcatEmptySeq
<1>4. \A a \in Seq(Nat) : \A t \in Nat : <<t>> \in Seq(Nat) /\ Append(a, t) = a \o <<t>>
  BY AppendIsConcat
<1> QED
  BY <1>1, <1>2, <1>3, <1>4

(* A slot that is linked at the tail. *)
LEMMA LinkSlot ==
  ASSUME NEW q \in Seq(Slots), NEW s \in Slots, Different(q), s \notin Members(q)
  PROVE  /\ Append(q, s) \in Seq(Slots)
         /\ Different(Append(q, s))
         /\ Members(Append(q, s)) = Members(q) \cup {s}
<1>1. /\ Append(q, s) \in Seq(Slots)
      /\ Len(q) \in Nat
      /\ Len(Append(q, s)) = Len(q) + 1
      /\ \A k \in 1 .. Len(q) : Append(q, s)[k] = q[k]
      /\ Append(q, s)[Len(q) + 1] = s
  BY AppendIndex
<1>2. \A k \in 1 .. Len(q) : q[k] # s
  BY DEF Members
<1>3. Different(Append(q, s))
  BY <1>1, <1>2 DEF Different
<1>4. 1 .. Len(q) + 1 = (1 .. Len(q)) \cup {Len(q) + 1}
  BY <1>1
<1>5. Members(Append(q, s)) = Members(q) \cup {s}
  BY <1>1, <1>4 DEF Members
<1> QED
  BY <1>1, <1>3, <1>5

LEMMA LinkTokens ==
  ASSUME NEW q \in Seq(Slots), NEW s \in Slots, NEW os \in [Slots -> Nat], s \notin Members(q),
         NEW token \in Nat
  PROVE  /\ Tokens(os, q) \in Seq(Nat)
         /\ Tokens([os EXCEPT ![s] = token], Append(q, s)) = Tokens(os, q) \o <<token>>
<1> DEFINE new == [os EXCEPT ![s] = token]
           r == Append(q, s)
<1>1. /\ r \in Seq(Slots) /\ Len(q) \in Nat /\ Len(r) = Len(q) + 1
      /\ \A k \in 1 .. Len(q) : r[k] = q[k]
      /\ r[Len(q) + 1] = s
  BY AppendIndex
<1>2. \A k \in 1 .. Len(q) : q[k] \in Slots /\ q[k] # s
  BY DEF Members
<1>3. Tokens(os, q) \in Seq(Nat) /\ Len(Tokens(os, q)) = Len(q)
  BY <1>1, <1>2 DEF Tokens
<1>4. \A k \in 1 .. Len(q) : new[r[k]] = Tokens(os, q)[k]
  BY <1>1, <1>2 DEF Tokens
<1>5. new[r[Len(q) + 1]] = token
  BY <1>1
<1> HIDE DEF r, new
<1> DEFINE w == Tokens(os, q) \o <<token>>
<1>6. <<token>> \in Seq(Nat) /\ Len(<<token>>) = 1 /\ <<token>>[1] = token
  OBVIOUS
<1>7. /\ w \in Seq(Nat) /\ Len(w) = Len(q) + 1
      /\ \A k \in 1 .. Len(q) + 1 :
           w[k] = IF k <= Len(q) THEN Tokens(os, q)[k] ELSE <<token>>[k - Len(q)]
  BY <1>1, <1>3, <1>6, ConcatProperties
<1>8. Tokens(new, r) \in Seq(Nat) /\ Len(Tokens(new, r)) = Len(q) + 1
      /\ \A k \in 1 .. Len(q) + 1 : Tokens(new, r)[k] = new[r[k]]
  <2>1. \A k \in 1 .. Len(q) + 1 : k \in 1 .. Len(q) \/ k = Len(q) + 1
    BY <1>1
  <2>2. \A k \in 1 .. Len(q) + 1 : new[r[k]] \in Nat
    BY <1>3, <1>4, <1>5, <2>1
  <2> QED
    BY <1>1, <2>2 DEF Tokens
<1>9. \A k \in 1 .. Len(q) + 1 : Tokens(new, r)[k] = w[k]
  <2> HIDE DEF w
  <2> TAKE k \in 1 .. Len(q) + 1
  <2>1. CASE k \in 1 .. Len(q)
    <3>1. k <= Len(q) /\ w[k] = Tokens(os, q)[k]
      BY <1>1, <1>7, <2>1
    <3> QED
      BY <1>4, <1>8, <2>1, <3>1
  <2>2. CASE k = Len(q) + 1
    BY <1>1, <1>5, <1>6, <1>7, <1>8, <2>2
  <2> QED
    BY <1>1, <2>1, <2>2
<1> QED
  <2> HIDE DEF w
  <2>1. Tokens(new, r) = w
    BY <1>7, <1>8, <1>9, SeqEqual
  <2> QED
    BY <1>3, <2>1 DEF w, new, r

(* A slot that is unlinked at the head. *)
LEMMA UnlinkSlot ==
  ASSUME NEW q \in Seq(Slots), q # <<>>, Different(q)
  PROVE  /\ Head(q) \in Members(q) /\ Tail(q) \in Seq(Slots)
         /\ Different(Tail(q))
         /\ Members(Tail(q)) = Members(q) \ {Head(q)}
<1>1. /\ Tail(q) \in Seq(Slots) /\ Head(q) = q[1]
      /\ Len(q) \in Nat \ {0} /\ Len(Tail(q)) = Len(q) - 1
      /\ \A k \in 1 .. Len(Tail(q)) : Tail(q)[k] = q[k + 1]
  BY TailIndex
<1> DEFINE t == Tail(q)
<1>2. \A k \in 1 .. Len(t) : k + 1 \in 1 .. Len(q) /\ k + 1 # 1 /\ t[k] = q[k + 1]
  BY <1>1
<1>3. \A k \in 1 .. Len(q) : k # 1 => k - 1 \in 1 .. Len(t) /\ q[k] = t[k - 1]
  BY <1>1
<1>4. 1 \in 1 .. Len(q)
  BY <1>1
<1>5. t \in Seq(Slots)
  BY <1>1
<1> HIDE DEF t
<1>6. Different(t)
  <2> SUFFICES ASSUME NEW j \in 1 .. Len(t), NEW k \in 1 .. Len(t), t[j] = t[k] PROVE j = k
    BY DEF Different
  <2>1. j + 1 = k + 1
    BY <1>2 DEF Different
  <2> QED
    BY <2>1
<1>7. Members(t) = Members(q) \ {q[1]}
  <2>1. \A k \in 1 .. Len(t) : t[k] \in Members(q) /\ t[k] # q[1]
    BY <1>2, <1>4 DEF Different, Members
  <2>2. \A k \in 1 .. Len(q) : q[k] # q[1] => q[k] \in Members(t)
    BY <1>3 DEF Members
  <2>3. Members(t) \subseteq Members(q) \ {q[1]}
    BY <2>1 DEF Members
  <2>4. Members(q) \ {q[1]} \subseteq Members(t)
    BY <2>2 DEF Members
  <2> QED
    BY <2>3, <2>4
<1> QED
  BY <1>1, <1>4, <1>5, <1>6, <1>7 DEF t, Members

LEMMA UnlinkTokens ==
  ASSUME NEW q \in Seq(Slots), q # <<>>, NEW os \in [Slots -> Nat]
  PROVE  /\ os[Head(q)] \in Nat /\ Tokens(os, Tail(q)) \in Seq(Nat)
         /\ Tokens(os, q) = <<os[Head(q)]>> \o Tokens(os, Tail(q))
<1> DEFINE t == Tail(q)
           x == os[Head(q)]
<1>1. /\ t \in Seq(Slots) /\ Head(q) = q[1]
      /\ Len(q) \in Nat \ {0} /\ Len(t) = Len(q) - 1
      /\ \A k \in 1 .. Len(t) : t[k] = q[k + 1]
  BY TailIndex
<1>2. \A k \in 1 .. Len(q) : q[k] \in Slots
  OBVIOUS
<1>3. x \in Nat
  BY <1>1, <1>2
<1>4. \A k \in 1 .. Len(t) : t[k] \in Slots
  BY <1>1
<1> DEFINE a == Tokens(os, q)
           b == Tokens(os, t)
<1>5. /\ a \in Seq(Nat) /\ Len(a) = Len(q) /\ \A k \in 1 .. Len(q) : a[k] = os[q[k]]
  BY <1>1, <1>2 DEF Tokens
<1>6. /\ b \in Seq(Nat) /\ Len(b) = Len(t) /\ \A k \in 1 .. Len(t) : b[k] = os[t[k]]
  BY <1>1, <1>4 DEF Tokens
<1>7. x = a[1]
  BY <1>1, <1>5
<1> HIDE DEF t, x, a, b
<1>8. <<x>> \in Seq(Nat) /\ Len(<<x>>) = 1 /\ <<x>>[1] = x
  BY <1>3
<1> DEFINE w == <<x>> \o b
<1>9. /\ w \in Seq(Nat) /\ Len(w) = 1 + Len(b)
      /\ \A k \in 1 .. 1 + Len(b) : w[k] = IF k <= 1 THEN <<x>>[k] ELSE b[k - 1]
  BY <1>6, <1>8, ConcatProperties
<1>10. \A k \in 1 .. Len(q) : a[k] = w[k]
  <2> HIDE DEF w
  <2> TAKE k \in 1 .. Len(q)
  <2>1. CASE k = 1
    BY <1>1, <1>6, <1>7, <1>8, <1>9, <2>1
  <2>2. CASE k # 1
    <3>1. k - 1 \in 1 .. Len(t) /\ k \in 1 .. 1 + Len(b) /\ ~(k <= 1) /\ k - 1 + 1 = k
      BY <1>1, <1>6, <2>2
    <3>2. w[k] = b[k - 1]
      BY <1>9, <3>1
    <3>3. b[k - 1] = os[t[k - 1]]
      BY <1>6, <3>1
    <3>4. t[k - 1] = q[k]
      BY <1>1, <3>1
    <3> QED
      BY <1>5, <3>2, <3>3, <3>4
  <2> QED
    BY <2>1, <2>2
<1> QED
  <2> HIDE DEF w
  <2>1. a = w
    BY <1>1, <1>5, <1>6, <1>9, <1>10, SeqEqual
  <2> QED
    BY <1>3, <1>6, <2>1 DEF w, t, x, a, b

-----------------------------------------------------------------------------
(* The lists of the modules.                                               *)

LEMMA QueueOf ==
  ASSUME KMsgTypeOK, PoolTypes, SlotsLinked, NEW id \in ModIds
  PROVE  /\ queue[id] \in Seq(Slots) /\ Different(queue[id])
         /\ Linked(id) = Members(queue[id])
         /\ Queued(id) = Tokens(os_msg, queue[id]) /\ Queued(id) \in Seq(Nat)
<1>1. id \in Ids /\ queue[id] \in Seq(Msgs)
  BY PoolFacts DEF KMsgTypeOK
<1>2. Linked(id) = Members(queue[id])
  BY DEF Linked, Members
<1>3. Linked(id) \subseteq Slots /\ Different(queue[id])
  BY DEF SlotsLinked
<1>4. Len(queue[id]) \in Nat /\ \A k \in 1 .. Len(queue[id]) : queue[id][k] \in Slots
  BY <1>1, <1>2, <1>3 DEF Members
<1>5. queue[id] \in Seq(Slots)
  BY <1>1, <1>4
<1>6. Queued(id) = Tokens(os_msg, queue[id])
  BY DEF Queued, Tokens
<1>7. Queued(id) \in Seq(Nat)
  BY <1>4 DEF Queued, PoolTypes
<1> QED
  BY <1>2, <1>3, <1>5, <1>6, <1>7

LEMMA HandOf ==
  ASSUME KMsgTypeOK, PoolTypes, NEW id \in ModIds
  PROVE  InHand(id) \in Seq(Nat) /\ served[id] \in Seq(Nat) /\ accepted[id] \in Seq(Nat)
<1>1. CASE msg \in Slots
  <2>1. os_msg[msg] \in Nat
    BY <1>1 DEF PoolTypes
  <2>2. <<os_msg[msg]>> \in Seq(Nat) /\ <<>> \in Seq(Nat)
    BY <2>1
  <2>3. InHand(id) \in Seq(Nat)
    BY <2>2 DEF InHand
  <2> QED
    BY <2>3, PoolFacts DEF PoolTypes
<1>2. CASE msg \notin Slots
  <2>1. <<>> \in Seq(Nat)
    OBVIOUS
  <2>2. InHand(id) \in Seq(Nat)
    BY <1>2, <2>1 DEF InHand
  <2> QED
    BY <2>2, PoolFacts DEF PoolTypes
<1> QED
  BY <1>1, <1>2

(* What posting a slot that is in no list does to the lists. *)
LEMMA PostSlot ==
  ASSUME KMsgTypeOK, PoolTypes, SlotsLinked, NEW id \in ModIds, NEW s \in Slots, s \notin InLists,
         NEW token \in Nat, os_msg' = [os_msg EXCEPT ![s] = token], k_msg_post(id, s)
  PROVE  /\ queue' \in [Ids -> Seq(Msgs)]
         /\ \A i \in Ids : queue[i] # <<>> => queue'[i] # <<>>
         /\ SlotsLinked' /\ InLists' = InLists \cup {s}
         /\ Queued(id)' = Queued(id) \o <<token>>
         /\ \A i \in ModIds \ {id} : Queued(i)' = Queued(i)
<1>1. id \in Ids /\ s \in Msgs /\ queue[id] \in Seq(Msgs)
  BY PoolFacts DEF KMsgTypeOK
<1>2. s \notin Linked(id)
  BY DEF InLists
<1>3. queue' = [queue EXCEPT ![id] = Append(queue[id], s)]
  BY <1>2 DEF k_msg_post, check_msg_existed
<1>4. /\ queue'[id] = Append(queue[id], s)
      /\ \A i \in Ids \ {id} : queue'[i] = queue[i]
  BY <1>1, <1>3 DEF KMsgTypeOK
<1>5. queue' \in [Ids -> Seq(Msgs)] /\ Append(queue[id], s) # <<>>
  BY <1>1, <1>3, AppendProperties DEF KMsgTypeOK
<1>6. \A i \in Ids : queue[i] # <<>> => queue'[i] # <<>>
  BY <1>4, <1>5
<1>7. queue[id] \in Seq(Slots) /\ Different(queue[id]) /\ s \notin Members(queue[id])
  BY <1>2, QueueOf
<1>8. Different(queue'[id]) /\ Linked(id)' = Linked(id) \cup {s}
  <2>1. Linked(id)' = Members(queue'[id])
    BY DEF Linked, Members
  <2> QED
    BY <1>4, <1>7, <2>1, LinkSlot, QueueOf
<1>9. \A i \in Ids \ {id} : Linked(i)' = Linked(i)
  BY <1>4 DEF Linked
<1>10. \A i \in ModIds \ {id} : Linked(i)' = Linked(i) /\ queue'[i] = queue[i] /\ s \notin Linked(i)
  BY <1>4, <1>9, PoolFacts DEF InLists
<1>11. SlotsLinked'
  <2>1. \A i \in ModIds : Linked(i)' \subseteq Slots /\ Different(queue'[i])
    BY <1>8, <1>10 DEF SlotsLinked
  <2>2. \A i \in Ids \ ModIds : Linked(i)' \cap Slots = {}
    BY <1>9 DEF SlotsLinked
  <2>3. \A i, j \in ModIds : i # j => Linked(i)' \cap Linked(j)' = {}
    BY <1>8, <1>10 DEF SlotsLinked
  <2> QED
    BY <2>1, <2>2, <2>3 DEF SlotsLinked
<1>12. InLists' = InLists \cup {s}
  BY <1>8, <1>10 DEF InLists
<1>13. Queued(id)' = Queued(id) \o <<token>>
  <2>1. Queued(id)' = Tokens(os_msg', queue'[id])
    BY DEF Queued, Tokens
  <2>2. os_msg \in [Slots -> Nat]
    BY DEF PoolTypes
  <2>3. Tokens([os_msg EXCEPT ![s] = token], Append(queue[id], s)) = Tokens(os_msg, queue[id]) \o <<token>>
    BY <1>7, <2>2, LinkTokens
  <2>4. Queued(id) = Tokens(os_msg, queue[id])
    BY DEF Queued, Tokens
  <2> QED
    BY <1>4, <2>1, <2>3, <2>4
<1>14. \A i \in ModIds \ {id} : Queued(i)' = Queued(i)
  <2> SUFFICES ASSUME NEW i \in ModIds \ {id} PROVE Queued(i)' = Queued(i)
    OBVIOUS
  <2>1. \A k \in 1 .. Len(queue[i]) : os_msg'[queue[i][k]] = os_msg[queue[i][k]]
    <3> SUFFICES ASSUME NEW k \in 1 .. Len(queue[i])
                 PROVE  os_msg'[queue[i][k]] = os_msg[queue[i][k]]
      OBVIOUS
    <3>1. queue[i][k] \in Linked(i) /\ Linked(i) \subseteq Slots
      BY DEF Linked, SlotsLinked
    <3>2. queue[i][k] # s /\ queue[i][k] \in Slots
      BY <1>10, <3>1
    <3> QED
      BY <3>2 DEF PoolTypes
  <2> QED
    BY <1>10, <2>1 DEF Queued
<1> QED
  BY <1>5, <1>6, <1>11, <1>12, <1>13, <1>14

(* One more message accepted, at the end of its list. *)
LEMMA PostLossless ==
  ASSUME KMsgTypeOK, PoolTypes, SlotsLinked, NothingMissing, NEW id \in ModIds, NEW token \in Nat,
         Queued(id)' = Queued(id) \o <<token>>,
         \A i \in ModIds \ {id} : Queued(i)' = Queued(i),
         accepted' = [accepted EXCEPT ![id] = Append(@, token)],
         served' = served, \A i \in ModIds : InHand(i)' = InHand(i)
  PROVE  NothingMissing' /\ accepted' \in [Ids -> Seq(Nat)]
<1>1. id \in Ids /\ accepted[id] \in Seq(Nat)
  BY PoolFacts DEF PoolTypes
<1>2. /\ accepted'[id] = Append(accepted[id], token)
      /\ \A i \in ModIds \ {id} : accepted'[i] = accepted[i]
  BY <1>1, PoolFacts DEF PoolTypes
<1>3. accepted' \in [Ids -> Seq(Nat)]
  BY <1>1, AppendProperties DEF PoolTypes
<1>4. served[id] \o InHand(id) \o (Queued(id) \o <<token>>) = Append(accepted[id], token)
  <2> DEFINE a == served[id] \o InHand(id)
  <2>1. served[id] \in Seq(Nat) /\ InHand(id) \in Seq(Nat) /\ Queued(id) \in Seq(Nat)
    BY HandOf, QueueOf
  <2>2. a \in Seq(Nat) /\ <<token>> \in Seq(Nat)
    BY <2>1, Joining
  <2>3. a \o Queued(id) = accepted[id]
    BY DEF NothingMissing
  <2> HIDE DEF a
  <2>4. a \o (Queued(id) \o <<token>>) = accepted[id] \o <<token>>
    <3>1. (a \o Queued(id)) \o <<token>> = a \o (Queued(id) \o <<token>>)
      BY <2>1, <2>2, Joining
    <3> QED
      BY <2>3, <3>1
  <2>5. Append(accepted[id], token) = accepted[id] \o <<token>>
    BY <1>1, Joining
  <2> QED
    BY <2>4, <2>5 DEF a
<1>5. NothingMissing'
  <2> SUFFICES ASSUME NEW i \in ModIds
               PROVE  served'[i] \o InHand(i)' \o Queued(i)' = accepted'[i]
    BY DEF NothingMissing
  <2>1. CASE i = id
    BY <1>2, <1>4, <2>1
  <2>2. CASE i # id
    BY <1>2, <2>2 DEF NothingMissing
  <2> QED
    BY <2>1, <2>2
<1> QED
  BY <1>3, <1>5

-----------------------------------------------------------------------------
(* The steps.                                                              *)

LEMMA PoolInvInit == MsgPoolInit => PoolInv
<1> SUFFICES ASSUME MsgPoolInit PROVE PoolInv
  OBVIOUS
<1>1. KMsgTypeOK
  BY InitTypeOK DEF MsgPoolInit
<1>2. NoStaleMessage
  BY DEF MsgPoolInit, KMsgInit, NoStaleMessage
<1>3. \A id \in Ids : queue[id] = <<>> /\ Linked(id) = {}
  BY DEF MsgPoolInit, KMsgInit, Linked
<1>4. PoolTypes
  BY DEF MsgPoolInit, PoolTypes
<1>5. SlotsLinked
  BY <1>3, PoolFacts DEF SlotsLinked, Different
<1>6. SlotsTaken
  BY <1>3, PoolFacts DEF MsgPoolInit, KMsgInit, SlotsTaken, Holding, InLists, Idle
<1>7. NothingMissing
  <2> SUFFICES ASSUME NEW id \in ModIds
               PROVE  served[id] \o InHand(id) \o Queued(id) = accepted[id]
    BY DEF NothingMissing
  <2>1. served[id] = <<>> /\ accepted[id] = <<>> /\ InHand(id) = <<>>
    BY PoolFacts DEF MsgPoolInit, KMsgInit, InHand
  <2>2. Queued(id) = <<>>
    BY <1>3, PoolFacts DEF Queued
  <2>3. <<>> \in Seq(Nat)
    OBVIOUS
  <2> QED
    BY <2>1, <2>2, <2>3, Joining
<1> QED
  BY <1>1, <1>2, <1>4, <1>5, <1>6, <1>7 DEF PoolInv

(* A step of the queues and the loop alone keeps their own invariants. *)
LEMMA LoopKeeps ==
  ASSUME PoolInv, [Next]_kmsgVars
  PROVE  KMsgTypeOK' /\ NoStaleMessage'
BY NextTypeOK, NextNoStale DEF PoolInv

(* A step that leaves the lists and the slots alone. *)
LEMMA ListsKeep ==
  ASSUME PoolInv, UNCHANGED <<queue, os_msg>>
  PROVE  /\ SlotsLinked' /\ InLists' = InLists
         /\ \A id \in ModIds : Queued(id)' = Queued(id)
<1>1. \A id \in Ids : Linked(id)' = Linked(id) /\ queue'[id] = queue[id]
  BY DEF Linked
<1>2. SlotsLinked' /\ InLists' = InLists
  BY <1>1, PoolFacts DEF PoolInv, SlotsLinked, InLists
<1>3. \A id \in ModIds : Queued(id)' = Queued(id)
  BY DEF Queued
<1> QED
  BY <1>2, <1>3

(* Steps between two messages: the loop holds none before or after. *)
LEMMA BetweenStep ==
  ASSUME PoolInv, Enter \/ Test \/ \E id \in Ids : snd = Idle /\ k_msg_reg_hdl(id) /\ UNCHANGED poolVars
  PROVE  PoolInv'
<1>1. [Next]_kmsgVars /\ UNCHANGED queue /\ UNCHANGED poolVars
  BY DEF Enter, Test, LoopEnter, LoopTest, k_msg_reg_hdl, Next, LoopStep
<1>2. UNCHANGED <<used, os_msg, snd, sends, accepted, served>>
  BY <1>1 DEF poolVars
<1>3. KMsgTypeOK' /\ NoStaleMessage' /\ SlotsLinked' /\ InLists' = InLists
  BY <1>1, <1>2, LoopKeeps, ListsKeep
<1>4. PoolTypes'
  BY <1>2 DEF PoolInv, PoolTypes
<1>5. /\ pc' \in {"app", "pop"} \/ (pc' = pc /\ msg' = msg /\ msgid' = msgid)
      /\ pc # "got"
      /\ snd # Idle => pc' = pc
  <2>1. CASE Enter
    BY <2>1 DEF Enter, LoopEnter
  <2>2. CASE Test
    <3>1. pc = "test" /\ pc' \in {"app", "pop"}
      BY <2>2 DEF Test, LoopTest
    <3>2. snd = Idle
      BY <3>1 DEF PoolInv, SlotsTaken
    <3> QED
      BY <3>1, <3>2
  <2>3. CASE \E id \in Ids : snd = Idle /\ k_msg_reg_hdl(id) /\ UNCHANGED poolVars
    BY <2>3 DEF k_msg_reg_hdl, MainCode
  <2> QED
    BY <2>1, <2>2, <2>3
<1>6. SlotsTaken'
  BY <1>2, <1>3, <1>5 DEF PoolInv, SlotsTaken, Holding
<1>7. \A id \in ModIds : InHand(id)' = InHand(id)
  BY <1>5 DEF InHand
<1>8. NothingMissing'
  BY <1>1, <1>2, <1>7, ListsKeep DEF PoolInv, NothingMissing
<1> QED
  BY <1>3, <1>4, <1>6, <1>8 DEF PoolInv

(* The loop takes a message out: what was first in its list is in its hand. *)
LEMMA PopStep ==
  ASSUME PoolInv, Pop
  PROVE  PoolInv'
<1>1. LoopPop /\ UNCHANGED <<used, os_msg, snd, sends, accepted, served>>
  BY DEF Pop, poolVars
<1>2. KMsgTypeOK' /\ NoStaleMessage'
  BY <1>1, LoopKeeps DEF Next, LoopStep
<1>3. PoolTypes'
  BY <1>1 DEF PoolInv, PoolTypes
<1>4. pc = "pop" /\ snd = Idle /\ msgid' = msgid /\ msgid \in Ids
  BY <1>1 DEF LoopPop, PoolInv, SlotsTaken, KMsgTypeOK
<1>5. CASE queue[msgid] = <<>>
  <2>1. msg' = NoMsg /\ pc' = "test" /\ queue' = queue
    BY <1>1, <1>4, <1>5 DEF LoopPop, PoolInv, NoStaleMessage
  <2>2. SlotsLinked' /\ InLists' = InLists /\ \A id \in ModIds : Queued(id)' = Queued(id)
    BY <1>1, <2>1, ListsKeep
  <2>3. SlotsTaken'
    BY <1>1, <1>4, <2>1, <2>2 DEF PoolInv, SlotsTaken, Holding, Idle
  <2>4. \A id \in ModIds : InHand(id)' = InHand(id)
    BY <1>4, <2>1 DEF InHand
  <2>5. NothingMissing'
    BY <1>1, <2>2, <2>4 DEF PoolInv, NothingMissing
  <2> QED
    BY <1>2, <1>3, <2>2, <2>3, <2>5 DEF PoolInv
<1>6. CASE queue[msgid] # <<>>
  <2>1. PICK h \in Ids : h = msgid
    BY <1>4
  <2> DEFINE q == queue[h]
  <2>2. q \in Seq(Msgs) /\ q # <<>> /\ Head(q) = q[1] /\ 1 \in 1 .. Len(q) /\ q[1] \in Msgs
    <3>1. q \in Seq(Msgs) /\ q # <<>>
      BY <1>6, <2>1 DEF PoolInv, KMsgTypeOK
    <3> QED
      BY <3>1, TailIndex
  <2>3. msg' = Head(q) /\ pc' = "got" /\ queue' = [queue EXCEPT ![h] = Tail(q)]
    BY <1>1, <1>6, <2>1, <2>2, PoolFacts DEF LoopPop
  <2>4. queue'[h] = Tail(q) /\ \A i \in Ids \ {h} : queue'[i] = queue[i]
    BY <2>3 DEF PoolInv, KMsgTypeOK
  <2>5. Head(q) \in Linked(h)
    BY <2>2 DEF Linked
  <2>6. \A i \in Ids \ {h} : Linked(i)' = Linked(i)
    BY <2>4 DEF Linked
  <2>7. \A i \in ModIds \ {h} : Linked(i)' = Linked(i) /\ Queued(i)' = Queued(i) /\ queue'[i] = queue[i]
    BY <1>1, <2>4, <2>6, PoolFacts DEF Queued
  <2>8. CASE h \in ModIds
    <3>1. /\ q \in Seq(Slots) /\ Different(q) /\ Linked(h) = Members(q)
          /\ Queued(h) = Tokens(os_msg, q)
      BY <2>8, QueueOf DEF PoolInv
    <3>2. /\ Different(Tail(q)) /\ Members(Tail(q)) = Members(q) \ {Head(q)}
          /\ Head(q) \in Members(q)
      BY <2>2, <3>1, UnlinkSlot
    <3>3. Linked(h)' = Linked(h) \ {Head(q)}
      <4>1. Linked(h)' = Members(queue'[h])
        BY DEF Linked, Members
      <4> QED
        BY <2>4, <3>1, <3>2, <4>1
    <3>4. Head(q) \in Slots
      BY <2>5, <2>8 DEF PoolInv, SlotsLinked
    <3>5. SlotsLinked'
      <4>1. \A i \in ModIds : Linked(i)' \subseteq Slots /\ Different(queue'[i])
        BY <2>4, <2>7, <3>2, <3>3 DEF PoolInv, SlotsLinked
      <4>2. \A i \in Ids \ ModIds : Linked(i)' \cap Slots = {}
        BY <2>6, <2>8 DEF PoolInv, SlotsLinked
      <4>3. \A i, j \in ModIds : i # j => Linked(i)' \cap Linked(j)' = {}
        BY <2>7, <3>3 DEF PoolInv, SlotsLinked
      <4> QED
        BY <4>1, <4>2, <4>3 DEF SlotsLinked
    <3>6. \A i \in ModIds \ {h} : Head(q) \notin Linked(i)
      BY <2>5, <2>8 DEF PoolInv, SlotsLinked
    <3>7. InLists' = InLists \ {Head(q)} /\ Head(q) \in InLists
      BY <2>5, <2>7, <2>8, <3>3, <3>6 DEF InLists
    <3>8. SlotsTaken'
      BY <1>1, <1>4, <2>1, <2>3, <2>8, <3>7 DEF PoolInv, SlotsTaken, Holding, Idle
    <3>9. NothingMissing'
      <4> SUFFICES ASSUME NEW i \in ModIds
                   PROVE  served'[i] \o InHand(i)' \o Queued(i)' = accepted'[i]
        BY DEF NothingMissing
      <4>1. CASE i = h
        <5>1. InHand(h) = <<>> /\ InHand(h)' = <<os_msg[Head(q)]>>
          BY <1>1, <1>4, <2>1, <2>3, <3>4 DEF InHand
        <5>2. Queued(h)' = Tokens(os_msg, Tail(q))
          BY <1>1, <2>4 DEF Queued, Tokens
        <5>3. /\ os_msg[Head(q)] \in Nat /\ Tokens(os_msg, Tail(q)) \in Seq(Nat)
              /\ Queued(h) = <<os_msg[Head(q)]>> \o Tokens(os_msg, Tail(q))
          BY <2>2, <3>1, UnlinkTokens DEF PoolInv, PoolTypes
        <5> DEFINE a == served[h]
                   b == <<os_msg[Head(q)]>>
                   c == Tokens(os_msg, Tail(q))
        <5>4. a \in Seq(Nat) /\ b \in Seq(Nat) /\ c \in Seq(Nat)
          BY <2>8, <5>3, HandOf, Joining DEF PoolInv
        <5>5. a \o <<>> \o Queued(h) = accepted[h]
          BY <2>8, <5>1 DEF PoolInv, NothingMissing
        <5>6. a \o Queued(h) = accepted[h] /\ Queued(h) = b \o c
          BY <5>3, <5>4, <5>5, Joining
        <5> HIDE DEF a, b, c
        <5>7. (a \o b) \o c = accepted[h]
          <6>1. (a \o b) \o c = a \o (b \o c)
            BY <5>4, Joining
          <6> QED
            BY <5>6, <6>1
        <5> QED
          BY <1>1, <4>1, <5>1, <5>2, <5>7 DEF a, b, c
      <4>2. CASE i # h
        <5>1. InHand(i)' = InHand(i)
          BY <1>4, <2>1, <2>3, <4>2 DEF InHand
        <5> QED
          BY <1>1, <2>7, <4>2, <5>1 DEF PoolInv, NothingMissing
      <4> QED
        BY <4>1, <4>2
    <3> QED
      BY <1>2, <1>3, <3>5, <3>8, <3>9 DEF PoolInv
  <2>9. CASE h \notin ModIds
    <3>1. Head(q) \notin Slots
      BY <2>5, <2>9 DEF PoolInv, SlotsLinked
    <3>2. Linked(h)' \subseteq Linked(h)
      <4>1. Len(q) \in Nat \ {0} /\ Len(Tail(q)) = Len(q) - 1 /\ \A k \in 1 .. Len(Tail(q)) : Tail(q)[k] = q[k + 1]
        BY <2>2, TailIndex
      <4>2. \A k \in 1 .. Len(Tail(q)) : Tail(q)[k] \in Linked(h)
        BY <4>1 DEF Linked
      <4> QED
        BY <2>4, <4>2 DEF Linked
    <3>3. \A i \in ModIds : Linked(i)' = Linked(i) /\ Queued(i)' = Queued(i) /\ queue'[i] = queue[i]
      BY <2>7, <2>9
    <3>4. SlotsLinked'
      BY <2>6, <3>2, <3>3 DEF PoolInv, SlotsLinked
    <3>5. InLists' = InLists
      BY <3>3 DEF InLists
    <3>6. SlotsTaken'
      BY <1>1, <1>4, <2>3, <3>1, <3>5 DEF PoolInv, SlotsTaken, Holding, Idle
    <3>7. \A i \in ModIds : InHand(i)' = InHand(i)
      BY <1>4, <2>3, <3>1 DEF InHand
    <3>8. NothingMissing'
      BY <1>1, <3>3, <3>7 DEF PoolInv, NothingMissing
    <3> QED
      BY <1>2, <1>3, <3>4, <3>6, <3>8 DEF PoolInv
  <2> QED
    BY <2>8, <2>9
<1> QED
  BY <1>5, <1>6

(* The handler gets the message, or nobody does: for a slot both count as served. *)
LEMMA DispatchStep ==
  ASSUME PoolInv, Dispatch
  PROVE  PoolInv'
<1>1. /\ LoopDispatch /\ UNCHANGED <<used, os_msg, snd, sends, accepted>>
      /\ served' = IF msg \in Slots THEN [served EXCEPT ![msgid] = Append(@, os_msg[msg])] ELSE served
  BY DEF Dispatch
<1>2. pc = "got" /\ pc' \in {"run", "test"} /\ UNCHANGED <<queue, msgid, msg>> /\ snd = Idle
  BY <1>1 DEF LoopDispatch, PoolInv, SlotsTaken
<1>3. KMsgTypeOK' /\ NoStaleMessage' /\ SlotsLinked' /\ InLists' = InLists
  BY <1>1, <1>2, LoopKeeps, ListsKeep DEF Next, LoopStep
<1>4. SlotsTaken'
  BY <1>1, <1>2, <1>3 DEF PoolInv, SlotsTaken, Holding, Idle
<1>5. \A i \in ModIds : Queued(i)' = Queued(i) /\ InHand(i)' = <<>>
  BY <1>1, <1>2, ListsKeep DEF InHand
<1>6. CASE msg \in Slots
  <2>1. PICK h \in ModIds : h = msgid
    BY <1>2, <1>6 DEF PoolInv, SlotsTaken
  <2>2. h \in Ids /\ os_msg[msg] \in Nat /\ served[h] \in Seq(Nat)
    BY <1>6, PoolFacts DEF PoolInv, PoolTypes
  <2>3. served' = [served EXCEPT ![h] = Append(served[h], os_msg[msg])]
    BY <1>1, <1>6, <2>1
  <2>4. served' \in [Ids -> Seq(Nat)]
    BY <2>2, <2>3, AppendProperties DEF PoolInv, PoolTypes
  <2>5. served'[h] = Append(served[h], os_msg[msg]) /\ \A i \in ModIds \ {h} : served'[i] = served[i]
    BY <2>2, <2>3, PoolFacts DEF PoolInv, PoolTypes
  <2>6. InHand(h) = <<os_msg[msg]>> /\ \A i \in ModIds \ {h} : InHand(i) = <<>>
    BY <1>2, <1>6, <2>1 DEF InHand
  <2>7. served[h] \o <<os_msg[msg]>> \o Queued(h) = accepted[h]
    BY <2>6 DEF PoolInv, NothingMissing
  <2>8. (Append(served[h], os_msg[msg]) \o <<>>) = served[h] \o <<os_msg[msg]>>
    <3>1. Append(served[h], os_msg[msg]) \in Seq(Nat)
      BY <2>2, AppendProperties
    <3> QED
      BY <2>2, <3>1, Joining
  <2>9. NothingMissing'
    <3> SUFFICES ASSUME NEW i \in ModIds
                 PROVE  served'[i] \o InHand(i)' \o Queued(i)' = accepted'[i]
      BY DEF NothingMissing
    <3>1. CASE i = h
      BY <1>1, <1>5, <2>5, <2>7, <2>8, <3>1
    <3>2. CASE i # h
      BY <1>1, <1>5, <2>5, <2>6, <3>2 DEF PoolInv, NothingMissing
    <3> QED
      BY <3>1, <3>2
  <2> QED
    BY <1>1, <1>3, <1>4, <2>4, <2>9 DEF PoolInv, PoolTypes
<1>7. CASE msg \notin Slots
  <2>1. \A i \in ModIds : InHand(i) = <<>>
    BY <1>7 DEF InHand
  <2>2. NothingMissing'
    BY <1>1, <1>5, <1>7, <2>1 DEF PoolInv, NothingMissing
  <2> QED
    BY <1>1, <1>3, <1>4, <1>7, <2>2 DEF PoolInv, PoolTypes
<1> QED
  BY <1>6, <1>7

(* The slot the loop held is free, and in no list. *)
LEMMA ReturnStep ==
  ASSUME PoolInv, Return
  PROVE  PoolInv'
<1>1. /\ HandlerReturn /\ UNCHANGED <<os_msg, snd, sends, accepted, served>> /\ snd = Idle
      /\ used' = IF msg \in Slots THEN [used EXCEPT ![msg] = FALSE] ELSE used
  BY DEF Return
<1>2. pc = "run" /\ pc' = "test" /\ UNCHANGED <<queue, msgid, msg>>
  BY <1>1 DEF HandlerReturn
<1>3. KMsgTypeOK' /\ NoStaleMessage' /\ SlotsLinked' /\ InLists' = InLists
  BY <1>1, <1>2, LoopKeeps, ListsKeep DEF Next, LoopStep
<1>4. PoolTypes'
  BY <1>1 DEF PoolInv, PoolTypes
<1>5. \A s \in InLists : used'[s]
  <2>1. InLists \subseteq Slots
    BY DEF PoolInv, SlotsLinked, InLists
  <2>2. msg \in Slots => msg \notin InLists
    BY <1>2 DEF PoolInv, SlotsTaken, Holding
  <2> QED
    BY <1>1, <2>1, <2>2 DEF PoolInv, SlotsTaken, PoolTypes
<1>6. SlotsTaken'
  BY <1>1, <1>2, <1>3, <1>5 DEF SlotsTaken, Holding, Idle
<1>7. \A i \in ModIds : InHand(i)' = InHand(i) /\ Queued(i)' = Queued(i)
  BY <1>1, <1>2, ListsKeep DEF InHand
<1>8. NothingMissing'
  BY <1>1, <1>7 DEF PoolInv, NothingMissing
<1> QED
  BY <1>3, <1>4, <1>6, <1>8 DEF PoolInv

(* A send of main finds a slot, or none. *)
LEMMA SendScanStep ==
  ASSUME PoolInv, NEW id \in ModIds, SendScan(id)
  PROVE  PoolInv'
<1>1. /\ UNCHANGED <<queue, hdl, pc, msgid, msg>> /\ UNCHANGED <<used, os_msg, accepted, served>>
      /\ sends' = sends + 1 /\ pc \in {"app", "run"}
  BY DEF SendScan, kmsgVars, MainCode
<1>2. KMsgTypeOK' /\ NoStaleMessage'
  BY <1>1 DEF PoolInv, KMsgTypeOK, NoStaleMessage
<1>3. \/ snd' = snd
      \/ \E s \in Slots : ~used[s] /\ snd' = [pc |-> "found", slot |-> s, id |-> id, token |-> sends']
  BY DEF SendScan, FirstFree
<1>4. SlotsLinked' /\ InLists' = InLists /\ \A i \in ModIds : Queued(i)' = Queued(i)
  BY <1>1, ListsKeep
<1>5. PoolTypes'
  BY <1>1, <1>3 DEF PoolInv, PoolTypes
<1>6. SlotsTaken'
  BY <1>1, <1>3, <1>4 DEF PoolInv, SlotsTaken, Holding
<1>7. \A i \in ModIds : InHand(i)' = InHand(i)
  BY <1>1 DEF InHand
<1>8. NothingMissing'
  BY <1>1, <1>4, <1>7 DEF PoolInv, NothingMissing
<1> QED
  BY <1>2, <1>4, <1>5, <1>6, <1>8 DEF PoolInv

(* Main marks its slot, which no list has and which is not in hand. *)
LEMMA SendTakeStep ==
  ASSUME PoolInv, SendTake
  PROVE  PoolInv'
<1>1. /\ UNCHANGED <<queue, hdl, pc, msgid, msg>> /\ UNCHANGED <<os_msg, sends, accepted, served>>
      /\ snd.pc = "found" /\ used' = [used EXCEPT ![snd.slot] = TRUE]
      /\ snd' = [snd EXCEPT !.pc = "taken"]
  BY DEF SendTake, kmsgVars
<1>2. snd \in [pc : {"found", "taken", "copied"}, slot : Slots, id : ModIds, token : Nat] /\ snd # Idle
  BY <1>1 DEF PoolInv, PoolTypes, Idle
<1>3. PICK s \in Slots : s = snd.slot
  BY <1>2
<1>4. snd'.pc = "taken" /\ snd'.slot = s
  BY <1>1, <1>2, <1>3
<1>5. pc \in {"app", "run"} /\ ~used[s] /\ s \notin InLists
  BY <1>1, <1>2, <1>3 DEF PoolInv, SlotsTaken
<1>6. KMsgTypeOK' /\ NoStaleMessage'
  BY <1>1 DEF PoolInv, KMsgTypeOK, NoStaleMessage
<1>7. SlotsLinked' /\ InLists' = InLists /\ \A i \in ModIds : Queued(i)' = Queued(i)
  BY <1>1, ListsKeep
<1>8. PoolTypes'
  BY <1>1, <1>2 DEF PoolInv, PoolTypes
<1>9. SlotsTaken'
  <2>1. used'[s] /\ \A t \in Slots : used[t] => used'[t]
    BY <1>1, <1>3 DEF PoolInv, PoolTypes
  <2>2. InLists \subseteq Slots
    BY DEF PoolInv, SlotsLinked, InLists
  <2>3. \A t \in InLists' : used'[t]
    BY <1>7, <2>1, <2>2 DEF PoolInv, SlotsTaken
  <2>4. Holding' => used'[msg] /\ msg \notin InLists' /\ msg # s
    BY <1>1, <1>5, <1>7, <2>1 DEF PoolInv, SlotsTaken, Holding
  <2> QED
    BY <1>1, <1>4, <1>5, <1>7, <2>1, <2>3, <2>4 DEF SlotsTaken
<1>10. \A i \in ModIds : InHand(i)' = InHand(i)
  BY <1>1 DEF InHand
<1>11. NothingMissing'
  BY <1>1, <1>7, <1>10 DEF PoolInv, NothingMissing
<1> QED
  BY <1>6, <1>7, <1>8, <1>9, <1>11 DEF PoolInv

(* Main copies its message: what the lists hold stays. *)
LEMMA SendCopyStep ==
  ASSUME PoolInv, SendCopy
  PROVE  PoolInv'
<1>1. /\ UNCHANGED <<queue, hdl, pc, msgid, msg>> /\ UNCHANGED <<used, sends, accepted, served>>
      /\ snd.pc = "taken" /\ os_msg' = [os_msg EXCEPT ![snd.slot] = snd.token]
      /\ snd' = [snd EXCEPT !.pc = "copied"]
  BY DEF SendCopy, kmsgVars
<1>2. snd \in [pc : {"found", "taken", "copied"}, slot : Slots, id : ModIds, token : Nat] /\ snd # Idle
  BY <1>1 DEF PoolInv, PoolTypes, Idle
<1>3. PICK s \in Slots : s = snd.slot
  BY <1>2
<1>4. snd'.pc = "copied" /\ snd'.slot = s /\ snd'.token = snd.token
  BY <1>1, <1>2, <1>3
<1>5. pc \in {"app", "run"} /\ used[s] /\ s \notin InLists /\ (Holding => msg # s)
  BY <1>1, <1>2, <1>3 DEF PoolInv, SlotsTaken
<1>6. KMsgTypeOK' /\ NoStaleMessage'
  BY <1>1 DEF PoolInv, KMsgTypeOK, NoStaleMessage
<1>7. SlotsLinked' /\ InLists' = InLists
  <2>1. queue' = queue /\ \A i \in Ids : Linked(i)' = Linked(i)
    BY <1>1 DEF Linked
  <2> QED
    BY <2>1, PoolFacts DEF PoolInv, SlotsLinked, InLists
<1>8. PoolTypes'
  BY <1>1, <1>2 DEF PoolInv, PoolTypes
<1>9. os_msg'[s] = snd.token /\ \A t \in Slots \ {s} : os_msg'[t] = os_msg[t]
  BY <1>1, <1>3 DEF PoolInv, PoolTypes
<1>10. SlotsTaken'
  BY <1>1, <1>4, <1>5, <1>7, <1>9 DEF PoolInv, SlotsTaken, Holding
<1>11. \A i \in ModIds : InHand(i) = <<>> /\ InHand(i)' = <<>>
  BY <1>1, <1>5 DEF InHand
<1>12. \A i \in ModIds : Queued(i)' = Queued(i)
  <2> SUFFICES ASSUME NEW i \in ModIds PROVE Queued(i)' = Queued(i)
    OBVIOUS
  <2>1. InLists \subseteq Slots
    BY DEF PoolInv, SlotsLinked, InLists
  <2>2. \A k \in 1 .. Len(queue[i]) : queue[i][k] \in InLists
    BY DEF InLists, Linked
  <2>3. \A k \in 1 .. Len(queue[i]) : os_msg'[queue[i][k]] = os_msg[queue[i][k]]
    BY <1>5, <1>9, <2>1, <2>2
  <2> QED
    BY <1>1, <2>3 DEF Queued
<1>13. NothingMissing'
  BY <1>1, <1>11, <1>12 DEF PoolInv, NothingMissing
<1> QED
  BY <1>6, <1>7, <1>8, <1>10, <1>13 DEF PoolInv

(* Main posts its slot. *)
LEMMA SendPostStep ==
  ASSUME PoolInv, SendPost
  PROVE  PoolInv'
<1>1. /\ snd.pc = "copied" /\ k_msg_post(snd.id, snd.slot) /\ snd' = Idle
      /\ accepted' = [accepted EXCEPT ![snd.id] = Append(@, snd.token)]
      /\ UNCHANGED <<hdl, pc, msgid, msg, used, os_msg, sends, served>>
  BY DEF SendPost, loopVars
<1>2. snd \in [pc : {"found", "taken", "copied"}, slot : Slots, id : ModIds, token : Nat] /\ snd # Idle
  BY <1>1 DEF PoolInv, PoolTypes, Idle
<1>3. PICK h \in ModIds, s \in Slots, token \in Nat : h = snd.id /\ s = snd.slot /\ token = snd.token
  BY <1>2
<1>4. /\ used[s] /\ s \notin InLists /\ (Holding => msg # s) /\ os_msg[s] = token
      /\ pc \in {"app", "run"}
  BY <1>1, <1>2, <1>3 DEF PoolInv, SlotsTaken
<1>5. os_msg' = [os_msg EXCEPT ![s] = token] /\ k_msg_post(h, s)
  BY <1>1, <1>3, <1>4 DEF PoolInv, PoolTypes, k_msg_post, check_msg_existed
<1>6. /\ queue' \in [Ids -> Seq(Msgs)]
      /\ \A i \in Ids : queue[i] # <<>> => queue'[i] # <<>>
      /\ SlotsLinked' /\ InLists' = InLists \cup {s}
      /\ Queued(h)' = Queued(h) \o <<token>>
      /\ \A i \in ModIds \ {h} : Queued(i)' = Queued(i)
  <2>1. KMsgTypeOK /\ PoolTypes /\ SlotsLinked
    BY DEF PoolInv
  <2> QED
    BY <1>4, <1>5, <2>1, PostSlot
<1>7. KMsgTypeOK' /\ NoStaleMessage'
  BY <1>1, <1>4, <1>6 DEF PoolInv, KMsgTypeOK, NoStaleMessage
<1>8. \A i \in ModIds : InHand(i)' = InHand(i)
  BY <1>1 DEF InHand
<1>9. NothingMissing' /\ accepted' \in [Ids -> Seq(Nat)]
  BY <1>1, <1>3, <1>6, <1>8, PostLossless DEF PoolInv
<1>10. PoolTypes'
  BY <1>1, <1>9 DEF PoolInv, PoolTypes
<1>11. SlotsTaken'
  BY <1>1, <1>4, <1>6 DEF PoolInv, SlotsTaken, Holding, Idle
<1> QED
  BY <1>6, <1>7, <1>9, <1>10, <1>11 DEF PoolInv

(* A send of an interrupt, not between the test and the mark of main. *)
LEMMA IsrSendStep ==
  ASSUME PoolInv, NEW h \in ModIds, IsrSend(h), snd.pc # "found"
  PROVE  PoolInv'
<1>1. CASE ~\E s \in Slots : ~used[s]
  <2>1. /\ UNCHANGED <<queue, hdl, pc, msgid, msg, used, os_msg, snd, accepted, served>>
        /\ sends' = sends + 1
    BY <1>1 DEF IsrSend, loopVars
  <2>2. KMsgTypeOK' /\ NoStaleMessage' /\ PoolTypes'
    BY <2>1 DEF PoolInv, KMsgTypeOK, NoStaleMessage, PoolTypes
  <2>3. SlotsLinked' /\ InLists' = InLists /\ \A i \in ModIds : Queued(i)' = Queued(i)
    BY <2>1, ListsKeep
  <2>4. SlotsTaken'
    BY <2>1, <2>3 DEF PoolInv, SlotsTaken, Holding
  <2>5. \A i \in ModIds : InHand(i)' = InHand(i)
    BY <2>1 DEF InHand
  <2> QED
    BY <2>1, <2>2, <2>3, <2>4, <2>5 DEF PoolInv, NothingMissing
<1>2. CASE \E s \in Slots : ~used[s]
  <2>1. PICK s \in Slots : /\ ~used[s] /\ used' = [used EXCEPT ![s] = TRUE]
                           /\ os_msg' = [os_msg EXCEPT ![s] = sends']
                           /\ k_msg_post(h, s)
                           /\ accepted' = [accepted EXCEPT ![h] = Append(@, sends')]
    BY <1>2 DEF IsrSend, FirstFree
  <2>2. sends' = sends + 1 /\ UNCHANGED <<hdl, pc, msgid, msg, snd, served>>
    BY DEF IsrSend, loopVars
  <2>3. PICK token \in Nat : token = sends'
    BY <2>2 DEF PoolInv, PoolTypes
  <2>4. s \notin InLists /\ (Holding => msg # s)
    BY <2>1 DEF PoolInv, SlotsTaken
  <2>5. /\ queue' \in [Ids -> Seq(Msgs)]
        /\ \A i \in Ids : queue[i] # <<>> => queue'[i] # <<>>
        /\ SlotsLinked' /\ InLists' = InLists \cup {s}
        /\ Queued(h)' = Queued(h) \o <<token>>
        /\ \A i \in ModIds \ {h} : Queued(i)' = Queued(i)
    BY <2>1, <2>3, <2>4, PostSlot DEF PoolInv
  <2>6. KMsgTypeOK' /\ NoStaleMessage'
    BY <2>2, <2>5 DEF PoolInv, KMsgTypeOK, NoStaleMessage
  <2>7. /\ used'[s] /\ \A t \in Slots \ {s} : used'[t] = used[t] /\ os_msg'[t] = os_msg[t]
    BY <2>1 DEF PoolInv, PoolTypes
  <2>8. \A i \in ModIds : InHand(i)' = InHand(i)
    <3>1. pc = "got" /\ msg \in Slots => os_msg'[msg] = os_msg[msg]
      BY <2>4, <2>7 DEF Holding
    <3> QED
      BY <2>2, <3>1 DEF InHand
  <2>9. NothingMissing' /\ accepted' \in [Ids -> Seq(Nat)]
    BY <2>1, <2>2, <2>3, <2>5, <2>8, PostLossless DEF PoolInv
  <2>10. PoolTypes'
    BY <2>1, <2>2, <2>3, <2>9 DEF PoolInv, PoolTypes
  <2>11. SlotsTaken'
    <3>1. InLists \subseteq Slots
      BY DEF PoolInv, SlotsLinked, InLists
    <3>2. \A t \in InLists' : used'[t]
      BY <2>5, <2>7, <3>1 DEF PoolInv, SlotsTaken
    <3>3. Holding' => Holding /\ used'[msg] /\ msg \notin InLists'
      BY <2>2, <2>4, <2>5, <2>7 DEF PoolInv, SlotsTaken, Holding
    <3>4. snd.pc \in {"taken", "copied"} =>
            snd.slot \in Slots \ {s} /\ used'[snd.slot] /\ snd.slot \notin InLists'
      <4>1. snd.pc \in {"taken", "copied"} => snd.slot \in Slots
        BY DEF PoolInv, PoolTypes, Idle
      <4> QED
        BY <2>1, <2>5, <2>7, <4>1 DEF PoolInv, SlotsTaken
    <3>5. snd.pc = "copied" => os_msg'[snd.slot] = snd.token
      BY <2>7, <3>4 DEF PoolInv, SlotsTaken
    <3>6. Holding' = Holding
      BY <2>2 DEF Holding
    <3> QED
      BY <2>2, <3>2, <3>3, <3>4, <3>5, <3>6 DEF PoolInv, SlotsTaken
  <2> QED
    BY <2>5, <2>6, <2>9, <2>10, <2>11 DEF PoolInv
<1> QED
  BY <1>1, <1>2

(* A timer, the CI frame or another object that is no slot is posted. *)
LEMMA OwnedStep ==
  ASSUME PoolInv, NEW m \in DOMAIN Home, PostOwned(m), UNCHANGED poolVars
  PROVE  PoolInv'
<1>1. /\ UNCHANGED <<used, os_msg, snd, sends, accepted, served>>
      /\ UNCHANGED <<hdl, pc, msgid, msg>> /\ k_msg_post(Home[m], m)
  BY DEF PostOwned, poolVars, loopVars
<1>2. KMsgTypeOK' /\ NoStaleMessage'
  BY LoopKeeps DEF Next
<1>3. PICK h \in Ids \ ModIds : h = Home[m]
  BY PoolFacts
<1>4. m \in Msgs \ Slots /\ queue[h] \in Seq(Msgs)
  BY PoolFacts DEF PoolInv, KMsgTypeOK
<1>5. \/ queue' = queue
      \/ queue' = [queue EXCEPT ![h] = Append(queue[h], m)]
  BY <1>1, <1>3 DEF k_msg_post
<1>6. \A i \in Ids \ {h} : queue'[i] = queue[i]
  BY <1>5 DEF PoolInv, KMsgTypeOK
<1>7. Linked(h)' \subseteq Linked(h) \cup {m}
  <2>1. CASE queue' = queue
    BY <2>1 DEF Linked
  <2>2. CASE queue' = [queue EXCEPT ![h] = Append(queue[h], m)]
    <3>1. queue'[h] = Append(queue[h], m)
      BY <1>3, <2>2 DEF PoolInv, KMsgTypeOK
    <3>2. /\ Len(queue[h]) \in Nat /\ Len(queue'[h]) = Len(queue[h]) + 1
          /\ \A k \in 1 .. Len(queue[h]) : queue'[h][k] = queue[h][k]
          /\ queue'[h][Len(queue[h]) + 1] = m
      BY <1>4, <3>1, AppendIndex
    <3>3. \A k \in 1 .. Len(queue'[h]) : k \in 1 .. Len(queue[h]) \/ k = Len(queue[h]) + 1
      BY <3>2
    <3>4. \A k \in 1 .. Len(queue'[h]) : queue'[h][k] \in Linked(h) \cup {m}
      BY <3>2, <3>3 DEF Linked
    <3> QED
      BY <3>4 DEF Linked
  <2> QED
    BY <1>5, <2>1, <2>2
<1>8. \A i \in ModIds : Linked(i)' = Linked(i) /\ Queued(i)' = Queued(i) /\ queue'[i] = queue[i]
  BY <1>1, <1>3, <1>6, PoolFacts DEF Linked, Queued
<1>9. \A i \in Ids \ {h} : Linked(i)' = Linked(i)
  BY <1>6 DEF Linked
<1>10. SlotsLinked' /\ InLists' = InLists
  <2>1. \A i \in Ids \ ModIds : Linked(i)' \cap Slots = {}
    BY <1>3, <1>4, <1>7, <1>9 DEF PoolInv, SlotsLinked
  <2> QED
    BY <1>8, <2>1 DEF PoolInv, SlotsLinked, InLists
<1>11. PoolTypes'
  BY <1>1 DEF PoolInv, PoolTypes
<1>12. SlotsTaken'
  BY <1>1, <1>10 DEF PoolInv, SlotsTaken, Holding
<1>13. \A i \in ModIds : InHand(i)' = InHand(i)
  BY <1>1 DEF InHand
<1>14. NothingMissing'
  BY <1>1, <1>8, <1>13 DEF PoolInv, NothingMissing
<1> QED
  BY <1>2, <1>10, <1>11, <1>12, <1>14 DEF PoolInv

(* The one step that may break it sets hit. *)
LEMMA PoolInvStep == PoolInv /\ [PoolNext]_vars => hit' \/ PoolInv'
<1> SUFFICES ASSUME PoolInv, [PoolNext]_vars, ~hit' PROVE PoolInv'
  OBVIOUS
<1>1. CASE MainLoop
  BY <1>1, BetweenStep, PopStep, DispatchStep, ReturnStep DEF MainLoop
<1>2. CASE SendTake \/ SendCopy \/ SendPost
  BY <1>2, SendTakeStep, SendCopyStep, SendPostStep
<1>3. CASE \E id \in ModIds : SendScan(id) \/ IsrSend(id)
  <2>1. ASSUME NEW id \in ModIds, SendScan(id) PROVE PoolInv'
    BY <2>1, SendScanStep
  <2>2. ASSUME NEW id \in ModIds, IsrSend(id) PROVE PoolInv'
    <3>1. CASE snd.pc = "found"
      <4>1. snd \in [pc : {"found", "taken", "copied"}, slot : Slots, id : ModIds, token : Nat]
        BY <3>1 DEF PoolInv, PoolTypes, Idle
      <4>2. \E s \in Slots : ~used[s]
        BY <3>1, <4>1 DEF PoolInv, SlotsTaken
      <4> QED
        BY <2>2, <3>1, <4>2 DEF IsrSend
    <3>2. CASE snd.pc # "found"
      BY <2>2, <3>2, IsrSendStep
    <3> QED
      BY <3>1, <3>2
  <2> QED
    BY <1>3, <2>1, <2>2
<1>4. CASE \E id \in Ids : snd = Idle /\ k_msg_reg_hdl(id) /\ UNCHANGED poolVars
  BY <1>4, BetweenStep
<1>5. CASE \E m \in DOMAIN Home : PostOwned(m) /\ UNCHANGED poolVars
  BY <1>5, OwnedStep
<1>6. CASE UNCHANGED vars
  <2>1. UNCHANGED <<queue, hdl, pc, msgid, msg, used, os_msg, snd, sends, accepted, served>>
    BY <1>6 DEF vars, kmsgVars, poolVars
  <2>2. KMsgTypeOK' /\ NoStaleMessage' /\ PoolTypes'
    BY <2>1 DEF PoolInv, KMsgTypeOK, NoStaleMessage, PoolTypes
  <2>3. SlotsLinked' /\ InLists' = InLists /\ \A i \in ModIds : Queued(i)' = Queued(i)
    BY <2>1, ListsKeep
  <2>4. SlotsTaken'
    BY <2>1, <2>3 DEF PoolInv, SlotsTaken, Holding
  <2>5. \A i \in ModIds : InHand(i)' = InHand(i)
    BY <2>1 DEF InHand
  <2> QED
    BY <2>1, <2>2, <2>3, <2>4, <2>5 DEF PoolInv, NothingMissing
<1> QED
  BY <1>1, <1>2, <1>3, <1>4, <1>5, <1>6 DEF PoolNext

(* hit is never taken back. *)
LEMMA HitStays == hit /\ [PoolNext]_vars => hit'
BY DEF PoolNext, MainLoop, Enter, Pop, Dispatch, Return, Test, SendScan, SendTake, SendCopy,
       SendPost, IsrSend, vars, poolVars

(* What a caller was told is sent is neither lost, overwritten, repeated nor
   reordered: what a module's handler got, followed by what is in the loop's
   hand and in its list, is what osal_task_send_msg accepted, wherever
   interrupts send, up to the first that takes the slot main has found and
   not yet marked. *)
THEOREM NothingLost == PoolSpec => []Lossless
<1>1. MsgPoolInit => hit \/ PoolInv
  BY PoolInvInit
<1>2. (hit \/ PoolInv) /\ [PoolNext]_vars => (hit \/ PoolInv)'
  BY PoolInvStep, HitStays
<1>3. hit \/ PoolInv => Lossless
  BY DEF PoolInv, Lossless
<1> QED
  BY <1>1, <1>2, <1>3, PTL DEF PoolSpec
=============================================================================
