------------------------- MODULE Detection_proofs --------------------------
(***************************************************************************)
(* The two components that change the detection: the radar manager sets    *)
(* it, the light pauses it.  They share no state, and no name.             *)
(***************************************************************************)
EXTENDS RadarMgr, LightCtrl, SequenceTheorems, TLAPS

-----------------------------------------------------------------------------
(***************************************************************************)
(* The cached settings agree with what is under way to the detection, for  *)
(* every number of tasks, parameters, values and every length of the       *)
(* queues: CacheIsTrue.                                                    *)
(*                                                                         *)
(* The messages of a change are partly in the queue and partly still with  *)
(* the setter that holds the mutex.  CacheInv states it of the two parts,  *)
(* so that sending moves a message from the head of one to the end of the  *)
(* other; Owner says that no other setter is sending meanwhile.            *)
(***************************************************************************)

Msgs == ParaMsgs \cup {Data}

\* The last message in q for f carries v; there is none.
Carries(q, f, v) ==
  \E i \in DOMAIN q :
    /\ IsFor(q[i], f) /\ q[i].v = v
    /\ \A j \in DOMAIN q : j > i => ~IsFor(q[j], f)
NoneFor(q, f) == \A i \in DOMAIN q : ~IsFor(q[i], f)

Owner == mode = "normal" => \A t \in Tasks : call[t].pc = "send" <=> mutex = t

CacheInv ==
  mode = "normal" =>
    \A f \in Fields :
      \/ Carries(Todo, f, val[f])
      \/ /\ NoneFor(Todo, f)
         /\ \/ Carries(radq, f, val[f])
            \/ NoneFor(radq, f) /\ param[f] = val[f]

RInv == RadarTypeOK /\ Owner /\ CacheInv

-----------------------------------------------------------------------------
(* Sequences of messages.                                                  *)

LEMMA AppendCarries ==
  ASSUME NEW q \in Seq(Msgs), NEW m \in Msgs, NEW f, NEW v
  PROVE  /\ NoneFor(Append(q, m), f) <=> NoneFor(q, f) /\ ~IsFor(m, f)
         /\ IsFor(m, f) /\ m.v = v => Carries(Append(q, m), f, v)
         /\ ~IsFor(m, f) /\ Carries(q, f, v) => Carries(Append(q, m), f, v)
<1> DEFINE a == Append(q, m)
<1>1. Len(a) = Len(q) + 1 /\ Len(q) \in Nat /\ DOMAIN q = 1 .. Len(q) /\ DOMAIN a = 1 .. Len(q) + 1
  OBVIOUS
<1>2. a[Len(q) + 1] = m /\ \A i \in 1 .. Len(q) : a[i] = q[i]
  OBVIOUS
<1> HIDE DEF a
<1>3. NoneFor(a, f) <=> NoneFor(q, f) /\ ~IsFor(m, f)
  BY <1>1, <1>2 DEF NoneFor
<1>4. IsFor(m, f) /\ m.v = v => Carries(a, f, v)
  BY <1>1, <1>2 DEF Carries
<1>5. ~IsFor(m, f) /\ Carries(q, f, v) => Carries(a, f, v)
  BY <1>1, <1>2 DEF Carries
<1> QED
  BY <1>3, <1>4, <1>5 DEF a

LEMMA TailCarries ==
  ASSUME NEW q \in Seq(Msgs), q # <<>>, NEW f, NEW v
  PROVE  /\ NoneFor(q, f) <=> NoneFor(Tail(q), f) /\ ~IsFor(Head(q), f)
         /\ Carries(q, f, v) =>
              \/ Carries(Tail(q), f, v)
              \/ NoneFor(Tail(q), f) /\ IsFor(Head(q), f) /\ Head(q).v = v
<1> DEFINE r == Tail(q)
<1>1. Len(q) \in Nat \ {0} /\ DOMAIN q = 1 .. Len(q) /\ DOMAIN r = 1 .. Len(q) - 1 /\ Head(q) = q[1]
  OBVIOUS
<1>2. \A i \in 1 .. Len(q) - 1 : r[i] = q[i + 1]
  OBVIOUS
<1> HIDE DEF r
<1>3. \A i \in 2 .. Len(q) : i - 1 \in DOMAIN r /\ r[i - 1] = q[i]
  BY <1>1, <1>2
<1>4. NoneFor(q, f) <=> NoneFor(r, f) /\ ~IsFor(q[1], f)
  <2>1. ASSUME NoneFor(q, f) PROVE NoneFor(r, f) /\ ~IsFor(q[1], f)
    <3>1. ~IsFor(q[1], f)
      BY <1>1, <2>1 DEF NoneFor
    <3>2. ASSUME NEW i \in DOMAIN r PROVE ~IsFor(r[i], f)
      <4>1. i + 1 \in DOMAIN q /\ r[i] = q[i + 1]
        BY <1>1, <1>2
      <4> QED
        BY <2>1, <4>1 DEF NoneFor
    <3> QED
      BY <3>1, <3>2 DEF NoneFor
  <2>2. ASSUME NoneFor(r, f), ~IsFor(q[1], f) PROVE NoneFor(q, f)
    <3> SUFFICES ASSUME NEW i \in DOMAIN q PROVE ~IsFor(q[i], f)
      BY DEF NoneFor
    <3>1. CASE i = 1
      BY <2>2, <3>1
    <3>2. CASE i # 1
      <4>1. i - 1 \in DOMAIN r /\ r[i - 1] = q[i]
        BY <1>1, <1>3, <3>2
      <4> QED
        BY <2>2, <4>1 DEF NoneFor
    <3> QED
      BY <3>1, <3>2
  <2> QED
    BY <2>1, <2>2
<1>5. ASSUME Carries(q, f, v)
      PROVE  Carries(r, f, v) \/ (NoneFor(r, f) /\ IsFor(q[1], f) /\ q[1].v = v)
  <2>1. PICK i \in DOMAIN q : /\ IsFor(q[i], f) /\ q[i].v = v
                              /\ \A j \in DOMAIN q : j > i => ~IsFor(q[j], f)
    BY <1>5 DEF Carries
  <2>2. CASE i = 1
    <3>1. \A j \in DOMAIN r : ~IsFor(r[j], f)
      BY <2>1, <2>2, <1>1, <1>2
    <3> QED
      BY <3>1, <2>1, <2>2 DEF NoneFor
  <2>3. CASE i # 1
    <3>1. i - 1 \in DOMAIN r /\ r[i - 1] = q[i]
      BY <2>3, <1>1, <1>3
    <3>2. \A j \in DOMAIN r : j > i - 1 => ~IsFor(r[j], f)
      BY <2>1, <1>1, <1>2
    <3> QED
      BY <3>1, <3>2, <2>1 DEF Carries
  <2> QED
    BY <2>2, <2>3
<1> QED
  BY <1>1, <1>4, <1>5 DEF r

LEMMA ConcatCarries ==
  ASSUME NEW a \in Seq(Msgs), NEW b \in Seq(Msgs), NEW f, NEW v
  PROVE  /\ Carries(b, f, v) => Carries(a \o b, f, v)
         /\ NoneFor(b, f) /\ Carries(a, f, v) => Carries(a \o b, f, v)
         /\ NoneFor(b, f) /\ NoneFor(a, f) => NoneFor(a \o b, f)
<1> DEFINE c == a \o b
<1>1. /\ Len(a) \in Nat /\ Len(b) \in Nat
      /\ DOMAIN a = 1 .. Len(a) /\ DOMAIN b = 1 .. Len(b) /\ DOMAIN c = 1 .. Len(a) + Len(b)
  OBVIOUS
<1>2. \A i \in 1 .. Len(a) : c[i] = a[i]
  OBVIOUS
<1>3. \A i \in Len(a) + 1 .. Len(a) + Len(b) : c[i] = b[i - Len(a)]
  OBVIOUS
<1> HIDE DEF c
<1>4. \A i \in 1 .. Len(b) : Len(a) + i \in DOMAIN c /\ c[Len(a) + i] = b[i]
  BY <1>1, <1>3
<1>5. \A i \in DOMAIN c : i > Len(a) => i - Len(a) \in DOMAIN b /\ c[i] = b[i - Len(a)]
  BY <1>1, <1>3
<1>6. ASSUME Carries(b, f, v) PROVE Carries(c, f, v)
  <2>1. PICK i \in DOMAIN b : /\ IsFor(b[i], f) /\ b[i].v = v
                              /\ \A j \in DOMAIN b : j > i => ~IsFor(b[j], f)
    BY <1>6 DEF Carries
  <2>2. \A j \in DOMAIN c : j > Len(a) + i => ~IsFor(c[j], f)
    BY <2>1, <1>1, <1>5
  <2> QED
    BY <2>1, <2>2, <1>1, <1>4 DEF Carries
<1>7. ASSUME NoneFor(b, f), Carries(a, f, v) PROVE Carries(c, f, v)
  <2>1. PICK i \in DOMAIN a : /\ IsFor(a[i], f) /\ a[i].v = v
                              /\ \A j \in DOMAIN a : j > i => ~IsFor(a[j], f)
    BY <1>7 DEF Carries
  <2>2. \A j \in DOMAIN c : j > i => ~IsFor(c[j], f)
    BY <2>1, <1>1, <1>2, <1>5, <1>7 DEF NoneFor
  <2> QED
    BY <2>1, <2>2, <1>1, <1>2 DEF Carries
<1>8. NoneFor(b, f) /\ NoneFor(a, f) => NoneFor(c, f)
  BY <1>1, <1>2, <1>5 DEF NoneFor
<1> QED
  BY <1>6, <1>7, <1>8 DEF c

-----------------------------------------------------------------------------
(* The steps.                                                              *)

LockCalls == [pc : {"lock"}, cfg : Levels] \cup [pc : {"lock"}, field : Single, v : Values]
SendCalls == [pc : {"send"}, todo : Seq(ParaMsgs)]

LEMMA CallKinds ==
  ASSUME NEW c \in Calls
  PROVE  /\ c.pc = "send" => c \in SendCalls
         /\ c.pc = "lock" => c \in LockCalls
         /\ c.pc \in {"idle", "lock", "send"}
BY DEF Calls, Idle, LockCalls, SendCalls

LEMMA ParaTyped ==
  ASSUME NEW f \in Fields, NEW v \in Values
  PROVE  /\ Para(f, v) \in ParaMsgs /\ IsFor(Para(f, v), f) /\ Para(f, v).v = v
         /\ \A g : IsFor(Para(f, v), g) => g = f
BY DEF Para, ParaMsgs, IsFor

\* What a setter has to send after its change: the new value of each parameter
\* that changed, once.
LEMMA ChangeSends ==
  ASSUME RadarTypeOK, NEW t \in Tasks, call[t].pc = "lock", Change(t)
  PROVE  /\ cfg' \in Levels \cup {Unset} /\ val' \in [Fields -> Values \cup {Unset}]
         /\ \E todo \in Seq(ParaMsgs) :
              /\ call' = [call EXCEPT ![t] = [pc |-> "send", todo |-> todo]]
              /\ \A f \in Fields : \/ Carries(todo, f, val'[f])
                                   \/ NoneFor(todo, f) /\ val'[f] = val[f]
<1> DEFINE c == call[t]
<1>1. c \in LockCalls
  BY CallKinds DEF RadarTypeOK
<1>2. CASE "cfg" \in DOMAIN c
  <2>1. c \in [pc : {"lock"}, cfg : Levels] /\ ~("field" \in DOMAIN c)
    BY <1>1, <1>2 DEF LockCalls
  <2> DEFINE todo == [i \in DOMAIN FieldOrder |->
                        Para(FieldOrder[i], Paras[c.cfg][FieldOrder[i]])]
  <2>2. cfg' = c.cfg /\ val' = Paras[c.cfg] /\ c.cfg \in Levels
        /\ call' = [call EXCEPT ![t] = [pc |-> "send", todo |-> todo]]
    BY <2>1 DEF Change
  <2>3. val' \in [Fields -> Values]
    BY <2>2, RadarMgrAssumption DEF RadarMgrAssumption
  <2>4. FieldOrder \in Seq(Fields)
    BY RadarMgrAssumption DEF RadarMgrAssumption
  <2>5. \A i \in DOMAIN FieldOrder : todo[i] = Para(FieldOrder[i], val'[FieldOrder[i]])
                                     /\ FieldOrder[i] \in Fields
    BY <2>2, <2>4
  <2>6. todo \in Seq(ParaMsgs) /\ DOMAIN todo = DOMAIN FieldOrder
    <3>1. \A i \in 1 .. Len(FieldOrder) : todo[i] \in ParaMsgs
      BY <2>3, <2>4, <2>5, ParaTyped
    <3>2. DOMAIN FieldOrder = 1 .. Len(FieldOrder) /\ Len(FieldOrder) \in Nat
      BY <2>4
    <3> QED
      BY <3>1, <3>2
  <2> HIDE DEF todo
  <2>7. ASSUME NEW f \in Fields PROVE Carries(todo, f, val'[f])
    <3>1. PICK i \in DOMAIN FieldOrder : FieldOrder[i] = f
      BY DEF Fields, Range
    <3>2. IsFor(todo[i], f) /\ todo[i].v = val'[f]
      BY <3>1, <2>3, <2>5, ParaTyped
    <3>3. \A j \in DOMAIN todo : j > i => ~IsFor(todo[j], f)
      <4>1. DOMAIN FieldOrder \subseteq Int
        BY <2>4
      <4>2. SUFFICES ASSUME NEW j \in DOMAIN FieldOrder, j > i, IsFor(todo[j], f)
                     PROVE  FALSE
        BY <2>6
      <4>3. FieldOrder[j] = f
        BY <4>2, <2>3, <2>5, ParaTyped
      <4>4. j = i
        BY <4>3, <3>1, RadarMgrAssumption DEF RadarMgrAssumption
      <4> QED
        BY <4>1, <4>2, <4>4
    <3> QED
      BY <3>2, <3>3, <2>6 DEF Carries
  <2> QED
    BY <2>2, <2>3, <2>6, <2>7
<1>3. CASE ~("cfg" \in DOMAIN c)
  <2>1. c \in [pc : {"lock"}, field : Single, v : Values]
    BY <1>1, <1>3 DEF LockCalls
  <2> DEFINE m == Para(c.field, c.v)
  <2>2. /\ val' = [val EXCEPT ![c.field] = c.v] /\ cfg' = cfg
        /\ call' = [call EXCEPT ![t] = [pc |-> "send", todo |-> <<m>>]]
    BY <1>3 DEF Change
  <2>3. c.field \in Fields /\ c.v \in Values
    BY <2>1, RadarMgrAssumption DEF RadarMgrAssumption
  <2>4. m \in ParaMsgs /\ IsFor(m, c.field) /\ m.v = c.v /\ \A g : IsFor(m, g) => g = c.field
    BY <2>3, ParaTyped
  <2> HIDE DEF m
  <2>5. <<m>> \in Seq(ParaMsgs) /\ DOMAIN <<m>> = {1} /\ <<m>>[1] = m
    BY <2>4
  <2>6. \A f \in Fields : \/ Carries(<<m>>, f, val'[f])
                          \/ NoneFor(<<m>>, f) /\ val'[f] = val[f]
    <3>1. Carries(<<m>>, c.field, val'[c.field])
      <4>1. val'[c.field] = c.v
        BY <2>2, <2>3 DEF RadarTypeOK
      <4>2. \A j \in {1} : ~(j > 1)
        OBVIOUS
      <4> QED
        BY <4>1, <4>2, <2>4, <2>5 DEF Carries
    <3>2. \A f \in Fields : f # c.field => NoneFor(<<m>>, f) /\ val'[f] = val[f]
      BY <2>2, <2>4, <2>5 DEF NoneFor, RadarTypeOK
    <3> QED
      BY <3>1, <3>2
  <2>7. val' \in [Fields -> Values \cup {Unset}] /\ cfg' \in Levels \cup {Unset}
    BY <2>2, <2>3 DEF RadarTypeOK
  <2> QED
    BY <2>2, <2>5, <2>6, <2>7
<1> QED
  BY <1>2, <1>3

LEMMA TodoTyped ==
  ASSUME RadarTypeOK
  PROVE  Todo \in Seq(Msgs) /\ radq \in Seq(Msgs)
<1>1. Seq(ParaMsgs) \subseteq Seq(Msgs)
  BY DEF Msgs
<1>2. radq \in Seq(Msgs)
  BY DEF RadarTypeOK, Msgs
<1>3. CASE mutex # NoTask /\ call[mutex].pc = "send"
  <2>1. call[mutex] \in SendCalls
    BY <1>3, CallKinds DEF RadarTypeOK
  <2> QED
    BY <1>1, <1>2, <1>3, <2>1 DEF SendCalls, Todo
<1>4. CASE ~(mutex # NoTask /\ call[mutex].pc = "send")
  BY <1>2, <1>4 DEF Todo
<1> QED
  BY <1>3, <1>4

LEMMA InitRInv == Init => RInv
<1> SUFFICES ASSUME Init PROVE RInv
  OBVIOUS
<1>1. RadarTypeOK
  BY RadarMgrAssumption DEF Init, RadarTypeOK, RadarMgrAssumption, Calls, Idle
<1>2. Owner
  BY RadarMgrAssumption DEF Init, Owner, RadarMgrAssumption, Idle
<1>3. CacheInv
  BY DEF Init, CacheInv, Todo, NoneFor
<1> QED
  BY <1>1, <1>2, <1>3 DEF RInv

LEMMA EnterKeeps ==
  ASSUME RInv, NEW t \in Tasks, NEW c \in LockCalls, Enter(t, c)
  PROVE  RInv'
<1>1. c \in Calls /\ c.pc = "lock" /\ call[t].pc = "idle"
  BY DEF LockCalls, Calls, Enter, Idle
<1>2. RadarTypeOK'
  BY <1>1 DEF Enter, RInv, RadarTypeOK
<1>3. \A u \in Tasks : call'[u].pc = "send" <=> call[u].pc = "send"
  BY <1>1 DEF Enter, RInv, RadarTypeOK
<1>4. mutex # t
  BY <1>1 DEF Enter, RInv, Owner
<1>5. Todo' = Todo
  BY <1>4 DEF Enter, RInv, RadarTypeOK, Todo
<1>6. Owner'
  BY <1>3 DEF Enter, RInv, Owner
<1>7. CacheInv'
  BY <1>5 DEF Enter, RInv, CacheInv
<1> QED
  BY <1>2, <1>6, <1>7 DEF RInv

LEMMA ChangeTyped ==
  ASSUME RadarTypeOK, NEW t \in Tasks, call[t].pc = "lock", Change(t),
         mutex' \in Tasks \cup {NoTask}, mode' \in {"normal", "expired", "halted"}
  PROVE  RadarTypeOK'
<1>1. PICK todo \in Seq(ParaMsgs) : call' = [call EXCEPT ![t] = [pc |-> "send", todo |-> todo]]
  BY ChangeSends
<1>2. [pc |-> "send", todo |-> todo] \in Calls
  BY DEF Calls
<1>3. call' \in [Tasks -> Calls]
  BY <1>1, <1>2 DEF RadarTypeOK
<1>4. UNCHANGED <<radq, rad, param, appq>>
  BY DEF Change
<1> QED
  BY <1>3, <1>4, ChangeSends DEF RadarTypeOK

LEMMA LockKeeps ==
  ASSUME RInv, NEW t \in Tasks, Lock(t)
  PROVE  RInv'
<1>1. RadarTypeOK /\ call[t].pc = "lock" /\ Change(t) /\ mutex = NoTask /\ mutex' = t
  BY DEF RInv, Lock
<1>2. RadarTypeOK'
  BY <1>1, ChangeTyped DEF Lock, RadarTypeOK
<1>3. PICK todo \in Seq(ParaMsgs) :
         /\ call' = [call EXCEPT ![t] = [pc |-> "send", todo |-> todo]]
         /\ \A f \in Fields : Carries(todo, f, val'[f]) \/ (NoneFor(todo, f) /\ val'[f] = val[f])
  BY <1>1, ChangeSends
<1>4. call'[t] = [pc |-> "send", todo |-> todo] /\ \A u \in Tasks \ {t} : call'[u] = call[u]
  BY <1>1, <1>3 DEF RadarTypeOK
<1>5. Owner'
  BY <1>1, <1>4, RadarMgrAssumption DEF Lock, RInv, Owner, RadarMgrAssumption
<1>6. Todo' = todo /\ Todo = <<>>
  BY <1>1, <1>4, RadarMgrAssumption DEF Todo, RadarMgrAssumption
<1>7. \A f, v : ~Carries(<<>>, f, v)
  BY DEF Carries
<1>8. radq' = radq /\ param' = param /\ mode' = mode
  BY <1>1 DEF Lock, Change
<1>9. CacheInv'
  BY <1>3, <1>6, <1>7, <1>8 DEF RInv, CacheInv
<1> QED
  BY <1>2, <1>5, <1>9 DEF RInv

LEMMA SendTyped ==
  ASSUME RadarTypeOK, NEW t \in Tasks, call[t].pc = "send", call[t].todo # <<>>,
         call' = [call EXCEPT ![t].todo = Tail(@)]
  PROVE  /\ call' \in [Tasks -> Calls]
         /\ call[t].todo \in Seq(ParaMsgs) /\ Head(call[t].todo) \in ParaMsgs
         /\ call'[t].pc = "send" /\ call'[t].todo = Tail(call[t].todo)
         /\ \A u \in Tasks \ {t} : call'[u] = call[u]
<1>1. call[t] \in SendCalls
  BY CallKinds DEF RadarTypeOK
<1>2. Tail(call[t].todo) \in Seq(ParaMsgs) /\ Head(call[t].todo) \in ParaMsgs
  BY <1>1 DEF SendCalls
<1>3. call'[t] = [call[t] EXCEPT !.todo = Tail(call[t].todo)]
  BY DEF RadarTypeOK
<1>4. call'[t] \in SendCalls /\ call'[t].pc = "send" /\ call'[t].todo = Tail(call[t].todo)
  BY <1>1, <1>2, <1>3 DEF SendCalls
<1>5. call'[t] \in Calls
  BY <1>4 DEF SendCalls, Calls
<1> QED
  BY <1>1, <1>2, <1>4, <1>5 DEF RadarTypeOK, SendCalls

LEMMA SendKeeps ==
  ASSUME RInv, NEW t \in Tasks, Send(t)
  PROVE  RInv'
<1>1. /\ RadarTypeOK /\ call[t].pc = "send" /\ call[t].todo # <<>>
      /\ call' = [call EXCEPT ![t].todo = Tail(@)]
  BY DEF RInv, Send
<1>2. /\ call' \in [Tasks -> Calls]
      /\ call[t].todo \in Seq(ParaMsgs) /\ Head(call[t].todo) \in ParaMsgs
      /\ call'[t].pc = "send" /\ call'[t].todo = Tail(call[t].todo)
      /\ \A u \in Tasks \ {t} : call'[u] = call[u]
  BY <1>1, SendTyped
<1> DEFINE m == Head(call[t].todo)
<1>3. radq' = Append(radq, m) /\ Len(radq) < RadLen
      /\ UNCHANGED <<cfg, val, mutex, rad, param, appq, mode>>
  BY DEF Send
<1>4. radq' \in Seq(ParaMsgs \cup {Data}) /\ Len(radq') <= RadLen
  BY <1>1, <1>2, <1>3, RadarMgrAssumption DEF RadarTypeOK, RadarMgrAssumption
<1>5. RadarTypeOK'
  BY <1>1, <1>2, <1>3, <1>4 DEF RadarTypeOK
<1>6. Owner'
  BY <1>1, <1>2, <1>3 DEF RInv, Owner
<1>7. ASSUME mode = "normal" PROVE CacheInv'
  <2>1. mutex = t /\ t # NoTask
    BY <1>1, <1>7, RadarMgrAssumption DEF RInv, Owner, RadarMgrAssumption
  <2>2. Todo = call[t].todo /\ Todo' = Tail(call[t].todo)
    BY <1>1, <1>2, <1>3, <2>1 DEF Todo
  <2>3. Todo \in Seq(Msgs) /\ radq \in Seq(Msgs) /\ m \in Msgs /\ Todo # <<>>
    BY <1>1, <1>2, <2>2, TodoTyped DEF Msgs
  <2>4. ASSUME NEW f \in Fields
        PROVE  \/ Carries(Todo', f, val[f])
               \/ /\ NoneFor(Todo', f)
                  /\ Carries(radq', f, val[f]) \/ (NoneFor(radq', f) /\ param[f] = val[f])
    BY <1>3, <1>7, <2>2, <2>3, AppendCarries, TailCarries DEF RInv, CacheInv
  <2> QED
    BY <1>3, <2>4 DEF CacheInv
<1>8. ASSUME mode # "normal" PROVE CacheInv'
  BY <1>3, <1>8 DEF CacheInv
<1> QED
  BY <1>5, <1>6, <1>7, <1>8 DEF RInv

LEMMA UnlockKeeps ==
  ASSUME RInv, NEW t \in Tasks, Unlock(t)
  PROVE  RInv'
<1>1. RadarTypeOK /\ call[t].pc = "send" /\ call[t].todo = <<>>
      /\ UNCHANGED <<cfg, val, radq, rad, param, appq>>
  BY DEF RInv, Unlock
<1>2. CASE mutex \in {t, NoTask} /\ mutex' = NoTask /\ call' = [call EXCEPT ![t] = Idle] /\ mode' = mode
  <2>1. RadarTypeOK'
    BY <1>1, <1>2 DEF RadarTypeOK, Calls
  <2>2. ASSUME mode = "normal" PROVE Owner' /\ CacheInv'
    <3>1. mutex = t /\ t # NoTask
      BY <1>1, <2>2, RadarMgrAssumption DEF RInv, Owner, RadarMgrAssumption
    <3>2. Todo = <<>> /\ Todo' = <<>>
      BY <1>1, <1>2, <3>1 DEF Todo
    <3>3. CacheInv'
      BY <1>1, <1>2, <3>2 DEF RInv, CacheInv
    <3>4. call'[t].pc = "idle" /\ \A u \in Tasks \ {t} : call'[u] = call[u]
      BY <1>1, <1>2 DEF RadarTypeOK, Idle
    <3>5. Owner'
      BY <1>2, <2>2, <3>1, <3>4, RadarMgrAssumption DEF RInv, Owner, RadarMgrAssumption
    <3> QED
      BY <3>3, <3>5
  <2>3. ASSUME mode # "normal" PROVE Owner' /\ CacheInv'
    BY <1>2, <2>3 DEF Owner, CacheInv
  <2> QED
    BY <2>1, <2>2, <2>3 DEF RInv
<1>3. CASE mode' = "halted" /\ UNCHANGED <<mutex, call>>
  BY <1>1, <1>3 DEF RInv, RadarTypeOK, Owner, CacheInv
<1> QED
  BY <1>2, <1>3 DEF Unlock

LEMMA DataKeeps ==
  ASSUME RInv, DataReady
  PROVE  RInv'
<1>1. radq' = Append(radq, Data) /\ Len(radq) < RadLen
      /\ UNCHANGED <<cfg, val, mutex, call, rad, param, appq, mode>>
  BY DEF DataReady
<1>2. RadarTypeOK'
  BY <1>1, RadarMgrAssumption DEF RInv, RadarTypeOK, RadarMgrAssumption
<1>3. Todo' = Todo /\ radq \in Seq(Msgs) /\ Data \in Msgs
  BY <1>1, TodoTyped DEF RInv, Todo, Msgs
<1>4. \A f : ~IsFor(Data, f)
  BY DEF Data, IsFor
<1>5. Owner'
  BY <1>1 DEF RInv, Owner
<1>6. CacheInv'
  BY <1>1, <1>3, <1>4, AppendCarries DEF RInv, CacheInv
<1> QED
  BY <1>2, <1>5, <1>6 DEF RInv

LEMMA TakeKeeps ==
  ASSUME RInv, RadTake
  PROVE  RInv'
<1> DEFINE m == Head(radq)
<1>1. /\ radq # <<>> /\ radq' = Tail(radq)
      /\ UNCHANGED <<cfg, val, mutex, call, appq, mode>>
      /\ \/ m.id = "MDET_PARA_SET" /\ param' = [param EXCEPT ![m.field] = m.v] /\ rad' = rad
         \/ m.id = "DAT_RDY" /\ rad' \in {"wait", "result"} /\ param' = param
  BY DEF RadTake
<1>2. radq \in Seq(Msgs) /\ m \in Msgs /\ Todo' = Todo
  BY <1>1, TodoTyped DEF RInv, Todo
<1>3. m.id = "MDET_PARA_SET" => m \in ParaMsgs
  BY <1>2 DEF Msgs, Data
<1>4. Tail(radq) \in Seq(ParaMsgs \cup {Data}) /\ Len(Tail(radq)) <= RadLen
  BY <1>1, RadarMgrAssumption DEF RInv, RadarTypeOK, RadarMgrAssumption
<1>5. param' \in [Fields -> Values \cup {Unset}]
  BY <1>1, <1>3 DEF RInv, RadarTypeOK, ParaMsgs
<1>6. RadarTypeOK'
  BY <1>1, <1>4, <1>5 DEF RInv, RadarTypeOK
<1>7. Owner'
  BY <1>1 DEF RInv, Owner
<1>8. ASSUME NEW f \in Fields
      PROVE  /\ IsFor(m, f) => param'[f] = m.v
             /\ ~IsFor(m, f) => param'[f] = param[f]
  BY <1>1, <1>3 DEF RInv, RadarTypeOK, IsFor, ParaMsgs
<1>9. ASSUME mode = "normal", NEW f \in Fields
      PROVE  \/ Carries(Todo, f, val[f])
             \/ /\ NoneFor(Todo, f)
                /\ Carries(radq', f, val[f]) \/ (NoneFor(radq', f) /\ param'[f] = val[f])
  <2>1. \/ Carries(Todo, f, val[f])
        \/ /\ NoneFor(Todo, f)
           /\ Carries(radq, f, val[f]) \/ (NoneFor(radq, f) /\ param[f] = val[f])
    BY <1>9 DEF RInv, CacheInv
  <2>2. Carries(radq, f, val[f]) =>
          Carries(radq', f, val[f]) \/ (NoneFor(radq', f) /\ param'[f] = val[f])
    BY <1>1, <1>2, <1>8, TailCarries
  <2>3. NoneFor(radq, f) /\ param[f] = val[f] => NoneFor(radq', f) /\ param'[f] = val[f]
    BY <1>1, <1>2, <1>8, TailCarries
  <2> QED
    BY <2>1, <2>2, <2>3
<1>10. CacheInv'
  BY <1>1, <1>2, <1>9 DEF CacheInv
<1> QED
  BY <1>6, <1>7, <1>10 DEF RInv

\* A wait expires: from then on nothing is claimed but the types.
LEMMA ExpireKeeps ==
  ASSUME RInv, RadExpire \/ \E t \in Tasks : Expire(t)
  PROVE  RInv'
<1>1. mode' = "expired"
  BY DEF RadExpire, Expire
<1>2. CASE RadExpire
  BY <1>2 DEF RadExpire, RInv, RadarTypeOK, Owner, CacheInv
<1>3. ASSUME NEW t \in Tasks, Expire(t) PROVE RadarTypeOK'
  <2>1. CASE Waits(t) /\ call' = [call EXCEPT ![t].todo = Tail(@)]
             /\ UNCHANGED <<cfg, val, mutex, radq, rad, param, appq>>
    BY <1>1, <2>1, SendTyped DEF Waits, RInv, RadarTypeOK
  <2>2. CASE call[t].pc = "lock" /\ Change(t) /\ UNCHANGED mutex
    <3>1. RadarTypeOK /\ mutex' \in Tasks \cup {NoTask} /\ mode' \in {"normal", "expired", "halted"}
      BY <1>1, <2>2 DEF RInv, RadarTypeOK
    <3> QED
      BY <2>2, <3>1, ChangeTyped
  <2> QED
    BY <1>3, <2>1, <2>2 DEF Expire
<1> QED
  BY <1>1, <1>2, <1>3 DEF RInv, Owner, CacheInv

LEMMA ResultKeeps ==
  ASSUME RInv, RadSend \/ AppTake \/ UNCHANGED vars
  PROVE  RInv'
<1>1. UNCHANGED <<cfg, val, mutex, call, radq, param, mode>>
  BY DEF RadSend, AppTake, vars
<1>2. rad' \in {"wait", "result"} /\ appq' \in 0 .. AppLen
  BY RadarMgrAssumption DEF RadSend, AppTake, vars, RInv, RadarTypeOK, RadarMgrAssumption
<1>3. Todo' = Todo
  BY <1>1 DEF Todo
<1> QED
  BY <1>1, <1>2, <1>3 DEF RInv, RadarTypeOK, Owner, CacheInv

LEMMA StepRInv == RInv /\ [Next]_vars => RInv'
<1> SUFFICES ASSUME RInv, [Next]_vars PROVE RInv'
  OBVIOUS
<1>1. ASSUME NEW t \in Tasks, NEW lev \in Levels, radar_mgr_mdet_user_cfg_set(t, lev) PROVE RInv'
  <2>1. [pc |-> "lock", cfg |-> lev] \in LockCalls
    BY DEF LockCalls
  <2> QED
    BY <1>1, <2>1, EnterKeeps DEF radar_mgr_mdet_user_cfg_set
<1>2. ASSUME NEW t \in Tasks, NEW f \in Single, NEW v \in Values, radar_mgr_mdet_para_set(t, f, v)
      PROVE  RInv'
  <2>1. [pc |-> "lock", field |-> f, v |-> v] \in LockCalls
    BY DEF LockCalls
  <2> QED
    BY <1>2, <2>1, EnterKeeps DEF radar_mgr_mdet_para_set
<1>3. ASSUME NEW t \in Tasks, Step(t) PROVE RInv'
  BY <1>3, LockKeeps, SendKeeps, UnlockKeeps, ExpireKeeps DEF Step
<1>4. ASSUME DataReady \/ Rad \/ AppTake \/ vAssertCalled PROVE RInv'
  BY <1>4, DataKeeps, TakeKeeps, ResultKeeps, ExpireKeeps DEF Rad, vAssertCalled
<1> QED
  BY <1>1, <1>2, <1>3, <1>4, ResultKeeps DEF Next

\* The variables of radar_mgr.c, its callers and the queues have their types;
\* neither queue is longer than OSAL_MSG_QUEUE_LEN.
THEOREM RadarTyped == Spec => []RadarTypeOK
<1>1. RInv => RadarTypeOK
  BY DEF RInv
<1> QED
  BY <1>1, InitRInv, StepRInv, PTL DEF Spec

\* Whatever setters of several tasks are interleaved, the cached settings are
\* those the detection has or is about to get (radar_mgr.c, radar_task.c).
THEOREM CacheAlwaysTrue == Spec => []CacheIsTrue
<1>1. RInv => CacheIsTrue
  <2> SUFFICES ASSUME RInv, mode = "normal", NEW f \in Fields
               PROVE  \/ Carries(UnderWay, f, val[f])
                      \/ NoneFor(UnderWay, f) /\ param[f] = val[f]
    BY DEF CacheIsTrue, Carries, NoneFor
  <2>1. Todo \in Seq(Msgs) /\ radq \in Seq(Msgs)
    BY TodoTyped DEF RInv
  <2> QED
    BY <2>1, ConcatCarries DEF RInv, CacheInv, UnderWay
<1> QED
  BY <1>1, InitRInv, StepRInv, PTL DEF Spec
-----------------------------------------------------------------------------
(***************************************************************************)
(* The timer of the light is never forgotten, for every set of             *)
(* configurations: Attended and TimerMatches.                              *)
(*                                                                         *)
(* Attended alone is not inductive: an expiry that is pending may be taken *)
(* away by a request (light_proc), or be one that the state does nothing   *)
(* with.  LInv says which expiry it is in each state, that the callback of *)
(* the timer is the one that reports it, and that the handler light_proc   *)
(* is in the middle of has set the callback for the state it enters.       *)
(***************************************************************************)

Allowed ==
  /\ ms = "forever" => conf.forever
  /\ rest = "dim" => conf.dim
  /\ rest = "blink" => conf.blinks
  /\ "BLINK" \in Pending => conf.blinks

CallbackSet ==
  /\ rest = "on" => cb = "LOT_EXPIRED"
  /\ rest = "dim" => cb = "DIM_EXPIRED"
  /\ rest = "silent" => cb = "SILENT_EXPIRED"
  /\ rest = "blink" => cb = "BLINK"

(* The timer's callback reports e, and it will or has. *)
Reports(e) == cb = e /\ (running \/ e \in Pending)

TimerKept ==
  rest = "none" =>
    /\ state = "SILENT" => Reports("SILENT_EXPIRED")
    /\ state = "DIM" => Reports("DIM_EXPIRED")
    /\ state = "ON" /\ ~conf.forever => Reports("LOT_EXPIRED")
    /\ state = "BLINK" => cb = "BLINK"
    /\ state = "OFF" /\ running /\ ~conf.forever => cb = "LOT_EXPIRED"

LInv == LightTypeOK /\ Allowed /\ CallbackSet /\ TimerKept

LEMMA InitLInv == LightInit => LInv
BY DEF LightInit, LInv, LightTypeOK, Allowed, CallbackSet, TimerKept, Pending,
       States, Times, Events, Expiries, Requests

(* The requests and the timer. *)
LEMMA OutsideStep ==
  ASSUME LInv,
         \/ \E t \in Times : light_ctrl_on(t)
         \/ light_ctrl_off \/ light_ctrl_blink \/ Pass \/ LotExpire
  PROVE  LInv'
<1>1. ASSUME NEW t \in Times, NEW b \in Requests, Ask(b, t),
             t = "forever" => conf.forever, b = "BLINK" => conf.blinks
      PROVE  LInv'
  BY <1>1 DEF Ask, LInv, LightTypeOK, Allowed, CallbackSet, TimerKept, Reports,
              Pending, Events, Expiries, Requests
<1>2. CASE \E t \in Times : light_ctrl_on(t)
  BY <1>1, <1>2 DEF light_ctrl_on, Requests
<1>3. CASE light_ctrl_off
  BY <1>1, <1>3 DEF light_ctrl_off, Requests, LInv, LightTypeOK, Allowed
<1>4. CASE light_ctrl_blink
  BY <1>1, <1>4 DEF light_ctrl_blink, Requests, Times
<1>5. CASE Pass
  BY <1>5 DEF Pass, LInv, LightTypeOK, Allowed, CallbackSet, TimerKept, Reports, Pending
<1>6. CASE LotExpire
  <2>1. LightTypeOK'
    BY <1>6 DEF LotExpire, LInv, LightTypeOK, Events
  <2>2. Allowed'
    BY <1>6 DEF LotExpire, LInv, Allowed, Pending, Expiries
  <2>3. CallbackSet'
    BY <1>6 DEF LotExpire, LInv, CallbackSet
  <2>4. TimerKept'
    BY <1>6 DEF LotExpire, LInv, LightTypeOK, TimerKept, Reports, Pending, Expiries
  <2> QED
    BY <2>1, <2>2, <2>3, <2>4 DEF LInv
<1> QED
  BY <1>2, <1>3, <1>4, <1>5, <1>6

-----------------------------------------------------------------------------
(* A handler keeps LInv.  It takes its own bit away, event_light_on also   *)
(* LOT_EXPIRED: with the light on that is the expiry of its state, and the *)
(* timer is started anew; in the other states it is a stale one.           *)
LEMMA HandlerStep ==
  ASSUME LInv, rest = "none", UNCHANGED <<conf, ms, group>>, events' \subseteq events,
         \/ /\ event_light_on
            /\ events \ {"SWITCH_ON", "LOT_EXPIRED"} \subseteq events'
         \/ /\ event_light_off
            /\ events \ {"SWITCH_OFF"} \subseteq events'
         \/ event_lot_expired \/ event_silent_expired \/ EnterSilent
         \/ "BLINK" \in events /\ event_light_blink
  PROVE  LInv'
<1>1. Allowed' /\ CallbackSet'
  BY DEF LInv, Allowed, CallbackSet, Pending, event_light_on, event_light_off,
         event_lot_expired, event_silent_expired, event_light_blink, EnterSilent, EnterDim
<1>2. LightTypeOK'
  BY DEF LInv, LightTypeOK, Events, States, event_light_on, event_light_off,
         event_lot_expired, event_silent_expired, event_light_blink, EnterSilent, EnterDim
<1>3. ASSUME event_light_on, events \ {"SWITCH_ON", "LOT_EXPIRED"} \subseteq events'
      PROVE  TimerKept'
  BY <1>3 DEF event_light_on, LInv, LightTypeOK, Allowed, TimerKept, Reports, Pending,
              Times, States
<1>4. ASSUME event_light_off, events \ {"SWITCH_OFF"} \subseteq events'
      PROVE  TimerKept'
  BY <1>4 DEF event_light_off, EnterSilent, LInv, TimerKept, Reports, Pending
<1>5. ASSUME event_lot_expired \/ EnterSilent \/ event_light_blink
      PROVE  TimerKept'
  BY <1>5 DEF event_lot_expired, EnterSilent, EnterDim, event_light_blink, TimerKept
<1>6. ASSUME event_silent_expired PROVE TimerKept'
  BY <1>6 DEF event_silent_expired, TimerKept
<1> QED
  BY <1>1, <1>2, <1>3, <1>4, <1>5, <1>6 DEF LInv

LEMMA LightStep ==
  ASSUME LInv, Light
  PROVE  LInv'
<1>1. CASE Wait
  BY <1>1 DEF Wait, LInv, LightTypeOK, Allowed, CallbackSet, TimerKept, Reports, Pending
<1>2. CASE light_proc
  BY <1>2, HandlerStep DEF light_proc
<1>3. CASE Finish
  <2>1. rest \in {"on", "dim", "silent", "blink", "unblink"}
    BY <1>3 DEF Finish, LInv, LightTypeOK
  <2>2. Allowed' /\ CallbackSet' /\ TimerKept'
    BY <1>3, <2>1 DEF Finish, LInv, Allowed, CallbackSet, TimerKept, Reports, Pending
  <2>3. LightTypeOK'
    BY <1>3, <2>1 DEF Finish, LInv, LightTypeOK, Allowed, States
  <2> QED
    BY <2>2, <2>3 DEF LInv
<1> QED
  BY <1>1, <1>2, <1>3 DEF Light

LEMMA StepLInv == LInv /\ [LightNext]_lightVars => LInv'
<1> SUFFICES ASSUME LInv, [LightNext]_lightVars PROVE LInv'
  OBVIOUS
<1>1. CASE UNCHANGED lightVars
  BY <1>1 DEF lightVars, LInv, LightTypeOK, Allowed, CallbackSet, TimerKept, Reports, Pending
<1> QED
  BY <1>1, OutsideStep, LightStep DEF LightNext

(* The variables of light_ctrl.c have their types; the light dims only in  *)
(* a build that does and blinks only where it is asked to.                 *)
THEOREM LightTyped == LightSpec => []LightTypeOK
<1>1. LInv => LightTypeOK
  BY DEF LInv
<1> QED
  BY <1>1, InitLInv, StepLInv, PTL DEF LightSpec

(* No order of requests, expiries and handlers of light_proc leaves a      *)
(* state that is to end after a time without a timer that ends it.         *)
THEOREM AlwaysAttended == LightSpec => []Attended
<1>1. LInv => Attended
  BY DEF LInv, LightTypeOK, TimerKept, Reports, Attended, Expiries
<1> QED
  BY <1>1, InitLInv, StepLInv, PTL DEF LightSpec

(* The timer that runs is the one of the state the light is in. *)
THEOREM TimerAlwaysMatches == LightSpec => []TimerMatches
<1>1. LInv => TimerMatches
  BY DEF LInv, LightTypeOK, States, TimerKept, Reports, TimerMatches
<1> QED
  BY <1>1, InitLInv, StepLInv, PTL DEF LightSpec

-----------------------------------------------------------------------------
(* The detection.  At most one expiry is on its way, since a period ends   *)
(* only when the one before was served; so none reported in one state is   *)
(* served in a silence that another of its time has begun.                 *)

Late == Pending \cap Expiries

OneExpiry ==
  /\ due => Late = {}
  /\ \A e, f \in Late : e = f
  /\ group \cap events \cap Expiries = {}
  /\ "LOT_EXPIRED" \in Late =>
       rest \notin {"silent", "dim"} /\ (rest = "none" => state \notin {"SILENT", "DIM"})

Detects ==
  ~conf.blinks =>
    /\ rest = "none" => (mdet <=> state # "SILENT")
    /\ rest \in {"on", "dim", "unblink"} => mdet

DInv == LInv /\ OneExpiry /\ Detects

LEMMA InitDInv == LightInit => DInv
BY InitLInv DEF LightInit, DInv, OneExpiry, Detects, Late, Pending

LEMMA OutsideOneExpiry ==
  ASSUME DInv,
         \/ \E t \in Times : light_ctrl_on(t)
         \/ light_ctrl_off \/ light_ctrl_blink \/ Pass \/ LotExpire
  PROVE  OneExpiry' /\ Detects'
<1>1. ASSUME NEW t, NEW b \in Requests, Ask(b, t)
      PROVE  OneExpiry' /\ Detects'
  BY <1>1 DEF Ask, DInv, OneExpiry, Detects, Late, Pending, Expiries, Requests
<1>2. CASE \E t \in Times : light_ctrl_on(t)
  BY <1>1, <1>2 DEF light_ctrl_on, Requests
<1>3. CASE light_ctrl_off \/ light_ctrl_blink
  BY <1>1, <1>3 DEF light_ctrl_off, light_ctrl_blink, Requests
<1>4. CASE Pass
  BY <1>4 DEF Pass, LightIdle, DInv, OneExpiry, Detects, Late, Pending
<1>5. CASE LotExpire
  <2>1. Detects'
    BY <1>5 DEF LotExpire, DInv, Detects
  <2>2. ~due' /\ Late = {}
    BY <1>5 DEF LotExpire, DInv, OneExpiry
  <2>3. Late' \subseteq {cb}
    BY <1>5, <2>2 DEF LotExpire, Late, Pending
  <2>4. cb = "LOT_EXPIRED" =>
          rest \notin {"silent", "dim"} /\ (rest = "none" => state \notin {"SILENT", "DIM"})
    BY DEF DInv, LInv, CallbackSet, TimerKept, Reports
  <2>5. rest' = rest /\ state' = state
    BY <1>5 DEF LotExpire
  <2>6. group' \cap events' \cap Expiries = {}
    BY <1>5, <2>2 DEF LotExpire, DInv, OneExpiry, Late, Pending
  <2> QED
    BY <2>1, <2>2, <2>3, <2>4, <2>5, <2>6 DEF OneExpiry
<1> QED
  BY <1>2, <1>3, <1>4, <1>5

LEMMA LightOneExpiry ==
  ASSUME DInv, Light
  PROVE  OneExpiry' /\ Detects'
<1>1. CASE Wait
  BY <1>1 DEF Wait, DInv, OneExpiry, Detects, Late, Pending
<1>2. CASE light_proc
  <2>1. Late' \subseteq Late /\ rest = "none"
    BY <1>2 DEF light_proc, Late, Pending
  <2>2. group' = group /\ events' \subseteq events
    BY <1>2 DEF light_proc
  <2>3. SUFFICES /\ due' => due
                 /\ "LOT_EXPIRED" \in Late' =>
                      /\ rest' \notin {"silent", "dim"}
                      /\ rest' = "none" => state' \notin {"SILENT", "DIM"}
                 /\ Detects'
    BY <2>1, <2>2 DEF DInv, OneExpiry
  <2>4. ASSUME event_light_on PROVE <2>3!1
    BY <1>2, <2>1, <2>4 DEF light_proc, event_light_on, DInv, OneExpiry, Detects
  <2>5. ASSUME event_light_off PROVE <2>3!1
    BY <1>2, <2>1, <2>5
       DEF light_proc, event_light_off, EnterSilent, DInv, OneExpiry, Detects, LInv, LightTypeOK
  <2>6. ASSUME event_lot_expired, "LOT_EXPIRED" \in events, events' = events \ {"LOT_EXPIRED"}
        PROVE  <2>3!1
    <3>1. state # "SILENT"
      BY <2>1, <2>6 DEF DInv, OneExpiry, Late, Pending, Expiries
    <3>2. "LOT_EXPIRED" \notin Late'
      BY <2>2, <2>6 DEF DInv, OneExpiry, Late, Pending, Expiries
    <3> QED
      BY <1>2, <2>1, <2>6, <3>1, <3>2
         DEF light_proc, event_lot_expired, EnterDim, EnterSilent, DInv, Detects
  <2>7. ASSUME event_silent_expired PROVE <2>3!1
    BY <1>2, <2>1, <2>7 DEF light_proc, event_silent_expired, Detects
  <2>8. ASSUME EnterSilent, "DIM_EXPIRED" \in events PROVE <2>3!1
    <3>1. "LOT_EXPIRED" \notin Late
      BY <2>8 DEF DInv, OneExpiry, Late, Pending, Expiries
    <3> QED
      BY <1>2, <2>1, <2>8, <3>1 DEF light_proc, EnterSilent, Detects
  <2>9. ASSUME event_light_blink, "BLINK" \in events PROVE <2>3!1
    BY <1>2, <2>9 DEF light_proc, event_light_blink, DInv, LInv, Allowed, Pending, Detects
  <2> QED
    BY <1>2, <2>4, <2>5, <2>6, <2>7, <2>8, <2>9 DEF light_proc
<1>3. CASE Finish
  <2>1. rest \in {"on", "dim", "silent", "blink", "unblink"} /\ rest' = "none"
    BY <1>3 DEF Finish, DInv, LInv, LightTypeOK
  <2>2. OneExpiry'
    BY <1>3, <2>1 DEF Finish, DInv, OneExpiry, Late, Pending
  <2>3. Detects'
    BY <1>3, <2>1 DEF Finish, DInv, LInv, Allowed, Detects
  <2> QED
    BY <2>2, <2>3
<1> QED
  BY <1>1, <1>2, <1>3 DEF Light

(* The detection is paused in the silence and at no other time. *)
THEOREM AlwaysDetects == LightSpec => []DetectsWhenLit
<1>1. DInv /\ [LightNext]_lightVars => DInv'
  <2> SUFFICES ASSUME DInv, [LightNext]_lightVars PROVE DInv'
    OBVIOUS
  <2>1. LInv'
    BY StepLInv DEF DInv
  <2>2. OneExpiry' /\ Detects'
    <3>1. CASE UNCHANGED lightVars
      BY <3>1 DEF lightVars, DInv, OneExpiry, Detects, Late, Pending
    <3> QED
      BY <3>1, OutsideOneExpiry, LightOneExpiry DEF LightNext
  <2> QED
    BY <2>1, <2>2 DEF DInv
<1>2. DInv => DetectsWhenLit
  BY DEF DInv, Detects, DetectsWhenLit
<1> QED
  BY <1>1, <1>2, InitDInv, PTL DEF LightSpec
=============================================================================
