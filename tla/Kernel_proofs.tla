---------------------------- MODULE Kernel_proofs ----------------------------
(***************************************************************************)
(* For any set of tasks, priorities, mutexes, calls and ticks: the lists   *)
(* of the scheduler agree (ListsAgree), and a wait lasts as long as it was *)
(* to last (NeverEarly, NeverLate).                                        *)
(*                                                                         *)
(* ListsAgree follows from an invariant of the lists (LInv), but not from  *)
(* an inductive one: that a task which is woken is in no other list        *)
(* depends on where it is in its call.  Inv is LInv with                   *)
(*   Ctx      who holds the scheduler, that the idle task and the caller   *)
(*            are ready where they must be, and that only a task that is   *)
(*            blocked in a call waits for an event or a notification;      *)
(*   Steady   which locals of a call are set at which place of it.         *)
(*                                                                         *)
(* The operators of tasks.c are taken one by one, each a lemma that it     *)
(* keeps LInv and is Calm (disturbs no task but the one concerned); then   *)
(* the steps, one by one, each a lemma that it keeps Inv.                  *)
(*                                                                         *)
(* Of time there is, beyond Inv,                                           *)
(*   Clock     the delayed lists are in order, in this turn of the tick    *)
(*             count and the next, and nothing in them is due;             *)
(*   Punctual  the ticks that a call has left reach to the end of its wait *)
(*             at least, and where it gives up, that is past;              *)
(*   Prompt    they reach no further, nor does the task sleep for longer.  *)
(* The operators again come first: each Passes, which is to say it wakes   *)
(* no task before its time except for an event, and puts none to sleep.    *)
(***************************************************************************)
EXTENDS Kernel, FiniteSetTheorems, SequenceTheorems, WellFoundedInduction, TLAPS

-----------------------------------------------------------------------------
(* Sequences without duplicates: the lists of the kernel. *)

(* No task is in a list twice. *)
Distinct(list) == \A i, j \in DOMAIN list : list[i] = list[j] => i = j

(* A sequence, its elements and its set. *)
LEMMA SeqFacts ==
  ASSUME NEW S, NEW s \in Seq(S)
  PROVE  /\ Len(s) \in Nat /\ DOMAIN s = 1 .. Len(s)
         /\ \A i \in 1 .. Len(s) : s[i] \in S
         /\ ToSet(s) \subseteq S
         /\ \A x : x \in ToSet(s) <=> \E i \in 1 .. Len(s) : s[i] = x
         /\ s = <<>> <=> ToSet(s) = {}
         /\ s = <<>> <=> Len(s) = 0
<1>1. Len(s) \in Nat /\ DOMAIN s = 1 .. Len(s) /\ \A i \in 1 .. Len(s) : s[i] \in S
  OBVIOUS
<1>2. s = <<>> <=> Len(s) = 0
  BY EmptySeq
<1>3. s # <<>> => s[1] \in ToSet(s)
  BY <1>1, <1>2 DEF ToSet
<1>4. Len(s) = 0 => ToSet(s) = {}
  BY <1>1 DEF ToSet
<1> QED
  BY <1>1, <1>2, <1>3, <1>4 DEF ToSet

(* InsertAt and RemoveAt, element by element. *)
LEMMA InsertFacts ==
  ASSUME NEW S, NEW s \in Seq(S), NEW i \in 1 .. Len(s), NEW e \in S
  PROVE  /\ InsertAt(s, i, e) \in Seq(S)
         /\ Len(InsertAt(s, i, e)) = Len(s) + 1
         /\ \A j \in 1 .. Len(s) + 1 :
              InsertAt(s, i, e)[j] = IF j < i THEN s[j] ELSE IF j = i THEN e ELSE s[j - 1]
BY DEF InsertAt

LEMMA RemoveFacts ==
  ASSUME NEW S, NEW s \in Seq(S), NEW i \in 1 .. Len(s)
  PROVE  /\ RemoveAt(s, i) \in Seq(S)
         /\ Len(RemoveAt(s, i)) = Len(s) - 1
         /\ \A j \in 1 .. Len(s) - 1 : RemoveAt(s, i)[j] = IF j < i THEN s[j] ELSE s[j + 1]
<1> DEFINE a == SubSeq(s, 1, i - 1)
           b == SubSeq(s, i + 1, Len(s))
<1>1. Len(s) \in Nat /\ \A j \in 1 .. Len(s) : s[j] \in S
  OBVIOUS
<1>2. /\ a \in Seq(S) /\ Len(a) = i - 1
      /\ \A j \in 1 .. i - 1 : a[j] = s[j]
  OBVIOUS
<1>3. /\ b \in Seq(S) /\ Len(b) = Len(s) - i
      /\ \A j \in 1 .. Len(s) - i : b[j] = s[i + j]
  OBVIOUS
<1> HIDE DEF a, b
<1>4. /\ a \o b \in Seq(S) /\ Len(a \o b) = Len(s) - 1
      /\ \A j \in 1 .. Len(s) - 1 : (a \o b)[j] = IF j < i THEN s[j] ELSE s[j + 1]
  <2>1. /\ a \o b \in Seq(S) /\ Len(a \o b) = Len(s) - 1
        /\ \A j \in 1 .. Len(s) - 1 : (a \o b)[j] = IF j <= i - 1 THEN a[j] ELSE b[j - (i - 1)]
    <3>1. /\ a \o b \in Seq(S) /\ Len(a \o b) = Len(a) + Len(b)
          /\ \A j \in 1 .. Len(a) + Len(b) :
               (a \o b)[j] = IF j <= Len(a) THEN a[j] ELSE b[j - Len(a)]
      BY <1>2, <1>3, ConcatProperties, Zenon
    <3>2. Len(a) + Len(b) = Len(s) - 1 /\ Len(a) = i - 1
      BY <1>1, <1>2, <1>3
    <3> QED
      BY <3>1, <3>2
  <2>2. \A j \in 1 .. Len(s) - 1 : j < i => (a \o b)[j] = s[j]
    BY <1>1, <1>2, <2>1
  <2>3. \A j \in 1 .. Len(s) - 1 : ~(j < i) => (a \o b)[j] = s[j + 1]
    <3> SUFFICES ASSUME NEW j \in 1 .. Len(s) - 1, ~(j < i) PROVE (a \o b)[j] = s[j + 1]
      OBVIOUS
    <3> DEFINE l == j - (i - 1)
    <3>1. l \in 1 .. Len(s) - i /\ i + l = j + 1 /\ (a \o b)[j] = b[l]
      BY <1>1, <2>1, SMTT(30)
    <3> HIDE DEF l
    <3> QED
      BY <3>1, <1>3
  <2> QED
    BY <2>1, <2>2, <2>3
<1>5. RemoveAt(s, i) = a \o b
  BY DEF RemoveAt, a, b
<1> QED
  BY <1>4, <1>5

(* One more task in a list, at any place. *)
LEMMA Inserted ==
  ASSUME NEW S, NEW s \in Seq(S), NEW i \in 1 .. Len(s) + 1, NEW e \in S,
         NEW r \in Seq(S), Len(r) = Len(s) + 1,
         \A j \in 1 .. Len(s) + 1 : r[j] = IF j < i THEN s[j] ELSE IF j = i THEN e ELSE s[j - 1]
  PROVE  /\ ToSet(r) = ToSet(s) \cup {e}
         /\ Distinct(s) /\ e \notin ToSet(s) => Distinct(r)
<1>0. Len(s) \in Nat /\ Len(r) \in Nat /\ DOMAIN s = 1 .. Len(s) /\ DOMAIN r = 1 .. Len(r)
  OBVIOUS
<1>1. ASSUME NEW x \in ToSet(s) PROVE x \in ToSet(r)
  <2>1. PICK j \in 1 .. Len(s) : s[j] = x
    BY SeqFacts
  <2>2. CASE j < i
    <3>1. j \in 1 .. Len(s) + 1 /\ r[j] = x
      BY <1>0, <2>1, <2>2
    <3> QED
      BY <3>1, SeqFacts
  <2>3. CASE ~(j < i)
    <3>1. j + 1 \in 1 .. Len(s) + 1 /\ ~(j + 1 < i) /\ j + 1 # i /\ (j + 1) - 1 = j
      BY <1>0, <2>1, <2>3
    <3>2. r[j + 1] = s[(j + 1) - 1]
      BY <3>1
    <3>3. j + 1 \in 1 .. Len(r) /\ r[j + 1] = x
      BY <1>0, <2>1, <3>1, <3>2
    <3> QED
      BY <3>3, SeqFacts
  <2> QED
    BY <2>2, <2>3
<1>2. e \in ToSet(r)
  <2>1. r[i] = e /\ i \in 1 .. Len(r)
    BY <1>0
  <2> QED
    BY <2>1, SeqFacts
<1>3. ASSUME NEW x \in ToSet(r) PROVE x \in ToSet(s) \cup {e}
  <2>1. PICK j \in 1 .. Len(r) : r[j] = x
    BY SeqFacts
  <2>2. CASE j < i
    <3>1. j \in 1 .. Len(s) /\ s[j] = x
      BY <1>0, <2>1, <2>2
    <3> QED
      BY <3>1, SeqFacts
  <2>3. CASE j > i
    <3>1. j - 1 \in 1 .. Len(s) /\ s[j - 1] = x
      BY <1>0, <2>1, <2>3
    <3> QED
      BY <3>1, SeqFacts
  <2>4. CASE j = i
    BY <1>0, <2>1, <2>4
  <2> QED
    BY <2>2, <2>3, <2>4
<1>4. ASSUME Distinct(s), e \notin ToSet(s) PROVE Distinct(r)
  <2> DEFINE Old(j) == IF j < i THEN j ELSE j - 1
  <2>1. \A j \in 1 .. Len(r) : j # i => Old(j) \in 1 .. Len(s) /\ r[j] = s[Old(j)] /\ r[j] # e
    <3> SUFFICES ASSUME NEW j \in 1 .. Len(r), j # i
                 PROVE  Old(j) \in 1 .. Len(s) /\ r[j] = s[Old(j)] /\ r[j] # e
      OBVIOUS
    <3>1. Old(j) \in 1 .. Len(s) /\ r[j] = s[Old(j)]
      BY <1>0
    <3> QED
      BY <3>1, <1>4, SeqFacts
  <2>2. r[i] = e
    BY <1>0
  <2>3. \A j, l \in 1 .. Len(r) : j # i /\ l # i /\ Old(j) = Old(l) => j = l
    BY <1>0
  <2> HIDE DEF Old
  <2>4. \A j, l \in 1 .. Len(r) : r[j] = r[l] => j = l
    BY <2>1, <2>2, <2>3, <1>4, <1>0, ZenonT(60) DEF Distinct
  <2> QED
    BY <2>4, <1>0 DEF Distinct
<1> QED
  BY <1>1, <1>2, <1>3, <1>4

(* One task fewer in a list. *)
LEMMA Removed ==
  ASSUME NEW S, NEW s \in Seq(S), NEW i \in 1 .. Len(s), Distinct(s)
  PROVE  /\ ToSet(RemoveAt(s, i)) = ToSet(s) \ {s[i]}
         /\ Distinct(RemoveAt(s, i))
<1> DEFINE r == RemoveAt(s, i)
<1>0. /\ Len(s) \in Nat /\ r \in Seq(S) /\ Len(r) = Len(s) - 1
      /\ DOMAIN s = 1 .. Len(s) /\ DOMAIN r = 1 .. Len(r)
      /\ \A j \in 1 .. Len(s) - 1 : r[j] = IF j < i THEN s[j] ELSE s[j + 1]
  BY RemoveFacts
<1> HIDE DEF r
<1> DEFINE Old(j) == IF j < i THEN j ELSE j + 1
<1>1. \A j \in 1 .. Len(r) : Old(j) \in 1 .. Len(s) /\ Old(j) # i /\ r[j] = s[Old(j)]
  BY <1>0
<1>2. \A j, l \in 1 .. Len(r) : Old(j) = Old(l) => j = l
  BY <1>0
<1>3. \A l \in 1 .. Len(s) : l # i => \E j \in 1 .. Len(r) : Old(j) = l
  <2> TAKE l \in 1 .. Len(s)
  <2> HAVE l # i
  <2>1. CASE l < i
    <3>1. l \in 1 .. Len(r) /\ Old(l) = l
      BY <1>0, <2>1
    <3> QED
      BY <3>1
  <2>2. CASE l > i
    <3>1. l - 1 \in 1 .. Len(r) /\ Old(l - 1) = l
      BY <1>0, <2>2
    <3> QED
      BY <3>1
  <2> QED
    BY <2>1, <2>2
<1> HIDE DEF Old
<1>4. Distinct(r)
  BY <1>0, <1>1, <1>2 DEF Distinct
<1>5. \A x : x \in ToSet(r) => x \in ToSet(s) \ {s[i]}
  BY <1>0, <1>1 DEF ToSet, Distinct
<1>6. ASSUME NEW x \in ToSet(s) \ {s[i]} PROVE x \in ToSet(r)
  <2>1. PICK l \in 1 .. Len(s) : s[l] = x
    BY SeqFacts
  <2>2. PICK j \in 1 .. Len(r) : Old(j) = l
    BY <2>1, <1>3
  <2>3. r[j] = x /\ j \in 1 .. Len(r)
    BY <2>1, <2>2, <1>1
  <2> QED
    BY <2>3, <1>0, SeqFacts
<1> QED
  BY <1>4, <1>5, <1>6 DEF r

(* The place of a task in a list it is in. *)
LEMMA PlaceFacts ==
  ASSUME NEW S, NEW s \in Seq(S), NEW e \in ToSet(s)
  PROVE  PlaceOf(s, e) \in 1 .. Len(s) /\ s[PlaceOf(s, e)] = e
BY SeqFacts DEF PlaceOf

(* A task leaves a list, if it is there; one joins at the end; the first   *)
(* leaves.                                                                 *)
LEMMA WithoutFacts ==
  ASSUME NEW S, NEW s \in Seq(S), NEW e, Distinct(s)
  PROVE  /\ Without(s, e) \in Seq(S)
         /\ ToSet(Without(s, e)) = ToSet(s) \ {e}
         /\ Distinct(Without(s, e))
         /\ e \notin ToSet(s) => Without(s, e) = s
BY PlaceFacts, RemoveFacts, Removed DEF Without

LEMMA AppendFacts ==
  ASSUME NEW S, NEW s \in Seq(S), NEW e \in S
  PROVE  /\ Append(s, e) \in Seq(S)
         /\ ToSet(Append(s, e)) = ToSet(s) \cup {e}
         /\ Distinct(s) /\ e \notin ToSet(s) => Distinct(Append(s, e))
<1>1. /\ Append(s, e) \in Seq(S) /\ Len(Append(s, e)) = Len(s) + 1 /\ Len(s) \in Nat
      /\ \A j \in 1 .. Len(s) + 1 : Append(s, e)[j] =
           IF j < Len(s) + 1 THEN s[j] ELSE IF j = Len(s) + 1 THEN e ELSE s[j - 1]
  OBVIOUS
<1>2. Len(s) + 1 \in 1 .. Len(s) + 1
  BY <1>1
<1> DEFINE r == Append(s, e)
<1> HIDE DEF r
<1>3. /\ r \in Seq(S) /\ Len(r) = Len(s) + 1
      /\ \A j \in 1 .. Len(s) + 1 :
           r[j] = IF j < Len(s) + 1 THEN s[j] ELSE IF j = Len(s) + 1 THEN e ELSE s[j - 1]
  BY <1>1 DEF r
<1> DEFINE m == Len(s) + 1
<1>4. /\ m \in 1 .. Len(s) + 1 /\ r \in Seq(S) /\ Len(r) = Len(s) + 1
      /\ \A j \in 1 .. Len(s) + 1 : r[j] = IF j < m THEN s[j] ELSE IF j = m THEN e ELSE s[j - 1]
  BY <1>2, <1>3
<1> HIDE DEF m
<1>5. ToSet(r) = ToSet(s) \cup {e} /\ (Distinct(s) /\ e \notin ToSet(s) => Distinct(r))
  BY <1>4, Inserted
<1> QED
  BY <1>3, <1>5 DEF r

LEMMA TailFacts ==
  ASSUME NEW S, NEW s \in Seq(S), s # <<>>, Distinct(s)
  PROVE  /\ Head(s) \in ToSet(s) /\ Head(s) \in S
         /\ Tail(s) \in Seq(S)
         /\ ToSet(Tail(s)) = ToSet(s) \ {Head(s)}
         /\ Distinct(Tail(s))
<1>1. 1 \in 1 .. Len(s) /\ Head(s) = s[1] /\ Tail(s) \in Seq(S) /\ Len(Tail(s)) = Len(s) - 1
  OBVIOUS
<1>2. RemoveAt(s, 1) = Tail(s)
  <2> DEFINE r == RemoveAt(s, 1)
  <2>1. 1 \in 1 .. Len(s) /\ Len(s) \in Nat
    OBVIOUS
  <2>2. /\ r \in Seq(S) /\ Len(r) = Len(s) - 1
        /\ \A j \in 1 .. Len(s) - 1 : r[j] = IF j < 1 THEN s[j] ELSE s[j + 1]
    BY <2>1, RemoveFacts, Zenon
  <2> HIDE DEF r
  <2>3. \A j \in 1 .. Len(s) - 1 : r[j] = s[j + 1]
    BY <2>1, <2>2
  <2>4. \A j \in 1 .. Len(s) - 1 : Tail(s)[j] = s[j + 1]
    BY HeadTailProperties
  <2>5. \A j \in 1 .. Len(r) : r[j] = Tail(s)[j]
    BY <2>2, <2>3, <2>4
  <2>6. Len(r) = Len(Tail(s)) /\ Tail(s) \in Seq(S)
    BY <1>1, <2>2
  <2>7. r = Tail(s)
    BY <2>2, <2>5, <2>6, SeqEqual, Zenon
  <2> QED
    BY <2>7 DEF r
<1>3. Head(s) \in ToSet(s) /\ Head(s) \in S
  BY <1>1, SeqFacts
<1> QED
  BY <1>1, <1>2, <1>3, Removed

-----------------------------------------------------------------------------
(* list.c. *)

Below == {p \in Nat \X Nat : p[1] < p[2]}

(* A set of natural numbers that is not empty has a least element. *)
LEMMA Least ==
  ASSUME NEW T \in SUBSET Nat, T # {}
  PROVE  LeastOf(T) \in T /\ \A y \in T : LeastOf(T) <= y
<1>1. IsWellFoundedOn(Below, Nat)
  BY NatLessThanWellFounded DEF OpToRel, Below
<1>2. PICK x \in T : \A y \in T : <<y, x>> \notin Below
  BY <1>1, WFMin, Zenon
<1>3. \A y \in T : y \in Nat /\ x \in Nat
  OBVIOUS
<1>4. \A y, z \in Nat : <<y, z>> \notin Below => z <= y
  BY DEF Below
<1>5. \E z \in T : \A y \in T : z <= y
  BY <1>2, <1>3, <1>4
<1> QED
  BY <1>5 DEF LeastOf

(* Induction, with a set for the predicate. *)
LEMMA SetInduction ==
  ASSUME NEW S, 0 \in S, \A n \in Nat : n \in S => n + 1 \in S
  PROVE  Nat \subseteq S
<1> SUFFICES ASSUME Nat \ S # {} PROVE FALSE
  OBVIOUS
<1> DEFINE x == LeastOf(Nat \ S)
<1>1. x \in Nat \ S /\ \A y \in Nat \ S : x <= y
  <2>1. Nat \ S \in SUBSET Nat
    OBVIOUS
  <2> QED
    BY <2>1, Least
<1> HIDE DEF x
<1>2. x # 0 /\ x - 1 \in Nat /\ x - 1 \notin Nat \ S
  BY <1>1
<1> QED
  BY <1>1, <1>2

(* A set of priorities that is not empty has a greatest one. *)
LEMMA Greatest ==
  ASSUME NEW T \in SUBSET Prios, T # {}, MAX_PRIORITIES \in Nat
  PROVE  GreatestOf(T) \in T /\ \A y \in T : y <= GreatestOf(T)
<1> DEFINE U == {MAX_PRIORITIES - p : p \in T}
           u == LeastOf(U)
<1>1. \A p \in T : p \in Int /\ 0 <= p /\ p <= MAX_PRIORITIES - 1
  BY DEF Prios
<1>2. U \in SUBSET Nat /\ U # {}
  BY <1>1
<1>3. u \in U /\ \A y \in U : u <= y
  BY <1>2, Least
<1> HIDE DEF u
<1>4. PICK p \in T : u = MAX_PRIORITIES - p
  BY <1>3
<1>5. \A y \in T : p >= y
  BY <1>1, <1>3, <1>4
<1>6. GreatestOf(T) \in T /\ \A y \in T : GreatestOf(T) >= y
  BY <1>4, <1>5 DEF GreatestOf
<1> QED
  BY <1>1, <1>6

LType == [items : Seq(Task), idx : Nat]
Sound(l) == Distinct(l.items) /\ l.idx <= Len(l.items)

(* One more task at place i. *)
LEMMA InsertedAt ==
  ASSUME NEW S, NEW s \in Seq(S), NEW i \in 1 .. Len(s), NEW e \in S
  PROVE  /\ InsertAt(s, i, e) \in Seq(S)
         /\ Len(InsertAt(s, i, e)) = Len(s) + 1
         /\ ToSet(InsertAt(s, i, e)) = ToSet(s) \cup {e}
         /\ Distinct(s) /\ e \notin ToSet(s) => Distinct(InsertAt(s, i, e))
<1> DEFINE r == InsertAt(s, i, e)
<1>1. /\ r \in Seq(S) /\ Len(r) = Len(s) + 1
      /\ \A j \in 1 .. Len(s) + 1 :
           r[j] = IF j < i THEN s[j] ELSE IF j = i THEN e ELSE s[j - 1]
  BY InsertFacts
<1>2. i \in 1 .. Len(s) + 1
  OBVIOUS
<1> HIDE DEF r
<1>3. ToSet(r) = ToSet(s) \cup {e} /\ (Distinct(s) /\ e \notin ToSet(s) => Distinct(r))
  BY <1>1, <1>2, Inserted
<1> QED
  BY <1>1, <1>3 DEF r

(* The functions of list.c keep a list sound: no task twice, and the walk's*)
(* place in the list.                                                      *)
LEMMA InsertEndFacts ==
  ASSUME NEW l \in LType, Sound(l), NEW t \in Task, t \notin ToSet(l.items)
  PROVE  LET r == vListInsertEnd(l, t) IN
         /\ r \in LType /\ Sound(r)
         /\ ToSet(r.items) = ToSet(l.items) \cup {t}
<1> DEFINE r == vListInsertEnd(l, t)
<1>0. /\ l.items \in Seq(Task) /\ l.idx \in Nat /\ Len(l.items) \in Nat
      /\ l.idx <= Len(l.items) /\ Distinct(l.items)
  BY DEF LType, Sound
<1>1. CASE l.idx = 0
  <2>1. r.items = Append(l.items, t) /\ r.idx = 0 /\ r \in LType
    BY <1>0, <1>1, AppendFacts DEF vListInsertEnd, LType
  <2> QED
    BY <1>0, <2>1, AppendFacts DEF Sound
<1>2. CASE l.idx # 0
  <2>1. l.idx \in 1 .. Len(l.items)
    BY <1>0, <1>2
  <2> DEFINE q == InsertAt(l.items, l.idx, t)
  <2>2. /\ q \in Seq(Task) /\ Len(q) = Len(l.items) + 1
        /\ ToSet(q) = ToSet(l.items) \cup {t} /\ Distinct(q)
    BY <1>0, <2>1, InsertedAt
  <2>3. r = [items |-> q, idx |-> l.idx + 1]
    BY <1>2 DEF vListInsertEnd
  <2> HIDE DEF q, r
  <2>6. r \in LType /\ Sound(r)
    BY <1>0, <2>2, <2>3 DEF LType, Sound
  <2> QED
    BY <2>2, <2>3, <2>6 DEF r
<1> QED
  BY <1>1, <1>2

LEMMA ListRemoveFacts ==
  ASSUME NEW l \in LType, Sound(l), NEW t \in ToSet(l.items)
  PROVE  LET r == uxListRemove(l, t) IN
         /\ r \in LType /\ Sound(r)
         /\ ToSet(r.items) = ToSet(l.items) \ {t}
         /\ r.items = <<>> <=> ToSet(r.items) = {}
<1> DEFINE r == uxListRemove(l, t)
           i == PlaceOf(l.items, t)
<1>0. /\ l.items \in Seq(Task) /\ l.idx \in Nat /\ Len(l.items) \in Nat
      /\ l.idx <= Len(l.items) /\ Distinct(l.items)
  BY DEF LType, Sound
<1>1. i \in 1 .. Len(l.items) /\ l.items[i] = t
  BY <1>0, PlaceFacts
<1>2. /\ RemoveAt(l.items, i) \in Seq(Task)
      /\ Len(RemoveAt(l.items, i)) = Len(l.items) - 1
      /\ ToSet(RemoveAt(l.items, i)) = ToSet(l.items) \ {t}
      /\ Distinct(RemoveAt(l.items, i))
  BY <1>0, <1>1, RemoveFacts, Removed
<1>3. r = [items |-> RemoveAt(l.items, i), idx |-> IF i <= l.idx THEN l.idx - 1 ELSE l.idx]
  BY DEF uxListRemove
<1> HIDE DEF r, i
<1>4. r \in LType /\ Sound(r)
  BY <1>0, <1>1, <1>2, <1>3 DEF LType, Sound
<1>5. r.items = RemoveAt(l.items, i)
  BY <1>3
<1> QED
  BY <1>2, <1>4, <1>5, SeqFacts DEF r

LEMMA WalkFacts ==
  ASSUME NEW l \in LType, Sound(l), l.items # <<>>
  PROVE  LET r == Walk(l) IN
         /\ r \in LType /\ Sound(r) /\ r.items = l.items
         /\ r.items[r.idx] \in ToSet(l.items)
<1> DEFINE r == Walk(l)
           n == Len(l.items)
<1>0. /\ l.items \in Seq(Task) /\ l.idx \in Nat /\ n \in Nat /\ n # 0
      /\ Distinct(l.items)
  BY SeqFacts DEF LType, Sound
<1>1. r = [items |-> l.items, idx |-> (l.idx % n) + 1]
  BY DEF Walk, LType
<1>2. l.idx % n \in 0 .. n - 1
  BY <1>0
<1> HIDE DEF r
<1>3. r \in LType /\ Sound(r) /\ r.items = l.items /\ r.idx \in 1 .. n
  BY <1>0, <1>1, <1>2 DEF LType, Sound
<1> QED
  BY <1>0, <1>3, SeqFacts DEF r

LEMMA ListInsertFacts ==
  ASSUME NEW list \in Seq(Task), NEW t \in Task, NEW value
  PROVE  LET r == vListInsert(list, t, value) IN
         /\ r \in Seq(Task) /\ ToSet(r) = ToSet(list) \cup {t}
         /\ Distinct(list) /\ t \notin ToSet(list) => Distinct(r)
<1> DEFINE later == {i \in DOMAIN list : value[list[i]] > value[t]}
           i == LeastOf(later)
<1>1. CASE later = {}
  BY <1>1, AppendFacts DEF vListInsert
<1>2. CASE later # {}
  <2>1. later \in SUBSET Nat /\ later \subseteq 1 .. Len(list) /\ Len(list) \in Nat
    BY SeqFacts
  <2>2. i \in later
    <3> HIDE DEF later
    <3> QED
      BY <1>2, <2>1, Least
  <2>3. i \in 1 .. Len(list) /\ i \in 1 .. Len(list) + 1
    BY <2>1, <2>2
  <2>4. vListInsert(list, t, value) = InsertAt(list, i, t)
    BY <1>2 DEF vListInsert
  <2> HIDE DEF i, later
  <2> QED
    BY <2>3, <2>4, InsertedAt
<1> QED
  BY <1>1, <1>2

-----------------------------------------------------------------------------
(* The ready lists and the bitmap. *)

States == {"none", "waiting", "received"}

KType ==
  [rl : [Prios -> LType], top : SUBSET Prios,
   prio : [Task -> Prios], held : [Task -> Int],
   delayed : Seq(Task), overflow : Seq(Task), suspended : SUBSET Task, pending : Seq(Task),
   wake : [Task -> Int], ev : [EventLists -> Seq(Task)],
   cur : Task, susp : BOOLEAN, ypend : BOOLEAN, pended : Nat,
   note : [Task -> [n : Nat, state : States]],
   term : SUBSET Task, gone : SUBSET Task, tick : Nat, over : Nat, next : Int]

(* The ready lists: each task is in that of its priority. *)
OwnList(s) ==
  \A p \in Prios : Sound(s.rl[p]) /\ \A t \in ToSet(s.rl[p].items) : s.prio[t] = p

(* The bitmap, but for one priority. *)
TopBut(s, q) == \A p \in Prios \ {q} : p \in s.top <=> s.rl[p].items # <<>>
TopExact(s) == s.top = {p \in Prios : s.rl[p].items # <<>>}

(* The ready list of a task. *)
LEMMA ReadyFacts ==
  ASSUME NEW s \in KType, NEW t \in Task
  PROVE  /\ s.prio[t] \in Prios /\ s.rl[s.prio[t]] \in LType
         /\ s.rl[s.prio[t]].items \in Seq(Task)
         /\ IsReady(s, t) <=> t \in ToSet(s.rl[s.prio[t]].items)
         /\ OwnList(s) => Sound(s.rl[s.prio[t]])
BY DEF KType, LType, IsReady, OwnList

(* prvAddTaskToReadyList sets the bit of the list it adds to, so that was  *)
(* the only one that might be wrong.                                       *)
LEMMA AddReady ==
  ASSUME NEW s \in KType, NEW t \in Task, OwnList(s), TopBut(s, s.prio[t]), ~IsReady(s, t)
  PROVE  LET r == prvAddTaskToReadyList(s, t) IN
         /\ r \in KType /\ OwnList(r) /\ TopExact(r)
         /\ r = [s EXCEPT !.rl = r.rl, !.top = r.top]
         /\ \A u \in Task : IsReady(r, u) <=> IsReady(s, u) \/ u = t
<1> DEFINE r == prvAddTaskToReadyList(s, t)
           p == s.prio[t]
           l == vListInsertEnd(s.rl[p], t)
<1>1. /\ l \in LType /\ Sound(l)
      /\ ToSet(l.items) = ToSet(s.rl[p].items) \cup {t}
  BY ReadyFacts, InsertEndFacts
<1>2. p \in Prios
  BY ReadyFacts
<1>3. r = [s EXCEPT !.rl[p] = l, !.top = s.top \cup {p}]
  BY DEF prvAddTaskToReadyList, KType
<1> HIDE DEF l, r
<1>4. /\ r \in KType /\ r.prio = s.prio
      /\ r.rl = [s.rl EXCEPT ![p] = l] /\ r.top = s.top \cup {p}
  BY <1>1, <1>2, <1>3 DEF KType
<1>5. r = [s EXCEPT !.rl = r.rl, !.top = r.top]
  BY <1>3, <1>4 DEF KType
<1> HIDE DEF p
<1>6. r.rl[p] = l /\ \A q \in Prios \ {p} : r.rl[q] = s.rl[q]
  BY <1>2, <1>4 DEF KType
<1>7. s.prio[t] = p
  BY DEF p
<1>8. OwnList(r)
  <2> SUFFICES ASSUME NEW q \in Prios
               PROVE  Sound(r.rl[q]) /\ \A u \in ToSet(r.rl[q].items) : r.prio[u] = q
    BY DEF OwnList
  <2>1. CASE q = p
    BY <1>1, <1>2, <1>4, <1>6, <1>7, <2>1 DEF OwnList
  <2>2. CASE q # p
    BY <1>4, <1>6, <2>2 DEF OwnList
  <2> QED
    BY <2>1, <2>2
<1>9. TopExact(r)
  <2>1. l.items # <<>>
    <3>1. l.items \in Seq(Task)
      BY <1>1 DEF LType
    <3>2. t \in ToSet(l.items)
      BY <1>1
    <3> QED
      BY <3>1, <3>2, SeqFacts
  <2>2. \A q \in Prios : q \in r.top <=> r.rl[q].items # <<>>
    BY <1>2, <1>4, <1>6, <1>7, <2>1 DEF TopBut
  <2>3. r.top \subseteq Prios
    BY <1>4 DEF KType
  <2> QED
    BY <2>2, <2>3 DEF TopExact
<1>10. ASSUME NEW u \in Task PROVE IsReady(r, u) <=> IsReady(s, u) \/ u = t
  <2>1. s.prio[u] \in Prios /\ r.prio[u] = s.prio[u]
    BY <1>4 DEF KType
  <2>2. CASE s.prio[u] = p
    BY <1>1, <1>6, <2>1, <2>2 DEF IsReady
  <2>3. CASE s.prio[u] # p
    BY <1>6, <1>7, <2>1, <2>3 DEF IsReady
  <2> QED
    BY <2>2, <2>3
<1> QED
  BY <1>4, <1>5, <1>8, <1>9, <1>10 DEF r

(* A task leaves its ready list; the bitmap is as it was. *)
LEMMA LeaveReady ==
  ASSUME NEW s \in KType, NEW t \in Task, OwnList(s), IsReady(s, t), NEW T \in SUBSET Prios
  PROVE  LET l == uxListRemove(s.rl[s.prio[t]], t)
             r == [s EXCEPT !.rl[s.prio[t]] = l, !.top = T] IN
         /\ r \in KType /\ OwnList(r)
         /\ r.rl[s.prio[t]] = l /\ \A q \in Prios \ {s.prio[t]} : r.rl[q] = s.rl[q]
         /\ \A u \in Task : IsReady(r, u) <=> IsReady(s, u) /\ u # t
<1> DEFINE p == s.prio[t]
           l == uxListRemove(s.rl[p], t)
           r == [s EXCEPT !.rl[p] = l, !.top = T]
<1>1. l \in LType /\ Sound(l) /\ ToSet(l.items) = ToSet(s.rl[p].items) \ {t}
  BY ReadyFacts, ListRemoveFacts
<1>2. p \in Prios
  BY ReadyFacts
<1> HIDE DEF l
<1>4. /\ r \in KType /\ r.prio = s.prio
      /\ r.rl = [s.rl EXCEPT ![p] = l]
  BY <1>1, <1>2 DEF KType
<1> HIDE DEF p, r
<1>6. r.rl[p] = l /\ \A q \in Prios \ {p} : r.rl[q] = s.rl[q]
  BY <1>2, <1>4 DEF KType
<1>7. s.prio[t] = p
  BY DEF p
<1>8. OwnList(r)
  <2> SUFFICES ASSUME NEW q \in Prios
               PROVE  Sound(r.rl[q]) /\ \A u \in ToSet(r.rl[q].items) : r.prio[u] = q
    BY DEF OwnList
  <2>1. CASE q = p
    BY <1>1, <1>2, <1>4, <1>6, <1>7, <2>1 DEF OwnList
  <2>2. CASE q # p
    BY <1>4, <1>6, <2>2 DEF OwnList
  <2> QED
    BY <2>1, <2>2
<1>10. ASSUME NEW u \in Task PROVE IsReady(r, u) <=> IsReady(s, u) /\ u # t
  <2>1. s.prio[u] \in Prios /\ r.prio[u] = s.prio[u]
    BY <1>4 DEF KType
  <2>2. CASE s.prio[u] = p
    BY <1>1, <1>6, <2>1, <2>2 DEF IsReady
  <2>3. CASE s.prio[u] # p
    BY <1>6, <1>7, <2>1, <2>3 DEF IsReady
  <2> QED
    BY <2>2, <2>3
<1> QED
  BY <1>4, <1>6, <1>8, <1>10 DEF r, p, l

-----------------------------------------------------------------------------
(* A task is in one list of six. *)

(* One of six. *)
OneOf(a, b, c, d, e, f) ==
  \/ a /\ ~b /\ ~c /\ ~d /\ ~e /\ ~f
  \/ ~a /\ b /\ ~c /\ ~d /\ ~e /\ ~f
  \/ ~a /\ ~b /\ c /\ ~d /\ ~e /\ ~f
  \/ ~a /\ ~b /\ ~c /\ d /\ ~e /\ ~f
  \/ ~a /\ ~b /\ ~c /\ ~d /\ e /\ ~f
  \/ ~a /\ ~b /\ ~c /\ ~d /\ ~e /\ f

InOne(s) ==
  /\ Distinct(s.delayed) /\ Distinct(s.overflow)
  /\ \A t \in Task : OneOf(IsReady(s, t), t \in ToSet(s.delayed), t \in ToSet(s.overflow),
                           t \in s.suspended, t \in s.term, t \in s.gone)

(* The lists and the bitmap. *)
RInv(s) == OwnList(s) /\ TopExact(s) /\ InOne(s)

(* What leaves a task's list, and what only touches the lists, changes no more. *)
SameRest(s, r) ==
  /\ r.prio = s.prio /\ r.held = s.held /\ r.pending = s.pending /\ r.ev = s.ev
  /\ r.cur = s.cur /\ r.susp = s.susp /\ r.ypend = s.ypend /\ r.pended = s.pended
  /\ r.note = s.note /\ r.term = s.term /\ r.gone = s.gone
  /\ r.tick = s.tick /\ r.over = s.over

(* A ready task leaves its list, and the bitmap follows. *)
LEMMA UnReadyFacts ==
  ASSUME NEW s \in KType, NEW t \in Task, OwnList(s), TopExact(s), IsReady(s, t)
  PROVE  LET r == UnReady(s, t) IN
         /\ r \in KType /\ OwnList(r) /\ TopExact(r)
         /\ SameRest(s, r) /\ r.delayed = s.delayed /\ r.overflow = s.overflow
         /\ r.suspended = s.suspended /\ r.wake = s.wake /\ r.next = s.next
         /\ \A u \in Task : IsReady(r, u) <=> IsReady(s, u) /\ u # t
<1> DEFINE p == s.prio[t]
           l == uxListRemove(s.rl[p], t)
           T == IF l.items = <<>> THEN s.top \ {p} ELSE s.top
           r == [s EXCEPT !.rl[p] = l, !.top = T]
<1>1. UnReady(s, t) = r
  BY DEF UnReady, KType
<1>2. T \in SUBSET Prios /\ p \in Prios
  <2>1. s.top \in SUBSET Prios /\ s.prio \in [Task -> Prios]
    BY SMTT(30) DEF KType
  <2> QED
    BY <2>1
<1>3. /\ r \in KType /\ OwnList(r)
      /\ r.rl[p] = l /\ \A q \in Prios \ {p} : r.rl[q] = s.rl[q]
      /\ \A u \in Task : IsReady(r, u) <=> IsReady(s, u) /\ u # t
  <2> HIDE DEF T
  <2> QED
    BY <1>2, LeaveReady
<1>4. /\ SameRest(s, r) /\ r.delayed = s.delayed /\ r.overflow = s.overflow
      /\ r.suspended = s.suspended /\ r.wake = s.wake /\ r.next = s.next /\ r.top = T
  <2> HIDE DEF T, l
  <2> QED
    BY DEF KType, SameRest
<1> HIDE DEF r
<1>5. TopExact(r)
  <2>0. T = IF r.rl[p].items = <<>> THEN s.top \ {p} ELSE s.top
    BY <1>3
  <2>2. p \in s.top
    BY <1>2, SeqFacts, SMTT(30) DEF TopExact, IsReady, KType, LType
  <2> HIDE DEF p, l, T
  <2>1. \A q \in Prios : q \in r.top <=> r.rl[q].items # <<>>
    <3> SUFFICES ASSUME NEW q \in Prios PROVE q \in r.top <=> r.rl[q].items # <<>>
      OBVIOUS
    <3>1. s.top = {x \in Prios : s.rl[x].items # <<>>}
      BY DEF TopExact
    <3>2. CASE q = p
      <4>1. q \in r.top <=> q \in T
        BY <1>4
      <4>2. q \in T <=> r.rl[q].items # <<>>
        <5>1. CASE r.rl[p].items = <<>>
          BY <5>1, <2>0, <3>2
        <5>2. CASE r.rl[p].items # <<>>
          <6>1. p \in s.top
            BY <2>2
          <6> QED
            BY <5>2, <2>0, <3>2, <6>1
        <5> QED
          BY <5>1, <5>2
      <4> QED
        BY <4>1, <4>2
    <3>3. CASE q # p
      BY <1>3, <1>4, <2>0, <3>1, <3>3
    <3> QED
      BY <3>2, <3>3
  <2> QED
    BY <1>2, <1>4, <2>1 DEF TopExact
<1> QED
  BY <1>1, <1>3, <1>4, <1>5

(* Readiness depends on the ready lists and priorities only. *)
LEMMA SameReady ==
  ASSUME NEW s, NEW r, r.rl = s.rl, r.prio = s.prio
  PROVE  /\ OwnList(s) => OwnList(r)
         /\ \A u \in Task : IsReady(r, u) <=> IsReady(s, u)
         /\ \A q : TopBut(s, q) /\ r.top = s.top => TopBut(r, q)
         /\ TopExact(s) /\ r.top = s.top => TopExact(r)
BY DEF OwnList, IsReady, TopBut, TopExact

(* A task leaves the list it is in, ready or blocked. The bitmap may now be*)
(* wrong for its priority.                                                 *)
LEMMA DetachFacts ==
  ASSUME NEW s \in KType, NEW t \in Task, RInv(s)
  PROVE  LET r == Detach(s, t) IN
         /\ r \in KType /\ OwnList(r) /\ TopBut(r, r.prio[t])
         /\ SameRest(s, r) /\ r.next = s.next
         /\ r.delayed \in Seq(Task) /\ Distinct(r.delayed) /\ ToSet(r.delayed) = ToSet(s.delayed) \ {t}
         /\ r.overflow \in Seq(Task) /\ Distinct(r.overflow) /\ ToSet(r.overflow) = ToSet(s.overflow) \ {t}
         /\ r.suspended = s.suspended \ {t}
         /\ \A u \in Task : IsReady(r, u) <=> IsReady(s, u) /\ u # t
<1> DEFINE p == s.prio[t]
           l == IF IsReady(s, t) THEN uxListRemove(s.rl[p], t) ELSE s.rl[p]
           m == [s EXCEPT !.rl[p] = l, !.top = s.top]
           D == Without(s.delayed, t)
           O == Without(s.overflow, t)
           r == Detach(s, t)
<1>1. p \in Prios /\ s.top \in SUBSET Prios
  BY ReadyFacts DEF KType
<1>2. /\ l \in LType /\ OwnList(m) /\ \A q \in Prios \ {p} : m.rl[q] = s.rl[q]
      /\ \A u \in Task : IsReady(m, u) <=> IsReady(s, u) /\ u # t
  <2>1. CASE IsReady(s, t)
    <3> DEFINE l1 == uxListRemove(s.rl[p], t)
               m1 == [s EXCEPT !.rl[p] = l1, !.top = s.top]
    <3>1. /\ OwnList(m1)
          /\ \A q \in Prios \ {p} : m1.rl[q] = s.rl[q]
          /\ \A u \in Task : IsReady(m1, u) <=> IsReady(s, u) /\ u # t
      BY <1>1, <2>1, LeaveReady DEF RInv
    <3>2. l1 \in LType
      BY <2>1, ReadyFacts, ListRemoveFacts DEF RInv
    <3>3. l = l1
      BY <2>1
    <3> HIDE DEF l1, l
    <3> QED
      BY <3>1, <3>2, <3>3, SMTT(30)
  <2>2. CASE ~IsReady(s, t)
    <3>1. l = s.rl[p] /\ l \in LType
      BY <2>2, ReadyFacts
    <3> HIDE DEF l
    <3>2. m = s
      BY <3>1, <1>1 DEF KType
    <3> HIDE DEF m
    <3> QED
      BY <3>1, <3>2, <2>2 DEF RInv
  <2> QED
    BY <2>1, <2>2
<1>3. /\ D \in Seq(Task) /\ Distinct(D) /\ ToSet(D) = ToSet(s.delayed) \ {t}
      /\ O \in Seq(Task) /\ Distinct(O) /\ ToSet(O) = ToSet(s.overflow) \ {t}
  <2>1. s.delayed \in Seq(Task) /\ s.overflow \in Seq(Task)
    BY DEF KType
  <2>2. Distinct(s.delayed) /\ Distinct(s.overflow)
    BY DEF RInv, InOne
  <2> QED
    BY <2>1, <2>2, WithoutFacts, Zenon
<1>4. r = [s EXCEPT !.delayed = D, !.overflow = O, !.suspended = s.suspended \ {t},
                    !.wake[t] = 0, !.rl[p] = l]
  BY DEF Detach, KType
<1> HIDE DEF r, l, D, O
<1>5. /\ m.rl = [s.rl EXCEPT ![p] = l] /\ m.prio = s.prio
  BY DEF KType
<1> HIDE DEF m
<1>6. /\ r \in KType /\ SameRest(s, r) /\ r.next = s.next /\ r.rl = m.rl /\ r.top = s.top
      /\ r.prio = m.prio /\ r.prio = s.prio
      /\ r.delayed = D /\ r.overflow = O /\ r.suspended = s.suspended \ {t}
  <2> HIDE DEF p
  <2>1. /\ r.rl = [s.rl EXCEPT ![p] = l] /\ r.top = s.top /\ r.prio = s.prio /\ r.next = s.next
        /\ r.delayed = D /\ r.overflow = O /\ r.suspended = s.suspended \ {t}
        /\ r.wake = [s.wake EXCEPT ![t] = 0] /\ SameRest(s, r)
    BY <1>4 DEF KType, SameRest
  <2>2. r \in KType
    <3> DEFINE R == [s.rl EXCEPT ![p] = l]
               W == [s.wake EXCEPT ![t] = 0]
    <3>1. R \in [Prios -> LType] /\ W \in [Task -> Int]
      BY <1>1, <1>2 DEF KType
    <3>2. s.suspended \ {t} \in SUBSET Task
      BY DEF KType
    <3>3. r = [s EXCEPT !.delayed = D, !.overflow = O, !.suspended = s.suspended \ {t},
                        !.wake = W, !.rl = R]
      BY <1>4 DEF KType
    <3> HIDE DEF R, W
    <3> QED
      BY <1>3, <3>1, <3>2, <3>3 DEF KType
  <2> QED
    BY <2>1, <2>2, <1>5
<1>7. /\ OwnList(r) /\ \A u \in Task : IsReady(r, u) <=> IsReady(m, u)
  BY <1>2, <1>6, SameReady
<1>8. TopBut(r, p)
  BY <1>2, <1>6 DEF TopBut, RInv, TopExact
<1> QED
  BY <1>2, <1>3, <1>6, <1>7, <1>8 DEF r

(* It is put right when the task is made ready. *)
LEMMA MakeReadyFacts ==
  ASSUME NEW s \in KType, NEW t \in Task, RInv(s), t \notin s.term, t \notin s.gone
  PROVE  LET r == MakeReady(s, t) IN
         /\ r \in KType /\ RInv(r) /\ SameRest(s, r)
         /\ \A u \in Task : IsReady(r, u) <=> IsReady(s, u) \/ u = t
         /\ Blocked(r) = Blocked(s) \ {t}
<1> DEFINE d == Detach(s, t)
           r == prvAddTaskToReadyList(d, t)
<1>1. /\ d \in KType /\ OwnList(d) /\ TopBut(d, d.prio[t])
      /\ SameRest(s, d)
      /\ d.delayed \in Seq(Task) /\ Distinct(d.delayed) /\ ToSet(d.delayed) = ToSet(s.delayed) \ {t}
      /\ d.overflow \in Seq(Task) /\ Distinct(d.overflow) /\ ToSet(d.overflow) = ToSet(s.overflow) \ {t}
      /\ d.suspended = s.suspended \ {t}
      /\ \A u \in Task : IsReady(d, u) <=> IsReady(s, u) /\ u # t
  BY DetachFacts
<1> HIDE DEF d
<1>2. /\ r \in KType /\ OwnList(r) /\ TopExact(r)
      /\ r = [d EXCEPT !.rl = r.rl, !.top = r.top]
      /\ \A u \in Task : IsReady(r, u) <=> IsReady(d, u) \/ u = t
  BY <1>1, AddReady
<1> HIDE DEF r
<1>3. /\ SameRest(d, r) /\ r.delayed = d.delayed /\ r.overflow = d.overflow
      /\ r.suspended = d.suspended
  BY <1>1, <1>2 DEF KType, SameRest
<1>4. SameRest(s, r) /\ r.term = s.term /\ r.gone = s.gone
  BY <1>1, <1>3 DEF SameRest
<1>5. \A u \in Task : IsReady(r, u) <=> IsReady(s, u) \/ u = t
  BY <1>1, <1>2
<1>6. InOne(r)
  <2>1. Distinct(r.delayed) /\ Distinct(r.overflow)
    BY <1>1, <1>3
  <2>2. ASSUME NEW u \in Task
        PROVE  OneOf(IsReady(r, u), u \in ToSet(r.delayed), u \in ToSet(r.overflow),
                     u \in r.suspended, u \in r.term, u \in r.gone)
    <3>1. OneOf(IsReady(s, u), u \in ToSet(s.delayed), u \in ToSet(s.overflow),
                u \in s.suspended, u \in s.term, u \in s.gone)
      BY DEF RInv, InOne
    <3>2. /\ u \in ToSet(r.delayed) <=> u \in ToSet(s.delayed) /\ u # t
          /\ u \in ToSet(r.overflow) <=> u \in ToSet(s.overflow) /\ u # t
          /\ u \in r.suspended <=> u \in s.suspended /\ u # t
          /\ u \in r.term <=> u \in s.term
          /\ u \in r.gone <=> u \in s.gone
          /\ IsReady(r, u) <=> IsReady(s, u) \/ u = t
      BY <1>1, <1>3, <1>4, <1>5
    <3> QED
      BY <3>1, <3>2 DEF OneOf
  <2> QED
    BY <2>1, <2>2 DEF InOne
<1>7. Blocked(r) = Blocked(s) \ {t}
  BY <1>1, <1>3 DEF Blocked
<1> QED
  BY <1>2, <1>4, <1>5, <1>6, <1>7 DEF RInv, MakeReady, r, d

-----------------------------------------------------------------------------
(* Event lists and pending tasks. Calm is what a step keeps that is not the*)
(* call of the task concerned.                                             *)

Waits(s, t) == \E e \in EventLists : t \in ToSet(s.ev[e])

(* The lists of those that wait for an event, and of those that are to be  *)
(* made ready when the scheduler resumes.                                  *)
Events(s) ==
  /\ \A e \in EventLists : Distinct(s.ev[e]) /\ ToSet(s.ev[e]) \subseteq Blocked(s)
  /\ \A e, f \in EventLists : e # f => ToSet(s.ev[e]) \cap ToSet(s.ev[f]) = {}
  /\ \A t \in ToSet(s.pending) : ~Waits(s, t) /\ t \notin s.term /\ t \notin s.gone

LInv(s) == s \in KType /\ RInv(s) /\ Events(s)

Waiting(s, t) == s.note[t].state = "waiting"

(* What everything but a task's own call keeps. *)
Calm(s, r) ==
  /\ r.cur = s.cur /\ r.susp = s.susp /\ r.term = s.term /\ r.gone = s.gone
  /\ \A t \in Task : IsReady(s, t) => IsReady(r, t)
  /\ \A t \in Task : Waits(r, t) => Waits(s, t)
  /\ \A t \in Task : Waiting(r, t) => Waiting(s, t)
  /\ \A t \in ToSet(r.pending) : t \in ToSet(s.pending) \/ Waits(s, t) \/ Waiting(s, t)
  /\ ~s.susp => r.pending = s.pending

(* Calm of no change, and of two steps one after the other. *)
LEMMA CalmSame == ASSUME NEW s PROVE Calm(s, s)
BY DEF Calm

LEMMA CalmThen ==
  ASSUME NEW s \in KType, NEW r \in KType, NEW u \in KType, Calm(s, r), Calm(r, u)
  PROVE  Calm(s, u)
<1>1. ToSet(u.pending) \subseteq Task
  BY SeqFacts DEF KType
<1> QED
  BY <1>1 DEF Calm

(* Variables other than the lists. *)
SameLists(s, r) ==
  /\ r.rl = s.rl /\ r.top = s.top /\ r.prio = s.prio
  /\ r.delayed = s.delayed /\ r.overflow = s.overflow /\ r.suspended = s.suspended
  /\ r.ev = s.ev /\ r.term = s.term /\ r.gone = s.gone
  /\ r.pending = s.pending \/ r.pending = <<>>

(* A step that changes no list keeps LInv and is calm. *)
LEMMA SameListsInv ==
  ASSUME NEW s, NEW r \in KType, LInv(s), SameLists(s, r)
  PROVE  LInv(r)
<1>1. RInv(r)
  <2>1. OwnList(r) /\ TopExact(r) /\ \A u \in Task : IsReady(r, u) <=> IsReady(s, u)
    BY SameReady DEF SameLists, LInv, RInv
  <2>2. InOne(r)
    BY <2>1 DEF SameLists, LInv, RInv, InOne, OneOf
  <2> QED
    BY <2>1, <2>2 DEF RInv
<1>2. Events(r)
  <2>1. Blocked(r) = Blocked(s) /\ \A t : Waits(r, t) <=> Waits(s, t)
    BY DEF SameLists, Blocked, Waits
  <2>2. \A t \in ToSet(r.pending) : t \in ToSet(s.pending)
    BY DEF SameLists, ToSet
  <2> QED
    BY <2>1, <2>2 DEF SameLists, LInv, Events
<1> QED
  BY <1>1, <1>2 DEF LInv

LEMMA SameListsCalm ==
  ASSUME NEW s, NEW r, SameLists(s, r), r.pending = s.pending,
         r.cur = s.cur, r.susp = s.susp, r.note = s.note
  PROVE  Calm(s, r)
<1>1. \A u \in Task : IsReady(r, u) <=> IsReady(s, u)
  BY DEF SameLists, IsReady
<1>2. \A t : Waits(r, t) <=> Waits(s, t)
  BY DEF SameLists, Waits
<1> QED
  BY <1>1, <1>2 DEF Calm, SameLists, Waiting

(* A task that waits for no event, and was not deleted, is made ready. *)
LEMMA MakeReadyInv ==
  ASSUME NEW s, LInv(s), NEW t \in Task, ~Waits(s, t), t \notin s.term, t \notin s.gone
  PROVE  LET r == MakeReady(s, t) IN LInv(r) /\ Calm(s, r) /\ r.note = s.note
<1> DEFINE r == MakeReady(s, t)
<1>1. /\ r \in KType /\ RInv(r) /\ SameRest(s, r)
      /\ \A u \in Task : IsReady(r, u) <=> IsReady(s, u) \/ u = t
      /\ Blocked(r) = Blocked(s) \ {t}
  BY MakeReadyFacts DEF LInv
<1> HIDE DEF r
<1>2. \A u : Waits(r, u) <=> Waits(s, u)
  BY <1>1 DEF SameRest, Waits
<1>3. Events(r)
  <2>1. ASSUME NEW e \in EventLists PROVE Distinct(r.ev[e]) /\ ToSet(r.ev[e]) \subseteq Blocked(r)
    BY <1>1 DEF SameRest, LInv, Events, Waits
  <2>2. \A e, f \in EventLists : e # f => ToSet(r.ev[e]) \cap ToSet(r.ev[f]) = {}
    BY <1>1 DEF SameRest, LInv, Events
  <2>3. \A u \in ToSet(r.pending) : ~Waits(r, u) /\ u \notin r.term /\ u \notin r.gone
    BY <1>1, <1>2 DEF SameRest, LInv, Events
  <2> QED
    BY <2>1, <2>2, <2>3 DEF Events
<1>4. Calm(s, r)
  BY <1>1, <1>2 DEF Calm, SameRest, Waiting
<1> QED
  BY <1>1, <1>3, <1>4 DEF LInv, SameRest, r

(* Fewer wait for events. *)
LEMMA FewerWait ==
  ASSUME NEW s, LInv(s), NEW E \in [EventLists -> Seq(Task)],
         \A e \in EventLists : Distinct(E[e]) /\ ToSet(E[e]) \subseteq ToSet(s.ev[e])
  PROVE  LET r == [s EXCEPT !.ev = E] IN
         /\ LInv(r) /\ Calm(s, r) /\ r.note = s.note /\ r.pending = s.pending
<1> DEFINE r == [s EXCEPT !.ev = E]
<1>1. r \in KType /\ r.ev = E
  BY DEF LInv, KType
<1>2. /\ r.rl = s.rl /\ r.top = s.top /\ r.prio = s.prio
      /\ r.delayed = s.delayed /\ r.overflow = s.overflow /\ r.suspended = s.suspended
      /\ r.term = s.term /\ r.gone = s.gone /\ r.pending = s.pending
      /\ r.cur = s.cur /\ r.susp = s.susp /\ r.note = s.note
  BY DEF LInv, KType
<1> HIDE DEF r
<1>3. /\ OwnList(r) /\ TopExact(r)
      /\ \A u \in Task : IsReady(r, u) <=> IsReady(s, u)
  BY <1>2, SameReady DEF LInv, RInv
<1>4. RInv(r)
  BY <1>2, <1>3 DEF LInv, RInv, InOne, OneOf
<1>5. \A t : Waits(r, t) => Waits(s, t)
  BY <1>1 DEF Waits
<1>6. Blocked(r) = Blocked(s)
  BY <1>2 DEF Blocked
<1>7. Events(r)
  <2>1. \A e \in EventLists : Distinct(r.ev[e]) /\ ToSet(r.ev[e]) \subseteq Blocked(r)
    BY <1>1, <1>6 DEF LInv, Events
  <2>2. \A e, f \in EventLists : e # f => ToSet(r.ev[e]) \cap ToSet(r.ev[f]) = {}
    BY <1>1 DEF LInv, Events
  <2>3. \A u \in ToSet(r.pending) : ~Waits(r, u) /\ u \notin r.term /\ u \notin r.gone
    BY <1>2, <1>5 DEF LInv, Events
  <2> QED
    BY <2>1, <2>2, <2>3 DEF Events
<1>8. Calm(s, r)
  BY <1>2, <1>3, <1>5 DEF Calm, Waiting
<1> QED
  BY <1>1, <1>2, <1>4, <1>7, <1>8 DEF LInv, r

(* One more is to be made ready later. *)
LEMMA MorePending ==
  ASSUME NEW s, LInv(s), NEW t \in Task, ~Waits(s, t), t \notin s.term, t \notin s.gone
  PROVE  LET r == [s EXCEPT !.pending = Append(@, t)] IN
         /\ LInv(r)
         /\ r.cur = s.cur /\ r.susp = s.susp /\ r.term = s.term /\ r.gone = s.gone
         /\ r.note = s.note /\ r.ev = s.ev /\ ToSet(r.pending) = ToSet(s.pending) \cup {t}
         /\ \A u \in Task : IsReady(r, u) <=> IsReady(s, u)
<1> DEFINE a == Append(s.pending, t)
           r == [s EXCEPT !.pending = a]
<1>1. a \in Seq(Task) /\ ToSet(a) = ToSet(s.pending) \cup {t}
  BY AppendFacts DEF LInv, KType
<1> HIDE DEF a
<1>2. r \in KType
  BY <1>1 DEF LInv, KType
<1>3. /\ r.rl = s.rl /\ r.top = s.top /\ r.prio = s.prio /\ r.ev = s.ev
      /\ r.delayed = s.delayed /\ r.overflow = s.overflow /\ r.suspended = s.suspended
      /\ r.term = s.term /\ r.gone = s.gone /\ r.pending = a
      /\ r.cur = s.cur /\ r.susp = s.susp /\ r.note = s.note
  BY DEF LInv, KType
<1>4. r = [s EXCEPT !.pending = Append(@, t)]
  BY DEF a
<1> HIDE DEF r
<1>5. /\ OwnList(r) /\ TopExact(r)
      /\ \A u \in Task : IsReady(r, u) <=> IsReady(s, u)
  BY <1>3, SameReady DEF LInv, RInv
<1>6. RInv(r)
  BY <1>3, <1>5 DEF LInv, RInv, InOne, OneOf
<1>7. Blocked(r) = Blocked(s) /\ \A u : Waits(r, u) <=> Waits(s, u)
  BY <1>3 DEF Blocked, Waits
<1>8. Events(r)
  BY <1>1, <1>3, <1>7 DEF LInv, Events
<1> QED
  BY <1>1, <1>2, <1>3, <1>4, <1>5, <1>6, <1>8 DEF LInv

(* A blocked task is in no list of the others; a task that waits for an    *)
(* event is blocked.                                                       *)
LEMMA BlockedFacts ==
  ASSUME NEW s, LInv(s), NEW t \in Blocked(s)
  PROVE  t \in Task /\ ~IsReady(s, t) /\ t \notin s.term /\ t \notin s.gone
<1>1. t \in Task
  BY SeqFacts DEF LInv, KType, Blocked
<1>2. OneOf(IsReady(s, t), t \in ToSet(s.delayed), t \in ToSet(s.overflow),
            t \in s.suspended, t \in s.term, t \in s.gone)
  BY <1>1 DEF LInv, RInv, InOne
<1> QED
  BY <1>1, <1>2 DEF Blocked, OneOf

LEMMA WaitsFacts ==
  ASSUME NEW s, LInv(s), NEW t, Waits(s, t)
  PROVE  t \in Blocked(s)
BY DEF LInv, Events, Waits

(* xYieldPending and xNextTaskUnblockTime are no lists. *)
LEMMA Ypend ==
  ASSUME NEW s, LInv(s), NEW b \in BOOLEAN
  PROVE  LET r == [s EXCEPT !.ypend = b] IN
         LInv(r) /\ Calm(s, r) /\ r.note = s.note
<1> DEFINE r == [s EXCEPT !.ypend = b]
<1>1. r \in KType /\ SameLists(s, r)
      /\ r.pending = s.pending /\ r.cur = s.cur /\ r.susp = s.susp /\ r.note = s.note
  BY DEF LInv, KType, SameLists
<1> HIDE DEF r
<1> QED
  BY <1>1, SameListsInv, SameListsCalm DEF r

LEMMA ResetNext ==
  ASSUME NEW s, LInv(s)
  PROVE  LET r == prvResetNextTaskUnblockTime(s) IN LInv(r) /\ Calm(s, r)
<1> DEFINE n == IF s.delayed = <<>> THEN MAX_DELAY ELSE s.wake[Head(s.delayed)]
           r == [s EXCEPT !.next = n]
<1>1. n \in Int
  <2>1. s.delayed # <<>> => Head(s.delayed) \in Task
    BY DEF LInv, KType
  <2>2. MAX_DELAY \in Int
    BY KernelAssumption DEF MAX_DELAY
  <2> QED
    BY <2>1, <2>2 DEF LInv, KType
<1>2. prvResetNextTaskUnblockTime(s) = r
  BY DEF prvResetNextTaskUnblockTime
<1> HIDE DEF n
<1>3. r \in KType /\ SameLists(s, r)
      /\ r.pending = s.pending /\ r.cur = s.cur /\ r.susp = s.susp /\ r.note = s.note
  BY <1>1 DEF LInv, KType, SameLists
<1> HIDE DEF r
<1> QED
  BY <1>2, <1>3, SameListsInv, SameListsCalm

(* A task that a queue or mutex wakes. *)
LEMMA RemoveEvent ==
  ASSUME NEW s, LInv(s), NEW e \in EventLists, s.ev[e] # <<>>
  PROVE  LET r == xTaskRemoveFromEventList(s, e) IN LInv(r.s) /\ Calm(s, r.s)
<1> DEFINE t == Head(s.ev[e])
           E == [s.ev EXCEPT ![e] = Tail(@)]
           m == [s EXCEPT !.ev = E]
           u == IF s.susp THEN [m EXCEPT !.pending = Append(@, t)] ELSE MakeReady(m, t)
           b == u.ypend \/ s.prio[t] > s.prio[s.cur]
<1>0. s \in KType /\ s.ev \in [EventLists -> Seq(Task)]
  BY DEF LInv, KType
<1>1. /\ t \in ToSet(s.ev[e]) /\ t \in Task
      /\ Tail(s.ev[e]) \in Seq(Task) /\ ToSet(Tail(s.ev[e])) = ToSet(s.ev[e]) \ {t}
      /\ Distinct(Tail(s.ev[e]))
  BY <1>0, TailFacts DEF LInv, Events
<1>2. /\ E \in [EventLists -> Seq(Task)]
      /\ \A f \in EventLists : Distinct(E[f]) /\ ToSet(E[f]) \subseteq ToSet(s.ev[f])
      /\ \A f \in EventLists : t \notin ToSet(E[f])
  BY <1>0, <1>1 DEF LInv, Events
<1>3. xTaskRemoveFromEventList(s, e).s = [u EXCEPT !.ypend = b]
  BY <1>0 DEF xTaskRemoveFromEventList, MakeReady
<1>4. m.ev = E /\ m.pending = s.pending /\ m.susp = s.susp
  BY <1>0 DEF KType
<1> HIDE DEF E, t
<1>5. LInv(m) /\ Calm(s, m) /\ m.note = s.note
  BY <1>2, FewerWait
<1>6. ~Waits(m, t) /\ t \notin m.term /\ t \notin m.gone /\ Waits(s, t)
  <2>1. Waits(s, t)
    BY <1>1 DEF Waits
  <2> QED
    BY <1>2, <1>4, <1>5, <2>1, WaitsFacts, BlockedFacts DEF Waits, Calm
<1> HIDE DEF m
<1>7. LInv(u) /\ Calm(s, u)
  <2>1. CASE s.susp
    <3> DEFINE a == [m EXCEPT !.pending = Append(@, t)]
    <3>1. /\ LInv(a) /\ a.cur = m.cur /\ a.susp = m.susp /\ a.term = m.term /\ a.gone = m.gone
          /\ a.note = m.note /\ a.ev = m.ev /\ ToSet(a.pending) = ToSet(m.pending) \cup {t}
          /\ \A v \in Task : IsReady(a, v) <=> IsReady(m, v)
      BY <1>1, <1>5, <1>6, MorePending, ZenonT(60)
    <3>2. u = a
      BY <2>1
    <3> HIDE DEF a
    <3>3. \A v : Waits(a, v) <=> Waits(m, v)
      BY <3>1 DEF Waits
    <3>4. Calm(s, a)
      BY <2>1, <3>1, <3>3, <1>4, <1>5, <1>6 DEF Calm, Waiting
    <3> QED
      BY <3>1, <3>2, <3>4
  <2>2. CASE ~s.susp
    <3>1. LInv(MakeReady(m, t)) /\ Calm(m, MakeReady(m, t))
      BY <1>1, <1>5, <1>6, MakeReadyInv
    <3>2. u = MakeReady(m, t)
      BY <2>2
    <3> HIDE DEF u
    <3> QED
      BY <3>1, <3>2, <1>0, <1>5, CalmThen DEF LInv
  <2> QED
    BY <2>1, <2>2
<1> HIDE DEF u
<1>8. b \in BOOLEAN
  OBVIOUS
<1> HIDE DEF b
<1>9. LInv([u EXCEPT !.ypend = b]) /\ Calm(u, [u EXCEPT !.ypend = b])
  BY <1>7, <1>8, Ypend
<1> QED
  BY <1>0, <1>3, <1>7, <1>9, CalmThen DEF LInv

(* A notification: only a task that waits for one is woken. *)
LEMMA NotifyFacts ==
  ASSUME NEW s, LInv(s), NEW t \in Task,
         Waiting(s, t) => ~Waits(s, t) /\ t \notin s.term /\ t \notin s.gone
  PROVE  LET r == Notify(s, t) IN LInv(r.s) /\ Calm(s, r.s)
<1> DEFINE v == [n |-> s.note[t].n + 1, state |-> "received"]
           N == [s.note EXCEPT ![t] = v]
           m == [s EXCEPT !.note = N]
           u == IF s.susp THEN [m EXCEPT !.pending = Append(@, t)] ELSE MakeReady(m, t)
<1>0. s \in KType
  BY DEF LInv
<1>1. N \in [Task -> [n : Nat, state : States]]
  <2>1. v \in [n : Nat, state : States]
    BY <1>0 DEF KType, States
  <2> QED
    BY <1>0, <2>1 DEF KType
<1>2. \A x \in Task : N[x].state = "waiting" => s.note[x].state = "waiting" /\ x # t
  BY <1>0 DEF KType
<1>3. Notify(s, t).s = IF s.note[t].state # "waiting" THEN m ELSE u
  BY <1>0 DEF Notify, MakeReady, KType
<1> HIDE DEF N
<1>4. m \in KType /\ SameLists(s, m) /\ m.note = N /\ m.pending = s.pending
      /\ m.cur = s.cur /\ m.susp = s.susp /\ m.term = s.term /\ m.gone = s.gone /\ m.ev = s.ev
  BY <1>0, <1>1 DEF KType, SameLists
<1> HIDE DEF m
<1>5. LInv(m) /\ \A x : Waits(m, x) <=> Waits(s, x)
  BY <1>4, SameListsInv DEF Waits
<1>6. Calm(s, m)
  <2>1. \A x \in Task : IsReady(m, x) <=> IsReady(s, x)
    BY <1>4 DEF SameLists, IsReady
  <2> QED
    BY <1>2, <1>4, <1>5, <2>1 DEF Calm, Waiting
<1>7. CASE ~Waiting(s, t)
  BY <1>3, <1>5, <1>6, <1>7 DEF Waiting
<1>8. CASE Waiting(s, t)
  <2>0. ~Waits(m, t) /\ t \notin m.term /\ t \notin m.gone
    BY <1>4, <1>5, <1>8
  <2>1. CASE s.susp
    <3> DEFINE a == [m EXCEPT !.pending = Append(@, t)]
    <3>1. /\ LInv(a) /\ a.cur = m.cur /\ a.susp = m.susp /\ a.term = m.term /\ a.gone = m.gone
          /\ a.note = m.note /\ a.ev = m.ev /\ ToSet(a.pending) = ToSet(m.pending) \cup {t}
          /\ \A x \in Task : IsReady(a, x) <=> IsReady(m, x)
      BY <1>5, <2>0, MorePending
    <3>2. Notify(s, t).s = a
      BY <2>1, <1>3, <1>8 DEF Waiting
    <3> HIDE DEF a
    <3>3. \A x : Waits(a, x) <=> Waits(m, x)
      BY <3>1 DEF Waits
    <3>4. Calm(s, a)
      BY <2>1, <3>1, <3>3, <1>4, <1>6, <1>8 DEF Calm, Waiting
    <3> QED
      BY <3>1, <3>2, <3>4
  <2>2. CASE ~s.susp
    <3>1. LInv(MakeReady(m, t)) /\ Calm(m, MakeReady(m, t))
      BY <1>5, <2>0, MakeReadyInv
    <3>2. Notify(s, t).s = MakeReady(m, t)
      BY <2>2, <1>3, <1>8 DEF Waiting
    <3> QED
      BY <3>1, <3>2, <1>0, <1>5, <1>6, CalmThen DEF LInv
  <2> QED
    BY <2>1, <2>2
<1> QED
  BY <1>7, <1>8

-----------------------------------------------------------------------------
(* Waking, changing a priority. *)

(* A task whose time has come leaves the event list it is in. It makes no  *)
(* difference whether before or after it leaves the delayed list.          *)
LEMMA LeaveEventFacts ==
  ASSUME NEW s, LInv(s), NEW t \in Task
  PROVE  LET r == LeaveEvent(s, t) IN
         LInv(r) /\ Calm(s, r) /\ r.note = s.note /\ r.pending = s.pending /\ ~Waits(r, t)
<1> DEFINE E == [e \in EventLists |-> Without(s.ev[e], t)]
           r == [s EXCEPT !.ev = E]
<1>1. /\ E \in [EventLists -> Seq(Task)]
      /\ \A e \in EventLists : Distinct(E[e]) /\ ToSet(E[e]) = ToSet(s.ev[e]) \ {t}
  BY WithoutFacts DEF LInv, KType, Events
<1>2. LeaveEvent(s, t) = r
  BY DEF LeaveEvent
<1> HIDE DEF E
<1>3. r.ev = E
  BY DEF LInv, KType
<1>4. LInv(r) /\ Calm(s, r) /\ r.note = s.note /\ r.pending = s.pending
  BY <1>1, FewerWait
<1> QED
  BY <1>1, <1>2, <1>3, <1>4 DEF Waits

LEMMA WakeupOrder ==
  ASSUME NEW s, LInv(s), NEW t \in Task
  PROVE  Wakeup(s, t) = MakeReady(LeaveEvent(s, t), t)
<1> DEFINE E == [e \in EventLists |-> Without(s.ev[e], t)]
           p == s.prio[t]
           D == Without(s.delayed, t)
           O == Without(s.overflow, t)
           W == [s.wake EXCEPT ![t] = 0]
           l == IF IsReady(s, t) THEN uxListRemove(s.rl[p], t) ELSE s.rl[p]
           R == [s.rl EXCEPT ![p] = l]
           X == s.suspended \ {t}
           R2 == [R EXCEPT ![p] = vListInsertEnd(@, t)]
           T2 == s.top \cup {p}
           d == [s EXCEPT !.delayed = D, !.overflow = O, !.suspended = X, !.wake = W, !.rl = R]
           dx == [d EXCEPT !.ev = E]
           x == [s EXCEPT !.ev = E]
           xd == [x EXCEPT !.delayed = D, !.overflow = O, !.suspended = X, !.wake = W, !.rl = R]
<1>0. s \in KType
  BY DEF LInv
<1>1. LeaveEvent(s, t) = x
  BY DEF LeaveEvent
<1>2. Detach(s, t) = d
  BY <1>0 DEF Detach, KType
<1>3. Detach(x, t) = xd
  <2>1. x \in KType
    BY <1>1, LeaveEventFacts DEF LInv
  <2>2. /\ x.delayed = s.delayed /\ x.overflow = s.overflow /\ x.suspended = s.suspended
        /\ x.wake = s.wake /\ x.rl = s.rl /\ x.prio = s.prio
    BY <1>0 DEF KType
  <2> HIDE DEF x
  <2>3. IsReady(x, t) <=> IsReady(s, t)
    BY <2>2 DEF IsReady
  <2>4. Detach(x, t) =
          [x EXCEPT !.delayed = Without(x.delayed, t), !.overflow = Without(x.overflow, t),
            !.suspended = x.suspended \ {t}, !.wake = [x.wake EXCEPT ![t] = 0],
            !.rl = [x.rl EXCEPT ![x.prio[t]] =
                      IF IsReady(x, t) THEN uxListRemove(x.rl[x.prio[t]], t) ELSE x.rl[x.prio[t]]]]
    BY <2>1 DEF Detach, KType
  <2>5. (IF IsReady(x, t) THEN uxListRemove(x.rl[x.prio[t]], t) ELSE x.rl[x.prio[t]]) = l
    BY <2>2, <2>3
  <2> HIDE DEF l
  <2> QED
    BY <2>2, <2>4, <2>5
<1> HIDE DEF D, O, W, l, X
<1>4. d.ev = s.ev
  BY <1>0 DEF KType
<1>5. LeaveEvent(d, t) = dx
  <2> HIDE DEF d
  <2> QED
    BY <1>4 DEF LeaveEvent
<1>6. dx.prio = s.prio /\ dx.rl = R /\ dx.top = s.top /\ xd.prio = s.prio /\ xd.rl = R /\ xd.top = s.top
  <2> HIDE DEF R, E
  <2> QED
    BY <1>0 DEF KType
<1>7. prvAddTaskToReadyList(dx, t) = [dx EXCEPT !.rl = R2, !.top = T2]
  <2> HIDE DEF dx, R
  <2> QED
    BY <1>6 DEF prvAddTaskToReadyList
<1>8. prvAddTaskToReadyList(xd, t) = [xd EXCEPT !.rl = R2, !.top = T2]
  <2> HIDE DEF xd, R
  <2> QED
    BY <1>6 DEF prvAddTaskToReadyList
<1>9. [dx EXCEPT !.rl = R2, !.top = T2] = [xd EXCEPT !.rl = R2, !.top = T2]
  <2> HIDE DEF R, E, R2, T2
  <2> QED
    BY <1>0 DEF KType
<1> HIDE DEF dx, xd, d, x
<1> QED
  BY <1>1, <1>2, <1>3, <1>5, <1>7, <1>8, <1>9 DEF Wakeup, MakeReady

LEMMA WakeupFacts ==
  ASSUME NEW s, LInv(s), NEW t \in Task, t \notin s.term, t \notin s.gone
  PROVE  LInv(Wakeup(s, t)) /\ Calm(s, Wakeup(s, t))
<1> DEFINE x == LeaveEvent(s, t)
<1>1. LInv(x) /\ Calm(s, x) /\ ~Waits(x, t)
  BY LeaveEventFacts
<1>2. t \notin x.term /\ t \notin x.gone
  BY <1>1 DEF Calm
<1> HIDE DEF x
<1>3. LInv(MakeReady(x, t)) /\ Calm(x, MakeReady(x, t))
  BY <1>1, <1>2, MakeReadyInv
<1>4. Wakeup(s, t) = MakeReady(x, t)
  BY WakeupOrder DEF x
<1> QED
  BY <1>1, <1>3, <1>4, CalmThen DEF LInv

(* All else stays as it is when only the ready lists and the bitmap change. *)
LEMMA ReadyListsOnly ==
  ASSUME NEW s \in KType, NEW r, r = [s EXCEPT !.rl = r.rl, !.top = r.top]
  PROVE  /\ SameRest(s, r) /\ r.delayed = s.delayed /\ r.overflow = s.overflow
         /\ r.suspended = s.suspended
<1> DEFINE R == r.rl
           T == r.top
<1> HIDE DEF R, T
<1>1. r = [s EXCEPT !.rl = R, !.top = T]
  BY DEF R, T
<1>2. /\ r.delayed = s.delayed /\ r.overflow = s.overflow /\ r.suspended = s.suspended
      /\ r.prio = s.prio /\ r.held = s.held /\ r.pending = s.pending /\ r.ev = s.ev
      /\ r.cur = s.cur /\ r.susp = s.susp /\ r.ypend = s.ypend /\ r.pended = s.pended
      /\ r.note = s.note /\ r.term = s.term /\ r.gone = s.gone
      /\ r.tick = s.tick /\ r.over = s.over
  BY <1>1 DEF KType
<1> QED
  BY <1>2 DEF SameRest

(* A holder that inherits a priority, or gives it back. *)
LEMMA SetPriorityFacts ==
  ASSUME NEW s, LInv(s), NEW t \in Task, NEW p \in Prios
  PROVE  LET r == SetPriority(s, t, p) IN
         /\ LInv(r) /\ Calm(s, r) /\ r.note = s.note /\ r.pending = s.pending /\ r.ev = s.ev
         /\ \A u \in Task : IsReady(r, u) <=> IsReady(s, u)
<1> DEFINE P == [s.prio EXCEPT ![t] = p]
           r == SetPriority(s, t, p)
<1>0. s \in KType /\ RInv(s) /\ OwnList(s) /\ TopExact(s) /\ Events(s)
      /\ P \in [Task -> Prios]
  BY DEF LInv, RInv, KType
<1>1. /\ r \in KType /\ OwnList(r) /\ TopExact(r)
      /\ r.delayed = s.delayed /\ r.overflow = s.overflow /\ r.suspended = s.suspended
      /\ r.ev = s.ev /\ r.term = s.term /\ r.gone = s.gone
      /\ r.pending = s.pending /\ r.cur = s.cur /\ r.susp = s.susp /\ r.note = s.note
      /\ \A u \in Task : IsReady(r, u) <=> IsReady(s, u)
  <2>1. CASE IsReady(s, t)
    <3> DEFINE a == UnReady(s, t)
               b == [a EXCEPT !.prio = P]
               c == prvAddTaskToReadyList(b, t)
    <3>1. /\ a \in KType /\ OwnList(a) /\ TopExact(a)
          /\ SameRest(s, a) /\ a.delayed = s.delayed /\ a.overflow = s.overflow
          /\ a.suspended = s.suspended
          /\ \A u \in Task : IsReady(a, u) <=> IsReady(s, u) /\ u # t
      BY <1>0, <2>1, UnReadyFacts
    <3>2. r = c
      BY <2>1, <3>1 DEF SetPriority, SameRest
    <3> HIDE DEF a
    <3>3. /\ b \in KType /\ b.rl = a.rl /\ b.prio = P /\ b.top = a.top
          /\ SameRest([s EXCEPT !.prio = P], b)
          /\ b.delayed = s.delayed /\ b.overflow = s.overflow /\ b.suspended = s.suspended
      <4> HIDE DEF P
      <4> QED
        BY <1>0, <3>1 DEF KType, SameRest
    <3> HIDE DEF b
    <3>4. \A q \in Prios : t \notin ToSet(a.rl[q].items)
      BY <3>1 DEF OwnList, IsReady
    <3>5. OwnList(b) /\ \A u \in Task : IsReady(b, u) <=> IsReady(a, u)
      <4>0. \A u \in Task : u # t => b.prio[u] = a.prio[u]
        BY <3>1, <3>3, <1>0 DEF SameRest, KType
      <4>1. \A q \in Prios : ToSet(a.rl[q].items) \subseteq Task
        BY <3>1, SeqFacts DEF KType, LType
      <4>2. OwnList(b)
        BY <3>1, <3>3, <3>4, <4>0, <4>1 DEF OwnList
      <4>3. b.prio \in [Task -> Prios]
        BY <3>3 DEF KType
      <4>4. a.prio \in [Task -> Prios]
        BY <3>1 DEF KType
      <4>5. \A u \in Task : IsReady(b, u) <=> IsReady(a, u)
        BY <3>3, <3>4, <4>0, <4>3, <4>4 DEF IsReady
      <4> QED
        BY <4>2, <4>5
    <3>6. TopBut(b, b.prio[t]) /\ ~IsReady(b, t)
      BY <3>1, <3>3, <3>5 DEF TopBut, TopExact
    <3>7. /\ c \in KType /\ OwnList(c) /\ TopExact(c)
          /\ c = [b EXCEPT !.rl = c.rl, !.top = c.top]
          /\ \A u \in Task : IsReady(c, u) <=> IsReady(b, u) \/ u = t
      BY <3>3, <3>5, <3>6, AddReady
    <3> HIDE DEF c
    <3>8. SameRest(b, c) /\ c.delayed = b.delayed /\ c.overflow = b.overflow /\ c.suspended = b.suspended
      <4> HIDE DEF SameRest
      <4> QED
        BY <3>3, <3>7, ReadyListsOnly
    <3>9. /\ b.ev = s.ev /\ b.term = s.term /\ b.gone = s.gone
          /\ b.pending = s.pending /\ b.cur = s.cur /\ b.susp = s.susp /\ b.note = s.note
      BY <1>0, <3>3 DEF KType, SameRest
    <3> HIDE DEF r
    <3>10. \A u \in Task : IsReady(c, u) <=> IsReady(s, u)
      BY <2>1, <3>1, <3>5, <3>7
    <3> QED
      BY <3>2, <3>3, <3>7, <3>8, <3>9, <3>10 DEF SameRest
  <2>2. CASE ~IsReady(s, t)
    <3> DEFINE c == [s EXCEPT !.prio = P]
    <3>1. r = c
      BY <2>2, <1>0 DEF SetPriority
    <3> HIDE DEF r
    <3>2. \A q \in Prios : t \notin ToSet(s.rl[q].items)
      BY <1>0, <2>2 DEF OwnList, IsReady
    <3>3. \A u \in Task : u # t => P[u] = s.prio[u]
      BY <1>0 DEF KType
    <3>4. /\ c \in KType /\ c.rl = s.rl /\ c.prio = P /\ c.top = s.top
          /\ c.delayed = s.delayed /\ c.overflow = s.overflow /\ c.suspended = s.suspended
          /\ c.ev = s.ev /\ c.term = s.term /\ c.gone = s.gone
          /\ c.pending = s.pending /\ c.cur = s.cur /\ c.susp = s.susp /\ c.note = s.note
      <4> HIDE DEF P
      <4> QED
        BY <1>0 DEF KType
    <3> HIDE DEF c
    <3>5. \A q \in Prios : ToSet(s.rl[q].items) \subseteq Task
      BY <1>0, SeqFacts DEF KType, LType
    <3> HIDE DEF P
    <3>6. OwnList(c) /\ TopExact(c)
      BY <1>0, <3>2, <3>3, <3>4, <3>5 DEF OwnList, TopExact
    <3>7. s.prio \in [Task -> Prios]
      BY <1>0 DEF KType
    <3>8. \A u \in Task : IsReady(c, u) <=> IsReady(s, u)
      BY <1>0, <3>2, <3>3, <3>4, <3>7 DEF IsReady
    <3> QED
      BY <3>1, <3>4, <3>6, <3>8
  <2> QED
    BY <2>1, <2>2
<1> HIDE DEF r
<1>2. InOne(r)
  BY <1>0, <1>1 DEF RInv, InOne, OneOf
<1>3. Blocked(r) = Blocked(s) /\ \A u : Waits(r, u) <=> Waits(s, u)
  BY <1>1 DEF Blocked, Waits
<1>4. Events(r)
  BY <1>0, <1>1, <1>3 DEF Events
<1>5. Calm(s, r)
  BY <1>1, <1>3 DEF Calm, Waiting
<1> QED
  BY <1>1, <1>2, <1>4, <1>5 DEF LInv, RInv, r

-----------------------------------------------------------------------------
(* Going to sleep. *)

(* A task that is in no list is put into one of those of the blocked. *)
LEMMA IntoBlocked ==
  ASSUME NEW s \in KType, RInv(s), NEW t \in Task, IsReady(s, t),
         NEW r \in KType, OwnList(r), TopExact(r), SameRest(s, r),
         \A u \in Task : IsReady(r, u) <=> IsReady(s, u) /\ u # t,
         \/ /\ r.suspended = s.suspended \cup {t}
            /\ r.delayed = s.delayed /\ r.overflow = s.overflow
         \/ /\ r.suspended = s.suspended /\ r.delayed = s.delayed
            /\ ToSet(r.overflow) = ToSet(s.overflow) \cup {t} /\ Distinct(r.overflow)
         \/ /\ r.suspended = s.suspended /\ r.overflow = s.overflow
            /\ ToSet(r.delayed) = ToSet(s.delayed) \cup {t} /\ Distinct(r.delayed)
  PROVE  RInv(r) /\ Blocked(r) = Blocked(s) \cup {t}
<1>1. Distinct(r.delayed) /\ Distinct(r.overflow)
  BY DEF RInv, InOne
<1>2. ASSUME NEW u \in Task
      PROVE  OneOf(IsReady(r, u), u \in ToSet(r.delayed), u \in ToSet(r.overflow),
                   u \in r.suspended, u \in r.term, u \in r.gone)
  <2>1. OneOf(IsReady(s, u), u \in ToSet(s.delayed), u \in ToSet(s.overflow),
              u \in s.suspended, u \in s.term, u \in s.gone)
    BY DEF RInv, InOne
  <2>2. r.term = s.term /\ r.gone = s.gone
    BY DEF SameRest
  <2>3. CASE u = t
    BY <2>1, <2>2, <2>3 DEF OneOf
  <2>4. CASE u # t
    BY <2>1, <2>2, <2>4 DEF OneOf
  <2> QED
    BY <2>3, <2>4
<1>3. Blocked(r) = Blocked(s) \cup {t}
  BY DEF Blocked
<1> QED
  BY <1>1, <1>2, <1>3 DEF RInv, InOne

(* xNextTaskUnblockTime is a number. *)
LEMMA LeastOfTwo ==
  ASSUME NEW a \in Int, NEW b \in Int
  PROVE  LeastOf({a, b}) \in Int
<1>1. \E x \in {a, b} : \A y \in {a, b} : x <= y
  OBVIOUS
<1>2. LeastOf({a, b}) \in {a, b}
  BY <1>1 DEF LeastOf
<1> QED
  BY <1>2

(* The caller goes to sleep. *)
LEMMA BlockFacts ==
  ASSUME NEW s \in KType, RInv(s), IsReady(s, s.cur), NEW wait \in Int, NEW indefinitely
  PROVE  LET r == prvAddCurrentTaskToDelayedList(s, wait, indefinitely) IN
         /\ r \in KType /\ RInv(r) /\ SameRest(s, r)
         /\ \A u \in Task : IsReady(r, u) <=> IsReady(s, u) /\ u # s.cur
         /\ Blocked(r) = Blocked(s) \cup {s.cur}
<1> DEFINE t == s.cur
           w == (s.tick + wait) % TickMod
           a == UnReady(s, t)
           W == [a.wake EXCEPT ![t] = w]
           b == [a EXCEPT !.wake = W]
           r == prvAddCurrentTaskToDelayedList(s, wait, indefinitely)
<1>0. t \in Task /\ OwnList(s) /\ TopExact(s)
      /\ Distinct(s.delayed) /\ Distinct(s.overflow)
      /\ t \notin ToSet(s.delayed) /\ t \notin ToSet(s.overflow)
  BY DEF KType, RInv, InOne, OneOf
<1>1. /\ a \in KType /\ OwnList(a) /\ TopExact(a)
      /\ SameRest(s, a) /\ a.delayed = s.delayed /\ a.overflow = s.overflow
      /\ a.suspended = s.suspended /\ a.next = s.next
      /\ \A u \in Task : IsReady(a, u) <=> IsReady(s, u) /\ u # t
  BY <1>0, UnReadyFacts
<1>2. w \in Int
  <2>1. s.tick + wait \in Int /\ TickMod \in Nat /\ TickMod > 2
    BY KernelAssumption DEF KType
  <2> QED
    BY <2>1
<1> HIDE DEF w, a
<1>3. W \in [Task -> Int] /\ W[t] = w
  <2>1. a.wake \in [Task -> Int]
    BY <1>1 DEF KType
  <2> QED
    BY <1>0, <1>2, <2>1
<1>4. s.delayed \in Seq(Task) /\ s.overflow \in Seq(Task) /\ s.next \in Int
  BY DEF KType
<1> DEFINE S == [a EXCEPT !.suspended = s.suspended \cup {t}]
           O == vListInsert(s.overflow, t, W)
           D == vListInsert(s.delayed, t, W)
           N == LeastOf({s.next, w})
           o == [a EXCEPT !.wake = W, !.overflow = O]
           d == [a EXCEPT !.wake = W, !.delayed = D, !.next = N]
<1>5. /\ O \in Seq(Task) /\ ToSet(O) = ToSet(s.overflow) \cup {t} /\ Distinct(O)
      /\ D \in Seq(Task) /\ ToSet(D) = ToSet(s.delayed) \cup {t} /\ Distinct(D)
      /\ N \in Int
  <2> HIDE DEF W
  <2> QED
    BY <1>0, <1>2, <1>4, ListInsertFacts, LeastOfTwo
<1>6. r = S \/ r = o \/ r = d
  <2>1. /\ b.wake = W /\ b.overflow = s.overflow /\ b.delayed = s.delayed /\ b.next = s.next
    <3> HIDE DEF W
    <3> QED
      BY <1>1, <1>3 DEF KType
  <2>2. [b EXCEPT !.overflow = O] = o
    <3> HIDE DEF W, O
    <3> QED
      BY <1>1 DEF KType
  <2>3. [b EXCEPT !.delayed = D, !.next = N] = d
    <3> HIDE DEF W, D, N
    <3> QED
      BY <1>1 DEF KType
  <2>4. \/ r = [a EXCEPT !.suspended = a.suspended \cup {t}]
        \/ r = [b EXCEPT !.overflow = vListInsert(b.overflow, t, b.wake)]
        \/ r = [b EXCEPT !.delayed = vListInsert(b.delayed, t, b.wake),
                         !.next = LeastOf({b.next, b.wake[t]})]
    <3>1. r = IF wait = MAX_DELAY /\ indefinitely
              THEN [a EXCEPT !.suspended = a.suspended \cup {t}]
              ELSE IF b.wake[t] < s.tick
              THEN [b EXCEPT !.overflow = vListInsert(b.overflow, t, b.wake)]
              ELSE [b EXCEPT !.delayed = vListInsert(b.delayed, t, b.wake),
                             !.next = LeastOf({b.next, b.wake[t]})]
      BY <1>1 DEF prvAddCurrentTaskToDelayedList, a, w, KType
    <3> HIDE DEF b, r
    <3> QED
      BY <3>1
  <2> HIDE DEF b, r
  <2> QED
    BY <1>1, <1>3, <2>1, <2>2, <2>3, <2>4
<1> HIDE DEF W, O, D, N, r
<1>7. CASE r = S
  <2>1. /\ S \in KType /\ SameRest(a, S) /\ S.rl = a.rl /\ S.top = a.top /\ S.prio = a.prio
        /\ S.delayed = s.delayed /\ S.overflow = s.overflow /\ S.suspended = s.suspended \cup {t}
    BY <1>0, <1>1 DEF KType, SameRest
  <2> HIDE DEF S
  <2>2. OwnList(S) /\ TopExact(S) /\ \A u \in Task : IsReady(S, u) <=> IsReady(a, u)
    BY <1>1, <2>1, SameReady
  <2>3. SameRest(s, S)
    BY <1>1, <2>1 DEF SameRest
  <2>4. RInv(S) /\ Blocked(S) = Blocked(s) \cup {t}
    BY <1>0, <1>1, <2>1, <2>2, <2>3, IntoBlocked
  <2> QED
    BY <1>1, <1>7, <2>1, <2>2, <2>3, <2>4 DEF r
<1>8. CASE r = o
  <2>1. /\ o \in KType /\ SameRest(a, o) /\ o.rl = a.rl /\ o.top = a.top /\ o.prio = a.prio
        /\ o.delayed = s.delayed /\ o.overflow = O /\ o.suspended = s.suspended
    BY <1>1, <1>3, <1>5 DEF KType, SameRest
  <2> HIDE DEF o
  <2>2. OwnList(o) /\ TopExact(o) /\ \A u \in Task : IsReady(o, u) <=> IsReady(a, u)
    BY <1>1, <2>1, SameReady
  <2>3. SameRest(s, o)
    BY <1>1, <2>1 DEF SameRest
  <2>4. RInv(o) /\ Blocked(o) = Blocked(s) \cup {t}
    BY <1>0, <1>1, <1>5, <2>1, <2>2, <2>3, IntoBlocked
  <2> QED
    BY <1>1, <1>8, <2>1, <2>2, <2>3, <2>4 DEF r
<1>9. CASE r = d
  <2>1. /\ d \in KType /\ SameRest(a, d) /\ d.rl = a.rl /\ d.top = a.top /\ d.prio = a.prio
        /\ d.delayed = D /\ d.overflow = s.overflow /\ d.suspended = s.suspended
    BY <1>1, <1>3, <1>5 DEF KType, SameRest
  <2> HIDE DEF d
  <2>2. OwnList(d) /\ TopExact(d) /\ \A u \in Task : IsReady(d, u) <=> IsReady(a, u)
    BY <1>1, <2>1, SameReady
  <2>3. SameRest(s, d)
    BY <1>1, <2>1 DEF SameRest
  <2>4. RInv(d) /\ Blocked(d) = Blocked(s) \cup {t}
    BY <1>0, <1>1, <1>5, <2>1, <2>2, <2>3, IntoBlocked
  <2> QED
    BY <1>1, <1>9, <2>1, <2>2, <2>3, <2>4 DEF r
<1> QED
  BY <1>6, <1>7, <1>8, <1>9

(* What the step that puts the caller to sleep keeps. *)
Sleeps(s, r) ==
  /\ r.cur = s.cur /\ r.susp = s.susp /\ r.term = s.term /\ r.gone = s.gone
  /\ r.note = s.note /\ r.pending = s.pending
  /\ \A u \in Task : IsReady(r, u) <=> IsReady(s, u) /\ u # s.cur

(* The caller goes to sleep for a time (vTaskDelay, ulTaskNotifyTake), or  *)
(* for an event.                                                           *)
LEMMA BlockInv ==
  ASSUME NEW s, LInv(s), IsReady(s, s.cur), NEW wait \in Int, NEW indefinitely
  PROVE  LET r == prvAddCurrentTaskToDelayedList(s, wait, indefinitely) IN
         LInv(r) /\ Sleeps(s, r) /\ r.ev = s.ev
<1> DEFINE r == prvAddCurrentTaskToDelayedList(s, wait, indefinitely)
<1>1. /\ r \in KType /\ RInv(r) /\ SameRest(s, r)
      /\ \A u \in Task : IsReady(r, u) <=> IsReady(s, u) /\ u # s.cur
      /\ Blocked(r) = Blocked(s) \cup {s.cur}
  BY BlockFacts DEF LInv
<1> HIDE DEF r
<1>2. \A u : Waits(r, u) <=> Waits(s, u)
  BY <1>1 DEF SameRest, Waits
<1>3. Events(r)
  BY <1>1, <1>2 DEF LInv, Events, SameRest
<1> QED
  BY <1>1, <1>3 DEF LInv, Sleeps, SameRest, r

LEMMA PlaceInv ==
  ASSUME NEW s, LInv(s), IsReady(s, s.cur), s.cur \notin ToSet(s.pending),
         NEW e \in EventLists, NEW wait \in Int
  PROVE  LET r == vTaskPlaceOnEventList(s, e, wait) IN
         /\ LInv(r) /\ Sleeps(s, r)
         /\ \A u : Waits(r, u) <=> Waits(s, u) \/ u = s.cur
<1> DEFINE t == s.cur
           value == [u \in Task |-> -s.prio[u]]
           l == vListInsert(s.ev[e], t, value)
           E == [s.ev EXCEPT ![e] = l]
           m == [s EXCEPT !.ev = E]
           r == vTaskPlaceOnEventList(s, e, wait)
<1>0. s \in KType /\ RInv(s) /\ t \in Task /\ s.ev \in [EventLists -> Seq(Task)]
  BY DEF LInv, KType
<1>1. ~Waits(s, t)
  BY <1>0, WaitsFacts, BlockedFacts
<1>2. /\ l \in Seq(Task) /\ ToSet(l) = ToSet(s.ev[e]) \cup {t} /\ Distinct(l)
  <2>1. s.ev[e] \in Seq(Task) /\ Distinct(s.ev[e]) /\ t \notin ToSet(s.ev[e])
    BY <1>0, <1>1 DEF Waits, LInv, Events
  <2> HIDE DEF value
  <2> QED
    BY <1>0, <2>1, ListInsertFacts
<1>3. r = prvAddCurrentTaskToDelayedList(m, wait, TRUE)
  BY DEF vTaskPlaceOnEventList
<1> HIDE DEF l
<1>4. /\ E \in [EventLists -> Seq(Task)] /\ E[e] = l
      /\ \A f \in EventLists : f # e => E[f] = s.ev[f]
  BY <1>0, <1>2
<1> HIDE DEF E, r
<1>5. /\ m \in KType /\ SameRest([s EXCEPT !.ev = E], m) /\ m.ev = E /\ m.prio = s.prio
      /\ m.rl = s.rl /\ m.top = s.top
      /\ m.delayed = s.delayed /\ m.overflow = s.overflow /\ m.suspended = s.suspended
      /\ m.cur = s.cur /\ m.susp = s.susp /\ m.term = s.term /\ m.gone = s.gone
      /\ m.note = s.note /\ m.pending = s.pending
  BY <1>0, <1>4 DEF KType, SameRest
<1> HIDE DEF m
<1>6. /\ OwnList(m) /\ TopExact(m) /\ \A u \in Task : IsReady(m, u) <=> IsReady(s, u)
  BY <1>0, <1>5, SameReady DEF RInv
<1>7. RInv(m)
  BY <1>0, <1>5, <1>6 DEF RInv, InOne, OneOf
<1>8. /\ r \in KType /\ RInv(r) /\ SameRest(m, r)
      /\ \A u \in Task : IsReady(r, u) <=> IsReady(m, u) /\ u # t
      /\ Blocked(r) = Blocked(m) \cup {t}
  <2>1. m.cur = t /\ IsReady(m, m.cur)
    BY <1>0, <1>5, <1>6
  <2> DEFINE x == prvAddCurrentTaskToDelayedList(m, wait, TRUE)
  <2>2. /\ x \in KType /\ RInv(x) /\ SameRest(m, x)
        /\ \A u \in Task : IsReady(x, u) <=> IsReady(m, u) /\ u # m.cur
        /\ Blocked(x) = Blocked(m) \cup {m.cur}
    BY <1>5, <1>7, <2>1, BlockFacts
  <2> QED
    BY <1>3, <2>1, <2>2
<1>9. Blocked(m) = Blocked(s)
  BY <1>5 DEF Blocked
<1>10. \A u : Waits(r, u) <=> Waits(s, u) \/ u = t
  <2>1. r.ev = E
    BY <1>5, <1>8 DEF SameRest
  <2>2. \A u : u \in ToSet(E[e]) <=> u \in ToSet(s.ev[e]) \/ u = t
    BY <1>2, <1>4
  <2>3. \A u, f : f \in EventLists /\ f # e => (u \in ToSet(E[f]) <=> u \in ToSet(s.ev[f]))
    BY <1>4
  <2> QED
    BY <2>1, <2>2, <2>3 DEF Waits
<1>11. Events(r)
  <2>1. \A f \in EventLists : Distinct(r.ev[f]) /\ ToSet(r.ev[f]) \subseteq Blocked(r)
    BY <1>2, <1>4, <1>5, <1>8, <1>9 DEF LInv, Events, SameRest
  <2>2. ASSUME NEW f \in EventLists, NEW g \in EventLists, f # g
        PROVE  ToSet(r.ev[f]) \cap ToSet(r.ev[g]) = {}
    <3>1. ToSet(s.ev[f]) \cap ToSet(s.ev[g]) = {}
      BY <2>2 DEF LInv, Events
    <3>2. t \notin ToSet(s.ev[f]) /\ t \notin ToSet(s.ev[g])
      BY <1>1 DEF Waits
    <3>3. r.ev = E
      BY <1>5, <1>8 DEF SameRest
    <3> QED
      BY <1>2, <1>4, <2>2, <3>1, <3>2, <3>3
  <2>3. \A u \in ToSet(r.pending) : ~Waits(r, u) /\ u \notin r.term /\ u \notin r.gone
    BY <1>5, <1>8, <1>10 DEF LInv, Events, SameRest
  <2> QED
    BY <2>1, <2>2, <2>3 DEF Events
<1> QED
  BY <1>5, <1>6, <1>8, <1>10, <1>11 DEF LInv, Sleeps, SameRest, r

-----------------------------------------------------------------------------
(* Folds. What a fold computes is not needed, only that it stays in a set. *)

(* FoldLeft goes along the indices by the greatest of those left. *)
LEMMA MaxOf ==
  ASSUME NEW S \in SUBSET Int, NEW x \in S, \A y \in S : y <= x
  PROVE  Max(S) = x
<1>1. Max(S) \in S /\ \A y \in S : Max(S) >= y
  <2>1. \E z \in S : \A y \in S : z >= y
    OBVIOUS
  <2> QED
    BY <2>1 DEF Max
<1> DEFINE m == Max(S)
<1> HIDE DEF m
<1>2. m \in Int /\ x \in Int /\ m >= x /\ m <= x
  BY <1>1 DEF m
<1>3. m = x
  BY <1>2
<1> QED
  BY <1>3 DEF m

LEMMA MaxTo ==
  ASSUME NEW n \in Nat, NEW i \in 1 .. n
  PROVE  Max(1 .. i) = i /\ (1 .. i) \ {i} = 1 .. (i - 1) /\ 1 .. i \in SUBSET (1 .. n) /\ 1 .. i # {}
<1>1. Max(1 .. i) = i
  <2>1. 1 .. i \in SUBSET Int /\ i \in 1 .. i /\ \A y \in 1 .. i : y <= i
    OBVIOUS
  <2> QED
    BY <2>1, MaxOf
<1> QED
  BY <1>1

LEMMA MaxIn ==
  ASSUME NEW n \in Nat, NEW S \in SUBSET (1 .. n), S # {}
  PROVE  Max(S) \in S
<1> DEFINE W == {n - x : x \in S}
           m == LeastOf(W)
<1>1. W \in SUBSET Nat /\ W # {}
  OBVIOUS
<1>2. m \in W /\ \A y \in W : m <= y
  BY <1>1, Least
<1> HIDE DEF m
<1>3. n - m \in S /\ \A y \in S : y <= n - m
  BY <1>2
<1>4. S \in SUBSET Int
  OBVIOUS
<1> HIDE DEF W
<1>5. Max(S) = n - m
  BY <1>3, <1>4, MaxOf
<1> QED
  BY <1>3, <1>5

(* The equation of a fold over a sequence of n elements. *)
FoldsBy(g, n, base, Op) ==
  \A S \in SUBSET (1 .. n) :
    g[S] = IF S = {} THEN base ELSE Op[Max(S)][g[S \ {Max(S)}]]

(* The function by which a fold is defined exists, if every step stays in a *)
(* set that the beginning is in.                                            *)
LEMMA FoldIn ==
  ASSUME NEW V, NEW n \in Nat, NEW base \in V, NEW Op \in [1 .. n -> [V -> V]]
  PROVE  \E g \in [SUBSET (1 .. n) -> V] : FoldsBy(g, n, base, Op)
<1> DEFINE Eq(g, m) == \A S \in SUBSET (1 .. m) :
             g[S] = IF S = {} THEN base ELSE Op[Max(S)][g[S \ {Max(S)}]]
           Holds(m) == \E g \in [SUBSET (1 .. m) -> V] : Eq(g, m)
           P == {m \in Nat : m <= n => Holds(m)}
<1>1. 0 \in P
  <2> DEFINE g == [S \in SUBSET (1 .. 0) |-> base]
  <2>1. \A S \in SUBSET (1 .. 0) : S = {}
    OBVIOUS
  <2>2. g \in [SUBSET (1 .. 0) -> V] /\ Eq(g, 0)
    BY <2>1
  <2> HIDE DEF Eq, g
  <2>3. Holds(0)
    BY <2>2
  <2> HIDE DEF Holds
  <2> QED
    BY <2>3
<1>2. ASSUME NEW m \in Nat, m \in P PROVE m + 1 \in P
  <2> SUFFICES ASSUME m + 1 <= n
               PROVE  Holds(m + 1)
    <3> HIDE DEF Holds
    <3> QED OBVIOUS
  <2>0. Holds(m)
    <3> HIDE DEF Holds
    <3> QED
      BY <1>2
  <2>1. PICK g \in [SUBSET (1 .. m) -> V] : Eq(g, m)
    BY <2>0
  <2> DEFINE B == [S \in SUBSET (1 .. (m + 1)) |->
                    IF m + 1 \in S THEN Op[m + 1][g[S \ {m + 1}]] ELSE g[S]]
  <2>2. B \in [SUBSET (1 .. (m + 1)) -> V]
    <3> SUFFICES ASSUME NEW S \in SUBSET (1 .. (m + 1))
                 PROVE  (IF m + 1 \in S THEN Op[m + 1][g[S \ {m + 1}]] ELSE g[S]) \in V
      OBVIOUS
    <3>1. m + 1 \in 1 .. n
      OBVIOUS
    <3>2. Op[m + 1] \in [V -> V]
      BY <3>1
    <3>3. S \ {m + 1} \in SUBSET (1 .. m)
      OBVIOUS
    <3>4. m + 1 \notin S => S \in SUBSET (1 .. m)
      OBVIOUS
    <3> QED
      BY <3>2, <3>3, <3>4
  <2>3. ASSUME NEW S \in SUBSET (1 .. (m + 1))
        PROVE  B[S] = IF S = {} THEN base ELSE Op[Max(S)][B[S \ {Max(S)}]]
    <3>1. CASE m + 1 \in S
      <4>1. Max(S) = m + 1
        <5>1. S \in SUBSET Int /\ \A y \in S : y <= m + 1
          OBVIOUS
        <5> QED
          BY <3>1, <5>1, MaxOf
      <4>2. S \ {m + 1} \in SUBSET (1 .. m) /\ S \ {m + 1} \in SUBSET (1 .. (m + 1)) /\ m + 1 \notin S \ {m + 1}
        OBVIOUS
      <4>3. B[S \ {m + 1}] = g[S \ {m + 1}]
        BY <4>2
      <4> QED
        BY <3>1, <4>1, <4>3
    <3>2. CASE m + 1 \notin S
      <4>1. S \in SUBSET (1 .. m)
        BY <3>2
      <4>2. B[S] = g[S]
        BY <3>2
      <4>3. B[S \ {Max(S)}] = g[S \ {Max(S)}]
        BY <3>2
      <4>4. g[S] = IF S = {} THEN base ELSE Op[Max(S)][g[S \ {Max(S)}]]
        BY <2>1, <4>1
      <4> HIDE DEF B
      <4> QED
        BY <4>2, <4>3, <4>4
    <3> QED
      BY <3>1, <3>2
  <2> HIDE DEF B
  <2> QED
    BY <2>2, <2>3
<1>3. n \in P
  <2> HIDE DEF P
  <2> QED
    BY <1>1, <1>2, SetInduction
<1>4. Holds(n)
  <2> HIDE DEF Holds
  <2> QED
    BY <1>3
<1> QED
  BY <1>4 DEF FoldsBy

LEMMA FoldSteps ==
  ASSUME NEW V, NEW n \in Nat, NEW it, it[{}] \in V[0],
         \A i \in 1 .. n : it[1 .. (i - 1)] \in V[i - 1] => it[1 .. i] \in V[i]
  PROVE  it[1 .. n] \in V[n]
<1> DEFINE P == {m \in Nat : m <= n => it[1 .. m] \in V[m]}
<1>1. 0 \in P
  <2>1. 1 .. 0 = {}
    OBVIOUS
  <2> QED
    BY <2>1
<1>2. ASSUME NEW m \in Nat, m \in P PROVE m + 1 \in P
  <2> SUFFICES ASSUME m + 1 <= n PROVE it[1 .. (m + 1)] \in V[m + 1]
    OBVIOUS
  <2>1. it[1 .. m] \in V[m] /\ m + 1 \in 1 .. n /\ (m + 1) - 1 = m
    BY <1>2
  <2> QED
    BY <2>1
<1>3. n \in P
  <2> HIDE DEF P
  <2> QED
    BY <1>1, <1>2, SetInduction
<1> QED
  BY <1>3

(* Induction along the prefixes of 1 .. n. *)
LEMMA FoldChain ==
  ASSUME NEW V, NEW n \in Nat, NEW it, it[{}] \in V,
         \A i \in 1 .. n : it[1 .. (i - 1)] \in V => it[1 .. i] \in V
  PROVE  it[1 .. n] \in V
<1> DEFINE W == [m \in Nat |-> V]
<1>1. it[{}] \in W[0] /\ \A i \in 1 .. n : it[1 .. (i - 1)] \in W[i - 1] => it[1 .. i] \in W[i]
  <2>1. \A i \in 1 .. n : i - 1 \in Nat /\ i \in Nat
    OBVIOUS
  <2> QED
    BY <2>1
<1>2. W[n] = V
  OBVIOUS
<1> HIDE DEF W
<1>3. it[1 .. n] \in W[n]
  BY <1>1, FoldSteps
<1> QED
  BY <1>2, <1>3

LEMMA WakeAllSteps ==
  ASSUME NEW V, NEW base \in V, NEW list \in Seq(Task),
         \A v \in V, t \in ToSet(list) : Wakeup(v, t) \in V,
         NEW P, base \in P[0],
         \A i \in 1 .. Len(list) : \A v \in V \cap P[i - 1] : Wakeup(v, list[i]) \in P[i]
  PROVE  WakeAll(base, list) \in V /\ WakeAll(base, list) \in P[Len(list)]
<1> DEFINE n == Len(list)
           It(g) == g = [S \in SUBSET (1 .. n) |->
                     IF S = {} THEN base ELSE Wakeup(g[S \ {Max(S)}], list[Max(S)])]
           it == CHOOSE g : It(g)
           Op == [i \in 1 .. n |-> [v \in V |-> Wakeup(v, list[i])]]
<1>1. n \in Nat /\ DOMAIN list = 1 .. n /\ \A i \in 1 .. n : list[i] \in ToSet(list)
  BY SeqFacts
<1>2. WakeAll(base, list) = it[1 .. n]
  BY <1>1 DEF WakeAll, FoldLeft, MapThenFoldSet
<1> HIDE DEF n
<1>3. Op \in [1 .. n -> [V -> V]]
  BY <1>1
<1>4. \E g : It(g)
  <2>0. PICK g \in [SUBSET (1 .. n) -> V] : FoldsBy(g, n, base, Op)
    <3> HIDE DEF Op
    <3> QED
      BY <1>1, <1>3, FoldIn
  <2>1. \A S \in SUBSET (1 .. n) :
           g[S] = IF S = {} THEN base ELSE Op[Max(S)][g[S \ {Max(S)}]]
    BY <2>0 DEF FoldsBy
  <2>2. ASSUME NEW S \in SUBSET (1 .. n), S # {}
        PROVE  Op[Max(S)][g[S \ {Max(S)}]] = Wakeup(g[S \ {Max(S)}], list[Max(S)])
    <3>1. Max(S) \in 1 .. n
      BY <1>1, <2>2, MaxIn
    <3>2. g[S \ {Max(S)}] \in V
      BY <2>1
    <3> QED
      BY <3>1, <3>2
  <2>3. g = [S \in SUBSET (1 .. n) |->
               IF S = {} THEN base ELSE Wakeup(g[S \ {Max(S)}], list[Max(S)])]
    <3> HIDE DEF Op
    <3> QED
      BY <2>1, <2>2
  <2> QED
    BY <2>3
<1>5. It(it)
  <2> HIDE DEF It
  <2> QED
    BY <1>4
<1> HIDE DEF it
<1>6. it[{}] = base
  BY <1>5
<1>7. ASSUME NEW i \in 1 .. n, it[1 .. (i - 1)] \in V PROVE it[1 .. i] \in V
  <2>1. Max(1 .. i) = i /\ (1 .. i) \ {i} = 1 .. (i - 1) /\ 1 .. i \in SUBSET (1 .. n) /\ 1 .. i # {}
    BY <1>1, MaxTo
  <2>2. it[1 .. i] = Wakeup(it[1 .. (i - 1)], list[i])
    BY <1>5, <2>1
  <2> QED
    BY <1>1, <1>7, <2>2
<1>8. it[1 .. n] \in V
  BY <1>1, <1>6, <1>7, FoldChain
<1> DEFINE Q == [i \in 0 .. n |-> V \cap P[i]]
<1>9. it[{}] \in Q[0] /\ \A i \in 1 .. n : it[1 .. (i - 1)] \in Q[i - 1] => it[1 .. i] \in Q[i]
  <2>1. it[{}] \in Q[0]
    BY <1>1, <1>6
  <2>2. ASSUME NEW i \in 1 .. n, it[1 .. (i - 1)] \in Q[i - 1] PROVE it[1 .. i] \in Q[i]
    <3>1. i - 1 \in 0 .. n /\ i \in 0 .. n
      BY <1>1
    <3>2. it[1 .. (i - 1)] \in V /\ it[1 .. (i - 1)] \in P[i - 1]
      BY <2>2, <3>1
    <3>3. it[1 .. i] = Wakeup(it[1 .. (i - 1)], list[i])
      <4>1. Max(1 .. i) = i /\ (1 .. i) \ {i} = 1 .. (i - 1) /\ 1 .. i \in SUBSET (1 .. n) /\ 1 .. i # {}
        BY <1>1, MaxTo
      <4> QED
        BY <1>5, <4>1
    <3>4. it[1 .. i] \in V
      BY <1>7, <3>2
    <3>5. it[1 .. i] \in P[i]
      BY <3>2, <3>3 DEF n
    <3> QED
      BY <3>1, <3>4, <3>5
  <2> QED
    BY <2>1, <2>2
<1> HIDE DEF Q
<1>10. it[1 .. n] \in Q[n]
  BY <1>1, <1>9, FoldSteps
<1>11. it[1 .. n] \in P[Len(list)]
  BY <1>1, <1>10 DEF Q, n
<1> QED
  BY <1>2, <1>8, <1>11

(* The four loops of the kernel stay in any set their bodies stay in: the  *)
(* tick's over the delayed tasks, xTaskResumeAll's over the pending tasks  *)
(* and the pended ticks, and prvUnlockQueue's.                             *)
LEMMA WakeAllFacts ==
  ASSUME NEW V, NEW base \in V, NEW list \in Seq(Task),
         \A v \in V, t \in ToSet(list) : Wakeup(v, t) \in V
  PROVE  WakeAll(base, list) \in V
<1> DEFINE P == [i \in Nat |-> V]
<1>1. base \in P[0] /\ Len(list) \in Nat
  BY SeqFacts
<1>2. \A i \in 1 .. Len(list) : \A v \in V \cap P[i - 1] : Wakeup(v, list[i]) \in P[i]
  <2>1. \A i \in 1 .. Len(list) : list[i] \in ToSet(list) /\ P[i] = V
    BY SeqFacts
  <2> QED
    BY <2>1
<1> HIDE DEF P
<1> QED
  BY <1>1, <1>2, WakeAllSteps

LEMMA ReadyAllFacts ==
  ASSUME NEW V, NEW base \in V, NEW list \in Seq(Task),
         \A v \in V, t \in ToSet(list) : ReadyPending(v, t) \in V
  PROVE  ReadyAll(base, list) \in V
<1> DEFINE n == Len(list)
           It(g) == g = [S \in SUBSET (1 .. n) |->
                     IF S = {} THEN base ELSE ReadyPending(g[S \ {Max(S)}], list[Max(S)])]
           it == CHOOSE g : It(g)
           Op == [i \in 1 .. n |-> [v \in V |-> ReadyPending(v, list[i])]]
<1>1. n \in Nat /\ DOMAIN list = 1 .. n /\ \A i \in 1 .. n : list[i] \in ToSet(list)
  BY SeqFacts
<1>2. ReadyAll(base, list) = it[1 .. n]
  BY <1>1 DEF ReadyAll, FoldLeft, MapThenFoldSet
<1> HIDE DEF n
<1>3. Op \in [1 .. n -> [V -> V]]
  BY <1>1
<1>4. \E g : It(g)
  <2>0. PICK g \in [SUBSET (1 .. n) -> V] : FoldsBy(g, n, base, Op)
    <3> HIDE DEF Op
    <3> QED
      BY <1>1, <1>3, FoldIn
  <2>1. \A S \in SUBSET (1 .. n) :
           g[S] = IF S = {} THEN base ELSE Op[Max(S)][g[S \ {Max(S)}]]
    BY <2>0 DEF FoldsBy
  <2>2. ASSUME NEW S \in SUBSET (1 .. n), S # {}
        PROVE  Op[Max(S)][g[S \ {Max(S)}]] = ReadyPending(g[S \ {Max(S)}], list[Max(S)])
    <3>1. Max(S) \in 1 .. n
      BY <1>1, <2>2, MaxIn
    <3>2. g[S \ {Max(S)}] \in V
      BY <2>1
    <3> QED
      BY <3>1, <3>2
  <2>3. g = [S \in SUBSET (1 .. n) |->
               IF S = {} THEN base ELSE ReadyPending(g[S \ {Max(S)}], list[Max(S)])]
    <3> HIDE DEF Op
    <3> QED
      BY <2>1, <2>2
  <2> QED
    BY <2>3
<1>5. It(it)
  <2> HIDE DEF It
  <2> QED
    BY <1>4
<1> HIDE DEF it
<1>6. it[{}] = base
  BY <1>5
<1>7. ASSUME NEW i \in 1 .. n, it[1 .. (i - 1)] \in V PROVE it[1 .. i] \in V
  <2>1. Max(1 .. i) = i /\ (1 .. i) \ {i} = 1 .. (i - 1) /\ 1 .. i \in SUBSET (1 .. n) /\ 1 .. i # {}
    BY <1>1, MaxTo
  <2>2. it[1 .. i] = ReadyPending(it[1 .. (i - 1)], list[i])
    BY <1>5, <2>1
  <2> QED
    BY <1>1, <1>7, <2>2
<1>8. it[1 .. n] \in V
  BY <1>1, <1>6, <1>7, FoldChain
<1> QED
  BY <1>2, <1>8

LEMMA PassTicksFacts ==
  ASSUME NEW V, NEW base \in V, NEW count \in Nat,
         \A v \in V, i \in Nat : PassTick(v, i) \in V
  PROVE  PassTicks(base, count) \in V
<1> DEFINE list == [i \in 1 .. count |-> i]
           n == count
           It(g) == g = [S \in SUBSET (1 .. n) |->
                     IF S = {} THEN base ELSE PassTick(g[S \ {Max(S)}], list[Max(S)])]
           it == CHOOSE g : It(g)
           Op == [i \in 1 .. n |-> [v \in V |-> PassTick(v, list[i])]]
<1>1. n \in Nat /\ DOMAIN list = 1 .. n /\ \A i \in 1 .. n : list[i] \in Nat
  OBVIOUS
<1>2. PassTicks(base, count) = it[1 .. n]
  BY <1>1 DEF PassTicks, FoldLeft, MapThenFoldSet
<1> HIDE DEF n, list
<1>3. Op \in [1 .. n -> [V -> V]]
  BY <1>1
<1>4. \E g : It(g)
  <2>0. PICK g \in [SUBSET (1 .. n) -> V] : FoldsBy(g, n, base, Op)
    <3> HIDE DEF Op
    <3> QED
      BY <1>1, <1>3, FoldIn
  <2>1. \A S \in SUBSET (1 .. n) :
           g[S] = IF S = {} THEN base ELSE Op[Max(S)][g[S \ {Max(S)}]]
    BY <2>0 DEF FoldsBy
  <2>2. ASSUME NEW S \in SUBSET (1 .. n), S # {}
        PROVE  Op[Max(S)][g[S \ {Max(S)}]] = PassTick(g[S \ {Max(S)}], list[Max(S)])
    <3>1. Max(S) \in 1 .. n
      BY <1>1, <2>2, MaxIn
    <3>2. g[S \ {Max(S)}] \in V
      BY <2>1
    <3> QED
      BY <3>1, <3>2
  <2>3. g = [S \in SUBSET (1 .. n) |->
               IF S = {} THEN base ELSE PassTick(g[S \ {Max(S)}], list[Max(S)])]
    <3> HIDE DEF Op
    <3> QED
      BY <2>1, <2>2
  <2> QED
    BY <2>3
<1>5. It(it)
  <2> HIDE DEF It
  <2> QED
    BY <1>4
<1> HIDE DEF it
<1>6. it[{}] = base
  BY <1>5
<1>7. ASSUME NEW i \in 1 .. n, it[1 .. (i - 1)] \in V PROVE it[1 .. i] \in V
  <2>1. Max(1 .. i) = i /\ (1 .. i) \ {i} = 1 .. (i - 1) /\ 1 .. i \in SUBSET (1 .. n) /\ 1 .. i # {}
    BY <1>1, MaxTo
  <2>2. it[1 .. i] = PassTick(it[1 .. (i - 1)], list[i])
    BY <1>5, <2>1
  <2> QED
    BY <1>1, <1>7, <2>2
<1>8. it[1 .. n] \in V
  BY <1>1, <1>6, <1>7, FoldChain
<1> QED
  BY <1>2, <1>8

LEMMA UnlockedFacts ==
  ASSUME NEW V, NEW base \in V, NEW e, NEW count \in Int,
         \A v \in V : UnlockOne(v, e) \in V
  PROVE  Unlocked(base, e, count) \in V
<1> DEFINE list == [i \in 1 .. count |-> e]
           n == IF count < 0 THEN 0 ELSE count
           It(g) == g = [S \in SUBSET (1 .. n) |->
                     IF S = {} THEN base ELSE UnlockOne(g[S \ {Max(S)}], list[Max(S)])]
           it == CHOOSE g : It(g)
           Op == [i \in 1 .. n |-> [v \in V |-> UnlockOne(v, list[i])]]
<1>1. n \in Nat /\ DOMAIN list = 1 .. n /\ \A i \in 1 .. n : list[i] = e
  OBVIOUS
<1>2. Unlocked(base, e, count) = it[1 .. n]
  BY <1>1 DEF Unlocked, FoldLeft, MapThenFoldSet
<1> HIDE DEF n, list
<1>3. Op \in [1 .. n -> [V -> V]]
  BY <1>1
<1>4. \E g : It(g)
  <2>0. PICK g \in [SUBSET (1 .. n) -> V] : FoldsBy(g, n, base, Op)
    <3> HIDE DEF Op
    <3> QED
      BY <1>1, <1>3, FoldIn
  <2>1. \A S \in SUBSET (1 .. n) :
           g[S] = IF S = {} THEN base ELSE Op[Max(S)][g[S \ {Max(S)}]]
    BY <2>0 DEF FoldsBy
  <2>2. ASSUME NEW S \in SUBSET (1 .. n), S # {}
        PROVE  Op[Max(S)][g[S \ {Max(S)}]] = UnlockOne(g[S \ {Max(S)}], list[Max(S)])
    <3>1. Max(S) \in 1 .. n
      BY <1>1, <2>2, MaxIn
    <3>2. g[S \ {Max(S)}] \in V
      BY <2>1
    <3> QED
      BY <3>1, <3>2
  <2>3. g = [S \in SUBSET (1 .. n) |->
               IF S = {} THEN base ELSE UnlockOne(g[S \ {Max(S)}], list[Max(S)])]
    <3> HIDE DEF Op
    <3> QED
      BY <2>1, <2>2
  <2> QED
    BY <2>3
<1>5. It(it)
  <2> HIDE DEF It
  <2> QED
    BY <1>4
<1> HIDE DEF it
<1>6. it[{}] = base
  BY <1>5
<1>7. ASSUME NEW i \in 1 .. n, it[1 .. (i - 1)] \in V PROVE it[1 .. i] \in V
  <2>1. Max(1 .. i) = i /\ (1 .. i) \ {i} = 1 .. (i - 1) /\ 1 .. i \in SUBSET (1 .. n) /\ 1 .. i # {}
    BY <1>1, MaxTo
  <2>2. it[1 .. i] = UnlockOne(it[1 .. (i - 1)], list[i])
    BY <1>5, <2>1
  <2> QED
    BY <1>1, <1>7, <2>2
<1>8. it[1 .. n] \in V
  BY <1>1, <1>6, <1>7, FoldChain
<1> QED
  BY <1>2, <1>8

-----------------------------------------------------------------------------
(* The tick and the resumption of the scheduler. *)

(* The two delayed lists change places. *)
LEMMA SwapFacts ==
  ASSUME NEW s, LInv(s), NEW now \in Nat
  PROVE  LET r == [s EXCEPT !.tick = now, !.delayed = s.overflow, !.overflow = s.delayed,
                            !.over = s.over + 1]
         IN LInv(r) /\ Calm(s, r)
<1> DEFINE r == [s EXCEPT !.tick = now, !.delayed = s.overflow, !.overflow = s.delayed,
                          !.over = s.over + 1]
<1>1. /\ r \in KType /\ r.delayed = s.overflow /\ r.overflow = s.delayed
      /\ r.rl = s.rl /\ r.top = s.top /\ r.prio = s.prio /\ r.suspended = s.suspended
      /\ r.ev = s.ev /\ r.term = s.term /\ r.gone = s.gone /\ r.pending = s.pending
      /\ r.cur = s.cur /\ r.susp = s.susp /\ r.note = s.note
  <2>1. s \in KType /\ s.over + 1 \in Nat /\ s.overflow \in Seq(Task) /\ s.delayed \in Seq(Task)
    BY DEF LInv, KType
  <2> DEFINE D == s.overflow
             O == s.delayed
             n == s.over + 1
  <2> HIDE DEF D, O, n
  <2>2. D \in Seq(Task) /\ O \in Seq(Task) /\ n \in Nat
    BY <2>1 DEF D, O, n
  <2>3. r = [s EXCEPT !.tick = now, !.delayed = D, !.overflow = O, !.over = n]
    BY DEF D, O, n
  <2>4. r \in KType /\ r.delayed = D /\ r.overflow = O
    BY <2>1, <2>2, <2>3 DEF KType
  <2>5. /\ r.rl = s.rl /\ r.top = s.top /\ r.prio = s.prio /\ r.suspended = s.suspended
        /\ r.ev = s.ev /\ r.term = s.term /\ r.gone = s.gone /\ r.pending = s.pending
        /\ r.cur = s.cur /\ r.susp = s.susp /\ r.note = s.note
    BY <2>1, <2>3 DEF KType
  <2> QED
    BY <2>4, <2>5 DEF D, O
<1> HIDE DEF r
<1>2. OwnList(r) /\ TopExact(r) /\ \A u \in Task : IsReady(r, u) <=> IsReady(s, u)
  BY <1>1, SameReady DEF LInv, RInv
<1>3. InOne(r)
  BY <1>1, <1>2 DEF LInv, RInv, InOne, OneOf
<1>4. Blocked(r) = Blocked(s) /\ \A u : Waits(r, u) <=> Waits(s, u)
  BY <1>1 DEF Blocked, Waits
<1>5. Events(r)
  BY <1>1, <1>4 DEF LInv, Events
<1>6. Calm(s, r)
  BY <1>1, <1>2, <1>4 DEF Calm, Waiting
<1> QED
  BY <1>1, <1>2, <1>3, <1>5, <1>6 DEF LInv, RInv, r

(* The first n of a list. *)
LEMMA SubSeqFacts ==
  ASSUME NEW S, NEW s \in Seq(S), NEW n \in 0 .. Len(s)
  PROVE  SubSeq(s, 1, n) \in Seq(S) /\ ToSet(SubSeq(s, 1, n)) \subseteq ToSet(s)
<1> DEFINE a == SubSeq(s, 1, n)
<1>1. a \in Seq(S) /\ Len(a) = n /\ \A j \in 1 .. n : a[j] = s[j]
  OBVIOUS
<1> HIDE DEF a
<1>2. ASSUME NEW x \in ToSet(a) PROVE x \in ToSet(s)
  <2>1. PICK j \in 1 .. Len(a) : a[j] = x
    BY <1>1, SeqFacts
  <2>2. j \in 1 .. Len(s) /\ s[j] = x
    BY <1>1, <2>1
  <2> QED
    BY <2>2, SeqFacts
<1> QED
  BY <1>1, <1>2 DEF a

(* The tick count goes on by one; at its wrap the lists change places, and *)
(* the current one is empty.                                               *)
Turned(s) ==
  LET now == (s.tick + 1) % TickMod
      a == [s EXCEPT !.tick = now]
  IN IF now # 0 THEN a
     ELSE prvResetNextTaskUnblockTime(
            [a EXCEPT !.delayed = a.overflow, !.overflow = a.delayed, !.over = @ + 1])

LEMMA TurnedFacts ==
  ASSUME NEW s, LInv(s)
  PROVE  LInv(Turned(s)) /\ Calm(s, Turned(s))
<1> DEFINE now == (s.tick + 1) % TickMod
           a == [s EXCEPT !.tick = now]
           x == [a EXCEPT !.delayed = a.overflow, !.overflow = a.delayed, !.over = @ + 1]
           b == IF now # 0 THEN a ELSE prvResetNextTaskUnblockTime(x)
<1>0. s \in KType
  BY DEF LInv
<1>1. now \in Nat
  <2>1. TickMod \in Nat /\ TickMod > 2
    BY KernelAssumption
  <2>2. s.tick + 1 \in Nat
    BY <1>0 DEF KType
  <2> QED
    BY <2>1, <2>2
<1>2. Turned(s) = b
  BY DEF Turned
<1> HIDE DEF now
<1>3. LInv(b) /\ Calm(s, b)
  <2>1. CASE now # 0
    <3>1. a \in KType /\ SameLists(s, a)
          /\ a.pending = s.pending /\ a.cur = s.cur /\ a.susp = s.susp /\ a.note = s.note
      BY <1>0, <1>1 DEF KType, SameLists
    <3> HIDE DEF a
    <3>2. b = a
      BY <2>1
    <3> HIDE DEF b
    <3> QED
      BY <3>1, <3>2, SameListsInv, SameListsCalm
  <2>2. CASE now = 0
    <3>0. x = [s EXCEPT !.tick = now, !.delayed = s.overflow, !.overflow = s.delayed,
                        !.over = s.over + 1]
      <4>1. /\ a.overflow = s.overflow /\ a.delayed = s.delayed /\ a.over = s.over
        BY <1>0 DEF KType
      <4> DEFINE D == s.overflow
                 O == s.delayed
                 n == s.over + 1
      <4> HIDE DEF D, O, n
      <4>2. x = [a EXCEPT !.delayed = D, !.overflow = O, !.over = n]
        BY <4>1 DEF D, O, n
      <4>3. x = [s EXCEPT !.tick = now, !.delayed = D, !.overflow = O, !.over = n]
        BY <1>0, <4>2 DEF KType
      <4> QED
        BY <4>3 DEF D, O, n
    <3>1. LInv(x) /\ Calm(s, x)
      <4> HIDE DEF x
      <4> QED
        BY <1>1, <3>0, SwapFacts
    <3> HIDE DEF x
    <3>2. /\ LInv(prvResetNextTaskUnblockTime(x))
          /\ Calm(x, prvResetNextTaskUnblockTime(x))
      BY <3>1, ResetNext
    <3>3. b = prvResetNextTaskUnblockTime(x)
      BY <2>2
    <3> HIDE DEF b
    <3> QED
      BY <1>0, <3>1, <3>2, <3>3, CalmThen DEF LInv
  <2> QED
    BY <2>1, <2>2
<1> HIDE DEF b
<1> QED
  BY <1>2, <1>3

(* A tick: the delayed lists may change places, and those whose time has   *)
(* come are made ready.                                                    *)
LEMMA TickFacts ==
  ASSUME NEW s, LInv(s)
  PROVE  LET r == xTaskIncrementTick(s) IN
         LInv(r.s) /\ Calm(s, r.s)
<1> DEFINE now == (s.tick + 1) % TickMod
           b == Turned(s)
           late == {i \in DOMAIN b.delayed : b.wake[b.delayed[i]] > now}
           due == IF now < b.next THEN <<>>
                  ELSE IF late = {} THEN b.delayed ELSE SubSeq(b.delayed, 1, LeastOf(late) - 1)
           c == WakeAll(b, due)
           d == IF now < b.next THEN c ELSE prvResetNextTaskUnblockTime(c)
<1>0. s \in KType
  BY DEF LInv
<1>2. xTaskIncrementTick(s).s = d
  BY Zenon DEF xTaskIncrementTick, Turned
<1> HIDE DEF now
<1>3. LInv(b) /\ Calm(s, b)
  BY TurnedFacts
<1> HIDE DEF b
<1>4. due \in Seq(Task) /\ ToSet(due) \subseteq ToSet(b.delayed)
  <2>1. b.delayed \in Seq(Task)
    BY <1>3 DEF LInv, KType
  <2>2. CASE now < b.next
    BY <2>2 DEF ToSet
  <2>3. CASE ~(now < b.next) /\ late = {}
    BY <2>1, <2>3
  <2>4. CASE ~(now < b.next) /\ late # {}
    <3>1. late \in SUBSET Nat /\ late \subseteq 1 .. Len(b.delayed)
      BY <2>1
    <3>2. LeastOf(late) \in late
      BY <2>4, <3>1, Least
    <3>3. LeastOf(late) - 1 \in 0 .. Len(b.delayed)
      <4> DEFINE least == LeastOf(late)
                 n == Len(b.delayed)
      <4>1. least \in 1 .. n /\ n \in Nat
        BY <2>1, <3>1, <3>2
      <4> HIDE DEF least, n
      <4>2. least - 1 \in 0 .. n
        BY <4>1
      <4> QED
        BY <4>2 DEF least, n
    <3>4. due = SubSeq(b.delayed, 1, LeastOf(late) - 1)
      BY <2>4
    <3> HIDE DEF late, due
    <3> QED
      BY <2>1, <3>3, <3>4, SubSeqFacts
  <2> QED
    BY <2>2, <2>3, <2>4
<1> HIDE DEF due, late
<1>5. LInv(c) /\ Calm(s, c)
  <2> DEFINE V == {r \in KType : LInv(r) /\ Calm(b, r)}
  <2>1. b \in V
    BY <1>3, CalmSame DEF LInv
  <2>2. ASSUME NEW r \in V, NEW t \in ToSet(due) PROVE Wakeup(r, t) \in V
    <3>1. t \in Blocked(b)
      BY <1>4 DEF Blocked
    <3>2. t \in Task /\ t \notin b.term /\ t \notin b.gone
      BY <1>3, <3>1, BlockedFacts
    <3>3. LInv(r) /\ Calm(b, r) /\ t \notin r.term /\ t \notin r.gone
      BY <3>2 DEF Calm
    <3>4. LInv(Wakeup(r, t)) /\ Calm(r, Wakeup(r, t))
      BY <3>2, <3>3, WakeupFacts
    <3>5. b \in KType /\ r \in KType /\ Wakeup(r, t) \in KType
      BY <1>3, <3>3, <3>4 DEF LInv
    <3>6. Calm(b, Wakeup(r, t))
      BY <3>3, <3>4, <3>5, CalmThen
    <3> QED
      BY <3>4, <3>5, <3>6
  <2>3. c \in V
    <3> HIDE DEF V
    <3> QED
      BY <1>4, <2>1, <2>2, WakeAllFacts
  <2>4. LInv(c) /\ Calm(b, c) /\ c \in KType /\ b \in KType
    BY <1>3, <2>3 DEF LInv
  <2> HIDE DEF c
  <2> QED
    BY <1>0, <1>3, <2>4, CalmThen
<1> HIDE DEF c
<1>6. LInv(d) /\ Calm(s, d)
  <2>1. LInv(prvResetNextTaskUnblockTime(c)) /\ Calm(c, prvResetNextTaskUnblockTime(c))
    BY <1>5, ResetNext
  <2>2. Calm(s, prvResetNextTaskUnblockTime(c))
    BY <1>0, <1>5, <2>1, CalmThen DEF LInv
  <2> QED
    BY <1>5, <2>1, <2>2
<1> HIDE DEF d
<1> QED
  BY <1>2, <1>6

(* The scheduler resumes. *)
Resumes(s, r) ==
  /\ r.susp = FALSE /\ r.pending = <<>>
  /\ r.cur = s.cur /\ r.term = s.term /\ r.gone = s.gone
  /\ \A t \in Task : IsReady(s, t) => IsReady(r, t)
  /\ \A t \in Task : Waits(r, t) => Waits(s, t)
  /\ \A t \in Task : Waiting(r, t) => Waiting(s, t)

(* xTaskResumeAll makes the pending tasks ready and leaves none. *)
LEMMA ResumeFacts ==
  ASSUME NEW s, LInv(s)
  PROVE  LET r == xTaskResumeAll(s) IN LInv(r) /\ Resumes(s, r)
<1> DEFINE o == [s EXCEPT !.susp = FALSE, !.pending = <<>>]
           a == ReadyAll(o, s.pending)
           b == IF s.pending = <<>> THEN a ELSE prvResetNextTaskUnblockTime(a)
           c == PassTicks(b, s.pended)
           r == [c EXCEPT !.pended = 0]
           V == {x \in KType : LInv(x) /\ Calm(o, x)}
<1>0. s \in KType
  BY DEF LInv
<1>1a. <<>> \in Seq(Task)
  OBVIOUS
<1>1. xTaskResumeAll(s) = r
  BY DEF xTaskResumeAll
<1>2. /\ o \in KType /\ SameLists(s, o) /\ o.susp = FALSE /\ o.pending = <<>>
      /\ o.cur = s.cur /\ o.term = s.term /\ o.gone = s.gone /\ o.ev = s.ev /\ o.note = s.note
  BY <1>0, <1>1a DEF KType, SameLists
<1> HIDE DEF o
<1>3. /\ LInv(o)
      /\ \A t : Waits(o, t) <=> Waits(s, t)
      /\ \A t \in Task : IsReady(o, t) <=> IsReady(s, t)
      /\ \A t : Waiting(o, t) <=> Waiting(s, t)
  BY <1>2, SameListsInv DEF SameLists, Waits, IsReady, Waiting
<1>4. o \in V
  BY <1>2, <1>3, CalmSame
<1>5. ASSUME NEW x \in V, NEW y, LInv(y), Calm(x, y) PROVE y \in V
  BY <1>2, <1>5, CalmThen DEF LInv
<1>6. ASSUME NEW x \in V, NEW t \in ToSet(s.pending) PROVE ReadyPending(x, t) \in V
  <2>1. t \in Task /\ ~Waits(s, t) /\ t \notin s.term /\ t \notin s.gone
    BY <1>0, SeqFacts DEF KType, LInv, Events
  <2>2. LInv(x) /\ ~Waits(x, t) /\ t \notin x.term /\ t \notin x.gone
    BY <1>2, <1>3, <2>1 DEF Calm
  <2> DEFINE u == MakeReady(x, t)
             w == u.ypend \/ u.prio[t] >= u.prio[u.cur]
  <2>3. LInv(u) /\ Calm(x, u)
    BY <2>1, <2>2, MakeReadyInv
  <2> HIDE DEF u, V
  <2>4. u \in V
    BY <1>5, <2>3
  <2>5. w \in BOOLEAN
    OBVIOUS
  <2>6. ReadyPending(x, t) = [u EXCEPT !.ypend = w]
    BY DEF ReadyPending, u
  <2> HIDE DEF w
  <2>7. LInv([u EXCEPT !.ypend = w]) /\ Calm(u, [u EXCEPT !.ypend = w])
    BY <2>3, <2>5, Ypend
  <2> QED
    BY <1>5, <2>4, <2>6, <2>7
<1>7. ASSUME NEW x \in V, NEW i \in Nat PROVE PassTick(x, i) \in V
  <2> DEFINE n == xTaskIncrementTick(x)
             u == n.s
             w == u.ypend \/ n.sw
  <2>1. LInv(x)
    OBVIOUS
  <2>2. LInv(u) /\ Calm(x, u)
    BY <2>1, TickFacts
  <2>3. PassTick(x, i) = [u EXCEPT !.ypend = w]
    BY DEF PassTick
  <2>4. w \in BOOLEAN
    OBVIOUS
  <2> HIDE DEF u, w, V
  <2>5. u \in V
    BY <1>5, <2>2
  <2>6. LInv([u EXCEPT !.ypend = w]) /\ Calm(u, [u EXCEPT !.ypend = w])
    BY <2>2, <2>4, Ypend
  <2> QED
    BY <1>5, <2>3, <2>5, <2>6
<1>8. a \in V
  <2>1. s.pending \in Seq(Task)
    BY <1>0 DEF KType
  <2> HIDE DEF V
  <2> QED
    BY <1>4, <1>6, <2>1, ReadyAllFacts
<1> HIDE DEF a
<1>9. b \in V
  <2>1. LInv(a)
    BY <1>8
  <2>2. LInv(prvResetNextTaskUnblockTime(a)) /\ Calm(a, prvResetNextTaskUnblockTime(a))
    BY <2>1, ResetNext
  <2> HIDE DEF V
  <2> QED
    BY <1>5, <1>8, <2>2
<1> HIDE DEF b
<1>10. c \in V
  <2>1. s.pended \in Nat
    BY <1>0 DEF KType
  <2> HIDE DEF V
  <2> QED
    BY <1>7, <1>9, <2>1, PassTicksFacts
<1> HIDE DEF c
<1>11. LInv(c) /\ Calm(o, c) /\ c \in KType
  BY <1>10
<1>12. r \in KType /\ SameLists(c, r)
      /\ r.pending = c.pending /\ r.cur = c.cur /\ r.susp = c.susp /\ r.note = c.note
  BY <1>11 DEF KType, SameLists
<1> HIDE DEF r
<1>13. LInv(r) /\ Calm(c, r)
  BY <1>11, <1>12, SameListsInv, SameListsCalm
<1>14. Calm(o, r)
  BY <1>2, <1>11, <1>12, <1>13, CalmThen
<1>15. Resumes(s, r)
  BY <1>2, <1>3, <1>14 DEF Calm, Resumes
<1> QED
  BY <1>1, <1>13, <1>15

-----------------------------------------------------------------------------
(* The switch, and the making and deleting of tasks. *)

(* prvUnlockQueue wakes as many as there were items. *)
LEMMA UnlockedInv ==
  ASSUME NEW s, LInv(s), NEW e \in EventLists, NEW count \in Int
  PROVE  LInv(Unlocked(s, e, count)) /\ Calm(s, Unlocked(s, e, count))
<1> DEFINE V == {x \in KType : LInv(x) /\ Calm(s, x)}
           r == Unlocked(s, e, count)
<1>1. s \in V
  BY CalmSame DEF LInv
<1>2. ASSUME NEW x \in V PROVE UnlockOne(x, e) \in V
  <2>1. LInv(x) /\ Calm(s, x)
    OBVIOUS
  <2>2. CASE x.ev[e] = <<>>
    BY <2>2 DEF UnlockOne
  <2>3. CASE x.ev[e] # <<>>
    <3> DEFINE y == xTaskRemoveFromEventList(x, e).s
    <3>1. LInv(y) /\ Calm(x, y)
      BY <2>1, <2>3, RemoveEvent
    <3>2. UnlockOne(x, e) = y
      BY <2>3 DEF UnlockOne
    <3> HIDE DEF y
    <3> QED
      BY <2>1, <3>1, <3>2, CalmThen DEF LInv
  <2> QED
    BY <2>2, <2>3
<1>3. r \in V
  <2> HIDE DEF V
  <2> QED
    BY <1>1, <1>2, UnlockedFacts
<1> HIDE DEF r
<1>4. LInv(r) /\ Calm(s, r)
  BY <1>3
<1> QED
  BY <1>4 DEF r

(* The task that is switched to is ready, and no list changes but for the  *)
(* place of the walk.                                                      *)
LEMMA SwitchFacts ==
  ASSUME NEW s, LInv(s), IsReady(s, Idle)
  PROVE  LET r == vTaskSwitchContext(s) IN
         /\ LInv(r) /\ r.susp = s.susp /\ r.term = s.term /\ r.gone = s.gone
         /\ r.note = s.note /\ r.pending = s.pending /\ r.ev = s.ev
         /\ \A t \in Task : IsReady(r, t) <=> IsReady(s, t)
         /\ IF s.susp THEN r.cur = s.cur ELSE r.cur \in Task /\ IsReady(r, r.cur)
<1>0. s \in KType /\ Idle \in Task /\ MAX_PRIORITIES \in Nat
  BY KernelAssumption DEF LInv
<1>1. CASE s.susp
  <2> DEFINE r == [s EXCEPT !.ypend = TRUE]
  <2>1. LInv(r) /\ Calm(s, r) /\ r.note = s.note
    BY Ypend
  <2>2. /\ r.cur = s.cur /\ r.susp = s.susp /\ r.term = s.term /\ r.gone = s.gone
        /\ r.pending = s.pending /\ r.ev = s.ev /\ r.rl = s.rl /\ r.prio = s.prio
    BY <1>0 DEF KType
  <2>3. vTaskSwitchContext(s) = r
    BY <1>1 DEF vTaskSwitchContext
  <2> HIDE DEF r
  <2>4. \A t \in Task : IsReady(r, t) <=> IsReady(s, t)
    BY <2>2, SameReady
  <2> QED
    BY <1>1, <2>1, <2>2, <2>3, <2>4
<1>2. CASE ~s.susp
  <2> DEFINE p == GreatestOf(s.top)
             l == Walk(s.rl[p])
             R == [s.rl EXCEPT ![p] = l]
             c == l.items[l.idx]
             r == [s EXCEPT !.rl = R, !.cur = c, !.ypend = FALSE]
  <2>1. vTaskSwitchContext(s) = r
    BY <1>2 DEF vTaskSwitchContext
  <2>2. s.prio[Idle] \in s.top /\ s.top \in SUBSET Prios
    <3>1. s.rl[s.prio[Idle]].items # <<>>
      BY <1>0, ReadyFacts, SeqFacts
    <3> QED
      BY <1>0, <3>1, ReadyFacts DEF LInv, RInv, TopExact, KType
  <2>3. p \in s.top /\ p \in Prios
    BY <1>0, <2>2, Greatest
  <2> HIDE DEF p
  <2>4. s.rl[p] \in LType /\ Sound(s.rl[p]) /\ s.rl[p].items # <<>>
    BY <1>0, <2>3 DEF KType, LInv, RInv, OwnList, TopExact
  <2>5. l \in LType /\ Sound(l) /\ l.items = s.rl[p].items /\ c \in ToSet(l.items)
    BY <2>4, WalkFacts
  <2>6. ToSet(s.rl[p].items) \subseteq Task
    BY <2>4, SeqFacts DEF LType
  <2> HIDE DEF l, c
  <2>7. /\ R \in [Prios -> LType] /\ R[p] = l /\ \A q \in Prios \ {p} : R[q] = s.rl[q]
        /\ c \in Task /\ s.prio[c] = p
    BY <1>0, <2>3, <2>5, <2>6 DEF KType, LInv, RInv, OwnList
  <2> HIDE DEF R
  <2>8. /\ r \in KType /\ r.rl = R /\ r.cur = c /\ r.prio = s.prio /\ r.top = s.top
        /\ r.delayed = s.delayed /\ r.overflow = s.overflow /\ r.suspended = s.suspended
        /\ r.ev = s.ev /\ r.term = s.term /\ r.gone = s.gone /\ r.pending = s.pending
        /\ r.susp = s.susp /\ r.note = s.note
    BY <1>0, <2>7 DEF KType
  <2> HIDE DEF r
  <2>9. \A q \in Prios : R[q].items = s.rl[q].items /\ Sound(R[q])
    BY <2>3, <2>5, <2>7 DEF LInv, RInv, OwnList
  <2>10. s.prio \in [Task -> Prios]
    BY <1>0 DEF KType
  <2>11. \A t \in Task : IsReady(r, t) <=> IsReady(s, t)
    BY <2>8, <2>9, <2>10 DEF IsReady
  <2>12. OwnList(r) /\ TopExact(r)
    BY <2>8, <2>9 DEF LInv, RInv, OwnList, TopExact
  <2>13. InOne(r)
    BY <2>8, <2>11 DEF LInv, RInv, InOne, OneOf
  <2>14. Blocked(r) = Blocked(s) /\ \A u : Waits(r, u) <=> Waits(s, u)
    BY <2>8 DEF Blocked, Waits
  <2>15. Events(r)
    BY <2>8, <2>14 DEF LInv, Events
  <2>16. IsReady(r, r.cur)
    BY <2>3, <2>5, <2>7, <2>8 DEF IsReady
  <2> QED
    BY <1>2, <2>1, <2>7, <2>8, <2>11, <2>12, <2>13, <2>15, <2>16 DEF LInv, RInv
<1> QED
  BY <1>1, <1>2

(* A task is made, deletes itself, is freed by the idle task. *)
LEMMA CreateFacts ==
  ASSUME NEW s, LInv(s), NEW t \in s.gone
  PROVE  LET r == prvAddTaskToReadyList([s EXCEPT !.gone = @ \ {t}], t) IN
         /\ LInv(r) /\ r.cur = s.cur /\ r.susp = s.susp /\ r.term = s.term
         /\ r.gone = s.gone \ {t} /\ r.note = s.note /\ r.pending = s.pending /\ r.ev = s.ev
         /\ \A u \in Task : IsReady(r, u) <=> IsReady(s, u) \/ u = t
<1> DEFINE G == s.gone \ {t}
           m == [s EXCEPT !.gone = G]
           r == prvAddTaskToReadyList(m, t)
<1>0. s \in KType /\ t \in Task /\ G \in SUBSET Task
  BY DEF LInv, KType
<1>1. r = prvAddTaskToReadyList([s EXCEPT !.gone = @ \ {t}], t)
  OBVIOUS
<1> HIDE DEF G
<1>2. /\ m \in KType /\ m.rl = s.rl /\ m.prio = s.prio /\ m.top = s.top
      /\ m.delayed = s.delayed /\ m.overflow = s.overflow /\ m.suspended = s.suspended
      /\ m.ev = s.ev /\ m.term = s.term /\ m.gone = G /\ m.pending = s.pending
      /\ m.cur = s.cur /\ m.susp = s.susp /\ m.note = s.note
  BY <1>0 DEF KType
<1> HIDE DEF m
<1>3. OwnList(m) /\ TopExact(m) /\ \A u \in Task : IsReady(m, u) <=> IsReady(s, u)
  BY <1>2, SameReady DEF LInv, RInv
<1>4. ~IsReady(s, t)
  BY <1>0 DEF LInv, RInv, InOne, OneOf
<1>5. TopBut(m, m.prio[t])
  BY <1>3 DEF TopBut, TopExact
<1>6. /\ r \in KType /\ OwnList(r) /\ TopExact(r)
      /\ r = [m EXCEPT !.rl = r.rl, !.top = r.top]
      /\ \A u \in Task : IsReady(r, u) <=> IsReady(m, u) \/ u = t
  BY <1>0, <1>2, <1>3, <1>4, <1>5, AddReady
<1> HIDE DEF r
<1>7. /\ r.delayed = m.delayed /\ r.overflow = m.overflow /\ r.suspended = m.suspended
      /\ r.ev = m.ev /\ r.term = m.term /\ r.gone = m.gone /\ r.pending = m.pending
      /\ r.cur = m.cur /\ r.susp = m.susp /\ r.note = m.note
  BY <1>2, <1>6 DEF KType
<1>8. InOne(r)
  <2>1. Distinct(r.delayed) /\ Distinct(r.overflow)
    BY <1>2, <1>7 DEF LInv, RInv, InOne
  <2>2. ASSUME NEW u \in Task
        PROVE  OneOf(IsReady(r, u), u \in ToSet(r.delayed), u \in ToSet(r.overflow),
                     u \in r.suspended, u \in r.term, u \in r.gone)
    <3>1. OneOf(IsReady(s, u), u \in ToSet(s.delayed), u \in ToSet(s.overflow),
                u \in s.suspended, u \in s.term, u \in s.gone)
      BY DEF LInv, RInv, InOne
    <3>2. u \in r.gone <=> u \in s.gone /\ u # t
      BY <1>2, <1>7 DEF G
    <3> QED
      BY <1>2, <1>3, <1>6, <1>7, <3>1, <3>2 DEF OneOf
  <2> QED
    BY <2>1, <2>2 DEF InOne
<1>9. Blocked(r) = Blocked(s) /\ \A u : Waits(r, u) <=> Waits(s, u)
  BY <1>2, <1>7 DEF Blocked, Waits
<1>10. Events(r)
  BY <1>2, <1>7, <1>9 DEF LInv, Events, G
<1> QED
  BY <1>1, <1>2, <1>3, <1>6, <1>7, <1>8, <1>10 DEF LInv, RInv, G

LEMMA DeleteFacts ==
  ASSUME NEW s, LInv(s), IsReady(s, s.cur), s.cur \notin ToSet(s.pending)
  PROVE  LET r == [UnReady(s, s.cur) EXCEPT !.term = @ \cup {s.cur}] IN
         /\ LInv(r) /\ r.cur = s.cur /\ r.susp = s.susp /\ r.term = s.term \cup {s.cur}
         /\ r.gone = s.gone /\ r.note = s.note /\ r.pending = s.pending /\ r.ev = s.ev
         /\ \A u \in Task : IsReady(r, u) <=> IsReady(s, u) /\ u # s.cur
<1> DEFINE t == s.cur
           a == UnReady(s, t)
           T == s.term \cup {t}
           r == [a EXCEPT !.term = T]
<1>0. s \in KType /\ t \in Task /\ T \in SUBSET Task /\ OwnList(s) /\ TopExact(s)
  BY DEF LInv, KType, RInv
<1>1. /\ a \in KType /\ OwnList(a) /\ TopExact(a)
      /\ SameRest(s, a) /\ a.delayed = s.delayed /\ a.overflow = s.overflow
      /\ a.suspended = s.suspended
      /\ \A u \in Task : IsReady(a, u) <=> IsReady(s, u) /\ u # t
  BY <1>0, UnReadyFacts
<1>2. [UnReady(s, s.cur) EXCEPT !.term = @ \cup {s.cur}] = r
  BY <1>1 DEF SameRest
<1> HIDE DEF a, T
<1>3. /\ r \in KType /\ r.rl = a.rl /\ r.prio = a.prio /\ r.top = a.top
      /\ r.delayed = a.delayed /\ r.overflow = a.overflow /\ r.suspended = a.suspended
      /\ r.ev = a.ev /\ r.term = T /\ r.gone = a.gone /\ r.pending = a.pending
      /\ r.cur = a.cur /\ r.susp = a.susp /\ r.note = a.note
  BY <1>0, <1>1 DEF KType
<1> HIDE DEF r
<1>4. OwnList(r) /\ TopExact(r) /\ \A u \in Task : IsReady(r, u) <=> IsReady(a, u)
  BY <1>1, <1>3, SameReady
<1>5. InOne(r)
  <2>1. Distinct(r.delayed) /\ Distinct(r.overflow)
    BY <1>1, <1>3 DEF LInv, RInv, InOne
  <2>2. ASSUME NEW u \in Task
        PROVE  OneOf(IsReady(r, u), u \in ToSet(r.delayed), u \in ToSet(r.overflow),
                     u \in r.suspended, u \in r.term, u \in r.gone)
    <3>1. OneOf(IsReady(s, u), u \in ToSet(s.delayed), u \in ToSet(s.overflow),
                u \in s.suspended, u \in s.term, u \in s.gone)
      BY DEF LInv, RInv, InOne
    <3>2. u \in r.term <=> u \in s.term \/ u = t
      BY <1>3 DEF T
    <3>3. r.gone = s.gone
      BY <1>1, <1>3 DEF SameRest
    <3> QED
      BY <1>1, <1>3, <1>4, <3>1, <3>2, <3>3 DEF OneOf
  <2> QED
    BY <2>1, <2>2 DEF InOne
<1>6. Blocked(r) = Blocked(s) /\ \A u : Waits(r, u) <=> Waits(s, u)
  BY <1>1, <1>3 DEF Blocked, Waits, SameRest
<1>7. Events(r)
  BY <1>1, <1>3, <1>6 DEF LInv, Events, SameRest, T
<1> QED
  BY <1>1, <1>2, <1>3, <1>4, <1>5, <1>7 DEF LInv, RInv, SameRest, T

LEMMA FreeFacts ==
  ASSUME NEW s, LInv(s), NEW t \in s.term
  PROVE  LET r == [s EXCEPT !.term = @ \ {t}, !.gone = @ \cup {t},
                            !.note[t] = [n |-> 0, state |-> "none"]] IN
         /\ LInv(r) /\ r.cur = s.cur /\ r.susp = s.susp
         /\ r.term = s.term \ {t} /\ r.gone = s.gone \cup {t} /\ r.pending = s.pending /\ r.ev = s.ev
         /\ \A u \in Task : IsReady(r, u) <=> IsReady(s, u)
         /\ \A u \in Task : Waiting(r, u) => Waiting(s, u)
<1> DEFINE T == s.term \ {t}
           G == s.gone \cup {t}
           v == [n |-> 0, state |-> "none"]
           N == [s.note EXCEPT ![t] = v]
           r == [s EXCEPT !.term = T, !.gone = G, !.note = N]
<1>0. s \in KType /\ t \in Task /\ T \in SUBSET Task /\ G \in SUBSET Task
  BY DEF LInv, KType
<1>1. N \in [Task -> [n : Nat, state : States]] /\ \A u \in Task : N[u].state = "waiting" => s.note[u].state = "waiting"
  <2>1. v \in [n : Nat, state : States] /\ v.state # "waiting"
    BY DEF States
  <2> HIDE DEF v
  <2>2. s.note \in [Task -> [n : Nat, state : States]]
    BY <1>0 DEF KType
  <2> QED
    BY <1>0, <2>1, <2>2
<1>2. [s EXCEPT !.term = @ \ {t}, !.gone = @ \cup {t},
                !.note[t] = [n |-> 0, state |-> "none"]] = r
  BY <1>0 DEF KType
<1> HIDE DEF T, G, N
<1>3. /\ r \in KType /\ r.rl = s.rl /\ r.prio = s.prio /\ r.top = s.top
      /\ r.delayed = s.delayed /\ r.overflow = s.overflow /\ r.suspended = s.suspended
      /\ r.ev = s.ev /\ r.term = T /\ r.gone = G /\ r.pending = s.pending
      /\ r.cur = s.cur /\ r.susp = s.susp /\ r.note = N
  BY <1>0, <1>1 DEF KType
<1> HIDE DEF r
<1>4. OwnList(r) /\ TopExact(r) /\ \A u \in Task : IsReady(r, u) <=> IsReady(s, u)
  BY <1>3, SameReady DEF LInv, RInv
<1>5. InOne(r)
  <2>1. Distinct(r.delayed) /\ Distinct(r.overflow)
    BY <1>3 DEF LInv, RInv, InOne
  <2>2. ASSUME NEW u \in Task
        PROVE  OneOf(IsReady(r, u), u \in ToSet(r.delayed), u \in ToSet(r.overflow),
                     u \in r.suspended, u \in r.term, u \in r.gone)
    <3>1. OneOf(IsReady(s, u), u \in ToSet(s.delayed), u \in ToSet(s.overflow),
                u \in s.suspended, u \in s.term, u \in s.gone)
      BY DEF LInv, RInv, InOne
    <3>2. (u \in r.term <=> u \in s.term /\ u # t) /\ (u \in r.gone <=> u \in s.gone \/ u = t)
      BY <1>3 DEF T, G
    <3> QED
      BY <1>3, <1>4, <3>1, <3>2 DEF OneOf
  <2> QED
    BY <2>1, <2>2 DEF InOne
<1>6. Blocked(r) = Blocked(s) /\ \A u : Waits(r, u) <=> Waits(s, u)
  BY <1>3 DEF Blocked, Waits
<1>7. Events(r)
  BY <1>3, <1>6 DEF LInv, Events, T, G
<1> QED
  BY <1>1, <1>2, <1>3, <1>4, <1>5, <1>7 DEF LInv, RInv, Waiting, T, G

-----------------------------------------------------------------------------
(* Where the tasks are in their calls. *)

Locked == {"lock", "place", "unlockTx", "unlockRx", "resume"}

(* Where a task may be that is in the list of an event. *)
Asleep(x) == x.pc \in {"unlockTx", "unlockRx", "resume", "try"} /\ x.op # "delay"

(* Where the tasks are in their calls, and what the kernel knows of them.  *)
Ctx(s, l, pend) ==
  /\ ~s.susp => s.pending = <<>>
  /\ s.susp <=> l[s.cur].pc \in Locked
  /\ \A t \in Task : l[t].pc \in Locked => t = s.cur
  /\ ~s.susp /\ ~pend => IsReady(s, s.cur)
  /\ s.susp /\ (l[s.cur].pc \in {"lock", "place"} \/ l[s.cur].after # "block") => IsReady(s, s.cur)
  /\ l[s.cur].pc \in {"lock", "place"} => s.cur \notin ToSet(s.pending)
  /\ \A t \in Task : Waits(s, t) => Asleep(l[t])
  /\ \A t \in Task : Waiting(s, t) => l[t].pc = "notified"
  /\ \A t \in Task : t \in s.term \/ t \in s.gone => l[t].pc = "app"
  /\ IsReady(s, Idle) /\ l[Idle].pc = "app"

OnType == [tick : Int, over : Int]
Places == {"app", "try", "asserted", "suspend", "lock", "place", "unlockTx", "unlockRx",
           "resume", "notified", "back", "expired", "disinherit"}
Ops == {"none", "send", "recv", "take", "give", "delay", "ntake", "ngive", "create", "delete"}
LocType ==
  {l \in [pc : Places, op : Ops, obj : {"q", "none"} \cup Mutex \cup Task, left : Int,
          on : {None} \cup OnType, inherited : BOOLEAN,
          after : {"none", "block", "retry", "expired"}, due : Int] :
     /\ l.op \in {"take", "give"} => l.obj \in Mutex
     /\ l.op \in {"ngive", "create"} => l.obj \in Task}

(* The locals of a call, by its place. *)
Steady(l) ==
  /\ l.pc \in {"try", "suspend", "lock", "place"} => l.op \in {"send", "recv", "take"}
  /\ l.pc \in {"suspend", "lock"} => l.on \in OnType
  /\ l.pc \in {"unlockTx", "unlockRx", "resume"} =>
       /\ l.op \in {"send", "recv", "take", "delay"}
       /\ l.after \in {"block", "retry", "expired"}
  /\ l.op # "take" => ~l.inherited
  /\ l.pc = "expired" => l.op \in {"recv", "take"}
  /\ l.pc = "disinherit" => l.op = "take"

Inv ==
  /\ conf \in Confs /\ LInv(k) /\ Ctx(k, loc, pendsv)
  /\ que \in [n : Int, tx : Int, rx : Int]
  /\ holder \in [Mutex -> Task \cup {None}]
  /\ loc \in [Task -> LocType]
  /\ \A t \in Task : Steady(loc[t])

(* What also holds of a step that makes a task or frees one. *)
Mild(s, r) ==
  /\ r.cur = s.cur /\ r.susp = s.susp
  /\ \A t \in Task : t \in r.term \/ t \in r.gone => t \in s.term \/ t \in s.gone
  /\ \A t \in Task : IsReady(s, t) => IsReady(r, t)
  /\ \A t \in Task : Waits(r, t) => Waits(s, t)
  /\ \A t \in Task : Waiting(r, t) => Waiting(s, t)
  /\ \A t \in ToSet(r.pending) : t \in ToSet(s.pending) \/ Waits(s, t) \/ Waiting(s, t)
  /\ ~s.susp => r.pending = s.pending

(* A calm step keeps what Ctx says of the tasks. *)
LEMMA CalmIsMild == ASSUME NEW s, NEW r, Calm(s, r) PROVE Mild(s, r)
BY DEF Calm, Mild

LEMMA CtxCalm ==
  ASSUME NEW s, NEW l, NEW p, NEW r, NEW q,
         LInv(s), LInv(r), Ctx(s, l, p), Mild(s, r), p => q
  PROVE  Ctx(r, l, q)
<1>1. s.cur \in Task /\ r.cur \in Task /\ Idle \in Task
  BY KernelAssumption DEF LInv, KType
<1>2. r.cur = s.cur /\ r.susp = s.susp
      /\ \A t \in Task : t \in r.term \/ t \in r.gone => t \in s.term \/ t \in s.gone
  BY DEF Mild
<1>3. ~r.susp => r.pending = <<>>
  BY DEF Ctx, Mild
<1>4. /\ ~r.susp /\ ~q => IsReady(r, r.cur)
      /\ r.susp /\ (l[r.cur].pc \in {"lock", "place"} \/ l[r.cur].after # "block") => IsReady(r, r.cur)
      /\ IsReady(r, Idle)
  BY <1>1, <1>2 DEF Ctx, Mild
<1>5. l[r.cur].pc \in {"lock", "place"} => r.cur \notin ToSet(r.pending)
  <2> SUFFICES ASSUME l[r.cur].pc \in {"lock", "place"}, r.cur \in ToSet(r.pending) PROVE FALSE
    OBVIOUS
  <2>1. s.cur \in ToSet(s.pending) \/ Waits(s, s.cur) \/ Waiting(s, s.cur)
    BY <1>2 DEF Mild
  <2> QED
    BY <1>1, <1>2, <2>1 DEF Ctx, Asleep
<1>6. /\ \A t \in Task : Waits(r, t) => Asleep(l[t])
      /\ \A t \in Task : Waiting(r, t) => l[t].pc = "notified"
  BY DEF Ctx, Mild
<1> QED
  BY <1>2, <1>3, <1>4, <1>5, <1>6 DEF Ctx

(* The caller goes on in its call, the scheduler running. *)
LEMMA CtxMove ==
  ASSUME NEW s, NEW l \in [Task -> LocType], NEW p, NEW x,
         LInv(s), Ctx(s, l, p), l[s.cur].pc \notin Locked, x.pc \notin Locked,
         IsReady(s, s.cur), ~Waiting(s, s.cur), s.cur = Idle => x.pc = "app"
  PROVE  Ctx(s, [l EXCEPT ![s.cur] = x], p)
<1> DEFINE m == [l EXCEPT ![s.cur] = x]
<1>1. s.cur \in Task /\ Idle \in Task
  BY KernelAssumption DEF LInv, KType
<1>2. m[s.cur] = x /\ \A t \in Task : t # s.cur => m[t] = l[t]
  BY <1>1
<1>3. ~Waits(s, s.cur) /\ s.cur \notin s.term /\ s.cur \notin s.gone
  BY <1>1, WaitsFacts, BlockedFacts DEF LInv, RInv, InOne, OneOf
<1> HIDE DEF m
<1>4. ~s.susp
  BY DEF Ctx
<1>5. x.pc \notin {"lock", "place"}
  BY DEF Locked
<1>6. m[Idle].pc = "app"
  BY <1>1, <1>2 DEF Ctx
<1> QED
  BY <1>1, <1>2, <1>3, <1>4, <1>5, <1>6 DEF Ctx, m

(* The same, while it holds the scheduler. *)
LEMMA CtxHeld ==
  ASSUME NEW s, NEW l \in [Task -> LocType], NEW p, NEW x,
         LInv(s), Ctx(s, l, p), l[s.cur].pc \in Locked, x.pc \in Locked,
         x.op = l[s.cur].op, x.pc \in {"lock", "place"} \/ x.after # "block" => IsReady(s, s.cur),
         x.pc \in {"lock", "place"} => s.cur \notin ToSet(s.pending) /\ ~Waits(s, s.cur)
  PROVE  Ctx(s, [l EXCEPT ![s.cur] = x], p)
<1> DEFINE m == [l EXCEPT ![s.cur] = x]
<1>1. s.cur \in Task /\ Idle \in Task
  BY KernelAssumption DEF LInv, KType
<1>2. m[s.cur] = x /\ \A t \in Task : t # s.cur => m[t] = l[t]
  BY <1>1
<1> HIDE DEF m
<1>3. s.susp /\ l[s.cur].pc # "app" /\ l[s.cur].pc # "notified"
  BY DEF Ctx, Locked
<1>4. s.cur # Idle /\ s.cur \notin s.term /\ s.cur \notin s.gone /\ ~Waiting(s, s.cur)
  BY <1>1, <1>3 DEF Ctx
<1>5. Waits(s, s.cur) => Asleep(x)
  BY <1>1 DEF Locked, Ctx, Asleep
<1> QED
  BY <1>1, <1>2, <1>3, <1>4, <1>5 DEF Ctx, m

(* Who runs outside the scheduler's sections. *)
LEMMA RunsFacts ==
  ASSUME Inv, NEW t \in Task, Runs(t)
  PROVE  /\ t = k.cur /\ ~pendsv
         /\ loc[t].pc \notin Locked =>
              /\ ~k.susp /\ k.pending = <<>> /\ IsReady(k, t)
              /\ ~Waits(k, t) /\ t \notin k.term /\ t \notin k.gone
              /\ loc[t].pc # "notified" => ~Waiting(k, t)
         /\ loc[t].pc \in Locked => k.susp /\ t # Idle
         /\ loc[t].pc # "app" => t # Idle
<1>1. t = k.cur /\ ~pendsv
  BY DEF Runs
<1>2. LInv(k) /\ Ctx(k, loc, pendsv)
  BY DEF Inv
<1>3. ASSUME loc[t].pc \notin Locked
      PROVE  /\ ~k.susp /\ k.pending = <<>> /\ IsReady(k, t)
             /\ ~Waits(k, t) /\ t \notin k.term /\ t \notin k.gone
             /\ loc[t].pc # "notified" => ~Waiting(k, t)
  <2>1. ~k.susp /\ k.pending = <<>> /\ IsReady(k, t)
    BY <1>1, <1>2, <1>3 DEF Ctx
  <2>2. ~Waits(k, t) /\ t \notin k.term /\ t \notin k.gone
    BY <1>2, <2>1, WaitsFacts, BlockedFacts DEF LInv, RInv, InOne, OneOf
  <2> QED
    BY <1>2, <2>1, <2>2 DEF Ctx
<1>4. "app" \notin Locked
  BY DEF Locked
<1> QED
  BY <1>1, <1>2, <1>3, <1>4 DEF Ctx

(* The call a task may make, or is making. *)
LEMMA CallsFacts ==
  ASSUME Inv, NEW t \in Task, NEW c \in Calls(t)
  PROVE  /\ c \in LocType /\ t # Idle
         /\ loc[t].pc \in {"app", "try"} /\ loc[t].pc \notin Locked
         /\ c.op # "take" => ~c.inherited
         /\ loc[t].pc = "try" => c.op \in {"send", "recv", "take"}
<1>0. MAX_DELAY \in Int /\ MAX_DELAY # 0
  BY KernelAssumption DEF MAX_DELAY
<1>1. CASE loc[t].pc = "try"
  <2>1. c = loc[t]
    BY <1>1 DEF Calls
  <2>2. c \in LocType /\ Steady(c)
    BY <2>1 DEF Inv
  <2>3. t # Idle
    BY <1>1 DEF Inv, Ctx
  <2> QED
    BY <1>0, <1>1, <2>1, <2>2, <2>3 DEF Steady, Locked
<1>2. CASE loc[t].pc # "try"
  <2>1. /\ loc[t].pc = "app"
        /\ c \in {[Home EXCEPT !.op = x.op, !.obj = x.obj, !.left = x.wait] : x \in conf.calls[t]}
    BY <1>2 DEF Calls
  <2>2. PICK x \in conf.calls[t] : c = [Home EXCEPT !.op = x.op, !.obj = x.obj, !.left = x.wait]
    BY <2>1
  <2>3. conf \in Confs /\ conf.calls \in [Task -> SUBSET CallType] /\ conf.calls[Idle] = {}
    BY KernelAssumption DEF Inv
  <2>4. x \in CallType /\ t # Idle
    BY <2>2, <2>3
  <2>6. c = [pc |-> "app", op |-> x.op, obj |-> x.obj, left |-> x.wait, on |-> None,
             inherited |-> FALSE, after |-> "none", due |-> 0]
    BY <2>2 DEF Home
  <2>7. x.wait \in Int /\ x.op \in Ops /\ x.obj \in {"q", "none"} \cup Mutex \cup Task
        /\ (x.op \in {"take", "give"} => x.obj \in Mutex)
        /\ (x.op \in {"ngive", "create"} => x.obj \in Task)
    BY <1>0, <2>4 DEF CallType, Ops
  <2>8. c \in LocType
    BY <2>6, <2>7 DEF LocType, Places
  <2> QED
    BY <2>1, <2>4, <2>6, <2>8 DEF Locked
<1> QED
  BY <1>1, <1>2

-----------------------------------------------------------------------------
(* The steps of a call. *)

(* Someone who waited is woken. *)
LEMMA WakeFacts ==
  ASSUME NEW s, LInv(s), NEW e \in EventLists, NEW otherwise, Wake(s, e, otherwise)
  PROVE  LInv(k') /\ Calm(s, k')
<1>1. CASE s.ev[e] # <<>>
  <2> DEFINE r == xTaskRemoveFromEventList(s, e)
  <2>1. LInv(r.s) /\ Calm(s, r.s)
    BY <1>1, RemoveEvent
  <2>2. k' = r.s
    BY <1>1 DEF Wake
  <2> HIDE DEF r
  <2> QED
    BY <2>1, <2>2
<1>2. CASE s.ev[e] = <<>>
  <2>1. k' = s
    BY <1>2 DEF Wake
  <2> QED
    BY <2>1, CalmSame
<1> QED
  BY <1>1, <1>2

(* The count of mutexes is no list; giving a priority back is a change of  *)
(* it.                                                                     *)
LEMMA HeldFacts ==
  ASSUME NEW s, LInv(s), NEW t \in Task, NEW n \in Int
  PROVE  LET r == [s EXCEPT !.held[t] = n] IN
         LInv(r) /\ Calm(s, r) /\ r.cur = s.cur /\ r.prio = s.prio
<1> DEFINE H == [s.held EXCEPT ![t] = n]
           r == [s EXCEPT !.held = H]
<1>1. s \in KType /\ H \in [Task -> Int]
  BY DEF LInv, KType
<1>2. [s EXCEPT !.held[t] = n] = r
  OBVIOUS
<1> HIDE DEF H
<1>3. r \in KType /\ SameLists(s, r)
      /\ r.pending = s.pending /\ r.cur = s.cur /\ r.susp = s.susp /\ r.note = s.note
  BY <1>1 DEF KType, SameLists
<1> HIDE DEF r
<1> QED
  BY <1>2, <1>3, SameListsInv, SameListsCalm DEF SameLists

LEMMA DisinheritFacts ==
  ASSUME NEW s, LInv(s), NEW t \in Task, conf \in Confs
  PROVE  LET r == xTaskPriorityDisinherit(s, t) IN LInv(r.s) /\ Calm(s, r.s)
<1> DEFINE r == [s EXCEPT !.held[t] = @ - 1]
           x == SetPriority(r, t, Base(t))
<1>1. LInv(r) /\ Calm(s, r)
  <2>1. s.held[t] - 1 \in Int
    BY DEF LInv, KType
  <2> QED
    BY <2>1, HeldFacts
<1>2. Base(t) \in Prios
  BY KernelAssumption DEF Base, Prios
<1>3. xTaskPriorityDisinherit(s, t).s = x \/ xTaskPriorityDisinherit(s, t).s = r
  BY DEF xTaskPriorityDisinherit
<1> HIDE DEF r
<1>4. LInv(x) /\ Calm(r, x)
  BY <1>1, <1>2, SetPriorityFacts
<1> HIDE DEF x
<1>5. Calm(s, x)
  BY <1>1, <1>4, CalmThen DEF LInv
<1> QED
  BY <1>1, <1>3, <1>4, <1>5

(* A step of a call that does not hold the scheduler. *)
LEMMA Moves ==
  ASSUME Inv, NEW t \in Task, Runs(t), loc[t].pc \notin Locked, loc[t].pc # "notified",
         NEW x \in LocType, Steady(x), x.pc \notin Locked, t = Idle => x.pc = "app",
         LInv(k'), Mild(k, k'), loc' = [loc EXCEPT ![t] = x], conf' = conf,
         que' \in [n : Int, tx : Int, rx : Int], holder' \in [Mutex -> Task \cup {None}]
  PROVE  Inv'
<1>1. /\ t = k.cur /\ ~pendsv /\ IsReady(k, t) /\ ~Waiting(k, t)
  BY RunsFacts
<1>2. LInv(k) /\ Ctx(k, loc, pendsv) /\ loc \in [Task -> LocType] /\ conf \in Confs
      /\ \A u \in Task : Steady(loc[u])
  BY DEF Inv
<1>3. Ctx(k', loc, pendsv')
  BY <1>1, <1>2, CtxCalm
<1>4. k'.cur = t /\ IsReady(k', t) /\ ~Waiting(k', t)
  BY <1>1 DEF Mild
<1>5. Ctx(k', loc', pendsv')
  BY <1>2, <1>3, <1>4, CtxMove
<1>6. loc' \in [Task -> LocType] /\ \A u \in Task : Steady(loc'[u])
  BY <1>2
<1> QED
  BY <1>2, <1>5, <1>6 DEF Inv

(* The types of the locals. *)
LEMMA HomeFacts == Home \in LocType /\ Steady(Home) /\ Home.pc = "app" /\ Home.pc \notin Locked
BY DEF Home, LocType, Steady, Locked, Places, Ops

LEMMA TimeFacts ==
  ASSUME Inv
  PROVE  /\ [tick |-> k.tick, over |-> k.over] \in OnType
         /\ \A w \in Int : EndOf(w) \in Int /\ Now(k) + w \in Int
<1>1. k.tick \in Nat /\ k.over \in Nat /\ TickMod \in Nat /\ MaxTime \in Nat
  BY KernelAssumption DEF Inv, LInv, KType
<1>2. k.over * TickMod \in Nat
  BY <1>1
<1> QED
  BY <1>1, <1>2 DEF OnType, EndOf, Now

LEMMA GotoFacts ==
  ASSUME NEW c \in LocType, NEW p \in Places
  PROVE  [c EXCEPT !.pc = p] \in LocType /\ [c EXCEPT !.pc = p].pc = p
BY DEF LocType

(* The call cannot be served. *)
LEMMA NotNowInv ==
  ASSUME Inv, NEW t \in Task, Runs(t), NEW c \in Calls(t), c.op \in {"send", "recv", "take"},
         NotNow(t, c), conf' = conf
  PROVE  Inv'
<1>1. /\ c \in LocType /\ t # Idle /\ loc[t].pc \in {"app", "try"} /\ loc[t].pc \notin Locked
      /\ c.op # "take" => ~c.inherited
  BY CallsFacts
<1>2. k' = k /\ que' = que /\ holder' = holder
  BY DEF NotNow
<1>3. LInv(k') /\ Calm(k, k') /\ que' \in [n : Int, tx : Int, rx : Int]
      /\ holder' \in [Mutex -> Task \cup {None}]
  BY <1>2, CalmSame DEF Inv
<1>4. CASE c.left = 0
  <2> DEFINE x == [c EXCEPT !.pc = "asserted"]
  <2>1. loc' = [loc EXCEPT ![t] = Home] \/ loc' = [loc EXCEPT ![t] = x]
    BY <1>4 DEF NotNow, Return, Goto
  <2>2. x \in LocType /\ x.pc = "asserted" /\ x.op = c.op /\ x.inherited = c.inherited
    BY <1>1 DEF LocType, Places
  <2> HIDE DEF x
  <2>3. Steady(x) /\ x.pc \notin Locked
    BY <1>1, <2>2 DEF Steady, Locked
  <2>4. CASE loc' = [loc EXCEPT ![t] = Home]
    BY <1>1, <1>3, <2>4, HomeFacts, CalmIsMild, Moves
  <2>5. CASE loc' = [loc EXCEPT ![t] = x]
    BY <1>1, <1>3, <2>2, <2>3, <2>5, CalmIsMild, Moves
  <2> QED
    BY <2>1, <2>4, <2>5
<1>5. CASE c.left # 0
  <2> DEFINE d == IF c.on # None THEN c
                  ELSE [c EXCEPT !.on = [tick |-> k.tick, over |-> k.over], !.due = EndOf(c.left)]
             x == [d EXCEPT !.pc = "suspend"]
  <2>1. loc' = [loc EXCEPT ![t] = x]
    BY <1>5 DEF NotNow, Goto
  <2>2. /\ d \in LocType /\ d.on \in OnType /\ d.op = c.op /\ d.left = c.left
        /\ d.inherited = c.inherited /\ d.after = c.after
    <3>1. CASE c.on # None
      BY <1>1, <3>1 DEF LocType
    <3>2. CASE c.on = None
      <4> DEFINE o == [tick |-> k.tick, over |-> k.over]
                 u == EndOf(c.left)
      <4>1. o \in OnType /\ u \in Int
        BY <1>1, TimeFacts DEF LocType
      <4>2. d = [c EXCEPT !.on = o, !.due = u]
        BY <3>2
      <4> HIDE DEF o, u, d
      <4> QED
        BY <1>1, <4>1, <4>2 DEF LocType
    <3> QED
      BY <3>1, <3>2
  <2> HIDE DEF d
  <2>3. /\ x \in LocType /\ x.pc = "suspend" /\ x.on = d.on /\ x.op = c.op /\ x.left = c.left
        /\ x.inherited = c.inherited /\ x.after = c.after
    BY <2>2 DEF LocType, Places
  <2> HIDE DEF x
  <2>4. Steady(x) /\ x.pc \notin Locked
    BY <1>1, <1>5, <2>2, <2>3 DEF Steady, Locked
  <2> QED
    BY <1>1, <1>3, <2>1, <2>3, <2>4, CalmIsMild, Moves
<1> QED
  BY <1>4, <1>5

(* The call has come to its end. *)
LEMMA ReturnInv ==
  ASSUME Inv, NEW t \in Task, Runs(t), loc[t].pc \notin Locked, loc[t].pc # "notified",
         LInv(k'), Calm(k, k'), Return(t), conf' = conf,
         que' \in [n : Int, tx : Int, rx : Int], holder' \in [Mutex -> Task \cup {None}]
  PROVE  Inv'
BY HomeFacts, CalmIsMild, Moves DEF Return

(* The calls of the queue and the mutexes, from their first critical       *)
(* section.                                                                *)
LEMMA SendInv ==
  ASSUME Inv, NEW t \in Task, TrySend(t)
  PROVE  Inv'
<1>1. Runs(t) /\ conf' = conf
  BY DEF TrySend
<1>2. PICK c \in Calls(t) :
        /\ c.op = "send"
        /\ IF que.n < QueueLength
           THEN /\ que' = [que EXCEPT !.n = @ + 1]
                /\ Wake(k, "recv", FALSE)
                /\ Return(t) /\ UNCHANGED holder
           ELSE NotNow(t, c)
  BY DEF TrySend
<1>3. CASE que.n < QueueLength
  <2>1. que' \in [n : Int, tx : Int, rx : Int] /\ holder' \in [Mutex -> Task \cup {None}]
    BY <1>2, <1>3 DEF Inv
  <2>2. LInv(k') /\ Calm(k, k')
    BY <1>2, <1>3, WakeFacts DEF Inv, EventLists
  <2>3. loc[t].pc \in {"app", "try"} /\ loc[t].pc \notin Locked
    BY CallsFacts
  <2> QED
    BY <1>1, <1>2, <1>3, <2>1, <2>2, <2>3, ReturnInv
<1>4. CASE ~(que.n < QueueLength)
  BY <1>1, <1>2, <1>4, NotNowInv
<1> QED
  BY <1>3, <1>4

LEMMA ReceiveInv ==
  ASSUME Inv, NEW t \in Task, TryReceive(t)
  PROVE  Inv'
<1>1. Runs(t) /\ conf' = conf
  BY DEF TryReceive
<1>2. PICK c \in Calls(t) :
        /\ c.op = "recv"
        /\ IF que.n > 0
           THEN /\ que' = [que EXCEPT !.n = @ - 1]
                /\ Wake(k, "send", FALSE)
                /\ Return(t) /\ UNCHANGED holder
           ELSE NotNow(t, c)
  BY DEF TryReceive
<1>3. CASE que.n > 0
  <2>1. que' \in [n : Int, tx : Int, rx : Int] /\ holder' \in [Mutex -> Task \cup {None}]
    BY <1>2, <1>3 DEF Inv
  <2>2. LInv(k') /\ Calm(k, k')
    BY <1>2, <1>3, WakeFacts DEF Inv, EventLists
  <2>3. loc[t].pc \in {"app", "try"} /\ loc[t].pc \notin Locked
    BY CallsFacts
  <2> QED
    BY <1>1, <1>2, <1>3, <2>1, <2>2, <2>3, ReturnInv
<1>4. CASE ~(que.n > 0)
  BY <1>1, <1>2, <1>4, NotNowInv
<1> QED
  BY <1>3, <1>4

LEMMA TakeInv ==
  ASSUME Inv, NEW t \in Task, TryTake(t)
  PROVE  Inv'
<1>1. Runs(t) /\ conf' = conf
  BY DEF TryTake
<1>2. PICK c \in Calls(t) :
        /\ c.op = "take" /\ holder[c.obj] # t
        /\ IF holder[c.obj] = None
           THEN /\ holder' = [holder EXCEPT ![c.obj] = t]
                /\ k' = [k EXCEPT !.held[t] = @ + 1]
                /\ Return(t) /\ UNCHANGED <<que, pendsv>>
           ELSE NotNow(t, c)
  BY DEF TryTake
<1>3. CASE holder[c.obj] = None
  <2>1. que' \in [n : Int, tx : Int, rx : Int] /\ holder' \in [Mutex -> Task \cup {None}]
    BY <1>2, <1>3 DEF Inv
  <2>2. LInv(k') /\ Calm(k, k')
    <3>1. LInv(k)
      BY DEF Inv
    <3>2. k.held[t] + 1 \in Int
      BY <3>1 DEF LInv, KType
    <3> QED
      BY <1>2, <1>3, <3>1, <3>2, HeldFacts
  <2>3. loc[t].pc \in {"app", "try"} /\ loc[t].pc \notin Locked
    BY CallsFacts
  <2> QED
    BY <1>1, <1>2, <1>3, <2>1, <2>2, <2>3, ReturnInv
<1>4. CASE holder[c.obj] # None
  BY <1>1, <1>2, <1>4, NotNowInv
<1> QED
  BY <1>3, <1>4

LEMMA GiveInv ==
  ASSUME Inv, NEW t \in Task, xSemaphoreGive(t)
  PROVE  Inv'
<1>1. Runs(t) /\ Return(t) /\ conf' = conf /\ que' = que
  BY DEF xSemaphoreGive
<1> DEFINE d == xTaskPriorityDisinherit(k, t)
<1>2. PICK c \in Calls(t) :
        /\ c.op = "give" /\ holder[c.obj] = t
        /\ holder' = [holder EXCEPT ![c.obj] = None]
        /\ Wake(d.s, c.obj, d.yield)
  BY DEF xSemaphoreGive
<1>3. LInv(d.s) /\ Calm(k, d.s)
  BY DisinheritFacts DEF Inv
<1> HIDE DEF d
<1>4. c \in LocType /\ loc[t].pc \in {"app", "try"} /\ loc[t].pc \notin Locked
  BY CallsFacts
<1>5. c.obj \in EventLists /\ c.obj \in Mutex
  BY <1>2, <1>4 DEF LocType, EventLists
<1>6. LInv(k') /\ Calm(d.s, k')
  BY <1>2, <1>3, <1>5, WakeFacts
<1>7. Calm(k, k')
  BY <1>3, <1>6, CalmThen DEF LInv, Inv
<1>8. que' \in [n : Int, tx : Int, rx : Int] /\ holder' \in [Mutex -> Task \cup {None}]
  BY <1>1, <1>2 DEF Inv
<1> QED
  BY <1>1, <1>4, <1>6, <1>7, <1>8, ReturnInv

(* Whoever waits for a notification can be woken by one. *)
LEMMA NotifiableFacts ==
  ASSUME Inv, NEW t \in Task
  PROVE  Waiting(k, t) => ~Waits(k, t) /\ t \notin k.term /\ t \notin k.gone
BY DEF Inv, Ctx, Asleep

(* A notification from a task. *)
LEMMA NotifyGiveInv ==
  ASSUME Inv, NEW t \in Task, xTaskNotifyGive(t)
  PROVE  Inv'
<1>1. Runs(t) /\ Return(t) /\ conf' = conf /\ que' = que /\ holder' = holder
  BY DEF xTaskNotifyGive
<1>2. PICK c \in Calls(t) : c.op = "ngive" /\ k' = Notify(k, c.obj).s
  BY DEF xTaskNotifyGive
<1>3. c \in LocType /\ loc[t].pc \in {"app", "try"} /\ loc[t].pc \notin Locked
  BY CallsFacts
<1>4. c.obj \in Task
  BY <1>2, <1>3 DEF LocType
<1>5. LInv(k') /\ Calm(k, k')
  BY <1>2, <1>4, NotifiableFacts, NotifyFacts DEF Inv
<1>6. que' \in [n : Int, tx : Int, rx : Int] /\ holder' \in [Mutex -> Task \cup {None}]
  BY <1>1 DEF Inv
<1> QED
  BY <1>1, <1>3, <1>5, <1>6, ReturnInv

(* A delay is over; a wait is over. *)
LEMMA BackInv ==
  ASSUME Inv, NEW t \in Task, Back(t)
  PROVE  Inv'
<1>1. Runs(t) /\ loc[t].pc = "back" /\ Return(t) /\ k' = k /\ que' = que /\ holder' = holder /\ conf' = conf
  BY DEF Back
<1>2. LInv(k') /\ Calm(k, k')
  BY <1>1, CalmSame DEF Inv
<1>3. que' \in [n : Int, tx : Int, rx : Int] /\ holder' \in [Mutex -> Task \cup {None}]
  BY <1>1 DEF Inv
<1>4. loc[t].pc \notin Locked /\ loc[t].pc # "notified"
  BY <1>1 DEF Locked
<1> QED
  BY <1>1, <1>2, <1>3, <1>4, ReturnInv

LEMMA ExpiredInv ==
  ASSUME Inv, NEW t \in Task, Expired(t)
  PROVE  Inv'
<1> DEFINE c == loc[t]
           d == [c EXCEPT !.after = "none"]
           x == [d EXCEPT !.pc = "try"]
           y == [c EXCEPT !.pc = "disinherit"]
<1>1. Runs(t) /\ loc[t].pc = "expired" /\ k' = k /\ que' = que /\ holder' = holder /\ conf' = conf
  BY DEF Expired
<1>2. LInv(k') /\ Calm(k, k')
  BY <1>1, CalmSame DEF Inv
<1>3. que' \in [n : Int, tx : Int, rx : Int] /\ holder' \in [Mutex -> Task \cup {None}]
  BY <1>1 DEF Inv
<1>4. loc[t].pc \notin Locked /\ loc[t].pc # "notified" /\ t # Idle
  BY <1>1, RunsFacts DEF Locked
<1>5. c \in LocType /\ Steady(c) /\ c.op \in {"recv", "take"}
  BY <1>1 DEF Inv, Steady
<1>6. \/ loc' = [loc EXCEPT ![t] = x]
      \/ c.inherited /\ loc' = [loc EXCEPT ![t] = y]
      \/ Return(t)
  BY DEF Expired, Goto
<1> HIDE DEF c
<1>7. /\ x \in LocType /\ x.pc = "try" /\ x.op = c.op /\ x.inherited = c.inherited
      /\ y \in LocType /\ y.pc = "disinherit" /\ y.op = c.op /\ y.inherited = c.inherited
  BY <1>5 DEF LocType, Places
<1> HIDE DEF x, y
<1>8. Steady(x) /\ x.pc \notin Locked
  BY <1>5, <1>7 DEF Steady, Locked
<1>9. CASE Return(t)
  BY <1>1, <1>2, <1>3, <1>4, <1>9, ReturnInv
<1>10. CASE loc' = [loc EXCEPT ![t] = x]
  BY <1>1, <1>2, <1>3, <1>4, <1>7, <1>8, <1>10, CalmIsMild, Moves
<1>11. CASE c.inherited /\ loc' = [loc EXCEPT ![t] = y]
  <2>1. Steady(y) /\ y.pc \notin Locked
    BY <1>5, <1>7, <1>11 DEF Steady, Locked
  <2> QED
    BY <1>1, <1>2, <1>3, <1>4, <1>7, <1>11, <2>1, CalmIsMild, Moves
<1> QED
  BY <1>6, <1>9, <1>10, <1>11

(* Tasks come and go. *)
LEMMA CreateInv ==
  ASSUME Inv, NEW t \in Task, xTaskCreate(t)
  PROVE  Inv'
<1>1. Runs(t) /\ Return(t) /\ conf' = conf /\ que' = que /\ holder' = holder
  BY DEF xTaskCreate
<1>2. PICK c \in Calls(t) :
        /\ c.obj \in k.gone
        /\ k' = k \/ k' = prvAddTaskToReadyList([k EXCEPT !.gone = @ \ {c.obj}], c.obj)
  BY DEF xTaskCreate
<1>3. loc[t].pc \in {"app", "try"} /\ loc[t].pc \notin Locked
  BY CallsFacts
<1>4. que' \in [n : Int, tx : Int, rx : Int] /\ holder' \in [Mutex -> Task \cup {None}]
  BY <1>1 DEF Inv
<1>5. LInv(k') /\ Mild(k, k')
  <2>1. CASE k' = k
    BY <2>1, CalmSame, CalmIsMild DEF Inv
  <2>2. CASE k' = prvAddTaskToReadyList([k EXCEPT !.gone = @ \ {c.obj}], c.obj)
    <3> DEFINE r == prvAddTaskToReadyList([k EXCEPT !.gone = @ \ {c.obj}], c.obj)
    <3>1. /\ LInv(r) /\ r.cur = k.cur /\ r.susp = k.susp /\ r.term = k.term
          /\ r.gone = k.gone \ {c.obj} /\ r.note = k.note /\ r.pending = k.pending /\ r.ev = k.ev
          /\ \A u \in Task : IsReady(r, u) <=> IsReady(k, u) \/ u = c.obj
      BY <1>2, CreateFacts DEF Inv
    <3> HIDE DEF r
    <3>2. Mild(k, r)
      BY <3>1 DEF Mild, Waits, Waiting
    <3> QED
      BY <2>2, <3>1, <3>2 DEF r
  <2> QED
    BY <1>2, <2>1, <2>2
<1> QED
  BY <1>1, <1>3, <1>4, <1>5, HomeFacts, Moves DEF Return

LEMMA FreeInv ==
  ASSUME Inv, prvCheckTasksWaitingTermination
  PROVE  Inv'
<1>1. PICK t \in k.term :
        k' = [k EXCEPT !.term = @ \ {t}, !.gone = @ \cup {t},
                       !.note[t] = [n |-> 0, state |-> "none"]]
  BY DEF prvCheckTasksWaitingTermination
<1>2. que' = que /\ holder' = holder /\ loc' = loc /\ pendsv' = pendsv /\ conf' = conf
  BY DEF prvCheckTasksWaitingTermination
<1>3. LInv(k) /\ Ctx(k, loc, pendsv)
  BY DEF Inv
<1> DEFINE r == [k EXCEPT !.term = @ \ {t}, !.gone = @ \cup {t},
                          !.note[t] = [n |-> 0, state |-> "none"]]
<1>4. /\ LInv(r) /\ r.cur = k.cur /\ r.susp = k.susp
      /\ r.term = k.term \ {t} /\ r.gone = k.gone \cup {t} /\ r.pending = k.pending /\ r.ev = k.ev
      /\ \A u \in Task : IsReady(r, u) <=> IsReady(k, u)
      /\ \A u \in Task : Waiting(r, u) => Waiting(k, u)
  BY <1>3, FreeFacts
<1>5. k' = r
  BY <1>1
<1> HIDE DEF r
<1>6. Mild(k, r)
  BY <1>4 DEF Mild, Waits
<1>7. Ctx(k', loc', pendsv')
  BY <1>2, <1>3, <1>4, <1>5, <1>6, CtxCalm
<1> QED
  BY <1>2, <1>4, <1>5, <1>7 DEF Inv

LEMMA DeleteInv ==
  ASSUME Inv, NEW t \in Task, vTaskDelete(t)
  PROVE  Inv'
<1>1. /\ Runs(t) /\ Return(t) /\ conf' = conf /\ que' = que /\ holder' = holder /\ pendsv' = TRUE
      /\ k' = [UnReady(k, t) EXCEPT !.term = @ \cup {t}]
  BY DEF vTaskDelete
<1>2. PICK c \in Calls(t) : c.op = "delete"
  BY DEF vTaskDelete
<1>3. loc[t].pc \in {"app", "try"} /\ loc[t].pc \notin Locked /\ t # Idle /\ Idle \in Task
  BY CallsFacts, KernelAssumption
<1>4. /\ t = k.cur /\ ~k.susp /\ k.pending = <<>> /\ IsReady(k, t)
      /\ ~Waits(k, t) /\ ~Waiting(k, t)
  BY <1>1, <1>3, RunsFacts
<1>5. LInv(k) /\ Ctx(k, loc, pendsv) /\ loc \in [Task -> LocType]
  BY DEF Inv
<1>6. /\ LInv(k') /\ k'.cur = k.cur /\ k'.susp = k.susp /\ k'.term = k.term \cup {t}
      /\ k'.gone = k.gone /\ k'.note = k.note /\ k'.pending = k.pending /\ k'.ev = k.ev
      /\ \A u \in Task : IsReady(k', u) <=> IsReady(k, u) /\ u # t
  <2>1. t \notin ToSet(k.pending)
    BY <1>4 DEF ToSet
  <2> QED
    BY <1>1, <1>4, <1>5, <2>1, DeleteFacts
<1>7. loc' = [loc EXCEPT ![t] = Home]
  BY <1>1 DEF Return
<1>8. /\ loc' \in [Task -> LocType] /\ \A u \in Task : Steady(loc'[u])
      /\ loc'[t] = Home /\ \A u \in Task : u # t => loc'[u] = loc[u]
  BY <1>5, <1>7, HomeFacts DEF Inv
<1>9. \A u : (Waits(k', u) <=> Waits(k, u)) /\ (Waiting(k', u) <=> Waiting(k, u))
  BY <1>6 DEF Waits, Waiting
<1>10. Ctx(k', loc', pendsv')
  <2>1. loc'[t].pc = "app" /\ loc'[t].pc \notin Locked
    BY <1>8, HomeFacts
  <2>2. \A u \in Task : loc'[u].pc \notin Locked
    BY <1>4, <1>5, <1>8, <2>1, <1>3 DEF Ctx
  <2>3. loc'[Idle].pc = "app" /\ IsReady(k', Idle)
    BY <1>3, <1>5, <1>6, <1>8 DEF Ctx
  <2>4. \A u \in Task : Waits(k', u) => Asleep(loc'[u])
    BY <1>4, <1>5, <1>8, <1>9 DEF Ctx
  <2>5. \A u \in Task : Waiting(k', u) => loc'[u].pc = "notified"
    BY <1>4, <1>5, <1>8, <1>9 DEF Ctx
  <2>6. \A u \in Task : u \in k'.term \/ u \in k'.gone => loc'[u].pc = "app"
    BY <1>5, <1>6, <1>8, <2>1 DEF Ctx
  <2>7. ~k'.susp /\ k'.pending = <<>> /\ k'.cur = t
    BY <1>4, <1>6
  <2> QED
    BY <1>1, <2>1, <2>2, <2>3, <2>4, <2>5, <2>6, <2>7 DEF Ctx, Locked
<1> QED
  BY <1>1, <1>6, <1>8, <1>10 DEF Inv

(* The caller falls asleep on a delay, holding the scheduler. *)
LEMMA DelayInv ==
  ASSUME Inv, NEW t \in Task, vTaskDelay(t)
  PROVE  Inv'
<1>0. CASE Return(t) /\ k' = k
  <2>1. Runs(t) /\ conf' = conf /\ que' = que /\ holder' = holder
    BY DEF vTaskDelay
  <2>2. LInv(k') /\ Calm(k, k') /\ que' \in [n : Int, tx : Int, rx : Int]
        /\ holder' \in [Mutex -> Task \cup {None}]
    BY <1>0, <2>1, CalmSame DEF Inv
  <2>3. loc[t].pc \notin Locked /\ loc[t].pc # "notified"
    <3>1. PICK c \in Calls(t) : c.op = "delay"
      BY DEF vTaskDelay
    <3> QED
      BY <3>1, CallsFacts
  <2> QED
    BY <1>0, <2>1, <2>2, <2>3, ReturnInv
<1> SUFFICES ASSUME ~(Return(t) /\ k' = k) PROVE Inv'
  BY <1>0
<1>1. Runs(t) /\ conf' = conf /\ que' = que /\ holder' = holder /\ pendsv' = pendsv
  BY DEF vTaskDelay
<1>2. PICK c \in Calls(t) :
       /\ c.op = "delay"
       /\ k' = [prvAddCurrentTaskToDelayedList(k, c.left, FALSE) EXCEPT !.susp = TRUE]
       /\ Goto(t, [c EXCEPT !.after = "block", !.due = Now(k) + c.left], "resume")
  BY DEF vTaskDelay
<1>3. loc[t].pc \in {"app", "try"} /\ loc[t].pc \notin Locked /\ t # Idle /\ c \in LocType
      /\ ~c.inherited /\ Idle \in Task
  BY <1>2, CallsFacts, KernelAssumption
<1>4. /\ t = k.cur /\ ~k.susp /\ k.pending = <<>> /\ IsReady(k, t)
      /\ ~Waits(k, t) /\ ~Waiting(k, t) /\ t \notin k.term /\ t \notin k.gone
  BY <1>1, <1>3, RunsFacts
<1>5. LInv(k) /\ Ctx(k, loc, pendsv) /\ loc \in [Task -> LocType]
  BY DEF Inv
<1> DEFINE b == prvAddCurrentTaskToDelayedList(k, c.left, FALSE)
           r == [b EXCEPT !.susp = TRUE]
           u == Now(k) + c.left
           x == [c EXCEPT !.after = "block", !.due = u, !.pc = "resume"]
<1>6. c.left \in Int /\ u \in Int
  BY <1>3, TimeFacts DEF LocType
<1>7. LInv(b) /\ Sleeps(k, b) /\ b.ev = k.ev
  BY <1>4, <1>5, <1>6, BlockInv
<1>8. k' = r
  BY <1>2
<1> HIDE DEF b
<1>9. /\ r \in KType /\ SameLists(b, r) /\ r.susp = TRUE
      /\ r.cur = b.cur /\ r.note = b.note /\ r.pending = b.pending
  BY <1>7 DEF LInv, KType, SameLists
<1> HIDE DEF r
<1>10. /\ LInv(r) /\ r.cur = k.cur /\ r.term = k.term /\ r.gone = k.gone
       /\ r.note = k.note /\ r.pending = k.pending /\ r.ev = k.ev
       /\ \A v \in Task : IsReady(r, v) <=> IsReady(k, v) /\ v # t
  <2>1. \A v \in Task : IsReady(r, v) <=> IsReady(b, v)
    BY <1>9, SameReady DEF SameLists
  <2> QED
    BY <1>4, <1>7, <1>9, <2>1, SameListsInv DEF Sleeps, SameLists
<1>11. loc' = [loc EXCEPT ![t] = x]
  <2>1. x = [[c EXCEPT !.after = "block", !.due = u] EXCEPT !.pc = "resume"]
    OBVIOUS
  <2> QED
    BY <1>2, <2>1 DEF Goto
<1> HIDE DEF u
<1>12. x \in LocType /\ x.pc = "resume" /\ x.after = "block" /\ x.op = "delay" /\ ~x.inherited
  BY <1>2, <1>3, <1>6 DEF LocType, Places
<1> HIDE DEF x
<1>13. /\ loc' \in [Task -> LocType] /\ \A v \in Task : Steady(loc'[v])
       /\ loc'[t] = x /\ \A v \in Task : v # t => loc'[v] = loc[v]
  <2>1. Steady(x)
    BY <1>12 DEF Steady
  <2> QED
    BY <1>5, <1>11, <1>12, <2>1 DEF Inv
<1>14. \A v : (Waits(r, v) <=> Waits(k, v)) /\ (Waiting(r, v) <=> Waiting(k, v))
  BY <1>10 DEF Waits, Waiting
<1>15. Ctx(r, loc', pendsv')
  <2>1. x.pc \in Locked
    BY <1>12 DEF Locked
  <2>2. r.cur = t /\ r.susp
    BY <1>4, <1>9, <1>10
  <2>3. \A v \in Task : loc'[v].pc \in Locked => v = t
    BY <1>3, <1>4, <1>5, <1>13 DEF Ctx
  <2>4. loc'[Idle].pc = "app" /\ IsReady(r, Idle)
    BY <1>3, <1>5, <1>10, <1>13 DEF Ctx
  <2>5. \A v \in Task : Waits(r, v) => Asleep(loc'[v])
    BY <1>4, <1>5, <1>13, <1>14 DEF Ctx
  <2>6. \A v \in Task : Waiting(r, v) => loc'[v].pc = "notified"
    BY <1>4, <1>5, <1>13, <1>14 DEF Ctx
  <2>7. \A v \in Task : v \in r.term \/ v \in r.gone => loc'[v].pc = "app"
    BY <1>4, <1>5, <1>10, <1>13 DEF Ctx
  <2> QED
    BY <1>12, <1>13, <2>1, <2>2, <2>3, <2>4, <2>5, <2>6, <2>7 DEF Ctx
<1> QED
  BY <1>1, <1>5, <1>8, <1>10, <1>13, <1>15 DEF Inv

(* A step of the running task, whatever it does to its own place. *)
LEMMA CtxStep ==
  ASSUME NEW s, NEW l \in [Task -> LocType], NEW p, NEW r, NEW q, NEW x,
         LInv(s), LInv(r), Ctx(s, l, p), r.cur = s.cur, s.cur # Idle,
         r.susp <=> x.pc \in Locked, ~r.susp => r.pending = <<>>,
         ~r.susp /\ ~q => IsReady(r, r.cur),
         r.susp /\ (x.pc \in {"lock", "place"} \/ x.after # "block") => IsReady(r, r.cur),
         x.pc \in {"lock", "place"} => r.cur \notin ToSet(r.pending),
         IsReady(s, Idle) => IsReady(r, Idle),
         \A u \in Task : Waits(r, u) => Waits(s, u) \/ u = s.cur,
         \A u \in Task : Waiting(r, u) => Waiting(s, u) \/ u = s.cur,
         \A u \in Task : u \in r.term \/ u \in r.gone => u \in s.term \/ u \in s.gone,
         s.cur \notin s.term /\ s.cur \notin s.gone,
         Waits(r, s.cur) => Asleep(x),
         Waiting(r, s.cur) => x.pc = "notified"
  PROVE  Ctx(r, [l EXCEPT ![s.cur] = x], q)
<1> DEFINE m == [l EXCEPT ![s.cur] = x]
<1>1. s.cur \in Task /\ Idle \in Task
  BY KernelAssumption DEF LInv, KType
<1>2. m[s.cur] = x /\ \A t \in Task : t # s.cur => m[t] = l[t]
  BY <1>1
<1> HIDE DEF m
<1>3. \A t \in Task : m[t].pc \in Locked => t = s.cur
  BY <1>2 DEF Ctx
<1>4. \A t \in Task : Waits(r, t) => Asleep(m[t])
  BY <1>2 DEF Ctx
<1>5. \A t \in Task : Waiting(r, t) => m[t].pc = "notified"
  BY <1>2 DEF Ctx
<1>6. \A t \in Task : t \in r.term \/ t \in r.gone => m[t].pc = "app"
  BY <1>2 DEF Ctx
<1>7. IsReady(r, Idle) /\ m[Idle].pc = "app"
  BY <1>1, <1>2 DEF Ctx
<1> QED
  BY <1>1, <1>2, <1>3, <1>4, <1>5, <1>6, <1>7 DEF Ctx, m

(* The notification state of a task. *)
LEMMA NoteFacts ==
  ASSUME NEW s, LInv(s), NEW t \in Task, NEW v \in [n : Nat, state : States]
  PROVE  LET r == [s EXCEPT !.note[t] = v] IN
         /\ LInv(r) /\ r.cur = s.cur /\ r.susp = s.susp /\ r.term = s.term /\ r.gone = s.gone
         /\ r.pending = s.pending /\ r.ev = s.ev
         /\ \A u \in Task : IsReady(r, u) <=> IsReady(s, u)
         /\ \A u \in Task : u # t => (Waiting(r, u) <=> Waiting(s, u))
         /\ Waiting(r, t) <=> v.state = "waiting"
<1> DEFINE N == [s.note EXCEPT ![t] = v]
           r == [s EXCEPT !.note = N]
<1>1. s \in KType /\ N \in [Task -> [n : Nat, state : States]]
  BY DEF LInv, KType
<1>2. [s EXCEPT !.note[t] = v] = r
  OBVIOUS
<1>3. N[t] = v /\ \A u \in Task : u # t => N[u] = s.note[u]
  BY <1>1 DEF KType
<1> HIDE DEF N
<1>4. r \in KType /\ SameLists(s, r) /\ r.note = N
      /\ r.pending = s.pending /\ r.cur = s.cur /\ r.susp = s.susp
  BY <1>1 DEF KType, SameLists
<1> HIDE DEF r
<1>5. \A u \in Task : IsReady(r, u) <=> IsReady(s, u)
  BY <1>4, SameReady DEF SameLists
<1>6. LInv(r)
  BY <1>4, SameListsInv
<1> QED
  BY <1>2, <1>3, <1>4, <1>5, <1>6 DEF Waiting, SameLists

(* A task waits for a notification, and has it. *)
LEMMA NotifyTakeInv ==
  ASSUME Inv, NEW t \in Task, ulTaskNotifyTake(t)
  PROVE  Inv'
<1> DEFINE v == [n |-> k.note[t].n, state |-> "waiting"]
           w == [k EXCEPT !.note[t] = v]
           s == IF k.note[t].n = 0 THEN w ELSE k
<1>1. Runs(t) /\ conf' = conf /\ que' = que /\ holder' = holder
  BY DEF ulTaskNotifyTake
<1>2. LInv(k) /\ Ctx(k, loc, pendsv) /\ loc \in [Task -> LocType]
  BY DEF Inv
<1>3. k \in KType /\ k.note[t] \in [n : Nat, state : States]
  BY <1>2 DEF LInv, KType
<1>4. [k EXCEPT !.note[t].state = "waiting"] = w
  <2>1. [k.note[t] EXCEPT !.state = "waiting"] = v
    BY <1>3
  <2> QED
    BY <1>3, <2>1 DEF KType
<1>5. PICK c \in Calls(t) :
       /\ c.op = "ntake"
       /\ IF k.note[t].n = 0 /\ c.left > 0
          THEN k' = prvAddCurrentTaskToDelayedList(s, c.left, TRUE) /\ pendsv' = TRUE
          ELSE k' = s /\ UNCHANGED pendsv
       /\ Goto(t, [c EXCEPT !.due = EndOf(c.left)], "notified")
  <2> HIDE DEF w
  <2> QED
    BY <1>4 DEF ulTaskNotifyTake
<1>6. loc[t].pc \in {"app", "try"} /\ loc[t].pc \notin Locked /\ t # Idle /\ c \in LocType
      /\ ~c.inherited /\ c.op = "ntake"
  BY <1>5, CallsFacts
<1>7. /\ t = k.cur /\ ~k.susp /\ k.pending = <<>> /\ IsReady(k, t)
      /\ ~Waits(k, t) /\ ~Waiting(k, t) /\ t \notin k.term /\ t \notin k.gone
  BY <1>1, <1>6, RunsFacts
<1>8. /\ LInv(s) /\ s.cur = k.cur /\ s.susp = k.susp /\ s.term = k.term /\ s.gone = k.gone
      /\ s.pending = k.pending /\ s.ev = k.ev
      /\ \A u \in Task : IsReady(s, u) <=> IsReady(k, u)
      /\ \A u \in Task : u # t => (Waiting(s, u) <=> Waiting(k, u))
  <2>1. v \in [n : Nat, state : States]
    BY <1>3 DEF States
  <2>2. CASE s = k
    BY <1>2, <2>2
  <2>3. CASE s = w
    <3> HIDE DEF v
    <3> QED
      BY <1>2, <2>1, <2>3, NoteFacts
  <2> QED
    BY <2>2, <2>3
<1> HIDE DEF s
<1> DEFINE due == EndOf(c.left)
           x == [c EXCEPT !.due = due, !.pc = "notified"]
<1>9. c.left \in Int /\ due \in Int
  BY <1>6, TimeFacts DEF LocType
<1>10. /\ LInv(k') /\ k'.cur = t /\ ~k'.susp /\ k'.term = k.term /\ k'.gone = k.gone
       /\ k'.pending = <<>> /\ k'.ev = k.ev /\ k'.note = s.note
       /\ \A u \in Task : u # t => (IsReady(k', u) <=> IsReady(k, u))
       /\ ~pendsv' => IsReady(k', t)
  <2>1. CASE k.note[t].n = 0 /\ c.left > 0
    <3>1. IsReady(s, s.cur)
      BY <1>7, <1>8
    <3> DEFINE b == prvAddCurrentTaskToDelayedList(s, c.left, TRUE)
    <3>2. LInv(b) /\ Sleeps(s, b) /\ b.ev = s.ev
      BY <1>8, <1>9, <3>1, BlockInv
    <3>3. k' = b /\ pendsv' = TRUE
      BY <1>5, <2>1
    <3> HIDE DEF b
    <3> QED
      BY <1>7, <1>8, <3>2, <3>3 DEF Sleeps
  <2>2. CASE ~(k.note[t].n = 0 /\ c.left > 0)
    BY <1>5, <1>7, <1>8, <2>2
  <2> QED
    BY <2>1, <2>2
<1>11. loc' = [loc EXCEPT ![t] = x]
  <2>1. x = [[c EXCEPT !.due = due] EXCEPT !.pc = "notified"]
    OBVIOUS
  <2> QED
    BY <1>5, <2>1 DEF Goto
<1> HIDE DEF due
<1>12. x \in LocType /\ x.pc = "notified" /\ x.op = "ntake" /\ ~x.inherited
  BY <1>6, <1>9 DEF LocType, Places
<1> HIDE DEF x
<1>13. loc' \in [Task -> LocType] /\ \A u \in Task : Steady(loc'[u])
  <2>1. Steady(x)
    BY <1>12 DEF Steady
  <2> QED
    BY <1>2, <1>11, <1>12, <2>1 DEF Inv
<1>14. Ctx(k', loc', pendsv')
  <2>1. \A u \in Task : Waits(k', u) => Waits(k, u)
    BY <1>10 DEF Waits
  <2>2. \A u \in Task : Waiting(k', u) => Waiting(k, u) \/ u = t
    BY <1>8, <1>10 DEF Waiting
  <2>3. x.pc \notin Locked /\ Idle \in Task
    BY <1>12, KernelAssumption DEF Locked
  <2>4. IsReady(k, Idle) => IsReady(k', Idle)
    BY <1>6, <1>10, <2>3
  <2> QED
    BY <1>2, <1>6, <1>7, <1>10, <1>11, <1>12, <2>1, <2>2, <2>3, <2>4, CtxStep
<1> QED
  BY <1>1, <1>10, <1>13, <1>14 DEF Inv

LEMMA NotifiedInv ==
  ASSUME Inv, NEW t \in Task, Notified(t)
  PROVE  Inv'
<1> DEFINE v == [n |-> 0, state |-> "none"]
<1>1. /\ Runs(t) /\ loc[t].pc = "notified" /\ k' = [k EXCEPT !.note[t] = v]
      /\ Return(t) /\ que' = que /\ holder' = holder /\ pendsv' = pendsv /\ conf' = conf
  BY DEF Notified
<1>2. LInv(k) /\ Ctx(k, loc, pendsv) /\ loc \in [Task -> LocType]
  BY DEF Inv
<1>3. loc[t].pc \notin Locked /\ t # Idle
  BY <1>1, RunsFacts DEF Locked
<1>4. /\ t = k.cur /\ ~k.susp /\ k.pending = <<>> /\ IsReady(k, t)
      /\ ~Waits(k, t) /\ t \notin k.term /\ t \notin k.gone
  BY <1>1, <1>3, RunsFacts
<1>5. v \in [n : Nat, state : States] /\ v.state # "waiting"
  BY DEF States
<1> HIDE DEF v
<1>6. /\ LInv(k') /\ k'.cur = k.cur /\ k'.susp = k.susp /\ k'.term = k.term /\ k'.gone = k.gone
      /\ k'.pending = k.pending /\ k'.ev = k.ev
      /\ \A u \in Task : IsReady(k', u) <=> IsReady(k, u)
      /\ \A u \in Task : u # t => (Waiting(k', u) <=> Waiting(k, u))
      /\ ~Waiting(k', t)
  BY <1>1, <1>2, <1>5, NoteFacts
<1>7. loc' = [loc EXCEPT ![t] = Home]
  BY <1>1 DEF Return
<1>8. loc' \in [Task -> LocType] /\ \A u \in Task : Steady(loc'[u])
  BY <1>2, <1>7, HomeFacts DEF Inv
<1>9. Ctx(k', loc', pendsv')
  <2>1. \A u \in Task : Waits(k', u) <=> Waits(k, u)
    BY <1>6 DEF Waits
  <2>2. Home.pc \notin {"lock", "place"} /\ Idle \in Task
    BY HomeFacts, KernelAssumption
  <2> QED
    BY <1>2, <1>3, <1>4, <1>6, <1>7, <2>1, <2>2, HomeFacts, CtxStep
<1> QED
  BY <1>1, <1>6, <1>8, <1>9 DEF Inv

(* The caller suspends the scheduler, to wait. *)
LEMMA SuspendInv ==
  ASSUME Inv, NEW t \in Task, vTaskSuspendAll(t)
  PROVE  Inv'
<1> DEFINE x == [loc[t] EXCEPT !.pc = "lock"]
           r == [k EXCEPT !.susp = TRUE]
<1>1. /\ Runs(t) /\ loc[t].pc = "suspend" /\ k' = r /\ loc' = [loc EXCEPT ![t] = x]
      /\ que' = que /\ holder' = holder /\ pendsv' = pendsv /\ conf' = conf
  BY DEF vTaskSuspendAll, Goto
<1>2. LInv(k) /\ Ctx(k, loc, pendsv) /\ loc \in [Task -> LocType] /\ k \in KType
  BY DEF Inv, LInv
<1>3. loc[t].pc \notin Locked /\ t # Idle
  BY <1>1, RunsFacts DEF Locked
<1>4. /\ t = k.cur /\ ~k.susp /\ k.pending = <<>> /\ IsReady(k, t)
      /\ ~Waits(k, t) /\ ~Waiting(k, t) /\ t \notin k.term /\ t \notin k.gone
  BY <1>1, <1>3, RunsFacts
<1>5. /\ r \in KType /\ SameLists(k, r) /\ r.susp = TRUE /\ r.cur = k.cur
      /\ r.note = k.note /\ r.pending = k.pending
  BY <1>2 DEF KType, SameLists
<1> HIDE DEF r
<1>6. LInv(r) /\ \A u \in Task : IsReady(r, u) <=> IsReady(k, u)
  BY <1>2, <1>5, SameListsInv, SameReady DEF SameLists
<1>7. \A u : (Waits(r, u) <=> Waits(k, u)) /\ (Waiting(r, u) <=> Waiting(k, u))
  BY <1>5 DEF Waits, Waiting, SameLists
<1>8. loc[t] \in LocType /\ Steady(loc[t])
  BY DEF Inv
<1>9. /\ x \in LocType /\ x.pc = "lock" /\ x.op = loc[t].op /\ x.on = loc[t].on
      /\ x.left = loc[t].left /\ x.inherited = loc[t].inherited /\ x.after = loc[t].after
  BY <1>8 DEF LocType, Places
<1> HIDE DEF x
<1>10. Steady(x) /\ x.pc \in Locked
  BY <1>1, <1>8, <1>9 DEF Steady, Locked
<1>11. loc' \in [Task -> LocType] /\ \A u \in Task : Steady(loc'[u])
  BY <1>1, <1>2, <1>9, <1>10 DEF Inv
<1>12. Ctx(k', loc', pendsv')
  <2>1. r.cur \notin ToSet(r.pending) /\ Idle \in Task
    BY <1>4, <1>5, KernelAssumption DEF ToSet
  <2>2. r.term = k.term /\ r.gone = k.gone
    BY <1>5 DEF SameLists
  <2> QED
    BY <1>1, <1>2, <1>3, <1>4, <1>5, <1>6, <1>7, <1>10, <2>1, <2>2, CtxStep
<1> QED
  BY <1>1, <1>6, <1>11, <1>12 DEF Inv

-----------------------------------------------------------------------------
(* The steps that hold the scheduler. *)

(* The running task goes on, holding the scheduler, whatever it wakes. *)
LEMMA HeldMoves ==
  ASSUME Inv, NEW t \in Task, Runs(t), loc[t].pc \in Locked,
         NEW x \in LocType, Steady(x), x.pc \in Locked, x.op = loc[t].op,
         x.after # "block" \/ x.pc \in {"lock", "place"} => IsReady(k, t),
         x.pc \in {"lock", "place"} => loc[t].pc \in {"lock", "place"},
         LInv(k'), Calm(k, k'), loc' = [loc EXCEPT ![t] = x], conf' = conf,
         x.pc \in {"lock", "place"} => k' = k,
         pendsv' = pendsv,
         que' \in [n : Int, tx : Int, rx : Int], holder' \in [Mutex -> Task \cup {None}]
  PROVE  Inv'
<1>1. t = k.cur /\ k.susp /\ t # Idle
  BY RunsFacts
<1>2. LInv(k) /\ Ctx(k, loc, pendsv) /\ loc \in [Task -> LocType] /\ conf \in Confs
      /\ \A u \in Task : Steady(loc[u])
  BY DEF Inv
<1>3. k'.cur = t /\ k'.susp
  BY <1>1 DEF Calm
<1>4. Ctx(k', loc, pendsv')
  BY <1>2, CalmIsMild, CtxCalm
<1>5. x.pc \in {"lock", "place"} \/ x.after # "block" => IsReady(k', t)
  BY <1>3 DEF Calm
<1>6. x.pc \in {"lock", "place"} => t \notin ToSet(k'.pending) /\ ~Waits(k', t)
  BY <1>1, <1>2 DEF Ctx, Asleep
<1>7. Ctx(k', loc', pendsv')
  BY <1>2, <1>3, <1>4, <1>5, <1>6, CtxHeld
<1>8. loc' \in [Task -> LocType] /\ \A u \in Task : Steady(loc'[u])
  BY <1>2
<1> QED
  BY <1>2, <1>7, <1>8 DEF Inv

(* The caller is in its ready list until it has put itself to sleep. *)
LEMMA HeldReady ==
  ASSUME Inv, NEW t \in Task, Runs(t), loc[t].pc \in Locked
  PROVE  loc[t].pc \in {"lock", "place"} \/ loc[t].after # "block" => IsReady(k, t)
<1>1. t = k.cur /\ k.susp
  BY RunsFacts
<1> QED
  BY <1>1 DEF Inv, Ctx

(* Unless the wait is over, xTaskCheckForTimeOut sets the time left. *)
LEMMA CheckFacts ==
  ASSUME Inv, NEW c \in LocType, c.on \in OnType
  PROVE  LET r == xTaskCheckForTimeOut(k, c) IN
         /\ r.c \in LocType /\ r.c.pc = c.pc /\ r.c.op = c.op /\ r.c.on \in OnType
         /\ r.c.inherited = c.inherited /\ r.c.after = c.after
<1> DEFINE o == [tick |-> k.tick, over |-> k.over]
           elapsed == (k.tick - c.on.tick) % TickMod
           w == c.left - elapsed
           a == [c EXCEPT !.left = w, !.on = o]
           b == [c EXCEPT !.left = 0]
           r == xTaskCheckForTimeOut(k, c)
<1>1. o \in OnType
  BY TimeFacts
<1>2. w \in Int
  <2>1. c.left \in Int /\ c.on.tick \in Int /\ k.tick \in Int /\ TickMod \in Nat /\ TickMod > 2
    BY KernelAssumption DEF LocType, OnType, Inv, LInv, KType
  <2>2. elapsed \in Int
    BY <2>1
  <2> QED
    BY <2>1, <2>2
<1>3. \/ r = [over |-> FALSE, c |-> c]
      \/ r = [over |-> TRUE, c |-> b]
      \/ r = [over |-> FALSE, c |-> a]
  BY DEF xTaskCheckForTimeOut
<1> HIDE DEF r, o, w
<1>4. /\ a \in LocType /\ a.pc = c.pc /\ a.op = c.op /\ a.on = o
      /\ a.inherited = c.inherited /\ a.after = c.after
  BY <1>1, <1>2 DEF LocType
<1>5. /\ b \in LocType /\ b.pc = c.pc /\ b.op = c.op /\ b.on = c.on
      /\ b.inherited = c.inherited /\ b.after = c.after
  BY DEF LocType
<1> HIDE DEF a, b
<1>6. CASE r = [over |-> FALSE, c |-> c]
  BY <1>6 DEF r
<1>7. CASE r = [over |-> TRUE, c |-> b]
  BY <1>5, <1>7 DEF r
<1>8. CASE r = [over |-> FALSE, c |-> a]
  BY <1>1, <1>4, <1>8 DEF r
<1> QED
  BY <1>3, <1>6, <1>7, <1>8

(* The wait, while the scheduler is suspended: the queue is locked,        *)
(* unlocked, and the scheduler resumed.                                    *)
LEMMA LockInv ==
  ASSUME Inv, NEW t \in Task, LockAndCheck(t)
  PROVE  Inv'
<1> DEFINE c == loc[t]
           r == xTaskCheckForTimeOut(k, c)
           q == c.op \in {"send", "recv"}
           y == [r.c EXCEPT !.pc = "place"]
           z == [r.c EXCEPT !.after = "expired", !.pc = IF q THEN "unlockTx" ELSE "resume"]
<1>1. /\ Runs(t) /\ loc[t].pc = "lock" /\ k' = k /\ holder' = holder /\ pendsv' = pendsv
      /\ conf' = conf
  BY DEF LockAndCheck
<1>2. que' = que \/ que' = [que EXCEPT !.tx = 0, !.rx = 0]
  BY DEF LockAndCheck
<1>3. loc' = [loc EXCEPT ![t] = IF ~r.over THEN y ELSE z]
  BY DEF LockAndCheck, Goto
<1>4. c \in LocType /\ Steady(c)
  BY DEF Inv
<1>5. /\ r.c \in LocType /\ r.c.op = c.op /\ r.c.on \in OnType
      /\ r.c.inherited = c.inherited /\ r.c.after = c.after
  <2>1. c.on \in OnType
    BY <1>1, <1>4 DEF Steady
  <2> QED
    BY <1>4, <2>1, CheckFacts
<1>6. c.op \in {"send", "recv", "take"} /\ c.pc = "lock"
  BY <1>1, <1>4 DEF Steady
<1>7. /\ que' \in [n : Int, tx : Int, rx : Int] /\ holder' \in [Mutex -> Task \cup {None}]
      /\ LInv(k') /\ Calm(k, k')
  <2>1. LInv(k') /\ Calm(k, k')
    BY <1>1, CalmSame DEF Inv
  <2>2. que' \in [n : Int, tx : Int, rx : Int]
    <3>1. que \in [n : Int, tx : Int, rx : Int]
      BY DEF Inv
    <3>2. CASE que' = que
      BY <3>1, <3>2
    <3>3. CASE que' = [que EXCEPT !.tx = 0, !.rx = 0]
      <4> HIDE DEF c, r, q, y, z
      <4>1. que' = [n |-> que.n, tx |-> 0, rx |-> 0]
        BY <3>1, <3>3
      <4>2. que.n \in Int /\ 0 \in Int
        BY <3>1
      <4> QED
        BY <4>1, <4>2
    <3> QED
      BY <1>2, <3>2, <3>3
  <2> QED
    BY <1>1, <2>1, <2>2 DEF Inv
<1>8. IsReady(k, t) /\ loc[t].pc \in Locked
  BY <1>1, HeldReady DEF Locked
<1> HIDE DEF r
<1>9. CASE ~r.over
  <2>1. loc' = [loc EXCEPT ![t] = y]
    BY <1>3, <1>9
  <2>2. /\ y \in LocType /\ y.pc = "place" /\ y.op = c.op /\ y.left = r.c.left
        /\ y.inherited = c.inherited /\ y.after = c.after
    BY <1>5 DEF LocType, Places
  <2> HIDE DEF y
  <2>3. Steady(y)
    BY <1>4, <1>5, <1>6, <2>2 DEF Steady
  <2> QED
    BY <1>1, <1>7, <1>8, <2>1, <2>2, <2>3, HeldMoves DEF Locked
<1>10. CASE r.over
  <2>1. loc' = [loc EXCEPT ![t] = z]
    BY <1>3, <1>10
  <2>3. /\ z \in LocType /\ z.pc \in {"unlockTx", "resume"} /\ z.op = c.op
        /\ z.inherited = c.inherited /\ z.after = "expired"
    BY <1>5, ZenonT(60) DEF LocType, Places
  <2> HIDE DEF z
  <2>4. Steady(z) /\ z.pc \in Locked
    BY <1>4, <1>6, <2>3 DEF Steady, Locked
  <2> QED
    BY <1>1, <1>7, <1>8, <2>1, <2>3, <2>4, HeldMoves
<1> QED
  BY <1>9, <1>10

LEMMA UnlockTxInv ==
  ASSUME Inv, NEW t \in Task, UnlockTx(t)
  PROVE  Inv'
<1> DEFINE x == [loc[t] EXCEPT !.pc = "unlockRx"]
<1>1. /\ Runs(t) /\ loc[t].pc = "unlockTx" /\ k' = Unlocked(k, "recv", que.tx)
      /\ que' = [que EXCEPT !.tx = UNLOCKED] /\ loc' = [loc EXCEPT ![t] = x]
      /\ holder' = holder /\ pendsv' = pendsv /\ conf' = conf
  BY DEF UnlockTx, Goto
<1>2. LInv(k') /\ Calm(k, k')
  BY <1>1, UnlockedInv DEF Inv, EventLists
<1>3. que' \in [n : Int, tx : Int, rx : Int] /\ holder' \in [Mutex -> Task \cup {None}]
  BY <1>1 DEF Inv, UNLOCKED
<1>4. loc[t].pc \in Locked /\ (loc[t].after # "block" => IsReady(k, t))
  BY <1>1, HeldReady DEF Locked
<1>5. loc[t] \in LocType /\ Steady(loc[t])
  BY DEF Inv
<1>6. /\ x \in LocType /\ x.pc = "unlockRx" /\ x.op = loc[t].op
      /\ x.left = loc[t].left /\ x.inherited = loc[t].inherited /\ x.after = loc[t].after
  BY <1>5 DEF LocType, Places
<1> HIDE DEF x
<1>7. Steady(x) /\ x.pc \in Locked
  BY <1>1, <1>5, <1>6 DEF Steady, Locked
<1> QED
  BY <1>1, <1>2, <1>3, <1>4, <1>6, <1>7, HeldMoves

LEMMA UnlockRxInv ==
  ASSUME Inv, NEW t \in Task, UnlockRx(t)
  PROVE  Inv'
<1> DEFINE x == [loc[t] EXCEPT !.pc = "resume"]
<1>1. /\ Runs(t) /\ loc[t].pc = "unlockRx" /\ k' = Unlocked(k, "send", que.rx)
      /\ que' = [que EXCEPT !.rx = UNLOCKED] /\ loc' = [loc EXCEPT ![t] = x]
      /\ holder' = holder /\ pendsv' = pendsv /\ conf' = conf
  BY DEF UnlockRx, Goto
<1>2. LInv(k') /\ Calm(k, k')
  BY <1>1, UnlockedInv DEF Inv, EventLists
<1>3. que' \in [n : Int, tx : Int, rx : Int] /\ holder' \in [Mutex -> Task \cup {None}]
  BY <1>1 DEF Inv, UNLOCKED
<1>4. loc[t].pc \in Locked /\ (loc[t].after # "block" => IsReady(k, t))
  BY <1>1, HeldReady DEF Locked
<1>5. loc[t] \in LocType /\ Steady(loc[t])
  BY DEF Inv
<1>6. /\ x \in LocType /\ x.pc = "resume" /\ x.op = loc[t].op
      /\ x.left = loc[t].left /\ x.inherited = loc[t].inherited /\ x.after = loc[t].after
  BY <1>5 DEF LocType, Places
<1> HIDE DEF x
<1>7. Steady(x) /\ x.pc \in Locked
  BY <1>1, <1>5, <1>6 DEF Steady, Locked
<1> QED
  BY <1>1, <1>2, <1>3, <1>4, <1>6, <1>7, HeldMoves

LEMMA ResumeInv ==
  ASSUME Inv, NEW t \in Task, Resume(t)
  PROVE  Inv'
<1> DEFINE c == loc[t]
           s == xTaskResumeAll(k)
           x == [c EXCEPT !.pc = "back"]
           y == [c EXCEPT !.after = "none", !.pc = "try"]
           z == [c EXCEPT !.pc = "expired"]
<1>1. /\ Runs(t) /\ c.pc = "resume" /\ k' = s /\ pendsv' = (s.ypend \/ c.after = "block")
      /\ que' = que /\ holder' = holder /\ conf' = conf
  BY DEF Resume
<1>2. c \in LocType /\ Steady(c) /\ LInv(k) /\ Ctx(k, loc, pendsv) /\ loc \in [Task -> LocType]
  BY DEF Inv
<1>3. c.op \in {"send", "recv", "take", "delay"} /\ c.after \in {"block", "retry", "expired"}
  BY <1>1, <1>2 DEF Steady
<1>4. \/ c.op = "delay" /\ loc' = [loc EXCEPT ![t] = x]
      \/ c.op # "delay" /\ loc' = [loc EXCEPT ![t] = y]
      \/ c.op = "send" /\ c.after = "expired" /\ loc' = [loc EXCEPT ![t] = Home]
      \/ c.op \in {"recv", "take"} /\ c.after = "expired" /\ loc' = [loc EXCEPT ![t] = z]
  <2>1. CASE c.op = "delay"
    BY <2>1 DEF Resume, Goto
  <2>2. CASE c.op # "delay" /\ c.after \in {"block", "retry"}
    BY <2>2 DEF Resume, Goto
  <2>3. CASE c.op = "send" /\ c.after = "expired"
    BY <2>3 DEF Resume, Return
  <2>4. CASE c.op \in {"recv", "take"} /\ c.after = "expired"
    BY <2>4 DEF Resume, Goto
  <2> QED
    BY <1>3, <2>1, <2>2, <2>3, <2>4
<1>5. LInv(s) /\ Resumes(k, s)
  BY <1>2, ResumeFacts
<1> HIDE DEF s
<1>6. loc[t].pc \in Locked /\ (c.after # "block" => IsReady(k, t))
  BY <1>1, HeldReady DEF Locked
<1>7. t = k.cur /\ k.susp /\ t # Idle
  BY <1>1, <1>6, RunsFacts
<1>8. x \in LocType /\ x.pc = "back" /\ x.op = c.op /\ x.inherited = c.inherited
      /\ x.left = c.left /\ x.after = c.after
  BY <1>2 DEF LocType, Places
<1>9. y \in LocType /\ y.pc = "try" /\ y.op = c.op /\ y.inherited = c.inherited
      /\ y.left = c.left /\ y.after = "none"
  BY <1>2 DEF LocType, Places
<1>10. z \in LocType /\ z.pc = "expired" /\ z.op = c.op /\ z.inherited = c.inherited
       /\ z.left = c.left /\ z.after = c.after
  BY <1>2 DEF LocType, Places
<1> HIDE DEF c, x, y, z
<1>11. PICK w \in LocType :
         /\ Steady(w) /\ loc' = [loc EXCEPT ![t] = w]
         /\ \/ w.pc = "try" /\ w.op = c.op
            \/ w.pc \in {"back", "expired", "app"} /\ (c.op = "delay" \/ c.after = "expired")
  <2>1. CASE c.op = "delay" /\ loc' = [loc EXCEPT ![t] = x]
    <3>1. Steady(x)
      BY <1>1, <1>2, <1>8, <2>1 DEF Steady
    <3> QED
      BY <1>8, <2>1, <3>1
  <2>2. CASE c.op # "delay" /\ loc' = [loc EXCEPT ![t] = y]
    <3>1. Steady(y)
      BY <1>1, <1>2, <1>3, <1>9, <2>2 DEF Steady
    <3> QED
      BY <1>9, <2>2, <3>1
  <2>3. CASE c.op = "send" /\ c.after = "expired" /\ loc' = [loc EXCEPT ![t] = Home]
    BY <2>3, HomeFacts
  <2>4. CASE c.op \in {"recv", "take"} /\ c.after = "expired" /\ loc' = [loc EXCEPT ![t] = z]
    <3>1. Steady(z)
      BY <1>1, <1>2, <1>10, <2>4 DEF Steady
    <3> QED
      BY <1>10, <2>4, <3>1
  <2> QED
    BY <1>4, <2>1, <2>2, <2>3, <2>4
<1>12. loc' \in [Task -> LocType] /\ \A u \in Task : Steady(loc'[u])
  BY <1>2, <1>11 DEF Inv
<1>13. Ctx(k', loc', pendsv')
  <2>1. w.pc \notin Locked /\ w.pc # "notified"
    BY <1>11 DEF Locked
  <2>2. ~pendsv' => IsReady(s, t)
    <3>1. ~pendsv' => c.after # "block"
      BY <1>1 DEF c
    <3> QED
      BY <1>5, <1>6, <3>1 DEF Resumes
  <2>3. Waits(k, t) => Asleep(w)
    <3> SUFFICES ASSUME Waits(k, t) PROVE Asleep(w)
      OBVIOUS
    <3>1. Asleep(c)
      BY <1>2, <1>7 DEF Ctx, c
    <3>2. ~IsReady(k, t)
      BY <1>2, WaitsFacts, BlockedFacts
    <3>3. c.after = "block" /\ c.op # "delay"
      BY <1>6, <3>1, <3>2 DEF Asleep
    <3> QED
      BY <1>11, <3>3 DEF Asleep
  <2>4. ~Waiting(k, t) /\ t \notin k.term /\ t \notin k.gone
    BY <1>1, <1>2, <1>7 DEF Ctx, c
  <2>5. Idle \in Task
    BY KernelAssumption
  <2> QED
    BY <1>1, <1>2, <1>5, <1>7, <1>11, <2>1, <2>2, <2>3, <2>4, <2>5, CtxStep DEF Resumes, Locked
<1> QED
  BY <1>1, <1>2, <1>5, <1>12, <1>13 DEF Inv

-----------------------------------------------------------------------------
(* Priority inheritance, and interrupts. *)

(* The caller lends the holder its priority, and goes to sleep. *)
LEMMA InheritFacts ==
  ASSUME NEW s, LInv(s), NEW h \in Task \cup {None}, conf \in Confs
  PROVE  LET i == xTaskPriorityInherit(s, h) IN
         /\ LInv(i.s) /\ Calm(s, i.s) /\ i.s.note = s.note /\ i.s.pending = s.pending /\ i.s.ev = s.ev
         /\ i.yes \in BOOLEAN
         /\ \A u \in Task : IsReady(i.s, u) <=> IsReady(s, u)
<1> DEFINE i == xTaskPriorityInherit(s, h)
           p == s.prio[s.cur]
           x == SetPriority(s, h, p)
           less == Base(h) < p
<1>1. p \in Prios
  BY DEF LInv, KType
<1>2. \/ i.s = s /\ (i.yes = FALSE \/ i.yes = less)
      \/ h # None /\ i.s = x /\ i.yes = TRUE
  <2>1. CASE h = None
    BY <2>1 DEF xTaskPriorityInherit
  <2>2. CASE h # None /\ s.prio[h] < s.prio[s.cur]
    BY <2>2 DEF xTaskPriorityInherit
  <2>3. CASE h # None /\ ~(s.prio[h] < s.prio[s.cur])
    <3>1. i = [s |-> s, yes |-> less]
      BY <2>3, Zenon DEF xTaskPriorityInherit
    <3> HIDE DEF less
    <3> QED
      BY <3>1
  <2> QED
    BY <2>1, <2>2, <2>3
<1>3. less \in BOOLEAN
  OBVIOUS
<1>4. CASE i.s = s /\ i.yes \in BOOLEAN
  BY <1>4, CalmSame
<1>5. CASE h # None /\ i.s = x /\ i.yes = TRUE
  <2>1. /\ LInv(x) /\ Calm(s, x) /\ x.note = s.note /\ x.pending = s.pending /\ x.ev = s.ev
        /\ \A u \in Task : IsReady(x, u) <=> IsReady(s, u)
    BY <1>1, <1>5, SetPriorityFacts
  <2> HIDE DEF x, i
  <2> QED
    BY <1>5, <2>1 DEF i
<1>6. i.s = s /\ (i.yes = FALSE \/ i.yes = less) => i.s = s /\ i.yes \in BOOLEAN
  <2> HIDE DEF i, less
  <2> QED
    BY <1>3
<1> HIDE DEF i, x, less
<1> QED
  BY <1>2, <1>4, <1>5, <1>6 DEF i

LEMMA PlaceStepInv ==
  ASSUME Inv, NEW t \in Task, Place(t)
  PROVE  Inv'
<1> DEFINE c == loc[t]
           must == \/ c.op = "send" /\ que.n = QueueLength
                   \/ c.op = "recv" /\ que.n = 0
                   \/ c.op = "take" /\ holder[c.obj] # None
           e == IF c.op = "take" THEN c.obj ELSE c.op
           i == IF c.op = "take" THEN xTaskPriorityInherit(k, holder[c.obj])
                ELSE [s |-> k, yes |-> FALSE]
           next == IF c.op = "take" THEN "resume" ELSE "unlockTx"
           x == [c EXCEPT !.after = "block", !.inherited = i.yes, !.pc = next]
           y == [c EXCEPT !.after = "retry", !.pc = next]
<1>1. Runs(t) /\ loc[t].pc = "place" /\ que' = que /\ holder' = holder
      /\ pendsv' = pendsv /\ conf' = conf
  BY DEF Place
<1>2. \/ must /\ k' = vTaskPlaceOnEventList(i.s, e, c.left) /\ loc' = [loc EXCEPT ![t] = x]
      \/ ~must /\ loc' = [loc EXCEPT ![t] = y] /\ k' = k
  <2>1. Goto(t, [c EXCEPT !.after = "block", !.inherited = i.yes], next) => loc' = [loc EXCEPT ![t] = x]
    BY DEF Goto
  <2>2. Goto(t, [c EXCEPT !.after = "retry"], next) => loc' = [loc EXCEPT ![t] = y]
    BY DEF Goto
  <2> QED
    BY <2>1, <2>2 DEF Place
<1> HIDE DEF must
<1>3. c \in LocType /\ Steady(c) /\ LInv(k) /\ Ctx(k, loc, pendsv) /\ loc \in [Task -> LocType]
      /\ conf \in Confs
  BY DEF Inv
<1>4. c.op \in {"send", "recv", "take"}
  BY <1>1, <1>3 DEF Steady
<1>5. que' \in [n : Int, tx : Int, rx : Int] /\ holder' \in [Mutex -> Task \cup {None}]
  BY <1>1 DEF Inv
<1>6. IsReady(k, t) /\ loc[t].pc \in Locked
  BY <1>1, HeldReady DEF Locked
<1>7. t = k.cur /\ k.susp /\ t # Idle
  BY <1>1, <1>6, RunsFacts
<1>8. next \in {"resume", "unlockTx"}
  OBVIOUS
<1>9. CASE ~must
  <2>1. loc' = [loc EXCEPT ![t] = y] /\ k' = k
    BY <1>2, <1>9
  <2> HIDE DEF next
  <2>2. /\ y \in LocType /\ y.pc = next /\ y.op = c.op /\ y.left = c.left
        /\ y.inherited = c.inherited /\ y.after = "retry"
    BY <1>3, <1>8 DEF LocType, Places
  <2> HIDE DEF y
  <2>3. Steady(y) /\ y.pc \in Locked
    BY <1>1, <1>3, <1>4, <1>8, <2>2 DEF Steady, Locked
  <2>4. LInv(k') /\ Calm(k, k')
    BY <1>3, <2>1, CalmSame
  <2> QED
    BY <1>1, <1>5, <1>6, <1>8, <2>1, <2>2, <2>3, <2>4, HeldMoves
<1>10. CASE must
  <2>1. loc' = [loc EXCEPT ![t] = x] /\ k' = vTaskPlaceOnEventList(i.s, e, c.left)
    BY <1>2, <1>10
  <2>2. /\ LInv(i.s) /\ Calm(k, i.s) /\ i.s.note = k.note /\ i.s.pending = k.pending /\ i.s.ev = k.ev
        /\ i.yes \in BOOLEAN /\ (c.op # "take" => i.yes = FALSE)
        /\ \A u \in Task : IsReady(i.s, u) <=> IsReady(k, u)
    <3>1. CASE c.op = "take"
      <4>1. holder[c.obj] \in Task \cup {None}
        BY <1>3, <3>1 DEF Inv, LocType
      <4> QED
        BY <1>3, <3>1, <4>1, InheritFacts
    <3>2. CASE c.op # "take"
      BY <1>3, <3>2, CalmSame
    <3> QED
      BY <3>1, <3>2
  <2>3. e \in EventLists
    BY <1>3, <1>4 DEF EventLists, LocType
  <2> HIDE DEF i, e
  <2>4. /\ i.s.cur = t /\ IsReady(i.s, i.s.cur) /\ i.s.cur \notin ToSet(i.s.pending)
        /\ i.s.susp /\ i.s.term = k.term /\ i.s.gone = k.gone
    BY <1>1, <1>3, <1>6, <1>7, <2>2 DEF Calm, Ctx
  <2>5. c.left \in Int
    BY <1>3 DEF LocType
  <2> DEFINE r == vTaskPlaceOnEventList(i.s, e, c.left)
  <2>6. LInv(r) /\ Sleeps(i.s, r) /\ \A u : Waits(r, u) <=> Waits(i.s, u) \/ u = i.s.cur
    BY <2>2, <2>3, <2>4, <2>5, PlaceInv
  <2>7. k' = r
    BY <2>1
  <2> HIDE DEF r, next
  <2>8. /\ x \in LocType /\ x.pc = next /\ x.op = c.op /\ x.left = c.left
        /\ x.inherited = i.yes /\ x.after = "block"
    BY <1>3, <1>8, <2>2 DEF LocType, Places
  <2> HIDE DEF x
  <2>9. Steady(x) /\ x.pc \in Locked
    BY <1>1, <1>3, <1>4, <1>8, <2>2, <2>8 DEF Steady, Locked
  <2>10. loc' \in [Task -> LocType] /\ \A u \in Task : Steady(loc'[u])
    BY <1>3, <2>1, <2>8, <2>9 DEF Inv
  <2>11. Ctx(k', loc', pendsv')
    <3>1. \A u : Waits(r, u) => Waits(k, u) \/ u = t
      BY <2>2, <2>4, <2>6 DEF Waits
    <3>2. \A u : Waiting(r, u) => Waiting(k, u)
      BY <2>2, <2>6 DEF Waiting, Sleeps
    <3>3. /\ r.cur = t /\ r.susp /\ r.term = k.term /\ r.gone = k.gone
          /\ IsReady(k, Idle) => IsReady(r, Idle)
      <4>1. Idle \in Task
        BY KernelAssumption
      <4> QED
        BY <1>7, <2>2, <2>4, <2>6, <4>1 DEF Sleeps
    <3>4. x.pc \notin {"lock", "place"} /\ Asleep(x)
      BY <1>4, <1>8, <2>8 DEF Asleep
    <3>5. ~Waiting(k, t) /\ t \notin k.term /\ t \notin k.gone
      BY <1>1, <1>3 DEF Ctx
    <3>6. /\ ~r.susp => r.pending = <<>>
          /\ ~r.susp /\ ~pendsv' => IsReady(r, r.cur)
          /\ r.susp /\ (x.pc \in {"lock", "place"} \/ x.after # "block") => IsReady(r, r.cur)
      BY <2>8, <3>3, <3>4
    <3>7. Ctx(r, [loc EXCEPT ![k.cur] = x], pendsv')
      BY <1>3, <1>7, <2>6, <2>9, <3>1, <3>2, <3>3, <3>4, <3>5, <3>6, CtxStep
    <3> QED
      BY <1>7, <2>1, <2>7, <3>7
  <2> QED
    BY <1>1, <1>3, <1>5, <2>6, <2>7, <2>10, <2>11 DEF Inv
<1> QED
  BY <1>9, <1>10

(* vTaskPriorityDisinheritAfterTimeout is a change of the holder's priority *)
(* as any, if it leaves another task in the list it takes the holder from: *)
(* then it resets no bit.                                                  *)
LEMMA TimeoutFacts ==
  ASSUME NEW s, LInv(s), NEW h \in Task, NEW w \in Prios, Base(h) \in Prios,
         IsReady(s, h) => \E u \in Task \ {h} : IsReady(s, u) /\ s.prio[u] = s.prio[h]
  PROVE  LET r == vTaskPriorityDisinheritAfterTimeout(s, h, w) IN LInv(r) /\ Calm(s, r)
<1> DEFINE to == GreatestOf({Base(h), w})
           from == s.prio[h]
           l == uxListRemove(s.rl[from], h)
           b == [s EXCEPT !.prio[h] = to, !.rl[from] = l, !.top = s.top]
           r == vTaskPriorityDisinheritAfterTimeout(s, h, w)
           x == SetPriority(s, h, to)
<1>1. s \in KType /\ from \in Prios /\ h # None
  BY KernelAssumption DEF LInv, KType
<1>2. to \in Prios
  <2>1. MAX_PRIORITIES \in Nat
    BY KernelAssumption
  <2> QED
    BY <2>1, Greatest
<1> HIDE DEF to
<1>3. CASE from = to \/ s.held[h] # 1
  <2>1. r = s
    BY <1>1, <1>3, Zenon DEF vTaskPriorityDisinheritAfterTimeout, to
  <2> QED
    BY <2>1, CalmSame
<1>4. CASE from # to /\ s.held[h] = 1 /\ ~IsReady(s, h)
  <2>1. r = [s EXCEPT !.prio[h] = to]
    BY <1>1, <1>4, Zenon DEF vTaskPriorityDisinheritAfterTimeout, to
  <2>2. x = [s EXCEPT !.prio[h] = to]
    BY <1>4, Zenon DEF SetPriority
  <2> QED
    BY <1>2, <2>1, <2>2, SetPriorityFacts
<1>5. CASE from # to /\ s.held[h] = 1 /\ IsReady(s, h)
  <2>1. l.items # <<>>
    <3>1. PICK u \in Task \ {h} : IsReady(s, u) /\ s.prio[u] = from
      BY <1>5
    <3>2. u \in ToSet(s.rl[from].items) \ {h} /\ h \in ToSet(s.rl[from].items)
      BY <1>5, <3>1 DEF IsReady
    <3>3. s.rl[from] \in LType /\ Sound(s.rl[from])
      BY <1>1, ReadyFacts DEF LInv, RInv
    <3> HIDE DEF from
    <3>4. l.items = <<>> <=> ToSet(s.rl[from].items) \ {h} = {}
      BY <3>2, <3>3, ListRemoveFacts
    <3> QED
      BY <3>2, <3>4
  <2>2. r = prvAddTaskToReadyList(b, h)
    BY <1>1, <1>5, <2>1, Zenon DEF vTaskPriorityDisinheritAfterTimeout, to
  <2>3. x = prvAddTaskToReadyList([UnReady(s, h) EXCEPT !.prio[h] = to], h)
    BY <1>5, Zenon DEF SetPriority
  <2>4. UnReady(s, h) = [s EXCEPT !.rl[from] = l, !.top = s.top]
    BY <2>1, Zenon DEF UnReady
  <2>5. [[s EXCEPT !.rl[from] = l, !.top = s.top] EXCEPT !.prio[h] = to] = b
    <3> HIDE DEF l, from
    <3> QED
      BY <1>1 DEF KType
  <2>6. x = r
    BY <2>2, <2>3, <2>4, <2>5
  <2> QED
    BY <1>2, <2>6, SetPriorityFacts
<1> QED
  BY <1>3, <1>4, <1>5

(* The caller takes its priority back. Here the property needs its         *)
(* condition: since another task stays in the list the holder leaves, no   *)
(* bit is reset.                                                           *)
LEMMA DisinheritInv ==
  ASSUME HolderNotAlone, Inv, NEW t \in Task, Disinherit(t)
  PROVE  Inv'
<1> DEFINE m == loc[t].obj
           h == holder[m]
           w == prvGetDisinheritPriorityAfterTimeout(m)
<1>1. /\ Runs(t) /\ loc[t].pc = "disinherit" /\ Return(t) /\ conf' = conf
      /\ k' = vTaskPriorityDisinheritAfterTimeout(k, h, w)
      /\ que' = que /\ holder' = holder /\ pendsv' = pendsv
  BY DEF Disinherit
<1>2. m \in Mutex /\ h \in Task \cup {None} /\ LInv(k) /\ k \in KType /\ conf \in Confs
  BY <1>1 DEF Inv, Steady, LocType, LInv
<1>3. LInv(k') /\ Calm(k, k')
  <2>1. CASE h = None
    <3>1. k' = k
      BY <1>1, <2>1 DEF vTaskPriorityDisinheritAfterTimeout
    <3> QED
      BY <1>2, <3>1, CalmSame
  <2>2. CASE h # None
    <3>1. conf.prio \in [Task -> Prios] /\ 0 \in Prios
      BY <1>2, KernelAssumption DEF Prios
    <3>2. h \in Task /\ Base(h) \in Prios
      BY <1>2, <2>2, <3>1 DEF Base
    <3>3. w \in Prios
      <4>1. k.ev[m] \in Seq(Task) /\ k.prio \in [Task -> Prios]
        BY <1>2 DEF KType, EventLists
      <4>2. k.ev[m] # <<>> => Head(k.ev[m]) \in Task
        BY <4>1
      <4> HIDE DEF m
      <4> QED
        BY <3>1, <4>1, <4>2 DEF prvGetDisinheritPriorityAfterTimeout
    <3>4. IsReady(k, h) => \E u \in Task \ {h} : IsReady(k, u) /\ k.prio[u] = k.prio[h]
      BY <1>1, <3>2 DEF HolderNotAlone, Ready
    <3> QED
      BY <1>1, <1>2, <3>2, <3>3, <3>4, TimeoutFacts
  <2> QED
    BY <2>1, <2>2
<1>4. loc[t].pc \notin Locked /\ loc[t].pc # "notified"
  BY <1>1 DEF Locked
<1>5. que' \in [n : Int, tx : Int, rx : Int] /\ holder' \in [Mutex -> Task \cup {None}]
  BY <1>1 DEF Inv
<1> QED
  BY <1>1, <1>3, <1>4, <1>5, ReturnInv

(* What an interrupt does to the lists. *)
LEMMA InterruptInv ==
  ASSUME Inv, LInv(k'), Calm(k, k'), pendsv => pendsv', loc' = loc, conf' = conf,
         que' \in [n : Int, tx : Int, rx : Int], holder' = holder
  PROVE  Inv'
<1>1. Ctx(k', loc', pendsv')
  BY CalmIsMild, CtxCalm DEF Inv
<1> QED
  BY <1>1 DEF Inv

(* The interrupts. *)
LEMMA TickInv == ASSUME Inv, Tick PROVE Inv'
<1>1. loc' = loc /\ conf' = conf /\ que' = que /\ holder' = holder /\ LInv(k)
  BY DEF Tick, Inv
<1>2. que' \in [n : Int, tx : Int, rx : Int]
  BY <1>1 DEF Inv
<1>3. CASE k.susp
  <2> DEFINE n == k.pended + 1
             r == [k EXCEPT !.pended = n]
  <2>0. k \in KType /\ n \in Nat
    BY <1>1 DEF LInv, KType
  <2>1. k' = r /\ pendsv' = pendsv
    BY <1>3 DEF Tick
  <2> HIDE DEF n
  <2>2. /\ r \in KType /\ SameLists(k, r) /\ r.cur = k.cur /\ r.susp = k.susp
        /\ r.note = k.note /\ r.pending = k.pending
    BY <2>0 DEF KType, SameLists
  <2> HIDE DEF r
  <2>3. LInv(r) /\ Calm(k, r)
    BY <1>1, <2>2, SameListsInv, SameListsCalm
  <2> QED
    BY <1>1, <1>2, <2>1, <2>3, InterruptInv
<1>4. CASE ~k.susp
  <2> DEFINE r == xTaskIncrementTick(k)
  <2>1. k' = r.s /\ (pendsv => pendsv')
    <3> HIDE DEF r
    <3>1. IF k.susp THEN k' = [k EXCEPT !.pended = @ + 1] /\ UNCHANGED pendsv
          ELSE k' = r.s /\ pendsv' = (pendsv \/ r.sw)
      BY DEF Tick, r
    <3>2. k' = r.s /\ pendsv' = (pendsv \/ r.sw)
      BY <1>4, <3>1, Zenon
    <3> QED
      BY <3>2
  <2>2. LInv(r.s) /\ Calm(k, r.s)
    BY <1>1, TickFacts
  <2> HIDE DEF r
  <2> QED
    BY <1>1, <1>2, <2>1, <2>2, InterruptInv
<1> QED
  BY <1>3, <1>4

LEMMA WakeFromISRFacts ==
  ASSUME Inv, NEW lock, NEW e \in EventLists, WakeFromISR(lock, e)
  PROVE  LInv(k') /\ Calm(k, k') /\ (pendsv => pendsv')
<1>1. CASE lock = UNLOCKED /\ k.ev[e] # <<>>
  <2> DEFINE r == xTaskRemoveFromEventList(k, e)
  <2>1. k' = r.s /\ (pendsv => pendsv')
    BY <1>1 DEF WakeFromISR
  <2>2. LInv(r.s) /\ Calm(k, r.s)
    BY <1>1, RemoveEvent DEF Inv
  <2> HIDE DEF r
  <2> QED
    BY <2>1, <2>2
<1>2. CASE ~(lock = UNLOCKED /\ k.ev[e] # <<>>)
  <2>1. k' = k /\ pendsv' = pendsv
    BY <1>2 DEF WakeFromISR
  <2> QED
    BY <2>1, CalmSame DEF Inv
<1> QED
  BY <1>1, <1>2

LEMMA SendFromISRInv == ASSUME Inv, xQueueGenericSendFromISR PROVE Inv'
<1>1. loc' = loc /\ conf' = conf /\ holder' = holder
      /\ que' = [que EXCEPT !.n = @ + 1, !.tx = Counted(@)] /\ WakeFromISR(que.tx, "recv")
  BY DEF xQueueGenericSendFromISR
<1>2. que' \in [n : Int, tx : Int, rx : Int]
  <2>1. que \in [n : Int, tx : Int, rx : Int]
    BY DEF Inv
  <2>2. Counted(que.tx) \in Int /\ que.n + 1 \in Int
    BY <2>1 DEF Counted, UNLOCKED
  <2> QED
    BY <1>1, <2>1, <2>2
<1>3. LInv(k') /\ Calm(k, k') /\ (pendsv => pendsv')
  BY <1>1, WakeFromISRFacts DEF EventLists
<1> QED
  BY <1>1, <1>2, <1>3, InterruptInv

LEMMA ReceiveFromISRInv == ASSUME Inv, xQueueReceiveFromISR PROVE Inv'
<1>1. loc' = loc /\ conf' = conf /\ holder' = holder
      /\ que' = [que EXCEPT !.n = @ - 1, !.rx = Counted(@)] /\ WakeFromISR(que.rx, "send")
  BY DEF xQueueReceiveFromISR
<1>2. que' \in [n : Int, tx : Int, rx : Int]
  <2>1. que \in [n : Int, tx : Int, rx : Int]
    BY DEF Inv
  <2>2. Counted(que.rx) \in Int /\ que.n - 1 \in Int
    BY <2>1 DEF Counted, UNLOCKED
  <2> QED
    BY <1>1, <2>1, <2>2
<1>3. LInv(k') /\ Calm(k, k') /\ (pendsv => pendsv')
  BY <1>1, WakeFromISRFacts DEF EventLists
<1> QED
  BY <1>1, <1>2, <1>3, InterruptInv

LEMMA NotifyFromISRInv == ASSUME Inv, vTaskNotifyGiveFromISR PROVE Inv'
<1>1. loc' = loc /\ conf' = conf /\ holder' = holder /\ que' = que /\ LInv(k)
  BY DEF vTaskNotifyGiveFromISR, Inv
<1>2. PICK t \in conf.notified \ (k.term \cup k.gone) :
        LET r == Notify(k, t)
        IN /\ k' = [r.s EXCEPT !.ypend = @ \/ r.yield]
           /\ \E taskWoken \in BOOLEAN : pendsv' = (pendsv \/ r.yield \/ taskWoken)
  BY DEF vTaskNotifyGiveFromISR
<1>3. t \in Task
  BY KernelAssumption DEF Inv
<1> DEFINE r == Notify(k, t)
           b == r.s.ypend \/ r.yield
           s == [r.s EXCEPT !.ypend = b]
<1>4. LInv(r.s) /\ Calm(k, r.s)
  BY <1>1, <1>3, NotifiableFacts, NotifyFacts
<1>5. k' = s /\ (pendsv => pendsv')
  BY <1>2
<1>6. b \in BOOLEAN
  OBVIOUS
<1> HIDE DEF r, b
<1>7. LInv(s) /\ Calm(r.s, s)
  BY <1>4, <1>6, Ypend
<1> HIDE DEF s
<1>8. Calm(k, s)
  BY <1>1, <1>4, <1>7, CalmThen DEF LInv
<1>9. que' \in [n : Int, tx : Int, rx : Int]
  BY <1>1 DEF Inv
<1> QED
  BY <1>1, <1>5, <1>7, <1>8, <1>9, InterruptInv

LEMMA PendSVInv == ASSUME Inv, PendSV PROVE Inv'
<1> DEFINE r == vTaskSwitchContext(k)
<1>1. k' = r /\ pendsv' = FALSE /\ loc' = loc /\ conf' = conf /\ holder' = holder /\ que' = que
  BY DEF PendSV
<1>2. LInv(k) /\ Ctx(k, loc, pendsv)
  BY DEF Inv
<1>3. IsReady(k, Idle) /\ Idle \in Task
  BY <1>2, KernelAssumption DEF Ctx
<1>4. /\ LInv(r) /\ r.susp = k.susp /\ r.term = k.term /\ r.gone = k.gone
      /\ r.note = k.note /\ r.pending = k.pending /\ r.ev = k.ev
      /\ \A t \in Task : IsReady(r, t) <=> IsReady(k, t)
      /\ IF k.susp THEN r.cur = k.cur ELSE r.cur \in Task /\ IsReady(r, r.cur)
  BY <1>2, <1>3, SwitchFacts
<1> HIDE DEF r
<1>5. \A t : (Waits(r, t) <=> Waits(k, t)) /\ (Waiting(r, t) <=> Waiting(k, t))
  BY <1>4 DEF Waits, Waiting
<1>6. Ctx(r, loc, FALSE)
  <2>1. CASE k.susp
    <3>1. k.cur \in Task
      BY <1>2 DEF LInv, KType
    <3> QED
      BY <1>2, <1>3, <1>4, <1>5, <2>1, <3>1 DEF Ctx
  <2>2. CASE ~k.susp
    <3>1. k.cur \in Task
      BY <1>2 DEF LInv, KType
    <3>2. \A t \in Task : loc[t].pc \notin Locked
      BY <1>2, <2>2, <3>1 DEF Ctx
    <3>3. loc[r.cur].pc \notin {"lock", "place"}
      BY <1>4, <2>2, <3>2 DEF Locked
    <3> QED
      BY <1>2, <1>3, <1>4, <1>5, <2>2, <3>2, <3>3 DEF Ctx
  <2> QED
    BY <2>1, <2>2
<1> QED
  BY <1>1, <1>2, <1>4, <1>6 DEF Inv

-----------------------------------------------------------------------------
(* The theorem. *)

(* A finite set as a list. *)
LEMMA SetToSeqFacts ==
  ASSUME NEW S, NEW T \in SUBSET S, IsFiniteSet(T)
  PROVE  SetToSeq(T) \in Seq(S) /\ Distinct(SetToSeq(T)) /\ ToSet(SetToSeq(T)) = T
<1> DEFINE n == Cardinality(T)
           f == SetToSeq(T)
<1>1. n \in Nat /\ ExistsBijection(1 .. n, T)
  BY FS_CardinalityType
<1>2. \E g \in [1 .. n -> T] : IsInjective(g)
  BY <1>1 DEF ExistsBijection, Bijection, Injection
<1>3. f \in [1 .. n -> T] /\ IsInjective(f)
  BY <1>2, Zenon DEF SetToSeq
<1> HIDE DEF f
<1>4. f \in Injection(1 .. n, T)
  BY <1>3 DEF Injection
<1>5. IsFiniteSet(1 .. n) /\ Cardinality(1 .. n) = n
  BY <1>1, FS_Interval
<1>6. f \in Surjection(1 .. n, T)
  BY <1>4, <1>5, FS_Injection
<1>7. \A x \in T : \E i \in 1 .. n : f[i] = x
  BY <1>6 DEF Surjection
<1>8. DOMAIN f = 1 .. n /\ \A i \in 1 .. n : f[i] \in T
  BY <1>3
<1>9. f \in Seq(T) /\ f \in Seq(S)
  BY <1>1, <1>3
<1>10. Distinct(f)
  BY <1>3 DEF IsInjective, Distinct
<1>11. ToSet(f) = T
  BY <1>7, <1>8 DEF ToSet
<1> QED
  BY <1>9, <1>10, <1>11 DEF f

(* The task that vTaskStartScheduler finds: of the highest priority. *)
LEMMA FirstFacts ==
  ASSUME NEW p \in [Task -> Prios], NEW S \in SUBSET Task, S # {}
  PROVE  (CHOOSE t \in S : \A u \in S : p[t] >= p[u]) \in S
<1> DEFINE T == {p[t] : t \in S}
           g == GreatestOf(T)
<1>1. T \in SUBSET Prios /\ T # {} /\ MAX_PRIORITIES \in Nat
  BY KernelAssumption
<1>2. g \in T /\ \A y \in T : y <= g
  BY <1>1, Greatest
<1> HIDE DEF g
<1>3. PICK t \in S : p[t] = g
  BY <1>2
<1>4. \A u \in S : p[u] \in Int /\ p[u] <= g
  BY <1>2 DEF Prios
<1>5. \A u \in S : p[t] >= p[u]
  BY <1>3, <1>4
<1> QED
  BY <1>5, Zenon

(* The invariant holds when the scheduler starts, and every step keeps it. *)
LEMMA InitInv == ASSUME Init PROVE Inv
<1> DEFINE p == conf.prio
           tasks == Task \ conf.later
           ready(q) == SetToSeq({t \in tasks : p[t] = q})
           first == CHOOSE t \in tasks : \A u \in tasks : p[t] >= p[u]
           R == [q \in Prios |-> [items |-> ready(q), idx |-> 0]]
           T == {p[t] : t \in tasks}
<1>1. conf \in Confs
  BY DEF Init
<1>2. /\ p \in [Task -> Prios] /\ conf.later \subseteq Task \ {Idle}
      /\ Idle \in Task /\ MAX_PRIORITIES \in Nat
      /\ TickMod \in Nat /\ InitialTick \in Nat /\ MAX_DELAY \in Int
      /\ IsFiniteSet(Task)
  BY <1>1, KernelAssumption DEF Prios, MAX_DELAY
<1>3. Idle \in tasks /\ tasks \in SUBSET Task
  BY <1>2
<1>4. first \in tasks
  <2>1. p \in [Task -> Prios] /\ tasks \in SUBSET Task /\ tasks # {}
    BY <1>2, <1>3
  <2> HIDE DEF p, tasks
  <2> QED
    BY <2>1, FirstFacts
<1>5. \A q \in Prios : ready(q) \in Seq(Task) /\ Distinct(ready(q)) /\ ToSet(ready(q)) = {t \in tasks : p[t] = q}
  <2> TAKE q \in Prios
  <2> DEFINE U == {t \in tasks : p[t] = q}
  <2>1. U \in SUBSET Task
    OBVIOUS
  <2>2. IsFiniteSet(U)
    BY <1>2, <2>1, FS_Subset
  <2> HIDE DEF U
  <2>3. SetToSeq(U) \in Seq(Task) /\ Distinct(SetToSeq(U)) /\ ToSet(SetToSeq(U)) = U
    BY <2>1, <2>2, SetToSeqFacts
  <2> QED
    BY <2>3 DEF U
<1>6. k = [rl |-> R, top |-> T,
           prio |-> p, held |-> [t \in Task |-> 0],
           delayed |-> <<>>, overflow |-> <<>>, suspended |-> {}, pending |-> <<>>,
           wake |-> [t \in Task |-> 0], ev |-> [e \in EventLists |-> <<>>],
           cur |-> first, susp |-> FALSE, ypend |-> FALSE, pended |-> 0,
           note |-> [t \in Task |-> [n |-> 0, state |-> "none"]],
           term |-> {}, gone |-> conf.later, tick |-> InitialTick, over |-> 0, next |-> MAX_DELAY]
  BY Zenon DEF Init
<1>7. /\ que = [n |-> 0, tx |-> UNLOCKED, rx |-> UNLOCKED] /\ holder = [m \in Mutex |-> None]
      /\ loc = [t \in Task |-> Home] /\ pendsv = TRUE
  BY DEF Init
<1> HIDE DEF ready, first
<1>8. /\ R \in [Prios -> LType]
      /\ \A q \in Prios : R[q].items = ready(q) /\ R[q].idx = 0
  BY <1>5 DEF LType
<1>9. T \in SUBSET Prios
  BY <1>2, <1>3
<1> HIDE DEF R, T
<1>10. k \in KType
  <2>1. [t \in Task |-> [n |-> 0, state |-> "none"]] \in [Task -> [n : Nat, state : States]]
    BY DEF States
  <2>2. [e \in EventLists |-> <<>>] \in [EventLists -> Seq(Task)] /\ <<>> \in Seq(Task)
    OBVIOUS
  <2>3. conf.later \in SUBSET Task /\ first \in Task /\ {} \in SUBSET Task
    BY <1>2, <1>3, <1>4
  <2>4. [t \in Task |-> 0] \in [Task -> Int]
    OBVIOUS
  <2> HIDE DEF p
  <2> QED
    BY <1>2, <1>6, <1>8, <1>9, <2>1, <2>2, <2>3, <2>4 DEF KType
<1>11. /\ k.rl = R /\ k.top = T /\ k.prio = p /\ k.delayed = <<>> /\ k.overflow = <<>>
       /\ k.suspended = {} /\ k.pending = <<>> /\ k.ev = [e \in EventLists |-> <<>>]
       /\ k.cur = first /\ k.susp = FALSE /\ k.term = {} /\ k.gone = conf.later
       /\ k.note = [t \in Task |-> [n |-> 0, state |-> "none"]]
  BY <1>6
<1>12. OwnList(k)
  <2>1. ASSUME NEW q \in Prios PROVE Sound(R[q]) /\ \A t \in ToSet(R[q].items) : p[t] = q
    <3>1. R[q].items = ready(q) /\ R[q].idx = 0 /\ Distinct(ready(q)) /\ ready(q) \in Seq(Task)
          /\ ToSet(ready(q)) = {t \in tasks : p[t] = q}
      BY <1>5, <1>8
    <3>2. 0 <= Len(ready(q))
      BY <3>1, SeqFacts
    <3> QED
      BY <3>1, <3>2 DEF Sound
  <2> QED
    BY <1>11, <2>1 DEF OwnList
<1>13. \A t \in Task : IsReady(k, t) <=> t \in tasks
  <2> TAKE t \in Task
  <2>1. p[t] \in Prios
    BY <1>2
  <2>2. ToSet(R[p[t]].items) = {u \in tasks : p[u] = p[t]}
    BY <1>5, <1>8, <2>1
  <2> QED
    BY <1>11, <2>2 DEF IsReady
<1>14. TopExact(k)
  <2>1. ASSUME NEW q \in Prios PROVE q \in T <=> R[q].items # <<>>
    <3>1. ready(q) \in Seq(Task) /\ ToSet(ready(q)) = {t \in tasks : p[t] = q} /\ R[q].items = ready(q)
      BY <1>5, <1>8
    <3>2. R[q].items # <<>> <=> {t \in tasks : p[t] = q} # {}
      BY <3>1, SeqFacts
    <3>3. q \in T <=> \E t \in tasks : p[t] = q
      BY DEF T
    <3> QED
      BY <3>2, <3>3
  <2> QED
    BY <1>9, <1>11, <2>1 DEF TopExact
<1>15. ToSet(<<>>) = {} /\ Distinct(<<>>)
  BY DEF ToSet, Distinct
<1>16. InOne(k)
  BY <1>11, <1>13, <1>15 DEF InOne, OneOf
<1>17. \A t : ~Waits(k, t)
  BY <1>11, <1>15 DEF Waits
<1>18. Events(k)
  BY <1>11, <1>15, <1>17 DEF Events
<1>19. Ctx(k, loc, pendsv)
  <2>1. \A t \in Task : loc[t] = Home /\ ~Waiting(k, t)
    BY <1>7, <1>11 DEF Waiting
  <2>2. first \in Task /\ Idle \in tasks
    BY <1>3, <1>4
  <2> QED
    BY <1>2, <1>7, <1>11, <1>13, <1>17, <2>1, <2>2, HomeFacts DEF Ctx, Locked
<1>20. que \in [n : Int, tx : Int, rx : Int] /\ holder \in [Mutex -> Task \cup {None}]
  BY <1>7 DEF UNLOCKED
<1>21. loc \in [Task -> LocType] /\ \A t \in Task : Steady(loc[t])
  BY <1>7, HomeFacts
<1> QED
  BY <1>1, <1>10, <1>12, <1>14, <1>16, <1>18, <1>19, <1>20, <1>21 DEF Inv, LInv, RInv

LEMMA NextInv == ASSUME HolderNotAlone, Inv, Next PROVE Inv'
<1>1. CASE \E t \in Task : QueueStep(t)
  <2>1. PICK t \in Task : QueueStep(t)
    BY <1>1
  <2> QED
    BY <2>1, SendInv, ReceiveInv, TakeInv, GiveInv, DelayInv, SuspendInv, LockInv, PlaceStepInv,
       NotifyTakeInv, NotifiedInv, NotifyGiveInv, CreateInv, DeleteInv, UnlockTxInv, UnlockRxInv,
       ResumeInv, BackInv, ExpiredInv, DisinheritInv DEF QueueStep
<1>2. CASE prvCheckTasksWaitingTermination
  BY <1>2, FreeInv
<1>3. CASE Tick
  BY <1>3, TickInv
<1>4. CASE xQueueGenericSendFromISR
  BY <1>4, SendFromISRInv
<1>5. CASE xQueueReceiveFromISR
  BY <1>5, ReceiveFromISRInv
<1>6. CASE vTaskNotifyGiveFromISR
  BY <1>6, NotifyFromISRInv
<1>7. CASE PendSV
  BY <1>7, PendSVInv
<1> QED
  BY <1>1, <1>2, <1>3, <1>4, <1>5, <1>6, <1>7 DEF Next

LEMMA StutterInv == ASSUME Inv, UNCHANGED vars PROVE Inv'
BY DEF vars, Inv

(* The property is one of the lists alone: of LInv. *)
LEMMA InvAgrees == ASSUME Inv PROVE ListsAgree
<1>1. LInv(k) /\ k \in KType /\ Ctx(k, loc, pendsv)
  BY DEF Inv, LInv
<1>2. k.top = {p \in Prios : k.rl[p].items # <<>>}
  BY <1>1 DEF LInv, RInv, TopExact
<1>3. ASSUME NEW t \in Task
      PROVE  LET lists == <<{u \in Task : \E p \in Prios : u \in ToSet(k.rl[p].items)},
                            ToSet(k.delayed), ToSet(k.overflow), k.suspended, k.term, k.gone>>
             IN Cardinality({i \in DOMAIN lists : t \in lists[i]}) = 1
  <2> DEFINE A == {u \in Task : \E p \in Prios : u \in ToSet(k.rl[p].items)}
             lists == <<A, ToSet(k.delayed), ToSet(k.overflow), k.suspended, k.term, k.gone>>
             I == {i \in DOMAIN lists : t \in lists[i]}
  <2>1. t \in A <=> IsReady(k, t)
    <3>1. k.prio[t] \in Prios
      BY <1>1 DEF KType
    <3>2. \A p \in Prios : t \in ToSet(k.rl[p].items) => k.prio[t] = p
      BY <1>1 DEF LInv, RInv, OwnList
    <3> QED
      BY <3>1, <3>2 DEF IsReady
  <2>2. OneOf(t \in A, t \in ToSet(k.delayed), t \in ToSet(k.overflow),
              t \in k.suspended, t \in k.term, t \in k.gone)
    BY <1>1, <2>1 DEF LInv, RInv, InOne, OneOf
  <2> HIDE DEF A
  <2>3. \E x : I = {x}
    <3>1. DOMAIN lists = 1 .. 6
      OBVIOUS
    <3>2. /\ lists[1] = A /\ lists[2] = ToSet(k.delayed) /\ lists[3] = ToSet(k.overflow)
          /\ lists[4] = k.suspended /\ lists[5] = k.term /\ lists[6] = k.gone
      OBVIOUS
    <3> HIDE DEF lists
    <3>3. /\ 1 \in I <=> t \in A
          /\ 2 \in I <=> t \in ToSet(k.delayed)
          /\ 3 \in I <=> t \in ToSet(k.overflow)
          /\ 4 \in I <=> t \in k.suspended
          /\ 5 \in I <=> t \in k.term
          /\ 6 \in I <=> t \in k.gone
          /\ \A i \in I : i = 1 \/ i = 2 \/ i = 3 \/ i = 4 \/ i = 5 \/ i = 6
      BY <3>1, <3>2
    <3> HIDE DEF I
    <3>4. OneOf(1 \in I, 2 \in I, 3 \in I, 4 \in I, 5 \in I, 6 \in I)
      BY <2>2, <3>3 DEF OneOf
    <3>5. I = {1} \/ I = {2} \/ I = {3} \/ I = {4} \/ I = {5} \/ I = {6}
      BY <3>3, <3>4 DEF OneOf
    <3> QED
      BY <3>5
  <2> HIDE DEF I
  <2>4. Cardinality(I) = 1
    BY <2>3, FS_Singleton
  <2> QED
    BY <2>4 DEF I, A
<1>4. \A e \in EventLists : ToSet(k.ev[e]) \subseteq Blocked(k)
  BY <1>1 DEF LInv, Events
<1>5. ~k.susp => k.pending = <<>>
  BY <1>1 DEF Ctx
<1> QED
  BY <1>2, <1>3, <1>4, <1>5 DEF ListsAgree

(* The lists and the bitmap agree through every move of every task, for any*)
(* tasks, priorities, mutexes, calls and ticks, as long as no holder of a  *)
(* mutex is alone in its ready list when a waiter whose time is over takes *)
(* its priority back.                                                      *)
THEOREM ListsAlwaysAgree == Spec /\ []HolderNotAlone => []ListsAgree
<1>1. Init => Inv
  BY InitInv
<1>2. HolderNotAlone /\ Inv /\ [Next]_vars => Inv'
  BY NextInv, StutterInv
<1>3. Inv => ListsAgree
  BY InvAgrees
<1> QED
  BY <1>1, <1>2, <1>3, PTL DEF Spec

-----------------------------------------------------------------------------
(* Tasks that never give up waiting for a mutex: nothing is left to assume *)
(* of the holder.                                                          *)

(* The tasks take a mutex at once or wait for it for ever. *)
PatientCalls ==
  \A f \in Confs : \A t \in Task : \A x \in f.calls[t] :
    x.op = "take" => x.wait = 0 \/ x.wait = MAX_DELAY

(* Then no wait for a mutex expires: such a task is never at "expired" or "disinherit". *)
Patient(l) ==
  l.op = "take" =>
    \/ l.pc = "try" /\ (l.left = 0 \/ l.left = MAX_DELAY)
    \/ l.pc \in {"suspend", "lock", "place"} /\ l.left = MAX_DELAY
    \/ l.pc = "resume" /\ l.left = MAX_DELAY /\ l.after # "expired"
    \/ l.pc = "asserted"

AllPatient == \A t \in Task : Patient(loc[t])

(* So no task takes its priority back from a holder. *)
LEMMA PatientHolder == ASSUME Inv, AllPatient PROVE HolderNotAlone
BY DEF Inv, AllPatient, Patient, Steady, HolderNotAlone

(* At the start no task is in a call. *)
LEMMA PatientInit == ASSUME Init PROVE AllPatient
BY DEF Init, AllPatient, Patient, Home

(* A step that moves one task, and leaves it patient. *)
LEMMA PatientMove ==
  ASSUME Inv, AllPatient, NEW t \in Task, NEW l, loc' = [loc EXCEPT ![t] = l], Patient(l)
  PROVE  AllPatient'
<1>1. \A u \in Task : loc'[u] = IF u = t THEN l ELSE loc[u]
  BY DEF Inv
<1>2. ASSUME NEW u \in Task PROVE Patient(loc'[u])
  <2>1. CASE u = t
    BY <1>1, <2>1
  <2>2. CASE u # t
    <3>1. loc'[u] = loc[u]
      BY <1>1, <2>2
    <3> QED
      BY <3>1 DEF AllPatient
  <2> QED
    BY <2>1, <2>2
<1> QED
  BY <1>2 DEF AllPatient

(* The call is over. *)
LEMMA PatientReturn ==
  ASSUME Inv, AllPatient, NEW t \in Task, Return(t) PROVE AllPatient'
<1>1. Patient(Home)
  BY DEF Patient, Home
<1> QED
  BY <1>1, PatientMove DEF Return

(* A call that has something else to wait for than a mutex. *)
LEMMA PatientGoto ==
  ASSUME Inv, AllPatient, NEW t \in Task, NEW c \in LocType, NEW place, Goto(t, c, place),
         c.op # "take"
  PROVE  AllPatient'
<1> DEFINE l == [c EXCEPT !.pc = place]
<1>1. l.op = c.op
  BY DEF LocType
<1>2. Patient(l)
  BY <1>1 DEF Patient
<1> HIDE DEF l
<1>3. loc' = [loc EXCEPT ![t] = l]
  BY DEF Goto, l
<1> QED
  BY <1>2, <1>3, PatientMove

(* A call for a mutex waits for no time or for ever, new or tried again. *)
LEMMA PatientCall ==
  ASSUME PatientCalls, Inv, AllPatient, NEW t \in Task, NEW c \in Calls(t), c.op = "take"
  PROVE  c.left = 0 \/ c.left = MAX_DELAY
<1>1. CASE loc[t].pc = "try"
  <2>1. c = loc[t]
    BY <1>1 DEF Calls
  <2> QED
    BY <1>1, <2>1 DEF AllPatient, Patient
<1>2. CASE loc[t].pc = "app"
  <2>1. PICK x \in conf.calls[t] : c = [Home EXCEPT !.op = x.op, !.obj = x.obj, !.left = x.wait]
    BY <1>2 DEF Calls
  <2>2. c.op = x.op /\ c.left = x.wait
    BY <2>1 DEF Home
  <2> QED
    BY <2>2 DEF PatientCalls, Inv
<1> QED
  BY <1>1, <1>2, CallsFacts

(* The mutex is taken, or the queue cannot serve: fail or wait. *)
LEMMA PatientNotNow ==
  ASSUME PatientCalls, Inv, AllPatient, NEW t \in Task, NEW c \in Calls(t), NotNow(t, c)
  PROVE  AllPatient'
<1> DEFINE d == IF c.on # None THEN c
                ELSE [c EXCEPT !.on = [tick |-> k.tick, over |-> k.over], !.due = EndOf(c.left)]
<1>1. c \in LocType
  BY CallsFacts
<1>2. CASE c.left = 0 /\ ~c.inherited
  BY <1>2, PatientReturn DEF NotNow
<1>3. CASE c.left = 0 /\ c.inherited
  <2> DEFINE l == [c EXCEPT !.pc = "asserted"]
  <2>1. loc' = [loc EXCEPT ![t] = l]
    BY <1>3 DEF NotNow, Goto
  <2>2. l.pc = "asserted"
    BY <1>1 DEF LocType
  <2> HIDE DEF l
  <2>3. Patient(l)
    BY <2>2 DEF Patient
  <2> QED
    BY <2>1, <2>3, PatientMove
<1>4. CASE c.left # 0
  <2> DEFINE l == [d EXCEPT !.pc = "suspend"]
  <2>1. loc' = [loc EXCEPT ![t] = l]
    BY <1>4 DEF NotNow, Goto
  <2>2. l.pc = "suspend" /\ l.op = c.op /\ l.left = c.left
    BY <1>1 DEF LocType
  <2> HIDE DEF l
  <2>3. Patient(l)
    BY <1>4, <2>2, PatientCall DEF Patient
  <2> QED
    BY <2>1, <2>3, PatientMove
<1> QED
  BY <1>2, <1>3, <1>4

(* A wait for ever is never found to be over. *)
LEMMA PatientLock ==
  ASSUME Inv, AllPatient, NEW t \in Task, LockAndCheck(t) PROVE AllPatient'
<1> DEFINE c == loc[t]
           r == xTaskCheckForTimeOut(k, c)
           q == c.op \in {"send", "recv"}
           y == [r.c EXCEPT !.pc = "place"]
           z == [r.c EXCEPT !.after = "expired", !.pc = IF q THEN "unlockTx" ELSE "resume"]
<1>1. c.pc = "lock" /\ loc' = [loc EXCEPT ![t] = IF ~r.over THEN y ELSE z]
  BY DEF LockAndCheck, Goto
<1>2. c \in LocType /\ Steady(c) /\ Patient(c)
  BY DEF Inv, AllPatient
<1>3. r.c \in LocType /\ r.c.op = c.op
  <2>1. c.on \in OnType
    BY <1>1, <1>2 DEF Steady
  <2> QED
    BY <1>2, <2>1, CheckFacts
<1>4. c.op = "take" => ~r.over /\ r.c = c /\ c.left = MAX_DELAY
  BY <1>1, <1>2 DEF Patient, xTaskCheckForTimeOut
<1> HIDE DEF c, r, q
<1>5. CASE ~r.over
  <2>1. y.op = c.op /\ y.pc = "place" /\ (c.op = "take" => y.left = MAX_DELAY)
    BY <1>3, <1>4 DEF LocType
  <2>2. loc' = [loc EXCEPT ![t] = y]
    BY <1>1, <1>5
  <2> HIDE DEF y
  <2>3. Patient(y)
    BY <2>1 DEF Patient
  <2> QED
    BY <2>2, <2>3, PatientMove
<1>6. CASE r.over
  <2>1. z.op = c.op
    BY <1>3 DEF LocType
  <2>2. loc' = [loc EXCEPT ![t] = z]
    BY <1>1, <1>6
  <2> HIDE DEF z
  <2>3. Patient(z)
    BY <1>4, <1>6, <2>1 DEF Patient
  <2> QED
    BY <2>2, <2>3, PatientMove
<1> QED
  BY <1>5, <1>6

(* The place on the event list of the mutex. *)
LEMMA PatientPlace ==
  ASSUME Inv, AllPatient, NEW t \in Task, Place(t) PROVE AllPatient'
<1> DEFINE c == loc[t]
           next == IF c.op = "take" THEN "resume" ELSE "unlockTx"
<1>1. c \in LocType /\ Patient(c) /\ c.pc = "place"
  BY DEF Inv, AllPatient, Place
<1>2. \E b : \E a \in {"block", "retry"} : loc' = [loc EXCEPT ![t] =
                [c EXCEPT !.after = a, !.inherited = b, !.pc = next]]
  <2>1. \/ \E b : loc' = [loc EXCEPT ![t] =
                    [[c EXCEPT !.after = "block", !.inherited = b] EXCEPT !.pc = next]]
        \/ loc' = [loc EXCEPT ![t] = [[c EXCEPT !.after = "retry"] EXCEPT !.pc = next]]
    BY DEF Place, Goto
  <2>2. \A b : [[c EXCEPT !.after = "block", !.inherited = b] EXCEPT !.pc = next]
               = [c EXCEPT !.after = "block", !.inherited = b, !.pc = next]
    OBVIOUS
  <2>3. [[c EXCEPT !.after = "retry"] EXCEPT !.pc = next]
        = [c EXCEPT !.after = "retry", !.inherited = c.inherited, !.pc = next]
    BY <1>1 DEF LocType
  <2> QED
    BY <2>1, <2>2, <2>3
<1>3. PICK b : \E a \in {"block", "retry"} : loc' = [loc EXCEPT ![t] =
                [c EXCEPT !.after = a, !.inherited = b, !.pc = next]]
  BY <1>2
<1>4. PICK a \in {"block", "retry"} : loc' = [loc EXCEPT ![t] =
                [c EXCEPT !.after = a, !.inherited = b, !.pc = next]]
  BY <1>3
<1> DEFINE l == [c EXCEPT !.after = a, !.inherited = b, !.pc = next]
<1>5. l.op = c.op /\ l.left = c.left /\ l.after # "expired" /\ l.pc = next
  BY <1>1 DEF LocType
<1>6. loc' = [loc EXCEPT ![t] = l]
  BY <1>4
<1> HIDE DEF l
<1>7. Patient(l)
  BY <1>1, <1>5 DEF Patient
<1> QED
  BY <1>6, <1>7, PatientMove

(* A task that waits for ever tries again. *)
LEMMA PatientResume ==
  ASSUME Inv, AllPatient, NEW t \in Task, Resume(t) PROVE AllPatient'
<1> DEFINE c == loc[t]
<1>1. c \in LocType /\ Patient(c) /\ Steady(c) /\ c.pc = "resume"
  BY DEF Inv, AllPatient, Resume
<1>2. c.op \in {"send", "recv", "take", "delay"} /\ c.after \in {"block", "retry", "expired"}
  BY <1>1 DEF Steady
<1>3. CASE c.op # "take"
  <2>1. \/ Goto(t, c, "back") \/ Return(t) \/ Goto(t, c, "expired")
        \/ Goto(t, [c EXCEPT !.after = "none"], "try")
    BY <1>2, <1>3 DEF Resume
  <2>2. [c EXCEPT !.after = "none"] \in LocType /\ [c EXCEPT !.after = "none"].op = c.op
    BY <1>1 DEF LocType
  <2> QED
    BY <1>1, <1>3, <2>1, <2>2, PatientReturn, PatientGoto
<1>4. CASE c.op = "take"
  <2> DEFINE l == [[c EXCEPT !.after = "none"] EXCEPT !.pc = "try"]
  <2>1. c.after \in {"block", "retry"} /\ c.left = MAX_DELAY
    BY <1>1, <1>2, <1>4 DEF Patient
  <2>2. loc' = [loc EXCEPT ![t] = l]
    BY <1>4, <2>1 DEF Resume, Goto
  <2>3. l.pc = "try" /\ l.left = MAX_DELAY
    BY <1>1, <2>1 DEF LocType
  <2> HIDE DEF l
  <2>4. Patient(l)
    BY <2>3 DEF Patient
  <2> QED
    BY <2>2, <2>4, PatientMove
<1> QED
  BY <1>3, <1>4

(* Calls whose next place does not depend on how long they wait. *)
LEMMA PatientPlain ==
  ASSUME Inv, AllPatient, NEW t \in Task,
         vTaskDelay(t) \/ ulTaskNotifyTake(t) \/ UnlockTx(t) \/ UnlockRx(t)
  PROVE  AllPatient'
<1>1. CASE vTaskDelay(t)
  <2>1. PICK c \in Calls(t) :
          /\ c.op = "delay"
          /\ \/ Return(t)
             \/ Goto(t, [c EXCEPT !.after = "block", !.due = Now(k) + c.left], "resume")
    BY <1>1 DEF vTaskDelay
  <2>4. CASE Return(t)
    BY <2>4, PatientReturn
  <2>5. CASE Goto(t, [c EXCEPT !.after = "block", !.due = Now(k) + c.left], "resume")
    <3> DEFINE d == [c EXCEPT !.after = "block", !.due = Now(k) + c.left]
               l == [d EXCEPT !.pc = "resume"]
    <3>2. l.op = "delay"
      BY <2>1, CallsFacts DEF LocType
    <3>3. loc' = [loc EXCEPT ![t] = l]
      BY <2>5 DEF Goto
    <3> HIDE DEF l
    <3> QED
      BY <3>2, <3>3, PatientMove DEF Patient
  <2> QED
    BY <2>1, <2>4, <2>5
<1>2. CASE ulTaskNotifyTake(t)
  <2>1. PICK c \in Calls(t) : c.op = "ntake" /\ Goto(t, [c EXCEPT !.due = EndOf(c.left)], "notified")
    BY <1>2 DEF ulTaskNotifyTake
  <2> DEFINE d == [c EXCEPT !.due = EndOf(c.left)]
             l == [d EXCEPT !.pc = "notified"]
  <2>2. l.op = "ntake"
    BY <2>1, CallsFacts DEF LocType
  <2>3. loc' = [loc EXCEPT ![t] = l]
    BY <2>1 DEF Goto
  <2> HIDE DEF l
  <2> QED
    BY <2>2, <2>3, PatientMove DEF Patient
<1>3. CASE UnlockTx(t) \/ UnlockRx(t)
  <2>1. loc[t] \in LocType /\ loc[t].op # "take"
    <3>1. Patient(loc[t]) /\ loc[t].pc \in {"unlockTx", "unlockRx"}
      BY <1>3 DEF AllPatient, UnlockTx, UnlockRx
    <3> QED
      BY <3>1 DEF Inv, Patient
  <2> QED
    BY <1>3, <2>1, PatientGoto DEF UnlockTx, UnlockRx
<1> QED
  BY <1>1, <1>2, <1>3

(* Only a task that waits for the queue runs out of time. *)
LEMMA PatientExpired ==
  ASSUME Inv, AllPatient, NEW t \in Task, Expired(t) PROVE AllPatient'
<1> DEFINE c == loc[t]
<1>1. c \in LocType /\ c.op # "take"
  <2>1. Patient(c) /\ c.pc = "expired"
    BY DEF AllPatient, Expired
  <2> QED
    BY <2>1 DEF Inv, Patient
<1>2. \/ Return(t) \/ Goto(t, c, "disinherit") \/ Goto(t, [c EXCEPT !.after = "none"], "try")
  BY DEF Expired
<1>3. [c EXCEPT !.after = "none"] \in LocType /\ [c EXCEPT !.after = "none"].op = c.op
  BY <1>1 DEF LocType
<1> QED
  BY <1>1, <1>2, <1>3, PatientReturn, PatientGoto

(* Every step leaves every task patient. *)
LEMMA PatientNext ==
  ASSUME PatientCalls, Inv, AllPatient, Next PROVE AllPatient'
<1>1. ASSUME NEW t \in Task, QueueStep(t) PROVE AllPatient'
  <2>1. CASE TrySend(t) \/ TryReceive(t) \/ TryTake(t)
    <3>1. Return(t) \/ \E c \in Calls(t) : NotNow(t, c)
      BY <2>1 DEF TrySend, TryReceive, TryTake
    <3> QED
      BY <3>1, PatientReturn, PatientNotNow
  <2>2. CASE xSemaphoreGive(t) \/ Notified(t) \/ xTaskNotifyGive(t) \/ xTaskCreate(t)
             \/ vTaskDelete(t) \/ Back(t) \/ Disinherit(t)
    BY <2>2, PatientReturn
    DEF xSemaphoreGive, Notified, xTaskNotifyGive, xTaskCreate, vTaskDelete, Back, Disinherit
  <2>3. CASE vTaskSuspendAll(t)
    <3> DEFINE l == [loc[t] EXCEPT !.pc = "lock"]
    <3>1. loc' = [loc EXCEPT ![t] = l] /\ loc[t].pc = "suspend"
      BY <2>3 DEF vTaskSuspendAll, Goto
    <3>2. Patient(loc[t]) /\ loc[t] \in LocType
      BY DEF AllPatient, Inv
    <3>3. l.pc = "lock" /\ l.op = loc[t].op /\ l.left = loc[t].left
      BY <3>2 DEF LocType
    <3> HIDE DEF l
    <3>4. Patient(l)
      BY <3>1, <3>2, <3>3 DEF Patient
    <3> QED
      BY <3>1, <3>4, PatientMove
  <2>4. CASE vTaskDelay(t) \/ ulTaskNotifyTake(t) \/ UnlockTx(t) \/ UnlockRx(t)
    BY <2>4, PatientPlain
  <2> QED
    BY <1>1, <2>1, <2>2, <2>3, <2>4, PatientLock, PatientPlace, PatientResume, PatientExpired
    DEF QueueStep
<1>2. ASSUME loc' = loc PROVE AllPatient'
  BY <1>2 DEF AllPatient
<1>3. ASSUME \/ prvCheckTasksWaitingTermination \/ Tick \/ xQueueGenericSendFromISR
             \/ xQueueReceiveFromISR \/ vTaskNotifyGiveFromISR \/ PendSV
      PROVE  loc' = loc
  BY <1>3 DEF prvCheckTasksWaitingTermination, Tick, xQueueGenericSendFromISR,
              xQueueReceiveFromISR, vTaskNotifyGiveFromISR, PendSV
<1> QED
  BY <1>1, <1>2, <1>3 DEF Next

(* The same with no word on the holder, for tasks that take a mutex at     *)
(* once or wait for it for ever, as every caller of osal_mutex_lock asks   *)
(* for: for any number of mutexes, nested or not.                          *)
THEOREM PatientListsAgree ==
  ASSUME PatientCalls
  PROVE  Spec => []ListsAgree
<1>1. Init => Inv /\ AllPatient
  BY InitInv, PatientInit
<1>2. Inv /\ AllPatient /\ [Next]_vars => (Inv /\ AllPatient)'
  <2>1. ASSUME Inv, AllPatient, Next PROVE Inv' /\ AllPatient'
    BY <2>1, NextInv, PatientNext, PatientHolder
  <2>2. ASSUME Inv, AllPatient, UNCHANGED vars PROVE Inv' /\ AllPatient'
    BY <2>2, StutterInv DEF vars, AllPatient
  <2> QED
    BY <2>1, <2>2
<1>3. Inv => ListsAgree
  BY InvAgrees
<1> QED
  BY <1>1, <1>2, <1>3, PTL DEF Spec

-----------------------------------------------------------------------------
(* Lists in order. *)

(* A list that rises in what a value gives to its members. *)
Sorted(list, value) ==
  \A i, j \in DOMAIN list : i < j => value[list[i]] <= value[list[j]]

(* A sorted list stays so when one leaves it. *)
LEMMA SortedRemoved ==
  ASSUME NEW S, NEW s \in Seq(S), NEW i \in 1 .. Len(s), NEW v, Sorted(s, v)
  PROVE  Sorted(RemoveAt(s, i), v)
<1> DEFINE r == RemoveAt(s, i)
<1>a. /\ r \in Seq(S) /\ Len(r) = Len(s) - 1
      /\ \A j \in 1 .. Len(s) - 1 : r[j] = IF j < i THEN s[j] ELSE s[j + 1]
  BY RemoveFacts, Zenon
<1> HIDE DEF r
<1>0. /\ Len(s) \in Nat /\ r \in Seq(S) /\ Len(r) = Len(s) - 1
      /\ DOMAIN s = 1 .. Len(s) /\ DOMAIN r = 1 .. Len(r)
      /\ \A j \in 1 .. Len(s) - 1 : r[j] = IF j < i THEN s[j] ELSE s[j + 1]
  BY <1>a
<1> SUFFICES ASSUME NEW a \in 1 .. Len(r), NEW b \in 1 .. Len(r), a < b
             PROVE  v[r[a]] <= v[r[b]]
  BY <1>0 DEF Sorted, r
<1> DEFINE Old(j) == IF j < i THEN j ELSE j + 1
<1>1. Old(a) \in 1 .. Len(s) /\ Old(b) \in 1 .. Len(s) /\ Old(a) < Old(b)
      /\ r[a] = s[Old(a)] /\ r[b] = s[Old(b)]
  BY <1>0
<1> HIDE DEF Old
<1> QED
  BY <1>0, <1>1 DEF Sorted

(* A task leaves a list in order. *)
LEMMA SortedWithout ==
  ASSUME NEW S, NEW s \in Seq(S), Distinct(s), NEW e, NEW v, NEW w, Sorted(s, v),
         \A x \in ToSet(s) \ {e} : w[x] = v[x]
  PROVE  Sorted(Without(s, e), w)
<1> DEFINE r == Without(s, e)
<1>1. r \in Seq(S) /\ ToSet(r) = ToSet(s) \ {e}
  BY WithoutFacts
<1>2. Sorted(r, v)
  BY PlaceFacts, SortedRemoved DEF Without
<1> HIDE DEF r
<1>3. \A i \in DOMAIN r : w[r[i]] = v[r[i]]
  BY <1>1, SeqFacts
<1>4. Sorted(r, w)
  BY <1>2, <1>3 DEF Sorted
<1> QED
  BY <1>4 DEF r

(* vListInsert keeps the order. *)
LEMMA SortedInsert ==
  ASSUME NEW list \in Seq(Task), NEW t \in Task, NEW v \in [Task -> Int], Sorted(list, v)
  PROVE  Sorted(vListInsert(list, t, v), v)
<1> DEFINE later == {i \in DOMAIN list : v[list[i]] > v[t]}
           n == Len(list)
           r == vListInsert(list, t, v)
<1>0. n \in Nat /\ DOMAIN list = 1 .. n /\ \A i \in 1 .. n : list[i] \in Task /\ v[list[i]] \in Int
  BY SeqFacts
<1>00. v[t] \in Int
  OBVIOUS
<1>01. \A i \in 1 .. Len(list) :
         /\ InsertAt(list, i, t) \in Seq(Task)
         /\ Len(InsertAt(list, i, t)) = Len(list) + 1
         /\ \A j \in 1 .. Len(list) + 1 : InsertAt(list, i, t)[j] =
              IF j < i THEN list[j] ELSE IF j = i THEN t ELSE list[j - 1]
  BY InsertFacts
<1>1. PICK m \in 1 .. n + 1 :
        /\ r \in Seq(Task) /\ Len(r) = n + 1
        /\ \A j \in 1 .. n + 1 : r[j] = IF j < m THEN list[j] ELSE IF j = m THEN t ELSE list[j - 1]
        /\ \A j \in 1 .. n : j < m => v[list[j]] <= v[t]
        /\ m <= n => v[list[m]] > v[t]
  <2>1. CASE later = {}
    <3>1. r = Append(list, t)
      BY <2>1 DEF vListInsert
    <3>2. /\ Append(list, t) \in Seq(Task) /\ Len(Append(list, t)) = n + 1
          /\ \A j \in 1 .. n + 1 : Append(list, t)[j] =
               IF j < n + 1 THEN list[j] ELSE IF j = n + 1 THEN t ELSE list[j - 1]
      OBVIOUS
    <3>3. \A j \in 1 .. n : v[list[j]] <= v[t]
      BY <1>0, <1>00, <2>1
    <3>4. n + 1 \in 1 .. n + 1 /\ ~(n + 1 <= n)
      BY <1>0
    <3> HIDE DEF r, n, later
    <3> QED
      BY <3>1, <3>2, <3>3, <3>4
  <2>2. CASE later # {}
    <3>1. later \in SUBSET Nat
      BY <1>0
    <3>2. LeastOf(later) \in later /\ \A y \in later : LeastOf(later) <= y
      BY <2>2, <3>1, Least
    <3> DEFINE m == LeastOf(later)
    <3>3. m \in 1 .. n /\ v[list[m]] > v[t]
      BY <1>0, <3>2
    <3>4. \A j \in 1 .. n : j < m => v[list[j]] <= v[t]
      <4> SUFFICES ASSUME NEW j \in 1 .. n, j < m, ~(v[list[j]] <= v[t]) PROVE FALSE
        OBVIOUS
      <4>1. j \in later
        BY <1>0, <1>00
      <4>2. m <= j /\ m \in Int /\ j \in Int
        BY <3>2, <3>3, <4>1
      <4> QED
        BY <4>2
    <3>5. r = InsertAt(list, m, t)
      BY <2>2 DEF vListInsert
    <3> HIDE DEF m, later, r
    <3>6. /\ InsertAt(list, m, t) \in Seq(Task)
          /\ Len(InsertAt(list, m, t)) = n + 1
          /\ \A j \in 1 .. n + 1 : InsertAt(list, m, t)[j] =
               IF j < m THEN list[j] ELSE IF j = m THEN t ELSE list[j - 1]
      <4>1. m \in 1 .. Len(list)
        BY <3>3
      <4> QED
        BY <1>01, <4>1
    <3> HIDE DEF n
    <3>7. m \in 1 .. n + 1
      BY <1>0, <3>3
    <3> QED
      BY <3>3, <3>4, <3>5, <3>6, <3>7
  <2> QED
    BY <2>1, <2>2
<1> HIDE DEF r, n, later
<1> SUFFICES ASSUME NEW a \in 1 .. n + 1, NEW b \in 1 .. n + 1, a < b
             PROVE  v[r[a]] <= v[r[b]]
  <2>1. DOMAIN r = 1 .. n + 1
    BY <1>1, SeqFacts
  <2> QED
    BY <2>1 DEF Sorted, r
<1>2. \A i, j \in 1 .. n : i <= j => v[list[i]] <= v[list[j]]
  BY <1>0 DEF Sorted
<1>3. CASE b < m
  BY <1>0, <1>1, <1>2, <1>3
<1>4. CASE b = m
  BY <1>0, <1>1, <1>4
<1>5. CASE b > m /\ a < m
  BY <1>0, <1>1, <1>2, <1>5, SMTT(30)
<1>6. CASE b > m /\ a = m
  <2>1. m \in 1 .. n /\ b - 1 \in 1 .. n /\ m <= b - 1 /\ r[b] = list[b - 1] /\ r[a] = t
    BY <1>0, <1>1, <1>6
  <2>2. v[list[m]] > v[t] /\ v[list[m]] <= v[list[b - 1]]
    BY <1>1, <1>2, <2>1
  <2> QED
    BY <1>0, <1>00, <2>1, <2>2
<1>7. CASE b > m /\ a > m
  <2>1. a - 1 \in 1 .. n /\ b - 1 \in 1 .. n /\ a - 1 <= b - 1 /\ r[b] = list[b - 1] /\ r[a] = list[a - 1]
    BY <1>0, <1>1, <1>7, SMTT(30)
  <2> QED
    BY <1>2, <2>1
<1> QED
  BY <1>0, <1>1, <1>3, <1>4, <1>5, <1>6, <1>7

(* The first of a sorted list has the least value. *)
LEMMA SortedHead ==
  ASSUME NEW S, NEW s \in Seq(S), s # <<>>, NEW v, Sorted(s, v), \A x \in S : v[x] \in Int
  PROVE  Head(s) \in ToSet(s) /\ \A x \in ToSet(s) : v[Head(s)] <= v[x]
<1>1. Len(s) \in Nat /\ Len(s) # 0 /\ DOMAIN s = 1 .. Len(s) /\ \A i \in 1 .. Len(s) : s[i] \in S
  BY SeqFacts
<1>2. 1 \in 1 .. Len(s) /\ Head(s) = s[1]
  BY <1>1
<1>3. \A i \in 1 .. Len(s) : v[s[1]] <= v[s[i]]
  <2> TAKE i \in 1 .. Len(s)
  <2>1. i = 1 \/ 1 < i
    BY <1>1
  <2> QED
    BY <1>1, <1>2, <2>1 DEF Sorted
<1> QED
  BY <1>2, <1>3, SeqFacts

-----------------------------------------------------------------------------
(* Time. Passes is what any step does to the waits of tasks that do not act*)
(* in it.                                                                  *)

(* The tasks that sleep for a time, and when that is over, counted as Now  *)
(* is.                                                                     *)
Sleepers(s) == ToSet(s.delayed) \cup ToSet(s.overflow)
WakesAt(s, t) ==
  IF t \in ToSet(s.delayed) THEN s.over * TickMod + s.wake[t]
  ELSE s.over * TickMod + TickMod + s.wake[t]

(* The delayed lists are in order, nothing in them is due already, and     *)
(* xNextTaskUnblockTime is not beyond the first of the current one.        *)
Clock(s) ==
  /\ s.tick < TickMod
  /\ Sorted(s.delayed, s.wake) /\ Sorted(s.overflow, s.wake)
  /\ \A t \in ToSet(s.delayed) : s.tick < s.wake[t] /\ s.wake[t] < TickMod /\ s.next <= s.wake[t]
  /\ \A t \in ToSet(s.overflow) : 0 <= s.wake[t] /\ s.wake[t] < TickMod

(* So while a tick is counted: some may be due. *)
Near(s) ==
  /\ s.tick < TickMod
  /\ Sorted(s.delayed, s.wake) /\ Sorted(s.overflow, s.wake)
  /\ \A t \in ToSet(s.delayed) : s.tick <= s.wake[t] /\ s.wake[t] < TickMod /\ s.next <= s.wake[t]
  /\ \A t \in ToSet(s.overflow) : 0 <= s.wake[t] /\ s.wake[t] < TickMod

(* Why a task may be woken before its time. *)
Excused(s, r, t) ==
  Waits(s, t) \/ t \in ToSet(s.pending) \/ (Waiting(s, t) /\ r.note[t].n >= 1)

(* What a step does to the waits of the tasks in T: time goes on, none is  *)
(* put to sleep or has its time changed, and none is woken without an      *)
(* excuse before its time.                                                 *)
Passes(s, r, T) ==
  /\ Now(s) <= Now(r)
  /\ \A t \in T :
       /\ s.note[t].n <= r.note[t].n
       /\ t \in Sleepers(r) => t \in Sleepers(s) /\ WakesAt(r, t) = WakesAt(s, t)
       /\ t \in r.suspended => t \in s.suspended
       /\ t \in Blocked(s) /\ t \notin Blocked(r) =>
            Excused(s, r, t) \/ (t \in Sleepers(s) /\ WakesAt(s, t) <= Now(r))
       /\ t \in ToSet(r.pending) => Excused(s, r, t)

SameClock(s, r) ==
  /\ r.delayed = s.delayed /\ r.overflow = s.overflow /\ r.suspended = s.suspended
  /\ r.wake = s.wake /\ r.next = s.next /\ r.tick = s.tick /\ r.over = s.over

(* Time is a number; a turn of the count adds TickMod to it. *)
LEMMA NowFacts ==
  ASSUME NEW s \in KType
  PROVE  /\ Now(s) \in Int /\ TickMod \in Nat /\ TickMod > 2
         /\ s.over * TickMod \in Int /\ (s.over + 1) * TickMod = s.over * TickMod + TickMod
         /\ \A t \in Task : WakesAt(s, t) \in Int /\ s.note[t].n \in Nat
<1>1. TickMod \in Nat /\ TickMod > 2 /\ s.over \in Nat /\ s.tick \in Nat
  BY KernelAssumption DEF KType
<1>2. s.over * TickMod \in Int /\ (s.over + 1) * TickMod = s.over * TickMod + TickMod
  BY <1>1
<1>3. \A t \in Task : s.wake[t] \in Int /\ s.note[t].n \in Nat
  BY DEF KType
<1> DEFINE m == s.over * TickMod
<1> HIDE DEF m
<1>4. m \in Int
  BY <1>2 DEF m
<1>5. \A t \in Task : WakesAt(s, t) \in Int
  BY <1>1, <1>3, <1>4 DEF WakesAt, m
<1>6. Now(s) \in Int
  BY <1>1, <1>4 DEF Now, m
<1> QED
  BY <1>1, <1>2, <1>3, <1>5, <1>6

(* What leaves the delayed lists and the count alone takes no time. *)
LEMMA SameClockFacts ==
  ASSUME NEW s \in KType, NEW r \in KType, SameClock(s, r), NEW T \in SUBSET Task,
         \A t \in T : s.note[t].n <= r.note[t].n,
         \A t \in T : t \in ToSet(r.pending) => Excused(s, r, t)
  PROVE  /\ Clock(s) => Clock(r)
         /\ Passes(s, r, T)
         /\ Blocked(r) = Blocked(s) /\ Sleepers(r) = Sleepers(s) /\ Now(r) = Now(s)
         /\ \A t : WakesAt(r, t) = WakesAt(s, t)
<1>1. /\ Blocked(r) = Blocked(s) /\ Sleepers(r) = Sleepers(s) /\ Now(r) = Now(s)
      /\ \A t : WakesAt(r, t) = WakesAt(s, t)
  BY DEF SameClock, Blocked, Sleepers, Now, WakesAt
<1>2. Clock(s) => Clock(r)
  BY DEF SameClock, Clock
<1>3. Passes(s, r, T)
  BY <1>1, NowFacts DEF Passes, SameClock
<1> QED
  BY <1>1, <1>2, <1>3

(* A change of nothing that counts time. *)
LEMMA Quiet ==
  ASSUME NEW s \in KType, NEW r \in KType, SameClock(s, r), NEW T \in SUBSET Task,
         r.note = s.note, r.pending = s.pending
  PROVE  (Clock(s) => Clock(r)) /\ Passes(s, r, T)
<1>1. \A t \in T : s.note[t].n <= r.note[t].n
  BY NowFacts
<1>2. \A t \in T : t \in ToSet(r.pending) => Excused(s, r, t)
  BY DEF Excused
<1> QED
  BY <1>1, <1>2, SameClockFacts

(* Two steps one after the other. *)
LEMMA PassesThen ==
  ASSUME NEW s \in KType, NEW r \in KType, NEW u \in KType, NEW T \in SUBSET Task,
         Passes(s, r, T), Passes(r, u, T),
         \A t \in T : (Waits(r, t) => Waits(s, t)) /\ (Waiting(r, t) => Waiting(s, t))
  PROVE  Passes(s, u, T)
<1>1. Now(s) <= Now(u)
  BY NowFacts DEF Passes
<1>2. Now(r) <= Now(u) /\ Now(r) \in Int /\ Now(u) \in Int
  BY NowFacts DEF Passes
<1> SUFFICES ASSUME NEW t \in T
             PROVE  /\ s.note[t].n <= u.note[t].n
                    /\ t \in Sleepers(u) => t \in Sleepers(s) /\ WakesAt(u, t) = WakesAt(s, t)
                    /\ t \in u.suspended => t \in s.suspended
                    /\ t \in Blocked(s) /\ t \notin Blocked(u) =>
                         Excused(s, u, t) \/ (t \in Sleepers(s) /\ WakesAt(s, t) <= Now(u))
                    /\ t \in ToSet(u.pending) => Excused(s, u, t)
  BY <1>1 DEF Passes
<1>3. /\ s.note[t].n \in Nat /\ r.note[t].n \in Nat /\ u.note[t].n \in Nat
      /\ WakesAt(s, t) \in Int /\ WakesAt(r, t) \in Int
  BY NowFacts
<1>4. /\ s.note[t].n <= r.note[t].n /\ r.note[t].n <= u.note[t].n
      /\ t \in Sleepers(r) => t \in Sleepers(s) /\ WakesAt(r, t) = WakesAt(s, t)
      /\ t \in ToSet(r.pending) => Excused(s, r, t)
      /\ t \in Blocked(s) /\ t \notin Blocked(r) =>
           Excused(s, r, t) \/ (t \in Sleepers(s) /\ WakesAt(s, t) <= Now(r))
      /\ Waits(r, t) => Waits(s, t)
      /\ Waiting(r, t) => Waiting(s, t)
  BY DEF Passes
<1>5. /\ t \in Blocked(r) /\ t \notin Blocked(u) =>
           Excused(r, u, t) \/ (t \in Sleepers(r) /\ WakesAt(r, t) <= Now(u))
      /\ t \in ToSet(u.pending) => Excused(r, u, t)
      /\ t \in Sleepers(u) => t \in Sleepers(r) /\ WakesAt(u, t) = WakesAt(r, t)
      /\ t \in u.suspended => t \in r.suspended
      /\ t \in r.suspended => t \in s.suspended
  BY DEF Passes
<1>6. Excused(s, r, t) => Excused(s, u, t)
  BY <1>3, <1>4 DEF Excused
<1>7. Excused(r, u, t) => Excused(s, u, t)
  BY <1>4, <1>6 DEF Excused
<1>8. WakesAt(s, t) <= Now(r) => WakesAt(s, t) <= Now(u)
  BY <1>2, <1>3
<1> QED
  BY <1>3, <1>4, <1>5, <1>6, <1>7, <1>8

(* A task is made ready; if it was asleep for a time, then after its time  *)
(* or with an excuse.                                                      *)
LEMMA DetachWake ==
  ASSUME NEW s \in KType, NEW t \in Task
  PROVE  LET r == Detach(s, t) IN
         /\ r.delayed = Without(s.delayed, t) /\ r.overflow = Without(s.overflow, t)
         /\ \A u \in Task \ {t} : r.wake[u] = s.wake[u]
<1> DEFINE D == Without(s.delayed, t)
           O == Without(s.overflow, t)
           S == s.suspended \ {t}
           R == [s.rl EXCEPT ![s.prio[t]] = IF IsReady(s, t) THEN uxListRemove(@, t) ELSE @]
           W == [s.wake EXCEPT ![t] = 0]
<1>1. Detach(s, t) = [s EXCEPT !.delayed = D, !.overflow = O, !.suspended = S, !.wake = W, !.rl = R]
  BY DEF Detach, KType
<1>2. \A u \in Task \ {t} : W[u] = s.wake[u]
  BY DEF KType
<1> HIDE DEF D, O, S, R, W
<1>3. LET r == Detach(s, t) IN r.delayed = D /\ r.overflow = O /\ r.wake = W
  BY <1>1 DEF KType
<1> QED
  BY <1>2, <1>3 DEF D, O

(* listREMOVE_ITEM and prvAddTaskToReadyList keep the clock, and wake      *)
(* nobody else.                                                            *)
LEMMA MakeReadyClock ==
  ASSUME NEW s, LInv(s), NEW t \in Task, t \notin s.term, t \notin s.gone
  PROVE  LET r == MakeReady(s, t) IN
         /\ r \in KType /\ SameRest(s, r) /\ r.next = s.next
         /\ (Clock(s) => Clock(r)) /\ (Near(s) => Near(r))
         /\ ToSet(r.delayed) = ToSet(s.delayed) \ {t}
         /\ ToSet(r.overflow) = ToSet(s.overflow) \ {t}
         /\ r.suspended = s.suspended \ {t}
         /\ Blocked(r) = Blocked(s) \ {t}
         /\ \A u \in Task \ {t} : r.wake[u] = s.wake[u]
<1> DEFINE d == Detach(s, t)
           r == MakeReady(s, t)
<1>0. s \in KType /\ RInv(s) /\ s.delayed \in Seq(Task) /\ s.overflow \in Seq(Task)
      /\ Distinct(s.delayed) /\ Distinct(s.overflow)
  BY DEF LInv, RInv, InOne, KType
<1>1. /\ d \in KType /\ SameRest(s, d) /\ d.next = s.next /\ OwnList(d) /\ TopBut(d, d.prio[t])
      /\ ToSet(d.delayed) = ToSet(s.delayed) \ {t}
      /\ ToSet(d.overflow) = ToSet(s.overflow) \ {t}
      /\ d.suspended = s.suspended \ {t}
      /\ ~IsReady(d, t)
  BY <1>0, DetachFacts
<1>2. /\ d.delayed = Without(s.delayed, t) /\ d.overflow = Without(s.overflow, t)
      /\ \A u \in Task \ {t} : d.wake[u] = s.wake[u]
  BY <1>0, DetachWake
<1>3. r = prvAddTaskToReadyList(d, t)
  BY DEF MakeReady
<1>4. /\ r \in KType /\ SameRest(s, r) /\ Blocked(r) = Blocked(s) \ {t}
  BY <1>0, MakeReadyFacts
<1> HIDE DEF d
<1>5. r = [d EXCEPT !.rl = r.rl, !.top = r.top]
  BY <1>1, <1>3, AddReady
<1> HIDE DEF r
<1>6. /\ r.delayed = d.delayed /\ r.overflow = d.overflow /\ r.suspended = d.suspended
      /\ r.wake = d.wake /\ r.next = d.next
  BY <1>1, <1>5 DEF KType
<1>7. ASSUME Clock(s) \/ Near(s) PROVE (Clock(s) => Clock(r)) /\ (Near(s) => Near(r))
  <2>1. /\ \A u \in ToSet(s.delayed) \ {t} : r.wake[u] = s.wake[u]
        /\ \A u \in ToSet(s.overflow) \ {t} : r.wake[u] = s.wake[u]
    BY <1>0, <1>2, <1>6, SeqFacts
  <2>2. Sorted(r.delayed, r.wake) /\ Sorted(r.overflow, r.wake)
    BY <1>0, <1>2, <1>6, <1>7, <2>1, SortedWithout DEF Clock, Near
  <2>3. r.tick = s.tick /\ r.next = s.next
    BY <1>1, <1>4, <1>6 DEF SameRest
  <2>4. \A u \in ToSet(r.delayed) : u \in ToSet(s.delayed) /\ r.wake[u] = s.wake[u]
    BY <1>1, <1>6, <2>1
  <2>5. \A u \in ToSet(r.overflow) : u \in ToSet(s.overflow) /\ r.wake[u] = s.wake[u]
    BY <1>1, <1>6, <2>1
  <2> QED
    BY <1>7, <2>2, <2>3, <2>4, <2>5 DEF Clock, Near
<1> QED
  BY <1>1, <1>2, <1>4, <1>6, <1>7 DEF r

LEMMA MakeReadyPasses ==
  ASSUME NEW s, LInv(s), NEW t \in Task, t \notin s.term, t \notin s.gone, NEW T \in SUBSET Task,
         \/ t \notin T \/ t \notin Blocked(s)
         \/ Waits(s, t) \/ t \in ToSet(s.pending) \/ (Waiting(s, t) /\ s.note[t].n >= 1)
         \/ t \in Sleepers(s) /\ WakesAt(s, t) <= Now(s)
  PROVE  Passes(s, MakeReady(s, t), T)
<1> DEFINE r == MakeReady(s, t)
<1>1. /\ s \in KType /\ r \in KType /\ SameRest(s, r)
      /\ ToSet(r.delayed) = ToSet(s.delayed) \ {t}
      /\ ToSet(r.overflow) = ToSet(s.overflow) \ {t}
      /\ r.suspended = s.suspended \ {t}
      /\ Blocked(r) = Blocked(s) \ {t}
      /\ \A u \in Task \ {t} : r.wake[u] = s.wake[u]
  BY MakeReadyClock DEF LInv
<1> HIDE DEF r
<1>2. Now(r) = Now(s) /\ Now(s) \in Int /\ r.note = s.note /\ r.pending = s.pending
  BY <1>1, NowFacts DEF SameRest, Now
<1>3. ASSUME NEW u \in T, u \in Sleepers(r) PROVE u \in Sleepers(s) /\ WakesAt(r, u) = WakesAt(s, u)
  <2>1. u # t /\ u \in Task /\ (u \in ToSet(r.delayed) <=> u \in ToSet(s.delayed))
        /\ (u \in ToSet(r.overflow) <=> u \in ToSet(s.overflow)) /\ r.wake[u] = s.wake[u]
    BY <1>1, <1>3 DEF Sleepers
  <2>2. r.over = s.over
    BY <1>1 DEF SameRest
  <2> QED
    BY <1>3, <2>1, <2>2 DEF Sleepers, WakesAt
<1>4. \A u \in T : s.note[u].n <= r.note[u].n
  BY <1>1, <1>2, NowFacts
<1>5. ASSUME NEW u \in T, u \in Blocked(s), u \notin Blocked(r)
      PROVE  Excused(s, r, u) \/ (u \in Sleepers(s) /\ WakesAt(s, u) <= Now(r))
  BY <1>1, <1>2, <1>5 DEF Excused
<1>6. \A u \in T : u \in ToSet(r.pending) => Excused(s, r, u)
  BY <1>2 DEF Excused
<1> QED
  BY <1>1, <1>2, <1>3, <1>4, <1>5, <1>6 DEF Passes, r

(* One task is woken for a reason; no time passes for the others. *)
LEMMA PassesOne ==
  ASSUME NEW s \in KType, NEW u \in KType, NEW T \in SUBSET Task, NEW t \in Task,
         Passes(s, u, T \ {t}), Excused(s, u, t), s.note[t].n <= u.note[t].n,
         t \in Sleepers(u) => t \in Sleepers(s) /\ WakesAt(u, t) = WakesAt(s, t),
         t \in u.suspended => t \in s.suspended
  PROVE  Passes(s, u, T)
BY DEF Passes

(* Fields that count no time. *)
LEMMA YpendTime ==
  ASSUME NEW s \in KType, NEW b \in BOOLEAN, NEW T \in SUBSET Task
  PROVE  LET r == [s EXCEPT !.ypend = b] IN
         r \in KType /\ (Clock(s) => Clock(r)) /\ Passes(s, r, T)
<1> DEFINE r == [s EXCEPT !.ypend = b]
<1>1. r \in KType /\ SameClock(s, r) /\ r.note = s.note /\ r.pending = s.pending
  BY DEF KType, SameClock
<1> HIDE DEF r
<1> QED
  BY <1>1, Quiet DEF r

LEMMA EventsTime ==
  ASSUME NEW s \in KType, NEW E \in [EventLists -> Seq(Task)], NEW T \in SUBSET Task
  PROVE  LET r == [s EXCEPT !.ev = E] IN
         /\ r \in KType /\ SameClock(s, r) /\ r.note = s.note /\ r.pending = s.pending
         /\ Clock(s) => Clock(r)
         /\ Passes(s, r, T)
<1> DEFINE r == [s EXCEPT !.ev = E]
<1>1. r \in KType /\ SameClock(s, r) /\ r.note = s.note /\ r.pending = s.pending
  BY DEF KType, SameClock
<1> HIDE DEF r
<1> QED
  BY <1>1, Quiet DEF r

(* The first of an event list leaves it. *)
LEMMA RemoveEventTime ==
  ASSUME NEW s, LInv(s), NEW e \in EventLists, s.ev[e] # <<>>, NEW T \in SUBSET Task
  PROVE  LET r == xTaskRemoveFromEventList(s, e).s IN
         (Clock(s) => Clock(r)) /\ Passes(s, r, T)
<1> DEFINE t == Head(s.ev[e])
           E == [s.ev EXCEPT ![e] = Tail(@)]
           r == [s EXCEPT !.ev = E]
           p == [r EXCEPT !.pending = Append(@, t)]
           m == MakeReady(r, t)
           u == IF s.susp THEN p ELSE m
           b == u.ypend \/ s.prio[t] > s.prio[s.cur]
           z == xTaskRemoveFromEventList(s, e).s
<1>0. s \in KType /\ s.ev[e] \in Seq(Task) /\ Distinct(s.ev[e])
  BY DEF LInv, KType, Events
<1>1. /\ t \in ToSet(s.ev[e]) /\ t \in Task /\ Waits(s, t)
      /\ Tail(s.ev[e]) \in Seq(Task) /\ ToSet(Tail(s.ev[e])) \subseteq ToSet(s.ev[e])
      /\ Distinct(Tail(s.ev[e]))
  BY <1>0, TailFacts DEF Waits
<1>2. t \in Blocked(s) /\ t \notin s.term /\ t \notin s.gone
  BY <1>1, WaitsFacts, BlockedFacts
<1> HIDE DEF t
<1>3. z = [u EXCEPT !.ypend = b]
  BY DEF xTaskRemoveFromEventList, t, KType
<1>4. /\ E \in [EventLists -> Seq(Task)]
      /\ \A f \in EventLists : Distinct(E[f]) /\ ToSet(E[f]) \subseteq ToSet(s.ev[f])
  BY <1>0, <1>1 DEF LInv, KType, Events
<1> HIDE DEF E, z
<1>5. /\ LInv(r) /\ Calm(s, r) /\ r \in KType
      /\ SameClock(s, r) /\ r.note = s.note /\ r.pending = s.pending
      /\ Clock(s) => Clock(r)
      /\ Passes(s, r, T) /\ Passes(s, r, T \ {t})
  BY <1>0, <1>4, FewerWait, EventsTime DEF LInv
<1>6. t \notin r.term /\ t \notin r.gone
  BY <1>2, <1>5 DEF Calm
<1> HIDE DEF r
<1>7. u \in KType /\ (Clock(r) => Clock(u)) /\ Passes(s, u, T)
  <2>1. CASE s.susp
    <3>1. /\ p \in KType /\ SameClock(r, p) /\ p.note = r.note /\ ToSet(p.pending) = ToSet(r.pending) \cup {t}
      <4>1. Append(r.pending, t) \in Seq(Task) /\ ToSet(Append(r.pending, t)) = ToSet(r.pending) \cup {t}
        <5>1. r.pending \in Seq(Task)
          BY <1>5 DEF KType
        <5> QED
          BY <1>1, <5>1, AppendFacts
      <4> DEFINE P == Append(r.pending, t)
      <4> HIDE DEF P
      <4>2. p = [r EXCEPT !.pending = P]
        BY <1>5 DEF P, KType
      <4> QED
        BY <1>5, <4>1, <4>2 DEF KType, SameClock, P
    <3> HIDE DEF p
    <3>2. SameClock(s, p)
      BY <1>5, <3>1 DEF SameClock
    <3>3. \A x \in T : s.note[x].n <= p.note[x].n
      <4>1. \A x \in Task : s.note[x].n \in Nat
        BY <1>0, NowFacts
      <4>2. p.note = s.note
        BY <1>5, <3>1
      <4> QED
        BY <4>1, <4>2
    <3>4. \A x \in T : x \in ToSet(p.pending) => Excused(s, p, x)
      BY <1>1, <1>5, <3>1 DEF Excused
    <3>5. Passes(s, p, T)
      BY <1>0, <3>1, <3>2, <3>3, <3>4, SameClockFacts
    <3>6. Clock(r) => Clock(p)
      BY <3>1 DEF SameClock, Clock
    <3> QED
      BY <2>1, <3>1, <3>5, <3>6
  <2>2. CASE ~s.susp
    <3>1. /\ m \in KType /\ SameRest(r, m) /\ Blocked(m) = Blocked(r) \ {t}
          /\ Clock(r) => Clock(m)
      BY <1>1, <1>5, <1>6, MakeReadyClock
    <3>2. Passes(r, m, T \ {t})
      BY <1>1, <1>5, <1>6, MakeReadyPasses
    <3> HIDE DEF m
    <3>3. \A x \in T \ {t} : (Waits(r, x) => Waits(s, x)) /\ (Waiting(r, x) => Waiting(s, x))
      BY <1>5 DEF Calm
    <3>4. Passes(s, m, T \ {t})
      BY <1>0, <1>5, <3>1, <3>2, <3>3, PassesThen
    <3>5. t \notin Sleepers(m) /\ t \notin m.suspended
      BY <3>1 DEF Blocked, Sleepers
    <3>6. m.note = s.note /\ s.note[t].n \in Nat
      BY <1>0, <1>1, <1>5, <3>1, NowFacts DEF SameRest
    <3>7. Excused(s, m, t)
      BY <1>1 DEF Excused
    <3>8. Passes(s, m, T)
      BY <1>0, <1>1, <3>1, <3>4, <3>5, <3>6, <3>7, PassesOne
    <3> QED
      BY <2>2, <3>1, <3>8
  <2> QED
    BY <2>1, <2>2
<1>8. Waits(u, t) \in BOOLEAN /\ b \in BOOLEAN
  BY DEF Waits
<1>9. \A x \in T : (Waits(u, x) => Waits(s, x)) /\ (Waiting(u, x) => Waiting(s, x))
  <2>1. u.ev = r.ev /\ u.note = r.note
    <3>1. CASE s.susp
      BY <1>5, <3>1 DEF KType
    <3>2. CASE ~s.susp
      BY <1>1, <1>5, <1>6, <3>2, MakeReadyClock DEF SameRest
    <3> QED
      BY <3>1, <3>2
  <2> QED
    BY <1>5, <2>1 DEF Calm, Waits, Waiting
<1> HIDE DEF u, b
<1>10. z \in KType /\ (Clock(u) => Clock(z)) /\ Passes(u, z, T)
  BY <1>3, <1>7, <1>8, YpendTime
<1>11. Passes(s, z, T)
  BY <1>0, <1>7, <1>9, <1>10, PassesThen
<1> QED
  BY <1>5, <1>7, <1>10, <1>11 DEF z

(* A notification. *)
LEMMA NotifyTime ==
  ASSUME NEW s, LInv(s), NEW t \in Task, NEW T \in SUBSET Task,
         Waiting(s, t) => t \notin s.term /\ t \notin s.gone
  PROVE  LET r == Notify(s, t).s IN (Clock(s) => Clock(r)) /\ Passes(s, r, T)
<1> DEFINE N == [s.note EXCEPT ![t] = [n |-> @.n + 1, state |-> "received"]]
           r == [s EXCEPT !.note = N]
           p == [r EXCEPT !.pending = Append(@, t)]
           m == MakeReady(r, t)
           z == Notify(s, t).s
<1>0. s \in KType
  BY DEF LInv
<1>1. /\ N \in [Task -> [n : Nat, state : States]]
      /\ N[t].n >= 1 /\ \A x \in Task : s.note[x].n <= N[x].n
  <2>1. s.note \in [Task -> [n : Nat, state : States]]
    BY <1>0 DEF KType
  <2> HIDE DEF r, p, m, z
  <2> QED
    BY <2>1 DEF States
<1>2. z = IF ~Waiting(s, t) THEN r ELSE IF s.susp THEN p ELSE m
  BY DEF Notify, Waiting
<1> HIDE DEF z, N
<1>3. /\ r \in KType /\ SameClock(s, r) /\ SameLists(s, r) /\ r.pending = s.pending /\ r.note = N
      /\ r.term = s.term /\ r.gone = s.gone
  BY <1>0, <1>1 DEF KType, SameClock, SameLists
<1> HIDE DEF r
<1>4. LInv(r)
  BY <1>3, SameListsInv
<1>5. \A x \in Task : s.note[x].n <= r.note[x].n
  BY <1>1, <1>3
<1>6. \A x \in Task : x \in ToSet(r.pending) => Excused(s, r, x)
  BY <1>3 DEF Excused
<1>7. Passes(s, r, T) /\ Passes(s, r, T \ {t}) /\ (Clock(s) => Clock(r))
  BY <1>0, <1>3, <1>5, <1>6, SameClockFacts
<1>8. CASE ~Waiting(s, t)
  BY <1>2, <1>7, <1>8 DEF z
<1>9. CASE Waiting(s, t) /\ s.susp
  <2>1. /\ p \in KType /\ SameClock(r, p) /\ p.note = r.note /\ ToSet(p.pending) = ToSet(r.pending) \cup {t}
    <3>1. Append(r.pending, t) \in Seq(Task) /\ ToSet(Append(r.pending, t)) = ToSet(r.pending) \cup {t}
      BY <1>3, AppendFacts DEF KType
    <3> DEFINE P == Append(r.pending, t)
    <3> HIDE DEF P
    <3>2. p = [r EXCEPT !.pending = P]
      BY <1>3 DEF P, KType
    <3> QED
      BY <1>3, <3>1, <3>2 DEF KType, SameClock, P
  <2> HIDE DEF p
  <2>2. SameClock(s, p)
    BY <1>3, <2>1 DEF SameClock
  <2>3. \A x \in T : s.note[x].n <= p.note[x].n
    BY <1>5, <2>1
  <2>4. \A x \in T : x \in ToSet(p.pending) => Excused(s, p, x)
    BY <1>1, <1>3, <1>9, <2>1 DEF Excused
  <2> QED
    BY <1>0, <1>2, <1>9, <2>1, <2>2, <2>3, <2>4, SameClockFacts DEF z
<1>10. CASE Waiting(s, t) /\ ~s.susp
  <2>1. t \notin r.term /\ t \notin r.gone
    BY <1>3, <1>10
  <2>2. /\ m \in KType /\ SameRest(r, m) /\ Blocked(m) = Blocked(r) \ {t}
        /\ Clock(r) => Clock(m)
    BY <1>4, <2>1, MakeReadyClock
  <2>3. Passes(r, m, T \ {t})
    BY <1>4, <2>1, MakeReadyPasses
  <2> HIDE DEF m
  <2>4. \A x \in T \ {t} : (Waits(r, x) => Waits(s, x)) /\ (Waiting(r, x) => Waiting(s, x))
    <3>1. \A x \in Task \ {t} : N[x] = s.note[x]
      BY <1>0 DEF N, KType
    <3> QED
      BY <1>3, <3>1 DEF SameLists, Waits, Waiting
  <2>5. Passes(s, m, T \ {t})
    BY <1>0, <1>3, <1>7, <2>2, <2>3, <2>4, PassesThen
  <2>6. t \notin Sleepers(m) /\ t \notin m.suspended
    BY <2>2 DEF Blocked, Sleepers
  <2>7. m.note = r.note
    BY <2>2 DEF SameRest
  <2>8. Excused(s, m, t)
    BY <1>1, <1>3, <1>10, <2>7 DEF Excused
  <2>9. Passes(s, m, T)
    BY <1>0, <1>5, <2>2, <2>5, <2>6, <2>7, <2>8, PassesOne
  <2> QED
    BY <1>2, <1>7, <1>10, <2>2, <2>9 DEF z
<1> QED
  BY <1>8, <1>9, <1>10

-----------------------------------------------------------------------------
(* The tick: the count wraps, and the delayed lists change places. *)

(* The count modulo TickMod, one on, later by less than a round, or since  *)
(* a time less than a round ago.                                           *)
LEMMA ModNext ==
  ASSUME NEW n \in Nat, NEW m \in Nat, m > 2, n < m
  PROVE  \/ (n + 1) % m = n + 1 /\ (n + 1) % m # 0 /\ (n + 1) % m < m
         \/ (n + 1) % m = 0 /\ n + 1 = m
<1>1. n + 1 < m => (n + 1) % m = n + 1
  OBVIOUS
<1>2. m % m = 0
  OBVIOUS
<1>3. n + 1 < m \/ n + 1 = m
  OBVIOUS
<1> QED
  BY <1>1, <1>2, <1>3

LEMMA ModSum ==
  ASSUME NEW n \in Nat, NEW m \in Nat, m > 2, n < 2 * m
  PROVE  n % m = IF n < m THEN n ELSE n - m
<1>1. n < m => n % m = n
  OBVIOUS
<1>2. n >= m => n % m = n - m
  OBVIOUS
<1> QED
  BY <1>1, <1>2

LEMMA ModDifference ==
  ASSUME NEW n \in Int, NEW m \in Nat, m > 2, -m <= n, n < m
  PROVE  n % m = IF n < 0 THEN n + m ELSE n
<1>1. n < 0 => n % m = n + m
  OBVIOUS
<1>2. n >= 0 => n % m = n
  OBVIOUS
<1> QED
  BY <1>1, <1>2

(* xNextTaskUnblockTime is the time of the first that sleeps. *)
LEMMA ResetNextTime ==
  ASSUME NEW s \in KType, NEW T \in SUBSET Task
  PROVE  LET r == prvResetNextTaskUnblockTime(s) IN
         /\ r \in KType /\ r.tick = s.tick /\ r.over = s.over
         /\ (Clock(s) => Clock(r)) /\ Passes(s, r, T)
<1> DEFINE n == IF s.delayed = <<>> THEN MAX_DELAY ELSE s.wake[Head(s.delayed)]
           r == prvResetNextTaskUnblockTime(s)
<1>0. s.delayed \in Seq(Task) /\ s.wake \in [Task -> Int] /\ MAX_DELAY \in Int
  BY KernelAssumption DEF KType, MAX_DELAY
<1>1. n \in Int
  <2>1. s.delayed # <<>> => Head(s.delayed) \in Task
    BY <1>0
  <2> QED
    BY <1>0, <2>1
<1>2. r = [s EXCEPT !.next = n]
  BY DEF prvResetNextTaskUnblockTime
<1>3. \A t \in ToSet(s.delayed) : Sorted(s.delayed, s.wake) => n <= s.wake[t]
  <2> SUFFICES ASSUME NEW t \in ToSet(s.delayed), Sorted(s.delayed, s.wake) PROVE n <= s.wake[t]
    OBVIOUS
  <2>1. s.delayed # <<>>
    BY <1>0, SeqFacts
  <2>2. s.wake[Head(s.delayed)] <= s.wake[t]
    BY <1>0, <2>1, SortedHead
  <2> QED
    BY <2>1, <2>2
<1> HIDE DEF n, r
<1>4. /\ r \in KType /\ r.next = n /\ r.delayed = s.delayed /\ r.overflow = s.overflow
      /\ r.wake = s.wake /\ r.suspended = s.suspended
      /\ r.tick = s.tick /\ r.over = s.over /\ r.note = s.note /\ r.pending = s.pending
  BY <1>1, <1>2 DEF KType
<1>5. Clock(s) => Clock(r)
  BY <1>3, <1>4 DEF Clock
<1>6. Passes(s, r, T)
  <2>1. /\ Blocked(r) = Blocked(s) /\ Sleepers(r) = Sleepers(s) /\ Now(r) = Now(s)
        /\ \A t : WakesAt(r, t) = WakesAt(s, t)
    BY <1>4 DEF Blocked, Sleepers, Now, WakesAt
  <2>2. Now(s) \in Int /\ \A t \in T : s.note[t].n \in Nat
    BY NowFacts
  <2> QED
    BY <1>4, <2>1, <2>2 DEF Passes, Excused
<1> QED
  BY <1>4, <1>5, <1>6 DEF r

(* A task of the delayed list is woken by the tick. *)
LEMMA WakeupTime ==
  ASSUME NEW s, LInv(s), NEW t \in Task, t \notin s.term, t \notin s.gone, NEW T \in SUBSET Task,
         t \notin Blocked(s) \/ (t \in Sleepers(s) /\ WakesAt(s, t) <= Now(s))
  PROVE  LET r == Wakeup(s, t) IN
         /\ r \in KType /\ r.tick = s.tick /\ r.over = s.over /\ r.next = s.next
         /\ Near(s) => Near(r)
         /\ ToSet(r.delayed) = ToSet(s.delayed) \ {t}
         /\ Passes(s, r, T)
<1> DEFINE E == [e \in EventLists |-> Without(s.ev[e], t)]
           x == LeaveEvent(s, t)
           r == Wakeup(s, t)
<1>0. s \in KType
  BY DEF LInv
<1>1. LInv(x) /\ Calm(s, x) /\ x \in KType
  BY LeaveEventFacts DEF LInv
<1>2. /\ SameClock(s, x) /\ x.note = s.note /\ x.pending = s.pending
      /\ Passes(s, x, T)
  <2>1. x = [s EXCEPT !.ev = E]
    BY DEF LeaveEvent
  <2>2. E \in [EventLists -> Seq(Task)]
    <3>1. \A e \in EventLists : s.ev[e] \in Seq(Task) /\ Distinct(s.ev[e])
      BY <1>0 DEF LInv, KType, Events
    <3> QED
      BY <3>1, WithoutFacts
  <2> HIDE DEF x, E
  <2> QED
    BY <1>0, <2>1, <2>2, EventsTime
<1>3. r = MakeReady(x, t)
  BY WakeupOrder
<1> HIDE DEF x, r
<1>4. t \notin x.term /\ t \notin x.gone
  BY <1>1 DEF Calm
<1>5. /\ Blocked(x) = Blocked(s) /\ Sleepers(x) = Sleepers(s) /\ Now(x) = Now(s)
      /\ WakesAt(x, t) = WakesAt(s, t) /\ (Near(s) => Near(x))
  BY <1>2 DEF SameClock, Blocked, Sleepers, Now, WakesAt, Near
<1>6. /\ r \in KType /\ SameRest(x, r) /\ r.next = x.next
      /\ (Near(x) => Near(r))
      /\ ToSet(r.delayed) = ToSet(x.delayed) \ {t}
  BY <1>1, <1>3, <1>4, MakeReadyClock
<1>7. Passes(x, r, T)
  BY <1>1, <1>3, <1>4, <1>5, MakeReadyPasses
<1>8. Passes(s, r, T)
  BY <1>0, <1>1, <1>2, <1>6, <1>7, PassesThen DEF Calm
<1> QED
  BY <1>2, <1>5, <1>6, <1>8 DEF SameRest, SameClock, r

(* The count goes on by one, and where it wraps the lists are exchanged:   *)
(* what was to come in the next turn comes in this one, and nothing is left*)
(* of the last.                                                            *)
LEMMA TurnedTime ==
  ASSUME NEW s, LInv(s), Clock(s), NEW T \in SUBSET Task
  PROVE  LET b == Turned(s) IN
         /\ b \in KType /\ Near(b) /\ b.tick = (s.tick + 1) % TickMod
         /\ Now(b) = Now(s) + 1
         /\ Passes(s, b, T)
<1> DEFINE now == (s.tick + 1) % TickMod
           a == [s EXCEPT !.tick = now]
           x == [a EXCEPT !.delayed = a.overflow, !.overflow = a.delayed, !.over = @ + 1]
           b == Turned(s)
<1>0. s \in KType /\ s.tick \in Nat /\ s.over \in Nat /\ TickMod \in Nat /\ TickMod > 2 /\ s.tick < TickMod
      /\ s.delayed \in Seq(Task) /\ s.overflow \in Seq(Task) /\ s.wake \in [Task -> Int]
  BY NowFacts DEF LInv, KType, Clock
<1>1. \/ now = s.tick + 1 /\ now # 0 /\ now < TickMod
      \/ now = 0 /\ s.tick + 1 = TickMod
  BY <1>0, ModNext
<1>2. b = IF now # 0 THEN a ELSE prvResetNextTaskUnblockTime(x)
  BY DEF Turned
<1> HIDE DEF now, b
<1>3. now \in Nat
  BY <1>0, <1>1
<1>4. CASE now # 0
  <2>1. /\ a \in KType /\ a.delayed = s.delayed /\ a.overflow = s.overflow /\ a.suspended = s.suspended
        /\ a.wake = s.wake /\ a.next = s.next /\ a.tick = now /\ a.over = s.over
        /\ a.note = s.note /\ a.pending = s.pending
    BY <1>0, <1>3 DEF KType
  <2>2. b = a
    BY <1>2, <1>4
  <2> HIDE DEF a
  <2>3. Near(a)
    <3>1. \A t \in ToSet(s.delayed) : s.wake[t] \in Int
      BY <1>0, SeqFacts
    <3> QED
      BY <1>0, <1>1, <1>4, <2>1, <3>1 DEF Near, Clock
  <2>4. Now(a) = Now(s) + 1
    BY <1>0, <1>1, <1>4, <2>1, NowFacts, SMTT(30) DEF Now
  <2>5. /\ Blocked(a) = Blocked(s) /\ Sleepers(a) = Sleepers(s)
        /\ \A t : WakesAt(a, t) = WakesAt(s, t)
    BY <2>1 DEF Blocked, Sleepers, WakesAt
  <2>6. Now(s) \in Int /\ \A t \in T : s.note[t].n \in Nat
    BY <1>0, NowFacts
  <2>7. Passes(s, a, T)
    BY <2>1, <2>4, <2>5, <2>6 DEF Passes, Excused
  <2> QED
    BY <2>1, <2>2, <2>3, <2>4, <2>7 DEF now, b
<1>5. CASE now = 0
  <2>1. /\ x \in KType /\ x.delayed = s.overflow /\ x.overflow = s.delayed /\ x.suspended = s.suspended
        /\ x.wake = s.wake /\ x.tick = now /\ x.over = s.over + 1
        /\ x.note = s.note /\ x.pending = s.pending
    <3>1. a \in KType /\ a.overflow = s.overflow /\ a.delayed = s.delayed /\ a.over = s.over
      BY <1>0, <1>3 DEF KType
    <3> DEFINE D == s.overflow
               O == s.delayed
               n == s.over + 1
    <3>2. D \in Seq(Task) /\ O \in Seq(Task) /\ n \in Nat
      BY <1>0
    <3>3. x = [a EXCEPT !.delayed = D, !.overflow = O, !.over = n]
      BY <3>1
    <3> HIDE DEF D, O, n
    <3>4. x \in KType /\ x.delayed = D /\ x.overflow = O /\ x.over = n
      BY <3>1, <3>2, <3>3, ZenonT(60) DEF KType
    <3>5. /\ x.suspended = s.suspended /\ x.wake = s.wake /\ x.tick = now
          /\ x.note = s.note /\ x.pending = s.pending
      BY <1>0, <3>3 DEF KType
    <3> QED
      BY <3>4, <3>5 DEF D, O, n
  <2> HIDE DEF x
  <2>2. ToSet(s.delayed) = {}
    <3> SUFFICES ASSUME NEW t \in ToSet(s.delayed) PROVE FALSE
      OBVIOUS
    <3>1. s.wake[t] \in Int /\ s.tick < s.wake[t] /\ s.wake[t] < TickMod
      BY <1>0, SeqFacts DEF Clock
    <3> QED
      BY <1>0, <1>1, <1>5, <3>1
  <2>3. Now(x) = Now(s) + 1
    <3>1. (s.over + 1) * TickMod = s.over * TickMod + TickMod /\ s.over * TickMod \in Int
      BY <1>0, NowFacts
    <3> DEFINE m == s.over * TickMod
    <3> HIDE DEF m
    <3>2. Now(x) = m + TickMod /\ Now(s) = m + s.tick /\ m \in Int
      BY <1>5, <2>1, <3>1, <1>0 DEF Now, m
    <3>3. s.tick + 1 = TickMod
      BY <1>1, <1>5
    <3> DEFINE n == s.tick
    <3>4. n \in Int /\ TickMod = n + 1 /\ Now(s) = m + n /\ m \in Int
      BY <1>0, <3>2, <3>3
    <3> HIDE DEF n
    <3>5. m + TickMod = m + n + 1
      BY <3>4
    <3> QED
      BY <3>2, <3>4, <3>5
  <2>4. /\ Blocked(x) = Blocked(s) /\ Sleepers(x) = Sleepers(s)
    BY <2>1 DEF Blocked, Sleepers
  <2>5. \A t \in Sleepers(s) : WakesAt(x, t) = WakesAt(s, t)
    <3>1. (s.over + 1) * TickMod = s.over * TickMod + TickMod
      BY <1>0, NowFacts
    <3> QED
      BY <2>1, <2>2, <3>1 DEF Sleepers, WakesAt
  <2>6. Now(s) \in Int /\ \A t \in T : s.note[t].n \in Nat
    BY <1>0, NowFacts
  <2>7. Passes(s, x, T)
    BY <2>1, <2>3, <2>4, <2>5, <2>6 DEF Passes, Excused
  <2> DEFINE z == prvResetNextTaskUnblockTime(x)
  <2>8. z \in KType /\ z.tick = x.tick /\ z.over = x.over /\ Passes(x, z, T)
    BY <2>1, ResetNextTime
  <2>9. b = z
    BY <1>2, <1>5
  <2>10. /\ z.delayed = x.delayed /\ z.overflow = x.overflow /\ z.wake = x.wake /\ z.ev = x.ev
         /\ z.note = x.note
         /\ z.next = IF x.delayed = <<>> THEN MAX_DELAY ELSE x.wake[Head(x.delayed)]
    BY <2>1 DEF prvResetNextTaskUnblockTime, KType
  <2> HIDE DEF z
  <2>11. \A t \in ToSet(s.overflow) : s.wake[t] \in Int
    BY <1>0, SeqFacts
  <2>12. \A t \in ToSet(x.delayed) : z.next <= x.wake[t]
    <3> SUFFICES ASSUME NEW t \in ToSet(x.delayed) PROVE z.next <= x.wake[t]
      OBVIOUS
    <3>1. x.delayed # <<>> /\ x.delayed \in Seq(Task) /\ Sorted(x.delayed, x.wake)
      BY <1>0, <2>1, SeqFacts DEF Clock
    <3>2. x.wake[Head(x.delayed)] <= x.wake[t]
      BY <1>0, <2>1, <3>1, SortedHead
    <3> QED
      BY <2>10, <3>1, <3>2
  <2>13. Near(z)
    BY <1>0, <1>3, <1>5, <2>1, <2>2, <2>8, <2>10, <2>11, <2>12 DEF Near, Clock
  <2>14. Now(z) = Now(x)
    BY <2>8 DEF Now
  <2>15. Passes(s, z, T)
    <3>1. x.ev = s.ev
      BY <1>0 DEF x, KType
    <3> QED
      BY <1>0, <2>1, <2>7, <2>8, <3>1, PassesThen DEF Waits, Waiting
  <2> QED
    BY <2>1, <2>3, <2>8, <2>9, <2>13, <2>14, <2>15 DEF now, b
<1> QED
  BY <1>4, <1>5

(* Of numbers. *)
LEMMA Cancel == ASSUME NEW m \in Int, NEW a \in Int, NEW b \in Int, m + a = m + b PROVE a = b
OBVIOUS

(* Those of a sorted list that are not beyond a value are its beginning. *)
LEMMA DueFacts ==
  ASSUME NEW list \in Seq(Task), NEW wake \in [Task -> Int], Sorted(list, wake), NEW now \in Int
  PROVE  LET late == {i \in DOMAIN list : wake[list[i]] > now}
             due == IF late = {} THEN list ELSE SubSeq(list, 1, LeastOf(late) - 1)
         IN /\ due \in Seq(Task) /\ ToSet(due) \subseteq ToSet(list)
            /\ \A t \in ToSet(list) : t \notin ToSet(due) => wake[t] > now
            /\ \A t \in ToSet(due) : wake[t] <= now
<1> DEFINE late == {i \in DOMAIN list : wake[list[i]] > now}
           due == IF late = {} THEN list ELSE SubSeq(list, 1, LeastOf(late) - 1)
           n == Len(list)
<1>0. n \in Nat /\ DOMAIN list = 1 .. n /\ \A i \in 1 .. n : list[i] \in Task /\ wake[list[i]] \in Int
  BY SeqFacts
<1>1. CASE late = {}
  <2>1. due = list
    BY <1>1
  <2>2. \A i \in 1 .. n : wake[list[i]] <= now
    BY <1>0, <1>1
  <2>3. \A t \in ToSet(list) : wake[t] <= now
    BY <1>0, <2>2, SeqFacts
  <2> HIDE DEF late, due
  <2> QED
    BY <2>1, <2>3 DEF due, late
<1>2. CASE late # {}
  <2> DEFINE m == LeastOf(late)
  <2>1. late \in SUBSET Nat
    BY <1>0
  <2>2. m \in late /\ \A y \in late : m <= y
    BY <1>2, <2>1, Least
  <2>3. m \in 1 .. n /\ wake[list[m]] > now
    BY <1>0, <2>2
  <2>4. due = SubSeq(list, 1, m - 1)
    BY <1>2
  <2>5. \A i \in 1 .. n : i < m => wake[list[i]] <= now
    <3> SUFFICES ASSUME NEW i \in 1 .. n, i < m, ~(wake[list[i]] <= now) PROVE FALSE
      OBVIOUS
    <3>1. i \in late
      BY <1>0
    <3>2. m <= i
      BY <2>2, <3>1
    <3> HIDE DEF m, late
    <3> QED
      BY <1>0, <2>3, <3>2
  <2>6. \A i \in 1 .. n : m <= i => wake[list[i]] > now
    <3> SUFFICES ASSUME NEW i \in 1 .. n, m <= i PROVE wake[list[i]] > now
      OBVIOUS
    <3> HIDE DEF m, late
    <3>1. m = i \/ m < i
      BY <1>0, <2>3
    <3>2. wake[list[m]] <= wake[list[i]]
      BY <1>0, <2>3, <3>1, SMTT(30) DEF Sorted
    <3> QED
      BY <1>0, <2>3, <3>2
  <2> HIDE DEF due, late, m
  <2>7. due \in Seq(Task) /\ Len(due) = m - 1 /\ \A j \in 1 .. m - 1 : due[j] = list[j]
    BY <1>0, <2>3, <2>4
  <2>8. ASSUME NEW t \in ToSet(due) PROVE t \in ToSet(list) /\ wake[t] <= now
    <3>1. PICK j \in 1 .. Len(due) : due[j] = t
      BY <2>7, SeqFacts
    <3>2. j \in 1 .. n /\ j < m /\ list[j] = t
      BY <1>0, <2>3, <2>7, <3>1, SMTT(30)
    <3> QED
      BY <2>5, <3>2, SeqFacts
  <2>9. ASSUME NEW t \in ToSet(list), t \notin ToSet(due) PROVE wake[t] > now
    <3>1. PICK j \in 1 .. n : list[j] = t
      BY SeqFacts DEF n
    <3>2. CASE j < m
      <4>1. j \in 1 .. Len(due) /\ due[j] = t
        BY <1>0, <2>3, <2>7, <3>1, <3>2
      <4> QED
        BY <2>7, <2>9, <4>1, SeqFacts
    <3>3. CASE ~(j < m)
      <4>1. m <= j
        BY <1>0, <2>3, <3>3
      <4> QED
        BY <2>6, <3>1, <4>1
    <3> QED
      BY <3>2, <3>3
  <2> QED
    BY <2>7, <2>8, <2>9 DEF due, late
<1> QED
  BY <1>1, <1>2

(* A tick: the time goes on by one, and whoever it wakes is due. *)
LEMMA TickTime ==
  ASSUME NEW s, LInv(s), Clock(s)
  PROVE  LET r == xTaskIncrementTick(s).s IN
         r \in KType /\ Clock(r) /\ Now(r) = Now(s) + 1 /\ Passes(s, r, Task)
<1> DEFINE now == (s.tick + 1) % TickMod
           b == Turned(s)
           late == {i \in DOMAIN b.delayed : b.wake[b.delayed[i]] > now}
           early == IF late = {} THEN b.delayed ELSE SubSeq(b.delayed, 1, LeastOf(late) - 1)
           due == IF now < b.next THEN <<>> ELSE early
           c == WakeAll(b, due)
           d == IF now < b.next THEN c ELSE prvResetNextTaskUnblockTime(c)
<1>0. s \in KType
  BY DEF LInv
<1>1. xTaskIncrementTick(s).s = d
  BY Zenon DEF xTaskIncrementTick, Turned
<1>2. /\ LInv(b) /\ Calm(s, b) /\ b \in KType /\ Near(b) /\ b.tick = now
      /\ Now(b) = Now(s) + 1 /\ Passes(s, b, Task)
  BY TurnedFacts, TurnedTime
<1> HIDE DEF now, b
<1>3. now \in Nat /\ b.next \in Int /\ b.delayed \in Seq(Task) /\ b.wake \in [Task -> Int]
      /\ b.over \in Nat /\ InOne(b)
  BY <1>2 DEF KType, LInv, RInv
<1>4. \A t \in ToSet(b.delayed) : t \in Task /\ b.wake[t] \in Int
  BY <1>3, SeqFacts
<1>5. \A u \in Task : (Waits(b, u) => Waits(s, u)) /\ (Waiting(b, u) => Waiting(s, u))
  BY <1>2 DEF Calm
<1>6. /\ early \in Seq(Task) /\ ToSet(early) \subseteq ToSet(b.delayed)
      /\ \A t \in ToSet(b.delayed) : t \notin ToSet(early) => b.wake[t] > now
      /\ \A t \in ToSet(early) : b.wake[t] <= now
  <2>1. Sorted(b.delayed, b.wake) /\ now \in Int
    BY <1>2, <1>3 DEF Near
  <2> QED
    BY <1>3, <2>1, DueFacts
<1> HIDE DEF early, late
<1>7. CASE now < b.next
  <2>1. due = <<>> /\ <<>> \in Seq(Task) /\ ToSet(<<>>) = {} /\ Len(<<>>) = 0
    BY <1>7 DEF ToSet
  <2> DEFINE V == {b}
  <2>2. b \in V /\ \A v \in V, t \in ToSet(<<>>) : Wakeup(v, t) \in V
    BY <2>1
  <2>3. WakeAll(b, <<>>) \in V
    <3> HIDE DEF V
    <3> QED
      BY <2>1, <2>2, WakeAllFacts
  <2>4. d = b
    BY <1>7, <2>1, <2>3
  <2>5. Clock(b)
    BY <1>2, <1>3, <1>4, <1>7 DEF Near, Clock
  <2> QED
    BY <1>1, <1>2, <2>4, <2>5
<1>8. CASE ~(now < b.next)
  <2>1. due = early
    BY <1>8
  <2> DEFINE V == {r \in KType : /\ LInv(r) /\ Calm(b, r) /\ Near(r) /\ Passes(b, r, Task)
                                 /\ r.tick = b.tick /\ r.over = b.over
                                 /\ ToSet(r.delayed) \subseteq ToSet(b.delayed)}
             P == [i \in Nat |-> {r \in KType : \A j \in 1 .. i : due[j] \notin ToSet(r.delayed)}]
  <2>2. b \in V
    BY <1>0, <1>2, CalmSame, Quiet DEF SameClock
  <2>3. ASSUME NEW r \in V, NEW t \in ToSet(due)
        PROVE  Wakeup(r, t) \in V /\ ToSet(Wakeup(r, t).delayed) = ToSet(r.delayed) \ {t}
    <3> DEFINE w == Wakeup(r, t)
    <3>1. t \in Task /\ t \in ToSet(b.delayed) /\ b.wake[t] <= now /\ t \in Blocked(b) /\ t \in Sleepers(b)
      BY <1>4, <1>6, <2>1 DEF Blocked, Sleepers
    <3>2. t \notin b.term /\ t \notin b.gone /\ t \notin b.suspended
      BY <1>3, <3>1 DEF InOne, OneOf
    <3>3. /\ r \in KType /\ LInv(r) /\ Calm(b, r) /\ Near(r) /\ Passes(b, r, Task)
          /\ r.tick = b.tick /\ r.over = b.over
          /\ ToSet(r.delayed) \subseteq ToSet(b.delayed)
      OBVIOUS
    <3>4. t \notin r.term /\ t \notin r.gone
      BY <3>2, <3>3 DEF Calm
    <3>5. WakesAt(b, t) <= Now(r)
      <4>1. Now(r) = b.over * TickMod + now /\ WakesAt(b, t) = b.over * TickMod + b.wake[t]
            /\ b.over * TickMod \in Int
        BY <1>2, <3>1, <3>3, NowFacts DEF Now, WakesAt
      <4> DEFINE m == b.over * TickMod
      <4> HIDE DEF m
      <4>2. Now(r) = m + now /\ WakesAt(b, t) = m + b.wake[t] /\ m \in Int /\ b.wake[t] \in Int
        BY <1>4, <3>1, <4>1 DEF m
      <4> QED
        BY <1>3, <3>1, <4>2
    <3>6. t \notin Blocked(r) \/ (t \in Sleepers(r) /\ WakesAt(r, t) <= Now(r))
      <4>1. t \in Blocked(r) => t \in Sleepers(r) \/ t \in r.suspended
        BY DEF Blocked, Sleepers
      <4> QED
        BY <3>1, <3>2, <3>3, <3>5, <4>1 DEF Passes
    <3>7. /\ w \in KType /\ w.tick = r.tick /\ w.over = r.over /\ w.next = r.next
          /\ Near(w) /\ ToSet(w.delayed) = ToSet(r.delayed) \ {t} /\ Passes(r, w, Task)
      BY <3>1, <3>3, <3>4, <3>6, WakeupTime
    <3>8. LInv(w) /\ Calm(r, w)
      BY <3>1, <3>3, <3>4, WakeupFacts
    <3> HIDE DEF w
    <3>9. Calm(b, w)
      BY <1>2, <3>3, <3>7, <3>8, CalmThen
    <3>10. Passes(b, w, Task)
      BY <1>2, <3>3, <3>7, PassesThen DEF Calm
    <3> QED
      BY <3>3, <3>7, <3>8, <3>9, <3>10 DEF w
  <2>4. due \in Seq(Task)
    BY <1>6, <2>1
  <2>5. b \in P[0]
    BY <1>2
  <2>6. ASSUME NEW i \in 1 .. Len(due), NEW v \in V \cap P[i - 1]
        PROVE  Wakeup(v, due[i]) \in P[i]
    <3>0. i \in Nat /\ i - 1 \in Nat /\ 1 .. i = (1 .. (i - 1)) \cup {i}
      BY <2>4
    <3>1. due[i] \in ToSet(due)
      BY <2>4, SeqFacts
    <3>2. Wakeup(v, due[i]) \in KType /\ ToSet(Wakeup(v, due[i]).delayed) = ToSet(v.delayed) \ {due[i]}
      BY <2>3, <3>1
    <3>3. \A j \in 1 .. (i - 1) : due[j] \notin ToSet(v.delayed)
      BY <3>0
    <3> QED
      BY <3>0, <3>2, <3>3
  <2>7. c \in V /\ c \in P[Len(due)]
    <3>1. \A r \in V, t \in ToSet(due) : Wakeup(r, t) \in V
      BY <2>3
    <3>2. \A i \in 1 .. Len(due) : \A v \in V \cap P[i - 1] : Wakeup(v, due[i]) \in P[i]
      BY <2>6
    <3> HIDE DEF V, P, due
    <3> QED
      BY <2>2, <2>4, <2>5, <3>1, <3>2, WakeAllSteps
  <2>8. /\ c \in KType /\ LInv(c) /\ Calm(b, c) /\ Near(c) /\ Passes(b, c, Task)
        /\ c.tick = b.tick /\ c.over = b.over
        /\ ToSet(c.delayed) \subseteq ToSet(b.delayed)
    BY <2>7
  <2>9. \A t \in ToSet(c.delayed) : t \notin ToSet(due)
    <3>1. Len(due) \in Nat /\ \A t \in ToSet(due) : \E j \in 1 .. Len(due) : due[j] = t
      BY <2>4, SeqFacts
    <3>2. \A j \in 1 .. Len(due) : due[j] \notin ToSet(c.delayed)
      BY <2>7, <3>1
    <3> QED
      BY <3>1, <3>2
  <2> HIDE DEF c, V, P, due
  <2>10. \A t \in ToSet(c.delayed) : c.wake[t] = b.wake[t] /\ b.wake[t] > now /\ b.wake[t] \in Int
    <3> SUFFICES ASSUME NEW t \in ToSet(c.delayed)
                 PROVE  c.wake[t] = b.wake[t] /\ b.wake[t] > now /\ b.wake[t] \in Int
      OBVIOUS
    <3>1. t \in ToSet(b.delayed) /\ t \in Task /\ b.wake[t] \in Int /\ t \in Sleepers(c)
      BY <1>4, <2>8 DEF Sleepers
    <3>2. b.wake[t] > now
      BY <1>6, <2>1, <2>9, <3>1
    <3>3. WakesAt(c, t) = WakesAt(b, t)
      BY <2>8, <3>1 DEF Passes
    <3> DEFINE m == b.over * TickMod
               cw == c.wake[t]
               bw == b.wake[t]
    <3>4. m \in Int /\ cw \in Int /\ WakesAt(c, t) = m + cw /\ WakesAt(b, t) = m + bw
      BY <1>2, <2>8, <3>1, NowFacts DEF WakesAt, KType
    <3>5. bw \in Int
      BY <3>1
    <3> HIDE DEF m, cw, bw
    <3>6. cw = bw
      <4>1. m + cw = m + bw
        BY <3>3, <3>4
      <4> QED
        BY <3>4, <3>5, <4>1, Cancel
    <3> QED
      BY <3>1, <3>2, <3>6 DEF cw, bw
  <2>11. Clock(c)
    BY <1>2, <2>8, <2>10 DEF Near, Clock
  <2>12. d = prvResetNextTaskUnblockTime(c)
    BY <1>8
  <2>13. /\ d \in KType /\ d.tick = c.tick /\ d.over = c.over /\ Clock(d) /\ Passes(c, d, Task)
    BY <2>8, <2>11, <2>12, ResetNextTime
  <2> HIDE DEF d
  <2>14. Passes(b, d, Task)
    BY <1>2, <2>8, <2>13, PassesThen DEF Calm
  <2>15. Passes(s, d, Task)
    BY <1>0, <1>2, <1>5, <2>13, <2>14, PassesThen
  <2>16. Now(d) = Now(s) + 1
    BY <1>2, <2>8, <2>13 DEF Now
  <2> QED
    BY <1>1, <2>13, <2>15, <2>16
<1> QED
  BY <1>7, <1>8

-----------------------------------------------------------------------------
(* Resuming the scheduler and unlocking the queue. *)

(* The scheduler resumes: the pending tasks have their excuse, the ticks   *)
(* that were held back pass.                                               *)
LEMMA ResumeTime ==
  ASSUME NEW s, LInv(s), Clock(s)
  PROVE  LET r == xTaskResumeAll(s) IN r \in KType /\ Clock(r) /\ Passes(s, r, Task)
<1> DEFINE o == [s EXCEPT !.susp = FALSE, !.pending = <<>>]
           a == ReadyAll(o, s.pending)
           b == IF s.pending = <<>> THEN a ELSE prvResetNextTaskUnblockTime(a)
           c == PassTicks(b, s.pended)
           r == [c EXCEPT !.pended = 0]
           V == {x \in KType : LInv(x) /\ Calm(o, x) /\ Clock(x) /\ Passes(s, x, Task)}
<1>0. s \in KType
  BY DEF LInv
<1>1a. <<>> \in Seq(Task) /\ ToSet(<<>>) = {}
  BY DEF ToSet
<1>1. xTaskResumeAll(s) = r
  BY DEF xTaskResumeAll
<1>2. /\ o \in KType /\ SameLists(s, o) /\ SameClock(s, o) /\ o.pending = <<>>
      /\ o.term = s.term /\ o.gone = s.gone /\ o.ev = s.ev /\ o.note = s.note
  BY <1>0, <1>1a DEF KType, SameLists, SameClock
<1> HIDE DEF o
<1>3. /\ LInv(o)
      /\ \A t : Waits(o, t) <=> Waits(s, t)
      /\ \A t : Waiting(o, t) <=> Waiting(s, t)
      /\ Clock(o) /\ Passes(s, o, Task)
  <2>1. \A t \in Task : s.note[t].n <= o.note[t].n
    BY <1>0, <1>2, NowFacts
  <2>2. \A t \in Task : t \in ToSet(o.pending) => Excused(s, o, t)
    BY <1>1a, <1>2
  <2>3. Clock(o) /\ Passes(s, o, Task)
    BY <1>0, <1>2, <2>1, <2>2, SameClockFacts
  <2>4. LInv(o)
    BY <1>2, SameListsInv
  <2> QED
    BY <1>2, <2>3, <2>4 DEF Waits, Waiting
<1>4. o \in V
  BY <1>2, <1>3, CalmSame
<1>5. ASSUME NEW x \in V, NEW y, LInv(y), Calm(x, y), Clock(y), Passes(x, y, Task) PROVE y \in V
  <2>1. x \in KType /\ y \in KType /\ Calm(o, x) /\ Passes(s, x, Task)
    BY <1>5 DEF LInv
  <2>2. Calm(o, y)
    BY <1>2, <1>5, <2>1, CalmThen
  <2>3. \A t \in Task : (Waits(x, t) => Waits(s, t)) /\ (Waiting(x, t) => Waiting(s, t))
    BY <1>3, <2>1 DEF Calm
  <2>4. Passes(s, y, Task)
    BY <1>0, <1>5, <2>1, <2>3, PassesThen
  <2> QED
    BY <1>5, <2>1, <2>2, <2>4
<1>6. ASSUME NEW x \in V, NEW t \in ToSet(s.pending) PROVE ReadyPending(x, t) \in V
  <2>1. t \in Task /\ ~Waits(s, t) /\ t \notin s.term /\ t \notin s.gone
    BY <1>0, SeqFacts DEF KType, LInv, Events
  <2>2. LInv(x) /\ ~Waits(x, t) /\ t \notin x.term /\ t \notin x.gone
        /\ x \in KType /\ Calm(o, x) /\ Clock(x) /\ Passes(s, x, Task)
    BY <1>2, <1>3, <2>1 DEF Calm
  <2> DEFINE u == MakeReady(x, t)
             w == u.ypend \/ u.prio[t] >= u.prio[u.cur]
  <2>3. LInv(u) /\ Calm(x, u) /\ u.note = x.note
    BY <2>1, <2>2, MakeReadyInv
  <2>4. u \in KType /\ Clock(u) /\ Blocked(u) = Blocked(x) \ {t}
    BY <2>1, <2>2, MakeReadyClock
  <2>5. Passes(x, u, Task \ {t})
    BY <2>1, <2>2, MakeReadyPasses
  <2>6. ReadyPending(x, t) = [u EXCEPT !.ypend = w]
    BY DEF ReadyPending
  <2> HIDE DEF u
  <2>7. \A v \in Task : (Waits(x, v) => Waits(s, v)) /\ (Waiting(x, v) => Waiting(s, v))
    BY <1>3, <2>2 DEF Calm
  <2>8. Passes(s, u, Task \ {t})
    <3>1. Passes(s, x, Task \ {t})
      BY <2>2 DEF Passes
    <3> QED
      BY <1>0, <2>2, <2>4, <2>5, <2>7, <3>1, PassesThen
  <2>9. Passes(s, u, Task)
    <3>1. Excused(s, u, t)
      BY DEF Excused
    <3>2. t \notin Sleepers(u) /\ t \notin u.suspended
      BY <2>4 DEF Blocked, Sleepers
    <3>3. s.note[t].n <= u.note[t].n
      BY <2>1, <2>2, <2>3 DEF Passes
    <3> QED
      BY <1>0, <2>1, <2>4, <2>8, <3>1, <3>2, <3>3, PassesOne
  <2>10. Calm(o, u)
    BY <1>2, <2>2, <2>3, <2>4, CalmThen
  <2>11. u \in V
    BY <2>3, <2>4, <2>9, <2>10
  <2>12. w \in BOOLEAN
    OBVIOUS
  <2> HIDE DEF w, V
  <2>13. LInv([u EXCEPT !.ypend = w]) /\ Calm(u, [u EXCEPT !.ypend = w])
    BY <2>3, <2>12, Ypend
  <2>14. Clock([u EXCEPT !.ypend = w]) /\ Passes(u, [u EXCEPT !.ypend = w], Task)
    BY <2>4, <2>12, YpendTime
  <2> QED
    BY <1>5, <2>6, <2>11, <2>13, <2>14
<1>7. ASSUME NEW x \in V, NEW i \in Nat PROVE PassTick(x, i) \in V
  <2> DEFINE n == xTaskIncrementTick(x)
             u == n.s
             w == u.ypend \/ n.sw
  <2>1. LInv(x) /\ Clock(x) /\ x \in KType
    OBVIOUS
  <2>2. LInv(u) /\ Calm(x, u)
    BY <2>1, TickFacts
  <2>3. u \in KType /\ Clock(u) /\ Passes(x, u, Task)
    BY <2>1, TickTime
  <2>4. PassTick(x, i) = [u EXCEPT !.ypend = w]
    BY DEF PassTick
  <2>5. w \in BOOLEAN
    OBVIOUS
  <2> HIDE DEF u, w, V
  <2>6. u \in V
    BY <1>5, <2>2, <2>3
  <2>7. LInv([u EXCEPT !.ypend = w]) /\ Calm(u, [u EXCEPT !.ypend = w])
    BY <2>2, <2>5, Ypend
  <2>8. Clock([u EXCEPT !.ypend = w]) /\ Passes(u, [u EXCEPT !.ypend = w], Task)
    BY <2>3, <2>5, YpendTime
  <2> QED
    BY <1>5, <2>4, <2>6, <2>7, <2>8
<1>8. a \in V
  <2>1. s.pending \in Seq(Task)
    BY <1>0 DEF KType
  <2> HIDE DEF V
  <2> QED
    BY <1>4, <1>6, <2>1, ReadyAllFacts
<1> HIDE DEF a
<1>9. b \in V
  <2>1. LInv(a) /\ a \in KType /\ Clock(a)
    BY <1>8
  <2>2. LInv(prvResetNextTaskUnblockTime(a)) /\ Calm(a, prvResetNextTaskUnblockTime(a))
    BY <2>1, ResetNext
  <2>3. Clock(prvResetNextTaskUnblockTime(a)) /\ Passes(a, prvResetNextTaskUnblockTime(a), Task)
    BY <2>1, ResetNextTime
  <2> HIDE DEF V
  <2> QED
    BY <1>5, <1>8, <2>2, <2>3
<1> HIDE DEF b
<1>10. c \in V
  <2>1. s.pended \in Nat
    BY <1>0 DEF KType
  <2> HIDE DEF V
  <2> QED
    BY <1>7, <1>9, <2>1, PassTicksFacts
<1> HIDE DEF c
<1>11. LInv(c) /\ Calm(o, c) /\ c \in KType /\ Clock(c) /\ Passes(s, c, Task)
  BY <1>10
<1>12. r \in KType /\ SameClock(c, r) /\ r.pending = c.pending /\ r.note = c.note
  BY <1>11 DEF KType, SameClock
<1> HIDE DEF r
<1>13. Clock(r) /\ Passes(c, r, Task)
  BY <1>11, <1>12, Quiet
<1>14. Passes(s, r, Task)
  <2>1. \A t \in Task : (Waits(c, t) => Waits(s, t)) /\ (Waiting(c, t) => Waiting(s, t))
    BY <1>3, <1>11 DEF Calm
  <2> QED
    BY <1>0, <1>11, <1>12, <1>13, <2>1, PassesThen
<1> QED
  BY <1>1, <1>12, <1>13, <1>14

(* The queue is unlocked. *)
LEMMA UnlockedTime ==
  ASSUME NEW s, LInv(s), Clock(s), NEW e \in EventLists, NEW count \in Int
  PROVE  LET r == Unlocked(s, e, count) IN r \in KType /\ Clock(r) /\ Passes(s, r, Task)
<1> DEFINE V == {x \in KType : LInv(x) /\ Calm(s, x) /\ Clock(x) /\ Passes(s, x, Task)}
<1>1. s \in V
  <2>1. s \in KType
    BY DEF LInv
  <2> QED
    BY <2>1, CalmSame, Quiet DEF SameClock
<1>2. ASSUME NEW x \in V PROVE UnlockOne(x, e) \in V
  <2>1. CASE x.ev[e] = <<>>
    BY <2>1 DEF UnlockOne
  <2>2. CASE x.ev[e] # <<>>
    <3> DEFINE u == xTaskRemoveFromEventList(x, e).s
    <3>1. UnlockOne(x, e) = u
      BY <2>2 DEF UnlockOne
    <3>2. x \in KType /\ LInv(x) /\ Calm(s, x) /\ Clock(x) /\ Passes(s, x, Task) /\ s \in KType
      BY <1>1
    <3>3. LInv(u) /\ Calm(x, u) /\ u \in KType
      BY <2>2, <3>2, RemoveEvent DEF LInv
    <3>4. Clock(u) /\ Passes(x, u, Task)
      BY <2>2, <3>2, RemoveEventTime
    <3> HIDE DEF u
    <3>5. Calm(s, u) /\ Passes(s, u, Task)
      BY <3>2, <3>3, <3>4, CalmThen, PassesThen DEF Calm
    <3> QED
      BY <3>1, <3>3, <3>4, <3>5
  <2> QED
    BY <2>1, <2>2
<1>3. Unlocked(s, e, count) \in V
  <2> HIDE DEF V
  <2> QED
    BY <1>1, <1>2, UnlockedFacts
<1> QED
  BY <1>3

-----------------------------------------------------------------------------
(* What takes no time. *)

(* Nothing that counts time changes. *)
Still(s, r) == SameClock(s, r) /\ r.note = s.note /\ r.pending = s.pending

(* Moves among the ready lists, and priorities, take no time. *)
LEMMA StillThen ==
  ASSUME NEW s, NEW r, NEW u, Still(s, r), Still(r, u) PROVE Still(s, u)
BY DEF Still, SameClock

LEMMA ReadyStill ==
  ASSUME NEW s \in KType, NEW t \in Task
  PROVE  /\ Still(s, prvAddTaskToReadyList(s, t))
         /\ Still(s, UnReady(s, t))
         /\ DOMAIN prvAddTaskToReadyList(s, t) = DOMAIN s /\ DOMAIN UnReady(s, t) = DOMAIN s
<1>1. Still(s, prvAddTaskToReadyList(s, t)) /\ DOMAIN prvAddTaskToReadyList(s, t) = DOMAIN s
  <2> DEFINE R == [s.rl EXCEPT ![s.prio[t]] = vListInsertEnd(@, t)]
             P == s.top \cup {s.prio[t]}
  <2>1. prvAddTaskToReadyList(s, t) = [s EXCEPT !.rl = R, !.top = P]
    BY DEF prvAddTaskToReadyList
  <2> HIDE DEF R, P
  <2> QED
    BY <2>1 DEF KType, Still, SameClock
<1>2. Still(s, UnReady(s, t)) /\ DOMAIN UnReady(s, t) = DOMAIN s
  <2> DEFINE l == uxListRemove(s.rl[s.prio[t]], t)
             R == [s.rl EXCEPT ![s.prio[t]] = l]
             P == IF l.items = <<>> THEN s.top \ {s.prio[t]} ELSE s.top
  <2>1. UnReady(s, t) = [s EXCEPT !.rl = R, !.top = P]
    BY DEF UnReady
  <2> HIDE DEF R, P
  <2> QED
    BY <2>1 DEF KType, Still, SameClock
<1> QED
  BY <1>1, <1>2

LEMMA SetPriorityStill ==
  ASSUME NEW s, LInv(s), NEW t \in Task, NEW p \in Prios
  PROVE  Still(s, SetPriority(s, t, p))
<1>0. s \in KType /\ RInv(s)
  BY DEF LInv
<1>1. CASE ~IsReady(s, t)
  <2> DEFINE P == [s.prio EXCEPT ![t] = p]
  <2>1. SetPriority(s, t, p) = [s EXCEPT !.prio = P]
    BY <1>1 DEF SetPriority
  <2> HIDE DEF P
  <2> QED
    BY <1>0, <2>1 DEF KType, Still, SameClock
<1>2. CASE IsReady(s, t)
  <2> DEFINE r == UnReady(s, t)
             P == [r.prio EXCEPT ![t] = p]
             u == [r EXCEPT !.prio = P]
  <2>1. r \in KType
    BY <1>0, <1>2, UnReadyFacts DEF RInv
  <2>2. Still(s, r)
    BY <1>0, ReadyStill
  <2>3. SetPriority(s, t, p) = prvAddTaskToReadyList(u, t)
    BY <1>2 DEF SetPriority
  <2> HIDE DEF r
  <2>4. P \in [Task -> Prios]
    BY <2>1 DEF KType
  <2> HIDE DEF P
  <2>5. u \in KType /\ Still(r, u)
    BY <2>1, <2>4 DEF KType, Still, SameClock
  <2> HIDE DEF u
  <2>6. Still(u, prvAddTaskToReadyList(u, t))
    BY <2>5, ReadyStill
  <2> QED
    BY <2>2, <2>3, <2>5, <2>6, StillThen
<1> QED
  BY <1>1, <1>2

LEMMA StillClock ==
  ASSUME NEW s \in KType, NEW r \in KType, Still(s, r), NEW T \in SUBSET Task
  PROVE  (Clock(s) => Clock(r)) /\ Passes(s, r, T)
BY Quiet DEF Still

(* What comes after a step that does not count time. *)
LEMMA StillPasses ==
  ASSUME NEW s \in KType, NEW r \in KType, NEW u \in KType, NEW T \in SUBSET Task,
         Still(s, r), Calm(s, r), Passes(r, u, T)
  PROVE  Passes(s, u, T)
<1>1. Passes(s, r, T)
  BY StillClock
<1>2. \A t \in T : (Waits(r, t) => Waits(s, t)) /\ (Waiting(r, t) => Waiting(s, t))
  BY DEF Calm
<1> QED
  BY <1>1, <1>2, PassesThen

LEMMA StillSame == ASSUME NEW s PROVE Still(s, s)
BY DEF Still, SameClock

(* So of every operator that moves no task in or out of the delayed lists. *)
LEMMA HeldStill ==
  ASSUME NEW s \in KType, NEW t \in Task, NEW n
  PROVE  Still(s, [s EXCEPT !.held[t] = n])
<1> DEFINE H == [s.held EXCEPT ![t] = n]
<1>1. [s EXCEPT !.held[t] = n] = [s EXCEPT !.held = H]
  OBVIOUS
<1> HIDE DEF H
<1> QED
  BY <1>1 DEF KType, Still, SameClock

LEMMA DisinheritStill ==
  ASSUME NEW s, LInv(s), NEW t \in Task, conf \in Confs
  PROVE  Still(s, xTaskPriorityDisinherit(s, t).s)
<1> DEFINE r == [s EXCEPT !.held[t] = @ - 1]
           x == SetPriority(r, t, Base(t))
<1>1. LInv(r) /\ Still(s, r)
  <2>1. s.held[t] - 1 \in Int /\ s \in KType
    BY DEF LInv, KType
  <2> QED
    BY <2>1, HeldFacts, HeldStill
<1>2. Base(t) \in Prios
  BY KernelAssumption DEF Base, Prios
<1>3. xTaskPriorityDisinherit(s, t).s = x \/ xTaskPriorityDisinherit(s, t).s = r
  BY DEF xTaskPriorityDisinherit
<1> HIDE DEF r
<1>4. Still(r, x)
  BY <1>1, <1>2, SetPriorityStill
<1> HIDE DEF x
<1> QED
  BY <1>1, <1>3, <1>4, StillThen

LEMMA InheritStill ==
  ASSUME NEW s, LInv(s), NEW h \in Task \cup {None}
  PROVE  Still(s, xTaskPriorityInherit(s, h).s)
<1> DEFINE p == s.prio[s.cur]
           x == SetPriority(s, h, p)
<1>1. p \in Prios
  BY DEF LInv, KType
<1>2. \/ xTaskPriorityInherit(s, h).s = s
      \/ h # None /\ xTaskPriorityInherit(s, h).s = x
  BY DEF xTaskPriorityInherit
<1>3. h # None => Still(s, x)
  BY <1>1, SetPriorityStill
<1> HIDE DEF x
<1> QED
  BY <1>2, <1>3, StillSame

LEMMA TimeoutStill ==
  ASSUME NEW s \in KType, NEW h, NEW w
  PROVE  Still(s, vTaskPriorityDisinheritAfterTimeout(s, h, w))
<1> DEFINE to == GreatestOf({Base(h), w})
           from == s.prio[h]
           l == uxListRemove(s.rl[from], h)
           A == IF l.items = <<>> THEN s.top \ {to} ELSE s.top
           P == [s.prio EXCEPT ![h] = to]
           R == [s.rl EXCEPT ![from] = l]
           b == [s EXCEPT !.prio = P, !.rl = R, !.top = A]
           r == vTaskPriorityDisinheritAfterTimeout(s, h, w)
<1>1. \/ r = s
      \/ r = [s EXCEPT !.prio = P]
      \/ r = prvAddTaskToReadyList(b, h)
  BY DEF vTaskPriorityDisinheritAfterTimeout
<1> DEFINE B == [b.rl EXCEPT ![b.prio[h]] = vListInsertEnd(@, h)]
           C == b.top \cup {b.prio[h]}
           c == [b EXCEPT !.rl = B, !.top = C]
<1>2. prvAddTaskToReadyList(b, h) = c
  BY DEF prvAddTaskToReadyList
<1> HIDE DEF r, P, R, A, B, C
<1>3. Still(s, [s EXCEPT !.prio = P])
  BY DEF KType, Still, SameClock
<1>4. Still(s, c)
  BY DEF KType, Still, SameClock
<1> QED
  BY <1>1, <1>2, <1>3, <1>4, StillSame DEF r

LEMMA SwitchStill ==
  ASSUME NEW s \in KType
  PROVE  Still(s, vTaskSwitchContext(s))
<1> DEFINE p == GreatestOf(s.top)
           l == Walk(s.rl[p])
           R == [s.rl EXCEPT ![p] = l]
           c == l.items[l.idx]
<1>1. \/ vTaskSwitchContext(s) = [s EXCEPT !.ypend = TRUE]
      \/ vTaskSwitchContext(s) = [s EXCEPT !.rl = R, !.cur = c, !.ypend = FALSE]
  BY DEF vTaskSwitchContext
<1> HIDE DEF R, c
<1> QED
  BY <1>1 DEF KType, Still, SameClock

LEMMA CreateStill ==
  ASSUME NEW s \in KType, NEW t \in Task
  PROVE  Still(s, prvAddTaskToReadyList([s EXCEPT !.gone = @ \ {t}], t))
<1> DEFINE G == s.gone \ {t}
           m == [s EXCEPT !.gone = G]
<1>1. [s EXCEPT !.gone = @ \ {t}] = m
  OBVIOUS
<1>2. G \in SUBSET Task
  BY DEF KType
<1> HIDE DEF G
<1>3. m \in KType /\ Still(s, m)
  BY <1>2 DEF KType, Still, SameClock
<1> HIDE DEF m
<1> QED
  BY <1>1, <1>3, ReadyStill, StillThen

LEMMA DeleteStill ==
  ASSUME NEW s, LInv(s), NEW t \in Task, IsReady(s, t)
  PROVE  Still(s, [UnReady(s, t) EXCEPT !.term = @ \cup {t}])
<1> DEFINE a == UnReady(s, t)
           T == a.term \cup {t}
<1>1. a \in KType /\ Still(s, a)
  BY UnReadyFacts, ReadyStill DEF LInv, RInv
<1> HIDE DEF a
<1>2. [a EXCEPT !.term = @ \cup {t}] = [a EXCEPT !.term = T]
  OBVIOUS
<1> HIDE DEF T
<1>3. Still(a, [a EXCEPT !.term = T])
  BY <1>1 DEF KType, Still, SameClock
<1> QED
  BY <1>1, <1>2, <1>3, StillThen DEF a

LEMMA SuspendStill ==
  ASSUME NEW s \in KType, NEW b
  PROVE  Still(s, [s EXCEPT !.susp = b]) /\ Still(s, [s EXCEPT !.pended = b])
BY DEF KType, Still, SameClock

(* The notification of one task is taken. *)
LEMMA NoteTime ==
  ASSUME NEW s \in KType, NEW r \in KType, SameClock(s, r), r.pending = s.pending,
         NEW t \in Task, \A u \in Task : u # t => r.note[u] = s.note[u]
  PROVE  (Clock(s) => Clock(r)) /\ Passes(s, r, Task \ {t})
<1>1. \A u \in Task \ {t} : s.note[u].n <= r.note[u].n
  BY NowFacts
<1>2. \A u \in Task \ {t} : u \in ToSet(r.pending) => Excused(s, r, u)
  BY DEF Excused
<1> QED
  BY <1>1, <1>2, SameClockFacts

-----------------------------------------------------------------------------
(* Going to sleep, for a time. *)

(* Of numbers and lists. *)
LEMMA LeastOfPair ==
  ASSUME NEW a \in Int, NEW b \in Int
  PROVE  LeastOf({a, b}) \in Int /\ LeastOf({a, b}) <= a /\ LeastOf({a, b}) <= b
<1>1. \E x \in {a, b} : \A y \in {a, b} : x <= y
  OBVIOUS
<1>2. LeastOf({a, b}) \in {a, b} /\ \A y \in {a, b} : LeastOf({a, b}) <= y
  BY <1>1 DEF LeastOf
<1> QED
  BY <1>2

LEMMA SortedSame ==
  ASSUME NEW S, NEW list \in Seq(S), NEW v, NEW w, Sorted(list, v), \A x \in ToSet(list) : w[x] = v[x]
  PROVE  Sorted(list, w)
<1>1. \A i \in DOMAIN list : list[i] \in ToSet(list)
  BY SeqFacts
<1> QED
  BY <1>1 DEF Sorted

(* What it is that the caller is put into. *)
LEMMA BlockCases ==
  ASSUME NEW s \in KType, RInv(s), IsReady(s, s.cur), NEW wait \in Int, NEW indefinitely
  PROVE  LET t == s.cur
             w == (s.tick + wait) % TickMod
             W == [s.wake EXCEPT ![t] = w]
             r == prvAddCurrentTaskToDelayedList(s, wait, indefinitely)
         IN \/ /\ wait = MAX_DELAY /\ indefinitely
               /\ r.delayed = s.delayed /\ r.overflow = s.overflow
               /\ r.suspended = s.suspended \cup {t} /\ r.wake = s.wake /\ r.next = s.next
            \/ /\ ~(wait = MAX_DELAY /\ indefinitely) /\ W[t] < s.tick
               /\ r.delayed = s.delayed /\ r.overflow = vListInsert(s.overflow, t, W)
               /\ r.suspended = s.suspended /\ r.wake = W /\ r.next = s.next
            \/ /\ ~(wait = MAX_DELAY /\ indefinitely) /\ ~(W[t] < s.tick)
               /\ r.delayed = vListInsert(s.delayed, t, W) /\ r.overflow = s.overflow
               /\ r.suspended = s.suspended /\ r.wake = W /\ r.next = LeastOf({s.next, W[t]})
<1> DEFINE t == s.cur
           w == (s.tick + wait) % TickMod
           a == UnReady(s, t)
           W == [s.wake EXCEPT ![t] = w]
           b == [a EXCEPT !.wake = W]
           r == prvAddCurrentTaskToDelayedList(s, wait, indefinitely)
<1>1. /\ a \in KType /\ a.delayed = s.delayed /\ a.overflow = s.overflow
      /\ a.suspended = s.suspended /\ a.wake = s.wake /\ a.next = s.next
  BY UnReadyFacts DEF RInv, KType
<1>2. r = IF wait = MAX_DELAY /\ indefinitely
          THEN [a EXCEPT !.suspended = a.suspended \cup {t}]
          ELSE IF b.wake[t] < s.tick
          THEN [b EXCEPT !.overflow = vListInsert(b.overflow, t, b.wake)]
          ELSE [b EXCEPT !.delayed = vListInsert(b.delayed, t, b.wake),
                         !.next = LeastOf({b.next, b.wake[t]})]
  BY <1>1 DEF prvAddCurrentTaskToDelayedList, KType
<1> HIDE DEF a, W, r
<1>3. /\ b.wake = W /\ b.overflow = s.overflow /\ b.delayed = s.delayed /\ b.next = s.next
      /\ b.suspended = s.suspended
  BY <1>1 DEF KType
<1>4. CASE wait = MAX_DELAY /\ indefinitely
  <2> DEFINE P == a.suspended \cup {t}
  <2>1. P = s.suspended \cup {t}
    BY <1>1
  <2>2. r = [a EXCEPT !.suspended = P]
    BY <1>2, <1>4
  <2> HIDE DEF P
  <2>3. /\ r.delayed = s.delayed /\ r.overflow = s.overflow
        /\ r.suspended = P /\ r.wake = s.wake /\ r.next = s.next
    BY <1>1, <2>2 DEF KType
  <2> QED
    BY <1>4, <2>1, <2>3 DEF r
<1>5. CASE ~(wait = MAX_DELAY /\ indefinitely) /\ W[t] < s.tick
  <2> DEFINE O == vListInsert(s.overflow, t, W)
  <2>1. r = [b EXCEPT !.overflow = O]
    BY <1>2, <1>3, <1>5
  <2> HIDE DEF O
  <2>2. /\ r.delayed = s.delayed /\ r.overflow = O
        /\ r.suspended = s.suspended /\ r.wake = W /\ r.next = s.next
    BY <1>1, <1>3, <2>1 DEF KType
  <2> QED
    BY <1>5, <2>2 DEF r, O, W
<1>6. CASE ~(wait = MAX_DELAY /\ indefinitely) /\ ~(W[t] < s.tick)
  <2> DEFINE D == vListInsert(s.delayed, t, W)
             N == LeastOf({s.next, W[t]})
  <2>1. r = [b EXCEPT !.delayed = D, !.next = N]
    BY <1>2, <1>3, <1>6
  <2> HIDE DEF D, N
  <2>2. /\ r.delayed = D /\ r.overflow = s.overflow
        /\ r.suspended = s.suspended /\ r.wake = W /\ r.next = N
    BY <1>1, <1>3, <2>1 DEF KType
  <2> QED
    BY <1>6, <2>2 DEF r, D, N, W
<1> QED
  BY <1>4, <1>5, <1>6 DEF W

(* A time that wraps is before now, the others are not. *)
LEMMA WrapFacts ==
  ASSUME NEW tick \in Nat, NEW m \in Nat, m > 2, tick < m, NEW wait \in 1 .. m - 1
  PROVE  LET w == (tick + wait) % m IN
         /\ w \in Nat /\ w < m
         /\ w < tick => w = tick + wait - m
         /\ ~(w < tick) => w = tick + wait /\ tick < w
<1> DEFINE n == tick + wait
           w == n % m
<1>1. n \in Nat /\ n < 2 * m /\ n > tick /\ n - m < tick
  OBVIOUS
<1>2. w = IF n < m THEN n ELSE n - m
  BY <1>1, ModSum
<1> HIDE DEF w
<1>3. n < m => w = n
  BY <1>2
<1>4. ~(n < m) => w = n - m
  BY <1>2
<1> QED
  BY <1>1, <1>3, <1>4 DEF w

(* The caller goes to sleep: it will wake when its time is over, counted   *)
(* from now, in this turn of the count or in the next; nobody else is      *)
(* disturbed.                                                              *)
LEMMA AsleepPasses ==
  ASSUME NEW s \in KType, NEW r \in KType, NEW t \in Task,
         Now(r) = Now(s), r.note = s.note, r.pending = s.pending, Blocked(s) \subseteq Blocked(r),
         r.suspended \subseteq s.suspended \cup {t},
         \A u \in Task \ {t} : u \in Sleepers(r) => u \in Sleepers(s) /\ WakesAt(r, u) = WakesAt(s, u)
  PROVE  Passes(s, r, Task \ {t})
<1>1. Now(s) <= Now(r) /\ \A u \in Task : s.note[u].n <= r.note[u].n
  BY NowFacts
<1> QED
  BY <1>1 DEF Passes, Excused

LEMMA BlockTime ==
  ASSUME NEW s \in KType, RInv(s), Clock(s), IsReady(s, s.cur),
         NEW wait \in 1 .. MAX_DELAY, NEW indefinitely
  PROVE  LET t == s.cur
             r == prvAddCurrentTaskToDelayedList(s, wait, indefinitely)
         IN /\ r \in KType /\ Clock(r) /\ Now(r) = Now(s) /\ Passes(s, r, Task \ {t})
            /\ wait = MAX_DELAY /\ indefinitely => t \notin Sleepers(r)
            /\ ~(wait = MAX_DELAY /\ indefinitely) =>
                 t \in Sleepers(r) /\ WakesAt(r, t) = Now(s) + wait
            /\ t \in Blocked(r) /\ r.pending = s.pending
<1> DEFINE t == s.cur
           w == (s.tick + wait) % TickMod
           W == [s.wake EXCEPT ![t] = w]
           r == prvAddCurrentTaskToDelayedList(s, wait, indefinitely)
           base == s.over * TickMod
<1>0. /\ s \in KType /\ RInv(s) /\ t \in Task /\ wait \in Int
      /\ s.delayed \in Seq(Task) /\ s.overflow \in Seq(Task)
      /\ t \notin ToSet(s.delayed) /\ t \notin ToSet(s.overflow) /\ t \notin s.suspended
  <2>1. s \in KType /\ RInv(s)
    OBVIOUS
  <2>2. MAX_DELAY \in Int
    BY KernelAssumption DEF MAX_DELAY
  <2> QED
    BY <2>1, <2>2 DEF KType, RInv, InOne, OneOf
<1>1. /\ r \in KType /\ SameRest(s, r) /\ Blocked(r) = Blocked(s) \cup {t}
  BY <1>0, BlockFacts
<1>2. /\ TickMod \in Nat /\ TickMod > 2 /\ s.tick \in Nat /\ s.tick < TickMod
      /\ s.next \in Int /\ s.wake \in [Task -> Int] /\ base \in Int /\ Now(s) = base + s.tick
  <2>1. TickMod \in Nat /\ TickMod > 2 /\ base \in Int
    BY <1>0, NowFacts
  <2> QED
    BY <1>0, <2>1 DEF Clock, KType, Now
<1>3. /\ w \in Nat /\ w < TickMod
      /\ w < s.tick => w = s.tick + wait - TickMod
      /\ ~(w < s.tick) => w = s.tick + wait /\ s.tick < w
  <2>1. wait \in 1 .. TickMod - 1
    BY DEF MAX_DELAY
  <2> QED
    BY <1>2, <2>1, WrapFacts
<1> HIDE DEF w
<1>4. W \in [Task -> Int] /\ W[t] = w /\ \A u \in Task \ {t} : W[u] = s.wake[u]
  BY <1>0, <1>2, <1>3
<1>5. \/ /\ wait = MAX_DELAY /\ indefinitely
         /\ r.delayed = s.delayed /\ r.overflow = s.overflow
         /\ r.suspended = s.suspended \cup {t} /\ r.wake = s.wake /\ r.next = s.next
      \/ /\ ~(wait = MAX_DELAY /\ indefinitely) /\ W[t] < s.tick
         /\ r.delayed = s.delayed /\ r.overflow = vListInsert(s.overflow, t, W)
         /\ r.suspended = s.suspended /\ r.wake = W /\ r.next = s.next
      \/ /\ ~(wait = MAX_DELAY /\ indefinitely) /\ ~(W[t] < s.tick)
         /\ r.delayed = vListInsert(s.delayed, t, W) /\ r.overflow = s.overflow
         /\ r.suspended = s.suspended /\ r.wake = W /\ r.next = LeastOf({s.next, W[t]})
  BY <1>0, BlockCases, ZenonT(60) DEF w
<1>6. r.tick = s.tick /\ r.over = s.over /\ r.note = s.note /\ r.pending = s.pending /\ Now(r) = Now(s)
  BY <1>1 DEF SameRest, Now
<1> HIDE DEF W, r, base
<1>7. /\ Sorted(s.delayed, W) /\ Sorted(s.overflow, W)
      /\ \A u \in ToSet(s.delayed) : u \in Task \ {t} /\ W[u] = s.wake[u]
      /\ \A u \in ToSet(s.overflow) : u \in Task \ {t} /\ W[u] = s.wake[u]
  <2>1. /\ \A u \in ToSet(s.delayed) : u \in Task \ {t} /\ W[u] = s.wake[u]
        /\ \A u \in ToSet(s.overflow) : u \in Task \ {t} /\ W[u] = s.wake[u]
    BY <1>0, <1>4, SeqFacts
  <2> QED
    BY <1>0, <2>1, SortedSame DEF Clock
<1>8. CASE /\ wait = MAX_DELAY /\ indefinitely
           /\ r.delayed = s.delayed /\ r.overflow = s.overflow
           /\ r.suspended = s.suspended \cup {t} /\ r.wake = s.wake /\ r.next = s.next
  <2>1. Clock(r)
    BY <1>6, <1>8 DEF Clock
  <2>2. Sleepers(r) = Sleepers(s) /\ t \notin Sleepers(r) /\ \A u : WakesAt(r, u) = WakesAt(s, u)
    BY <1>0, <1>6, <1>8 DEF Sleepers, WakesAt
  <2>3. Passes(s, r, Task \ {t})
    BY <1>0, <1>1, <1>6, <1>8, <2>2, AsleepPasses
  <2> QED
    BY <1>1, <1>6, <1>8, <2>1, <2>2, <2>3 DEF r
<1>9. CASE /\ ~(wait = MAX_DELAY /\ indefinitely) /\ W[t] < s.tick
           /\ r.delayed = s.delayed /\ r.overflow = vListInsert(s.overflow, t, W)
           /\ r.suspended = s.suspended /\ r.wake = W /\ r.next = s.next
  <2>0. ToSet(r.overflow) = ToSet(s.overflow) \cup {t}
    BY <1>0, <1>9, ListInsertFacts
  <2>1. Sorted(r.overflow, r.wake)
    BY <1>0, <1>4, <1>7, <1>9, SortedInsert
  <2>2. Clock(r)
    BY <1>3, <1>4, <1>6, <1>7, <1>9, <2>0, <2>1 DEF Clock
  <2>3. Sleepers(r) = Sleepers(s) \cup {t}
    BY <1>9, <2>0 DEF Sleepers
  <2>4. \A u \in Task \ {t} : u \in Sleepers(s) => WakesAt(r, u) = WakesAt(s, u)
    BY <1>4, <1>6, <1>9 DEF WakesAt
  <2>5. WakesAt(r, t) = Now(s) + wait
    <3>1. WakesAt(r, t) = base + TickMod + w
      BY <1>0, <1>4, <1>6, <1>9 DEF WakesAt, base
    <3>2. w = s.tick + wait - TickMod
      BY <1>3, <1>4, <1>9
    <3> QED
      BY <1>0, <1>2, <3>1, <3>2
  <2>6. Passes(s, r, Task \ {t})
    BY <1>0, <1>1, <1>6, <1>9, <2>3, <2>4, AsleepPasses
  <2> QED
    BY <1>1, <1>6, <1>9, <2>2, <2>3, <2>5, <2>6 DEF r
<1>10. CASE /\ ~(wait = MAX_DELAY /\ indefinitely) /\ ~(W[t] < s.tick)
            /\ r.delayed = vListInsert(s.delayed, t, W) /\ r.overflow = s.overflow
            /\ r.suspended = s.suspended /\ r.wake = W /\ r.next = LeastOf({s.next, W[t]})
  <2>0. ToSet(r.delayed) = ToSet(s.delayed) \cup {t}
    BY <1>0, <1>10, ListInsertFacts
  <2>1. Sorted(r.delayed, r.wake)
    BY <1>0, <1>4, <1>7, <1>10, SortedInsert
  <2>2. Clock(r)
    <3>1. r.next \in Int /\ r.next <= s.next /\ r.next <= w
      <4>1. r.next = LeastOf({s.next, w}) /\ w \in Int
        BY <1>3, <1>4, <1>10
      <4> QED
        BY <1>2, <4>1, LeastOfPair
    <3>2. \A u \in ToSet(r.delayed) : s.tick < W[u] /\ W[u] < TickMod /\ r.next <= W[u]
      <4>1. s.tick < w /\ w < TickMod
        BY <1>3, <1>4, <1>10
      <4>2. ASSUME NEW u \in ToSet(s.delayed) PROVE s.tick < W[u] /\ W[u] < TickMod /\ r.next <= W[u]
        <5>1. s.tick < s.wake[u] /\ s.wake[u] < TickMod /\ s.next <= s.wake[u] /\ W[u] = s.wake[u]
              /\ s.wake[u] \in Int
          BY <1>2, <1>7 DEF Clock
        <5> QED
          BY <1>2, <3>1, <5>1
      <4> QED
        BY <1>4, <2>0, <3>1, <4>1, <4>2
    <3>3. \A u \in ToSet(r.overflow) : 0 <= W[u] /\ W[u] < TickMod
      BY <1>7, <1>10 DEF Clock
    <3> QED
      BY <1>2, <1>6, <1>7, <1>10, <2>1, <3>2, <3>3 DEF Clock
  <2>3. Sleepers(r) = Sleepers(s) \cup {t}
    BY <1>10, <2>0 DEF Sleepers
  <2>4. \A u \in Task \ {t} : u \in Sleepers(s) => WakesAt(r, u) = WakesAt(s, u)
    BY <1>4, <1>6, <1>10, <2>0 DEF WakesAt
  <2>5. WakesAt(r, t) = Now(s) + wait
    <3>1. WakesAt(r, t) = base + w
      BY <1>0, <1>4, <1>6, <1>10, <2>0 DEF WakesAt, base
    <3>2. w = s.tick + wait
      BY <1>3, <1>4, <1>10
    <3> QED
      BY <1>0, <1>2, <3>1, <3>2
  <2>6. Passes(s, r, Task \ {t})
    BY <1>0, <1>1, <1>6, <1>10, <2>3, <2>4, AsleepPasses
  <2> QED
    BY <1>1, <1>6, <1>10, <2>2, <2>3, <2>5, <2>6 DEF r
<1> QED
  BY <1>5, <1>8, <1>9, <1>10

LEMMA PlaceTime ==
  ASSUME NEW s, LInv(s), Clock(s), IsReady(s, s.cur), s.cur \notin ToSet(s.pending),
         NEW e \in EventLists, NEW wait \in 1 .. MAX_DELAY
  PROVE  LET t == s.cur
             r == vTaskPlaceOnEventList(s, e, wait)
         IN /\ r \in KType /\ Clock(r) /\ Now(r) = Now(s) /\ Passes(s, r, Task \ {t})
            /\ wait = MAX_DELAY => t \notin Sleepers(r)
            /\ wait # MAX_DELAY => t \in Sleepers(r) /\ WakesAt(r, t) = Now(s) + wait
<1> DEFINE t == s.cur
           value == [u \in Task |-> -s.prio[u]]
           l == vListInsert(s.ev[e], t, value)
           E == [s.ev EXCEPT ![e] = l]
           m == [s EXCEPT !.ev = E]
           r == vTaskPlaceOnEventList(s, e, wait)
<1>0. s \in KType /\ RInv(s) /\ t \in Task /\ s.ev \in [EventLists -> Seq(Task)]
  BY DEF LInv, KType
<1>1. l \in Seq(Task) /\ ToSet(l) = ToSet(s.ev[e]) \cup {t}
  <2> HIDE DEF value
  <2> QED
    BY <1>0, ListInsertFacts
<1>2. r = prvAddCurrentTaskToDelayedList(m, wait, TRUE)
  BY DEF vTaskPlaceOnEventList
<1> HIDE DEF l
<1>3. /\ E \in [EventLists -> Seq(Task)]
      /\ \A u \in Task \ {t}, f \in EventLists : u \in ToSet(E[f]) => u \in ToSet(s.ev[f])
  BY <1>0, <1>1
<1> HIDE DEF E, r
<1>4. /\ m \in KType /\ m.ev = E /\ m.prio = s.prio /\ m.rl = s.rl /\ m.top = s.top
      /\ m.delayed = s.delayed /\ m.overflow = s.overflow /\ m.suspended = s.suspended
      /\ m.cur = s.cur /\ m.term = s.term /\ m.gone = s.gone /\ m.note = s.note
      /\ m.pending = s.pending /\ Still(s, m)
  BY <1>0, <1>3 DEF KType, Still, SameClock
<1> HIDE DEF m
<1>5. OwnList(m) /\ TopExact(m) /\ \A u \in Task : IsReady(m, u) <=> IsReady(s, u)
  BY <1>0, <1>4, SameReady DEF RInv
<1>6. RInv(m) /\ IsReady(m, m.cur)
  BY <1>0, <1>4, <1>5 DEF RInv, InOne, OneOf
<1>7. Clock(m) /\ Passes(s, m, Task \ {t}) /\ Now(m) = Now(s)
  BY <1>0, <1>4, StillClock DEF Still, SameClock, Now
<1>8. /\ r \in KType /\ Clock(r) /\ Now(r) = Now(m) /\ Passes(m, r, Task \ {t})
      /\ wait = MAX_DELAY => t \notin Sleepers(r)
      /\ ~(wait = MAX_DELAY) => t \in Sleepers(r) /\ WakesAt(r, t) = Now(m) + wait
  <2> DEFINE x == prvAddCurrentTaskToDelayedList(m, wait, TRUE)
  <2>1. /\ x \in KType /\ Clock(x) /\ Now(x) = Now(m) /\ Passes(m, x, Task \ {m.cur})
        /\ wait = MAX_DELAY /\ TRUE => m.cur \notin Sleepers(x)
        /\ ~(wait = MAX_DELAY /\ TRUE) => m.cur \in Sleepers(x) /\ WakesAt(x, m.cur) = Now(m) + wait
    BY <1>4, <1>6, <1>7, BlockTime
  <2> HIDE DEF x
  <2> QED
    BY <1>2, <1>4, <2>1 DEF x
<1>9. \A u \in Task \ {t} : (Waits(m, u) => Waits(s, u)) /\ (Waiting(m, u) => Waiting(s, u))
  BY <1>3, <1>4 DEF Waits, Waiting
<1>10. Passes(s, r, Task \ {t})
  BY <1>0, <1>4, <1>7, <1>8, <1>9, PassesThen
<1> QED
  BY <1>7, <1>8, <1>10 DEF r

-----------------------------------------------------------------------------
(* The wait of a call: how much of it is left, and from when on. *)

(* The wait of a call began, or was last looked at, at this time.          *)
Started(l) == l.on.over * TickMod + l.on.tick

(* Where a call is that may wait for the queue or a mutex, and one that    *)
(* waits for so many ticks; one whose wait was found to be over.           *)
InWait(l) ==
  /\ l.op # "delay"
  /\ l.pc \in {"try", "suspend", "lock", "place", "unlockTx", "unlockRx", "resume", "expired"}
Counting(l) == InWait(l) /\ l.left # 0 /\ l.left # MAX_DELAY
GivenUp(l) ==
  \/ l.op # "delay" /\ l.pc \in {"unlockTx", "unlockRx", "resume"} /\ l.after = "expired"
  \/ l.pc \in {"expired", "disinherit"}

(* One that nothing but the clock ends: a delay, or ulTaskNotifyTake as    *)
(* long as no notification comes.                                          *)
Napping(s, l, t) ==
  \/ l.op = "delay" /\ l.pc \in {"unlockTx", "unlockRx", "resume"}
  \/ l.pc = "back"
  \/ l.pc = "notified" /\ s.note[t].n = 0

(* A call does not give up before its time: the ticks that it counts as    *)
(* left reach to the end of its wait at least.                             *)
Punctual(s, l, t) ==
  /\ l.left \in 0 .. MAX_DELAY
  /\ l.pc \in {"suspend", "lock", "place"} => l.left # 0
  /\ InWait(l) => l.on \in OnType /\ l.on.tick \in 0 .. TickMod - 1 /\ Started(l) <= Now(s)
  /\ Counting(l) => l.due <= Started(l) + l.left
  /\ GivenUp(l) => l.due <= Now(s)
  /\ Napping(s, l, t) =>
       /\ t \notin ToSet(s.pending)
       /\ t \in Sleepers(s) => l.due <= WakesAt(s, t)
       /\ t \notin Blocked(s) => l.due <= Now(s)

(* Nor does it sleep past it: they do not reach beyond it.                 *)
Prompt(s, l, t) ==
  /\ t \in Sleepers(s) => WakesAt(s, t) <= l.due
  /\ Counting(l) => Started(l) + l.left <= l.due
  /\ l.pc = "place" /\ Counting(l) => Now(s) <= Started(l)

TimeInv == Clock(k) /\ \A t \in Task : Punctual(k, loc[t], t)
LateInv == \A t \in Task : Prompt(k, loc[t], t)

(* Elapsed ticks, modulo the turns of the count. *)
LEMMA RoundFacts ==
  ASSUME NEW j \in Int, NEW m \in Nat, m > 2, NEW d \in Int, -m < d, d < m, 0 <= j * m + d
  PROVE  /\ j * m \in Int
         /\ d % m \in Nat /\ d % m <= j * m + d
         /\ j # 0 /\ d >= 0 => m <= j * m + d
         /\ j <= 1 /\ ~(j # 0 /\ d >= 0) => d % m = j * m + d
<1>1. j * m \in Int
  OBVIOUS
<1>2. j <= -1 => j * m <= -m
  OBVIOUS
<1>3. j >= 1 => j * m >= m
  OBVIOUS
<1>4. j = 0 => j * m = 0
  OBVIOUS
<1>5. j = 1 => j * m = m
  OBVIOUS
<1>6. d % m = IF d < 0 THEN d + m ELSE d
  <2>1. -m <= d
    OBVIOUS
  <2> QED
    BY <2>1, ModDifference
<1> DEFINE p == j * m
           e == d % m
<1> HIDE DEF p, e
<1>7. /\ p \in Int /\ 0 <= p + d /\ (j <= -1 => p <= -m) /\ (j >= 1 => p >= m)
      /\ (j = 0 => p = 0) /\ (j = 1 => p = m)
      /\ (d < 0 => e = d + m) /\ (d >= 0 => e = d)
  BY <1>1, <1>2, <1>3, <1>4, <1>5, <1>6 DEF p, e
<1>8. e \in Nat /\ e <= p + d
  BY <1>7
<1>9. j # 0 /\ d >= 0 => m <= p + d
  BY <1>7
<1>10. j <= 1 /\ ~(j # 0 /\ d >= 0) => e = p + d
  BY <1>7
<1> QED
  BY <1>7, <1>8, <1>9, <1>10 DEF p, e

LEMMA Rounds ==
  ASSUME NEW a \in Int, NEW b \in Int, NEW m \in Nat
  PROVE  a * m - b * m = (a - b) * m /\ a * m \in Int /\ b * m \in Int /\ (a - b) * m \in Int
OBVIOUS

(* Where the wait was found not to be over, what is left of it is as much  *)
(* as before, or more by rounds of the count that went by unseen.          *)
LEMMA CheckTime ==
  ASSUME NEW s \in KType, s.tick < TickMod, NEW c \in LocType, c.on \in OnType,
         c.on.tick \in 0 .. TickMod - 1, Started(c) <= Now(s), c.left \in 1 .. MAX_DELAY
  PROVE  LET r == xTaskCheckForTimeOut(s, c) IN
         \/ r = [over |-> FALSE, c |-> c] /\ c.left = MAX_DELAY
         \/ /\ r = [over |-> TRUE, c |-> [c EXCEPT !.left = 0]] /\ c.left # MAX_DELAY
            /\ Started(c) + c.left <= Now(s)
         \/ \E w \in 1 .. MAX_DELAY :
              /\ r = [over |-> FALSE, c |-> [c EXCEPT !.left = w,
                                                      !.on = [tick |-> s.tick, over |-> s.over]]]
              /\ w # MAX_DELAY /\ c.left # MAX_DELAY
              /\ Started(c) + c.left <= Now(s) + w
              /\ s.over <= c.on.over + 1 => Now(s) + w <= Started(c) + c.left
<1> DEFINE d == s.tick - c.on.tick
           j == s.over - c.on.over
           e == d % TickMod
           w == c.left - e
           p == j * TickMod
           r == xTaskCheckForTimeOut(s, c)
<1>1. /\ TickMod \in Nat /\ TickMod > 2 /\ s.tick \in Nat /\ s.over \in Nat
      /\ c.on.tick \in Int /\ c.on.over \in Int /\ c.left \in Int /\ MAX_DELAY = TickMod - 1
      /\ Now(s) \in Int /\ 0 <= c.on.tick /\ c.on.tick < TickMod
  <2>1. Now(s) \in Int /\ TickMod \in Nat /\ TickMod > 2
    BY NowFacts
  <2>2. s.tick \in Nat /\ s.over \in Nat
    BY DEF KType
  <2>3. c.on.tick \in Int /\ c.on.over \in Int /\ c.left \in Int
    BY DEF LocType, OnType
  <2>4. MAX_DELAY = TickMod - 1
    BY DEF MAX_DELAY
  <2>5. 0 <= c.on.tick /\ c.on.tick < TickMod
    BY <2>1
  <2> QED
    BY <2>1, <2>2, <2>3, <2>4, <2>5
<1>2. d \in Int /\ -TickMod < d /\ d < TickMod /\ j \in Int
  BY <1>1
<1>3. p \in Int /\ Started(c) \in Int /\ Now(s) - Started(c) = p + d
  <2> DEFINE a == s.over * TickMod
             b == c.on.over * TickMod
  <2>1. a - b = p /\ a \in Int /\ b \in Int /\ p \in Int
    BY <1>1, Rounds
  <2>2. Now(s) = a + s.tick /\ Started(c) = b + c.on.tick
    BY DEF Now, Started
  <2> HIDE DEF a, b, p
  <2> QED
    BY <1>1, <2>1, <2>2
<1>4. 0 <= p + d
  BY <1>1, <1>3
<1>5. /\ e \in Nat /\ e <= p + d
      /\ j # 0 /\ d >= 0 => TickMod <= p + d
      /\ j <= 1 /\ ~(j # 0 /\ d >= 0) => e = p + d
  <2> HIDE DEF d, j
  <2> QED
    BY <1>1, <1>2, <1>4, RoundFacts
<1>6. r = IF c.left = MAX_DELAY THEN [over |-> FALSE, c |-> c]
          ELSE IF s.over # c.on.over /\ s.tick >= c.on.tick
          THEN [over |-> TRUE, c |-> [c EXCEPT !.left = 0]]
          ELSE IF e < c.left
          THEN [over |-> FALSE,
                c |-> [c EXCEPT !.left = w, !.on = [tick |-> s.tick, over |-> s.over]]]
          ELSE [over |-> TRUE, c |-> [c EXCEPT !.left = 0]]
  BY DEF xTaskCheckForTimeOut
<1>7. (j # 0 <=> s.over # c.on.over) /\ (d >= 0 <=> s.tick >= c.on.tick)
      /\ (s.over <= c.on.over + 1 => j <= 1)
  BY <1>1
<1> HIDE DEF d, j, e, p, r
<1>8. CASE c.left = MAX_DELAY
  BY <1>6, <1>8 DEF r
<1>9. CASE c.left # MAX_DELAY /\ j # 0 /\ d >= 0
  <2>1. r = [over |-> TRUE, c |-> [c EXCEPT !.left = 0]]
    BY <1>6, <1>7, <1>9
  <2>2. Started(c) + c.left <= Now(s)
    BY <1>1, <1>2, <1>3, <1>5, <1>9
  <2> QED
    BY <1>9, <2>1, <2>2 DEF r
<1>10. CASE c.left # MAX_DELAY /\ ~(j # 0 /\ d >= 0) /\ e < c.left
  <2>1. r = [over |-> FALSE,
             c |-> [c EXCEPT !.left = w, !.on = [tick |-> s.tick, over |-> s.over]]]
    BY <1>6, <1>7, <1>10
  <2>2. w \in 1 .. MAX_DELAY /\ w # MAX_DELAY
    BY <1>1, <1>5, <1>10
  <2>3. Started(c) + c.left <= Now(s) + w
    BY <1>1, <1>2, <1>3, <1>5
  <2>4. s.over <= c.on.over + 1 => Now(s) + w <= Started(c) + c.left
    BY <1>1, <1>2, <1>3, <1>5, <1>7, <1>10
  <2> HIDE DEF w
  <2> QED
    BY <1>10, <2>1, <2>2, <2>3, <2>4 DEF r
<1>11. CASE c.left # MAX_DELAY /\ ~(j # 0 /\ d >= 0) /\ ~(e < c.left)
  <2>1. r = [over |-> TRUE, c |-> [c EXCEPT !.left = 0]]
    BY <1>6, <1>7, <1>11
  <2>2. Started(c) + c.left <= Now(s)
    BY <1>1, <1>2, <1>3, <1>5, <1>11
  <2> QED
    BY <1>11, <2>1, <2>2 DEF r
<1> QED
  BY <1>8, <1>9, <1>10, <1>11

(* As time goes on, a task that does nothing stays in time. *)
LEMMA PunctualStays ==
  ASSUME NEW s \in KType, NEW r \in KType, NEW t \in Task, NEW l \in LocType,
         Passes(s, r, {t}), Waits(s, t) => Asleep(l), Waiting(s, t) => l.pc = "notified",
         Punctual(s, l, t)
  PROVE  Punctual(r, l, t)
<1>1. /\ Now(s) \in Int /\ Now(r) \in Int /\ Now(s) <= Now(r) /\ l.due \in Int
      /\ s.note[t].n \in Nat /\ r.note[t].n \in Nat /\ s.note[t].n <= r.note[t].n
      /\ WakesAt(s, t) \in Int
  BY NowFacts DEF Passes, LocType
<1>2. InWait(l) => l.on \in OnType /\ l.on.tick \in 0 .. TickMod - 1 /\ Started(l) <= Now(r)
  <2> SUFFICES ASSUME InWait(l) PROVE Started(l) <= Now(r)
    BY DEF Punctual
  <2>1. Started(l) <= Now(s) /\ Started(l) \in Int
    <3>1. l.on.over * TickMod \in Int
      BY KernelAssumption DEF Punctual, OnType
    <3> QED
      BY <3>1 DEF Punctual, OnType, Started
  <2> QED
    BY <1>1, <2>1
<1>3. GivenUp(l) => l.due <= Now(r)
  BY <1>1 DEF Punctual
<1>4. ASSUME Napping(r, l, t)
      PROVE  /\ t \notin ToSet(r.pending)
             /\ t \in Sleepers(r) => l.due <= WakesAt(r, t)
             /\ t \notin Blocked(r) => l.due <= Now(r)
  <2>1. Napping(s, l, t)
    BY <1>1, <1>4 DEF Napping
  <2>2. ~Excused(s, r, t)
    <3>1. ~Waits(s, t)
      BY <1>4 DEF Napping, Asleep
    <3>2. t \notin ToSet(s.pending)
      BY <2>1 DEF Punctual
    <3>3. ~(Waiting(s, t) /\ r.note[t].n >= 1)
      BY <1>4 DEF Napping
    <3> QED
      BY <3>1, <3>2, <3>3 DEF Excused
  <2>3. /\ t \notin ToSet(r.pending)
        /\ t \in Sleepers(r) => t \in Sleepers(s) /\ WakesAt(r, t) = WakesAt(s, t)
        /\ t \in Blocked(s) /\ t \notin Blocked(r) => t \in Sleepers(s) /\ WakesAt(s, t) <= Now(r)
    BY <2>2 DEF Passes
  <2>4. /\ t \in Sleepers(s) => l.due <= WakesAt(s, t)
        /\ t \notin Blocked(s) => l.due <= Now(s)
    BY <2>1 DEF Punctual
  <2> QED
    BY <1>1, <2>3, <2>4
<1> QED
  BY <1>2, <1>3, <1>4 DEF Punctual

LEMMA PromptStays ==
  ASSUME NEW s \in KType, NEW r \in KType, NEW t \in Task, NEW l,
         Passes(s, r, {t}), Prompt(s, l, t), l.pc = "place" => Now(r) = Now(s)
  PROVE  Prompt(r, l, t)
BY DEF Passes, Prompt

-----------------------------------------------------------------------------
(* Steps. *)

(* A task that is in no call is in time. *)
LEMMA PunctualHome ==
  ASSUME NEW s, NEW t PROVE Punctual(s, Home, t)
<1>1. 0 \in 0 .. MAX_DELAY
  BY KernelAssumption DEF MAX_DELAY
<1> QED
  BY <1>1 DEF Punctual, Home, InWait, Counting, GivenUp, Napping

(* A step leaves the tasks of T where they are in their calls. *)
LEMMA StepTime ==
  ASSUME Inv, TimeInv, LInv(k'), Clock(k'), NEW T \in SUBSET Task, Passes(k, k', T),
         \A u \in T : loc'[u] = loc[u],
         \A u \in Task \ T : Punctual(k', loc'[u], u)
  PROVE  TimeInv'
<1>1. k \in KType /\ k' \in KType /\ Ctx(k, loc, pendsv) /\ loc \in [Task -> LocType]
  BY DEF Inv, LInv
<1>2. ASSUME NEW u \in T PROVE Punctual(k', loc'[u], u)
  <2>1. Passes(k, k', {u})
    BY DEF Passes
  <2>2. loc[u] \in LocType /\ Punctual(k, loc[u], u)
    BY <1>1 DEF TimeInv
  <2>3. (Waits(k, u) => Asleep(loc[u])) /\ (Waiting(k, u) => loc[u].pc = "notified")
    BY <1>1 DEF Ctx
  <2> QED
    BY <1>1, <2>1, <2>2, <2>3, PunctualStays
<1> QED
  BY <1>2 DEF TimeInv

LEMMA StepLate ==
  ASSUME Inv, LateInv, LInv(k'), NEW T \in SUBSET Task, Passes(k, k', T),
         \A u \in T : loc'[u] = loc[u],
         \A u \in T : loc[u].pc = "place" => Now(k') = Now(k),
         \A u \in Task \ T : Prompt(k', loc'[u], u)
  PROVE  LateInv'
<1>1. k \in KType /\ k' \in KType
  BY DEF Inv, LInv
<1>2. ASSUME NEW u \in T PROVE Prompt(k', loc'[u], u)
  <2>1. Passes(k, k', {u})
    BY DEF Passes
  <2> QED
    BY <1>1, <2>1, PromptStays DEF LateInv
<1> QED
  BY <1>2 DEF LateInv

(* A step of the running task. *)
LEMMA MoveTime ==
  ASSUME Inv, TimeInv, LInv(k'), Clock(k'), NEW t \in Task, t = k.cur, Passes(k, k', Task \ {t}),
         NEW x, loc' = [loc EXCEPT ![t] = x], Punctual(k', x, t)
  PROVE  TimeInv' /\ (LateInv /\ Prompt(k', x, t) => LateInv')
<1>1. loc \in [Task -> LocType] /\ Ctx(k, loc, pendsv)
  BY DEF Inv
<1>2. loc'[t] = x /\ \A u \in Task \ {t} : loc'[u] = loc[u]
  BY <1>1
<1>3. \A u \in Task \ {t} : loc[u].pc # "place"
  BY <1>1 DEF Ctx, Locked
<1>4. TimeInv'
  BY <1>2, StepTime
<1>5. LateInv /\ Prompt(k', x, t) => LateInv'
  BY <1>2, <1>3, StepLate
<1> QED
  BY <1>4, <1>5

LEMMA ReturnTime ==
  ASSUME Inv, TimeInv, LInv(k'), Clock(k'), NEW t \in Task, t = k.cur, Passes(k, k', Task \ {t}),
         Return(t), t \notin Sleepers(k')
  PROVE  TimeInv' /\ (LateInv => LateInv')
<1>1. Prompt(k', Home, t)
  BY DEF Prompt, Home, Counting, InWait
<1> QED
  BY <1>1, PunctualHome, MoveTime DEF Return

LEMMA LessPasses ==
  ASSUME NEW s, NEW r, NEW T, NEW U, U \subseteq T, Passes(s, r, T)
  PROVE  Passes(s, r, U)
BY DEF Passes

(* A ready task does not sleep. *)
LEMMA AwakeFacts ==
  ASSUME NEW s, LInv(s), NEW t \in Task, IsReady(s, t)
  PROVE  t \notin Sleepers(s) /\ t \notin Blocked(s)
BY DEF LInv, RInv, InOne, OneOf, Sleepers, Blocked

(* The call returns. *)
LEMMA ReturnsTime ==
  ASSUME Inv, TimeInv, LInv(k'), Clock(k'), NEW t \in Task, Runs(t), loc[t].pc \notin Locked,
         Passes(k, k', Task), Return(t)
  PROVE  TimeInv' /\ (LateInv => LateInv')
<1>1. t = k.cur /\ IsReady(k, t)
  BY RunsFacts
<1>2. t \notin Sleepers(k)
  BY <1>1, AwakeFacts DEF Inv
<1>3. t \notin Sleepers(k') /\ Passes(k, k', Task \ {t})
  BY <1>2 DEF Passes
<1> QED
  BY <1>1, <1>3, ReturnTime

(* Someone is woken. *)
LEMMA WakeTime ==
  ASSUME NEW s, LInv(s), NEW e \in EventLists, NEW otherwise, Wake(s, e, otherwise)
  PROVE  LInv(k') /\ Calm(s, k') /\ (Clock(s) => Clock(k')) /\ Passes(s, k', Task)
<1>1. LInv(k') /\ Calm(s, k')
  BY WakeFacts
<1>2. CASE s.ev[e] # <<>>
  <2> DEFINE r == xTaskRemoveFromEventList(s, e)
  <2>1. (Clock(s) => Clock(r.s)) /\ Passes(s, r.s, Task)
    BY <1>2, RemoveEventTime
  <2>2. k' = r.s
    BY <1>2 DEF Wake
  <2> HIDE DEF r
  <2> QED
    BY <1>1, <2>1, <2>2
<1>3. CASE s.ev[e] = <<>>
  <2>1. k' = s /\ s \in KType
    BY <1>3 DEF Wake, LInv
  <2>2. Passes(s, s, Task)
    BY <2>1, StillSame, StillClock
  <2> QED
    BY <1>1, <2>1, <2>2
<1> QED
  BY <1>2, <1>3

(* What an interrupt does while the scheduler is suspended takes no time. *)
LEMMA RemoveEventNow ==
  ASSUME NEW s \in KType, NEW e, s.susp
  PROVE  Now(xTaskRemoveFromEventList(s, e).s) = Now(s)
<1> DEFINE t == Head(s.ev[e])
           E == [s.ev EXCEPT ![e] = Tail(@)]
           P == Append(s.pending, t)
           Y == s.ypend \/ s.prio[t] > s.prio[s.cur]
<1>1. xTaskRemoveFromEventList(s, e).s = [s EXCEPT !.ev = E, !.pending = P, !.ypend = Y]
  BY DEF xTaskRemoveFromEventList, KType
<1> HIDE DEF E, P, Y
<1> QED
  BY <1>1 DEF Now, KType

LEMMA NotifyNow ==
  ASSUME NEW s \in KType, NEW t, s.susp
  PROVE  Now(Notify(s, t).s) = Now(s)
<1> DEFINE N == [s.note EXCEPT ![t] = [n |-> @.n + 1, state |-> "received"]]
           P == Append(s.pending, t)
<1>1. \/ Notify(s, t).s = [s EXCEPT !.note = N, !.pending = P]
      \/ Notify(s, t).s = [s EXCEPT !.note = N]
  BY DEF Notify, KType
<1> HIDE DEF N, P
<1> QED
  BY <1>1 DEF Now, KType

(* The tick count does not move between the look at the clock and the place*)
(* on the list.                                                            *)
LEMMA PlaceSuspended ==
  ASSUME Inv, NEW u \in Task, loc[u].pc = "place" PROVE k.susp /\ u = k.cur
BY DEF Inv, Ctx, Locked

(* The calls, from their first critical section. *)
LEMMA SameTime ==
  ASSUME Inv, TimeInv, k' = k
  PROVE  LInv(k') /\ Clock(k') /\ Passes(k, k', Task) /\ Now(k') = Now(k)
<1>1. k \in KType /\ LInv(k)
  BY DEF Inv, LInv
<1>2. Passes(k, k, Task)
  BY <1>1, StillSame, StillClock
<1> QED
  BY <1>1, <1>2 DEF TimeInv

LEMMA CallsTime ==
  ASSUME Inv, TimeInv, NEW t \in Task, NEW c \in Calls(t)
  PROVE  /\ c.left \in 0 .. MAX_DELAY
         /\ loc[t].pc = "try" => c = loc[t] /\ Punctual(k, c, t) /\ InWait(c)
         /\ loc[t].pc = "app" => c.on = None /\ c.pc = "app"
<1>1. CASE loc[t].pc = "try"
  <2>1. c = loc[t]
    BY <1>1 DEF Calls
  <2>2. Punctual(k, c, t) /\ Steady(c)
    BY <2>1 DEF TimeInv, Inv
  <2> QED
    BY <1>1, <2>1, <2>2 DEF Punctual, InWait, Steady
<1>2. CASE loc[t].pc # "try"
  <2>1. /\ loc[t].pc = "app"
        /\ c \in {[Home EXCEPT !.op = x.op, !.obj = x.obj, !.left = x.wait] : x \in conf.calls[t]}
    BY <1>2 DEF Calls
  <2>2. PICK x \in conf.calls[t] : c = [Home EXCEPT !.op = x.op, !.obj = x.obj, !.left = x.wait]
    BY <2>1
  <2>3. conf \in Confs /\ conf.calls \in [Task -> SUBSET CallType]
    BY KernelAssumption DEF Inv
  <2>4. x \in CallType
    BY <2>2, <2>3
  <2>5. x.wait \in 0 .. MAX_DELAY
    BY <2>4 DEF CallType
  <2> QED
    BY <1>2, <2>1, <2>2, <2>5 DEF Home
<1> QED
  BY <1>1, <1>2

LEMMA StartedNow ==
  ASSUME NEW s \in KType, s.tick < TickMod, NEW l, l.on = [tick |-> s.tick, over |-> s.over]
  PROVE  l.on \in OnType /\ l.on.tick \in 0 .. TickMod - 1 /\ Started(l) = Now(s)
<1>1. s.tick \in Nat /\ s.over \in Nat /\ TickMod \in Nat
  BY KernelAssumption DEF KType
<1>2. s.tick \in 0 .. TickMod - 1
  BY <1>1
<1> QED
  BY <1>1, <1>2 DEF OnType, Started, Now

(* vTaskSetTimeOutState: the wait begins now. *)
LEMMA NotNowTime ==
  ASSUME Inv, TimeInv, NEW t \in Task, Runs(t), NEW c \in Calls(t), c.op \in {"send", "recv", "take"},
         NotNow(t, c)
  PROVE  TimeInv' /\ (LateInv => LateInv')
<1>1. /\ c \in LocType /\ loc[t].pc \in {"app", "try"} /\ loc[t].pc \notin Locked
      /\ c.left \in 0 .. MAX_DELAY
      /\ loc[t].pc = "try" => c = loc[t] /\ Punctual(k, c, t) /\ InWait(c)
      /\ loc[t].pc = "app" => c.on = None /\ c.pc = "app"
  BY CallsFacts, CallsTime
<1>2. /\ k' = k /\ t = k.cur /\ k \in KType /\ k.tick < TickMod
      /\ LInv(k') /\ Clock(k') /\ Passes(k, k', Task) /\ Passes(k, k', Task \ {t})
  <2>1. k' = k
    BY DEF NotNow
  <2>2. LInv(k') /\ Clock(k') /\ Passes(k, k', Task)
    BY <2>1, SameTime
  <2> QED
    BY <2>1, <2>2, LessPasses, RunsFacts DEF Inv, LInv, TimeInv, Clock
<1>3. t \notin Sleepers(k')
  BY <1>1, <1>2, RunsFacts, AwakeFacts
<1>4. CASE c.left = 0
  <2> DEFINE x == [c EXCEPT !.pc = "asserted"]
  <2>1. Return(t) \/ loc' = [loc EXCEPT ![t] = x]
    BY <1>4 DEF NotNow, Goto
  <2>2. x.left = 0 /\ x.pc = "asserted"
    BY <1>1, <1>4 DEF LocType
  <2> HIDE DEF x
  <2>3. 0 \in 0 .. MAX_DELAY
    BY <1>1, <1>4
  <2>4. Punctual(k', x, t) /\ Prompt(k', x, t)
    BY <1>3, <2>2, <2>3 DEF Punctual, Prompt, InWait, Counting, GivenUp, Napping
  <2>5. CASE Return(t)
    BY <1>1, <1>2, <2>5, ReturnsTime
  <2>6. CASE loc' = [loc EXCEPT ![t] = x]
    BY <1>2, <2>4, <2>6, MoveTime
  <2> QED
    BY <2>1, <2>5, <2>6
<1>5. CASE c.left # 0 /\ c.on # None
  <2> DEFINE x == [c EXCEPT !.pc = "suspend"]
  <2>1. loc' = [loc EXCEPT ![t] = x]
    BY <1>5 DEF NotNow, Goto
  <2>2. /\ x.left = c.left /\ x.pc = "suspend" /\ x.on = c.on /\ x.op = c.op /\ x.due = c.due
    BY <1>1 DEF LocType
  <2> HIDE DEF x
  <2>3. c = loc[t] /\ Punctual(k, c, t) /\ InWait(c)
    BY <1>1, <1>5
  <2>4. Punctual(k', x, t)
    BY <1>2, <1>5, <2>2, <2>3 DEF Punctual, InWait, Counting, GivenUp, Napping, Started
  <2>5. LateInv => Prompt(k', x, t)
    BY <1>3, <2>2, <2>3 DEF LateInv, Prompt, Counting, InWait, Started
  <2> QED
    BY <1>2, <2>1, <2>4, <2>5, MoveTime
<1>6. CASE c.left # 0 /\ c.on = None
  <2> DEFINE o == [tick |-> k.tick, over |-> k.over]
             d == EndOf(c.left)
             x == [c EXCEPT !.on = o, !.due = d, !.pc = "suspend"]
  <2>1. loc' = [loc EXCEPT ![t] = x]
    BY <1>6 DEF NotNow, Goto
  <2>2. x.left = c.left /\ x.pc = "suspend" /\ x.on = o /\ x.op = c.op /\ x.due = d
    <3> HIDE DEF o, d
    <3> QED
      BY <1>1 DEF LocType
  <2> HIDE DEF x
  <2>3. x.on \in OnType /\ x.on.tick \in 0 .. TickMod - 1 /\ Started(x) = Now(k)
    BY <1>2, <2>2, StartedNow
  <2>4. Counting(x) => x.due = Now(k) + x.left
    BY <2>2 DEF Counting, EndOf
  <2>5. Now(k) \in Int /\ c.left \in Int
    BY <1>1, <1>2, NowFacts DEF LocType
  <2> HIDE DEF o, d
  <2>6. Punctual(k', x, t)
    BY <1>1, <1>2, <1>6, <2>2, <2>3, <2>4, <2>5 DEF Punctual, GivenUp, Napping
  <2>7. Prompt(k', x, t)
    BY <1>3, <2>2, <2>3, <2>4, <2>5 DEF Prompt
  <2> QED
    BY <1>2, <2>1, <2>6, <2>7, MoveTime
<1> QED
  BY <1>4, <1>5, <1>6

LEMMA SendTime ==
  ASSUME Inv, TimeInv, NEW t \in Task, TrySend(t)
  PROVE  TimeInv' /\ (LateInv => LateInv')
<1>1. Runs(t)
  BY DEF TrySend
<1>2. PICK c \in Calls(t) :
        /\ c.op = "send"
        /\ IF que.n < QueueLength THEN Wake(k, "recv", FALSE) /\ Return(t) ELSE NotNow(t, c)
  BY DEF TrySend
<1>3. CASE que.n < QueueLength
  <2>1. LInv(k') /\ Clock(k') /\ Passes(k, k', Task)
    BY <1>2, <1>3, WakeTime DEF Inv, TimeInv, EventLists
  <2>2. loc[t].pc \notin Locked
    BY CallsFacts
  <2> QED
    BY <1>1, <1>2, <1>3, <2>1, <2>2, ReturnsTime
<1>4. CASE ~(que.n < QueueLength)
  BY <1>1, <1>2, <1>4, NotNowTime
<1> QED
  BY <1>3, <1>4

LEMMA ReceiveTime ==
  ASSUME Inv, TimeInv, NEW t \in Task, TryReceive(t)
  PROVE  TimeInv' /\ (LateInv => LateInv')
<1>1. Runs(t)
  BY DEF TryReceive
<1>2. PICK c \in Calls(t) :
        /\ c.op = "recv"
        /\ IF que.n > 0 THEN Wake(k, "send", FALSE) /\ Return(t) ELSE NotNow(t, c)
  BY DEF TryReceive
<1>3. CASE que.n > 0
  <2>1. LInv(k') /\ Clock(k') /\ Passes(k, k', Task)
    BY <1>2, <1>3, WakeTime DEF Inv, TimeInv, EventLists
  <2>2. loc[t].pc \notin Locked
    BY CallsFacts
  <2> QED
    BY <1>1, <1>2, <1>3, <2>1, <2>2, ReturnsTime
<1>4. CASE ~(que.n > 0)
  BY <1>1, <1>2, <1>4, NotNowTime
<1> QED
  BY <1>3, <1>4

LEMMA TakeTime ==
  ASSUME Inv, TimeInv, NEW t \in Task, TryTake(t)
  PROVE  TimeInv' /\ (LateInv => LateInv')
<1>1. Runs(t)
  BY DEF TryTake
<1>2. PICK c \in Calls(t) :
        /\ c.op = "take"
        /\ IF holder[c.obj] = None
           THEN k' = [k EXCEPT !.held[t] = @ + 1] /\ Return(t)
           ELSE NotNow(t, c)
  BY DEF TryTake
<1>3. CASE holder[c.obj] = None
  <2>1. LInv(k) /\ k \in KType /\ Clock(k)
    BY DEF Inv, LInv, TimeInv
  <2>2. k' = [k EXCEPT !.held[t] = k.held[t] + 1] /\ k.held[t] + 1 \in Int
    BY <1>2, <1>3, <2>1 DEF KType
  <2>3. LInv(k') /\ Still(k, k')
    BY <2>1, <2>2, HeldFacts, HeldStill
  <2>4. Clock(k') /\ Passes(k, k', Task)
    BY <2>1, <2>3, StillClock DEF LInv
  <2>5. loc[t].pc \notin Locked
    BY CallsFacts
  <2> QED
    BY <1>1, <1>2, <1>3, <2>3, <2>4, <2>5, ReturnsTime
<1>4. CASE holder[c.obj] # None
  BY <1>1, <1>2, <1>4, NotNowTime
<1> QED
  BY <1>3, <1>4

LEMMA GiveTime ==
  ASSUME Inv, TimeInv, NEW t \in Task, xSemaphoreGive(t)
  PROVE  TimeInv' /\ (LateInv => LateInv')
<1>1. Runs(t) /\ Return(t)
  BY DEF xSemaphoreGive
<1> DEFINE d == xTaskPriorityDisinherit(k, t)
<1>2. PICK c \in Calls(t) : c.op = "give" /\ Wake(d.s, c.obj, d.yield)
  BY DEF xSemaphoreGive
<1>3. LInv(d.s) /\ Calm(k, d.s) /\ Still(k, d.s) /\ k \in KType /\ Clock(k)
  BY DisinheritFacts, DisinheritStill DEF Inv, LInv, TimeInv
<1> HIDE DEF d
<1>4. c \in LocType /\ loc[t].pc \notin Locked
  BY CallsFacts
<1>5. c.obj \in EventLists
  BY <1>2, <1>4 DEF LocType, EventLists
<1>6. LInv(k') /\ (Clock(d.s) => Clock(k')) /\ Passes(d.s, k', Task)
  BY <1>2, <1>3, <1>5, WakeTime
<1>7. Clock(d.s)
  BY <1>3, StillClock DEF LInv
<1>8. Passes(k, k', Task)
  BY <1>3, <1>6, StillPasses DEF LInv
<1> QED
  BY <1>1, <1>4, <1>6, <1>7, <1>8, ReturnsTime

LEMMA NotifyGiveTime ==
  ASSUME Inv, TimeInv, Inv', NEW t \in Task, xTaskNotifyGive(t)
  PROVE  TimeInv' /\ (LateInv => LateInv')
<1>1. Runs(t) /\ Return(t)
  BY DEF xTaskNotifyGive
<1>2. PICK c \in Calls(t) : c.op = "ngive" /\ k' = Notify(k, c.obj).s
  BY DEF xTaskNotifyGive
<1>3. c \in LocType /\ loc[t].pc \notin Locked
  BY CallsFacts
<1>4. c.obj \in Task
  BY <1>2, <1>3 DEF LocType
<1>5. Clock(k') /\ Passes(k, k', Task) /\ LInv(k')
  BY <1>2, <1>4, NotifiableFacts, NotifyTime DEF Inv, TimeInv
<1> QED
  BY <1>1, <1>3, <1>5, ReturnsTime

LEMMA CreateTime ==
  ASSUME Inv, TimeInv, Inv', NEW t \in Task, xTaskCreate(t)
  PROVE  TimeInv' /\ (LateInv => LateInv')
<1>1. Runs(t) /\ Return(t)
  BY DEF xTaskCreate
<1>2. PICK c \in Calls(t) :
        /\ c.obj \in k.gone
        /\ k' = k \/ k' = prvAddTaskToReadyList([k EXCEPT !.gone = @ \ {c.obj}], c.obj)
  BY DEF xTaskCreate
<1>3. loc[t].pc \notin Locked
  BY CallsFacts
<1>4. k \in KType /\ Clock(k) /\ LInv(k') /\ k' \in KType /\ c.obj \in Task
  BY <1>2 DEF Inv, LInv, TimeInv, KType
<1>5. Still(k, k')
  BY <1>2, <1>4, StillSame, CreateStill
<1>6. Clock(k') /\ Passes(k, k', Task)
  BY <1>4, <1>5, StillClock
<1> QED
  BY <1>1, <1>3, <1>4, <1>6, ReturnsTime

LEMMA DeleteTime ==
  ASSUME Inv, TimeInv, Inv', NEW t \in Task, vTaskDelete(t)
  PROVE  TimeInv' /\ (LateInv => LateInv')
<1>1. Runs(t) /\ Return(t) /\ k' = [UnReady(k, t) EXCEPT !.term = @ \cup {t}]
  BY DEF vTaskDelete
<1>2. loc[t].pc \notin Locked
  <2>1. PICK c \in Calls(t) : c.op = "delete"
    BY DEF vTaskDelete
  <2> QED
    BY <2>1, CallsFacts
<1>3. k \in KType /\ LInv(k) /\ Clock(k) /\ LInv(k') /\ k' \in KType /\ IsReady(k, t)
  BY <1>1, <1>2, RunsFacts DEF Inv, LInv, TimeInv
<1>4. Still(k, k')
  BY <1>1, <1>3, DeleteStill
<1>5. Clock(k') /\ Passes(k, k', Task)
  BY <1>3, <1>4, StillClock
<1> QED
  BY <1>1, <1>2, <1>3, <1>5, ReturnsTime

(* A notification is awaited, and taken. *)
LEMMA NoteSetTime ==
  ASSUME NEW s, LInv(s), NEW t \in Task, NEW v \in [n : Nat, state : States]
  PROVE  LET r == [s EXCEPT !.note[t] = v] IN
         /\ LInv(r) /\ SameClock(s, r) /\ r.pending = s.pending /\ r.note[t] = v /\ r.cur = s.cur
         /\ (Clock(s) => Clock(r)) /\ Passes(s, r, Task \ {t})
         /\ \A u \in Task : u # t => (Waiting(r, u) => Waiting(s, u))
         /\ \A u \in Task : (Waits(r, u) => Waits(s, u)) /\ (IsReady(r, u) <=> IsReady(s, u))
<1> DEFINE N == [s.note EXCEPT ![t] = v]
           r == [s EXCEPT !.note = N]
<1>1. [s EXCEPT !.note[t] = v] = r
  OBVIOUS
<1>2. s \in KType /\ N[t] = v /\ \A u \in Task : u # t => N[u] = s.note[u]
  BY DEF LInv, KType
<1>3. /\ LInv(r) /\ r.pending = s.pending /\ r.ev = s.ev /\ r.cur = s.cur
      /\ \A u \in Task : u # t => (Waiting(r, u) <=> Waiting(s, u))
      /\ \A u \in Task : IsReady(r, u) <=> IsReady(s, u)
  BY <1>1, NoteFacts
<1> HIDE DEF N
<1>4. SameClock(s, r) /\ r.note = N
  BY <1>2 DEF SameClock, KType
<1> HIDE DEF r
<1>5. (Clock(s) => Clock(r)) /\ Passes(s, r, Task \ {t})
  BY <1>2, <1>3, <1>4, NoteTime DEF LInv
<1> QED
  BY <1>1, <1>2, <1>3, <1>4, <1>5 DEF Waits

(* vTaskDelay. *)
LEMMA DelayTime ==
  ASSUME Inv, TimeInv, Inv', NEW t \in Task, vTaskDelay(t)
  PROVE  TimeInv' /\ (LateInv => LateInv')
<1>1. Runs(t)
  BY DEF vTaskDelay
<1>2. PICK c \in Calls(t) :
        /\ c.op = "delay"
        /\ \/ Return(t) /\ k' = k
           \/ /\ c.left > 0
              /\ k' = [prvAddCurrentTaskToDelayedList(k, c.left, FALSE) EXCEPT !.susp = TRUE]
              /\ Goto(t, [c EXCEPT !.after = "block", !.due = Now(k) + c.left], "resume")
  BY DEF vTaskDelay
<1>3. /\ loc[t].pc \in {"app", "try"} /\ loc[t].pc \notin Locked /\ c \in LocType
      /\ c.left \in 0 .. MAX_DELAY
  BY CallsFacts, CallsTime
<1>4. CASE Return(t) /\ k' = k
  BY <1>1, <1>3, <1>4, SameTime, ReturnsTime
<1>5. CASE /\ c.left > 0
           /\ k' = [prvAddCurrentTaskToDelayedList(k, c.left, FALSE) EXCEPT !.susp = TRUE]
           /\ Goto(t, [c EXCEPT !.after = "block", !.due = Now(k) + c.left], "resume")
  <2> DEFINE b == prvAddCurrentTaskToDelayedList(k, c.left, FALSE)
             d == Now(k) + c.left
             x == [c EXCEPT !.after = "block", !.due = d, !.pc = "resume"]
  <2>1. /\ t = k.cur /\ k.pending = <<>> /\ IsReady(k, t)
    BY <1>1, <1>3, RunsFacts
  <2>2. LInv(k) /\ k \in KType /\ RInv(k) /\ Clock(k) /\ LInv(k') /\ k' \in KType
    BY DEF Inv, LInv, TimeInv
  <2>3. c.left \in Int /\ c.left \in 1 .. MAX_DELAY /\ Now(k) \in Int
    <3>1. MAX_DELAY \in Int /\ Now(k) \in Int
      BY <2>2, NowFacts, KernelAssumption DEF MAX_DELAY
    <3> QED
      BY <1>3, <1>5, <3>1
  <2>4. /\ b \in KType /\ Clock(b) /\ Now(b) = Now(k) /\ Passes(k, b, Task \ {t})
        /\ t \in Sleepers(b) /\ WakesAt(b, t) = d /\ t \in Blocked(b) /\ b.pending = k.pending
    BY <2>1, <2>2, <2>3, BlockTime, ZenonT(60)
  <2>5. Sleeps(k, b) /\ b.ev = k.ev
    BY <2>1, <2>2, <2>3, BlockInv
  <2> HIDE DEF b
  <2>6. k' = [b EXCEPT !.susp = TRUE]
    BY <1>5 DEF b
  <2>7. Still(b, k')
    BY <2>4, <2>6, SuspendStill
  <2>8. Clock(k') /\ Passes(b, k', Task \ {t})
    BY <2>2, <2>4, <2>7, StillClock
  <2>9. \A u \in Task : (Waits(b, u) => Waits(k, u)) /\ (Waiting(b, u) => Waiting(k, u))
    BY <2>5 DEF Waits, Waiting, Sleeps
  <2>10. Passes(k, k', Task \ {t})
    BY <2>2, <2>4, <2>8, <2>9, PassesThen
  <2>11. /\ t \in Sleepers(k') /\ WakesAt(k', t) = d /\ t \in Blocked(k') /\ k'.pending = <<>>
    BY <2>1, <2>4, <2>7 DEF Still, SameClock, Sleepers, WakesAt, Blocked
  <2>12. loc' = [loc EXCEPT ![t] = x]
    BY <1>5 DEF Goto
  <2> HIDE DEF d
  <2>13. x.pc = "resume" /\ x.op = "delay" /\ x.due = d /\ x.left = c.left
    BY <1>2, <1>3 DEF LocType
  <2> HIDE DEF x
  <2>14. d \in Int
    BY <2>3 DEF d
  <2>15. t \notin ToSet(k'.pending)
    BY <2>11 DEF ToSet
  <2>16. Punctual(k', x, t)
    BY <1>3, <2>11, <2>13, <2>14, <2>15 DEF Punctual, InWait, Counting, GivenUp
  <2>17. Prompt(k', x, t)
    BY <2>11, <2>13, <2>14 DEF Prompt, InWait, Counting
  <2> QED
    BY <2>1, <2>2, <2>8, <2>10, <2>12, <2>16, <2>17, MoveTime
<1> QED
  BY <1>2, <1>4, <1>5

(* ulTaskNotifyTake. *)
LEMMA NotifyTakeTime ==
  ASSUME Inv, TimeInv, Inv', NEW t \in Task, ulTaskNotifyTake(t)
  PROVE  TimeInv' /\ (LateInv => LateInv')
<1> DEFINE v == [n |-> k.note[t].n, state |-> "waiting"]
           w == [k EXCEPT !.note[t] = v]
           s == IF k.note[t].n = 0 THEN w ELSE k
<1>1. Runs(t)
  BY DEF ulTaskNotifyTake
<1>2. LInv(k) /\ k \in KType /\ Clock(k) /\ k.note[t] \in [n : Nat, state : States]
      /\ LInv(k') /\ k' \in KType
  BY DEF Inv, LInv, TimeInv, KType
<1>3. [k EXCEPT !.note[t].state = "waiting"] = w
  <2>1. [k.note[t] EXCEPT !.state = "waiting"] = v
    BY <1>2
  <2> QED
    BY <1>2, <2>1 DEF KType
<1>4. PICK c \in Calls(t) :
       /\ c.op = "ntake"
       /\ IF k.note[t].n = 0 /\ c.left > 0
          THEN k' = prvAddCurrentTaskToDelayedList(s, c.left, TRUE)
          ELSE k' = s
       /\ Goto(t, [c EXCEPT !.due = EndOf(c.left)], "notified")
  <2> HIDE DEF w
  <2> QED
    BY <1>3 DEF ulTaskNotifyTake
<1>5. /\ loc[t].pc \notin Locked /\ c \in LocType /\ c.left \in 0 .. MAX_DELAY
  BY CallsFacts, CallsTime
<1>6. t = k.cur /\ k.pending = <<>> /\ IsReady(k, t)
  BY <1>1, <1>5, RunsFacts
<1>7. /\ LInv(s) /\ SameClock(k, s) /\ s.pending = k.pending /\ s.cur = k.cur
      /\ s.note[t].n = k.note[t].n /\ Clock(s) /\ Passes(k, s, Task \ {t})
      /\ \A u \in Task \ {t} : (Waits(s, u) => Waits(k, u)) /\ (Waiting(s, u) => Waiting(k, u))
      /\ IsReady(s, t)
  <2>1. v \in [n : Nat, state : States] /\ v.n = k.note[t].n
    BY <1>2 DEF States
  <2>2. CASE s = k
    <3>1. Passes(k, k, Task \ {t})
      BY <1>2, StillSame, StillClock
    <3> QED
      BY <1>2, <1>6, <2>2, <3>1 DEF SameClock
  <2>3. CASE s = w
    <3>0. w = [k EXCEPT !.note[t] = v]
      OBVIOUS
    <3> HIDE DEF v, w, s
    <3>1. LInv(w) /\ SameClock(k, w) /\ Clock(w) /\ Passes(k, w, Task \ {t})
      BY <1>2, <2>1, <3>0, NoteSetTime
    <3>4. w.pending = k.pending /\ w.note[t] = v /\ w.cur = k.cur
      BY <1>2, <3>0 DEF KType
    <3>5. \A u \in Task \ {t} : Waiting(w, u) => Waiting(k, u)
      BY <1>2, <2>1, <3>0, NoteSetTime
    <3>6. \A u \in Task : (Waits(w, u) => Waits(k, u)) /\ (IsReady(w, u) <=> IsReady(k, u))
      BY <1>2, <2>1, <3>0, NoteSetTime
    <3>2. s = w
      BY <2>3
    <3> QED
      BY <1>2, <1>6, <2>1, <3>1, <3>2, <3>4, <3>5, <3>6
  <2> QED
    BY <2>2, <2>3
<1> HIDE DEF s
<1> DEFINE d == EndOf(c.left)
           x == [c EXCEPT !.due = d, !.pc = "notified"]
<1>8. c.left \in Int /\ d \in Int /\ MAX_DELAY \in Int /\ MAX_DELAY # 0 /\ Now(k) \in Int
      /\ (c.left # MAX_DELAY => d = Now(k) + c.left)
  BY <1>2, <1>5, TimeFacts, NowFacts, KernelAssumption DEF LocType, MAX_DELAY, EndOf
<1>9. /\ Clock(k') /\ Passes(k, k', Task \ {t}) /\ k'.pending = <<>>
      /\ t \in Sleepers(k') => WakesAt(k', t) = d
      /\ t \notin Blocked(k') => k'.note[t].n # 0 \/ d <= Now(k')
  <2>1. CASE k.note[t].n = 0 /\ c.left > 0
    <3> DEFINE b == prvAddCurrentTaskToDelayedList(s, c.left, TRUE)
    <3>1. c.left \in 1 .. MAX_DELAY /\ s \in KType /\ RInv(s) /\ IsReady(s, s.cur)
      BY <1>5, <1>6, <1>7, <1>8, <2>1 DEF LInv
    <3>2. /\ b \in KType /\ Clock(b) /\ Passes(s, b, Task \ {s.cur})
          /\ c.left = MAX_DELAY /\ TRUE => s.cur \notin Sleepers(b)
          /\ ~(c.left = MAX_DELAY /\ TRUE) => WakesAt(b, s.cur) = Now(s) + c.left
          /\ s.cur \in Blocked(b) /\ b.pending = s.pending
      BY <1>7, <3>1, BlockTime
    <3>3. k' = b
      BY <1>4, <2>1
    <3> HIDE DEF b
    <3>4. Passes(k, k', Task \ {t})
      BY <1>2, <1>6, <1>7, <3>1, <3>2, <3>3, PassesThen
    <3>5. Now(s) = Now(k)
      BY <1>7 DEF SameClock, Now
    <3> QED
      BY <1>6, <1>7, <1>8, <3>2, <3>3, <3>4, <3>5
  <2>2. CASE ~(k.note[t].n = 0 /\ c.left > 0)
    <3>1. k' = s
      BY <1>4, <2>2
    <3>2. t \notin Sleepers(s)
      BY <1>7, AwakeFacts
    <3>3. Now(s) = Now(k)
      BY <1>7 DEF SameClock, Now
    <3>4. s.note[t].n # 0 \/ d <= Now(s)
      <4>1. CASE k.note[t].n # 0
        BY <1>7, <4>1
      <4>2. CASE k.note[t].n = 0
        <5>1. c.left = 0
          BY <1>5, <1>8, <2>2, <4>2
        <5> HIDE DEF d
        <5> QED
          BY <1>8, <3>3, <5>1
      <4> QED
        BY <4>1, <4>2
    <3> QED
      BY <1>6, <1>7, <3>1, <3>2, <3>4
  <2> QED
    BY <2>1, <2>2
<1>10. loc' = [loc EXCEPT ![t] = x]
  BY <1>4 DEF Goto
<1> HIDE DEF d
<1>11. x.pc = "notified" /\ x.op = "ntake" /\ x.due = d /\ x.left = c.left
  BY <1>4, <1>5 DEF LocType
<1> HIDE DEF x
<1>12. t \notin ToSet(k'.pending)
  BY <1>9 DEF ToSet
<1>13. Punctual(k', x, t)
  BY <1>5, <1>8, <1>9, <1>11, <1>12 DEF Punctual, InWait, Counting, GivenUp, Napping
<1>14. Prompt(k', x, t)
  BY <1>8, <1>9, <1>11 DEF Prompt, InWait, Counting
<1> QED
  BY <1>2, <1>6, <1>9, <1>10, <1>13, <1>14, MoveTime

LEMMA NotifiedTime ==
  ASSUME Inv, TimeInv, Inv', NEW t \in Task, Notified(t)
  PROVE  TimeInv' /\ (LateInv => LateInv')
<1> DEFINE v == [n |-> 0, state |-> "none"]
<1>1. Runs(t) /\ loc[t].pc = "notified" /\ k' = [k EXCEPT !.note[t] = v] /\ Return(t)
  BY DEF Notified
<1>2. v \in [n : Nat, state : States]
  BY DEF States
<1> HIDE DEF v
<1>3. t = k.cur /\ IsReady(k, t)
  BY <1>1, RunsFacts DEF Locked
<1>4. LInv(k') /\ Clock(k') /\ SameClock(k, k') /\ Passes(k, k', Task \ {t})
  BY <1>1, <1>2, NoteSetTime DEF Inv, TimeInv
<1>5. t \notin Sleepers(k')
  BY <1>3, <1>4, AwakeFacts DEF Inv, SameClock, Sleepers
<1> QED
  BY <1>1, <1>3, <1>4, <1>5, ReturnTime

(* A task that is freed is in no call. *)
LEMMA FreeTime ==
  ASSUME Inv, TimeInv, Inv', prvCheckTasksWaitingTermination
  PROVE  TimeInv' /\ (LateInv => LateInv')
<1>1. PICK t \in k.term :
        k' = [k EXCEPT !.term = @ \ {t}, !.gone = @ \cup {t},
                       !.note[t] = [n |-> 0, state |-> "none"]]
  BY DEF prvCheckTasksWaitingTermination
<1>2. loc' = loc
  BY DEF prvCheckTasksWaitingTermination
<1> DEFINE T == k.term \ {t}
           G == k.gone \cup {t}
           N == [k.note EXCEPT ![t] = [n |-> 0, state |-> "none"]]
<1>3. k' = [k EXCEPT !.term = T, !.gone = G, !.note = N]
  BY <1>1
<1>4. LInv(k) /\ k \in KType /\ Clock(k) /\ LInv(k') /\ k' \in KType /\ t \in Task
  BY DEF Inv, LInv, TimeInv, KType
<1>5. \A u \in Task : u # t => N[u] = k.note[u]
  BY <1>4 DEF KType
<1> HIDE DEF T, G, N
<1>6. SameClock(k, k') /\ k'.pending = k.pending /\ k'.note = N
  BY <1>3, <1>4 DEF KType, SameClock
<1>7. Clock(k') /\ Passes(k, k', Task \ {t})
  BY <1>4, <1>5, <1>6, NoteTime
<1>8. loc[t].pc = "app" /\ Punctual(k, loc[t], t)
  BY <1>4 DEF Inv, Ctx, TimeInv
<1>9. Punctual(k', loc[t], t)
  BY <1>8 DEF Punctual, InWait, Counting, GivenUp, Napping
<1>10. \A u \in Task \ (Task \ {t}) : Punctual(k', loc'[u], u)
  BY <1>2, <1>9
<1>11. TimeInv'
  BY <1>2, <1>4, <1>7, <1>10, StepTime
<1>12. ASSUME LateInv PROVE LateInv'
  <2>1. t \notin Sleepers(k')
    BY <1>4, <1>6 DEF LInv, RInv, InOne, OneOf, SameClock, Sleepers
  <2>2. Prompt(k', loc[t], t)
    BY <1>8, <2>1 DEF Prompt, InWait, Counting
  <2>3. \A u \in Task \ (Task \ {t}) : Prompt(k', loc'[u], u)
    BY <1>2, <2>2
  <2>4. Now(k') = Now(k)
    BY <1>6 DEF SameClock, Now
  <2> QED
    BY <1>2, <1>4, <1>7, <1>12, <2>3, <2>4, StepLate
<1> QED
  BY <1>11, <1>12

(* What the running task finds where it was, once time has gone on. *)
LEMMA CarryTime ==
  ASSUME Inv, TimeInv, LInv(k'), NEW t \in Task, Passes(k, k', Task)
  PROVE  /\ loc[t] \in LocType /\ Steady(loc[t]) /\ Punctual(k', loc[t], t)
         /\ LateInv /\ (loc[t].pc = "place" => Now(k') = Now(k)) => Prompt(k', loc[t], t)
         /\ Passes(k, k', Task \ {t})
<1>1. k \in KType /\ k' \in KType /\ Ctx(k, loc, pendsv) /\ loc[t] \in LocType /\ Steady(loc[t])
  BY DEF Inv, LInv
<1>2. Passes(k, k', {t}) /\ Passes(k, k', Task \ {t})
  BY DEF Passes
<1>3. (Waits(k, t) => Asleep(loc[t])) /\ (Waiting(k, t) => loc[t].pc = "notified")
  BY <1>1 DEF Ctx
<1>4. Punctual(k, loc[t], t) /\ (LateInv => Prompt(k, loc[t], t))
  BY DEF TimeInv, LateInv
<1>5. Punctual(k', loc[t], t)
  BY <1>1, <1>2, <1>3, <1>4, PunctualStays
<1>6. LateInv /\ (loc[t].pc = "place" => Now(k') = Now(k)) => Prompt(k', loc[t], t)
  BY <1>1, <1>2, <1>4, PromptStays
<1> QED
  BY <1>1, <1>2, <1>5, <1>6

(* A step that leaves the wait of its call as it is. *)
LEMMA KeepTime ==
  ASSUME Inv, TimeInv, LInv(k'), Clock(k'), NEW t \in Task, Runs(t), Passes(k, k', Task),
         NEW x, loc' = [loc EXCEPT ![t] = x],
         x.left = loc[t].left, x.on = loc[t].on, x.due = loc[t].due,
         x.pc \notin {"place", "notified"},
         loc[t].pc = "place" => Now(k') = Now(k),
         x.pc \in {"suspend", "lock"} => loc[t].pc \in {"suspend", "lock"},
         InWait(x) => InWait(loc[t]), GivenUp(x) => GivenUp(loc[t]),
         Napping(k', x, t) => Napping(k', loc[t], t)
  PROVE  TimeInv' /\ (LateInv => LateInv')
<1>1. /\ Punctual(k', loc[t], t) /\ (LateInv => Prompt(k', loc[t], t))
      /\ Passes(k, k', Task \ {t})
  BY CarryTime
<1>2. Started(x) = Started(loc[t])
  BY DEF Started
<1>3. Counting(x) => Counting(loc[t])
  BY DEF Counting
<1>4. Punctual(k', x, t)
  BY <1>1, <1>2, <1>3 DEF Punctual
<1>5. LateInv => Prompt(k', x, t)
  BY <1>1, <1>2, <1>3 DEF Prompt
<1>6. t = k.cur
  BY DEF Runs
<1> QED
  BY <1>1, <1>4, <1>5, <1>6, MoveTime

(* The steps of a call that waits. *)
LEMMA SuspendTime ==
  ASSUME Inv, TimeInv, Inv', NEW t \in Task, vTaskSuspendAll(t)
  PROVE  TimeInv' /\ (LateInv => LateInv')
<1> DEFINE x == [loc[t] EXCEPT !.pc = "lock"]
<1>1. /\ Runs(t) /\ loc[t].pc = "suspend" /\ k' = [k EXCEPT !.susp = TRUE]
      /\ loc' = [loc EXCEPT ![t] = x]
  BY DEF vTaskSuspendAll, Goto
<1>2. k \in KType /\ k' \in KType /\ LInv(k') /\ Clock(k) /\ loc[t] \in LocType /\ Steady(loc[t])
  BY DEF Inv, LInv, TimeInv
<1>3. Still(k, k')
  BY <1>1, <1>2, SuspendStill
<1>4. Clock(k') /\ Passes(k, k', Task)
  BY <1>2, <1>3, StillClock
<1>5. /\ x.pc = "lock" /\ x.op = loc[t].op /\ x.left = loc[t].left /\ x.on = loc[t].on
      /\ x.due = loc[t].due /\ x.after = loc[t].after
  BY <1>2 DEF LocType
<1> HIDE DEF x
<1>6. /\ InWait(x) => InWait(loc[t])
      /\ ~GivenUp(x) /\ ~Napping(k', x, t)
  BY <1>1, <1>5 DEF InWait, GivenUp, Napping
<1> QED
  BY <1>1, <1>2, <1>4, <1>5, <1>6, KeepTime

LEMMA BackTime ==
  ASSUME Inv, TimeInv, NEW t \in Task, Back(t)
  PROVE  TimeInv' /\ (LateInv => LateInv')
<1>1. Runs(t) /\ loc[t].pc \notin Locked /\ Return(t) /\ k' = k
  BY DEF Back, Locked
<1> QED
  BY <1>1, SameTime, ReturnsTime

LEMMA ExpiredTime ==
  ASSUME Inv, TimeInv, NEW t \in Task, Expired(t)
  PROVE  TimeInv' /\ (LateInv => LateInv')
<1> DEFINE c == loc[t]
           x == [c EXCEPT !.after = "none", !.pc = "try"]
           y == [c EXCEPT !.pc = "disinherit"]
<1>1. Runs(t) /\ c.pc = "expired" /\ c.pc \notin Locked /\ k' = k
  BY DEF Expired, Locked
<1>2. \/ loc' = [loc EXCEPT ![t] = x]
      \/ loc' = [loc EXCEPT ![t] = y]
      \/ Return(t)
  BY DEF Expired, Goto
<1>3. LInv(k') /\ Clock(k') /\ Passes(k, k', Task) /\ Now(k') = Now(k)
  BY <1>1, SameTime
<1>4. c \in LocType /\ Steady(c)
  BY DEF Inv
<1>5. CASE loc' = [loc EXCEPT ![t] = x]
  <2>1. /\ x.pc = "try" /\ x.op = c.op /\ x.left = c.left /\ x.on = c.on /\ x.due = c.due
        /\ c.op # "delay"
    BY <1>1, <1>4 DEF LocType, Steady
  <2> HIDE DEF x
  <2>2. InWait(c) /\ ~GivenUp(x) /\ ~Napping(k', x, t)
    BY <1>1, <2>1 DEF InWait, GivenUp, Napping
  <2> QED
    BY <1>1, <1>3, <1>5, <2>1, <2>2, KeepTime
<1>6. CASE loc' = [loc EXCEPT ![t] = y]
  <2>1. /\ y.pc = "disinherit" /\ y.op = c.op /\ y.left = c.left /\ y.on = c.on /\ y.due = c.due
    BY <1>4 DEF LocType
  <2> HIDE DEF y
  <2>2. ~InWait(y) /\ GivenUp(c) /\ ~Napping(k', y, t)
    BY <1>1, <2>1 DEF InWait, GivenUp, Napping
  <2> QED
    BY <1>1, <1>3, <1>6, <2>1, <2>2, KeepTime
<1>7. CASE Return(t)
  BY <1>1, <1>3, <1>7, ReturnsTime
<1> QED
  BY <1>2, <1>5, <1>6, <1>7

LEMMA DisinheritTime ==
  ASSUME Inv, TimeInv, Inv', NEW t \in Task, Disinherit(t)
  PROVE  TimeInv' /\ (LateInv => LateInv')
<1> DEFINE m == loc[t].obj
           h == holder[m]
           w == prvGetDisinheritPriorityAfterTimeout(m)
<1>1. /\ Runs(t) /\ loc[t].pc \notin Locked /\ Return(t)
      /\ k' = vTaskPriorityDisinheritAfterTimeout(k, h, w)
  BY DEF Disinherit, Locked
<1>2. k \in KType /\ k' \in KType /\ LInv(k') /\ Clock(k)
  BY DEF Inv, LInv, TimeInv
<1> HIDE DEF h, w
<1>3. Still(k, k')
  BY <1>1, <1>2, TimeoutStill
<1>4. Clock(k') /\ Passes(k, k', Task)
  BY <1>2, <1>3, StillClock
<1> QED
  BY <1>1, <1>2, <1>4, ReturnsTime

LEMMA UnlockTime ==
  ASSUME Inv, TimeInv, Inv', NEW t \in Task, UnlockTx(t) \/ UnlockRx(t)
  PROVE  TimeInv' /\ (LateInv => LateInv')
<1>1. PICK e \in EventLists, count \in Int, p \in {"unlockRx", "resume"} :
        /\ Runs(t) /\ loc[t].pc \in {"unlockTx", "unlockRx"}
        /\ k' = Unlocked(k, e, count)
        /\ loc' = [loc EXCEPT ![t] = [loc[t] EXCEPT !.pc = p]]
  <2>1. que.tx \in Int /\ que.rx \in Int /\ "send" \in EventLists /\ "recv" \in EventLists
    BY DEF Inv, EventLists
  <2>2. CASE UnlockTx(t)
    BY <2>1, <2>2 DEF UnlockTx, Goto
  <2>3. CASE UnlockRx(t)
    BY <2>1, <2>3 DEF UnlockRx, Goto
  <2> QED
    BY <2>2, <2>3
<1> DEFINE x == [loc[t] EXCEPT !.pc = p]
<1>2. LInv(k) /\ LInv(k') /\ Clock(k) /\ loc[t] \in LocType /\ Steady(loc[t])
  BY DEF Inv, TimeInv
<1>3. Clock(k') /\ Passes(k, k', Task)
  BY <1>1, <1>2, UnlockedTime
<1>4. /\ x.pc = p /\ x.op = loc[t].op /\ x.left = loc[t].left /\ x.on = loc[t].on
      /\ x.due = loc[t].due /\ x.after = loc[t].after
  BY <1>2 DEF LocType
<1>5. loc' = [loc EXCEPT ![t] = x]
  BY <1>1
<1> HIDE DEF x
<1>6. /\ InWait(x) => InWait(loc[t])
      /\ GivenUp(x) => GivenUp(loc[t])
      /\ Napping(k', x, t) => Napping(k', loc[t], t)
  BY <1>1, <1>4 DEF InWait, GivenUp, Napping
<1> QED
  BY <1>1, <1>2, <1>3, <1>4, <1>5, <1>6, KeepTime

(* Since a call last looked at the clock, the count has wrapped at most    *)
(* once when it looks again.                                               *)
WrapsOnce == \A t \in Task : loc[t].pc = "lock" => k.over <= loc[t].on.over + 1

(* xTaskCheckForTimeOut: over only when it is; else what is left reaches as*)
(* far as before, provided that no turn of the count went by unseen.       *)
LEMMA LockTime ==
  ASSUME Inv, TimeInv, NEW t \in Task, LockAndCheck(t)
  PROVE  TimeInv' /\ (LateInv /\ WrapsOnce => LateInv')
<1> DEFINE c == loc[t]
           r == xTaskCheckForTimeOut(k, c)
           q == c.op \in {"send", "recv"}
           p == IF q THEN "unlockTx" ELSE "resume"
           on == [tick |-> k.tick, over |-> k.over]
<1>1. Runs(t) /\ c.pc = "lock" /\ k' = k
  BY DEF LockAndCheck
<1>2. /\ ~r.over => Goto(t, r.c, "place")
      /\ r.over => Goto(t, [r.c EXCEPT !.after = "expired"], p)
  BY DEF LockAndCheck
<1>3. c \in LocType /\ Steady(c) /\ k \in KType /\ k.tick < TickMod /\ Punctual(k, c, t)
  BY DEF Inv, LInv, TimeInv, Clock
<1>4. /\ c.op \in {"send", "recv", "take"} /\ InWait(c) /\ c.left # 0
      /\ c.on \in OnType /\ c.on.tick \in 0 .. TickMod - 1 /\ Started(c) <= Now(k)
      /\ Counting(c) => c.due <= Started(c) + c.left
  BY <1>1, <1>3 DEF Steady, InWait, Punctual
<1>5. /\ c.left \in 1 .. MAX_DELAY /\ c.left \in Int /\ c.due \in Int /\ MAX_DELAY \in Int
      /\ Now(k) \in Int /\ Started(c) \in Int
  <2>1. TickMod \in Nat /\ MAX_DELAY \in Int /\ Now(k) \in Int
    BY <1>3, NowFacts DEF MAX_DELAY
  <2>2. c.on.over * TickMod \in Int
    BY <1>4, <2>1 DEF OnType
  <2>3. Started(c) \in Int
    BY <1>4, <2>2 DEF Started, OnType
  <2> QED
    BY <1>3, <1>4, <2>1, <2>3 DEF Punctual, LocType
<1>6. t = k.cur /\ t \notin Sleepers(k)
  BY <1>1, RunsFacts, HeldReady, AwakeFacts DEF Inv, Locked
<1>7. /\ LInv(k') /\ Clock(k') /\ Passes(k, k', Task \ {t})
  BY <1>1, SameTime, LessPasses
<1>8. \/ r = [over |-> FALSE, c |-> c] /\ c.left = MAX_DELAY
      \/ /\ r = [over |-> TRUE, c |-> [c EXCEPT !.left = 0]] /\ c.left # MAX_DELAY
         /\ Started(c) + c.left <= Now(k)
      \/ \E w \in 1 .. MAX_DELAY :
           /\ r = [over |-> FALSE, c |-> [c EXCEPT !.left = w, !.on = on]]
           /\ w # MAX_DELAY /\ c.left # MAX_DELAY
           /\ Started(c) + c.left <= Now(k) + w
           /\ k.over <= c.on.over + 1 => Now(k) + w <= Started(c) + c.left
  BY <1>3, <1>4, <1>5, CheckTime
<1> HIDE DEF r
<1>9. CASE r = [over |-> FALSE, c |-> c] /\ c.left = MAX_DELAY
  <2> DEFINE x == [c EXCEPT !.pc = "place"]
  <2>1. loc' = [loc EXCEPT ![t] = x]
    BY <1>2, <1>9 DEF Goto
  <2>2. /\ x.pc = "place" /\ x.op = c.op /\ x.left = c.left /\ x.on = c.on /\ x.due = c.due
    BY <1>3 DEF LocType
  <2> HIDE DEF x
  <2>3. ~Counting(x) /\ ~GivenUp(x) /\ ~Napping(k', x, t) /\ Started(x) = Started(c)
    BY <1>4, <1>9, <2>2 DEF Counting, GivenUp, Napping, Started
  <2>4. Punctual(k', x, t)
    BY <1>1, <1>3, <1>4, <2>2, <2>3 DEF Punctual
  <2>5. Prompt(k', x, t)
    BY <1>1, <1>6, <2>3 DEF Prompt
  <2> QED
    BY <1>6, <1>7, <2>1, <2>4, <2>5, MoveTime
<1>10. CASE /\ r = [over |-> TRUE, c |-> [c EXCEPT !.left = 0]] /\ c.left # MAX_DELAY
            /\ Started(c) + c.left <= Now(k)
  <2> DEFINE d == [c EXCEPT !.left = 0]
             x == [d EXCEPT !.after = "expired", !.pc = p]
  <2>1. loc' = [loc EXCEPT ![t] = x]
    BY <1>2, <1>10 DEF Goto
  <2>2. /\ x.pc \in {"unlockTx", "resume"} /\ x.op = c.op /\ x.left = 0 /\ x.on = c.on
        /\ x.due = c.due /\ x.after = "expired"
    BY <1>3 DEF LocType
  <2> HIDE DEF x
  <2>3. ~Counting(x) /\ ~Napping(k', x, t) /\ Started(x) = Started(c)
    BY <1>4, <2>2 DEF Counting, Napping, Started
  <2>4. c.due <= Now(k)
    BY <1>4, <1>5, <1>10 DEF Counting
  <2>5. 0 \in 0 .. MAX_DELAY
    BY <1>5
  <2>6. Punctual(k', x, t)
    BY <1>1, <1>4, <2>2, <2>3, <2>4, <2>5 DEF Punctual
  <2>7. Prompt(k', x, t)
    BY <1>1, <1>6, <2>2, <2>3 DEF Prompt
  <2> QED
    BY <1>6, <1>7, <2>1, <2>6, <2>7, MoveTime
<1>11. CASE \E w \in 1 .. MAX_DELAY :
              /\ r = [over |-> FALSE, c |-> [c EXCEPT !.left = w, !.on = on]]
              /\ w # MAX_DELAY /\ c.left # MAX_DELAY
              /\ Started(c) + c.left <= Now(k) + w
              /\ k.over <= c.on.over + 1 => Now(k) + w <= Started(c) + c.left
  <2>1. PICK w \in 1 .. MAX_DELAY :
              /\ r = [over |-> FALSE, c |-> [c EXCEPT !.left = w, !.on = on]]
              /\ w # MAX_DELAY /\ c.left # MAX_DELAY
              /\ Started(c) + c.left <= Now(k) + w
              /\ k.over <= c.on.over + 1 => Now(k) + w <= Started(c) + c.left
    BY <1>11
  <2> DEFINE d == [c EXCEPT !.left = w, !.on = on]
             x == [d EXCEPT !.pc = "place"]
  <2>2. loc' = [loc EXCEPT ![t] = x]
    BY <1>2, <2>1 DEF Goto
  <2>3. /\ x.pc = "place" /\ x.op = c.op /\ x.left = w /\ x.on = on /\ x.due = c.due
    BY <1>3 DEF LocType
  <2> HIDE DEF x
  <2>4. x.on \in OnType /\ x.on.tick \in 0 .. TickMod - 1 /\ Started(x) = Now(k)
    BY <1>3, <2>3, StartedNow
  <2>5. ~GivenUp(x) /\ ~Napping(k', x, t) /\ Counting(c)
    BY <1>4, <2>1, <2>3 DEF GivenUp, Napping, Counting
  <2>6. w \in Int /\ w # 0 /\ w \in 0 .. MAX_DELAY
    BY <1>5
  <2>7. c.due <= Now(k) + w
    BY <1>4, <1>5, <2>1, <2>5, <2>6
  <2>8. Punctual(k', x, t)
    BY <1>1, <1>5, <2>3, <2>4, <2>5, <2>6, <2>7 DEF Punctual
  <2>9. ASSUME LateInv, WrapsOnce PROVE Prompt(k', x, t)
    <3>1. Started(c) + c.left <= c.due
      BY <2>5, <2>9 DEF LateInv, Prompt
    <3>2. Now(k) + w <= Started(c) + c.left
      BY <1>1, <2>1, <2>9 DEF WrapsOnce
    <3>3. Now(k) + w <= c.due
      BY <1>5, <2>6, <3>1, <3>2
    <3> QED
      BY <1>1, <1>5, <1>6, <2>3, <2>4, <3>3 DEF Prompt
  <2> QED
    BY <1>6, <1>7, <2>2, <2>8, <2>9, MoveTime
<1> QED
  BY <1>8, <1>9, <1>10, <1>11

(* The caller sleeps for what is left. *)
LEMMA PlaceStepTime ==
  ASSUME Inv, TimeInv, Inv', NEW t \in Task, Place(t)
  PROVE  TimeInv' /\ (LateInv => LateInv')
<1> DEFINE c == loc[t]
           must == \/ c.op = "send" /\ que.n = QueueLength
                   \/ c.op = "recv" /\ que.n = 0
                   \/ c.op = "take" /\ holder[c.obj] # None
           e == IF c.op = "take" THEN c.obj ELSE c.op
           i == IF c.op = "take" THEN xTaskPriorityInherit(k, holder[c.obj])
                ELSE [s |-> k, yes |-> FALSE]
           next == IF c.op = "take" THEN "resume" ELSE "unlockTx"
           x == [c EXCEPT !.after = "block", !.inherited = i.yes, !.pc = next]
           y == [c EXCEPT !.after = "retry", !.pc = next]
<1>1. Runs(t) /\ c.pc = "place"
  BY DEF Place
<1>2. \/ must /\ k' = vTaskPlaceOnEventList(i.s, e, c.left) /\ loc' = [loc EXCEPT ![t] = x]
      \/ ~must /\ loc' = [loc EXCEPT ![t] = y] /\ k' = k
  <2>1. Goto(t, [c EXCEPT !.after = "block", !.inherited = i.yes], next) => loc' = [loc EXCEPT ![t] = x]
    BY DEF Goto
  <2>2. Goto(t, [c EXCEPT !.after = "retry"], next) => loc' = [loc EXCEPT ![t] = y]
    BY DEF Goto
  <2> QED
    BY <2>1, <2>2 DEF Place
<1> HIDE DEF must
<1>3. /\ c \in LocType /\ Steady(c) /\ LInv(k) /\ k \in KType /\ LInv(k') /\ k' \in KType
      /\ conf \in Confs /\ Clock(k) /\ Punctual(k, c, t) /\ Ctx(k, loc, pendsv)
  BY DEF Inv, LInv, TimeInv
<1>4. /\ c.op \in {"send", "recv", "take"} /\ InWait(c) /\ c.left # 0
      /\ c.on \in OnType /\ c.on.tick \in 0 .. TickMod - 1 /\ Started(c) <= Now(k)
      /\ Counting(c) => c.due <= Started(c) + c.left
  BY <1>1, <1>3 DEF Steady, InWait, Punctual
<1>5. /\ c.left \in 1 .. MAX_DELAY /\ c.left \in Int /\ c.due \in Int /\ MAX_DELAY \in Int
      /\ Now(k) \in Int /\ Started(c) \in Int
  <2>1. TickMod \in Nat /\ MAX_DELAY \in Int /\ Now(k) \in Int
    BY <1>3, NowFacts DEF MAX_DELAY
  <2>2. c.on.over * TickMod \in Int
    BY <1>4, <2>1 DEF OnType
  <2>3. Started(c) \in Int
    BY <1>4, <2>2 DEF Started, OnType
  <2> QED
    BY <1>3, <1>4, <2>1, <2>3 DEF Punctual, LocType
<1>6. t = k.cur /\ IsReady(k, t)
  BY <1>1, RunsFacts, HeldReady DEF Locked
<1>7. next \in {"resume", "unlockTx"}
  OBVIOUS
<1>8. CASE ~must
  <2>1. loc' = [loc EXCEPT ![t] = y] /\ k' = k
    BY <1>2, <1>8
  <2> HIDE DEF next
  <2>2. /\ y.pc = next /\ y.op = c.op /\ y.left = c.left /\ y.on = c.on
        /\ y.due = c.due /\ y.after = "retry"
    BY <1>3 DEF LocType
  <2> HIDE DEF y
  <2>3. ~GivenUp(y) /\ ~Napping(k', y, t)
    BY <1>4, <1>7, <2>2 DEF GivenUp, Napping
  <2> QED
    BY <1>1, <1>4, <1>7, <2>1, <2>2, <2>3, SameTime, KeepTime
<1>9. CASE must
  <2>1. loc' = [loc EXCEPT ![t] = x] /\ k' = vTaskPlaceOnEventList(i.s, e, c.left)
    BY <1>2, <1>9
  <2>2. /\ LInv(i.s) /\ Calm(k, i.s) /\ Still(k, i.s)
        /\ \A u \in Task : IsReady(i.s, u) <=> IsReady(k, u)
    <3>1. CASE c.op = "take"
      <4>1. holder[c.obj] \in Task \cup {None}
        BY <1>3, <3>1 DEF Inv, LocType
      <4> QED
        BY <1>3, <3>1, <4>1, InheritFacts, InheritStill
    <3>2. CASE c.op # "take"
      BY <1>3, <3>2, CalmSame, StillSame
    <3> QED
      BY <3>1, <3>2
  <2>3. e \in EventLists
    BY <1>3, <1>4 DEF EventLists, LocType
  <2> HIDE DEF i, e
  <2>4. i.s.cur = t /\ IsReady(i.s, i.s.cur) /\ i.s.cur \notin ToSet(i.s.pending)
    BY <1>1, <1>3, <1>6, <2>2 DEF Calm, Ctx, Still
  <2>5. i.s \in KType /\ Clock(i.s) /\ Now(i.s) = Now(k)
    <3>1. i.s \in KType
      BY <2>2 DEF LInv
    <3>2. Clock(i.s)
      BY <1>3, <2>2, <3>1, StillClock
    <3> QED
      BY <2>2, <3>1, <3>2 DEF Still, SameClock, Now
  <2>6. /\ Clock(k') /\ Now(k') = Now(k) /\ Passes(i.s, k', Task \ {t})
        /\ c.left = MAX_DELAY => t \notin Sleepers(k')
        /\ c.left # MAX_DELAY => t \in Sleepers(k') /\ WakesAt(k', t) = Now(k) + c.left
    BY <1>5, <2>1, <2>2, <2>3, <2>4, <2>5, PlaceTime, ZenonT(60)
  <2>7. Passes(k, k', Task \ {t})
    BY <1>3, <2>2, <2>5, <2>6, StillPasses
  <2> HIDE DEF next
  <2>8. /\ x.pc = next /\ x.op = c.op /\ x.left = c.left /\ x.on = c.on
        /\ x.due = c.due /\ x.after = "block"
    BY <1>3 DEF LocType
  <2> HIDE DEF x
  <2>9. /\ ~GivenUp(x) /\ ~Napping(k', x, t) /\ Started(x) = Started(c)
        /\ Counting(x) => Counting(c)
    BY <1>4, <1>7, <2>8 DEF GivenUp, Napping, Counting, Started
  <2>10. Punctual(k', x, t)
    BY <1>3, <1>4, <1>7, <2>6, <2>8, <2>9 DEF Punctual
  <2>11. ASSUME LateInv PROVE Prompt(k', x, t)
    <3>1. Prompt(k, c, t)
      BY <2>11 DEF LateInv
    <3>2. ASSUME t \in Sleepers(k') PROVE WakesAt(k', t) <= c.due
      <4>1. c.left # MAX_DELAY /\ WakesAt(k', t) = Now(k) + c.left
        BY <2>6, <3>2
      <4>2. Counting(c)
        BY <1>4, <4>1 DEF Counting
      <4>3. Started(c) + c.left <= c.due /\ Now(k) <= Started(c)
        BY <1>1, <3>1, <4>2 DEF Prompt
      <4> QED
        BY <1>5, <4>1, <4>3
    <3> QED
      BY <1>7, <2>8, <2>9, <3>1, <3>2 DEF Prompt
  <2> QED
    BY <1>3, <1>6, <2>1, <2>6, <2>7, <2>10, <2>11, MoveTime
<1> QED
  BY <1>2, <1>8, <1>9

(* The ticks that were held back pass. *)
LEMMA ResumeStepTime ==
  ASSUME Inv, TimeInv, Inv', NEW t \in Task, Resume(t)
  PROVE  TimeInv' /\ (LateInv => LateInv')
<1> DEFINE c == loc[t]
           x == [c EXCEPT !.pc = "back"]
           y == [c EXCEPT !.after = "none", !.pc = "try"]
           z == [c EXCEPT !.pc = "expired"]
<1>1. Runs(t) /\ c.pc = "resume" /\ k' = xTaskResumeAll(k)
  BY DEF Resume
<1>2. c \in LocType /\ Steady(c) /\ LInv(k) /\ Clock(k) /\ LInv(k')
  BY DEF Inv, TimeInv
<1>3. c.op \in {"send", "recv", "take", "delay"} /\ c.after \in {"block", "retry", "expired"}
  BY <1>1, <1>2 DEF Steady
<1>4. \/ c.op = "delay" /\ loc' = [loc EXCEPT ![t] = x]
      \/ c.op # "delay" /\ loc' = [loc EXCEPT ![t] = y]
      \/ c.op = "send" /\ c.after = "expired" /\ Return(t)
      \/ c.op \in {"recv", "take"} /\ c.after = "expired" /\ loc' = [loc EXCEPT ![t] = z]
  <2>1. CASE c.op = "delay"
    BY <2>1 DEF Resume, Goto
  <2>2. CASE c.op # "delay" /\ c.after \in {"block", "retry"}
    BY <2>2 DEF Resume, Goto
  <2>3. CASE c.op = "send" /\ c.after = "expired"
    BY <2>3 DEF Resume
  <2>4. CASE c.op \in {"recv", "take"} /\ c.after = "expired"
    BY <2>4 DEF Resume, Goto
  <2> QED
    BY <1>3, <2>1, <2>2, <2>3, <2>4
<1>5. Clock(k') /\ Passes(k, k', Task)
  BY <1>1, <1>2, ResumeTime
<1>6. CASE c.op = "delay" /\ loc' = [loc EXCEPT ![t] = x]
  <2>1. x.pc = "back" /\ x.op = c.op /\ x.left = c.left /\ x.on = c.on /\ x.due = c.due
    BY <1>2 DEF LocType
  <2> HIDE DEF x
  <2>2. ~InWait(x) /\ ~GivenUp(x) /\ Napping(k', c, t)
    BY <1>1, <1>6, <2>1 DEF InWait, GivenUp, Napping
  <2> QED
    BY <1>1, <1>2, <1>5, <1>6, <2>1, <2>2, KeepTime
<1>7. CASE c.op # "delay" /\ loc' = [loc EXCEPT ![t] = y]
  <2>1. /\ y.pc = "try" /\ y.op = c.op /\ y.left = c.left /\ y.on = c.on /\ y.due = c.due
    BY <1>2 DEF LocType
  <2> HIDE DEF y
  <2>2. InWait(c) /\ ~GivenUp(y) /\ ~Napping(k', y, t)
    BY <1>1, <1>7, <2>1 DEF InWait, GivenUp, Napping
  <2> QED
    BY <1>1, <1>2, <1>5, <1>7, <2>1, <2>2, KeepTime
<1>8. CASE c.op = "send" /\ c.after = "expired" /\ Return(t)
  <2>1. t = k.cur /\ IsReady(k, t)
    BY <1>1, <1>8, RunsFacts, HeldReady DEF Locked
  <2>2. t \notin Sleepers(k)
    BY <1>2, <2>1, AwakeFacts
  <2>3. t \notin Sleepers(k') /\ Passes(k, k', Task \ {t})
    BY <1>5, <2>2 DEF Passes
  <2> QED
    BY <1>2, <1>5, <1>8, <2>1, <2>3, ReturnTime
<1>9. CASE c.op \in {"recv", "take"} /\ c.after = "expired" /\ loc' = [loc EXCEPT ![t] = z]
  <2>1. z.pc = "expired" /\ z.op = c.op /\ z.left = c.left /\ z.on = c.on /\ z.due = c.due
    BY <1>2 DEF LocType
  <2> HIDE DEF z
  <2>2. InWait(c) /\ GivenUp(c) /\ ~Napping(k', z, t)
    BY <1>1, <1>9, <2>1 DEF InWait, GivenUp, Napping
  <2> QED
    BY <1>1, <1>2, <1>5, <1>9, <2>1, <2>2, KeepTime
<1> QED
  BY <1>4, <1>6, <1>7, <1>8, <1>9

-----------------------------------------------------------------------------
(* Interrupts, and every step. *)

(* The interrupts. *)
LEMMA InterruptTime ==
  ASSUME Inv, TimeInv, LInv(k'), Clock(k'), Passes(k, k', Task), loc' = loc,
         k.susp => Now(k') = Now(k)
  PROVE  TimeInv' /\ (LateInv => LateInv')
<1>1. \A u \in Task : loc[u].pc = "place" => Now(k') = Now(k)
  BY PlaceSuspended
<1>2. TimeInv'
  BY StepTime
<1>3. LateInv => LateInv'
  BY <1>1, StepLate
<1> QED
  BY <1>2, <1>3

LEMMA TickStepTime ==
  ASSUME Inv, TimeInv, Inv', Tick PROVE TimeInv' /\ (LateInv => LateInv')
<1>1. k \in KType /\ k' \in KType /\ LInv(k) /\ LInv(k') /\ Clock(k) /\ loc' = loc
  BY DEF Inv, LInv, TimeInv, Tick
<1>2. CASE k.susp
  <2>1. k' = [k EXCEPT !.pended = k.pended + 1]
    BY <1>2 DEF Tick
  <2>2. Still(k, k')
    BY <1>1, <2>1, SuspendStill
  <2>3. Clock(k') /\ Passes(k, k', Task) /\ Now(k') = Now(k)
    BY <1>1, <2>2, StillClock DEF Still, SameClock, Now
  <2> QED
    BY <1>1, <2>3, InterruptTime
<1>3. CASE ~k.susp
  <2> DEFINE r == xTaskIncrementTick(k)
  <2>1. k' = r.s
    BY <1>3 DEF Tick
  <2>2. Clock(r.s) /\ Passes(k, r.s, Task)
    BY <1>1, TickTime
  <2> HIDE DEF r
  <2> QED
    BY <1>1, <1>3, <2>1, <2>2, InterruptTime
<1> QED
  BY <1>2, <1>3

LEMMA WakeFromISRTime ==
  ASSUME Inv, TimeInv, Inv', NEW lock, NEW e \in EventLists, WakeFromISR(lock, e), loc' = loc
  PROVE  TimeInv' /\ (LateInv => LateInv')
<1>1. k \in KType /\ LInv(k) /\ LInv(k') /\ Clock(k)
  BY DEF Inv, LInv, TimeInv
<1>2. CASE k.ev[e] # <<>> /\ lock = UNLOCKED
  <2> DEFINE r == xTaskRemoveFromEventList(k, e)
  <2>1. k' = r.s
    BY <1>2 DEF WakeFromISR
  <2>2. /\ Clock(r.s) /\ Passes(k, r.s, Task)
        /\ k.susp => Now(r.s) = Now(k)
    BY <1>1, <1>2, RemoveEventTime, RemoveEventNow
  <2> HIDE DEF r
  <2> QED
    BY <1>1, <2>1, <2>2, InterruptTime
<1>3. CASE ~(k.ev[e] # <<>> /\ lock = UNLOCKED)
  <2>1. k' = k
    BY <1>3 DEF WakeFromISR
  <2> QED
    BY <2>1, SameTime, InterruptTime
<1> QED
  BY <1>2, <1>3

LEMMA SendFromISRTime ==
  ASSUME Inv, TimeInv, Inv', xQueueGenericSendFromISR PROVE TimeInv' /\ (LateInv => LateInv')
BY WakeFromISRTime DEF xQueueGenericSendFromISR, EventLists

LEMMA ReceiveFromISRTime ==
  ASSUME Inv, TimeInv, Inv', xQueueReceiveFromISR PROVE TimeInv' /\ (LateInv => LateInv')
BY WakeFromISRTime DEF xQueueReceiveFromISR, EventLists

LEMMA NotifyFromISRTime ==
  ASSUME Inv, TimeInv, Inv', vTaskNotifyGiveFromISR PROVE TimeInv' /\ (LateInv => LateInv')
<1>1. loc' = loc /\ LInv(k) /\ LInv(k') /\ k \in KType /\ k' \in KType /\ Clock(k)
  BY DEF vTaskNotifyGiveFromISR, Inv, LInv, TimeInv
<1>2. PICK t \in conf.notified \ (k.term \cup k.gone) :
        LET r == Notify(k, t) IN k' = [r.s EXCEPT !.ypend = @ \/ r.yield]
  BY DEF vTaskNotifyGiveFromISR
<1>3. t \in Task
  BY KernelAssumption DEF Inv
<1> DEFINE r == Notify(k, t)
           b == r.s.ypend \/ r.yield
<1>4. LInv(r.s)
  BY <1>1, <1>3, NotifiableFacts, NotifyFacts
<1>5. /\ Clock(r.s) /\ Passes(k, r.s, Task)
      /\ k.susp => Now(r.s) = Now(k)
  BY <1>1, <1>3, NotifiableFacts, NotifyTime, NotifyNow
<1>6. k' = [r.s EXCEPT !.ypend = b]
  BY <1>2
<1> HIDE DEF r, b
<1>7. r.s \in KType
  BY <1>4 DEF LInv
<1>8. Still(r.s, k') /\ Blocked(k') = Blocked(r.s) /\ Sleepers(k') = Sleepers(r.s)
      /\ \A u \in Task : WakesAt(k', u) = WakesAt(r.s, u)
  BY <1>6, <1>7 DEF Still, SameClock, KType, Blocked, Sleepers, WakesAt
<1>9. Clock(k') /\ Now(k') = Now(r.s)
  BY <1>1, <1>5, <1>7, <1>8, StillClock DEF Still, SameClock, Now
<1>10. Passes(k, k', Task)
  BY <1>5, <1>8, <1>9 DEF Passes, Still, SameClock, Excused
<1> QED
  BY <1>1, <1>5, <1>9, <1>10, InterruptTime

LEMMA PendSVTime ==
  ASSUME Inv, TimeInv, Inv', PendSV PROVE TimeInv' /\ (LateInv => LateInv')
<1>1. k' = vTaskSwitchContext(k) /\ loc' = loc
  BY DEF PendSV
<1>2. k \in KType /\ k' \in KType /\ LInv(k') /\ Clock(k)
  BY DEF Inv, LInv, TimeInv
<1>3. Still(k, k')
  BY <1>1, <1>2, SwitchStill
<1>4. Clock(k') /\ Passes(k, k', Task) /\ Now(k') = Now(k)
  BY <1>2, <1>3, StillClock DEF Still, SameClock, Now
<1> QED
  BY <1>1, <1>2, <1>4, InterruptTime

(* All tasks are in time at the start, and every step keeps them so. *)
LEMMA InitTime == ASSUME Init PROVE TimeInv /\ LateInv
<1>1. /\ k.delayed = <<>> /\ k.overflow = <<>> /\ k.tick = InitialTick
      /\ \A t \in Task : loc[t] = Home
  BY DEF Init
<1>2. InitialTick < TickMod
  BY KernelAssumption
<1>3. Clock(k) /\ Sleepers(k) = {}
  BY <1>1, <1>2 DEF Clock, Sleepers, Sorted, ToSet
<1>4. \A t \in Task : Punctual(k, loc[t], t)
  BY <1>1, PunctualHome
<1>5. \A t \in Task : Prompt(k, loc[t], t)
  BY <1>1, <1>3 DEF Prompt, Home, Counting, InWait
<1> QED
  BY <1>3, <1>4, <1>5 DEF TimeInv, LateInv

LEMMA StutterTime ==
  ASSUME Inv, TimeInv, UNCHANGED vars PROVE TimeInv' /\ (LateInv => LateInv')
BY DEF vars, TimeInv, LateInv

LEMMA NextTime ==
  ASSUME HolderNotAlone, Inv, TimeInv, Next
  PROVE  TimeInv' /\ (LateInv /\ WrapsOnce => LateInv')
<1>0. Inv'
  BY NextInv
<1>1. CASE \E t \in Task : QueueStep(t)
  <2>1. PICK t \in Task : QueueStep(t)
    BY <1>1
  <2>2. CASE TrySend(t) \/ TryReceive(t) \/ TryTake(t) \/ xSemaphoreGive(t) \/ vTaskDelay(t)
    BY <1>0, <2>2, SendTime, ReceiveTime, TakeTime, GiveTime, DelayTime
  <2>3. CASE vTaskSuspendAll(t) \/ LockAndCheck(t) \/ Place(t)
    BY <1>0, <2>3, SuspendTime, LockTime, PlaceStepTime
  <2>4. CASE \/ ulTaskNotifyTake(t) \/ Notified(t) \/ xTaskNotifyGive(t)
             \/ xTaskCreate(t) \/ vTaskDelete(t)
    BY <1>0, <2>4, NotifyTakeTime, NotifiedTime, NotifyGiveTime, CreateTime, DeleteTime
  <2>5. CASE UnlockTx(t) \/ UnlockRx(t) \/ Resume(t) \/ Back(t) \/ Expired(t) \/ Disinherit(t)
    BY <1>0, <2>5, UnlockTime, ResumeStepTime, BackTime, ExpiredTime, DisinheritTime
  <2> QED
    BY <2>1, <2>2, <2>3, <2>4, <2>5 DEF QueueStep
<1>2. CASE prvCheckTasksWaitingTermination
  BY <1>0, <1>2, FreeTime
<1>3. CASE Tick
  BY <1>0, <1>3, TickStepTime
<1>4. CASE xQueueGenericSendFromISR
  BY <1>0, <1>4, SendFromISRTime
<1>5. CASE xQueueReceiveFromISR
  BY <1>0, <1>5, ReceiveFromISRTime
<1>6. CASE vTaskNotifyGiveFromISR
  BY <1>0, <1>6, NotifyFromISRTime
<1>7. CASE PendSV
  BY <1>0, <1>7, PendSVTime
<1> QED
  BY <1>1, <1>2, <1>3, <1>4, <1>5, <1>6, <1>7 DEF Next

(* A step of a task's call moves no other task. *)
LEMMA QueueStepMoves ==
  ASSUME Inv, NEW u \in Task, QueueStep(u)
  PROVE  Runs(u) /\ \A t \in Task : t # u => loc'[t] = loc[t]
<1>1. Runs(u)
  BY Zenon DEF QueueStep, TrySend, TryReceive, TryTake, xSemaphoreGive, vTaskDelay, vTaskSuspendAll,
         LockAndCheck, Place, ulTaskNotifyTake, Notified, xTaskNotifyGive, xTaskCreate,
         vTaskDelete, UnlockTx, UnlockRx, Resume, Back, Expired, Disinherit
<1>2. \E x : loc' = [loc EXCEPT ![u] = x]
  <2>1. \A c, place : Goto(u, c, place) => \E x : loc' = [loc EXCEPT ![u] = x]
    BY DEF Goto
  <2>2. Return(u) => \E x : loc' = [loc EXCEPT ![u] = x]
    BY DEF Return
  <2>3. \A c : NotNow(u, c) => \E x : loc' = [loc EXCEPT ![u] = x]
    BY <2>1, <2>2 DEF NotNow
  <2>4. CASE TrySend(u) \/ TryReceive(u) \/ TryTake(u)
    BY <2>2, <2>3, <2>4, Zenon DEF TrySend, TryReceive, TryTake
  <2>5. CASE xSemaphoreGive(u) \/ vTaskDelay(u) \/ ulTaskNotifyTake(u) \/ Notified(u)
             \/ xTaskNotifyGive(u) \/ xTaskCreate(u) \/ vTaskDelete(u)
    BY <2>1, <2>2, <2>5, Zenon DEF xSemaphoreGive, vTaskDelay, ulTaskNotifyTake, Notified,
       xTaskNotifyGive, xTaskCreate, vTaskDelete
  <2>6. CASE vTaskSuspendAll(u) \/ LockAndCheck(u) \/ Place(u) \/ UnlockTx(u) \/ UnlockRx(u)
    BY <2>1, <2>2, <2>6 DEF vTaskSuspendAll, LockAndCheck, Place, UnlockTx, UnlockRx
  <2>7. CASE Resume(u)
    <3>1. /\ loc[u].pc = "resume" /\ Steady(loc[u])
      BY <2>7 DEF Resume, Inv
    <3>2. /\ loc[u].op \in {"send", "recv", "take", "delay"}
          /\ loc[u].after \in {"block", "retry", "expired"}
      BY <3>1 DEF Steady
    <3>3. CASE loc[u].op = "delay"
      BY <2>1, <2>7, <3>3 DEF Resume
    <3>4. CASE loc[u].op # "delay" /\ loc[u].after \in {"block", "retry"}
      BY <2>1, <2>7, <3>4 DEF Resume
    <3>5. CASE loc[u].op = "send" /\ loc[u].after = "expired"
      BY <2>2, <2>7, <3>5 DEF Resume
    <3>6. CASE loc[u].op \in {"recv", "take"} /\ loc[u].after = "expired"
      BY <2>1, <2>7, <3>6 DEF Resume
    <3> QED
      BY <3>2, <3>3, <3>4, <3>5, <3>6
  <2>8. CASE Back(u) \/ Expired(u) \/ Disinherit(u)
    BY <2>1, <2>2, <2>8 DEF Back, Expired, Disinherit
  <2> QED
    BY <2>4, <2>5, <2>6, <2>7, <2>8 DEF QueueStep
<1> QED
  BY <1>1, <1>2 DEF Inv

(* A call that returns for want of time had it all. *)
LEMMA EarlyFacts ==
  ASSUME Inv, TimeInv, Next, NEW t \in Task, loc'[t].pc = "app",
         \/ loc[t].pc \in {"back", "resume", "expired", "disinherit"}
         \/ loc[t].pc = "notified" /\ k.note[t].n = 0
  PROVE  loc[t].due <= Now(k)
<1>1. loc'[t] # loc[t]
  OBVIOUS
<1>2. Runs(t) /\ QueueStep(t)
  <2>1. \E u \in Task : QueueStep(u)
    BY <1>1 DEF Next, prvCheckTasksWaitingTermination, Tick, xQueueGenericSendFromISR,
       xQueueReceiveFromISR, vTaskNotifyGiveFromISR, PendSV
  <2> QED
    BY <1>1, <2>1, QueueStepMoves
<1>3. Punctual(k, loc[t], t) /\ LInv(k) /\ loc[t] \in LocType /\ Steady(loc[t]) /\ loc \in [Task -> LocType]
  BY DEF TimeInv, Inv
<1>4. CASE loc[t].pc \in {"expired", "disinherit"}
  BY <1>3, <1>4 DEF Punctual, GivenUp
<1>5. CASE loc[t].pc = "back" \/ (loc[t].pc = "notified" /\ k.note[t].n = 0)
  <2>1. loc[t].pc \notin Locked /\ Napping(k, loc[t], t)
    BY <1>5 DEF Locked, Napping
  <2>2. t \notin Blocked(k)
    BY <1>2, <1>3, <2>1, RunsFacts, AwakeFacts
  <2> QED
    BY <1>3, <2>1, <2>2 DEF Punctual
<1>6. CASE loc[t].pc = "resume"
  <2>1. Resume(t)
    <3>1. Calls(t) = {}
      BY <1>6 DEF Calls
    <3> QED
      BY <1>2, <1>6, <3>1 DEF QueueStep, TrySend, TryReceive, TryTake, xSemaphoreGive, vTaskDelay,
         vTaskSuspendAll, LockAndCheck, Place, ulTaskNotifyTake, Notified, xTaskNotifyGive,
         xTaskCreate, vTaskDelete, UnlockTx, UnlockRx, Back, Expired, Disinherit
  <2>2. \A c \in LocType : \A p : Goto(t, c, p) => loc'[t].pc = p
    BY <1>3 DEF Goto, LocType
  <2>3. loc[t].op # "delay"
    BY <1>3, <2>1, <2>2 DEF Resume
  <2>4. loc[t].after \notin {"block", "retry"}
    <3> SUFFICES ASSUME loc[t].after \in {"block", "retry"} PROVE FALSE
      OBVIOUS
    <3>1. Goto(t, [loc[t] EXCEPT !.after = "none"], "try")
      BY <2>1, <2>3 DEF Resume
    <3>2. [loc[t] EXCEPT !.after = "none"] \in LocType
      BY <1>3 DEF LocType
    <3> QED
      BY <2>2, <3>1, <3>2
  <2>5. GivenUp(loc[t])
    BY <1>3, <1>6, <2>3, <2>4 DEF GivenUp, Steady
  <2> QED
    BY <1>3, <2>5 DEF Punctual
<1> QED
  BY <1>4, <1>5, <1>6

(* Nothing that sleeps is due. *)
LEMMA InvNeverLate == ASSUME Inv, TimeInv, LateInv PROVE NeverLate
<1>1. k \in KType /\ Clock(k)
  BY DEF Inv, LInv, TimeInv
<1>2. ASSUME NEW t \in Task, t \in Sleepers(k) PROVE Now(k) < loc[t].due
  <2>1. WakesAt(k, t) <= loc[t].due
    BY <1>2 DEF LateInv, Prompt
  <2>2. loc[t].due \in Int /\ WakesAt(k, t) \in Int /\ Now(k) \in Int /\ TickMod \in Nat
    BY <1>1, NowFacts DEF Inv, LocType
  <2>3. Now(k) < WakesAt(k, t)
    <3> DEFINE m == k.over * TickMod
    <3>1. m \in Int /\ k.tick \in Int /\ k.wake[t] \in Int
      <4>1. m \in Int
        BY <1>1, NowFacts
      <4> QED
        BY <1>1, <4>1 DEF KType
    <3>2. Now(k) = m + k.tick
      BY DEF Now
    <3>3. CASE t \in ToSet(k.delayed)
      <4>1. WakesAt(k, t) = m + k.wake[t] /\ k.tick < k.wake[t]
        BY <1>1, <3>3 DEF WakesAt, Clock
      <4> HIDE DEF m
      <4> QED
        BY <3>1, <3>2, <4>1
    <3>4. CASE t \notin ToSet(k.delayed)
      <4>1. WakesAt(k, t) = m + TickMod + k.wake[t] /\ k.tick < TickMod /\ 0 <= k.wake[t]
        BY <1>1, <1>2, <3>4 DEF WakesAt, Clock, Sleepers
      <4> HIDE DEF m
      <4> QED
        BY <2>2, <3>1, <3>2, <4>1
    <3> QED
      BY <3>3, <3>4
  <2> QED
    BY <2>1, <2>2, <2>3
<1> QED
  BY <1>2 DEF NeverLate, Sleepers

-----------------------------------------------------------------------------
(* The theorems of time. *)

(* No delay ends, no wait for the queue, a mutex or a notification is given*)
(* up, before as many ticks have passed as it was to last, whatever the    *)
(* count's width and however often it wraps: for any tasks, priorities,    *)
(* mutexes, calls and ticks, where ListsAlwaysAgree holds.                 *)
THEOREM NeverAnyEarly == Spec /\ []HolderNotAlone => NeverEarly
<1>1. Init => Inv /\ TimeInv
  BY InitInv, InitTime
<1>2. HolderNotAlone /\ Inv /\ TimeInv /\ [Next]_vars => Inv' /\ TimeInv'
  BY NextInv, NextTime, StutterInv, StutterTime
<1>3. Inv /\ TimeInv /\ [Next]_vars =>
        [\A t \in Task :
           /\ \/ loc[t].pc \in {"back", "resume", "expired", "disinherit"} /\ loc'[t].pc = "app"
              \/ loc[t].pc = "notified" /\ loc'[t].pc = "app" /\ k.note[t].n = 0
           => loc[t].due <= Now(k)]_vars
  BY EarlyFacts
<1> QED
  BY <1>1, <1>2, <1>3, PTL DEF Spec, NeverEarly

(* No task sleeps past the end of its wait, as long as no call is kept from*)
(* looking at the clock while the count wraps twice (a task starved for    *)
(* that long counts its wait anew: xTaskCheckForTimeOut cannot tell).      *)
THEOREM NeverAnyLate == Spec /\ []HolderNotAlone /\ []WrapsOnce => []NeverLate
<1>1. Init => Inv /\ TimeInv /\ LateInv
  BY InitInv, InitTime
<1>2. HolderNotAlone /\ WrapsOnce /\ Inv /\ TimeInv /\ LateInv /\ [Next]_vars
        => Inv' /\ TimeInv' /\ LateInv'
  BY NextInv, NextTime, StutterInv, StutterTime
<1>3. Inv /\ TimeInv /\ LateInv => NeverLate
  BY InvNeverLate
<1> QED
  BY <1>1, <1>2, <1>3, PTL DEF Spec

(* Where the tasks take a mutex at once or wait for it for ever, every step*)
(* keeps the lists and the time.                                           *)
LEMMA PatientTime ==
  ASSUME PatientCalls, Inv, AllPatient, TimeInv, [Next]_vars
  PROVE  Inv' /\ AllPatient' /\ TimeInv' /\ (LateInv /\ WrapsOnce => LateInv')
<1>1. CASE Next
  BY <1>1, NextInv, PatientNext, PatientHolder, NextTime
<1>2. CASE UNCHANGED vars
  BY <1>2, StutterInv, StutterTime DEF vars, AllPatient
<1> QED
  BY <1>1, <1>2

(* Such tasks give up nothing early, with nothing assumed of the holder. *)
THEOREM PatientNeverEarly ==
  ASSUME PatientCalls
  PROVE  Spec => NeverEarly
<1>1. Init => Inv /\ AllPatient /\ TimeInv
  BY InitInv, PatientInit, InitTime
<1>2. Inv /\ AllPatient /\ TimeInv /\ [Next]_vars => (Inv /\ AllPatient /\ TimeInv)'
  BY PatientTime
<1>3. Inv /\ TimeInv /\ [Next]_vars =>
        [\A t \in Task :
           /\ \/ loc[t].pc \in {"back", "resume", "expired", "disinherit"} /\ loc'[t].pc = "app"
              \/ loc[t].pc = "notified" /\ loc'[t].pc = "app" /\ k.note[t].n = 0
           => loc[t].due <= Now(k)]_vars
  BY EarlyFacts
<1> QED
  BY <1>1, <1>2, <1>3, PTL DEF Spec, NeverEarly

(* Nor do they sleep past their time. *)
THEOREM PatientNeverLate ==
  ASSUME PatientCalls
  PROVE  Spec /\ []WrapsOnce => []NeverLate
<1>1. Init => Inv /\ AllPatient /\ TimeInv /\ LateInv
  BY InitInv, PatientInit, InitTime
<1>2. WrapsOnce /\ Inv /\ AllPatient /\ TimeInv /\ LateInv /\ [Next]_vars
        => (Inv /\ AllPatient /\ TimeInv /\ LateInv)'
  BY PatientTime
<1>3. Inv /\ TimeInv /\ LateInv => NeverLate
  BY InvNeverLate
<1> QED
  BY <1>1, <1>2, <1>3, PTL DEF Spec
=============================================================================
