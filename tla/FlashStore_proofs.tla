-------------------------- MODULE FlashStore_proofs --------------------------
(***************************************************************************)
(* The settings: for every number of items, every table and every moment   *)
(* of a reset, a save finds its items in order (whether an erase may fail  *)
(* or not), and, when an erase does not fail, no start mixes two saves and *)
(* a completed one is what the next start uses.                            *)
(*                                                                         *)
(* The calibration: none is used that was not written, for every set of    *)
(* bits and every sequence of writes and resets.                           *)
(***************************************************************************)
EXTENDS FlashStore, FiniteSetTheorems, WellFoundedInduction, TLAPS

(* Tables of settings.                                                     *)

Config == [Items -> SUBSET Bits]
Slot == [valid : BOOLEAN, name : Items \cup {Mistyped}, val : SUBSET Bits]
Table == [Items -> Slot]
Pieces == 3 * ItemCount

\* A table every slot of which has been set, from a configuration.
Saved(c) == [s \in Items |-> [valid |-> TRUE, name |-> s, val |-> c[s]]]

\* The flags, names and values of a sector of which n pieces are programmed.
Cut(table, n) ==
  \A s \in Items : /\ table[s].valid <=> 3 * s - 2 <= n
                   /\ table[s].name = IF 3 * s - 1 <= n THEN s ELSE Mistyped
Holds(table, c, n) ==
  \A s \in Items : table[s].val = IF 3 * s <= n THEN c[s] ELSE Bits

\* The first k items are there, in order; one slot has a name nobody asks for.
Prefix(table, k) ==
  \A s \in Items : (table[s].valid <=> s <= k) /\ (s <= k => table[s].name = s)
InOrder(table) == \E k \in 0..ItemCount : Prefix(table, k)
Torn(table) == \E s \in Items : table[s].valid /\ table[s].name \notin Items

(* Induction over the natural numbers.                                     *)

Below == {p \in Nat \X Nat : p[1] < p[2]}

\* A set of natural numbers that is not empty has a least element.
LEMMA Least ==
  ASSUME NEW T \in SUBSET Nat, T # {}
  PROVE  \E x \in T : \A y \in T : x <= y
<1>1. IsWellFoundedOn(Below, Nat)
  BY NatLessThanWellFounded DEF OpToRel, Below
<1>2. PICK x \in T : \A y \in T : <<y, x>> \notin Below
  BY <1>1, WFMin, Zenon
<1>3. \A y \in T : y \in Nat /\ x \in Nat
  OBVIOUS
<1>4. \A y, z \in Nat : <<y, z>> \notin Below => z <= y
  BY DEF Below
<1> QED
  BY <1>2, <1>3, <1>4

\* Induction, with a set for the predicate.
LEMMA SetInduction ==
  ASSUME NEW S, 0 \in S, \A n \in Nat : n \in S => n + 1 \in S
  PROVE  Nat \subseteq S
<1> SUFFICES ASSUME Nat \ S # {} PROVE FALSE
  OBVIOUS
<1>1. PICK x \in Nat \ S : \A y \in Nat \ S : x <= y
  <2>1. Nat \ S \in SUBSET Nat
    OBVIOUS
  <2> QED
    BY <2>1, Least
<1>2. x # 0 /\ x - 1 \in Nat /\ x - 1 \notin Nat \ S
  BY <1>1
<1> QED
  BY <1>1, <1>2

LEMMA ItemFacts ==
  /\ ItemCount \in Nat /\ ItemCount > 1
  /\ Items \subseteq Nat /\ Setting \subseteq Items /\ 1 \in Items
  /\ \A i \in Items : i \in Int /\ 1 <= i /\ i <= ItemCount
  /\ Pieces \in Nat /\ Mistyped \notin Items
  /\ \A v \in SUBSET Bits : v # None
  /\ \A c \in Config : c # None
BY UserSettingAssumption DEF UserSettingAssumption, Items, Setting, Pieces, Config

\* The first of some slots is one of them, and none is before it.
LEMMA FirstIs ==
  ASSUME NEW S \in SUBSET Items, S # {}
  PROVE  First(S) \in S /\ \A t \in S : First(S) <= t
<1>1. S \in SUBSET Nat
  BY ItemFacts
<1>2. \E s \in S : \A t \in S : s <= t
  BY <1>1, Least
<1> QED
  BY <1>2 DEF First

LEMMA SlotsIn ==
  ASSUME NEW table, NEW i
  PROVE  Slots(table, i) \in SUBSET Items /\ FreeSlots(table) \in SUBSET Items
BY DEF Slots, FreeSlots

LEMMA SetTable ==
  ASSUME NEW table \in Table, NEW i \in Items, NEW v \in SUBSET Bits
  PROVE  user_setting_set(table, i, v) \in Table
<1>1. CASE Slots(table, i) # {}
  <2>1. First(Slots(table, i)) \in Items
    BY <1>1, SlotsIn, FirstIs
  <2> QED
    BY <1>1, <2>1 DEF user_setting_set, Table, Slot
<1>2. CASE Slots(table, i) = {} /\ FreeSlots(table) # {}
  <2>1. [valid |-> TRUE, name |-> i, val |-> v] \in Slot
    BY DEF Slot
  <2> QED
    BY <1>2, <2>1 DEF user_setting_set, Table
<1>3. CASE Slots(table, i) = {} /\ FreeSlots(table) = {}
  BY <1>3 DEF user_setting_set
<1> QED
  BY <1>1, <1>2, <1>3

\* A slot with a name nobody asks for stays.
LEMMA SetTorn ==
  ASSUME NEW table \in Table, NEW i \in Items, NEW v \in SUBSET Bits, Torn(table)
  PROVE  Torn(user_setting_set(table, i, v))
<1>1. PICK s \in Items : table[s].valid /\ table[s].name \notin Items
  BY DEF Torn
<1>2. table[s] \in Slot /\ s \notin FreeSlots(table)
  BY <1>1 DEF Table, FreeSlots
<1>3. CASE Slots(table, i) # {}
  <2>1. First(Slots(table, i)) # s
    BY <1>1, <1>3, SlotsIn, FirstIs DEF Slots
  <2> QED
    BY <1>1, <1>3, <2>1 DEF user_setting_set, Torn, Table
<1>4. CASE Slots(table, i) = {} /\ FreeSlots(table) # {}
  <2>1. First(FreeSlots(table)) # s
    BY <1>2, <1>4, SlotsIn, FirstIs
  <2> QED
    BY <1>1, <1>4, <2>1 DEF user_setting_set, Torn, Table
<1>5. CASE Slots(table, i) = {} /\ FreeSlots(table) = {}
  BY <1>5 DEF user_setting_set
<1> QED
  BY <1>3, <1>4, <1>5

\* Then one item has no slot.
LEMMA TornNotAllThere ==
  ASSUME NEW table \in Table, Torn(table)
  PROVE  ~AllThere(table)
<1> SUFFICES ASSUME AllThere(table) PROVE FALSE
  OBVIOUS
<1>1. PICK s \in Items : table[s].valid /\ table[s].name \notin Items
  BY DEF Torn
<1> DEFINE Of == [i \in Items |-> First(Slots(table, i))]
<1>2. \A i \in Items : Of[i] \in Items /\ table[Of[i]].name = i
  BY SlotsIn, FirstIs DEF AllThere, Slots
<1>3. Of \in [Items -> Items \ {s}]
  BY <1>1, <1>2
<1>4. IsFiniteSet(Items) /\ Cardinality(Items) = ItemCount
  BY FS_Interval, ItemFacts DEF Items
<1>5. IsFiniteSet(Items \ {s}) /\ Cardinality(Items \ {s}) = ItemCount - 1
  BY <1>1, <1>4, FS_RemoveElement
<1>6. \E i, j \in Items : i # j /\ Of[i] = Of[j]
  <2> HIDE DEF Of
  <2>1. Cardinality(Items \ {s}) < Cardinality(Items)
    BY <1>4, <1>5, ItemFacts
  <2> QED
    BY <2>1, <1>3, <1>4, <1>5, FS_PigeonHole
<1> QED
  BY <1>2, <1>6

\* Setting item i, when those before it are set.
LEMMA SetNext ==
  ASSUME NEW table \in Table, NEW c \in Config, NEW i \in Items, NEW k \in 0..ItemCount,
         Prefix(table, k), i - 1 <= k, \A s \in 1..(i - 1) : table[s].val = c[s]
  PROVE  LET after == user_setting_set(table, i, c[i]) IN
         /\ after \in Table
         /\ Prefix(after, IF i <= k THEN k ELSE i)
         /\ \A s \in 1..i : after[s].val = c[s]
<1> DEFINE after == user_setting_set(table, i, c[i])
<1>1. c[i] \in SUBSET Bits
  BY DEF Config
<1>2. after \in Table
  BY <1>1, SetTable
<1>3. \A s \in Items : table[s] \in Slot
  BY DEF Table
<1>4. CASE i <= k
  <2>1. Slots(table, i) = {i}
    BY <1>4 DEF Prefix, Slots
  <2>2. First(Slots(table, i)) = i
    BY <2>1, SlotsIn, FirstIs
  <2>3. after = [table EXCEPT ![i].val = c[i]]
    BY <2>1, <2>2 DEF user_setting_set
  <2>4. /\ after[i].val = c[i] /\ after[i].valid = table[i].valid /\ after[i].name = table[i].name
        /\ \A s \in Items \ {i} : after[s] = table[s]
    BY <2>3, <1>3 DEF Table, Slot
  <2>5. Prefix(after, k)
    BY <2>4 DEF Prefix
  <2>6. \A s \in 1..i : after[s].val = c[s]
    BY <2>4, ItemFacts DEF Items
  <2> QED
    BY <1>2, <1>4, <2>5, <2>6
<1>5. CASE ~(i <= k)
  <2>0. k = i - 1 /\ i \in Nat
    BY <1>5, ItemFacts
  <2>1. Slots(table, i) = {}
    BY <2>0, ItemFacts DEF Prefix, Slots, Items
  <2>2. \A s \in Items : s \in FreeSlots(table) <=> i <= s
    BY <2>0, ItemFacts DEF Prefix, FreeSlots, Items
  <2>3. i \in FreeSlots(table)
    BY <2>2, ItemFacts
  <2>4. First(FreeSlots(table)) = i
    <3>1. First(FreeSlots(table)) \in FreeSlots(table) /\ First(FreeSlots(table)) <= i
      BY <2>3, SlotsIn, FirstIs
    <3>2. First(FreeSlots(table)) \in Items
      BY <3>1, SlotsIn
    <3>3. i <= First(FreeSlots(table)) /\ First(FreeSlots(table)) \in Nat
      BY <3>1, <3>2, <2>2, ItemFacts
    <3> QED
      BY <3>1, <3>3, <2>0
  <2>5. after = [table EXCEPT ![i] = [valid |-> TRUE, name |-> i, val |-> c[i]]]
    BY <2>1, <2>3, <2>4 DEF user_setting_set
  <2>6. /\ after[i] = [valid |-> TRUE, name |-> i, val |-> c[i]]
        /\ \A s \in Items \ {i} : after[s] = table[s]
    BY <2>5 DEF Table
  <2>7. Prefix(after, i)
    <3> SUFFICES ASSUME NEW s \in Items
                 PROVE  (after[s].valid <=> s <= i) /\ (s <= i => after[s].name = s)
      BY DEF Prefix
    <3>1. CASE s = i
      BY <3>1, <2>6, <2>0
    <3>2. CASE s # i
      <4>1. after[s] = table[s]
        BY <2>6, <3>2
      <4>2. (s <= i) <=> (s <= k)
        BY <2>0, <3>2, ItemFacts
      <4> QED
        BY <4>1, <4>2 DEF Prefix
    <3> QED
      BY <3>1, <3>2
  <2>8. \A s \in 1..i : after[s].val = c[s]
    BY <2>6, ItemFacts DEF Items
  <2> QED
    BY <1>2, <1>5, <2>7, <2>8
<1> QED
  BY <1>4, <1>5

\* ci_setting_set is the last of a row of tables, each of which follows from
\* the one before by one user_setting_set.
LEMMA SetRow ==
  ASSUME NEW table, NEW c
  PROVE  \E After :
           /\ After[0] = table
           /\ \A i \in Items : After[i] = user_setting_set(After[i - 1], i, c[i])
           /\ ci_setting_set(table, c) = After[ItemCount]
<1> DEFINE Row(A, n) ==
      A = [i \in 0..n |-> IF i = 0 THEN table ELSE user_setting_set(A[i - 1], i, c[i])]
<1> DEFINE S == {n \in Nat : \E A : Row(A, n)}
<1>1. 0 \in S
  <2>1. Row([i \in 0..0 |-> table], 0)
    OBVIOUS
  <2> QED
    BY <2>1
<1>2. ASSUME NEW n \in Nat, n \in S PROVE n + 1 \in S
  <2>1. PICK A : Row(A, n)
    BY <1>2
  <2> DEFINE B == [i \in 0..(n + 1) |->
                    IF i = n + 1 THEN user_setting_set(A[n], n + 1, c[n + 1]) ELSE A[i]]
  <2>2. \A i \in 0..(n + 1) :
          B[i] = IF i = 0 THEN table ELSE user_setting_set(B[i - 1], i, c[i])
    <3> SUFFICES ASSUME NEW i \in 0..(n + 1)
                 PROVE  B[i] = IF i = 0 THEN table ELSE user_setting_set(B[i - 1], i, c[i])
      OBVIOUS
    <3>1. CASE i = n + 1
      BY <3>1
    <3>2. CASE i # n + 1
      <4>1. A[i] = IF i = 0 THEN table ELSE user_setting_set(A[i - 1], i, c[i])
        BY <2>1, <3>2
      <4>2. B[i] = A[i] /\ (i # 0 => B[i - 1] = A[i - 1])
        BY <3>2
      <4> QED
        BY <4>1, <4>2
    <3> QED
      BY <3>1, <3>2
  <2>3. Row(B, n + 1)
    <3> DEFINE F == [i \in 0..(n + 1) |->
                      IF i = 0 THEN table ELSE user_setting_set(B[i - 1], i, c[i])]
    <3>1. \A i \in 0..(n + 1) : B[i] = F[i]
      BY <2>2
    <3> QED
      BY <3>1
  <2>4. \E C : Row(C, n + 1)
    <3> HIDE DEF B, Row
    <3> QED
      BY <2>3
  <2> QED
    BY <2>4
<1>3. ItemCount \in S
  <2> HIDE DEF S
  <2> QED
    BY <1>1, <1>2, SetInduction, ItemFacts
<1>4. PICK A : Row(A, ItemCount)
  BY <1>3
<1> DEFINE After == CHOOSE B : Row(B, ItemCount)
<1>5. Row(After, ItemCount)
  BY <1>4
<1>6. ci_setting_set(table, c) = After[ItemCount]
  BY DEF ci_setting_set
<1>7. After[0] = table /\ \A i \in Items : After[i] = user_setting_set(After[i - 1], i, c[i])
  <2> HIDE DEF After
  <2> QED
    BY <1>5, ItemFacts DEF Items
<1> QED
  BY <1>6, <1>7

\* Setting a configuration fills a table that has its items in order, and
\* never a torn one.
LEMMA SetAll ==
  ASSUME NEW table \in Table, NEW c \in Config
  PROVE  /\ ci_setting_set(table, c) \in Table
         /\ InOrder(table) => ci_setting_set(table, c) = Saved(c)
         /\ Torn(table) => Torn(ci_setting_set(table, c))
<1>1. PICK After : /\ After[0] = table
                   /\ \A i \in Items : After[i] = user_setting_set(After[i - 1], i, c[i])
                   /\ ci_setting_set(table, c) = After[ItemCount]
  BY SetRow
<1>2. \A i \in Items : c[i] \in SUBSET Bits
  BY DEF Config
<1>3. \A n \in Nat : n + 1 <= ItemCount => n + 1 \in Items /\ n + 1 - 1 = n
  BY ItemFacts DEF Items
<1>4. After[ItemCount] \in Table /\ (Torn(table) => Torn(After[ItemCount]))
  <2> DEFINE S == {n \in Nat : n <= ItemCount =>
                     After[n] \in Table /\ (Torn(table) => Torn(After[n]))}
  <2>1. 0 \in S
    BY <1>1
  <2>2. ASSUME NEW n \in Nat, n \in S PROVE n + 1 \in S
    <3> SUFFICES ASSUME n + 1 <= ItemCount
                 PROVE  After[n + 1] \in Table /\ (Torn(table) => Torn(After[n + 1]))
      OBVIOUS
    <3>1. After[n] \in Table /\ (Torn(table) => Torn(After[n]))
      BY <2>2, ItemFacts
    <3>2. n + 1 \in Items /\ After[n + 1] = user_setting_set(After[n], n + 1, c[n + 1])
      BY <1>1, <1>3
    <3> QED
      BY <3>1, <3>2, <1>2, SetTable, SetTorn
  <2>3. ItemCount \in S
    <3> HIDE DEF S
    <3> QED
      BY <2>1, <2>2, SetInduction, ItemFacts
  <2> QED
    BY <2>3, ItemFacts
<1>5. ASSUME InOrder(table) PROVE After[ItemCount] = Saved(c)
  <2> DEFINE Filled(t, n) ==
        /\ t \in Table
        /\ \E k \in 0..ItemCount : n <= k /\ Prefix(t, k)
        /\ \A s \in 1..n : t[s].val = c[s]
  <2> DEFINE S == {n \in Nat : n <= ItemCount => Filled(After[n], n)}
  <2>1. 0 \in S
    BY <1>1, <1>5 DEF InOrder
  <2>2. ASSUME NEW n \in Nat, n \in S PROVE n + 1 \in S
    <3> SUFFICES ASSUME n + 1 <= ItemCount PROVE Filled(After[n + 1], n + 1)
      OBVIOUS
    <3>1. Filled(After[n], n)
      BY <2>2, ItemFacts
    <3>2. n + 1 \in Items /\ After[n + 1] = user_setting_set(After[n], n + 1, c[n + 1])
      BY <1>1, <1>3
    <3>3. PICK k \in 0..ItemCount : n <= k /\ Prefix(After[n], k)
      BY <3>1
    <3>4. \A s \in 1..(n + 1 - 1) : After[n][s].val = c[s]
      BY <3>1
    <3>5. /\ After[n + 1] \in Table
          /\ Prefix(After[n + 1], IF n + 1 <= k THEN k ELSE n + 1)
          /\ \A s \in 1..(n + 1) : After[n + 1][s].val = c[s]
      BY <3>1, <3>2, <3>3, <3>4, SetNext
    <3> QED
      BY <3>5, ItemFacts
  <2>3. ItemCount \in S
    <3> HIDE DEF S
    <3> QED
      BY <2>1, <2>2, SetInduction, ItemFacts
  <2>4. Filled(After[ItemCount], ItemCount)
    BY <2>3, ItemFacts
  <2> DEFINE t == After[ItemCount]
  <2>5. Prefix(t, ItemCount)
    BY <2>4, ItemFacts
  <2>6. \A s \in Items : t[s] = [valid |-> TRUE, name |-> s, val |-> c[s]]
    <3> SUFFICES ASSUME NEW s \in Items
                 PROVE  t[s] = [valid |-> TRUE, name |-> s, val |-> c[s]]
      OBVIOUS
    <3>1. t[s] \in Slot
      BY <2>4 DEF Table
    <3>2. t[s].valid = TRUE /\ t[s].name = s /\ t[s].val = c[s]
      BY <3>1, <2>4, <2>5, ItemFacts DEF Prefix, Slot, Items
    <3> QED
      BY <3>1, <3>2 DEF Slot
  <2> QED
    BY <2>4, <2>6 DEF Saved, Table
<1> QED
  BY <1>1, <1>4, <1>5

\* What user_setting_get returns.
LEMMA GetIs ==
  ASSUME NEW table \in Table, NEW i \in Items
  PROVE  /\ user_setting_get(table, i) = None <=> Slots(table, i) = {}
         /\ user_setting_get(table, i) \in (SUBSET Bits) \cup {None}
<1>1. CASE Slots(table, i) = {}
  BY <1>1 DEF user_setting_get
<1>2. CASE Slots(table, i) # {}
  <2>1. First(Slots(table, i)) \in Items
    BY <1>2, SlotsIn, FirstIs
  <2>2. user_setting_get(table, i) \in SUBSET Bits
    BY <1>2, <2>1 DEF user_setting_get, Table, Slot
  <2> QED
    BY <1>2, <2>2, ItemFacts
<1> QED
  BY <1>1, <1>2

\* Of a sector of which n pieces are programmed: the items whose name is there.
LEMMA GetCut ==
  ASSUME NEW table \in Table, NEW c \in Config, NEW n \in 0..Pieces, NEW i \in Items,
         Cut(table, n), Holds(table, c, n)
  PROVE  user_setting_get(table, i) =
           IF n < 3 * i - 1 THEN None ELSE IF n < 3 * i THEN Bits ELSE c[i]
<1>0. n \in Int /\ i \in Int /\ \A s \in Items : s \in Int
  BY ItemFacts
<1>1. CASE n < 3 * i - 1
  <2>1. \A s \in Items : ~(table[s].valid /\ table[s].name = i)
    <3> SUFFICES ASSUME NEW s \in Items, table[s].valid, table[s].name = i PROVE FALSE
      OBVIOUS
    <3>1. s # i
      BY <1>0, <1>1, ItemFacts DEF Cut
    <3> QED
      BY <3>1, ItemFacts DEF Cut
  <2> QED
    BY <1>1, <2>1 DEF user_setting_get, Slots
<1>2. CASE ~(n < 3 * i - 1)
  <2>1. table[i].valid /\ table[i].name = i
    BY <1>0, <1>2 DEF Cut
  <2>2. \A s \in Items : table[s].name = i => s = i
    BY ItemFacts DEF Cut
  <2>3. Slots(table, i) = {i}
    BY <2>1, <2>2 DEF Slots
  <2>4. First(Slots(table, i)) = i
    BY <2>3, SlotsIn, FirstIs
  <2>5. user_setting_get(table, i) = table[i].val
    BY <2>3, <2>4 DEF user_setting_get
  <2> QED
    BY <1>0, <1>2, <2>5 DEF Holds
<1> QED
  BY <1>1, <1>2

\* What a reset leaves of a save: the first items, or a name that is cut short.
LEMMA CutIs ==
  ASSUME NEW table \in Table, NEW n \in 0..Pieces, Cut(table, n)
  PROVE  InOrder(table) \/ Torn(table)
<1>0. n \in Int /\ \A s \in Items : s \in Int
  BY ItemFacts
<1>1. PICK k \in 0..ItemCount : n \in {3 * k, 3 * k - 1, 3 * k - 2}
  <2> DEFINE k == (n + 2) \div 3
  <2>1. k \in 0..ItemCount /\ n \in {3 * k, 3 * k - 1, 3 * k - 2}
    BY ItemFacts DEF Pieces
  <2> QED
    BY <2>1
<1>2. CASE n = 3 * k - 2
  <2>1. k \in Items
    BY <1>2, ItemFacts DEF Items
  <2>2. table[k].valid /\ table[k].name = Mistyped
    BY <1>0, <1>2, <2>1 DEF Cut
  <2> QED
    BY <2>1, <2>2, ItemFacts DEF Torn
<1>3. CASE n \in {3 * k, 3 * k - 1}
  <2>1. \A s \in Items : (3 * s - 2 <= n <=> s <= k) /\ (3 * s - 1 <= n <=> s <= k)
    BY <1>0, <1>3
  <2>2. Prefix(table, k)
    BY <2>1 DEF Prefix, Cut
  <2> QED
    BY <2>2 DEF InOrder
<1> QED
  BY <1>1, <1>2, <1>3

LEMMA ErasedIs ==
  ASSUME NEW c
  PROVE  Erased \in Table /\ InOrder(Erased) /\ Cut(Erased, 0) /\ Holds(Erased, c, 0)
<1>1. \A s \in Items : Erased[s] = [valid |-> FALSE, name |-> Mistyped, val |-> Bits]
  BY DEF Erased, Free
<1>2. Erased \in Table
  BY DEF Erased, Free, Table, Slot
<1>3. \A s \in Items : ~(3 * s - 2 <= 0) /\ ~(3 * s - 1 <= 0) /\ ~(3 * s <= 0) /\ ~(s <= 0)
  BY ItemFacts
<1>4. Prefix(Erased, 0)
  BY <1>1, <1>3 DEF Prefix
<1>5. 0 \in 0..ItemCount
  BY ItemFacts
<1> QED
  BY <1>1, <1>2, <1>3, <1>4, <1>5 DEF InOrder, Cut, Holds

LEMMA SavedIs ==
  ASSUME NEW c \in Config
  PROVE  Saved(c) \in Table /\ InOrder(Saved(c))
<1>1. Saved(c) \in Table
  BY DEF Saved, Config, Table, Slot
<1>2. Prefix(Saved(c), ItemCount)
  BY ItemFacts DEF Saved, Prefix
<1> QED
  BY <1>1, <1>2, ItemFacts DEF InOrder

\* Programming a piece of a save over a sector that holds at least the pieces
\* before it, and over one that holds just those.
LEMMA ProgramPiece ==
  ASSUME flash \in Table, NEW c \in Config, load = Saved(c), NEW p \in 1..Pieces, Program(p),
         NEW n \in 0..Pieces, p - 1 <= n, Cut(flash, n)
  PROVE  /\ flash' \in Table
         /\ Cut(flash', IF n < p THEN p ELSE n)
         /\ n = p - 1 /\ Holds(flash, c, n) => Holds(flash', c, p)
<1>0. n \in Int /\ p \in Int /\ \A t \in Items : t \in Int
  BY ItemFacts
<1> DEFINE s == (p + 2) \div 3
<1>1. s \in Items
  BY ItemFacts DEF Items, Pieces
<1>2. \/ p = 3 * s - 2 /\ p % 3 = 1
      \/ p = 3 * s - 1 /\ p % 3 = 2
      \/ p = 3 * s /\ p % 3 = 0
  BY <1>0
<1>3. load[s].valid = TRUE /\ load[s].name = s /\ load[s].val = c[s] /\ c[s] \in SUBSET Bits
  BY <1>1 DEF Saved, Config
<1>4. /\ flash[s] \in Slot /\ flash[s].valid \in BOOLEAN
      /\ flash[s].name \in Items \cup {Mistyped} /\ flash[s].val \in SUBSET Bits
  BY <1>1 DEF Table, Slot
<1> DEFINE Piece ==
      CASE p % 3 = 1 -> [flash[s] EXCEPT !.valid = @ \/ load[s].valid]
        [] p % 3 = 2 -> [flash[s] EXCEPT !.name =
             IF @ \in {Mistyped, load[s].name} THEN load[s].name ELSE None]
        [] p % 3 = 0 -> [flash[s] EXCEPT !.val = @ \cap load[s].val]
<1>5. flash' = [flash EXCEPT ![s] = Piece]
  BY DEF Program
<1> HIDE DEF s
<1>10. /\ p % 3 = 1 => Piece = [flash[s] EXCEPT !.valid = flash[s].valid \/ load[s].valid]
       /\ p % 3 = 2 => Piece = [flash[s] EXCEPT !.name =
             IF flash[s].name \in {Mistyped, load[s].name} THEN load[s].name ELSE None]
       /\ p % 3 = 0 => Piece = [flash[s] EXCEPT !.val = flash[s].val \cap load[s].val]
  OBVIOUS
<1> HIDE DEF Piece
<1>6. \A t \in Items : t # s => flash'[t] = flash[t] /\ t \in Int
  BY <1>0, <1>1, <1>5 DEF Table
<1>7. CASE p = 3 * s - 2 /\ p % 3 = 1
  <2>1. flash' = [flash EXCEPT ![s] = [flash[s] EXCEPT !.valid = TRUE]]
    <3>1. (flash[s].valid \/ load[s].valid) = TRUE
      BY <1>3
    <3> QED
      BY <3>1, <1>7, <1>5, <1>10
  <2>2. flash' \in Table
    BY <1>1, <1>4, <2>1 DEF Table, Slot
  <2>3. flash'[s].valid = TRUE /\ flash'[s].name = flash[s].name /\ flash'[s].val = flash[s].val
    BY <1>1, <1>4, <2>1 DEF Table, Slot
  <2>4. Cut(flash', IF n < p THEN p ELSE n)
    BY <1>0, <1>1, <1>6, <1>7, <2>3 DEF Cut
  <2>5. n = p - 1 /\ Holds(flash, c, n) => Holds(flash', c, p)
    BY <1>0, <1>1, <1>6, <1>7, <2>3 DEF Holds
  <2> QED
    BY <2>2, <2>4, <2>5
<1>8. CASE p = 3 * s - 1 /\ p % 3 = 2
  <2>1. flash[s].name \in {Mistyped, s}
    BY <1>1 DEF Cut
  <2>2. flash' = [flash EXCEPT ![s] = [flash[s] EXCEPT !.name = s]]
    BY <1>3, <1>8, <1>5, <1>10, <2>1
  <2>3. flash' \in Table
    BY <1>1, <1>4, <2>2 DEF Table, Slot
  <2>4. flash'[s].valid = flash[s].valid /\ flash'[s].name = s /\ flash'[s].val = flash[s].val
    BY <1>1, <1>4, <2>2 DEF Table, Slot
  <2>5. Cut(flash', IF n < p THEN p ELSE n)
    BY <1>0, <1>1, <1>6, <1>8, <2>4 DEF Cut
  <2>6. n = p - 1 /\ Holds(flash, c, n) => Holds(flash', c, p)
    BY <1>0, <1>1, <1>6, <1>8, <2>4 DEF Holds
  <2> QED
    BY <2>3, <2>5, <2>6
<1>9. CASE p = 3 * s /\ p % 3 = 0
  <2>1. flash' = [flash EXCEPT ![s] = [flash[s] EXCEPT !.val = flash[s].val \cap c[s]]]
    BY <1>3, <1>9, <1>5, <1>10
  <2>2. flash' \in Table
    BY <1>1, <1>4, <2>1 DEF Table, Slot
  <2>3. /\ flash'[s].valid = flash[s].valid /\ flash'[s].name = flash[s].name
        /\ flash'[s].val = flash[s].val \cap c[s]
    BY <1>1, <1>4, <2>1 DEF Table, Slot
  <2>4. Cut(flash', IF n < p THEN p ELSE n)
    BY <1>0, <1>1, <1>6, <1>9, <2>3 DEF Cut
  <2>5. ASSUME n = p - 1, Holds(flash, c, n) PROVE Holds(flash', c, p)
    <3>1. flash[s].val = Bits
      BY <1>0, <1>1, <1>9, <2>5 DEF Holds
    <3>2. flash'[s].val = c[s]
      BY <3>1, <2>3, <1>3
    <3> QED
      BY <1>0, <1>1, <1>6, <1>9, <2>5, <3>2 DEF Holds
  <2> QED
    BY <2>2, <2>4, <2>5
<1> QED
  BY <1>2, <1>7, <1>8, <1>9

-----------------------------------------------------------------------------
(* What holds in every state, whether an erase may fail or not.            *)

Types ==
  /\ cfg \in Config /\ applied \in Config
  /\ load \in Table /\ flash \in Table
  /\ inited \in BOOLEAN

BootOK ==
  /\ boot.at \in {"init", "check", "get", "apply", "up"}
  /\ boot.at = "get" => boot.item \in Items
  /\ boot.at = "apply" => boot.item \in Setting

CmdOK ==
  /\ cmd.at \in {"idle", "set", "store", "write", "erase"}
  /\ cmd.at = "set" => cmd.item \in Setting /\ cmd.val \in SUBSET Bits
  /\ cmd.at = "store" => cmd.saves \in Config
  /\ cmd.at = "write" => cmd \in [at : {"write"}, piece : 1..Pieces, saves : Config]

\* The table in RAM has its items in order or is torn; a save has filled it,
\* and the APP task does not read flash into it under the save's hands.
LoadOK ==
  /\ inited <=> boot.at # "init"
  /\ InOrder(load) \/ Torn(load)
  /\ cmd.at \in {"store", "write"} => inited /\ load = Saved(cmd.saves)

\* The flags and names in flash are those of a save that was cut off.
FlashOK ==
  \E n \in 0..Pieces : Cut(flash, n) /\ (cmd.at = "write" => cmd.piece - 1 <= n)

Shape == Types /\ BootOK /\ CmdOK /\ LoadOK /\ FlashOK

LEMMA ShapeInit == UserInit => Shape
<1> SUFFICES ASSUME UserInit PROVE Shape
  OBVIOUS
<1>1. Default \in Config
  BY UserSettingAssumption DEF UserSettingAssumption, Config
<1>2. Types
  BY <1>1, ErasedIs DEF UserInit, Types
<1>3. BootOK /\ CmdOK
  BY DEF UserInit, BootOK, CmdOK, Idle
<1>4. LoadOK
  BY ErasedIs DEF UserInit, LoadOK, Idle
<1>5. FlashOK
  <2>1. 0 \in 0..Pieces
    BY ItemFacts
  <2> QED
    BY <2>1, ErasedIs DEF UserInit, FlashOK, Idle
<1> QED
  BY <1>2, <1>3, <1>4, <1>5 DEF Shape

\* The places of ci_setting_load.
LEMMA NextPlace ==
  ASSUME NEW i \in Items
  PROVE  /\ Next_("get", i).at \in {"get", "apply"}
         /\ Next_("get", i).at = "get" => i < ItemCount /\ Next_("get", i).item = i + 1
         /\ Next_("get", i).at = "apply" => i = ItemCount /\ Next_("get", i).item = 2
         /\ Next_("apply", i).at \in {"apply", "up"}
         /\ Next_("apply", i).at = "apply" => i < ItemCount /\ Next_("apply", i).item = i + 1
         /\ Next_("apply", i).at = "up" => i = ItemCount
BY ItemFacts DEF Next_, Up

\* What a setting is loaded as, of which only 0 may differ from what was stored.
LEMMA AsLoadedIs ==
  /\ \A i \in Items : \A v \in SUBSET Bits : AsLoaded(i, v) \in SUBSET Bits
  /\ \A i \in Items : AsLoaded(i, Bits) = Bits
<1>1. Bits # {} /\ One \in SUBSET Bits
  BY UserSettingAssumption DEF UserSettingAssumption
<1> QED
  BY <1>1 DEF AsLoaded

\* The steps of the APP task.
LEMMA ShapeBoot ==
  ASSUME Shape, user_setting_init \/ LoadCheck \/ ci_setting_get \/ Apply
  PROVE  Shape'
<1>1. CASE user_setting_init
  <2>1. Types'
    BY <1>1 DEF user_setting_init, Shape, Types
  <2>2. BootOK' /\ CmdOK'
    BY <1>1 DEF user_setting_init, Shape, BootOK, CmdOK
  <2>3. cmd.at \notin {"store", "write"}
    BY <1>1 DEF user_setting_init, Shape, LoadOK
  <2>4. InOrder(flash) \/ Torn(flash)
    BY CutIs DEF Shape, Types, FlashOK
  <2>5. LoadOK'
    BY <1>1, <2>3, <2>4 DEF user_setting_init, LoadOK
  <2>6. FlashOK'
    BY <1>1 DEF user_setting_init, Shape, FlashOK
  <2> QED
    BY <2>1, <2>2, <2>5, <2>6 DEF Shape
<1>2. CASE LoadCheck
  <2>1. BootOK' /\ boot'.at # "init" /\ boot.at # "init"
    BY <1>2, ItemFacts DEF LoadCheck, BootOK, Up
  <2>2. UNCHANGED <<cfg, applied, load, inited, flash, cmd>>
    BY <1>2 DEF LoadCheck, ramVars
  <2> QED
    BY <2>1, <2>2 DEF Shape, Types, CmdOK, LoadOK, FlashOK
<1>3. CASE ci_setting_get
  <2>1. boot.item \in Items /\ UNCHANGED <<applied, load, inited, flash, cmd>>
    BY <1>3 DEF ci_setting_get, Shape, BootOK
  <2>2. user_setting_get(load, boot.item) \in (SUBSET Bits) \cup {None}
    BY <2>1, GetIs DEF Shape, Types
  <2>3. cfg' \in Config
    BY <1>3, <2>1, <2>2 DEF ci_setting_get, Shape, Types, Config
  <2>4. boot' = Up \/ boot' = Next_("get", boot.item)
    BY <1>3 DEF ci_setting_get
  <2>5. BootOK' /\ boot'.at # "init" /\ boot.at # "init"
    <3>1. CASE boot' = Up
      BY <1>3, <3>1 DEF Up, BootOK, ci_setting_get
    <3>2. CASE boot' = Next_("get", boot.item)
      BY <1>3, <2>1, <3>2, NextPlace, ItemFacts DEF BootOK, ci_setting_get, Items, Setting
    <3> QED
      BY <2>4, <3>1, <3>2
  <2> QED
    BY <2>1, <2>3, <2>5 DEF Shape, Types, CmdOK, LoadOK, FlashOK
<1>4. CASE Apply
  <2>1. boot.item \in Setting /\ UNCHANGED <<load, inited, flash, cmd>>
    BY <1>4 DEF Apply, Shape, BootOK
  <2>2. cfg' \in Config /\ applied' \in Config
    <3>1. boot.item \in Items /\ cfg \in Config /\ applied \in Config
      BY <2>1, ItemFacts DEF Shape, Types
    <3>2. cfg' \in Config /\ cfg'[boot.item] \in SUBSET Bits
      BY <1>4, <3>1, AsLoadedIs DEF Apply, Config
    <3> QED
      BY <1>4, <3>1, <3>2 DEF Apply, Config
  <2>3. boot' = Next_("apply", boot.item) /\ boot.item \in Items
    BY <1>4, <2>1, ItemFacts DEF Apply
  <2>4. BootOK' /\ boot'.at # "init" /\ boot.at # "init"
    BY <1>4, <2>1, <2>3, NextPlace, ItemFacts DEF BootOK, Apply, Items, Setting
  <2> QED
    BY <2>1, <2>2, <2>4 DEF Shape, Types, CmdOK, LoadOK, FlashOK
<1> QED
  BY <1>1, <1>2, <1>3, <1>4

\* Setting one of the settings, in its module and in the configuration.
LEMMA ShapeSet ==
  ASSUME Shape, SetApply \/ SetConfig
  PROVE  Shape'
<1>1. CASE SetApply
  <2>1. PICK i \in Setting : \E v \in Value[i] :
           /\ applied' = [applied EXCEPT ![i] = v]
           /\ cmd' = [at |-> "set", item |-> i, val |-> v]
    BY <1>1 DEF SetApply
  <2>2. PICK v \in Value[i] : /\ applied' = [applied EXCEPT ![i] = v]
                             /\ cmd' = [at |-> "set", item |-> i, val |-> v]
    BY <2>1
  <2>3. v \in SUBSET Bits
    BY UserSettingAssumption DEF UserSettingAssumption
  <2>4. cmd'.at = "set" /\ cmd'.item = i /\ cmd'.val = v
    BY <2>2
  <2>5. UNCHANGED <<cfg, load, inited, flash, boot>>
    BY <1>1 DEF SetApply
  <2>6. applied' \in Config
    BY <2>2, <2>3, ItemFacts DEF Shape, Types, Config
  <2> QED
    BY <2>3, <2>4, <2>5, <2>6 DEF Shape, Types, BootOK, CmdOK, LoadOK, FlashOK
<1>2. CASE SetConfig
  <2>1. cfg' \in Config
    BY <1>2, ItemFacts DEF SetConfig, Shape, Types, CmdOK, Config
  <2>2. cmd'.at = "idle" /\ UNCHANGED <<applied, load, inited, flash, boot>>
    BY <1>2 DEF SetConfig, Idle
  <2> QED
    BY <2>1, <2>2 DEF Shape, Types, BootOK, CmdOK, LoadOK, FlashOK
<1> QED
  BY <1>1, <1>2

\* A save: the table is filled and goes on to flash, or it is torn.
LEMMA ShapeSave ==
  ASSUME Shape, ci_cfg_save_set
  PROVE  Shape'
<1>1. PICK flag \in {Magic, {}} :
         /\ cfg' = [cfg EXCEPT ![1] = flag]
         /\ \/ UNCHANGED <<load, cmd>>
            \/ /\ inited
               /\ load' = ci_setting_set(load, cfg')
               /\ cmd' = IF AllThere(load') THEN [at |-> "store", saves |-> cfg'] ELSE Idle
  BY DEF ci_cfg_save_set
<1>2. cmd = Idle /\ UNCHANGED <<applied, inited, flash, boot>>
  BY DEF ci_cfg_save_set, Begin
<1>3. cfg' \in Config
  <2>1. flag \in SUBSET Bits
    BY UserSettingAssumption DEF UserSettingAssumption
  <2> QED
    BY <1>1, <2>1, ItemFacts DEF Shape, Types, Config
<1>4. CASE UNCHANGED <<load, cmd>>
  BY <1>2, <1>3, <1>4 DEF Shape, Types, BootOK, CmdOK, LoadOK, FlashOK
<1>5. CASE /\ inited
           /\ load' = ci_setting_set(load, cfg')
           /\ cmd' = IF AllThere(load') THEN [at |-> "store", saves |-> cfg'] ELSE Idle
  <2>1. /\ load' \in Table
        /\ InOrder(load) => load' = Saved(cfg')
        /\ Torn(load) => Torn(load')
    BY <1>3, <1>5, SetAll DEF Shape, Types
  <2>2. cmd'.at \in {"idle", "store"}
    BY <1>5 DEF Idle
  <2>3. cmd'.at = "store" => cmd'.saves = cfg' /\ AllThere(load')
    BY <1>5 DEF Idle
  <2>4. LoadOK'
    <3>1. CASE InOrder(load)
      <4>1. load' = Saved(cfg') /\ InOrder(load')
        BY <1>3, <2>1, <3>1, SavedIs
      <4> QED
        BY <4>1, <1>2, <1>5, <2>2, <2>3 DEF Shape, LoadOK
    <3>2. CASE Torn(load)
      <4>1. Torn(load') /\ ~AllThere(load')
        BY <2>1, <3>2, TornNotAllThere
      <4> QED
        BY <4>1, <1>2, <2>2, <2>3 DEF Shape, LoadOK
    <3> QED
      BY <3>1, <3>2 DEF Shape, LoadOK
  <2> QED
    BY <1>2, <1>3, <2>1, <2>2, <2>3, <2>4 DEF Shape, Types, BootOK, CmdOK, FlashOK
<1> QED
  BY <1>1, <1>4, <1>5

\* The steps of user_setting_store.
LEMMA ShapeStore ==
  ASSUME Shape, StoreErase \/ StoreWrite \/ StoreFails
  PROVE  Shape'
<1>1. CASE StoreErase
  <2>1. UNCHANGED <<cfg, applied, load, inited, boot>> /\ cmd.at = "store"
    BY <1>1 DEF StoreErase, ramVars
  <2>2. /\ cmd' = [at |-> "write", piece |-> 1, saves |-> cmd.saves]
        /\ flash' = Erased \/ flash' = flash
    BY <1>1 DEF StoreErase, Erase
  <2>3. cmd'.at = "write" /\ cmd'.piece = 1 /\ cmd'.saves = cmd.saves
    BY <2>2
  <2>4. cmd' \in [at : {"write"}, piece : 1..Pieces, saves : Config]
    BY <2>1, <2>2, ItemFacts DEF Shape, CmdOK, Pieces
  <2>5. flash' \in Table
    BY <2>2, ErasedIs DEF Shape, Types
  <2>6. \E n \in 0..Pieces : Cut(flash', n)
    <3>1. 0 \in 0..Pieces
      BY ItemFacts
    <3> QED
      BY <3>1, <2>2, ErasedIs DEF Shape, FlashOK
  <2>7. FlashOK'
    BY <2>3, <2>6 DEF FlashOK
  <2>8. LoadOK'
    BY <2>1, <2>3 DEF Shape, LoadOK
  <2> QED
    BY <2>1, <2>3, <2>4, <2>5, <2>7, <2>8 DEF Shape, Types, BootOK, CmdOK
<1>2. CASE StoreWrite
  <2>1. UNCHANGED <<cfg, applied, load, inited, boot>> /\ cmd.at = "write" /\ Program(cmd.piece)
    BY <1>2 DEF StoreWrite, ramVars
  <2>2. cmd \in [at : {"write"}, piece : 1..Pieces, saves : Config] /\ load = Saved(cmd.saves)
    BY <2>1 DEF Shape, CmdOK, LoadOK
  <2>3. PICK n \in 0..Pieces : Cut(flash, n) /\ cmd.piece - 1 <= n
    BY <2>1 DEF Shape, FlashOK
  <2>4. flash' \in Table /\ Cut(flash', IF n < cmd.piece THEN cmd.piece ELSE n)
    BY <2>1, <2>2, <2>3, ProgramPiece DEF Shape, Types
  <2>5. \/ cmd.piece < Pieces /\ cmd' = [cmd EXCEPT !.piece = cmd.piece + 1]
        \/ cmd' = Idle
    BY <1>2 DEF StoreWrite, Pieces
  <2>6. \/ /\ cmd'.at = "write" /\ cmd'.piece = cmd.piece + 1 /\ cmd'.saves = cmd.saves
           /\ cmd' \in [at : {"write"}, piece : 1..Pieces, saves : Config]
        \/ cmd'.at = "idle"
    BY <2>2, <2>5, ItemFacts DEF Idle
  <2>7. FlashOK'
    <3>1. (IF n < cmd.piece THEN cmd.piece ELSE n) \in 0..Pieces
      BY <2>2, ItemFacts
    <3>2. cmd.piece <= IF n < cmd.piece THEN cmd.piece ELSE n
      BY <2>2, ItemFacts
    <3>3. cmd'.at = "write" => cmd'.piece - 1 = cmd.piece
      BY <2>2, <2>6
    <3> QED
      BY <2>4, <3>1, <3>2, <3>3 DEF FlashOK
  <2>8. LoadOK'
    BY <2>1, <2>6 DEF Shape, LoadOK
  <2> QED
    BY <2>1, <2>4, <2>6, <2>7, <2>8 DEF Shape, Types, BootOK, CmdOK
<1>3. CASE StoreFails
  <2>1. cmd'.at = "idle" /\ UNCHANGED <<cfg, applied, load, inited, flash, boot>>
    BY <1>3 DEF StoreFails, ramVars, Idle
  <2> QED
    BY <2>1 DEF Shape, Types, BootOK, CmdOK, LoadOK, FlashOK
<1> QED
  BY <1>1, <1>2, <1>3

\* Clearing the settings, and a reset.
LEMMA ShapeClear ==
  ASSUME Shape, ClearRam \/ ClearFlash \/ user_setting_erase \/ Reset
  PROVE  Shape'
<1>1. CASE ClearRam
  <2>1. load' = Erased /\ UNCHANGED <<cfg, applied, inited, flash, boot>>
    BY <1>1 DEF ClearRam
  <2>2. cmd'.at \in {"idle", "erase"}
    BY <1>1 DEF ClearRam, Idle
  <2> QED
    BY <2>1, <2>2, ErasedIs DEF Shape, Types, BootOK, CmdOK, LoadOK, FlashOK
<1>2. CASE ClearFlash
  <2>1. cmd'.at = "erase" /\ UNCHANGED <<cfg, applied, load, inited, flash, boot>>
    BY <1>2 DEF ClearFlash, ramVars
  <2> QED
    BY <2>1 DEF Shape, Types, BootOK, CmdOK, LoadOK, FlashOK
<1>3. CASE user_setting_erase
  <2>1. cmd'.at = "idle" /\ UNCHANGED <<cfg, applied, load, inited, boot>>
    BY <1>3 DEF user_setting_erase, ramVars, Idle
  <2>2. flash' = Erased \/ flash' = flash
    BY <1>3 DEF user_setting_erase, Erase
  <2>3. flash' \in Table
    BY <2>2, ErasedIs DEF Shape, Types
  <2>4. \E n \in 0..Pieces : Cut(flash', n)
    <3>1. 0 \in 0..Pieces
      BY ItemFacts
    <3> QED
      BY <3>1, <2>2, ErasedIs DEF Shape, FlashOK
  <2> QED
    BY <2>1, <2>3, <2>4 DEF Shape, Types, BootOK, CmdOK, LoadOK, FlashOK
<1>4. CASE Reset
  <2>1. cfg' = Default /\ applied' = Default /\ load' = Erased /\ inited' = FALSE /\ flash' = flash
    BY <1>4 DEF Reset
  <2>2. boot'.at = "init" /\ cmd'.at = "idle"
    BY <1>4 DEF Reset, Idle
  <2>3. Default \in Config
    BY UserSettingAssumption DEF UserSettingAssumption, Config
  <2> QED
    BY <2>1, <2>2, <2>3, ErasedIs DEF Shape, Types, BootOK, CmdOK, LoadOK, FlashOK
<1> QED
  BY <1>1, <1>2, <1>3, <1>4

LEMMA ShapeStep == Shape /\ [UserNext]_userVars => Shape'
<1> SUFFICES ASSUME Shape, [UserNext]_userVars PROVE Shape'
  OBVIOUS
<1>1. CASE UserNext
  BY <1>1, ShapeBoot, ShapeSet, ShapeSave, ShapeStore, ShapeClear DEF UserNext
<1>2. CASE UNCHANGED userVars
  BY <1>2 DEF userVars, Shape, Types, BootOK, CmdOK, LoadOK, FlashOK
<1> QED
  BY <1>1, <1>2

LEMMA ShapeRoom == Shape => RoomForAll
<1> SUFFICES ASSUME Shape PROVE RoomForAll
  OBVIOUS
<1>1. CASE InOrder(load)
  BY <1>1 DEF InOrder, Prefix, RoomForAll
<1>2. CASE Torn(load)
  BY <1>2 DEF Torn, RoomForAll
<1> QED
  BY <1>1, <1>2 DEF Shape, LoadOK

-----------------------------------------------------------------------------
(* What flash holds, when an erase does not fail.                          *)

Partial(c, n) == Cut(flash, n) /\ Holds(flash, c, n)

\* Flash holds the first pieces of the last save that erased it: those that
\* are programmed so far, or all if that save was completed.
Stored ==
  /\ image \in Config
  /\ \E n \in 0..Pieces : Partial(image, n)
  /\ cmd.at = "write" => image = cmd.saves /\ stored = None /\ Partial(image, cmd.piece - 1)
  /\ stored # None => stored = image /\ Partial(image, Pieces)

Got(i) == user_setting_get(load, i)

\* Since a reset, without a command: how far ci_setting_load has come.
Fresh ==
  /\ boot.at # "init" => load = flash
  /\ boot.at \in {"init", "check", "get"} => applied = Default
  /\ boot.at \in {"get", "apply"} => Got(1) = Magic
  /\ boot.at = "get" => \A i \in Items : i < boot.item => cfg[i] = Got(i) /\ Got(i) # None
  /\ boot.at = "apply" =>
       /\ \A i \in Items : Got(i) # None /\ (i >= boot.item => cfg[i] = Got(i))
       /\ \A i \in Restored :
            applied[i] = IF i < boot.item THEN AsLoaded(i, Got(i)) ELSE Default[i]

\* The defaults, because of save_flag or of an item that is missing; or all that is there.
Loaded ==
  boot.at = "up" =>
    \/ applied = Default /\ (Got(1) # Magic \/ \E i \in Items : Got(i) = None)
    \/ /\ Got(1) = Magic /\ \A i \in Items : Got(i) # None
       /\ \A i \in Restored : applied[i] = AsLoaded(i, Got(i))

Restarted == quiet => cmd = Idle /\ Fresh /\ Loaded

StoreInv == Shape /\ Stored /\ Restarted

LEMMA StoreInvInit == UserInit => StoreInv
<1> SUFFICES ASSUME UserInit PROVE StoreInv
  OBVIOUS
<1>1. Default \in Config /\ 0 \in 0..Pieces
  BY UserSettingAssumption, ItemFacts DEF UserSettingAssumption, Config
<1>2. Stored
  BY <1>1, ErasedIs DEF UserInit, Stored, Partial, Idle
<1>3. Restarted
  BY DEF UserInit, Restarted, Fresh, Loaded
<1> QED
  BY <1>2, <1>3, ShapeInit DEF StoreInv

\* The steps of the APP task leave flash alone.
LEMMA StoredBoot ==
  ASSUME Stored, UNCHANGED <<flash, cmd, stored, image>>
  PROVE  Stored'
BY DEF Stored, Partial

\* So do those of a command that do not go on to program it.
LEMMA StoredCommand ==
  ASSUME Stored, UNCHANGED <<flash, stored, image>>, cmd'.at # "write"
  PROVE  Stored'
BY DEF Stored, Partial

\* user_setting_store: erased flash holds no piece of any save; then a piece
\* more, and in the end all.
LEMMA StoredStore ==
  ASSUME EraseMayFail = FALSE, Shape, Stored, StoreErase \/ StoreWrite \/ StoreFails
  PROVE  Stored'
<1>1. CASE StoreErase
  <2>1. /\ cmd.at = "store" /\ flash' = Erased /\ stored' = None /\ image' = cmd.saves
        /\ cmd' = [at |-> "write", piece |-> 1, saves |-> cmd.saves]
    BY <1>1 DEF StoreErase, Erase
  <2>2. cmd'.piece - 1 = 0 /\ cmd'.saves = cmd.saves /\ cmd.saves \in Config
    BY <2>1 DEF Shape, CmdOK
  <2>3. Partial(image, 0)'
    BY <2>1, ErasedIs DEF Partial
  <2>4. 0 \in 0..Pieces
    BY ItemFacts
  <2> QED
    BY <2>1, <2>2, <2>3, <2>4 DEF Stored
<1>2. CASE StoreWrite
  <2>1. cmd.at = "write" /\ Program(cmd.piece) /\ image' = image
    BY <1>2 DEF StoreWrite
  <2>2. /\ cmd \in [at : {"write"}, piece : 1..Pieces, saves : Config]
        /\ load = Saved(cmd.saves) /\ flash \in Table
    BY <2>1 DEF Shape, CmdOK, LoadOK, Types
  <2>3. image = cmd.saves /\ stored = None /\ Partial(image, cmd.piece - 1)
    BY <2>1 DEF Stored
  <2>4. cmd.piece - 1 \in 0..Pieces /\ cmd.piece \in 0..Pieces /\ cmd.piece - 1 <= cmd.piece - 1
    BY <2>2, ItemFacts
  <2>5. Cut(flash', cmd.piece) /\ Holds(flash', cmd.saves, cmd.piece)
    <3> DEFINE n == cmd.piece - 1
    <3>1. Cut(flash', IF n < cmd.piece THEN cmd.piece ELSE n)
      BY <2>1, <2>2, <2>3, <2>4, ProgramPiece DEF Partial
    <3>2. n = cmd.piece - 1 /\ Holds(flash, cmd.saves, n) => Holds(flash', cmd.saves, cmd.piece)
      BY <2>1, <2>2, <2>3, <2>4, ProgramPiece DEF Partial
    <3>3. n < cmd.piece
      BY <2>2
    <3> QED
      BY <3>1, <3>2, <3>3, <2>3 DEF Partial
  <2>6. CASE cmd.piece < Pieces
    <3>1. cmd' = [cmd EXCEPT !.piece = cmd.piece + 1] /\ stored' = stored
      BY <1>2, <2>6 DEF StoreWrite, Pieces
    <3>2. cmd'.saves = cmd.saves /\ cmd'.piece - 1 = cmd.piece
      BY <2>2, <3>1
    <3> QED
      BY <2>1, <2>3, <2>4, <2>5, <3>1, <3>2 DEF Stored, Partial
  <2>7. CASE ~(cmd.piece < Pieces)
    <3>1. cmd'.at = "idle" /\ stored' = cmd.saves
      BY <1>2, <2>7 DEF StoreWrite, Pieces, Idle
    <3>2. cmd.piece = Pieces
      BY <2>2, <2>7, ItemFacts
    <3> QED
      BY <2>1, <2>3, <2>4, <2>5, <3>1, <3>2 DEF Stored, Partial
  <2> QED
    BY <2>6, <2>7
<1>3. CASE StoreFails
  BY <1>3, StoredCommand DEF StoreFails, history, Idle
<1> QED
  BY <1>1, <1>2, <1>3

LEMMA StoredStep == EraseMayFail = FALSE /\ StoreInv /\ UserNext => Stored'
<1> SUFFICES ASSUME EraseMayFail = FALSE, StoreInv, UserNext PROVE Stored'
  OBVIOUS
<1>1. CASE user_setting_init \/ LoadCheck \/ ci_setting_get \/ Apply
  BY <1>1, StoredBoot
     DEF StoreInv, user_setting_init, LoadCheck, ci_setting_get, Apply, history
<1>2. CASE SetApply
  <2>1. cmd'.at = "set" /\ UNCHANGED <<flash, stored, image>>
    BY <1>2 DEF SetApply, history
  <2> QED
    BY <2>1, StoredCommand DEF StoreInv
<1>3. CASE SetConfig
  BY <1>3, StoredCommand DEF StoreInv, SetConfig, history, Idle
<1>4. CASE ci_cfg_save_set
  <2>1. cmd'.at # "write" /\ UNCHANGED <<flash, stored, image>>
    BY <1>4 DEF ci_cfg_save_set, Begin, history, Idle
  <2> QED
    BY <2>1, StoredCommand DEF StoreInv
<1>5. CASE StoreErase \/ StoreWrite \/ StoreFails
  BY <1>5, StoredStore DEF StoreInv
<1>6. CASE ClearRam \/ ClearFlash
  <2>1. cmd'.at # "write" /\ UNCHANGED <<flash, stored, image>>
    BY <1>6 DEF ClearRam, ClearFlash, ramVars, history, Idle
  <2> QED
    BY <2>1, StoredCommand DEF StoreInv
<1>7. CASE user_setting_erase
  <2>1. flash' = Erased /\ stored' = None /\ image' = image /\ cmd'.at = "idle"
    BY <1>7 DEF user_setting_erase, Erase, Idle
  <2>2. Partial(image, 0)' /\ 0 \in 0..Pieces
    BY <2>1, ErasedIs, ItemFacts DEF Partial
  <2> QED
    BY <2>1, <2>2 DEF StoreInv, Stored
<1>8. CASE Reset
  BY <1>8, StoredCommand DEF StoreInv, Reset, history, Idle
<1> QED
  BY <1>1, <1>2, <1>3, <1>4, <1>5, <1>6, <1>7, <1>8 DEF UserNext

\* A step of ci_setting_load without a command.
LEMMA RestartedBoot ==
  ASSUME Shape, Restarted, user_setting_init \/ LoadCheck \/ ci_setting_get \/ Apply
  PROVE  Restarted'
<1> SUFFICES ASSUME quiet' PROVE (cmd = Idle /\ Fresh /\ Loaded)'
  BY DEF Restarted
<1>1. cmd' = cmd /\ quiet' = quiet /\ flash' = flash
  BY DEF user_setting_init, LoadCheck, ci_setting_get, Apply
<1>2. cmd' = Idle /\ Fresh /\ Loaded
  BY <1>1 DEF Restarted
<1>3. CASE user_setting_init
  BY <1>2, <1>3 DEF user_setting_init, Fresh, Loaded
<1>4. CASE LoadCheck
  <2>1. boot.at = "check" /\ UNCHANGED <<cfg, applied, load>>
    BY <1>4 DEF LoadCheck, ramVars
  <2>2. load = flash /\ applied = Default
    BY <1>2, <2>1 DEF Fresh
  <2>3. CASE Got(1) = Magic
    <3>1. boot' = [at |-> "get", item |-> 1]
      BY <1>4, <2>3 DEF LoadCheck, Got
    <3>2. \A i \in Items : ~(i < 1)
      BY ItemFacts
    <3> QED
      BY <1>1, <1>2, <2>1, <2>2, <2>3, <3>1, <3>2 DEF Fresh, Loaded, Got
  <2>4. CASE Got(1) # Magic
    <3>1. boot'.at = "up"
      BY <1>4, <2>4 DEF LoadCheck, Got, Up
    <3> QED
      BY <1>1, <1>2, <2>1, <2>2, <2>4, <3>1 DEF Fresh, Loaded, Got
  <2> QED
    BY <2>3, <2>4
<1>5. CASE ci_setting_get
  <2>1. boot.at = "get" /\ boot.item \in Items /\ UNCHANGED <<applied, load>>
    BY <1>5 DEF ci_setting_get, Shape, BootOK
  <2>2. load = flash /\ applied = Default /\ Got(1) = Magic
    BY <1>2, <2>1 DEF Fresh
  <2>3. \A i \in Items : i < boot.item => cfg[i] = Got(i) /\ Got(i) # None
    BY <1>2, <2>1 DEF Fresh
  <2>4. CASE Got(boot.item) = None
    <3>1. boot'.at = "up"
      BY <1>5, <2>4 DEF ci_setting_get, Got, Up
    <3> QED
      BY <1>1, <1>2, <2>1, <2>2, <2>4, <3>1 DEF Fresh, Loaded, Got
  <2>5. CASE Got(boot.item) # None
    <3>1. cfg' = [cfg EXCEPT ![boot.item] = Got(boot.item)] /\ boot' = Next_("get", boot.item)
      BY <1>5, <2>5 DEF ci_setting_get, Got
    <3>2. \A i \in Items : i < boot.item \/ i = boot.item => cfg'[i] = Got(i) /\ Got(i) # None
      BY <2>1, <2>3, <2>5, <3>1, ItemFacts DEF Shape, Types, Config
    <3>3. boot.item \in Int /\ boot.item <= ItemCount
      BY <2>1, ItemFacts
    <3>4. CASE boot'.at = "get"
      <4>1. boot'.item = boot.item + 1
        BY <2>1, <3>1, <3>4, NextPlace
      <4>2. \A i \in Items : i < boot'.item => i < boot.item \/ i = boot.item
        BY <4>1, <3>3, ItemFacts
      <4> QED
        BY <1>1, <1>2, <2>1, <2>2, <3>2, <3>4, <4>2 DEF Fresh, Loaded, Got
    <3>5. CASE boot'.at = "apply"
      <4>1. boot'.item = 2 /\ boot.item = ItemCount
        BY <2>1, <3>1, <3>5, NextPlace
      <4>2. \A i \in Items : i < boot.item \/ i = boot.item
        BY <4>1, ItemFacts
      <4>3. \A i \in Restored : ~(i < 2)
        BY UserSettingAssumption DEF UserSettingAssumption, Setting
      <4> QED
        BY <1>1, <1>2, <2>1, <2>2, <3>2, <3>5, <4>1, <4>2, <4>3 DEF Fresh, Loaded, Got
    <3> QED
      BY <2>1, <3>1, <3>4, <3>5, NextPlace
  <2> QED
    BY <2>4, <2>5
<1>6. CASE Apply
  <2>1. boot.at = "apply" /\ boot.item \in Setting /\ load' = load
    BY <1>6 DEF Apply, Shape, BootOK
  <2>2. load = flash /\ Got(1) = Magic /\ \A i \in Items : Got(i) # None
    BY <1>2, <2>1 DEF Fresh
  <2>3. /\ \A i \in Items : i >= boot.item => cfg[i] = Got(i)
        /\ \A i \in Restored :
             applied[i] = IF i < boot.item THEN AsLoaded(i, Got(i)) ELSE Default[i]
    BY <1>2, <2>1 DEF Fresh
  <2>4. Restored \subseteq Items
    BY UserSettingAssumption, ItemFacts DEF UserSettingAssumption
  <2>5. boot' = Next_("apply", boot.item) /\ boot.item \in Items /\ boot.item \in Int
    BY <1>6, <2>1, ItemFacts DEF Apply
  <2>6. /\ \A i \in Items : i >= boot.item /\ i # boot.item => cfg'[i] = Got(i)
        /\ \A i \in Restored :
             applied'[i] = IF i < boot.item \/ i = boot.item THEN AsLoaded(i, Got(i))
                           ELSE Default[i]
    <3>1. cfg \in Config /\ applied \in Config
      BY DEF Shape, Types
    <3>2. cfg' = [cfg EXCEPT ![boot.item] = AsLoaded(boot.item, cfg[boot.item])]
      BY <1>6 DEF Apply
    <3>3. \A i \in Items : i # boot.item => cfg'[i] = cfg[i] /\ applied'[i] = applied[i]
      BY <1>6, <3>1, <3>2 DEF Apply, Config
    <3>4. cfg'[boot.item] = AsLoaded(boot.item, Got(boot.item))
      BY <2>3, <2>5, <3>1, <3>2 DEF Config
    <3>5. boot.item \in Restored => applied'[boot.item] = cfg'[boot.item]
      BY <1>6, <2>5, <3>1 DEF Apply, Config
    <3> QED
      BY <2>3, <2>4, <3>3, <3>4, <3>5
  <2>7. CASE boot'.at = "apply"
    <3>1. boot'.item = boot.item + 1
      BY <2>5, <2>7, NextPlace
    <3>2. boot.item \in Int /\ \A i \in Items : i \in Int
      BY <2>5, ItemFacts
    <3>3. /\ \A i \in Items : i < boot'.item <=> i < boot.item \/ i = boot.item
          /\ \A i \in Items : i >= boot'.item => i >= boot.item /\ i # boot.item
      BY <3>1, <3>2
    <3>4. /\ \A i \in Items : i >= boot'.item => cfg'[i] = Got(i)
          /\ \A i \in Restored :
               applied'[i] = IF i < boot'.item THEN AsLoaded(i, Got(i)) ELSE Default[i]
      BY <2>4, <2>6, <3>3
    <3> QED
      BY <1>1, <1>2, <2>1, <2>2, <2>7, <3>4 DEF Fresh, Loaded, Got
  <2>8. CASE boot'.at = "up"
    <3>1. boot.item = ItemCount
      BY <2>5, <2>8, NextPlace
    <3>2. \A i \in Restored : i < boot.item \/ i = boot.item
      BY <2>4, <3>1, ItemFacts
    <3>3. \A i \in Restored : applied'[i] = AsLoaded(i, Got(i))
      BY <2>6, <3>2
    <3> QED
      BY <1>1, <1>2, <2>1, <2>2, <2>8, <3>3 DEF Fresh, Loaded, Got
  <2> QED
    BY <2>5, <2>7, <2>8, NextPlace
<1> QED
  BY <1>3, <1>4, <1>5, <1>6

\* A command ends the quiet, and only a reset brings it back.
LEMMA RestartedStep == Shape /\ Restarted /\ UserNext => Restarted'
<1> SUFFICES ASSUME Shape, Restarted, UserNext PROVE Restarted'
  OBVIOUS
<1>1. CASE user_setting_init \/ LoadCheck \/ ci_setting_get \/ Apply
  BY <1>1, RestartedBoot
<1>2. CASE SetApply \/ ci_cfg_save_set \/ ClearRam \/ ClearFlash
  BY <1>2 DEF SetApply, ci_cfg_save_set, ClearRam, ClearFlash, Begin, Restarted
<1>3. CASE SetConfig \/ StoreErase \/ StoreWrite \/ StoreFails \/ user_setting_erase
  <2>1. cmd # Idle /\ quiet' = quiet
    BY <1>3 DEF SetConfig, StoreErase, StoreWrite, StoreFails, user_setting_erase, Idle
  <2> QED
    BY <2>1 DEF Restarted
<1>4. CASE Reset
  BY <1>4 DEF Reset, Restarted, Fresh, Loaded
<1> QED
  BY <1>1, <1>2, <1>3, <1>4 DEF UserNext

LEMMA StoreInvStep == EraseMayFail = FALSE /\ StoreInv /\ [UserNext]_userVars => StoreInv'
<1> SUFFICES ASSUME EraseMayFail = FALSE, StoreInv, [UserNext]_userVars PROVE StoreInv'
  OBVIOUS
<1>1. Shape'
  BY ShapeStep DEF StoreInv
<1>2. CASE UserNext
  BY <1>1, <1>2, StoredStep, RestartedStep DEF StoreInv
<1>3. CASE UNCHANGED userVars
  <2>1. Stored'
    BY <1>3, StoredBoot DEF StoreInv, userVars
  <2>2. Restarted'
    BY <1>3 DEF StoreInv, userVars, Restarted, Fresh, Loaded, Got
  <2> QED
    BY <1>1, <2>1, <2>2 DEF StoreInv
<1> QED
  BY <1>2, <1>3

\* After a start without a command: what the items read as, from the pieces
\* that are in flash.
LEMMA StoreInvMixed == StoreInv => NeverMixed
<1> SUFFICES ASSUME StoreInv, Booted PROVE NeverMixed
  BY DEF NeverMixed
<1>1. boot.at = "up" /\ quiet
  BY DEF Booted, Up
<1>2. load = flash /\ Loaded
  BY <1>1 DEF StoreInv, Restarted, Fresh
<1>3. CASE applied = Default
  BY <1>3 DEF NeverMixed
<1>4. CASE /\ \A i \in Items : Got(i) # None
           /\ \A i \in Restored : applied[i] = AsLoaded(i, Got(i))
  <2>1. PICK n \in 0..Pieces : Cut(load, n) /\ Holds(load, image, n)
    BY <1>2 DEF StoreInv, Stored, Partial
  <2>2. \A i \in Items :
          Got(i) = IF n < 3 * i - 1 THEN None ELSE IF n < 3 * i THEN Bits ELSE image[i]
    BY <2>1, GetCut DEF StoreInv, Stored, Shape, Types, Got
  <2>3. \A i \in Items : ~(n < 3 * i - 1)
    BY <1>4, <2>2
  <2>4. \A i \in Items : i # ItemCount => ~(n < 3 * i)
    <3> SUFFICES ASSUME NEW i \in Items, i # ItemCount PROVE ~(n < 3 * i)
      OBVIOUS
    <3>1. i + 1 \in Items
      BY ItemFacts DEF Items
    <3>2. ~(n < 3 * (i + 1) - 1)
      BY <2>3, <3>1
    <3>3. n \in Int /\ i \in Int
      BY ItemFacts
    <3> QED
      BY <3>2, <3>3
  <2>5. \A i \in Items : Got(i) = image[i] \/ (i = ItemCount /\ Got(i) = Bits)
    BY <2>2, <2>3, <2>4
  <2>6. Restored \subseteq Items
    BY UserSettingAssumption, ItemFacts DEF UserSettingAssumption
  <2> QED
    BY <1>4, <2>5, <2>6, AsLoadedIs DEF NeverMixed
<1> QED
  BY <1>1, <1>2, <1>3, <1>4 DEF Loaded

LEMMA StoreInvRecovered == StoreInv => Recovered
<1> SUFFICES ASSUME StoreInv, Booted, stored # None
             PROVE  \A i \in Restored :
                      applied[i] = IF stored[1] = Magic THEN AsLoaded(i, stored[i]) ELSE Default[i]
  BY DEF Recovered
<1>1. boot.at = "up" /\ quiet
  BY DEF Booted, Up
<1>2. load = flash /\ Loaded
  BY <1>1 DEF StoreInv, Restarted, Fresh
<1>3. stored \in Config /\ Cut(load, Pieces) /\ Holds(load, stored, Pieces)
  BY <1>2 DEF StoreInv, Stored, Partial
<1>4. \A i \in Items : ~(Pieces < 3 * i) /\ ~(Pieces < 3 * i - 1)
  BY ItemFacts DEF Pieces
<1>5. Pieces \in 0..Pieces
  BY ItemFacts
<1>6. \A i \in Items : Got(i) = stored[i]
  BY <1>3, <1>4, <1>5, GetCut DEF StoreInv, Shape, Types, Got
<1>7. \A i \in Items : stored[i] # None
  BY <1>3, ItemFacts DEF Config
<1>8. Restored \subseteq Items /\ 1 \in Items
  BY UserSettingAssumption, ItemFacts DEF UserSettingAssumption
<1> QED
  BY <1>1, <1>2, <1>6, <1>7, <1>8 DEF Loaded

LEMMA SettingsStep == Next => UserNext \/ UNCHANGED userVars
BY DEF Next

\* A save finds room for every item, whatever was set, cleared and cut off
\* before, unless a reset cut off a name (user_setting_set).
THEOREM SettingsHaveRoom == Spec => []RoomForAll
<1>1. Init => Shape
  BY ShapeInit DEF Init
<1>2. Shape /\ [Next]_vars => Shape'
  BY ShapeStep, SettingsStep DEF vars
<1> QED
  BY <1>1, <1>2, ShapeRoom, PTL DEF Spec

LEMMA StoreInvAlways ==
  ASSUME EraseMayFail = FALSE
  PROVE  Spec => []StoreInv
<1>1. Init => StoreInv
  BY StoreInvInit DEF Init
<1>2. StoreInv /\ [Next]_vars => StoreInv'
  BY StoreInvStep, SettingsStep DEF vars
<1> QED
  BY <1>1, <1>2, PTL DEF Spec

\* The settings of a completed save are what the next start hands to the
\* modules, or the defaults if it was saved with save_flag 0 (ci_setting_save,
\* ci_setting_load), as long as an erase of the sector does not fail.
THEOREM SavesRecovered ==
  ASSUME EraseMayFail = FALSE
  PROVE  Spec => []Recovered
BY StoreInvAlways, StoreInvRecovered, PTL

\* Wherever resets and errors cut a save off, the next start uses the defaults
\* or that save and never parts of two (user_setting_store), as long as an
\* erase of the sector does not fail.
THEOREM SavesNeverMixed ==
  ASSUME EraseMayFail = FALSE
  PROVE  Spec => []NeverMixed
BY StoreInvAlways, StoreInvMixed, PTL

-----------------------------------------------------------------------------
(* The calibration.                                                        *)

Sets == [at : {"erase", "calib", "code", "over"}, calib : Calib, fresh : BOOLEAN]

\* What sys_data_item_set knows of the sector at each of its steps.
Progress ==
  /\ set = NoSet \/ set \in Sets
  /\ set \in Sets => set.calib \in asked /\ done = NoSet
  /\ set \in Sets /\ set.at = "calib" =>
       set.calib \subseteq item.calib /\ (set.fresh => item.code = Blank)
  /\ set \in Sets /\ set.at \in {"code", "over"} =>
       item.calib = set.calib /\ item.code = Broken /\ (set.fresh => set.at = "code")

\* What a completed call left behind.
Left ==
  /\ done = NoSet \/ done \in Sets
  /\ done \in Sets =>
       /\ item.calib = done.calib
       /\ item.code = Fits(done.calib) \/ (~done.fresh /\ item.code = Broken)

SysInv ==
  /\ item \in [calib : Calib, code : Code]
  /\ asked \subseteq Calib
  /\ \A c \in Calib : item.code = Fits(c) => c \in asked
  /\ Progress
  /\ Left

\* The check codes are told apart.
LEMMA Codes ==
  /\ \A c, d : Fits(c) = Fits(d) => c = d
  /\ \A c : Fits(c) # Blank /\ Fits(c) # Broken
  /\ Blank # Broken
  /\ \A s \in Sets : s # NoSet
<1>1. \A c, d : Fits(c) = Fits(d) => c = d
  <2>1. \A c : Fits(c).calib = c
    BY DEF Fits
  <2> QED
    BY <2>1
<1>2. \A c : Fits(c).kind = "fits"
  BY DEF Fits
<1>3. Blank.kind = "blank" /\ Broken.kind = "broken"
  BY DEF Blank, Broken
<1>4. \A s \in Sets : s.at # "idle"
  BY DEF Sets
<1>5. NoSet.at = "idle"
  BY DEF NoSet
<1> QED
  BY <1>1, <1>2, <1>3, <1>4, <1>5

LEMMA SysInvInit == SysInit => SysInv
<1> SUFFICES ASSUME SysInit PROVE SysInv
  OBVIOUS
<1>1. item.calib = CalibBits /\ item.code = Blank /\ item \in [calib : Calib, code : Code]
  BY DEF SysInit, ErasedItem, Calib, Code
<1>2. set = NoSet /\ done = NoSet /\ asked = {}
  BY DEF SysInit
<1> QED
  BY <1>1, <1>2, Codes DEF SysInv, Progress, Left

LEMMA SysInvSet == SysInv /\ sys_data_item_set => SysInv'
<1> SUFFICES ASSUME SysInv, sys_data_item_set PROVE SysInv'
  OBVIOUS
<1>1. PICK c \in Given : \E fits \in byte_diff_check(c) :
         /\ asked' = asked \cup {c} /\ done' = NoSet /\ item' = item
         /\ set' = [at |-> IF fits THEN "calib" ELSE "erase", calib |-> c,
                    fresh |-> ~fits \/ item.code = Blank]
  BY DEF sys_data_item_set
<1>2. PICK fits \in byte_diff_check(c) :
         set' = [at |-> IF fits THEN "calib" ELSE "erase", calib |-> c,
                 fresh |-> ~fits \/ item.code = Blank]
  BY <1>1
<1>3. asked' = asked \cup {c} /\ done' = NoSet /\ item' = item
  BY <1>1
<1>4. c \in Calib
  BY SysDataAssumption DEF SysDataAssumption
<1>5. fits \in BOOLEAN /\ (fits => c \subseteq item.calib)
  BY <1>2 DEF byte_diff_check
<1>6. set'.at = (IF fits THEN "calib" ELSE "erase") /\ set'.calib = c
  BY <1>2
<1>7. set'.fresh = (~fits \/ item.code = Blank)
  BY <1>2
<1>8. set' \in Sets
  BY <1>2, <1>4, <1>5 DEF Sets
<1>9. fits => (set'.fresh => item.code = Blank)
  BY <1>7
<1>10. Progress'
  <2>1. set'.at = "calib" => fits
    BY <1>6
  <2>2. set'.at \notin {"code", "over"}
    BY <1>6
  <2> QED
    BY <2>1, <2>2, <1>3, <1>5, <1>6, <1>8, <1>9 DEF Progress
<1>11. Left'
  BY <1>3, Codes DEF Left
<1> QED
  BY <1>3, <1>4, <1>10, <1>11 DEF SysInv

LEMMA SysInvErase == SysInv /\ SectorErase => SysInv'
<1> SUFFICES ASSUME SysInv, SectorErase PROVE SysInv'
  OBVIOUS
<1>1. set \in Sets /\ set.at = "erase"
  BY DEF SysInv, Progress, SectorErase, NoSet
<1>2. item'.calib = CalibBits /\ item'.code = Blank /\ item' \in [calib : Calib, code : Code]
  BY DEF SectorErase, ErasedItem, Calib, Code
<1>3. set' = [set EXCEPT !.at = "calib"] /\ asked' = asked /\ done' = done
  BY DEF SectorErase
<1>4. set' \in Sets /\ set'.at = "calib" /\ set'.calib = set.calib
  BY <1>1, <1>3 DEF Sets
<1>5. Progress'
  BY <1>1, <1>2, <1>3, <1>4 DEF SysInv, Progress, Sets, Calib
<1>6. Left'
  BY <1>1, <1>3, Codes DEF SysInv, Progress, Left
<1> QED
  BY <1>2, <1>3, <1>5, <1>6, Codes DEF SysInv

LEMMA SysInvCalib == SysInv /\ ProgramCalib => SysInv'
<1> SUFFICES ASSUME SysInv, ProgramCalib PROVE SysInv'
  OBVIOUS
<1>1. set \in Sets /\ set.at = "calib"
  BY DEF SysInv, Progress, ProgramCalib, NoSet
<1>2. PICK b \in item.calib \ set.calib : item' = [item EXCEPT !.calib = @ \ {b}]
  BY DEF ProgramCalib
<1>3. set' = set /\ asked' = asked /\ done' = done
  BY DEF ProgramCalib
<1>4. item'.calib = item.calib \ {b} /\ item'.code = item.code
  BY <1>2 DEF SysInv
<1>5. item' \in [calib : Calib, code : Code]
  BY <1>2 DEF SysInv, Calib
<1>6. Progress'
  BY <1>1, <1>2, <1>3, <1>4 DEF SysInv, Progress
<1>7. Left'
  BY <1>1, <1>3, Codes DEF SysInv, Progress, Left
<1> QED
  BY <1>3, <1>4, <1>5, <1>6, <1>7 DEF SysInv

LEMMA SysInvSome == SysInv /\ ProgramSome => SysInv'
<1> SUFFICES ASSUME SysInv, ProgramSome PROVE SysInv'
  OBVIOUS
<1>1. set \in Sets /\ set.at = "calib"
  BY DEF SysInv, Progress, ProgramSome, NoSet
<1>2. item.calib = set.calib
  BY <1>1 DEF SysInv, Progress, ProgramSome
<1>3. item'.calib = item.calib /\ item'.code = Broken /\ item' \in [calib : Calib, code : Code]
  BY DEF SysInv, ProgramSome, Code
<1>4. /\ set' = [set EXCEPT !.at = IF item.code = Blank THEN "code" ELSE "over"]
      /\ asked' = asked /\ done' = done
  BY DEF ProgramSome
<1>5. set' \in Sets /\ set'.calib = set.calib /\ set'.fresh = set.fresh
  BY <1>1, <1>4 DEF Sets
<1>6. set'.at = IF item.code = Blank THEN "code" ELSE "over"
  BY <1>1, <1>4 DEF Sets
<1>7. set.fresh => item.code = Blank
  BY <1>1 DEF SysInv, Progress
<1>8. Progress'
  <2>1. set'.fresh => set'.at = "code"
    BY <1>5, <1>6, <1>7
  <2>2. set'.at # "calib"
    BY <1>6
  <2> QED
    BY <2>1, <2>2, <1>1, <1>2, <1>3, <1>4, <1>5 DEF SysInv, Progress
<1>9. Left'
  BY <1>1, <1>4, Codes DEF SysInv, Progress, Left
<1> QED
  BY <1>3, <1>4, <1>8, <1>9, Codes DEF SysInv

LEMMA SysInvProgrammed == SysInv /\ Programmed => SysInv'
<1> SUFFICES ASSUME SysInv, Programmed PROVE SysInv'
  OBVIOUS
<1>1. set \in Sets /\ set.at \in {"calib", "code", "over"}
  BY DEF SysInv, Progress, Programmed, NoSet
<1>2. item.calib = set.calib
  BY <1>1 DEF SysInv, Progress, Programmed
<1>3. PICK code \in {Fits(set.calib)} \cup (IF set.at = "over" THEN {Broken} ELSE {}) :
         item' = [item EXCEPT !.code = code]
  BY DEF Programmed
<1>4. set' = NoSet /\ done' = set /\ asked' = asked
  BY DEF Programmed
<1>5. set.calib \in Calib /\ set.calib \in asked
  BY <1>1 DEF SysInv, Progress, Sets
<1>6. code \in Code
  BY <1>3, <1>5 DEF Code
<1>7. item'.calib = set.calib /\ item'.code = code /\ item' \in [calib : Calib, code : Code]
  BY <1>2, <1>3, <1>6 DEF SysInv
<1>8. code = Fits(set.calib) \/ (set.at = "over" /\ code = Broken)
  BY <1>3
<1>9. set.at = "over" => ~set.fresh
  BY <1>1 DEF SysInv, Progress
<1>10. Left'
  BY <1>1, <1>4, <1>7, <1>8, <1>9 DEF Left
<1>11. Progress'
  BY <1>4, Codes DEF Progress
<1> QED
  BY <1>4, <1>5, <1>7, <1>8, <1>10, <1>11, Codes DEF SysInv

LEMMA SysInvStep == SysInv /\ [Next]_vars => SysInv'
<1> SUFFICES ASSUME SysInv, [Next]_vars PROVE SysInv'
  OBVIOUS
<1>1. CASE SysStep
  BY <1>1, SysInvSet, SysInvErase, SysInvCalib, SysInvSome, SysInvProgrammed DEF SysStep
<1>2. CASE SysReset
  BY <1>2, Codes DEF SysReset, SysInv, Progress, Left
<1>3. CASE UNCHANGED sysVars
  BY <1>3 DEF sysVars, SysInv, Progress, Left
<1> QED
  BY <1>1, <1>2, <1>3 DEF Next, vars

\* The calibration the radar gets is the built-in one or one that was written;
\* after a completed write it is that one, if the sector was blank or erased
\* for it (sys_data_item_get after sys_data_item_set, with resets anywhere).
THEOREM NoWrongCalibration == Spec => []CalibrationTrue
<1>1. Init => SysInv
  BY SysInvInit DEF Init
<1>2. SysInv => CalibrationTrue
  <2> SUFFICES ASSUME SysInv PROVE CalibrationTrue
    OBVIOUS
  <2>1. sys_data_item_get \subseteq asked
    BY DEF SysInv, sys_data_item_get
  <2>2. ASSUME done # NoSet
        PROVE  sys_data_item_get = {done.calib} \/ (~done.fresh /\ sys_data_item_get = {})
    BY <2>2, Codes DEF SysInv, Left, sys_data_item_get
  <2> QED
    BY <2>1, <2>2 DEF CalibrationTrue
<1> QED
  BY <1>1, <1>2, SysInvStep, PTL DEF Spec
=============================================================================
