--------------------------- MODULE Download_proofs ---------------------------
(***************************************************************************)
(* The ring buffer is a bounded queue for every length that divides the    *)
(* range of the indices, every set of bytes and every length of a batch:   *)
(* ImplementsQueue for items of one unit.                                  *)
(*                                                                         *)
(* RingInv says where write is: used items after read.  Since at most      *)
(* item_cnt items are in the ring, their places are different              *)
(* (ModDistinct), so what is enqueued overwrites none of them.             *)
(***************************************************************************)
EXTENDS Download, SequenceTheorems, TLAPS

-----------------------------------------------------------------------------
(* Remainders.                                                             *)

\* Remainders are kept under a name, so that what is known of them is what the
\* lemmas say.
Rem(x, n) == x % n
Divides(x, n, q, r) == x = n * q + r /\ Rem(x, n) = r

LEMMA Division ==
  \A n \in Nat \ {0}, x \in Nat : \E q \in Int, r \in 0 .. n - 1 : Divides(x, n, q, r)
<1> TAKE n \in Nat \ {0}, x \in Nat
<1>1. x \div n \in Int /\ x % n \in 0 .. n - 1
  OBVIOUS
<1>2. x = n * (x \div n) + (x % n)
  OBVIOUS
<1>3. Divides(x, n, x \div n, x % n)
  BY <1>2 DEF Divides, Rem
<1> QED
  BY <1>1, <1>3, Zenon

LEMMA Multiple ==
  ASSUME NEW n \in Nat \ {0}, NEW d \in Int, -n < n * d, n * d < n
  PROVE  d = 0
<1>1. CASE d >= 1
  <2>1. n * d >= n * 1
    BY <1>1
  <2> QED
    BY <2>1
<1>2. CASE d <= -1
  <2>1. n * d <= n * (-1)
    BY <1>2
  <2> QED
    BY <2>1
<1> QED
  BY <1>1, <1>2

LEMMA ModUnique ==
  ASSUME NEW n \in Nat \ {0}, NEW x \in Nat, NEW q \in Int, NEW r \in 0 .. n - 1, x = n * q + r
  PROVE  Rem(x, n) = r
<1>1. PICK p \in Int, s \in 0 .. n - 1 : Divides(x, n, p, s)
  BY Division, Zenon
<1>2. n * (p - q) = r - s
  BY <1>1 DEF Divides
<1>3. p - q = 0
  BY <1>1, <1>2, Multiple
<1> QED
  BY <1>1, <1>3 DEF Divides

LEMMA ModAdd ==
  ASSUME NEW n \in Nat \ {0}, NEW x \in Nat, NEW y \in Nat, Rem(x, n) = Rem(y, n), NEW k \in Nat
  PROVE  Rem(x + k, n) = Rem(y + k, n)
<1>1. PICK p \in Int, s \in 0 .. n - 1 : Divides(x, n, p, s)
  BY Division, Zenon
<1>2. PICK q \in Int, t \in 0 .. n - 1 : Divides(y, n, q, t)
  BY Division, Zenon
<1>3. y + k \in Nat /\ x + k \in Nat
  OBVIOUS
<1>4. PICK u \in Int, r \in 0 .. n - 1 : Divides(y + k, n, u, r)
  BY <1>3, Division, Zenon
<1>5. x + k = n * (u + p - q) + r
  BY <1>1, <1>2, <1>4 DEF Divides
<1>6. u + p - q \in Int
  OBVIOUS
<1>7. Rem(x + k, n) = r
  BY <1>3, <1>5, <1>6, ModUnique
<1> QED
  BY <1>4, <1>7 DEF Divides

LEMMA ModMod ==
  ASSUME NEW n \in Nat \ {0}, NEW c \in Nat \ {0}, NEW x \in Nat
  PROVE  Rem(Rem(x, n * c), n) = Rem(x, n)
<1>1. n * c \in Nat \ {0}
  OBVIOUS
<1>2. PICK p \in Int, s \in 0 .. n * c - 1 : Divides(x, n * c, p, s)
  BY <1>1, Division, Zenon
<1>3. PICK q \in Int, r \in 0 .. n - 1 : Divides(x, n, q, r)
  BY Division, Zenon
<1>4. (n * c) * p = n * (c * p)
  OBVIOUS
<1>5. s = n * (q - c * p) + r
  BY <1>2, <1>3, <1>4 DEF Divides
<1>6. q - c * p \in Int /\ s \in Nat
  BY <1>1
<1>7. Rem(s, n) = r
  BY <1>5, <1>6, ModUnique
<1> QED
  BY <1>2, <1>3, <1>7, Zenon DEF Divides

LEMMA ModDistinct ==
  ASSUME NEW n \in Nat \ {0}, NEW x \in Nat, NEW j \in 0 .. n - 1, NEW k \in 0 .. n - 1,
         Rem(x + j, n) = Rem(x + k, n)
  PROVE  j = k
<1>1. x + j \in Nat /\ x + k \in Nat
  OBVIOUS
<1>2. PICK a \in Int, r \in 0 .. n - 1 : Divides(x + j, n, a, r)
  BY <1>1, Division, Zenon
<1>3. PICK b \in Int, s \in 0 .. n - 1 : Divides(x + k, n, b, s)
  BY <1>1, Division, Zenon
<1>4. n * (a - b) = j - k
  BY <1>2, <1>3 DEF Divides
<1>5. a - b = 0
  BY <1>4, Multiple
<1> QED
  BY <1>4, <1>5

LEMMA ModSmall ==
  ASSUME NEW n \in Nat \ {0}, NEW x \in 0 .. n - 1
  PROVE  Rem(x, n) = x
<1>1. x = n * 0 + x /\ 0 \in Int /\ x \in Nat
  OBVIOUS
<1> QED
  BY <1>1, ModUnique

LEMMA ModRange ==
  ASSUME NEW n \in Nat \ {0}, NEW x \in Nat
  PROVE  Rem(x, n) \in 0 .. n - 1
<1>1. PICK q \in Int, r \in 0 .. n - 1 : Divides(x, n, q, r)
  BY Division, Zenon
<1> QED
  BY <1>1 DEF Divides

-----------------------------------------------------------------------------
(* The ring.                                                               *)

\* A fifo of bytes whose length divides the range of the indices.
Sized ==
  /\ ItemUnits = 1 /\ Batch <= item_cnt + 1
  /\ \E c \in Nat \ {0} : IndexMod = item_cnt * c

At(x) == Rem(x, item_cnt)

Ring(b, r, u) ==
  /\ b \in [0 .. item_cnt - 1 -> Unit]
  /\ r \in 0 .. IndexMod - 1
  /\ u \in 0 .. item_cnt

RingInv == Ring(buf, read, used) /\ write = Rem(read + used, IndexMod)

LEMMA Places ==
  ASSUME Sized
  PROVE  /\ \A x : Place(x) = At(x) * 1
         /\ \A v : ItemOf(v) = <<v>>
         /\ \A x \in Nat : At(x) \in 0 .. item_cnt - 1
         /\ \A x, k \in Nat : At(Rem(x, IndexMod) + k) = At(x + k)
         /\ \A x, k \in Nat : Rem(Rem(x, IndexMod) + k, IndexMod) = Rem(x + k, IndexMod)
         /\ \A x \in Nat : Rem(x, IndexMod) \in 0 .. IndexMod - 1
<1> USE FifoAssumption DEF FifoAssumption
<1>1. item_cnt \in Nat \ {0} /\ IndexMod \in Nat \ {0} /\ ItemUnits = 1
  BY DEF Sized
<1>2. PICK c \in Nat \ {0} : IndexMod = item_cnt * c
  BY DEF Sized
<1>3. \A x : Place(x) = At(x) * 1
  BY <1>1 DEF Place, At, Rem
<1>4. \A x \in Nat : At(x) \in 0 .. item_cnt - 1
  BY <1>1, ModRange DEF At
<1>5. \A x \in Nat : Rem(x, IndexMod) \in 0 .. IndexMod - 1
  BY <1>1, ModRange
<1>6. ASSUME NEW x \in Nat, NEW k \in Nat
      PROVE  At(Rem(x, IndexMod) + k) = At(x + k)
  <2>1. Rem(Rem(x, IndexMod), item_cnt) = Rem(x, item_cnt)
    BY <1>1, <1>2, ModMod
  <2>2. Rem(x, IndexMod) \in Nat
    BY <1>1, <1>5
  <2> QED
    BY <1>1, <2>1, <2>2, ModAdd DEF At
<1>7. ASSUME NEW x \in Nat, NEW k \in Nat
      PROVE  Rem(Rem(x, IndexMod) + k, IndexMod) = Rem(x + k, IndexMod)
  <2>1. Rem(x, IndexMod) \in 0 .. IndexMod - 1 /\ Rem(x, IndexMod) \in Nat
    BY <1>1, <1>5
  <2>2. Rem(Rem(x, IndexMod), IndexMod) = Rem(x, IndexMod)
    BY <1>1, <2>1, ModSmall
  <2> QED
    BY <1>1, <2>1, <2>2, ModAdd
<1>8. \A v : ItemOf(v) = <<v>>
  BY <1>1 DEF ItemOf
<1> QED
  BY <1>3, <1>4, <1>5, <1>6, <1>7, <1>8

\* What is in the ring, item by item.
Taken(b, r, u) ==
  [k \in 1 .. u |-> [w \in 1 .. ItemUnits |-> b[Place((r + k - 1) % IndexMod) + w - 1]]]

LEMMA ContentTaken ==
  Content = Taken(buf, read, used) /\ Content' = Taken(buf', read', used')
BY DEF Content, Taken, ItemAt

LEMMA TakenItems ==
  ASSUME Sized, NEW b, NEW r, NEW u, Ring(b, r, u)
  PROVE  /\ Taken(b, r, u) \in Seq(Seq(Unit)) /\ Len(Taken(b, r, u)) = u
         /\ \A j \in 0 .. u - 1 : Taken(b, r, u)[j + 1] = <<b[At(r + j)]>>
<1>1. /\ item_cnt \in Nat \ {0} /\ IndexMod \in Nat \ {0} /\ u \in Nat /\ r \in Nat
      /\ ItemUnits = 1
  BY FifoAssumption DEF FifoAssumption, Ring, Sized
<1> DEFINE item(x) == [w \in 1 .. ItemUnits |-> b[Place(x) + w - 1]]
           t == Taken(b, r, u)
<1>2. ASSUME NEW j \in Nat
      PROVE  item((r + j) % IndexMod) = <<b[At(r + j)]>> /\ b[At(r + j)] \in Unit
  <2>1. r + j \in Nat
    BY <1>1
  <2>2. Rem(r + j, IndexMod) \in Nat
    <3>1. Rem(r + j, IndexMod) \in 0 .. IndexMod - 1
      BY <2>1, Places
    <3> QED
      BY <1>1, <3>1
  <2>3. At(Rem(r + j, IndexMod)) = At(r + j)
    <3>1. At(Rem(r + j, IndexMod) + 0) = At(r + j + 0)
      BY <2>1, Places
    <3>2. Rem(r + j, IndexMod) + 0 = Rem(r + j, IndexMod) /\ r + j + 0 = r + j
      BY <2>1, <2>2
    <3> QED
      BY <3>1, <3>2
  <2>4. Place(Rem(r + j, IndexMod)) = At(r + j) * 1 /\ At(r + j) \in 0 .. item_cnt - 1
    BY <2>1, <2>3, Places
  <2>5. item(Rem(r + j, IndexMod)) = [w \in 1 .. 1 |-> b[At(r + j)]]
    <3>1. \A w \in 1 .. 1 : At(r + j) * 1 + w - 1 = At(r + j)
      BY <1>1, <2>4
    <3> QED
      BY <1>1, <2>4, <3>1
  <2>6. b[At(r + j)] \in Unit
    BY <2>4 DEF Ring
  <2> QED
    BY <2>5, <2>6 DEF Rem
<1>3. t = [k \in 1 .. u |-> item((r + k - 1) % IndexMod)]
  BY DEF Taken
<1> HIDE DEF t, item
<1>4. ASSUME NEW k \in 1 .. u
      PROVE  t[k] = <<b[At(r + (k - 1))]>> /\ t[k] \in Seq(Unit)
  <2>1. k - 1 \in Nat /\ r + k - 1 = r + (k - 1)
    BY <1>1
  <2>2. t[k] = item((r + (k - 1)) % IndexMod)
    BY <1>3, <2>1
  <2>3. t[k] = <<b[At(r + (k - 1))]>> /\ b[At(r + (k - 1))] \in Unit
    BY <1>2, <2>1, <2>2
  <2> QED
    BY <2>3
<1>5. t \in Seq(Seq(Unit)) /\ Len(t) = u
  <2>1. t \in [1 .. u -> Seq(Unit)]
    BY <1>3, <1>4
  <2> QED
    BY <1>1, <2>1
<1>6. ASSUME NEW j \in 0 .. u - 1 PROVE t[j + 1] = <<b[At(r + j)]>>
  <2>1. j + 1 \in 1 .. u /\ r + ((j + 1) - 1) = r + j
    BY <1>1
  <2> QED
    BY <1>4, <2>1
<1> QED
  BY <1>5, <1>6 DEF t

\* The places of the ring are different.
LEMMA Apart ==
  ASSUME NEW x \in Nat, NEW j \in 0 .. item_cnt - 1, NEW k \in 0 .. item_cnt - 1,
         At(x + j) = At(x + k)
  PROVE  j = k
BY FifoAssumption, ModDistinct DEF FifoAssumption, At

-----------------------------------------------------------------------------
(* Each call keeps RingInv and does to the content what a queue does.      *)

LEMMA Enqueue ==
  ASSUME Sized, RingInv, NEW v \in Unit, fifo_enqueue(v)
  PROVE  /\ RingInv'
         /\ \/ /\ used < item_cnt /\ Content' = Append(Content, ItemOf(v))
               /\ out' = [ret |-> 0, val |-> <<>>]
            \/ /\ used = item_cnt /\ Content' = Content
               /\ out' = [ret |-> -1, val |-> <<>>]
<1>1. item_cnt \in Nat \ {0} /\ IndexMod \in Nat \ {0}
  BY FifoAssumption DEF FifoAssumption
<1>2. CASE used = item_cnt
  BY <1>2 DEF fifo_enqueue, Answer, RingInv, Ring, Content, ItemAt
<1>3. CASE used # item_cnt
  <2> DEFINE p == At(read + used)
  <2>1. used \in 0 .. item_cnt - 1 /\ read \in Nat /\ read + used \in Nat
    BY <1>1, <1>3 DEF RingInv, Ring
  <2>2. Place(write) = p * 1 /\ p \in 0 .. item_cnt - 1
    <3>1. At(write + 0) = At(read + used + 0)
      BY <2>1, Places DEF RingInv, Ring
    <3>2. write \in Nat /\ read + used + 0 = read + used
      BY <1>1, <2>1, Places DEF RingInv, Ring
    <3> QED
      BY <2>1, <3>1, <3>2, Places
  <2>3. /\ buf' = [i \in DOMAIN buf |->
                     IF i - Place(write) \in 0 .. ItemUnits - 1
                     THEN ItemOf(v)[i - Place(write) + 1] ELSE buf[i]]
        /\ write' = (write + 1) % IndexMod /\ used' = used + 1 /\ read' = read
        /\ out' = [ret |-> 0, val |-> <<>>]
    BY <1>3 DEF fifo_enqueue, Answer
  <2> HIDE DEF p
  <2>4. buf' = [buf EXCEPT ![p] = v]
    <3>1. ItemUnits = 1 /\ ItemOf(v) = <<v>>
      BY Places DEF Sized
    <3>2. \A i \in DOMAIN buf : (IF i - Place(write) \in 0 .. ItemUnits - 1
             THEN ItemOf(v)[i - Place(write) + 1] ELSE buf[i]) = (IF i = p THEN v ELSE buf[i])
      BY <2>2, <3>1 DEF RingInv, Ring
    <3> QED
      BY <2>2, <2>3, <3>2 DEF RingInv, Ring
  <2>5. write' = Rem(read' + used', IndexMod)
    <3>1. write' = Rem(write + 1, IndexMod)
      BY <2>3 DEF Rem
    <3>2. write' = Rem(read + used + 1, IndexMod)
      BY <2>1, <3>1, Places DEF RingInv, Ring
    <3>3. read' + used' = read + used + 1
      BY <2>1, <2>3
    <3> QED
      BY <3>2, <3>3
  <2>6. RingInv'
    <3>1. used' \in 0 .. item_cnt /\ read' \in 0 .. IndexMod - 1
      BY <1>1, <2>1, <2>3 DEF RingInv, Ring
    <3>2. buf' \in [0 .. item_cnt - 1 -> Unit]
      BY <2>4 DEF RingInv, Ring
    <3> QED
      BY <2>5, <3>1, <3>2 DEF RingInv, Ring
  <2>7. \A j \in 0 .. used - 1 : At(read + j) # p
    <3> SUFFICES ASSUME NEW j \in 0 .. used - 1, At(read + j) = p PROVE FALSE
      OBVIOUS
    <3>1. j \in 0 .. item_cnt - 1 /\ j # used
      BY <1>1, <2>1
    <3> QED
      BY <2>1, <3>1, Apart DEF p
  <2>8. buf'[At(read + used)] = v /\ \A j \in 0 .. used - 1 : buf'[At(read + j)] = buf[At(read + j)]
    <3>1. \A j \in 0 .. used - 1 : read + j \in Nat /\ At(read + j) \in 0 .. item_cnt - 1
      <4>1. \A j \in 0 .. used - 1 : read + j \in Nat
        BY <2>1
      <4> QED
        BY <4>1, Places
    <3> QED
      BY <2>2, <2>4, <2>7, <3>1 DEF RingInv, Ring, p
  <2>9. Content' = Append(Content, <<v>>)
    <3>1. /\ Len(Content') = used + 1 /\ Content' \in Seq(Seq(Unit))
          /\ \A j \in 0 .. used : Content'[j + 1] = <<buf'[At(read + j)]>>
      <4>1. Ring(buf', read', used') /\ used' - 1 = used
        BY <2>1, <2>3, <2>6 DEF RingInv
      <4> DEFINE t == Taken(buf', read', used')
      <4>2. t \in Seq(Seq(Unit)) /\ Len(t) = used'
            /\ \A j \in 0 .. used' - 1 : t[j + 1] = <<buf'[At(read' + j)]>>
        BY <4>1, TakenItems
      <4>3. Content' = t
        BY ContentTaken
      <4> HIDE DEF t
      <4> QED
        BY <2>3, <4>1, <4>2, <4>3
    <3>2. Len(Content) = used /\ Content \in Seq(Seq(Unit))
          /\ \A j \in 0 .. used - 1 : Content[j + 1] = <<buf[At(read + j)]>>
      BY TakenItems, ContentTaken DEF RingInv
    <3> DEFINE a == Append(Content, <<v>>)
    <3>3. Len(a) = used + 1 /\ a \in Seq(Seq(Unit)) /\ a[used + 1] = <<v>>
          /\ \A k \in 1 .. used : a[k] = Content[k]
      BY <2>1, <3>2
    <3> HIDE DEF a
    <3>4. \A k \in 1 .. used + 1 : Content'[k] = a[k]
      <4> SUFFICES ASSUME NEW k \in 1 .. used + 1 PROVE Content'[k] = a[k]
        OBVIOUS
      <4>1. k - 1 \in 0 .. used /\ (k - 1) + 1 = k
        BY <2>1
      <4>2. Content'[k] = <<buf'[At(read + (k - 1))]>>
        BY <3>1, <4>1
      <4>3. CASE k = used + 1
        BY <2>1, <2>8, <3>3, <4>1, <4>2, <4>3
      <4>4. CASE k # used + 1
        <5>1. k - 1 \in 0 .. used - 1 /\ k \in 1 .. used
          BY <2>1, <4>4
        <5> QED
          BY <2>8, <3>2, <3>3, <4>1, <4>2, <5>1
      <4> QED
        BY <4>3, <4>4
    <3> QED
      BY <3>1, <3>3, <3>4 DEF a
  <2>10. used < item_cnt
    BY <1>1, <2>1
  <2>11. ItemOf(v) = <<v>>
    BY Places
  <2> QED
    BY <2>3, <2>6, <2>9, <2>10, <2>11
<1> QED
  BY <1>2, <1>3

\* Sequences with the same items.
LEMMA SameItems ==
  ASSUME NEW X, NEW s \in Seq(X), NEW t \in Seq(X), NEW u \in Nat, Len(s) = u, Len(t) = u,
         \A j \in 0 .. u - 1 : s[j + 1] = t[j + 1]
  PROVE  s = t
<1>1. \A k \in 1 .. u : k - 1 \in 0 .. u - 1 /\ (k - 1) + 1 = k
  OBVIOUS
<1>2. \A k \in 1 .. u : s[k] = t[k]
  BY <1>1
<1> QED
  BY <1>2

LEMMA RingFacts ==
  ASSUME Sized, RingInv
  PROVE  /\ item_cnt \in Nat \ {0} /\ IndexMod \in Nat \ {0}
         /\ used \in Nat /\ read \in Nat /\ read + used \in Nat
         /\ Content \in Seq(Seq(Unit)) /\ Len(Content) = used
         /\ \A j \in 0 .. used - 1 : Content[j + 1] = <<buf[At(read + j)]>>
<1>1. item_cnt \in Nat \ {0} /\ IndexMod \in Nat \ {0} /\ used \in Nat /\ read \in Nat
  BY FifoAssumption DEF FifoAssumption, RingInv, Ring
<1>2. read + used \in Nat
  BY <1>1
<1> QED
  BY <1>1, <1>2, TakenItems, ContentTaken DEF RingInv

LEMMA RingFactsAfter ==
  ASSUME Sized, Ring(buf', read', used')
  PROVE  /\ Content' \in Seq(Seq(Unit)) /\ Len(Content') = used'
         /\ \A j \in 0 .. used' - 1 : Content'[j + 1] = <<buf'[At(read' + j)]>>
<1> DEFINE t == Taken(buf', read', used')
<1>1. /\ t \in Seq(Seq(Unit)) /\ Len(t) = used'
      /\ \A j \in 0 .. used' - 1 : t[j + 1] = <<buf'[At(read' + j)]>>
  BY TakenItems
<1>2. Content' = t
  BY ContentTaken
<1> HIDE DEF t
<1> QED
  BY <1>1, <1>2

LEMMA Dequeue ==
  ASSUME Sized, RingInv, fifo_dequeue
  PROVE  /\ RingInv'
         /\ \/ /\ Content # <<>> /\ Content' = Tail(Content)
               /\ out' = [ret |-> 0, val |-> <<Head(Content)>>]
            \/ /\ Content = <<>> /\ Content' = Content
               /\ out' = [ret |-> -1, val |-> <<>>]
<1> USE RingFacts
<1>1. CASE used = 0
  <2>1. UNCHANGED <<buf, read, write, used>> /\ out' = [ret |-> -1, val |-> <<>>]
    BY <1>1 DEF fifo_dequeue, Answer
  <2>2. Content = <<>>
    BY <1>1
  <2> QED
    BY <2>1, <2>2 DEF RingInv, Content, ItemAt
<1>2. CASE used # 0
  <2>1. /\ out' = [ret |-> 0, val |-> <<ItemAt(read)>>]
        /\ read' = (read + 1) % IndexMod /\ used' = used - 1 /\ buf' = buf /\ write' = write
    BY <1>2 DEF fifo_dequeue, Answer
  <2>2. Content # <<>> /\ Head(Content) = Content[1] /\ 1 \in 1 .. used
    BY <1>2
  <2>3. Content[1] = ItemAt(read)
    <3>1. Rem(read, IndexMod) = read
      BY ModSmall DEF RingInv, Ring
    <3>2. Content[1] = ItemAt((read + 1 - 1) % IndexMod) /\ read + 1 - 1 = read
      BY <2>2 DEF Content
    <3> QED
      BY <3>1, <3>2 DEF Rem
  <2>4. read' = Rem(read + 1, IndexMod) /\ read' \in 0 .. IndexMod - 1
    <3>1. read + 1 \in Nat
      OBVIOUS
    <3> QED
      BY <2>1, <3>1, Places DEF Rem
  <2>5. used' \in 0 .. item_cnt
    BY <1>2, <2>1 DEF RingInv, Ring
  <2>6. Ring(buf', read', used')
    BY <2>1, <2>4, <2>5 DEF RingInv, Ring
  <2>7. write' = Rem(read' + used', IndexMod)
    <3>1. read + 1 \in Nat /\ used - 1 \in Nat /\ (read + 1) + (used - 1) = read + used
      BY <1>2
    <3>2. Rem(Rem(read + 1, IndexMod) + (used - 1), IndexMod) = Rem((read + 1) + (used - 1), IndexMod)
      BY <3>1, Places
    <3> QED
      BY <2>1, <2>4, <3>1, <3>2 DEF RingInv
  <2>8. Content' = Tail(Content)
    <3>1. /\ Content' \in Seq(Seq(Unit)) /\ Len(Content') = used - 1
          /\ \A j \in 0 .. used - 1 - 1 : Content'[j + 1] = <<buf[At(read' + j)]>>
      BY <2>1, <2>6, RingFactsAfter
    <3>2. Tail(Content) \in Seq(Seq(Unit)) /\ Len(Tail(Content)) = used - 1
          /\ \A k \in 1 .. used - 1 : Tail(Content)[k] = Content[k + 1]
      BY <2>2
    <3>3. ASSUME NEW j \in 0 .. used - 1 - 1 PROVE Content'[j + 1] = Tail(Content)[j + 1]
      <4> HIDE RingFacts
      <4>0. used \in Nat /\ read \in Nat
        BY RingFacts
      <4>1. /\ j \in Nat /\ read + 1 \in Nat /\ read + 1 + j = read + (j + 1)
            /\ j + 1 \in 0 .. used - 1 /\ j + 1 \in 1 .. used - 1
        BY <4>0
      <4> USE RingFacts
      <4>2. At(read' + j) = At(read + (j + 1))
        <5>1. At(Rem(read + 1, IndexMod) + j) = At(read + 1 + j)
          BY <4>1, Places
        <5> QED
          BY <2>4, <4>1, <5>1
      <4>3. Tail(Content)[j + 1] = <<buf[At(read + (j + 1))]>>
        BY <3>2, <4>1
      <4> QED
        BY <3>1, <4>2, <4>3
    <3>4. used - 1 \in Nat
      BY <1>2
    <3> QED
      BY <3>1, <3>2, <3>3, <3>4, SameItems
  <2> QED
    BY <2>1, <2>2, <2>3, <2>6, <2>7, <2>8 DEF RingInv
<1> QED
  BY <1>1, <1>2

LEMMA Clear ==
  ASSUME Sized, RingInv, fifo_clear \/ fifo_init
  PROVE  RingInv' /\ Content' = <<>> /\ out' = [ret |-> 0, val |-> <<>>]
<1> USE RingFacts
<1>1. used' = 0 /\ out' = [ret |-> 0, val |-> <<>>]
  BY DEF fifo_clear, fifo_init, Answer
<1>2. Content' = <<>>
  BY <1>1 DEF Content
<1>3. CASE fifo_clear
  <2>1. buf' \in [0 .. item_cnt - 1 -> Unit]
    BY <1>3, FifoAssumption DEF FifoAssumption, fifo_clear, RingInv, Ring
  <2>2. read' = Rem(read + used, IndexMod) /\ write' = write
    BY <1>3 DEF fifo_clear, Rem
  <2>3. read' \in 0 .. IndexMod - 1 /\ write' = read'
    BY <2>2, Places DEF RingInv
  <2>4. Rem(read' + 0, IndexMod) = read'
    BY <2>3, ModSmall
  <2> QED
    BY <1>1, <1>2, <2>1, <2>3, <2>4 DEF RingInv, Ring
<1>4. CASE fifo_init
  <2>1. read' = 0 /\ write' = 0 /\ buf' = buf
    BY <1>4 DEF fifo_init
  <2>2. Rem(0 + 0, IndexMod) = 0
    BY ModSmall
  <2> QED
    BY <1>1, <1>2, <2>1, <2>2 DEF RingInv, Ring
<1> QED
  BY <1>3, <1>4

\* A batch: value k goes to the place of item used + k, which no other has.
LEMMA EnqueueBatch ==
  ASSUME Sized, RingInv, NEW b \in Nat, NEW vals \in [1 .. b -> Unit],
         fifo_enqueue_n_s16(vals)
  PROVE  /\ RingInv'
         /\ LET is == [k \in 1 .. b |-> <<vals[k]>>]
                n  == IF b > item_cnt - used THEN item_cnt - used ELSE b
            IN  Content' = Content \o SubSeq(is, 1, n) /\ out' = [ret |-> n, val |-> <<>>]
<1> DEFINE is == [k \in 1 .. b |-> <<vals[k]>>]
           n == IF b > item_cnt - used THEN item_cnt - used ELSE b
           unit(k) == ((write + k - 1) % IndexMod) % item_cnt
           writers(i) == {k \in 1 .. n : unit(k) = i}
<1>1. /\ item_cnt \in Nat \ {0} /\ IndexMod \in Nat \ {0}
      /\ used \in 0 .. item_cnt /\ read \in Nat /\ read + used \in Nat
  BY RingFacts DEF RingInv, Ring
<1>2. n \in 0 .. item_cnt - used /\ n <= b
  BY <1>1
<1>3. Len(vals) = b
  OBVIOUS
<1>4. /\ buf' = [i \in DOMAIN buf |->
                   IF writers(i) = {} THEN buf[i]
                   ELSE vals[CHOOSE k \in writers(i) : \A j \in writers(i) : j <= k]]
      /\ write' = (write + n) % IndexMod /\ used' = used + n /\ read' = read
      /\ out' = [ret |-> n, val |-> <<>>]
  BY <1>3 DEF fifo_enqueue_n_s16, Answer
<1>5. ASSUME NEW k \in 1 .. n
      PROVE  unit(k) = At(read + (used + (k - 1))) /\ used + (k - 1) \in 0 .. item_cnt - 1
  <2>1. k - 1 \in Nat /\ (read + used) + (k - 1) = read + (used + (k - 1))
        /\ read + (used + (k - 1)) \in Nat /\ used + (k - 1) \in 0 .. item_cnt - 1
    BY <1>1, <1>2
  <2>2. Rem(write + (k - 1), IndexMod) = Rem(read + (used + (k - 1)), IndexMod)
    <3>1. Rem(Rem(read + used, IndexMod) + (k - 1), IndexMod) = Rem((read + used) + (k - 1), IndexMod)
      BY <1>1, <2>1, Places
    <3> QED
      BY <2>1, <3>1 DEF RingInv
  <2>3. At(Rem(read + (used + (k - 1)), IndexMod)) = At(read + (used + (k - 1)))
    <3> DEFINE x == read + (used + (k - 1))
    <3>1. x \in Nat
      BY <2>1
    <3> HIDE DEF x
    <3>2. Rem(x, IndexMod) \in 0 .. IndexMod - 1 /\ At(Rem(x, IndexMod) + 0) = At(x + 0)
      BY <3>1, Places
    <3>3. Rem(x, IndexMod) + 0 = Rem(x, IndexMod) /\ x + 0 = x
      BY <1>1, <3>1, <3>2
    <3> QED
      BY <3>2, <3>3 DEF x
  <2>4. write \in Nat /\ write + k - 1 = write + (k - 1)
    <3>1. write \in 0 .. IndexMod - 1
      BY <1>1, Places DEF RingInv
    <3> QED
      BY <1>1, <3>1
  <2>5. unit(k) = At(Rem(write + (k - 1), IndexMod))
    BY <2>4 DEF At, Rem
  <2> QED
    BY <2>1, <2>2, <2>3, <2>5
<1> HIDE DEF unit, n
<1>6. ASSUME NEW k \in 1 .. n PROVE writers(unit(k)) = {k}
  <2> SUFFICES ASSUME NEW l \in 1 .. n, unit(l) = unit(k) PROVE l = k
    OBVIOUS
  <2>1. At(read + (used + (l - 1))) = At(read + (used + (k - 1)))
    BY <1>5
  <2>2. used + (l - 1) = used + (k - 1)
    BY <1>1, <1>5, <2>1, Apart
  <2> QED
    BY <1>1, <1>2, <2>2
<1>7. ASSUME NEW k \in 1 .. n PROVE unit(k) \in DOMAIN buf /\ buf'[unit(k)] = vals[k]
  <2>1. unit(k) \in DOMAIN buf
    <3>1. used + (k - 1) \in Nat /\ read + (used + (k - 1)) \in Nat
      BY <1>1, <1>5
    <3> QED
      BY <1>5, <3>1, Places DEF RingInv, Ring
  <2>2. (CHOOSE l \in {k} : \A j \in {k} : j <= l) = k
    BY <1>1, <1>2
  <2> QED
    BY <1>4, <1>6, <2>1, <2>2
<1>8. ASSUME NEW i \in DOMAIN buf, \A k \in 1 .. n : unit(k) # i
      PROVE  buf'[i] = buf[i]
  BY <1>4, <1>8
<1>9. buf' \in [0 .. item_cnt - 1 -> Unit]
  <2>1. \A i \in DOMAIN buf : buf'[i] \in Unit
    <3> SUFFICES ASSUME NEW i \in DOMAIN buf PROVE buf'[i] \in Unit
      OBVIOUS
    <3>1. CASE \A k \in 1 .. n : unit(k) # i
      BY <1>8, <3>1 DEF RingInv, Ring
    <3>2. CASE \E k \in 1 .. n : unit(k) = i
      <4>1. PICK k \in 1 .. n : unit(k) = i
        BY <3>2
      <4>2. k \in 1 .. b
        BY <1>1, <1>2
      <4> QED
        BY <1>7, <4>1, <4>2
    <3> QED
      BY <3>1, <3>2
  <2> QED
    BY <1>4, <2>1 DEF RingInv, Ring
<1>10. Ring(buf', read', used') /\ used' = used + n
  <2>1. used + n \in 0 .. item_cnt
    BY <1>1, <1>2
  <2>2. used' = used + n /\ read' = read
    BY <1>4
  <2> QED
    BY <1>9, <2>1, <2>2 DEF RingInv, Ring
<1>11. write' = Rem(read' + used', IndexMod)
  <2>1. n \in Nat /\ read + (used + n) = (read + used) + n
    BY <1>1, <1>2
  <2>2. Rem(Rem(read + used, IndexMod) + n, IndexMod) = Rem((read + used) + n, IndexMod)
    BY <1>1, <2>1, Places
  <2> QED
    BY <1>4, <2>1, <2>2 DEF RingInv, Rem
<1>12. Content' = Content \o SubSeq(is, 1, n)
  <2> DEFINE m == used + n
  <2>0. n \in Nat /\ used \in Nat /\ m \in Nat
    BY <1>1, <1>2
  <2> DEFINE s == SubSeq(is, 1, n)
             c == Content \o s
  <2>1. /\ Content' \in Seq(Seq(Unit)) /\ Len(Content') = m
        /\ \A j \in 0 .. m - 1 : Content'[j + 1] = <<buf'[At(read + j)]>>
    <3>1. /\ Content' \in Seq(Seq(Unit)) /\ Len(Content') = used'
          /\ \A j \in 0 .. used' - 1 : Content'[j + 1] = <<buf'[At(read' + j)]>>
      BY <1>10, RingFactsAfter
    <3>2. used' = m /\ read' = read
      BY <1>4
    <3> HIDE DEF m
    <3> QED
      BY <3>1, <3>2
  <2>2. /\ Content \in Seq(Seq(Unit)) /\ Len(Content) = used
        /\ \A j \in 0 .. used - 1 : Content[j + 1] = <<buf[At(read + j)]>>
    BY RingFacts
  <2>3. is \in Seq(Seq(Unit)) /\ Len(is) = b
    BY <1>1
  <2>4. s \in Seq(Seq(Unit)) /\ Len(s) = n /\ \A k \in 1 .. n : s[k] = <<vals[k]>>
    <3>1. ASSUME NEW k \in 1 .. n PROVE is[k] = <<vals[k]>> /\ is[k] \in Seq(Unit)
      <4>1. k \in 1 .. b
        BY <1>1, <1>2
      <4> QED
        BY <4>1
    <3> HIDE DEF is
    <3>2. /\ s \in Seq(Seq(Unit)) /\ Len(s) = (IF 1 <= n THEN n - 1 + 1 ELSE 0)
          /\ \A k \in 1 .. n - 1 + 1 : s[k] = is[1 + k - 1]
      BY <2>0, <3>1, SubSeqProperties
    <3> HIDE DEF s
    <3>3. Len(s) = n
      BY <2>0, <3>2
    <3>4. ASSUME NEW k \in 1 .. n PROVE s[k] = is[k]
      <4>1. k \in 1 .. n - 1 + 1 /\ 1 + k - 1 = k
        BY <2>0
      <4> QED
        BY <3>2, <4>1
    <3> QED
      BY <3>1, <3>2, <3>3, <3>4
  <2> HIDE DEF s
  <2>5. /\ c \in Seq(Seq(Unit)) /\ Len(c) = m
        /\ \A k \in 1 .. used : c[k] = Content[k]
        /\ \A k \in used + 1 .. m : c[k] = s[k - used]
    <3>1. /\ c \in Seq(Seq(Unit)) /\ Len(c) = Len(Content) + Len(s)
          /\ \A i \in 1 .. Len(Content) + Len(s) :
               c[i] = IF i <= Len(Content) THEN Content[i] ELSE s[i - Len(Content)]
      BY <2>2, <2>4, ConcatProperties
    <3> HIDE DEF c, m
    <3>2. m = used + n
      BY DEF m
    <3>3. /\ Len(c) = used + n
          /\ \A i \in 1 .. used + n : c[i] = IF i <= used THEN Content[i] ELSE s[i - used]
      BY <2>2, <2>4, <3>1
    <3>4. ASSUME NEW k \in 1 .. used PROVE c[k] = Content[k]
      <4>1. k \in 1 .. used + n /\ k <= used
        BY <2>0
      <4> QED
        BY <3>3, <4>1
    <3>5. ASSUME NEW k \in used + 1 .. m PROVE c[k] = s[k - used]
      <4>1. k \in 1 .. used + n /\ ~(k <= used)
        BY <2>0, <3>2
      <4> QED
        BY <3>3, <4>1
    <3> QED
      BY <3>1, <3>2, <3>3, <3>4, <3>5
  <2> HIDE DEF m
  <2> HIDE DEF c
  <2>6. ASSUME NEW j \in 0 .. m - 1 PROVE Content'[j + 1] = c[j + 1]
    <3>1. CASE j < used
      <4>1. j \in 0 .. used - 1 /\ j + 1 \in 1 .. used /\ j \in 0 .. item_cnt - 1
            /\ read + j \in Nat
        BY <1>1, <3>1
      <4>2. At(read + j) \in DOMAIN buf
        BY <4>1, Places DEF RingInv, Ring
      <4>3. \A k \in 1 .. n : unit(k) # At(read + j)
        <5> SUFFICES ASSUME NEW k \in 1 .. n, unit(k) = At(read + j) PROVE FALSE
          OBVIOUS
        <5>1. used + (k - 1) = j
          BY <1>1, <1>5, <4>1, Apart
        <5> QED
          BY <1>1, <1>2, <3>1, <5>1
      <4>4. buf'[At(read + j)] = buf[At(read + j)]
        BY <1>8, <4>2, <4>3
      <4> QED
        BY <2>1, <2>2, <2>5, <4>1, <4>4
    <3>2. CASE j >= used
      <4> DEFINE k == j - used + 1
      <4>1. k \in 1 .. n /\ j + 1 \in used + 1 .. m /\ (j + 1) - used = k
            /\ used + (k - 1) = j
        BY <1>1, <1>2, <3>2 DEF m
      <4> HIDE DEF k
      <4>2. buf'[At(read + j)] = vals[k]
        BY <1>5, <1>7, <4>1
      <4> QED
        BY <2>1, <2>4, <2>5, <4>1, <4>2
    <3> QED
      BY <1>1, <1>2, <3>1, <3>2
  <2>8. Content' = c
    BY <2>0, <2>1, <2>5, <2>6, SameItems
  <2> QED
    BY <2>8 DEF c, s
<1> QED
  BY <1>4, <1>10, <1>11, <1>12 DEF RingInv, n

-----------------------------------------------------------------------------
(* The refinement.                                                         *)

UsesRing == conf.use = "samples"

\* While the ring is used alone, write is where RingInv says.
QInv == UsesRing => RingInv

\* The mapped queue and answer.
MQ == IF UsesRing THEN Content ELSE <<>>
MOut == IF UsesRing THEN out ELSE [ret |-> 0, val |-> <<>>]

LEMMA QInit ==
  ASSUME Sized, DldInit
  PROVE  QInv /\ Queue!Init
<1>1. item_cnt \in Nat \ {0} /\ IndexMod \in Nat \ {0} /\ ItemUnits = 1 /\ 0 \in Unit
  BY FifoAssumption DEF FifoAssumption, Sized
<1>2. buf \in [0 .. item_cnt - 1 -> Unit] /\ read = 0 /\ write = 0 /\ used = 0
  BY <1>1 DEF DldInit, Init
<1>3. Rem(0 + 0, IndexMod) = 0
  BY <1>1, ModSmall
<1>4. RingInv
  BY <1>1, <1>2, <1>3 DEF RingInv, Ring
<1>5. Content = <<>> /\ out = [ret |-> 0, val |-> <<>>]
  BY <1>2 DEF Content, DldInit, Init
<1> QED
  BY <1>4, <1>5 DEF QInv, Queue!Init

\* A call on the ring is a call on the queue.
LEMMA CallStep ==
  ASSUME Sized, UsesRing, UsesRing', RingInv, Next
  PROVE  RingInv' /\ Queue!Next
<1> USE RingFacts
<1>1. MQ = Content /\ MQ' = Content' /\ MOut' = out'
  BY DEF MQ, MOut
<1>2. Len(Content) = used /\ item_cnt \in Nat \ {0} /\ used \in 0 .. item_cnt
  BY FifoAssumption DEF FifoAssumption, RingInv, Ring
<1>3. ASSUME NEW v \in Unit, fifo_enqueue(v)
      PROVE  RingInv' /\ Queue!Next
  <2>1. Queue!Put(ItemOf(v))
    BY <1>2, <1>3, Enqueue DEF Queue!Put, Queue!Answer, UsesRing
  <2> QED
    BY <1>3, <2>1, Enqueue DEF Queue!Next
<1>4. ASSUME NEW b \in 1 .. Batch, NEW vals \in [1 .. b -> Unit], fifo_enqueue_n_s16(vals)
      PROVE  RingInv' /\ Queue!Next
  <2> DEFINE is == [k \in 1 .. b |-> <<vals[k]>>]
             n == IF b > item_cnt - used THEN item_cnt - used ELSE b
  <2>1. b \in Nat /\ b \in 0 .. item_cnt + 1
    BY <1>2, FifoAssumption DEF FifoAssumption, Sized
  <2>2. RingInv' /\ Content' = Content \o SubSeq(is, 1, n) /\ out' = [ret |-> n, val |-> <<>>]
    BY <1>4, <2>1, EnqueueBatch
  <2>3. Len(is) = b
    BY <2>1
  <2>4. Queue!PutMany(is)
    BY <1>2, <2>2, <2>3 DEF Queue!PutMany, Queue!Answer, UsesRing
  <2>5. is \in [1 .. b -> {ItemOf(v) : v \in Unit}]
    BY Places
  <2> QED
    BY <2>1, <2>2, <2>4, <2>5 DEF Queue!Next
<1>5. CASE fifo_dequeue
  <2>1. Queue!Get
    BY <1>5, Dequeue DEF Queue!Get, Queue!Answer, UsesRing
  <2> QED
    BY <1>5, <2>1, Dequeue DEF Queue!Next
<1>6. CASE fifo_get_used
  <2>1. out' = [ret |-> used, val |-> <<>>] /\ buf' = buf /\ read' = read /\ write' = write /\ used' = used
    BY <1>6 DEF fifo_get_used, Answer
  <2>2. RingInv' /\ Content' = Content
    BY <2>1 DEF RingInv, Ring, Content, ItemAt
  <2>3. Queue!Used
    BY <1>2, <2>1, <2>2 DEF Queue!Used, Queue!Answer, UsesRing
  <2> QED
    BY <2>2, <2>3 DEF Queue!Next
<1>7. CASE fifo_clear \/ fifo_init
  <2>1. Queue!Clear
    BY <1>7, Clear DEF Queue!Clear, Queue!Answer, UsesRing
  <2> QED
    BY <1>7, <2>1, Clear DEF Queue!Next
<1> QED
  BY <1>3, <1>4, <1>5, <1>6, <1>7 DEF Next

LEMMA QStep ==
  ASSUME Sized, QInv, [DldNext]_dldVars
  PROVE  QInv' /\ [Queue!Next]_(Queue!vars)
<1>1. conf' = conf
  BY DEF DldNext, dldVars, ctlVars, vars, RxByte, HostStarts, SysStep, TaskStep, ReadByte,
         TakeStart, InitFifo, TestRun, CreateTask, Notify, TakeNotify, Ymodem_Receive_Returns,
         ClearRun
<1>2. UsesRing' <=> UsesRing
  BY <1>1 DEF UsesRing
<1>3. CASE ~UsesRing
  BY <1>2, <1>3 DEF QInv, UsesRing, Queue!vars
<1>4. CASE UsesRing /\ UNCHANGED dldVars
  <2>1. UNCHANGED vars
    BY <1>4 DEF dldVars
  <2>2. RingInv' /\ Content' = Content /\ out' = out
    BY <1>4, <2>1 DEF QInv, RingInv, Ring, Content, ItemAt, vars
  <2> QED
    BY <1>2, <1>4, <2>2 DEF QInv, UsesRing, Queue!vars
<1>5. CASE UsesRing /\ DldNext
  <2>1. Next
    BY <1>5 DEF DldNext, UsesRing
  <2>2. RingInv
    BY <1>5 DEF QInv
  <2> QED
    BY <1>2, <1>5, <2>1, <2>2, CallStep DEF QInv
<1> QED
  BY <1>3, <1>4, <1>5

(* In every order of the calls and however often the indices wrap, the     *)
(* ring buffer of fifo.c does what a bounded queue does: no item is lost,  *)
(* repeated, reordered or changed.                                         *)
THEOREM RingIsQueue ==
  ASSUME Sized
  PROVE  DldSpec => ImplementsQueue
<1>1. DldInit => QInv /\ Queue!Init
  BY QInit
<1>2. QInv /\ [DldNext]_dldVars => QInv' /\ [Queue!Next]_(Queue!vars)
  BY QStep
<1> QED
  BY <1>1, <1>2, PTL DEF DldSpec, ImplementsQueue, Queue!Spec

-----------------------------------------------------------------------------
(* A download.                                                             *)

\* With a host that does not retry, the control of one download is a cycle:
\* the stores of fifo_init come while no byte does.
Serial ==
  /\ starts \in {0, 1} /\ run \in {0, 1}
  /\ starts = 1 => run = 0 /\ sys = "idle"
  /\ sys \in {"idle", "init", "write", "read", "test", "create", "notify"}
  /\ sys \in {"init", "write", "read", "test"} => run = 0
  /\ sys \in {"create", "notify"} => run = 1 /\ notes = 0 /\ task \in {"none", "waits"}
  /\ run = 0 => notes = 0 /\ task \in {"none", "waits"}
  /\ task \in {"receives", "returned"} => notes = 0

Stored ==
  /\ sys \in {"write", "read", "test"} => used = 0
  /\ sys \in {"read", "test"} => write = 0
  /\ sys = "test" => read = 0

OwnBytes == run = 1 => RingInv /\ Content = bytes

Single == conf.use = "download" /\ ~conf.retries

DldInv == Single => Ring(buf, read, used) /\ Serial /\ Stored /\ OwnBytes

LEMMA DldInvInit ==
  ASSUME Sized, DldInit
  PROVE  DldInv
<1>1. item_cnt \in Nat \ {0} /\ IndexMod \in Nat \ {0} /\ ItemUnits = 1 /\ 0 \in Unit
  BY FifoAssumption DEF FifoAssumption, Sized
<1>2. Ring(buf, read, used)
  BY <1>1 DEF DldInit, Init, Ring
<1> QED
  BY <1>2 DEF DldInit, DldInv, Serial, Stored, OwnBytes

LEMMA DldInvStep ==
  ASSUME Sized, DldInv, [DldNext]_dldVars
  PROVE  DldInv'
<1> SUFFICES ASSUME Single' PROVE (Ring(buf, read, used) /\ Serial /\ Stored /\ OwnBytes)'
  BY DEF DldInv
<1>1. conf' = conf
  BY DEF DldNext, dldVars, ctlVars, vars, RxByte, HostStarts, SysStep, TaskStep, ReadByte,
         TakeStart, InitFifo, TestRun, CreateTask, Notify, TakeNotify, Ymodem_Receive_Returns,
         ClearRun
<1>2. Single /\ Ring(buf, read, used) /\ Serial /\ Stored /\ OwnBytes
  BY <1>1 DEF DldInv, Single
<1>3. item_cnt \in Nat \ {0} /\ IndexMod \in Nat \ {0} /\ used \in 0 .. item_cnt
  BY <1>2, FifoAssumption DEF FifoAssumption, Ring
<1> DEFINE RingStays == Ring(buf', read', used') /\ (RingInv => RingInv' /\ Content' = Content)
<1>4. UNCHANGED vars => RingStays
  BY <1>2 DEF vars, Ring, RingInv, Content, ItemAt
<1>5. CASE UNCHANGED dldVars
  BY <1>2, <1>4, <1>5 DEF dldVars, ctlVars, vars, Ring, Serial, Stored, OwnBytes
<1>6. CASE RxByte
  <2>1. PICK v \in Unit : ci_port_rx_hdl(v)
    BY <1>6 DEF RxByte
  <2>2. run = 1 /\ fifo_enqueue(v) /\ RingInv /\ Content = bytes
    BY <1>2, <2>1 DEF ci_port_rx_hdl, OwnBytes
  <2>3. RingInv' /\ Content' = bytes'
    BY <1>2, <1>3, <2>1, <2>2, Enqueue DEF ci_port_rx_hdl, Single
  <2>4. run' = run /\ starts' = starts /\ sys' = sys /\ task' = task /\ notes' = notes
    BY <1>6 DEF RxByte
  <2>5. sys \notin {"init", "write", "read", "test"}
    BY <1>2, <2>2 DEF Serial
  <2> QED
    BY <1>2, <2>3, <2>4, <2>5 DEF RingInv, Serial, Stored, OwnBytes
<1>7. CASE ReadByte
  <2>1. /\ task = "receives" /\ fifo_dequeue
        /\ bytes' = (IF used > 0 /\ bytes # <<>> THEN Tail(bytes) ELSE bytes)
        /\ run' = run /\ starts' = starts /\ sys' = sys /\ task' = task /\ notes' = notes
    BY <1>7 DEF ReadByte
  <2>2. run = 1 /\ RingInv /\ Content = bytes
    BY <1>2, <2>1 DEF Serial, OwnBytes
  <2>3. RingInv' /\ Content' = bytes'
    BY <1>3, <2>1, <2>2, Dequeue, RingFacts
  <2>4. sys \notin {"init", "write", "read", "test"}
    BY <1>2, <2>2 DEF Serial
  <2> QED
    BY <1>2, <2>1, <2>3, <2>4 DEF RingInv, Serial, Stored, OwnBytes
<1>8. CASE InitFifo
  <2>1. Ring(buf', read', used')
    BY <1>2, <1>3, <1>8 DEF InitFifo, InitStores, vars, Ring
  <2>2. Serial' /\ Stored' /\ run' = 0
    BY <1>2, <1>8 DEF InitFifo, InitStores, Serial, Stored
  <2> QED
    BY <2>1, <2>2 DEF Ring, OwnBytes
<1>9. CASE TestRun
  <2>1. UNCHANGED vars /\ sys = "test" /\ run = 0
    BY <1>2, <1>9 DEF TestRun, Serial
  <2>2. run' = 1 /\ bytes' = <<>> /\ sys' = "create"
    BY <1>9, <2>1 DEF TestRun
  <2>3. read = 0 /\ write = 0 /\ used = 0
    BY <1>2, <2>1 DEF Stored
  <2>4. Rem(0 + 0, IndexMod) = 0
    BY <1>3, ModSmall
  <2>5. RingInv /\ Content = <<>>
    BY <1>2, <2>3, <2>4 DEF RingInv, Content
  <2>6. Serial' /\ Stored'
    BY <1>2, <1>9, <2>1, <2>2 DEF TestRun, Serial, Stored
  <2> QED
    BY <1>4, <2>1, <2>2, <2>5, <2>6 DEF Ring, OwnBytes
<1>10. CASE HostStarts \/ TakeStart \/ CreateTask \/ Notify \/ TaskStep
  <2>1. UNCHANGED vars /\ bytes' = bytes
    BY <1>10 DEF HostStarts, TakeStart, CreateTask, Notify, TaskStep, TakeNotify,
                 Ymodem_Receive_Returns, ClearRun
  <2>2. CASE HostStarts
    BY <1>1, <1>2, <2>1, <1>4, <2>2 DEF HostStarts, Serial, Stored, OwnBytes, Single, Ring, vars
  <2>3. CASE TakeStart
    BY <1>2, <2>1, <1>4, <2>3 DEF TakeStart, Serial, Stored, OwnBytes, Ring, vars
  <2>4. CASE CreateTask
    BY <1>2, <2>1, <1>4, <2>4 DEF CreateTask, Serial, Stored, OwnBytes, Ring, vars
  <2>5. CASE Notify
    BY <1>2, <2>1, <1>4, <2>5 DEF Notify, Serial, Stored, OwnBytes, Ring, vars
  <2>6. CASE TaskStep
    BY <1>2, <2>1, <1>4, <2>6 DEF TaskStep, TakeNotify, Ymodem_Receive_Returns, ClearRun,
                                  Serial, Stored, OwnBytes, Ring, vars
  <2> QED
    BY <1>10, <2>2, <2>3, <2>4, <2>5, <2>6
<1> QED
  BY <1>2, <1>5, <1>6, <1>7, <1>8, <1>9, <1>10 DEF DldNext, SysStep, TaskStep, Single

(* A host that sends one start at a time gets its own bytes written, from  *)
(* the first on: the interrupt never meets the three stores of fifo_init.  *)
THEOREM DownloadReadsItsOwn ==
  ASSUME Sized
  PROVE  DldSpec => []ReadsItsOwn
<1>1. DldInit => DldInv
  BY DldInvInit
<1>2. DldInv /\ [DldNext]_dldVars => DldInv'
  BY DldInvStep
<1>3. DldInv => ReadsItsOwn
  BY DEF DldInv, ReadsItsOwn, OwnBytes, Single
<1> QED
  BY <1>1, <1>2, <1>3, PTL DEF DldSpec
=============================================================================
