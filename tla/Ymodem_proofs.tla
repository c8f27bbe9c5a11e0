--------------------------- MODULE Ymodem_proofs ---------------------------
(***************************************************************************)
(* WritesInOrder and Delivered for every length of a file, every modulus   *)
(* of the packet numbers from two on, every limit of errors and any number *)
(* of lost replies, lost and damaged packets and early timeouts; damage of *)
(* a start byte excepted (GarbledBytes = 0).                               *)
(*                                                                         *)
(* The receiver is never more than one packet ahead of the sender and      *)
(* never behind it (Sending): the sender advances on an ACK, and there is  *)
(* one ACK for each packet accepted.  Packets are not reordered, so those  *)
(* under way are the one the receiver waits for and copies of the one      *)
(* before (Line), which two different numbers tell apart.                  *)
(***************************************************************************)
EXTENDS Ymodem, SequenceTheorems, TLAPS

-----------------------------------------------------------------------------
(* The inductive invariant.                                                *)

\* The packets accepted, the header included.
Acc == IF rx.begun THEN rx.dest + 1 ELSE 0

\* EOT was received.
Ended == rx.begun /\ rx.packets = 0

Replies == {"ACK", "NAK", "C", "CAN"}
Packets == {EOT, Damaged} \cup [type : {"packet"}, number : Nat, data : Nat]
Confsets == [blocks : Nat \ {0}, capacity : Nat \ {0}, flash : Nat,
             wrap : Nat \ {0, 1}, faults : Nat, garbled : Nat, prev : Nat,
             flashfails : BOOLEAN, erasefails : BOOLEAN, prompt : BOOLEAN]

RxType == [done : BOOLEAN, result : {"OK", "LIMIT", "TIMEOUT", "ABORT", "DATA"},
           packets : Nat, errors : Nat, begun : BOOLEAN, retry : Nat, dest : Nat,
           filesize : Nat]
TxType == [phase : {"header", "data", "eot", "end", "done"},
           result : {"OK", "ERROR", "LIMIT", "ABORT"}, place : {"send", "reply", "cancel"},
           left : Nat, blk : Nat, errors : Nat]

NoAck(q) == \A i \in DOMAIN q : q[i] # "ACK"
OneAck(q) == \A i, j \in DOMAIN q : q[i] = "ACK" /\ q[j] = "ACK" => i = j

\* The place of a packet in the file; n is the number of blocks.
Key(p, n) == IF p.type = "packet" THEN p.data ELSE n + 1
Whole(p) == p.type # "damaged"

\* What may be under way when a packets were accepted; e: EOT was received.
Fits(p, a, e, n, w) ==
  \/ p.type = "damaged"
  \/ /\ p.type = "packet" /\ ~e
     /\ p.data \in 0 .. n /\ p.data \in {a - 1, a} /\ p.number = p.data % w
  \/ p.type = "eot" /\ a = n + 1
  \/ p.type = "packet" /\ p.data = n + 1 /\ p.number = 0 /\ a = n + 1 /\ e

Line(q, a, e, n, w) ==
  /\ q \in Seq(Packets)
  /\ \A i \in DOMAIN q : Fits(q[i], a, e, n, w)
  /\ \A i, j \in DOMAIN q : i < j /\ Whole(q[i]) /\ Whole(q[j]) => Key(q[i], n) <= Key(q[j], n)

Behind(q, t, n) == \A i \in DOMAIN q : Whole(q[i]) => Key(q[i], n) <= t
Ahead(q, t, n) == \A i \in DOMAIN q : Whole(q[i]) => Key(q[i], n) >= t

Types ==
  /\ conf \in Confsets /\ conf.garbled = 0
  /\ rx \in RxType /\ tx \in TxType
  /\ toTx \in Seq(Replies)
  /\ flash \in [0 .. FlashBlocks - 1 -> Nat]

\* Where the next blocks go is erased, unless an erase failed.
Blank ==
  ~EraseFails =>
    \A i \in 0 .. FlashBlocks - 1 : i >= rx.dest /\ (rx.begun \/ i >= Capacity) => flash[i] = Erased

Receiving ==
  /\ ~rx.begun => rx.dest = 0 /\ rx.packets = 0
  /\ rx.dest <= FlashBlocks /\ rx.dest <= Blocks
  /\ ~rx.done /\ ~Ended => rx.packets = Acc
  /\ Ended => Acc = Blocks + 1
  /\ rx.done /\ rx.result = "OK" => rx.dest = Blocks
  /\ WritesInOrder /\ Blank

\* t is the place of the packet that is sent.
Waits(t) ==
  /\ ~Ended /\ Behind(toRx, t, Blocks)
  /\ \/ Acc = t /\ NoAck(toTx)
     \/ Acc = t + 1 /\ OneAck(toTx)

Sending ==
  /\ tx.phase = "header" => tx.left = Blocks /\ tx.blk = 1 /\ Waits(0)
  /\ tx.phase = "data" => tx.blk \in 1 .. Blocks /\ tx.left = Blocks - tx.blk + 1 /\ Waits(tx.blk)
  /\ tx.phase = "eot" => Acc = Blocks + 1 /\ (~Ended => NoAck(toTx))
  /\ tx.phase = "end" => Acc = Blocks + 1 /\ Ended
  /\ tx.phase = "done" /\ tx.result = "OK" => Acc = Blocks + 1

IInv == Types /\ Receiving /\ Sending /\ Line(toRx, Acc, Ended, Blocks, Wrap)

YInv == conf \in Confs /\ (GarbledBytes = 0 => IInv)

-----------------------------------------------------------------------------
(* The numbers of two packets in turn differ.                              *)

LEMMA NumbersDiffer ==
  ASSUME NEW w \in Nat \ {0, 1}, NEW k \in Nat
  PROVE  k % w # (k + 1) % w
<1> DEFINE p == k \div w
           q == (k + 1) \div w
           r == k % w
           s == (k + 1) % w
<1>1. p \in Int /\ q \in Int /\ r \in Int /\ s \in Int
  OBVIOUS
<1>2. k = (w * p) + r /\ k + 1 = (w * q) + s
  OBVIOUS
<1> SUFFICES ASSUME r = s PROVE FALSE
  OBVIOUS
<1> HIDE DEF p, q, r, s
<1>3. w * (q - p) = 1
  BY <1>1, <1>2
<1>4. q - p \in Int
  BY <1>1
<1> DEFINE d == q - p
<1>5. CASE d >= 1
  <2>1. w * d >= w * 1
    BY <1>4, <1>5
  <2> QED
    BY <1>3, <2>1
<1>6. CASE d <= 0
  <2>1. w * d <= w * 0
    BY <1>4, <1>6
  <2> QED
    BY <1>3, <2>1
<1> QED
  BY <1>4, <1>5, <1>6

-----------------------------------------------------------------------------
(* Replies.                                                                *)

LEMMA ConcatAcks ==
  ASSUME NEW x \in Seq(Replies), NEW y \in Seq(Replies)
  PROVE  /\ x \o y \in Seq(Replies)
         /\ NoAck(x) /\ NoAck(y) => NoAck(x \o y)
         /\ OneAck(x) /\ NoAck(y) => OneAck(x \o y)
         /\ NoAck(x) /\ OneAck(y) => OneAck(x \o y)
<1> DEFINE z == x \o y
<1>1. /\ z \in Seq(Replies) /\ Len(z) = Len(x) + Len(y)
      /\ \A i \in 1 .. Len(x) + Len(y) : z[i] = IF i <= Len(x) THEN x[i] ELSE y[i - Len(x)]
  BY ConcatProperties
<1>2. Len(x) \in Nat /\ Len(y) \in Nat /\ DOMAIN x = 1 .. Len(x) /\ DOMAIN y = 1 .. Len(y)
      /\ DOMAIN z = 1 .. Len(z)
  BY <1>1
<1> HIDE DEF z
<1>3. ASSUME NEW i \in DOMAIN z
      PROVE  \/ i \in DOMAIN x /\ z[i] = x[i]
             \/ i - Len(x) \in DOMAIN y /\ z[i] = y[i - Len(x)]
  BY <1>1, <1>2
<1>4. NoAck(x) /\ NoAck(y) => NoAck(z)
  BY <1>3 DEF NoAck
<1>5. OneAck(x) /\ NoAck(y) => OneAck(z)
  BY <1>3 DEF NoAck, OneAck
<1>6. ASSUME NoAck(x), OneAck(y), NEW i \in DOMAIN z, NEW j \in DOMAIN z, z[i] = "ACK", z[j] = "ACK"
      PROVE  i = j
  <2>1. i - Len(x) \in DOMAIN y /\ y[i - Len(x)] = "ACK"
    BY <1>3, <1>6 DEF NoAck
  <2>2. j - Len(x) \in DOMAIN y /\ y[j - Len(x)] = "ACK"
    BY <1>3, <1>6 DEF NoAck
  <2>3. i - Len(x) = j - Len(x)
    BY <1>6, <2>1, <2>2 DEF OneAck
  <2> QED
    BY <1>1, <1>2, <2>3
<1> QED
  BY <1>1, <1>4, <1>5, <1>6 DEF z, OneAck

\* A sequence without its i-th element.
Without(b, i) == SubSeq(b, 1, i - 1) \o SubSeq(b, i + 1, Len(b))

LEMMA WithoutAcks ==
  ASSUME NEW b \in Seq(Replies), NEW i \in DOMAIN b
  PROVE  /\ Without(b, i) \in Seq(Replies)
         /\ NoAck(b) => NoAck(Without(b, i))
         /\ OneAck(b) => OneAck(Without(b, i))
<1> DEFINE x == SubSeq(b, 1, i - 1)
           y == SubSeq(b, i + 1, Len(b))
           z == x \o y
<1>1. Len(b) \in Nat /\ i \in 1 .. Len(b) /\ DOMAIN b = 1 .. Len(b) /\ \A k \in 1 .. Len(b) : b[k] \in Replies
  OBVIOUS
<1>2. /\ x \in Seq(Replies) /\ Len(x) = (IF 1 <= i - 1 THEN (i - 1) - 1 + 1 ELSE 0)
      /\ \A k \in 1 .. (i - 1) - 1 + 1 : x[k] = b[1 + k - 1]
  <2>1. \A k \in 1 .. i - 1 : b[k] \in Replies
    BY <1>1
  <2> QED
    BY <1>1, <2>1, SubSeqProperties
<1>3. /\ y \in Seq(Replies) /\ Len(y) = (IF i + 1 <= Len(b) THEN Len(b) - (i + 1) + 1 ELSE 0)
      /\ \A k \in 1 .. Len(b) - (i + 1) + 1 : y[k] = b[(i + 1) + k - 1]
  <2>1. \A k \in i + 1 .. Len(b) : b[k] \in Replies
    BY <1>1
  <2> QED
    BY <1>1, <2>1, SubSeqProperties
<1> HIDE DEF x, y
<1>4. /\ z \in Seq(Replies) /\ Len(z) = Len(x) + Len(y)
      /\ \A k \in 1 .. Len(x) + Len(y) : z[k] = IF k <= Len(x) THEN x[k] ELSE y[k - Len(x)]
  BY <1>2, <1>3, ConcatProperties
<1> HIDE DEF z
<1>5. Len(x) = i - 1 /\ Len(y) = Len(b) - i
  BY <1>1, <1>2, <1>3
<1> DEFINE n == Len(b)
           at(k) == IF k < i THEN k ELSE k + 1
<1> HIDE DEF n
<1>51. n \in Nat /\ i \in 1 .. n /\ DOMAIN b = 1 .. n /\ DOMAIN z = 1 .. n - 1
  BY <1>1, <1>4, <1>5 DEF n
<1>52. \A k \in 1 .. n - 1 : z[k] = IF k <= i - 1 THEN x[k] ELSE y[k - (i - 1)]
  <2>1. Len(x) + Len(y) = n - 1 /\ Len(x) = i - 1
    BY <1>1, <1>5 DEF n
  <2> QED
    BY <1>4, <2>1
<1>53. ASSUME NEW k \in 1 .. i - 1 PROVE x[k] = b[k]
  <2>1. k \in 1 .. (i - 1) - 1 + 1 /\ 1 + k - 1 = k
    BY <1>51
  <2> QED
    BY <1>2, <2>1
<1>54. ASSUME NEW k \in 1 .. n - i PROVE y[k] = b[i + k]
  <2>1. k \in 1 .. n - (i + 1) + 1 /\ (i + 1) + k - 1 = i + k
    BY <1>51
  <2> QED
    BY <1>3, <2>1 DEF n
<1>6. ASSUME NEW k \in DOMAIN z PROVE at(k) \in DOMAIN b /\ z[k] = b[at(k)] /\ k \in Int
  <2>1. k \in 1 .. n - 1
    BY <1>51
  <2>2. CASE k < i
    <3>1. k \in 1 .. i - 1 /\ k <= i - 1
      BY <1>51, <2>1, <2>2
    <3> QED
      BY <1>51, <1>52, <1>53, <2>1, <2>2, <3>1
  <2>3. CASE k >= i
    <3>1. ~(k <= i - 1) /\ k - (i - 1) \in 1 .. n - i /\ i + (k - (i - 1)) = k + 1
      BY <1>51, <2>1, <2>3
    <3>2. z[k] = y[k - (i - 1)]
      BY <1>52, <2>1, <3>1
    <3>3. y[k - (i - 1)] = b[k + 1]
      BY <1>54, <3>1
    <3> QED
      BY <1>51, <2>1, <2>3, <3>2, <3>3
  <2> QED
    BY <1>51, <2>1, <2>2, <2>3
<1>7. NoAck(b) => NoAck(z)
  BY <1>6 DEF NoAck
<1>8. ASSUME OneAck(b), NEW k \in DOMAIN z, NEW l \in DOMAIN z, z[k] = "ACK", z[l] = "ACK"
      PROVE  k = l
  <2>1. at(k) = at(l)
    BY <1>6, <1>8 DEF OneAck
  <2> QED
    BY <1>1, <1>6, <2>1
<1>9. OneAck(b) => OneAck(z)
  BY <1>8 DEF OneAck
<1> QED
  BY <1>4, <1>7, <1>9 DEF x, y, z, Without

LEMMA ReplyAcks ==
  ASSUME toTx \in Seq(Replies), NEW b \in Seq(Replies), Reply(b)
  PROVE  /\ toTx' \in Seq(Replies)
         /\ NoAck(toTx) /\ NoAck(b) => NoAck(toTx')
         /\ OneAck(toTx) /\ NoAck(b) => OneAck(toTx')
         /\ NoAck(toTx) /\ OneAck(b) => OneAck(toTx')
<1>1. CASE toTx' = toTx \o b
  BY <1>1, ConcatAcks
<1>2. CASE \E i \in DOMAIN b : toTx' = toTx \o SubSeq(b, 1, i - 1) \o SubSeq(b, i + 1, Len(b))
  <2>1. PICK i \in DOMAIN b : toTx' = toTx \o SubSeq(b, 1, i - 1) \o SubSeq(b, i + 1, Len(b))
    BY <1>2
  <2> DEFINE x == SubSeq(b, 1, i - 1)
             y == SubSeq(b, i + 1, Len(b))
  <2>2. x \in Seq(Replies) /\ y \in Seq(Replies)
    <3>1. i \in Int /\ i >= 1 /\ i <= Len(b) /\ Len(b) \in Nat
      OBVIOUS
    <3>2. \A k \in 1 .. i - 1 : b[k] \in Replies
      BY <3>1
    <3>3. \A k \in i + 1 .. Len(b) : b[k] \in Replies
      BY <3>1
    <3> QED
      BY <3>1, <3>2, <3>3, SubSeqProperties
  <2>3. toTx' = (toTx \o x) \o y
    BY <2>1
  <2> HIDE DEF x, y
  <2>4. toTx' = toTx \o (x \o y)
    BY <2>2, <2>3, ConcatAssociative
  <2>5. x \o y = Without(b, i)
    BY DEF Without, x, y
  <2>6. /\ Without(b, i) \in Seq(Replies)
        /\ NoAck(b) => NoAck(Without(b, i))
        /\ OneAck(b) => OneAck(Without(b, i))
    BY WithoutAcks
  <2> QED
    BY <2>4, <2>5, <2>6, ConcatAcks
<1> QED
  BY <1>1, <1>2 DEF Reply

LEMMA TailAcks ==
  ASSUME NEW q \in Seq(Replies), q # <<>>
  PROVE  /\ Tail(q) \in Seq(Replies) /\ Head(q) \in Replies
         /\ NoAck(q) => NoAck(Tail(q)) /\ Head(q) # "ACK"
         /\ OneAck(q) => OneAck(Tail(q)) /\ (Head(q) = "ACK" => NoAck(Tail(q)))
<1> DEFINE r == Tail(q)
<1>1. /\ Len(q) \in Nat \ {0} /\ DOMAIN q = 1 .. Len(q) /\ DOMAIN r = 1 .. Len(q) - 1
      /\ Head(q) = q[1] /\ r \in Seq(Replies)
  OBVIOUS
<1>2. \A i \in 1 .. Len(q) - 1 : r[i] = q[i + 1]
  OBVIOUS
<1> HIDE DEF r
<1>3. ASSUME NEW i \in DOMAIN r PROVE r[i] = q[i + 1] /\ i + 1 \in DOMAIN q /\ i + 1 # 1
  BY <1>1, <1>2
<1>4. 1 \in DOMAIN q /\ q[1] \in Replies
  BY <1>1
<1>5. NoAck(q) => NoAck(r) /\ Head(q) # "ACK"
  BY <1>1, <1>3, <1>4 DEF NoAck
<1>6. ASSUME OneAck(q) PROVE OneAck(r)
  <2> SUFFICES ASSUME NEW i \in DOMAIN r, NEW j \in DOMAIN r, r[i] = "ACK", r[j] = "ACK"
               PROVE  i = j
    BY DEF OneAck
  <2>1. i + 1 = j + 1
    BY <1>3, <1>6 DEF OneAck
  <2> QED
    BY <1>1, <2>1
<1>7. ASSUME OneAck(q), Head(q) = "ACK" PROVE NoAck(r)
  BY <1>1, <1>3, <1>4, <1>7 DEF OneAck, NoAck
<1> QED
  BY <1>1, <1>4, <1>5, <1>6, <1>7 DEF r

\* The replies the receiver sends.
LEMMA Bytes ==
  /\ <<"NAK">> \in Seq(Replies) /\ NoAck(<<"NAK">>)
  /\ <<"C">> \in Seq(Replies) /\ NoAck(<<"C">>)
  /\ <<"CAN", "CAN">> \in Seq(Replies) /\ NoAck(<<"CAN", "CAN">>)
  /\ <<"C", "CAN", "CAN">> \in Seq(Replies) /\ NoAck(<<"C", "CAN", "CAN">>)
  /\ <<"ACK">> \in Seq(Replies) /\ OneAck(<<"ACK">>)
  /\ <<"ACK", "C">> \in Seq(Replies) /\ OneAck(<<"ACK", "C">>)
  /\ <<"CAN", "ACK", "C">> \in Seq(Replies) /\ OneAck(<<"CAN", "ACK", "C">>)
<1>1. <<"NAK">> \in Seq(Replies) /\ NoAck(<<"NAK">>) /\ <<"C">> \in Seq(Replies) /\ NoAck(<<"C">>)
  BY DEF Replies, NoAck
<1>2. <<"CAN", "CAN">> \in Seq(Replies) /\ NoAck(<<"CAN", "CAN">>)
  BY DEF Replies, NoAck
<1>3. <<"C", "CAN", "CAN">> \in Seq(Replies) /\ NoAck(<<"C", "CAN", "CAN">>)
  BY DEF Replies, NoAck
<1>4. <<"ACK">> \in Seq(Replies) /\ OneAck(<<"ACK">>)
  BY DEF Replies, OneAck
<1>5. <<"ACK", "C">> \in Seq(Replies) /\ OneAck(<<"ACK", "C">>)
  BY DEF Replies, OneAck
<1>6. <<"CAN", "ACK", "C">> \in Seq(Replies) /\ OneAck(<<"CAN", "ACK", "C">>)
  BY DEF Replies, OneAck
<1> QED
  BY <1>1, <1>2, <1>3, <1>4, <1>5, <1>6

-----------------------------------------------------------------------------
(* Packets under way.                                                      *)

LEMMA TailLine ==
  ASSUME NEW q, NEW a, NEW e, NEW n \in Nat, NEW w, Line(q, a, e, n, w), q # <<>>
  PROVE  /\ Line(Tail(q), a, e, n, w)
         /\ Head(q) \in Packets /\ Fits(Head(q), a, e, n, w)
         /\ Whole(Head(q)) => Ahead(Tail(q), Key(Head(q), n), n)
         /\ \A t : Behind(q, t, n) => Behind(Tail(q), t, n) /\ (Whole(Head(q)) => Key(Head(q), n) <= t)
<1> DEFINE r == Tail(q)
<1>1. q \in Seq(Packets)
  BY DEF Line
<1>2. /\ Len(q) \in Nat \ {0} /\ DOMAIN q = 1 .. Len(q) /\ DOMAIN r = 1 .. Len(q) - 1
      /\ Head(q) = q[1] /\ r \in Seq(Packets) /\ q[1] \in Packets
  BY <1>1
<1>3. \A i \in 1 .. Len(q) - 1 : r[i] = q[i + 1]
  BY <1>1
<1> HIDE DEF r
<1>4. ASSUME NEW i \in DOMAIN r PROVE r[i] = q[i + 1] /\ i + 1 \in DOMAIN q /\ 1 < i + 1 /\ i \in Int
  BY <1>2, <1>3
<1>5. 1 \in DOMAIN q
  BY <1>2
<1>6. Fits(q[1], a, e, n, w) /\ \A i \in DOMAIN r : Fits(r[i], a, e, n, w)
  BY <1>4, <1>5 DEF Line
<1>7. ASSUME NEW i \in DOMAIN r, NEW j \in DOMAIN r, i < j, Whole(r[i]), Whole(r[j])
      PROVE  Key(r[i], n) <= Key(r[j], n)
  <2>1. i + 1 < j + 1
    BY <1>4, <1>7
  <2> QED
    BY <1>4, <1>7, <2>1 DEF Line
<1>8. Whole(q[1]) => Ahead(r, Key(q[1], n), n)
  <2> SUFFICES ASSUME Whole(q[1]), NEW i \in DOMAIN r, Whole(r[i]) PROVE Key(r[i], n) >= Key(q[1], n)
    BY DEF Ahead
  <2>1. Key(q[1], n) <= Key(r[i], n)
    BY <1>4, <1>5 DEF Line
  <2>2. r[i] \in Packets
    BY <1>2, <1>4
  <2> QED
    BY <1>2, <2>1, <2>2 DEF Key, Packets, EOT, Damaged
<1>9. \A t : Behind(q, t, n) => Behind(r, t, n) /\ (Whole(q[1]) => Key(q[1], n) <= t)
  BY <1>4, <1>5 DEF Behind
<1> QED
  BY <1>2, <1>6, <1>7, <1>8, <1>9 DEF Line, r

LEMMA AppendLine ==
  ASSUME NEW q, NEW a, NEW e, NEW n \in Nat, NEW w, Line(q, a, e, n, w),
         NEW p \in Packets, Fits(p, a, e, n, w), NEW t \in Nat, Behind(q, t, n),
         Whole(p) => Key(p, n) = t
  PROVE  Line(Append(q, p), a, e, n, w) /\ Behind(Append(q, p), t, n)
<1> DEFINE r == Append(q, p)
<1>1. q \in Seq(Packets)
  BY DEF Line
<1>2. /\ Len(q) \in Nat /\ DOMAIN q = 1 .. Len(q) /\ DOMAIN r = 1 .. Len(q) + 1
      /\ r \in Seq(Packets) /\ r[Len(q) + 1] = p
  BY <1>1
<1>3. \A i \in 1 .. Len(q) : r[i] = q[i]
  BY <1>1
<1> HIDE DEF r
<1>4. ASSUME NEW i \in DOMAIN r PROVE i \in Nat /\ ((i \in DOMAIN q /\ r[i] = q[i]) \/ (i = Len(q) + 1 /\ r[i] = p))
  BY <1>2, <1>3
<1>5. Behind(r, t, n)
  BY <1>4 DEF Behind
<1>6. \A i \in DOMAIN r : Fits(r[i], a, e, n, w)
  BY <1>4 DEF Line
<1>7. ASSUME NEW i \in DOMAIN r, NEW j \in DOMAIN r, i < j, Whole(r[i]), Whole(r[j])
      PROVE  Key(r[i], n) <= Key(r[j], n)
  <2>1. CASE j \in DOMAIN q
    <3>1. i \in DOMAIN q
      BY <1>2, <1>4, <1>7, <2>1
    <3> QED
      BY <1>2, <1>3, <1>7, <2>1, <3>1 DEF Line
  <2>2. CASE j = Len(q) + 1
    BY <1>2, <1>5, <1>7, <2>2 DEF Behind
  <2> QED
    BY <1>4, <2>1, <2>2
<1> QED
  BY <1>2, <1>5, <1>6, <1>7 DEF Line, r

\* Packet a is accepted, and what follows it is not before it.
LEMMA Advance ==
  ASSUME NEW q, NEW n \in Nat, NEW w, NEW a \in 0 .. n, Line(q, a, FALSE, n, w), Ahead(q, a, n)
  PROVE  Line(q, a + 1, FALSE, n, w)
<1>1. ASSUME NEW i \in DOMAIN q PROVE Fits(q[i], a + 1, FALSE, n, w)
  <2>1. Fits(q[i], a, FALSE, n, w) /\ (Whole(q[i]) => Key(q[i], n) >= a)
    BY DEF Line, Ahead
  <2>2. CASE q[i].type = "damaged"
    BY <2>2 DEF Fits
  <2>3. CASE q[i].type = "packet"
    BY <2>1, <2>3 DEF Fits, Whole, Key
  <2>4. CASE q[i].type = "eot"
    BY <2>1, <2>4 DEF Fits
  <2> QED
    BY <2>1, <2>2, <2>3, <2>4 DEF Fits
<1> QED
  BY <1>1 DEF Line

\* EOT is received, and what follows it is not before it.
LEMMA Ending ==
  ASSUME NEW q, NEW n \in Nat, NEW w, NEW e \in BOOLEAN, Line(q, n + 1, e, n, w), Ahead(q, n + 1, n)
  PROVE  Line(q, n + 1, TRUE, n, w)
<1>1. ASSUME NEW i \in DOMAIN q PROVE Fits(q[i], n + 1, TRUE, n, w)
  <2>1. Fits(q[i], n + 1, e, n, w) /\ (Whole(q[i]) => Key(q[i], n) >= n + 1)
    BY DEF Line, Ahead
  <2>2. CASE q[i].type = "packet"
    BY <2>1, <2>2 DEF Fits, Whole, Key
  <2>3. CASE q[i].type # "packet"
    BY <2>1, <2>3 DEF Fits
  <2> QED
    BY <2>2, <2>3
<1> QED
  BY <1>1 DEF Line

-----------------------------------------------------------------------------
(* What the receiver's steps do to the sender's part.                      *)

\* The facts of the configuration and of the variables.
LEMMA Sizes ==
  ASSUME Types
  PROVE  /\ Blocks \in Nat \ {0} /\ Capacity \in Nat \ {0} /\ FlashBlocks \in Nat
         /\ Wrap \in Nat \ {0, 1} /\ Acc \in Nat /\ Ended \in BOOLEAN
         /\ rx.packets \in Nat /\ rx.dest \in Nat
BY DEF Types, RxType, Confsets, Blocks, Capacity, FlashBlocks, Wrap, Acc, Ended

\* A step of the receiver that accepts nothing.
LEMMA Still ==
  ASSUME Types, Sending, Line(toRx, Acc, Ended, Blocks, Wrap),
         conf' = conf, tx' = tx, Acc' = Acc, Ended' = Ended,
         toRx' = toRx \/ (toRx # <<>> /\ toRx' = Tail(toRx)),
         Ended \/ ((NoAck(toTx) => NoAck(toTx')) /\ (OneAck(toTx) => OneAck(toTx')))
  PROVE  Sending' /\ Line(toRx', Acc', Ended', Blocks', Wrap')
<1>1. Blocks' = Blocks /\ Wrap' = Wrap
  BY DEF Blocks, Wrap
<1>2. Line(toRx', Acc, Ended, Blocks, Wrap) /\ \A t : Behind(toRx, t, Blocks) => Behind(toRx', t, Blocks)
  BY Sizes, TailLine
<1>3. \A t : Waits(t) =>
        /\ ~Ended' /\ Behind(toRx', t, Blocks')
        /\ \/ Acc' = t /\ NoAck(toTx')
           \/ Acc' = t + 1 /\ OneAck(toTx')
  BY <1>1, <1>2 DEF Waits
<1>4. Waits(0) => Waits(0)'
  BY <1>3 DEF Waits
<1>5. Waits(tx.blk) => Waits(tx.blk)'
  BY <1>3 DEF Waits
<1>6. tx.phase = "eot" /\ ~Ended => (NoAck(toTx) => NoAck(toTx'))
  OBVIOUS
<1> QED
  BY <1>1, <1>2, <1>4, <1>5, <1>6 DEF Sending

\* A step of the receiver that accepts the packet it waits for.
LEMMA Accepts ==
  ASSUME Types, Sending, Line(toRx, Acc, Ended, Blocks, Wrap),
         conf' = conf, tx' = tx, ~Ended, Acc \in 0 .. Blocks, Acc' = Acc + 1, ~Ended',
         toRx # <<>>, toRx' = Tail(toRx), Whole(Head(toRx)), Key(Head(toRx), Blocks) = Acc,
         NoAck(toTx) => OneAck(toTx')
  PROVE  Sending' /\ Line(toRx', Acc', Ended', Blocks', Wrap')
<1>1. Blocks' = Blocks /\ Wrap' = Wrap
  BY DEF Blocks, Wrap
<1>2. Blocks \in Nat /\ Acc \in Nat
  BY Sizes
<1>3. /\ Line(toRx', Acc, FALSE, Blocks, Wrap) /\ Ahead(toRx', Acc, Blocks)
      /\ \A t : Behind(toRx, t, Blocks) => Behind(toRx', t, Blocks) /\ Acc <= t
  <2>1. Ended = FALSE
    OBVIOUS
  <2> QED
    BY <1>2, <2>1, TailLine
<1>4. Line(toRx', Acc + 1, FALSE, Blocks, Wrap)
  BY <1>2, <1>3, Advance
<1>5. Ended' = FALSE
  BY DEF Ended
<1>6. ASSUME NEW t \in Nat, Waits(t)
      PROVE  /\ ~Ended' /\ Behind(toRx', t, Blocks')
             /\ Acc' = t + 1 /\ OneAck(toTx')
  <2>1. Behind(toRx, t, Blocks) /\ ((Acc = t /\ NoAck(toTx)) \/ Acc = t + 1)
    BY <1>6 DEF Waits
  <2>2. Behind(toRx', t, Blocks) /\ Acc <= t
    BY <1>3, <2>1
  <2>3. Acc = t /\ NoAck(toTx)
    BY <1>2, <2>1, <2>2
  <2> QED
    BY <1>1, <2>2, <2>3
<1>7. Waits(0) => Waits(0)'
  BY <1>6 DEF Waits
<1>8. tx.blk \in Nat /\ (Waits(tx.blk) => Waits(tx.blk)')
  BY <1>6 DEF Waits, Types, TxType
<1>9. Acc # Blocks + 1
  BY <1>2
<1> QED
  BY <1>1, <1>4, <1>5, <1>7, <1>8, <1>9 DEF Sending

\* A step of the receiver that takes EOT.
LEMMA Ends ==
  ASSUME Types, Sending, Line(toRx, Acc, Ended, Blocks, Wrap),
         conf' = conf, tx' = tx, toRx # <<>>, toRx' = Tail(toRx), Head(toRx).type = "eot",
         Acc' = Acc, Ended'
  PROVE  Acc = Blocks + 1 /\ Sending' /\ Line(toRx', Acc', Ended', Blocks', Wrap')
<1>1. Blocks' = Blocks /\ Wrap' = Wrap
  BY DEF Blocks, Wrap
<1>2. Blocks \in Nat /\ Acc \in Nat /\ Ended \in BOOLEAN
  BY Sizes
<1>3. Whole(Head(toRx)) /\ Key(Head(toRx), Blocks) = Blocks + 1
  BY DEF Whole, Key
<1>4. /\ Line(toRx', Acc, Ended, Blocks, Wrap) /\ Ahead(toRx', Blocks + 1, Blocks)
      /\ Fits(Head(toRx), Acc, Ended, Blocks, Wrap)
      /\ \A t : Behind(toRx, t, Blocks) => Blocks + 1 <= t
  BY <1>2, <1>3, TailLine
<1>5. Acc = Blocks + 1
  BY <1>4 DEF Fits
<1>6. Line(toRx', Blocks + 1, TRUE, Blocks, Wrap)
  BY <1>2, <1>4, <1>5, Ending
<1>7. Ended' = TRUE
  BY DEF Ended
<1>8. tx.phase # "header" /\ tx.phase # "data"
  <2>1. \A t \in 0 .. Blocks : ~Waits(t)
    BY <1>2, <1>4 DEF Waits
  <2>2. 0 \in 0 .. Blocks /\ 1 .. Blocks \subseteq 0 .. Blocks
    BY <1>2
  <2> QED
    BY <2>1, <2>2 DEF Sending
<1> QED
  BY <1>1, <1>5, <1>6, <1>7, <1>8 DEF Sending

-----------------------------------------------------------------------------
(* The receiver.                                                           *)

\* A reply without ACK.
Refuses(t, u) == (NoAck(t) => NoAck(u)) /\ (OneAck(t) => OneAck(u))

LEMMA Refusal ==
  ASSUME Types, NEW b \in {<<"NAK">>, <<"C">>, <<"CAN", "CAN">>, <<"C", "CAN", "CAN">>}, Reply(b)
  PROVE  toTx' \in Seq(Replies) /\ Refuses(toTx, toTx')
<1>1. b \in Seq(Replies) /\ NoAck(b)
  BY Bytes
<1>2. toTx \in Seq(Replies)
  BY DEF Types
<1> QED
  BY <1>1, <1>2, ReplyAcks DEF Refuses

LEMMA Acknowledgement ==
  ASSUME Types, NEW b \in {<<"ACK">>, <<"ACK", "C">>, <<"CAN", "ACK", "C">>}, Reply(b)
  PROVE  toTx' \in Seq(Replies) /\ (NoAck(toTx) => OneAck(toTx'))
<1>1. b \in Seq(Replies) /\ OneAck(b)
  BY Bytes
<1>2. toTx \in Seq(Replies)
  BY DEF Types
<1> QED
  BY <1>1, <1>2, ReplyAcks

LEMMA AcceptedIs ==
  ASSUME NEW r \in RxType
  PROVE  /\ Accepted(r) \in RxType /\ Accepted(r).packets = r.packets + 1 /\ Accepted(r).begun
         /\ Accepted(r).dest = r.dest /\ Accepted(r).done = r.done
         /\ Accepted(r).result = r.result
<1> DEFINE a == [r EXCEPT !.errors = 0]
           b == [a EXCEPT !.packets = @ + 1]
           c == [b EXCEPT !.begun = TRUE]
<1>1. Accepted(r) = c
  BY DEF Accepted, RxType
<1>2. /\ a \in RxType /\ a.packets = r.packets /\ a.begun = r.begun /\ a.dest = r.dest
      /\ a.done = r.done /\ a.result = r.result
  BY DEF RxType
<1> HIDE DEF a
<1>3. /\ b \in RxType /\ b.packets = a.packets + 1 /\ b.begun = a.begun /\ b.dest = a.dest
      /\ b.done = a.done /\ b.result = a.result
  BY <1>2 DEF RxType
<1> HIDE DEF b
<1>4. /\ c \in RxType /\ c.packets = b.packets /\ c.begun /\ c.dest = b.dest
      /\ c.done = b.done /\ c.result = b.result
  BY <1>3 DEF RxType
<1> QED
  BY <1>1, <1>2, <1>3, <1>4

LEMMA Updates ==
  ASSUME NEW r \in RxType, NEW x \in Nat
  PROVE  /\ [r EXCEPT !.errors = x] \in RxType /\ [r EXCEPT !.errors = x].dest = r.dest
         /\ [r EXCEPT !.errors = x, !.retry = @ + 1] \in RxType
         /\ [r EXCEPT !.errors = x, !.retry = @ + 1].dest = r.dest
         /\ [r EXCEPT !.errors = x, !.retry = @ + 1].packets = r.packets
         /\ [r EXCEPT !.errors = x, !.retry = @ + 1].begun = r.begun
         /\ [r EXCEPT !.errors = x, !.retry = @ + 1].done = r.done
         /\ [r EXCEPT !.errors = x, !.retry = @ + 1].result = r.result
         /\ [r EXCEPT !.dest = @ + 1] \in RxType /\ [r EXCEPT !.dest = @ + 1].dest = r.dest + 1
         /\ [r EXCEPT !.dest = @ + 1].packets = r.packets
         /\ [r EXCEPT !.dest = @ + 1].done = r.done
<1>1. r.retry + 1 \in Nat /\ r.dest + 1 \in Nat
  BY DEF RxType
<1>2. /\ [r EXCEPT !.errors = x] \in RxType /\ [r EXCEPT !.errors = x].dest = r.dest
  BY DEF RxType
<1>3. ASSUME NEW s, s = [r EXCEPT !.errors = x, !.retry = @ + 1]
      PROVE  /\ s \in RxType /\ s.dest = r.dest /\ s.packets = r.packets /\ s.begun = r.begun
             /\ s.done = r.done /\ s.result = r.result
  BY <1>1, <1>3 DEF RxType
<1>4. ASSUME NEW s, s = [r EXCEPT !.dest = @ + 1]
      PROVE  s \in RxType /\ s.dest = r.dest + 1 /\ s.packets = r.packets /\ s.done = r.done
  BY <1>1, <1>4 DEF RxType
<1> QED
  BY <1>2, <1>3, <1>4

LEMMA EndRxIs ==
  ASSUME rx \in RxType, NEW v \in {"OK", "LIMIT", "TIMEOUT", "ABORT", "DATA"}
  PROVE  /\ EndRx(v) \in RxType /\ EndRx(v).done /\ EndRx(v).result = v
         /\ EndRx(v).packets = rx.packets /\ EndRx(v).begun = rx.begun
         /\ EndRx(v).dest = rx.dest
BY DEF EndRx, RxType

LEMMA FlashRests ==
  ASSUME WritesInOrder, Blank, flash' = flash, conf' = conf, rx'.dest = rx.dest, rx'.begun = rx.begun
  PROVE  WritesInOrder' /\ Blank'
BY DEF WritesInOrder, Blank, EraseFails, FlashBlocks, Capacity, Erased, Mixed, Blocks

LEMMA RxErrorStep ==
  ASSUME IInv, RxError, flash' = flash, tx' = tx, conf' = conf,
         toRx' = toRx \/ (toRx # <<>> /\ toRx' = Tail(toRx))
  PROVE  IInv'
<1> USE DEF IInv
<1>1. /\ rx' \in RxType /\ rx'.dest = rx.dest /\ rx'.begun = rx.begun /\ rx'.packets = rx.packets
      /\ rx'.done => (rx'.result # "OK" \/ (rx.done /\ rx'.result = rx.result))
      /\ ~rx'.done => ~rx.done
  <2> DEFINE e == IF rx.begun THEN rx.errors + 1 ELSE rx.errors
  <2>1. rx \in RxType /\ e \in Nat
    BY DEF Types, RxType
  <2> HIDE DEF e
  <2>2. CASE rx' = [EndRx("LIMIT") EXCEPT !.errors = e]
    <3> DEFINE r == EndRx("LIMIT")
    <3>1. /\ r \in RxType /\ r.done /\ r.result = "LIMIT" /\ r.dest = rx.dest
          /\ r.begun = rx.begun /\ r.packets = rx.packets
      BY <2>1, EndRxIs
    <3> HIDE DEF r
    <3> QED
      BY <2>1, <2>2, <3>1 DEF r, RxType
  <2>3. CASE rx' = [rx EXCEPT !.errors = e, !.retry = @ + 1]
    BY <2>1, <2>3, Updates
  <2>4. CASE rx' = [EndRx("TIMEOUT") EXCEPT !.errors = e, !.retry = @ + 1]
    <3> DEFINE r == EndRx("TIMEOUT")
    <3>1. /\ r \in RxType /\ r.done /\ r.result = "TIMEOUT" /\ r.dest = rx.dest
          /\ r.begun = rx.begun /\ r.packets = rx.packets
      BY <2>1, EndRxIs
    <3> HIDE DEF r
    <3>2. rx' = [r EXCEPT !.errors = e, !.retry = @ + 1]
      BY <2>4 DEF r
    <3> QED
      BY <2>1, <3>1, <3>2, Updates
  <2> QED
    BY <2>2, <2>3, <2>4 DEF RxError, e
<1>2. toTx' \in Seq(Replies) /\ Refuses(toTx, toTx')
  <2>1. \E b \in {<<"C">>, <<"CAN", "CAN">>, <<"C", "CAN", "CAN">>} : Reply(b)
    BY DEF RxError
  <2> QED
    BY <2>1, Refusal
<1>3. Acc' = Acc /\ Ended' = Ended
  BY <1>1 DEF Acc, Ended
<1>4. Types'
  BY <1>1, <1>2 DEF Types, FlashBlocks
<1>5. Receiving'
  BY <1>1, <1>3, FlashRests DEF Receiving, FlashBlocks, Blocks
<1>6. Sending' /\ Line(toRx', Acc', Ended', Blocks', Wrap')
  BY <1>2, <1>3, Still DEF Refuses
<1> QED
  BY <1>4, <1>5, <1>6

\* A packet with the right CRC.
LEMMA RxPacketStep ==
  ASSUME IInv, ~rx.done, toRx # <<>>, Head(toRx).type = "packet", RxPacket(Head(toRx)),
         toRx' = Tail(toRx), tx' = tx, conf' = conf
  PROVE  IInv'
<1> USE DEF IInv
<1> DEFINE p == Head(toRx)
<1>1. /\ Blocks \in Nat \ {0} /\ FlashBlocks \in Nat /\ Wrap \in Nat \ {0, 1} /\ Acc \in Nat
      /\ Ended \in BOOLEAN /\ rx.packets \in Nat /\ rx.dest \in Nat
  BY Sizes
<1>2. p \in Packets /\ Fits(p, Acc, Ended, Blocks, Wrap)
  BY <1>1, TailLine
<1>3. p.type = "packet" /\ Whole(p) /\ p.data \in Nat /\ Key(p, Blocks) = p.data
  BY <1>2 DEF Packets, EOT, Damaged, Whole, Key
<1>4. \/ /\ ~Ended /\ p.data \in 0 .. Blocks /\ p.data \in {Acc - 1, Acc}
         /\ p.number = p.data % Wrap
      \/ p.data = Blocks + 1 /\ Acc = Blocks + 1 /\ Ended
  BY <1>2, <1>3 DEF Fits
<1>5. /\ FlashBlocks' = FlashBlocks /\ Blocks' = Blocks /\ Wrap' = Wrap /\ Capacity' = Capacity
  BY DEF FlashBlocks, Blocks, Wrap, Capacity
<1> HIDE DEF p
<1>6. CASE RxWrong
  <2>1. /\ rx' \in RxType /\ rx'.dest = rx.dest /\ rx'.begun = rx.begun
        /\ rx'.packets = rx.packets /\ rx'.done = rx.done /\ flash' = flash
    BY <1>6 DEF RxWrong, Types, RxType
  <2>2. toTx' \in Seq(Replies) /\ Refuses(toTx, toTx')
    BY <1>6, Refusal DEF RxWrong
  <2>3. Acc' = Acc /\ Ended' = Ended
    BY <2>1 DEF Acc, Ended
  <2>4. Types'
    BY <1>5, <2>1, <2>2 DEF Types
  <2>5. Receiving'
    BY <1>5, <2>1, <2>3, FlashRests DEF Receiving
  <2>6. Sending' /\ Line(toRx', Acc', Ended', Blocks', Wrap')
    BY <2>2, <2>3, Still DEF Refuses
  <2> QED
    BY <2>4, <2>5, <2>6
<1>7. CASE p.number = rx.packets % Wrap /\ rx.packets > 0 /\ RxData(p)
  <2>1. ~Ended /\ rx.packets = Acc
    BY <1>7 DEF Receiving, Ended
  <2>2. p.data = Acc /\ Acc \in 1 .. Blocks
    <3>1. CASE p.data = Acc - 1
      <4>1. Acc - 1 \in Nat /\ (Acc - 1) + 1 = Acc
        BY <1>1, <1>3, <3>1
      <4>2. (Acc - 1) % Wrap # Acc % Wrap
        BY <1>1, <4>1, NumbersDiffer
      <4> QED
        BY <1>4, <1>7, <2>1, <3>1, <4>2
    <3> QED
      BY <1>1, <1>4, <1>7, <2>1, <3>1
  <2>3. rx.begun /\ Acc = rx.dest + 1
    BY <1>1, <2>2 DEF Acc
  <2>4. CASE rx.dest < FlashBlocks
             /\ flash' = [flash EXCEPT ![rx.dest] = IF @ = Erased THEN p.data ELSE Mixed]
             /\ rx' = Accepted([rx EXCEPT !.dest = @ + 1]) /\ Reply(<<"ACK">>)
    <3>1. /\ rx' \in RxType /\ rx'.dest = rx.dest + 1 /\ rx'.begun
          /\ rx'.packets = rx.packets + 1 /\ ~rx'.done
      <4> DEFINE r == [rx EXCEPT !.dest = @ + 1]
      <4>0. rx \in RxType /\ ~rx.done
        BY DEF Types
      <4>1. r \in RxType /\ r.dest = rx.dest + 1 /\ r.packets = rx.packets /\ ~r.done
        BY <4>0, Updates
      <4> HIDE DEF r
      <4>2. rx' = Accepted(r)
        BY <2>4 DEF r
      <4> QED
        BY <4>1, <4>2, AcceptedIs
    <3>2. Acc' = Acc + 1 /\ ~Ended'
      BY <1>1, <2>3, <3>1 DEF Acc, Ended
    <3>3. toTx' \in Seq(Replies) /\ (NoAck(toTx) => OneAck(toTx'))
      BY <2>4, Acknowledgement
    <3>4. rx.dest \in 0 .. FlashBlocks - 1 /\ p.data = rx.dest + 1
      BY <1>1, <2>2, <2>3, <2>4
    <3> DEFINE x == IF flash[rx.dest] = Erased THEN rx.dest + 1 ELSE Mixed
    <3>50. /\ flash \in [0 .. FlashBlocks - 1 -> Nat] /\ flash' = [flash EXCEPT ![rx.dest] = x]
           /\ x \in Nat
      BY <1>1, <2>4, <3>4 DEF Types, Mixed
    <3>51. /\ flash' \in [0 .. FlashBlocks - 1 -> Nat] /\ flash'[rx.dest] = x
           /\ \A i \in 0 .. FlashBlocks - 1 : i # rx.dest => flash'[i] = flash[i]
      BY <3>4, <3>50
    <3>52. x = rx.dest + 1 \/ (EraseFails /\ x = Mixed)
      BY <1>1, <2>3, <3>4 DEF Receiving, Blank
    <3> HIDE DEF x
    <3>5. Types'
      BY <1>5, <3>1, <3>3, <3>51 DEF Types
    <3>60. EraseFails' = EraseFails /\ Mixed' = Mixed /\ Erased' = Erased
      BY DEF EraseFails, Mixed, Erased, Blocks
    <3>6. WritesInOrder'
      <4>1. \A i \in 0 .. rx.dest - 1 : flash[i] = i + 1 \/ (EraseFails /\ flash[i] = Mixed)
        BY DEF Receiving, WritesInOrder
      <4>2. ASSUME NEW i \in 0 .. rx.dest
            PROVE  flash'[i] = i + 1 \/ (EraseFails /\ flash'[i] = Mixed)
        <5>1. i \in 0 .. FlashBlocks - 1 /\ (i # rx.dest => i \in 0 .. rx.dest - 1)
          BY <1>1, <3>4
        <5> QED
          BY <3>51, <3>52, <4>1, <5>1
      <4>3. rx'.dest - 1 = rx.dest
        BY <1>1, <3>1
      <4> QED
        BY <3>60, <4>2, <4>3 DEF WritesInOrder
    <3>61. Blank'
      <4>1. ASSUME ~EraseFails, NEW i \in 0 .. FlashBlocks - 1, i >= rx.dest + 1
            PROVE  flash'[i] = Erased
        <5>1. i # rx.dest /\ i >= rx.dest
          BY <1>1, <4>1
        <5>2. flash[i] = Erased
          BY <2>3, <4>1, <5>1 DEF Receiving, Blank
        <5> QED
          BY <3>51, <5>1, <5>2
      <4> QED
        BY <1>5, <3>1, <3>60, <4>1 DEF Blank
    <3>7. Receiving'
      BY <1>1, <1>5, <2>1, <2>2, <2>3, <2>4, <3>1, <3>2, <3>6, <3>61 DEF Receiving
    <3>8. Acc \in 0 .. Blocks /\ Whole(Head(toRx)) /\ Key(Head(toRx), Blocks) = Acc
      BY <1>1, <1>3, <2>2 DEF p
    <3>9. Sending' /\ Line(toRx', Acc', Ended', Blocks', Wrap')
      BY <2>1, <3>2, <3>3, <3>8, Accepts
    <3> QED
      BY <3>5, <3>7, <3>9
  <2>5. CASE rx' = Accepted(EndRx("DATA")) /\ Reply(<<"CAN", "CAN">>) /\ flash' = flash
    <3>1. /\ rx' \in RxType /\ rx'.dest = rx.dest /\ rx'.begun
          /\ rx'.packets = rx.packets + 1 /\ rx'.done /\ rx'.result = "DATA"
      <4>1. EndRx("DATA") \in RxType /\ EndRx("DATA").done /\ EndRx("DATA").result = "DATA"
            /\ EndRx("DATA").packets = rx.packets /\ EndRx("DATA").dest = rx.dest
        BY EndRxIs DEF Types
      <4> QED
        BY <2>5, <4>1, AcceptedIs
    <3>2. Acc' = Acc /\ Ended' = Ended
      BY <1>1, <2>1, <2>3, <3>1 DEF Acc, Ended
    <3>3. toTx' \in Seq(Replies) /\ Refuses(toTx, toTx')
      BY <2>5, Refusal
    <3>4. Types'
      BY <1>5, <2>5, <3>1, <3>3 DEF Types
    <3>5. Receiving'
      BY <1>5, <2>1, <2>3, <2>5, <3>1, <3>2, FlashRests DEF Receiving
    <3>6. Sending' /\ Line(toRx', Acc', Ended', Blocks', Wrap')
      BY <3>2, <3>3, Still DEF Refuses
    <3> QED
      BY <3>4, <3>5, <3>6
  <2> QED
    BY <1>7, <2>4, <2>5 DEF RxData
<1>8. CASE /\ rx.packets = 0 /\ p.data # Empty
           /\ \E s \in IF p.data = Header THEN {Blocks} ELSE 0 .. Blocks : RxHeader(s)
  <2>1. ~Ended
    BY <1>4, <1>8 DEF Empty
  <2>2. Acc = 0 /\ p.data = 0 /\ rx.dest = 0 /\ ~rx.begun
    BY <1>1, <1>4, <1>8, <2>1 DEF Receiving, Ended, Acc
  <2>3. RxHeader(Blocks)
    BY <1>8, <2>2 DEF Header
  <2>4. /\ rx' \in RxType /\ rx'.dest = 0 /\ rx'.begun /\ rx'.packets = 1
        /\ rx'.done => rx'.result = "LIMIT"
    <3>1. rx \in RxType /\ rx.packets = 0 /\ ~rx.done
      BY <1>8 DEF Types
    <3>2. CASE rx' = Accepted([rx EXCEPT !.filesize = Blocks])
      <4> DEFINE r == [rx EXCEPT !.filesize = Blocks]
      <4>1. r \in RxType /\ r.dest = 0 /\ r.packets = 0 /\ ~r.done
        BY <1>1, <2>2, <3>1 DEF RxType
      <4> HIDE DEF r
      <4>2. rx' = Accepted(r)
        BY <3>2 DEF r
      <4>3. rx'.packets = 0 + 1
        BY <4>1, <4>2, AcceptedIs
      <4> QED
        BY <4>1, <4>2, <4>3, AcceptedIs
    <3>3. CASE rx' = Accepted([EndRx("LIMIT") EXCEPT !.filesize = Blocks])
      <4> DEFINE e == EndRx("LIMIT")
                 r == [e EXCEPT !.filesize = Blocks]
      <4>1. e \in RxType /\ e.result = "LIMIT" /\ e.packets = 0 /\ e.dest = 0
        BY <2>2, <3>1, EndRxIs
      <4> HIDE DEF e
      <4>2. r \in RxType /\ r.dest = 0 /\ r.packets = 0 /\ r.result = "LIMIT"
        BY <1>1, <4>1 DEF RxType
      <4> HIDE DEF r
      <4>3. rx' = Accepted(r)
        BY <3>3 DEF e, r
      <4>4. rx'.packets = 0 + 1
        BY <4>2, <4>3, AcceptedIs
      <4> QED
        BY <4>2, <4>3, <4>4, AcceptedIs
    <3> QED
      BY <2>3, <3>2, <3>3 DEF RxHeader
  <2>5. toTx' \in Seq(Replies) /\ (NoAck(toTx) => OneAck(toTx'))
    BY <2>3, Acknowledgement DEF RxHeader
  <2>60. PICK n \in 0 .. Capacity :
           /\ n < Capacity => EraseFails
           /\ flash' = [i \in DOMAIN flash |-> IF i < n THEN Erased ELSE flash[i]]
    BY <2>3 DEF RxHeader, ErasePartition
  <2>61. flash \in [0 .. FlashBlocks - 1 -> Nat] /\ Erased \in Nat /\ Capacity \in Nat
    BY <1>1 DEF Types, Erased, Capacity, Confsets
  <2>6. flash' \in [0 .. FlashBlocks - 1 -> Nat]
    BY <2>60, <2>61
  <2>62. Blank'
    <3>1. EraseFails' = EraseFails /\ Erased' = Erased
      BY DEF EraseFails, Erased, Blocks
    <3>2. ASSUME ~EraseFails, NEW i \in 0 .. FlashBlocks - 1 PROVE flash'[i] = Erased
      <4>1. n = Capacity
        BY <2>60, <2>61, <3>2
      <4>2. i >= Capacity => flash[i] = Erased
        BY <1>1, <2>2, <3>2 DEF Receiving, Blank
      <4>3. flash'[i] = IF i < n THEN Erased ELSE flash[i]
        BY <2>60, <2>61
      <4> QED
        BY <1>1, <2>61, <4>1, <4>2, <4>3
    <3> QED
      BY <1>5, <3>1, <3>2 DEF Blank
  <2>7. Acc' = Acc + 1 /\ ~Ended'
    BY <2>2, <2>4 DEF Acc, Ended
  <2>8. Types'
    BY <1>5, <2>4, <2>5, <2>6 DEF Types
  <2>9. Receiving'
    BY <1>1, <1>5, <2>2, <2>4, <2>62, <2>7 DEF Receiving, WritesInOrder
  <2>10. Acc \in 0 .. Blocks /\ Whole(Head(toRx)) /\ Key(Head(toRx), Blocks) = Acc
    BY <1>1, <1>3, <2>2 DEF p
  <2>11. Sending' /\ Line(toRx', Acc', Ended', Blocks', Wrap')
    BY <2>1, <2>5, <2>7, <2>10, Accepts
  <2> QED
    BY <2>8, <2>9, <2>11
<1>9. CASE rx.packets = 0 /\ p.data # Header /\ RxEmpty
  <2>1. Ended /\ Acc = Blocks + 1
    BY <1>1, <1>4, <1>9 DEF Receiving, Ended, Acc, Header
  <2>2. /\ rx' \in RxType /\ rx'.dest = rx.dest /\ rx'.begun = rx.begun
        /\ rx'.packets = rx.packets /\ rx'.done /\ flash' = flash
    <3>1. rx \in RxType
      BY DEF Types
    <3>2. rx' = [EndRx("OK") EXCEPT !.errors = 0] /\ flash' = flash
      BY <1>9 DEF RxEmpty
    <3>3. EndRx("OK") \in RxType
      BY <3>1, EndRxIs
    <3> DEFINE e == EndRx("OK")
    <3>4. e.dest = rx.dest /\ e.begun = rx.begun /\ e.packets = rx.packets /\ e.done
      BY <3>1, EndRxIs
    <3> HIDE DEF e
    <3> QED
      BY <3>2, <3>3, <3>4 DEF e, RxType
  <2>3. toTx' \in Seq(Replies)
    BY <1>9, Acknowledgement DEF RxEmpty
  <2>4. Acc' = Acc /\ Ended' = Ended
    BY <2>2 DEF Acc, Ended
  <2>5. rx.dest = Blocks
    BY <1>1, <2>1 DEF Acc, Ended
  <2>6. Types'
    BY <1>5, <2>2, <2>3 DEF Types
  <2>7. Receiving'
    BY <1>5, <2>1, <2>2, <2>4, <2>5, FlashRests DEF Receiving
  <2>8. Sending' /\ Line(toRx', Acc', Ended', Blocks', Wrap')
    BY <2>1, <2>4, Still
  <2> QED
    BY <2>6, <2>7, <2>8
<1> QED
  BY <1>6, <1>7, <1>8, <1>9 DEF RxPacket, p

LEMMA RxStepInv ==
  ASSUME IInv, RxStep
  PROVE  IInv'
<1> USE DEF IInv
<1> DEFINE p == Head(toRx)
<1>1. ~rx.done /\ toRx # <<>> /\ toRx' = Tail(toRx) /\ tx' = tx /\ conf' = conf
  BY DEF RxStep
<1>2. p \in Packets /\ Fits(p, Acc, Ended, Blocks, Wrap)
  BY <1>1, Sizes, TailLine
<1>3. p.type # "garbled"
  BY <1>2 DEF Packets, EOT, Damaged
<1>4. CASE p.type = "packet" /\ RxPacket(p)
  BY <1>1, <1>4, RxPacketStep
<1>5. CASE p.type = "damaged" /\ RxError /\ flash' = flash
  BY <1>1, <1>5, RxErrorStep
<1>6. CASE p.type = "eot" /\ RxEot
  <2>1. rx \in RxType
    BY DEF Types
  <2>2. Acc = Blocks + 1
    BY <1>2, <1>6 DEF Fits
  <2>3. rx' = [rx EXCEPT !.errors = 0, !.packets = 0] /\ flash' = flash
    BY <1>6 DEF RxEot
  <2>4. /\ rx' \in RxType /\ rx'.dest = rx.dest /\ rx'.begun = rx.begun /\ rx'.packets = 0
        /\ rx'.done = rx.done
    BY <2>1, <2>3 DEF RxType
  <2>5. Blocks \in Nat /\ rx.begun
    BY <2>2, Sizes DEF Acc
  <2>6. Acc' = Acc /\ Ended'
    BY <2>4, <2>5 DEF Acc, Ended
  <2>7. toTx' \in Seq(Replies)
    BY <1>6, Acknowledgement DEF RxEot
  <2>8. Types'
    BY <1>1, <2>3, <2>4, <2>7 DEF Types, FlashBlocks
  <2>9. Receiving'
    BY <1>1, <2>2, <2>3, <2>4, <2>5, <2>6, FlashRests DEF Receiving, FlashBlocks, Blocks
  <2>10. Sending' /\ Line(toRx', Acc', Ended', Blocks', Wrap')
    BY <1>1, <1>6, <2>6, Ends
  <2> QED
    BY <2>8, <2>9, <2>10
<1> QED
  BY <1>3, <1>4, <1>5, <1>6 DEF RxStep

(* No start byte is garbled. *)
LEMMA NoCan ==
  ASSUME IInv, RxCan
  PROVE  FALSE
<1>1. toRx # <<>>
  BY DEF RxCan
<1>2. Head(toRx) \in Packets
  BY <1>1, Sizes, TailLine DEF IInv
<1> QED
  BY <1>2 DEF RxCan, Packets, EOT, Damaged

LEMMA RxTimeoutInv ==
  ASSUME IInv, RxTimeout
  PROVE  IInv'
BY RxErrorStep DEF RxTimeout

-----------------------------------------------------------------------------
(* The sender.                                                             *)

\* A step of the sender leaves the receiver alone.
LEMMA RxRests ==
  ASSUME IInv, rx' = rx, flash' = flash, conf' = conf,
         tx' \in TxType, toTx' \in Seq(Replies)
  PROVE  /\ Types' /\ Receiving' /\ Acc' = Acc /\ Ended' = Ended
         /\ Blocks' = Blocks /\ Wrap' = Wrap
<1>1. Acc' = Acc /\ Ended' = Ended /\ Blocks' = Blocks /\ Wrap' = Wrap /\ FlashBlocks' = FlashBlocks
  BY DEF Acc, Ended, Blocks, Wrap, FlashBlocks
<1>2. Types'
  BY <1>1 DEF IInv, Types
<1>3. Receiving'
  BY <1>1, FlashRests DEF IInv, Receiving
<1> QED
  BY <1>1, <1>2, <1>3

\* Where the sender is in the file.
Place == IF tx.phase = "header" THEN 0 ELSE IF tx.phase = "data" THEN tx.blk ELSE Blocks + 1

LEMMA PacketFits ==
  ASSUME IInv, tx.phase # "done"
  PROVE  /\ PacketOf(tx) \in Packets /\ Fits(PacketOf(tx), Acc, Ended, Blocks, Wrap)
         /\ Whole(PacketOf(tx)) /\ Key(PacketOf(tx), Blocks) = Place
         /\ Place \in Nat /\ Behind(toRx, Place, Blocks)
<1> DEFINE p == PacketOf(tx)
<1>1. /\ Blocks \in Nat \ {0} /\ Wrap \in Nat \ {0, 1} /\ Acc \in Nat /\ Ended \in BOOLEAN
  BY Sizes DEF IInv
<1>2. tx \in TxType /\ Sending
  BY DEF IInv, Types
<1>3. CASE tx.phase = "header"
  <2>1. p = [type |-> "packet", number |-> 0, data |-> 0]
    BY <1>3 DEF PacketOf, Header
  <2>2. Waits(0)
    BY <1>2, <1>3 DEF Sending
  <2>3. 0 % Wrap = 0
    BY <1>1
  <2> QED
    BY <1>1, <1>3, <2>1, <2>2, <2>3 DEF Waits, Packets, Fits, Whole, Key, Place
<1>4. CASE tx.phase = "data"
  <2>1. tx.blk \in 1 .. Blocks /\ tx.left = Blocks - tx.blk + 1 /\ Waits(tx.blk)
    BY <1>2, <1>4 DEF Sending
  <2>2. Blocks - tx.left + 1 = tx.blk
    BY <1>1, <2>1
  <2>3. p = [type |-> "packet", number |-> tx.blk % Wrap, data |-> tx.blk]
    BY <1>4, <2>2 DEF PacketOf
  <2>4. tx.blk % Wrap \in Nat
    BY <1>1, <2>1
  <2> QED
    BY <1>1, <1>4, <2>1, <2>3, <2>4 DEF Waits, Packets, Fits, Whole, Key, Place
<1>5. CASE tx.phase \in {"eot", "end"}
  <2>1. Acc = Blocks + 1 /\ (tx.phase = "end" => Ended)
    BY <1>2, <1>5 DEF Sending
  <2>2. Behind(toRx, Blocks + 1, Blocks)
    BY <1>1 DEF IInv, Line, Fits, Behind, Key, Whole
  <2>3. /\ tx.phase = "eot" => p = [type |-> "eot"]
        /\ tx.phase = "end" => p = [type |-> "packet", number |-> 0, data |-> Blocks + 1]
    BY <1>5 DEF PacketOf, EOT, Empty
  <2> QED
    BY <1>1, <1>5, <2>1, <2>2, <2>3 DEF Packets, EOT, Fits, Whole, Key, Place
<1> QED
  BY <1>2, <1>3, <1>4, <1>5 DEF TxType

LEMMA TxSendInv ==
  ASSUME IInv, TxSend
  PROVE  IInv'
<1> DEFINE p == PacketOf(tx)
<1>1. /\ tx.phase # "done" /\ Send(p) /\ tx' = [tx EXCEPT !.place = "reply"]
      /\ rx' = rx /\ flash' = flash /\ toTx' = toTx /\ conf' = conf
  BY DEF TxSend
<1>2. /\ tx' \in TxType /\ tx'.phase = tx.phase /\ tx'.left = tx.left /\ tx'.blk = tx.blk
      /\ tx'.result = tx.result /\ tx.blk \in Nat
  BY <1>1 DEF IInv, Types, TxType
<1>3. toTx' \in Seq(Replies)
  BY <1>1 DEF IInv, Types
<1>4. /\ Types' /\ Receiving' /\ Acc' = Acc /\ Ended' = Ended /\ Blocks' = Blocks /\ Wrap' = Wrap
  BY <1>1, <1>2, <1>3, RxRests
<1>5. /\ p \in Packets /\ Fits(p, Acc, Ended, Blocks, Wrap) /\ Whole(p)
      /\ Key(p, Blocks) = Place /\ Place \in Nat /\ Behind(toRx, Place, Blocks)
  BY <1>1, PacketFits
<1>6. Blocks \in Nat /\ Line(toRx, Acc, Ended, Blocks, Wrap)
  BY Sizes DEF IInv
<1>7. toRx' = toRx \/ toRx' = Append(toRx, p) \/ toRx' = Append(toRx, Damaged)
  <2>1. GarbledBytes = 0 /\ 1 .. 0 = {}
    BY DEF IInv, Types, GarbledBytes
  <2> QED
    BY <1>1, <2>1 DEF Send
<1>8. Line(toRx', Acc, Ended, Blocks, Wrap) /\ Behind(toRx', Place, Blocks)
  <2>1. CASE toRx' = Append(toRx, p)
    BY <1>5, <1>6, <2>1, AppendLine
  <2>2. CASE toRx' = Append(toRx, Damaged)
    <3>1. Damaged \in Packets /\ Fits(Damaged, Acc, Ended, Blocks, Wrap) /\ ~Whole(Damaged)
      BY DEF Packets, Damaged, Fits, Whole
    <3> QED
      BY <1>5, <1>6, <2>2, <3>1, AppendLine
  <2> QED
    BY <1>5, <1>6, <1>7, <2>1, <2>2
<1>9. tx.phase = "header" /\ Waits(0) => Waits(0)'
  BY <1>1, <1>4, <1>8 DEF Waits, Place
<1>10. tx.phase = "data" /\ Waits(tx.blk) => Waits(tx.blk)'
  BY <1>1, <1>2, <1>4, <1>8 DEF Waits, Place
<1>11. Sending'
  BY <1>1, <1>2, <1>4, <1>9, <1>10 DEF IInv, Sending
<1> QED
  BY <1>4, <1>8, <1>11 DEF IInv

LEMMA EndTxIs ==
  ASSUME NEW t \in TxType, NEW r \in {"OK", "ERROR", "LIMIT", "ABORT"}
  PROVE  EndTx(t, r) \in TxType /\ EndTx(t, r).phase = "done" /\ EndTx(t, r).result = r
BY DEF EndTx, TxType

\* The same packet again, or nothing more.
Same(t, u) ==
  /\ u \in TxType
  /\ \/ u.phase = t.phase /\ u.left = t.left /\ u.blk = t.blk /\ u.result = t.result
     \/ u.phase = "done" /\ u.result # "OK"

LEMMA AgainIs ==
  ASSUME NEW t \in TxType
  PROVE  Same(t, Again(t)) /\ Same(t, [t EXCEPT !.place = "cancel"])
BY DEF Again, Same, TxType

LEMMA TxErrorIs ==
  ASSUME NEW t \in TxType
  PROVE  Same(t, TxError(t))
<1> DEFINE a == Again(t)
           u == [a EXCEPT !.errors = @ + 1]
<1>1. a \in TxType /\ a.phase = t.phase /\ a.left = t.left /\ a.blk = t.blk /\ a.result = t.result
  BY DEF Again, TxType
<1> HIDE DEF a
<1>2. u \in TxType /\ u.phase = a.phase /\ u.left = a.left /\ u.blk = a.blk /\ u.result = a.result
  <2>1. a.errors + 1 \in Nat
    BY <1>1 DEF TxType
  <2> QED
    BY <1>1, <2>1 DEF TxType
<1> HIDE DEF u
<1>3. TxError(t) = IF u.errors >= MAX_ERRORS THEN EndTx(u, "ERROR") ELSE u
  BY DEF TxError, a, u
<1>4. EndTx(u, "ERROR") \in TxType /\ EndTx(u, "ERROR").phase = "done" /\ EndTx(u, "ERROR").result = "ERROR"
  BY <1>2, EndTxIs
<1> QED
  BY <1>1, <1>2, <1>3, <1>4 DEF Same

\* A step of the sender that does not move on in the file.
LEMMA StaysInPlace ==
  ASSUME IInv, rx' = rx, flash' = flash, conf' = conf, toRx' = toRx, Same(tx, tx'),
         toTx' \in Seq(Replies), Refuses(toTx, toTx')
  PROVE  IInv'
<1>1. /\ Types' /\ Receiving' /\ Acc' = Acc /\ Ended' = Ended /\ Blocks' = Blocks /\ Wrap' = Wrap
  BY RxRests DEF Same
<1>2. Line(toRx', Acc', Ended', Blocks', Wrap')
  BY <1>1 DEF IInv
<1>3. \A t : Waits(t) =>
        /\ ~Ended' /\ Behind(toRx', t, Blocks')
        /\ \/ Acc' = t /\ NoAck(toTx')
           \/ Acc' = t + 1 /\ OneAck(toTx')
  BY <1>1 DEF Waits, Refuses
<1>4. Waits(0) => Waits(0)'
  BY <1>3 DEF Waits
<1>5. tx'.blk = tx.blk /\ Waits(tx.blk) => Waits(tx.blk)'
  BY <1>3 DEF Waits
<1>6. Sending'
  <2>1. CASE tx'.phase = "done" /\ tx'.result # "OK"
    BY <2>1 DEF Sending
  <2>2. CASE tx'.phase = tx.phase /\ tx'.left = tx.left /\ tx'.blk = tx.blk /\ tx'.result = tx.result
    BY <1>1, <1>4, <1>5, <2>2 DEF IInv, Sending, Refuses
  <2> QED
    BY <2>1, <2>2 DEF Same
<1> QED
  BY <1>1, <1>2, <1>6 DEF IInv

\* The end of the sender with success, when the receiver has EOT.
LEMMA EndsWell ==
  ASSUME IInv, rx' = rx, flash' = flash, conf' = conf, toRx' = toRx,
         tx.phase = "end", tx' = EndTx(tx, "OK"), toTx' \in Seq(Replies)
  PROVE  IInv'
<1>1. tx' \in TxType /\ tx'.phase = "done"
  BY EndTxIs DEF IInv, Types
<1>2. /\ Types' /\ Receiving' /\ Acc' = Acc /\ Ended' = Ended /\ Blocks' = Blocks /\ Wrap' = Wrap
  BY <1>1, RxRests
<1>3. Acc = Blocks + 1
  BY DEF IInv, Sending
<1> QED
  BY <1>1, <1>2, <1>3 DEF IInv, Sending

LEMMA AgainKeeps ==
  ASSUME NEW t \in TxType
  PROVE  /\ Again(t) \in TxType /\ Again(t).phase = t.phase /\ Again(t).left = t.left
         /\ Again(t).blk = t.blk
BY DEF Again, TxType

LEMMA ToData ==
  ASSUME NEW t \in TxType, NEW u, u = [t EXCEPT !.phase = "data", !.errors = 0]
  PROVE  u \in TxType /\ u.phase = "data" /\ u.left = t.left /\ u.blk = t.blk
BY DEF TxType

LEMMA ToEot ==
  ASSUME NEW t \in TxType, NEW u, u = [t EXCEPT !.phase = "eot", !.left = 0, !.errors = 0]
  PROVE  u \in TxType /\ u.phase = "eot"
BY DEF TxType

LEMMA ToNext ==
  ASSUME NEW t \in TxType, t.left - 1 \in Nat,
         NEW u, u = [t EXCEPT !.left = @ - 1, !.blk = @ + 1, !.errors = 0]
  PROVE  u \in TxType /\ u.phase = t.phase /\ u.left = t.left - 1 /\ u.blk = t.blk + 1
<1>1. t.blk + 1 \in Nat
  BY DEF TxType
<1> QED
  BY <1>1 DEF TxType

LEMMA AckStep ==
  ASSUME IInv, rx' = rx, flash' = flash, conf' = conf, toRx' = toRx,
         tx.phase # "done", toTx # <<>>, Head(toTx) = "ACK", toTx' = Tail(toTx), tx' = TxAck(tx)
  PROVE  IInv'
<1>1. /\ toTx' \in Seq(Replies) /\ ~NoAck(toTx) /\ (OneAck(toTx) => NoAck(toTx'))
  BY TailAcks DEF IInv, Types
<1>2. tx \in TxType /\ Sending /\ Blocks \in Nat \ {0} /\ Acc \in Nat
  BY Sizes DEF IInv, Types
<1>3. ASSUME NEW t \in Nat, Waits(t)
      PROVE  Acc = t + 1 /\ NoAck(toTx') /\ ~Ended /\ Behind(toRx, t + 1, Blocks)
  <2>1. Acc = t + 1 /\ NoAck(toTx') /\ ~Ended /\ Behind(toRx, t, Blocks)
    BY <1>1, <1>3 DEF Waits
  <2>2. \A i \in DOMAIN toRx : Whole(toRx[i]) => Key(toRx[i], Blocks) \in Int
    BY <1>2 DEF IInv, Line, Fits, Whole, Key
  <2> QED
    BY <2>1, <2>2 DEF Behind
<1>4. ASSUME tx' \in TxType
      PROVE  /\ Types' /\ Receiving' /\ Acc' = Acc /\ Ended' = Ended /\ Blocks' = Blocks
             /\ Wrap' = Wrap /\ Line(toRx', Acc', Ended', Blocks', Wrap')
  <2>1. /\ Types' /\ Receiving' /\ Acc' = Acc /\ Ended' = Ended /\ Blocks' = Blocks /\ Wrap' = Wrap
    BY <1>1, <1>4, RxRests
  <2> QED
    BY <2>1 DEF IInv
<1>5. CASE tx.phase = "header"
  <2>1. tx' = [Again(tx) EXCEPT !.phase = "data", !.errors = 0]
    BY <1>5 DEF TxAck
  <2>2. tx' \in TxType /\ tx'.phase = "data" /\ tx'.left = Blocks /\ tx'.blk = 1 /\ Waits(0)
    <3> DEFINE a == Again(tx)
    <3>1. a \in TxType /\ a.left = tx.left /\ a.blk = tx.blk
      BY <1>2, AgainKeeps
    <3>2. tx.left = Blocks /\ tx.blk = 1 /\ Waits(0)
      BY <1>2, <1>5 DEF Sending
    <3> HIDE DEF a
    <3>3. tx' = [a EXCEPT !.phase = "data", !.errors = 0]
      BY <2>1 DEF a
    <3> QED
      BY <3>1, <3>2, <3>3, ToData
  <2>3. Acc = 1 /\ NoAck(toTx') /\ ~Ended /\ Behind(toRx, 1, Blocks)
    BY <1>3, <2>2
  <2> QED
    BY <1>2, <1>4, <2>2, <2>3 DEF IInv, Sending, Waits
<1>6. CASE tx.phase = "data"
  <2>1. tx.blk \in 1 .. Blocks /\ tx.left = Blocks - tx.blk + 1 /\ Waits(tx.blk)
    BY <1>2, <1>6 DEF Sending
  <2>2. Acc = tx.blk + 1 /\ NoAck(toTx') /\ ~Ended /\ Behind(toRx, tx.blk + 1, Blocks)
    <3>1. tx.blk \in Nat
      BY <1>2, <2>1
    <3> QED
      BY <1>3, <2>1, <3>1
  <2>3. CASE tx.left = 1
    <3>1. tx' = [Again(tx) EXCEPT !.phase = "eot", !.left = 0, !.errors = 0]
      BY <1>6, <2>3 DEF TxAck
    <3>2. tx' \in TxType /\ tx'.phase = "eot"
      <4> DEFINE a == Again(tx)
      <4>1. a \in TxType
        BY <1>2, AgainKeeps
      <4> HIDE DEF a
      <4>2. tx' = [a EXCEPT !.phase = "eot", !.left = 0, !.errors = 0]
        BY <3>1 DEF a
      <4> QED
        BY <4>1, <4>2, ToEot
    <3>3. Acc = Blocks + 1
      BY <1>2, <2>1, <2>2, <2>3
    <3> QED
      BY <1>4, <2>2, <3>2, <3>3 DEF IInv, Sending
  <2>4. CASE tx.left # 1 /\ ~(tx.blk > Blocks + 1)
    <3>1. tx' = [Again(tx) EXCEPT !.left = @ - 1, !.blk = @ + 1, !.errors = 0]
      BY <1>6, <2>4 DEF TxAck
    <3> DEFINE a == Again(tx)
    <3>2. a \in TxType /\ a.phase = "data" /\ a.left = tx.left /\ a.blk = tx.blk
      BY <1>2, <1>6 DEF Again, TxType
    <3> HIDE DEF a
    <3>3. a.left - 1 \in Nat /\ a.blk + 1 \in Nat /\ tx.blk + 1 \in 1 .. Blocks
          /\ a.left - 1 = Blocks - (tx.blk + 1) + 1
      BY <1>2, <2>1, <2>4, <3>2
    <3>4. tx' \in TxType /\ tx'.phase = "data" /\ tx'.left = a.left - 1 /\ tx'.blk = tx.blk + 1
      <4>1. tx' = [a EXCEPT !.left = @ - 1, !.blk = @ + 1, !.errors = 0]
        BY <3>1 DEF a
      <4> QED
        BY <3>2, <3>3, <4>1, ToNext
    <3> QED
      BY <1>4, <2>2, <3>3, <3>4 DEF IInv, Sending, Waits
  <2>5. CASE tx.left # 1 /\ tx.blk > Blocks + 1
    BY <1>2, <2>1, <2>5
  <2> QED
    BY <2>3, <2>4, <2>5
<1>7. CASE tx.phase = "eot"
  <2>1. tx' = [Again(tx) EXCEPT !.phase = "end"]
    BY <1>7 DEF TxAck
  <2>2. tx' \in TxType /\ tx'.phase = "end"
    BY <1>2, <2>1 DEF Again, TxType
  <2>3. Acc = Blocks + 1 /\ Ended
    BY <1>1, <1>2, <1>7 DEF Sending
  <2> QED
    BY <1>4, <2>2, <2>3 DEF IInv, Sending
<1>8. CASE tx.phase = "end"
  <2>1. tx' = EndTx(tx, "OK")
    BY <1>8 DEF TxAck
  <2> QED
    BY <1>1, <1>8, <2>1, EndsWell
<1> QED
  BY <1>2, <1>5, <1>6, <1>7, <1>8 DEF TxType

LEMMA TxReplyInv ==
  ASSUME IInv, TxReply
  PROVE  IInv'
<1> DEFINE c == Head(toTx)
<1>1. /\ tx.phase # "done" /\ toTx # <<>>
      /\ rx' = rx /\ flash' = flash /\ toRx' = toRx /\ conf' = conf
  BY DEF TxReply
<1>2. tx \in TxType /\ toTx \in Seq(Replies)
  BY DEF IInv, Types
<1>3. Tail(toTx) \in Seq(Replies) /\ Refuses(toTx, Tail(toTx))
  BY <1>1, <1>2, TailAcks DEF Refuses
<1>4. <<>> \in Seq(Replies) /\ Refuses(toTx, <<>>)
  BY DEF Refuses, NoAck, OneAck
<1>5. CASE c = "ACK" /\ tx' = TxAck(tx) /\ toTx' = Tail(toTx)
  BY <1>1, <1>5, AckStep
<1>6. CASE tx' = TxError(tx) /\ toTx' = Tail(toTx)
  BY <1>1, <1>2, <1>3, <1>6, TxErrorIs, StaysInPlace
<1>7. CASE (tx' = Again(tx) \/ tx' = [tx EXCEPT !.place = "cancel"]) /\ toTx' = Tail(toTx)
  BY <1>1, <1>2, <1>3, <1>7, AgainIs, StaysInPlace
<1>8. CASE tx.phase = "end" /\ tx' = EndTx(tx, "OK") /\ toTx' = Tail(toTx)
  BY <1>1, <1>3, <1>8, EndsWell
<1>9. CASE tx' = EndTx(tx, "ABORT") /\ toTx' = <<>>
  <2>1. Same(tx, tx')
    BY <1>2, <1>9, EndTxIs DEF Same
  <2> QED
    BY <1>1, <1>4, <1>9, <2>1, StaysInPlace
<1>10. \/ c = "ACK" /\ tx' = TxAck(tx) /\ toTx' = Tail(toTx)
       \/ tx' = TxError(tx) /\ toTx' = Tail(toTx)
       \/ (tx' = Again(tx) \/ tx' = [tx EXCEPT !.place = "cancel"]) /\ toTx' = Tail(toTx)
       \/ tx.phase = "end" /\ tx' = EndTx(tx, "OK") /\ toTx' = Tail(toTx)
       \/ tx' = EndTx(tx, "ABORT") /\ toTx' = <<>>
  <2>1. \/ c = "ACK" /\ tx' = TxAck(tx) /\ toTx' = Tail(toTx)
        \/ c # "ACK" /\ tx.phase = "data" /\ tx' = TxError(tx) /\ toTx' = Tail(toTx)
        \/ c \in {"NAK", "C"} /\ tx.phase \in {"header", "eot"}
             /\ tx' = Again(tx) /\ toTx' = Tail(toTx)
        \/ c \in {"NAK", "C"} /\ tx.phase = "end" /\ tx' = EndTx(tx, "OK") /\ toTx' = Tail(toTx)
        \/ c = "CAN" /\ tx.phase \in {"header", "eot"}
             /\ tx' = [tx EXCEPT !.place = "cancel"] /\ toTx' = Tail(toTx)
        \/ c = "CAN" /\ tx.phase = "end" /\ tx' = EndTx(tx, "ABORT") /\ toTx' = <<>>
    BY DEF TxReply
  <2> QED
    BY <2>1, Zenon
<1> QED
  BY <1>5, <1>6, <1>7, <1>8, <1>9, <1>10

LEMMA TxCancelInv ==
  ASSUME IInv, TxCancel
  PROVE  IInv'
<1>1. rx' = rx /\ flash' = flash /\ toRx' = toRx /\ conf' = conf
  BY DEF TxCancel
<1>2. tx \in TxType /\ toTx \in Seq(Replies)
  BY DEF IInv, Types
<1>3. Same(tx, tx')
  <2>1. tx' = Again(tx) \/ tx' = EndTx(tx, "ABORT")
    BY DEF TxCancel
  <2>2. Same(tx, EndTx(tx, "ABORT"))
    BY <1>2, EndTxIs DEF Same
  <2> QED
    BY <1>2, <2>1, <2>2, AgainIs
<1>4. toTx' \in Seq(Replies) /\ Refuses(toTx, toTx')
  <2>1. CASE toTx # <<>> /\ toTx' = Tail(toTx)
    BY <1>2, <2>1, TailAcks DEF Refuses
  <2>2. CASE toTx' = <<>>
    BY <2>2 DEF Refuses, NoAck, OneAck
  <2>3. CASE toTx' = toTx
    BY <1>2, <2>3 DEF Refuses
  <2> QED
    BY <2>1, <2>2, <2>3 DEF TxCancel
<1> QED
  BY <1>1, <1>3, <1>4, StaysInPlace

LEMMA TxTimeoutInv ==
  ASSUME IInv, TxTimeout
  PROVE  IInv'
<1>1. rx' = rx /\ flash' = flash /\ toRx' = toRx /\ conf' = conf /\ toTx' = toTx
  BY DEF TxTimeout
<1>2. tx \in TxType /\ toTx' \in Seq(Replies) /\ Refuses(toTx, toTx')
  BY <1>1 DEF IInv, Types, Refuses
<1>3. CASE tx.phase = "end" /\ tx' = EndTx(tx, "OK")
  BY <1>1, <1>2, <1>3, EndsWell
<1>4. CASE tx' = TxError(tx)
  BY <1>1, <1>2, <1>4, TxErrorIs, StaysInPlace
<1> QED
  BY <1>3, <1>4 DEF TxTimeout

-----------------------------------------------------------------------------

LEMMA YInit ==
  ASSUME Init
  PROVE  YInv
<1>1. conf \in Confs /\ conf \in Confsets
  BY YmodemAssumption DEF Init, YmodemAssumption, Confsets
<1>2. SUFFICES ASSUME GarbledBytes = 0 PROVE IInv
  BY <1>1 DEF YInv
<1>3. Blocks \in Nat \ {0} /\ FlashBlocks \in Nat /\ Capacity \in Nat /\ Previous \in Nat
  BY <1>1 DEF Confsets, Blocks, FlashBlocks, Capacity, Previous
<1>31. /\ flash = [i \in 0 .. FlashBlocks - 1 |-> IF i < Capacity THEN Old ELSE Erased]
       /\ flash \in [0 .. FlashBlocks - 1 -> Nat]
  BY <1>3 DEF Init, Old, Erased
<1>4. Types
  <2>1. conf.garbled = 0
    BY <1>2 DEF GarbledBytes
  <2>2. rx \in RxType
    BY <1>3 DEF Init, RxType
  <2>3. tx \in TxType
    BY <1>3 DEF Init, TxType
  <2>4. toTx \in Seq(Replies)
    BY DEF Init
  <2> QED
    BY <1>1, <1>31, <2>1, <2>2, <2>3, <2>4 DEF Types
<1>5. Acc = 0 /\ ~Ended
  BY DEF Init, Acc, Ended
<1>51. Blank
  BY <1>3, <1>31 DEF Init, Blank
<1>6. Receiving
  BY <1>3, <1>5, <1>51 DEF Init, Receiving, WritesInOrder
<1>7. Sending
  BY <1>5 DEF Init, Sending, Waits, Behind, NoAck
<1>8. Line(toRx, Acc, Ended, Blocks, Wrap)
  BY DEF Init, Line
<1> QED
  BY <1>4, <1>6, <1>7, <1>8 DEF IInv

LEMMA YStep ==
  ASSUME YInv, [Next]_vars
  PROVE  YInv'
<1>1. conf' = conf
  BY DEF Next, Receive, Transmit, vars, RxStep, RxCan, RxTimeout, TxSend, TxReply, TxCancel, TxTimeout
<1>2. SUFFICES ASSUME IInv PROVE IInv'
  BY <1>1 DEF YInv, GarbledBytes
<1>3. CASE UNCHANGED vars
  BY <1>2, <1>3 DEF vars, IInv, Types, Receiving, Sending, Waits, Acc, Ended, Blocks, Wrap,
                    FlashBlocks, WritesInOrder, Blank, EraseFails, Capacity, Erased, Mixed
<1> QED
  BY <1>2, <1>3, RxStepInv, NoCan, RxTimeoutInv, TxSendInv, TxReplyInv, TxCancelInv, TxTimeoutInv
  DEF Next, Receive, Transmit

(* Whatever is lost, damaged, late or sent again, the receiver writes the  *)
(* blocks in order, none twice and none left out, for every file and every *)
(* modulus of the numbers.                                                 *)
THEOREM AlwaysInOrder == Spec => [](GarbledBytes = 0 => WritesInOrder)
<1>1. YInv => (GarbledBytes = 0 => WritesInOrder)
  BY DEF YInv, IInv, Receiving
<1> QED
  BY <1>1, YInit, YStep, PTL DEF Spec

(* An end that reports success is right: all of the file is in the flash.  *)
THEOREM SuccessIsDelivery == Spec => []Delivered
<1>1. YInv => Delivered
  <2> SUFFICES ASSUME YInv, GarbledBytes = 0,
                      \/ tx.phase = "done" /\ tx.result = "OK"
                      \/ rx.done /\ rx.result = "OK"
               PROVE  rx.dest = Blocks /\ WritesInOrder
    BY DEF Delivered
  <2>1. IInv /\ Blocks \in Nat /\ rx.dest \in Nat
    BY Sizes DEF YInv, IInv
  <2>2. CASE rx.done /\ rx.result = "OK"
    BY <2>1, <2>2 DEF IInv, Receiving
  <2>3. CASE tx.phase = "done" /\ tx.result = "OK"
    BY <2>1, <2>3 DEF IInv, Receiving, Sending, Acc
  <2> QED
    BY <2>2, <2>3
<1> QED
  BY <1>1, YInit, YStep, PTL DEF Spec
=============================================================================
