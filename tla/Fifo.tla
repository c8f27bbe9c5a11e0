-------------------------------- MODULE Fifo --------------------------------
(***************************************************************************)
(* utils/fifo/fifo.c: the ring buffer between an interrupt that enqueues   *)
(* and the code that dequeues.  Each function is one critical section      *)
(* (fifo_enqueue_n_s16 computes how many items fit before it, which is the *)
(* same for its one caller, an interrupt handler), so it is one step, and  *)
(* the calls of all contexts come in any order.                            *)
(*                                                                         *)
(* read and write are never reset: they wrap at the width of an u32 and    *)
(* are reduced modulo item_cnt at each use.  The memory is kept in units   *)
(* of the width fifo_enqueue_n_s16 writes (16 bits), so an item of 32 bits *)
(* is two of them; in a fifo of bytes the unit is the byte.                *)
(***************************************************************************)
EXTENDS Integers, Sequences

CONSTANTS Unit,       \* the values of one unit of memory
          item_cnt,   \* items that fit in the buffer
          ItemUnits,  \* units of one item: 1, or 2 for FIFO_WIDTH_32BITS
          Batch,      \* longest batch given to fifo_enqueue_n_s16
          IndexMod    \* the indices are counted modulo this: 2^32 in the code

ASSUME FifoAssumption ==
  /\ 0 \in Unit
  /\ item_cnt \in Nat \ {0} /\ IndexMod \in Nat \ {0}
  /\ ItemUnits \in {1, 2} /\ Batch \in Nat

VARIABLES buf,          \* item_buf
          read, write,  \* indices, modulo IndexMod
          used,
          out           \* the answer to the last call

vars == <<buf, read, write, used, out>>

(* The item a value becomes: fifo_enqueue widens it. *)
ItemOf(v) == IF ItemUnits = 1 THEN <<v>> ELSE <<v, 0>>

Answer(r, v) == out' = [ret |-> r, val |-> v]

(* fifo_init on a buffer of zeros. *)
Init ==
  /\ buf = [i \in 0 .. item_cnt * ItemUnits - 1 |-> 0]
  /\ read = 0 /\ write = 0 /\ used = 0
  /\ out = [ret |-> 0, val |-> <<>>]

(* The first unit of the item with this index. *)
Place(index) == (index % item_cnt) * ItemUnits

ItemAt(index) ==
  [u \in 1 .. ItemUnits |-> buf[Place(index) + u - 1]]

fifo_enqueue(v) ==
  IF used = item_cnt THEN Answer(-1, <<>>) /\ UNCHANGED <<buf, read, write, used>>
  ELSE /\ buf' = [i \in DOMAIN buf |->
                    IF i - Place(write) \in 0 .. ItemUnits - 1
                    THEN ItemOf(v)[i - Place(write) + 1] ELSE buf[i]]
       /\ write' = (write + 1) % IndexMod
       /\ used' = used + 1
       /\ Answer(0, <<>>)
       /\ UNCHANGED read

(* Value k of the batch goes to unit (write + k - 1) % item_cnt, whatever  *)
(* the width of the items.                                                 *)
fifo_enqueue_n_s16(vals) ==
  LET room == item_cnt - used
      n == IF Len(vals) > room THEN room ELSE Len(vals)
      unit(k) == ((write + k - 1) % IndexMod) % item_cnt
      writers(i) == {k \in 1 .. n : unit(k) = i}
  IN /\ buf' = [i \in DOMAIN buf |->
                  IF writers(i) = {} THEN buf[i]
                  ELSE vals[CHOOSE k \in writers(i) : \A j \in writers(i) : j <= k]]
     /\ write' = (write + n) % IndexMod
     /\ used' = used + n
     /\ Answer(n, <<>>)
     /\ UNCHANGED read

fifo_dequeue ==
  IF used = 0 THEN Answer(-1, <<>>) /\ UNCHANGED <<buf, read, write, used>>
  ELSE /\ Answer(0, <<ItemAt(read)>>)
       /\ read' = (read + 1) % IndexMod
       /\ used' = used - 1
       /\ UNCHANGED <<buf, write>>

fifo_get_used == Answer(used, <<>>) /\ UNCHANGED <<buf, read, write, used>>

(* Mutant: the items are cleared and the read index is left where it was. *)
fifo_clear_KeepRead ==
  /\ used' = 0 /\ Answer(0, <<>>)
  /\ UNCHANGED <<buf, read, write>>

(* The items are read and set to zero one by one. *)
fifo_clear ==
  /\ buf' = [i \in DOMAIN buf |->
               IF \E k \in 0 .. used - 1 :
                    i - Place((read + k) % IndexMod) \in 0 .. ItemUnits - 1
               THEN 0 ELSE buf[i]]
  /\ read' = (read + used) % IndexMod
  /\ used' = 0
  /\ Answer(0, <<>>)
  /\ UNCHANGED write

(* fifo_init of a buffer that nobody else uses; Download has its stores one *)
(* by one. *)
fifo_init ==
  /\ read' = 0 /\ write' = 0 /\ used' = 0
  /\ Answer(0, <<>>)
  /\ UNCHANGED buf

Next == \/ \E v \in Unit : fifo_enqueue(v)
        \/ \E n \in 1 .. Batch : \E vals \in [1 .. n -> Unit] : fifo_enqueue_n_s16(vals)
        \/ fifo_dequeue \/ fifo_get_used \/ fifo_clear \/ fifo_init

Spec == Init /\ [][Next]_vars

-----------------------------------------------------------------------------
(* What is in the ring buffer: the items from read on.                      *)
Content == [k \in 1 .. used |-> ItemAt((read + k - 1) % IndexMod)]
=============================================================================
