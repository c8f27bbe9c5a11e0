---------------------------- MODULE BoundedQueue ----------------------------
(* What a fifo promises: a bounded sequence.  out is the answer to the     *)
(* last call: ret, what the C function returns, and val, the items it      *)
(* hands out.                                                              *)
EXTENDS Integers, Sequences

CONSTANTS Item, Capacity
VARIABLES q, out

vars == <<q, out>>

Answer(r, v) == out' = [ret |-> r, val |-> v]

Init == q = <<>> /\ out = [ret |-> 0, val |-> <<>>]

Put(i) ==
  \/ Len(q) < Capacity /\ q' = Append(q, i) /\ Answer(0, <<>>)
  \/ Len(q) = Capacity /\ Answer(-1, <<>>) /\ UNCHANGED q

(* As many of the items as there is room for. *)
PutMany(is) ==
  LET room == Capacity - Len(q)
      n == IF Len(is) > room THEN room ELSE Len(is)
  IN q' = q \o SubSeq(is, 1, n) /\ Answer(n, <<>>)

Get ==
  \/ q # <<>> /\ q' = Tail(q) /\ Answer(0, <<Head(q)>>)
  \/ q = <<>> /\ Answer(-1, <<>>) /\ UNCHANGED q

Used == Answer(Len(q), <<>>) /\ UNCHANGED q

Clear == q' = <<>> /\ Answer(0, <<>>)

Next == \/ \E i \in Item : Put(i)
        \/ \E n \in 0 .. Capacity + 1 : \E is \in [1 .. n -> Item] : PutMany(is)
        \/ Get \/ Used \/ Clear

Spec == Init /\ [][Next]_vars
=============================================================================
