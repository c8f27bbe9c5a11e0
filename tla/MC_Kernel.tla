----------------------------- MODULE MC_Kernel -----------------------------
EXTENDS Kernel

MCTask == {"hi", "mid", "lo", "idle"}
MCMutex == {"m"}

Call(op, obj, wait) == [op |-> op, obj |-> obj, wait |-> wait]
Recv(wait) == Call("recv", "q", wait)
Send(wait) == Call("send", "q", wait)
Take(wait) == Call("take", "m", wait)
Give == Call("give", "m", 0)
Delay(ticks) == Call("delay", "none", ticks)

Conf(isr, notified, later, hi, mid, lo) ==
  [prio |-> "hi" :> 3 @@ "mid" :> 2 @@ "lo" :> 1 @@ "idle" :> 0,
   isr |-> isr, notified |-> notified, later |-> later,
   calls |-> "hi" :> hi @@ "mid" :> mid @@ "lo" :> lo @@ "idle" :> {}]

(* An interrupt fills a queue that two tasks read, one with a timeout. *)
Readers == Conf({"send"}, {}, {}, {Recv(2)}, {Recv(MAX_DELAY)}, {Send(0), Delay(1)})
(* An interrupt empties a queue that two tasks write. *)
Writers == Conf({"recv"}, {}, {}, {Send(2), Delay(1)}, {Send(MAX_DELAY)}, {Recv(0)})
(* A mutex under three tasks, then with a wait that may end. *)
Locks == Conf({}, {}, {}, {Take(MAX_DELAY), Give, Delay(1)}, {Take(MAX_DELAY), Give, Delay(2)},
              {Take(0), Give, Delay(1)})
Timed == Conf({}, {}, {}, {Take(2), Give, Delay(1)}, {Delay(2), Delay(0)}, {Take(0), Give})
(* A task that is made, notified and deletes itself (ci_dld, init). *)
Tasks == Conf({"send"}, {"hi", "mid"}, {"hi"},
              {Call("ntake", "none", 1), Call("delete", "none", 0)},
              {Call("ntake", "none", MAX_DELAY), Call("create", "hi", 0),
               Call("ngive", "hi", 0)},
              {Recv(1), Call("ntake", "none", 0), Call("ngive", "mid", 0)})
MCConfs == {Readers, Writers, Locks, Timed, Tasks}

(* Three tasks of which two may be out of time for the mutex. *)
Late == {Conf({}, {}, {}, {Take(0), Give, Delay(1)}, {Take(1), Delay(1)}, {Take(0), Give})}
=============================================================================
