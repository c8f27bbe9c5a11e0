------------------------------ MODULE Mailbox ------------------------------
(***************************************************************************)
(* What the message service of the SDK promises to the modules that use    *)
(* it, without queues, ids or a loop: a message that is posted becomes     *)
(* pending, posting a pending message again changes nothing, and one       *)
(* handler at a time takes pending messages out.  A message may be posted  *)
(* again while its own handler runs: it is then pending once more.         *)
(***************************************************************************)

CONSTANTS Msgs,     \* the message objects
          NoMsg     \* no message is being handled

VARIABLES pending,  \* messages posted and not yet taken
          running   \* the message taken, or NoMsg

vars == <<pending, running>>

TypeOK == /\ pending \subseteq Msgs
          /\ running \in Msgs \cup {NoMsg}

Init == pending = {} /\ running = NoMsg

Post(m) == /\ pending' = pending \cup {m}
           /\ UNCHANGED running

Take(m) == /\ running = NoMsg
           /\ m \in pending
           /\ pending' = pending \ {m}
           /\ running' = m

Done == /\ running # NoMsg
        /\ running' = NoMsg
        /\ UNCHANGED pending

Next == \/ \E m \in Msgs : Post(m) \/ Take(m)
        \/ Done

Spec == Init /\ [][Next]_vars

(* Whoever serves the mailbox does not stop while something is pending. *)
Service == WF_vars(\E m \in Msgs : Take(m)) /\ WF_vars(Done)

FairSpec == Spec /\ Service
=============================================================================
