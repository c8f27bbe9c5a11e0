---------------------------- MODULE MC_Detection ----------------------------
(* Settings: two parameters (of the three), two levels; "app" is the APP   *)
(* task, "sys" the SYS task with the commands of the command interface.    *)
(* Light: without and with the dimmed period, requests for ever, blinking. *)
EXTENDS Detection, TLC

MCFieldOrder == <<"delta", "sen">>
MCParas == 0 :> ("delta" :> 1 @@ "sen" :> 1) @@ 1 :> ("delta" :> 2 @@ "sen" :> 2)

Conf(d, b, f) == [dim |-> d, blinks |-> b, forever |-> f]

MCConfs == {Conf(FALSE, FALSE, FALSE), Conf(TRUE, FALSE, FALSE),
            Conf(TRUE, FALSE, TRUE), Conf(TRUE, TRUE, FALSE)}
=============================================================================
