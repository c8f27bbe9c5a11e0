----------------------------- MODULE MC_CiPort -----------------------------
(* A small buffer: with 7 bytes a frame with two parameters just fits, one *)
(* whose length byte is 7 (the value of the head, too) is cut off.         *)
EXTENDS CiPort

MCByte == {0, 1, 2, 7}

Conf == [os |-> TRUE, port |-> "uart", idleintr |-> TRUE, crowded |-> FALSE,
         patient |-> FALSE, slow |-> TRUE]

(* The RTOS build and the one without, any host; a host that waits for its *)
(* answer; one that sends on without a pause; and the I2C port.            *)
MCConfs == {Conf,
            [Conf EXCEPT !.os = FALSE],
            [Conf EXCEPT !.patient = TRUE, !.slow = FALSE],
            [Conf EXCEPT !.idleintr = FALSE, !.slow = FALSE],
            [Conf EXCEPT !.port = "i2c"]}

(* Other messages may fill the SYS queue. *)
MCCrowded == {[Conf EXCEPT !.idleintr = FALSE, !.crowded = TRUE]}
=============================================================================
