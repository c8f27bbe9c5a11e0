----------------------------- MODULE MC_Ymodem -----------------------------
EXTENDS Ymodem

(* Losses, damage, early timeouts and flash errors; packet numbers wrap    *)
(* within the file.                                                        *)
Losses ==
  [blocks |-> 4, capacity |-> 5, flash |-> 6, wrap |-> 3, faults |-> 3, garbled |-> 0, prev |-> 0,
   flashfails |-> TRUE, erasefails |-> FALSE, prompt |-> FALSE]

(* Damaged start bytes, for a file with fewer packets than numbers,        *)
(* which is larger than the partition.                                     *)
Noise ==
  [blocks |-> 3, capacity |-> 2, flash |-> 4, wrap |-> 5, faults |-> 2, garbled |-> 2, prev |-> 0,
   flashfails |-> FALSE, erasefails |-> FALSE, prompt |-> FALSE]

(* The file before was too large, and this one is refused. *)
Refused ==
  [blocks |-> 2, capacity |-> 3, flash |-> 3, wrap |-> 3, faults |-> 2, garbled |-> 0, prev |-> 4,
   flashfails |-> FALSE, erasefails |-> FALSE, prompt |-> FALSE]

(* No losses: early timeouts and errors of flash and erase; and answers in *)
(* time, after a file that filled the partition, with two wraps of the     *)
(* packet number.                                                          *)
Late ==
  [blocks |-> 2, capacity |-> 3, flash |-> 3, wrap |-> 3, faults |-> 0, garbled |-> 0, prev |-> 0,
   flashfails |-> TRUE, erasefails |-> TRUE, prompt |-> FALSE]
Clean ==
  [blocks |-> 12, capacity |-> 12, flash |-> 12, wrap |-> 5, faults |-> 0, garbled |-> 0, prev |-> 12,
   flashfails |-> FALSE, erasefails |-> FALSE, prompt |-> TRUE]

MCConfs == {Losses, Noise, Refused, Late, Clean}

=============================================================================
