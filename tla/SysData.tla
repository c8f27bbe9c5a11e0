------------------------------ MODULE SysData ------------------------------
(***************************************************************************)
(* The calibration of the antennas in flash: apps/common/src/sys_data.c    *)
(* and the command that writes it (apps/testmode/eol/ci_eol.c).            *)
(*                                                                         *)
(* One item, its value and a check code, kept in a sector of its own.  The *)
(* sector is erased only if the new item has a bit that the old one lacks, *)
(* and then the item is programmed; a reset may come before any bit.  The  *)
(* caller leaves the check code of the item it passes uninitialised, and   *)
(* the decision to erase looks at it (line 127).                           *)
(*                                                                         *)
(* A value is the set of its bits that are 1.  A check code is named by    *)
(* the value it fits; a code that is cut off, or programmed over another,  *)
(* fits no value unless it is the new one: what a CRC misses is left out.  *)
(***************************************************************************)
EXTENDS Integers

CONSTANTS
  CalibBits,  \* the bits of the value
  Given       \* the calibrations the production test writes

Calib == SUBSET CalibBits
Fits(c) == [kind |-> "fits", calib |-> c]
Blank == [kind |-> "blank"]    \* the erased code
Broken == [kind |-> "broken"]
Code == {Fits(c) : c \in Calib} \cup {Blank, Broken}

ASSUME SysDataAssumption == Given \subseteq Calib

VARIABLES
  item,     \* the item in flash
  set,      \* where sys_data_item_set is
  asked,    \* history: the values sys_data_item_set was called with
  done      \* history: its last call, if that was completed

sysVars == <<item, set, asked, done>>

ErasedItem == [calib |-> CalibBits, code |-> Blank]
NoSet == [at |-> "idle"]

SysInit == item = ErasedItem /\ set = NoSet /\ asked = {} /\ done = NoSet

-----------------------------------------------------------------------------

\* The value of the item if its check code fits; else ({}) the built-in one.
sys_data_item_get == IF item.code = Fits(item.calib) THEN {item.calib} ELSE {}

\* Whether an item of this value can be programmed over the old one without an
\* erase.  Its check code is whatever the stack holds.
byte_diff_check(c) ==
  IF ~(c \subseteq item.calib) THEN {FALSE}
  ELSE IF item.code = Blank THEN {TRUE} ELSE BOOLEAN

\* (fresh: no code is there, or the sector is erased)
sys_data_item_set ==
  \E c \in Given :
    /\ set = NoSet
    /\ asked' = asked \cup {c} /\ done' = NoSet
    /\ \E fits \in byte_diff_check(c) :
         set' = [at |-> IF fits THEN "calib" ELSE "erase", calib |-> c,
                 fresh |-> ~fits \/ item.code = Blank]
    /\ UNCHANGED item

\* Mutant: only the value is erased.
SectorErase_KeepsCode ==
  /\ set.at = "erase"
  /\ item' = [item EXCEPT !.calib = CalibBits]
  /\ set' = [set EXCEPT !.at = "calib"]
  /\ UNCHANGED <<asked, done>>

SectorErase ==
  /\ set.at = "erase"
  /\ item' = ErasedItem
  /\ set' = [set EXCEPT !.at = "calib"]
  /\ UNCHANGED <<asked, done>>

\* Bits of the value are cleared one by one.
ProgramCalib ==
  /\ set.at = "calib"
  /\ \E b \in item.calib \ set.calib : item' = [item EXCEPT !.calib = @ \ {b}]
  /\ UNCHANGED <<set, asked, done>>

\* Then those of the code: the first of them,
ProgramSome ==
  /\ set.at = "calib" /\ item.calib \subseteq set.calib
  /\ item.code # Fits(set.calib)
  /\ item' = [item EXCEPT !.code = Broken]
  /\ set' = [set EXCEPT !.at = IF item.code = Blank THEN "code" ELSE "over"]
  /\ UNCHANGED <<asked, done>>

\* and all that are left: over a blank code that gives the code.
Programmed ==
  /\ \/ set.at \in {"code", "over"}
     \/ set.at = "calib" /\ item.calib \subseteq set.calib /\ item.code = Fits(set.calib)
  /\ \E code \in {Fits(set.calib)} \cup (IF set.at = "over" THEN {Broken} ELSE {}) :
       item' = [item EXCEPT !.code = code]
  /\ set' = NoSet /\ done' = set
  /\ UNCHANGED asked

SysReset == set' = NoSet /\ UNCHANGED <<item, asked, done>>

SysStep == sys_data_item_set \/ SectorErase \/ ProgramCalib \/ ProgramSome \/ Programmed

-----------------------------------------------------------------------------
(* Correctness.                                                            *)

\* The radar is calibrated with the built-in value or one that the production
\* test wrote, wherever a write was cut off.  After a write that was completed
\* it is the one of that write; only if the sector was not erased for it, with
\* another code there, it may be the built-in one (sys_data_item_set).
CalibrationTrue ==
  /\ sys_data_item_get \subseteq asked
  /\ done # NoSet =>
       \/ sys_data_item_get = {done.calib}
       \/ ~done.fresh /\ sys_data_item_get = {}
=============================================================================
