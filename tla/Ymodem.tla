------------------------------- MODULE Ymodem -------------------------------
(***************************************************************************)
(* utils/ymodem/ymodem.c: the transfer of a file, Ymodem_Receive (rx,      *)
(* which writes it to the download partition of the flash) and             *)
(* Ymodem_Transmit (tx), each waiting for the other over two byte streams. *)
(*                                                                         *)
(* toRx carries whole packets (start byte, number, data, CRC) and EOT      *)
(* bytes, toTx reply bytes.  A fault loses a reply, or damages a packet on *)
(* its way; what ReceivePacket makes of a damaged packet depends on where  *)
(* the damage is.  Data is in packets: a packet is one block of the file,  *)
(* sizes and flash addresses count blocks.                                 *)
(*                                                                         *)
(* A timeout strikes only an end that finds nothing in its fifo, but the   *)
(* other end may be about to answer (an erase of the flash takes longer    *)
(* than NAK_TIMEOUT) unless Prompt.                                        *)
(***************************************************************************)
EXTENDS Naturals, Sequences, FiniteSets

CONSTANTS MAX_ERRORS, RETRY_TIMES_MAX,
          Confs   \* the transfers considered

ASSUME YmodemAssumption ==
  /\ MAX_ERRORS \in Nat \ {0} /\ RETRY_TIMES_MAX \in Nat \ {0}
  /\ Confs \subseteq [blocks : Nat \ {0}, capacity : Nat \ {0}, flash : Nat,
                      wrap : Nat \ {0, 1}, faults : Nat, garbled : Nat, prev : Nat,
                      flashfails : BOOLEAN, erasefails : BOOLEAN, prompt : BOOLEAN]
  /\ \A c \in Confs : c.flash >= c.capacity

VARIABLES rx,      \* Ymodem_Receive's variables
          flash,   \* the flash from part_offset on
          tx,      \* Ymodem_Transmit's variables
          toRx, toTx,
          faults,  \* faults so far
          conf     \* the transfer considered, which never changes

vars == <<rx, flash, tx, toRx, toTx, faults, conf>>

Blocks == conf.blocks            \* length of the file
Capacity == conf.capacity        \* part_capacity
FlashBlocks == conf.flash        \* blocks from part_offset to the end of the flash
Wrap == conf.wrap                \* packet numbers are sent modulo this: 256
Faults == conf.faults            \* bound on the faults in a behaviour
GarbledBytes == conf.garbled     \* a fault may hit the start byte of a packet; then
                                 \* at most so many of its bytes are read as such
Previous == conf.prev            \* *recv_filesize: 0, or the size the download before
                                 \* left in ymodem_recv_entry's recv_size
FlashFails == conf.flashfails    \* flash_if_program may fail
EraseFails == conf.erasefails    \* flash_if_erase may fail
Prompt == conf.prompt            \* an answer always comes before the timeout

(* The data of a packet: the header with the file's name and size, the     *)
(* empty header that ends the session, or a block of the file.             *)
Header == 0
Empty == Blocks + 1
Erased == Blocks + 2
Old == Blocks + 3                \* what an earlier download left
Mixed == Blocks + 4              \* what programming without an erase makes of two

EOT == [type |-> "eot"]
Damaged == [type |-> "damaged"]
Garbled == [type |-> "garbled"]

Init ==
  /\ conf \in Confs
  /\ rx = [done |-> FALSE, result |-> "OK", packets |-> 0, errors |-> 0,
           begun |-> FALSE, retry |-> 0, dest |-> 0, filesize |-> Previous]
  /\ flash = [i \in 0 .. FlashBlocks - 1 |-> IF i < Capacity THEN Old ELSE Erased]
  /\ tx = [phase |-> "header", result |-> "OK", place |-> "send", left |-> Blocks,
           blk |-> 1, errors |-> 0]
  /\ toRx = <<>> /\ toTx = <<>> /\ faults = 0

-----------------------------------------------------------------------------
(* The byte streams.                                                       *)

Fault == faults < Faults /\ faults' = faults + 1

(* uart_if_send_byte, once for each byte of a reply; any may be lost. *)
Reply(bytes) ==
  \/ toTx' = toTx \o bytes /\ UNCHANGED faults
  \/ Fault /\ \E i \in DOMAIN bytes :
       toTx' = toTx \o SubSeq(bytes, 1, i - 1) \o SubSeq(bytes, i + 1, Len(bytes))

(* What may become of a packet p: lost, or damaged within; if it is the    *)
(* start byte, the data that follow are taken for start bytes.             *)
Send(p) ==
  \/ toRx' = Append(toRx, p) /\ UNCHANGED faults
  \/ Fault /\ UNCHANGED toRx
  \/ Fault /\ toRx' = Append(toRx, Damaged)
  \/ Fault /\ p # EOT /\ \E n \in 1 .. GarbledBytes :
       toRx' = toRx \o [k \in 1 .. n |-> Garbled]

(* An end that waits finds its fifo empty for as long as it waits. *)
Silence(stream) ==
  /\ stream = <<>>
  /\ Prompt => toRx = <<>> /\ toTx = <<>> /\ (tx.phase = "done" \/ tx.place # "send")

-----------------------------------------------------------------------------
(* Ymodem_Receive.                                                         *)

EndRx(r) == [rx EXCEPT !.done = TRUE, !.result = r]

(* switch (ReceivePacket(...)): default: *)
RxError ==
  LET e == IF rx.begun THEN rx.errors + 1 ELSE rx.errors IN
  \/ /\ e > MAX_ERRORS
     /\ rx' = [EndRx("LIMIT") EXCEPT !.errors = e]
     /\ Reply(<<"CAN", "CAN">>)
  \/ /\ e <= MAX_ERRORS /\ rx.retry + 1 < RETRY_TIMES_MAX
     /\ rx' = [rx EXCEPT !.errors = e, !.retry = @ + 1]
     /\ Reply(<<"C">>)
  \/ /\ e <= MAX_ERRORS /\ rx.retry + 1 >= RETRY_TIMES_MAX
     /\ rx' = [EndRx("TIMEOUT") EXCEPT !.errors = e, !.retry = @ + 1]
     /\ Reply(<<"C", "CAN", "CAN">>)

(* case STATUS_BUSY: an abort byte. *)
RxAbort ==
  /\ rx' = EndRx("ABORT")
  /\ Reply(<<"CAN", "CAN">>)
  /\ UNCHANGED flash

(* case 2: two CAN, the abort of the sender. *)
RxCancelled ==
  /\ rx' = [EndRx("ABORT") EXCEPT !.errors = 0]
  /\ Reply(<<"ACK">>)
  /\ UNCHANGED flash

(* case 0: end of transmission; the next file begins with packet 0. *)
RxEot ==
  /\ rx' = [rx EXCEPT !.errors = 0, !.packets = 0]
  /\ Reply(<<"ACK">>)
  /\ UNCHANGED flash

Accepted(r) == [r EXCEPT !.errors = 0, !.packets = @ + 1, !.begun = TRUE]

(* flash_if_erase, and how far it came: its result is not looked at.       *)
ErasePartition ==
  \E n \in 0 .. Capacity :
    /\ n < Capacity => EraseFails
    /\ flash' = [i \in DOMAIN flash |-> IF i < n THEN Erased ELSE flash[i]]

(* The first packet of a file names it.  The test of its size looks at     *)
(* *recv_filesize, the size of the previous file.  Nothing sets            *)
(* flashdestination back.                                                  *)
RxHeader(size) ==
  /\ ErasePartition
  /\ \/ /\ rx.filesize <= Capacity
        /\ rx' = Accepted([rx EXCEPT !.filesize = size])
        /\ Reply(<<"ACK", "C">>)
     \/ /\ rx.filesize > Capacity
        /\ rx' = Accepted([EndRx("LIMIT") EXCEPT !.filesize = size])
        /\ Reply(<<"CAN", "ACK", "C">>)

(* Mutant: a packet with the wrong number is acknowledged. *)
RxWrong_Ack ==
  /\ rx' = [rx EXCEPT !.errors = 0]
  /\ Reply(<<"ACK">>)
  /\ UNCHANGED flash

RxWrong ==
  /\ rx' = [rx EXCEPT !.errors = 0]
  /\ Reply(<<"NAK">>)
  /\ UNCHANGED flash

RxEmpty ==
  /\ rx' = [EndRx("OK") EXCEPT !.errors = 0]
  /\ Reply(<<"ACK">>)
  /\ UNCHANGED flash

RxData(p) ==
  \/ /\ rx.dest < FlashBlocks
     /\ flash' = [flash EXCEPT ![rx.dest] = IF @ = Erased THEN p.data ELSE Mixed]
     /\ rx' = Accepted([rx EXCEPT !.dest = @ + 1])
     /\ Reply(<<"ACK">>)
  \/ /\ FlashFails \/ rx.dest = FlashBlocks
     /\ rx' = Accepted(EndRx("DATA"))
     /\ Reply(<<"CAN", "CAN">>)
     /\ UNCHANGED flash

(* Mutant: the number of a packet is not looked at. *)
RxPacket_NoNumber(p) ==
  \/ rx.packets > 0 /\ RxData(p)
  \/ rx.packets = 0 /\ p.data = Header /\ RxHeader(Blocks)
  \/ rx.packets = 0 /\ p.data # Header /\ RxEmpty

(* A packet with the right CRC.  Data in place of a header is a name or    *)
(* not, as its first byte has it.                                          *)
RxPacket(p) ==
  \/ p.number # rx.packets % Wrap /\ RxWrong
  \/ /\ p.number = rx.packets % Wrap
     /\ \/ rx.packets > 0 /\ RxData(p)
        \/ rx.packets = 0 /\ p.data # Empty
             /\ \E s \in IF p.data = Header THEN {Blocks} ELSE 0 .. Blocks : RxHeader(s)
        \/ rx.packets = 0 /\ p.data # Header /\ RxEmpty

(* ReceivePacket, and what Ymodem_Receive does with what it returns.  A    *)
(* byte of a garbled packet may be noise, EOT or an abort.                 *)
RxStep ==
  /\ ~rx.done /\ toRx # <<>>
  /\ LET p == Head(toRx) IN
     \/ p.type = "packet" /\ RxPacket(p)
     \/ p.type \in {"eot", "garbled"} /\ RxEot
     \/ p.type \in {"damaged", "garbled"} /\ RxError /\ UNCHANGED flash
     \/ p.type = "garbled" /\ RxAbort
  /\ toRx' = Tail(toRx)
  /\ UNCHANGED <<tx, conf>>

(* case CAN of ReceivePacket, when another byte follows: the two of them    *)
(* end the transfer, or are an error.  If it was the start byte of a packet *)
(* the rest of that is taken for start bytes.                               *)
RxCan ==
  /\ ~rx.done /\ Len(toRx) > 1 /\ Head(toRx).type = "garbled"
  /\ \/ toRx[2].type = "garbled" /\ RxCancelled
     \/ RxError /\ UNCHANGED flash
  /\ \E n \in IF toRx[2].type \in {"packet", "damaged"} THEN 0 .. GarbledBytes ELSE {0} :
       toRx' = [k \in 1 .. n |-> Garbled] \o SubSeq(toRx, 3, Len(toRx))
  /\ UNCHANGED <<tx, conf>>

(* Mutant: the time spent waiting is not counted. *)
RxTimeout_Never ==
  /\ ~rx.done /\ Silence(toRx)
  /\ UNCHANGED vars

RxTimeout ==
  /\ ~rx.done /\ Silence(toRx)
  /\ RxError
  /\ UNCHANGED <<flash, tx, toRx, conf>>

-----------------------------------------------------------------------------
(* Ymodem_Transmit.                                                        *)

(* The packet of the phase; the first one is sent again as it is. *)
PacketOf(t) ==
  CASE t.phase = "header" -> [type |-> "packet", number |-> 0, data |-> Header]
    [] t.phase = "data" -> [type |-> "packet", number |-> t.blk % Wrap,
                            data |-> Blocks - t.left + 1]
    [] t.phase = "eot" -> EOT
    [] t.phase = "end" -> [type |-> "packet", number |-> 0, data |-> Empty]

TxSend ==
  /\ tx.phase # "done" /\ tx.place = "send"
  /\ Send(PacketOf(tx))
  /\ tx' = [tx EXCEPT !.place = "reply"]
  /\ UNCHANGED <<rx, flash, toTx, conf>>

EndTx(t, r) == [t EXCEPT !.phase = "done", !.result = r]
Again(t) == [t EXCEPT !.place = "send"]

(* errors++, and the test at the end of each of the loops. *)
TxError(t) ==
  LET u == [Again(t) EXCEPT !.errors = @ + 1]
  IN IF u.errors >= MAX_ERRORS THEN EndTx(u, "ERROR") ELSE u

(* Mutant: the block number is not advanced. *)
TxAck_SameNumber(t) ==
  CASE t.phase = "header" -> [Again(t) EXCEPT !.phase = "data", !.errors = 0]
    [] t.phase = "data" ->
         IF t.left = 1 THEN [Again(t) EXCEPT !.phase = "eot", !.left = 0, !.errors = 0]
         ELSE [Again(t) EXCEPT !.left = @ - 1, !.errors = 0]
    [] t.phase = "eot" -> [Again(t) EXCEPT !.phase = "end"]
    [] t.phase = "end" -> EndTx(t, "OK")

TxAck(t) ==
  CASE t.phase = "header" -> [Again(t) EXCEPT !.phase = "data", !.errors = 0]
    [] t.phase = "data" ->
         IF t.left = 1 THEN [Again(t) EXCEPT !.phase = "eot", !.left = 0, !.errors = 0]
         ELSE IF t.blk > Blocks + 1 THEN EndTx([t EXCEPT !.left = @ - 1], "LIMIT")
         ELSE [Again(t) EXCEPT !.left = @ - 1, !.blk = @ + 1, !.errors = 0]
    [] t.phase = "eot" -> [Again(t) EXCEPT !.phase = "end"]
    [] t.phase = "end" -> EndTx(t, "OK")

(* A reply.  Only for a block of data does a wrong one count as an error;  *)
(* the header and EOT are sent again.                                      *)
TxReply ==
  /\ tx.phase # "done" /\ tx.place = "reply" /\ toTx # <<>>
  /\ LET c == Head(toTx) IN
     \/ c = "ACK" /\ tx' = TxAck(tx) /\ toTx' = Tail(toTx)
     \/ c # "ACK" /\ tx.phase = "data" /\ tx' = TxError(tx) /\ toTx' = Tail(toTx)
     \/ c \in {"NAK", "C"} /\ tx.phase \in {"header", "eot"}
          /\ tx' = Again(tx) /\ toTx' = Tail(toTx)
     \/ c \in {"NAK", "C"} /\ tx.phase = "end" /\ tx' = EndTx(tx, "OK") /\ toTx' = Tail(toTx)
     \/ c = "CAN" /\ tx.phase \in {"header", "eot"}
          /\ tx' = [tx EXCEPT !.place = "cancel"] /\ toTx' = Tail(toTx)
     \/ c = "CAN" /\ tx.phase = "end" /\ tx' = EndTx(tx, "ABORT") /\ toTx' = <<>>
  /\ UNCHANGED <<rx, flash, toRx, faults, conf>>

(* The second CAN; anything else, or nothing, is ignored. *)
TxCancel ==
  /\ tx.phase # "done" /\ tx.place = "cancel"
  /\ \/ /\ toTx # <<>> /\ Head(toTx) = "CAN"
        /\ tx' = EndTx(tx, "ABORT") /\ toTx' = <<>>
     \/ /\ toTx # <<>> /\ Head(toTx) # "CAN"
        /\ tx' = Again(tx) /\ toTx' = Tail(toTx)
     \/ /\ Silence(toTx)
        /\ tx' = Again(tx) /\ UNCHANGED toTx
  /\ UNCHANGED <<rx, flash, toRx, faults, conf>>

TxTimeout ==
  /\ tx.phase # "done" /\ tx.place = "reply" /\ Silence(toTx)
  /\ tx' = IF tx.phase = "end" THEN EndTx(tx, "OK") ELSE TxError(tx)
  /\ UNCHANGED <<rx, flash, toRx, toTx, faults, conf>>

-----------------------------------------------------------------------------
Receive == RxStep \/ RxCan \/ RxTimeout
Transmit == TxSend \/ TxReply \/ TxCancel \/ TxTimeout
Next == Receive \/ Transmit

Spec == Init /\ [][Next]_vars
FairSpec == Spec /\ WF_vars(Receive) /\ WF_vars(Transmit)

-----------------------------------------------------------------------------
BothOK == /\ rx.done /\ rx.result = "OK"
          /\ tx.phase = "done" /\ tx.result = "OK"

(* The receiver writes the blocks of the file in order, none twice and     *)
(* none left out, whatever is lost, damaged, garbled, sent again or late   *)
(* (garbled: as long as no packet number comes twice in the file).  Where  *)
(* an erase failed, what was there spoils them.                            *)
WritesInOrder ==
  \A i \in 0 .. rx.dest - 1 : flash[i] = i + 1 \/ (EraseFails /\ flash[i] = Mixed)

(* If the sender says the file was sent the receiver has all of it, and    *)
(* so it has if the receiver says so.  (Noise that is read as EOT can make *)
(* both end early with success; so both do after a failed erase, with a    *)
(* spoilt file: flash_if_erase's result is lost.)                          *)
Delivered ==
  GarbledBytes = 0 =>
    ((tx.phase = "done" /\ tx.result = "OK") \/ (rx.done /\ rx.result = "OK")
       => rx.dest = Blocks /\ WritesInOrder)

(* Without losses both ends come to an end, with early timeouts, flash     *)
(* errors and an end that gave up.                                         *)
Terminates == Faults = 0 => <>(rx.done /\ tx.phase = "done")

(* Without losses, and with answers in time, the file is transferred,      *)
(* unless the one before was too large: the next one is refused for it.    *)
Succeeds == (Faults = 0 /\ Prompt /\ ~FlashFails /\ Blocks <= Capacity /\ Previous <= Capacity)
              => <>[](BothOK /\ rx.dest = Blocks)
=============================================================================
