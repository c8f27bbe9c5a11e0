------------------------------- MODULE CiPort -------------------------------
(***************************************************************************)
(* utils/ci/src/ci_port.c and ci_main.c: the receiver of the command       *)
(* interface.  The receive interrupt assembles a frame in the one buffer   *)
(* of m_ci_ctxt, byte by byte, and posts it; the SYS task (the main loop   *)
(* in a build without an RTOS) parses it, runs its command and resets the  *)
(* receiver; so does the callback of the 20 ms receive timeout.            *)
(*                                                                         *)
(* ci_port_reset is three stores and no critical section: an interrupt     *)
(* may fall between any two of them.  Main code runs one step at a time:   *)
(* the timer task has the highest priority, and without an RTOS callbacks  *)
(* and handlers run in turn in k_msg_loop.                                 *)
(*                                                                         *)
(* Of rx_buf only the bytes that steer the receiver are kept, the frame    *)
(* head rx_buf[0] and the length rx_buf[2].  Timer commands take effect at *)
(* once.  The CFG_OTA diversion of the bytes to a fifo, and rx_mod DATA,   *)
(* which no code selects, are left out.                                    *)
(***************************************************************************)
EXTENDS Naturals

CONSTANTS Byte,         \* the byte values that occur
          Heads,        \* CI_CTRL_FRM_HEAD, CI_RESP_FRM_HEAD
          RxBufMax,     \* CI_RX_BUF_MAX
          SysQueueLen,  \* length of the SYS task's queue
          Confs         \* the builds and surroundings considered

ASSUME CiPortAssumption ==
  /\ Byte \subseteq 0 .. 255 /\ 0 \in Byte
  /\ Heads \subseteq Byte /\ 0 \notin Heads
  /\ RxBufMax \in Nat /\ RxBufMax > 0
  /\ SysQueueLen \in Nat /\ SysQueueLen > 0
  /\ Confs \subseteq [os : BOOLEAN, port : {"uart", "i2c"}, idleintr : BOOLEAN,
                      crowded : BOOLEAN, patient : BOOLEAN, slow : BOOLEAN]

VARIABLES ctx,       \* m_ci_ctxt
          pending,   \* frame messages posted and not taken
          proc,      \* main code's place in ci_rx_buf_proc
          tproc,     \* the place in the timeout's expiry handling
          armed,     \* tm_timeout is running
          due,       \* it expired and its message is queued (no RTOS)
          rxon,      \* i2c: rx_enable
          conf       \* the build and its surroundings, which never change

Os == conf.os              \* CFG_OS: frames go to the SYS task's queue, timers
                           \* are timers of the RTOS
Port == conf.port          \* PARA_CI_PORT
IdleIntr == conf.idleintr  \* the UART raises the receive idle interrupt
Crowded == conf.crowded    \* other messages may fill the SYS task's queue
Patient == conf.patient    \* the host sends nothing until its frame is done with
Slow == conf.slow          \* the host may pause for 20 ms within a frame

vars == <<ctx, pending, proc, tproc, armed, due, rxon, conf>>

States == {"HEAD", "CMD", "PARA_LEN", "PARA", "CHECK_CODE"}
ResetPlaces == {"state", "ready", "idx"}   \* the next store of ci_port_reset

CiTypeOK ==
  /\ ctx \in [state : States, rx_idx : 0 .. RxBufMax, para_len : 0 .. 255,
              is_ready : BOOLEAN, head : Byte, len : Byte]
  /\ pending \in 0 .. SysQueueLen
  /\ proc \in {"idle", "parse", "cmd"} \cup ResetPlaces
  /\ tproc \in {"idle", "stop"} \cup ResetPlaces
  /\ armed \in BOOLEAN /\ due \in BOOLEAN /\ rxon \in BOOLEAN
  /\ conf \in Confs

Init ==
  /\ ctx = [state |-> "HEAD", rx_idx |-> 0, para_len |-> 0, is_ready |-> FALSE,
            head |-> 0, len |-> 0]
  /\ pending = 0 /\ proc = "idle" /\ tproc = "idle"
  /\ armed = FALSE /\ due = FALSE /\ rxon = TRUE
  /\ conf \in Confs

-----------------------------------------------------------------------------
(* What ci_port_rx_hdl makes of the context c and a byte b.                *)

Reset(c) == [c EXCEPT !.state = "HEAD", !.is_ready = FALSE, !.rx_idx = 0]

(* rx_buf[rx_idx++] = b *)
Store(c, b) == [c EXCEPT !.rx_idx = @ + 1,
                         !.head = IF c.rx_idx = 0 THEN b ELSE @,
                         !.len = IF c.rx_idx = 2 THEN b ELSE @]

RxHead(c, b) == IF b \in Heads THEN [Store(c, b) EXCEPT !.state = "CMD"] ELSE c

RxCmd(c, b) == [Store(c, b) EXCEPT !.state = "PARA_LEN"]

RxParaLen(c, b) ==
  [Store(c, b) EXCEPT !.state = IF b # 0 THEN "PARA" ELSE "CHECK_CODE",
                      !.para_len = b]

(* Mutant: the length is compared with one byte too many. *)
RxPara_OffByOne(c, b) ==
  LET s == Store(c, b)
  IN IF s.rx_idx >= s.para_len + 2
     THEN [s EXCEPT !.state = "CHECK_CODE", !.para_len = 0]
     ELSE s

RxPara(c, b) ==
  LET s == Store(c, b)
  IN IF s.rx_idx >= s.para_len + 3
     THEN [s EXCEPT !.state = "CHECK_CODE", !.para_len = 0]
     ELSE s

(* The second byte of the check code completes the frame. *)
RxCheckCode(c, b) ==
  LET s == [Store(c, b) EXCEPT !.para_len = @ + 1]
  IN IF s.para_len >= 2
     THEN [s EXCEPT !.state = "HEAD", !.is_ready = TRUE, !.para_len = 0]
     ELSE s

RxByState(c, b) ==
  CASE c.state = "HEAD" -> RxHead(c, b)
    [] c.state = "CMD" -> RxCmd(c, b)
    [] c.state = "PARA_LEN" -> RxParaLen(c, b)
    [] c.state = "PARA" -> RxPara(c, b)
    [] c.state = "CHECK_CODE" -> RxCheckCode(c, b)

(* Mutant: the test of the buffer's end is dropped. *)
ci_port_rx_NoBound(c, b) == IF c.is_ready THEN c ELSE RxByState(c, b)

(* Mutant: is_ready does not protect the buffer. *)
ci_port_rx_Always(c, b) ==
  RxByState(IF c.rx_idx >= RxBufMax THEN Reset(c) ELSE c, b)

ci_port_rx(c, b) ==
  IF c.is_ready THEN c
  ELSE RxByState(IF c.rx_idx >= RxBufMax THEN Reset(c) ELSE c, b)

-----------------------------------------------------------------------------
(* The receive interrupts.                                                 *)

(* Mutant: the timeout is not started. *)
StartTimeout_Not(c) == ctx' = c /\ UNCHANGED <<armed, due>>

(* osal_timer_start for the head of a frame.  Without an RTOS it also      *)
(* cancels an expiry whose message is still queued; with one the command   *)
(* queue of the timer task may be full, which resets the receiver.         *)
StartTimeout(c) ==
  \/ ctx' = c /\ armed' = TRUE /\ due' = FALSE
  \/ Os /\ ctx' = Reset(c) /\ UNCHANGED <<armed, due>>

(* osal_timer_stop: with an RTOS the command may be lost in the same way,  *)
(* and its result is not looked at.                                        *)
StopTimeout ==
  \/ armed' = FALSE /\ due' = FALSE
  \/ Os /\ UNCHANGED <<armed, due>>

(* The frame is posted.  k_msg_post links the one message once; a full SYS *)
(* queue takes none, and the result is not handled ("TODO return not       *)
(* handled cause in isr").                                                 *)
PostFrame ==
  \/ /\ IF Os THEN pending < SysQueueLen ELSE TRUE
     /\ pending' = IF Os THEN pending + 1 ELSE 1
  \/ /\ Os /\ (Crowded \/ pending = SysQueueLen)
     /\ UNCHANGED pending

Completes(c, d) == ~c.is_ready /\ d.is_ready
Begins(c, d) == ~c.is_ready /\ d.state = "CMD"

(* Mutant: the frame is marked ready and not posted. *)
Receive_NoPost(c, b) ==
  LET d == ci_port_rx(c, b) IN
    /\ IF Begins(c, d) THEN StartTimeout(d)
       ELSE /\ ctx' = d
            /\ IF Completes(c, d) THEN StopTimeout ELSE UNCHANGED <<armed, due>>
    /\ UNCHANGED pending
    /\ rxon' = (rxon /\ ~(Completes(c, d) /\ Port = "i2c"))
    /\ UNCHANGED <<proc, tproc, conf>>

(* ci_port_rx_hdl, called with the context c. *)
Receive(c, b) ==
  LET d == ci_port_rx(c, b) IN
    /\ IF Begins(c, d) THEN StartTimeout(d)
       ELSE /\ ctx' = d
            /\ IF Completes(c, d) THEN StopTimeout ELSE UNCHANGED <<armed, due>>
    /\ IF Completes(c, d) THEN PostFrame ELSE UNCHANGED pending
    /\ rxon' = (rxon /\ ~(Completes(c, d) /\ Port = "i2c"))
    /\ UNCHANGED <<proc, tproc, conf>>

HostMaySend == Patient => (pending = 0 /\ proc = "idle")

RxIntr(b) ==
  /\ HostMaySend
  /\ rxon
  /\ Receive(ctx, b)

(* The line went idle with bytes left: reset, then the first of them. *)
RxIdleIntr(b) ==
  /\ HostMaySend
  /\ Port = "uart" /\ IdleIntr
  /\ Receive(Reset(ctx), b)

(* The line went idle with no byte left, also after the last of a frame:   *)
(* reset, and nothing else.                                                *)
RxIdleEmpty ==
  /\ Port = "uart" /\ IdleIntr
  /\ ctx' = Reset(ctx)
  /\ UNCHANGED <<pending, proc, tproc, armed, due, rxon, conf>>

-----------------------------------------------------------------------------
(* The receive timeout.                                                    *)

(* Expiry: the timer task goes on to call the callback at once; without an *)
(* RTOS the message of the timer is queued.                                *)
Expire ==
  /\ Slow
  /\ armed
  /\ armed' = FALSE
  /\ IF Os THEN tproc = "idle" /\ tproc' = "state" /\ UNCHANGED due
     ELSE due' = TRUE /\ UNCHANGED tproc
  /\ UNCHANGED <<ctx, pending, proc, rxon, conf>>

(* process_timer_expired_msg found the timer EXPIRED ... *)
TimeoutMsg ==
  /\ due /\ proc = "idle" /\ tproc = "idle"
  /\ due' = FALSE
  /\ tproc' = "stop"
  /\ UNCHANGED <<ctx, pending, proc, armed, rxon, conf>>

(* ... stops it, started again or not, and calls ci_recv_timeout_cb. *)
TimeoutStop ==
  /\ tproc = "stop"
  /\ armed' = FALSE
  /\ tproc' = "state"
  /\ UNCHANGED <<ctx, pending, proc, due, rxon, conf>>

(* Mutant: the state of the receiver is not reset. *)
ResetStore_KeepState(p, q) ==
  \/ p = "state" /\ q = "ready" /\ UNCHANGED ctx
  \/ p = "ready" /\ q = "idx" /\ ctx' = [ctx EXCEPT !.is_ready = FALSE]
  \/ p = "idx" /\ q = "idle" /\ ctx' = [ctx EXCEPT !.rx_idx = 0]

(* ci_port_reset, one store at a time, from place p to place q. *)
ResetStore(p, q) ==
  \/ p = "state" /\ q = "ready" /\ ctx' = [ctx EXCEPT !.state = "HEAD"]
  \/ p = "ready" /\ q = "idx" /\ ctx' = [ctx EXCEPT !.is_ready = FALSE]
  \/ p = "idx" /\ q = "idle" /\ ctx' = [ctx EXCEPT !.rx_idx = 0]

TimeoutReset ==
  /\ \E q \in {"ready", "idx", "idle"} : ResetStore(tproc, q) /\ tproc' = q
  /\ UNCHANGED <<pending, proc, armed, due, rxon, conf>>

-----------------------------------------------------------------------------
(* ci_rx_buf_proc.                                                         *)
TakeFrame ==
  /\ proc = "idle" /\ tproc = "idle"
  /\ pending > 0
  /\ pending' = pending - 1
  /\ proc' = "parse"
  /\ UNCHANGED <<ctx, tproc, armed, due, rxon, conf>>

(* ci_frm_parser: the check code of the frame is right or wrong. *)
Parse ==
  /\ proc = "parse" /\ tproc = "idle"
  /\ \/ ctx.head \in Heads /\ proc' = "cmd"
     \/ proc' = "state"
  /\ UNCHANGED <<ctx, pending, tproc, armed, due, rxon, conf>>

(* The command runs and may send a response, which on I2C starts reading.  *)
RunCmd ==
  /\ proc = "cmd" /\ tproc = "idle"
  /\ \/ Port = "i2c" /\ rxon' = TRUE
     \/ UNCHANGED rxon
  /\ proc' = "state"
  /\ UNCHANGED <<ctx, pending, tproc, armed, due, conf>>

(* Mutant: the frame is not released. *)
FrameReset_Not ==
  /\ proc = "state" /\ tproc = "idle"
  /\ proc' = "idle"
  /\ UNCHANGED <<ctx, pending, tproc, armed, due, rxon, conf>>

FrameReset ==
  /\ tproc = "idle"
  /\ \E q \in {"ready", "idx", "idle"} : ResetStore(proc, q) /\ proc' = q
  /\ UNCHANGED <<pending, tproc, armed, due, rxon, conf>>

-----------------------------------------------------------------------------
TimeoutStep == TimeoutMsg \/ TimeoutStop \/ TimeoutReset
FrameStep == TakeFrame \/ Parse \/ RunCmd \/ FrameReset

Next == \/ \E b \in Byte : RxIntr(b) \/ RxIdleIntr(b)
        \/ RxIdleEmpty
        \/ Expire
        \/ TimeoutStep
        \/ FrameStep

Spec == Init /\ [][Next]_vars

(* The timer task and the SYS task (or the main loop) run; time passes.    *)
FairSpec == Spec /\ WF_vars(FrameStep) /\ WF_vars(TimeoutStep) /\ WF_vars(Expire)

-----------------------------------------------------------------------------
(* A frame that was begun is watched: it has a timeout that will drop it,  *)
(* whatever bytes, idle lines, failed timer calls and late timeouts come   *)
(* in between.  (StartTimeout must be the same step as the state change.)  *)
Watched == ctx.state # "HEAD" => armed \/ due \/ tproc \in {"stop", "state"}

(* A receiver that refuses bytes has someone who will reset it, as long   *)
(* as the SYS queue is not filled by others.                               *)
ReadyIsOwned ==
  ctx.is_ready /\ ~Crowded => pending > 0 \/ proc \in {"parse", "cmd", "state", "ready"}

(* Every frame handed over starts with a head and has the length it says,  *)
(* for a host that waits until its last frame is done with and does not    *)
(* pause within one: a byte between two stores of ci_port_reset, made by   *)
(* main code or by the timeout, would go to the end of the old frame.      *)
FrameWellFormed ==
  [][Patient /\ ~Slow /\ ~ctx.is_ready /\ ctx'.is_ready =>
       ctx'.head \in Heads /\ ctx'.rx_idx = ctx'.len + 5]_vars

(* There is one buffer: from the post of a frame until its command is done *)
(* no byte is written into it, by a host that sends on and never pauses.   *)
(* (After a pause the idle interrupt or the timeout gives up the frame.)   *)
FrameHeld == pending > 0 \/ proc \in {"parse", "cmd"}
FrameStable == [][~IdleIntr /\ ~Slow /\ FrameHeld => ctx'.rx_idx <= ctx.rx_idx]_vars

(* The receiver takes bytes again and again: no sequence of frames, noise, *)
(* timeouts or lost timer commands makes it deaf.  (On I2C reading starts  *)
(* again only with a response, and not every frame gets one.)              *)
Listens == Port = "uart" => []<>(rxon /\ ~ctx.is_ready)

(* Noise and missing bytes do not keep the receiver inside a frame: it     *)
(* comes back to where it waits for a head, or has just stored one.        *)
Resyncs == Slow => ((ctx.state # "HEAD") ~> (ctx.state = "HEAD" \/ ctx.rx_idx = 1))
=============================================================================
