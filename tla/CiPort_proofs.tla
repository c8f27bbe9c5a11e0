--------------------------- MODULE CiPort_proofs ---------------------------
(* What holds of the receiver for every buffer size, byte set and host.    *)
EXTENDS CiPort, TLAPS

Ctx == [state : States, rx_idx : 0 .. RxBufMax, para_len : 0 .. 255,
        is_ready : BOOLEAN, head : Byte, len : Byte]

(* In state CHECK_CODE para_len counts the bytes of the check code: it     *)
(* cannot overflow its 8 bits there.                                       *)
CountsBytes(c) == c.state = "CHECK_CODE" => c.para_len \in 0 .. 1

Fields(d) ==
  [state |-> d.state, rx_idx |-> d.rx_idx, para_len |-> d.para_len,
   is_ready |-> d.is_ready, head |-> d.head, len |-> d.len]

LEMMA CtxByFields ==
  ASSUME NEW d, d = Fields(d), d.state \in States, d.rx_idx \in 0 .. RxBufMax,
         d.para_len \in 0 .. 255, d.is_ready \in BOOLEAN,
         d.head \in Byte, d.len \in Byte
  PROVE  d \in Ctx
BY DEF Ctx, Fields

LEMMA CtxFields ==
  ASSUME NEW c \in Ctx
  PROVE  /\ c.state \in States /\ c.rx_idx \in 0 .. RxBufMax
         /\ c.para_len \in 0 .. 255 /\ c.is_ready \in BOOLEAN
         /\ c.head \in Byte /\ c.len \in Byte
BY DEF Ctx

LEMMA ResetTyped ==
  ASSUME NEW c \in Ctx
  PROVE  /\ Reset(c) \in Ctx
         /\ Reset(c).state = "HEAD" /\ Reset(c).rx_idx = 0 /\ ~Reset(c).is_ready
<1> SUFFICES ASSUME NEW d, d = Reset(c)
             PROVE  d \in Ctx /\ d.state = "HEAD" /\ d.rx_idx = 0 /\ ~d.is_ready
  OBVIOUS
<1>1. /\ d.state = "HEAD" /\ d.rx_idx = 0 /\ d.para_len = c.para_len
      /\ d.is_ready = FALSE /\ d.head = c.head /\ d.len = c.len
  BY DEF Reset, Ctx
<1>2. d = Fields(d)
  BY DEF Reset, Ctx, Fields
<1>3. d.state \in States
  BY <1>1 DEF States
<1>4. d.rx_idx \in 0 .. RxBufMax
  BY <1>1, CiPortAssumption
<1>5. d.is_ready \in BOOLEAN
  BY <1>1
<1> QED
  BY <1>1, <1>2, <1>3, <1>4, <1>5, CtxFields, CtxByFields

(* A byte is stored within the buffer when there is room for it. *)
LEMMA StoreTyped ==
  ASSUME NEW c \in Ctx, NEW b \in Byte, c.rx_idx < RxBufMax
  PROVE  /\ Store(c, b) \in Ctx
         /\ Store(c, b).state = c.state
         /\ Store(c, b).is_ready = c.is_ready
         /\ Store(c, b).para_len = c.para_len
<1> SUFFICES ASSUME NEW d, d = Store(c, b)
             PROVE  /\ d \in Ctx /\ d.state = c.state
                    /\ d.is_ready = c.is_ready /\ d.para_len = c.para_len
  OBVIOUS
<1>1. /\ d.state = c.state /\ d.rx_idx = c.rx_idx + 1 /\ d.para_len = c.para_len
      /\ d.is_ready = c.is_ready /\ d.head \in {c.head, b} /\ d.len \in {c.len, b}
  BY DEF Store, Ctx
<1>2. d = Fields(d)
  BY DEF Store, Ctx, Fields
<1>3. d.rx_idx \in 0 .. RxBufMax
  BY <1>1, CtxFields, CiPortAssumption
<1>4. d.head \in Byte /\ d.len \in Byte
  BY <1>1, CtxFields
<1> QED
  BY <1>1, <1>2, <1>3, <1>4, CtxFields, CtxByFields

(* What the five states write besides the byte. *)
LEMMA StateSet ==
  ASSUME NEW s \in Ctx, NEW st \in States, NEW d, d = [s EXCEPT !.state = st]
  PROVE  /\ d \in Ctx /\ d.state = st /\ d.para_len = s.para_len
         /\ d.is_ready = s.is_ready
<1>1. /\ d.state = st /\ d.rx_idx = s.rx_idx /\ d.para_len = s.para_len
      /\ d.is_ready = s.is_ready /\ d.head = s.head /\ d.len = s.len
  BY DEF Ctx
<1>2. d = Fields(d)
  BY DEF Ctx, Fields
<1> QED
  BY <1>1, <1>2, CtxFields, CtxByFields

LEMMA LenSet ==
  ASSUME NEW s \in Ctx, NEW n \in 0 .. 255, NEW d, d = [s EXCEPT !.para_len = n]
  PROVE  /\ d \in Ctx /\ d.state = s.state /\ d.para_len = n
         /\ d.is_ready = s.is_ready
<1>1. /\ d.state = s.state /\ d.rx_idx = s.rx_idx /\ d.para_len = n
      /\ d.is_ready = s.is_ready /\ d.head = s.head /\ d.len = s.len
  BY DEF Ctx
<1>2. d = Fields(d)
  BY DEF Ctx, Fields
<1> QED
  BY <1>1, <1>2, CtxFields, CtxByFields

LEMMA FrameDone ==
  ASSUME NEW s \in Ctx, NEW d,
         d = [s EXCEPT !.state = "HEAD", !.is_ready = TRUE, !.para_len = 0]
  PROVE  d \in Ctx /\ d.state = "HEAD"
<1>1. /\ d.state = "HEAD" /\ d.rx_idx = s.rx_idx /\ d.para_len = 0
      /\ d.is_ready = TRUE /\ d.head = s.head /\ d.len = s.len
  BY DEF Ctx
<1>2. d = Fields(d)
  BY DEF Ctx, Fields
<1>3. d.state \in States /\ d.para_len \in 0 .. 255
  BY <1>1 DEF States
<1>4. d.is_ready \in BOOLEAN
  BY <1>1
<1> QED
  BY <1>1, <1>2, <1>3, <1>4, CtxFields, CtxByFields

(* One byte in each of the five states. *)
LEMMA ByStateTyped ==
  ASSUME NEW c \in Ctx, NEW b \in Byte,
         c.rx_idx < RxBufMax, CountsBytes(c), ~c.is_ready
  PROVE  LET d == RxByState(c, b) IN
           /\ d \in Ctx
           /\ CountsBytes(d)
           /\ d.state \notin {"HEAD", "CMD"} => c.state # "HEAD" /\ ~d.is_ready
           /\ d.is_ready => d.state = "HEAD"
<1> DEFINE s == Store(c, b)
<1> SUFFICES ASSUME NEW d, d = RxByState(c, b)
             PROVE  /\ d \in Ctx
                    /\ CountsBytes(d)
                    /\ d.state \notin {"HEAD", "CMD"} => c.state # "HEAD" /\ ~d.is_ready
                    /\ d.is_ready => d.state = "HEAD"
  OBVIOUS
<1>1. /\ s \in Ctx /\ s.state = c.state /\ s.is_ready = FALSE
      /\ s.para_len = c.para_len /\ s.para_len \in 0 .. 255
  BY StoreTyped, CtxFields
<1>2. b \in 0 .. 255
  BY CiPortAssumption
<1>3. CASE c.state = "HEAD"
  <2>1. d = c \/ d = [s EXCEPT !.state = "CMD"]
    BY <1>3 DEF RxByState, RxHead
  <2> HIDE DEF s
  <2>2. d = c \/ (d \in Ctx /\ d.state = "CMD" /\ d.is_ready = FALSE)
    <3>1. "CMD" \in States
      BY DEF States
    <3> QED
      BY <1>1, <2>1, <3>1, StateSet
  <2> QED
    BY <1>3, <2>2 DEF CountsBytes
<1>4. CASE c.state = "CMD"
  <2>1. d = [s EXCEPT !.state = "PARA_LEN"]
    BY <1>4 DEF RxByState, RxCmd
  <2> HIDE DEF s
  <2>2. d \in Ctx /\ d.state = "PARA_LEN" /\ d.is_ready = FALSE
    <3>1. "PARA_LEN" \in States
      BY DEF States
    <3> QED
      BY <1>1, <2>1, <3>1, StateSet
  <2> QED
    BY <1>4, <2>2 DEF CountsBytes
<1>5. CASE c.state = "PARA_LEN"
  <2> DEFINE st == IF b # 0 THEN "PARA" ELSE "CHECK_CODE"
  <2>1. d = [s EXCEPT !.para_len = b, !.state = st]
    BY <1>5 DEF RxByState, RxParaLen
  <2>2. st \in States /\ (st = "CHECK_CODE" => b = 0)
    BY DEF States
  <2> HIDE DEF s, st
  <2>3. d = [s EXCEPT !.state = st, !.para_len = b]
    BY <2>1
  <2>4. d \in Ctx /\ d.state = st /\ d.para_len = b /\ d.is_ready = s.is_ready
    <3>1. /\ d.state = st /\ d.rx_idx = s.rx_idx /\ d.para_len = b
          /\ d.is_ready = s.is_ready /\ d.head = s.head /\ d.len = s.len
      BY <1>1, <2>3 DEF Ctx
    <3>2. d = Fields(d)
      BY <1>1, <2>3 DEF Ctx, Fields
    <3> QED
      BY <1>1, <1>2, <2>2, <3>1, <3>2, CtxFields, CtxByFields
  <2> QED
    BY <1>1, <1>5, <2>2, <2>4 DEF CountsBytes
<1>6. CASE c.state = "PARA"
  <2>1. d = s \/ d = [s EXCEPT !.state = "CHECK_CODE", !.para_len = 0]
    BY <1>6 DEF RxByState, RxPara
  <2> HIDE DEF s
  <2>2. \/ d = s
        \/ d \in Ctx /\ d.para_len = 0 /\ d.is_ready = FALSE
    <3>1. "CHECK_CODE" \in States /\ 0 \in 0 .. 255
      BY DEF States
    <3>2. ASSUME d = [s EXCEPT !.state = "CHECK_CODE", !.para_len = 0]
          PROVE  d \in Ctx /\ d.para_len = 0 /\ d.is_ready = s.is_ready
      <4>1. /\ d.state = "CHECK_CODE" /\ d.rx_idx = s.rx_idx /\ d.para_len = 0
            /\ d.is_ready = s.is_ready /\ d.head = s.head /\ d.len = s.len
        BY <1>1, <3>2 DEF Ctx
      <4>2. d = Fields(d)
        BY <1>1, <3>2 DEF Ctx, Fields
      <4> QED
        BY <1>1, <3>1, <4>1, <4>2, CtxFields, CtxByFields
    <3> QED
      BY <1>1, <2>1, <3>2
  <2> QED
    BY <1>1, <1>6, <2>2 DEF CountsBytes
<1>7. CASE c.state = "CHECK_CODE"
  <2> DEFINE t == [s EXCEPT !.para_len = @ + 1]
  <2>1. s.para_len \in 0 .. 1
    BY <1>1, <1>7 DEF CountsBytes
  <2>2. \/ t.para_len >= 2 /\ d = [t EXCEPT !.state = "HEAD", !.is_ready = TRUE, !.para_len = 0]
        \/ ~(t.para_len >= 2) /\ d = t
    BY <1>7 DEF RxByState, RxCheckCode
  <2> HIDE DEF s
  <2>3. t = [s EXCEPT !.para_len = s.para_len + 1] /\ s.para_len + 1 \in 0 .. 255
    BY <2>1
  <2> HIDE DEF t
  <2>4. t \in Ctx /\ t.para_len = s.para_len + 1 /\ t.state = c.state /\ t.is_ready = FALSE
    BY <1>1, <2>3, LenSet
  <2>5. CASE d = t /\ ~(t.para_len >= 2)
    <3>1. t.para_len \in 0 .. 1
      BY <2>1, <2>4, <2>5
    <3> QED
      BY <1>7, <2>4, <2>5, <3>1 DEF CountsBytes
  <2>6. CASE d = [t EXCEPT !.state = "HEAD", !.is_ready = TRUE, !.para_len = 0]
    <3>1. d \in Ctx /\ d.state = "HEAD"
      BY <2>4, <2>6, FrameDone
    <3> QED
      BY <3>1 DEF CountsBytes
  <2> QED
    BY <2>2, <2>5, <2>6
<1> QED
  BY <1>3, <1>4, <1>5, <1>6, <1>7, CtxFields DEF States

(* ci_port_rx_hdl keeps the context well typed: whatever the state, the    *)
(* position and the byte, it never writes beyond rx_buf.  A frame under    *)
(* way was just begun, or was under way before and is not complete.        *)
LEMMA RxTyped ==
  ASSUME NEW c \in Ctx, NEW b \in Byte, CountsBytes(c)
  PROVE  LET d == ci_port_rx(c, b) IN
           /\ d \in Ctx
           /\ CountsBytes(d)
           /\ d.state # "HEAD" =>
                Begins(c, d) \/ (c.state # "HEAD" /\ ~Completes(c, d))
           /\ Completes(c, d) => d.state = "HEAD"
<1>1. CASE c.is_ready
  BY <1>1 DEF ci_port_rx, Completes
<1>2. CASE ~c.is_ready
  <2> DEFINE e == IF c.rx_idx >= RxBufMax THEN Reset(c) ELSE c
  <2>1. /\ e \in Ctx /\ e.rx_idx < RxBufMax /\ CountsBytes(e) /\ ~e.is_ready
        /\ e.state # "HEAD" => c.state # "HEAD"
    BY <1>2, ResetTyped, CiPortAssumption DEF Ctx, CountsBytes
  <2>2. ci_port_rx(c, b) = RxByState(e, b)
    BY <1>2 DEF ci_port_rx
  <2> HIDE DEF e
  <2> QED
    BY <1>2, <2>1, <2>2, ByStateTyped DEF Begins, Completes
<1> QED
  BY <1>1, <1>2

-----------------------------------------------------------------------------
IInv == CiTypeOK /\ CountsBytes(ctx) /\ Watched

(* One step of the interrupt handler, called with the context c. *)
LEMMA ReceiveStep ==
  ASSUME CiTypeOK, NEW c \in Ctx, CountsBytes(c), NEW b \in Byte, Receive(c, b),
         c.state # "HEAD" => Watched /\ ctx.state # "HEAD"
  PROVE  IInv'
<1> DEFINE d == ci_port_rx(c, b)
<1>1. /\ d \in Ctx /\ CountsBytes(d)
      /\ d.state # "HEAD" =>
           Begins(c, d) \/ (c.state # "HEAD" /\ ~Completes(c, d))
  BY RxTyped
<1>2. /\ proc' = proc /\ tproc' = tproc /\ conf' \in Confs
      /\ rxon' \in BOOLEAN
      /\ pending' \in 0 .. SysQueueLen
  BY CiPortAssumption DEF Receive, PostFrame, CiTypeOK
<1> HIDE DEF d
<1>3. CASE Begins(c, d)
  <2>1. StartTimeout(d)
    BY <1>3 DEF Receive, d
  <2>2. /\ ctx' \in Ctx /\ CountsBytes(ctx') /\ armed' \in BOOLEAN /\ due' \in BOOLEAN
        /\ ctx'.state # "HEAD" => armed'
    BY <1>1, <2>1, ResetTyped DEF StartTimeout, CiTypeOK, CountsBytes
  <2> QED
    BY <1>2, <2>2 DEF IInv, CiTypeOK, Watched, CountsBytes, Ctx
<1>4. CASE ~Begins(c, d)
  <2>1. /\ ctx' = d
        /\ IF Completes(c, d) THEN StopTimeout ELSE UNCHANGED <<armed, due>>
    BY <1>4 DEF Receive, d
  <2>2. armed' \in BOOLEAN /\ due' \in BOOLEAN
    BY <2>1 DEF StopTimeout, CiTypeOK
  <2>3. d.state # "HEAD" => armed' \/ due' \/ tproc' \in {"stop", "state"}
    BY <1>1, <1>2, <1>4, <2>1 DEF Watched
  <2> QED
    BY <1>1, <1>2, <2>1, <2>2, <2>3 DEF IInv, CiTypeOK, Watched, CountsBytes, Ctx
<1> QED
  BY <1>3, <1>4

(* The three stores of ci_port_reset in main code. *)
LEMMA ResetStoreTyped ==
  ASSUME ctx \in Ctx, CountsBytes(ctx), NEW p, NEW q, ResetStore(p, q)
  PROVE  /\ ctx' \in Ctx
         /\ CountsBytes(ctx')
         /\ ctx'.state # "HEAD" => p # "state" /\ ctx.state # "HEAD"
         /\ ctx'.is_ready => p # "ready" /\ ctx.is_ready
         /\ <<p, q>> \in {<<"state", "ready">>, <<"ready", "idx">>, <<"idx", "idle">>}
<1> SUFFICES ASSUME NEW d, d = ctx'
             PROVE  /\ d \in Ctx
                    /\ CountsBytes(d)
                    /\ d.state # "HEAD" => p # "state" /\ ctx.state # "HEAD"
                    /\ d.is_ready => p # "ready" /\ ctx.is_ready
  BY DEF ResetStore
<1>1. CASE p = "state" /\ d = [ctx EXCEPT !.state = "HEAD"]
  <2>1. d \in Ctx /\ d.state = "HEAD" /\ d.is_ready = ctx.is_ready
    BY <1>1, StateSet DEF States
  <2> QED
    BY <1>1, <2>1 DEF CountsBytes
<1>2. CASE p = "ready" /\ d = [ctx EXCEPT !.is_ready = FALSE]
  <2>1. /\ d.state = ctx.state /\ d.rx_idx = ctx.rx_idx /\ d.para_len = ctx.para_len
        /\ d.is_ready = FALSE /\ d.head = ctx.head /\ d.len = ctx.len
    BY <1>2 DEF Ctx
  <2>2. d = Fields(d)
    BY <1>2 DEF Ctx, Fields
  <2>3. d.is_ready \in BOOLEAN
    BY <2>1
  <2>4. d \in Ctx
    BY <2>1, <2>2, <2>3, CtxFields, CtxByFields
  <2> QED
    BY <1>2, <2>1, <2>4 DEF CountsBytes
<1>3. CASE p = "idx" /\ d = [ctx EXCEPT !.rx_idx = 0]
  <2>1. /\ d.state = ctx.state /\ d.rx_idx = 0 /\ d.para_len = ctx.para_len
        /\ d.is_ready = ctx.is_ready /\ d.head = ctx.head /\ d.len = ctx.len
    BY <1>3 DEF Ctx
  <2>2. d = Fields(d)
    BY <1>3 DEF Ctx, Fields
  <2>3. d.rx_idx \in 0 .. RxBufMax
    BY <2>1, CiPortAssumption
  <2>4. d \in Ctx
    BY <2>1, <2>2, <2>3, CtxFields, CtxByFields
  <2> QED
    BY <1>3, <2>1, <2>4 DEF CountsBytes
<1> QED
  BY <1>1, <1>2, <1>3 DEF ResetStore

LEMMA InitInv == Init => IInv
<1> SUFFICES ASSUME Init PROVE IInv
  OBVIOUS
<1>1. /\ ctx = Fields(ctx)
      /\ ctx.state = "HEAD" /\ ctx.rx_idx = 0 /\ ctx.para_len = 0
      /\ ctx.is_ready = FALSE /\ ctx.head = 0 /\ ctx.len = 0
  BY DEF Init, Fields
<1>2. /\ ctx.state \in States /\ ctx.rx_idx \in 0 .. RxBufMax
      /\ ctx.para_len \in 0 .. 255 /\ ctx.head \in Byte /\ ctx.len \in Byte
  BY <1>1, CiPortAssumption DEF States
<1>3. ctx \in Ctx
  BY <1>1, <1>2, CtxByFields
<1>4. CountsBytes(ctx) /\ Watched
  BY <1>1 DEF CountsBytes, Watched
<1>5. pending \in 0 .. SysQueueLen
  BY CiPortAssumption DEF Init
<1>6. armed \in BOOLEAN /\ due \in BOOLEAN /\ rxon \in BOOLEAN /\ conf \in Confs
  BY DEF Init
<1>7. /\ proc \in {"idle", "parse", "cmd"} \cup ResetPlaces
      /\ tproc \in {"idle", "stop"} \cup ResetPlaces
  BY DEF Init
<1> QED
  BY <1>3, <1>4, <1>5, <1>6, <1>7 DEF IInv, CiTypeOK, Ctx

LEMMA StepInv == IInv /\ [Next]_vars => IInv'
<1> SUFFICES ASSUME IInv, [Next]_vars PROVE IInv'
  OBVIOUS
<1>0. ctx \in Ctx
  BY DEF IInv, CiTypeOK, Ctx
<1>1. ASSUME NEW b \in Byte, RxIntr(b) PROVE IInv'
  BY <1>0, <1>1, ReceiveStep DEF RxIntr, IInv
<1>2. ASSUME NEW b \in Byte, RxIdleIntr(b) PROVE IInv'
  <2>1. Reset(ctx) \in Ctx /\ Reset(ctx).state = "HEAD" /\ CountsBytes(Reset(ctx))
    BY <1>0, ResetTyped DEF CountsBytes
  <2> QED
    BY <1>2, <2>1, ReceiveStep DEF RxIdleIntr, IInv
<1>12. CASE RxIdleEmpty
  <2>1. ctx' \in Ctx /\ CountsBytes(ctx') /\ ctx'.state = "HEAD"
    BY <1>0, <1>12, ResetTyped DEF RxIdleEmpty, CountsBytes
  <2> QED
    BY <1>12, <2>1 DEF RxIdleEmpty, IInv, CiTypeOK, Ctx, Watched
<1>3. CASE Expire
  BY <1>3 DEF Expire, IInv, CiTypeOK, CountsBytes, Watched, ResetPlaces
<1>4. CASE TimeoutMsg
  BY <1>4 DEF TimeoutMsg, IInv, CiTypeOK, CountsBytes, Watched, ResetPlaces
<1>5. CASE TimeoutStop
  BY <1>5 DEF TimeoutStop, IInv, CiTypeOK, CountsBytes, Watched, ResetPlaces
<1>6. CASE TimeoutReset
  <2>1. PICK q \in {"ready", "idx", "idle"} : ResetStore(tproc, q) /\ tproc' = q
    BY <1>6 DEF TimeoutReset
  <2>2. /\ ctx' \in Ctx /\ CountsBytes(ctx')
        /\ ctx'.state # "HEAD" => tproc # "state" /\ ctx.state # "HEAD"
        /\ tproc # "stop"
    BY <1>0, <2>1, ResetStoreTyped DEF IInv
  <2> QED
    BY <1>6, <2>1, <2>2 DEF TimeoutReset, IInv, CiTypeOK, Ctx, Watched, ResetPlaces
<1>7. CASE TakeFrame
  BY <1>7, CiPortAssumption DEF TakeFrame, IInv, CiTypeOK, CountsBytes, Watched
<1>8. CASE Parse
  BY <1>8 DEF Parse, IInv, CiTypeOK, CountsBytes, Watched, ResetPlaces
<1>9. CASE RunCmd
  BY <1>9 DEF RunCmd, IInv, CiTypeOK, CountsBytes, Watched, ResetPlaces
<1>10. CASE FrameReset
  <2>1. PICK q \in {"ready", "idx", "idle"} : ResetStore(proc, q) /\ proc' = q
    BY <1>10 DEF FrameReset
  <2>2. /\ ctx' \in Ctx /\ CountsBytes(ctx')
        /\ ctx'.state # "HEAD" => ctx.state # "HEAD"
    BY <1>0, <2>1, ResetStoreTyped DEF IInv
  <2> QED
    BY <1>10, <2>1, <2>2 DEF FrameReset, IInv, CiTypeOK, Ctx, Watched, ResetPlaces
<1>11. CASE UNCHANGED vars
  BY <1>11 DEF vars, IInv, CiTypeOK, CountsBytes, Watched
<1> QED
  BY <1>1, <1>2, <1>3, <1>4, <1>5, <1>6, <1>7, <1>8, <1>9, <1>10, <1>11, <1>12
     DEF Next, TimeoutStep, FrameStep

(* The receiver's context is always well typed.  The heart of it is rx_idx *)
(* in 0 .. RxBufMax: no interleaving of interrupts with the three stores   *)
(* of ci_port_reset writes beyond the end of rx_buf.                       *)
THEOREM BufferBounded == Spec => []CiTypeOK
<1>1. IInv => CiTypeOK
  BY DEF IInv
<1> QED
  BY <1>1, InitInv, StepInv, PTL DEF Spec

(* A frame under way always has a timeout that will drop it. *)
THEOREM FramesWatched == Spec => []Watched
<1>1. IInv => Watched
  BY DEF IInv
<1> QED
  BY <1>1, InitInv, StepInv, PTL DEF Spec

-----------------------------------------------------------------------------
OInv == IInv /\ ReadyIsOwned

(* Whoever makes the receiver ready has posted, or finds the SYS queue     *)
(* full of frame messages.                                                 *)
LEMMA ReceiveOwned ==
  ASSUME CiTypeOK, NEW c \in Ctx, NEW b \in Byte, CountsBytes(c),
         Receive(c, b),
         c.is_ready => ReadyIsOwned /\ ctx.is_ready
  PROVE  ReadyIsOwned'
<1> SUFFICES ASSUME ~Crowded PROVE ReadyIsOwned'
  BY DEF Receive, Crowded, ReadyIsOwned
<1> DEFINE d == ci_port_rx(c, b)
<1>1. proc' = proc
  BY DEF Receive
<1>2. CASE Completes(c, d)
  <2>1. pending' > 0
    BY <1>2, CiPortAssumption DEF Receive, PostFrame, CiTypeOK
  <2> QED
    BY <2>1 DEF ReadyIsOwned
<1>3. CASE ~Completes(c, d)
  <2>1. pending' = pending
    BY <1>3 DEF Receive
  <2>2. ctx'.is_ready => d.is_ready
    <3>1. d \in Ctx
      BY RxTyped
    <3>2. ctx' = d \/ ctx' = Reset(d)
      BY DEF Receive, StartTimeout
    <3>3. ~Reset(d).is_ready
      BY <3>1, ResetTyped
    <3> HIDE DEF d
    <3> QED
      BY <3>2, <3>3
  <2> QED
    BY <1>1, <1>3, <2>1, <2>2 DEF Completes, ReadyIsOwned
<1> QED
  BY <1>2, <1>3

LEMMA StepOwned == OInv /\ [Next]_vars => OInv'
<1> SUFFICES ASSUME OInv, [Next]_vars PROVE ReadyIsOwned'
  BY StepInv DEF OInv
<1>0. ctx \in Ctx /\ CiTypeOK /\ CountsBytes(ctx)
  BY DEF OInv, IInv, CiTypeOK, Ctx
<1>1. ASSUME NEW b \in Byte, RxIntr(b) PROVE ReadyIsOwned'
  BY <1>0, <1>1, ReceiveOwned DEF RxIntr, OInv
<1>2. ASSUME NEW b \in Byte, RxIdleIntr(b) PROVE ReadyIsOwned'
  <2>1. Reset(ctx) \in Ctx /\ ~Reset(ctx).is_ready /\ CountsBytes(Reset(ctx))
    BY <1>0, ResetTyped DEF CountsBytes
  <2> QED
    BY <1>0, <1>2, <2>1, ReceiveOwned DEF RxIdleIntr
<1>12. CASE RxIdleEmpty
  <2>1. ~ctx'.is_ready
    BY <1>0, <1>12, ResetTyped DEF RxIdleEmpty
  <2> QED
    BY <2>1 DEF ReadyIsOwned
<1>3. CASE Expire
  BY <1>3 DEF Expire, OInv, ReadyIsOwned, Crowded
<1>4. CASE TimeoutMsg
  BY <1>4 DEF TimeoutMsg, OInv, ReadyIsOwned, Crowded
<1>5. CASE TimeoutStop
  BY <1>5 DEF TimeoutStop, OInv, ReadyIsOwned, Crowded
<1>6. CASE TimeoutReset
  <2>1. ctx'.is_ready => ctx.is_ready
    BY <1>0, <1>6, ResetStoreTyped DEF TimeoutReset
  <2> QED
    BY <1>6, <2>1 DEF TimeoutReset, OInv, ReadyIsOwned, Crowded
<1>7. CASE TakeFrame
  BY <1>7 DEF TakeFrame, OInv, ReadyIsOwned, Crowded
<1>8. CASE Parse
  BY <1>8 DEF Parse, OInv, ReadyIsOwned, Crowded
<1>9. CASE RunCmd
  BY <1>9 DEF RunCmd, OInv, ReadyIsOwned, Crowded
<1>10. CASE FrameReset
  <2>1. PICK q \in {"ready", "idx", "idle"} : ResetStore(proc, q) /\ proc' = q
    BY <1>10 DEF FrameReset
  <2>2. /\ ctx'.is_ready => proc # "ready" /\ ctx.is_ready
        /\ <<proc, q>> \in {<<"state", "ready">>, <<"ready", "idx">>, <<"idx", "idle">>}
    BY <1>0, <2>1, ResetStoreTyped
  <2> QED
    BY <1>10, <2>1, <2>2 DEF FrameReset, OInv, ReadyIsOwned, Crowded
<1>11. CASE UNCHANGED vars
  BY <1>11 DEF vars, OInv, ReadyIsOwned, Crowded
<1> QED
  BY <1>1, <1>2, <1>3, <1>4, <1>5, <1>6, <1>7, <1>8, <1>9, <1>10, <1>11, <1>12
     DEF Next, TimeoutStep, FrameStep

(* As long as the SYS queue takes the frame messages, a receiver that      *)
(* refuses bytes has a frame queued or being handled, which will reset it. *)
THEOREM ReadyOwned == Spec => []ReadyIsOwned
<1>1. Init => OInv
  BY InitInv DEF OInv, ReadyIsOwned, Init
<1>2. OInv /\ [Next]_vars => OInv'
  BY StepOwned
<1>3. OInv => ReadyIsOwned
  BY DEF OInv
<1> QED
  BY <1>1, <1>2, <1>3, PTL DEF Spec

-----------------------------------------------------------------------------
(* Without a pause of the host no timeout expires.                         *)
Quiet == ~Slow => tproc = "idle" /\ ~due

(* One frame at a time: the receiver is ready, and so refuses bytes, as    *)
(* long as a frame is queued or handled.  The next frame may come in       *)
(* between the last two stores of ci_port_reset, and is posted then.       *)
OneFrame ==
  ~IdleIntr /\ ~Slow =>
    /\ pending > 0 => pending = 1 /\ ctx.is_ready /\ proc \in {"idle", "idx"}
    /\ proc \in {"parse", "cmd", "state", "ready"} => ctx.is_ready

HInv == IInv /\ Quiet /\ OneFrame

(* A ready receiver takes no byte. *)
LEMMA ReadyRefuses ==
  ASSUME NEW c, NEW b, c.is_ready, Receive(c, b)
  PROVE  ctx' = c /\ pending' = pending /\ proc' = proc
BY DEF Receive, ci_port_rx, Begins, Completes

LEMMA QuietStep == Quiet /\ [Next]_vars => Quiet'
<1> SUFFICES ASSUME Quiet, [Next]_vars, ~Slow' PROVE tproc' = "idle" /\ ~due'
  BY DEF Quiet
<1>1. Slow' = Slow /\ ~Slow /\ tproc = "idle" /\ ~due
  BY DEF Quiet, Slow, Next, vars, RxIntr, RxIdleIntr, RxIdleEmpty, Receive,
         Expire, TimeoutStep,
         TimeoutMsg, TimeoutStop, TimeoutReset, FrameStep, TakeFrame, Parse,
         RunCmd, FrameReset
<1>2. ASSUME NEW c, NEW b, Receive(c, b) PROVE tproc' = "idle" /\ ~due'
  BY <1>1, <1>2 DEF Receive, StartTimeout, StopTimeout
<1>3. ASSUME TimeoutReset PROVE FALSE
  BY <1>1, <1>3 DEF TimeoutReset, ResetStore
<1> QED
  BY <1>1, <1>2, <1>3
     DEF Next, vars, RxIntr, RxIdleIntr, RxIdleEmpty, Expire, TimeoutStep, TimeoutMsg,
         TimeoutStop, FrameStep, TakeFrame, Parse, RunCmd, FrameReset

LEMMA OneFrameStep == HInv /\ [Next]_vars => OneFrame'
<1> SUFFICES ASSUME HInv, [Next]_vars, ~IdleIntr', ~Slow'
             PROVE  /\ pending' > 0 => /\ pending' = 1 /\ ctx'.is_ready
                                       /\ proc' \in {"idle", "idx"}
                    /\ proc' \in {"parse", "cmd", "state", "ready"} => ctx'.is_ready
  BY DEF OneFrame
<1>0. /\ conf' = conf
      /\ ctx \in Ctx /\ CountsBytes(ctx) /\ pending \in 0 .. SysQueueLen
  BY DEF HInv, IInv, CiTypeOK, Ctx, vars, Next, RxIntr, RxIdleIntr, RxIdleEmpty,
         Receive, Expire,
         TimeoutStep, TimeoutMsg, TimeoutStop, TimeoutReset, FrameStep, TakeFrame,
         Parse, RunCmd, FrameReset
<1>1. /\ ~IdleIntr /\ ~Slow /\ tproc = "idle" /\ ~due
      /\ pending > 0 => pending = 1 /\ ctx.is_ready /\ proc \in {"idle", "idx"}
      /\ proc \in {"parse", "cmd", "state", "ready"} => ctx.is_ready
  BY <1>0 DEF HInv, Quiet, OneFrame, IdleIntr, Slow
<1>2. ASSUME NEW b \in Byte, RxIntr(b)
      PROVE  /\ pending' > 0 => /\ pending' = 1 /\ ctx'.is_ready
                                /\ proc' \in {"idle", "idx"}
             /\ proc' \in {"parse", "cmd", "state", "ready"} => ctx'.is_ready
  <2>1. CASE ctx.is_ready
    BY <1>1, <1>2, <2>1, ReadyRefuses DEF RxIntr
  <2>2. CASE ~ctx.is_ready
    <3> DEFINE d == ci_port_rx(ctx, b)
    <3>1. /\ proc' = proc /\ pending = 0
          /\ proc \in {"idle", "idx"}
      BY <1>0, <1>1, <1>2, <2>2 DEF RxIntr, Receive, HInv, IInv, CiTypeOK, ResetPlaces
    <3>2. CASE Completes(ctx, d)
      <4>1. d.is_ready /\ (ctx' = d \/ Begins(ctx, d))
        BY <1>2, <3>2 DEF RxIntr, Receive, Completes
      <4>2. ~Begins(ctx, d)
        <5>1. d.state = "HEAD"
          BY <1>0, <3>2, RxTyped
        <5> QED
          BY <5>1 DEF Begins
      <4>3. pending' \in {0, 1}
        BY <1>2, <3>1, <3>2 DEF RxIntr, Receive, PostFrame
      <4> HIDE DEF d
      <4> QED
        BY <3>1, <4>1, <4>2, <4>3
    <3>3. CASE ~Completes(ctx, d)
      BY <1>2, <3>1, <3>3 DEF RxIntr, Receive
    <3> QED
      BY <3>2, <3>3
  <2> QED
    BY <2>1, <2>2
<1>3. ASSUME (\E b \in Byte : RxIdleIntr(b)) \/ RxIdleEmpty PROVE FALSE
  BY <1>1, <1>3 DEF RxIdleIntr, RxIdleEmpty
<1>4. CASE Expire
  BY <1>1, <1>4 DEF Expire
<1>5. CASE TimeoutStep
  <2>1. tproc # "idle" \/ due
    BY <1>5 DEF TimeoutStep, TimeoutMsg, TimeoutStop, TimeoutReset, ResetStore
  <2> QED
    BY <1>1, <2>1
<1>6. CASE TakeFrame
  BY <1>0, <1>1, <1>6 DEF TakeFrame
<1>7. CASE Parse \/ RunCmd
  BY <1>0, <1>1, <1>7 DEF Parse, RunCmd
<1>8. CASE FrameReset
  <2>1. PICK q \in {"ready", "idx", "idle"} : ResetStore(proc, q) /\ proc' = q
    BY <1>8 DEF FrameReset
  <2>2. pending' = pending
    BY <1>8 DEF FrameReset
  <2>3. proc = "ready" \/ ctx'.is_ready = ctx.is_ready
    BY <1>0, <2>1 DEF ResetStore, Ctx
  <2> QED
    BY <1>0, <1>1, <2>1, <2>2, <2>3 DEF ResetStore
<1>9. CASE UNCHANGED vars
  BY <1>1, <1>9 DEF vars
<1> QED
  BY <1>2, <1>3, <1>4, <1>5, <1>6, <1>7, <1>8, <1>9 DEF Next, FrameStep

(* From the post of a frame until its command is done no byte is written   *)
(* into the one buffer, in a build without idle interrupts and for a host  *)
(* that does not pause: whatever it sends on, in whatever buffer.          *)
THEOREM FramesStable == Spec => FrameStable
<1> DEFINE A == ~IdleIntr /\ ~Slow /\ FrameHeld => ctx'.rx_idx <= ctx.rx_idx
<1>1. Init => HInv
  BY InitInv DEF HInv, Quiet, OneFrame, Init
<1>2. HInv /\ [Next]_vars => HInv'
  BY StepInv, QuietStep, OneFrameStep DEF HInv
<1>3. HInv /\ [Next]_vars => [A]_vars
  <2> SUFFICES ASSUME HInv, [Next]_vars, ~IdleIntr, ~Slow, FrameHeld
               PROVE  ctx'.rx_idx <= ctx.rx_idx
    OBVIOUS
  <2>1. /\ ctx \in Ctx /\ ctx.rx_idx \in Nat
        /\ tproc = "idle" /\ ~due
        /\ ctx.is_ready
    BY DEF HInv, IInv, CiTypeOK, Ctx, Quiet, OneFrame, FrameHeld
  <2>2. ASSUME NEW b \in Byte, RxIntr(b) PROVE ctx' = ctx
    BY <2>1, <2>2, ReadyRefuses DEF RxIntr
  <2>3. ASSUME (\E b \in Byte : RxIdleIntr(b)) \/ RxIdleEmpty PROVE FALSE
    BY <2>3 DEF RxIdleIntr, RxIdleEmpty
  <2>4. ASSUME TimeoutStep PROVE FALSE
    BY <2>1, <2>4 DEF TimeoutStep, TimeoutMsg, TimeoutStop, TimeoutReset, ResetStore
  <2>5. ASSUME FrameReset PROVE ctx'.rx_idx \in {ctx.rx_idx, 0}
    BY <2>1, <2>5 DEF FrameReset, ResetStore, Ctx
  <2>6. ASSUME Expire \/ TakeFrame \/ Parse \/ RunCmd \/ UNCHANGED vars
        PROVE  ctx' = ctx
    BY <2>6 DEF Expire, TakeFrame, Parse, RunCmd, vars
  <2> QED
    BY <2>1, <2>2, <2>3, <2>4, <2>5, <2>6 DEF Next, FrameStep
<1>4. Spec => [][A]_vars
  BY <1>1, <1>2, <1>3, PTL DEF Spec
<1> QED
  BY <1>4 DEF FrameStable

-----------------------------------------------------------------------------
(* How far into the frame each state is. *)
InFrame(c) ==
  /\ c.state # "HEAD" => c.head \in Heads /\ ~c.is_ready
  /\ c.state = "CMD" => c.rx_idx = 1
  /\ c.state = "PARA_LEN" => c.rx_idx = 2
  /\ c.state = "PARA" => c.para_len = c.len /\ c.rx_idx \in 3 .. c.len + 2
  /\ c.state = "CHECK_CODE" => c.rx_idx = c.len + 3 + c.para_len

WholeFrame(c) == c.head \in Heads /\ c.rx_idx = c.len + 5

(* What the store of a byte writes. *)
LEMMA StoreFields ==
  ASSUME NEW c \in Ctx, NEW b \in Byte, NEW d, d = Store(c, b)
  PROVE  /\ d.state = c.state /\ d.rx_idx = c.rx_idx + 1 /\ d.para_len = c.para_len
         /\ d.is_ready = c.is_ready
         /\ d.head = (IF c.rx_idx = 0 THEN b ELSE c.head)
         /\ d.len = (IF c.rx_idx = 2 THEN b ELSE c.len)
         /\ d = Fields(d)
BY DEF Store, Ctx, Fields

(* A byte takes the receiver one place further in the frame, and completes *)
(* a frame of the length its length byte says.                             *)
LEMMA ByStateInFrame ==
  ASSUME NEW c \in Ctx, NEW b \in Byte, c.rx_idx < RxBufMax,
         CountsBytes(c), ~c.is_ready, InFrame(c),
         c.state = "HEAD" => c.rx_idx = 0
  PROVE  LET d == RxByState(c, b) IN
           /\ InFrame(d)
           /\ d.is_ready => WholeFrame(d)
           /\ d.state = "HEAD" => d.is_ready \/ d.rx_idx = 0
<1> DEFINE s == Store(c, b)
<1> DEFINE Good(d) ==
      /\ InFrame(d)
      /\ d.is_ready => WholeFrame(d)
      /\ d.state = "HEAD" => d.is_ready \/ d.rx_idx = 0
<1> SUFFICES ASSUME NEW d, d = RxByState(c, b) PROVE Good(d)
  OBVIOUS
<1>1. /\ s \in Ctx
      /\ s.state = c.state /\ s.rx_idx = c.rx_idx + 1 /\ s.para_len = c.para_len
      /\ ~s.is_ready
      /\ s.head = (IF c.rx_idx = 0 THEN b ELSE c.head)
      /\ s.len = (IF c.rx_idx = 2 THEN b ELSE c.len)
  BY StoreTyped, StoreFields
<1>2. /\ b \in 0 .. 255 /\ c.len \in 0 .. 255 /\ c.rx_idx \in Nat
      /\ c.para_len \in 0 .. 255
  <2>1. c.len \in Byte /\ c.rx_idx \in 0 .. RxBufMax /\ c.para_len \in 0 .. 255
    BY CtxFields
  <2>2. Byte \subseteq 0 .. 255 /\ RxBufMax \in Nat
    BY CiPortAssumption
  <2>3. c.len \in 0 .. 255 /\ b \in 0 .. 255
    BY <2>1, <2>2
  <2>4. c.rx_idx \in Nat
    BY <2>1, <2>2
  <2> QED
    BY <2>1, <2>3, <2>4
<1>3. CASE c.state = "HEAD"
  <2>1. d = c \/ (b \in Heads /\ d = [s EXCEPT !.state = "CMD"])
    BY <1>3 DEF RxByState, RxHead
  <2> HIDE DEF s
  <2>2. CASE d = c
    BY <1>3, <2>2 DEF InFrame
  <2>3. CASE b \in Heads /\ d = [s EXCEPT !.state = "CMD"]
    <3>1. /\ d.state = "CMD" /\ d.rx_idx = 1 /\ d.head = b /\ ~d.is_ready
      BY <1>1, <1>3, <2>3 DEF Ctx
    <3> QED
      BY <2>3, <3>1 DEF InFrame
  <2> QED
    BY <2>1, <2>2, <2>3
<1>4. CASE c.state = "CMD"
  <2>1. d = [s EXCEPT !.state = "PARA_LEN"]
    BY <1>4 DEF RxByState, RxCmd
  <2>2. c.rx_idx = 1 /\ c.head \in Heads
    BY <1>4 DEF InFrame
  <2> HIDE DEF s
  <2>3. d.state = "PARA_LEN" /\ d.rx_idx = 2 /\ d.head \in Heads /\ ~d.is_ready
    BY <1>1, <2>1, <2>2 DEF Ctx
  <2> QED
    BY <2>3 DEF InFrame
<1>5. CASE c.state = "PARA_LEN"
  <2> DEFINE st == IF b # 0 THEN "PARA" ELSE "CHECK_CODE"
  <2>1. d = [s EXCEPT !.state = st, !.para_len = b]
    BY <1>5 DEF RxByState, RxParaLen
  <2>2. c.rx_idx = 2 /\ c.head \in Heads
    BY <1>5 DEF InFrame
  <2> HIDE DEF s, st
  <2>3. /\ d.state = st /\ d.rx_idx = 3 /\ d.para_len = b /\ d.len = b
        /\ d.head \in Heads /\ ~d.is_ready
    BY <1>1, <2>1, <2>2 DEF Ctx
  <2>4. CASE b # 0
    <3>1. d.state = "PARA" /\ d.rx_idx \in 3 .. d.len + 2
      BY <1>2, <2>3, <2>4 DEF st
    <3> QED
      BY <2>3, <3>1 DEF InFrame
  <2>5. CASE b = 0
    <3>1. d.state = "CHECK_CODE" /\ d.rx_idx = d.len + 3 + d.para_len
      BY <2>3, <2>5 DEF st
    <3> QED
      BY <2>3, <3>1 DEF InFrame
  <2> QED
    BY <2>4, <2>5
<1>6. CASE c.state = "PARA"
  <2>1. IF s.rx_idx >= s.para_len + 3
        THEN d = [s EXCEPT !.state = "CHECK_CODE", !.para_len = 0]
        ELSE d = s
    BY <1>6 DEF RxByState, RxPara
  <2>2. c.head \in Heads /\ c.para_len = c.len /\ c.rx_idx \in 3 .. c.len + 2
    BY <1>6 DEF InFrame
  <2> HIDE DEF s
  <2>3. s.head \in Heads /\ s.len = c.len /\ s.rx_idx = c.rx_idx + 1
    BY <1>1, <2>2
  <2>4. CASE s.rx_idx >= s.para_len + 3
    <3>1. d = [s EXCEPT !.state = "CHECK_CODE", !.para_len = 0]
      BY <2>1, <2>4
    <3>2. /\ d.state = "CHECK_CODE" /\ d.para_len = 0 /\ d.head \in Heads
          /\ d.len = c.len /\ d.rx_idx = s.rx_idx /\ ~d.is_ready
      BY <1>1, <2>3, <3>1 DEF Ctx
    <3>3. d.rx_idx = d.len + 3 + d.para_len
      BY <1>1, <1>2, <2>2, <2>3, <2>4, <3>2
    <3> QED
      BY <3>2, <3>3 DEF InFrame
  <2>5. CASE ~(s.rx_idx >= s.para_len + 3)
    <3>1. d = s
      BY <2>1, <2>5
    <3>2. s.rx_idx \in 3 .. s.len + 2
      BY <1>1, <1>2, <2>2, <2>3, <2>5
    <3> QED
      BY <1>1, <1>6, <2>2, <2>3, <3>1, <3>2 DEF InFrame
  <2> QED
    BY <2>4, <2>5
<1>7. CASE c.state = "CHECK_CODE"
  <2> DEFINE t == [s EXCEPT !.para_len = @ + 1]
  <2>1. IF t.para_len >= 2
        THEN d = [t EXCEPT !.state = "HEAD", !.is_ready = TRUE, !.para_len = 0]
        ELSE d = t
    BY <1>7 DEF RxByState, RxCheckCode
  <2>2. /\ c.head \in Heads /\ c.rx_idx = c.len + 3 + c.para_len
        /\ c.para_len \in 0 .. 1
    BY <1>7 DEF InFrame, CountsBytes
  <2> HIDE DEF s
  <2>3. t = [s EXCEPT !.para_len = s.para_len + 1] /\ s.para_len + 1 \in 0 .. 255
    BY <1>1, <2>2
  <2> HIDE DEF t
  <2>4. s.head \in Heads /\ s.len = c.len /\ s.rx_idx = c.rx_idx + 1
    BY <1>1, <1>2, <2>2
  <2>5. /\ t \in Ctx /\ t.state = "CHECK_CODE" /\ t.para_len = c.para_len + 1
        /\ t.head \in Heads /\ t.len = c.len /\ t.rx_idx = c.rx_idx + 1
        /\ ~t.is_ready
    <3>1. t \in Ctx
      BY <1>1, <2>3, LenSet
    <3> QED
      BY <1>1, <1>7, <2>3, <2>4, <3>1 DEF Ctx
  <2>6. CASE t.para_len >= 2
    <3>1. d = [t EXCEPT !.state = "HEAD", !.is_ready = TRUE, !.para_len = 0]
      BY <2>1, <2>6
    <3>2. /\ d.state = "HEAD" /\ d.head = t.head /\ d.len = t.len
          /\ d.rx_idx = t.rx_idx /\ d.is_ready = TRUE
      BY <2>5, <3>1 DEF Ctx
    <3>3. d.rx_idx = d.len + 5
      BY <1>2, <2>2, <2>5, <2>6, <3>2
    <3> QED
      BY <2>5, <3>2, <3>3 DEF InFrame, WholeFrame
  <2>7. CASE ~(t.para_len >= 2)
    <3>1. d = t
      BY <2>1, <2>7
    <3>2. t.rx_idx = t.len + 3 + t.para_len
      BY <1>2, <2>2, <2>5
    <3> QED
      BY <2>5, <3>1, <3>2 DEF InFrame
  <2> QED
    BY <2>6, <2>7
<1> QED
  BY <1>3, <1>4, <1>5, <1>6, <1>7, CtxFields DEF States

AtStart(c) == c.state = "HEAD" => c.is_ready \/ c.rx_idx = 0

(* A frame grows only while none is queued or handled; after that it       *)
(* starts at the beginning of the buffer.                                  *)
Progress ==
  Patient /\ ~Slow =>
    /\ InFrame(ctx)
    /\ pending = 0 /\ proc = "idle" => AtStart(ctx)
    /\ pending # 0 \/ proc # "idle" => ctx.state = "HEAD"

PInv == IInv /\ Quiet /\ Progress

(* One call of ci_port_rx_hdl while no frame is queued or handled. *)
LEMMA ReceiveInFrame ==
  ASSUME NEW c \in Ctx, NEW b \in Byte, CountsBytes(c), InFrame(c), AtStart(c),
         pending = 0, Receive(c, b)
  PROVE  /\ InFrame(ctx') /\ AtStart(ctx')
         /\ pending' # 0 => ctx'.state = "HEAD"
         /\ ~c.is_ready /\ ctx'.is_ready => WholeFrame(ctx')
<1> DEFINE d == ci_port_rx(c, b)
<1>1. CASE c.is_ready
  BY <1>1, ReadyRefuses
<1>2. CASE ~c.is_ready
  <2> DEFINE e == IF c.rx_idx >= RxBufMax THEN Reset(c) ELSE c
  <2>1. d = RxByState(e, b)
    BY <1>2 DEF ci_port_rx
  <2>2. /\ e \in Ctx /\ e.rx_idx < RxBufMax /\ CountsBytes(e) /\ ~e.is_ready
        /\ InFrame(e) /\ (e.state = "HEAD" => e.rx_idx = 0)
    BY <1>2, ResetTyped, CiPortAssumption DEF Ctx, CountsBytes, InFrame, AtStart
  <2> HIDE DEF d, e
  <2>3. /\ d \in Ctx /\ InFrame(d) /\ AtStart(d)
        /\ d.is_ready => WholeFrame(d)
    BY <2>1, <2>2, ByStateInFrame, ByStateTyped DEF AtStart
  <2>4. CASE Begins(c, d)
    <3>1. ~Completes(c, d)
      BY <2>3, <2>4 DEF Begins, Completes, InFrame
    <3>2. /\ ctx' = d \/ ctx' = Reset(d)
          /\ pending' = 0
      BY <2>4, <3>1 DEF Receive, StartTimeout, d
    <3>3. /\ InFrame(Reset(d)) /\ AtStart(Reset(d)) /\ ~Reset(d).is_ready
      BY <2>3, ResetTyped DEF InFrame, AtStart
    <3> QED
      BY <2>3, <3>2, <3>3
  <2>5. CASE ~Begins(c, d)
    <3>1. ctx' = d
      BY <2>5 DEF Receive, d
    <3>2. pending' # 0 => d.is_ready
      BY DEF Receive, Completes, d
    <3>3. d.is_ready => d.state = "HEAD"
      BY <2>3 DEF InFrame
    <3> QED
      BY <2>3, <3>1, <3>2, <3>3
  <2> QED
    BY <2>4, <2>5
<1> QED
  BY <1>1, <1>2

(* The bytes of a patient host, in either interrupt. *)
LEMMA PatientByte ==
  ASSUME PInv, Patient, ~Slow, NEW b \in Byte, RxIntr(b) \/ RxIdleIntr(b)
  PROVE  /\ Progress'
         /\ ~ctx.is_ready /\ ctx'.is_ready => WholeFrame(ctx')
<1>1. /\ ctx \in Ctx /\ CountsBytes(ctx) /\ InFrame(ctx) /\ AtStart(ctx)
      /\ pending = 0 /\ proc = "idle"
  BY DEF PInv, IInv, CiTypeOK, Ctx, Progress, RxIntr, RxIdleIntr, HostMaySend
<1>2. PICK c \in {ctx, Reset(ctx)} : Receive(c, b)
  BY DEF RxIntr, RxIdleIntr
<1>3. /\ c \in Ctx /\ CountsBytes(c) /\ InFrame(c) /\ AtStart(c)
      /\ ~ctx.is_ready => ~c.is_ready
  BY <1>1, ResetTyped DEF CountsBytes, InFrame, AtStart
<1>4. /\ InFrame(ctx') /\ AtStart(ctx')
      /\ pending' # 0 => ctx'.state = "HEAD"
      /\ ~c.is_ready /\ ctx'.is_ready => WholeFrame(ctx')
  BY <1>1, <1>2, <1>3, ReceiveInFrame
<1>5. proc' = "idle"
  BY <1>1, <1>2 DEF Receive
<1> QED
  BY <1>3, <1>4, <1>5 DEF Progress, AtStart

LEMMA ProgressStep == PInv /\ [Next]_vars => Progress'
<1> SUFFICES ASSUME PInv, [Next]_vars, Patient', ~Slow'
             PROVE  Progress'
  BY DEF Progress
<1>1. /\ Patient /\ ~Slow /\ tproc = "idle" /\ ~due
      /\ ctx \in Ctx
  BY DEF PInv, IInv, CiTypeOK, Ctx, Quiet, Patient, Slow, vars, Next, RxIntr,
         RxIdleIntr, RxIdleEmpty, Receive, Expire, TimeoutStep, TimeoutMsg, TimeoutStop,
         TimeoutReset, FrameStep, TakeFrame, Parse, RunCmd, FrameReset
<1>2. /\ InFrame(ctx)
      /\ pending = 0 /\ proc = "idle" => AtStart(ctx)
      /\ pending # 0 \/ proc # "idle" => ctx.state = "HEAD"
  BY <1>1 DEF PInv, Progress
<1>3. ASSUME NEW b \in Byte, RxIntr(b) \/ RxIdleIntr(b) PROVE Progress'
  BY <1>1, <1>3, PatientByte
<1>10. CASE RxIdleEmpty
  <2>1. /\ ctx'.state = "HEAD" /\ ctx'.rx_idx = 0 /\ pending' = pending /\ proc' = proc
    BY <1>1, <1>10, ResetTyped DEF RxIdleEmpty
  <2> QED
    BY <2>1 DEF Progress, InFrame, AtStart
<1>4. ASSUME Expire PROVE FALSE
  BY <1>1, <1>4 DEF Expire
<1>5. ASSUME TimeoutStep PROVE FALSE
  BY <1>1, <1>5 DEF TimeoutStep, TimeoutMsg, TimeoutStop, TimeoutReset, ResetStore
<1>6. CASE TakeFrame
  <2>1. ctx' = ctx /\ proc' = "parse" /\ ctx.state = "HEAD"
    BY <1>2, <1>6 DEF TakeFrame, PInv, IInv, CiTypeOK
  <2> QED
    BY <1>2, <2>1 DEF Progress
<1>7. CASE Parse \/ RunCmd
  <2>1. ctx' = ctx /\ proc # "idle" /\ proc' # "idle"
    BY <1>7 DEF Parse, RunCmd
  <2> QED
    BY <1>2, <2>1 DEF Progress
<1>8. CASE FrameReset
  <2>1. PICK q \in {"ready", "idx", "idle"} : ResetStore(proc, q) /\ proc' = q
    BY <1>8 DEF FrameReset
  <2>2. proc # "idle" /\ ctx.state = "HEAD"
    BY <1>2, <2>1 DEF ResetStore
  <2>3. ctx'.state = "HEAD" /\ (q = "idle" => ctx'.rx_idx = 0)
    BY <1>1, <2>1, <2>2 DEF ResetStore, Ctx
  <2> QED
    BY <2>1, <2>3 DEF Progress, InFrame, AtStart
<1>9. CASE UNCHANGED vars
  BY <1>2, <1>9 DEF vars, Progress
<1> QED
  BY <1>3, <1>4, <1>5, <1>6, <1>7, <1>8, <1>9, <1>10 DEF Next, FrameStep

(* A host that waits until its last frame is done with, and does not pause *)
(* within one, has only whole frames handed over: they start with a head   *)
(* and have the length they say, with any noise before them, whatever the  *)
(* size of the buffer and wherever a failing timer call gives a frame up.  *)
THEOREM FramesWhole == Spec => FrameWellFormed
<1> DEFINE A == Patient /\ ~Slow /\ ~ctx.is_ready /\ ctx'.is_ready => WholeFrame(ctx')
<1>1. Init => PInv
  BY InitInv DEF PInv, Quiet, Progress, InFrame, AtStart, Init
<1>2. PInv /\ [Next]_vars => PInv'
  BY StepInv, QuietStep, ProgressStep DEF PInv
<1>3. PInv /\ [Next]_vars => [A]_vars
  <2> SUFFICES ASSUME PInv, [Next]_vars, Patient, ~Slow, ~ctx.is_ready
               PROVE  ctx'.is_ready => WholeFrame(ctx')
    OBVIOUS
  <2>1. ctx \in Ctx /\ tproc = "idle" /\ ~due
    BY DEF PInv, IInv, CiTypeOK, Ctx, Quiet
  <2>2. ASSUME NEW b \in Byte, RxIntr(b) \/ RxIdleIntr(b)
        PROVE  ctx'.is_ready => WholeFrame(ctx')
    BY <2>2, PatientByte
  <2>3. ASSUME TimeoutStep PROVE FALSE
    BY <2>1, <2>3 DEF TimeoutStep, TimeoutMsg, TimeoutStop, TimeoutReset, ResetStore
  <2>4. ASSUME FrameReset PROVE ~ctx'.is_ready
    BY <2>1, <2>4 DEF FrameReset, ResetStore, Ctx
  <2>5. ASSUME Expire \/ TakeFrame \/ Parse \/ RunCmd \/ UNCHANGED vars
        PROVE  ctx' = ctx
    BY <2>5 DEF Expire, TakeFrame, Parse, RunCmd, vars
  <2>6. ASSUME RxIdleEmpty PROVE ~ctx'.is_ready
    BY <2>1, <2>6, ResetTyped DEF RxIdleEmpty
  <2> QED
    BY <2>2, <2>3, <2>4, <2>5, <2>6 DEF Next, FrameStep
<1>4. Spec => [][A]_vars
  BY <1>1, <1>2, <1>3, PTL DEF Spec
<1> QED
  BY <1>4 DEF FrameWellFormed, WholeFrame
=============================================================================
