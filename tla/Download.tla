------------------------------ MODULE Download ------------------------------
(***************************************************************************)
(* The start of a download, utils/ci/src/ci_dld.c in the builds with       *)
(* FreeRTOS, on top of the ring buffer between the receive interrupt and   *)
(* the download task.  While m_ymodem_run is set, the interrupt hands      *)
(* every byte to the fifo instead of the command receiver.                 *)
(*                                                                         *)
(* What Ymodem_Receive makes of its bytes is Ymodem's matter; here it      *)
(* takes bytes and returns at some time.  A host that retries sends a      *)
(* second start command while the first is queued or being answered, which *)
(* the idle interrupt makes the receiver accept.                           *)
(*                                                                         *)
(* conf.use = "samples" is the ring buffer alone, used in any order.       *)
(***************************************************************************)
EXTENDS Fifo

CONSTANTS
  Confs,          \* [use : {"samples", "download"}, retries : BOOLEAN]
  CreateMayFail   \* whether xTaskCreate may find no memory

ASSUME DownloadAssumption == CreateMayFail \in BOOLEAN

VARIABLES
  conf,
  run,      \* m_ymodem_run
  starts,   \* start commands in the queue of the SYS task
  sys,      \* where the SYS task is in ci_dld_start
  task,     \* the download task: "none", "waits", "receives", "returned"
  notes,    \* its notification value
  bytes     \* history: the bytes handed to the download and not read yet
            \* (kept for hosts that do not retry)

ctlVars == <<conf, run, starts, sys, task, notes, bytes>>
dldVars == <<vars, ctlVars>>

DldInit ==
  /\ Init
  /\ conf \in Confs
  /\ run = 0 /\ starts = 0 /\ sys = "idle" /\ task = "none" /\ notes = 0
  /\ bytes = <<>>

-----------------------------------------------------------------------------
(* The receive interrupt and the host.                                     *)

ci_port_rx_hdl(b) ==
  /\ run = 1
  /\ fifo_enqueue(b)
  /\ bytes' = IF used < item_cnt /\ ~conf.retries THEN Append(bytes, ItemOf(b)) ELSE bytes

RxByte ==
  /\ \E b \in Unit : ci_port_rx_hdl(b)
  /\ UNCHANGED <<conf, run, starts, sys, task, notes>>

\* A start command reaches the queue of SYS only while bytes are commands.
HostStarts ==
  /\ run = 0
  /\ starts = 0 /\ (sys = "idle" \/ conf.retries)
  /\ starts' = 1
  /\ UNCHANGED <<vars, conf, run, sys, task, notes, bytes>>

-----------------------------------------------------------------------------
(* The SYS task: ci_dld_start.                                             *)

TakeStart ==
  /\ sys = "idle" /\ starts = 1
  /\ starts' = 0
  /\ sys' = "init"
  /\ UNCHANGED <<vars, conf, run, task, notes, bytes>>

\* Mutant: the fifo keeps what an earlier download left.
InitStores_KeepUsed ==
  \/ sys = "init" /\ sys' = "write" /\ UNCHANGED vars
  \/ sys = "write" /\ sys' = "read" /\ write' = 0 /\ UNCHANGED <<buf, read, used, out>>
  \/ sys = "read" /\ sys' = "test" /\ read' = 0 /\ UNCHANGED <<buf, write, used, out>>

\* pf->read = pf->write = pf->used = 0, outside any critical section
InitStores ==
  \/ sys = "init" /\ sys' = "write" /\ used' = 0 /\ UNCHANGED <<buf, read, write, out>>
  \/ sys = "write" /\ sys' = "read" /\ write' = 0 /\ UNCHANGED <<buf, read, used, out>>
  \/ sys = "read" /\ sys' = "test" /\ read' = 0 /\ UNCHANGED <<buf, write, used, out>>

InitFifo == InitStores /\ UNCHANGED <<conf, run, starts, task, notes, bytes>>

\* A start that finds a download running is answered like any other.
TestRun ==
  /\ sys = "test"
  /\ IF run = 0 THEN run' = 1 /\ bytes' = <<>> /\ sys' = "create"
     ELSE UNCHANGED <<run, bytes>> /\ sys' = "idle"
  /\ UNCHANGED <<vars, conf, starts, task, notes>>

CreateTask ==
  /\ sys = "create"
  /\ task' \in IF task # "none" THEN {task}
               ELSE {"waits"} \cup (IF CreateMayFail THEN {"none"} ELSE {})
  /\ sys' = "notify"
  /\ UNCHANGED <<vars, conf, run, starts, notes, bytes>>

Notify ==
  /\ sys = "notify"
  /\ notes' = IF task # "none" THEN notes + 1 ELSE notes
  /\ sys' = "idle"
  /\ UNCHANGED <<vars, conf, run, starts, task, bytes>>

-----------------------------------------------------------------------------
(* The download task: ymodem_recv_entry.                                   *)

\* ulTaskNotifyTake(pdTRUE, portMAX_DELAY)
TakeNotify ==
  /\ task = "waits" /\ notes > 0
  /\ notes' = 0 /\ task' = "receives"
  /\ UNCHANGED <<vars, conf, run, starts, sys, bytes>>

ReadByte ==
  /\ task = "receives"
  /\ fifo_dequeue
  /\ bytes' = IF used > 0 /\ bytes # <<>> THEN Tail(bytes) ELSE bytes
  /\ UNCHANGED <<conf, run, starts, sys, task, notes>>

Ymodem_Receive_Returns ==
  /\ task = "receives"
  /\ task' = "returned"
  /\ UNCHANGED <<vars, conf, run, starts, sys, notes, bytes>>

\* Mutant: the flag stays set.
ClearRun_Forgets ==
  /\ task = "returned"
  /\ task' = "waits"
  /\ UNCHANGED <<vars, conf, run, starts, sys, notes, bytes>>

ClearRun ==
  /\ task = "returned"
  /\ run' = 0 /\ task' = "waits"
  /\ UNCHANGED <<vars, conf, starts, sys, notes, bytes>>

-----------------------------------------------------------------------------

SysStep == TakeStart \/ InitFifo \/ TestRun \/ CreateTask \/ Notify
TaskStep == TakeNotify \/ Ymodem_Receive_Returns \/ ClearRun

DldNext ==
  \/ conf.use = "samples" /\ Next /\ UNCHANGED ctlVars
  \/ conf.use = "download" /\ (RxByte \/ HostStarts \/ SysStep \/ TaskStep \/ ReadByte)

\* The tasks run whatever arrives, and Ymodem_Receive returns: the file ends,
\* or the errors of a silent or failing sender reach their limit.
Fairness ==
  /\ WF_dldVars(conf.use = "download" /\ SysStep)
  /\ WF_dldVars(conf.use = "download" /\ TakeNotify)
  /\ WF_dldVars(conf.use = "download" /\ Ymodem_Receive_Returns)
  /\ WF_dldVars(conf.use = "download" /\ ClearRun)

DldSpec == DldInit /\ [][DldNext]_dldVars /\ Fairness

-----------------------------------------------------------------------------
(* Correctness.                                                            *)

(* The abstract queue. *)
Queue == INSTANCE BoundedQueue
  WITH q <- IF conf.use = "samples" THEN Content ELSE <<>>,
       out <- IF conf.use = "samples" THEN out ELSE [ret |-> 0, val |-> <<>>],
       Item <- {ItemOf(v) : v \in Unit},
       Capacity <- item_cnt

(* The ring buffer is a fifo: across wraps of the ring and of the u32      *)
(* indices, and whatever the order of the calls, every item comes out      *)
(* once, in order and unchanged, none is taken beyond the capacity, and    *)
(* the caller is told what was taken (fifo.c).                             *)
ImplementsQueue == Queue!Spec

(* A download reads the bytes that were received since its start, none of  *)
(* an earlier one: fifo_init needs no critical section as long as the host *)
(* does not send a second start before the first is served (ci_dld_start). *)
ReadsItsOwn ==
  conf.use = "download" /\ ~conf.retries /\ run = 1 => Content = bytes

(* The command receiver gets its bytes back: a download that was started   *)
(* ends, in whatever order starts, bytes and the task come, if the task    *)
(* could be created (ci_dld_start, ymodem_recv_entry).                     *)
GivesBack == run = 1 ~> run = 0
=============================================================================
