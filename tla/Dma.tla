--------------------------------- MODULE Dma ---------------------------------
(***************************************************************************)
(* One channel of the GPDMA and its driver, stm32wbaxx_hal_dma.c, with the *)
(* functions of stm32wbaxx_hal_dma_ex.c that start, suspend and resume a   *)
(* channel.  A handle and the registers of its channel are one record, and *)
(* a function of the driver is an operator from the record before the call *)
(* to the record after it.  The field ret is what the call returns, called *)
(* the callbacks it makes, in order.                                       *)
(*                                                                         *)
(* A block is counted in halves: left = 2 at its start, 1 when the half    *)
(* is reached, 0 at its end.  Widths, increments, bursts and addresses are *)
(* left out.  NULL arguments are left out.                                 *)
(***************************************************************************)
EXTENDS Naturals, Sequences

HwError == {"DTE", "ULE", "USE", "TO"}           \* TO: trigger overrun
Flag == {"TC", "HT", "SUSP"} \cup HwError
Callback == {"Cplt", "Half", "Error", "Abort", "Suspend"}
Mode == {"NORMAL", "LIST", "CIRCULAR"}           \* the last two are lists

(* ret "WAIT": the call waits for the channel, the interrupts may come.     *)
DmaHandle ==
  [state: {"RESET", "READY", "BUSY", "SUSPEND", "ABORT", "ERROR"},
   lock: BOOLEAN, mode: Mode, err: SUBSET (HwError \cup {"TIMEOUT", "NO_XFER", "BUSY", "NOT_SUPPORTED"}),
   registered: SUBSET Callback,
   en: BOOLEAN, susp: BOOLEAN, oneNode: BOOLEAN,  \* CCR.EN, SUSP, LSM
   it: SUBSET Flag, flags: SUBSET Flag,           \* CCR.xxIE, CSR
   left: 0 .. 2, next: BOOLEAN,                   \* CBR1; CLLR is not zero
   queue: BOOLEAN, qstate: {"READY", "BUSY"},     \* LinkedListQueue, its State
   priv: BOOLEAN, attrLock: BOOLEAN,              \* PRIVCFGR, RCFGLOCKR
   ret: {"OK", "ERROR", "BUSY", "WAIT"}, called: Seq(Callback)]

DmaReset ==
  [state |-> "RESET", lock |-> FALSE, mode |-> "NORMAL", err |-> {}, registered |-> {},
   en |-> FALSE, susp |-> FALSE, oneNode |-> FALSE, it |-> {}, flags |-> {},
   left |-> 0, next |-> FALSE, queue |-> FALSE, qstate |-> "READY",
   priv |-> FALSE, attrLock |-> FALSE, ret |-> "OK", called |-> <<>>]

IsList(d) == d.mode # "NORMAL"
Returns(d, status) == [d EXCEPT !.ret = status]
Refuse(d, e) == [d EXCEPT !.err = {e}, !.lock = FALSE, !.ret = "ERROR"]
Calls(d, c) == IF c \in d.registered THEN [d EXCEPT !.called = Append(@, c)] ELSE d
QueueReady(d) == IF IsList(d) THEN [d EXCEPT !.qstate = "READY"] ELSE d

(* DMA_CCR_RESET stops the channel; the interrupts stay enabled.            *)
ChannelReset(d) == [d EXCEPT !.en = FALSE, !.susp = FALSE]

-----------------------------------------------------------------------------
(* Faulty variants, see the module Sequencer.                               *)

DoneStaysRaised(d) ==
  LET last == d.left = 0 /\ (IsList(d) => ~d.next)
      done == IF last THEN [QueueReady(d) EXCEPT !.state = "READY"] ELSE d
  IN Calls([done EXCEPT !.lock = FALSE], "Cplt")

-----------------------------------------------------------------------------
(* Initialisation.  stuck: the channel does not stop within the timeout.    *)

DMA_Init(d) == [d EXCEPT !.oneNode = FALSE, !.left = 0, !.next = FALSE]

HAL_DMA_Init(d, stuck) ==
  LET off == [d EXCEPT !.lock = FALSE, !.en = FALSE,
                       !.registered = IF d.state = "RESET" THEN {} ELSE @]
  IN IF stuck THEN [off EXCEPT !.err = {"TIMEOUT"}, !.state = "ERROR", !.ret = "ERROR"]
              ELSE [DMA_Init(off) EXCEPT !.mode = "NORMAL", !.err = {}, !.state = "READY",
                                         !.ret = "OK"]

HAL_DMA_DeInit(d, stuck) ==
  IF stuck THEN [d EXCEPT !.en = FALSE, !.err = {"TIMEOUT"}, !.state = "ERROR", !.ret = "ERROR"]
  ELSE [DmaReset EXCEPT !.attrLock = d.attrLock, !.qstate = d.qstate, !.called = d.called]

(* mode: LIST or CIRCULAR; oneNode: DMA_LSM_1LINK_EXECUTION.                *)
DMA_List_Init(d, oneNode) ==
  [d EXCEPT !.oneNode = oneNode, !.left = 0, !.next = FALSE]

HAL_DMAEx_List_Init(d, mode, oneNode, stuck) ==
  LET off == [d EXCEPT !.lock = FALSE, !.en = FALSE] IN
  IF stuck THEN [off EXCEPT !.err = {"TIMEOUT"}, !.state = "ERROR", !.ret = "ERROR"]
  ELSE [DMA_List_Init(off, oneNode) EXCEPT !.mode = mode, !.err = {}, !.state = "READY",
                                           !.ret = "OK"]

HAL_DMAEx_List_DeInit(d, stuck) ==
  IF stuck THEN [d EXCEPT !.en = FALSE, !.err = {"TIMEOUT"}, !.state = "ERROR", !.ret = "ERROR"]
  ELSE [DmaReset EXCEPT !.attrLock = d.attrLock, !.called = d.called]

(* circular: the queue has a first circular node.                          *)
HAL_DMAEx_List_LinkQ(d, circular) ==
  IF d.state \in {"BUSY", "SUSPEND"} THEN Refuse(d, "BUSY")
  ELSE IF d.qstate = "BUSY" \/ (d.mode = "CIRCULAR") # circular THEN Returns(d, "ERROR")
  ELSE [d EXCEPT !.queue = TRUE, !.ret = "OK"]

HAL_DMAEx_List_UnLinkQ(d) ==
  IF d.state \in {"BUSY", "SUSPEND"} THEN Refuse(d, "BUSY")
  ELSE [d EXCEPT !.queue = FALSE, !.ret = "OK"]

-----------------------------------------------------------------------------
(* Start of a transfer.                                                     *)

DMA_SetConfig(d) == [d EXCEPT !.left = 2, !.flags = {}]

HAL_DMA_Start(d) ==
  IF d.lock THEN Returns(d, "BUSY")
  ELSE IF d.state # "READY" THEN Refuse(d, "BUSY")
  ELSE [DMA_SetConfig(d) EXCEPT !.lock = TRUE, !.state = "BUSY", !.err = {},
                                !.en = TRUE, !.ret = "OK"]

ItSources(d) ==
  {"TC"} \cup HwError \cup (IF "Half" \in d.registered THEN {"HT"} ELSE {})
         \cup (IF "Suspend" \in d.registered THEN {"SUSP"} ELSE {})

HAL_DMA_Start_IT(d) ==
  IF d.lock THEN Returns(d, "BUSY")
  ELSE IF d.state # "READY" THEN Refuse(d, "BUSY")
  ELSE [DMA_SetConfig(d) EXCEPT !.lock = TRUE, !.state = "BUSY", !.err = {},
                                !.it = @ \cup ItSources(d), !.en = TRUE, !.ret = "OK"]

(* A list starts at its head: the channel loads the first node by itself.   *)
(* With one node at a time a further call starts the next one.              *)
LoadHead(d) ==
  [d EXCEPT !.lock = TRUE, !.state = "BUSY", !.qstate = "BUSY", !.err = {}, !.next = TRUE]

HAL_DMAEx_List_Start(d) ==
  IF ~d.queue THEN Returns(d, "ERROR")
  ELSE IF d.state = "READY"
  THEN IF d.lock THEN Returns(d, "BUSY") ELSE [LoadHead(d) EXCEPT !.en = TRUE, !.ret = "OK"]
  ELSE IF d.state = "BUSY" /\ d.oneNode THEN [d EXCEPT !.en = TRUE, !.ret = "OK"]
  ELSE Refuse(d, "BUSY")

HAL_DMAEx_List_Start_IT(d) ==
  IF ~d.queue THEN Returns(d, "ERROR")
  ELSE IF d.state = "READY"
  THEN IF d.lock THEN Returns(d, "BUSY")
       ELSE [LoadHead(d) EXCEPT !.it = @ \cup ItSources(d), !.en = TRUE, !.ret = "OK"]
  ELSE IF d.state = "BUSY" /\ d.oneNode THEN [d EXCEPT !.en = TRUE, !.ret = "OK"]
  ELSE Refuse(d, "BUSY")

-----------------------------------------------------------------------------
(* Abort, by waiting and by interrupt; suspend and resume.  A function that *)
(* waits is split where it begins to wait.                                  *)

HAL_DMA_Abort(d) ==
  IF d.state # "BUSY" THEN Refuse(d, "NO_XFER")
  ELSE [d EXCEPT !.susp = TRUE, !.state = "SUSPEND", !.ret = "WAIT"]

AbortTimedOut(d) ==
  [QueueReady(d) EXCEPT !.err = @ \cup {"TIMEOUT"}, !.state = "ERROR", !.lock = FALSE,
                        !.ret = "ERROR"]

AbortSuspended(d) ==
  LET r == QueueReady(ChannelReset(d)) IN
  [r EXCEPT !.state = "READY", !.flags = {}, !.left = IF IsList(d) THEN 0 ELSE @,
            !.lock = FALSE, !.ret = "OK"]

HAL_DMA_Abort_IT(d) ==
  IF d.state # "BUSY" THEN [d EXCEPT !.err = {"NO_XFER"}, !.ret = "ERROR"]
  ELSE [d EXCEPT !.state = "ABORT", !.susp = TRUE, !.it = @ \cup {"SUSP"}, !.ret = "OK"]

HAL_DMAEx_Suspend(d) ==
  IF d.state # "BUSY" THEN Refuse(d, "NO_XFER")
  ELSE [d EXCEPT !.susp = TRUE, !.ret = "WAIT"]

SuspendTimedOut(d) ==
  [d EXCEPT !.err = @ \cup {"TIMEOUT"}, !.state = "ERROR", !.lock = FALSE, !.ret = "ERROR"]

SuspendSuspended(d) == [d EXCEPT !.state = "SUSPEND", !.ret = "OK"]

HAL_DMAEx_Suspend_IT(d) ==
  IF d.state # "BUSY" THEN Refuse(d, "NO_XFER")
  ELSE [d EXCEPT !.susp = TRUE, !.it = @ \cup {"SUSP"}, !.ret = "OK"]

HAL_DMAEx_Resume(d) ==
  IF d.state # "SUSPEND" THEN Refuse(d, "NO_XFER")
  ELSE [d EXCEPT !.susp = FALSE, !.flags = @ \ {"SUSP"}, !.state = "BUSY", !.ret = "OK"]

-----------------------------------------------------------------------------
(* PollForTransfer: its entry, and its end once the level is reached.  It   *)
(* calls HAL_DMA_Abort when the time is up.                                 *)

HAL_DMA_PollForTransfer(d) ==
  IF d.state # "BUSY" THEN Refuse(d, "NO_XFER")
  ELSE IF d.mode = "CIRCULAR" THEN [d EXCEPT !.err = {"NOT_SUPPORTED"}, !.ret = "ERROR"]
  ELSE Returns(d, "WAIT")

PollTimedOut(d) == HAL_DMA_Abort([d EXCEPT !.err = @ \cup {"TIMEOUT"}])

(* The level is idle for a full transfer (level TC), the flag HT for half.  *)
LevelReached(d, level) == IF level = "TC" THEN ~d.en ELSE "HT" \in d.flags

PollReached(d, level) ==
  LET seen == d.flags \cap HwError
      noted == [d EXCEPT !.err = @ \cup seen, !.flags = @ \ seen]
  IN IF seen \ {"TO"} # {}
     THEN [QueueReady(ChannelReset(noted)) EXCEPT !.state = "READY", !.lock = FALSE,
                                                  !.ret = "ERROR"]
     ELSE IF level = "HT" THEN [noted EXCEPT !.flags = @ \ {"HT"}, !.ret = "OK"]
     ELSE [QueueReady(noted) EXCEPT !.flags = @ \ {"TC", "HT"}, !.state = "READY",
                                    !.lock = FALSE, !.ret = "OK"]

-----------------------------------------------------------------------------
(* The interrupt.                                                           *)

Raised(d, f) == f \in d.flags \cap d.it

NoteErrors(d) ==
  LET seen == d.flags \cap d.it \cap HwError
  IN [d EXCEPT !.flags = @ \ seen, !.err = @ \cup seen]

HalfReached(d) ==
  IF Raised(d, "HT") THEN Calls([d EXCEPT !.flags = @ \ {"HT"}], "Half") ELSE d

AbortDone(d) ==
  LET r == QueueReady(ChannelReset(d)) IN
  Calls([r EXCEPT !.it = @ \ {"SUSP"}, !.flags = @ \ {"SUSP"}, !.state = "READY",
                  !.left = IF IsList(d) THEN 0 ELSE @, !.lock = FALSE], "Abort")

Suspended(d) ==
  Calls([d EXCEPT !.flags = @ \ {"SUSP"}, !.state = "SUSPEND"], "Suspend")

TransferDone(d) ==
  LET last == d.left = 0 /\ (IsList(d) => ~d.next)
      done == IF last THEN [QueueReady(d) EXCEPT !.state = "READY"] ELSE d
  IN Calls([done EXCEPT !.flags = @ \ {"TC", "HT"}, !.lock = FALSE], "Cplt")

ErrorEnd(d) ==
  Calls([QueueReady(ChannelReset(d)) EXCEPT !.state = "READY", !.lock = FALSE], "Error")

HAL_DMA_IRQHandler(d0) ==
  LET d == HalfReached(NoteErrors([d0 EXCEPT !.called = <<>>])) IN
  IF d0.flags \cap d0.it = {} THEN d0
  ELSE IF Raised(d, "SUSP") /\ d.state = "ABORT" THEN AbortDone(d)
  ELSE LET s == IF Raised(d, "SUSP") THEN Suspended(d) ELSE d
           t == IF Raised(s, "TC") THEN TransferDone(s) ELSE s
       IN IF t.err # {} THEN ErrorEnd(t) ELSE t

-----------------------------------------------------------------------------
(* Callbacks and attributes.                                                *)

HAL_DMA_RegisterCallback(d, c) ==
  IF d.state = "READY" THEN [d EXCEPT !.registered = @ \cup {c}, !.ret = "OK"]
  ELSE Returns(d, "ERROR")

(* which: one callback, or all of them.                                     *)
HAL_DMA_UnRegisterCallback(d, which) ==
  IF d.state = "READY" THEN [d EXCEPT !.registered = @ \ which, !.ret = "OK"]
  ELSE Returns(d, "ERROR")

(* The build is not the secure one: privilege is the only attribute.        *)
HAL_DMA_ConfigChannelAttributes(d, priv) == [d EXCEPT !.priv = priv, !.ret = "OK"]
HAL_DMA_GetConfigChannelAttributes(d) == d.priv
HAL_DMA_GetLockChannelAttributes(d) == d.attrLock

(* Data handling and trigger: only the ready check reaches the state.       *)
HAL_DMAEx_ConfigDataHandling(d) ==
  IF d.state = "READY" THEN Returns(d, "OK") ELSE Refuse(d, "BUSY")
HAL_DMAEx_ConfigTrigger(d) ==
  IF d.state = "READY" THEN Returns(d, "OK") ELSE Refuse(d, "BUSY")
=============================================================================
