------------------------------ MODULE DmaChannel ------------------------------
(***************************************************************************)
(* A channel of the GPDMA in use: the main thread calls the driver (Dma),  *)
(* the channel moves data and raises flags, its interrupt runs.  The two   *)
(* functions that wait, HAL_DMA_Abort and HAL_DMAEx_Suspend, and the poll  *)
(* let the channel and the interrupt step in between.                      *)
(*                                                                         *)
(* The thread keeps to the order the driver's introduction asks for: it    *)
(* initialises a channel that is not transferring, and ends by interrupt   *)
(* only what it started by interrupt.                                      *)
(***************************************************************************)
EXTENDS Dma, FiniteSets

CONSTANTS
  MaxTransfers,    (* bound: transfers that are started                    *)
  MaxNodes         (* bound: nodes a list channel runs through             *)

ASSUME DmaAssumption == MaxTransfers \in Nat /\ MaxNodes \in Nat \ {0}

VARIABLES
  dma,             \* the handle and the registers
  call,            \* the function that waits, or "none"
  nodes,           \* nodes the list still holds after the one in the channel
  transfers,       \* transfers accepted so far
  byInterrupt,     \* the last one was started by interrupt
  ofList,          \* it goes through a list of nodes
  ends             \* history: how often a transfer of one block ended

dmaVars == <<dma, call, nodes, transfers, byInterrupt, ofList, ends>>

DmaInit ==
  /\ dma = [DmaReset EXCEPT !.qstate = "READY"]
  /\ call = "none" /\ nodes = 0 /\ transfers = 0
  /\ byInterrupt = FALSE /\ ofList = FALSE /\ ends = 0

-----------------------------------------------------------------------------
(* The thread.                                                              *)

Free == call = "none"
Transferring == dma.state \in {"BUSY", "SUSPEND", "ABORT"}
Becomes(d) == dma' = [d EXCEPT !.called = <<>>, !.ret = "OK"]
bookkeeping == <<nodes, transfers, byInterrupt, ofList, ends>>

(* The owner sets a channel up: its registers, then its attributes and its  *)
(* callbacks.  Those for half and suspend are optional; with a list all are *)
(* registered here.                                                         *)
Owned(d, optional) ==
  LET reg(e, c) == HAL_DMA_RegisterCallback(e, c)
      three == reg(reg(reg(HAL_DMA_ConfigChannelAttributes(d, FALSE), "Cplt"), "Error"), "Abort")
      all == HAL_DMA_UnRegisterCallback(reg(reg(three, "Half"), "Suspend"),
                                        {"Half", "Suspend"} \ optional)
  IN all

DmaConfigure ==
  /\ Free /\ ~Transferring
  /\ \/ \E stuck \in BOOLEAN, optional \in {{}, {"Half", "Suspend"}} :
          \/ Becomes(Owned(HAL_DMA_Init(dma, stuck), optional))
          \/ \E mode \in {"LIST", "CIRCULAR"}, one \in BOOLEAN :
               /\ optional # {} /\ (one => mode = "LIST")
               /\ Becomes(Owned(HAL_DMAEx_List_Init(dma, mode, one, stuck), optional))
     \/ \E stuck \in BOOLEAN :
          \/ ~IsList(dma) /\ Becomes(HAL_DMA_DeInit(dma, stuck))
          \/ IsList(dma) /\ Becomes(HAL_DMAEx_List_DeInit(dma, stuck))
     \/ \E circular \in BOOLEAN : Becomes(HAL_DMAEx_List_LinkQ(dma, circular))
     \/ Becomes(HAL_DMAEx_List_UnLinkQ(dma))
  /\ UNCHANGED <<call, bookkeeping>>

(* What may be asked at any time: a busy channel refuses it.                *)
DmaAskBusy ==
  /\ Free /\ Transferring /\ dma.state # "ABORT"
  /\ \/ Becomes(HAL_DMAEx_ConfigTrigger(dma)) \/ Becomes(HAL_DMAEx_ConfigDataHandling(dma))
     \/ Becomes(HAL_DMAEx_List_UnLinkQ(dma)) \/ Becomes(HAL_DMA_Start_IT(dma))
  /\ UNCHANGED <<call, bookkeeping>>

Start(f, interrupt) ==
  /\ Becomes(f)
  /\ IF f.ret = "OK"
     THEN /\ transfers' = transfers + 1 /\ ends' = 0 /\ byInterrupt' = interrupt
          /\ ofList' = IsList(dma)
          /\ nodes' = IF IsList(dma) THEN MaxNodes ELSE 0
     ELSE UNCHANGED bookkeeping

DmaStart ==
  /\ Free /\ transfers < MaxTransfers /\ ~Transferring
  /\ IF IsList(dma) THEN \/ Start(HAL_DMAEx_List_Start(dma), FALSE)
                         \/ Start(HAL_DMAEx_List_Start_IT(dma), TRUE)
     ELSE Start(HAL_DMA_Start(dma), FALSE) \/ Start(HAL_DMA_Start_IT(dma), TRUE)
  /\ UNCHANGED call

(* With one node at a time the next one is started by a further call.       *)
DmaNextNode ==
  /\ Free /\ dma.state = "BUSY" /\ dma.oneNode /\ ~dma.en /\ dma.next
  /\ Becomes(HAL_DMAEx_List_Start_IT(dma))
  /\ UNCHANGED <<call, bookkeeping>>

Wait(f, d) == Becomes(d) /\ call' = IF d.ret = "WAIT" THEN f ELSE "none"

DmaEndByWaiting ==
  /\ Free /\ Transferring
  /\ \/ Wait("Abort", HAL_DMA_Abort(dma))
     \/ Wait("Suspend", HAL_DMAEx_Suspend(dma))
     \/ ~byInterrupt /\ \E level \in {"HT", "TC"} : Wait(level, HAL_DMA_PollForTransfer(dma))
  /\ UNCHANGED bookkeeping

DmaEndByInterrupt ==
  /\ Free /\ Transferring /\ byInterrupt
  /\ Becomes(HAL_DMA_Abort_IT(dma)) \/ Becomes(HAL_DMAEx_Suspend_IT(dma))
  /\ UNCHANGED <<call, bookkeeping>>

DmaResume ==
  /\ Free /\ dma.state \in {"SUSPEND", "BUSY"}
  /\ Becomes(HAL_DMAEx_Resume(dma))
  /\ UNCHANGED <<call, bookkeeping>>

(* The waits end when what they wait for has come, or the time is up.       *)
DmaWaitEnds ==
  /\ \/ call = "Abort" /\ "SUSP" \in dma.flags /\ Wait("none", AbortSuspended(dma))
     \/ call = "Abort" /\ Wait("none", AbortTimedOut(dma))
     \/ call = "Suspend" /\ "SUSP" \in dma.flags /\ Wait("none", SuspendSuspended(dma))
     \/ call = "Suspend" /\ Wait("none", SuspendTimedOut(dma))
     \/ call \in {"HT", "TC"} /\ LevelReached(dma, call) /\ Wait("none", PollReached(dma, call))
     \/ call \in {"HT", "TC"} /\ Wait("Abort", PollTimedOut(dma))
  /\ UNCHANGED bookkeeping

-----------------------------------------------------------------------------
(* The channel and its interrupt.                                           *)

Moving == dma.en /\ ~dma.susp

DmaMoves ==
  /\ Moving /\ dma.left > 0
  /\ LET left == dma.left - 1 IN
     dma' = IF left = 1 THEN [dma EXCEPT !.left = left, !.flags = @ \cup {"HT"}]
            ELSE [dma EXCEPT !.left = left, !.flags = @ \cup {"TC"},
                             !.en = dma.next /\ ~dma.oneNode]
  /\ UNCHANGED <<call, bookkeeping>>

(* A list channel loads the next node; the last one has no successor, that  *)
(* of a circular list has.                                                  *)
DmaLoads ==
  /\ Moving /\ dma.left = 0 /\ dma.next /\ nodes > 0
  /\ nodes' = IF dma.mode = "CIRCULAR" THEN nodes ELSE nodes - 1
  /\ dma' = [dma EXCEPT !.left = 2, !.next = nodes' > 0]
  /\ UNCHANGED <<call, transfers, byInterrupt, ofList, ends>>

DmaSuspends ==
  /\ dma.en /\ dma.susp /\ "SUSP" \notin dma.flags
  /\ dma.state \in {"BUSY", "ABORT", "SUSPEND"}
  /\ dma' = [dma EXCEPT !.flags = @ \cup {"SUSP"}]
  /\ UNCHANGED <<call, bookkeeping>>

DmaFails ==
  /\ Moving /\ dma.left > 0
  /\ \E e \in {"DTE", "TO"} :
       dma' = [dma EXCEPT !.flags = @ \cup {e}, !.en = e = "TO"]
  /\ UNCHANGED <<call, bookkeeping>>

Ends(called) == Cardinality({i \in DOMAIN called : called[i] \in {"Cplt", "Abort"}})

DmaInterrupt ==
  /\ dma.flags \cap dma.it # {}
  /\ LET d == HAL_DMA_IRQHandler(dma) IN
     /\ Becomes(d)
     /\ ends' = IF ofList THEN 0 ELSE ends + Ends(d.called)
  /\ UNCHANGED <<call, nodes, transfers, byInterrupt, ofList>>

DmaNext ==
  \/ DmaConfigure \/ DmaAskBusy \/ DmaStart \/ DmaNextNode \/ DmaEndByWaiting
  \/ DmaEndByInterrupt \/ DmaResume \/ DmaWaitEnds
  \/ DmaMoves \/ DmaLoads \/ DmaSuspends \/ DmaFails \/ DmaInterrupt

DmaSpec == DmaInit /\ [][DmaNext]_dmaVars

-----------------------------------------------------------------------------
(* A channel that is ready for a transfer is unlocked and stands still:     *)
(* however the last one ended, by its interrupt, by a poll, an abort or an  *)
(* error, in whatever order, the next Start is not refused and no data of   *)
(* the old transfer moves.                                                  *)
DmaReadyIsIdle == dma.state = "READY" => ~dma.lock /\ ~dma.en

(* A transfer of one block ends once: the completion and the abort callback *)
(* are not both called, and neither twice, though an abort can be asked for *)
(* when the end was raised and not yet handled.                             *)
DmaOneEnd == ends <= 1

(* A transfer ends once, and leaves the channel to the next one.            *)
DmaEndsCleanly == DmaReadyIsIdle /\ DmaOneEnd
=============================================================================
