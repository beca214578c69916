--------------------------------- MODULE Uart ---------------------------------
(***************************************************************************)
(* The driver of the USART, stm32wbaxx_hal_uart.c and _uart_ex.c, with the *)
(* two DMA channels of a handle (Dma).  A handle and its peripheral are    *)
(* one record h; a function is an operator from the record before a call   *)
(* to the record after it, ret what it returns, called the callbacks it    *)
(* makes.  Words are numbered in the order they are on the line.           *)
(*                                                                         *)
(* Left out: the baud rate registers, pins, stop bits and the conversions  *)
(* between eight and nine bits; NULL pointers and empty buffers; a block   *)
(* moved by DMA has two words.  A wait within a call (an abort of a DMA    *)
(* channel, an acknowledge) is one step here: stuck tells its timeout.     *)
(* DmaChannel opens the waits for the channel.                             *)
(***************************************************************************)
EXTENDS Dma, SequencesExt

CONSTANTS
  FifoDepth,        (* RX_FIFO_DEPTH and TX_FIFO_DEPTH                     *)
  Wide,             (* nine bits of data without parity                    *)
  Parity            (* Init.Parity is not UART_PARITY_NONE                 *)

ASSUME UartAssumption ==
  FifoDepth \in Nat \ {0} /\ Wide \in BOOLEAN /\ Parity \in BOOLEAN

LineError == {"PE", "FE", "NE", "ORE", "RTO"}
Side == {"tx", "rx"}

(* ie: CR1.xxIE and CR3.xxIE.  flags: the error and IDLE flags of ISR.      *)
(* txf: words in the transmit register or FIFO; rxf: words received.        *)
UartReset ==
  [gState |-> "RESET", RxState |-> "RESET", lock |-> FALSE,
   reception |-> "STANDARD", event |-> "TC", err |-> {},
   txSize |-> 0, txCount |-> 0, rxSize |-> 0, rxCount |-> 0,
   TxISR |-> "none", RxISR |-> "none", fifo |-> FALSE, nbTx |-> 1, nbRx |-> 1,
   ie |-> {}, dmat |-> FALSE, dmar |-> FALSE, rtoen |-> FALSE, mute |-> FALSE,
   stopMode |-> FALSE, enabled |-> {}, autonomous |-> FALSE,
   flags |-> {}, tc |-> TRUE, txf |-> 0, rxf |-> <<>>, buffer |-> <<>>,
   linked |-> FALSE, dma |-> [s \in Side |-> DmaReset], abort |-> [s \in Side |-> "none"],
   user |-> {}, ret |-> "OK", called |-> <<>>]

Answers(h, status) == [h EXCEPT !.ret = status]
Enable(h, bits) == [h EXCEPT !.ie = @ \cup bits]
Disable(h, bits) == [h EXCEPT !.ie = @ \ bits]
Says(h, c) == [h EXCEPT !.called = Append(@, c)]
Off(h) == [h EXCEPT !.enabled = @ \ {"UE"}]
On(h) == [h EXCEPT !.enabled = @ \cup {"UE"}]
ClearErrors(h) == [h EXCEPT !.flags = @ \ {"PE", "FE", "NE", "ORE"}]
FlushTx(h) == IF h.fifo THEN [h EXCEPT !.txf = 0, !.tc = TRUE] ELSE h
FlushRx(h) == [h EXCEPT !.rxf = <<>>]

(* XferAbortCallback of a channel: none, or the function it is set to.      *)
SetAbort(h, s, f) ==
  [h EXCEPT !.abort[s] = f,
            !.dma[s].registered = IF f = "none" THEN @ \ {"Abort"} ELSE @ \cup {"Abort"}]

TxBits == {"TXEIE", "TCIE", "TXFTIE"}
RxBits == {"RXNEIE", "PEIE", "EIE", "RXFTIE"}
ParityBit == IF Parity THEN {"PEIE"} ELSE {}

-----------------------------------------------------------------------------
(* What ends a transfer.                                                    *)

UART_EndTxTransfer(h) == [Disable(h, TxBits) EXCEPT !.gState = "READY"]

UART_EndRxTransfer(h) ==
  LET idle == IF h.reception = "TOIDLE" THEN {"IDLEIE"} ELSE {}
  IN [Disable(h, RxBits \cup idle) EXCEPT !.RxState = "READY", !.reception = "STANDARD",
                                          !.RxISR = "none"]

UART_EndTransmit_IT(h) ==
  Says([Disable(h, {"TCIE"}) EXCEPT !.gState = "READY", !.TxISR = "none"], "TxCplt")

-----------------------------------------------------------------------------
(* Configuration.                                                           *)

UART_CheckIdleState(h, stuck) ==
  LET e == [h EXCEPT !.err = {}, !.lock = FALSE] IN
  IF stuck = "TE" /\ "TE" \in h.enabled
  THEN [Disable(e, {"TXEIE"}) EXCEPT !.gState = "READY", !.ret = "TIMEOUT"]
  ELSE IF stuck = "RE" /\ "RE" \in h.enabled
  THEN [Disable(e, {"RXNEIE", "PEIE", "EIE"}) EXCEPT !.RxState = "READY", !.ret = "TIMEOUT"]
  ELSE [e EXCEPT !.gState = "READY", !.RxState = "READY", !.reception = "STANDARD",
                 !.event = "TC", !.ret = "OK"]

UART_InitCallbacksToDefault(h) == [h EXCEPT !.user = {}]

(* clock: the kernel clock can give the baud rate.                          *)
UART_SetConfig(h, clock) ==
  [h EXCEPT !.enabled = @ \cup {"TE", "RE"}, !.nbTx = 1, !.nbRx = 1, !.RxISR = "none",
            !.TxISR = "none", !.ret = IF clock THEN "OK" ELSE "ERROR"]

(* HAL_UART_MspInit sets up the two channels and links them.                *)
HAL_UART_MspInit(h) ==
  [h EXCEPT !.linked = TRUE, !.dma = [s \in Side |-> HAL_DMA_Init(h.dma[s], FALSE)]]

HAL_UART_Init(h, clock, stuck) ==
  LET m == IF h.gState = "RESET"
           THEN HAL_UART_MspInit(UART_InitCallbacksToDefault([h EXCEPT !.lock = FALSE]))
           ELSE h
      s == UART_SetConfig(Off([m EXCEPT !.gState = "BUSY"]), clock)
  IN IF s.ret = "ERROR" THEN s ELSE UART_CheckIdleState(On(s), stuck)

(* The other modes differ by registers that are left out.                   *)
HAL_HalfDuplex_Init(h, clock, stuck) == HAL_UART_Init(h, clock, stuck)
HAL_MultiProcessor_Init(h, clock, stuck) == HAL_UART_Init(h, clock, stuck)
HAL_RS485Ex_Init(h, clock, stuck) == HAL_UART_Init(h, clock, stuck)

(* A LIN node samples sixteen times, has eight bits.                        *)
HAL_LIN_Init(h, over8, clock, stuck) ==
  IF over8 \/ Wide THEN Answers(h, "ERROR") ELSE HAL_UART_Init(h, clock, stuck)

HAL_UART_MspDeInit(h) ==
  [h EXCEPT !.dma = [s \in Side |-> HAL_DMA_DeInit(h.dma[s], FALSE)]]

HAL_UART_DeInit(h) ==
  LET z == [Off(h) EXCEPT !.ie = {}, !.dmat = FALSE, !.dmar = FALSE, !.rtoen = FALSE,
                          !.mute = FALSE, !.stopMode = FALSE, !.enabled = {}]
  IN [HAL_UART_MspDeInit(z) EXCEPT !.err = {}, !.gState = "RESET", !.RxState = "RESET",
        !.reception = "STANDARD", !.event = "TC", !.lock = FALSE, !.ret = "OK"]

(* Callbacks are changed in the state READY, those of the MSP in RESET too. *)
MspCallback == {"MspInit", "MspDeInit"}
BadCallback(h) == [h EXCEPT !.err = @ \cup {"CALLBACK"}, !.ret = "ERROR"]
MayChange(h, c) == h.gState = "READY" \/ (h.gState = "RESET" /\ c \in MspCallback)

HAL_UART_RegisterCallback(h, c) ==
  IF MayChange(h, c) THEN [h EXCEPT !.user = @ \cup {c}, !.ret = "OK"] ELSE BadCallback(h)

HAL_UART_UnRegisterCallback(h, c) ==
  IF MayChange(h, c) THEN [h EXCEPT !.user = @ \ {c}, !.ret = "OK"] ELSE BadCallback(h)

HAL_UART_RegisterRxEventCallback(h) ==
  IF h.RxState = "READY" THEN [h EXCEPT !.user = @ \cup {"RxEvent"}, !.ret = "OK"]
  ELSE BadCallback(h)

HAL_UART_UnRegisterRxEventCallback(h) ==
  IF h.RxState = "READY" THEN [h EXCEPT !.user = @ \ {"RxEvent"}, !.ret = "OK"]
  ELSE BadCallback(h)

(* Settings that lock the handle, and leave gState READY.                   *)
Locked(h, g) == IF h.lock THEN Answers(h, "BUSY") ELSE g
Setting(h) == [h EXCEPT !.gState = "READY", !.ret = "OK"]

HAL_UART_EnableReceiverTimeout(h) ==
  IF h.gState # "READY" THEN Answers(h, "BUSY") ELSE Locked(h, Setting([h EXCEPT !.rtoen = TRUE]))
HAL_UART_DisableReceiverTimeout(h) ==
  IF h.gState # "READY" THEN Answers(h, "BUSY") ELSE Locked(h, Setting([h EXCEPT !.rtoen = FALSE]))
HAL_MultiProcessor_EnableMuteMode(h, stuck) ==
  Locked(h, UART_CheckIdleState(Setting([h EXCEPT !.mute = TRUE]), stuck))
HAL_MultiProcessor_DisableMuteMode(h, stuck) ==
  Locked(h, UART_CheckIdleState(Setting([h EXCEPT !.mute = FALSE]), stuck))
HAL_HalfDuplex_EnableTransmitter(h) ==
  Locked(h, Setting([h EXCEPT !.enabled = (@ \ {"RE"}) \cup {"TE"}]))
HAL_HalfDuplex_EnableReceiver(h) ==
  Locked(h, Setting([h EXCEPT !.enabled = (@ \ {"TE"}) \cup {"RE"}]))
HAL_LIN_SendBreak(h) == Locked(h, Setting(h))

HAL_MultiProcessorEx_AddressLength_Set(h, stuck) == UART_CheckIdleState(h, stuck)

(* When the receiver does not answer, gState is left BUSY.                  *)
HAL_UARTEx_StopModeWakeUpSourceConfig(h, stuck) ==
  Locked(h, IF stuck THEN [h EXCEPT !.gState = "BUSY", !.ret = "TIMEOUT"] ELSE Setting(h))
HAL_UARTEx_EnableStopMode(h) == Locked(h, [h EXCEPT !.stopMode = TRUE, !.ret = "OK"])
HAL_UARTEx_DisableStopMode(h) == Locked(h, [h EXCEPT !.stopMode = FALSE, !.ret = "OK"])

(* A threshold is the number of words an interrupt moves, the depth of the  *)
(* FIFO scaled down; one word without the FIFO.                             *)
UARTEx_SetNbDataToProcess(h, tx, rx) ==
  [h EXCEPT !.nbTx = IF h.fifo THEN tx ELSE 1, !.nbRx = IF h.fifo THEN rx ELSE 1]

HAL_UARTEx_EnableFifoMode(h, tx, rx) ==
  Locked(h, Setting(UARTEx_SetNbDataToProcess([h EXCEPT !.fifo = TRUE], tx, rx)))
HAL_UARTEx_DisableFifoMode(h) == Locked(h, Setting([h EXCEPT !.fifo = FALSE]))
HAL_UARTEx_SetTxFifoThreshold(h, tx) ==
  Locked(h, Setting(UARTEx_SetNbDataToProcess(h, tx, h.nbRx)))
HAL_UARTEx_SetRxFifoThreshold(h, rx) ==
  Locked(h, Setting(UARTEx_SetNbDataToProcess(h, h.nbTx, rx)))

HAL_UARTEx_SetConfigAutonomousMode(h) ==
  IF h.gState # "READY" THEN Answers(h, "BUSY")
  ELSE Locked(h, Setting([h EXCEPT !.autonomous = TRUE, !.enabled = @ \ {"TE"}]))
HAL_UARTEx_ClearConfigAutonomousMode(h) ==
  IF h.gState # "READY" THEN Answers(h, "BUSY")
  ELSE Locked(h, Setting([h EXCEPT !.autonomous = FALSE]))
=============================================================================
