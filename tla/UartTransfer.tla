----------------------------- MODULE UartTransfer -----------------------------
(***************************************************************************)
(* The transfers of the USART driver (Uart): by polling, by interrupt and  *)
(* by DMA, their aborts, and the interrupt handler.                        *)
(***************************************************************************)
EXTENDS Uart

BlockSize == 2           \* words of a block moved by DMA

SendWord(h) == [h EXCEPT !.txf = @ + 1, !.tc = FALSE, !.txCount = @ - 1]
TakeWord(h) == [h EXCEPT !.rxf = Tail(@), !.buffer = Append(@, Head(h.rxf)), !.rxCount = @ - 1]
RoomToSend(h) == h.txf < IF h.fifo THEN FifoDepth ELSE 1

-----------------------------------------------------------------------------
(* Faulty variants, see the module Sequencer.                               *)

AbortForgetsTx(h) == Says(FlushTx([h EXCEPT !.txCount = 0]), "AbortTxCplt")

StopsListening(h) ==
  IF h.RxState # "BUSY_RX" THEN FlushRx(h)
  ELSE LET t == TakeWord(h) IN IF t.rxCount = 0 THEN t ELSE Disable(t, {"RXNEIE"})

OverrunIgnored(h) == [h EXCEPT !.flags = @ \ LineError]

-----------------------------------------------------------------------------
(* Polling.  A call begins, waits for a flag before every word, and ends;   *)
(* ret "WAIT" while it waits.                                               *)

HAL_UART_Transmit(h, size) ==
  IF h.gState # "READY" THEN Answers(h, "BUSY")
  ELSE [h EXCEPT !.err = {}, !.gState = "BUSY_TX", !.txSize = size, !.txCount = size,
                 !.ret = "WAIT"]

TransmitTimedOut(h) == [h EXCEPT !.gState = "READY", !.ret = "TIMEOUT"]

TransmitGoesOn(h) ==
  IF h.txCount > 0 THEN SendWord(h) ELSE [h EXCEPT !.gState = "READY", !.ret = "OK"]

HAL_UART_Receive(h, size) ==
  IF h.RxState # "READY" THEN Answers(h, "BUSY")
  ELSE [h EXCEPT !.err = {}, !.RxState = "BUSY_RX", !.reception = "STANDARD",
                 !.rxSize = size, !.rxCount = size, !.buffer = <<>>, !.ret = "WAIT"]

ReceiveTimedOut(h) == [h EXCEPT !.RxState = "READY", !.ret = "TIMEOUT"]

ReceiveGoesOn(h) ==
  LET t == TakeWord(h) IN
  IF t.rxCount > 0 THEN t ELSE [t EXCEPT !.RxState = "READY", !.ret = "OK"]

(* While no word has come, the wait looks for an overrun or a receiver      *)
(* timeout, and ends the reception; the caller turns both into a timeout.   *)
UART_WaitOnFlagUntilTimeout(h) ==
  IF "ORE" \in h.flags
  THEN [UART_EndRxTransfer(h) EXCEPT !.flags = @ \ {"ORE"}, !.err = {"ORE"}, !.lock = FALSE]
  ELSE [UART_EndRxTransfer(h) EXCEPT !.flags = @ \ {"RTO"}, !.err = {"RTO"}, !.lock = FALSE]

HAL_UARTEx_ReceiveToIdle(h, size) ==
  LET b == HAL_UART_Receive(h, size) IN
  IF b.ret = "BUSY" THEN b ELSE [b EXCEPT !.reception = "TOIDLE", !.event = "TC"]

(* One turn of its loop: an idle line ends it once a word has come.         *)
ToIdleGoesOn(h) ==
  LET i == [h EXCEPT !.flags = @ \ {"IDLE"}] IN
  IF "IDLE" \in h.flags /\ h.buffer # <<>>
  THEN [i EXCEPT !.event = "IDLE", !.RxState = "READY", !.ret = "OK"]
  ELSE IF h.rxf # <<>> THEN ReceiveGoesOn(i) ELSE i

-----------------------------------------------------------------------------
(* Starting by interrupt.                                                   *)

HAL_UART_Transmit_IT(h, size) ==
  IF h.gState # "READY" THEN Answers(h, "BUSY")
  ELSE LET b == [h EXCEPT !.txSize = size, !.txCount = size, !.err = {},
                          !.gState = "BUSY_TX", !.ret = "OK"]
       IN IF h.fifo
          THEN Enable([b EXCEPT !.TxISR = IF Wide THEN "16BIT_FIFOEN" ELSE "8BIT_FIFOEN"], {"TXFTIE"})
          ELSE Enable([b EXCEPT !.TxISR = IF Wide THEN "16BIT" ELSE "8BIT"], {"TXEIE"})

(* The error interrupts are enabled first: one can come before the rest of  *)
(* UART_Start_Receive_IT.                                                   *)
UART_Start_Receive_IT(h, size) ==
  Enable([h EXCEPT !.rxSize = size, !.rxCount = size, !.RxISR = "none", !.buffer = <<>>,
                   !.err = {}, !.RxState = "BUSY_RX"], {"EIE"})

ArmReceive(h) ==
  LET r == [h EXCEPT !.ret = "OK"] IN
  IF h.fifo /\ h.rxSize >= h.nbRx
  THEN Enable([r EXCEPT !.RxISR = IF Wide THEN "16BIT_FIFOEN" ELSE "8BIT_FIFOEN"],
              ParityBit \cup {"RXFTIE"})
  ELSE Enable([r EXCEPT !.RxISR = IF Wide THEN "16BIT" ELSE "8BIT"], ParityBit \cup {"RXNEIE"})

TimeoutBit(h) == IF h.rtoen THEN {"RTOIE"} ELSE {}

HAL_UART_Receive_IT(h, size) ==
  IF h.RxState # "READY" THEN Answers(h, "BUSY")
  ELSE [UART_Start_Receive_IT(Enable([h EXCEPT !.reception = "STANDARD"], TimeoutBit(h)), size)
          EXCEPT !.ret = "WAIT"]

HAL_UARTEx_ReceiveToIdle_IT(h, size) ==
  IF h.RxState # "READY" THEN Answers(h, "BUSY")
  ELSE [UART_Start_Receive_IT([h EXCEPT !.reception = "TOIDLE", !.event = "TC"], size)
          EXCEPT !.ret = "WAIT"]

(* Its end: an error may have ended the reception already.                  *)
ArmToIdle(h) ==
  LET a == ArmReceive(h) IN
  IF a.reception = "TOIDLE" THEN Enable([a EXCEPT !.flags = @ \ {"IDLE"}], {"IDLEIE"})
  ELSE Answers(a, "ERROR")

-----------------------------------------------------------------------------
(* Starting by DMA.                                                         *)

DmaCallbacks == {"Cplt", "Half", "Error"}

StartChannel(h, s) ==
  LET c == SetAbort([h EXCEPT !.dma[s].registered = @ \cup DmaCallbacks], s, "none")
  IN [c EXCEPT !.dma[s] = IF IsList(c.dma[s]) THEN HAL_DMAEx_List_Start_IT(c.dma[s])
                          ELSE HAL_DMA_Start_IT(c.dma[s])]

HAL_UART_Transmit_DMA(h) ==
  IF h.gState # "READY" THEN Answers(h, "BUSY")
  ELSE LET b == [h EXCEPT !.txSize = BlockSize, !.txCount = BlockSize, !.err = {},
                          !.gState = "BUSY_TX", !.ret = "OK"]
           c == IF h.linked THEN StartChannel(b, "tx") ELSE b
       IN IF h.linked /\ c.dma["tx"].ret # "OK"
          THEN [c EXCEPT !.err = {"DMA"}, !.gState = "READY", !.ret = "ERROR"]
          ELSE [c EXCEPT !.tc = FALSE, !.dmat = TRUE]

UART_Start_Receive_DMA(h) ==
  LET b == [h EXCEPT !.rxSize = BlockSize, !.buffer = <<>>, !.err = {}, !.RxState = "BUSY_RX"]
      c == IF h.linked THEN StartChannel(b, "rx") ELSE b
  IN IF h.linked /\ c.dma["rx"].ret # "OK"
     THEN [c EXCEPT !.err = {"DMA"}, !.RxState = "READY", !.ret = "ERROR"]
     ELSE [Enable(c, ParityBit \cup {"EIE"}) EXCEPT !.dmar = TRUE, !.ret = "OK"]

HAL_UART_Receive_DMA(h) ==
  IF h.RxState # "READY" THEN Answers(h, "BUSY")
  ELSE UART_Start_Receive_DMA(Enable([h EXCEPT !.reception = "STANDARD"], TimeoutBit(h)))

HAL_UARTEx_ReceiveToIdle_DMA(h) ==
  IF h.RxState # "READY" THEN Answers(h, "BUSY")
  ELSE LET r == UART_Start_Receive_DMA([h EXCEPT !.reception = "TOIDLE", !.event = "TC"])
       IN IF r.ret = "OK" THEN Enable([r EXCEPT !.flags = @ \ {"IDLE"}], {"IDLEIE"}) ELSE r

-----------------------------------------------------------------------------
(* Pause, resume and stop of the DMA transfers, and the aborts that wait.   *)
(* A channel that does not stop makes the call return at once.              *)

StopNow(d, stuck) ==
  LET a == HAL_DMA_Abort(d) IN
  IF a.ret # "WAIT" THEN a ELSE IF stuck THEN AbortTimedOut(a) ELSE AbortSuspended(a)

SuspendNow(d, stuck) ==
  LET a == HAL_DMAEx_Suspend(d) IN
  IF a.ret # "WAIT" THEN a ELSE IF stuck THEN SuspendTimedOut(a)
  ELSE SuspendSuspended([a EXCEPT !.flags = @ \cup {"SUSP"}])

GaveUp(h, s) == h.linked /\ h.dma[s].ret = "ERROR" /\ h.dma[s].err = {"TIMEOUT"}
DmaTimeout(h) == [h EXCEPT !.err = {"DMA"}, !.ret = "TIMEOUT"]

HAL_UART_DMAPause(h, stuck) ==
  LET tx == h.dmat /\ h.gState = "BUSY_TX"
      rx == h.dmar /\ h.RxState = "BUSY_RX"
      t == IF tx /\ h.linked THEN [h EXCEPT !.dma["tx"] = SuspendNow(@, stuck)] ELSE h
      r == IF rx /\ h.linked
           THEN [Disable(t, {"PEIE", "EIE"}) EXCEPT !.dma["rx"] = SuspendNow(@, stuck)]
           ELSE t
  IN IF tx /\ GaveUp(t, "tx") THEN DmaTimeout(t)
     ELSE IF rx /\ GaveUp(r, "rx") THEN DmaTimeout(r) ELSE Answers(r, "OK")

HAL_UART_DMAResume(h) ==
  LET t == IF h.gState = "BUSY_TX" /\ h.linked THEN [h EXCEPT !.dma["tx"] = HAL_DMAEx_Resume(@)] ELSE h
      e == Enable([t EXCEPT !.flags = @ \ {"ORE"}], ParityBit \cup {"EIE"})
      r == IF h.linked THEN [e EXCEPT !.dma["rx"] = HAL_DMAEx_Resume(@)] ELSE e
      failed(g) == [g EXCEPT !.err = {"DMA"}, !.ret = "ERROR"]
  IN IF h.gState = "BUSY_TX" /\ h.linked /\ t.dma["tx"].ret = "ERROR" THEN failed(t)
     ELSE IF h.RxState # "BUSY_RX" THEN Answers(t, "OK")
     ELSE IF h.linked /\ r.dma["rx"].ret = "ERROR" THEN failed(r) ELSE Answers(r, "OK")

(* Stops the channel of one side if the USART requests from it.             *)
Unrequest(h, s) == IF s = "tx" THEN [h EXCEPT !.dmat = FALSE] ELSE [h EXCEPT !.dmar = FALSE]
Requests(h, s) == IF s = "tx" THEN h.dmat ELSE h.dmar
StopSide(h, s, stuck) ==
  IF ~Requests(h, s) \/ ~h.linked THEN Unrequest(h, s)
  ELSE [Unrequest(h, s) EXCEPT !.dma[s] = StopNow(@, stuck)]

HAL_UART_DMAStop(h, stuck) ==
  LET tx == h.dmat /\ h.gState = "BUSY_TX"
      rx == h.dmar /\ h.RxState = "BUSY_RX"
      t == IF tx THEN StopSide(h, "tx", stuck) ELSE h
      te == IF tx THEN UART_EndTxTransfer(t) ELSE t
      r == IF rx THEN StopSide(te, "rx", stuck) ELSE te
  IN IF tx /\ GaveUp(t, "tx") THEN DmaTimeout(t)
     ELSE IF rx /\ GaveUp(r, "rx") THEN DmaTimeout(r)
     ELSE Answers(IF rx THEN UART_EndRxTransfer(r) ELSE r, "OK")

IdleBit(h) == IF h.reception = "TOIDLE" THEN {"IDLEIE"} ELSE {}
BothReady(h) == [h EXCEPT !.gState = "READY", !.RxState = "READY", !.reception = "STANDARD"]

HAL_UART_Abort(h, stuck) ==
  LET d == Disable(h, TxBits \cup RxBits \cup IdleBit(h))
      t == StopSide(IF h.dmat THEN SetAbort(d, "tx", "none") ELSE d, "tx", stuck)
      r == StopSide(IF h.dmar THEN SetAbort(t, "rx", "none") ELSE t, "rx", stuck)
  IN IF h.dmat /\ GaveUp(t, "tx") THEN DmaTimeout(t)
     ELSE IF h.dmar /\ GaveUp(r, "rx") THEN DmaTimeout(r)
     ELSE [BothReady(FlushRx(FlushTx(ClearErrors(r)))) EXCEPT
             !.txCount = 0, !.rxCount = 0, !.err = {}, !.ret = "OK"]

HAL_UART_AbortTransmit(h, stuck) ==
  LET d == Disable(h, TxBits)
      t == StopSide(IF h.dmat THEN SetAbort(d, "tx", "none") ELSE d, "tx", stuck)
  IN IF h.dmat /\ GaveUp(t, "tx") THEN DmaTimeout(t)
     ELSE [FlushTx(t) EXCEPT !.txCount = 0, !.gState = "READY", !.ret = "OK"]

HAL_UART_AbortReceive(h, stuck) ==
  LET d == Disable(h, RxBits \cup IdleBit(h))
      r == StopSide(IF h.dmar THEN SetAbort(d, "rx", "none") ELSE d, "rx", stuck)
  IN IF h.dmar /\ GaveUp(r, "rx") THEN DmaTimeout(r)
     ELSE [FlushRx(ClearErrors(r)) EXCEPT !.rxCount = 0, !.RxState = "READY",
                                          !.reception = "STANDARD", !.ret = "OK"]

-----------------------------------------------------------------------------
(* The aborts by interrupt and the callbacks of the channels.               *)

(* What UART_DMATxAbortCallback and its like end with.                      *)
AbortedBoth(h) ==
  Says([BothReady(ClearErrors(h)) EXCEPT !.txCount = 0, !.rxCount = 0, !.err = {}], "AbortCplt")

UART_DMATxAbortCallback(h) ==
  LET c == SetAbort(h, "tx", "none") IN
  IF c.abort["rx"] # "none" THEN c ELSE AbortedBoth(FlushTx(c))

UART_DMARxAbortCallback(h) ==
  LET c == SetAbort(h, "rx", "none") IN
  IF c.abort["tx"] # "none" THEN c ELSE AbortedBoth(FlushRx(c))

UART_DMATxOnlyAbortCallback(h) ==
  Says([FlushTx([h EXCEPT !.txCount = 0]) EXCEPT !.gState = "READY"], "AbortTxCplt")

UART_DMARxOnlyAbortCallback(h) ==
  Says([FlushRx(ClearErrors(h)) EXCEPT !.rxCount = 0, !.RxState = "READY",
                                       !.reception = "STANDARD"], "AbortRxCplt")

UART_DMAAbortOnError(h) == Says([h EXCEPT !.rxCount = 0], "Error")

HAL_UART_Abort_IT(h) ==
  LET d == Disable(h, TxBits \cup RxBits \cup IdleBit(h))
      a == IF ~h.linked THEN d
           ELSE SetAbort(SetAbort(d, "tx", IF h.dmat THEN "TxAbort" ELSE "none"),
                         "rx", IF h.dmar THEN "RxAbort" ELSE "none")
      tx == h.dmat /\ h.linked
      t == IF tx THEN [Unrequest(a, "tx") EXCEPT !.dma["tx"] = HAL_DMA_Abort_IT(@)] ELSE Unrequest(a, "tx")
      txOn == tx /\ t.dma["tx"].ret = "OK"
      t2 == IF tx /\ ~txOn THEN SetAbort(t, "tx", "none") ELSE t
      rx == h.dmar /\ h.linked
      r == IF rx THEN [Unrequest(t2, "rx") EXCEPT !.dma["rx"] = HAL_DMA_Abort_IT(@)] ELSE Unrequest(t2, "rx")
      rxOn == rx /\ r.dma["rx"].ret = "OK"
      r2 == IF rx /\ ~rxOn THEN SetAbort(r, "rx", "none") ELSE r
      \* abortcplt: the last channel asked decides
      waits == IF rx THEN rxOn ELSE txOn
  IN Answers(IF waits THEN r2
             ELSE AbortedBoth(FlushRx(FlushTx([r2 EXCEPT !.RxISR = "none", !.TxISR = "none"]))), "OK")

HAL_UART_AbortTransmit_IT(h) ==
  LET d == Disable(h, TxBits)
      a == [Unrequest(SetAbort(d, "tx", "TxOnly"), "tx") EXCEPT !.dma["tx"] = HAL_DMA_Abort_IT(@)]
      done(g) == Says([g EXCEPT !.txCount = 0, !.TxISR = "none", !.gState = "READY"], "AbortTxCplt")
  IN Answers(IF ~h.dmat THEN done(FlushTx(d))
             ELSE IF ~h.linked THEN done(Unrequest(d, "tx"))
             ELSE IF a.dma["tx"].ret = "OK" THEN a ELSE UART_DMATxOnlyAbortCallback(a), "OK")

HAL_UART_AbortReceive_IT(h) ==
  LET d == Disable(h, RxBits \cup IdleBit(h))
      a == [Unrequest(SetAbort(d, "rx", "RxOnly"), "rx") EXCEPT !.dma["rx"] = HAL_DMA_Abort_IT(@)]
      done(g) == Says([ClearErrors(g) EXCEPT !.rxCount = 0, !.RxState = "READY",
                                             !.reception = "STANDARD"], "AbortRxCplt")
  IN Answers(IF ~h.dmar THEN done(d)
             ELSE IF ~h.linked THEN done(FlushRx(Unrequest(d, "rx")))
             ELSE IF a.dma["rx"].ret = "OK" THEN a ELSE UART_DMARxOnlyAbortCallback(a), "OK")

UART_DMATransmitCplt(h) ==
  IF h.dma["tx"].mode = "CIRCULAR" THEN Says(h, "TxCplt")
  ELSE Enable([h EXCEPT !.txCount = 0, !.dmat = FALSE], {"TCIE"})

UART_DMATxHalfCplt(h) == Says(h, "TxHalf")

UART_DMAReceiveCplt(h) ==
  LET idle == IF h.reception = "TOIDLE" THEN {"IDLEIE"} ELSE {}
      e == IF h.dma["rx"].mode = "CIRCULAR" THEN h
           ELSE [Disable(h, {"PEIE", "EIE"} \cup idle) EXCEPT
                   !.rxCount = 0, !.dmar = FALSE, !.RxState = "READY"]
      c == [e EXCEPT !.event = "TC"]
      left == h.dma["rx"].left
  IN IF h.reception = "TOIDLE"
     THEN Says([c EXCEPT !.rxCount = IF left < h.rxSize THEN left ELSE 0], "RxEvent")
     ELSE Says(c, "RxCplt")

UART_DMARxHalfCplt(h) ==
  LET c == [h EXCEPT !.event = "HT"] IN
  IF h.reception = "TOIDLE"
  THEN Says([c EXCEPT !.rxCount = IF h.dma["rx"].left <= h.rxSize THEN h.dma["rx"].left
                                  ELSE h.rxSize \div 2], "RxEvent")
  ELSE Says(c, "RxHalf")

(* An error of one channel ends the transfers of both sides.                *)
UART_DMAError(h) ==
  LET t == IF h.dmat /\ h.gState = "BUSY_TX" THEN UART_EndTxTransfer([h EXCEPT !.txCount = 0]) ELSE h
      r == IF h.dmar /\ h.RxState = "BUSY_RX" THEN UART_EndRxTransfer([t EXCEPT !.rxCount = 0]) ELSE t
  IN Says([r EXCEPT !.err = @ \cup {"DMA"}], "Error")

TxChannelCalls(h, c) ==
  CASE c = "Half" -> UART_DMATxHalfCplt(h)
    [] c = "Cplt" -> UART_DMATransmitCplt(h)
    [] c = "Error" -> UART_DMAError(h)
    [] c = "Abort" /\ h.abort["tx"] = "TxAbort" -> UART_DMATxAbortCallback(h)
    [] c = "Abort" /\ h.abort["tx"] = "TxOnly" -> UART_DMATxOnlyAbortCallback(h)

RxChannelCalls(h, c) ==
  CASE c = "Half" -> UART_DMARxHalfCplt(h)
    [] c = "Cplt" -> UART_DMAReceiveCplt(h)
    [] c = "Error" -> UART_DMAError(h)
    [] c = "Abort" /\ h.abort["rx"] = "RxAbort" -> UART_DMARxAbortCallback(h)
    [] c = "Abort" /\ h.abort["rx"] = "RxOnly" -> UART_DMARxOnlyAbortCallback(h)
    [] c = "Abort" /\ h.abort["rx"] = "OnError" -> UART_DMAAbortOnError(h)

(* The interrupt of a channel: the driver of the DMA, then its callbacks.   *)
TxChannelIRQ(h) ==
  LET d == HAL_DMA_IRQHandler(h.dma["tx"])
  IN FoldLeft(TxChannelCalls, [h EXCEPT !.dma["tx"] = [d EXCEPT !.called = <<>>]], d.called)
RxChannelIRQ(h) ==
  LET d == HAL_DMA_IRQHandler(h.dma["rx"])
  IN FoldLeft(RxChannelCalls, [h EXCEPT !.dma["rx"] = [d EXCEPT !.called = <<>>]], d.called)

-----------------------------------------------------------------------------
(* The interrupt of the USART.                                              *)

(* One word, and with the FIFO as many as the threshold says.  Nine bits    *)
(* take two bytes of the buffer and are one word here.                      *)
UART_TxISR_8BIT(h) ==
  IF h.gState # "BUSY_TX" THEN h
  ELSE IF h.txCount = 0 THEN Enable(Disable(h, {"TXEIE"}), {"TCIE"}) ELSE SendWord(h)
UART_TxISR_16BIT(h) == UART_TxISR_8BIT(h)

UART_TxISR_8BIT_FIFOEN(h) ==
  LET word(g, i) == IF g.txCount = 0 THEN Enable(Disable(g, {"TXFTIE"}), {"TCIE"})
                    ELSE IF RoomToSend(g) THEN SendWord(g) ELSE g
  IN IF h.gState # "BUSY_TX" THEN h
     ELSE FoldLeft(word, h, [i \in 1 .. h.nbTx |-> i])
UART_TxISR_16BIT_FIFOEN(h) == UART_TxISR_8BIT_FIFOEN(h)

(* The last word of a reception.                                            *)
ReceiveDone(h, bits) ==
  LET d == [Disable(h, bits \cup (IF h.rtoen THEN {"RTOIE"} ELSE {})) EXCEPT
              !.RxState = "READY", !.RxISR = "none", !.event = "TC"]
  IN IF h.reception # "TOIDLE" THEN Says(d, "RxCplt")
     ELSE Says([Disable(d, {"IDLEIE"}) EXCEPT !.reception = "STANDARD",
                                              !.flags = @ \ {"IDLE"}], "RxEvent")

UART_RxISR_8BIT(h) ==
  IF h.RxState # "BUSY_RX" THEN FlushRx(h)
  ELSE LET t == TakeWord(h) IN
       IF t.rxCount > 0 THEN t ELSE ReceiveDone(t, {"RXNEIE", "PEIE", "EIE"})
UART_RxISR_16BIT(h) == UART_RxISR_8BIT(h)

(* Errors of a word in the FIFO are reported as it is taken.                *)
WordErrors(h) ==
  LET seen == {e \in h.flags : (e = "PE" /\ "PEIE" \in h.ie) \/ (e \in {"FE", "NE"} /\ "EIE" \in h.ie)}
      u == [h EXCEPT !.flags = @ \ seen, !.err = @ \cup seen]
  IN IF h.flags \cap {"PE", "FE", "NE"} # {} /\ u.err # {} THEN [Says(u, "Error") EXCEPT !.err = {}] ELSE u

UART_RxISR_8BIT_FIFOEN(h) ==
  LET word(g, i) ==
        IF g.rxf = <<>> \/ g.RxState # "BUSY_RX" THEN g
        ELSE LET t == WordErrors(TakeWord(g)) IN
             IF t.rxCount > 0 THEN t ELSE ReceiveDone(t, {"PEIE", "EIE", "RXFTIE"})
      r == FoldLeft(word, h, h.rxf)
  IN IF h.RxState # "BUSY_RX" THEN FlushRx(h)
     ELSE IF r.rxCount # 0 /\ r.rxCount < h.nbRx
     THEN Enable(Disable([r EXCEPT !.RxISR = IF Wide THEN "16BIT" ELSE "8BIT"], {"RXFTIE"}), {"RXNEIE"})
     ELSE r
UART_RxISR_16BIT_FIFOEN(h) == UART_RxISR_8BIT_FIFOEN(h)

CallTxISR(h) ==
  CASE h.TxISR = "8BIT" -> UART_TxISR_8BIT(h)
    [] h.TxISR = "16BIT" -> UART_TxISR_16BIT(h)
    [] h.TxISR = "8BIT_FIFOEN" -> UART_TxISR_8BIT_FIFOEN(h)
    [] h.TxISR = "16BIT_FIFOEN" -> UART_TxISR_16BIT_FIFOEN(h)
    [] OTHER -> h

CallRxISR(h) ==
  CASE h.RxISR = "8BIT" -> UART_RxISR_8BIT(h)
    [] h.RxISR = "16BIT" -> UART_RxISR_16BIT(h)
    [] h.RxISR = "8BIT_FIFOEN" -> UART_RxISR_8BIT_FIFOEN(h)
    [] h.RxISR = "16BIT_FIFOEN" -> UART_RxISR_16BIT_FIFOEN(h)
    [] OTHER -> h

WordPending(h) == h.rxf # <<>> /\ h.ie \cap {"RXNEIE", "RXFTIE"} # {}

(* An overrun, a receiver timeout and any error under DMA end the reception;*)
(* the others are reported and it goes on.                                  *)
ErrorsOnLine(h) ==
  LET seen == {e \in h.flags :
                 \/ e = "PE" /\ "PEIE" \in h.ie
                 \/ e \in {"FE", "NE"} /\ "EIE" \in h.ie
                 \/ e = "ORE" /\ h.ie \cap {"RXNEIE", "RXFTIE", "EIE"} # {}
                 \/ e = "RTO" /\ "RTOIE" \in h.ie}
      u == [h EXCEPT !.flags = @ \ seen, !.err = @ \cup seen]
      r == IF WordPending(h) THEN CallRxISR(u) ELSE u
      e == UART_EndRxTransfer(r)
      a == [Unrequest(SetAbort(e, "rx", "OnError"), "rx") EXCEPT !.dma["rx"] = HAL_DMA_Abort_IT(@)]
  IN IF u.err = {} THEN u
     ELSE IF ~r.dmar /\ r.err \cap {"RTO", "ORE"} = {} THEN [Says(r, "Error") EXCEPT !.err = {}]
     ELSE IF ~r.dmar THEN Says(e, "Error")
     ELSE IF ~h.linked THEN Says(Unrequest(e, "rx"), "Error")
     ELSE IF a.dma["rx"].ret = "OK" THEN a ELSE UART_DMAAbortOnError(a)

(* The line became idle in a reception that ends so.                        *)
IdleOnLine(h) ==
  LET c == [h EXCEPT !.flags = @ \ {"IDLE"}]
      left == h.dma["rx"].left
      some == [c EXCEPT !.rxCount = left]
      stop == [Disable(some, {"PEIE", "EIE", "IDLEIE"}) EXCEPT
                 !.dmar = FALSE, !.RxState = "READY", !.reception = "STANDARD",
                 !.dma["rx"] = StopNow(@, FALSE)]
      ended == [Disable(c, RxBits \cup {"IDLEIE"}) EXCEPT
                  !.RxState = "READY", !.reception = "STANDARD", !.RxISR = "none"]
  IN IF h.dmar
     THEN IF 0 < left /\ left < h.rxSize
          THEN Says([(IF h.dma["rx"].mode = "CIRCULAR" THEN some ELSE stop) EXCEPT !.event = "IDLE"], "RxEvent")
          ELSE IF left = h.rxSize /\ h.dma["rx"].mode = "CIRCULAR"
          THEN Says([c EXCEPT !.event = "IDLE"], "RxEvent") ELSE c
     ELSE IF 0 < h.rxCount /\ h.rxCount < h.rxSize
          THEN Says([ended EXCEPT !.event = "IDLE"], "RxEvent") ELSE c

(* The FIFO's own interrupts, empty and full, are never enabled here.       *)
HAL_UART_IRQHandler(h) ==
  LET errors == h.flags \cap LineError IN
  IF errors = {} /\ WordPending(h) THEN CallRxISR(h)
  ELSE IF errors # {} /\ h.ie \cap {"RXFTIE", "EIE", "RXNEIE", "PEIE", "RTOIE"} # {}
  THEN ErrorsOnLine(h)
  ELSE IF h.reception = "TOIDLE" /\ "IDLE" \in h.flags /\ "IDLEIE" \in h.ie THEN IdleOnLine(h)
  ELSE IF RoomToSend(h) /\ h.ie \cap {"TXEIE", "TXFTIE"} # {} THEN CallTxISR(h)
  ELSE IF h.tc /\ "TCIE" \in h.ie THEN UART_EndTransmit_IT(h)
  ELSE h
=============================================================================
