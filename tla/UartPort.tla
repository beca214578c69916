------------------------------- MODULE UartPort -------------------------------
(***************************************************************************)
(* The USART in use.  The thread calls the driver (UartTransfer); words    *)
(* leave and arrive on the line, the two DMA channels move them, and three *)
(* interrupts run: the USART's and those of the channels.  Two users:      *)
(*   "console"  the log and the serial commands, adv_trace_usart_if.c: it  *)
(*              transmits by DMA and receives one word at a time by        *)
(*              interrupt, armed again from the completion callback;       *)
(*   "driver"   any caller of the driver, who may start, pause and abort   *)
(*              transfers in any order that the handle accepts.            *)
(* The interrupts come between any two steps, those of a waiting call too. *)
(***************************************************************************)
EXTENDS UartTransfer

CONSTANTS
  MaxPortCalls,    (* bound: calls of the thread                           *)
  MaxWords,        (* bound: words that arrive on the line                 *)
  MaxErrors,       (* bound: errors on the line, and idle lines            *)
  MaxEvents        (* bound: all of these together                         *)

ASSUME PortAssumption == {MaxPortCalls, MaxWords, MaxErrors, MaxEvents} \subseteq Nat

VARIABLES
  port,            \* the handle and the peripheral
  uart,            \* "console" or "driver"
  waiting,         \* the call that waits or has not returned, or "none"
  calls, words, errors,
  gaveUp,          \* history: ends that were lost, see UartTransmitEnds
  first,           \* history: words that came before this reception
  told,            \* history: this reception's caller was told of an error
  deaf             \* history: why the console may have stopped listening

portVars == <<port, uart, waiting, calls, words, errors, gaveUp, first, told, deaf>>
counted == <<uart, words, errors, deaf, first>>
listened == <<uart, words, errors, deaf>>

PortCalled(h, c) == \E i \in DOMAIN h.called : h.called[i] = c

PortBecomes(h) ==
  /\ port' = [h EXCEPT !.called = <<>>, !.ret = "OK"]
  /\ told' = (told \/ PortCalled(h, "Error") \/ h.ret = "TIMEOUT")
PortFree == waiting = "none"
MoreEvents == calls + words + errors < MaxEvents
Idle == port.gState \in {"RESET", "READY"} /\ port.RxState \in {"RESET", "READY"}

(* main.c: MX_USART1_UART_Init.  One eighth of the FIFO is one word.        *)
MX_USART1_UART_Init(h) ==
  HAL_UARTEx_EnableFifoMode(
    HAL_UARTEx_SetRxFifoThreshold(
      HAL_UARTEx_SetTxFifoThreshold(HAL_UART_Init(h, TRUE, "no"), 1), 1), 1, 1)

UART_Init(h) == [h EXCEPT !.user = @ \cup {"TxCplt"}]
UART_DeInit(h) == HAL_UART_DeInit(h)

PortInit ==
  /\ uart \in {"console", "driver"}
  /\ port \in IF uart = "console" THEN {UART_Init(MX_USART1_UART_Init(UartReset))}
              ELSE {UartReset, HAL_UART_Init(UartReset, TRUE, "no"), MX_USART1_UART_Init(UartReset)}
  /\ waiting = "none" /\ calls = 0 /\ words = 0 /\ errors = 0
  /\ gaveUp = {} /\ first = 0 /\ told = FALSE /\ deaf = "no"

Call(h, w) ==
  /\ PortBecomes(h) /\ waiting' = w /\ calls < MaxPortCalls /\ MoreEvents /\ calls' = calls + 1
  /\ UNCHANGED gaveUp

(* A reception begins.                                                      *)
Listen(h, w) ==
  /\ port' = [h EXCEPT !.called = <<>>, !.ret = "OK"] /\ waiting' = w
  /\ calls < MaxPortCalls /\ MoreEvents /\ calls' = calls + 1
  /\ first' = words /\ told' = FALSE /\ UNCHANGED <<gaveUp, listened>>

-----------------------------------------------------------------------------
(* Calls of the thread of a driver: configuration of a handle that is idle, *)
(* here only before the other calls, to bound the states.                   *)

PortInitialise ==
  /\ uart = "driver" /\ PortFree /\ Idle /\ calls = 0
  /\ \E clock \in BOOLEAN, stuck \in {"no", "TE", "RE"} :
       \/ Call(HAL_UART_Init(port, clock, stuck), "none")
       \/ Call(HAL_HalfDuplex_Init(port, clock, stuck), "none")
       \/ Call(HAL_MultiProcessor_Init(port, clock, stuck), "none")
       \/ Call(HAL_RS485Ex_Init(port, clock, stuck), "none")
       \/ \E over8 \in BOOLEAN : Call(HAL_LIN_Init(port, over8, clock, stuck), "none")
       \/ Call(MX_USART1_UART_Init(port), "none")
       \/ Call(UART_DeInit(port), "none")
  /\ UNCHANGED counted

PortConfigure ==
  /\ uart = "driver" /\ PortFree /\ Idle /\ calls = 0 /\ port.gState = "READY"
  /\ \/ Call(HAL_UART_RegisterCallback(port, "TxCplt"), "none")
     \/ Call(HAL_UART_UnRegisterCallback(port, "TxCplt"), "none")
     \/ Call(HAL_UART_RegisterRxEventCallback(port), "none")
     \/ Call(HAL_UART_UnRegisterRxEventCallback(port), "none")
     \/ Call(HAL_UART_EnableReceiverTimeout(port), "none")
     \/ Call(HAL_UART_DisableReceiverTimeout(port), "none")
     \/ Call(HAL_MultiProcessor_EnableMuteMode(port, "no"), "none")
     \/ Call(HAL_MultiProcessor_DisableMuteMode(port, "no"), "none")
     \/ Call(HAL_HalfDuplex_EnableTransmitter(port), "none")
     \/ Call(HAL_HalfDuplex_EnableReceiver(port), "none")
     \/ Call(HAL_LIN_SendBreak(port), "none")
     \/ Call(HAL_MultiProcessorEx_AddressLength_Set(port, "no"), "none")
     \/ \E stuck \in BOOLEAN : Call(HAL_UARTEx_StopModeWakeUpSourceConfig(port, stuck), "none")
     \/ Call(HAL_UARTEx_EnableStopMode(port), "none")
     \/ Call(HAL_UARTEx_DisableStopMode(port), "none")
     \/ Call(HAL_UARTEx_DisableFifoMode(port), "none")
     \/ \E n \in 1 .. FifoDepth : Call(HAL_UARTEx_SetRxFifoThreshold(port, n), "none")
     \/ Call(HAL_UARTEx_SetConfigAutonomousMode(port), "none")
     \/ Call(HAL_UARTEx_ClearConfigAutonomousMode(port), "none")
  /\ UNCHANGED counted

(* Starts.  A call that is refused changes nothing.  A caller that asked    *)
(* for an abort waits for its callback, and a channel stops within a few    *)
(* cycles: a reception begun before could fail, and its abort callback hide *)
(* that of the other side.                                                  *)
Aborting == \E s \in Side : port.dma[s].state = "ABORT"
PortSends ==
  /\ uart = "driver" /\ PortFree /\ port.gState = "READY" /\ ~Aborting
  /\ \/ Call(HAL_UART_Transmit(port, 1), "Transmit")
     \/ Call(HAL_UART_Transmit_IT(port, 2), "none")
     \/ Call(HAL_UART_Transmit_DMA(port), "none")
  /\ UNCHANGED counted

PortListens ==
  /\ uart = "driver" /\ PortFree /\ port.RxState = "READY" /\ ~Aborting
  /\ \E size \in 1 .. 2 :
       \/ Listen(HAL_UART_Receive(port, size), "Receive")
       \/ Listen(HAL_UARTEx_ReceiveToIdle(port, size), "ReceiveToIdle")
       \/ Listen(HAL_UART_Receive_IT(port, size), "Arm")
       \/ Listen(HAL_UARTEx_ReceiveToIdle_IT(port, size), "ArmToIdle")
       \/ Listen(HAL_UART_Receive_DMA(port), "none")
       \/ Listen(HAL_UARTEx_ReceiveToIdle_DMA(port), "none")

(* Who stops or pauses a reception knows that words are lost.               *)
Stop(h) ==
  /\ port' = [h EXCEPT !.called = <<>>, !.ret = "OK"] /\ told' = TRUE
  /\ calls < MaxPortCalls /\ MoreEvents /\ calls' = calls + 1
  /\ gaveUp' = gaveUp \cup {g \in {"stuck"} : h.ret = "TIMEOUT" /\ h.err = {"DMA"}}

PortStops ==
  /\ uart = "driver" /\ PortFree /\ ~Idle
  /\ \/ \E stuck \in BOOLEAN :
          \/ Stop(HAL_UART_Abort(port, stuck)) \/ Stop(HAL_UART_AbortTransmit(port, stuck))
          \/ Stop(HAL_UART_AbortReceive(port, stuck))
          \/ Stop(HAL_UART_DMAStop(port, stuck)) \/ Stop(HAL_UART_DMAPause(port, stuck))
     \/ Stop(HAL_UART_DMAResume(port)) \/ Stop(HAL_UART_Abort_IT(port))
     \/ Stop(HAL_UART_AbortTransmit_IT(port)) \/ Stop(HAL_UART_AbortReceive_IT(port))
  /\ UNCHANGED <<waiting, counted>>

-----------------------------------------------------------------------------
(* The calls of the console.  UART_StartRx registers the completion after   *)
(* it has started the reception.                                            *)

UART_StartRx ==
  /\ uart = "console" /\ PortFree /\ port.RxState = "READY" /\ "RxCplt" \notin port.user
  /\ Listen(HAL_UART_Receive_IT(port, 1), "StartRx")

StartRxRegisters ==
  /\ waiting = "Register" /\ waiting' = "none"
  /\ PortBecomes([port EXCEPT !.user = @ \cup {"RxCplt"}])
  /\ UNCHANGED <<calls, gaveUp, counted>>

UART_TransmitDMA ==
  /\ uart = "console" /\ PortFree /\ Call(HAL_UART_Transmit_DMA(port), "none")
  /\ UNCHANGED counted

(* A faulty variant, see the module Sequencer.                              *)
NotArmedAgain(h) == h

UsartIf_RxCpltCallback(h) == ArmReceive(HAL_UART_Receive_IT(h, 1))

(* What the callbacks an interrupt made do in the application.             *)
CallBack(h) ==
  IF uart = "console" /\ "RxCplt" \in h.user /\ PortCalled(h, "RxCplt")
  THEN UsartIf_RxCpltCallback(h) ELSE h

-----------------------------------------------------------------------------
(* A call goes on: a polling call takes a word, ends, or runs out of time;  *)
(* a start by interrupt enables the rest of its interrupts.                 *)

Goes(h, w) == PortBecomes(h) /\ waiting' = IF h.ret = "WAIT" THEN w ELSE "none"
PollBusy(h, busy) == IF busy THEN Answers(h, "WAIT") ELSE h

PortGoesOn ==
  /\ \/ /\ waiting = "Transmit" /\ IF port.txCount > 0 THEN RoomToSend(port) ELSE port.tc
        /\ LET h == TransmitGoesOn(port) IN Goes(PollBusy(h, h.gState = "BUSY_TX"), "Transmit")
     \/ /\ waiting = "Receive" /\ port.rxf # <<>>
        /\ LET h == ReceiveGoesOn(port) IN Goes(PollBusy(h, h.RxState = "BUSY_RX"), "Receive")
     \/ /\ waiting = "ReceiveToIdle"
        /\ LET h == ToIdleGoesOn(port) IN Goes(PollBusy(h, h.RxState = "BUSY_RX"), "ReceiveToIdle")
     \/ waiting = "Transmit" /\ Goes(TransmitTimedOut(port), "none")
     \/ waiting \in {"Receive", "ReceiveToIdle"} /\ Goes(ReceiveTimedOut(port), "none")
     \/ /\ waiting = "Receive" /\ port.rxf = <<>> /\ port.flags \cap {"ORE", "RTO"} # {}
        /\ Goes(UART_WaitOnFlagUntilTimeout(port), "none")
     \/ waiting = "Arm" /\ Goes(ArmReceive(port), "none")
     \/ waiting = "ArmToIdle" /\ Goes(ArmToIdle(port), "none")
     \/ waiting = "StartRx" /\ PortBecomes(ArmReceive(port)) /\ waiting' = "Register"
  /\ UNCHANGED <<calls, gaveUp, counted>>

-----------------------------------------------------------------------------
(* The line.  A word that finds the receiver full is an overrun.            *)

TheRest == <<uart, waiting, calls, gaveUp, first>>
TheUser == <<TheRest, told>>

WordLeaves ==
  /\ port.txf > 0 /\ "TE" \in port.enabled
  /\ port' = [port EXCEPT !.txf = @ - 1, !.tc = port.txf = 1]
  /\ UNCHANGED <<TheUser, words, errors, deaf>>

WordArrives ==
  /\ words < MaxWords /\ MoreEvents /\ {"UE", "RE"} \subseteq port.enabled
  /\ words' = words + 1
  /\ LET full == Len(port.rxf) = (IF port.fifo THEN FifoDepth ELSE 1) IN
     /\ port' = IF full THEN [port EXCEPT !.flags = @ \cup {"ORE"}]
                        ELSE [port EXCEPT !.rxf = Append(@, words')]
     /\ deaf' = IF uart = "driver" THEN "no" ELSE IF deaf = "no" /\ full THEN "overrun"
                ELSE IF deaf = "no" /\ "RxCplt" \notin port.user THEN "early" ELSE deaf
  /\ UNCHANGED <<TheUser, errors>>

LineFlag ==
  /\ errors < MaxErrors /\ MoreEvents /\ errors' = errors + 1 /\ {"UE", "RE"} \subseteq port.enabled
  /\ \E f \in {"FE", "IDLE"} \cup (IF Parity THEN {"PE"} ELSE {})
               \cup (IF port.rtoen THEN {"RTO"} ELSE {}) :
       port' = [port EXCEPT !.flags = @ \cup {f}]
  /\ UNCHANGED <<TheUser, words, deaf>>

(* The channels: data move on request of the USART, half a block a word.    *)
PortMoving(d) == d.en /\ ~d.susp
MovedWord(d) ==
  IF d.left = 2 THEN [d EXCEPT !.left = 1, !.flags = @ \cup {"HT"}]
                ELSE [d EXCEPT !.left = 0, !.flags = @ \cup {"TC"}, !.en = FALSE]

ChannelMoves ==
  /\ \/ /\ port.dmat /\ RoomToSend(port) /\ PortMoving(port.dma["tx"]) /\ port.dma["tx"].left > 0
        /\ port' = [port EXCEPT !.txf = @ + 1, !.tc = FALSE, !.dma["tx"] = MovedWord(@)]
     \/ /\ port.dmar /\ port.rxf # <<>> /\ PortMoving(port.dma["rx"]) /\ port.dma["rx"].left > 0
        /\ port' = [port EXCEPT !.rxf = Tail(@), !.buffer = Append(@, Head(port.rxf)),
                                !.dma["rx"] = MovedWord(@)]
  /\ UNCHANGED <<TheUser, words, errors, deaf>>

ChannelFlags ==
  /\ \E s \in Side : LET d == port.dma[s] IN
       \/ /\ d.en /\ d.susp /\ "SUSP" \notin d.flags
          /\ port' = [port EXCEPT !.dma[s].flags = @ \cup {"SUSP"}] /\ UNCHANGED errors
       \/ /\ PortMoving(d) /\ d.left > 0 /\ errors < MaxErrors /\ MoreEvents /\ errors' = errors + 1
          /\ port' = [port EXCEPT !.dma[s].flags = @ \cup {"DTE"}, !.dma[s].en = FALSE]
  /\ UNCHANGED <<TheUser, words, deaf>>

-----------------------------------------------------------------------------
(* The interrupts.                                                          *)

LinePending ==
  \/ RoomToSend(port) /\ "TXEIE" \in port.ie
  \/ (IF port.fifo THEN FifoDepth ELSE 1) - port.txf >= port.nbTx /\ "TXFTIE" \in port.ie
  \/ port.tc /\ "TCIE" \in port.ie
  \/ port.rxf # <<>> /\ "RXNEIE" \in port.ie
  \/ Len(port.rxf) >= port.nbRx /\ "RXFTIE" \in port.ie
  \/ "IDLE" \in port.flags /\ "IDLEIE" \in port.ie
  \/ "PE" \in port.flags /\ "PEIE" \in port.ie
  \/ port.flags \cap {"FE", "NE", "ORE"} # {} /\ "EIE" \in port.ie
  \/ "ORE" \in port.flags /\ "RXNEIE" \in port.ie
  \/ "RTO" \in port.flags /\ "RTOIE" \in port.ie

ChannelPending(s) == port.dma[s].flags \cap port.dma[s].it # {}

PortInterrupt ==
  /\ LinePending /\ PortBecomes(CallBack(HAL_UART_IRQHandler(port)))
  /\ UNCHANGED <<TheRest, words, errors, deaf>>

(* An abort by interrupt meets the end of its channel: a completion or an   *)
(* error raised and not yet handled, or an error a refused Resume noted.    *)
(* The handler of the channel then never calls the abort callback.          *)
AbortIsLost(s) ==
  LET d == HAL_DMA_IRQHandler(port.dma[s])
  IN port.dma[s].state = "ABORT" /\ d.state = "READY"
     /\ ~\E i \in DOMAIN d.called : d.called[i] = "Abort"

(* UART_DMAError of the transmission ends the reception in the handle only: *)
(* its channel goes on moving words.                                        *)
ReceptionIsLeft == port.dmar /\ port'.RxState = "READY"

TxChannelInterrupt ==
  /\ ChannelPending("tx") /\ PortBecomes(CallBack(TxChannelIRQ(port)))
  /\ gaveUp' = gaveUp \cup {g \in {"tx"} : AbortIsLost(g)} \cup {g \in {"left"} : ReceptionIsLeft}
  /\ UNCHANGED <<waiting, calls, counted>>

RxChannelInterrupt ==
  /\ ChannelPending("rx") /\ PortBecomes(CallBack(RxChannelIRQ(port)))
  /\ gaveUp' = gaveUp \cup {g \in {"rx"} : AbortIsLost(g)}
  /\ UNCHANGED <<waiting, calls, counted>>

PortNext ==
  \/ PortInitialise \/ PortConfigure \/ PortSends \/ PortListens \/ PortStops
  \/ UART_StartRx \/ StartRxRegisters \/ UART_TransmitDMA \/ PortGoesOn
  \/ WordLeaves \/ WordArrives \/ LineFlag \/ ChannelMoves \/ ChannelFlags
  \/ PortInterrupt \/ TxChannelInterrupt \/ RxChannelInterrupt

PortSpec == PortInit /\ [][PortNext]_portVars

-----------------------------------------------------------------------------
(* What will end a transfer by channel s: the channel moves, or has raised  *)
(* an interrupt, or is to.                                                  *)
ChannelAlive(s) == port.dma[s].en \/ port.dma[s].flags \cap port.dma[s].it # {}

AbortOfBoth == \E s \in Side : port.abort[s] \in {"TxAbort", "RxAbort"} /\ ChannelAlive(s)

(* A transmission that is under way has something that ends it: a call that *)
(* polls, the interrupt that asks for the next word or reports the last, or *)
(* a channel that is alive.  Otherwise gState stays BUSY_TX and every later *)
(* transmission is refused.  The code does not keep this after a channel    *)
(* did not stop when a call asked it to ("stuck"), and after an abort that  *)
(* met the end of its channel ("tx", "rx"): what such an abort was to end   *)
(* stays busy.                                                              *)
UartTransmitEnds ==
  port.gState = "BUSY_TX" /\ gaveUp \cap {"stuck", "tx", "rx"} = {} =>
    \/ waiting = "Transmit"
    \/ port.ie \cap {"TXEIE", "TXFTIE"} # {} /\ port.TxISR # "none"
    \/ "TCIE" \in port.ie
    \/ ChannelAlive("tx") \/ AbortOfBoth

(* A reception that is under way has an interrupt or a channel that takes   *)
(* the next word, with the same exceptions.                                 *)
UartReceiveEnds ==
  port.RxState = "BUSY_RX" /\ gaveUp \cap {"stuck", "tx", "rx"} = {} =>
    \/ waiting \in {"Receive", "ReceiveToIdle", "Arm", "ArmToIdle", "StartRx"}
    \/ port.ie \cap {"RXNEIE", "RXFTIE"} # {} /\ port.RxISR # "none"
    \/ ChannelAlive("rx") \/ AbortOfBoth

(* A word that came during a reception and is missing from it: the overrun  *)
(* is flagged, or the caller was told of it, or will be once the channel is *)
(* aborted.  The code does not keep this in two cases, where the caller is  *)
(* given a complete block and no error although a word is missing: the      *)
(* abort on overrun meets the last word in its channel ("rx"), against the  *)
(* driver's doc (hal_uart.c:1083); or an error of the transmission has ended *)
(* the reception in the handle only, and its channel moves on ("left").     *)
WordLost(i) == port.buffer[i] > port.buffer[i - 1] + 1 /\ port.buffer[i] - 1 > first

UartLossIsTold ==
  gaveUp \cap {"rx", "left"} = {} /\ (\E i \in 2 .. Len(port.buffer) : WordLost(i))
    => "ORE" \in port.flags \/ told
       \/ (port.abort["rx"] = "OnError" /\ ChannelAlive("rx"))

(* The console goes on listening once it has begun, unless a word was lost  *)
(* in an overrun, or came before UART_StartRx had registered the callback   *)
(* that arms the next reception.                                            *)
ConsoleListens ==
  uart = "console" /\ PortFree /\ "RxCplt" \in port.user /\ deaf = "no" => port.RxState = "BUSY_RX"
=============================================================================
