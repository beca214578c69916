------------------------------ MODULE AdvTrace ------------------------------
(***************************************************************************)
(* The trace buffer, stm32_adv_trace.c, in the configuration of the build: *)
(* UTIL_ADV_TRACE_UNCHUNK_MODE, no overrun function.  The main thread and  *)
(* interrupts append messages to a ring; the UART sends it in contiguous   *)
(* chunks by DMA, and its completion interrupt starts the next chunk.      *)
(* Nobody waits: a message that finds the ring locked is left to whoever   *)
(* holds the lock, and one that finds no room is dropped.                  *)
(*                                                                         *)
(* Contexts are numbered by priority: one runs only while no higher one is *)
(* active.  A section with interrupts disabled is one step.  The ring      *)
(* holds no data: a slot is known by its place in the order of writing.    *)
(***************************************************************************)
EXTENDS Integers, FiniteSets, SequencesExt

CONSTANTS
  FifoSize,     (* UTIL_ADV_TRACE_FIFO_SIZE, 4096                          *)
  MessageLength,       (* the lengths of the messages                             *)
  Writer,       (* contexts that log: main thread, button, RTC interrupt   *)
  Uart          (* the context of the UART's completion interrupt          *)

ASSUME AdvTraceAssumption ==
  /\ FifoSize \in Nat \ {0} /\ MessageLength \subseteq 1 .. FifoSize
  /\ Writer \subseteq Nat /\ IsFiniteSet(Writer) /\ Uart \in Nat \ Writer

RingSlot == 0 .. FifoSize - 1
Context == Writer \cup {Uart}

VARIABLES
  rd, wr,           \* TraceRdPtr, TraceWrPtr
  sentSize,         \* TraceSentSize
  TraceLock,        \* how many hold the ring
  unchunk_status, unchunk_enabled,  \* where the ring ends
  traceAt,          \* what each context does next
  mine,             \* the slots a writer has allocated and has to fill
  ptr,              \* the local variable of TRACE_Send and TRACE_TxCpltCallback
  transfer,         \* the slots the DMA is sending, in order
  unsent,           \* the slots allocated and not sent, in that order
  filled            \* the unsent slots that hold their byte

traceVars == <<rd, wr, sentSize, TraceLock, unchunk_status, unchunk_enabled, traceAt, mine, ptr,
               transfer, unsent, filled>>
pointers == <<rd, sentSize, unchunk_status, unchunk_enabled>>
bytes == <<wr, mine, unsent, filled>>

(* Slots by their places; the empty sequence if there are none.             *)
Slots(first, size) == [i \in 1 .. size |-> (first + i - 1) % FifoSize]

TraceRunning(c) == \A d \in Context : d > c => traceAt[d] = "idle"
TraceAt(c, label) == TraceRunning(c) /\ traceAt[c] = label
TraceGoto(c, label) == traceAt' = [traceAt EXCEPT ![c] = label]

-----------------------------------------------------------------------------
TraceInit ==
  /\ rd = 0 /\ wr = 0 /\ sentSize = 0 /\ TraceLock = 0
  /\ unchunk_status = "NONE" /\ unchunk_enabled = 0
  /\ traceAt = [c \in Context |-> "idle"] /\ mine = [w \in Writer |-> <<>>]
  /\ ptr = [c \in Context |-> 0]
  /\ transfer = <<>> /\ unsent = <<>> /\ filled = {}

-----------------------------------------------------------------------------
(* UTIL_ADV_TRACE_Send: lock, allocate, copy, unlock, send.                 *)

Lock(w) ==
  /\ TraceAt(w, "idle")
  /\ TraceLock' = TraceLock + 1
  /\ TraceGoto(w, "allocate")
  /\ UNCHANGED <<pointers, bytes, ptr, transfer>>

(* A message that does not fit behind wr goes to the front of the ring.     *)
Wraps(size) == wr >= rd /\ size >= FifoSize - wr /\ rd > size

FreeSize(size) ==
  IF Wraps(size) THEN rd ELSE IF wr >= rd THEN FifoSize - wr ELSE rd - wr

Fits(size) == FreeSize(size) > size

AllocateBufer(w, size) ==
  LET first == IF Wraps(size) THEN 0 ELSE wr IN
  /\ TraceAt(w, "allocate")
  /\ Fits(size)
  /\ IF Wraps(size) THEN unchunk_status' = "DETECTED" /\ unchunk_enabled' = wr
                    ELSE UNCHANGED <<unchunk_status, unchunk_enabled>>
  /\ wr' = (first + size) % FifoSize
  /\ mine' = [mine EXCEPT ![w] = Slots(first, size)]
  /\ unsent' = unsent \o mine'[w]
  /\ TraceGoto(w, "fill")
  /\ UNCHANGED <<rd, sentSize, TraceLock, ptr, transfer, filled>>

AllocateFails(w, size) ==
  /\ TraceAt(w, "allocate")
  /\ ~Fits(size)
  /\ TraceGoto(w, "giveUp")
  /\ UNCHANGED <<pointers, bytes, TraceLock, ptr, transfer>>

FillMessage(w) ==
  /\ TraceAt(w, "fill")
  /\ filled' = filled \cup ToSet(mine[w])
  /\ mine' = [mine EXCEPT ![w] = <<>>]
  /\ TraceGoto(w, "unlock")
  /\ UNCHANGED <<pointers, wr, unsent, TraceLock, ptr, transfer>>

(* Only a message that was stored is followed by TRACE_Send.                *)
UnLock(w) ==
  /\ TraceAt(w, "unlock") \/ TraceAt(w, "giveUp")
  /\ TraceLock' = TraceLock - 1
  /\ TraceGoto(w, IF traceAt[w] = "unlock" THEN "send" ELSE "idle")
  /\ UNCHANGED <<pointers, bytes, ptr, transfer>>

-----------------------------------------------------------------------------
(* The next chunk, if the ring is read from r with unchunk status s: up to  *)
(* the place the writers wrapped at, else up to wr.  Nothing may be left    *)
(* before that place: then the front is next.                               *)
ChooseChunk(c, r, s) ==
  LET skip == s = "DETECTED" /\ unchunk_enabled = r
      from == IF skip THEN 0 ELSE r
  IN /\ rd' = from
     /\ unchunk_status' = IF skip THEN "NONE"
                  ELSE IF s = "DETECTED" THEN "TRANSFER" ELSE s
     /\ unchunk_enabled' = IF s = "DETECTED" THEN 0 ELSE unchunk_enabled
     /\ sentSize' = CASE unchunk_status' = "NONE" /\ wr > from -> wr - from
                      [] unchunk_status' = "NONE" /\ wr <= from -> FifoSize - from
                      [] s = "DETECTED" /\ ~skip -> unchunk_enabled - r
                      [] OTHER -> sentSize
     /\ ptr' = [ptr EXCEPT ![c] = from]

(* TRACE_Send, a no-op while a transfer is under way or a writer works.     *)
StartSending(w) ==
  /\ TraceLock' = TraceLock + 1
  /\ ChooseChunk(w, rd, unchunk_status)
  /\ TraceGoto(w, "driver")

Send(w) ==
  /\ TraceAt(w, "send")
  /\ IF TraceLock = 0 /\ rd # wr
     THEN StartSending(w)
     ELSE TraceGoto(w, "idle") /\ UNCHANGED <<TraceLock, pointers, ptr>>
  /\ UNCHANGED <<bytes, transfer>>

(* UTIL_TraceDriver.Send, interrupts enabled again.                         *)
DriverSend(c) ==
  /\ TraceAt(c, "driver")
  /\ transfer' = Slots(ptr[c], sentSize)
  /\ ptr' = [ptr EXCEPT ![c] = 0]
  /\ TraceGoto(c, "idle")
  /\ UNCHANGED <<pointers, bytes, TraceLock>>

-----------------------------------------------------------------------------
(* TRACE_TxCpltCallback: the slots sent are free; the next chunk is sent if *)
(* nobody but this transfer holds the lock, else the lock is given up in a  *)
(* section of its own.                                                      *)

ReadFrom == IF unchunk_status = "TRANSFER" THEN 0 ELSE (rd + sentSize) % FifoSize
AfterTransfer == IF unchunk_status = "TRANSFER" THEN "NONE" ELSE unchunk_status

ContinuesAlthoughLocked == ReadFrom # wr        \* a faulty variant
Continues == ReadFrom # wr /\ TraceLock = 1

TxCplt ==
  /\ TraceAt(Uart, "idle") /\ transfer # <<>>
  /\ transfer' = <<>>
  /\ unsent' = SubSeq(unsent, Len(transfer) + 1, Len(unsent))
  /\ filled' = filled \ ToSet(transfer)
  /\ IF Continues
     THEN ChooseChunk(Uart, ReadFrom, AfterTransfer) /\ TraceGoto(Uart, "driver")
     ELSE /\ rd' = ReadFrom /\ unchunk_status' = AfterTransfer
          /\ TraceGoto(Uart, "unlock")
          /\ UNCHANGED <<sentSize, unchunk_enabled, ptr>>
  /\ UNCHANGED <<wr, mine, TraceLock>>

TxCpltUnLock ==
  /\ TraceAt(Uart, "unlock")
  /\ TraceLock' = TraceLock - 1
  /\ TraceGoto(Uart, "idle")
  /\ UNCHANGED <<pointers, bytes, ptr, transfer>>

Write(w) ==
  \/ Lock(w) \/ FillMessage(w) \/ UnLock(w) \/ Send(w)
  \/ \E size \in MessageLength : AllocateBufer(w, size) \/ AllocateFails(w, size)

TraceNext ==
  \/ \E w \in Writer : Write(w)
  \/ \E c \in Context : DriverSend(c)
  \/ TxCplt \/ TxCpltUnLock

TraceSpec == TraceInit /\ [][TraceNext]_traceVars

-----------------------------------------------------------------------------
(* The variables have their types; the lock counter does not wrap.          *)
TraceTypeOK ==
  /\ rd \in RingSlot /\ wr \in RingSlot /\ unchunk_enabled \in RingSlot /\ sentSize \in 0 .. FifoSize
  /\ TraceLock \in 0 .. Cardinality(Context)
  /\ unchunk_status \in {"NONE", "DETECTED", "TRANSFER"}
  /\ traceAt \in [Context -> {"idle", "allocate", "fill", "unlock", "giveUp", "send",
                         "driver"}]
  /\ mine \in [Writer -> Seq(RingSlot)] /\ ptr \in [Context -> RingSlot]
  /\ transfer \in Seq(RingSlot) /\ unsent \in Seq(RingSlot) /\ filled \subseteq RingSlot

(* The transfer holds the lock from the choice of its first chunk until the *)
(* completion interrupt gives it up.                                        *)
TransferHolds ==
  transfer # <<>> \/ traceAt[Uart] = "unlock" \/ \E c \in Context : traceAt[c] = "driver"

(* TraceLock counts the writers between TRACE_Lock and TRACE_UnLock, and    *)
(* one for the transfer, whoever interrupted whom: it is neither left       *)
(* behind, which would silence the trace for ever, nor given back twice.    *)
LockCountsHolders ==
  /\ TraceTypeOK
  /\ TraceLock = Cardinality({w \in Writer : traceAt[w] \in {"allocate", "fill", "unlock", "giveUp"}})
              + (IF TransferHolds THEN 1 ELSE 0)

(* The driver is never asked to send while a transfer is under way: the     *)
(* HAL would refuse, and the trace would wait for its completion for ever.  *)
OneTransferAtATime ==
  /\ Cardinality({c \in Context : traceAt[c] = "driver"}) <= 1
  /\ \A c \in Context : traceAt[c] = "driver" => transfer = <<>> /\ sentSize > 0

(* What the DMA sends is the oldest of what was written, every byte stored  *)
(* before: never a slot a preempted writer has still to fill, one twice, or *)
(* one before an older one.                                                 *)
SendsOldestBytes ==
  /\ IsPrefix(transfer, unsent)
  /\ ToSet(transfer) \subseteq filled

(* The slots between the pointers, around the place the writers wrapped at, *)
(* are those allocated and not sent: no message is overwritten before it is *)
(* sent, and none is skipped.                                               *)
Between ==
  CASE unchunk_status = "NONE"     -> Slots(rd, wr - rd)
    [] unchunk_status = "DETECTED" -> Slots(rd, unchunk_enabled - rd) \o Slots(0, wr)
    [] unchunk_status = "TRANSFER" -> Slots(rd, sentSize) \o Slots(0, wr)

NothingLost == Between = unsent

(* However writers and transfers interrupt each other, the lock counts them,*)
(* one transfer of the oldest bytes runs at a time, and the ring holds what *)
(* is to be sent.                                                           *)
TraceIsWhole == LockCountsHolders /\ OneTransferAtATime /\ SendsOldestBytes /\ NothingLost
=============================================================================
