---------------------------- MODULE DriverProofs ----------------------------
(***************************************************************************)
(* Proofs about the drivers of a DMA channel and of the clock tree, for    *)
(* every number of calls and every fraction of the PLL.                    *)
(*                                                                         *)
(* A channel: the calls of the driver only ever leave less to come, so that*)
(* after the end of a block there is nothing that could end once more.  The*)
(* clock tree: a call waits for what it then relies on, and the wait states*)
(* it is given fit every clock and divider of its change.                  *)
(***************************************************************************)
EXTENDS DmaChannel, PeriphClock, FiniteSetTheorems, TLAPS

-----------------------------------------------------------------------------
(* A DMA channel.                                                           *)

DmaField ==
  {"state", "lock", "mode", "err", "registered", "en", "susp", "oneNode", "it", "flags", "left", "next",
   "queue", "qstate", "priv", "attrLock", "ret", "called"}

(* What the argument needs of a handle's type.                              *)
IsHandle(d) ==
  /\ DOMAIN d = DmaField
  /\ d.lock \in BOOLEAN /\ d.mode \in Mode /\ d.en \in BOOLEAN /\ d.susp \in BOOLEAN
  /\ d.left \in 0 .. 2 /\ d.next \in BOOLEAN /\ d.flags \subseteq Flag
  /\ d.called \in Seq(Callback)

(* A channel that is ready stands still; one that has no more data to move  *)
(* and no further node is stopped; only a list has a further node.          *)
StopsAtEnd(d) ==
  /\ d.state = "READY" => ~d.lock /\ ~d.en
  /\ d.left = 0 /\ ~d.next => ~d.en
  /\ ~IsList(d) => ~d.next

(* The end of a block stops the channel before it is suspended, and a       *)
(* suspended one does not come to the end.                                  *)
OneBlock(d) ==
  /\ ~d.next
  /\ "TC" \in d.flags => ~d.en /\ "SUSP" \notin d.flags
  /\ d.en /\ "SUSP" \in d.flags => d.susp

(* Nothing is left that could end once more.                                *)
Over(d) == ~d.en /\ "TC" \notin d.flags /\ "SUSP" \notin d.flags

DmaIInv ==
  /\ IsHandle(dma) /\ dma.called = <<>>
  /\ ofList \in BOOLEAN /\ ends \in 0 .. 1 /\ nodes \in Nat
  /\ StopsAtEnd(dma)
  /\ ~ofList => OneBlock(dma)
  /\ ends = 1 => ~ofList /\ Over(dma)

(* A call that starts nothing leaves less to come.                          *)
Calmer(d, r) ==
  /\ IsHandle(r)
  /\ StopsAtEnd(d) => StopsAtEnd(r)
  /\ r.flags \subseteq d.flags
  /\ r.en => d.en
  /\ r.next => d.next
  /\ r.en /\ "SUSP" \in r.flags /\ d.susp => r.susp

(* What is calmer stops where it did, and is over if it was.               *)
LEMMA CalmerKeeps ==
  ASSUME NEW d, NEW r, Calmer(d, r)
  PROVE  /\ StopsAtEnd(d) => StopsAtEnd(r)
         /\ OneBlock(d) => OneBlock(r)
         /\ Over(d) => Over(r)
BY DEF Calmer, OneBlock, Over

(* One calm step after another is one.                                     *)
LEMMA CalmerTrans ==
  ASSUME NEW a, NEW b, NEW c, Calmer(a, b), Calmer(b, c)
  PROVE  Calmer(a, c)
BY DEF Calmer

(* Nothing done is calm.                                                   *)
LEMMA CalmerSame ==
  ASSUME NEW d, IsHandle(d)
  PROVE  Calmer(d, d)
BY DEF Calmer

(* No callback is called before the handler.                               *)
LEMMA EmptyCalls == <<>> \in Seq(Callback)
OBVIOUS

(* The return from the interrupt forgets the calls made.                   *)
LEMMA ReturnCalmer ==
  ASSUME NEW d, IsHandle(d)
  PROVE  LET r == [d EXCEPT !.called = <<>>, !.ret = "OK"]
         IN  Calmer(d, r) /\ r.called = <<>>
BY EmptyCalls DEF IsHandle, DmaField, Calmer, StopsAtEnd, IsList

(* A callback changes the record of the calls only.                        *)
LEMMA CallsCalmer ==
  ASSUME NEW d, IsHandle(d), NEW c \in Callback
  PROVE  Calmer(d, Calls(d, c))
<1>1. Append(d.called, c) \in Seq(Callback)
  BY DEF IsHandle
<1> HIDE DEF Callback
<1> QED
  BY <1>1, CalmerSame DEF Calls, IsHandle, DmaField, Calmer, StopsAtEnd, IsList

-----------------------------------------------------------------------------
(* Calls of the thread.                                                     *)

(* HAL_DMA_Init stops the channel, whether it then succeeds or not.        *)
LEMMA InitCalmer ==
  ASSUME NEW d, IsHandle(d), NEW stuck \in BOOLEAN
  PROVE  Calmer(d, HAL_DMA_Init(d, stuck))
<1> DEFINE off == [d EXCEPT !.lock = FALSE, !.en = FALSE, !.registered = IF d.state = "RESET" THEN {} ELSE @]
           failed == [off EXCEPT !.err = {"TIMEOUT"}, !.state = "ERROR", !.ret = "ERROR"]
           done == [DMA_Init(off) EXCEPT !.mode = "NORMAL", !.err = {}, !.state = "READY", !.ret = "OK"]
<1>1. HAL_DMA_Init(d, stuck) = IF stuck THEN failed ELSE done
  BY DEF HAL_DMA_Init
<1>2. IsHandle(off) /\ Calmer(d, off) /\ ~off.lock /\ ~off.en
  BY DEF IsHandle, DmaField, Calmer, StopsAtEnd, IsList
<1> HIDE DEF off
<1>3. Calmer(off, failed)
  BY <1>2 DEF IsHandle, DmaField, Calmer, StopsAtEnd, IsList
<1>4. Calmer(off, done)
  BY <1>2 DEF IsHandle, DmaField, Calmer, StopsAtEnd, IsList, DMA_Init, Mode
<1> HIDE DEF failed, done
<1> QED
  BY <1>1, <1>2, <1>3, <1>4, CalmerTrans

(* So does HAL_DMAEx_List_Init.                                            *)
LEMMA ListInitCalmer ==
  ASSUME NEW d, IsHandle(d), NEW mode \in {"LIST", "CIRCULAR"}, NEW one \in BOOLEAN, NEW stuck \in BOOLEAN
  PROVE  Calmer(d, HAL_DMAEx_List_Init(d, mode, one, stuck))
<1> DEFINE off == [d EXCEPT !.lock = FALSE, !.en = FALSE]
           failed == [off EXCEPT !.err = {"TIMEOUT"}, !.state = "ERROR", !.ret = "ERROR"]
           done == [DMA_List_Init(off, one) EXCEPT !.mode = mode, !.err = {}, !.state = "READY", !.ret = "OK"]
<1>1. HAL_DMAEx_List_Init(d, mode, one, stuck) = IF stuck THEN failed ELSE done
  BY DEF HAL_DMAEx_List_Init
<1>2. IsHandle(off) /\ Calmer(d, off) /\ ~off.lock /\ ~off.en
  BY DEF IsHandle, DmaField, Calmer, StopsAtEnd, IsList
<1> HIDE DEF off
<1>3. Calmer(off, failed)
  BY <1>2 DEF IsHandle, DmaField, Calmer, StopsAtEnd, IsList
<1>4. Calmer(off, done)
  BY <1>2 DEF IsHandle, DmaField, Calmer, StopsAtEnd, IsList, DMA_List_Init, Mode
<1> HIDE DEF failed, done
<1> QED
  BY <1>1, <1>2, <1>3, <1>4, CalmerTrans

(* So do the two functions that undo them.                                 *)
LEMMA DeInitCalmer ==
  ASSUME NEW d, IsHandle(d), NEW stuck \in BOOLEAN
  PROVE  /\ Calmer(d, HAL_DMA_DeInit(d, stuck))
         /\ Calmer(d, HAL_DMAEx_List_DeInit(d, stuck))
<1> USE DEF IsHandle, DmaField, Calmer, StopsAtEnd, IsList, Mode, HAL_DMA_DeInit, HAL_DMAEx_List_DeInit, DmaReset
<1>1. CASE stuck
  BY <1>1
<1>2. CASE ~stuck
  BY <1>2
<1> QED
  BY <1>1, <1>2

(* A refusal unlocks the handle; it is only made to one that is not ready.  *)
LEMMA RefuseCalmer ==
  ASSUME NEW d, IsHandle(d), NEW e, NEW status
  PROVE  Calmer(d, Refuse(d, e)) /\ Calmer(d, Returns(d, status))
BY DEF IsHandle, DmaField, Calmer, StopsAtEnd, IsList, Refuse, Returns

(* Linking a queue and the two configurations start nothing.               *)
LEMMA QueueCalmer ==
  ASSUME NEW d, IsHandle(d), NEW circular \in BOOLEAN
  PROVE  /\ Calmer(d, HAL_DMAEx_List_LinkQ(d, circular))
         /\ Calmer(d, HAL_DMAEx_List_UnLinkQ(d))
         /\ Calmer(d, HAL_DMAEx_ConfigTrigger(d))
         /\ Calmer(d, HAL_DMAEx_ConfigDataHandling(d))
<1> DEFINE linked(b) == [d EXCEPT !.queue = b, !.ret = "OK"]
<1>1. Calmer(d, linked(TRUE)) /\ Calmer(d, linked(FALSE))
  BY DEF IsHandle, DmaField, Calmer, StopsAtEnd, IsList
<1>2. Calmer(d, Refuse(d, "BUSY")) /\ Calmer(d, Returns(d, "ERROR")) /\ Calmer(d, Returns(d, "OK"))
  BY RefuseCalmer
<1>3. Calmer(d, HAL_DMAEx_List_LinkQ(d, circular))
  <2> HIDE DEF linked
  <2>1. HAL_DMAEx_List_LinkQ(d, circular) \in {Refuse(d, "BUSY"), Returns(d, "ERROR"), linked(TRUE)}
    BY DEF HAL_DMAEx_List_LinkQ, linked
  <2> QED
    BY <1>1, <1>2, <2>1
<1>4. Calmer(d, HAL_DMAEx_List_UnLinkQ(d))
  BY <1>1, <1>2 DEF HAL_DMAEx_List_UnLinkQ
<1> QED
  BY <1>2, <1>3, <1>4 DEF HAL_DMAEx_ConfigTrigger, HAL_DMAEx_ConfigDataHandling

(* What a driver that takes a channel sets up, one call after the other.   *)
LEMMA OwnedCalmer ==
  ASSUME NEW d, IsHandle(d), NEW optional \in SUBSET {"Half", "Suspend"}
  PROVE  Calmer(d, Owned(d, optional))
<1>1. ASSUME NEW a, IsHandle(a), NEW c
      PROVE  Calmer(a, HAL_DMA_RegisterCallback(a, c)) /\ Calmer(a, HAL_DMA_UnRegisterCallback(a, c))
  BY <1>1 DEF IsHandle, DmaField, Calmer, StopsAtEnd, IsList, Returns, HAL_DMA_RegisterCallback, HAL_DMA_UnRegisterCallback
<1> DEFINE d1 == HAL_DMA_ConfigChannelAttributes(d, FALSE)
           d2 == HAL_DMA_RegisterCallback(d1, "Cplt")
           d3 == HAL_DMA_RegisterCallback(d2, "Error")
           d4 == HAL_DMA_RegisterCallback(d3, "Abort")
           d5 == HAL_DMA_RegisterCallback(d4, "Half")
           d6 == HAL_DMA_RegisterCallback(d5, "Suspend")
           d7 == HAL_DMA_UnRegisterCallback(d6, {"Half", "Suspend"} \ optional)
<1>2. Calmer(d, d1)
  BY DEF IsHandle, DmaField, Calmer, StopsAtEnd, IsList, HAL_DMA_ConfigChannelAttributes
<1>3. Owned(d, optional) = d7
  BY DEF Owned
<1> HIDE DEF d1
<1>4. Calmer(d, d2)
  BY <1>1, <1>2, CalmerTrans DEF Calmer
<1> HIDE DEF d2
<1>5. Calmer(d, d3)
  BY <1>1, <1>4, CalmerTrans DEF Calmer
<1> HIDE DEF d3
<1>6. Calmer(d, d4)
  BY <1>1, <1>5, CalmerTrans DEF Calmer
<1> HIDE DEF d4
<1>7. Calmer(d, d5)
  BY <1>1, <1>6, CalmerTrans DEF Calmer
<1> HIDE DEF d5
<1>8. Calmer(d, d6)
  BY <1>1, <1>7, CalmerTrans DEF Calmer
<1> HIDE DEF d6
<1>9. Calmer(d, d7)
  BY <1>1, <1>8, CalmerTrans DEF Calmer
<1> QED
  BY <1>3, <1>9

(* The calls that end, suspend or resume a transfer, up to where they      *)
(* wait.                                                                   *)
LEMMA EndingCalmer ==
  ASSUME NEW d, IsHandle(d)
  PROVE  /\ Calmer(d, HAL_DMA_Abort(d)) /\ Calmer(d, HAL_DMAEx_Suspend(d))
         /\ Calmer(d, HAL_DMA_PollForTransfer(d))
         /\ Calmer(d, HAL_DMA_Abort_IT(d)) /\ Calmer(d, HAL_DMAEx_Suspend_IT(d))
         /\ Calmer(d, HAL_DMAEx_Resume(d))
<1> USE DEF IsHandle, DmaField, Calmer, StopsAtEnd, IsList, Refuse, Returns
<1>1. Calmer(d, HAL_DMA_Abort(d)) /\ Calmer(d, HAL_DMAEx_Suspend(d))
  BY DEF HAL_DMA_Abort, HAL_DMAEx_Suspend
<1>2. Calmer(d, HAL_DMA_PollForTransfer(d))
  BY DEF HAL_DMA_PollForTransfer
<1>3. Calmer(d, HAL_DMA_Abort_IT(d)) /\ Calmer(d, HAL_DMAEx_Suspend_IT(d))
  BY DEF HAL_DMA_Abort_IT, HAL_DMAEx_Suspend_IT
<1>4. Calmer(d, HAL_DMAEx_Resume(d))
  BY DEF HAL_DMAEx_Resume
<1> QED
  BY <1>1, <1>2, <1>3, <1>4

(* The end of a list makes its queue ready, and a reset stops the channel. *)
LEMMA QueueReadyCalmer ==
  ASSUME NEW d, IsHandle(d)
  PROVE  LET q == QueueReady(d)
             r == QueueReady(ChannelReset(d))
         IN  /\ Calmer(d, q) /\ q.en = d.en /\ q.left = d.left /\ q.next = d.next /\ q.mode = d.mode
             /\ q.called = d.called /\ q.flags = d.flags
             /\ Calmer(d, r) /\ ~r.en /\ r.mode = d.mode /\ r.next = d.next /\ r.called = d.called
BY DEF IsHandle, DmaField, Calmer, StopsAtEnd, IsList, QueueReady, ChannelReset

(* The ends of waiting; a poll for the end that is reached found the channel *)
(* stopped.                                                                 *)
LEMMA WaitCalmer ==
  ASSUME NEW d, IsHandle(d), NEW level \in {"HT", "TC"}
  PROVE  /\ Calmer(d, AbortTimedOut(d)) /\ Calmer(d, AbortSuspended(d))
         /\ Calmer(d, SuspendTimedOut(d)) /\ Calmer(d, SuspendSuspended(d))
         /\ LevelReached(d, level) => Calmer(d, PollReached(d, level))
         /\ Calmer(d, PollTimedOut(d))
<1> DEFINE q == QueueReady(d)
           r == QueueReady(ChannelReset(d))
<1>1. Calmer(d, q) /\ Calmer(d, r) /\ ~r.en /\ r.mode = d.mode /\ r.next = d.next
  BY QueueReadyCalmer
<1>2. IsHandle(q) /\ IsHandle(r)
  BY <1>1 DEF Calmer
<1>3. Calmer(d, AbortTimedOut(d))
  <2> DEFINE t == [q EXCEPT !.err = @ \cup {"TIMEOUT"}, !.state = "ERROR", !.lock = FALSE, !.ret = "ERROR"]
  <2> HIDE DEF q
  <2>1. Calmer(q, t)
    BY <1>2 DEF IsHandle, DmaField, Calmer, StopsAtEnd, IsList
  <2> HIDE DEF t
  <2>2. Calmer(d, t)
    BY <1>1, <2>1, CalmerTrans
  <2> QED
    BY <2>2 DEF AbortTimedOut, q, t
<1>4. Calmer(d, AbortSuspended(d))
  <2> DEFINE t == [r EXCEPT !.state = "READY", !.flags = {}, !.left = IF IsList(d) THEN 0 ELSE @,
                            !.lock = FALSE, !.ret = "OK"]
  <2> HIDE DEF r
  <2>1. Calmer(r, t)
    BY <1>1, <1>2 DEF IsHandle, DmaField, Calmer, StopsAtEnd, IsList
  <2> HIDE DEF t
  <2>2. Calmer(d, t)
    BY <1>1, <2>1, CalmerTrans
  <2> QED
    BY <2>2 DEF AbortSuspended, r, t
<1>5. Calmer(d, SuspendTimedOut(d)) /\ Calmer(d, SuspendSuspended(d))
  BY DEF IsHandle, DmaField, Calmer, StopsAtEnd, IsList, SuspendTimedOut, SuspendSuspended
<1>6. ASSUME LevelReached(d, level)
      PROVE  Calmer(d, PollReached(d, level))
  <2> DEFINE seen == d.flags \cap HwError
             noted == [d EXCEPT !.err = @ \cup seen, !.flags = @ \ seen]
             reset == QueueReady(ChannelReset(noted))
             queue == QueueReady(noted)
             failed == [reset EXCEPT !.state = "READY", !.lock = FALSE, !.ret = "ERROR"]
             half == [noted EXCEPT !.flags = @ \ {"HT"}, !.ret = "OK"]
             done == [queue EXCEPT !.flags = @ \ {"TC", "HT"}, !.state = "READY", !.lock = FALSE, !.ret = "OK"]
  <2>1. PollReached(d, level) = IF seen \ {"TO"} # {} THEN failed ELSE IF level = "HT" THEN half ELSE done
    BY DEF PollReached
  <2>2. IsHandle(noted) /\ Calmer(d, noted) /\ noted.en = d.en
    BY DEF IsHandle, DmaField, Calmer, StopsAtEnd, IsList
  <2> HIDE DEF noted
  <2>3. /\ Calmer(noted, reset) /\ ~reset.en
        /\ Calmer(noted, queue) /\ queue.en = noted.en
    BY <2>2, QueueReadyCalmer
  <2>4. IsHandle(reset) /\ IsHandle(queue)
    BY <2>3 DEF Calmer
  <2> HIDE DEF reset, queue
  <2>5. Calmer(d, failed)
    <3>1. Calmer(reset, failed)
      BY <2>3, <2>4 DEF IsHandle, DmaField, Calmer, StopsAtEnd, IsList
    <3> QED
      BY <2>2, <2>3, <3>1, CalmerTrans
  <2>6. Calmer(d, half)
    <3>1. Calmer(noted, half)
      BY <2>2 DEF IsHandle, DmaField, Calmer, StopsAtEnd, IsList
    <3> QED
      BY <2>2, <3>1, CalmerTrans
  <2>7. level = "TC" => Calmer(d, done)
    <3>1. level = "TC" => ~queue.en
      BY <1>6, <2>2, <2>3 DEF LevelReached
    <3>2. level = "TC" => Calmer(queue, done)
      BY <3>1, <2>4 DEF IsHandle, DmaField, Calmer, StopsAtEnd, IsList
    <3> QED
      BY <2>2, <2>3, <3>2, CalmerTrans
  <2> HIDE DEF seen, failed, half, done
  <2> QED
    BY <2>1, <2>5, <2>6, <2>7
<1>7. Calmer(d, PollTimedOut(d))
  <2> DEFINE late == [d EXCEPT !.err = @ \cup {"TIMEOUT"}]
  <2>1. IsHandle(late) /\ Calmer(d, late)
    BY DEF IsHandle, DmaField, Calmer, StopsAtEnd, IsList
  <2> HIDE DEF late
  <2>2. Calmer(late, HAL_DMA_Abort(late))
    BY <2>1, EndingCalmer
  <2> QED
    BY <2>1, <2>2, CalmerTrans DEF PollTimedOut, late
<1> QED
  BY <1>3, <1>4, <1>5, <1>6, <1>7

-----------------------------------------------------------------------------
(* The interrupt handler.                                                   *)

(* The calls that end a transfer, among those made.                         *)
LEMMA NoneEnds == Ends(<<>>) = 0
<1> DEFINE ending == {i \in DOMAIN <<>> : <<>>[i] \in {"Cplt", "Abort"}}
<1>1. ending = {}
  OBVIOUS
<1> HIDE DEF ending
<1>2. Cardinality(ending) = 0
  BY <1>1, FS_EmptySet
<1> QED
  BY <1>2 DEF Ends, ending

(* One more call ends a transfer if it is for the completion or the abort. *)
LEMMA EndsCounted ==
  ASSUME NEW s \in Seq(Callback), NEW c \in Callback
  PROVE  /\ Ends(s) \in Nat
         /\ Ends(Append(s, c)) = Ends(s) + (IF c \in {"Cplt", "Abort"} THEN 1 ELSE 0)
<1> DEFINE ending(q) == {i \in DOMAIN q : q[i] \in {"Cplt", "Abort"}}
<1> DEFINE n == Len(s)
           t == Append(s, c)
<1>1. n \in Nat /\ DOMAIN s = 1 .. n /\ DOMAIN t = 1 .. n + 1 /\ t[n + 1] = c
      /\ \A i \in 1 .. n : t[i] = s[i]
  OBVIOUS
<1>2. IsFiniteSet(1 .. n)
  BY <1>1, FS_Interval
<1>3. ending(s) \subseteq 1 .. n
  BY <1>1
<1>4. IsFiniteSet(ending(s)) /\ Cardinality(ending(s)) \in Nat
  <2> HIDE DEF ending
  <2> QED
    BY <1>2, <1>3, FS_Subset, FS_CardinalityType
<1>5. CASE c \in {"Cplt", "Abort"}
  <2>1. ending(t) = ending(s) \cup {n + 1} /\ n + 1 \notin ending(s)
    BY <1>1, <1>5
  <2> HIDE DEF ending, t, n
  <2>2. Cardinality(ending(t)) = Cardinality(ending(s)) + 1
    BY <1>4, <2>1, FS_AddElement
  <2> QED
    BY <1>4, <1>5, <2>2 DEF Ends, ending, t
<1>6. CASE c \notin {"Cplt", "Abort"}
  <2>1. ending(t) = ending(s)
    BY <1>1, <1>6
  <2> HIDE DEF ending, t, n
  <2>2. Cardinality(ending(t)) = Cardinality(ending(s))
    BY <2>1
  <2>3. Ends(s) = Cardinality(ending(s)) /\ Ends(t) = Cardinality(ending(t))
    BY DEF Ends, ending
  <2>4. Ends(t) = Ends(s) /\ Ends(s) \in Nat
    BY <1>4, <2>2, <2>3
  <2> QED
    BY <1>6, <2>4 DEF t
<1> QED
  BY <1>5, <1>6

(* A callback is called once at most, and only if it is registered.        *)
LEMMA CallsEnds ==
  ASSUME NEW d, IsHandle(d), NEW c \in Callback
  PROVE  /\ Ends(d.called) \in Nat /\ Ends(Calls(d, c).called) \in Nat
         /\ Ends(Calls(d, c).called) <= Ends(d.called) + 1
         /\ c \notin {"Cplt", "Abort"} => Ends(Calls(d, c).called) = Ends(d.called)
<1>1. d.called \in Seq(Callback)
  BY DEF IsHandle
<1>2. Ends(d.called) \in Nat
      /\ Ends(Append(d.called, c)) = Ends(d.called) + (IF c \in {"Cplt", "Abort"} THEN 1 ELSE 0)
  BY <1>1, EndsCounted
<1> DEFINE called == Calls(d, c).called
<1>3. called = d.called \/ called = Append(d.called, c)
  BY DEF Calls, IsHandle, DmaField
<1> HIDE DEF called
<1>4. Ends(called) = Ends(d.called)
      \/ Ends(called) = Ends(d.called) + (IF c \in {"Cplt", "Abort"} THEN 1 ELSE 0)
  BY <1>2, <1>3
<1> QED
  BY <1>2, <1>4 DEF called

(* What a stage of the handler does: it leaves less to come, and ends the   *)
(* transfer at most once, after which nothing is left that could end.       *)
EndsNothing(d, r) == Calmer(d, r) /\ Ends(r.called) = Ends(d.called)

(* The handler's first stages, errors and the half of a transfer, end      *)
(* nothing.                                                                *)
LEMMA NotedEndsNothing ==
  ASSUME NEW d, IsHandle(d)
  PROVE  LET r == HalfReached(NoteErrors([d EXCEPT !.called = <<>>]))
         IN  Calmer(d, r) /\ Ends(r.called) = 0 /\ IsHandle(r)
<1> DEFINE start == [d EXCEPT !.called = <<>>]
           noted == NoteErrors(start)
           half == [noted EXCEPT !.flags = @ \ {"HT"}]
           r == HalfReached(noted)
<1>1. Calmer(d, start) /\ start.called = <<>>
  BY EmptyCalls DEF IsHandle, DmaField, Calmer, StopsAtEnd, IsList
<1>2. IsHandle(start)
  BY <1>1 DEF Calmer
<1> HIDE DEF start
<1>3. Calmer(start, noted) /\ noted.called = <<>> /\ IsHandle(noted)
  BY <1>1, <1>2 DEF IsHandle, DmaField, Calmer, StopsAtEnd, IsList, NoteErrors
<1> HIDE DEF noted
<1>4. Calmer(noted, half) /\ half.called = <<>> /\ IsHandle(half)
  BY <1>3 DEF IsHandle, DmaField, Calmer, StopsAtEnd, IsList
<1>5. r \in {noted, Calls(half, "Half")}
  BY DEF HalfReached
<1> HIDE DEF half, r
<1>6. Calmer(half, Calls(half, "Half")) /\ Ends(Calls(half, "Half").called) = 0
  BY <1>4, CallsCalmer, CallsEnds, NoneEnds DEF Callback
<1>7. Calmer(noted, r) /\ Ends(r.called) = 0
  BY <1>3, <1>4, <1>5, <1>6, CalmerTrans, CalmerSame, NoneEnds
<1>8. Calmer(d, r)
  BY <1>1, <1>3, <1>7, CalmerTrans
<1> QED
  BY <1>7, <1>8 DEF Calmer, r, noted, start

(* The suspension asked for by an abort stops the channel and ends the     *)
(* transfer.                                                               *)
LEMMA AbortDoneEnds ==
  ASSUME NEW d, IsHandle(d), Ends(d.called) = 0
  PROVE  LET r == AbortDone(d)
         IN  /\ Calmer(d, r) /\ Ends(r.called) \in 0 .. 1
             /\ ~r.en /\ r.flags = d.flags \ {"SUSP"}
<1> DEFINE q == QueueReady(ChannelReset(d))
           t == [q EXCEPT !.it = @ \ {"SUSP"}, !.flags = @ \ {"SUSP"}, !.state = "READY",
                          !.left = IF IsList(d) THEN 0 ELSE @, !.lock = FALSE]
<1>1. Calmer(d, q) /\ ~q.en /\ q.mode = d.mode /\ q.next = d.next /\ q.called = d.called
  BY QueueReadyCalmer
<1>2. IsHandle(q) /\ q.flags = d.flags
  BY <1>1 DEF Calmer, IsHandle, DmaField, QueueReady, ChannelReset, IsList
<1> HIDE DEF q
<1>3. Calmer(q, t) /\ ~t.en /\ t.flags = d.flags \ {"SUSP"} /\ t.called = d.called
  BY <1>1, <1>2 DEF IsHandle, DmaField, Calmer, StopsAtEnd, IsList
<1>4. AbortDone(d) = Calls(t, "Abort")
  BY DEF AbortDone, q
<1>5. IsHandle(t) /\ Calmer(d, t)
  BY <1>1, <1>3, CalmerTrans DEF Calmer
<1> HIDE DEF t
<1>6. /\ Calmer(t, Calls(t, "Abort"))
      /\ Calls(t, "Abort").en = t.en /\ Calls(t, "Abort").flags = t.flags
  BY <1>5, CallsCalmer DEF Calls, IsHandle, DmaField, Callback
<1>7. Ends(Calls(t, "Abort").called) \in 0 .. 1
  BY <1>3, <1>5, CallsEnds DEF Callback
<1> QED
  BY <1>3, <1>4, <1>5, <1>6, <1>7, CalmerTrans

(* The suspension asked for by a suspend ends nothing.                     *)
LEMMA SuspendedEnds ==
  ASSUME NEW d, IsHandle(d)
  PROVE  EndsNothing(d, Suspended(d)) /\ IsHandle(Suspended(d))
<1> DEFINE t == [d EXCEPT !.flags = @ \ {"SUSP"}, !.state = "SUSPEND"]
<1>1. Calmer(d, t) /\ t.called = d.called
  BY DEF IsHandle, DmaField, Calmer, StopsAtEnd, IsList
<1>2. Suspended(d) = Calls(t, "Suspend")
  BY DEF Suspended
<1> HIDE DEF t
<1>3. IsHandle(t)
  BY <1>1 DEF Calmer
<1>4. Calmer(t, Calls(t, "Suspend")) /\ Ends(Calls(t, "Suspend").called) = Ends(d.called)
  BY <1>1, <1>3, CallsCalmer, CallsEnds DEF Callback
<1> QED
  BY <1>1, <1>2, <1>4, CalmerTrans DEF EndsNothing, Calmer

(* The completion ends the transfer at most once and is acknowledged.      *)
LEMMA TransferDoneEnds ==
  ASSUME NEW d, IsHandle(d), Ends(d.called) = 0, StopsAtEnd(d)
  PROVE  LET r == TransferDone(d)
         IN  /\ Calmer(d, r) /\ Ends(r.called) \in 0 .. 1
             /\ r.flags \subseteq d.flags \ {"TC"}
<1> DEFINE last == d.left = 0 /\ (IsList(d) => ~d.next)
           q == QueueReady(d)
           done == [q EXCEPT !.state = "READY"]
           over == IF last THEN done ELSE d
           t == [over EXCEPT !.flags = @ \ {"TC", "HT"}, !.lock = FALSE]
<1>1. Calmer(d, q) /\ q.en = d.en /\ q.left = d.left /\ q.next = d.next /\ q.mode = d.mode
      /\ q.called = d.called /\ q.flags = d.flags
  BY QueueReadyCalmer
<1>2. IsHandle(q)
  BY <1>1 DEF Calmer
<1>3. last => ~d.en
  BY DEF StopsAtEnd
<1> HIDE DEF q
<1>4. /\ IsHandle(done) /\ done.flags = d.flags /\ done.called = d.called /\ done.left = d.left
      /\ done.next = d.next /\ done.mode = d.mode /\ done.en = d.en /\ done.susp = q.susp
  BY <1>1, <1>2 DEF IsHandle, DmaField
<1> HIDE DEF done, last
<1>5. /\ IsHandle(over) /\ over.flags = d.flags /\ over.called = d.called /\ over.left = d.left
      /\ over.next = d.next /\ over.mode = d.mode /\ over.en = d.en
      /\ d.en => over.susp = d.susp /\ over.state = d.state
  BY <1>3, <1>4
<1>6. over.state = d.state \/ ~over.en
  BY <1>3, <1>4
<1> HIDE DEF over
<1>7. Calmer(d, t) /\ t.flags \subseteq d.flags \ {"TC"} /\ t.called = d.called
  BY <1>5, <1>6 DEF IsHandle, DmaField, Calmer, StopsAtEnd, IsList
<1>8. TransferDone(d) = Calls(t, "Cplt")
  BY DEF TransferDone, over, done, last, q
<1> HIDE DEF t
<1>9. IsHandle(t)
  BY <1>7 DEF Calmer
<1>10. Calmer(t, Calls(t, "Cplt")) /\ Calls(t, "Cplt").flags = t.flags
  BY <1>9, CallsCalmer DEF Calls, IsHandle, DmaField, Callback
<1>11. Ends(Calls(t, "Cplt").called) \in 0 .. 1
  BY <1>7, <1>9, CallsEnds DEF Callback
<1> QED
  BY <1>7, <1>8, <1>10, <1>11, CalmerTrans

(* An error that stopped the channel ends nothing more.                    *)
LEMMA ErrorEndEnds ==
  ASSUME NEW d, IsHandle(d)
  PROVE  EndsNothing(d, ErrorEnd(d))
<1> DEFINE q == QueueReady(ChannelReset(d))
           t == [q EXCEPT !.state = "READY", !.lock = FALSE]
<1>1. Calmer(d, q) /\ ~q.en /\ q.mode = d.mode /\ q.next = d.next /\ q.called = d.called
  BY QueueReadyCalmer
<1>2. IsHandle(q)
  BY <1>1 DEF Calmer
<1> HIDE DEF q
<1>3. Calmer(q, t) /\ t.called = d.called
  BY <1>1, <1>2 DEF IsHandle, DmaField, Calmer, StopsAtEnd, IsList
<1>4. ErrorEnd(d) = Calls(t, "Error")
  BY DEF ErrorEnd, q
<1> HIDE DEF t
<1>5. IsHandle(t)
  BY <1>3 DEF Calmer
<1>6. Calmer(t, Calls(t, "Error"))
  BY <1>5, CallsCalmer DEF Callback
<1>7. Ends(Calls(t, "Error").called) = Ends(d.called)
  BY <1>3, <1>5, CallsEnds DEF Callback
<1> QED
  BY <1>1, <1>3, <1>4, <1>6, <1>7, CalmerTrans DEF EndsNothing

(* The handler of the interrupt ends a transfer at most once, and one of a  *)
(* single block for good.                                                   *)
LEMMA HandlerEnds ==
  ASSUME NEW d, IsHandle(d), StopsAtEnd(d), d.flags \cap d.it # {}
  PROVE  LET r == HAL_DMA_IRQHandler(d)
         IN  /\ Calmer(d, r) /\ Ends(r.called) \in 0 .. 1
             /\ OneBlock(d) /\ Ends(r.called) = 1 => Over(r)
             /\ Over(d) => Ends(r.called) = 0
<1> DEFINE h == HalfReached(NoteErrors([d EXCEPT !.called = <<>>]))
           s == IF Raised(h, "SUSP") THEN Suspended(h) ELSE h
           t == IF Raised(s, "TC") THEN TransferDone(s) ELSE s
           e == IF t.err # {} THEN ErrorEnd(t) ELSE t
           r == HAL_DMA_IRQHandler(d)
<1>1. r = IF Raised(h, "SUSP") /\ h.state = "ABORT" THEN AbortDone(h) ELSE e
  BY DEF HAL_DMA_IRQHandler
<1>2. Calmer(d, h) /\ Ends(h.called) = 0 /\ IsHandle(h) /\ StopsAtEnd(h) /\ (OneBlock(d) => OneBlock(h))
      /\ (Over(d) => Over(h))
  BY NotedEndsNothing, CalmerKeeps
<1> HIDE DEF h, r
<1>3. CASE Raised(h, "SUSP") /\ h.state = "ABORT"
  <2>1. /\ Calmer(h, r) /\ Ends(r.called) \in 0 .. 1
        /\ ~r.en /\ r.flags = h.flags \ {"SUSP"}
    BY <1>1, <1>2, <1>3, AbortDoneEnds
  <2>2. OneBlock(d) => Over(r)
    BY <1>2, <1>3, <2>1 DEF Raised, OneBlock, Over
  <2>3. ~Over(d)
    BY <1>2, <1>3 DEF Raised, Over
  <2> QED
    BY <1>2, <2>1, <2>2, <2>3, CalmerTrans DEF r
<1>4. CASE ~(Raised(h, "SUSP") /\ h.state = "ABORT")
  <2>1. r = e
    BY <1>1, <1>4
  <2>2. Calmer(h, s) /\ Ends(s.called) = 0 /\ IsHandle(s) /\ StopsAtEnd(s) /\ (OneBlock(h) => OneBlock(s))
        /\ (Over(h) => Over(s))
    BY <1>2, SuspendedEnds, CalmerSame, CalmerKeeps DEF EndsNothing
  <2> HIDE DEF s
  <2>3. /\ Calmer(s, t) /\ Ends(t.called) \in 0 .. 1 /\ IsHandle(t)
        /\ OneBlock(s) /\ Ends(t.called) = 1 => Over(t)
        /\ Over(s) => Ends(t.called) = 0
    <3>1. CASE Raised(s, "TC")
      <4>1. Calmer(s, t) /\ Ends(t.called) \in 0 .. 1 /\ t.flags \subseteq s.flags \ {"TC"}
        BY <2>2, <3>1, TransferDoneEnds
      <4> HIDE DEF t
      <4> QED
        BY <3>1, <4>1 DEF Raised, OneBlock, Over, Calmer
    <3>2. CASE ~Raised(s, "TC")
      BY <2>2, <3>2, CalmerSame
    <3> QED
      BY <3>1, <3>2
  <2> HIDE DEF t
  <2>4. Calmer(t, e) /\ Ends(e.called) = Ends(t.called)
    BY <2>3, ErrorEndEnds, CalmerSame DEF EndsNothing
  <2> HIDE DEF e
  <2>5. Calmer(d, e)
    BY <1>2, <2>2, <2>3, <2>4, CalmerTrans
  <2>6. OneBlock(d) /\ Ends(e.called) = 1 => Over(e)
    BY <1>2, <2>2, <2>3, <2>4, CalmerKeeps
  <2> QED
    BY <1>2, <2>1, <2>2, <2>3, <2>4, <2>5, <2>6 DEF r
<1> QED
  BY <1>3, <1>4

-----------------------------------------------------------------------------
(* The steps.                                                               *)

(* A call that starts nothing keeps the invariant.                          *)
LEMMA CalmStep ==
  ASSUME DmaIInv, NEW d, Calmer(dma, d), Becomes(d), UNCHANGED <<ofList, ends, nodes>>
  PROVE  DmaIInv'
<1>1. Calmer(d, dma') /\ dma'.called = <<>>
  BY ReturnCalmer DEF Becomes, Calmer
<1>2. Calmer(dma, dma')
  BY <1>1, CalmerTrans
<1>3. /\ StopsAtEnd(dma) => StopsAtEnd(dma')
      /\ OneBlock(dma) => OneBlock(dma')
      /\ Over(dma) => Over(dma')
  BY <1>2, CalmerKeeps
<1>4. IsHandle(dma')
  BY <1>2 DEF Calmer
<1> QED
  BY <1>1, <1>3, <1>4 DEF DmaIInv

(* A start takes a channel that is ready, and so idle and unlocked.         *)
LEMMA StartsBlock ==
  ASSUME NEW d, IsHandle(d), StopsAtEnd(d), ~IsList(d), NEW f \in {HAL_DMA_Start(d), HAL_DMA_Start_IT(d)}
  PROVE  \/ f.ret # "OK" /\ Calmer(d, f)
         \/ f.ret = "OK" /\ IsHandle(f) /\ StopsAtEnd(f) /\ OneBlock(f)
<1> DEFINE plain == [DMA_SetConfig(d) EXCEPT !.lock = TRUE, !.state = "BUSY", !.err = {}, !.en = TRUE, !.ret = "OK"]
           told == [DMA_SetConfig(d) EXCEPT !.lock = TRUE, !.state = "BUSY", !.err = {},
                                            !.it = @ \cup ItSources(d), !.en = TRUE, !.ret = "OK"]
<1>1. f \in {Returns(d, "BUSY"), Refuse(d, "BUSY"), plain, told}
  BY DEF HAL_DMA_Start, HAL_DMA_Start_IT
<1>2. Calmer(d, Returns(d, "BUSY")) /\ Calmer(d, Refuse(d, "BUSY"))
  BY RefuseCalmer
<1>3. Returns(d, "BUSY").ret # "OK" /\ Refuse(d, "BUSY").ret # "OK"
  BY DEF Returns, Refuse, IsHandle, DmaField
<1>4. plain.ret = "OK" /\ IsHandle(plain) /\ StopsAtEnd(plain) /\ OneBlock(plain)
  BY DEF IsHandle, DmaField, StopsAtEnd, OneBlock, IsList, DMA_SetConfig
<1>5. told.ret = "OK" /\ IsHandle(told) /\ StopsAtEnd(told) /\ OneBlock(told)
  BY DEF IsHandle, DmaField, StopsAtEnd, OneBlock, IsList, DMA_SetConfig
<1> HIDE DEF plain, told
<1> QED
  BY <1>1, <1>2, <1>3, <1>4, <1>5

(* A list is started, or started again while it still has a node.          *)
LEMMA StartsList ==
  ASSUME NEW d, IsHandle(d), StopsAtEnd(d), IsList(d), d.state = "BUSY" => d.next,
         NEW f \in {HAL_DMAEx_List_Start(d), HAL_DMAEx_List_Start_IT(d)}
  PROVE  \/ f.ret # "OK" /\ Calmer(d, f)
         \/ f.ret = "OK" /\ IsHandle(f) /\ StopsAtEnd(f)
<1> DEFINE head == LoadHead(d)
           plain == [head EXCEPT !.en = TRUE, !.ret = "OK"]
           told == [head EXCEPT !.it = @ \cup ItSources(d), !.en = TRUE, !.ret = "OK"]
           again == [d EXCEPT !.en = TRUE, !.ret = "OK"]
<1>1. \/ f \in {Returns(d, "BUSY"), Returns(d, "ERROR"), Refuse(d, "BUSY")}
      \/ f \in {plain, told}
      \/ f = again /\ d.state = "BUSY"
  BY DEF HAL_DMAEx_List_Start, HAL_DMAEx_List_Start_IT
<1>2. Calmer(d, Returns(d, "BUSY")) /\ Calmer(d, Returns(d, "ERROR")) /\ Calmer(d, Refuse(d, "BUSY"))
  BY RefuseCalmer
<1>3. Returns(d, "BUSY").ret # "OK" /\ Returns(d, "ERROR").ret # "OK" /\ Refuse(d, "BUSY").ret # "OK"
  BY DEF Returns, Refuse, IsHandle, DmaField
<1>4. IsHandle(head) /\ head.state = "BUSY" /\ head.next /\ head.mode = d.mode
  BY DEF IsHandle, DmaField, LoadHead
<1> HIDE DEF head
<1>5. plain.ret = "OK" /\ IsHandle(plain) /\ StopsAtEnd(plain)
  BY <1>4 DEF IsHandle, DmaField, StopsAtEnd, IsList
<1>6. told.ret = "OK" /\ IsHandle(told) /\ StopsAtEnd(told)
  BY <1>4 DEF IsHandle, DmaField, StopsAtEnd, IsList
<1>7. d.state = "BUSY" => again.ret = "OK" /\ IsHandle(again) /\ StopsAtEnd(again)
  BY DEF IsHandle, DmaField, StopsAtEnd, IsList
<1> HIDE DEF plain, told, again
<1> QED
  BY <1>1, <1>2, <1>3, <1>5, <1>6, <1>7

(* The reset handle satisfies the invariant.                               *)
LEMMA DmaInitIInv == DmaInit => DmaIInv
<1> SUFFICES ASSUME DmaInit PROVE DmaIInv
  OBVIOUS
<1>1. IsHandle(dma) /\ StopsAtEnd(dma) /\ OneBlock(dma) /\ dma.called = <<>>
  BY EmptyCalls DEF DmaInit, DmaReset, IsHandle, DmaField, Mode, StopsAtEnd, OneBlock, IsList
<1>2. nodes = 0 /\ ofList = FALSE /\ ends = 0
  BY DEF DmaInit
<1>3. ends \in 0 .. 1 /\ nodes \in Nat /\ ends # 1
  BY <1>2
<1>4. ofList \in BOOLEAN
  BY <1>2, Zenon
<1> QED
  BY <1>1, <1>3, <1>4 DEF DmaIInv

(* The configuration of a channel that is not started.                     *)
LEMMA ConfigureKeeps == DmaIInv /\ DmaConfigure => DmaIInv'
<1> SUFFICES ASSUME DmaIInv, DmaConfigure PROVE DmaIInv'
  OBVIOUS
<1>1. IsHandle(dma) /\ UNCHANGED <<ofList, ends, nodes>>
  BY DEF DmaIInv, DmaConfigure, bookkeeping
<1> SUFFICES \E d : Calmer(dma, d) /\ Becomes(d)
  BY <1>1, CalmStep
<1>2. ASSUME NEW d, Calmer(dma, d), NEW optional \in SUBSET {"Half", "Suspend"}, Becomes(Owned(d, optional))
      PROVE  \E r : Calmer(dma, r) /\ Becomes(r)
  <2>1. Calmer(d, Owned(d, optional))
    BY <1>2, OwnedCalmer DEF Calmer
  <2> QED
    BY <1>2, <2>1, CalmerTrans
<1>3. CASE \E stuck \in BOOLEAN, optional \in {{}, {"Half", "Suspend"}} :
             Becomes(Owned(HAL_DMA_Init(dma, stuck), optional))
  <2>1. PICK stuck \in BOOLEAN, optional \in {{}, {"Half", "Suspend"}} :
          Becomes(Owned(HAL_DMA_Init(dma, stuck), optional))
    BY <1>3
  <2>2. Calmer(dma, HAL_DMA_Init(dma, stuck))
    BY <1>1, InitCalmer
  <2> QED
    BY <1>2, <2>1, <2>2
<1>4. CASE \E stuck \in BOOLEAN, optional \in {{}, {"Half", "Suspend"}}, mode \in {"LIST", "CIRCULAR"}, one \in BOOLEAN :
             Becomes(Owned(HAL_DMAEx_List_Init(dma, mode, one, stuck), optional))
  <2>1. PICK stuck \in BOOLEAN, optional \in {{}, {"Half", "Suspend"}}, mode \in {"LIST", "CIRCULAR"}, one \in BOOLEAN :
          Becomes(Owned(HAL_DMAEx_List_Init(dma, mode, one, stuck), optional))
    BY <1>4
  <2>2. Calmer(dma, HAL_DMAEx_List_Init(dma, mode, one, stuck))
    BY <1>1, ListInitCalmer
  <2> QED
    BY <1>2, <2>1, <2>2
<1>5. CASE \E stuck \in BOOLEAN : Becomes(HAL_DMA_DeInit(dma, stuck)) \/ Becomes(HAL_DMAEx_List_DeInit(dma, stuck))
  BY <1>1, <1>5, DeInitCalmer
<1>6. CASE (\E circular \in BOOLEAN : Becomes(HAL_DMAEx_List_LinkQ(dma, circular))) \/ Becomes(HAL_DMAEx_List_UnLinkQ(dma))
  BY <1>1, <1>6, QueueCalmer
<1> QED
  BY <1>3, <1>4, <1>5, <1>6 DEF DmaConfigure

(* Calls refused while the channel is busy.                                *)
LEMMA AskBusyKeeps == DmaIInv /\ DmaAskBusy => DmaIInv'
<1> SUFFICES ASSUME DmaIInv, DmaAskBusy PROVE DmaIInv'
  OBVIOUS
<1>1. IsHandle(dma) /\ UNCHANGED <<ofList, ends, nodes>> /\ dma.state # "READY"
  BY DEF DmaIInv, DmaAskBusy, bookkeeping, Transferring
<1>2. HAL_DMA_Start_IT(dma) \in {Returns(dma, "BUSY"), Refuse(dma, "BUSY")}
  BY <1>1 DEF HAL_DMA_Start_IT
<1>3. Calmer(dma, HAL_DMA_Start_IT(dma))
  BY <1>1, <1>2, RefuseCalmer
<1>4. \E d : Calmer(dma, d) /\ Becomes(d)
  BY <1>1, <1>3, QueueCalmer DEF DmaAskBusy
<1> QED
  BY <1>1, <1>4, CalmStep

(* Calls that end a transfer by waiting.                                   *)
LEMMA EndByWaitingKeeps == DmaIInv /\ DmaEndByWaiting => DmaIInv'
<1> SUFFICES ASSUME DmaIInv, DmaEndByWaiting PROVE DmaIInv'
  OBVIOUS
<1>1. IsHandle(dma) /\ UNCHANGED <<ofList, ends, nodes>>
  BY DEF DmaIInv, DmaEndByWaiting, bookkeeping
<1>2. \E d : Calmer(dma, d) /\ Becomes(d)
  BY <1>1, EndingCalmer DEF DmaEndByWaiting, Wait
<1> QED
  BY <1>1, <1>2, CalmStep

(* Calls that ask for the end of a transfer, and the one that resumes it.  *)
LEMMA EndByInterruptKeeps == DmaIInv /\ (DmaEndByInterrupt \/ DmaResume) => DmaIInv'
<1> SUFFICES ASSUME DmaIInv, DmaEndByInterrupt \/ DmaResume PROVE DmaIInv'
  OBVIOUS
<1>1. IsHandle(dma) /\ UNCHANGED <<ofList, ends, nodes>>
  BY DEF DmaIInv, DmaEndByInterrupt, DmaResume, bookkeeping
<1>2. \E d : Calmer(dma, d) /\ Becomes(d)
  BY <1>1, EndingCalmer DEF DmaEndByInterrupt, DmaResume
<1> QED
  BY <1>1, <1>2, CalmStep

(* The ends of waiting.                                                    *)
LEMMA WaitEndsKeeps == DmaIInv /\ DmaWaitEnds => DmaIInv'
<1> SUFFICES ASSUME DmaIInv, DmaWaitEnds PROVE DmaIInv'
  OBVIOUS
<1>1. IsHandle(dma) /\ UNCHANGED <<ofList, ends, nodes>>
  BY DEF DmaIInv, DmaWaitEnds, bookkeeping
<1>2. \E d : Calmer(dma, d) /\ Becomes(d)
  BY <1>1, WaitCalmer DEF DmaWaitEnds, Wait
<1> QED
  BY <1>1, <1>2, CalmStep

(* A transfer is started on a ready channel.                               *)
LEMMA StartKeeps == DmaIInv /\ DmaStart => DmaIInv'
<1> SUFFICES ASSUME DmaIInv, DmaStart PROVE DmaIInv'
  OBVIOUS
<1>1. IsHandle(dma) /\ StopsAtEnd(dma) /\ dma.state # "BUSY"
  BY DEF DmaIInv, DmaStart, Transferring
<1>2. PICK f, b : /\ Start(f, b)
                  /\ \/ IsList(dma) /\ f \in {HAL_DMAEx_List_Start(dma), HAL_DMAEx_List_Start_IT(dma)}
                     \/ ~IsList(dma) /\ f \in {HAL_DMA_Start(dma), HAL_DMA_Start_IT(dma)}
  BY DEF DmaStart
<1>3. CASE f.ret # "OK" /\ Calmer(dma, f)
  BY <1>2, <1>3, CalmStep DEF Start, bookkeeping
<1>4. CASE f.ret = "OK" /\ IsHandle(f) /\ StopsAtEnd(f) /\ (~IsList(dma) => OneBlock(f))
  <2>1. Becomes(f) /\ ends' = 0 /\ ofList' = IsList(dma) /\ nodes' \in Nat
    BY <1>2, <1>4, DmaAssumption DEF Start
  <2>2. Calmer(f, dma') /\ dma'.called = <<>>
    BY <1>4, <2>1, ReturnCalmer DEF Becomes, Calmer
  <2>3. IsHandle(dma') /\ StopsAtEnd(dma') /\ (~IsList(dma) => OneBlock(dma'))
    BY <1>4, <2>2, CalmerKeeps DEF Calmer
  <2>4. IsList(dma) \in BOOLEAN
    BY DEF IsList
  <2> QED
    BY <2>1, <2>2, <2>3, <2>4 DEF DmaIInv
<1> QED
  BY <1>1, <1>2, <1>3, <1>4, StartsBlock, StartsList

(* A list is started once more from the node it stopped at.                *)
LEMMA NextNodeKeeps == DmaIInv /\ DmaNextNode => DmaIInv'
<1> SUFFICES ASSUME DmaIInv, DmaNextNode PROVE DmaIInv'
  OBVIOUS
<1> DEFINE f == HAL_DMAEx_List_Start_IT(dma)
<1>1. /\ IsHandle(dma) /\ StopsAtEnd(dma) /\ dma.next /\ IsList(dma) /\ ofList /\ ends = 0
      /\ UNCHANGED <<ofList, ends, nodes>> /\ Becomes(f)
  BY DEF DmaIInv, DmaNextNode, StopsAtEnd, OneBlock, bookkeeping
<1>2. Calmer(dma, f) \/ (IsHandle(f) /\ StopsAtEnd(f))
  BY <1>1, StartsList
<1> HIDE DEF f
<1>3. IsHandle(f) /\ StopsAtEnd(f)
  BY <1>1, <1>2 DEF Calmer
<1>4. Calmer(f, dma') /\ dma'.called = <<>>
  BY <1>1, <1>3, ReturnCalmer DEF Becomes, Calmer
<1> QED
  BY <1>1, <1>3, <1>4 DEF DmaIInv, Calmer

(* A step of the channel: a handle that keeps its type, that a list has a   *)
(* further node and no other, and what is asked of a transfer of one block. *)
Stepped(d, r) ==
  /\ IsHandle(r) /\ StopsAtEnd(r) /\ r.called = <<>>
  /\ OneBlock(d) => OneBlock(r)

(* The first half of a block is moved.                                     *)
LEMMA MovesHalf ==
  ASSUME NEW d, IsHandle(d), StopsAtEnd(d), d.called = <<>>, d.en, NEW r,
         r = [d EXCEPT !.left = 1, !.flags = @ \cup {"HT"}]
  PROVE  Stepped(d, r)
<1>1. /\ DOMAIN r = DmaField /\ r.left = 1 /\ r.flags = d.flags \cup {"HT"} /\ r.state = d.state /\ r.lock = d.lock
      /\ r.mode = d.mode /\ r.en = d.en /\ r.susp = d.susp /\ r.next = d.next /\ r.called = d.called
  BY DEF IsHandle, DmaField
<1>2. IsHandle(r)
  <2>1. r.lock \in BOOLEAN /\ r.susp \in BOOLEAN /\ r.next \in BOOLEAN /\ r.en \in BOOLEAN
    BY <1>1, Zenon DEF IsHandle
  <2>2. r.mode \in Mode /\ r.called \in Seq(Callback)
    BY <1>1, Zenon DEF IsHandle
  <2>3. r.flags \subseteq Flag
    BY <1>1, Zenon DEF IsHandle, Flag, HwError
  <2>4. r.left \in 0 .. 2
    BY <1>1 DEF IsHandle
  <2> QED
    BY <1>1, <2>1, <2>2, <2>3, <2>4, Zenon DEF IsHandle
<1>3. StopsAtEnd(r)
  BY <1>1 DEF StopsAtEnd, IsList
<1>4. OneBlock(d) => OneBlock(r)
  BY <1>1 DEF OneBlock
<1> QED
  BY <1>1, <1>2, <1>3, <1>4 DEF Stepped

(* The rest is, which stops the channel unless a node follows.             *)
LEMMA MovesRest ==
  ASSUME NEW d, IsHandle(d), StopsAtEnd(d), d.called = <<>>, d.en, ~d.susp, NEW e \in BOOLEAN, e => d.next, NEW r,
         r = [d EXCEPT !.left = 0, !.flags = @ \cup {"TC"}, !.en = e]
  PROVE  Stepped(d, r)
<1>1. /\ DOMAIN r = DmaField /\ r.left = 0 /\ r.flags = d.flags \cup {"TC"} /\ r.state = d.state /\ r.lock = d.lock
      /\ r.mode = d.mode /\ r.en = e /\ r.susp = d.susp /\ r.next = d.next /\ r.called = d.called
  BY DEF IsHandle, DmaField
<1>2. IsHandle(r)
  <2>1. r.lock \in BOOLEAN /\ r.susp \in BOOLEAN /\ r.next \in BOOLEAN /\ r.en \in BOOLEAN
    BY <1>1, Zenon DEF IsHandle
  <2>2. r.mode \in Mode /\ r.called \in Seq(Callback)
    BY <1>1, Zenon DEF IsHandle
  <2>3. r.flags \subseteq Flag
    BY <1>1, Zenon DEF IsHandle, Flag, HwError
  <2>4. r.left \in 0 .. 2
    BY <1>1 DEF IsHandle
  <2> QED
    BY <1>1, <2>1, <2>2, <2>3, <2>4, Zenon DEF IsHandle
<1>3. StopsAtEnd(r)
  BY <1>1 DEF StopsAtEnd, IsList
<1>4. OneBlock(d) => OneBlock(r)
  BY <1>1 DEF OneBlock
<1> QED
  BY <1>1, <1>2, <1>3, <1>4 DEF Stepped

(* The next node of a list is loaded.                                      *)
LEMMA Loads ==
  ASSUME NEW d, IsHandle(d), StopsAtEnd(d), d.called = <<>>, d.en, d.next, NEW more \in BOOLEAN, NEW r,
         r = [d EXCEPT !.left = 2, !.next = more]
  PROVE  Stepped(d, r)
<1>1. /\ DOMAIN r = DmaField /\ r.left = 2 /\ r.flags = d.flags /\ r.state = d.state /\ r.lock = d.lock
      /\ r.mode = d.mode /\ r.en = d.en /\ r.susp = d.susp /\ r.next = more /\ r.called = d.called
  BY DEF IsHandle, DmaField
<1>2. IsHandle(r)
  <2>1. r.lock \in BOOLEAN /\ r.susp \in BOOLEAN /\ r.next \in BOOLEAN /\ r.en \in BOOLEAN
    BY <1>1, Zenon DEF IsHandle
  <2>2. r.mode \in Mode /\ r.called \in Seq(Callback)
    BY <1>1, Zenon DEF IsHandle
  <2>3. r.flags \subseteq Flag
    BY <1>1, Zenon DEF IsHandle, Flag, HwError
  <2>4. r.left \in 0 .. 2
    BY <1>1 DEF IsHandle
  <2> QED
    BY <1>1, <2>1, <2>2, <2>3, <2>4, Zenon DEF IsHandle
<1>3. StopsAtEnd(r)
  BY <1>1 DEF StopsAtEnd, IsList
<1>4. OneBlock(d) => OneBlock(r)
  BY <1>1 DEF OneBlock
<1> QED
  BY <1>1, <1>2, <1>3, <1>4 DEF Stepped

(* The suspension and the errors, which may stop the channel, raise a      *)
(* flag.                                                                   *)
LEMMA Flags ==
  ASSUME NEW d, IsHandle(d), StopsAtEnd(d), d.called = <<>>, d.en, NEW f \in {"SUSP", "DTE", "TO"}, f = "SUSP" => d.susp,
         NEW e \in BOOLEAN, NEW r, r = [d EXCEPT !.flags = @ \cup {f}] \/ r = [d EXCEPT !.flags = @ \cup {f}, !.en = e]
  PROVE  Stepped(d, r)
<1>1. /\ DOMAIN r = DmaField /\ r.left = d.left /\ r.flags = d.flags \cup {f} /\ r.state = d.state /\ r.lock = d.lock
      /\ r.mode = d.mode /\ r.susp = d.susp /\ r.next = d.next /\ r.called = d.called
      /\ r.en = d.en \/ r.en = e
  BY DEF IsHandle, DmaField
<1>2. IsHandle(r)
  <2>1. r.lock \in BOOLEAN /\ r.susp \in BOOLEAN /\ r.next \in BOOLEAN /\ r.en \in BOOLEAN
    BY <1>1, Zenon DEF IsHandle
  <2>2. r.mode \in Mode /\ r.called \in Seq(Callback)
    BY <1>1, Zenon DEF IsHandle
  <2>3. r.flags \subseteq Flag
    BY <1>1, Zenon DEF IsHandle, Flag, HwError
  <2>4. r.left \in 0 .. 2
    BY <1>1 DEF IsHandle
  <2> QED
    BY <1>1, <2>1, <2>2, <2>3, <2>4, Zenon DEF IsHandle
<1>3. StopsAtEnd(r)
  BY <1>1 DEF StopsAtEnd, IsList
<1>4. OneBlock(d) => OneBlock(r)
  BY <1>1 DEF OneBlock
<1> QED
  BY <1>1, <1>2, <1>3, <1>4 DEF Stepped

(* The steps of the channel itself.                                        *)
LEMMA ChannelKeeps == DmaIInv /\ (DmaMoves \/ DmaLoads \/ DmaSuspends \/ DmaFails) => DmaIInv'
<1> SUFFICES ASSUME DmaIInv, DmaMoves \/ DmaLoads \/ DmaSuspends \/ DmaFails PROVE DmaIInv'
  OBVIOUS
<1>1. /\ IsHandle(dma) /\ StopsAtEnd(dma) /\ dma.called = <<>>
      /\ ofList \in BOOLEAN /\ nodes \in Nat /\ dma.en /\ ends = 0
      /\ ~ofList => OneBlock(dma)
      /\ ofList' = ofList /\ ends' = ends
  BY DEF DmaIInv, DmaMoves, DmaLoads, DmaSuspends, DmaFails, Moving, bookkeeping, Over
<1> SUFFICES Stepped(dma, dma') /\ nodes' \in Nat
  BY <1>1 DEF DmaIInv, Stepped
<1>2. CASE DmaMoves
  <2> DEFINE left == dma.left - 1
             on == dma.next /\ ~dma.oneNode
  <2>1. left \in {0, 1} /\ (left = 1 \/ left # 1) /\ ~dma.susp /\ nodes' = nodes
    BY <1>1, <1>2 DEF DmaMoves, Moving, IsHandle, bookkeeping
  <2>2. dma' = IF left = 1 THEN [dma EXCEPT !.left = left, !.flags = @ \cup {"HT"}]
               ELSE [dma EXCEPT !.left = left, !.flags = @ \cup {"TC"}, !.en = on]
    BY <1>2 DEF DmaMoves
  <2>3. on \in BOOLEAN /\ (on => dma.next)
    OBVIOUS
  <2> HIDE DEF left, on
  <2>4. CASE left = 1
    BY <1>1, <2>1, <2>2, <2>4, MovesHalf
  <2>5. CASE left # 1
    <3>1. left = 0
      BY <2>1, <2>5
    <3>2. dma' = [dma EXCEPT !.left = 0, !.flags = @ \cup {"TC"}, !.en = on]
      BY <2>2, <2>5, <3>1, Zenon
    <3>3. Stepped(dma, dma')
      BY <1>1, <2>1, <2>3, <3>2, MovesRest, Zenon
    <3> QED
      BY <1>1, <2>1, <3>3
  <2> QED
    BY <2>4, <2>5
<1>3. CASE DmaLoads
  <2> DEFINE more == nodes' > 0
  <2>1. nodes' \in Nat /\ dma' = [dma EXCEPT !.left = 2, !.next = more] /\ dma.next
    BY <1>1, <1>3 DEF DmaLoads
  <2>2. more \in BOOLEAN
    BY <2>1
  <2> HIDE DEF more
  <2> QED
    BY <1>1, <2>1, <2>2, Loads, Zenon
<1>4. CASE DmaSuspends
  BY <1>1, <1>4, Flags DEF DmaSuspends, bookkeeping
<1>5. CASE DmaFails
  <2>1. PICK e \in {"DTE", "TO"} : dma' = [dma EXCEPT !.flags = @ \cup {e}, !.en = e = "TO"]
    BY <1>5 DEF DmaFails
  <2> DEFINE on == e = "TO"
  <2>2. on \in BOOLEAN /\ dma' = [dma EXCEPT !.flags = @ \cup {e}, !.en = on]
    BY <2>1
  <2> HIDE DEF on
  <2>3. e \in {"SUSP", "DTE", "TO"} /\ (e = "SUSP" => dma.susp)
    BY <2>1
  <2>4. nodes' = nodes
    BY <1>5 DEF DmaFails, bookkeeping
  <2>5. Stepped(dma, dma')
    BY <1>1, <2>2, <2>3, Flags, Zenon
  <2> QED
    BY <1>1, <2>4, <2>5
<1> QED
  BY <1>2, <1>3, <1>4, <1>5

(* The interrupt handler, in one step: nothing ends twice.                 *)
LEMMA InterruptKeeps == DmaIInv /\ DmaInterrupt => DmaIInv'
<1> SUFFICES ASSUME DmaIInv, DmaInterrupt PROVE DmaIInv'
  OBVIOUS
<1> DEFINE r == HAL_DMA_IRQHandler(dma)
<1>1. IsHandle(dma) /\ StopsAtEnd(dma) /\ ofList \in BOOLEAN /\ ends \in 0 .. 1 /\ nodes \in Nat
  BY DEF DmaIInv
<1>2. /\ Becomes(r) /\ ends' = (IF ofList THEN 0 ELSE ends + Ends(r.called))
      /\ ofList' = ofList /\ nodes' = nodes
  BY DEF DmaInterrupt
<1>3. /\ Calmer(dma, r) /\ Ends(r.called) \in 0 .. 1
      /\ OneBlock(dma) /\ Ends(r.called) = 1 => Over(r)
      /\ Over(dma) => Ends(r.called) = 0
  BY <1>1, HandlerEnds DEF DmaInterrupt
<1> HIDE DEF r
<1>4. Calmer(r, dma') /\ dma'.called = <<>>
  BY <1>2, <1>3, ReturnCalmer DEF Becomes, Calmer
<1>5. /\ IsHandle(dma') /\ StopsAtEnd(dma')
      /\ OneBlock(dma) => OneBlock(dma')
      /\ Over(dma) => Over(dma')
      /\ Over(r) => Over(dma')
  BY <1>1, <1>3, <1>4, CalmerTrans, CalmerKeeps DEF Calmer
<1>6. ends' \in 0 .. 1 /\ (ends' = 1 => ~ofList /\ Over(dma'))
  BY <1>1, <1>2, <1>3, <1>5 DEF DmaIInv
<1> QED
  BY <1>1, <1>2, <1>4, <1>5, <1>6 DEF DmaIInv

(* The invariant of the channel holds in every state of it.                 *)
THEOREM DmaInductive == DmaSpec => []DmaIInv
<1>1. ASSUME DmaIInv, [DmaNext]_dmaVars
      PROVE  DmaIInv'
  <2>1. CASE UNCHANGED dmaVars
    BY <1>1, <2>1 DEF dmaVars, DmaIInv, IsHandle, StopsAtEnd, OneBlock, Over, IsList
  <2>2. CASE DmaNext
    BY <1>1, <2>2, ConfigureKeeps, AskBusyKeeps, StartKeeps, NextNodeKeeps, EndByWaitingKeeps, EndByInterruptKeeps,
       WaitEndsKeeps, ChannelKeeps, InterruptKeeps DEF DmaNext
  <2> QED
    BY <1>1, <2>1, <2>2
<1> QED
  BY <1>1, DmaInitIInv, PTL DEF DmaSpec

(* A DMA channel that is ready is unlocked and stands still, and a transfer *)
(* of one block ends once (stm32wbaxx_hal_dma.c), for every number of       *)
(* transfers and nodes.                                                     *)
THEOREM DmaChannelEndsCleanly == DmaSpec => []DmaEndsCleanly
<1>1. DmaIInv => DmaEndsCleanly
  BY DEF DmaIInv, StopsAtEnd, DmaEndsCleanly, DmaReadyIsIdle, DmaOneEnd
<1> QED
  BY <1>1, DmaInductive, PTL

-----------------------------------------------------------------------------
(* The clock tree.                                                          *)

RccField ==
  {"on", "ready", "hsePre", "lsiDiv", "bypass", "pwr", "pll", "fracen", "fracn", "outputs", "sw", "sws", "hpre", "ppre",
   "hpre5", "hdiv5", "owed", "latency", "SystemCoreClock"}
CallField == {"of", "at", "asked", "wait", "pwrWas", "status"}

(* What the fraction's register holds.                                      *)
FractionValue == 0 .. 8191

(* Frequencies as a function of the registers.                              *)
Vco(r) ==
  LET input == (CASE r.pll.source = "HSI" -> HSI_VALUE
                  [] r.pll.source = "HSE" -> HSE_VALUE \div r.hsePre
                  [] OTHER -> 0) \div r.pll.m
  IN input * r.pll.n + (IF r.fracen THEN (input * r.fracn) \div 8192 ELSE 0)
Hz(r, s) ==
  CASE s = "HSI" -> HSI_VALUE
    [] s = "HSE" -> HSE_VALUE \div r.hsePre
    [] s = "PLL" -> Vco(r) \div r.pll.r
Meets(r, s, h, latency) == NeededLatency(Hz(r, s) \div h) <= latency

(* What the PLL makes without its fraction, which adds less than a quarter. *)
Base(r) == IF r.pll.source = "HSI" THEN 64 ELSE IF r.hsePre = 1 THEN 80 ELSE 40

(* A clock that is on and ready, as is what it is made from.                *)
Solid(r, s) ==
  /\ s \in r.on /\ s \in r.ready
  /\ s = "PLL" => r.pll.source \in r.on /\ r.pll.source \in r.ready

IsPll(p) == p \in PllTypes \/ (p.source = "none" /\ "source" \in DOMAIN p)

IsTree(r) ==
  /\ DOMAIN r = RccField
  /\ r.sw \in Sources /\ r.sws \in Sources
  /\ r.hsePre \in {1, 2} /\ r.hpre \in {1, 2} /\ r.owed \in {1, 2} /\ r.latency \in Nat
  /\ r.fracn \in FractionValue /\ IsPll(r.pll)
  /\ "none" \notin r.on /\ "none" \notin r.ready

(* The divider that the wait states count on.                               *)
Counted(r) == IF r.owed > r.hpre THEN r.owed ELSE r.hpre

(* The clock in use and one that is selected are sound, and the flash has   *)
(* the wait states for either.                                              *)
Sound(r) ==
  /\ "PLL" \in r.ready => r.pll.source \in r.ready
  /\ \A s \in {r.sw, r.sws} : Solid(r, s) /\ Meets(r, s, Counted(r), r.latency)
  /\ r.sw = "PLL" /\ r.sws # "PLL" => "Undivided" \notin r.on

(* The fraction makes the PLL faster by less than a quarter.               *)
LEMMA VcoBounds ==
  ASSUME NEW r, IsTree(r), r.pll \in PllTypes
  PROVE  /\ Vco(r) \in Nat /\ Base(r) \in {40, 64, 80}
         /\ Base(r) <= Vco(r) /\ Vco(r) <= (Base(r) * 5) \div 4
         /\ ~r.fracen => Vco(r) = Base(r)
         /\ Hz(r, "PLL") = Vco(r)
<1> DEFINE f == r.fracn
           more(input) == IF r.fracen THEN (input * f) \div 8192 ELSE 0
<1>0. f \in 0 .. 8191
  BY DEF IsTree, FractionValue
<1> HIDE DEF f
<1>1. f \in Nat /\ f <= 8191
  BY <1>0
<1>a. (16 * f) \div 8192 \in 0 .. 15
  BY <1>1
<1>b. (8 * f) \div 8192 \in 0 .. 7
  BY <1>1
<1>2. /\ more(16) \in 0 .. 15 /\ more(8) \in 0 .. 7
      /\ ~r.fracen => more(16) = 0 /\ more(8) = 0
  <2>1. CASE r.fracen
    BY <1>a, <1>b, <2>1
  <2>2. CASE ~r.fracen
    BY <2>2
  <2> QED
    BY <2>1, <2>2
<1> HIDE DEF more
<1>3. CASE r.pll = [source |-> "HSI", m |-> 1, n |-> 4, p |-> 2, q |-> 2, r |-> 1]
  <2>1. r.pll.source = "HSI" /\ r.pll.m = 1 /\ r.pll.n = 4 /\ r.pll.r = 1
    BY <1>3
  <2>2. Vco(r) = 16 * 4 + more(16)
    BY <2>1 DEF Vco, more, f, HSI_VALUE
  <2>3. Base(r) = 64
    BY <2>1 DEF Base
  <2>4. Vco(r) \in 64 .. 79
    BY <1>2, <2>2
  <2> QED
    BY <1>2, <2>1, <2>2, <2>3, <2>4 DEF Hz
<1>4. CASE r.pll = [source |-> "HSE", m |-> 2, n |-> 5, p |-> 1, q |-> 2, r |-> 1]
  <2>1. r.pll.source = "HSE" /\ r.pll.m = 2 /\ r.pll.n = 5 /\ r.pll.r = 1
    BY <1>4
  <2>2. CASE r.hsePre = 1
    <3>1. Vco(r) = 16 * 5 + more(16)
      BY <2>1, <2>2 DEF Vco, more, f, HSE_VALUE
    <3>2. Base(r) = 80
      BY <2>1, <2>2 DEF Base
    <3>3. Vco(r) \in 80 .. 95
      BY <1>2, <3>1
    <3> QED
      BY <1>2, <2>1, <3>1, <3>2, <3>3 DEF Hz
  <2>3. CASE r.hsePre = 2
    <3>1. Vco(r) = 8 * 5 + more(8)
      BY <2>1, <2>3 DEF Vco, more, f, HSE_VALUE
    <3>2. Base(r) = 40
      BY <2>1, <2>3 DEF Base
    <3>3. Vco(r) \in 40 .. 47
      BY <1>2, <3>1
    <3> QED
      BY <1>2, <2>1, <3>1, <3>2, <3>3 DEF Hz
  <2> QED
    BY <2>2, <2>3 DEF IsTree
<1> QED
  BY <1>3, <1>4 DEF PllTypes

(* Less frequency needs no more wait states; the oscillators need none.     *)
LEMMA LatencyGrows ==
  ASSUME NEW a \in Int, NEW b \in Int, a <= b
  PROVE  NeededLatency(a) \in Int /\ NeededLatency(a) <= NeededLatency(b)
BY DEF NeededLatency

(* The oscillators, at 32 MHz at most, need no wait states.                *)
LEMMA OscillatorMeets ==
  ASSUME NEW r, IsTree(r), NEW s \in {"HSI", "HSE"}, NEW h \in {1, 2}, NEW l \in Nat
  PROVE  Meets(r, s, h, l)
<1>1. Hz(r, s) \in {16, 32}
  BY DEF Hz, IsTree, HSI_VALUE, HSE_VALUE
<1>2. NeededLatency(Hz(r, s) \div h) = 0
  BY <1>1 DEF NeededLatency
<1> QED
  BY <1>2 DEF Meets

(* Wait states for a quarter more than the PLL's multiple fit any          *)
(* fraction.                                                               *)
LEMMA PllMeets ==
  ASSUME NEW r, IsTree(r), r.pll \in PllTypes, NEW h \in {1, 2}, NEW l \in Nat,
         NeededLatency((Base(r) * 5) \div 4) <= l
  PROVE  Meets(r, "PLL", h, l)
<1> DEFINE v == Vco(r)
           t == (Base(r) * 5) \div 4
<1>1. v \in Nat /\ t \in Nat /\ v <= t /\ Hz(r, "PLL") = v
  BY VcoBounds
<1> HIDE DEF v, t
<1>2. v \div h \in Nat /\ v \div h <= t
  BY <1>1
<1>3. NeededLatency(v \div h) <= NeededLatency(t) /\ NeededLatency(v \div h) \in Int /\ NeededLatency(t) \in Int
  BY <1>1, <1>2, LatencyGrows
<1> QED
  BY <1>1, <1>3 DEF Meets, t

-----------------------------------------------------------------------------
(* The calls: what is true when a call is at a label or waits to go there.  *)

OscLabels ==
  {"HSE", "HSI", "LSI", "LSI config", "LSI on", "LSI other", "LSI end", "LSE", "LSE config", "LSE system", "LSE end",
   "PLL", "PLL config", "PLL outputs", "fraction", "OK"}
ClockLabels == {"latency", "HCLK5", "SYSCLK", "switched", "dividers", "less latency"}

(* A change of the oscillators finds no switch under way, and the flash     *)
(* ready for any fraction of the running PLL.                               *)
IsOscRequest(asked) ==
  /\ asked.hse \in {"none", "off", "div1", "div2"}
  /\ asked.lsi = {"none"} \/ asked.lsi \subseteq {"LSI1", "LSI2"}
  /\ asked.lse = {"none"} \/ asked.lse \subseteq {"LSE", "LSESYS"}
  /\ asked.pll.state \in {"none", "on", "off"} /\ asked.pll.frac \in FractionValue
  /\ asked.pll.state = "on" => asked.pll.config \in PllTypes

OscFine(r, asked) ==
  /\ IsOscRequest(asked)
  /\ r.sw = r.sws
  /\ r.sws = "PLL" /\ asked.pll.state = "on" => NeededLatency((Base(r) * 5) \div 4) <= r.latency

(* The clocks and the divider of the bus a change ends with.                *)
Target(r, asked) == IF "SYSCLK" \in asked.types THEN {asked.source} ELSE {r.sw, r.sws}
Final(r, asked) == IF "HCLK" \in asked.types THEN asked.hpre ELSE r.hpre

(* The wait states asked for are enough for these.                          *)
ClockFine(r, asked) ==
  /\ asked.source \in Sources /\ asked.latency \in Nat /\ asked.hpre \in {1, 2}
  /\ asked.source \in r.on
  /\ asked.source = "PLL" => r.pll.source \in r.on
  /\ \A s \in Target(r, asked) : Meets(r, s, Final(r, asked), asked.latency)

(* What a change has done by a label.                                       *)
Reached(label, r, asked) ==
  /\ label \in {"SYSCLK", "switched"} => "SYSCLK" \in asked.types
  /\ label \in {"switched", "dividers", "less latency"} /\ "SYSCLK" \in asked.types => r.sw = asked.source
  /\ label \in {"dividers", "less latency"} /\ "SYSCLK" \in asked.types => r.sws = asked.source
  /\ label = "less latency" => r.owed = 1 /\ r.hpre = Final(r, asked)

Fine(label, r, asked) ==
  /\ label \in OscLabels => OscFine(r, asked)
  /\ label \in {"LSI config", "LSI on"} => asked.lsi # {"none"}
  /\ label = "LSE config" => asked.lse # {"none"}
  /\ label \in {"PLL config", "PLL outputs"} => r.sws # "PLL"
  /\ label = "PLL config" => asked.pll.state = "on"
  /\ label = "fraction" => r.sws = "PLL" /\ asked.pll.state = "on"
  /\ label \in ClockLabels => ClockFine(r, asked) /\ Reached(label, r, asked)
  /\ label \in ClockLabels \ {"latency"} => asked.latency <= r.latency
  /\ label = "reset switch" => "HSI" \in r.on
  /\ label = "reset rest" => r.sw = "HSI"
  /\ label = "reset PLL" => r.sw = "HSI" /\ r.sws = "HSI"

(* What the wait before a label was for.                                    *)
Arrived(label, r) ==
  /\ label \in {"PLL config", "PLL outputs", "reset PLL"} => "PLL" \notin r.ready
  /\ label \in {"switched", "reset rest"} => r.sws = r.sw
  /\ label = "reset switch" => "HSI" \in r.ready

Awaits(label, wait) ==
  /\ label \in {"PLL config", "PLL outputs", "reset PLL"} => wait[1] = {"PLL"} /\ wait[2] = FALSE
  /\ label \in {"switched", "reset rest"} => wait[1] = {"switch"} /\ wait[2] = TRUE
  /\ label = "reset switch" => wait[1] = {"HSI"} /\ wait[2] = TRUE

CallIsFine(r, c) ==
  /\ DOMAIN c = CallField
  /\ Fine(c.at, r, c.asked) /\ Arrived(c.at, r)
  /\ c.at = "wait" => Fine(c.wait[3], r, c.asked) /\ Awaits(c.wait[3], c.wait)

RccIInv == IsTree(rcc) /\ Sound(rcc) /\ CallIsFine(rcc, rccCall)

(* A step that leaves alone what the above is about.                        *)
Tree == Sources \cup {"Undivided", "none"}
SameTree(r, r2) ==
  /\ DOMAIN r2 = DOMAIN r
  /\ r2.sw = r.sw /\ r2.sws = r.sws /\ r2.hsePre = r.hsePre /\ r2.hpre = r.hpre /\ r2.owed = r.owed /\ r2.latency = r.latency
  /\ r2.fracen = r.fracen /\ r2.fracn = r.fracn /\ r2.pll = r.pll
  /\ \A o \in Tree : (o \in r2.on <=> o \in r.on) /\ (o \in r2.ready <=> o \in r.ready)

(* What is true of the tree and of a call's place in it stays true.        *)
LEMMA SameTreeKeeps ==
  ASSUME NEW r, NEW r2, IsTree(r), Sound(r), SameTree(r, r2), NEW label, NEW asked
  PROVE  /\ IsTree(r2) /\ Sound(r2)
         /\ Fine(label, r, asked) => Fine(label, r2, asked)
         /\ Arrived(label, r) => Arrived(label, r2)
<1>1. r.pll.source \in Tree
  BY DEF IsTree, IsPll, PllTypes, Tree, Sources
<1>2. /\ r.sw \in Tree /\ r.sws \in Tree /\ "PLL" \in Tree /\ "HSI" \in Tree /\ "none" \in Tree /\ "Undivided" \in Tree
      /\ \A s \in Sources : s \in Tree
  BY DEF IsTree, Tree, Sources
<1>3. /\ Vco(r2) = Vco(r) /\ Base(r2) = Base(r) /\ r2.pll = r.pll
      /\ \A s \in Sources : \A h, l : Meets(r2, s, h, l) <=> Meets(r, s, h, l)
  BY DEF SameTree, Vco, Base, Meets, Hz, Sources
<1>4. \A s \in Sources : Solid(r, s) => Solid(r2, s)
  BY <1>1, <1>2, <1>3 DEF Solid, SameTree
<1> HIDE DEF Tree
<1>5. IsTree(r2)
  BY <1>2 DEF IsTree, SameTree
<1>6. Sound(r2)
  BY <1>1, <1>2, <1>3, <1>4 DEF Sound, SameTree, IsTree, Counted
<1>7. OscFine(r, asked) => OscFine(r2, asked)
  <2>1. r2.sw = r.sw /\ r2.sws = r.sws /\ r2.latency = r.latency /\ Base(r2) = Base(r)
    BY <1>3 DEF SameTree
  <2> QED
    BY <2>1 DEF OscFine
<1>8. ClockFine(r, asked) => ClockFine(r2, asked)
  BY <1>1, <1>2, <1>3 DEF ClockFine, SameTree, IsTree, Target, Final
<1>a. Reached(label, r, asked) => Reached(label, r2, asked)
  BY DEF Reached, SameTree, Final
<1>9. Fine(label, r, asked) => Fine(label, r2, asked)
  BY <1>2, <1>7, <1>8, <1>a DEF Fine, SameTree
<1>10. Arrived(label, r) => Arrived(label, r2)
  BY <1>2 DEF Arrived, SameTree
<1> QED
  BY <1>5, <1>6, <1>9, <1>10

(* A frequency is a number, of the PLL when it is configured.              *)
LEMMA HzType ==
  ASSUME NEW r, IsTree(r), NEW s \in Sources, s = "PLL" => r.pll \in PllTypes
  PROVE  Hz(r, s) \in Nat
<1>1. CASE s \in {"HSI", "HSE"}
  BY <1>1 DEF Hz, IsTree, HSI_VALUE, HSE_VALUE
<1>2. CASE s = "PLL"
  BY <1>2, VcoBounds
<1> QED
  BY <1>1, <1>2 DEF Sources

(* More wait states than needed, or a greater divider, are enough.         *)
LEMMA MeetsMore ==
  ASSUME NEW r, IsTree(r), NEW s \in Sources, s = "PLL" => r.pll \in PllTypes,
         NEW h \in {1, 2}, NEW k \in {1, 2}, h <= k, NEW l \in Nat, NEW m \in Nat, l <= m, Meets(r, s, h, l)
  PROVE  Meets(r, s, k, m)
<1> DEFINE f == Hz(r, s)
           a == f \div h
           b == f \div k
<1>1. f \in Nat
  BY HzType
<1> HIDE DEF f
<1>2. a \in Int /\ b \in Int /\ b <= a
  <2>1. f \div 1 = f /\ f \div 2 \in Nat /\ f \div 2 <= f
    BY <1>1
  <2> QED
    BY <1>1, <2>1
<1>3. NeededLatency(a) <= l
  BY DEF Meets, f
<1> HIDE DEF a, b
<1>4. NeededLatency(b) <= NeededLatency(a) /\ NeededLatency(b) \in Int /\ NeededLatency(a) \in Int
  BY <1>2, LatencyGrows
<1>5. NeededLatency(b) <= m
  BY <1>3, <1>4
<1> QED
  BY <1>5 DEF Meets, b, f

(* A clock that is on is made from something that is.                       *)
LEMMA PllIsSet ==
  ASSUME NEW r, IsTree(r), r.pll.source \in r.on
  PROVE  r.pll \in PllTypes
BY DEF IsTree, IsPll

(* An oscillator in use alone has the wait states it needs, which is none. *)
LEMMA OneClockIsSound ==
  ASSUME NEW r, IsTree(r), r.sw = r.sws, r.sws # "PLL", r.sws \in r.on, r.sws \in r.ready,
         "PLL" \in r.ready => r.pll.source \in r.ready
  PROVE  Sound(r)
<1>1. r.sws \in {"HSI", "HSE"} /\ Counted(r) \in {1, 2} /\ r.latency \in Nat
  BY DEF IsTree, Sources, Counted
<1>2. Meets(r, r.sws, Counted(r), r.latency)
  BY <1>1, OscillatorMeets
<1> QED
  BY <1>2 DEF Sound, Solid

-----------------------------------------------------------------------------
(* Where a call goes next.                                                  *)

(* A call that goes on to a label.                                         *)
LEMMA GoesFine ==
  ASSUME NEW r, NEW r2, NEW c, CallIsFine(r, c), NEW l, l # "wait", Fine(l, r2, c.asked), Arrived(l, r2)
  PROVE  CallIsFine(r2, [c EXCEPT !.at = l])
BY DEF CallIsFine, CallField

(* Labels that ask for nothing.                                            *)
LEMMA WaitLabel ==
  ASSUME NEW r, NEW asked, NEW l \in {"wait", "idle", "answers", "reset HSI", "muxes", "RTC source", "RTC switch", "RTC end", "radio source"}
  PROVE  Fine(l, r, asked) /\ Arrived(l, r) /\ \A w : Awaits(l, w)
BY DEF Fine, Arrived, Awaits, OscLabels, ClockLabels

(* A call that waits to go on to a label.                                  *)
LEMMA WaitsFine ==
  ASSUME NEW r, NEW r2, NEW c, CallIsFine(r, c), NEW w, NEW t, NEW l, Fine(l, r2, c.asked), Awaits(l, <<w, t, l>>)
  PROVE  CallIsFine(r2, [c EXCEPT !.at = "wait", !.wait = <<w, t, l>>])
<1> DEFINE c2 == [c EXCEPT !.at = "wait", !.wait = <<w, t, l>>]
<1>1. DOMAIN c2 = CallField /\ c2.at = "wait" /\ c2.wait = <<w, t, l>> /\ c2.asked = c.asked
  BY DEF CallIsFine, CallField
<1> HIDE DEF c2
<1>2. c2.wait[3] = l
  BY <1>1
<1> QED
  BY <1>1, <1>2, WaitLabel DEF CallIsFine, c2

(* A call that ends.                                                       *)
LEMMA ReturnsFine ==
  ASSUME NEW r, NEW r2, NEW c, CallIsFine(r, c), NEW status
  PROVE  CallIsFine(r2, [c EXCEPT !.at = "answers", !.status = status, !.wait = <<>>])
<1> DEFINE c2 == [c EXCEPT !.at = "answers", !.status = status, !.wait = <<>>]
<1>1. DOMAIN c2 = CallField /\ c2.at = "answers"
  BY DEF CallIsFine, CallField
<1> HIDE DEF c2
<1> QED
  BY <1>1, WaitLabel DEF CallIsFine, c2

(* The ways a step ends, over a tree that stays sound.                      *)
LEMMA CallSteps ==
  ASSUME RccIInv, IsTree(rcc'), Sound(rcc'), NEW l,
         \/ RccGoes(l) /\ l # "wait" /\ Fine(l, rcc', Asked) /\ Arrived(l, rcc')
         \/ \E w, t : RccWaits(w, t, l) /\ Fine(l, rcc', Asked) /\ Awaits(l, <<w, t, l>>)
         \/ \E status : RccReturns(status)
  PROVE  RccIInv'
<1>1. CallIsFine(rcc, rccCall)
  BY DEF RccIInv
<1>2. CASE RccGoes(l) /\ l # "wait" /\ Fine(l, rcc', Asked) /\ Arrived(l, rcc')
  BY <1>1, <1>2, GoesFine, Zenon DEF RccGoes, Asked, RccIInv
<1>3. CASE \E w, t : RccWaits(w, t, l) /\ Fine(l, rcc', Asked) /\ Awaits(l, <<w, t, l>>)
  <2>1. PICK w, t : RccWaits(w, t, l) /\ Fine(l, rcc', Asked) /\ Awaits(l, <<w, t, l>>)
    BY <1>3
  <2>2. rccCall' = [rccCall EXCEPT !.at = "wait", !.wait = <<w, t, l>>]
    BY <2>1 DEF RccWaits
  <2> QED
    BY <1>1, <2>1, <2>2, WaitsFine DEF Asked, RccIInv
<1>4. CASE \E status : RccReturns(status)
  <2>1. PICK status : RccReturns(status)
    BY <1>4
  <2>2. rccCall' = [rccCall EXCEPT !.at = "answers", !.status = status, !.wait = <<>>]
    BY <2>1 DEF RccReturns
  <2> QED
    BY <1>1, <2>2, ReturnsFine DEF RccIInv
<1> QED
  BY <1>2, <1>3, <1>4, Zenon

(* The same for a step that leaves the tree alone.                         *)
LEMMA TreeKeptSteps ==
  ASSUME RccIInv, SameTree(rcc, rcc'), NEW l,
         \/ RccGoes(l) /\ l # "wait" /\ Fine(l, rcc, Asked) /\ Arrived(l, rcc)
         \/ \E w, t : RccWaits(w, t, l) /\ Fine(l, rcc, Asked) /\ Awaits(l, <<w, t, l>>)
         \/ \E status : RccReturns(status)
  PROVE  RccIInv'
<1>1. /\ IsTree(rcc') /\ Sound(rcc') /\ (Fine(l, rcc, Asked) => Fine(l, rcc', Asked))
      /\ Arrived(l, rcc) => Arrived(l, rcc')
  BY SameTreeKeeps DEF RccIInv
<1> QED
  BY <1>1, CallSteps

(* A tree nothing is written to is the same.                               *)
LEMMA TreeUnchanged == SameTree(rcc, rcc)
BY DEF SameTree

(* The registers of the slow oscillators are none of it.                    *)
LEMMA SlowClocks == \A o \in Tree : o \notin BackupClocks
BY DEF Tree, Sources, BackupClocks

(* Enables of other clocks, and the two settings of the slow oscillators.  *)
LEMMA SlowSame ==
  ASSUME NEW r, IsTree(r), NEW on, \A o \in Tree : o \in on <=> o \in r.on, NEW v
  PROVE  /\ SameTree(r, [r EXCEPT !.on = on])
         /\ SameTree(r, [r EXCEPT !.on = on, !.lsiDiv = v])
         /\ SameTree(r, [r EXCEPT !.on = on, !.bypass = v])
<1>1. SameTree(r, [r EXCEPT !.on = on])
  BY DEF IsTree, RccField, SameTree
<1>2. SameTree(r, [r EXCEPT !.on = on, !.lsiDiv = v])
  BY DEF IsTree, RccField, SameTree
<1>3. SameTree(r, [r EXCEPT !.on = on, !.bypass = v])
  BY DEF IsTree, RccField, SameTree
<1> QED
  BY <1>1, <1>2, <1>3

(* The access to the backup domain is opened, and waited for if need be.   *)
LEMMA OpensFine ==
  ASSUME RccIInv, NEW l, l # "wait", OpensBackup(l), Fine(l, rcc, Asked), Arrived(l, rcc), \A w : Awaits(l, w)
  PROVE  RccIInv'
<1>1. SameTree(rcc, rcc')
  BY DEF OpensBackup, RccIInv, IsTree, RccField, SameTree, Tree, Sources
<1>2. /\ IsTree(rcc') /\ Sound(rcc') /\ Fine(l, rcc', Asked) /\ Arrived(l, rcc')
  BY <1>1, SameTreeKeeps DEF RccIInv
<1>3. /\ DOMAIN rccCall' = CallField /\ rccCall'.asked = Asked /\ rccCall'.at \in {l, "wait"}
      /\ rccCall'.wait[3] = l
  BY DEF OpensBackup, RccIInv, CallIsFine, CallField, Asked
<1>4. CallIsFine(rcc', rccCall')
  BY <1>2, <1>3, WaitLabel DEF CallIsFine
<1> QED
  BY <1>2, <1>4 DEF RccIInv

-----------------------------------------------------------------------------
(* HAL_RCC_OscConfig.                                                       *)

(* A change of the oscillators finds what it was called with.              *)
LEMMA OscAt ==
  ASSUME RccIInv, rccCall.at \in OscLabels
  PROVE  /\ OscFine(rcc, Asked) /\ IsTree(rcc) /\ Sound(rcc) /\ CallIsFine(rcc, rccCall)
         /\ Fine(rccCall.at, rcc, Asked) /\ Arrived(rccCall.at, rcc)
BY DEF RccIInv, CallIsFine, Fine, Asked

(* Labels that ask for nothing more than that.                              *)
LEMMA PlainOsc ==
  ASSUME NEW r, NEW asked, OscFine(r, asked),
         NEW l \in {"HSE", "HSI", "LSI", "LSI other", "LSI end", "LSE", "LSE system", "LSE end", "PLL", "OK"}
  PROVE  l # "wait" /\ Fine(l, r, asked) /\ Arrived(l, r) /\ \A w : Awaits(l, w)
BY DEF Fine, Arrived, Awaits, OscLabels, ClockLabels

(* Another oscillator changes than those in use.                            *)
LEMMA OthersChange ==
  ASSUME NEW r, NEW r2, NEW asked, IsTree(r), Sound(r), OscFine(r, asked), IsTree(r2), NEW o \in {"HSE", "HSI"},
         r.sws # o, r.sws = "PLL" => r.pll.source # o,
         r2.sw = r.sw, r2.sws = r.sws, r2.hpre = r.hpre, r2.owed = r.owed, r2.latency = r.latency, r2.ready = r.ready,
         r2.pll = r.pll, r2.fracen = r.fracen, r2.fracn = r.fracn,
         r2.hsePre = r.hsePre \/ o = "HSE",
         \A x \in {r.sws, r.pll.source} : x # o /\ x \in r.on => x \in r2.on
  PROVE  Sound(r2) /\ OscFine(r2, asked)
<1>1. r.sw = r.sws /\ r2.sw = r2.sws /\ r.sws \in Sources
  BY DEF OscFine, IsTree
<1>2. r.sws \in r2.on /\ r2.sws \in r2.ready /\ ("PLL" \in r2.ready => r2.pll.source \in r2.ready)
  BY <1>1 DEF Sound, Solid
<1>3. CASE r.sws # "PLL"
  BY <1>1, <1>2, <1>3, OneClockIsSound DEF OscFine
<1>4. CASE r.sws = "PLL"
  <2>1. r.pll.source \in r.on /\ r.pll.source \in r2.on /\ r.pll \in PllTypes
    BY <1>4, PllIsSet DEF Sound, Solid
  <2>2. r.pll.source = "HSI" \/ r2.hsePre = r.hsePre
    BY <1>4, <2>1 DEF PllTypes
  <2>3. Vco(r2) = Vco(r) /\ Base(r2) = Base(r)
    BY <2>2 DEF Vco, Base
  <2>4. Hz(r2, "PLL") = Hz(r, "PLL")
    BY <2>3 DEF Hz
  <2>5. Sound(r2)
    BY <1>1, <1>2, <1>4, <2>1, <2>4 DEF Sound, Solid, Meets, Counted
  <2>6. OscFine(r2, asked)
    BY <1>1, <2>3 DEF OscFine
  <2> QED
    BY <2>5, <2>6
<1> QED
  BY <1>3, <1>4

(* The HSE is never stopped while it is used, nor its divider changed      *)
(* under the PLL.                                                          *)
LEMMA OscHSEKeeps == RccIInv /\ OscHSE => RccIInv'
<1> SUFFICES ASSUME RccIInv, OscHSE PROVE RccIInv'
  OBVIOUS
<1>1. rccCall.at = "HSE"
  BY DEF OscHSE, RccAt
<1>2. OscFine(rcc, Asked) /\ IsTree(rcc) /\ Sound(rcc)
  BY <1>1, OscAt DEF OscLabels
<1>3. CASE RccKeeps /\ RccGoes("HSI")
  <2>1. SameTree(rcc, rcc')
    BY <1>3, TreeUnchanged DEF RccKeeps
  <2> QED
    BY <1>2, <1>3, <2>1, PlainOsc, TreeKeptSteps
<1>4. CASE RccKeeps /\ RccReturns("HAL_ERROR")
  <2>1. SameTree(rcc, rcc')
    BY <1>4, TreeUnchanged DEF RccKeeps
  <2> QED
    BY <1>4, <2>1, TreeKeptSteps
<1>5. CASE /\ RccGoes("HSI") \/ RccReturns("HAL_ERROR")
           /\ rcc.sws = "HSE"
           /\ rcc' = [rcc EXCEPT !.hsePre = HsePre, !.SystemCoreClock = HSE_VALUE \div HsePre]
  <2>1. /\ IsTree(rcc') /\ rcc'.sw = rcc.sw /\ rcc'.sws = rcc.sws /\ rcc'.on = rcc.on /\ rcc'.ready = rcc.ready
        /\ rcc'.pll = rcc.pll
    BY <1>2, <1>5 DEF IsTree, RccField, HsePre
  <2>2. Sound(rcc') /\ OscFine(rcc', Asked)
    BY <1>2, <1>5, <2>1, OneClockIsSound DEF OscFine, Sound, Solid
  <2> QED
    BY <1>5, <2>1, <2>2, PlainOsc, CallSteps
<1>6. CASE /\ Asked.hse # "none" /\ ~InUse("HSE")
           /\ rcc' = [rcc EXCEPT !.hsePre = HsePre,
                                 !.on = IF Asked.hse = "off" THEN TurnedOff({"HSE"}) ELSE TurnedOn({"HSE"})]
           /\ RccWaits({"HSE"}, Asked.hse # "off", "HSI")
  <2>1. rcc.sws # "HSE" /\ (rcc.sws = "PLL" => rcc.pll.source # "HSE")
    BY <1>6 DEF InUse, Feeds
  <2>2. /\ rcc'.sw = rcc.sw /\ rcc'.sws = rcc.sws /\ rcc'.ready = rcc.ready /\ rcc'.pll = rcc.pll
        /\ rcc'.hpre = rcc.hpre /\ rcc'.owed = rcc.owed /\ rcc'.latency = rcc.latency /\ rcc'.fracen = rcc.fracen /\ rcc'.fracn = rcc.fracn
        /\ \A x \in {rcc.sws, rcc.pll.source} : x # "HSE" /\ x \in rcc.on => x \in rcc'.on
        /\ "none" \notin rcc'.on
        /\ DOMAIN rcc' = RccField /\ rcc'.hsePre = HsePre
    BY <1>2, <1>6 DEF IsTree, RccField, TurnedOff, TurnedOn
  <2>3. IsTree(rcc')
    BY <1>2, <2>2 DEF IsTree, HsePre
  <2>4. Sound(rcc') /\ OscFine(rcc', Asked)
    BY <1>2, <2>1, <2>2, <2>3, OthersChange
  <2> QED
    BY <1>6, <2>3, <2>4, PlainOsc, CallSteps
<1> QED
  BY <1>3, <1>4, <1>5, <1>6 DEF OscHSE, TickFails

(* The HSI is never stopped while it is used.                              *)
LEMMA OscHSIKeeps == RccIInv /\ OscHSI => RccIInv'
<1> SUFFICES ASSUME RccIInv, OscHSI PROVE RccIInv'
  OBVIOUS
<1>1. rccCall.at = "HSI"
  BY DEF OscHSI, RccAt
<1>2. OscFine(rcc, Asked) /\ IsTree(rcc) /\ Sound(rcc)
  BY <1>1, OscAt DEF OscLabels
<1>3. CASE RccKeeps /\ RccGoes("LSI")
  <2>1. SameTree(rcc, rcc')
    BY <1>3, TreeUnchanged DEF RccKeeps
  <2> QED
    BY <1>2, <1>3, <2>1, PlainOsc, TreeKeptSteps
<1>4. CASE RccKeeps /\ RccReturns("HAL_ERROR")
  <2>1. SameTree(rcc, rcc')
    BY <1>4, TreeUnchanged DEF RccKeeps
  <2> QED
    BY <1>4, <2>1, TreeKeptSteps
<1>5. CASE /\ ~InUse("HSI")
           /\ rcc' = [rcc EXCEPT !.on = IF Asked.hsi = "off" THEN TurnedOff({"HSI"}) ELSE TurnedOn({"HSI"})]
           /\ RccWaits({"HSI"}, Asked.hsi = "on", "LSI")
  <2>1. rcc.sws # "HSI" /\ (rcc.sws = "PLL" => rcc.pll.source # "HSI")
    BY <1>5 DEF InUse, Feeds
  <2>2. /\ rcc'.sw = rcc.sw /\ rcc'.sws = rcc.sws /\ rcc'.ready = rcc.ready /\ rcc'.pll = rcc.pll
        /\ rcc'.hpre = rcc.hpre /\ rcc'.owed = rcc.owed /\ rcc'.latency = rcc.latency /\ rcc'.fracen = rcc.fracen /\ rcc'.fracn = rcc.fracn
        /\ \A x \in {rcc.sws, rcc.pll.source} : x # "HSI" /\ x \in rcc.on => x \in rcc'.on
        /\ "none" \notin rcc'.on
        /\ DOMAIN rcc' = RccField /\ rcc'.hsePre = rcc.hsePre
    BY <1>2, <1>5 DEF IsTree, RccField, TurnedOff, TurnedOn
  <2>3. IsTree(rcc')
    BY <1>2, <2>2 DEF IsTree
  <2>4. Sound(rcc') /\ OscFine(rcc', Asked)
    BY <1>2, <2>1, <2>2, <2>3, OthersChange
  <2> QED
    BY <1>5, <2>3, <2>4, PlainOsc, CallSteps
<1> QED
  BY <1>3, <1>4, <1>5 DEF OscHSI

(* What is asked of the slow oscillators.                                  *)
LEMMA SlowRequest ==
  ASSUME NEW asked, IsOscRequest(asked)
  PROVE  /\ asked.lsi = {"none"} \/ asked.lsi \subseteq {"LSI1", "LSI2"}
         /\ asked.lse = {"none"} \/ asked.lse \subseteq {"LSE", "LSESYS"}
BY DEF IsOscRequest

(* The steps for the LSI change none of the fast clocks.                   *)
LEMMA OscLSIKeeps == RccIInv /\ OscLSI => RccIInv'
<1> SUFFICES ASSUME RccIInv, OscLSI PROVE RccIInv'
  OBVIOUS
<1>1. rccCall.at \in {"LSI", "LSI config", "LSI on", "LSI other", "LSI end"}
  BY DEF OscLSI, RccAt
<1>2. /\ OscFine(rcc, Asked) /\ IsTree(rcc) /\ Sound(rcc) /\ Fine(rccCall.at, rcc, Asked)
  BY <1>1, OscAt DEF OscLabels
<1>3. Asked.lsi = {"none"} \/ Asked.lsi \subseteq {"LSI1", "LSI2"}
  BY <1>2, SlowRequest DEF OscFine
<1>4. ASSUME Asked.lsi # {"none"}, NEW l \in {"LSI config", "LSI on"}
      PROVE  Fine(l, rcc, Asked) /\ Arrived(l, rcc) /\ l # "wait" /\ \A w : Awaits(l, w)
  BY <1>2, <1>4 DEF Fine, Arrived, Awaits, OscLabels, ClockLabels
<1>5. CASE rccCall.at = "LSI"
  <2>1. CASE RccKeeps /\ RccGoes("LSE")
    <3>1. SameTree(rcc, rcc')
      BY <2>1, TreeUnchanged DEF RccKeeps
    <3> QED
      BY <1>2, <2>1, <3>1, PlainOsc, TreeKeptSteps
  <2>2. CASE Asked.lsi # {"none"} /\ OpensBackup("LSI config")
    BY <1>4, <2>2, OpensFine
  <2> QED
    BY <1>5, <2>1, <2>2 DEF OscLSI, RccAt
<1>6. CASE rccCall.at = "LSI config"
  <2>1. Asked.lsi # {"none"}
    BY <1>2, <1>6 DEF Fine
  <2>2. CASE RccKeeps /\ (RccGoes("LSI other") \/ RccGoes("LSI on"))
    <3>1. SameTree(rcc, rcc')
      BY <2>2, TreeUnchanged DEF RccKeeps
    <3> QED
      BY <1>2, <1>4, <2>1, <2>2, <3>1, PlainOsc, TreeKeptSteps
  <2>3. CASE rcc' = [rcc EXCEPT !.on = TurnedOff({"LSI1"})] /\ RccWaits({"LSI1"}, FALSE, "LSI on")
    <3>1. SameTree(rcc, rcc')
      <4>1. \A o \in Tree : o \in TurnedOff({"LSI1"}) <=> o \in rcc.on
        BY SlowClocks DEF TurnedOff, BackupClocks
      <4> QED
        BY <1>2, <2>3, <4>1, SlowSame
    <3> QED
      BY <1>4, <2>1, <2>3, <3>1, TreeKeptSteps
  <2> QED
    BY <1>6, <2>2, <2>3 DEF OscLSI, RccAt
<1>7. CASE rccCall.at = "LSI on"
  <2>1. /\ RccWaits(Asked.lsi, TRUE, "LSI other")
        /\ rcc' = [rcc EXCEPT !.on = TurnedOn(Asked.lsi), !.lsiDiv = IF "LSI1" \in Asked.lsi THEN Asked.lsiDiv ELSE @]
    BY <1>7 DEF OscLSI, RccAt
  <2>2. Asked.lsi \subseteq {"LSI1", "LSI2"}
    BY <1>2, <1>3, <1>7 DEF Fine
  <2>3. SameTree(rcc, rcc')
    <3>1. \A o \in Tree : o \in TurnedOn(Asked.lsi) <=> o \in rcc.on
      BY <2>2, SlowClocks DEF TurnedOn, BackupClocks
    <3> DEFINE on == TurnedOn(Asked.lsi)
               div == IF "LSI1" \in Asked.lsi THEN Asked.lsiDiv ELSE rcc.lsiDiv
    <3>2. rcc' = [rcc EXCEPT !.on = on, !.lsiDiv = div]
      BY <2>1
    <3> HIDE DEF on, div
    <3>3. SameTree(rcc, [rcc EXCEPT !.on = on, !.lsiDiv = div])
      BY <1>2, <3>1, SlowSame DEF on
    <3> QED
      BY <3>2, <3>3
  <2> QED
    BY <1>2, <2>1, <2>3, PlainOsc, TreeKeptSteps
<1>8. CASE rccCall.at = "LSI other"
  <2>1. RccWaits(OtherLsi, FALSE, "LSI end") /\ rcc' = [rcc EXCEPT !.on = TurnedOff(OtherLsi)]
    BY <1>8 DEF OscLSI, RccAt
  <2>2. SameTree(rcc, rcc')
    <3>1. \A o \in Tree : o \in TurnedOff(OtherLsi) <=> o \in rcc.on
      BY SlowClocks DEF TurnedOff, OtherLsi, BackupClocks
    <3> QED
      BY <1>2, <2>1, <3>1, SlowSame
  <2> QED
    BY <1>2, <2>1, <2>2, PlainOsc, TreeKeptSteps
<1>9. CASE rccCall.at = "LSI end"
  <2>1. RccGoes("LSE") /\ rcc' = [rcc EXCEPT !.pwr = rccCall.pwrWas]
    BY <1>9 DEF OscLSI, RccAt, LeavesBackup
  <2>2. SameTree(rcc, rcc')
    BY <1>2, <2>1 DEF IsTree, RccField, SameTree
  <2> QED
    BY <1>2, <2>1, <2>2, PlainOsc, TreeKeptSteps
<1> QED
  BY <1>1, <1>5, <1>6, <1>7, <1>8, <1>9

(* Nor do those for the LSE.                                               *)
LEMMA OscLSEKeeps == RccIInv /\ OscLSE => RccIInv'
<1> SUFFICES ASSUME RccIInv, OscLSE PROVE RccIInv'
  OBVIOUS
<1>1. rccCall.at \in {"LSE", "LSE config", "LSE system", "LSE end"}
  BY DEF OscLSE, RccAt
<1>2. /\ OscFine(rcc, Asked) /\ IsTree(rcc) /\ Sound(rcc) /\ Fine(rccCall.at, rcc, Asked)
  BY <1>1, OscAt DEF OscLabels
<1>3. Asked.lse = {"none"} \/ Asked.lse \subseteq {"LSE", "LSESYS"}
  BY <1>2, SlowRequest DEF OscFine
<1>4. CASE rccCall.at = "LSE"
  <2>1. CASE RccKeeps /\ RccGoes("PLL")
    <3>1. SameTree(rcc, rcc')
      BY <2>1, TreeUnchanged DEF RccKeeps
    <3> QED
      BY <1>2, <2>1, <3>1, PlainOsc, TreeKeptSteps
  <2>2. CASE Asked.lse # {"none"} /\ OpensBackup("LSE config")
    <3>1. Fine("LSE config", rcc, Asked) /\ Arrived("LSE config", rcc) /\ \A w : Awaits("LSE config", w)
      BY <1>2, <2>2 DEF Fine, Arrived, Awaits, OscLabels, ClockLabels
    <3> QED
      BY <2>2, <3>1, OpensFine
  <2> QED
    BY <1>4, <2>1, <2>2 DEF OscLSE, RccAt
<1>5. CASE rccCall.at = "LSE config"
  <2>1. Asked.lse \subseteq {"LSE", "LSESYS"}
    BY <1>2, <1>3, <1>5 DEF Fine
  <2>2. CASE RccWaits({"LSE"}, FALSE, "LSE end") /\ rcc' = [rcc EXCEPT !.on = TurnedOff({"LSE", "LSESYS"}), !.bypass = FALSE]
    <3>1. SameTree(rcc, rcc')
      <4>1. \A o \in Tree : o \in TurnedOff({"LSE", "LSESYS"}) <=> o \in rcc.on
        BY SlowClocks DEF TurnedOff, BackupClocks
      <4>2. SameTree(rcc, [rcc EXCEPT !.on = TurnedOff({"LSE", "LSESYS"}), !.bypass = FALSE])
        BY <1>2, <4>1, SlowSame
      <4> QED
        BY <2>2, <4>2
    <3> QED
      BY <1>2, <2>2, <3>1, PlainOsc, TreeKeptSteps
  <2>3. CASE /\ RccWaits({"LSE"}, TRUE, "LSE system")
             /\ rcc' = [rcc EXCEPT !.on = TurnedOff({"LSESYS"}) \cup Asked.lse, !.bypass = @ \/ Asked.bypass]
    <3>1. SameTree(rcc, rcc')
      <4> DEFINE on == TurnedOff({"LSESYS"}) \cup Asked.lse
      <4>1. \A o \in Tree : o \in on <=> o \in rcc.on
        BY <2>1, SlowClocks DEF TurnedOff, BackupClocks
      <4> DEFINE both == rcc.bypass \/ Asked.bypass
      <4>2. rcc' = [rcc EXCEPT !.on = on, !.bypass = both]
        BY <2>3
      <4> HIDE DEF on, both
      <4>3. SameTree(rcc, [rcc EXCEPT !.on = on, !.bypass = both])
        BY <1>2, <4>1, SlowSame
      <4> QED
        BY <4>2, <4>3
    <3> QED
      BY <1>2, <2>3, <3>1, PlainOsc, TreeKeptSteps
  <2> QED
    BY <1>5, <2>2, <2>3 DEF OscLSE, RccAt
<1>6. CASE rccCall.at = "LSE system"
  <2>1. RccKeeps /\ RccWaits({"LSESYS"}, "LSESYS" \in Asked.lse, "LSE end")
    BY <1>6 DEF OscLSE, RccAt
  <2>2. SameTree(rcc, rcc')
    BY <2>1, TreeUnchanged DEF RccKeeps
  <2> QED
    BY <1>2, <2>1, <2>2, PlainOsc, TreeKeptSteps
<1>7. CASE rccCall.at = "LSE end"
  <2>1. RccGoes("PLL") /\ rcc' = [rcc EXCEPT !.pwr = rccCall.pwrWas]
    BY <1>7 DEF OscLSE, RccAt, LeavesBackup
  <2>2. SameTree(rcc, rcc')
    BY <1>2, <2>1 DEF IsTree, RccField, SameTree
  <2> QED
    BY <1>2, <2>1, <2>2, PlainOsc, TreeKeptSteps
<1> QED
  BY <1>1, <1>4, <1>5, <1>6, <1>7

(* A tree of which little is written.                                       *)
LEMMA TreeKept ==
  ASSUME NEW r, IsTree(r), NEW r2, DOMAIN r2 = RccField,
         r2.sw = r.sw, r2.sws = r.sws, r2.hsePre = r.hsePre, r2.hpre = r.hpre, r2.owed = r.owed, r2.latency = r.latency,
         r2.fracn \in FractionValue, IsPll(r2.pll), r2.ready = r.ready, "none" \notin r2.on
  PROVE  IsTree(r2)
BY DEF IsTree

(* Facts of a tree, to cite.                                               *)
LEMMA TreeFields ==
  ASSUME NEW r, IsTree(r)
  PROVE  DOMAIN r = RccField /\ r.fracn \in FractionValue /\ IsPll(r.pll) /\ "none" \notin r.on
BY DEF IsTree

(* The PLL changes while it is not in use.                                  *)
LEMMA IdlePllSound ==
  ASSUME NEW r, NEW r2, NEW asked, IsTree(r), Sound(r), OscFine(r, asked), r.sws # "PLL", IsTree(r2),
         r2.sw = r.sw, r2.sws = r.sws, r2.ready = r.ready, r.sws \in r.on => r.sws \in r2.on,
         "PLL" \in r.ready => r2.pll = r.pll
  PROVE  Sound(r2) /\ OscFine(r2, asked)
<1>1. r2.sw = r2.sws /\ r2.sws # "PLL" /\ r2.sws \in r2.on /\ r2.sws \in r2.ready
      /\ ("PLL" \in r2.ready => r2.pll.source \in r2.ready)
  BY DEF OscFine, Sound, Solid
<1> QED
  BY <1>1, OneClockIsSound DEF OscFine

(* The fraction changes while it is.                                        *)
LEMMA BusyPllSound ==
  ASSUME NEW r, NEW r2, NEW asked, IsTree(r), Sound(r), OscFine(r, asked), r.sws = "PLL", asked.pll.state = "on",
         IsTree(r2), r2.sw = r.sw, r2.sws = r.sws, r2.ready = r.ready, r2.on = r.on, r2.pll = r.pll,
         r2.hsePre = r.hsePre, r2.hpre = r.hpre, r2.owed = r.owed, r2.latency = r.latency
  PROVE  Sound(r2) /\ OscFine(r2, asked)
<1>1. r.pll.source \in r.on /\ r.pll \in PllTypes /\ r.sw = "PLL"
  BY PllIsSet DEF Sound, Solid, OscFine
<1>2. Base(r2) = Base(r)
  BY DEF Base
<1>3. NeededLatency((Base(r2) * 5) \div 4) <= r2.latency
  BY <1>2 DEF OscFine
<1>4. Counted(r2) \in {1, 2} /\ r2.latency \in Nat /\ r2.pll \in PllTypes
  BY <1>1 DEF IsTree, Counted
<1>5. Meets(r2, "PLL", Counted(r2), r2.latency)
  BY <1>3, <1>4, PllMeets
<1>6. Sound(r2)
  BY <1>1, <1>5 DEF Sound, Solid
<1>7. OscFine(r2, asked)
  BY <1>1, <1>2 DEF OscFine
<1> QED
  BY <1>6, <1>7

(* What is asked of the PLL.                                               *)
LEMMA PllRequest ==
  ASSUME NEW asked, IsOscRequest(asked)
  PROVE  /\ asked.pll.frac \in FractionValue
         /\ asked.pll.state = "on" => asked.pll.config \in PllTypes
BY DEF IsOscRequest

(* What the steps write of the tree.                                        *)
LEMMA Writes ==
  ASSUME NEW r, DOMAIN r = RccField, NEW on, NEW p, NEW n, NEW e, NEW o
  PROVE  /\ LET r2 == [r EXCEPT !.on = on]
            IN /\ r2.on = on /\ r2.pll = r.pll /\ r2.fracn = r.fracn
               /\ DOMAIN r2 = RccField /\ r2.sw = r.sw /\ r2.sws = r.sws /\ r2.ready = r.ready
               /\ r2.hsePre = r.hsePre /\ r2.hpre = r.hpre /\ r2.owed = r.owed /\ r2.latency = r.latency
         /\ LET r2 == [r EXCEPT !.pll = p, !.on = on, !.outputs = o, !.fracen = e, !.fracn = n]
            IN /\ r2.on = on /\ r2.pll = p /\ r2.fracn = n
               /\ DOMAIN r2 = RccField /\ r2.sw = r.sw /\ r2.sws = r.sws /\ r2.ready = r.ready
               /\ r2.hsePre = r.hsePre /\ r2.hpre = r.hpre /\ r2.owed = r.owed /\ r2.latency = r.latency
         /\ LET r2 == [r EXCEPT !.pll = p, !.outputs = o]
            IN /\ r2.on = r.on /\ r2.pll = p /\ r2.fracn = r.fracn
               /\ DOMAIN r2 = RccField /\ r2.sw = r.sw /\ r2.sws = r.sws /\ r2.ready = r.ready
               /\ r2.hsePre = r.hsePre /\ r2.hpre = r.hpre /\ r2.owed = r.owed /\ r2.latency = r.latency
         /\ LET r2 == [r EXCEPT !.fracn = n, !.fracen = e]
            IN /\ r2.on = r.on /\ r2.pll = r.pll /\ r2.fracn = n
               /\ DOMAIN r2 = RccField /\ r2.sw = r.sw /\ r2.sws = r.sws /\ r2.ready = r.ready
               /\ r2.hsePre = r.hsePre /\ r2.hpre = r.hpre /\ r2.owed = r.owed /\ r2.latency = r.latency
         /\ LET r2 == [r EXCEPT !.fracen = e]
            IN /\ r2.on = r.on /\ r2.pll = r.pll /\ r2.fracn = r.fracn
               /\ DOMAIN r2 = RccField /\ r2.sw = r.sw /\ r2.sws = r.sws /\ r2.ready = r.ready
               /\ r2.hsePre = r.hsePre /\ r2.hpre = r.hpre /\ r2.owed = r.owed /\ r2.latency = r.latency
BY DEF RccField

(* The PLL is configured while it is not in use; in use, its fraction only *)
(* is changed, for which there are wait states.                            *)
LEMMA OscPLLKeeps == RccIInv /\ (OscPLL \/ CallEndsWell) => RccIInv'
<1> SUFFICES ASSUME RccIInv, OscPLL \/ CallEndsWell PROVE RccIInv'
  OBVIOUS
<1>1. rccCall.at \in {"PLL", "PLL config", "PLL outputs", "fraction", "OK"}
  BY DEF OscPLL, CallEndsWell, RccAt
<1>2. /\ OscFine(rcc, Asked) /\ IsTree(rcc) /\ Sound(rcc) /\ Fine(rccCall.at, rcc, Asked) /\ Arrived(rccCall.at, rcc)
  BY <1>1, OscAt DEF OscLabels
<1>3. /\ Asked.pll.frac \in FractionValue
      /\ Asked.pll.state = "on" => Asked.pll.config \in PllTypes
  BY <1>2, PllRequest DEF OscFine
<1>tree. DOMAIN rcc = RccField /\ rcc.fracn \in FractionValue /\ IsPll(rcc.pll) /\ "none" \notin rcc.on
  BY <1>2, TreeFields
<1>4. CASE RccKeeps /\ \E status : RccReturns(status)
  <2>1. SameTree(rcc, rcc')
    BY <1>4, TreeUnchanged DEF RccKeeps
  <2> QED
    BY <1>4, <2>1, TreeKeptSteps
<1>5. CASE /\ rccCall.at = "PLL" /\ rcc.sws # "PLL" /\ Asked.pll.state # "none"
           /\ rcc' = [rcc EXCEPT !.on = TurnedOff({"PLL"})]
           /\ RccWaits({"PLL"}, FALSE, IF Asked.pll.state = "on" THEN "PLL config" ELSE "PLL outputs")
  <2> DEFINE l == IF Asked.pll.state = "on" THEN "PLL config" ELSE "PLL outputs"
             on == TurnedOff({"PLL"})
  <2>0. rcc' = [rcc EXCEPT !.on = on] /\ RccWaits({"PLL"}, FALSE, l)
    BY <1>5
  <2>1. l \in {"PLL config", "PLL outputs"} /\ (l = "PLL config" => Asked.pll.state = "on")
    OBVIOUS
  <2>2. on = rcc.on \ {"PLL"}
    BY DEF TurnedOff
  <2> HIDE DEF l, on
  <2>3. /\ rcc'.sw = rcc.sw /\ rcc'.sws = rcc.sws /\ rcc'.ready = rcc.ready /\ rcc'.pll = rcc.pll
        /\ rcc'.hpre = rcc.hpre /\ rcc'.owed = rcc.owed /\ rcc'.latency = rcc.latency /\ rcc'.fracn = rcc.fracn
        /\ DOMAIN rcc' = RccField /\ rcc'.hsePre = rcc.hsePre /\ rcc'.on = on
    BY <1>tree, <2>0, Writes
  <2>4. IsTree(rcc')
    BY <1>2, <1>tree, <2>2, <2>3, TreeKept
  <2>5. Sound(rcc') /\ OscFine(rcc', Asked)
    BY <1>2, <1>5, <2>2, <2>3, <2>4, IdlePllSound
  <2>6. Fine(l, rcc', Asked) /\ Awaits(l, <<{"PLL"}, FALSE, l>>)
    BY <1>5, <2>1, <2>3, <2>5 DEF Fine, Awaits, OscLabels, ClockLabels
  <2> QED
    BY <2>0, <2>4, <2>5, <2>6, CallSteps
<1>6. CASE rccCall.at = "PLL config" /\ rcc' = PllConfigured /\ RccWaits({"PLL"}, TRUE, "OK")
  <2> DEFINE on == TurnedOn({"PLL"})
             n == IF Asked.pll.frac # 0 THEN Asked.pll.frac ELSE rcc.fracn
             e == Asked.pll.frac # 0
             o == rcc.outputs \cup {"R"}
             p == Asked.pll.config
  <2>1. rcc.sws # "PLL" /\ "PLL" \notin rcc.ready /\ p \in PllTypes
    BY <1>2, <1>3, <1>6 DEF Fine, Arrived
  <2>2. rcc' = [rcc EXCEPT !.pll = p, !.on = on, !.outputs = o, !.fracen = e, !.fracn = n]
    BY <1>6 DEF PllConfigured
  <2>3. on = rcc.on \cup {"PLL"} /\ n \in FractionValue
    BY <1>3, <1>tree DEF TurnedOn
  <2> HIDE DEF n, e, o, p, on
  <2>4. /\ rcc'.sw = rcc.sw /\ rcc'.sws = rcc.sws /\ rcc'.ready = rcc.ready /\ rcc'.pll = p
        /\ rcc'.hpre = rcc.hpre /\ rcc'.owed = rcc.owed /\ rcc'.latency = rcc.latency /\ rcc'.fracn = n
        /\ DOMAIN rcc' = RccField /\ rcc'.hsePre = rcc.hsePre /\ rcc'.on = on
    BY <1>tree, <2>2, Writes
  <2>5. IsPll(p) /\ "none" \notin on
    BY <1>tree, <2>1, <2>3 DEF IsPll
  <2>6. IsTree(rcc')
    BY <1>2, <2>3, <2>4, <2>5, TreeKept
  <2>7. Sound(rcc') /\ OscFine(rcc', Asked)
    BY <1>2, <2>1, <2>3, <2>4, <2>6, IdlePllSound
  <2> QED
    BY <1>6, <2>6, <2>7, PlainOsc, CallSteps
<1>7. CASE rccCall.at = "PLL outputs" /\ rcc' = [rcc EXCEPT !.pll.source = "none", !.outputs = {}] /\ RccReturns("HAL_OK")
  <2> DEFINE p == [rcc.pll EXCEPT !.source = "none"]
  <2>1. rcc.sws # "PLL" /\ "PLL" \notin rcc.ready
    BY <1>2, <1>7 DEF Fine, Arrived
  <2>2. rcc' = [rcc EXCEPT !.pll = p, !.outputs = {}]
    BY <1>7
  <2>3. IsPll(p)
    <3>1. "source" \in DOMAIN rcc.pll
      BY <1>tree DEF IsPll, PllTypes
    <3> QED
      BY <3>1 DEF IsPll
  <2> HIDE DEF p
  <2>4. /\ rcc'.sw = rcc.sw /\ rcc'.sws = rcc.sws /\ rcc'.ready = rcc.ready /\ rcc'.pll = p
        /\ rcc'.hpre = rcc.hpre /\ rcc'.owed = rcc.owed /\ rcc'.latency = rcc.latency /\ rcc'.fracn = rcc.fracn
        /\ DOMAIN rcc' = RccField /\ rcc'.hsePre = rcc.hsePre /\ rcc'.on = rcc.on
    BY <1>tree, <2>2, Writes
  <2>5. IsTree(rcc')
    BY <1>2, <1>tree, <2>3, <2>4, TreeKept
  <2>6. Sound(rcc') /\ OscFine(rcc', Asked)
    BY <1>2, <2>1, <2>4, <2>5, IdlePllSound
  <2> QED
    BY <1>7, <2>5, <2>6, CallSteps
<1>8. CASE /\ rccCall.at = "PLL" /\ rcc.sws = "PLL" /\ Asked.pll.state = "on"
           /\ rcc' = [rcc EXCEPT !.fracen = FALSE] /\ RccGoes("fraction")
  <2>1. /\ rcc'.sw = rcc.sw /\ rcc'.sws = rcc.sws /\ rcc'.ready = rcc.ready /\ rcc'.pll = rcc.pll
        /\ rcc'.hpre = rcc.hpre /\ rcc'.owed = rcc.owed /\ rcc'.latency = rcc.latency /\ rcc'.fracn = rcc.fracn
        /\ DOMAIN rcc' = RccField /\ rcc'.hsePre = rcc.hsePre /\ rcc'.on = rcc.on
    BY <1>tree, <1>8, Writes
  <2>2. IsTree(rcc')
    BY <1>2, <1>tree, <2>1, TreeKept
  <2>3. Sound(rcc') /\ OscFine(rcc', Asked)
    BY <1>2, <1>8, <2>1, <2>2, BusyPllSound
  <2>4. Fine("fraction", rcc', Asked) /\ Arrived("fraction", rcc')
    BY <1>8, <2>1, <2>3 DEF Fine, Arrived, OscLabels, ClockLabels
  <2> QED
    BY <1>8, <2>2, <2>3, <2>4, CallSteps
<1>9. CASE /\ rccCall.at = "fraction" /\ RccReturns("HAL_OK")
           /\ rcc' = [rcc EXCEPT !.fracn = Asked.pll.frac, !.fracen = TRUE]
  <2> DEFINE n == Asked.pll.frac
  <2>0. rcc' = [rcc EXCEPT !.fracn = n, !.fracen = TRUE] /\ n \in FractionValue
    BY <1>3, <1>9
  <2> HIDE DEF n
  <2>1. /\ rcc'.sw = rcc.sw /\ rcc'.sws = rcc.sws /\ rcc'.ready = rcc.ready /\ rcc'.pll = rcc.pll
        /\ rcc'.hpre = rcc.hpre /\ rcc'.owed = rcc.owed /\ rcc'.latency = rcc.latency /\ rcc'.fracn = n
        /\ DOMAIN rcc' = RccField /\ rcc'.hsePre = rcc.hsePre /\ rcc'.on = rcc.on
    BY <1>tree, <2>0, Writes
  <2>2. IsTree(rcc')
    BY <1>2, <1>tree, <2>0, <2>1, TreeKept
  <2>3. rcc.sws = "PLL" /\ Asked.pll.state = "on"
    BY <1>2, <1>9 DEF Fine
  <2>4. Sound(rcc')
    BY <1>2, <2>1, <2>2, <2>3, BusyPllSound
  <2> QED
    BY <1>9, <2>2, <2>4, CallSteps
<1> QED
  BY <1>4, <1>5, <1>6, <1>7, <1>8, <1>9 DEF OscPLL, CallEndsWell, RccAt

-----------------------------------------------------------------------------
(* HAL_RCC_ClockConfig.                                                     *)

(* A tree whose oscillators and PLL are set as they were.                   *)
SameClocks(r, r2) ==
  /\ DOMAIN r2 = RccField
  /\ r2.pll = r.pll /\ r2.hsePre = r.hsePre /\ r2.fracen = r.fracen /\ r2.fracn = r.fracn

(* Frequencies depend on the oscillators and the PLL only.                 *)
LEMMA SameMeets ==
  ASSUME NEW r, NEW r2, SameClocks(r, r2), NEW s \in Sources, NEW h, NEW l
  PROVE  Meets(r2, s, h, l) <=> Meets(r, s, h, l)
<1>1. Vco(r2) = Vco(r)
  BY DEF SameClocks, Vco
<1>2. Hz(r2, s) = Hz(r, s)
  BY <1>1 DEF SameClocks, Hz
<1> QED
  BY <1>2 DEF Meets

(* What the steps write of it.                                              *)
LEMMA LatencyWritten ==
  ASSUME NEW r, DOMAIN r = RccField, NEW l, NEW r2, r2 = [r EXCEPT !.latency = l]
  PROVE  /\ SameClocks(r, r2) /\ r2.on = r.on /\ r2.ready = r.ready
         /\ r2.sw = r.sw /\ r2.sws = r.sws /\ r2.hpre = r.hpre /\ r2.owed = r.owed /\ r2.latency = l
BY DEF RccField, SameClocks

(* What a write of the enables leaves as it was.                           *)
LEMMA EnablesWritten ==
  ASSUME NEW r, DOMAIN r = RccField, NEW on, NEW r2, r2 = [r EXCEPT !.on = on]
  PROVE  /\ SameClocks(r, r2) /\ r2.on = on /\ r2.ready = r.ready
         /\ r2.sw = r.sw /\ r2.sws = r.sws /\ r2.hpre = r.hpre /\ r2.owed = r.owed /\ r2.latency = r.latency
BY DEF RccField, SameClocks

(* Other registers within their values keep a tree.                        *)
LEMMA SameClocksTree ==
  ASSUME NEW r, IsTree(r), NEW r2, SameClocks(r, r2), r2.sw \in Sources, r2.sws \in Sources,
         r2.hpre \in {1, 2}, r2.owed \in {1, 2}, r2.latency \in Nat, "none" \notin r2.on, "none" \notin r2.ready
  PROVE  IsTree(r2)
BY DEF IsTree, SameClocks

(* The clocks in use stay sound when the divider and the wait states fit.   *)
LEMMA SameClocksSound ==
  ASSUME NEW r, NEW r2, SameClocks(r, r2), IsTree(r), Sound(r), r2.sw = r.sw, r2.sws = r.sws,
         r2.ready = r.ready, \A o \in Sources : o \in r.on => o \in r2.on,
         r2.sw = "PLL" /\ r2.sws # "PLL" => "Undivided" \notin r2.on,
         \A s \in {r.sw, r.sws} : Meets(r, s, Counted(r2), r2.latency)
  PROVE  Sound(r2)
<1>1. r.sw \in Sources /\ r.sws \in Sources
  BY DEF IsTree
<1>2. ASSUME NEW s \in {r.sw, r.sws} PROVE Solid(r2, s)
  <2>1. s \in r.on /\ s \in r.ready /\ (s = "PLL" => r.pll.source \in r.on /\ r.pll.source \in r.ready)
    BY DEF Sound, Solid
  <2>2. s = "PLL" => r.pll.source \in Sources
    BY <2>1, PllIsSet DEF PllTypes, Sources
  <2> QED
    BY <1>1, <2>1, <2>2 DEF Solid, SameClocks
<1>3. \A s \in {r.sw, r.sws} : Meets(r2, s, Counted(r2), r2.latency)
  BY SameMeets DEF IsTree
<1>4. "PLL" \in r2.ready => r2.pll.source \in r2.ready
  BY DEF Sound, SameClocks
<1> QED
  BY <1>2, <1>3, <1>4 DEF Sound

(* A change of clocks stays fine when it selects its clock or writes its   *)
(* divider.                                                                *)
LEMMA SameClocksFine ==
  ASSUME NEW r, NEW r2, NEW asked, SameClocks(r, r2), IsTree(r), ClockFine(r, asked),
         \A o \in Sources : o \in r.on => o \in r2.on,
         r2.sw = r.sw \/ "SYSCLK" \in asked.types, r2.sws \in {r.sw, r.sws},
         r2.hpre = r.hpre \/ ("HCLK" \in asked.types /\ r2.hpre = asked.hpre)
  PROVE  ClockFine(r2, asked) /\ Final(r2, asked) = Final(r, asked)
<1>1. /\ asked.source \in Sources /\ asked.latency \in Nat /\ asked.hpre \in {1, 2}
      /\ r.sw \in Sources /\ r.sws \in Sources
  BY DEF ClockFine, IsTree
<1>2. asked.source = "PLL" => r.pll.source \in r.on /\ r.pll.source \in Sources
  BY PllIsSet DEF ClockFine, PllTypes, Sources
<1>3. asked.source \in r2.on /\ (asked.source = "PLL" => r2.pll.source \in r2.on)
  BY <1>1, <1>2 DEF ClockFine, SameClocks
<1>4. Final(r2, asked) = Final(r, asked)
  BY DEF Final
<1>5. ASSUME NEW s \in Target(r2, asked) PROVE Meets(r2, s, Final(r2, asked), asked.latency)
  <2>1. s \in Target(r, asked) /\ s \in Sources
    BY <1>1 DEF Target
  <2>2. Meets(r, s, Final(r, asked), asked.latency)
    BY <2>1 DEF ClockFine
  <2> QED
    BY <1>4, <2>1, <2>2, SameMeets
<1> QED
  BY <1>1, <1>3, <1>4, <1>5 DEF ClockFine

(* The wait states a change asks for are enough for what it ends with.      *)
LEMMA ClockNeeds ==
  ASSUME NEW r, NEW asked, IsTree(r), Sound(r), ClockFine(r, asked), NEW s \in Target(r, asked),
         NEW k \in {1, 2}, Final(r, asked) <= k, NEW m \in Nat, asked.latency <= m
  PROVE  Meets(r, s, k, m)
<1>1. asked.latency \in Nat /\ Final(r, asked) \in {1, 2} /\ s \in Sources
  BY DEF ClockFine, IsTree, Target, Final
<1>2. s = "PLL" => r.pll \in PllTypes
  <2>1. s = "PLL" => r.pll.source \in r.on
    BY DEF ClockFine, Sound, Solid, Target
  <2> QED
    BY <2>1, PllIsSet
<1>3. Meets(r, s, Final(r, asked), asked.latency)
  BY DEF ClockFine
<1> QED
  BY <1>1, <1>2, <1>3, MeetsMore

(* A sound tree has the wait states for a greater divider, and more.        *)
LEMMA SoundNeeds ==
  ASSUME NEW r, IsTree(r), Sound(r), NEW s \in {r.sw, r.sws},
         NEW k \in {1, 2}, Counted(r) <= k, NEW m \in Nat, r.latency <= m
  PROVE  Meets(r, s, k, m)
<1>1. r.latency \in Nat /\ Counted(r) \in {1, 2} /\ s \in Sources
  BY DEF IsTree, Counted
<1>2. s = "PLL" => r.pll \in PllTypes
  BY PllIsSet DEF Sound, Solid
<1>3. Meets(r, s, Counted(r), r.latency)
  BY DEF Sound
<1> QED
  BY <1>1, <1>2, <1>3, MeetsMore

(* A change of clocks finds what it was called with, and once past its     *)
(* first label the wait states.                                            *)
LEMMA ClockAt ==
  ASSUME RccIInv, rccCall.at \in ClockLabels
  PROVE  /\ ClockFine(rcc, Asked) /\ IsTree(rcc) /\ Sound(rcc) /\ Arrived(rccCall.at, rcc)
         /\ rccCall.at # "latency" => Asked.latency <= rcc.latency
         /\ Reached(rccCall.at, rcc, Asked)
         /\ DOMAIN rcc = RccField /\ Asked.latency \in Nat /\ rcc.latency \in Nat /\ rcc.hpre \in {1, 2}
<1>1. CallIsFine(rcc, rccCall) /\ IsTree(rcc) /\ Sound(rcc)
  BY DEF RccIInv
<1>2. ClockFine(rcc, Asked) /\ (rccCall.at # "latency" => Asked.latency <= rcc.latency) /\ Arrived(rccCall.at, rcc)
      /\ Reached(rccCall.at, rcc, Asked)
  BY <1>1 DEF CallIsFine, Fine, Asked
<1>3. Asked.latency \in Nat
  BY <1>2 DEF ClockFine
<1> QED
  BY <1>1, <1>2, <1>3 DEF IsTree

(* Labels that ask for nothing but the wait states and what was done.       *)
LEMMA PlainClock ==
  ASSUME NEW r, NEW asked, ClockFine(r, asked), asked.latency <= r.latency, NEW l \in ClockLabels, Reached(l, r, asked)
  PROVE  /\ l # "wait" /\ Fine(l, r, asked)
         /\ l # "switched" => Arrived(l, r) /\ \A w : Awaits(l, w)
BY DEF Fine, Arrived, Awaits, OscLabels, ClockLabels

(* Labels that ask for nothing that was done.                               *)
LEMMA EarlyClock ==
  ASSUME NEW r, NEW asked
  PROVE  /\ Reached("HCLK5", r, asked)
         /\ "SYSCLK" \in asked.types => Reached("SYSCLK", r, asked)
         /\ "SYSCLK" \notin asked.types => Reached("dividers", r, asked)
BY DEF Reached

(* More wait states come first.                                            *)
LEMMA ConfigLatencyKeeps == RccIInv /\ ConfigLatency => RccIInv'
<1> SUFFICES ASSUME RccIInv, ConfigLatency PROVE RccIInv'
  OBVIOUS
<1>1. rccCall.at \in ClockLabels
  BY DEF ConfigLatency, RccAt, ClockLabels
<1>2. /\ ClockFine(rcc, Asked) /\ IsTree(rcc) /\ Sound(rcc)
      /\ DOMAIN rcc = RccField /\ Asked.latency \in Nat /\ rcc.latency \in Nat /\ rcc.hpre \in {1, 2}
  BY <1>1, ClockAt
<1>3. CASE Asked.latency <= rcc.latency /\ RccKeeps /\ RccGoes("HCLK5")
  <2>1. SameTree(rcc, rcc')
    BY <1>3, TreeUnchanged DEF RccKeeps
  <2>2. Fine("HCLK5", rcc, Asked) /\ Arrived("HCLK5", rcc)
    BY <1>2, <1>3, PlainClock, EarlyClock DEF ClockLabels
  <2> QED
    BY <1>3, <2>1, <2>2, TreeKeptSteps
<1>4. CASE /\ Asked.latency > rcc.latency /\ RccGoes("HCLK5")
           /\ rcc' = [rcc EXCEPT !.latency = Asked.latency]
  <2> DEFINE m == Asked.latency
  <2>1. m \in Nat /\ m <= m /\ rcc' = [rcc EXCEPT !.latency = m]
    BY <1>2, <1>4
  <2>a. \A s \in {rcc.sw, rcc.sws} : Meets(rcc, s, Counted(rcc), m)
    <3>1. Counted(rcc) \in {1, 2} /\ rcc.latency <= m
      BY <1>2, <1>4 DEF IsTree, Counted
    <3> QED
      BY <1>2, <2>1, <3>1, SoundNeeds
  <2> HIDE DEF m
  <2>2. /\ SameClocks(rcc, rcc') /\ rcc'.on = rcc.on /\ rcc'.ready = rcc.ready
        /\ rcc'.sw = rcc.sw /\ rcc'.sws = rcc.sws /\ rcc'.hpre = rcc.hpre /\ rcc'.owed = rcc.owed /\ rcc'.latency = m
    BY <1>2, <2>1, LatencyWritten
  <2>3. IsTree(rcc')
    BY <1>2, <2>1, <2>2, SameClocksTree DEF IsTree
  <2>4. Sound(rcc')
    BY <1>2, <2>a, <2>2, SameClocksSound DEF Sound, Counted
  <2>5. ClockFine(rcc', Asked)
    BY <1>2, <2>2, SameClocksFine
  <2>6. Asked.latency <= rcc'.latency
    BY <2>1, <2>2 DEF m
  <2>7. Fine("HCLK5", rcc', Asked) /\ Arrived("HCLK5", rcc')
    BY <2>5, <2>6, PlainClock, EarlyClock DEF ClockLabels
  <2> QED
    BY <1>4, <2>3, <2>4, <2>7, CallSteps
<1>5. CASE RccKeeps /\ RccReturns("HAL_ERROR")
  <2>1. SameTree(rcc, rcc')
    BY <1>5, TreeUnchanged DEF RccKeeps
  <2> QED
    BY <1>5, <2>1, TreeKeptSteps
<1> QED
  BY <1>3, <1>4, <1>5 DEF ConfigLatency

(* The radio's dividers are of no concern to the tree.                     *)
LEMMA ConfigHCLK5Keeps == RccIInv /\ ConfigHCLK5 => RccIInv'
<1> SUFFICES ASSUME RccIInv, ConfigHCLK5 PROVE RccIInv'
  OBVIOUS
<1>1. rccCall.at \in ClockLabels /\ rccCall.at # "latency"
  BY DEF ConfigHCLK5, RccAt, ClockLabels
<1>2. /\ ClockFine(rcc, Asked) /\ IsTree(rcc) /\ Asked.latency <= rcc.latency
      /\ DOMAIN rcc = RccField
  BY <1>1, ClockAt
<1>3. SameTree(rcc, rcc')
  <2>1. rcc' = rcc \/ rcc' = [rcc EXCEPT !.hpre5 = Asked.hpre5, !.hdiv5 = Asked.hdiv5]
    BY DEF ConfigHCLK5
  <2> QED
    BY <1>2, <2>1 DEF RccField, SameTree
<1>4. PICK l \in {"SYSCLK", "dividers"} : RccGoes(l) /\ (l = "SYSCLK" <=> "SYSCLK" \in Asked.types)
  BY DEF ConfigHCLK5
<1>5. Fine(l, rcc, Asked) /\ Arrived(l, rcc) /\ l # "wait"
  BY <1>2, <1>4, PlainClock, EarlyClock DEF ClockLabels
<1> QED
  BY <1>3, <1>4, <1>5, TreeKeptSteps

(* The clock that is switched to is ready and has its wait states, and the  *)
(* PLL is taken through its divider.                                        *)
LEMMA SwitchSound ==
  ASSUME NEW r, IsTree(r), Sound(r), NEW asked, ClockFine(r, asked), asked.latency <= r.latency,
         asked.source \in r.ready, NEW r2, SameClocks(r, r2), IsTree(r2),
         r2.sw = asked.source, r2.sws = r.sws, r2.hpre = r.hpre, r2.latency = r.latency, r2.ready = r.ready,
         "SYSCLK" \in asked.types,
         r2.owed = IF asked.source # r.sw /\ "HCLK" \in asked.types /\ asked.hpre > r.hpre THEN asked.hpre ELSE r.owed,
         \A o \in Sources : o \in r2.on <=> o \in r.on,
         "Undivided" \in r2.on => "Undivided" \in r.on,
         asked.source = "PLL" /\ r.sws # "PLL" => "Undivided" \notin r2.on
  PROVE  Sound(r2)
<1>1. asked.source \in Sources /\ r.sws \in Sources /\ r.latency \in Nat
  BY DEF ClockFine, IsTree
<1>a. Counted(r2) \in {1, 2} /\ Counted(r) <= Counted(r2)
  BY DEF IsTree, Counted, ClockFine
<1>2. \A s \in {asked.source, r.sws} : Meets(r2, s, Counted(r2), r2.latency)
  <2>1. Meets(r, asked.source, Counted(r2), r.latency)
    <3>1. CASE asked.source = r.sw
      BY <1>1, <1>a, <3>1, SoundNeeds
    <3>2. CASE asked.source # r.sw
      <4>1. Final(r, asked) <= Counted(r2)
        BY <3>2 DEF Final, Counted, IsTree, ClockFine
      <4>2. asked.source \in Target(r, asked)
        BY DEF Target
      <4> QED
        BY <1>1, <1>a, <4>1, <4>2, ClockNeeds
    <3> QED
      BY <3>1, <3>2
  <2>2. Meets(r, r.sws, Counted(r2), r.latency)
    BY <1>1, <1>a, SoundNeeds
  <2> QED
    BY <1>1, <2>1, <2>2, SameMeets
<1>3. "PLL" \in r.ready => r.pll.source \in r.ready
  BY DEF Sound
<1>4. ASSUME NEW s \in {asked.source, r.sws} PROVE Solid(r2, s)
  <2>1. s \in r.on /\ s \in r.ready /\ (s = "PLL" => r.pll.source \in r.on)
    BY DEF ClockFine, Sound, Solid
  <2>2. s = "PLL" => r.pll.source \in Sources
    BY <2>1, PllIsSet DEF PllTypes, Sources
  <2> QED
    BY <1>1, <1>3, <2>1, <2>2 DEF Solid, SameClocks
<1>5. "PLL" \in r2.ready => r2.pll.source \in r2.ready
  BY <1>3 DEF SameClocks
<1> QED
  BY <1>2, <1>4, <1>5 DEF Sound

(* The clock is selected when it is ready, with its wait states.           *)
LEMMA ConfigSYSCLKKeeps == RccIInv /\ ConfigSYSCLK => RccIInv'
<1> SUFFICES ASSUME RccIInv, ConfigSYSCLK PROVE RccIInv'
  OBVIOUS
<1>1. rccCall.at \in {"SYSCLK", "switched"}
  BY DEF ConfigSYSCLK, RccAt
<1>2. /\ ClockFine(rcc, Asked) /\ IsTree(rcc) /\ Sound(rcc) /\ Arrived(rccCall.at, rcc)
      /\ Asked.latency <= rcc.latency /\ Reached(rccCall.at, rcc, Asked)
      /\ DOMAIN rcc = RccField
  BY <1>1, ClockAt DEF ClockLabels
<1>a. "SYSCLK" \in Asked.types
  BY <1>1, <1>2 DEF Reached
<1>3. CASE RccKeeps /\ RccReturns("HAL_ERROR")
  <2>1. SameTree(rcc, rcc')
    BY <1>3, TreeUnchanged DEF RccKeeps
  <2> QED
    BY <1>3, <2>1, TreeKeptSteps
<1>4. CASE /\ Asked.source \in rcc.ready
           /\ rcc' = [rcc EXCEPT !.sw = Asked.source,
                                 !.owed = IF Asked.source # rcc.sw /\ ChangesHCLK /\ Asked.hpre > rcc.hpre THEN Asked.hpre ELSE @,
                                 !.on = IF Asked.source = "PLL" /\ rcc.sws # "PLL" THEN TurnedOff({"Undivided"}) ELSE @]
           /\ RccWaits({"switch"}, TRUE, "switched")
  <2> DEFINE s == Asked.source
             on == IF Asked.source = "PLL" /\ rcc.sws # "PLL" THEN TurnedOff({"Undivided"}) ELSE rcc.on
             owed == IF Asked.source # rcc.sw /\ "HCLK" \in Asked.types /\ Asked.hpre > rcc.hpre THEN Asked.hpre ELSE rcc.owed
  <2>1. rcc' = [rcc EXCEPT !.sw = s, !.owed = owed, !.on = on]
    BY <1>4 DEF ChangesHCLK
  <2>2. owed \in {1, 2}
    BY <1>2 DEF ClockFine, IsTree
  <2>3. /\ \A o \in Sources : o \in on <=> o \in rcc.on
        /\ "Undivided" \in on => "Undivided" \in rcc.on
        /\ s = "PLL" /\ rcc.sws # "PLL" => "Undivided" \notin on
        /\ "none" \in on => "none" \in rcc.on
    BY DEF TurnedOff, Sources
  <2>4. s \in Sources /\ s \in rcc.ready
    BY <1>2, <1>4 DEF ClockFine
  <2>5. s = Asked.source
    OBVIOUS
  <2> HIDE DEF s, on, owed
  <2>6. /\ SameClocks(rcc, rcc') /\ rcc'.on = on /\ rcc'.ready = rcc.ready /\ rcc'.owed = owed
        /\ rcc'.sw = s /\ rcc'.sws = rcc.sws /\ rcc'.hpre = rcc.hpre /\ rcc'.latency = rcc.latency
    <3>1. DOMAIN rcc = RccField /\ rcc' = [rcc EXCEPT !.sw = s, !.owed = owed, !.on = on]
      BY <1>2, <2>1
    <3> QED
      BY <3>1 DEF RccField, SameClocks
  <2>7. IsTree(rcc')
    BY <1>2, <2>2, <2>3, <2>4, <2>6, SameClocksTree DEF IsTree
  <2>a. rcc'.owed = IF Asked.source # rcc.sw /\ "HCLK" \in Asked.types /\ Asked.hpre > rcc.hpre THEN Asked.hpre ELSE rcc.owed
    BY <2>6 DEF owed
  <2>8. Sound(rcc')
    BY <1>2, <1>a, <2>a, <2>3, <2>4, <2>5, <2>6, <2>7, SwitchSound
  <2>9. ClockFine(rcc', Asked)
    BY <1>2, <1>a, <2>3, <2>6, SameClocksFine
  <2>10. Fine("switched", rcc', Asked)
    BY <1>2, <1>a, <2>5, <2>6, <2>9, PlainClock DEF ClockLabels, Reached
  <2>11. Awaits("switched", <<{"switch"}, TRUE, "switched">>)
    BY DEF Awaits
  <2> QED
    BY <1>4, <2>7, <2>8, <2>10, <2>11, CallSteps
<1>5. CASE /\ rccCall.at = "switched" /\ rcc' = [rcc EXCEPT !.on = TurnedOn({"Undivided"})]
           /\ RccWaits({"Undivided"}, TRUE, "dividers")
  <2> DEFINE on == TurnedOn({"Undivided"})
  <2>1. rcc' = [rcc EXCEPT !.on = on] /\ rcc.sws = rcc.sw /\ rcc.sw = Asked.source
    BY <1>2, <1>a, <1>5 DEF Arrived, Reached
  <2>2. /\ \A o \in Sources : o \in on <=> o \in rcc.on
        /\ "none" \in on => "none" \in rcc.on
    BY DEF TurnedOn, Sources
  <2> HIDE DEF on
  <2>3. /\ SameClocks(rcc, rcc') /\ rcc'.on = on /\ rcc'.ready = rcc.ready
        /\ rcc'.sw = rcc.sw /\ rcc'.sws = rcc.sws /\ rcc'.hpre = rcc.hpre /\ rcc'.owed = rcc.owed /\ rcc'.latency = rcc.latency
    BY <1>2, <2>1, EnablesWritten
  <2>4. IsTree(rcc')
    BY <1>2, <2>2, <2>3, SameClocksTree DEF IsTree
  <2>5. Sound(rcc')
    BY <1>2, <2>1, <2>2, <2>3, SameClocksSound DEF Sound, Counted
  <2>6. ClockFine(rcc', Asked)
    BY <1>2, <2>2, <2>3, SameClocksFine
  <2>7. Fine("dividers", rcc', Asked) /\ \A w : Awaits("dividers", w)
    BY <1>2, <2>1, <2>3, <2>6, PlainClock DEF ClockLabels, Reached
  <2> QED
    BY <1>5, <2>4, <2>5, <2>7, CallSteps
<1>6. CASE rccCall.at = "switched" /\ RccKeeps /\ RccGoes("dividers")
  <2>1. SameTree(rcc, rcc') /\ rcc.sws = rcc.sw /\ rcc.sw = Asked.source
    BY <1>2, <1>a, <1>6, TreeUnchanged DEF RccKeeps, Arrived, Reached
  <2>2. Fine("dividers", rcc, Asked) /\ Arrived("dividers", rcc)
    BY <1>2, <2>1, PlainClock DEF ClockLabels, Reached
  <2> QED
    BY <1>6, <2>1, <2>2, TreeKeptSteps
<1> QED
  BY <1>3, <1>4, <1>5, <1>6 DEF ConfigSYSCLK, RccAt

(* The dividers are written when the clock they are for is in use.         *)
LEMMA ConfigDividersKeeps == RccIInv /\ ConfigDividers => RccIInv'
<1> SUFFICES ASSUME RccIInv, ConfigDividers PROVE RccIInv'
  OBVIOUS
<1>1. rccCall.at = "dividers" /\ RccGoes("less latency")
  BY DEF ConfigDividers, RccAt
<1>2. /\ ClockFine(rcc, Asked) /\ IsTree(rcc) /\ Sound(rcc) /\ Asked.latency <= rcc.latency
      /\ Reached("dividers", rcc, Asked)
      /\ DOMAIN rcc = RccField /\ rcc.hpre \in {1, 2} /\ rcc.latency \in Nat
  BY <1>1, ClockAt DEF ClockLabels
<1> DEFINE h == Final(rcc, Asked)
           p == [b \in Buses |-> IF b \in Asked.types THEN Asked.ppre[b] ELSE rcc.ppre[b]]
<1>3. rcc' = [rcc EXCEPT !.hpre = h, !.owed = 1, !.ppre = p]
  BY DEF ConfigDividers, ChangesHCLK, Final
<1>4. h = rcc.hpre \/ ("HCLK" \in Asked.types /\ h = Asked.hpre)
  BY DEF Final
<1>5. h \in {1, 2}
  BY <1>2 DEF ClockFine, Final
<1>6. \A s \in {rcc.sw, rcc.sws} : Meets(rcc, s, h, rcc.latency)
  <2>1. \A s \in {rcc.sw, rcc.sws} : s \in Target(rcc, Asked)
    BY <1>2 DEF Reached, Target
  <2>2. h <= h
    BY <1>5
  <2> QED
    BY <1>2, <1>5, <2>1, <2>2, ClockNeeds
<1>a. h = Final(rcc, Asked)
  OBVIOUS
<1> HIDE DEF h, p
<1>7. DOMAIN rcc = RccField
  BY <1>2
<1>8. /\ SameClocks(rcc, rcc') /\ rcc'.on = rcc.on /\ rcc'.ready = rcc.ready /\ rcc'.owed = 1
      /\ rcc'.sw = rcc.sw /\ rcc'.sws = rcc.sws /\ rcc'.hpre = h /\ rcc'.latency = rcc.latency
  BY <1>3, <1>7 DEF RccField, SameClocks
<1>9. IsTree(rcc')
  BY <1>2, <1>5, <1>8, SameClocksTree DEF IsTree
<1>b. Counted(rcc') = h
  BY <1>5, <1>8 DEF Counted
<1>10. Sound(rcc')
  BY <1>2, <1>6, <1>8, <1>b, SameClocksSound DEF Sound
<1>11. ClockFine(rcc', Asked) /\ Final(rcc', Asked) = h
  BY <1>2, <1>4, <1>8, <1>a, SameClocksFine
<1>12. Fine("less latency", rcc', Asked) /\ Arrived("less latency", rcc')
  BY <1>2, <1>8, <1>11, PlainClock DEF ClockLabels, Reached
<1> QED
  BY <1>1, <1>9, <1>10, <1>12, CallSteps

(* Fewer wait states come last.                                            *)
LEMMA ConfigEndsKeeps == RccIInv /\ ConfigEnds => RccIInv'
<1> SUFFICES ASSUME RccIInv, ConfigEnds PROVE RccIInv'
  OBVIOUS
<1>1. rccCall.at = "less latency"
  BY DEF ConfigEnds, RccAt
<1>2. /\ ClockFine(rcc, Asked) /\ IsTree(rcc) /\ Sound(rcc) /\ Asked.latency <= rcc.latency
      /\ Reached("less latency", rcc, Asked)
      /\ DOMAIN rcc = RccField /\ rcc.hpre \in {1, 2} /\ rcc.latency \in Nat /\ Asked.latency \in Nat
  BY <1>1, ClockAt DEF ClockLabels
<1>3. CASE RccKeeps /\ RccReturns("HAL_ERROR")
  <2>1. SameTree(rcc, rcc')
    BY <1>3, TreeUnchanged DEF RccKeeps
  <2> QED
    BY <1>3, <2>1, TreeKeptSteps
<1>4. CASE /\ rcc' = [rcc EXCEPT !.latency = IF Asked.latency < @ THEN Asked.latency ELSE @,
                                 !.SystemCoreClock = HCLK]
           /\ \E status : RccReturns(status)
  <2> DEFINE l == IF Asked.latency < rcc.latency THEN Asked.latency ELSE rcc.latency
             c == HCLK
  <2>1. rcc' = [rcc EXCEPT !.latency = l, !.SystemCoreClock = c]
    BY <1>4
  <2>0. Asked.latency \in Nat /\ rcc.latency \in Nat /\ Asked.latency <= rcc.latency
    BY <1>2
  <2>2. l \in Nat /\ Asked.latency <= l
    BY <2>0
  <2> HIDE DEF l, c
  <2>3. \A s \in {rcc.sw, rcc.sws} : Meets(rcc, s, Counted(rcc), l)
    <3>1. \A s \in {rcc.sw, rcc.sws} : s \in Target(rcc, Asked)
      BY <1>2 DEF Reached, Target
    <3>2. Counted(rcc) = Final(rcc, Asked) /\ Counted(rcc) \in {1, 2} /\ Final(rcc, Asked) <= Counted(rcc)
      BY <1>2 DEF Reached, Counted
    <3> QED
      BY <1>2, <2>2, <3>1, <3>2, ClockNeeds
  <2>4. DOMAIN rcc = RccField
    BY <1>2
  <2>5. /\ SameClocks(rcc, rcc') /\ rcc'.on = rcc.on /\ rcc'.ready = rcc.ready
        /\ rcc'.sw = rcc.sw /\ rcc'.sws = rcc.sws /\ rcc'.hpre = rcc.hpre /\ rcc'.owed = rcc.owed /\ rcc'.latency = l
    BY <2>1, <2>4 DEF RccField, SameClocks
  <2>6. IsTree(rcc')
    BY <1>2, <2>2, <2>5, SameClocksTree DEF IsTree
  <2>7. Sound(rcc')
    BY <1>2, <2>3, <2>5, SameClocksSound DEF Sound, Counted
  <2> QED
    BY <1>4, <2>6, <2>7, CallSteps
<1> QED
  BY <1>3, <1>4 DEF ConfigEnds, TickFails

-----------------------------------------------------------------------------
(* HAL_RCC_DeInit.                                                          *)

(* What the reset relies on at each of its labels.                         *)
LEMMA ResetAt ==
  ASSUME RccIInv
  PROVE  /\ IsTree(rcc) /\ Sound(rcc) /\ DOMAIN rcc = RccField
         /\ rccCall.at = "reset switch" => "HSI" \in rcc.on /\ "HSI" \in rcc.ready
         /\ rccCall.at = "reset rest" => rcc.sw = "HSI" /\ rcc.sws = rcc.sw
         /\ rccCall.at = "reset PLL" => rcc.sw = "HSI" /\ rcc.sws = "HSI" /\ "PLL" \notin rcc.ready
<1>1. IsTree(rcc) /\ Sound(rcc) /\ Fine(rccCall.at, rcc, Asked) /\ Arrived(rccCall.at, rcc)
  BY DEF RccIInv, CallIsFine, Asked
<1> QED
  BY <1>1 DEF IsTree, Fine, Arrived

(* What it must show to get there.                                         *)
LEMMA ResetFine ==
  ASSUME NEW r, NEW asked
  PROVE  /\ "HSI" \in r.on => Fine("reset switch", r, asked)
         /\ r.sw = "HSI" => Fine("reset rest", r, asked)
         /\ r.sw = "HSI" /\ r.sws = "HSI" => Fine("reset PLL", r, asked)
         /\ Awaits("reset switch", <<{"HSI"}, TRUE, "reset switch">>)
         /\ Awaits("reset rest", <<{"switch"}, TRUE, "reset rest">>)
         /\ Awaits("reset PLL", <<{"PLL"}, FALSE, "reset PLL">>)
BY DEF Fine, Awaits, OscLabels, ClockLabels

(* The HSI, which needs no wait states, is selected.                        *)
LEMMA HsiSelected ==
  ASSUME NEW r, IsTree(r), Sound(r), "HSI" \in r.on, "HSI" \in r.ready, NEW r2, SameClocks(r, r2), IsTree(r2),
         r2.on = r.on, r2.ready = r.ready, r2.sw = "HSI", r2.sws = r.sws, r2.hpre = r.hpre, r2.owed = r.owed, r2.latency = r.latency
  PROVE  Sound(r2)
<1>1. r.sws \in Sources /\ "HSI" \in Sources /\ Counted(r) \in {1, 2} /\ r.latency \in Nat /\ Counted(r2) = Counted(r)
  BY DEF IsTree, Sources, Counted
<1>2. Meets(r2, "HSI", Counted(r2), r2.latency)
  BY <1>1, OscillatorMeets
<1>3. Meets(r, r.sws, Counted(r), r.latency)
  BY DEF Sound
<1>4. Meets(r2, r.sws, Counted(r2), r2.latency)
  BY <1>1, <1>3, SameMeets
<1>5. Solid(r2, "HSI") /\ Solid(r2, r.sws)
  BY DEF Sound, Solid, SameClocks
<1>6. "PLL" \in r2.ready => r2.pll.source \in r2.ready
  BY DEF Sound, SameClocks
<1> QED
  BY <1>2, <1>4, <1>5, <1>6 DEF Sound

(* The reset makes the HSI the only clock before the rest goes.             *)
LEMMA DeInitKeeps == RccIInv /\ HAL_RCC_DeInit => RccIInv'
<1> SUFFICES ASSUME RccIInv, HAL_RCC_DeInit PROVE RccIInv'
  OBVIOUS
<1>1. IsTree(rcc) /\ Sound(rcc) /\ DOMAIN rcc = RccField
  BY ResetAt
<1>2. CASE /\ rccCall.at = "reset HSI" /\ rcc' = [rcc EXCEPT !.on = TurnedOn({"HSI"})]
           /\ RccWaits({"HSI"}, TRUE, "reset switch")
  <2> DEFINE on == TurnedOn({"HSI"})
  <2>1. rcc' = [rcc EXCEPT !.on = on]
    BY <1>2
  <2>2. on = rcc.on \cup {"HSI"}
    BY DEF TurnedOn
  <2> HIDE DEF on
  <2>3. DOMAIN rcc = RccField
    BY <1>1
  <2>4. /\ SameClocks(rcc, rcc') /\ rcc'.on = on /\ rcc'.ready = rcc.ready
        /\ rcc'.sw = rcc.sw /\ rcc'.sws = rcc.sws /\ rcc'.hpre = rcc.hpre /\ rcc'.owed = rcc.owed /\ rcc'.latency = rcc.latency
    BY <2>1, <2>3 DEF RccField, SameClocks
  <2>5. IsTree(rcc')
    BY <1>1, <2>2, <2>4, SameClocksTree DEF IsTree
  <2>6. Sound(rcc')
    BY <1>1, <2>2, <2>4, SameClocksSound DEF Sound, Counted
  <2>7. Fine("reset switch", rcc', Asked) /\ Awaits("reset switch", <<{"HSI"}, TRUE, "reset switch">>)
    BY <2>2, <2>4, ResetFine
  <2> QED
    BY <1>2, <2>5, <2>6, <2>7, CallSteps
<1>3. CASE /\ rccCall.at = "reset switch" /\ RccWaits({"switch"}, TRUE, "reset rest")
           /\ rcc' = [rcc EXCEPT !.sw = "HSI"]
  <2>1. "HSI" \in rcc.on /\ "HSI" \in rcc.ready
    BY <1>3, ResetAt
  <2>2. DOMAIN rcc = RccField /\ rcc' = [rcc EXCEPT !.sw = "HSI"]
    BY <1>1, <1>3
  <2>3. /\ SameClocks(rcc, rcc') /\ rcc'.on = rcc.on /\ rcc'.ready = rcc.ready
        /\ rcc'.sw = "HSI" /\ rcc'.sws = rcc.sws /\ rcc'.hpre = rcc.hpre /\ rcc'.owed = rcc.owed /\ rcc'.latency = rcc.latency
    BY <2>2 DEF RccField, SameClocks
  <2>4. IsTree(rcc')
    BY <1>1, <2>3, SameClocksTree DEF IsTree, Sources
  <2>5. Sound(rcc')
    BY <1>1, <2>1, <2>3, <2>4, HsiSelected
  <2>6. Fine("reset rest", rcc', Asked) /\ Awaits("reset rest", <<{"switch"}, TRUE, "reset rest">>)
    BY <2>3, ResetFine
  <2> QED
    BY <1>3, <2>4, <2>5, <2>6, CallSteps
<1>4. CASE /\ rccCall.at = "reset rest" /\ RccWaits({"PLL"}, FALSE, "reset PLL")
           /\ rcc' = [rcc EXCEPT !.hpre = 1, !.owed = 1, !.ppre = [b \in Buses |-> 1], !.hpre5 = 1, !.hdiv5 = 2,
                           !.on = (@ \ Sources) \cup {"HSI"}, !.hsePre = 1]
  <2> DEFINE on == (rcc.on \ Sources) \cup {"HSI"}
             p == [b \in Buses |-> 1]
  <2>1. rcc.sw = "HSI" /\ rcc.sws = "HSI"
    BY <1>4, ResetAt
  <2>2. DOMAIN rcc = RccField /\ rcc' = [rcc EXCEPT !.hpre = 1, !.owed = 1, !.ppre = p, !.hpre5 = 1, !.hdiv5 = 2, !.on = on, !.hsePre = 1]
    BY <1>1, <1>4
  <2>3. "HSI" \in on /\ ("none" \in on => "none" \in rcc.on)
    OBVIOUS
  <2> HIDE DEF on, p
  <2>4. /\ DOMAIN rcc' = RccField /\ rcc'.on = on /\ rcc'.ready = rcc.ready /\ rcc'.pll = rcc.pll
        /\ rcc'.sw = rcc.sw /\ rcc'.sws = rcc.sws /\ rcc'.hpre = 1 /\ rcc'.owed = 1 /\ rcc'.latency = rcc.latency
        /\ rcc'.hsePre = 1 /\ rcc'.fracn = rcc.fracn
    BY <2>2 DEF RccField
  <2>5. IsTree(rcc')
    BY <1>1, <2>3, <2>4 DEF IsTree
  <2>6. Sound(rcc')
    BY <1>1, <2>1, <2>3, <2>4, <2>5, OneClockIsSound DEF Sound, Solid
  <2>7. Fine("reset PLL", rcc', Asked) /\ Awaits("reset PLL", <<{"PLL"}, FALSE, "reset PLL">>)
    BY <2>1, <2>4, ResetFine
  <2> QED
    BY <1>4, <2>5, <2>6, <2>7, CallSteps
<1>5. CASE /\ rccCall.at = "reset PLL" /\ \E status : RccReturns(status)
           /\ rcc' = [rcc EXCEPT !.pll = ResetPll, !.fracen = FALSE, !.fracn = 0, !.outputs = {},
                           !.on = @ \ {"Undivided"}, !.SystemCoreClock = HSI_VALUE]
  <2> DEFINE on == rcc.on \ {"Undivided"}
  <2>1. rcc.sw = "HSI" /\ rcc.sws = "HSI" /\ "PLL" \notin rcc.ready
    BY <1>5, ResetAt
  <2>2. DOMAIN rcc = RccField /\ rcc' = [rcc EXCEPT !.pll = ResetPll, !.fracen = FALSE, !.fracn = 0, !.outputs = {},
                                         !.on = on, !.SystemCoreClock = HSI_VALUE]
    BY <1>1, <1>5
  <2>3. "HSI" \in rcc.on
    BY <1>1, <2>1 DEF Sound, Solid
  <2>4. "HSI" \in on /\ ("none" \in on => "none" \in rcc.on)
    BY <2>3
  <2>5. IsPll(ResetPll)
    BY DEF IsPll, ResetPll
  <2> HIDE DEF on
  <2>6. /\ DOMAIN rcc' = RccField /\ rcc'.on = on /\ rcc'.ready = rcc.ready /\ rcc'.pll = ResetPll
        /\ rcc'.sw = rcc.sw /\ rcc'.sws = rcc.sws /\ rcc'.hpre = rcc.hpre /\ rcc'.owed = rcc.owed /\ rcc'.latency = rcc.latency
        /\ rcc'.hsePre = rcc.hsePre /\ rcc'.fracn = 0
    BY <2>2 DEF RccField
  <2>7. 0 \in FractionValue
    BY DEF FractionValue
  <2>8. IsTree(rcc')
    BY <1>1, <2>4, <2>5, <2>6, <2>7 DEF IsTree
  <2>9. Sound(rcc')
    BY <1>1, <2>1, <2>4, <2>6, <2>8, OneClockIsSound DEF Sound, Solid
  <2> QED
    BY <1>5, <2>8, <2>9, CallSteps
<1> QED
  BY <1>2, <1>3, <1>4, <1>5 DEF HAL_RCC_DeInit, RccAt, TickFails

-----------------------------------------------------------------------------
(* The hardware.                                                            *)

(* What is asked of the tree at a label does not depend on what is ready.   *)
LEMMA ReadyNotAsked ==
  ASSUME NEW r, IsTree(r), NEW r2, SameClocks(r, r2), r2.on = r.on, r2.sw = r.sw, r2.sws = r.sws,
         r2.hpre = r.hpre, r2.owed = r.owed, r2.latency = r.latency, NEW l, NEW asked, Fine(l, r, asked)
  PROVE  Fine(l, r2, asked)
<1>1. OscFine(r, asked) => OscFine(r2, asked)
  <2>1. Base(r2) = Base(r)
    BY DEF Base, SameClocks
  <2> QED
    BY <2>1 DEF OscFine
<1>2. ClockFine(r, asked) => ClockFine(r2, asked)
  BY SameClocksFine
<1>3. Reached(l, r, asked) => Reached(l, r2, asked)
  BY DEF Reached, Final
<1> QED
  BY <1>1, <1>2, <1>3 DEF Fine

(* An oscillator that is lost was off, or lost what it is made from.        *)
LEMMA SettlesKeeps == RccIInv /\ Settles => RccIInv'
<1> SUFFICES ASSUME RccIInv, Settles PROVE RccIInv'
  OBVIOUS
<1>1. IsTree(rcc) /\ Sound(rcc) /\ CallIsFine(rcc, rccCall) /\ rccCall.at \in {"idle", "wait"} /\ rccCall' = rccCall
  BY DEF RccIInv, Settles
<1>2. PICK o \in Switched :
        /\ (o \in rcc.ready) # CanRun(o)
        /\ rcc' = [rcc EXCEPT !.ready = IF CanRun(o) THEN @ \cup {o} ELSE @ \ Lost(o)]
  BY DEF Settles
<1>a. ~CanRun(o) => o \in rcc.ready
  <2>1. CanRun(o) \in BOOLEAN
    BY DEF CanRun
  <2>2. (o \in rcc.ready) # CanRun(o)
    BY <1>2
  <2> QED
    BY <2>1, <2>2
<1> DEFINE ready == IF CanRun(o) THEN rcc.ready \cup {o} ELSE rcc.ready \ Lost(o)
<1>3. DOMAIN rcc = RccField /\ rcc' = [rcc EXCEPT !.ready = ready]
  BY <1>1, <1>2 DEF IsTree
<1>4. "none" \notin ready
  BY <1>1 DEF IsTree, Switched, Sources, BackupClocks
<1>5. "PLL" \in ready => rcc.pll.source \in ready
  <2>1. "PLL" \in rcc.ready => rcc.pll.source \in rcc.ready
    BY <1>1 DEF Sound
  <2>2. CASE CanRun(o)
    BY <2>1, <2>2 DEF CanRun
  <2>3. CASE ~CanRun(o)
    <3>1. rcc.pll.source \in {"HSI", "HSE", "none"}
      BY <1>1 DEF IsTree, IsPll, PllTypes
    <3> QED
      BY <2>1, <2>3, <3>1 DEF Lost
  <2> QED
    BY <2>2, <2>3
<1>6. ASSUME NEW s \in {rcc.sw, rcc.sws}
      PROVE  s \in ready /\ (s = "PLL" => rcc.pll.source \in ready)
  <2>1. /\ s \in Sources /\ s \in rcc.on /\ s \in rcc.ready
        /\ s = "PLL" => rcc.pll.source \in rcc.on /\ rcc.pll.source \in rcc.ready
    BY <1>1 DEF Sound, Solid, IsTree
  <2>2. s = "PLL" => rcc.pll.source \in {"HSI", "HSE"}
    BY <1>1, <2>1, PllIsSet DEF PllTypes
  <2>3. CanRun(s) /\ (s = "PLL" => CanRun(rcc.pll.source))
    BY <2>1, <2>2 DEF CanRun, Sources
  <2>4. CASE CanRun(o)
    BY <2>1, <2>4
  <2>5. CASE ~CanRun(o)
    <3>0. o \in rcc.ready
      BY <1>a, <2>5
    <3>1. o # s /\ (s = "PLL" => o # rcc.pll.source)
      BY <2>3, <2>5, Zenon
    <3>2. s \notin Lost(o) /\ (s = "PLL" => rcc.pll.source \notin Lost(o))
      BY <2>1, <2>2, <3>1 DEF Lost, Sources
    <3> QED
      BY <2>1, <2>5, <3>2
  <2> QED
    BY <2>4, <2>5
<1> HIDE DEF ready
<1>7. /\ SameClocks(rcc, rcc') /\ rcc'.on = rcc.on /\ rcc'.ready = ready
      /\ rcc'.sw = rcc.sw /\ rcc'.sws = rcc.sws /\ rcc'.hpre = rcc.hpre /\ rcc'.owed = rcc.owed /\ rcc'.latency = rcc.latency
  BY <1>3 DEF RccField, SameClocks
<1>8. IsTree(rcc')
  BY <1>1, <1>4, <1>7, SameClocksTree DEF IsTree
<1>9. Sound(rcc')
  <2>1. \A s \in {rcc'.sw, rcc'.sws} : Solid(rcc', s)
    BY <1>1, <1>6, <1>7 DEF Sound, Solid, SameClocks
  <2>2. \A s \in {rcc'.sw, rcc'.sws} : Meets(rcc', s, Counted(rcc'), rcc'.latency)
    BY <1>1, <1>7, SameMeets DEF Sound, IsTree, Counted
  <2>3. "PLL" \in rcc'.ready => rcc'.pll.source \in rcc'.ready
    BY <1>5, <1>7 DEF SameClocks
  <2>4. rcc'.sw = "PLL" /\ rcc'.sws # "PLL" => "Undivided" \notin rcc'.on
    BY <1>1, <1>7 DEF Sound
  <2> QED
    BY <2>1, <2>2, <2>3, <2>4 DEF Sound
<1>10. CallIsFine(rcc', rccCall)
  <2>1. Fine(rccCall.at, rcc', rccCall.asked) /\ Arrived(rccCall.at, rcc')
    BY <1>1, WaitLabel
  <2>2. rccCall.at = "wait" => Fine(rccCall.wait[3], rcc', rccCall.asked)
    BY <1>1, <1>7, ReadyNotAsked DEF CallIsFine
  <2> QED
    BY <1>1, <2>1, <2>2 DEF CallIsFine
<1> QED
  BY <1>1, <1>8, <1>9, <1>10 DEF RccIInv

(* A switch is only under way while nothing but it is changed.              *)
LEMMA SwitchesKeeps == RccIInv /\ Switches => RccIInv'
<1> SUFFICES ASSUME RccIInv, Switches PROVE RccIInv'
  OBVIOUS
<1>1. IsTree(rcc) /\ Sound(rcc) /\ CallIsFine(rcc, rccCall) /\ rccCall' = rccCall /\ rcc.sws # rcc.sw
  BY DEF RccIInv, Switches
<1>2. DOMAIN rcc = RccField /\ rcc' = [rcc EXCEPT !.sws = rcc.sw]
  BY <1>1 DEF Switches, IsTree
<1>3. /\ SameClocks(rcc, rcc') /\ rcc'.on = rcc.on /\ rcc'.ready = rcc.ready
      /\ rcc'.sw = rcc.sw /\ rcc'.sws = rcc.sw /\ rcc'.hpre = rcc.hpre /\ rcc'.owed = rcc.owed /\ rcc'.latency = rcc.latency
  BY <1>2 DEF RccField, SameClocks
<1>4. IsTree(rcc')
  BY <1>1, <1>3, SameClocksTree DEF IsTree
<1>5. Sound(rcc')
  <2>1. Solid(rcc', rcc.sw)
    BY <1>1, <1>3 DEF Sound, Solid, SameClocks
  <2>2. Meets(rcc', rcc.sw, Counted(rcc'), rcc'.latency)
    BY <1>1, <1>3, SameMeets DEF Sound, IsTree, Counted
  <2>3. "PLL" \in rcc'.ready => rcc'.pll.source \in rcc'.ready
    BY <1>1, <1>3 DEF Sound, SameClocks
  <2> QED
    BY <1>3, <2>1, <2>2, <2>3 DEF Sound
<1>6. ASSUME NEW l, Fine(l, rcc, Asked) PROVE Fine(l, rcc', Asked)
  <2>1. l \notin OscLabels
    BY <1>1, <1>6 DEF Fine, OscFine
  <2>2. l \in ClockLabels => ClockFine(rcc', Asked)
    BY <1>1, <1>3, <1>6, SameClocksFine DEF Fine
  <2>3. Reached(l, rcc, Asked) => Reached(l, rcc', Asked)
    BY <1>3 DEF Reached, Final
  <2> QED
    BY <1>3, <1>6, <2>1, <2>2, <2>3 DEF Fine, OscLabels
<1>7. ASSUME NEW l, Arrived(l, rcc) PROVE Arrived(l, rcc')
  BY <1>3, <1>7 DEF Arrived
<1>8. CallIsFine(rcc', rccCall)
  BY <1>1, <1>6, <1>7 DEF CallIsFine, Asked
<1> QED
  BY <1>1, <1>4, <1>5, <1>8 DEF RccIInv

-----------------------------------------------------------------------------
(* Waiting, and calls that start and end.                                   *)

(* A step that leaves the tree alone keeps the call that runs fine.        *)
LEMMA CallKept ==
  ASSUME NEW r, NEW r2, IsTree(r), Sound(r), SameTree(r, r2), NEW c, CallIsFine(r, c)
  PROVE  IsTree(r2) /\ Sound(r2) /\ CallIsFine(r2, c)
<1>1. /\ IsTree(r2) /\ Sound(r2)
      /\ Fine(c.at, r2, c.asked) /\ Arrived(c.at, r2)
  BY SameTreeKeeps DEF CallIsFine
<1>2. c.at = "wait" => Fine(c.wait[3], r2, c.asked)
  BY SameTreeKeeps DEF CallIsFine
<1> QED
  BY <1>1, <1>2 DEF CallIsFine

(* The frequency told is kept in a variable of its own.                    *)
LEMMA IdleKeeps == RccIInv /\ HAL_RCC_GetHCLKFreq => RccIInv'
<1> SUFFICES ASSUME RccIInv, HAL_RCC_GetHCLKFreq PROVE RccIInv'
  OBVIOUS
<1> DEFINE c == HCLK
<1>1. rcc' = [rcc EXCEPT !.SystemCoreClock = c] /\ rccCall' = rccCall
  BY DEF HAL_RCC_GetHCLKFreq
<1> HIDE DEF c
<1>2. IsTree(rcc) /\ Sound(rcc) /\ CallIsFine(rcc, rccCall)
  BY DEF RccIInv
<1>3. SameTree(rcc, rcc')
  BY <1>1, <1>2 DEF IsTree, RccField, SameTree
<1> QED
  BY <1>1, <1>2, <1>3, CallKept DEF RccIInv

(* What was awaited has come.                                               *)
LEMMA AwaitedArrived ==
  ASSUME NEW l, Awaits(l, rccCall.wait), Waited
  PROVE  Arrived(l, rcc)
<1>1. ASSUME l \in {"PLL config", "PLL outputs", "reset PLL"} PROVE "PLL" \notin rcc.ready
  <2>1. rccCall.wait[1] = {"PLL"} /\ rccCall.wait[2] = FALSE
    BY <1>1 DEF Awaits
  <2>2. ~FlagTold("PLL")
    BY <2>1 DEF Waited
  <2> QED
    BY <2>2 DEF FlagTold
<1>2. ASSUME l \in {"switched", "reset rest"} PROVE rcc.sws = rcc.sw
  <2>1. rccCall.wait[1] = {"switch"} /\ rccCall.wait[2] = TRUE
    BY <1>2 DEF Awaits
  <2>2. FlagTold("switch")
    BY <2>1 DEF Waited
  <2> QED
    BY <2>2 DEF FlagTold
<1>3. ASSUME l = "reset switch" PROVE "HSI" \in rcc.ready
  <2>1. rccCall.wait[1] = {"HSI"} /\ rccCall.wait[2] = TRUE
    BY <1>3 DEF Awaits
  <2>2. FlagTold("HSI")
    BY <2>1 DEF Waited
  <2> QED
    BY <2>2 DEF FlagTold
<1> QED
  BY <1>1, <1>2, <1>3 DEF Arrived

(* A wait ends.                                                            *)
LEMMA AwaitedKeeps == RccIInv /\ WaitEnds => RccIInv'
<1> SUFFICES ASSUME RccIInv, WaitEnds PROVE RccIInv'
  OBVIOUS
<1> DEFINE l == rccCall.wait[3]
<1>1. rccCall.at = "wait" /\ rcc' = rcc /\ Waited /\ rccCall' = [rccCall EXCEPT !.at = l]
  BY DEF WaitEnds, RccAt, RccKeeps, RccGoes
<1>2. /\ IsTree(rcc) /\ Sound(rcc) /\ DOMAIN rccCall = CallField
      /\ Fine(l, rcc, rccCall.asked) /\ Awaits(l, rccCall.wait)
  BY <1>1 DEF RccIInv, CallIsFine
<1>3. Arrived(l, rcc)
  BY <1>1, <1>2, AwaitedArrived
<1>4. DOMAIN rccCall' = CallField /\ rccCall'.at = l /\ rccCall'.wait = rccCall.wait /\ rccCall'.asked = rccCall.asked
  BY <1>1, <1>2 DEF CallField
<1>5. CallIsFine(rcc, rccCall')
  BY <1>2, <1>3, <1>4 DEF CallIsFine
<1> QED
  BY <1>1, <1>2, <1>5 DEF RccIInv

(* A wait takes too long, or a call has answered.                          *)
LEMMA CallEnds == RccIInv /\ (TimesOut \/ Answered) => RccIInv'
<1> SUFFICES ASSUME RccIInv, TimesOut \/ Answered PROVE RccIInv'
  OBVIOUS
<1>1. CASE TimesOut
  <2>1. RccKeeps /\ RccReturns("HAL_TIMEOUT") /\ SameTree(rcc, rcc')
    BY <1>1, TreeUnchanged DEF TimesOut, RccKeeps
  <2> QED
    BY <2>1, TreeKeptSteps
<1>2. CASE Answered
  <2>1. rcc' = rcc /\ rccCall' = NoCall
    BY <1>2 DEF Answered, RccKeeps
  <2>2. DOMAIN NoCall = CallField /\ NoCall.at = "idle"
    BY DEF NoCall, CallField
  <2>3. CallIsFine(rcc, NoCall)
    BY <2>2, WaitLabel DEF CallIsFine
  <2> QED
    BY <2>1, <2>3 DEF RccIInv
<1> QED
  BY <1>1, <1>2

(* A call starts.                                                          *)
LEMMA StartsFine ==
  ASSUME RccIInv, NEW name, NEW asked, NEW l, l # "wait", RccStarts(name, asked, l),
         Fine(l, rcc, asked), Arrived(l, rcc)
  PROVE  RccIInv'
<1> DEFINE c == [NoCall EXCEPT !.of = name, !.asked = asked, !.at = l]
<1>1. rcc' = rcc /\ rccCall' = c
  BY DEF RccStarts
<1>2. DOMAIN c = CallField /\ c.at = l /\ c.asked = asked
  BY DEF NoCall, CallField
<1> HIDE DEF c
<1>3. CallIsFine(rcc, c)
  BY <1>2 DEF CallIsFine
<1> QED
  BY <1>1, <1>3 DEF RccIInv

(* What callers ask of the oscillators.                                     *)
LEMMA PllAsked ==
  ASSUME NEW p \in PllRequests
  PROVE  /\ p.state \in {"on", "off"} /\ p.frac \in FractionValue
         /\ p.state = "on" => p.config \in PllTypes
<1>1. Fractions \subseteq FractionValue /\ 0 \in FractionValue
  BY RccAssumption DEF FractionValue
<1>2. CASE p = [NoPll EXCEPT !.state = "off"]
  BY <1>1, <1>2 DEF NoPll
<1>3. CASE \E c \in PllTypes, f \in Fractions : p = [state |-> "on", config |-> c, frac |-> f]
  BY <1>1, <1>3
<1> QED
  BY <1>2, <1>3 DEF PllRequests

(* Every request for the oscillators is well formed.                       *)
LEMMA AskedOfOsc ==
  ASSUME NEW asked \in OscRequests
  PROVE  IsOscRequest(asked)
<1>1. NoPll.state = "none" /\ NoPll.frac \in FractionValue
  BY DEF NoPll, FractionValue
<1>2. ASSUME NEW h \in {"none", "off", "div1", "div2"} PROVE IsOscRequest([NoRequest EXCEPT !.hse = h])
  BY <1>1 DEF NoRequest, IsOscRequest
<1>3. ASSUME NEW h PROVE IsOscRequest([NoRequest EXCEPT !.hsi = h])
  BY <1>1 DEF NoRequest, IsOscRequest
<1>4. ASSUME NEW l \in {{}, {"LSI1"}, {"LSI2"}}, NEW d PROVE IsOscRequest([NoRequest EXCEPT !.lsi = l, !.lsiDiv = d])
  BY <1>1 DEF NoRequest, IsOscRequest
<1>5. ASSUME NEW l \in {{}, {"LSE"}, {"LSE", "LSESYS"}}, NEW b PROVE IsOscRequest([NoRequest EXCEPT !.lse = l, !.bypass = b])
  BY <1>1 DEF NoRequest, IsOscRequest
<1>6. ASSUME NEW p \in PllRequests
      PROVE  IsOscRequest(WithPll(NoRequest, p)) /\ IsOscRequest(WithPll([NoRequest EXCEPT !.hse = "div1"], p))
  BY <1>6, PllAsked DEF WithPll, NoRequest, IsOscRequest
<1>7. \/ asked \in LsiRequests \cup LseRequests \cup HseRequests \cup HsiRequests
      \/ \E p \in PllRequests : asked \in {WithPll(NoRequest, p), WithPll([NoRequest EXCEPT !.hse = "div1"], p)}
  BY DEF OscRequests
<1>8. CASE asked \in LsiRequests
  <2>1. PICK l \in {{}, {"LSI1"}, {"LSI2"}}, d \in {1, 128} : asked = [NoRequest EXCEPT !.lsi = l, !.lsiDiv = d]
    BY <1>8 DEF LsiRequests
  <2> QED
    BY <1>4, <2>1
<1>9. CASE asked \in LseRequests
  <2> DEFINE Request(l, b) == [NoRequest EXCEPT !.lse = l, !.bypass = b]
  <2>1. LseRequests = {Request(l, b) : l \in {{}, {"LSE"}, {"LSE", "LSESYS"}}, b \in BOOLEAN}
    BY DEF LseRequests
  <2>2. \A l \in {{}, {"LSE"}, {"LSE", "LSESYS"}}, b \in BOOLEAN : IsOscRequest(Request(l, b))
    BY <1>5
  <2> HIDE DEF Request
  <2> QED
    BY <1>9, <2>1, <2>2
<1>10. CASE asked \in HseRequests
  BY <1>2, <1>10 DEF HseRequests
<1>11. CASE asked \in HsiRequests
  BY <1>3, <1>11 DEF HsiRequests
<1> QED
  BY <1>6, <1>7, <1>8, <1>9, <1>10, <1>11

(* The wait states are there for a higher fraction of the running PLL.      *)
LEMMA OscConfigKeeps == RccIInv /\ OscConfig => RccIInv'
<1> SUFFICES ASSUME RccIInv, OscConfig PROVE RccIInv'
  OBVIOUS
<1>1. PICK asked \in OscRequests : Requestable(asked) /\ RccStarts("OscConfig", asked, "HSE")
  BY DEF OscConfig
<1>2. IsTree(rcc) /\ Sound(rcc) /\ IsOscRequest(asked) /\ rcc.sw = rcc.sws
  BY <1>1, AskedOfOsc DEF RccIInv, Requestable
<1>3. ASSUME rcc.sws = "PLL", asked.pll.state = "on" PROVE NeededLatency((Base(rcc) * 5) \div 4) <= rcc.latency
  <2> DEFINE v == RCC_PLL1_GetVCOOutputFreq
             b == Base(rcc)
  <2>1. NeededLatency(((v * 5) \div 4) \div rcc.pll.r) <= rcc.latency
    BY <1>1, <1>3 DEF Requestable
  <2>2. rcc.pll \in PllTypes
    BY <1>2, <1>3, PllIsSet DEF Sound, Solid
  <2>3. rcc.pll.r = 1
    BY <2>2 DEF PllTypes
  <2>4. v = Vco(rcc)
    BY DEF RCC_PLL1_GetVCOOutputFreq, Vco
  <2>5. v \in Nat /\ b \in Nat /\ b <= v
    BY <1>2, <2>2, <2>4, VcoBounds
  <2>6. rcc.latency \in Nat
    BY <1>2 DEF IsTree
  <2> HIDE DEF v, b
  <2>7. /\ ((v * 5) \div 4) \div 1 = (v * 5) \div 4
        /\ (v * 5) \div 4 \in Int /\ (b * 5) \div 4 \in Int /\ (b * 5) \div 4 <= (v * 5) \div 4
    BY <2>5
  <2>8. /\ NeededLatency((b * 5) \div 4) <= NeededLatency((v * 5) \div 4)
        /\ NeededLatency((b * 5) \div 4) \in Int
    BY <2>7, LatencyGrows
  <2>9. NeededLatency((v * 5) \div 4) \in Int
    BY <2>7, LatencyGrows
  <2>10. NeededLatency((v * 5) \div 4) <= rcc.latency
    BY <2>1, <2>3, <2>7
  <2> QED
    BY <2>6, <2>8, <2>9, <2>10 DEF b
<1>4. OscFine(rcc, asked)
  BY <1>2, <1>3 DEF OscFine
<1>5. Fine("HSE", rcc, asked) /\ Arrived("HSE", rcc)
  BY <1>4, PlainOsc
<1> QED
  BY <1>1, <1>5, StartsFine

(* A change of clocks asks for the wait states of what it ends with.        *)
LEMMA ClockConfigKeeps == RccIInv /\ ClockConfig => RccIInv'
<1> SUFFICES ASSUME RccIInv, ClockConfig PROVE RccIInv'
  OBVIOUS
<1>1. PICK asked \in ClockRequests :
       /\ asked.source = rcc.sws \/ ("SYSCLK" \in asked.types /\ asked.source \in rcc.on)
       /\ asked.source = "PLL" => rcc.pll.source \in rcc.on
       /\ \A s \in IF "SYSCLK" \in asked.types THEN {asked.source} ELSE {rcc.sw, rcc.sws} :
            NeededLatency(FrequencyOf(s) \div (IF "HCLK" \in asked.types THEN asked.hpre ELSE rcc.hpre)) <= asked.latency
       /\ RccStarts("ClockConfig", asked, "latency")
  BY DEF ClockConfig
<1>2. IsTree(rcc) /\ Sound(rcc) /\ rcc.sw \in Sources /\ rcc.sws \in Sources
  BY DEF RccIInv, IsTree
<1>3. asked.source \in Sources /\ asked.latency \in Nat /\ asked.hpre \in {1, 2}
  BY DEF ClockRequests, Sources
<1>4. asked.source \in rcc.on
  BY <1>1, <1>2 DEF Sound, Solid
<1>5. ASSUME NEW s \in Target(rcc, asked) PROVE Meets(rcc, s, Final(rcc, asked), asked.latency)
  <2>1. s \in Sources
    BY <1>2, <1>3 DEF Target
  <2>2. FrequencyOf(s) = Hz(rcc, s)
    BY <2>1 DEF FrequencyOf, Hz, HAL_RCC_GetPLL1RFreq, RCC_PLL1_GetVCOOutputFreq, Vco, Sources
  <2>3. NeededLatency(FrequencyOf(s) \div Final(rcc, asked)) <= asked.latency
    BY <1>1 DEF Target, Final
  <2> QED
    BY <2>2, <2>3 DEF Meets
<1>6. ClockFine(rcc, asked)
  BY <1>1, <1>3, <1>4, <1>5 DEF ClockFine
<1>7. Fine("latency", rcc, asked) /\ Arrived("latency", rcc)
  BY <1>6 DEF Fine, Arrived, Reached, OscLabels, ClockLabels
<1> QED
  BY <1>1, <1>7, StartsFine

(* The reset and the peripherals' clocks ask for nothing at their start.   *)
LEMMA PlainStarts == RccIInv /\ (DeInit \/ PeriphCLKConfig) => RccIInv'
<1> SUFFICES ASSUME RccIInv, DeInit \/ PeriphCLKConfig PROVE RccIInv'
  OBVIOUS
<1>1. Fine("reset HSI", rcc, <<>>) /\ Arrived("reset HSI", rcc)
  BY WaitLabel
<1>2. CASE DeInit
  BY <1>1, <1>2, StartsFine DEF DeInit
<1>3. CASE PeriphCLKConfig
  <2>1. PICK asked : RccStarts("PeriphCLKConfig", asked, "muxes")
    BY <1>3 DEF PeriphCLKConfig
  <2>2. Fine("muxes", rcc, asked) /\ Arrived("muxes", rcc)
    BY WaitLabel
  <2> QED
    BY <2>1, <2>2, StartsFine
<1> QED
  BY <1>2, <1>3

-----------------------------------------------------------------------------
(* The clocks of the peripherals change nothing of the tree.                *)

(* The steps of HAL_RCCEx_PeriphCLKConfig leave the tree alone.            *)
LEMMA PeriphKeepsTree == RccIInv /\ HAL_RCCEx_PeriphCLKConfig => RccIInv'
<1> SUFFICES ASSUME RccIInv, HAL_RCCEx_PeriphCLKConfig PROVE RccIInv'
  OBVIOUS
<1>1. IsTree(rcc) /\ DOMAIN rcc = RccField
  BY DEF RccIInv, IsTree
<1>2. ASSUME NEW l \in {"RTC source", "RTC switch", "RTC end", "radio source"}
      PROVE  Fine(l, rcc, Asked) /\ Arrived(l, rcc) /\ l # "wait" /\ \A w : Awaits(l, w)
  BY WaitLabel
<1>3. CASE SelectsSource
  <2>1. RccGoes("RTC source") /\ (rcc' = rcc \/ \E o : rcc' = [rcc EXCEPT !.outputs = o])
    BY <1>3 DEF SelectsSource, RccKeeps
  <2>2. SameTree(rcc, rcc')
    BY <1>1, <2>1 DEF RccField, SameTree
  <2> QED
    BY <1>2, <2>1, <2>2, TreeKeptSteps
<1>4. CASE StartsRtcSource
  <2>1. CASE RccKeeps /\ RccGoes("radio source")
    <3>1. SameTree(rcc, rcc')
      BY <2>1, TreeUnchanged DEF RccKeeps
    <3> QED
      BY <1>2, <2>1, <3>1, TreeKeptSteps
  <2>2. CASE OpensBackup("RTC switch")
    BY <1>2, <2>2, OpensFine
  <2> QED
    BY <1>4, <2>1, <2>2 DEF StartsRtcSource
<1>5. CASE SwitchesRtc
  <2>1. rcc' = rcc \/ rcc' = [rcc EXCEPT !.ready = rcc.ready \ BackupClocks]
    BY <1>5 DEF SwitchesRtc, AfterBackupReset, BackupReset
  <2>2. SameTree(rcc, rcc')
    BY <1>1, <2>1, SlowClocks DEF RccField, SameTree
  <2>3. CASE RccGoes("RTC end")
    BY <1>2, <2>2, <2>3, TreeKeptSteps
  <2>4. CASE RccWaits(rcc.on \cap SlowOscillators, TRUE, "RTC end")
    BY <1>2, <2>2, <2>4, TreeKeptSteps
  <2> QED
    BY <1>5, <2>3, <2>4 DEF SwitchesRtc
<1>6. CASE EndsRtcSource
  <2>1. RccGoes("radio source") /\ rcc' = [rcc EXCEPT !.pwr = rccCall.pwrWas]
    BY <1>6 DEF EndsRtcSource, LeavesBackup
  <2>2. SameTree(rcc, rcc')
    BY <1>1, <2>1 DEF RccField, SameTree
  <2> QED
    BY <1>2, <2>1, <2>2, TreeKeptSteps
<1>7. CASE SelectsRadio
  <2>1. RccKeeps /\ \E status : RccReturns(status)
    BY <1>7 DEF SelectsRadio
  <2>2. SameTree(rcc, rcc')
    BY <2>1, TreeUnchanged DEF RccKeeps
  <2> QED
    BY <2>1, <2>2, TreeKeptSteps
<1> QED
  BY <1>3, <1>4, <1>5, <1>6, <1>7 DEF HAL_RCCEx_PeriphCLKConfig

-----------------------------------------------------------------------------
(* After a reset the HSI is the only clock.                                *)
LEMMA RccInitIInv == PeriphInit => RccIInv
<1> SUFFICES ASSUME RccInit PROVE RccIInv
  BY DEF PeriphInit
<1>1. /\ DOMAIN rcc = RccField /\ rcc.on = {"HSI"} /\ rcc.ready = {"HSI"} /\ rcc.pll = ResetPll
      /\ rcc.sw = "HSI" /\ rcc.sws = "HSI" /\ rcc.hpre = 1 /\ rcc.owed = 1 /\ rcc.latency = 0 /\ rcc.hsePre = 1 /\ rcc.fracn = 0
  BY DEF RccInit, RccField
<1>2. IsPll(ResetPll) /\ 0 \in FractionValue
  BY DEF IsPll, ResetPll, FractionValue
<1>3. IsTree(rcc)
  BY <1>1, <1>2 DEF IsTree, Sources
<1>4. Sound(rcc)
  BY <1>1, <1>3, OneClockIsSound
<1>5. rccCall = NoCall /\ DOMAIN NoCall = CallField /\ NoCall.at = "idle"
  BY DEF RccInit, NoCall, CallField
<1>6. CallIsFine(rcc, NoCall)
  BY <1>5, WaitLabel DEF CallIsFine
<1> QED
  BY <1>3, <1>4, <1>5, <1>6 DEF RccIInv

(* The clock tree is sound between any two steps of any call.               *)
THEOREM ClockTreeInductive == PeriphSpec => []RccIInv
<1>1. RccIInv /\ RccNext => RccIInv'
  BY OscConfigKeeps, ClockConfigKeeps, PlainStarts, IdleKeeps, OscHSEKeeps, OscHSIKeeps, OscLSIKeeps, OscLSEKeeps,
     OscPLLKeeps, ConfigLatencyKeeps, ConfigHCLK5Keeps, ConfigSYSCLKKeeps, ConfigDividersKeeps, ConfigEndsKeeps,
     DeInitKeeps, AwaitedKeeps, CallEnds, SettlesKeeps, SwitchesKeeps DEF RccNext
<1>2. RccIInv /\ PeriphNext => RccIInv'
  BY <1>1, PlainStarts, PeriphKeepsTree DEF PeriphNext
<1>3. RccIInv /\ UNCHANGED periphVars => RccIInv'
  <2> SUFFICES ASSUME RccIInv, UNCHANGED periphVars PROVE RccIInv'
    OBVIOUS
  <2>1. rcc' = rcc /\ rccCall' = rccCall
    BY DEF periphVars, rccVars
  <2> QED
    BY <2>1 DEF RccIInv
<1> QED
  BY <1>2, <1>3, RccInitIInv, PTL DEF PeriphSpec

(* Whatever calls are made, fail and time out: the system clock and what it *)
(* is made from run, the flash has the wait states for it, a divider counted *)
(* that a change asked for and writes after its switch, and the PLL is not  *)
(* taken at its full speed.                                                 *)
THEOREM ClockStaysUsableAlways == PeriphSpec => []ClockStaysUsable
<1>1. RccIInv => ClockStaysUsable
  <2> SUFFICES ASSUME RccIInv PROVE ClockStaysUsable
    OBVIOUS
  <2>1. Sound(rcc) /\ rcc.sws \in Sources
    BY DEF RccIInv, IsTree
  <2>2. FrequencyOf(rcc.sws) = Hz(rcc, rcc.sws)
    BY <2>1 DEF FrequencyOf, Hz, HAL_RCC_GetPLL1RFreq, RCC_PLL1_GetVCOOutputFreq, Vco, Sources
  <2>3. NeededLatency(HAL_RCC_GetSysClockFreq \div (IF rcc.owed > rcc.hpre THEN rcc.owed ELSE rcc.hpre)) <= rcc.latency
    BY <2>1, <2>2 DEF Sound, Meets, Counted, HAL_RCC_GetSysClockFreq
  <2>4. \A o \in Sources : InUse(o) => o \in rcc.ready
    BY <2>1 DEF InUse, Feeds, Sound, Solid
  <2>5. rcc.sw = "PLL" /\ rcc.sws # "PLL" => "Undivided" \notin rcc.on
    BY <2>1 DEF Sound
  <2> QED
    BY <2>3, <2>4, <2>5 DEF ClockStaysUsable
<1> QED
  BY <1>1, ClockTreeInductive, PTL
=============================================================================
