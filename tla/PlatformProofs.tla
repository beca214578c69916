----------------------------- MODULE PlatformProofs -----------------------------
(***************************************************************************)
(* Proofs about the platform under the stack.                              *)
(*                                                                         *)
(* The one-time area and the driver of the flash memory that programs it:  *)
(* for any number of pages and slots, and any records.  The driver's       *)
(* argument says what a procedure under way has done, whoever goes on with *)
(* it.  The area's rests on the order the slots are filled in: a slot      *)
(* behind full ones that is erased is the first one that is, however long  *)
(* ago the write that goes to it began.                                    *)
(*                                                                         *)
(* The critical sections of the link layer: for any groups masked at once  *)
(* and any sections within each other, with interrupts between any two     *)
(* accesses.  Every context is in a call of the library, which says what   *)
(* it has counted and what it has yet to shut or to let in.                *)
(***************************************************************************)
EXTENDS Otp, RadioIrq, FiniteSetTheorems, SequenceTheorems, TLAPS

-----------------------------------------------------------------------------
(* The driver.  A procedure under way, whether a call waits for it or an    *)
(* interrupt will go on with it: the memory works, with no flag raised, or  *)
(* has raised one; every page asked for before the present one is erased.   *)

Locks == {"LOCK", "OPTLOCK"}

UnderWay(op, flags, wanted, gone, type, page, last) ==
  /\ \/ op.op = type /\ type # "none" /\ flags = {}
     \/ op = Resting /\ flags \in {{"EOP"}, {"error"}}
  /\ type = "pages" =>
       /\ page \in wanted /\ page .. last \subseteq wanted
       /\ \A n \in wanted : n <= last /\ (n < page => n \in gone)
       /\ op # Resting => op.page = page
       /\ "EOP" \in flags => page \in gone
  /\ type = "mass" => ("EOP" \in flags => wanted \subseteq gone)
  /\ type \notin {"pages", "mass"} => wanted = {}

(* The bits of the control register are those of the operation under way,   *)
(* and only a finished memory is given another.                             *)
CallProceeds ==
  /\ flashCall.page <= flashCall.last
  /\ CallAt("check") => NSCR1 \subseteq Locks
  /\ CallAt("start") => NSCR1 \subseteq Locks /\ memory = Resting /\ flashFlags = {}
  /\ CallAt("wait") =>
       /\ NSCR1 \subseteq Locks \cup OperationBits(flashCall.type)
       /\ UnderWay(memory, flashFlags, asked, erased,
                   flashCall.type, flashCall.page, flashCall.last)

InterruptProceeds ==
  "EOPIE" \in NSCR1 =>
    /\ pFlash.Lock
    /\ NSCR1 \subseteq Locks \cup {"EOPIE", "OPERRIE"} \cup OperationBits(pFlash.ProcedureOnGoing)
    /\ pFlash.ProcedureOnGoing = "pages" =>
         /\ pFlash.NbPagesToErase >= 1
         /\ pFlash.Page + pFlash.NbPagesToErase - 1 <= LastPage
    /\ UnderWay(memory, flashFlags, asked, erased, pFlash.ProcedureOnGoing,
                pFlash.Page, pFlash.Page + pFlash.NbPagesToErase - 1)

(* What outlasts its caller was asked for.                                  *)
LateIsAsked ==
  /\ memory.op = "pages" => memory.page \in asked
  /\ memory.op = "mass" => asked = 0 .. LastPage
  /\ memory = Resting \/ memory.op # "none"

FlashInv ==
  /\ FlashTypeOK /\ LockHasHolder /\ PagesAreErased
  /\ CallProceeds /\ InterruptProceeds /\ LateIsAsked

-----------------------------------------------------------------------------
(* The area.  Slots are filled in order, so that beyond a slot that is not  *)
(* full all are erased.                                                     *)
Filled(s) == \A before \in 0 .. s - 1 : ~HalfErased(before)
ErasedFrom(s) == \A after \in Slot : after > s => IsErased(after)

FilledInOrder ==
  /\ \A s \in Slot : HalfErased(s) => ErasedFrom(s)
  /\ \E s \in Slot : Filled(s) /\ (HalfErased(s) \/ s = LastSlot)

(* A write that goes on, or outlasts its caller, is to a slot behind full   *)
(* ones, and what it may leave is among what was tried.                     *)
Tries(w) ==
  w # NoWrite =>
    /\ w.record \in Record /\ Filled(w.slot)
    /\ \A part \in PartsOf(w.record) : part.index = w.record.index => part \in tried[w.record.index]

Programmed(w) == otp[w.slot] = w.record /\ ErasedFrom(w.slot)

WritesAreTried == Tries(writing) /\ Tries(burning)

WriteProceeds ==
  /\ burning # NoWrite => memory.op = "program"
  /\ writing # NoWrite =>
       /\ "EOPIE" \notin NSCR1
       /\ ~CallAt("idle") => flashCall.type = "program" /\ ~flashCall.it
       /\ CallAt("wait") =>
            IF memory # Resting THEN burning = writing
                                ELSE "EOP" \in flashFlags => Programmed(writing)
       /\ CallAt("idle") /\ told = "done" => burning = NoWrite /\ Programmed(writing)

(* The last slot with an index holds what was reported, or a later attempt. *)
LastIsKnown ==
  \A i \in Index : written[i] # NoRecord =>
    \E s \in HasIndex(i) : /\ \A other \in HasIndex(i) : other <= s
                           /\ otp[s] \in {written[i]} \cup tried[i]

OtpInv ==
  /\ FlashInv /\ OtpTypeOK /\ FilledInOrder
  /\ WritesAreTried /\ WriteProceeds /\ LastIsKnown

-----------------------------------------------------------------------------
(* The driver's steps.                                                      *)

(* After a reset nothing is under way.                                      *)
LEMMA ResetDriver == FlashInit => FlashInv
<1> SUFFICES ASSUME FlashInit PROVE FlashInv
  OBVIOUS
<1> USE FlashAssumption DEF FlashInit, Resting, NoFlashCall, NoProcess
<1>1. FlashTypeOK
  BY DEF FlashTypeOK, PageCount, Procedure
<1>2. LockHasHolder /\ PagesAreErased /\ CallProceeds /\ InterruptProceeds /\ LateIsAsked
  BY DEF LockHasHolder, PagesAreErased, CallProceeds, InterruptProceeds, LateIsAsked, CallAt, Locks
<1> QED
  BY <1>1, <1>2 DEF FlashInv

(* A reset at any time.                                                     *)
LEMMA DriverResets == ASSUME FlashResets PROVE FlashInv'
<1> USE FlashAssumption DEF FlashResets, Resting, NoFlashCall, NoProcess
<1>1. FlashTypeOK'
  BY DEF FlashTypeOK, PageCount, Procedure
<1>2. LockHasHolder' /\ PagesAreErased' /\ CallProceeds' /\ InterruptProceeds' /\ LateIsAsked'
  BY DEF LockHasHolder, PagesAreErased, CallProceeds, InterruptProceeds, LateIsAsked, CallAt, Locks
<1> QED
  BY <1>1, <1>2 DEF FlashInv

(* A call takes the lock; the area's writes unlock the register and clear an *)
(* error as well.                                                           *)
LEMMA DriverBegins ==
  ASSUME FlashInv, CallAt("idle"), ~pFlash.Lock,
         pFlash' = [pFlash EXCEPT !.Lock = TRUE, !.ErrorCode = FALSE],
         flashCall' \in [at : {"check"}, type : Procedure \cup {"options"}, it : BOOLEAN,
                         page : 0 .. LastPage, last : 0 .. LastPage],
         flashCall'.page <= flashCall'.last,
         NSCR1' \subseteq NSCR1, flashFlags' \subseteq flashFlags,
         UNCHANGED <<memory, suspended, asked, erased, told>>
  PROVE  FlashInv'
<1> USE DEF FlashInv
<1>1. pFlash' \in [Lock : BOOLEAN, ErrorCode : BOOLEAN,
                   ProcedureOnGoing : Procedure \cup {"none"},
                   Page : 0 .. LastPage, NbPagesToErase : 0 .. PageCount]
  BY DEF FlashTypeOK
<1>2. FlashTypeOK'
  BY <1>1 DEF FlashTypeOK
<1>3. pFlash'.Lock
  BY DEF FlashTypeOK
<1>4. NSCR1 \subseteq Locks /\ flashCall'.at = "check"
  BY DEF LockHasHolder, Locks, CallAt
<1>5. LockHasHolder' /\ PagesAreErased' /\ CallProceeds' /\ InterruptProceeds' /\ LateIsAsked'
  BY <1>2, <1>3, <1>4
  DEF LockHasHolder, PagesAreErased, CallProceeds, InterruptProceeds, LateIsAsked, CallAt, Locks, Resting
<1> QED
  BY <1>2, <1>5

(* What FLASH_WaitForLastOperation leaves of the flags.                     *)
LEMMA DriverWaits ==
  ASSUME FlashInv, NEW status \in {"OK", "ERROR", "TIMEOUT"}, NEW error \in BOOLEAN,
         Waits(status, error)
  PROVE  /\ flashFlags' \subseteq flashFlags
         /\ status = "OK" => memory = Resting /\ "error" \notin flashFlags /\ flashFlags' = {}
<1>1. \/ status = "TIMEOUT" /\ UNCHANGED flashFlags
      \/ status = "ERROR" /\ flashFlags' = flashFlags \ {"error"}
      \/ /\ status = "OK" /\ memory = Resting /\ "error" \notin flashFlags
         /\ flashFlags' = flashFlags \ {"EOP"}
  BY Zenon DEF Waits
<1>2. flashFlags \subseteq {"EOP", "error"}
  BY DEF FlashInv, FlashTypeOK
<1> QED
  BY <1>1, <1>2

(* A call that returns gives the lock back with the bits of its operation.  *)
LEMMA DriverReturns ==
  ASSUME FlashInv, NEW status \in {"OK", "ERROR", "TIMEOUT"}, NEW error \in BOOLEAN,
         ReturnsUnlocked(status, error), ~CallAt("idle"),
         NSCR1' \subseteq Locks, flashFlags' \subseteq flashFlags,
         status = "OK" => asked \subseteq erased,
         UNCHANGED <<memory, suspended, asked, erased>>
  PROVE  FlashInv'
<1> USE FlashAssumption DEF FlashInv, ReturnsUnlocked
<1>1. pFlash' \in [Lock : BOOLEAN, ErrorCode : BOOLEAN,
                   ProcedureOnGoing : Procedure \cup {"none"},
                   Page : 0 .. LastPage, NbPagesToErase : 0 .. PageCount]
  BY DEF FlashTypeOK
<1>2. flashCall' \in [at : {"idle", "check", "start", "wait"},
                      type : Procedure \cup {"none", "options"}, it : BOOLEAN,
                      page : 0 .. LastPage, last : 0 .. LastPage]
  BY DEF NoFlashCall
<1>3. FlashTypeOK'
  BY <1>1, <1>2 DEF FlashTypeOK, Locks
<1>4. pFlash'.Lock = FALSE
  BY DEF FlashTypeOK
<1>5. flashCall'.at = "idle" /\ flashCall'.page <= flashCall'.last
  BY DEF NoFlashCall
<1>6. LockHasHolder' /\ PagesAreErased' /\ CallProceeds' /\ InterruptProceeds' /\ LateIsAsked'
  BY <1>3, <1>4, <1>5
  DEF LockHasHolder, PagesAreErased, CallProceeds, InterruptProceeds, LateIsAsked, CallAt, Locks, Resting
<1> QED
  BY <1>3, <1>6

(* Verify that the next operation can proceed.                              *)
LEMMA DriverChecks == ASSUME FlashInv, FlashCheck PROVE FlashInv'
<1>1. PICK status \in {"OK", "ERROR", "TIMEOUT"}, error \in BOOLEAN :
        /\ Waits(status, error)
        /\ IF status = "OK" THEN CallGoesTo("start") /\ UNCHANGED <<pFlash, told>>
                            ELSE ReturnsUnlocked(status, error)
  BY DEF FlashCheck
<1>2. /\ CallAt("check") /\ ~CallAt("idle") /\ UNCHANGED <<NSCR1, memory, suspended, asked, erased>>
      /\ NSCR1 \subseteq Locks
  BY DEF FlashCheck, FlashInv, CallProceeds, CallAt
<1>3. /\ flashFlags' \subseteq flashFlags
      /\ status = "OK" => memory = Resting /\ "error" \notin flashFlags /\ flashFlags' = {}
  BY <1>1, DriverWaits
<1>4. CASE status # "OK"
  <2>1. ReturnsUnlocked(status, error)
    BY <1>1, <1>4
  <2> QED
    BY <1>2, <1>3, <1>4, <2>1, DriverReturns
<1>5. CASE status = "OK"
  <2>1. CallGoesTo("start") /\ UNCHANGED <<pFlash, told>>
    BY <1>1, <1>5
  <2>2. FlashTypeOK'
    BY <1>2, <1>3, <2>1 DEF FlashInv, FlashTypeOK, CallGoesTo
  <2>3. flashCall'.at = "start" /\ flashCall'.page = flashCall.page /\ flashCall'.last = flashCall.last
    BY <2>1 DEF FlashInv, FlashTypeOK, CallGoesTo
  <2>4. pFlash.Lock
    BY <1>2 DEF FlashInv, LockHasHolder
  <2>5. LockHasHolder' /\ PagesAreErased' /\ CallProceeds' /\ InterruptProceeds' /\ LateIsAsked'
    BY <1>2, <1>3, <1>5, <2>1, <2>3, <2>4
    DEF FlashInv, LockHasHolder, PagesAreErased, CallProceeds, InterruptProceeds, LateIsAsked, CallAt, Locks,
        Resting
  <2> QED
    BY <2>2, <2>5 DEF FlashInv
<1> QED
  BY <1>4, <1>5

(* The operation begins, with a memory that rests and no flag raised; a call *)
(* with interrupt leaves it to the interrupt.                               *)
LEMMA DriverStarts == ASSUME FlashInv, FlashStart PROVE FlashInv'
<1> USE FlashAssumption
<1> DEFINE type == flashCall.type
           page == flashCall.page
           last == flashCall.last
<1>1. /\ CallAt("start") /\ ~CallAt("idle") /\ NSCR1 \subseteq Locks /\ memory = Resting /\ flashFlags = {}
      /\ pFlash.Lock /\ page <= last
  BY DEF FlashStart, FlashInv, CallProceeds, LockHasHolder, CallAt
<1>2. /\ type \in Procedure /\ page \in 0 .. LastPage /\ last \in 0 .. LastPage
      /\ flashCall.it \in BOOLEAN
  BY DEF FlashStart, FlashInv, FlashTypeOK
<1>3. /\ memory' = FirstOperation
      /\ flashFlags' = {} /\ UNCHANGED suspended
      /\ erased' = {} /\ told' = "nothing"
  BY <1>1 DEF FlashStart
<1>4. memory' = [op |-> type, page |-> IF type = "pages" THEN page ELSE 0]
  BY <1>3 DEF FirstOperation, Erasing, Working
<1>5. /\ memory' \in [op : Procedure \cup {"none", "options"}, page : 0 .. LastPage]
      /\ memory'.op = type /\ memory' # Resting
      /\ type = "pages" => memory'.page = page
  BY <1>2, <1>4 DEF Resting, Procedure
<1>6. /\ type = "pages" => asked' = page .. last
      /\ type = "mass" => asked' = 0 .. LastPage
      /\ type \notin {"pages", "mass"} => asked' = {}
  BY DEF FlashStart
<1>7. asked' \subseteq 0 .. LastPage
  BY <1>2, <1>6
<1>8. NSCR1' = NSCR1 \cup OperationBits(type)
                     \cup (IF flashCall.it THEN {"EOPIE", "OPERRIE"} ELSE {})
  BY DEF FlashStart
<1>9. OperationBits(type) \subseteq {"PG", "BWR", "MER", "PER"}
  BY DEF OperationBits
<1>10. NSCR1' \subseteq {"LOCK", "OPTLOCK", "PG", "BWR", "MER", "PER", "EOPIE", "OPERRIE"}
  BY <1>1, <1>8, <1>9 DEF Locks
<1>11. /\ pFlash' \in [Lock : BOOLEAN, ErrorCode : BOOLEAN,
                       ProcedureOnGoing : Procedure \cup {"none"},
                       Page : 0 .. LastPage, NbPagesToErase : 0 .. PageCount]
       /\ pFlash'.Lock = pFlash.Lock /\ pFlash'.ProcedureOnGoing = type
       /\ flashCall.it /\ type = "pages" => /\ pFlash'.Page = page
                                            /\ pFlash'.NbPagesToErase = last - page + 1
  <2>1. last - page + 1 \in 0 .. PageCount
    BY <1>1, <1>2 DEF PageCount
  <2>2. CASE flashCall.it /\ type = "pages"
    <3>1. pFlash' = [pFlash EXCEPT !.ProcedureOnGoing = "pages", !.Page = page,
                                   !.NbPagesToErase = last - page + 1]
      BY <2>2 DEF FlashStart
    <3> HIDE DEF page, last
    <3> QED
      BY <1>2, <2>1, <2>2, <3>1 DEF FlashInv, FlashTypeOK
  <2>3. CASE ~(flashCall.it /\ type = "pages")
    <3>1. pFlash' = [pFlash EXCEPT !.ProcedureOnGoing = type]
      BY <2>3 DEF FlashStart
    <3> QED
      BY <1>2, <2>3, <3>1 DEF FlashInv, FlashTypeOK
  <2> QED
    BY <2>2, <2>3
<1>12. UnderWay(memory', flashFlags', asked', erased', type, page, last)
  <2>1. type = "pages" => page \in page .. last /\ \A n \in page .. last : n <= last /\ ~(n < page)
    BY <1>1, <1>2
  <2> HIDE DEF type, page, last
  <2> QED
    BY <1>2, <1>3, <1>5, <1>6, <2>1 DEF UnderWay, Procedure
<1>13. CASE flashCall.it
  <2>1. flashCall' = NoFlashCall
    BY <1>13 DEF FlashStart
  <2>2. /\ flashCall'.at = "idle" /\ flashCall'.page = 0 /\ flashCall'.last = 0
        /\ flashCall' \in [at : {"idle", "check", "start", "wait"},
                           type : Procedure \cup {"none", "options"}, it : BOOLEAN,
                           page : 0 .. LastPage, last : 0 .. LastPage]
    BY <2>1 DEF NoFlashCall
  <2>3. FlashTypeOK'
    BY <1>3, <1>5, <1>7, <1>10, <1>11, <2>2 DEF FlashInv, FlashTypeOK
  <2>4. {"EOPIE", "OPERRIE"} \subseteq NSCR1'
    BY <1>8, <1>13
  <2>5. LockHasHolder' /\ PagesAreErased'
    BY <1>1, <1>2, <1>3, <1>5, <1>11, <2>2, <2>4 DEF LockHasHolder, PagesAreErased, CallAt, Procedure
  <2>6. CallProceeds' /\ LateIsAsked'
    BY <1>1, <1>2, <1>5, <1>6, <2>2 DEF CallProceeds, LateIsAsked, CallAt, Procedure
  <2>7. InterruptProceeds'
    <3>1. NSCR1' \subseteq Locks \cup {"EOPIE", "OPERRIE"} \cup OperationBits(type)
      BY <1>1, <1>8
    <3>2. CASE type = "pages"
      <4>1. pFlash'.Page + pFlash'.NbPagesToErase - 1 = last /\ pFlash'.NbPagesToErase >= 1
        BY <1>1, <1>2, <1>11, <1>13, <3>2
      <4> QED
        BY <1>1, <1>2, <1>11, <1>12, <1>13, <3>1, <3>2, <4>1 DEF InterruptProceeds
    <3>3. CASE type # "pages"
      BY <1>1, <1>2, <1>11, <1>12, <3>1, <3>3 DEF InterruptProceeds, UnderWay
    <3> QED
      BY <3>2, <3>3
  <2> QED
    BY <2>3, <2>5, <2>6, <2>7 DEF FlashInv
<1>14. CASE ~flashCall.it
  <2>1. flashCall' = [flashCall EXCEPT !.at = "wait"]
    BY <1>14 DEF FlashStart, CallGoesTo
  <2>2. /\ flashCall'.at = "wait" /\ flashCall'.page = page /\ flashCall'.last = last
        /\ flashCall'.type = type
        /\ flashCall' \in [at : {"idle", "check", "start", "wait"},
                           type : Procedure \cup {"none", "options"}, it : BOOLEAN,
                           page : 0 .. LastPage, last : 0 .. LastPage]
    BY <2>1 DEF FlashInv, FlashTypeOK
  <2>3. FlashTypeOK'
    BY <1>3, <1>5, <1>7, <1>10, <1>11, <2>2 DEF FlashInv, FlashTypeOK
  <2>4. NSCR1' = NSCR1 \cup OperationBits(type) /\ "EOPIE" \notin NSCR1'
    BY <1>1, <1>8, <1>9, <1>14 DEF Locks
  <2>5. LockHasHolder' /\ PagesAreErased'
    BY <1>1, <1>3, <1>11, <2>2, <2>4 DEF LockHasHolder, PagesAreErased, CallAt
  <2>6. CallProceeds' /\ InterruptProceeds'
    BY <1>1, <1>12, <2>2, <2>4 DEF CallProceeds, InterruptProceeds, CallAt
  <2>7. LateIsAsked'
    BY <1>1, <1>2, <1>5, <1>6 DEF LateIsAsked, Procedure
  <2> QED
    BY <2>3, <2>5, <2>6, <2>7 DEF FlashInv
<1> QED
  BY <1>13, <1>14

(* The option bytes are programmed.                                         *)
LEMMA DriverStartsOptions == ASSUME FlashInv, OBStart PROVE FlashInv'
<1> USE FlashAssumption
<1>1. /\ CallAt("start") /\ ~CallAt("idle") /\ NSCR1 \subseteq Locks /\ memory = Resting /\ flashFlags = {}
      /\ pFlash.Lock /\ flashCall.page <= flashCall.last /\ flashCall.type = "options"
  BY DEF OBStart, FlashInv, CallProceeds, LockHasHolder, CallAt
<1>2. /\ memory' = [op |-> "options", page |-> 0] /\ asked' = {} /\ erased' = {} /\ told' = "nothing"
      /\ flashCall' = [flashCall EXCEPT !.at = "wait"]
      /\ UNCHANGED <<pFlash, NSCR1, flashFlags, suspended>>
  BY DEF OBStart, Working, CallGoesTo
<1>3. /\ flashCall'.at = "wait" /\ flashCall'.page = flashCall.page /\ flashCall'.last = flashCall.last
      /\ flashCall'.type = "options"
      /\ flashCall' \in [at : {"idle", "check", "start", "wait"},
                         type : Procedure \cup {"none", "options"}, it : BOOLEAN,
                         page : 0 .. LastPage, last : 0 .. LastPage]
  BY <1>1, <1>2 DEF FlashInv, FlashTypeOK
<1>4. FlashTypeOK'
  BY <1>2, <1>3 DEF FlashInv, FlashTypeOK
<1>5. UnderWay(memory', flashFlags', asked', erased', "options", flashCall.page, flashCall.last)
  BY <1>1, <1>2 DEF UnderWay
<1>6. LockHasHolder' /\ PagesAreErased' /\ CallProceeds' /\ InterruptProceeds' /\ LateIsAsked'
  BY <1>1, <1>2, <1>3, <1>5
  DEF LockHasHolder, PagesAreErased, CallProceeds, InterruptProceeds, LateIsAsked, CallAt, Locks
<1> QED
  BY <1>4, <1>6 DEF FlashInv

(* The wait ends: a page that ended well is followed by the next one, and   *)
(* after the last one all that were asked for are erased.                   *)
LEMMA DriverWaitsOn == ASSUME FlashInv, FlashWait PROVE FlashInv'
<1> USE FlashAssumption
<1> DEFINE type == flashCall.type
           page == flashCall.page
           last == flashCall.last
<1>1. PICK status \in {"OK", "ERROR", "TIMEOUT"}, error \in BOOLEAN :
        /\ Waits(status, error)
        /\ IF status = "OK" /\ type = "pages" /\ page < last
           THEN /\ flashCall' = [flashCall EXCEPT !.page = @ + 1]
                /\ memory' = Erasing(page + 1)
                /\ UNCHANGED <<pFlash, NSCR1, told>>
           ELSE /\ ReturnsUnlocked(status, error)
                /\ NSCR1' = NSCR1 \ OperationBits(type)
                /\ UNCHANGED memory
  BY DEF FlashWait
<1>2. /\ flashFlags' \subseteq flashFlags
      /\ status = "OK" => memory = Resting /\ "error" \notin flashFlags /\ flashFlags' = {}
  BY <1>1, DriverWaits
<1>3. /\ CallAt("wait") /\ ~CallAt("idle") /\ UNCHANGED <<suspended, asked, erased>>
      /\ NSCR1 \subseteq Locks \cup OperationBits(type)
      /\ UnderWay(memory, flashFlags, asked, erased, type, page, last)
      /\ page <= last /\ pFlash.Lock /\ "EOPIE" \notin NSCR1
  BY DEF FlashWait, FlashInv, CallProceeds, LockHasHolder, CallAt
<1>4. page \in 0 .. LastPage /\ last \in 0 .. LastPage /\ asked \subseteq 0 .. LastPage
  BY DEF FlashInv, FlashTypeOK
<1>5. status = "OK" => flashFlags = {"EOP"}
  BY <1>2, <1>3 DEF UnderWay, Resting
<1>6. CASE status = "OK" /\ type = "pages" /\ page < last
  <2>1. /\ flashCall' = [flashCall EXCEPT !.page = page + 1]
        /\ memory' = [op |-> "pages", page |-> page + 1]
        /\ UNCHANGED <<pFlash, NSCR1, told>> /\ flashFlags' = {}
    BY <1>1, <1>2, <1>6 DEF Erasing
  <2>2. page + 1 \in 0 .. LastPage /\ page + 1 <= last
    BY <1>4, <1>6
  <2>3. /\ flashCall'.at = "wait" /\ flashCall'.page = page + 1 /\ flashCall'.last = last
        /\ flashCall'.type = type
        /\ flashCall' \in [at : {"idle", "check", "start", "wait"},
                           type : Procedure \cup {"none", "options"}, it : BOOLEAN,
                           page : 0 .. LastPage, last : 0 .. LastPage]
    <3>1. flashCall.at = "wait"
      BY <1>3 DEF CallAt
    <3> HIDE DEF page
    <3>2. /\ flashCall'.at = "wait" /\ flashCall'.page = page + 1 /\ flashCall'.last = last
          /\ flashCall'.type = type
      BY <2>1, <3>1 DEF FlashInv, FlashTypeOK
    <3> QED
      BY <2>1, <2>2, <3>2 DEF FlashInv, FlashTypeOK
  <2>4. memory' \in [op : Procedure \cup {"none", "options"}, page : 0 .. LastPage]
    BY <2>1, <2>2 DEF Procedure
  <2>5. FlashTypeOK'
    BY <1>3, <2>1, <2>3, <2>4 DEF FlashInv, FlashTypeOK
  <2>6. /\ page .. last \subseteq asked /\ page \in erased
        /\ \A n \in asked : n <= last /\ (n < page => n \in erased)
    BY <1>3, <1>5, <1>6 DEF UnderWay
  <2>7. /\ page + 1 \in asked /\ page + 1 .. last \subseteq asked
        /\ \A n \in asked : n <= last /\ (n < page + 1 => n \in erased)
    BY <1>4, <2>2, <2>6
  <2>8. UnderWay(memory', flashFlags', asked', erased', type, page + 1, last)
    BY <1>3, <1>6, <2>1, <2>7 DEF UnderWay
  <2>9. LockHasHolder' /\ PagesAreErased' /\ CallProceeds' /\ InterruptProceeds' /\ LateIsAsked'
    BY <1>3, <1>6, <2>1, <2>2, <2>3, <2>7, <2>8
    DEF FlashInv, LockHasHolder, PagesAreErased, CallProceeds, InterruptProceeds, LateIsAsked, CallAt
  <2> QED
    BY <2>5, <2>9 DEF FlashInv
<1>7. CASE ~(status = "OK" /\ type = "pages" /\ page < last)
  <2>1. ReturnsUnlocked(status, error) /\ NSCR1' = NSCR1 \ OperationBits(type) /\ UNCHANGED memory
    BY <1>1, <1>7
  <2>2. NSCR1' \subseteq Locks
    BY <1>3, <2>1
  <2>3. status = "OK" => asked \subseteq erased
    <3>1. SUFFICES ASSUME status = "OK" PROVE asked \subseteq erased
      OBVIOUS
    <3>2. CASE type = "pages"
      <4>1. page = last
        BY <1>3, <1>4, <1>7, <3>1, <3>2
      <4>2. page \in erased /\ \A n \in asked : n <= last /\ (n < page => n \in erased)
        BY <1>3, <1>5, <3>1, <3>2 DEF UnderWay
      <4> QED
        BY <1>4, <4>1, <4>2
    <3>3. CASE type # "pages"
      BY <1>3, <1>5, <3>1, <3>3 DEF UnderWay
    <3> QED
      BY <3>2, <3>3
  <2> QED
    BY <1>2, <1>3, <2>1, <2>2, <2>3, DriverReturns
<1> QED
  BY <1>6, <1>7

(* The memory ends its operation, whether somebody waits for it or not.     *)
LEMMA DriverMemoryEnds ==
  ASSUME FlashInv, NEW well \in BOOLEAN, MemoryEnds(well)
  PROVE  FlashInv'
<1> USE FlashAssumption
<1>1. /\ memory # Resting /\ memory.op # "none"
      /\ memory' = Resting
      /\ flashFlags' = flashFlags \cup {IF well THEN "EOP" ELSE "error"}
      /\ UNCHANGED <<pFlash, NSCR1, suspended, flashCall, asked, told>>
  BY DEF MemoryEnds, FlashInv, LateIsAsked
<1>2. /\ memory.op = "pages" => erased' = IF well THEN erased \cup {memory.page} ELSE erased
      /\ memory.op = "mass" => erased' = IF well THEN 0 .. LastPage ELSE erased
      /\ memory.op \notin {"pages", "mass"} => erased' = erased
  BY DEF MemoryEnds
<1>3. /\ asked \subseteq 0 .. LastPage /\ erased \subseteq asked
      /\ memory.op = "pages" => memory.page \in asked
      /\ memory.op = "mass" => asked = 0 .. LastPage
  BY DEF FlashInv, FlashTypeOK, PagesAreErased, LateIsAsked
<1>4. erased \subseteq erased' /\ erased' \subseteq asked
  BY <1>2, <1>3
<1>5. FlashTypeOK'
  BY <1>1, <1>3, <1>4 DEF FlashInv, FlashTypeOK, Resting, Procedure
<1>6. ASSUME NEW type, NEW page, NEW last,
             UnderWay(memory, flashFlags, asked, erased, type, page, last)
      PROVE  UnderWay(memory', flashFlags', asked', erased', type, page, last)
  <2>1. memory.op = type /\ flashFlags = {}
    BY <1>1, <1>6 DEF UnderWay
  <2>2. flashFlags' = {IF well THEN "EOP" ELSE "error"}
    BY <1>1, <2>1
  <2>3. flashFlags' \in {{"EOP"}, {"error"}} /\ ("EOP" \in flashFlags' => well)
    BY <2>2
  <2>4. type = "pages" => memory.page = page /\ (well => page \in erased')
    BY <1>1, <1>2, <1>6, <2>1 DEF UnderWay
  <2>5. type = "mass" => (well => asked \subseteq erased')
    BY <1>2, <1>3, <2>1
  <2> QED
    BY <1>1, <1>4, <1>6, <2>3, <2>4, <2>5 DEF UnderWay
<1>7. CallProceeds' /\ InterruptProceeds'
  <2>1. CallProceeds'
    BY <1>1, <1>6 DEF FlashInv, CallProceeds, CallAt
  <2>2. InterruptProceeds'
    BY <1>1, <1>6 DEF FlashInv, InterruptProceeds
  <2> QED
    BY <2>1, <2>2
<1>8. LockHasHolder' /\ PagesAreErased' /\ LateIsAsked'
  BY <1>1, <1>4 DEF FlashInv, LockHasHolder, PagesAreErased, LateIsAsked, CallAt, Resting
<1> QED
  BY <1>5, <1>7, <1>8 DEF FlashInv

(* The locks of the register, and operations that are held up.              *)
LEMMA DriverLocks ==
  ASSUME FlashInv, FlashIdle, NSCR1' \subseteq NSCR1 \cup Locks,
         UNCHANGED <<pFlash, memory, flashFlags, suspended, flashCall, asked, erased, told>>
  PROVE  FlashInv'
<1> USE DEF FlashInv, FlashIdle
<1>1. NSCR1' \subseteq Locks
  BY DEF LockHasHolder, Locks, CallAt
<1>2. FlashTypeOK'
  BY <1>1 DEF FlashTypeOK, Locks
<1>3. LockHasHolder' /\ PagesAreErased' /\ CallProceeds' /\ InterruptProceeds' /\ LateIsAsked'
  BY <1>1 DEF LockHasHolder, PagesAreErased, CallProceeds, InterruptProceeds, LateIsAsked, CallAt, Locks
<1> QED
  BY <1>2, <1>3

(* Operations that are held up, or allowed.                                 *)
LEMMA DriverHoldsUp ==
  ASSUME FlashInv, suspended' \subseteq {"program", "erase"},
         UNCHANGED <<pFlash, NSCR1, memory, flashFlags, flashCall, asked, erased, told>>
  PROVE  FlashInv'
  BY DEF FlashInv, FlashTypeOK, LockHasHolder, PagesAreErased, CallProceeds, InterruptProceeds,
         LateIsAsked, CallAt

(* The interrupt: an error ends the procedure, a page that ended well is    *)
(* followed by the next one, and the last of what was asked for ends it.    *)
LEMMA DriverInterrupt == ASSUME FlashInv, IRQ_Flash PROVE FlashInv'
<1> USE FlashAssumption
<1> DEFINE type == pFlash.ProcedureOnGoing
           page == pFlash.Page
           count == pFlash.NbPagesToErase
           last == page + count - 1
           failed == "error" \in flashFlags
           ended == "EOP" \in flashFlags
           more == ended /\ type = "pages" /\ count - 1 # 0
           stops == failed \/ (ended /\ ~more)
<1>1. /\ pFlash' = [pFlash EXCEPT
                     !.ErrorCode = @ \/ failed,
                     !.NbPagesToErase = IF ended /\ type = "pages" THEN count - 1 ELSE @,
                     !.Page = IF more THEN NextPage(@) ELSE @,
                     !.ProcedureOnGoing = IF stops THEN "none" ELSE @,
                     !.Lock = @ /\ ~stops]
      /\ memory' = IF more THEN Erasing(NextPage(page)) ELSE memory
      /\ NSCR1' = ((NSCR1 \ OperationBits(type)) \cup (IF more THEN {"PER"} ELSE {}))
                    \ (IF stops THEN {"EOPIE", "OPERRIE"} ELSE {})
      /\ told' = IF failed THEN "failed" ELSE IF more THEN told ELSE "done"
      /\ flashFlags' = {} /\ UNCHANGED <<suspended, flashCall, asked, erased>>
  BY DEF IRQ_Flash
<1>2. /\ "EOPIE" \in NSCR1 /\ flashFlags # {} /\ pFlash.Lock /\ CallAt("idle")
      /\ NSCR1 \subseteq Locks \cup {"EOPIE", "OPERRIE"} \cup OperationBits(type)
      /\ "OPERRIE" \in NSCR1
      /\ UnderWay(memory, flashFlags, asked, erased, type, page, last)
      /\ type = "pages" => count >= 1 /\ last <= LastPage
      /\ type # "none"
  BY DEF IRQ_Flash, FlashInv, InterruptProceeds, LockHasHolder
<1>3. /\ type \in Procedure \cup {"none"} /\ page \in 0 .. LastPage /\ count \in 0 .. PageCount
      /\ pFlash.ErrorCode \in BOOLEAN /\ asked \subseteq 0 .. LastPage
  BY DEF FlashInv, FlashTypeOK
<1>4. memory = Resting /\ flashFlags \in {{"EOP"}, {"error"}}
  BY <1>2 DEF UnderWay
<1>5. (failed \/ ended) /\ ~(failed /\ ended)
  BY <1>4
<1>6. OperationBits(type) \subseteq {"PG", "BWR", "MER", "PER"}
  BY DEF OperationBits
<1>7. CallProceeds' /\ flashCall' = flashCall
  <2>1. flashCall' = flashCall /\ flashCall.at = "idle"
    BY <1>1, <1>2 DEF CallAt
  <2> QED
    BY <2>1 DEF FlashInv, CallProceeds, CallAt
<1>8. CASE more
  <2>1. ended /\ type = "pages" /\ count # 1 /\ ~failed /\ ~stops
    BY <1>3, <1>5, <1>8 DEF PageCount
  <2> HIDE DEF failed, ended, more, stops
  <2>2. /\ memory' = [op |-> "pages", page |-> page + 1]
        /\ NSCR1' = (NSCR1 \ OperationBits(type)) \cup {"PER"}
        /\ told' = told
    BY <1>1, <1>8, <2>1 DEF Erasing, NextPage
  <2>3. pFlash' = [pFlash EXCEPT !.ErrorCode = pFlash.ErrorCode \/ failed, !.NbPagesToErase = count - 1,
                                 !.Page = page + 1, !.ProcedureOnGoing = type,
                                 !.Lock = pFlash.Lock /\ ~stops]
    BY <1>1, <1>8, <2>1 DEF NextPage
  <2>4. /\ (pFlash.ErrorCode \/ failed) = pFlash.ErrorCode /\ (pFlash.Lock /\ ~stops) = TRUE
    BY <1>2, <1>3, <2>1
  <2>5. page + 1 \in 0 .. LastPage /\ count - 1 \in 0 .. PageCount /\ count - 1 >= 1
        /\ (page + 1) + (count - 1) - 1 = last /\ page + 1 <= last
    BY <1>2, <1>3, <2>1 DEF PageCount
  <2>6. pFlash' = [pFlash EXCEPT !.ErrorCode = pFlash.ErrorCode, !.NbPagesToErase = count - 1,
                                 !.Page = page + 1, !.ProcedureOnGoing = type, !.Lock = TRUE]
    BY <2>3, <2>4, Zenon
  <2> HIDE DEF page, count, type
  <2>7. /\ pFlash' \in [Lock : BOOLEAN, ErrorCode : BOOLEAN,
                        ProcedureOnGoing : Procedure \cup {"none"},
                        Page : 0 .. LastPage, NbPagesToErase : 0 .. PageCount]
        /\ pFlash'.Lock = TRUE /\ pFlash'.ProcedureOnGoing = type /\ pFlash'.Page = page + 1
        /\ pFlash'.NbPagesToErase = count - 1
    BY <1>3, <2>5, <2>6 DEF FlashInv, FlashTypeOK
  <2>8. memory' \in [op : Procedure \cup {"none", "options"}, page : 0 .. LastPage]
    BY <2>2, <2>5 DEF Procedure
  <2>9. FlashTypeOK'
    BY <1>1, <1>6, <2>2, <2>7, <2>8 DEF FlashInv, FlashTypeOK
  <2>10. /\ page .. last \subseteq asked /\ page \in erased
         /\ \A n \in asked : n <= last /\ (n < page => n \in erased)
    <3>1. "EOP" \in flashFlags
      BY <2>1 DEF ended
    <3> QED
      BY <1>2, <2>1, <3>1 DEF UnderWay
  <2>11. /\ page + 1 \in asked /\ page + 1 .. last \subseteq asked
         /\ \A n \in asked : n <= last /\ (n < page + 1 => n \in erased)
    <3>1. last \in Int
      BY <1>3 DEF PageCount
    <3> HIDE DEF last
    <3> QED
      BY <1>3, <2>5, <2>10, <3>1
  <2>12. UnderWay(memory', flashFlags', asked', erased', type, page + 1, last)
    BY <1>1, <2>1, <2>2, <2>11 DEF UnderWay
  <2>13. NSCR1' \subseteq Locks \cup {"EOPIE", "OPERRIE"} \cup OperationBits(type)
         /\ {"EOPIE", "OPERRIE"} \subseteq NSCR1'
    BY <1>2, <1>6, <2>1, <2>2 DEF OperationBits
  <2>14. InterruptProceeds'
    <3>1. last <= LastPage
      BY <1>2, <2>1
    <3>2. pFlash'.Page + pFlash'.NbPagesToErase - 1 = last
      BY <2>5, <2>7
    <3> HIDE DEF last
    <3> QED
      BY <2>5, <2>7, <2>12, <2>13, <3>1, <3>2 DEF InterruptProceeds
  <2>15. LockHasHolder' /\ PagesAreErased' /\ LateIsAsked'
    BY <1>1, <1>2, <1>7, <2>1, <2>2, <2>7, <2>11, <2>13
    DEF FlashInv, LockHasHolder, PagesAreErased, LateIsAsked, CallAt, Resting
  <2> QED
    BY <1>7, <2>9, <2>14, <2>15 DEF FlashInv
<1>9. CASE ~more
  <2>1. stops
    BY <1>5, <1>9
  <2>2. ended => asked \subseteq erased
    <3>1. SUFFICES ASSUME ended PROVE asked \subseteq erased
      OBVIOUS
    <3>2. CASE type = "pages"
      <4>1. last = page
        BY <1>3, <1>9, <3>1, <3>2 DEF PageCount
      <4>2. page \in erased /\ \A n \in asked : n <= last /\ (n < page => n \in erased)
        BY <1>2, <3>1, <3>2 DEF UnderWay
      <4> HIDE DEF last, page
      <4> QED
        BY <1>3, <4>1, <4>2
    <3>3. CASE type # "pages"
      BY <1>2, <3>1, <3>3 DEF UnderWay
    <3> QED
      BY <3>2, <3>3
  <2>3. ended /\ type = "pages" => count - 1 = 0
    BY <1>9
  <2> HIDE DEF failed, ended, more, stops
  <2>4. /\ memory' = memory
        /\ NSCR1' = ((NSCR1 \ OperationBits(type)) \cup {}) \ {"EOPIE", "OPERRIE"}
        /\ told' = IF failed THEN "failed" ELSE "done"
    BY <1>1, <1>9, <2>1
  <2>5. NSCR1' \subseteq Locks
    BY <1>2, <2>4
  <2> DEFINE error == pFlash.ErrorCode \/ failed
             left == IF ended /\ type = "pages" THEN count - 1 ELSE count
  <2>6. pFlash' = [pFlash EXCEPT !.ErrorCode = error, !.NbPagesToErase = left,
                                 !.Page = page, !.ProcedureOnGoing = "none",
                                 !.Lock = pFlash.Lock /\ ~stops]
    BY <1>1, <1>9, <2>1
  <2>7. error \in BOOLEAN /\ (pFlash.Lock /\ ~stops) = FALSE
    BY <2>1
  <2>8. left \in 0 .. PageCount
    BY <1>3, <2>3 DEF PageCount
  <2>9. pFlash' = [pFlash EXCEPT !.ErrorCode = error, !.NbPagesToErase = left,
                                 !.Page = page, !.ProcedureOnGoing = "none", !.Lock = FALSE]
    BY <2>6, <2>7, Zenon
  <2> HIDE DEF error, left, page
  <2>10. /\ pFlash' \in [Lock : BOOLEAN, ErrorCode : BOOLEAN,
                         ProcedureOnGoing : Procedure \cup {"none"},
                         Page : 0 .. LastPage, NbPagesToErase : 0 .. PageCount]
         /\ pFlash'.Lock = FALSE
    BY <1>3, <2>7, <2>8, <2>9 DEF FlashInv, FlashTypeOK
  <2>11. told' \in {"failed", "done"} /\ (told' = "done" => asked \subseteq erased)
    BY <1>5, <2>2, <2>4 DEF failed, ended
  <2>12. FlashTypeOK'
    BY <1>1, <2>4, <2>5, <2>10, <2>11 DEF FlashInv, FlashTypeOK, Locks
  <2>13. LockHasHolder' /\ PagesAreErased' /\ LateIsAsked' /\ InterruptProceeds'
    BY <1>1, <1>2, <1>7, <2>4, <2>5, <2>10, <2>11
    DEF FlashInv, LockHasHolder, PagesAreErased, LateIsAsked, InterruptProceeds, CallAt, Locks
  <2> QED
    BY <1>7, <2>12, <2>13 DEF FlashInv
<1> QED
  BY <1>8, <1>9

(* The steps of a call and the interrupt.                                   *)
LEMMA DriverProceeds == ASSUME FlashInv, FlashSteps PROVE FlashInv'
  BY DriverChecks, DriverStarts, DriverStartsOptions, DriverWaitsOn, DriverInterrupt DEF FlashSteps

(* A call of the driver, with pages in order.                               *)
LEMMA DriverCalled ==
  ASSUME FlashInv, FlashCalls
  PROVE  /\ FlashInv' /\ UNCHANGED memory
<1> USE FlashAssumption
<1>1. ASSUME NEW type \in Procedure \cup {"options"}, NEW it \in BOOLEAN,
             NEW first \in 0 .. LastPage, NEW last \in 0 .. LastPage, first <= last,
             FlashBegin(type, it, first, last)
      PROVE  FlashInv' /\ UNCHANGED memory
  <2>1. /\ CallAt("idle") /\ ~pFlash.Lock
        /\ pFlash' = [pFlash EXCEPT !.Lock = TRUE, !.ErrorCode = FALSE]
        /\ flashCall' = [at |-> "check", type |-> type, it |-> it, page |-> first, last |-> last]
        /\ UNCHANGED <<NSCR1, memory, flashFlags, suspended, asked, erased, told>>
    BY <1>1 DEF FlashBegin
  <2>2. /\ flashCall' \in [at : {"check"}, type : Procedure \cup {"options"}, it : BOOLEAN,
                           page : 0 .. LastPage, last : 0 .. LastPage]
        /\ flashCall'.page <= flashCall'.last
    BY <1>1, <2>1
  <2> QED
    BY <2>1, <2>2, DriverBegins
<1>2. 0 \in 0 .. LastPage
  OBVIOUS
<1>3. ASSUME NEW type \in Procedure \ {"pages"}, NEW it \in BOOLEAN, FlashBegin(type, it, 0, 0)
      PROVE  FlashInv' /\ UNCHANGED memory
  BY <1>1, <1>2, <1>3
<1>4. ASSUME NEW first \in 0 .. LastPage, NEW it \in BOOLEAN, NEW last \in first .. LastPage,
             FlashBegin("pages", it, first, last)
      PROVE  FlashInv' /\ UNCHANGED memory
  <2>1. last \in 0 .. LastPage /\ first <= last /\ "pages" \in Procedure
    BY DEF Procedure
  <2> QED
    BY <1>1, <1>4, <2>1
<1>5. ASSUME FlashBegin("options", FALSE, 0, 0)
      PROVE  FlashInv' /\ UNCHANGED memory
  <2>1. FALSE \in BOOLEAN /\ "options" \in Procedure \cup {"options"} /\ 0 <= 0
    OBVIOUS
  <2> QED
    BY <1>1, <1>2, <1>5, <2>1, Zenon
<1> QED
  BY <1>3, <1>4, <1>5 DEF FlashCalls

(* The locks, and what is held up.                                          *)
LEMMA DriverLocked ==
  ASSUME FlashInv, FlashLocks
  PROVE  /\ FlashInv' /\ UNCHANGED memory
<1>1. ASSUME HAL_FLASH_Unlock \/ HAL_FLASH_Lock \/ HAL_FLASH_OB_Unlock \/ HAL_FLASH_OB_Lock
      PROVE  FlashInv' /\ UNCHANGED memory
  <2>1. /\ FlashIdle /\ NSCR1' \subseteq NSCR1 \cup Locks
        /\ UNCHANGED <<pFlash, memory, flashFlags, suspended, flashCall, asked, erased, told>>
    BY <1>1 DEF HAL_FLASH_Unlock, HAL_FLASH_Lock, HAL_FLASH_OB_Unlock, HAL_FLASH_OB_Lock, Locks
  <2> QED
    BY <2>1, DriverLocks
<1>2. ASSUME NEW kind \in {"program", "erase"}, SuspendOperation(kind) \/ AllowOperation(kind)
      PROVE  FlashInv' /\ UNCHANGED memory
  <2>1. /\ suspended' \subseteq {"program", "erase"}
        /\ UNCHANGED <<pFlash, NSCR1, memory, flashFlags, flashCall, asked, erased, told>>
    BY <1>2 DEF SuspendOperation, AllowOperation, FlashInv, FlashTypeOK
  <2> QED
    BY <2>1, DriverHoldsUp
<1> QED
  BY <1>1, <1>2 DEF FlashLocks

(* Whatever is called and however operations end, the lock has one holder,  *)
(* and an erase that is reported as done has erased what was asked, and     *)
(* nothing else is ever erased: for any number of pages.                    *)
THEOREM FlashKeepsItsWord == FlashSpec => []FlashDoesAsAsked
<1>1. FlashInit => FlashInv
  BY ResetDriver
<1>2. FlashInv /\ [FlashNext]_flashVars => FlashInv'
  <2> SUFFICES ASSUME FlashInv, [FlashNext]_flashVars PROVE FlashInv'
    OBVIOUS
  <2>1. CASE UNCHANGED flashVars
    BY <2>1 DEF flashVars, FlashInv, FlashTypeOK, LockHasHolder, PagesAreErased, CallProceeds,
                InterruptProceeds, LateIsAsked, CallAt
  <2>2. CASE FlashNext
    BY <2>2, DriverCalled, DriverProceeds, DriverLocked, DriverResets, DriverMemoryEnds
    DEF FlashNext, HAL_FLASH_OB_Launch
  <2> QED
    BY <2>1, <2>2
<1>3. FlashInv => FlashDoesAsAsked
  BY DEF FlashInv, FlashDoesAsAsked
<1> QED
  BY <1>1, <1>2, <1>3, PTL DEF FlashSpec

-----------------------------------------------------------------------------
(* The area's steps.                                                        *)

(* A record is not what is left of no write.                                *)
LEMMA RecordsHaveIndex ==
  /\ \A r \in Record : r # NoRecord /\ r.index \in Index /\ r.index # Erased
  /\ NoWrite.record = NoRecord /\ NoWrite.slot = 0
  BY OtpAssumption DEF Record, NoRecord, NoWrite

(* The first slot that is free lies behind full ones.                       *)
LEMMA FreeIsFirst ==
  ASSUME FilledInOrder
  PROVE  FreeSlot \in Slot /\ Filled(FreeSlot)
<1> DEFINE P(s) == /\ HalfErased(s) \/ s = LastSlot
                   /\ \A before \in 0 .. s - 1 : ~HalfErased(before)
<1>1. \E s \in Slot : P(s)
  BY DEF FilledInOrder, Filled
<1>2. FreeSlot = CHOOSE s \in Slot : P(s)
  BY DEF FreeSlot
<1> HIDE DEF P
<1>3. FreeSlot \in Slot /\ P(FreeSlot)
  BY <1>1, <1>2
<1> QED
  BY <1>3 DEF P, Filled

(* At first all slots are erased.                                           *)
LEMMA AreaAtFirst == FlashInit /\ OtpInit => OtpInv
<1> SUFFICES ASSUME FlashInit, OtpInit PROVE OtpInv
  OBVIOUS
<1> USE OtpAssumption
<1>1. FlashInv
  BY ResetDriver
<1>2. /\ otp = [s \in Slot |-> NoRecord] /\ writing = NoWrite /\ burning = NoWrite
      /\ written = [i \in Index |-> NoRecord] /\ tried = [i \in Index |-> {}]
      /\ 0 \in Slot
  BY DEF OtpInit, Slot
<1>3. OtpTypeOK
  BY <1>2 DEF OtpTypeOK, NoWrite, NoRecord
<1>4. \A s \in Slot : IsErased(s) /\ HalfErased(s)
  BY <1>2 DEF IsErased, HalfErased, NoRecord
<1>5. FilledInOrder
  <2>1. \A s \in Slot : ErasedFrom(s)
    BY <1>4 DEF ErasedFrom
  <2>2. Filled(0)
    BY DEF Filled
  <2> QED
    BY <1>2, <1>4, <2>1, <2>2 DEF FilledInOrder
<1>6. WritesAreTried /\ WriteProceeds /\ LastIsKnown
  BY <1>2 DEF WritesAreTried, Tries, WriteProceeds, LastIsKnown
<1> QED
  BY <1>1, <1>3, <1>5, <1>6 DEF OtpInv

(* A step that leaves the area alone, and of the writes only starts one.    *)
LEMMA AreaKept ==
  ASSUME OtpInv, FlashInv', UNCHANGED <<otp, writing, written, tried>>,
         burning' \in {burning, writing}, WriteProceeds'
  PROVE  OtpInv'
<1>1. OtpTypeOK'
  BY DEF OtpInv, OtpTypeOK
<1>2. FilledInOrder'
  BY DEF OtpInv, FilledInOrder, HalfErased, ErasedFrom, IsErased, Filled
<1>3. WritesAreTried'
  BY DEF OtpInv, WritesAreTried, Tries, Filled, HalfErased
<1>4. LastIsKnown'
  BY DEF OtpInv, LastIsKnown, HasIndex
<1> QED
  BY <1>1, <1>2, <1>3, <1>4 DEF OtpInv

(* The driver's steps for a write.                                          *)
LEMMA AreaDriven == ASSUME OtpInv, DriverSteps PROVE OtpInv'
<1>1. FlashInv /\ FlashInv'
  BY DriverProceeds DEF OtpInv, DriverSteps
<1>2. /\ burning' = IF CallAt("start") THEN writing ELSE burning
      /\ UNCHANGED <<otp, writing, written, tried>>
  BY DEF DriverSteps
<1>3. burning # NoWrite => memory # Resting
  BY DEF OtpInv, WriteProceeds, Resting
<1>4. /\ CallAt("start") => memory = Resting
      /\ CallAt("wait") => UnderWay(memory, flashFlags, asked, erased,
                                    flashCall.type, flashCall.page, flashCall.last)
      /\ "EOPIE" \in NSCR1 => CallAt("idle") /\ (memory = Resting \/ flashFlags = {})
  BY <1>1 DEF FlashInv, CallProceeds, InterruptProceeds, LockHasHolder, UnderWay, CallAt
<1>5. WriteProceeds'
  <2>1. CASE FlashCheck
    <3>1. /\ UNCHANGED <<memory, NSCR1>> /\ CallAt("check")
          /\ \/ flashCall' = [flashCall EXCEPT !.at = "start"]
             \/ flashCall' = NoFlashCall /\ told' = "failed"
      <4>1. PICK status \in {"OK", "ERROR", "TIMEOUT"}, error \in BOOLEAN :
              IF status = "OK" THEN CallGoesTo("start") /\ UNCHANGED <<pFlash, told>>
                               ELSE ReturnsUnlocked(status, error)
        BY <2>1 DEF FlashCheck
      <4> QED
        BY <2>1, <4>1 DEF FlashCheck, CallGoesTo, ReturnsUnlocked
    <3>2. CASE flashCall' = [flashCall EXCEPT !.at = "start"]
      <4>1. flashCall'.at = "start" /\ flashCall'.type = flashCall.type /\ flashCall'.it = flashCall.it
        BY <1>1, <3>2 DEF FlashInv, FlashTypeOK
      <4> QED
        BY <1>2, <3>1, <4>1 DEF OtpInv, WriteProceeds, CallAt
    <3>3. CASE flashCall' = NoFlashCall /\ told' = "failed"
      <4>1. flashCall'.at = "idle"
        BY <3>3 DEF NoFlashCall
      <4> QED
        BY <1>2, <3>1, <3>3, <4>1 DEF OtpInv, WriteProceeds, CallAt
    <3> QED
      BY <3>1, <3>2, <3>3
  <2>2. CASE FlashStart
    <3>1. CallAt("start") /\ burning' = writing /\ memory' = FirstOperation
      BY <1>2, <2>2 DEF FlashStart
    <3>2. SUFFICES ASSUME writing # NoWrite PROVE WriteProceeds'
      BY <1>2, <3>1 DEF WriteProceeds
    <3>3. flashCall.type = "program" /\ ~flashCall.it /\ "EOPIE" \notin NSCR1
      BY <3>1, <3>2 DEF OtpInv, WriteProceeds, CallAt
    <3>4. memory'.op = "program" /\ memory' # Resting
      BY <3>1, <3>3 DEF FirstOperation, Working, Resting
    <3>5. flashCall' = [flashCall EXCEPT !.at = "wait"]
          /\ NSCR1' = NSCR1 \cup OperationBits("program") \cup {}
      BY <2>2, <3>3 DEF FlashStart, CallGoesTo
    <3>6. flashCall'.at = "wait" /\ flashCall'.type = "program" /\ flashCall'.it = flashCall.it
      BY <1>1, <3>3, <3>5 DEF FlashInv, FlashTypeOK
    <3>7. "EOPIE" \notin NSCR1'
      BY <3>3, <3>5 DEF OperationBits
    <3> QED
      BY <1>2, <3>1, <3>3, <3>4, <3>6, <3>7 DEF WriteProceeds, CallAt
  <2>3. CASE OBStart
    <3>1. CallAt("start") /\ burning' = writing /\ flashCall.type = "options"
      BY <1>2, <2>3 DEF OBStart
    <3>2. writing = NoWrite
      BY <3>1 DEF OtpInv, WriteProceeds, CallAt
    <3> QED
      BY <1>2, <3>1, <3>2 DEF WriteProceeds
  <2>4. CASE FlashWait
    <3>1. CallAt("wait") /\ ~CallAt("start") /\ burning' = burning
      BY <1>2, <2>4 DEF FlashWait, CallAt
    <3>2. PICK status \in {"OK", "ERROR", "TIMEOUT"}, error \in BOOLEAN :
            /\ Waits(status, error)
            /\ IF status = "OK" /\ flashCall.type = "pages" /\ flashCall.page < flashCall.last
               THEN /\ flashCall' = [flashCall EXCEPT !.page = @ + 1]
                    /\ memory' = Erasing(flashCall.page + 1)
                    /\ UNCHANGED <<pFlash, NSCR1, told>>
               ELSE /\ ReturnsUnlocked(status, error)
                    /\ NSCR1' = NSCR1 \ OperationBits(flashCall.type)
                    /\ UNCHANGED memory
      BY <2>4 DEF FlashWait
    <3>3. status = "OK" => memory = Resting /\ "error" \notin flashFlags
      BY <1>1, <3>2, DriverWaits
    <3>4. burning' # NoWrite => memory'.op = "program"
      BY <1>3, <3>1, <3>2, <3>3 DEF OtpInv, WriteProceeds
    <3>5. SUFFICES ASSUME writing # NoWrite PROVE WriteProceeds'
      BY <1>2, <3>4 DEF WriteProceeds
    <3>6. flashCall.type = "program" /\ "EOPIE" \notin NSCR1
      BY <3>1, <3>5 DEF OtpInv, WriteProceeds, CallAt
    <3>7. ReturnsUnlocked(status, error) /\ "EOPIE" \notin NSCR1'
      BY <3>2, <3>6
    <3>8. flashCall'.at = "idle" /\ told' = IF status = "OK" THEN "done" ELSE "failed"
      BY <3>7 DEF ReturnsUnlocked, NoFlashCall
    <3>9. status = "OK" => burning = NoWrite /\ Programmed(writing)
      <4>1. SUFFICES ASSUME status = "OK" PROVE burning = NoWrite /\ Programmed(writing)
        OBVIOUS
      <4>2. "EOP" \in flashFlags
        BY <1>4, <3>1, <3>3, <3>6, <4>1 DEF UnderWay, Resting
      <4> QED
        BY <1>3, <3>1, <3>3, <3>5, <4>1, <4>2 DEF OtpInv, WriteProceeds
    <3>10. Programmed(writing) => Programmed(writing)'
      BY <1>2 DEF Programmed, ErasedFrom, IsErased
    <3> QED
      BY <1>2, <3>1, <3>4, <3>7, <3>8, <3>9, <3>10 DEF WriteProceeds, CallAt
  <2>5. CASE IRQ_Flash
    <3>1. "EOPIE" \in NSCR1 /\ flashFlags # {}
      BY <2>5 DEF IRQ_Flash
    <3>2. writing = NoWrite /\ memory = Resting /\ CallAt("idle")
      BY <1>4, <3>1 DEF OtpInv, WriteProceeds
    <3>3. burning' = NoWrite
      BY <1>2, <1>3, <3>2 DEF CallAt
    <3> QED
      BY <1>2, <3>2, <3>3 DEF WriteProceeds
  <2> QED
    BY <2>1, <2>2, <2>3, <2>4, <2>5 DEF DriverSteps, FlashSteps
<1> QED
  BY <1>1, <1>2, <1>5, AreaKept

(* A write takes the lock and the first free slot.                          *)
LEMMA AreaWritten ==
  ASSUME OtpInv, NEW r \in Record, Writes(r)
  PROVE  OtpInv'
<1> USE FlashAssumption, OtpAssumption
<1>1. /\ CallAt("idle") /\ ~pFlash.Lock /\ writing = NoWrite
      /\ pFlash' = [pFlash EXCEPT !.Lock = TRUE, !.ErrorCode = FALSE]
      /\ NSCR1' = NSCR1 \ {"LOCK"} /\ flashFlags' = flashFlags \ {"error"}
      /\ flashCall' = [NoFlashCall EXCEPT !.at = "check", !.type = "program"]
      /\ writing' = [slot |-> FreeSlot, record |-> r]
      /\ tried' = [tried EXCEPT ![r.index] = @ \cup {part \in PartsOf(r) : part.index = r.index}]
      /\ UNCHANGED <<memory, suspended, asked, erased, told, otp, burning, written>>
  BY DEF Writes
<1>2. /\ flashCall' \in [at : {"check"}, type : Procedure \cup {"options"}, it : BOOLEAN,
                         page : 0 .. LastPage, last : 0 .. LastPage]
      /\ flashCall'.page <= flashCall'.last /\ flashCall'.at = "check"
      /\ flashCall'.type = "program" /\ ~flashCall'.it
  <2>1. flashCall' = [at |-> "check", type |-> "program", it |-> FALSE, page |-> 0, last |-> 0]
    BY <1>1 DEF NoFlashCall
  <2>2. FALSE \in BOOLEAN /\ "program" \in Procedure /\ 0 \in 0 .. LastPage
    BY DEF Procedure
  <2>3. flashCall'.it = FALSE
    BY <2>1
  <2> QED
    BY <2>1, <2>2, <2>3
<1>3. FlashInv'
  BY <1>1, <1>2, DriverBegins DEF OtpInv
<1>4. FreeSlot \in Slot /\ Filled(FreeSlot)
  BY FreeIsFirst DEF OtpInv
<1> DEFINE parts == {part \in PartsOf(r) : part.index = r.index}
<1>5. r.index \in Index /\ r.data \in Data
  BY DEF Record
<1>6. parts \subseteq [data : Data \cup {Erased}, index : {r.index}]
  BY <1>5 DEF PartsOf
<1>7. tried \in [Index -> SUBSET [data : Data \cup {Erased}, index : Index]]
  BY DEF OtpInv, OtpTypeOK
<1> HIDE DEF parts
<1>8. /\ \A i \in Index : i # r.index => tried'[i] = tried[i]
      /\ tried'[r.index] = tried[r.index] \cup parts
  BY <1>1, <1>5, <1>7 DEF parts
<1>9. \A i \in Index : tried[i] \subseteq tried'[i]
  BY <1>5, <1>8
<1>10. OtpTypeOK'
  <2>1. writing' \in [slot : Slot, record : [data : Data \cup {Erased}, index : Index \cup {Erased}]]
    BY <1>1, <1>4, <1>5 DEF Record
  <2>2. \A i \in Index : \A part \in tried'[i] : part.index = i
    BY <1>6, <1>8 DEF OtpInv, OtpTypeOK
  <2>3. tried' \in [Index -> SUBSET [data : Data \cup {Erased}, index : Index]]
    BY <1>1, <1>5, <1>6, <1>7 DEF parts
  <2> QED
    BY <1>1, <2>1, <2>2, <2>3 DEF OtpInv, OtpTypeOK
<1>11. FilledInOrder'
  BY <1>1 DEF OtpInv, FilledInOrder, HalfErased, ErasedFrom, IsErased, Filled
<1>12. WritesAreTried'
  <2>1. Tries(burning)'
    <3>1. SUFFICES ASSUME burning # NoWrite PROVE Tries(burning)'
      BY <1>1 DEF Tries
    <3>2. /\ burning.record \in Record /\ Filled(burning.slot)
          /\ \A part \in PartsOf(burning.record) :
               part.index = burning.record.index => part \in tried[burning.record.index]
      BY <3>1 DEF OtpInv, WritesAreTried, Tries
    <3>3. burning.record.index \in Index
      BY <3>2, RecordsHaveIndex
    <3> QED
      BY <1>1, <1>9, <3>2, <3>3 DEF Tries, Filled, HalfErased
  <2>2. Tries(writing)'
    <3>1. writing'.record = r /\ writing'.slot = FreeSlot
      BY <1>1
    <3>2. Filled(FreeSlot)' = Filled(FreeSlot)
      BY <1>1 DEF Filled, HalfErased, FreeSlot
    <3>3. \A part \in PartsOf(r) : part.index = r.index => part \in tried'[r.index]
      BY <1>8 DEF parts
    <3>4. \A before \in 0 .. writing'.slot - 1 : ~HalfErased(before)'
      BY <1>1, <1>4, <3>1 DEF Filled, HalfErased
    <3> QED
      BY <3>1, <3>3, <3>4 DEF Tries, Filled
  <2> QED
    BY <2>1, <2>2 DEF WritesAreTried
<1>13. WriteProceeds'
  <2>1. "EOPIE" \notin NSCR1
    BY <1>1 DEF OtpInv, FlashInv, LockHasHolder
  <2>2. burning # NoWrite => memory.op = "program"
    BY DEF OtpInv, WriteProceeds
  <2> QED
    BY <1>1, <1>2, <2>1, <2>2 DEF WriteProceeds, CallAt
<1>14. LastIsKnown'
  BY <1>1, <1>9 DEF OtpInv, LastIsKnown, HasIndex
<1> QED
  BY <1>3, <1>10, <1>11, <1>12, <1>13, <1>14 DEF OtpInv

(* The caller is told how the write ended.                                  *)
LEMMA AreaReturns == ASSUME OtpInv, WriteReturns PROVE OtpInv'
<1> DEFINE r == writing.record
           s == writing.slot
<1>1. /\ writing # NoWrite /\ CallAt("idle")
      /\ NSCR1' = NSCR1 \cup {"LOCK"} /\ writing' = NoWrite
      /\ IF told = "done" THEN /\ written' = [written EXCEPT ![r.index] = r]
                             /\ tried' = [tried EXCEPT ![r.index] = {}]
                        ELSE UNCHANGED <<written, tried>>
      /\ UNCHANGED <<pFlash, memory, flashFlags, suspended, flashCall, asked, erased, told, otp, burning>>
  BY DEF WriteReturns
<1>2. ~pFlash.Lock
  BY <1>1 DEF OtpInv, WriteProceeds, FlashInv, LockHasHolder
<1>3. FlashInv'
  BY <1>1, <1>2, DriverLocks DEF OtpInv, FlashIdle, Locks
<1>4. r \in Record /\ r.index \in Index /\ r.index # Erased /\ s \in Slot
  BY <1>1, RecordsHaveIndex DEF OtpInv, WritesAreTried, Tries, OtpTypeOK
<1>5. FilledInOrder'
  BY <1>1 DEF OtpInv, FilledInOrder, HalfErased, ErasedFrom, IsErased, Filled
<1>6. NoWrite \in [slot : Slot, record : [data : Data \cup {Erased}, index : Index \cup {Erased}]]
  BY OtpAssumption DEF NoWrite, NoRecord, Slot
<1>7. CASE told = "done"
  <2>1. burning = NoWrite /\ Programmed(writing)
    BY <1>1, <1>7 DEF OtpInv, WriteProceeds
  <2>2. /\ written' = [written EXCEPT ![r.index] = r]
        /\ tried' = [tried EXCEPT ![r.index] = {}]
    BY <1>1, <1>7
  <2> HIDE DEF r, s
  <2>3. OtpTypeOK'
    <3>1. \A i \in Index : tried'[i] = {} \/ tried'[i] = tried[i]
      BY <2>2
    <3>2. /\ \A i \in Index : \A part \in tried'[i] : part.index = i
          /\ tried' \in [Index -> SUBSET [data : Data \cup {Erased}, index : Index]]
      BY <2>2, <3>1 DEF OtpInv, OtpTypeOK
    <3>3. written' \in [Index -> Record \cup {NoRecord}]
      BY <1>4, <2>2 DEF OtpInv, OtpTypeOK
    <3> QED
      BY <1>1, <1>6, <3>2, <3>3 DEF OtpInv, OtpTypeOK
  <2>4. WritesAreTried' /\ WriteProceeds'
    BY <1>1, <2>1 DEF WritesAreTried, Tries, WriteProceeds
  <2>5. LastIsKnown'
    <3>1. SUFFICES ASSUME NEW i \in Index, written'[i] # NoRecord
                   PROVE  \E t \in HasIndex(i) : /\ \A other \in HasIndex(i) : other <= t
                                                /\ otp[t] \in {written'[i]} \cup tried'[i]
      BY <1>1 DEF LastIsKnown, HasIndex
    <3>2. CASE i = r.index
      <4>1. otp[s] = r /\ \A after \in Slot : after > s => otp[after] = NoRecord
        BY <2>1 DEF Programmed, ErasedFrom, IsErased, r, s
      <4>2. s \in HasIndex(i)
        BY <1>4, <3>2, <4>1 DEF HasIndex
      <4>3. \A other \in HasIndex(i) : other <= s
        BY <1>4, <3>2, <4>1, OtpAssumption DEF HasIndex, Slot, NoRecord
      <4>4. written'[i] = r
        BY <1>4, <2>2, <3>2 DEF OtpInv, OtpTypeOK
      <4> QED
        BY <4>1, <4>2, <4>3, <4>4
    <3>3. CASE i # r.index
      <4>1. written'[i] = written[i] /\ tried'[i] = tried[i]
        BY <2>2, <3>3 DEF OtpInv, OtpTypeOK
      <4> QED
        BY <3>1, <4>1 DEF OtpInv, LastIsKnown
    <3> QED
      BY <3>2, <3>3
  <2> QED
    BY <1>3, <1>5, <2>3, <2>4, <2>5 DEF OtpInv
<1>8. CASE told # "done"
  <2>1. UNCHANGED <<written, tried>>
    BY <1>1, <1>8
  <2>2. OtpTypeOK'
    BY <1>1, <1>6, <2>1 DEF OtpInv, OtpTypeOK
  <2>3. WritesAreTried' /\ WriteProceeds'
    BY <1>1, <2>1 DEF OtpInv, WritesAreTried, Tries, WriteProceeds, Filled, HalfErased
  <2>4. LastIsKnown'
    BY <1>1, <2>1 DEF OtpInv, LastIsKnown, HasIndex
  <2> QED
    BY <1>3, <1>5, <2>2, <2>3, <2>4 DEF OtpInv
<1> QED
  BY <1>7, <1>8

(* What the memory makes of a slot: only one that is erased changes, and    *)
(* what is filled stays as it is.                                           *)
LEMMA SlotChanges ==
  ASSUME OtpInv, NEW records, records \subseteq PartsOf(burning.record),
         SlotBecomes(burning.slot, records), UNCHANGED <<written, tried>>
  PROVE  /\ burning' = NoWrite
         /\ otp' \in [Slot -> [data : Data \cup {Erased}, index : Index \cup {Erased}]]
         /\ FilledInOrder' /\ LastIsKnown'
         /\ \A t \in Slot : Filled(t) => Filled(t)'
         /\ \/ otp' = otp
            \/ /\ burning # NoWrite /\ IsErased(burning.slot)
               /\ otp'[burning.slot] \in records
               /\ \A t \in Slot : t # burning.slot => otp'[t] = otp[t]
<1> USE OtpAssumption
<1> DEFINE s == burning.slot
           from == IF burning # NoWrite /\ IsErased(s) THEN records ELSE {otp[s]}
<1>1. PICK r \in from : otp' = [otp EXCEPT ![s] = r]
  BY DEF SlotBecomes
<1>2. burning' = NoWrite
  BY DEF SlotBecomes
<1>3. /\ s \in Slot /\ otp \in [Slot -> [data : Data \cup {Erased}, index : Index \cup {Erased}]]
      /\ burning.record.data \in Data \cup {Erased} /\ burning.record.index \in Index \cup {Erased}
  BY DEF OtpInv, OtpTypeOK
<1>4. CASE ~(burning # NoWrite /\ IsErased(s))
  <2>1. r = otp[s]
    BY <1>1, <1>4
  <2>2. otp' = otp
    BY <1>1, <1>3, <2>1
  <2> QED
    BY <1>2, <1>3, <2>2
    DEF OtpInv, FilledInOrder, LastIsKnown, HasIndex, HalfErased, ErasedFrom, IsErased, Filled
<1>5. CASE burning # NoWrite /\ IsErased(s)
  <2>1. r \in records /\ r \in PartsOf(burning.record)
    BY <1>1, <1>5
  <2>2. /\ Filled(s)
        /\ r.index = burning.record.index => r \in tried[burning.record.index]
        /\ burning.record.index \in Index
    BY <1>5, <2>1, RecordsHaveIndex DEF OtpInv, WritesAreTried, Tries
  <2>3. r \in [data : Data \cup {Erased}, index : Index \cup {Erased}]
        /\ r.index \in {Erased, burning.record.index}
    BY <1>3, <2>1 DEF PartsOf
  <2> HIDE DEF s, from
  <2>4. /\ otp' \in [Slot -> [data : Data \cup {Erased}, index : Index \cup {Erased}]]
        /\ otp'[s] = r /\ \A t \in Slot : t # s => otp'[t] = otp[t]
    BY <1>1, <1>3, <2>3
  <2>5. otp[s] = NoRecord /\ HalfErased(s) /\ ErasedFrom(s)
    <3>1. otp[s] = NoRecord
      BY <1>5 DEF IsErased
    <3>2. HalfErased(s)
      BY <3>1 DEF HalfErased, NoRecord
    <3> QED
      BY <1>3, <3>1, <3>2 DEF OtpInv, FilledInOrder
  <2>6. \A t \in Slot : Filled(t) => Filled(t)'
    <3>1. SUFFICES ASSUME NEW t \in Slot, Filled(t), NEW before \in 0 .. t - 1
                   PROVE  ~HalfErased(before)'
      BY DEF Filled
    <3>2. before \in Slot /\ ~HalfErased(before)
      BY <3>1 DEF Filled, Slot
    <3>3. before # s
      BY <2>5, <3>2
    <3> QED
      BY <2>4, <3>2, <3>3 DEF HalfErased
  <2>7. \A t \in Slot : t > s => IsErased(t) /\ IsErased(t)'
    BY <1>3, <2>4, <2>5 DEF ErasedFrom, IsErased, Slot
  <2>8. \A t \in Slot : HalfErased(t)' => ErasedFrom(t)'
    <3>1. SUFFICES ASSUME NEW t \in Slot, HalfErased(t)', NEW after \in Slot, after > t
                   PROVE  IsErased(after)'
      BY DEF ErasedFrom
    <3>2. ~(t < s)
      <4>1. SUFFICES ASSUME t < s PROVE FALSE
        OBVIOUS
      <4>2. t \in 0 .. s - 1 /\ t # s
        BY <1>3, <4>1 DEF Slot
      <4> QED
        BY <2>2, <2>4, <3>1, <4>2 DEF Filled, HalfErased
    <3> QED
      BY <1>3, <2>7, <3>1, <3>2 DEF Slot
  <2>9. PICK q \in Slot : q = s
    BY <1>3
  <2>10. \E t \in Slot : Filled(t)' /\ (HalfErased(t)' \/ t = LastSlot)
    <3>1. Filled(q)'
      BY <2>2, <2>6, <2>9
    <3>2. CASE HalfErased(q)' \/ q = LastSlot
      BY <3>1, <3>2
    <3>3. CASE ~HalfErased(q)' /\ q # LastSlot
      <4>1. q + 1 \in Slot /\ q + 1 > q
        BY <3>3 DEF Slot
      <4>2. PICK next \in Slot : next = q + 1
        BY <4>1
      <4>3. HalfErased(next)'
        <5>1. IsErased(next)'
          BY <2>7, <2>9, <4>1, <4>2
        <5> QED
          BY <5>1 DEF IsErased, HalfErased, NoRecord
      <4>4. Filled(next)'
        <5>1. SUFFICES ASSUME NEW before \in 0 .. next - 1 PROVE ~HalfErased(before)'
          BY DEF Filled
        <5>2. before = q \/ before \in 0 .. q - 1
          BY <4>2 DEF Slot
        <5> QED
          BY <3>1, <3>3, <5>2 DEF Filled
      <4> QED
        BY <4>3, <4>4
    <3> QED
      BY <3>2, <3>3
  <2>11. FilledInOrder'
    BY <2>8, <2>10 DEF FilledInOrder
  <2>12. LastIsKnown'
    <3>1. SUFFICES ASSUME NEW i \in Index, written[i] # NoRecord
                   PROVE  \E t \in Slot : /\ otp'[t].index = i
                                          /\ \A other \in Slot : otp'[other].index = i => other <= t
                                          /\ otp'[t] \in {written[i]} \cup tried[i]
      BY DEF LastIsKnown, HasIndex
    <3>2. PICK t \in Slot : /\ otp[t].index = i
                            /\ \A other \in Slot : otp[other].index = i => other <= t
                            /\ otp[t] \in {written[i]} \cup tried[i]
      BY <3>1 DEF OtpInv, LastIsKnown, HasIndex
    <3>3. i # Erased /\ otp[s].index = Erased
      BY <2>5 DEF NoRecord
    <3>4. CASE r.index = i
      <4>1. r \in tried[i]
        BY <2>2, <2>3, <3>3, <3>4
      <4>2. \A other \in Slot : otp'[other].index = i => other <= s
        BY <1>3, <2>7, <3>3 DEF IsErased, NoRecord, Slot
      <4> QED
        BY <1>3, <2>4, <3>4, <4>1, <4>2
    <3>5. CASE r.index # i
      <4>1. t # s
        BY <3>2, <3>3
      <4> QED
        BY <2>4, <3>2, <3>5, <4>1
    <3> QED
      BY <3>4, <3>5
  <2> QED
    BY <1>2, <1>5, <2>1, <2>4, <2>6, <2>11, <2>12 DEF s
<1> QED
  BY <1>4, <1>5

(* What is left of a record that was programmed well is all of it.          *)
LEMMA WholeIsPart == \A r \in Record \cup {NoRecord} : r \in PartsOf(r)
<1> SUFFICES ASSUME NEW r \in Record \cup {NoRecord} PROVE r \in PartsOf(r)
  OBVIOUS
<1>1. r = [data |-> r.data, index |-> r.index]
  BY DEF Record, NoRecord
<1> QED
  BY <1>1 DEF PartsOf

(* The memory programs the slot, whoever still waits for it.                *)
LEMMA AreaProgrammed ==
  ASSUME OtpInv, NEW well \in BOOLEAN, SlotProgrammed(well)
  PROVE  OtpInv'
<1> DEFINE s == burning.slot
           records == IF well THEN {burning.record} ELSE PartsOf(burning.record)
<1>1. /\ MemoryEnds(well) /\ (well /\ burning # NoWrite => IsErased(s))
      /\ SlotBecomes(s, records) /\ UNCHANGED <<writing, written, tried>>
  BY DEF SlotProgrammed
<1>2. FlashInv /\ FlashInv'
  BY <1>1, DriverMemoryEnds DEF OtpInv
<1>3. burning.record \in Record \cup {NoRecord}
  BY RecordsHaveIndex DEF OtpInv, WritesAreTried, Tries
<1>4. records \subseteq PartsOf(burning.record)
  BY <1>3, WholeIsPart
<1>5. /\ burning' = NoWrite
      /\ otp' \in [Slot -> [data : Data \cup {Erased}, index : Index \cup {Erased}]]
      /\ FilledInOrder' /\ LastIsKnown'
      /\ \A t \in Slot : Filled(t) => Filled(t)'
      /\ \/ otp' = otp
         \/ /\ burning # NoWrite /\ IsErased(s) /\ otp'[s] \in records
            /\ \A t \in Slot : t # s => otp'[t] = otp[t]
  BY <1>1, <1>4, SlotChanges
<1>6. OtpTypeOK'
  <2>1. NoWrite \in [slot : Slot, record : [data : Data \cup {Erased}, index : Index \cup {Erased}]]
    BY OtpAssumption DEF NoWrite, NoRecord, Slot
  <2> QED
    BY <1>1, <1>5, <2>1 DEF OtpInv, OtpTypeOK
<1>7. WritesAreTried'
  <2>1. writing.slot \in Slot
    BY DEF OtpInv, OtpTypeOK
  <2> QED
    BY <1>1, <1>5, <2>1 DEF OtpInv, WritesAreTried, Tries
<1>8. WriteProceeds'
  <2>1. SUFFICES ASSUME writing # NoWrite PROVE WriteProceeds'
    BY <1>1, <1>5 DEF WriteProceeds
  <2>2. /\ memory # Resting /\ memory' = Resting
        /\ flashFlags' = flashFlags \cup {IF well THEN "EOP" ELSE "error"}
        /\ UNCHANGED <<NSCR1, flashCall, told>>
    BY <1>1 DEF MemoryEnds
  <2>3. CallAt("wait") => ("EOP" \in flashFlags' => Programmed(writing)')
    <3>1. SUFFICES ASSUME CallAt("wait"), "EOP" \in flashFlags' PROVE Programmed(writing)'
      OBVIOUS
    <3>2. flashFlags = {} /\ burning = writing
      BY <1>2, <2>1, <2>2, <3>1 DEF OtpInv, WriteProceeds, FlashInv, CallProceeds, UnderWay
    <3>3. well
      BY <2>2, <3>1, <3>2
    <3>4. s \in Slot /\ IsErased(s) /\ HalfErased(s) /\ ErasedFrom(s)
      <4>1. s \in Slot /\ IsErased(s)
        BY <1>1, <2>1, <3>2, <3>3 DEF OtpInv, OtpTypeOK
      <4>2. HalfErased(s)
        BY <4>1 DEF IsErased, HalfErased, NoRecord
      <4> QED
        BY <4>1, <4>2 DEF OtpInv, FilledInOrder
    <3>5. otp'[s] = burning.record
      <4>1. \E r \in {burning.record} : otp' = [otp EXCEPT ![s] = r]
        BY <1>1, <2>1, <3>2, <3>3, <3>4 DEF SlotBecomes
      <4>2. DOMAIN otp = Slot
        BY DEF OtpInv, OtpTypeOK
      <4> QED
        BY <3>4, <4>1, <4>2
    <3>6. \A t \in Slot : t > s => otp'[t] = NoRecord
      <4>1. \A t \in Slot : t > s => t # s
        BY <3>4 DEF Slot
      <4>2. \A t \in Slot : t # s => otp'[t] = otp[t]
        BY <1>5
      <4> QED
        BY <3>4, <4>1, <4>2 DEF ErasedFrom, IsErased
    <3>7. writing' = burning
      BY <1>1, <3>2
    <3> QED
      BY <3>5, <3>6, <3>7 DEF Programmed, ErasedFrom, IsErased
  <2>4. CallAt("idle") /\ told = "done" => Programmed(writing)'
    <3>1. SUFFICES ASSUME CallAt("idle"), told = "done" PROVE Programmed(writing)'
      OBVIOUS
    <3>2. burning = NoWrite /\ Programmed(writing)
      BY <2>1, <3>1 DEF OtpInv, WriteProceeds
    <3>3. otp' = otp
      BY <1>5, <3>2
    <3> QED
      BY <1>1, <3>2, <3>3 DEF Programmed, ErasedFrom, IsErased
  <2> QED
    BY <1>1, <1>5, <2>1, <2>2, <2>3, <2>4 DEF OtpInv, WriteProceeds, CallAt
<1> QED
  BY <1>2, <1>5, <1>6, <1>7, <1>8 DEF OtpInv


(* A reset leaves any part of the record that was being programmed.         *)
LEMMA AreaCut == ASSUME OtpInv, PowerCut PROVE OtpInv'
<1>1. /\ FlashResets /\ SlotBecomes(burning.slot, PartsOf(burning.record))
      /\ writing' = NoWrite /\ UNCHANGED <<written, tried>>
  BY DEF PowerCut
<1>2. FlashInv'
  BY <1>1, DriverResets
<1>3. PartsOf(burning.record) \subseteq PartsOf(burning.record)
  OBVIOUS
<1>4. /\ burning' = NoWrite
      /\ otp' \in [Slot -> [data : Data \cup {Erased}, index : Index \cup {Erased}]]
      /\ FilledInOrder' /\ LastIsKnown'
  BY <1>1, <1>3, SlotChanges
<1>5. OtpTypeOK'
  <2>1. NoWrite \in [slot : Slot, record : [data : Data \cup {Erased}, index : Index \cup {Erased}]]
    BY OtpAssumption DEF NoWrite, NoRecord, Slot
  <2> QED
    BY <1>1, <1>4, <2>1 DEF OtpInv, OtpTypeOK
<1>6. WritesAreTried' /\ WriteProceeds'
  BY <1>1, <1>4 DEF WritesAreTried, Tries, WriteProceeds
<1> QED
  BY <1>2, <1>4, <1>5, <1>6 DEF OtpInv

(* Other calls use the driver while no write goes on; an earlier one may    *)
(* still be ended by the memory.                                            *)
LEMMA AreaLeftAlone == ASSUME OtpInv, OtherCalls PROVE OtpInv'
<1>1. FlashInv' /\ UNCHANGED memory
  BY DriverCalled, DriverLocked DEF OtpInv, OtherCalls
<1>2. writing = NoWrite /\ UNCHANGED <<otp, writing, burning, written, tried>>
  BY DEF OtherCalls, otpVars
<1>3. WriteProceeds'
  BY <1>1, <1>2 DEF OtpInv, WriteProceeds
<1> QED
  BY <1>1, <1>2, <1>3, AreaKept

(* Nothing happens.                                                         *)
LEMMA AreaStands == ASSUME OtpInv, UNCHANGED <<flashVars, otpVars>> PROVE OtpInv'
<1>1. FlashInv'
  BY DEF flashVars, OtpInv, FlashInv, FlashTypeOK, LockHasHolder, PagesAreErased, CallProceeds,
         InterruptProceeds, LateIsAsked, CallAt
<1>2. UNCHANGED <<otp, writing, burning, written, tried>>
  BY DEF otpVars
<1>3. WriteProceeds'
  BY <1>2 DEF OtpInv, WriteProceeds, Programmed, ErasedFrom, IsErased, CallAt, flashVars
<1> QED
  BY <1>1, <1>2, <1>3, AreaKept

(* The search from the last slot down finds the greatest one.               *)
LEMMA LastIsRead ==
  ASSUME NEW i \in Index, NEW s \in HasIndex(i), \A other \in HasIndex(i) : other <= s
  PROVE  OTP_Read(i) = otp[s]
<1> DEFINE found == CHOOSE t \in HasIndex(i) : \A other \in HasIndex(i) : other <= t
<1>1. found \in HasIndex(i) /\ \A other \in HasIndex(i) : other <= found
  OBVIOUS
<1>2. OTP_Read(i) = otp[found]
  BY DEF OTP_Read
<1> HIDE DEF found
<1>3. found \in Nat /\ s \in Nat
  BY <1>1, OtpAssumption DEF HasIndex, Slot
<1>4. found <= s /\ s <= found
  BY <1>1
<1> QED
  BY <1>2, <1>3, <1>4

(* A record that was reported as written is what OTP_Read finds, whatever   *)
(* writes fail, end after their caller gave up, or are cut by a reset: for  *)
(* any area and any records.                                                *)
THEOREM OtpKept == OtpSpec => []OtpIsKept
<1>1. FlashInit /\ OtpInit => OtpInv
  BY AreaAtFirst
<1>2. OtpInv /\ [OtpNext]_<<flashVars, otpVars>> => OtpInv'
  <2> SUFFICES ASSUME OtpInv, [OtpNext]_<<flashVars, otpVars>> PROVE OtpInv'
    OBVIOUS
  <2>1. CASE OtherCalls
    BY <2>1, AreaLeftAlone
  <2>2. ASSUME NEW r \in Record, OTP_Write(r) \/ HW_OTP_Write(r) PROVE OtpInv'
    BY <2>2, AreaWritten DEF OTP_Write, HW_OTP_Write
  <2>3. CASE WriteReturns
    BY <2>3, AreaReturns
  <2>4. CASE DriverSteps
    BY <2>4, AreaDriven
  <2>5. ASSUME NEW well \in BOOLEAN, SlotProgrammed(well) PROVE OtpInv'
    BY <2>5, AreaProgrammed
  <2>6. CASE PowerCut
    BY <2>6, AreaCut
  <2>7. CASE UNCHANGED <<flashVars, otpVars>>
    BY <2>7, AreaStands
  <2> QED
    BY <2>1, <2>2, <2>3, <2>4, <2>5, <2>6, <2>7 DEF OtpNext
<1>3. OtpInv => OtpIsKept
  <2> SUFFICES ASSUME OtpInv PROVE OtpIsKept
    OBVIOUS
  <2>1. OtpTellsLastWritten
    <3>1. SUFFICES ASSUME NEW i \in Index, written[i] # NoRecord
                   PROVE  HasIndex(i) # {} /\ OTP_Read(i) \in {written[i]} \cup tried[i]
      BY DEF OtpTellsLastWritten
    <3>2. PICK s \in HasIndex(i) : /\ \A other \in HasIndex(i) : other <= s
                                   /\ otp[s] \in {written[i]} \cup tried[i]
      BY <3>1 DEF OtpInv, LastIsKnown
    <3> QED
      BY <3>2, LastIsRead
  <2> QED
    BY <2>1 DEF OtpInv, FlashInv, FlashDoesAsAsked, OtpIsKept
<1> QED
  BY <1>1, <1>2, <1>3, PTL DEF OtpSpec


-----------------------------------------------------------------------------

(* The groups, what is counted, and a section of the library.               *)
Group == {"high", "low", "sys"}
CountedKind == {"high", "low", "sys", "irq"}
Section == [of : SUBSET CountedKind, sound : BOOLEAN]

(* The steps a code is made of.                                             *)
Step ==
  {<<"save_primask">>, <<"set_primask">>, <<"restore_primask">>, <<"uncount_irq">>,
   <<"callback">>, <<"test_nested">>, <<"return">>, <<"pend_low">>,
   <<"save_basepri">>, <<"set_basepri">>, <<"restore_basepri">>}
    \cup ({"count"} \X CountedKind) \cup ({"close_if_first", "uncount", "open_if_last"} \X Group)
    \cup ({"disable", "enable"} \X {"radio", "low"})
    \cup ({"trigger"} \X {0, 1}) \cup ({"priority"} \X {RADIO_PRIO_LOW, RADIO_SW_LOW_INTR_PRIO})
    \cup ({"nested"} \X BOOLEAN) \cup ({"opened"} \X Section)

(* A step before a code.                                                    *)
Then(a, s) == <<a>> \o s

(* A step before a code is the first of it, and the code is the rest.       *)
LEMMA ThenIs ==
  ASSUME NEW a \in Step, NEW s \in Seq(Step)
  PROVE  /\ Then(a, s) \in Seq(Step) /\ Then(a, s) # <<>>
         /\ Head(Then(a, s)) = a /\ Tail(Then(a, s)) = s
<1> DEFINE t == Then(a, s)
<1> HIDE DEF Step
<1>1. <<a>> \in Seq(Step) /\ Len(<<a>>) = 1 /\ <<a>>[1] = a
  OBVIOUS
<1>2. /\ t \in Seq(Step) /\ Len(t) = 1 + Len(s)
      /\ \A i \in 1 .. 1 + Len(s) : t[i] = IF i <= 1 THEN <<a>>[i] ELSE s[i - 1]
  BY <1>1, ConcatProperties DEF Then
<1>3. Len(s) \in Nat
  BY LenProperties
<1>4. t # <<>> /\ t[1] = a
  BY <1>1, <1>2, <1>3
<1> HIDE DEF t
<1>5. Head(t) = a
  BY <1>2, <1>4
<1>6. Tail(t) \in Seq(Step) /\ Len(Tail(t)) = Len(s) /\ \A i \in 1 .. Len(s) : Tail(t)[i] = t[i + 1]
  BY <1>2, <1>3, <1>4, HeadTailProperties
<1>7. \A i \in 1 .. Len(s) : t[i + 1] = s[i]
  BY <1>2, <1>3
<1>8. Tail(t) = s
  BY <1>6, <1>7, SeqEqual
<1> QED
  BY <1>2, <1>4, <1>5, <1>8 DEF t

(* Three codes joined are the same whichever two are joined first.          *)
LEMMA ThreeJoined ==
  \A s, t, u \in Seq(Step) : (s \o t) \o u = s \o (t \o u)
<1> HIDE DEF Step
<1>1. ASSUME NEW s \in Seq(Step), NEW t \in Seq(Step), NEW u \in Seq(Step)
      PROVE  (s \o t) \o u = s \o (t \o u)
  BY ConcatAssociative
<1> QED
  BY <1>1

(* Two steps put before a code are one before the other.                    *)
LEMMA ThenTwo ==
  ASSUME NEW a \in Step, NEW b \in Step, NEW s \in Seq(Step)
  PROVE  <<a, b>> \o s = Then(a, Then(b, s))
<1> HIDE DEF Step
<1>1. <<a>> \in Seq(Step) /\ <<b>> \in Seq(Step) /\ <<a, b>> \in Seq(Step)
  OBVIOUS
<1>2. <<a, b>> = <<a>> \o <<b>>
  <2>1. /\ <<a>> \o <<b>> \in Seq(Step) /\ Len(<<a>> \o <<b>>) = 2
        /\ \A i \in 1 .. 2 : (<<a>> \o <<b>>)[i] = IF i <= 1 THEN <<a>>[i] ELSE <<b>>[i - 1]
    BY <1>1, ConcatProperties
  <2>2. \A i \in 1 .. 2 : <<a, b>>[i] = (<<a>> \o <<b>>)[i]
    BY <2>1
  <2> QED
    BY <1>1, <2>1, <2>2, SeqEqual
<1> QED
  BY <1>1, <1>2, ConcatAssociative DEF Then

(* None, one or three steps put before a code.                              *)
LEMMA ThenSome ==
  ASSUME NEW a \in Step, NEW b \in Step, NEW c \in Step, NEW s \in Seq(Step)
  PROVE  /\ <<>> \o s = s
         /\ <<a>> \o s = Then(a, s)
         /\ <<a, b, c>> \o s = Then(a, Then(b, Then(c, s)))
<1> HIDE DEF Step
<1>1. <<c>> \in Seq(Step) /\ <<a, b>> \in Seq(Step) /\ <<a, b, c>> \in Seq(Step)
  OBVIOUS
<1>2. <<a, b, c>> = <<a, b>> \o <<c>>
  <2>1. /\ <<a, b>> \o <<c>> \in Seq(Step) /\ Len(<<a, b>> \o <<c>>) = 3
        /\ \A i \in 1 .. 3 : (<<a, b>> \o <<c>>)[i] = IF i <= 2 THEN <<a, b>>[i] ELSE <<c>>[i - 2]
    BY <1>1, ConcatProperties
  <2>2. \A i \in 1 .. 3 : <<a, b, c>>[i] = (<<a, b>> \o <<c>>)[i]
    BY <2>1
  <2> QED
    BY <1>1, <2>1, <2>2, SeqEqual
<1>3. <<a, b, c>> \o s = <<a, b>> \o Then(c, s)
  BY <1>1, <1>2, ConcatAssociative DEF Then
<1>4. Then(c, s) \in Seq(Step)
  BY ThenIs
<1>5. <<a, b>> \o Then(c, s) = Then(a, Then(b, Then(c, s)))
  BY <1>4, ThenTwo
<1> QED
  BY <1>3, <1>5, ConcatEmptySeq DEF Then

-----------------------------------------------------------------------------
(* What a context is about: the call of the library it is in.  `left' is    *)
(* the groups the call has not come to, `g' the one it is at, and `below'   *)
(* what the contexts under this one have counted.                           *)

OpeningOps == {"opening", "close", "disable", "save", "set"}
MidOps == {"close", "disable", "save", "set"}
ClosingOps == {"rest", "open", "enable", "restore"}
IrqOps == {"irq_save", "irq_set", "irq_count", "irq_uncount", "irq_restore"}
HandlerOps == {"start", "test_nested", "low_prio", "low_clear", "last"}
OtherOps == {"trigger", "priority", "nest", "pend", "radio_off", "radio_on", "return"}

(* The call, the section it opens or has opened, and its argument.          *)
LibraryCall ==
  [op : OpeningOps \cup ClosingOps \cup IrqOps \cup HandlerOps \cup OtherOps,
   of : SUBSET CountedKind, sound : BOOLEAN, left : SUBSET Group, g : Group,
   arg : {0, 1, RADIO_PRIO_LOW, RADIO_SW_LOW_INTR_PRIO}, below : [CountedKind -> Nat]]

(* The rest of a handler, and of the callback the library is in.            *)
Ended == Then(<<"return">>, <<>>)
LastOf == Then(<<"enable", "low">>, Ended)
Base(who) ==
  Then(<<"callback">>, CASE who = "low" -> Then(<<"test_nested">>, LastOf) [] who = "radio" -> Ended [] OTHER -> <<>>)

(* The rest of a call that opens, closes, or triggers.                      *)
Opening(c, who) ==
  LINKLAYER_PLAT_DisableSpecificIRQ(c.left) \o Then(<<"opened", [of |-> c.of, sound |-> c.sound]>>, Base(who))
Rest(c, who) == LINKLAYER_PLAT_EnableSpecificIRQ(c.left) \o Base(who)
Pend(who) == Then(<<"pend_low">>, Base(who))
ClearNested == Then(<<"nested", FALSE>>, LastOf)

(* The code that is left of a call.                                         *)
CodeOf(c, who) ==
  CASE c.op = "opening" -> Opening(c, who)
    [] c.op = "close" -> Then(<<"close_if_first", c.g>>, Opening(c, who))
    [] c.op = "disable" -> Then(<<"disable", LineOf[c.g]>>, Opening(c, who))
    [] c.op = "save" -> Then(<<"save_basepri">>, Then(<<"set_basepri">>, Opening(c, who)))
    [] c.op = "set" -> Then(<<"set_basepri">>, Opening(c, who))
    [] c.op = "rest" -> Rest(c, who)
    [] c.op = "open" -> Then(<<"open_if_last", c.g>>, Rest(c, who))
    [] c.op = "enable" -> Then(<<"enable", LineOf[c.g]>>, Rest(c, who))
    [] c.op = "restore" -> Then(<<"restore_basepri">>, Rest(c, who))
    [] c.op = "irq_save" -> Then(<<"save_primask">>, Then(<<"set_primask">>, Then(<<"count", "irq">>, Opening(c, who))))
    [] c.op = "irq_set" -> Then(<<"set_primask">>, Then(<<"count", "irq">>, Opening(c, who)))
    [] c.op = "irq_count" -> Then(<<"count", "irq">>, Opening(c, who))
    [] c.op = "irq_uncount" -> Then(<<"uncount_irq">>, Then(<<"restore_primask">>, Base(who)))
    [] c.op = "irq_restore" -> Then(<<"restore_primask">>, Base(who))
    [] c.op = "trigger" -> Then(<<"trigger", c.arg>>, Pend(who))
    [] c.op = "priority" -> Then(<<"priority", c.arg>>, Pend(who))
    [] c.op = "nest" -> Then(<<"nested", TRUE>>, Pend(who))
    [] c.op = "pend" -> Pend(who)
    [] c.op = "radio_off" -> Then(<<"disable", "radio">>, Then(<<"enable", "radio">>, Base(who)))
    [] c.op = "radio_on" -> Then(<<"enable", "radio">>, Base(who))
    [] c.op = "start" -> Then(<<"disable", "low">>, Base(who))
    [] c.op = "test_nested" -> Then(<<"test_nested">>, LastOf)
    [] c.op = "low_prio" -> Then(<<"priority", RADIO_PRIO_LOW>>, ClearNested)
    [] c.op = "low_clear" -> ClearNested
    [] c.op = "last" -> LastOf
    [] c.op = "return" -> Ended

(* The first of the groups of a call.                                       *)
FirstGroup(groups) == IF "high" \in groups THEN "high" ELSE IF "low" \in groups THEN "low" ELSE "sys"

(* Which step comes next.                                                   *)
Label(c) ==
  CASE c.op = "opening" -> IF c.left = {} THEN "opened" ELSE "count"
    [] c.op = "close" -> "close_if_first"
    [] c.op \in {"disable", "radio_off", "start"} -> "disable"
    [] c.op = "save" -> "save_basepri"
    [] c.op = "set" -> "set_basepri"
    [] c.op = "rest" -> IF c.left = {} THEN "callback" ELSE "uncount"
    [] c.op = "open" -> "open_if_last"
    [] c.op \in {"enable", "radio_on", "last"} -> "enable"
    [] c.op = "restore" -> "restore_basepri"
    [] c.op = "irq_save" -> "save_primask"
    [] c.op = "irq_set" -> "set_primask"
    [] c.op = "irq_count" -> "count"
    [] c.op = "irq_uncount" -> "uncount_irq"
    [] c.op = "irq_restore" -> "restore_primask"
    [] c.op = "trigger" -> "trigger"
    [] c.op \in {"priority", "low_prio"} -> "priority"
    [] c.op \in {"nest", "low_clear"} -> "nested"
    [] c.op = "pend" -> "pend_low"
    [] c.op = "test_nested" -> "test_nested"
    [] c.op = "return" -> "return"

(* The steps used are steps.                                                *)
LEMMA StepsUsed ==
  /\ \A x \in {"save_primask", "set_primask", "restore_primask", "uncount_irq", "callback", "test_nested", "return",
                "pend_low", "save_basepri", "set_basepri", "restore_basepri"} : <<x>> \in Step
  /\ \A k \in CountedKind : <<"count", k>> \in Step
  /\ \A x \in {"close_if_first", "uncount", "open_if_last"}, g \in Group : <<x, g>> \in Step
  /\ \A x \in {"disable", "enable"}, l \in {"radio", "low"} : <<x, l>> \in Step
  /\ \A p \in {0, 1} : <<"trigger", p>> \in Step
  /\ \A p \in {RADIO_PRIO_LOW, RADIO_SW_LOW_INTR_PRIO} : <<"priority", p>> \in Step
  /\ \A b \in BOOLEAN : <<"nested", b>> \in Step
  /\ \A s \in Section : <<"opened", s>> \in Step
BY DEF Step

(* The handlers' code, step by step.                                        *)
LEMMA BasesAre ==
  /\ <<>> \in Seq(Step) /\ Ended \in Seq(Step) /\ LastOf \in Seq(Step) /\ ClearNested \in Seq(Step)
  /\ \A who : Base(who) \in Seq(Step) /\ Pend(who) \in Seq(Step)
<1> HIDE DEF Step
<1>0. <<>> \in Seq(Step)
  OBVIOUS
<1>1. Ended \in Seq(Step)
  BY <1>0, StepsUsed, ThenIs DEF Ended
<1>2. LastOf \in Seq(Step)
  BY <1>1, StepsUsed, ThenIs DEF LastOf
<1>3. Then(<<"test_nested">>, LastOf) \in Seq(Step)
  BY <1>2, StepsUsed, ThenIs
<1>4. ClearNested \in Seq(Step)
  BY <1>2, StepsUsed, ThenIs DEF ClearNested
<1>5. ASSUME NEW who PROVE Base(who) \in Seq(Step)
  <2> DEFINE tail == CASE who = "low" -> Then(<<"test_nested">>, LastOf) [] who = "radio" -> Ended [] OTHER -> <<>>
  <2>1. tail \in Seq(Step)
    BY <1>0, <1>1, <1>3
  <2> HIDE DEF tail
  <2>2. Then(<<"callback">>, tail) \in Seq(Step)
    BY <2>1, StepsUsed, ThenIs
  <2> QED
    BY <2>2 DEF Base, tail
<1>6. ASSUME NEW who PROVE Pend(who) \in Seq(Step)
  BY <1>5, StepsUsed, ThenIs DEF Pend
<1> QED
  BY <1>0, <1>1, <1>2, <1>4, <1>5, <1>6

(* The opening of groups, the first of them first.                          *)
LEMMA ClosesSteps ==
  ASSUME NEW left \in SUBSET Group, NEW s \in Seq(Step)
  PROVE  /\ LINKLAYER_PLAT_DisableSpecificIRQ(left) \o s \in Seq(Step)
         /\ left = {} => LINKLAYER_PLAT_DisableSpecificIRQ(left) \o s = s
         /\ left # {} =>
              /\ FirstGroup(left) \in left
              /\ LINKLAYER_PLAT_DisableSpecificIRQ(left) \o s =
                   Then(<<"count", FirstGroup(left)>>, Then(<<"close_if_first", FirstGroup(left)>>,
                     LINKLAYER_PLAT_DisableSpecificIRQ(left \ {FirstGroup(left)}) \o s))
<1> DEFINE f == FirstGroup(left)
           Two(g) == <<<<"count", g>>, <<"close_if_first", g>>>>
           Put(g, t) == Then(<<"count", g>>, Then(<<"close_if_first", g>>, t))
<1> HIDE DEF Step, Two, Put
<1>1. ASSUME NEW g \in Group, NEW t \in Seq(Step)
      PROVE  Two(g) \in Seq(Step) /\ Two(g) \o t = Put(g, t) /\ Put(g, t) \in Seq(Step)
  <2>1. <<"count", g>> \in Step /\ <<"close_if_first", g>> \in Step
    BY StepsUsed DEF Group, CountedKind
  <2> DEFINE a == <<"count", g>>
             b == <<"close_if_first", g>>
  <2> HIDE DEF a, b
  <2>2. a \in Step /\ b \in Step
    BY <2>1 DEF a, b
  <2>3. <<a, b>> \in Seq(Step)
    BY <2>2
  <2>4. <<a, b>> \o t = Then(a, Then(b, t))
    BY <2>2, ThenTwo
  <2>5. Then(b, t) \in Seq(Step)
    BY <2>2, ThenIs
  <2>6. Then(a, Then(b, t)) \in Seq(Step)
    BY <2>2, <2>5, ThenIs
  <2> QED
    BY <2>3, <2>4, <2>6 DEF a, b, Two, Put
<1>2. <<>> \in Seq(Step) /\ \A t \in Seq(Step) : <<>> \o t = t
  BY ConcatEmptySeq
<1>3. \A g, x : Closes(g, x) = IF g \in x THEN Two(g) ELSE <<>>
  BY DEF Closes, Two
<1>4. ASSUME NEW x \in SUBSET Group
      PROVE  LINKLAYER_PLAT_DisableSpecificIRQ(x) \o s = Closes("high", x) \o (Closes("low", x) \o (Closes("sys", x) \o s))
  <2>1. \A g \in Group : Closes(g, x) \in Seq(Step)
    BY <1>1, <1>2, <1>3
  <2> DEFINE h == Closes("high", x)
             l == Closes("low", x)
             y == Closes("sys", x)
  <2>2. h \in Seq(Step) /\ l \in Seq(Step) /\ y \in Seq(Step) /\ LINKLAYER_PLAT_DisableSpecificIRQ(x) = h \o l \o y
    BY <2>1 DEF Group, LINKLAYER_PLAT_DisableSpecificIRQ
  <2> HIDE DEF h, l, y
  <2>3. h \o l \in Seq(Step) /\ y \o s \in Seq(Step)
    BY <2>2, ConcatProperties
  <2>4. (h \o l \o y) \o s = (h \o l) \o (y \o s)
    BY <2>2, <2>3, ThreeJoined
  <2>5. (h \o l) \o (y \o s) = h \o (l \o (y \o s))
    BY <2>2, <2>3, ThreeJoined
  <2> QED
    BY <2>2, <2>4, <2>5 DEF h, l, y
<1> DEFINE At(g, x, t) == IF g \in x THEN Put(g, t) ELSE t
<1>5. ASSUME NEW g \in Group, NEW x, NEW t \in Seq(Step)
      PROVE  Closes(g, x) \o t = At(g, x, t) /\ At(g, x, t) \in Seq(Step)
  BY <1>1, <1>2, <1>3
<1> HIDE DEF At
<1>6. ASSUME NEW x \in SUBSET Group
      PROVE  LINKLAYER_PLAT_DisableSpecificIRQ(x) \o s = At("high", x, At("low", x, At("sys", x, s)))
             /\ LINKLAYER_PLAT_DisableSpecificIRQ(x) \o s \in Seq(Step)
  <2>1. "high" \in Group /\ "low" \in Group /\ "sys" \in Group
    BY DEF Group
  <2>2. Closes("sys", x) \o s = At("sys", x, s) /\ At("sys", x, s) \in Seq(Step)
    BY <1>5, <2>1
  <2>3. Closes("low", x) \o At("sys", x, s) = At("low", x, At("sys", x, s)) /\ At("low", x, At("sys", x, s)) \in Seq(Step)
    BY <1>5, <2>1, <2>2
  <2> DEFINE t == At("low", x, At("sys", x, s))
  <2>4. t \in Seq(Step) /\ LINKLAYER_PLAT_DisableSpecificIRQ(x) \o s = Closes("high", x) \o t
    BY <1>4, <2>2, <2>3
  <2> HIDE DEF t
  <2>5. Closes("high", x) \o t = At("high", x, t) /\ At("high", x, t) \in Seq(Step)
    BY <1>5, <2>1, <2>4
  <2> QED
    BY <2>4, <2>5 DEF t
<1>7. left = {} => LINKLAYER_PLAT_DisableSpecificIRQ(left) \o s = s
  BY <1>6 DEF At
<1>8. ASSUME left # {}
      PROVE f \in left /\ LINKLAYER_PLAT_DisableSpecificIRQ(left) \o s = Put(f, LINKLAYER_PLAT_DisableSpecificIRQ(left \ {f}) \o s)
  <2>1. left \ {f} \in SUBSET Group /\ f \in left
    BY <1>8 DEF FirstGroup, Group
  <2>2. LINKLAYER_PLAT_DisableSpecificIRQ(left \ {f}) \o s = At("high", left \ {f}, At("low", left \ {f}, At("sys", left \ {f}, s)))
    BY <1>6, <2>1
  <2>3. At("high", left, At("low", left, At("sys", left, s)))
          = Put(f, At("high", left \ {f}, At("low", left \ {f}, At("sys", left \ {f}, s))))
    BY <1>8 DEF At, FirstGroup, Group
  <2> QED
    BY <1>6, <2>1, <2>2, <2>3
<1> QED
  BY <1>6, <1>7, <1>8 DEF Put

(* The closing of groups, the first of them first.                          *)
LEMMA OpensSteps ==
  ASSUME NEW left \in SUBSET Group, NEW s \in Seq(Step)
  PROVE  /\ LINKLAYER_PLAT_EnableSpecificIRQ(left) \o s \in Seq(Step)
         /\ left = {} => LINKLAYER_PLAT_EnableSpecificIRQ(left) \o s = s
         /\ left # {} =>
              /\ FirstGroup(left) \in left
              /\ LINKLAYER_PLAT_EnableSpecificIRQ(left) \o s =
                   Then(<<"uncount", FirstGroup(left)>>, Then(<<"open_if_last", FirstGroup(left)>>,
                     LINKLAYER_PLAT_EnableSpecificIRQ(left \ {FirstGroup(left)}) \o s))
<1> DEFINE f == FirstGroup(left)
           Two(g) == <<<<"uncount", g>>, <<"open_if_last", g>>>>
           Put(g, t) == Then(<<"uncount", g>>, Then(<<"open_if_last", g>>, t))
<1> HIDE DEF Step, Two, Put
<1>1. ASSUME NEW g \in Group, NEW t \in Seq(Step)
      PROVE  Two(g) \in Seq(Step) /\ Two(g) \o t = Put(g, t) /\ Put(g, t) \in Seq(Step)
  <2>1. <<"uncount", g>> \in Step /\ <<"open_if_last", g>> \in Step
    BY StepsUsed DEF Group, CountedKind
  <2> DEFINE a == <<"uncount", g>>
             b == <<"open_if_last", g>>
  <2> HIDE DEF a, b
  <2>2. a \in Step /\ b \in Step
    BY <2>1 DEF a, b
  <2>3. <<a, b>> \in Seq(Step)
    BY <2>2
  <2>4. <<a, b>> \o t = Then(a, Then(b, t))
    BY <2>2, ThenTwo
  <2>5. Then(b, t) \in Seq(Step)
    BY <2>2, ThenIs
  <2>6. Then(a, Then(b, t)) \in Seq(Step)
    BY <2>2, <2>5, ThenIs
  <2> QED
    BY <2>3, <2>4, <2>6 DEF a, b, Two, Put
<1>2. <<>> \in Seq(Step) /\ \A t \in Seq(Step) : <<>> \o t = t
  BY ConcatEmptySeq
<1>3. \A g, x : Opens(g, x) = IF g \in x THEN Two(g) ELSE <<>>
  BY DEF Opens, Two
<1>4. ASSUME NEW x \in SUBSET Group
      PROVE  LINKLAYER_PLAT_EnableSpecificIRQ(x) \o s = Opens("high", x) \o (Opens("low", x) \o (Opens("sys", x) \o s))
  <2>1. \A g \in Group : Opens(g, x) \in Seq(Step)
    BY <1>1, <1>2, <1>3
  <2> DEFINE h == Opens("high", x)
             l == Opens("low", x)
             y == Opens("sys", x)
  <2>2. h \in Seq(Step) /\ l \in Seq(Step) /\ y \in Seq(Step) /\ LINKLAYER_PLAT_EnableSpecificIRQ(x) = h \o l \o y
    BY <2>1 DEF Group, LINKLAYER_PLAT_EnableSpecificIRQ
  <2> HIDE DEF h, l, y
  <2>3. h \o l \in Seq(Step) /\ y \o s \in Seq(Step)
    BY <2>2, ConcatProperties
  <2>4. (h \o l \o y) \o s = (h \o l) \o (y \o s)
    BY <2>2, <2>3, ThreeJoined
  <2>5. (h \o l) \o (y \o s) = h \o (l \o (y \o s))
    BY <2>2, <2>3, ThreeJoined
  <2> QED
    BY <2>2, <2>4, <2>5 DEF h, l, y
<1> DEFINE At(g, x, t) == IF g \in x THEN Put(g, t) ELSE t
<1>5. ASSUME NEW g \in Group, NEW x, NEW t \in Seq(Step)
      PROVE  Opens(g, x) \o t = At(g, x, t) /\ At(g, x, t) \in Seq(Step)
  BY <1>1, <1>2, <1>3
<1> HIDE DEF At
<1>6. ASSUME NEW x \in SUBSET Group
      PROVE  LINKLAYER_PLAT_EnableSpecificIRQ(x) \o s = At("high", x, At("low", x, At("sys", x, s)))
             /\ LINKLAYER_PLAT_EnableSpecificIRQ(x) \o s \in Seq(Step)
  <2>1. "high" \in Group /\ "low" \in Group /\ "sys" \in Group
    BY DEF Group
  <2>2. Opens("sys", x) \o s = At("sys", x, s) /\ At("sys", x, s) \in Seq(Step)
    BY <1>5, <2>1
  <2>3. Opens("low", x) \o At("sys", x, s) = At("low", x, At("sys", x, s)) /\ At("low", x, At("sys", x, s)) \in Seq(Step)
    BY <1>5, <2>1, <2>2
  <2> DEFINE t == At("low", x, At("sys", x, s))
  <2>4. t \in Seq(Step) /\ LINKLAYER_PLAT_EnableSpecificIRQ(x) \o s = Opens("high", x) \o t
    BY <1>4, <2>2, <2>3
  <2> HIDE DEF t
  <2>5. Opens("high", x) \o t = At("high", x, t) /\ At("high", x, t) \in Seq(Step)
    BY <1>5, <2>1, <2>4
  <2> QED
    BY <2>4, <2>5 DEF t
<1>7. left = {} => LINKLAYER_PLAT_EnableSpecificIRQ(left) \o s = s
  BY <1>6 DEF At
<1>8. ASSUME left # {}
      PROVE f \in left /\ LINKLAYER_PLAT_EnableSpecificIRQ(left) \o s = Put(f, LINKLAYER_PLAT_EnableSpecificIRQ(left \ {f}) \o s)
  <2>1. left \ {f} \in SUBSET Group /\ f \in left
    BY <1>8 DEF FirstGroup, Group
  <2>2. LINKLAYER_PLAT_EnableSpecificIRQ(left \ {f}) \o s = At("high", left \ {f}, At("low", left \ {f}, At("sys", left \ {f}, s)))
    BY <1>6, <2>1
  <2>3. At("high", left, At("low", left, At("sys", left, s)))
          = Put(f, At("high", left \ {f}, At("low", left \ {f}, At("sys", left \ {f}, s))))
    BY <1>8 DEF At, FirstGroup, Group
  <2> QED
    BY <1>6, <2>1, <2>2, <2>3
<1> QED
  BY <1>6, <1>7, <1>8 DEF Put

(* What a call needs to be code.                                            *)
IsCode(c) ==
  /\ c \in LibraryCall
  /\ c.op \in {"disable", "enable"} => c.g # "sys"
  /\ c.op = "trigger" => c.arg \in {0, 1}
  /\ c.op = "priority" => c.arg \notin {0, 1}

(* The codes of a section that is being opened, and of what is left of one. *)
LEMMA PartsAre ==
  ASSUME NEW c, IsCode(c), NEW who
  PROVE  /\ Opening(c, who) \in Seq(Step)
         /\ c.left = {} =>
              Opening(c, who) = Then(<<"opened", [of |-> c.of, sound |-> c.sound]>>, Base(who))
         /\ c.left # {} =>
              /\ FirstGroup(c.left) \in c.left
              /\ Opening(c, who) =
                   Then(<<"count", FirstGroup(c.left)>>, Then(<<"close_if_first", FirstGroup(c.left)>>,
                     Opening([c EXCEPT !.left = @ \ {FirstGroup(c.left)}], who)))
         /\ Rest(c, who) \in Seq(Step)
         /\ c.left = {} => Rest(c, who) = Base(who)
         /\ c.left # {} =>
              /\ FirstGroup(c.left) \in c.left
              /\ Rest(c, who) =
                   Then(<<"uncount", FirstGroup(c.left)>>, Then(<<"open_if_last", FirstGroup(c.left)>>,
                     Rest([c EXCEPT !.left = @ \ {FirstGroup(c.left)}], who)))
<1> HIDE DEF Step
<1> DEFINE o == [of |-> c.of, sound |-> c.sound]
           b == [c EXCEPT !.left = @ \ {FirstGroup(c.left)}]
<1>1. c.left \in SUBSET Group /\ o \in Section
  BY DEF IsCode, LibraryCall, Section
<1>2. b.left = c.left \ {FirstGroup(c.left)} /\ b.of = c.of /\ b.sound = c.sound
  BY DEF IsCode, LibraryCall
<1>3. Base(who) \in Seq(Step)
  BY BasesAre
<1>4. Then(<<"opened", o>>, Base(who)) \in Seq(Step)
  BY <1>1, <1>3, StepsUsed, ThenIs
<1> HIDE DEF b
<1>5. Opening(b, who) = LINKLAYER_PLAT_DisableSpecificIRQ(c.left \ {FirstGroup(c.left)}) \o Then(<<"opened", o>>, Base(who))
  BY <1>2 DEF Opening
<1>6. Rest(b, who) = LINKLAYER_PLAT_EnableSpecificIRQ(c.left \ {FirstGroup(c.left)}) \o Base(who)
  BY <1>2 DEF Rest
<1>7. Opening(c, who) = LINKLAYER_PLAT_DisableSpecificIRQ(c.left) \o Then(<<"opened", o>>, Base(who))
  BY DEF Opening
<1>8. Rest(c, who) = LINKLAYER_PLAT_EnableSpecificIRQ(c.left) \o Base(who)
  BY DEF Rest
<1> HIDE DEF o
<1>9. /\ Opening(c, who) \in Seq(Step)
      /\ c.left = {} => Opening(c, who) = Then(<<"opened", o>>, Base(who))
      /\ c.left # {} =>
              /\ FirstGroup(c.left) \in c.left
              /\ Opening(c, who) =
                   Then(<<"count", FirstGroup(c.left)>>, Then(<<"close_if_first", FirstGroup(c.left)>>, Opening(b, who)))
  BY <1>1, <1>4, <1>5, <1>7, ClosesSteps
<1>10. /\ Rest(c, who) \in Seq(Step)
       /\ c.left = {} => Rest(c, who) = Base(who)
       /\ c.left # {} =>
              /\ FirstGroup(c.left) \in c.left
              /\ Rest(c, who) =
                   Then(<<"uncount", FirstGroup(c.left)>>, Then(<<"open_if_last", FirstGroup(c.left)>>, Rest(b, who)))
  BY <1>1, <1>3, <1>6, <1>8, OpensSteps
<1> QED
  BY <1>9, <1>10 DEF o, b

(* Whatever a context is about, there is a next step, of the kind the label *)
(* says.                                                                    *)
LEMMA CodeIs ==
  ASSUME NEW c, IsCode(c), NEW who
  PROVE  /\ CodeOf(c, who) \in Seq(Step) /\ CodeOf(c, who) # <<>>
         /\ Head(CodeOf(c, who))[1] = Label(c)
<1> HIDE DEF Step
<1> DEFINE code == CodeOf(c, who)
           Good(s, label) == s \in Seq(Step) /\ s # <<>> /\ Head(s)[1] = label
<1>0. c.g \in Group /\ c.left \in SUBSET Group /\ [of |-> c.of, sound |-> c.sound] \in Section
  BY DEF IsCode, LibraryCall, Section
<1>1. ASSUME NEW a \in Step, NEW s \in Seq(Step), NEW label, a[1] = label
      PROVE  Good(Then(a, s), label)
  BY <1>1, ThenIs
<1>2. Base(who) \in Seq(Step) /\ Opening(c, who) \in Seq(Step) /\ Rest(c, who) \in Seq(Step)
  BY PartsAre, BasesAre
<1>3. Good(Base(who), "callback")
  <2> DEFINE tail == CASE who = "low" -> Then(<<"test_nested">>, LastOf) [] who = "radio" -> Ended [] OTHER -> <<>>
  <2>1. Then(<<"test_nested">>, LastOf) \in Seq(Step)
    BY BasesAre, StepsUsed, ThenIs
  <2>2. tail \in Seq(Step)
    BY <2>1, BasesAre
  <2> HIDE DEF tail
  <2>3. Good(Then(<<"callback">>, tail), "callback")
    BY <1>1, <2>2, StepsUsed
  <2> QED
    BY <2>3 DEF Base, tail
<1>4. Good(Opening(c, who), IF c.left = {} THEN "opened" ELSE "count")
  <2>1. CASE c.left = {}
    <3> DEFINE a == <<"opened", [of |-> c.of, sound |-> c.sound]>>
    <3>1. a \in Step /\ a[1] = "opened"
      BY <1>0, StepsUsed
    <3>2. Opening(c, who) = Then(a, Base(who))
      BY <2>1, PartsAre
    <3> HIDE DEF a
    <3>3. Good(Opening(c, who), "opened")
      BY <1>1, <1>2, <3>1, <3>2
    <3> QED
      BY <2>1, <3>3
  <2>2. CASE c.left # {}
    <3> DEFINE f == FirstGroup(c.left)
               b == [c EXCEPT !.left = @ \ {FirstGroup(c.left)}]
               a == <<"count", f>>
               d == <<"close_if_first", f>>
    <3>1. f \in Group /\ Opening(c, who) = Then(a, Then(d, Opening(b, who)))
      BY <1>0, <2>2, PartsAre
    <3>2. a \in Step /\ d \in Step /\ a[1] = "count"
      BY <3>1, StepsUsed DEF Group, CountedKind
    <3>3. IsCode(b)
      BY DEF IsCode, LibraryCall
    <3> HIDE DEF a, d, f, b
    <3>4. Opening(b, who) \in Seq(Step)
      BY <3>3, PartsAre
    <3>5. Then(d, Opening(b, who)) \in Seq(Step)
      BY <3>2, <3>4, ThenIs
    <3>6. Good(Opening(c, who), "count")
      BY <3>1, <3>2, <3>5, <1>1
    <3> QED
      BY <2>2, <3>6
  <2> QED
    BY <2>1, <2>2
<1>5. Good(Rest(c, who), IF c.left = {} THEN "callback" ELSE "uncount")
  <2>1. CASE c.left = {}
    BY <1>3, <2>1, PartsAre
  <2>2. CASE c.left # {}
    <3> DEFINE f == FirstGroup(c.left)
               b == [c EXCEPT !.left = @ \ {FirstGroup(c.left)}]
               a == <<"uncount", f>>
               d == <<"open_if_last", f>>
    <3>1. f \in Group /\ Rest(c, who) = Then(a, Then(d, Rest(b, who)))
      BY <1>0, <2>2, PartsAre
    <3>2. a \in Step /\ d \in Step /\ a[1] = "uncount"
      BY <3>1, StepsUsed DEF Group, CountedKind
    <3>3. IsCode(b)
      BY DEF IsCode, LibraryCall
    <3> HIDE DEF a, d, f, b
    <3>4. Rest(b, who) \in Seq(Step)
      BY <3>3, PartsAre
    <3>5. Then(d, Rest(b, who)) \in Seq(Step)
      BY <3>2, <3>4, ThenIs
    <3>6. Good(Rest(c, who), "uncount")
      BY <3>1, <3>2, <3>5, <1>1
    <3> QED
      BY <2>2, <3>6
  <2> QED
    BY <2>1, <2>2
<1>6. Good(Pend(who), "pend_low") /\ Good(LastOf, "enable") /\ Good(Ended, "return") /\ Good(ClearNested, "nested")
  <2>1. <<"pend_low">> \in Step /\ <<"return">> \in Step /\ <<"enable", "low">> \in Step /\ <<"nested", FALSE>> \in Step
    BY StepsUsed
  <2>2. Good(Pend(who), "pend_low")
    BY <1>1, <1>2, <2>1 DEF Pend
  <2>3. Good(Ended, "return")
    BY <1>1, <2>1, BasesAre DEF Ended
  <2>4. Good(LastOf, "enable")
    BY <1>1, <2>1, BasesAre DEF LastOf
  <2>5. Good(ClearNested, "nested")
    BY <1>1, <2>1, BasesAre DEF ClearNested
  <2> QED
    BY <2>2, <2>3, <2>4, <2>5
<1>7. LineOf["high"] = "radio" /\ LineOf["low"] = "low"
  BY DEF LineOf
<1>8. CASE c.op \in {"opening", "rest", "pend", "last", "return", "low_clear"}
  BY <1>4, <1>5, <1>6, <1>8 DEF CodeOf, Label
<1>9. CASE c.op \in {"close", "open"}
  <2>1. <<"close_if_first", c.g>> \in Step /\ <<"open_if_last", c.g>> \in Step
    BY <1>0, StepsUsed
  <2> QED
    BY <1>1, <1>2, <1>9, <2>1 DEF CodeOf, Label
<1>10. CASE c.op \in {"disable", "enable"}
  <2>1. LineOf[c.g] \in {"radio", "low"}
    BY <1>0, <1>7, <1>10 DEF IsCode, Group
  <2>2. <<"disable", LineOf[c.g]>> \in Step /\ <<"enable", LineOf[c.g]>> \in Step
    BY <2>1, StepsUsed
  <2> QED
    BY <1>1, <1>2, <1>10, <2>2 DEF CodeOf, Label
<1>11. CASE c.op \in {"save", "set", "restore"}
  <2>1. <<"save_basepri">> \in Step /\ <<"set_basepri">> \in Step /\ <<"restore_basepri">> \in Step
    BY StepsUsed
  <2>2. Then(<<"set_basepri">>, Opening(c, who)) \in Seq(Step)
    BY <1>2, <2>1, ThenIs
  <2> QED
    BY <1>1, <1>2, <1>11, <2>1, <2>2 DEF CodeOf, Label
<1>12. CASE c.op \in {"irq_save", "irq_set", "irq_count"}
  <2>1. <<"save_primask">> \in Step /\ <<"set_primask">> \in Step /\ <<"count", "irq">> \in Step
    BY StepsUsed DEF CountedKind
  <2>2. Then(<<"count", "irq">>, Opening(c, who)) \in Seq(Step)
    BY <1>2, <2>1, ThenIs
  <2>3. Then(<<"set_primask">>, Then(<<"count", "irq">>, Opening(c, who))) \in Seq(Step)
    BY <2>1, <2>2, ThenIs
  <2>4. CASE c.op = "irq_save"
    <3>1. Good(Then(<<"save_primask">>, Then(<<"set_primask">>, Then(<<"count", "irq">>, Opening(c, who)))), "save_primask")
      BY <1>1, <2>1, <2>3
    <3> QED
      BY <2>4, <3>1 DEF CodeOf, Label
  <2>5. CASE c.op = "irq_set"
    <3>1. Good(Then(<<"set_primask">>, Then(<<"count", "irq">>, Opening(c, who))), "set_primask")
      BY <1>1, <2>1, <2>2
    <3> QED
      BY <2>5, <3>1 DEF CodeOf, Label
  <2>6. CASE c.op = "irq_count"
    <3>1. Good(Then(<<"count", "irq">>, Opening(c, who)), "count")
      BY <1>1, <1>2, <2>1
    <3> QED
      BY <2>6, <3>1 DEF CodeOf, Label
  <2> QED
    BY <1>12, <2>4, <2>5, <2>6
<1>13. CASE c.op \in {"irq_uncount", "irq_restore"}
  <2>1. <<"uncount_irq">> \in Step /\ <<"restore_primask">> \in Step
    BY StepsUsed
  <2>2. Then(<<"restore_primask">>, Base(who)) \in Seq(Step)
    BY <1>2, <2>1, ThenIs
  <2> QED
    BY <1>1, <1>2, <1>13, <2>1, <2>2 DEF CodeOf, Label
<1>14. CASE c.op \in {"trigger", "priority", "nest"}
  <2>1. /\ c.op = "trigger" => <<"trigger", c.arg>> \in Step
        /\ c.op = "priority" => <<"priority", c.arg>> \in Step
        /\ <<"nested", TRUE>> \in Step
    BY StepsUsed DEF IsCode, LibraryCall
  <2>2. CASE c.op = "trigger"
    <3>1. Good(Then(<<"trigger", c.arg>>, Pend(who)), "trigger")
      BY <1>1, <1>6, <2>1, <2>2
    <3> QED
      BY <2>2, <3>1 DEF CodeOf, Label
  <2>3. CASE c.op = "priority"
    <3>1. Good(Then(<<"priority", c.arg>>, Pend(who)), "priority")
      BY <1>1, <1>6, <2>1, <2>3
    <3> QED
      BY <2>3, <3>1 DEF CodeOf, Label
  <2>4. CASE c.op = "nest"
    <3>1. Good(Then(<<"nested", TRUE>>, Pend(who)), "nested")
      BY <1>1, <1>6, <2>1
    <3> QED
      BY <2>4, <3>1 DEF CodeOf, Label
  <2> QED
    BY <1>14, <2>2, <2>3, <2>4
<1>15. CASE c.op \in {"radio_off", "radio_on", "start"}
  <2>1. <<"disable", "radio">> \in Step /\ <<"enable", "radio">> \in Step /\ <<"disable", "low">> \in Step
    BY StepsUsed
  <2>2. Good(Then(<<"enable", "radio">>, Base(who)), "enable") /\ Good(Then(<<"disable", "low">>, Base(who)), "disable")
    BY <1>1, <1>2, <2>1
  <2>3. Good(Then(<<"disable", "radio">>, Then(<<"enable", "radio">>, Base(who))), "disable")
    BY <1>1, <2>1, <2>2
  <2>4. CASE c.op = "radio_off"
    BY <2>3, <2>4 DEF CodeOf, Label
  <2>5. CASE c.op = "radio_on"
    BY <2>2, <2>5 DEF CodeOf, Label
  <2>6. CASE c.op = "start"
    BY <2>2, <2>6 DEF CodeOf, Label
  <2> QED
    BY <1>15, <2>4, <2>5, <2>6
<1>16. CASE c.op \in {"test_nested", "low_prio"}
  <2>1. <<"test_nested">> \in Step /\ <<"priority", RADIO_PRIO_LOW>> \in Step
    BY StepsUsed
  <2>2. Good(Then(<<"test_nested">>, LastOf), "test_nested") /\ Good(Then(<<"priority", RADIO_PRIO_LOW>>, ClearNested), "priority")
    BY <1>1, <2>1, BasesAre
  <2>3. CASE c.op = "test_nested"
    BY <2>2, <2>3 DEF CodeOf, Label
  <2>4. CASE c.op = "low_prio"
    BY <2>2, <2>4 DEF CodeOf, Label
  <2> QED
    BY <1>16, <2>3, <2>4
<1> QED
  <2>1. c.op \in OpeningOps \cup ClosingOps \cup IrqOps \cup HandlerOps \cup OtherOps
    BY DEF IsCode, LibraryCall
  <2> QED
    BY <2>1, <1>8, <1>9, <1>10, <1>11, <1>12, <1>13, <1>14, <1>15, <1>16
       DEF OpeningOps, ClosingOps, IrqOps, HandlerOps, OtherOps

-----------------------------------------------------------------------------
(* The invariant.  It speaks of the contexts that are active, `run', and of *)
(* what each is about, `calls'.                                             *)

(* How many open sections of a context keep a group out.                    *)
Sections(r, g) == Cardinality({k \in DOMAIN r.sections : g \in r.sections[k].of})

(* The call under way has counted a group already, or not yet uncounted it. *)
Counts(c, g) ==
  \/ c.op \in OpeningOps /\ g \in c.of \ c.left
  \/ c.op \in ClosingOps /\ g \in c.left
  \/ c.op = "irq_uncount" /\ g = "irq"

Held(r, c, g) == Sections(r, g) + (IF Counts(c, g) THEN 1 ELSE 0)

(* A context has counted a group first and is yet to close it.              *)
Mid(r, c, g) == c.op \in MidOps /\ c.g = g /\ Sections(r, g) = 0

(* A context is the lowest that holds a group, and has closed it.           *)
Closed(r, c, g) == c.below[g] = 0 /\ Held(r, c, g) > 0 /\ ~Mid(r, c, g)

(* A group cannot interrupt.                                                *)
Shut(g, enabled, basepri) ==
  CASE g = "high" -> "radio" \notin enabled
    [] g = "low" -> "low" \notin enabled
    [] g = "sys" -> basepri = RADIO_PRIO_LOW

(* Who is going to enable the interrupts that are disabled, and to restore  *)
(* BASEPRI.                                                                 *)
Enables(r, c, line) ==
  \/ line = "radio" /\ (\/ Held(r, c, "high") > 0
                        \/ c.op \in {"open", "enable"} /\ c.g = "high"
                        \/ c.op = "radio_on")
  \/ line = "low" /\ (\/ Held(r, c, "low") > 0
                      \/ c.op \in {"open", "enable"} /\ c.g = "low"
                      \/ r.who = "low" /\ c.op \notin {"start", "return"})

Restores(r, c) ==
  /\ c.below["sys"] = 0
  /\ \/ Held(r, c, "sys") > 0 /\ ~Mid(r, c, "sys")
     \/ Held(r, c, "sys") = 0 /\ ((c.op = "open" /\ c.g = "sys") \/ c.op = "restore")

(* The sections of a context that opened while one below was closing.       *)
Excused(r, c) ==
  /\ \A k \in DOMAIN r.sections : r.sections[k].sound => "irq" \in r.sections[k].of
  /\ c.op \in OpeningOps /\ c.sound => "irq" \in c.of

(* A context masks all, or has just masked or is just unmasking.            *)
MasksAll(r, c) == Held(r, c, "irq") > 0 \/ c.op \in {"irq_count", "irq_restore"}

Context == [who : RadioContext, code : Seq(Step), sections : Seq(Section)]

(* What is true of each context by itself.                                  *)
Fits(r, c) ==
  /\ IsCode(c) /\ r.code = CodeOf(c, r.who)
  /\ c.of = {"irq"} \/ c.of \subseteq Group
  /\ \A k \in DOMAIN r.sections : r.sections[k].of = {"irq"} \/ r.sections[k].of \subseteq Group
  /\ IF c.op \in OpeningOps THEN c.left \subseteq c.of ELSE c.op \notin ClosingOps => c.left = {}
  /\ c.op \in MidOps => c.g \in c.of \ c.left
  /\ c.op \in {"save", "set", "restore"} => c.g = "sys"
  /\ c.op \in {"open", "enable", "restore"} => c.g \notin c.left
  /\ c.op \in {"irq_save", "irq_set", "irq_count"} => c.of = {"irq"} /\ c.sound
  /\ r.who = "system" => c.op = "return"
  /\ c.op \in HandlerOps => r.who = "low"
  /\ c.op \in {"radio_off", "radio_on"} => r.who = "task"
  /\ c.op = "return" => r.who # "task"
  /\ c.op \in HandlerOps \cup {"return", "radio_off", "radio_on"} => r.sections = <<>>
  /\ r.who = "radio" =>
       /\ "sys" \notin c.of \cup c.left \cup {c.g}
       /\ \A k \in DOMAIN r.sections : "sys" \notin r.sections[k].of
  /\ c.op \in {"disable", "save", "set"} => c.below[c.g] = 0 /\ Sections(r, c.g) = 0
  /\ c.op \in {"enable", "restore"} => c.below[c.g] = 0 /\ Held(r, c, c.g) = 0

(* The counters are what the contexts hold; the lowest that holds a group   *)
(* has counted from zero.                                                   *)
Tallies(run, calls, count) ==
  /\ \A g \in CountedKind : count[g] = calls[Len(run)].below[g] + Held(run[Len(run)], calls[Len(run)], g)
  /\ \A i \in 1 .. Len(run) - 1, g \in CountedKind :
       calls[i + 1].below[g] = calls[i].below[g] + Held(run[i], calls[i], g)
  /\ \A i \in 1 .. Len(run) : \A j \in 1 .. i - 1, g \in CountedKind :
       calls[j].below[g] + Held(run[j], calls[j], g) <= calls[i].below[g]
  /\ \A i \in 1 .. Len(run), g \in CountedKind :
       calls[i].below[g] > 0 =>
         \E j \in 1 .. i - 1 : calls[j].below[g] = 0 /\ Held(run[j], calls[j], g) > 0

(* What a context below holds is closed, and stays so; what is closed will  *)
(* be opened.                                                               *)
Closures(run, calls, enabled, basepri) ==
  /\ \A i \in 1 .. Len(run), g \in Group : Closed(run[i], calls[i], g) => Shut(g, enabled, basepri)
  /\ \A line \in {"radio", "low"} \ enabled : \E i \in 1 .. Len(run) : Enables(run[i], calls[i], line)
  /\ basepri # 0 => \E i \in 1 .. Len(run) :
       Restores(run[i], calls[i]) /\ \A j \in i + 1 .. Len(run) : run[j].who = "radio"

(* The low interrupt, and sections that excuse themselves, run only over a  *)
(* context that has not closed its group yet.                               *)
Overlaps(run, calls) ==
  /\ \A i \in 1 .. Len(run) : run[i].who = "low" /\ calls[i].below["low"] > 0 =>
       \E j \in 1 .. i - 1 : calls[j].below["low"] = 0 /\ Mid(run[j], calls[j], "low")
  /\ \A i \in 1 .. Len(run) : \A j \in 1 .. i - 1 :
       calls[j].op \in MidOps => Excused(run[i], calls[i])

Exclusion(run) ==
  /\ \A i \in 1 .. Len(run) : \A k \in DOMAIN run[i].sections : run[i].sections[k].sound =>
       \A j \in i + 1 .. Len(run) : run[j].who \notin Excluded(run[i].sections[k].of)
  /\ \A i, j \in 1 .. Len(run) : run[i].who = run[j].who => i = j

PrimaskIs(run, calls, primask) ==
  /\ \A i \in 1 .. Len(run) - 1 : ~MasksAll(run[i], calls[i])
  /\ primask <=> MasksAll(run[Len(run)], calls[Len(run)])

RegisterTypes(nv, m, count, sv) ==
  /\ nv \in [enabled : SUBSET {"radio", "low", "system"}, pending : BOOLEAN,
              prio : [radio : {0, RADIO_PRIO_LOW}, low : {RADIO_PRIO_LOW, RADIO_SW_LOW_INTR_PRIO},
                      system : {10}, task : {16}]]
  /\ "system" \in nv.enabled
  /\ m \in [primask : BOOLEAN, basepri : {0, RADIO_PRIO_LOW}]
  /\ count \in [CountedKind -> Nat]
  /\ sv \in [primask : {FALSE}, basepri : {0}, nested : BOOLEAN]

Follows(run, calls, nv, m, count, sv) ==
  /\ run \in Seq(Context) /\ calls \in Seq(LibraryCall)
  /\ Len(run) > 0 /\ Len(calls) = Len(run) /\ run[1].who = "task"
  /\ RegisterTypes(nv, m, count, sv)
  /\ \A i \in 1 .. Len(run) : Fits(run[i], calls[i])
  /\ Tallies(run, calls, count)
  /\ Closures(run, calls, nv.enabled, m.basepri)
  /\ Overlaps(run, calls) /\ Exclusion(run)
  /\ PrimaskIs(run, calls, m.primask)

RadioIInv == \E calls : Follows(running, calls, nvic, mask, counter, saved)

-----------------------------------------------------------------------------
(* Sections are counted.                                                    *)
LEMMA SectionsAre ==
  ASSUME NEW r \in Context, NEW g
  PROVE  /\ Sections(r, g) \in Nat
         /\ Sections(r, g) = 0 <=> \A k \in DOMAIN r.sections : g \notin r.sections[k].of
<1> DEFINE s == r.sections
           S == {k \in DOMAIN s : g \in s[k].of}
<1>1. Len(s) \in Nat /\ DOMAIN s = 1 .. Len(s)
  BY LenProperties DEF Context
<1>2. IsFiniteSet(1 .. Len(s))
  BY <1>1, FS_Interval
<1>3. IsFiniteSet(S)
  BY <1>1, <1>2, FS_Subset
<1>4. Cardinality(S) \in Nat /\ (Cardinality(S) = 0 <=> S = {})
  BY <1>3, FS_CardinalityType, FS_EmptySet
<1> QED
  BY <1>4 DEF Sections

(* One more section is one more count of its groups.                        *)
LEMMA SectionAdded ==
  ASSUME NEW r \in Context, NEW s \in Section, NEW g, NEW r2,
         r2.sections = Append(r.sections, s)
  PROVE  Sections(r2, g) = Sections(r, g) + (IF g \in s.of THEN 1 ELSE 0)
<1> DEFINE t == r.sections
           n == Len(t) + 1
           S == {k \in DOMAIN t : g \in t[k].of}
           S2 == {k \in DOMAIN r2.sections : g \in r2.sections[k].of}
<1>1. t \in Seq(Section) /\ Len(t) \in Nat /\ DOMAIN t = 1 .. Len(t)
  BY LenProperties DEF Context
<1>2. /\ DOMAIN r2.sections = 1 .. n /\ r2.sections[n] = s
      /\ \A k \in 1 .. Len(t) : r2.sections[k] = t[k]
  BY <1>1
<1>3. IsFiniteSet(1 .. Len(t))
  BY <1>1, FS_Interval
<1>4. IsFiniteSet(S)
  BY <1>1, <1>3, FS_Subset
<1>5. n \notin S
  BY <1>1
<1>6. S2 = IF g \in s.of THEN S \cup {n} ELSE S
  BY <1>1, <1>2
<1>7. Cardinality(S \cup {n}) = Cardinality(S) + 1 /\ Cardinality(S) \in Nat
  BY <1>4, <1>5, FS_AddElement, FS_CardinalityType
<1> HIDE DEF S, S2, n
<1>8. Cardinality(S2) = Cardinality(S) + (IF g \in s.of THEN 1 ELSE 0)
  BY <1>6, <1>7
<1> QED
  BY <1>8 DEF Sections, S, S2

(* A section less is one count less of its groups.                          *)
LEMMA SectionClosed ==
  ASSUME NEW r \in Context, r.sections # <<>>, NEW r2 \in Context, r2.sections = Front(r.sections), NEW g
  PROVE  Sections(r, g) = Sections(r2, g) + (IF g \in Last(r.sections).of THEN 1 ELSE 0)
<1> DEFINE t == r.sections
<1>1. t \in Seq(Section) /\ Len(t) \in Nat \ {0}
  BY LenProperties DEF Context
<1> HIDE DEF t
<1>2. Last(t) \in Section
  BY <1>1 DEF Last
<1>3. t = Append(Front(t), Last(t))
  BY <1>1 DEF Last, Front
<1> QED
  BY <1>2, <1>3, SectionAdded DEF t

(* A step of the topmost context: what is left to be shown.                 *)
Moves(run, calls, nv, m, count, sv, r, c, nv2, m2, count2, sv2) ==
  LET n == Len(run)
  IN  /\ Follows(run, calls, nv, m, count, sv)
      /\ r \in Context /\ c \in LibraryCall /\ r.who = run[n].who /\ c.below = calls[n].below /\ Fits(r, c)
      /\ RegisterTypes(nv2, m2, count2, sv2)
      /\ \A g \in CountedKind : count2[g] = c.below[g] + Held(r, c, g)
      /\ \A j \in 1 .. n - 1 : calls[j].op \in MidOps => Excused(r, c)
      /\ \A g \in Group : Shut(g, nv.enabled, m.basepri) /\ ~Shut(g, nv2.enabled, m2.basepri) =>
           \A j \in 1 .. n - 1 : ~Closed(run[j], calls[j], g)
      /\ \A g \in Group : Closed(r, c, g) => Shut(g, nv2.enabled, m2.basepri)
      /\ \A line \in {"radio", "low"} \ nv2.enabled :
           Enables(r, c, line) \/ \E j \in 1 .. n - 1 : Enables(run[j], calls[j], line)
      /\ m2.basepri # 0 =>
           \/ Restores(r, c)
           \/ r.who = "radio" /\ \E j \in 1 .. n - 1 : Restores(run[j], calls[j])
                                                        /\ \A k \in j + 1 .. n - 1 : run[k].who = "radio"
      /\ m2.primask <=> MasksAll(r, c)

(* A step of the topmost context that moves as it may keeps the invariant.  *)
LEMMA TopStep ==
  ASSUME NEW run, NEW calls, NEW nv, NEW m, NEW count, NEW sv, NEW r, NEW c, NEW nv2, NEW m2, NEW count2, NEW sv2,
         Moves(run, calls, nv, m, count, sv, r, c, nv2, m2, count2, sv2)
  PROVE  Follows([run EXCEPT ![Len(run)] = r], [calls EXCEPT ![Len(run)] = c], nv2, m2, count2, sv2)
<1> DEFINE n == Len(run)
           run2 == [run EXCEPT ![n] = r]
           calls2 == [calls EXCEPT ![n] = c]
<1>0.
    /\ Follows(run, calls, nv, m, count, sv)
    /\ r \in Context /\ c \in LibraryCall /\ r.who = run[n].who /\ c.below = calls[n].below /\ Fits(r, c)
    /\ RegisterTypes(nv2, m2, count2, sv2)
    /\ \A g \in CountedKind : count2[g] = c.below[g] + Held(r, c, g)
    /\ \A j \in 1 .. n - 1 : calls[j].op \in MidOps => Excused(r, c)
    /\ \A g \in Group : Shut(g, nv.enabled, m.basepri) /\ ~Shut(g, nv2.enabled, m2.basepri) =>
         \A j \in 1 .. n - 1 : ~Closed(run[j], calls[j], g)
    /\ \A g \in Group : Closed(r, c, g) => Shut(g, nv2.enabled, m2.basepri)
    /\ \A line \in {"radio", "low"} \ nv2.enabled :
         Enables(r, c, line) \/ \E j \in 1 .. n - 1 : Enables(run[j], calls[j], line)
    /\ m2.basepri # 0 =>
         \/ Restores(r, c)
         \/ r.who = "radio" /\ \E j \in 1 .. n - 1 : Restores(run[j], calls[j])
                                                      /\ \A k \in j + 1 .. n - 1 : run[k].who = "radio"
    /\ m2.primask <=> MasksAll(r, c)
  BY DEF Moves
<1> USE <1>0
<1>1. n = Len(run) /\ n \in Nat /\ n > 0 /\ n \in 1 .. n /\ run \in Seq(Context) /\ calls \in Seq(LibraryCall) /\ Len(calls) = n
  BY LenProperties DEF Follows
<1> HIDE DEF n
<1> USE <1>1
<1>2. /\ run2 \in Seq(Context) /\ Len(run2) = n /\ run2[n] = r
      /\ \A i \in 1 .. n : i # n => run2[i] = run[i]
  BY <1>1, ExceptSeq
<1>3. /\ calls2 \in Seq(LibraryCall) /\ Len(calls2) = n /\ calls2[n] = c
      /\ \A i \in 1 .. n : i # n => calls2[i] = calls[i]
  BY <1>1, ExceptSeq
<1> HIDE DEF run2, calls2
<1>4. \A i \in 1 .. n : run2[i].who = run[i].who /\ calls2[i].below = calls[i].below
  BY <1>2, <1>3
<1>5. \A i \in 1 .. n : Fits(run2[i], calls2[i])
  BY <1>1, <1>2, <1>3 DEF Follows
<1>6. run2[1].who = "task"
  BY <1>1, <1>4 DEF Follows
<1>7. Tallies(run2, calls2, count2)
  <2>1. \A g \in CountedKind : count2[g] = calls2[n].below[g] + Held(run2[n], calls2[n], g)
    BY <1>2, <1>3
  <2>2. \A i \in 1 .. n - 1, g \in CountedKind :
          calls2[i + 1].below[g] = calls2[i].below[g] + Held(run2[i], calls2[i], g)
    <3> TAKE i \in 1 .. n - 1, g \in CountedKind
    <3>1. i \in 1 .. n /\ i # n /\ i + 1 \in 1 .. n
      BY <1>1
    <3>2. calls[i + 1].below[g] = calls[i].below[g] + Held(run[i], calls[i], g)
      BY DEF Follows, Tallies
    <3> QED
      BY <1>2, <1>3, <1>4, <3>1, <3>2
  <2>3. \A i \in 1 .. n : \A j \in 1 .. i - 1, g \in CountedKind :
          calls2[j].below[g] + Held(run2[j], calls2[j], g) <= calls2[i].below[g]
    <3> TAKE i \in 1 .. n
    <3> TAKE j \in 1 .. i - 1, g \in CountedKind
    <3>1. j \in 1 .. n /\ j # n
      BY <1>1
    <3>2. calls[j].below[g] + Held(run[j], calls[j], g) <= calls[i].below[g]
      BY DEF Follows, Tallies
    <3> QED
      BY <1>2, <1>3, <1>4, <3>1, <3>2
  <2>4. \A i \in 1 .. n, g \in CountedKind :
          calls2[i].below[g] > 0 =>
            \E j \in 1 .. i - 1 : calls2[j].below[g] = 0 /\ Held(run2[j], calls2[j], g) > 0
    <3> TAKE i \in 1 .. n, g \in CountedKind
    <3> HAVE calls2[i].below[g] > 0
    <3>1. PICK j \in 1 .. i - 1 : calls[j].below[g] = 0 /\ Held(run[j], calls[j], g) > 0
      BY <1>4 DEF Follows, Tallies
    <3>2. j \in 1 .. n /\ j # n
      BY <1>1
    <3> QED
      BY <1>2, <1>3, <3>1, <3>2
  <2> QED
    BY <1>2, <2>1, <2>2, <2>3, <2>4 DEF Tallies
<1>8. Closures(run2, calls2, nv2.enabled, m2.basepri)
  <2>1. ASSUME NEW i \in 1 .. n, NEW g \in Group, Closed(run2[i], calls2[i], g)
        PROVE  Shut(g, nv2.enabled, m2.basepri)
    <3>1. CASE i = n
      BY <1>2, <1>3, <2>1, <3>1
    <3>2. CASE i # n
      <4>1. i \in 1 .. n - 1 /\ Closed(run[i], calls[i], g)
        BY <1>1, <1>2, <1>3, <2>1, <3>2
      <4>2. Shut(g, nv.enabled, m.basepri)
        BY <4>1 DEF Follows, Closures
      <4> QED
        BY <4>1, <4>2
    <3> QED
      BY <3>1, <3>2
  <2>2. ASSUME NEW line \in {"radio", "low"} \ nv2.enabled
        PROVE  \E i \in 1 .. n : Enables(run2[i], calls2[i], line)
    <3>1. CASE Enables(r, c, line)
      BY <1>1, <1>2, <1>3, <3>1
    <3>2. CASE \E j \in 1 .. n - 1 : Enables(run[j], calls[j], line)
      <4>1. PICK j \in 1 .. n - 1 : Enables(run[j], calls[j], line)
        BY <3>2
      <4>2. j \in 1 .. n /\ j # n
        BY <1>1
      <4> QED
        BY <1>2, <1>3, <4>1, <4>2
    <3> QED
      BY <3>1, <3>2
  <2>3. ASSUME m2.basepri # 0
        PROVE  \E i \in 1 .. n : Restores(run2[i], calls2[i]) /\ \A j \in i + 1 .. n : run2[j].who = "radio"
    <3>1. CASE Restores(r, c)
      BY <1>1, <1>2, <1>3, <3>1
    <3>2. CASE r.who = "radio" /\ \E j \in 1 .. n - 1 : Restores(run[j], calls[j])
                                                        /\ \A k \in j + 1 .. n - 1 : run[k].who = "radio"
      <4>1. PICK j \in 1 .. n - 1 : Restores(run[j], calls[j]) /\ \A k \in j + 1 .. n - 1 : run[k].who = "radio"
        BY <3>2
      <4>2. j \in 1 .. n /\ j # n
        BY <1>1
      <4>3. ASSUME NEW k \in j + 1 .. n PROVE run[k].who = "radio"
        <5>1. k = n \/ k \in j + 1 .. n - 1
          BY <1>1, <4>1
        <5> QED
          BY <3>2, <4>1, <5>1
      <4>4. \A k \in j + 1 .. n : run2[k].who = "radio"
        BY <1>1, <1>4, <4>3
      <4> QED
        BY <1>2, <1>3, <4>1, <4>2, <4>4
    <3> QED
      BY <2>3, <3>1, <3>2
  <2> QED
    BY <1>2, <2>1, <2>2, <2>3 DEF Closures
<1>9. Overlaps(run2, calls2)
  <2>1. ASSUME NEW i \in 1 .. n, run2[i].who = "low", calls2[i].below["low"] > 0
        PROVE  \E j \in 1 .. i - 1 : calls2[j].below["low"] = 0 /\ Mid(run2[j], calls2[j], "low")
    <3>1. PICK j \in 1 .. i - 1 : calls[j].below["low"] = 0 /\ Mid(run[j], calls[j], "low")
      BY <1>4, <2>1 DEF Follows, Overlaps
    <3>2. j \in 1 .. n /\ j # n
      BY <1>1
    <3> QED
      BY <1>2, <1>3, <3>1, <3>2
  <2>2. ASSUME NEW i \in 1 .. n, NEW j \in 1 .. i - 1, calls2[j].op \in MidOps
        PROVE  Excused(run2[i], calls2[i])
    <3>1. j \in 1 .. n - 1 /\ j \in 1 .. n /\ j # n
      BY <1>1
    <3>2. calls[j].op \in MidOps
      BY <1>3, <2>2, <3>1
    <3>3. CASE i = n
      BY <1>2, <1>3, <3>1, <3>2, <3>3
    <3>4. CASE i # n
      BY <1>2, <1>3, <3>2, <3>4 DEF Follows, Overlaps
    <3> QED
      BY <3>3, <3>4
  <2> QED
    BY <1>2, <2>1, <2>2 DEF Overlaps
<1>10. Exclusion(run2)
  <2>1. ASSUME NEW i \in 1 .. n, NEW k \in DOMAIN run2[i].sections, run2[i].sections[k].sound, NEW j \in i + 1 .. n
        PROVE  run2[j].who \notin Excluded(run2[i].sections[k].of)
    <3>1. i # n /\ run2[i] = run[i] /\ j \in 1 .. n
      BY <1>1, <1>2
    <3>2. run[j].who \notin Excluded(run[i].sections[k].of)
      BY <2>1, <3>1 DEF Follows, Exclusion
    <3> QED
      BY <1>4, <3>1, <3>2
  <2>2. \A i, j \in 1 .. n : run2[i].who = run2[j].who => i = j
    BY <1>4 DEF Follows, Exclusion
  <2> QED
    BY <1>2, <2>1, <2>2 DEF Exclusion
<1>11. PrimaskIs(run2, calls2, m2.primask)
  <2>1. ASSUME NEW i \in 1 .. n - 1 PROVE ~MasksAll(run2[i], calls2[i])
    <3>1. i \in 1 .. n /\ i # n
      BY <1>1
    <3> QED
      BY <1>2, <1>3, <3>1 DEF Follows, PrimaskIs
  <2> QED
    BY <1>2, <1>3, <2>1 DEF PrimaskIs
<1>12. Follows(run2, calls2, nv2, m2, count2, sv2)
  BY <1>1, <1>2, <1>3, <1>5, <1>6, <1>7, <1>8, <1>9, <1>10, <1>11 DEF Follows
<1> QED
  BY <1>12 DEF run2, calls2, n

-----------------------------------------------------------------------------
(* The steps of a code.                                                     *)

(* The step a call is at.                                                   *)
HeadOf(c) ==
  CASE c.op = "close" -> <<"close_if_first", c.g>>
    [] c.op = "disable" -> <<"disable", LineOf[c.g]>>
    [] c.op = "save" -> <<"save_basepri">>
    [] c.op = "set" -> <<"set_basepri">>
    [] c.op = "open" -> <<"open_if_last", c.g>>
    [] c.op = "enable" -> <<"enable", LineOf[c.g]>>
    [] c.op = "restore" -> <<"restore_basepri">>
    [] c.op = "irq_save" -> <<"save_primask">>
    [] c.op = "irq_set" -> <<"set_primask">>
    [] c.op = "irq_count" -> <<"count", "irq">>
    [] c.op = "irq_uncount" -> <<"uncount_irq">>
    [] c.op = "irq_restore" -> <<"restore_primask">>
    [] c.op = "trigger" -> <<"trigger", c.arg>>
    [] c.op = "priority" -> <<"priority", c.arg>>
    [] c.op = "nest" -> <<"nested", TRUE>>
    [] c.op = "pend" -> <<"pend_low">>
    [] c.op = "radio_off" -> <<"disable", "radio">>
    [] c.op = "radio_on" -> <<"enable", "radio">>
    [] c.op = "start" -> <<"disable", "low">>
    [] c.op = "test_nested" -> <<"test_nested">>
    [] c.op = "low_prio" -> <<"priority", RADIO_PRIO_LOW>>
    [] c.op = "low_clear" -> <<"nested", FALSE>>
    [] c.op = "last" -> <<"enable", "low">>

(* What a context is at after its next step, when that adds none.           *)
NextOp(op) ==
  CASE op \in {"close", "disable", "set", "irq_count"} -> "opening"
    [] op \in {"save"} -> "set"
    [] op \in {"open", "enable", "restore", "irq_restore", "pend", "radio_on", "start"} -> "rest"
    [] op \in {"irq_save"} -> "irq_set"
    [] op \in {"irq_set"} -> "irq_count"
    [] op \in {"irq_uncount"} -> "irq_restore"
    [] op \in {"trigger", "priority", "nest"} -> "pend"
    [] op \in {"radio_off"} -> "radio_on"
    [] op \in {"test_nested", "low_clear"} -> "last"
    [] op \in {"low_prio"} -> "low_clear"
    [] op \in {"last"} -> "return"

GoesOn(c) == [c EXCEPT !.op = NextOp(c.op)]

(* The first step of a code, and what the others are.                       *)
LEMMA StepsOn ==
  ASSUME NEW c, IsCode(c), NEW who, c.op \notin {"opening", "rest", "return"},
         c.op \notin OpeningOps \cup ClosingOps \cup IrqOps => c.left = {}, c.op = "irq_restore" => c.left = {}
  PROVE  /\ CodeOf(c, who) = Then(HeadOf(c), CodeOf(GoesOn(c), who)) /\ HeadOf(c) \in Step
         /\ CodeOf(GoesOn(c), who) \in Seq(Step)
<1> HIDE DEF Step
<1> DEFINE d == GoesOn(c)
<1>1. /\ d.op = NextOp(c.op) /\ d.of = c.of /\ d.sound = c.sound /\ d.left = c.left /\ d.g = c.g /\ d.arg = c.arg
      /\ c.g \in Group
  BY DEF GoesOn, IsCode, LibraryCall
<1>2. Opening(d, who) = Opening(c, who) /\ Rest(d, who) = Rest(c, who) /\ (c.left = {} => Rest(c, who) = Base(who))
  BY <1>1, PartsAre DEF Opening, Rest
<1>3. /\ Opening(c, who) \in Seq(Step) /\ Rest(c, who) \in Seq(Step) /\ Base(who) \in Seq(Step) /\ Pend(who) \in Seq(Step)
      /\ LastOf \in Seq(Step) /\ Ended \in Seq(Step) /\ ClearNested \in Seq(Step)
  BY PartsAre, BasesAre
<1>4. LineOf["high"] = "radio" /\ LineOf["low"] = "low"
  BY DEF LineOf
<1>5. c.op \in OpeningOps \cup ClosingOps \cup IrqOps \cup HandlerOps \cup OtherOps
  BY DEF IsCode, LibraryCall
<1> HIDE DEF d
<1>10. CASE c.op = "close"
  <2>1. <<"close_if_first", c.g>> \in Step
    BY <1>1, StepsUsed
  <2>4. Opening(c, who) \in Seq(Step)
    BY <1>3
  <2>5. CodeOf(c, who) = Then(<<"close_if_first", c.g>>, Opening(c, who)) /\ HeadOf(c) = <<"close_if_first", c.g>>
    BY <1>10 DEF CodeOf, HeadOf
  <2>6. d.op = "opening"
    BY <1>1, <1>10 DEF NextOp
  <2>7. CodeOf(d, who) = Opening(c, who)
    BY <1>1, <1>2, <1>10, <2>6 DEF CodeOf, OpeningOps, ClosingOps, IrqOps
  <2> QED
    BY <2>1, <2>4, <2>5, <2>7 DEF d
<1>11. CASE c.op = "disable"
  <2>0. LineOf[c.g] \in {"radio", "low"}
    BY <1>1, <1>4, <1>11 DEF IsCode, Group
  <2>1. <<"disable", LineOf[c.g]>> \in Step
    BY <2>0, StepsUsed
  <2>4. Opening(c, who) \in Seq(Step)
    BY <1>3
  <2>5. CodeOf(c, who) = Then(<<"disable", LineOf[c.g]>>, Opening(c, who)) /\ HeadOf(c) = <<"disable", LineOf[c.g]>>
    BY <1>11 DEF CodeOf, HeadOf
  <2>6. d.op = "opening"
    BY <1>1, <1>11 DEF NextOp
  <2>7. CodeOf(d, who) = Opening(c, who)
    BY <1>1, <1>2, <1>11, <2>6 DEF CodeOf, OpeningOps, ClosingOps, IrqOps
  <2> QED
    BY <2>1, <2>4, <2>5, <2>7 DEF d
<1>12. CASE c.op = "save"
  <2>1. <<"save_basepri">> \in Step
    BY StepsUsed
  <2>2. <<"set_basepri">> \in Step
    BY StepsUsed DEF CountedKind
  <2>4. Then(<<"set_basepri">>, Opening(c, who)) \in Seq(Step)
    BY <1>3, <2>2, ThenIs
  <2>5. CodeOf(c, who) = Then(<<"save_basepri">>, Then(<<"set_basepri">>, Opening(c, who))) /\ HeadOf(c) = <<"save_basepri">>
    BY <1>12 DEF CodeOf, HeadOf
  <2>6. d.op = "set"
    BY <1>1, <1>12 DEF NextOp
  <2>7. CodeOf(d, who) = Then(<<"set_basepri">>, Opening(c, who))
    BY <1>1, <1>2, <1>12, <2>6 DEF CodeOf, OpeningOps, ClosingOps, IrqOps
  <2> QED
    BY <2>1, <2>4, <2>5, <2>7 DEF d
<1>13. CASE c.op = "set"
  <2>1. <<"set_basepri">> \in Step
    BY StepsUsed
  <2>4. Opening(c, who) \in Seq(Step)
    BY <1>3
  <2>5. CodeOf(c, who) = Then(<<"set_basepri">>, Opening(c, who)) /\ HeadOf(c) = <<"set_basepri">>
    BY <1>13 DEF CodeOf, HeadOf
  <2>6. d.op = "opening"
    BY <1>1, <1>13 DEF NextOp
  <2>7. CodeOf(d, who) = Opening(c, who)
    BY <1>1, <1>2, <1>13, <2>6 DEF CodeOf, OpeningOps, ClosingOps, IrqOps
  <2> QED
    BY <2>1, <2>4, <2>5, <2>7 DEF d
<1>14. CASE c.op = "open"
  <2>1. <<"open_if_last", c.g>> \in Step
    BY <1>1, StepsUsed
  <2>4. Rest(c, who) \in Seq(Step)
    BY <1>3
  <2>5. CodeOf(c, who) = Then(<<"open_if_last", c.g>>, Rest(c, who)) /\ HeadOf(c) = <<"open_if_last", c.g>>
    BY <1>14 DEF CodeOf, HeadOf
  <2>6. d.op = "rest"
    BY <1>1, <1>14 DEF NextOp
  <2>7. CodeOf(d, who) = Rest(c, who)
    BY <1>1, <1>2, <1>14, <2>6 DEF CodeOf, OpeningOps, ClosingOps, IrqOps
  <2> QED
    BY <2>1, <2>4, <2>5, <2>7 DEF d
<1>15. CASE c.op = "enable"
  <2>0. LineOf[c.g] \in {"radio", "low"}
    BY <1>1, <1>4, <1>15 DEF IsCode, Group
  <2>1. <<"enable", LineOf[c.g]>> \in Step
    BY <2>0, StepsUsed
  <2>4. Rest(c, who) \in Seq(Step)
    BY <1>3
  <2>5. CodeOf(c, who) = Then(<<"enable", LineOf[c.g]>>, Rest(c, who)) /\ HeadOf(c) = <<"enable", LineOf[c.g]>>
    BY <1>15 DEF CodeOf, HeadOf
  <2>6. d.op = "rest"
    BY <1>1, <1>15 DEF NextOp
  <2>7. CodeOf(d, who) = Rest(c, who)
    BY <1>1, <1>2, <1>15, <2>6 DEF CodeOf, OpeningOps, ClosingOps, IrqOps
  <2> QED
    BY <2>1, <2>4, <2>5, <2>7 DEF d
<1>16. CASE c.op = "restore"
  <2>1. <<"restore_basepri">> \in Step
    BY StepsUsed
  <2>4. Rest(c, who) \in Seq(Step)
    BY <1>3
  <2>5. CodeOf(c, who) = Then(<<"restore_basepri">>, Rest(c, who)) /\ HeadOf(c) = <<"restore_basepri">>
    BY <1>16 DEF CodeOf, HeadOf
  <2>6. d.op = "rest"
    BY <1>1, <1>16 DEF NextOp
  <2>7. CodeOf(d, who) = Rest(c, who)
    BY <1>1, <1>2, <1>16, <2>6 DEF CodeOf, OpeningOps, ClosingOps, IrqOps
  <2> QED
    BY <2>1, <2>4, <2>5, <2>7 DEF d
<1>17. CASE c.op = "irq_save"
  <2>1. <<"save_primask">> \in Step
    BY StepsUsed
  <2>2. <<"set_primask">> \in Step /\ <<"count", "irq">> \in Step
    BY StepsUsed DEF CountedKind
  <2>3. Then(<<"count", "irq">>, Opening(c, who)) \in Seq(Step)
    BY <1>3, <2>2, ThenIs
  <2>4. Then(<<"set_primask">>, Then(<<"count", "irq">>, Opening(c, who))) \in Seq(Step)
    BY <2>2, <2>3, ThenIs
  <2>5. CodeOf(c, who) = Then(<<"save_primask">>, Then(<<"set_primask">>, Then(<<"count", "irq">>, Opening(c, who)))) /\ HeadOf(c) = <<"save_primask">>
    BY <1>17 DEF CodeOf, HeadOf
  <2>6. d.op = "irq_set"
    BY <1>1, <1>17 DEF NextOp
  <2>7. CodeOf(d, who) = Then(<<"set_primask">>, Then(<<"count", "irq">>, Opening(c, who)))
    BY <1>1, <1>2, <1>17, <2>6 DEF CodeOf, OpeningOps, ClosingOps, IrqOps
  <2> QED
    BY <2>1, <2>4, <2>5, <2>7 DEF d
<1>18. CASE c.op = "irq_set"
  <2>1. <<"set_primask">> \in Step
    BY StepsUsed
  <2>2. <<"count", "irq">> \in Step
    BY StepsUsed DEF CountedKind
  <2>4. Then(<<"count", "irq">>, Opening(c, who)) \in Seq(Step)
    BY <1>3, <2>2, ThenIs
  <2>5. CodeOf(c, who) = Then(<<"set_primask">>, Then(<<"count", "irq">>, Opening(c, who))) /\ HeadOf(c) = <<"set_primask">>
    BY <1>18 DEF CodeOf, HeadOf
  <2>6. d.op = "irq_count"
    BY <1>1, <1>18 DEF NextOp
  <2>7. CodeOf(d, who) = Then(<<"count", "irq">>, Opening(c, who))
    BY <1>1, <1>2, <1>18, <2>6 DEF CodeOf, OpeningOps, ClosingOps, IrqOps
  <2> QED
    BY <2>1, <2>4, <2>5, <2>7 DEF d
<1>19. CASE c.op = "irq_count"
  <2>1. <<"count", "irq">> \in Step
    BY StepsUsed DEF CountedKind
  <2>4. Opening(c, who) \in Seq(Step)
    BY <1>3
  <2>5. CodeOf(c, who) = Then(<<"count", "irq">>, Opening(c, who)) /\ HeadOf(c) = <<"count", "irq">>
    BY <1>19 DEF CodeOf, HeadOf
  <2>6. d.op = "opening"
    BY <1>1, <1>19 DEF NextOp
  <2>7. CodeOf(d, who) = Opening(c, who)
    BY <1>1, <1>2, <1>19, <2>6 DEF CodeOf, OpeningOps, ClosingOps, IrqOps
  <2> QED
    BY <2>1, <2>4, <2>5, <2>7 DEF d
<1>20. CASE c.op = "irq_uncount"
  <2>1. <<"uncount_irq">> \in Step
    BY StepsUsed
  <2>2. <<"restore_primask">> \in Step
    BY StepsUsed DEF CountedKind
  <2>4. Then(<<"restore_primask">>, Base(who)) \in Seq(Step)
    BY <1>3, <2>2, ThenIs
  <2>5. CodeOf(c, who) = Then(<<"uncount_irq">>, Then(<<"restore_primask">>, Base(who))) /\ HeadOf(c) = <<"uncount_irq">>
    BY <1>20 DEF CodeOf, HeadOf
  <2>6. d.op = "irq_restore"
    BY <1>1, <1>20 DEF NextOp
  <2>7. CodeOf(d, who) = Then(<<"restore_primask">>, Base(who))
    BY <1>1, <1>2, <1>20, <2>6 DEF CodeOf, OpeningOps, ClosingOps, IrqOps
  <2> QED
    BY <2>1, <2>4, <2>5, <2>7 DEF d
<1>21. CASE c.op = "irq_restore"
  <2>1. <<"restore_primask">> \in Step
    BY StepsUsed
  <2>4. Base(who) \in Seq(Step)
    BY <1>3
  <2>5. CodeOf(c, who) = Then(<<"restore_primask">>, Base(who)) /\ HeadOf(c) = <<"restore_primask">>
    BY <1>21 DEF CodeOf, HeadOf
  <2>6. d.op = "rest"
    BY <1>1, <1>21 DEF NextOp
  <2>7. CodeOf(d, who) = Base(who)
    BY <1>1, <1>2, <1>21, <2>6 DEF CodeOf, OpeningOps, ClosingOps, IrqOps
  <2> QED
    BY <2>1, <2>4, <2>5, <2>7 DEF d
<1>22. CASE c.op = "trigger"
  <2>1. <<"trigger", c.arg>> \in Step
    BY <1>22, StepsUsed DEF IsCode, LibraryCall
  <2>4. Pend(who) \in Seq(Step)
    BY <1>3
  <2>5. CodeOf(c, who) = Then(<<"trigger", c.arg>>, Pend(who)) /\ HeadOf(c) = <<"trigger", c.arg>>
    BY <1>22 DEF CodeOf, HeadOf
  <2>6. d.op = "pend"
    BY <1>1, <1>22 DEF NextOp
  <2>7. CodeOf(d, who) = Pend(who)
    BY <1>1, <1>2, <1>22, <2>6 DEF CodeOf, OpeningOps, ClosingOps, IrqOps
  <2> QED
    BY <2>1, <2>4, <2>5, <2>7 DEF d
<1>23. CASE c.op = "priority"
  <2>1. <<"priority", c.arg>> \in Step
    BY <1>23, StepsUsed DEF IsCode, LibraryCall
  <2>4. Pend(who) \in Seq(Step)
    BY <1>3
  <2>5. CodeOf(c, who) = Then(<<"priority", c.arg>>, Pend(who)) /\ HeadOf(c) = <<"priority", c.arg>>
    BY <1>23 DEF CodeOf, HeadOf
  <2>6. d.op = "pend"
    BY <1>1, <1>23 DEF NextOp
  <2>7. CodeOf(d, who) = Pend(who)
    BY <1>1, <1>2, <1>23, <2>6 DEF CodeOf, OpeningOps, ClosingOps, IrqOps
  <2> QED
    BY <2>1, <2>4, <2>5, <2>7 DEF d
<1>24. CASE c.op = "nest"
  <2>1. <<"nested", TRUE>> \in Step
    BY StepsUsed
  <2>4. Pend(who) \in Seq(Step)
    BY <1>3
  <2>5. CodeOf(c, who) = Then(<<"nested", TRUE>>, Pend(who)) /\ HeadOf(c) = <<"nested", TRUE>>
    BY <1>24 DEF CodeOf, HeadOf
  <2>6. d.op = "pend"
    BY <1>1, <1>24 DEF NextOp
  <2>7. CodeOf(d, who) = Pend(who)
    BY <1>1, <1>2, <1>24, <2>6 DEF CodeOf, OpeningOps, ClosingOps, IrqOps
  <2> QED
    BY <2>1, <2>4, <2>5, <2>7 DEF d
<1>25. CASE c.op = "pend"
  <2>1. <<"pend_low">> \in Step
    BY StepsUsed
  <2>4. Base(who) \in Seq(Step)
    BY <1>3
  <2>5. CodeOf(c, who) = Then(<<"pend_low">>, Base(who)) /\ HeadOf(c) = <<"pend_low">>
    BY <1>25 DEF CodeOf, HeadOf, Pend
  <2>6. d.op = "rest"
    BY <1>1, <1>25 DEF NextOp
  <2>7. CodeOf(d, who) = Base(who)
    BY <1>1, <1>2, <1>25, <2>6 DEF CodeOf, OpeningOps, ClosingOps, IrqOps
  <2> QED
    BY <2>1, <2>4, <2>5, <2>7 DEF d
<1>26. CASE c.op = "radio_off"
  <2>1. <<"disable", "radio">> \in Step
    BY StepsUsed
  <2>2. <<"enable", "radio">> \in Step
    BY StepsUsed DEF CountedKind
  <2>4. Then(<<"enable", "radio">>, Base(who)) \in Seq(Step)
    BY <1>3, <2>2, ThenIs
  <2>5. CodeOf(c, who) = Then(<<"disable", "radio">>, Then(<<"enable", "radio">>, Base(who))) /\ HeadOf(c) = <<"disable", "radio">>
    BY <1>26 DEF CodeOf, HeadOf
  <2>6. d.op = "radio_on"
    BY <1>1, <1>26 DEF NextOp
  <2>7. CodeOf(d, who) = Then(<<"enable", "radio">>, Base(who))
    BY <1>1, <1>2, <1>26, <2>6 DEF CodeOf, OpeningOps, ClosingOps, IrqOps
  <2> QED
    BY <2>1, <2>4, <2>5, <2>7 DEF d
<1>27. CASE c.op = "radio_on"
  <2>1. <<"enable", "radio">> \in Step
    BY StepsUsed
  <2>4. Base(who) \in Seq(Step)
    BY <1>3
  <2>5. CodeOf(c, who) = Then(<<"enable", "radio">>, Base(who)) /\ HeadOf(c) = <<"enable", "radio">>
    BY <1>27 DEF CodeOf, HeadOf
  <2>6. d.op = "rest"
    BY <1>1, <1>27 DEF NextOp
  <2>7. CodeOf(d, who) = Base(who)
    BY <1>1, <1>2, <1>27, <2>6 DEF CodeOf, OpeningOps, ClosingOps, IrqOps
  <2> QED
    BY <2>1, <2>4, <2>5, <2>7 DEF d
<1>28. CASE c.op = "start"
  <2>1. <<"disable", "low">> \in Step
    BY StepsUsed
  <2>4. Base(who) \in Seq(Step)
    BY <1>3
  <2>5. CodeOf(c, who) = Then(<<"disable", "low">>, Base(who)) /\ HeadOf(c) = <<"disable", "low">>
    BY <1>28 DEF CodeOf, HeadOf
  <2>6. d.op = "rest"
    BY <1>1, <1>28 DEF NextOp
  <2>7. CodeOf(d, who) = Base(who)
    BY <1>1, <1>2, <1>28, <2>6 DEF CodeOf, OpeningOps, ClosingOps, IrqOps
  <2> QED
    BY <2>1, <2>4, <2>5, <2>7 DEF d
<1>29. CASE c.op = "test_nested"
  <2>1. <<"test_nested">> \in Step
    BY StepsUsed
  <2>4. LastOf \in Seq(Step)
    BY <1>3
  <2>5. CodeOf(c, who) = Then(<<"test_nested">>, LastOf) /\ HeadOf(c) = <<"test_nested">>
    BY <1>29 DEF CodeOf, HeadOf
  <2>6. d.op = "last"
    BY <1>1, <1>29 DEF NextOp
  <2>7. CodeOf(d, who) = LastOf
    BY <1>1, <1>2, <1>29, <2>6 DEF CodeOf, OpeningOps, ClosingOps, IrqOps
  <2> QED
    BY <2>1, <2>4, <2>5, <2>7 DEF d
<1>30. CASE c.op = "low_prio"
  <2>1. <<"priority", RADIO_PRIO_LOW>> \in Step
    BY StepsUsed
  <2>4. ClearNested \in Seq(Step)
    BY <1>3
  <2>5. CodeOf(c, who) = Then(<<"priority", RADIO_PRIO_LOW>>, ClearNested) /\ HeadOf(c) = <<"priority", RADIO_PRIO_LOW>>
    BY <1>30 DEF CodeOf, HeadOf
  <2>6. d.op = "low_clear"
    BY <1>1, <1>30 DEF NextOp
  <2>7. CodeOf(d, who) = ClearNested
    BY <1>1, <1>2, <1>30, <2>6 DEF CodeOf, OpeningOps, ClosingOps, IrqOps
  <2> QED
    BY <2>1, <2>4, <2>5, <2>7 DEF d
<1>31. CASE c.op = "low_clear"
  <2>1. <<"nested", FALSE>> \in Step
    BY StepsUsed
  <2>4. LastOf \in Seq(Step)
    BY <1>3
  <2>5. CodeOf(c, who) = Then(<<"nested", FALSE>>, LastOf) /\ HeadOf(c) = <<"nested", FALSE>>
    BY <1>31 DEF CodeOf, HeadOf, ClearNested
  <2>6. d.op = "last"
    BY <1>1, <1>31 DEF NextOp
  <2>7. CodeOf(d, who) = LastOf
    BY <1>1, <1>2, <1>31, <2>6 DEF CodeOf, OpeningOps, ClosingOps, IrqOps
  <2> QED
    BY <2>1, <2>4, <2>5, <2>7 DEF d
<1>32. CASE c.op = "last"
  <2>1. <<"enable", "low">> \in Step
    BY StepsUsed
  <2>4. Ended \in Seq(Step)
    BY <1>3
  <2>5. CodeOf(c, who) = Then(<<"enable", "low">>, Ended) /\ HeadOf(c) = <<"enable", "low">>
    BY <1>32 DEF CodeOf, HeadOf, LastOf
  <2>6. d.op = "return"
    BY <1>1, <1>32 DEF NextOp
  <2>7. CodeOf(d, who) = Ended
    BY <1>1, <1>2, <1>32, <2>6 DEF CodeOf, OpeningOps, ClosingOps, IrqOps
  <2> QED
    BY <2>1, <2>4, <2>5, <2>7 DEF d
<1> QED
  BY <1>5, <1>10, <1>11, <1>12, <1>13, <1>14, <1>15, <1>16, <1>17, <1>18, <1>19, <1>20, <1>21, <1>22, <1>23, <1>24, <1>25, <1>26, <1>27, <1>28, <1>29, <1>30, <1>31, <1>32
     DEF OpeningOps, ClosingOps, IrqOps, HandlerOps, OtherOps

-----------------------------------------------------------------------------

(* The first step of a section that is being opened or closed.              *)
Nearer(c, op) == [c EXCEPT !.op = op, !.g = FirstGroup(c.left), !.left = @ \ {FirstGroup(c.left)}]

(* The next step of a call that opens or closes groups, and what is left.   *)
LEMMA SectionSteps ==
  ASSUME NEW c, IsCode(c), NEW who
  PROVE  /\ c.op = "opening" /\ c.left = {} =>
              /\ <<"opened", [of |-> c.of, sound |-> c.sound]>> \in Step /\ Base(who) \in Seq(Step)
              /\ CodeOf(c, who) = Then(<<"opened", [of |-> c.of, sound |-> c.sound]>>, Base(who))
         /\ c.op = "opening" /\ c.left # {} =>
              /\ FirstGroup(c.left) \in c.left /\ <<"count", FirstGroup(c.left)>> \in Step
              /\ CodeOf(Nearer(c, "close"), who) \in Seq(Step)
              /\ CodeOf(c, who) = Then(<<"count", FirstGroup(c.left)>>, CodeOf(Nearer(c, "close"), who))
         /\ c.op = "rest" /\ c.left # {} =>
              /\ FirstGroup(c.left) \in c.left /\ <<"uncount", FirstGroup(c.left)>> \in Step
              /\ CodeOf(Nearer(c, "open"), who) \in Seq(Step)
              /\ CodeOf(c, who) = Then(<<"uncount", FirstGroup(c.left)>>, CodeOf(Nearer(c, "open"), who))
         /\ c.op = "rest" /\ c.left = {} => CodeOf(c, who) = Base(who) /\ Base(who) \in Seq(Step)
<1> HIDE DEF Step
<1> DEFINE f == FirstGroup(c.left)
           b == [c EXCEPT !.left = @ \ {f}]
           d == Nearer(c, "close")
           e == Nearer(c, "open")
<1>1. c.left \in SUBSET Group /\ [of |-> c.of, sound |-> c.sound] \in Section /\ c \in LibraryCall
  BY DEF IsCode, LibraryCall, Section
<1>2. Base(who) \in Seq(Step)
  BY BasesAre
<1>3. /\ b.of = c.of /\ b.sound = c.sound /\ b.left = c.left \ {f}
      /\ d.of = c.of /\ d.sound = c.sound /\ d.left = c.left \ {f} /\ d.op = "close" /\ d.g = f
      /\ e.of = c.of /\ e.sound = c.sound /\ e.left = c.left \ {f} /\ e.op = "open" /\ e.g = f
  BY <1>1 DEF Nearer, LibraryCall
<1>4. b \in LibraryCall /\ b.op = c.op /\ b.g = c.g /\ b.arg = c.arg
  BY <1>1 DEF LibraryCall
<1>5. IsCode(b)
  BY <1>4 DEF IsCode
<1>6. Opening(b, who) \in Seq(Step) /\ Rest(b, who) \in Seq(Step)
  BY <1>5, PartsAre
<1>7. Opening(d, who) = Opening(b, who) /\ Rest(e, who) = Rest(b, who)
  BY <1>3 DEF Opening, Rest
<1>8. ASSUME c.left # {}
      PROVE  /\ f \in c.left /\ <<"count", f>> \in Step /\ <<"uncount", f>> \in Step
             /\ <<"close_if_first", f>> \in Step /\ <<"open_if_last", f>> \in Step
  <2>1. f \in c.left
    BY <1>8, PartsAre
  <2> QED
    BY <1>1, <2>1, StepsUsed DEF Group, CountedKind
<1>9. CodeOf(d, who) = Then(<<"close_if_first", f>>, Opening(b, who))
  BY <1>3, <1>7 DEF CodeOf
<1>10. CodeOf(e, who) = Then(<<"open_if_last", f>>, Rest(b, who))
  BY <1>3, <1>7 DEF CodeOf
<1>11. c.left # {} => CodeOf(d, who) \in Seq(Step) /\ CodeOf(e, who) \in Seq(Step)
  BY <1>6, <1>8, <1>9, <1>10, ThenIs
<1>12. ASSUME c.op = "opening", c.left # {}
       PROVE  CodeOf(c, who) = Then(<<"count", f>>, CodeOf(d, who))
  <2>1. CodeOf(c, who) = Opening(c, who)
    BY <1>12 DEF CodeOf
  <2>2. Opening(c, who) = Then(<<"count", f>>, Then(<<"close_if_first", f>>, Opening(b, who)))
    BY <1>12, PartsAre
  <2> QED
    BY <1>9, <2>1, <2>2
<1>13. ASSUME c.op = "rest", c.left # {}
       PROVE  CodeOf(c, who) = Then(<<"uncount", f>>, CodeOf(e, who))
  <2>1. CodeOf(c, who) = Rest(c, who)
    BY <1>13 DEF CodeOf
  <2>2. Rest(c, who) = Then(<<"uncount", f>>, Then(<<"open_if_last", f>>, Rest(b, who)))
    BY <1>13, PartsAre
  <2> QED
    BY <1>10, <2>1, <2>2
<1>14. c.op = "opening" /\ c.left = {} => CodeOf(c, who) = Then(<<"opened", [of |-> c.of, sound |-> c.sound]>>, Base(who))
  BY PartsAre DEF CodeOf
<1>15. c.op = "rest" /\ c.left = {} => CodeOf(c, who) = Base(who)
  BY PartsAre DEF CodeOf
<1>16. <<"opened", [of |-> c.of, sound |-> c.sound]>> \in Step
  BY <1>1, StepsUsed
<1> HIDE DEF d, e, f
<1> QED
  BY <1>2, <1>8, <1>11, <1>12, <1>13, <1>14, <1>15, <1>16 DEF d, e, f

(* The context that runs.                                                   *)
TopOf(calls, n, r, c) ==
  /\ Follows(running, calls, nvic, mask, counter, saved)
  /\ n = Len(running) /\ r = running[n] /\ c = calls[n]

(* The topmost context is the one the core runs, and its call says the step. *)
LEMMA TopIs ==
  ASSUME NEW calls, NEW n, NEW r, NEW c, TopOf(calls, n, r, c)
  PROVE  /\ n \in Nat /\ n > 0 /\ r \in Context /\ c \in LibraryCall /\ Fits(r, c) /\ IsCode(c)
         /\ r.code = CodeOf(c, r.who) /\ Core = r /\ Len(running) = n /\ running \in Seq(Context)
         /\ \A op : CoreAt(op) <=> Label(c) = op
         /\ RegisterTypes(nvic, mask, counter, saved)
<1>1. /\ n \in Nat /\ n > 0 /\ n \in 1 .. n /\ running \in Seq(Context) /\ calls \in Seq(LibraryCall) /\ Len(calls) = n
      /\ RegisterTypes(nvic, mask, counter, saved)
  BY LenProperties DEF TopOf, Follows
<1>2. r \in Context /\ c \in LibraryCall /\ Fits(r, c)
  <2>1. running[n] \in Context /\ calls[n] \in LibraryCall
    BY <1>1, ElementOfSeq DEF TopOf
  <2> QED
    BY <1>1, <2>1 DEF TopOf, Follows
<1>3. IsCode(c) /\ r.code = CodeOf(c, r.who)
  BY <1>2 DEF Fits
<1>4. Core = r
  BY DEF Core, Last, TopOf
<1>5. \A op : CoreAt(op) <=> Label(c) = op
  BY <1>3, <1>4, CodeIs DEF CoreAt
<1> QED
  BY <1>1, <1>2, <1>3, <1>4, <1>5 DEF TopOf

(* The core runs a code, and then the rest of its own.                      *)
LEMMA RunsOn ==
  ASSUME NEW calls, NEW n, NEW r, NEW c, TopOf(calls, n, r, c),
         NEW a \in Step, NEW rest \in Seq(Step), CodeOf(c, r.who) = Then(a, rest), NEW s
  PROVE  /\ Head(Core.code) = a /\ Arg = a[2]
         /\ CoreRuns(s) => running' = [running EXCEPT ![n] = [r EXCEPT !.code = s \o rest]]
<1> HIDE DEF Step
<1>1. r.code = Then(a, rest) /\ Core = r /\ Len(running) = n
  BY TopIs
<1>2. Head(r.code) = a /\ Tail(r.code) = rest
  BY <1>1, ThenIs
<1>3. r = running[n]
  BY DEF TopOf
<1> QED
  BY <1>1, <1>2, <1>3 DEF Arg, CoreRuns

(* What a context is about after a step that adds none.                     *)
LEMMA GoesOnIs ==
  ASSUME NEW r \in Context, NEW c, Fits(r, c), c.op \notin {"opening", "rest", "return"},
         NEW r2, r2 = [r EXCEPT !.code = CodeOf(GoesOn(c), r.who)]
  PROVE  /\ CodeOf(c, r.who) = Then(HeadOf(c), CodeOf(GoesOn(c), r.who)) /\ HeadOf(c) \in Step
         /\ CodeOf(GoesOn(c), r.who) \in Seq(Step)
         /\ GoesOn(c) \in LibraryCall /\ r2 \in Context /\ Fits(r2, GoesOn(c))
         /\ r2.who = r.who /\ r2.sections = r.sections
         /\ GoesOn(c).op = NextOp(c.op) /\ GoesOn(c).of = c.of /\ GoesOn(c).sound = c.sound /\ GoesOn(c).left = c.left
         /\ GoesOn(c).g = c.g /\ GoesOn(c).arg = c.arg /\ GoesOn(c).below = c.below
         /\ \A g : Sections(r2, g) = Sections(r, g)
<1> HIDE DEF Step
<1> DEFINE d == GoesOn(c)
<1>1. c \in LibraryCall /\ IsCode(c)
  BY DEF Fits, IsCode
<1>2. c.op \in (OpeningOps \cup ClosingOps \cup IrqOps \cup HandlerOps \cup OtherOps) \ {"opening", "rest", "return"}
  BY <1>1 DEF LibraryCall
<1>3. /\ c.op \notin OpeningOps \cup ClosingOps \cup IrqOps => c.left = {}
      /\ c.op = "irq_restore" => c.left = {}
  BY DEF Fits, OpeningOps, ClosingOps, IrqOps
<1>4. /\ CodeOf(c, r.who) = Then(HeadOf(c), CodeOf(d, r.who)) /\ HeadOf(c) \in Step
      /\ CodeOf(d, r.who) \in Seq(Step)
  BY <1>1, <1>3, StepsOn
<1>5. NextOp(c.op) \in {"opening", "set", "rest", "irq_set", "irq_count", "irq_restore", "pend", "radio_on",
                        "last", "low_clear", "return"}
  BY <1>2 DEF NextOp, OpeningOps, ClosingOps, IrqOps, HandlerOps, OtherOps
<1>6. /\ d.op = NextOp(c.op) /\ d.of = c.of /\ d.sound = c.sound /\ d.left = c.left
      /\ d.g = c.g /\ d.arg = c.arg /\ d.below = c.below /\ d \in LibraryCall
  BY <1>1, <1>5 DEF GoesOn, LibraryCall, OpeningOps, ClosingOps, IrqOps, HandlerOps, OtherOps
<1> HIDE DEF d
<1>7. r2 \in Context /\ r2.who = r.who /\ r2.sections = r.sections /\ r2.code = CodeOf(d, r.who)
  BY <1>4 DEF Context, d
<1>8. \A g : Sections(r2, g) = Sections(r, g)
  BY <1>7 DEF Sections
<1>9. IsCode(d)
  BY <1>5, <1>6 DEF IsCode
<1>10. Fits(r2, d)
  <2>1. IF d.op \in OpeningOps THEN d.left \subseteq d.of ELSE d.op \notin ClosingOps => d.left = {}
    BY <1>2, <1>6 DEF Fits, NextOp, OpeningOps, ClosingOps, IrqOps, HandlerOps, OtherOps
  <2>2. /\ d.op \in MidOps => d.g \in d.of \ d.left
        /\ d.op \in {"save", "set", "restore"} => d.g = "sys"
        /\ d.op \in {"open", "enable", "restore"} => d.g \notin d.left
    BY <1>2, <1>6 DEF Fits, NextOp, OpeningOps, ClosingOps, IrqOps, HandlerOps, OtherOps, MidOps
  <2>3. /\ d.op \in {"irq_save", "irq_set", "irq_count"} => d.of = {"irq"} /\ d.sound
        /\ r2.who = "system" => d.op = "return"
        /\ d.op \in HandlerOps => r2.who = "low"
    BY <1>2, <1>6, <1>7 DEF Fits, NextOp, OpeningOps, ClosingOps, IrqOps, HandlerOps, OtherOps
  <2>4. /\ d.op \in {"radio_off", "radio_on"} => r2.who = "task"
        /\ d.op = "return" => r2.who # "task"
        /\ d.op \in HandlerOps \cup {"return", "radio_off", "radio_on"} => r2.sections = <<>>
    BY <1>2, <1>6, <1>7 DEF Fits, NextOp, OpeningOps, ClosingOps, IrqOps, HandlerOps, OtherOps
  <2>5. /\ d.op \in {"disable", "save", "set"} => d.below[d.g] = 0 /\ Sections(r2, d.g) = 0
        /\ d.op \in {"enable", "restore"} => d.below[d.g] = 0 /\ Held(r2, d, d.g) = 0
    <3>1. d.op \notin {"disable", "save", "enable", "restore"} /\ (d.op = "set" => c.op = "save")
      BY <1>2, <1>6 DEF NextOp, OpeningOps, ClosingOps, IrqOps, HandlerOps, OtherOps
    <3>2. c.op = "save" => c.below[c.g] = 0 /\ Sections(r, c.g) = 0
      BY DEF Fits
    <3> QED
      BY <1>6, <1>8, <3>1, <3>2
  <2>6. /\ r2.who = "radio" =>
             /\ "sys" \notin d.of \cup d.left \cup {d.g}
             /\ \A k \in DOMAIN r2.sections : "sys" \notin r2.sections[k].of
        /\ d.of = {"irq"} \/ d.of \subseteq Group
        /\ \A k \in DOMAIN r2.sections : r2.sections[k].of = {"irq"} \/ r2.sections[k].of \subseteq Group
    BY <1>6, <1>7 DEF Fits
  <2> QED
    BY <1>6, <1>7, <1>9, <2>1, <2>2, <2>3, <2>4, <2>5, <2>6 DEF Fits
<1> QED
  BY <1>4, <1>6, <1>7, <1>8, <1>10 DEF d

(* What a context holds is a number, and no less than its call counts.      *)
LEMMA HeldIs ==
  ASSUME NEW r \in Context, NEW c, NEW g
  PROVE  Sections(r, g) \in Nat /\ Held(r, c, g) \in Nat /\ (Counts(c, g) => Held(r, c, g) > 0)
         /\ (Held(r, c, g) = 0 => Sections(r, g) = 0 /\ ~Counts(c, g))
<1>1. Sections(r, g) \in Nat
  BY SectionsAre
<1> QED
  BY <1>1 DEF Held

(* What the contexts below have counted.                                    *)
LEMMA BelowIs ==
  ASSUME NEW calls, NEW n, NEW r, NEW c, TopOf(calls, n, r, c)
  PROVE  /\ \A g \in CountedKind : c.below[g] \in Nat /\ counter[g] = c.below[g] + Held(r, c, g) /\ Held(r, c, g) \in Nat
         /\ \A j \in 1 .. n - 1 : running[j] \in Context /\ calls[j] \in LibraryCall
         /\ \A j \in 1 .. n - 1, g \in CountedKind :
              /\ calls[j].below[g] \in Nat /\ Held(running[j], calls[j], g) \in Nat
              /\ c.below[g] = 0 => Held(running[j], calls[j], g) = 0 /\ calls[j].below[g] = 0
         /\ \A g \in CountedKind : c.below[g] > 0 =>
              \E j \in 1 .. n - 1 : calls[j].below[g] = 0 /\ Held(running[j], calls[j], g) > 0
<1>1. /\ n \in Nat /\ n > 0 /\ n \in 1 .. n /\ running \in Seq(Context) /\ calls \in Seq(LibraryCall) /\ Len(calls) = n
      /\ Len(running) = n /\ r \in Context /\ c \in LibraryCall /\ r = running[n] /\ c = calls[n]
  <2>1. calls \in Seq(LibraryCall) /\ Len(calls) = n /\ r = running[n] /\ c = calls[n]
    BY DEF TopOf, Follows
  <2> QED
    BY <2>1, TopIs
<1>2. \A i \in 1 .. n : running[i] \in Context /\ calls[i] \in LibraryCall
  BY <1>1, ElementOfSeq
<1>3. \A i \in 1 .. n, g \in CountedKind : calls[i].below[g] \in Nat /\ Held(running[i], calls[i], g) \in Nat
  <2> TAKE i \in 1 .. n, g \in CountedKind
  <2>1. Held(running[i], calls[i], g) \in Nat
    BY <1>2, HeldIs
  <2>2. calls[i].below \in [CountedKind -> Nat]
    BY <1>2 DEF LibraryCall
  <2> QED
    BY <2>1, <2>2
<1>4. Tallies(running, calls, counter)
  BY DEF TopOf, Follows
<1>5. \A g \in CountedKind : counter[g] = c.below[g] + Held(r, c, g)
  BY <1>1, <1>4 DEF Tallies
<1>6. ASSUME NEW j \in 1 .. n - 1, NEW g \in CountedKind
      PROVE  c.below[g] = 0 => Held(running[j], calls[j], g) = 0 /\ calls[j].below[g] = 0
  <2>1. calls[j].below[g] + Held(running[j], calls[j], g) <= c.below[g]
    BY <1>1, <1>4 DEF Tallies
  <2>2. j \in 1 .. n
    BY <1>1
  <2> QED
    BY <1>3, <2>1, <2>2
<1>7. \A g \in CountedKind : c.below[g] > 0 =>
              \E j \in 1 .. n - 1 : calls[j].below[g] = 0 /\ Held(running[j], calls[j], g) > 0
  BY <1>1, <1>4 DEF Tallies
<1>8. \A j \in 1 .. n - 1 : j \in 1 .. n
  BY <1>1
<1> QED
  BY <1>1, <1>2, <1>3, <1>5, <1>6, <1>7, <1>8

(* A step of the topmost context that enables and disables nothing.         *)
Levelly(calls, n, r, c, r2, d) ==
  /\ TopOf(calls, n, r, c)
  /\ r2 \in Context /\ d \in LibraryCall /\ r2.who = r.who /\ d.below = c.below /\ Fits(r2, d)
  /\ running' = [running EXCEPT ![n] = r2]
  /\ RegisterTypes(nvic', mask', counter', saved')
  /\ nvic'.enabled = nvic.enabled /\ mask'.basepri = mask.basepri
  /\ \A g \in CountedKind : counter'[g] = d.below[g] + Held(r2, d, g)
  /\ \A j \in 1 .. n - 1 : calls[j].op \in MidOps => Excused(r2, d)
  /\ \A g \in Group : Closed(r2, d, g) => Closed(r, c, g)
  /\ \A line \in {"radio", "low"} \ nvic.enabled : Enables(r, c, line) =>
       Enables(r2, d, line) \/ \E j \in 1 .. n - 1 : Enables(running[j], calls[j], line)
  /\ Restores(r, c) => Restores(r2, d)
  /\ mask'.primask <=> MasksAll(r2, d)

(* A step that changes no counter keeps the invariant.                      *)
LEMMA LevelStep ==
  ASSUME NEW calls, NEW n, NEW r, NEW c, NEW r2, NEW d, Levelly(calls, n, r, c, r2, d)
  PROVE  RadioIInv'
<1>0.
    /\ TopOf(calls, n, r, c)
    /\ r2 \in Context /\ d \in LibraryCall /\ r2.who = r.who /\ d.below = c.below /\ Fits(r2, d)
    /\ running' = [running EXCEPT ![n] = r2]
    /\ RegisterTypes(nvic', mask', counter', saved')
    /\ nvic'.enabled = nvic.enabled /\ mask'.basepri = mask.basepri
    /\ \A g \in CountedKind : counter'[g] = d.below[g] + Held(r2, d, g)
    /\ \A j \in 1 .. n - 1 : calls[j].op \in MidOps => Excused(r2, d)
    /\ \A g \in Group : Closed(r2, d, g) => Closed(r, c, g)
    /\ \A line \in {"radio", "low"} \ nvic.enabled : Enables(r, c, line) =>
         Enables(r2, d, line) \/ \E j \in 1 .. n - 1 : Enables(running[j], calls[j], line)
    /\ Restores(r, c) => Restores(r2, d)
    /\ mask'.primask <=> MasksAll(r2, d)
  BY DEF Levelly
<1> USE <1>0
<1>1. n \in Nat /\ n > 0 /\ n = Len(running) /\ r = running[n] /\ c = calls[n]
  BY TopIs DEF TopOf
<1>2. Follows(running, calls, nvic, mask, counter, saved)
  BY DEF TopOf
<1>3. \A g \in CountedKind : counter'[g] = d.below[g] + Held(r2, d, g)
  OBVIOUS
<1>4. \A g \in Group : Shut(g, nvic'.enabled, mask'.basepri) <=> Shut(g, nvic.enabled, mask.basepri)
  OBVIOUS
<1>5. Closures(running, calls, nvic.enabled, mask.basepri)
  BY <1>2 DEF Follows
<1>6. \A g \in Group : Closed(r2, d, g) => Shut(g, nvic'.enabled, mask'.basepri)
  BY <1>1, <1>4, <1>5 DEF Closures
<1>7. ASSUME NEW line \in {"radio", "low"} \ nvic'.enabled
      PROVE  Enables(r2, d, line) \/ \E j \in 1 .. n - 1 : Enables(running[j], calls[j], line)
  <2>1. line \in {"radio", "low"} \ nvic.enabled
    BY <1>7
  <2>2. PICK i \in 1 .. n : Enables(running[i], calls[i], line)
    BY <1>1, <1>5, <2>1 DEF Closures
  <2>3. CASE i = n
    BY <1>1, <2>1, <2>2, <2>3
  <2>4. CASE i # n
    <3>1. i \in 1 .. n - 1
      BY <1>1, <2>4
    <3> QED
      BY <2>2, <3>1
  <2> QED
    BY <2>3, <2>4
<1>8. ASSUME mask'.basepri # 0
      PROVE  \/ Restores(r2, d)
             \/ r2.who = "radio" /\ \E j \in 1 .. n - 1 : Restores(running[j], calls[j])
                                                          /\ \A k \in j + 1 .. n - 1 : running[k].who = "radio"
  <2>1. PICK i \in 1 .. n : Restores(running[i], calls[i]) /\ \A j \in i + 1 .. n : running[j].who = "radio"
    BY <1>1, <1>5, <1>8 DEF Closures
  <2>2. CASE i = n
    BY <1>1, <2>1, <2>2
  <2>3. CASE i # n
    <3>1. i \in 1 .. n - 1 /\ n \in i + 1 .. n /\ \A k \in i + 1 .. n - 1 : k \in i + 1 .. n
      BY <1>1, <2>3
    <3> QED
      BY <1>1, <2>1, <3>1
  <2> QED
    BY <2>2, <2>3
<1>9. mask'.primask <=> MasksAll(r2, d)
  OBVIOUS
<1>10. r2.who = running[n].who /\ d.below = calls[n].below
  BY <1>1
<1>11. Moves(running, calls, nvic, mask, counter, saved, r2, d, nvic', mask', counter', saved')
  <2>2. \A g \in Group : Shut(g, nvic.enabled, mask.basepri) /\ ~Shut(g, nvic'.enabled, mask'.basepri) =>
          \A j \in 1 .. n - 1 : ~Closed(running[j], calls[j], g)
    BY <1>4
  <2> QED
    BY <1>1, <1>2, <1>3, <1>6, <1>7, <1>8, <1>9, <1>10, <2>2 DEF Moves
<1>12. Follows([running EXCEPT ![Len(running)] = r2], [calls EXCEPT ![Len(running)] = d], nvic', mask', counter', saved')
  BY <1>11, TopStep
<1> QED
  BY <1>1, <1>12 DEF RadioIInv

(* A step that leaves the registers and the counters alone.                 *)
Evenly(calls, n, r, c, r2, d) ==
  /\ TopOf(calls, n, r, c)
  /\ r2 \in Context /\ d \in LibraryCall /\ r2.who = r.who /\ d.below = c.below /\ Fits(r2, d)
  /\ running' = [running EXCEPT ![n] = r2]
  /\ RegisterTypes(nvic', mask', counter', saved')
  /\ nvic'.enabled = nvic.enabled /\ mask' = mask /\ counter' = counter
  /\ \A g \in CountedKind : Held(r2, d, g) = Held(r, c, g)
  /\ \A j \in 1 .. n - 1 : calls[j].op \in MidOps => Excused(r2, d)
  /\ \A g \in Group : Closed(r2, d, g) => Closed(r, c, g)
  /\ \A line \in {"radio", "low"} \ nvic.enabled : Enables(r, c, line) =>
       Enables(r2, d, line) \/ \E j \in 1 .. n - 1 : Enables(running[j], calls[j], line)
  /\ Restores(r, c) => Restores(r2, d)
  /\ MasksAll(r2, d) <=> MasksAll(r, c)

(* A step that changes no counter and no mask keeps the invariant.          *)
LEMMA EvenStep ==
  ASSUME NEW calls, NEW n, NEW r, NEW c, NEW r2, NEW d, Evenly(calls, n, r, c, r2, d)
  PROVE  RadioIInv'
<1>1. TopOf(calls, n, r, c) /\ d.below = c.below /\ counter' = counter /\ mask' = mask
  BY DEF Evenly
<1>2. \A g \in CountedKind : counter'[g] = d.below[g] + Held(r2, d, g)
  BY <1>1, BelowIs DEF Evenly
<1>3. mask'.primask <=> MasksAll(r2, d)
  <2>1. n = Len(running) /\ r = running[n] /\ c = calls[n] /\ PrimaskIs(running, calls, mask.primask)
    BY <1>1 DEF TopOf, Follows
  <2>2. mask.primask <=> MasksAll(r, c)
    BY <2>1 DEF PrimaskIs
  <2> QED
    BY <1>1, <2>2 DEF Evenly
<1>4. Levelly(calls, n, r, c, r2, d)
  BY <1>1, <1>2, <1>3 DEF Evenly, Levelly
<1> QED
  BY <1>4, LevelStep

-----------------------------------------------------------------------------

(* Sections of the contexts that run over one that is closing are excused.  *)
LEMMA StaysExcused ==
  ASSUME NEW calls, NEW n, NEW r, NEW c, TopOf(calls, n, r, c), NEW j \in 1 .. n - 1, calls[j].op \in MidOps
  PROVE  Excused(r, c)
<1>1. n = Len(running) /\ n \in 1 .. n /\ r = running[n] /\ c = calls[n]
  BY TopIs DEF TopOf
<1> QED
  BY <1>1 DEF TopOf, Follows, Overlaps

(* A step after which the core runs the rest of its code, and which changes *)
(* nothing that the invariant speaks of.                                    *)
EvenOps == {"close", "save", "open", "irq_save", "trigger", "priority", "nest", "pend", "test_nested", "low_prio", "low_clear"}

(* A call that goes on, with nothing counted or masked.                     *)
LEMMA GoesEvenly ==
  ASSUME NEW calls, NEW n, NEW r, NEW c, TopOf(calls, n, r, c),
         c.op \in EvenOps, c.op = "close" => counter[c.g] # 1, c.op = "open" => counter[c.g] # 0,
         running' = [running EXCEPT ![n] = [r EXCEPT !.code = CodeOf(GoesOn(c), r.who)]],
         RegisterTypes(nvic', mask', counter', saved'),
         nvic'.enabled = nvic.enabled, mask' = mask, counter' = counter
  PROVE  RadioIInv'
<1> DEFINE r2 == [r EXCEPT !.code = CodeOf(GoesOn(c), r.who)]
           d == GoesOn(c)
<1>1. r \in Context /\ c \in LibraryCall /\ Fits(r, c) /\ n \in Nat /\ n > 0
  BY TopIs
<1>2. c.op \notin {"opening", "rest", "return"}
  BY DEF EvenOps
<1>3. /\ d \in LibraryCall /\ r2 \in Context /\ Fits(r2, d)
      /\ r2.who = r.who /\ r2.sections = r.sections
      /\ d.op = NextOp(c.op) /\ d.of = c.of /\ d.sound = c.sound /\ d.left = c.left
      /\ d.g = c.g /\ d.below = c.below
      /\ \A g : Sections(r2, g) = Sections(r, g)
  BY <1>1, <1>2, GoesOnIs
<1> HIDE DEF r2, d
<1>4. \A g : Counts(d, g) <=> Counts(c, g)
  <2>1. c.op \notin OpeningOps \cup ClosingOps => c.left = {}
    BY <1>1 DEF Fits
  <2> QED
    BY <1>3, <2>1 DEF Counts, EvenOps, NextOp, OpeningOps, ClosingOps
<1>5. \A g : Held(r2, d, g) = Held(r, c, g)
  BY <1>3, <1>4 DEF Held
<1>6. ASSUME NEW j \in 1 .. n - 1, calls[j].op \in MidOps PROVE Excused(r2, d)
  <2>1. Excused(r, c)
    BY <1>6, StaysExcused
  <2>2. d.op \in OpeningOps => c.op \in OpeningOps
    BY <1>3 DEF EvenOps, NextOp, OpeningOps
  <2> QED
    BY <1>3, <2>1, <2>2 DEF Excused
<1>7. ASSUME NEW g \in CountedKind, c.below[g] = 0 PROVE counter[g] = Held(r, c, g)
  <2>1. counter[g] = c.below[g] + Held(r, c, g) /\ Held(r, c, g) \in Nat
    BY BelowIs
  <2> QED
    BY <1>7, <2>1
<1>8. ASSUME NEW g \in Group, Closed(r2, d, g) PROVE Closed(r, c, g)
  <2>1. c.below[g] = 0 /\ Held(r, c, g) > 0
    BY <1>3, <1>5, <1>8 DEF Closed
  <2>2. ASSUME Mid(r, c, g) PROVE FALSE
    <3>0. c.op # "save"
      BY <1>3, <1>8, <2>2 DEF Closed, Mid, MidOps, NextOp
    <3>1. c.op = "close" /\ c.g = g /\ Sections(r, g) = 0
      BY <2>2, <3>0 DEF Mid, MidOps, EvenOps
    <3>2. Held(r, c, g) \in {0, 1}
      BY <3>1 DEF Held
    <3>3. counter[g] = Held(r, c, g)
      BY <1>7, <2>1 DEF Group, CountedKind
    <3> QED
      BY <2>1, <3>1, <3>2, <3>3
  <2> QED
    BY <2>1, <2>2 DEF Closed
<1>9. ASSUME NEW line \in {"radio", "low"} \ nvic.enabled, Enables(r, c, line)
      PROVE  Enables(r2, d, line) \/ \E j \in 1 .. n - 1 : Enables(running[j], calls[j], line)
  <2>1. CASE c.op = "open"
    <3>1. c.g \in CountedKind /\ c.g \in Group
      BY <1>1 DEF LibraryCall, Group, CountedKind
    <3>2. /\ counter[c.g] = c.below[c.g] + Held(r, c, c.g) /\ counter[c.g] # 0
          /\ c.below[c.g] \in Nat /\ Held(r, c, c.g) \in Nat
      BY <2>1, <3>1, BelowIs
    <3>3. CASE Held(r, c, c.g) > 0
      BY <1>3, <1>5, <1>9, <2>1, <3>3 DEF Enables, NextOp
    <3>4. CASE c.below[c.g] > 0
      <4>1. PICK j \in 1 .. n - 1 : Held(running[j], calls[j], c.g) > 0
        BY <3>1, <3>4, BelowIs
      <4>2. CASE (line = "radio" /\ c.g = "high") \/ (line = "low" /\ c.g = "low")
        <5>1. Enables(running[j], calls[j], line)
          BY <4>1, <4>2 DEF Enables
        <5> QED
          BY <5>1
      <4>3. CASE ~((line = "radio" /\ c.g = "high") \/ (line = "low" /\ c.g = "low"))
        BY <1>3, <1>5, <1>9, <2>1, <4>3 DEF Enables, NextOp
      <4> QED
        BY <4>2, <4>3
    <3> QED
      BY <3>2, <3>3, <3>4
  <2>2. CASE c.op # "open"
    BY <1>3, <1>5, <1>9, <2>2 DEF Enables, EvenOps, NextOp
  <2> QED
    BY <2>1, <2>2
<1>10. ASSUME Restores(r, c) PROVE Restores(r2, d)
  <2>1. "sys" \in CountedKind /\ c.below["sys"] = 0
    BY <1>10 DEF Restores, CountedKind
  <2>2. counter["sys"] = Held(r, c, "sys")
    BY <1>7, <2>1
  <2>3. ~(c.op = "open" /\ c.g = "sys" /\ Held(r, c, "sys") = 0) /\ c.op # "restore"
    BY <2>2 DEF EvenOps
  <2>4. Held(r, c, "sys") > 0
    BY <1>10, <2>3 DEF Restores
  <2>5. d.op \notin MidOps
    <3>1. c.op # "save"
      BY <1>1, <1>10, <2>3 DEF Restores, Mid, MidOps, Fits
    <3> QED
      BY <1>3, <3>1 DEF EvenOps, NextOp, MidOps
  <2> QED
    BY <1>3, <1>5, <2>1, <2>4, <2>5 DEF Restores, Mid
<1>11. MasksAll(r2, d) <=> MasksAll(r, c)
  BY <1>3, <1>5 DEF MasksAll, EvenOps, NextOp
<1>12. running' = [running EXCEPT ![n] = r2]
  BY DEF r2
<1>13. Evenly(calls, n, r, c, r2, d)
  BY <1>3, <1>5, <1>6, <1>8, <1>9, <1>10, <1>11, <1>12 DEF Evenly
<1> QED
  BY <1>13, EvenStep

(* A test that adds a step to the code.                                     *)
Turns == {<<"close", "disable">>, <<"close", "save">>, <<"open", "enable">>, <<"open", "restore">>,
          <<"trigger", "priority">>, <<"trigger", "nest">>, <<"test_nested", "low_prio">>}

(* A call that turns to another step of its own, with nothing changed.      *)
LEMMA TurnsEvenly ==
  ASSUME NEW calls, NEW n, NEW r, NEW c, TopOf(calls, n, r, c),
         NEW d, IsCode(d), <<c.op, d.op>> \in Turns,
         d.of = c.of, d.sound = c.sound, d.left = c.left, d.g = c.g, d.below = c.below,
         c.op = "close" => counter[c.g] = 1, d.op = "save" => c.g = "sys",
         c.op = "open" => counter[c.g] = 0, d.op = "restore" => c.g = "sys",
         running' = [running EXCEPT ![n] = [r EXCEPT !.code = CodeOf(d, r.who)]],
         UNCHANGED <<nvic, mask, counter, saved>>
  PROVE  RadioIInv'
<1> DEFINE r2 == [r EXCEPT !.code = CodeOf(d, r.who)]
<1>1. r \in Context /\ c \in LibraryCall /\ Fits(r, c) /\ n \in Nat /\ n > 0 /\ RegisterTypes(nvic, mask, counter, saved)
  BY TopIs
<1>2. d \in LibraryCall
  BY DEF IsCode
<1>3. r2 \in Context /\ r2.who = r.who /\ r2.sections = r.sections /\ r2.code = CodeOf(d, r.who)
  <2>1. CodeOf(d, r.who) \in Seq(Step)
    BY CodeIs
  <2> QED
    BY <1>1, <2>1 DEF Context
<1> HIDE DEF r2
<1>4. \A g : Sections(r2, g) = Sections(r, g)
  BY <1>3 DEF Sections
<1>5. c.op \in {"close", "open", "trigger", "test_nested"} /\ d.op \in {"disable", "save", "enable", "restore", "priority", "nest", "low_prio"}
  BY DEF Turns
<1>6. /\ c.op = "close" <=> d.op \in {"disable", "save"}
      /\ c.op = "open" <=> d.op \in {"enable", "restore"}
      /\ c.op = "test_nested" <=> d.op = "low_prio"
  BY DEF Turns
<1>7. \A g : Counts(d, g) <=> Counts(c, g)
  BY <1>5, <1>6 DEF Counts, OpeningOps, ClosingOps
<1>8. \A g : Held(r2, d, g) = Held(r, c, g)
  BY <1>4, <1>7 DEF Held
<1>9. \A g : Mid(r2, d, g) <=> Mid(r, c, g)
  BY <1>4, <1>5, <1>6 DEF Mid, MidOps
<1>10. c.g \in Group /\ c.g \in CountedKind /\ c.below[c.g] \in Nat /\ counter[c.g] = c.below[c.g] + Held(r, c, c.g)
  <2>1. c.g \in Group /\ c.g \in CountedKind
    BY <1>1 DEF LibraryCall, Group, CountedKind
  <2> QED
    BY <2>1, BelowIs
<1>11. c.op = "close" => c.below[c.g] = 0 /\ Sections(r, c.g) = 0
  <2> SUFFICES ASSUME c.op = "close" PROVE c.below[c.g] = 0 /\ Sections(r, c.g) = 0
    OBVIOUS
  <2>1. Counts(c, c.g)
    BY <1>1 DEF Counts, Fits, OpeningOps, MidOps
  <2>2. Held(r, c, c.g) = Sections(r, c.g) + 1 /\ Sections(r, c.g) \in Nat
    BY <1>1, <2>1, SectionsAre DEF Held
  <2> QED
    BY <1>10, <2>2
<1>12. c.op = "open" => c.below[c.g] = 0 /\ Held(r, c, c.g) = 0
  BY <1>1, <1>10, HeldIs
<1>13. Fits(r2, d)
  <2>1. IF d.op \in OpeningOps THEN d.left \subseteq d.of ELSE d.op \notin ClosingOps => d.left = {}
    BY <1>1, <1>5, <1>6 DEF Fits, OpeningOps, ClosingOps
  <2>2. /\ d.op \in MidOps => d.g \in d.of \ d.left
        /\ d.op \in {"save", "set", "restore"} => d.g = "sys"
        /\ d.op \in {"open", "enable", "restore"} => d.g \notin d.left
    BY <1>1, <1>5, <1>6 DEF Fits, MidOps
  <2>3. /\ d.op \in HandlerOps => r2.who = "low"
        /\ d.op \in HandlerOps \cup {"return", "radio_off", "radio_on"} => r2.sections = <<>>
        /\ r2.who # "system"
    BY <1>1, <1>3, <1>5, <1>6 DEF Fits, HandlerOps
  <2>4. /\ d.op \in {"disable", "save", "set"} => d.below[d.g] = 0 /\ Sections(r2, d.g) = 0
        /\ d.op \in {"enable", "restore"} => d.below[d.g] = 0 /\ Held(r2, d, d.g) = 0
    BY <1>4, <1>5, <1>6, <1>8, <1>11, <1>12
  <2>5. /\ r2.who = "radio" =>
             /\ "sys" \notin d.of \cup d.left \cup {d.g}
             /\ \A k \in DOMAIN r2.sections : "sys" \notin r2.sections[k].of
        /\ d.of = {"irq"} \/ d.of \subseteq Group
        /\ \A k \in DOMAIN r2.sections : r2.sections[k].of = {"irq"} \/ r2.sections[k].of \subseteq Group
    BY <1>1, <1>3 DEF Fits
  <2> QED
    BY <1>3, <1>5, <2>1, <2>2, <2>3, <2>4, <2>5 DEF Fits
<1>14. ASSUME NEW j \in 1 .. n - 1, calls[j].op \in MidOps PROVE Excused(r2, d)
  <2>1. Excused(r, c)
    BY <1>14, StaysExcused
  <2>2. d.op \in OpeningOps => c.op \in OpeningOps
    BY <1>5, <1>6 DEF OpeningOps
  <2> QED
    BY <1>3, <2>1, <2>2 DEF Excused
<1>15. \A g \in Group : Closed(r2, d, g) => Closed(r, c, g)
  BY <1>8, <1>9 DEF Closed
<1>16. \A line \in {"radio", "low"} : Enables(r, c, line) => Enables(r2, d, line)
  BY <1>3, <1>5, <1>6, <1>8 DEF Enables
<1>17. Restores(r, c) => Restores(r2, d)
  <2>1. c.op = "open" /\ c.g = "sys" => d.op \in {"open", "restore"}
    <3>1. IsCode(d) /\ <<c.op, d.op>> \in Turns
      OBVIOUS
    <3> QED
      BY <3>1 DEF IsCode, Turns
  <2> QED
    BY <1>5, <1>8, <1>9, <2>1 DEF Restores
<1>18. MasksAll(r2, d) <=> MasksAll(r, c)
  BY <1>5, <1>8 DEF MasksAll
<1>19. running' = [running EXCEPT ![n] = r2]
  BY DEF r2
<1>20. RegisterTypes(nvic', mask', counter', saved')
  BY <1>1
<1>21. Evenly(calls, n, r, c, r2, d)
  BY <1>2, <1>3, <1>8, <1>13, <1>14, <1>15, <1>16, <1>17, <1>18, <1>19, <1>20 DEF Evenly
<1> QED
  BY <1>21, EvenStep

-----------------------------------------------------------------------------

(* The core at a step of its own.                                           *)
LEMMA GoesIs ==
  ASSUME NEW calls, NEW n, NEW r, NEW c, TopOf(calls, n, r, c), c.op \notin {"opening", "rest", "return"}
  PROVE  /\ Arg = HeadOf(c)[2] /\ CodeOf(GoesOn(c), r.who) \in Seq(Step)
         /\ \A s : CoreRuns(s) =>
              running' = [running EXCEPT ![n] = [r EXCEPT !.code = s \o CodeOf(GoesOn(c), r.who)]]
         /\ CoreRuns(<<>>) => running' = [running EXCEPT ![n] = [r EXCEPT !.code = CodeOf(GoesOn(c), r.who)]]
<1> HIDE DEF Step
<1>1. r \in Context /\ Fits(r, c)
  BY TopIs
<1> DEFINE a == HeadOf(c)
           rest == CodeOf(GoesOn(c), r.who)
<1>2. a \in Step /\ rest \in Seq(Step) /\ CodeOf(c, r.who) = Then(a, rest)
  BY <1>1, GoesOnIs
<1> HIDE DEF a, rest
<1>3. ASSUME NEW s
      PROVE  Arg = a[2] /\ (CoreRuns(s) => running' = [running EXCEPT ![n] = [r EXCEPT !.code = s \o rest]])
  BY <1>2, RunsOn
<1>4. <<>> \o rest = rest
  BY <1>2, ConcatEmptySeq
<1> QED
  BY <1>2, <1>3, <1>4 DEF a, rest

(* There is a topmost context.                                              *)
LEMMA TopExists ==
  ASSUME RadioIInv
  PROVE  \E calls : TopOf(calls, Len(running), running[Len(running)], calls[Len(running)])
BY DEF RadioIInv, TopOf

(* Interrupts disabled: PRIMASK is saved.                                   *)
LEMMA SavePrimaskStep ==
  ASSUME RadioIInv, SavePrimask
  PROVE  RadioIInv'
<1>1. PICK calls : TopOf(calls, Len(running), running[Len(running)], calls[Len(running)])
  BY TopExists
<1> DEFINE n == Len(running)
           r == running[n]
           c == calls[n]
<1>2. TopOf(calls, n, r, c)
  BY <1>1
<1> HIDE DEF n, r, c
<1>3. Label(c) = "save_primask" /\ c \in LibraryCall /\ RegisterTypes(nvic, mask, counter, saved) /\ Fits(r, c)
  BY <1>2, TopIs DEF SavePrimask
<1>4. c.op = "irq_save"
  BY <1>3 DEF Label, LibraryCall, OpeningOps, ClosingOps, IrqOps, HandlerOps, OtherOps
<1>5. running' = [running EXCEPT ![n] = [r EXCEPT !.code = CodeOf(GoesOn(c), r.who)]]
  <2>1. c.op \notin {"opening", "rest", "return"} /\ CoreRuns(<<>>)
    BY <1>4 DEF SavePrimask
  <2> QED
    BY <1>2, <2>1, GoesIs
<1>6. counter.irq = 0 => ~mask.primask
  <2>1. counter["irq"] = c.below["irq"] + Held(r, c, "irq") /\ c.below["irq"] \in Nat /\ Held(r, c, "irq") \in Nat
    BY <1>2, BelowIs DEF CountedKind
  <2>2. mask.primask <=> MasksAll(r, c)
    BY <1>2 DEF TopOf, Follows, PrimaskIs
  <2>3. counter["irq"] = 0 => Held(r, c, "irq") = 0
    BY <2>1
  <2>4. counter.irq = 0 => ~MasksAll(r, c)
    <3>1. Held(r, c, "irq") = 0 => ~MasksAll(r, c)
      BY <1>4 DEF MasksAll
    <3>2. counter.irq = counter["irq"]
      OBVIOUS
    <3> QED
      BY <2>3, <3>1, <3>2
  <2> QED
    BY <2>2, <2>4
<1>7. RegisterTypes(nvic', mask', counter', saved')
  BY <1>3, <1>6 DEF RegisterTypes, SavePrimask
<1> QED
  BY <1>2, <1>4, <1>5, <1>7, GoesEvenly DEF EvenOps, SavePrimask

(* The system's interrupts masked: BASEPRI is saved.                        *)
LEMMA SaveBasepriStep ==
  ASSUME RadioIInv, SaveBasepri
  PROVE  RadioIInv'
<1>1. PICK calls : TopOf(calls, Len(running), running[Len(running)], calls[Len(running)])
  BY TopExists
<1> DEFINE n == Len(running)
           r == running[n]
           c == calls[n]
<1>2. TopOf(calls, n, r, c) /\ n = Len(running) /\ r = running[n] /\ c = calls[n]
  BY <1>1
<1> HIDE DEF n, r, c
<1>3. Label(c) = "save_basepri" /\ c \in LibraryCall /\ RegisterTypes(nvic, mask, counter, saved) /\ Fits(r, c)
  BY <1>2, TopIs DEF SaveBasepri
<1>0. n \in Nat /\ n > 0
  BY <1>2, TopIs
<1>4. c.op = "save"
  BY <1>3 DEF Label, LibraryCall, OpeningOps, ClosingOps, IrqOps, HandlerOps, OtherOps
<1>5. running' = [running EXCEPT ![n] = [r EXCEPT !.code = CodeOf(GoesOn(c), r.who)]]
  <2>1. c.op \notin {"opening", "rest", "return"} /\ CoreRuns(<<>>)
    BY <1>4 DEF SaveBasepri
  <2> QED
    BY <1>2, <2>1, GoesIs
<1>6. mask.basepri = 0
  <2> SUFFICES ASSUME mask.basepri # 0 PROVE FALSE
    OBVIOUS
  <2>1. c.g = "sys" /\ r.who # "radio" /\ Sections(r, "sys") = 0
    BY <1>3, <1>4 DEF Fits
  <2>2. Closures(running, calls, nvic.enabled, mask.basepri)
    BY <1>2 DEF TopOf, Follows
  <2>3. PICK i \in 1 .. n : Restores(running[i], calls[i]) /\ \A j \in i + 1 .. n : running[j].who = "radio"
    BY <1>2, <2>2 DEF Closures
  <2>4. i = n
    <3>1. i # n => n \in i + 1 .. n
      BY <1>0
    <3> QED
      BY <1>2, <2>1, <2>3, <3>1
  <2> QED
    BY <1>2, <1>4, <2>1, <2>3, <2>4 DEF Restores, Mid, MidOps
<1>7. RegisterTypes(nvic', mask', counter', saved')
  BY <1>3, <1>6 DEF RegisterTypes, SaveBasepri
<1> QED
  BY <1>2, <1>4, <1>5, <1>7, GoesEvenly DEF EvenOps, SaveBasepri

(* The low interrupt is given a priority, marked as nested, or requested.   *)
LEMMA HandlerSteps ==
  ASSUME RadioIInv, SetPriority \/ SetNested \/ PendLow
  PROVE  RadioIInv'
<1>1. PICK calls : TopOf(calls, Len(running), running[Len(running)], calls[Len(running)])
  BY TopExists
<1> DEFINE n == Len(running)
           r == running[n]
           c == calls[n]
<1>2. TopOf(calls, n, r, c)
  BY <1>1
<1> HIDE DEF n, r, c
<1>3. /\ c \in LibraryCall /\ IsCode(c) /\ RegisterTypes(nvic, mask, counter, saved)
      /\ \A op : CoreAt(op) <=> Label(c) = op
  BY <1>2, TopIs
<1>4. Label(c) \in {"priority", "nested", "pend_low"} => c.op \in {"priority", "low_prio", "nest", "low_clear", "pend"}
  BY <1>3 DEF Label, LibraryCall, OpeningOps, ClosingOps, IrqOps, HandlerOps, OtherOps
<1>5. Label(c) \in {"priority", "nested", "pend_low"}
  BY <1>3 DEF SetPriority, SetNested, PendLow
<1>6. c.op \in {"priority", "low_prio", "nest", "low_clear", "pend"}
  BY <1>4, <1>5
<1>7. running' = [running EXCEPT ![n] = [r EXCEPT !.code = CodeOf(GoesOn(c), r.who)]] /\ Arg = HeadOf(c)[2]
  <2>1. c.op \notin {"opening", "rest", "return"} /\ CoreRuns(<<>>)
    BY <1>6 DEF SetPriority, SetNested, PendLow
  <2> QED
    BY <1>2, <2>1, GoesIs
<1>8. RegisterTypes(nvic', mask', counter', saved') /\ nvic'.enabled = nvic.enabled /\ mask' = mask /\ counter' = counter
  <2>1. CASE SetPriority
    <3>1. c.op \in {"priority", "low_prio"}
      BY <1>3, <1>6, <2>1 DEF SetPriority, Label
    <3>2. Arg \in {RADIO_PRIO_LOW, RADIO_SW_LOW_INTR_PRIO}
      BY <1>3, <1>7, <3>1 DEF HeadOf, IsCode, LibraryCall
    <3> QED
      BY <1>3, <2>1, <3>2 DEF SetPriority, RegisterTypes
  <2>2. CASE SetNested
    <3>0. Label(c) = "nested"
      BY <1>3, <2>2 DEF SetNested
    <3>1. c.op \in {"nest", "low_clear"}
      BY <1>6, <3>0 DEF Label
    <3>2. Arg \in BOOLEAN
      BY <1>7, <3>1 DEF HeadOf
    <3> QED
      BY <1>3, <2>2, <3>2 DEF SetNested, RegisterTypes
  <2>3. CASE PendLow
    BY <1>3, <2>3 DEF PendLow, RegisterTypes
  <2> QED
    BY <2>1, <2>2, <2>3
<1> QED
  BY <1>2, <1>6, <1>7, <1>8, GoesEvenly DEF EvenOps

-----------------------------------------------------------------------------

(* One step put before a code.                                              *)
LEMMA ThenOne ==
  ASSUME NEW a \in Step, NEW s \in Seq(Step)
  PROVE  <<a>> \o s = Then(a, s)
BY DEF Then

(* The first section of a group shuts its interrupt, any other goes on.     *)
LEMMA CloseIfFirstStep ==
  ASSUME RadioIInv, CloseIfFirst
  PROVE  RadioIInv'
<1>1. PICK calls : TopOf(calls, Len(running), running[Len(running)], calls[Len(running)])
  BY TopExists
<1> DEFINE n == Len(running)
           r == running[n]
           c == calls[n]
<1>2. TopOf(calls, n, r, c)
  BY <1>1
<1> HIDE DEF n, r, c
<1>3. Label(c) = "close_if_first" /\ c \in LibraryCall /\ IsCode(c) /\ RegisterTypes(nvic, mask, counter, saved)
  BY <1>2, TopIs DEF CloseIfFirst
<1>4. c.op = "close" /\ c.g \in Group
  BY <1>3 DEF Label, LibraryCall, OpeningOps, ClosingOps, IrqOps, HandlerOps, OtherOps
<1>5. Arg = c.g
  <2>1. Arg = HeadOf(c)[2]
    BY <1>2, <1>4, GoesIs
  <2> QED
    BY <1>4, <2>1 DEF HeadOf
<1>6. CASE counter[c.g] # 1
  <2>1. CoreRuns(<<>>)
    BY <1>5, <1>6 DEF CloseIfFirst
  <2>2. running' = [running EXCEPT ![n] = [r EXCEPT !.code = CodeOf(GoesOn(c), r.who)]]
    BY <1>2, <1>4, <2>1, GoesIs
  <2>3. RegisterTypes(nvic', mask', counter', saved')
    BY <1>3 DEF CloseIfFirst
  <2> QED
    BY <1>2, <1>4, <1>6, <2>2, <2>3, GoesEvenly DEF EvenOps, CloseIfFirst
<1>7. CASE counter[c.g] = 1
  <2> DEFINE d == [c EXCEPT !.op = IF c.g = "sys" THEN "save" ELSE "disable"]
  <2>1. /\ d \in LibraryCall /\ d.of = c.of /\ d.sound = c.sound /\ d.left = c.left /\ d.g = c.g /\ d.below = c.below
        /\ d.op = (IF c.g = "sys" THEN "save" ELSE "disable") /\ d.arg = c.arg
    BY <1>3 DEF LibraryCall, OpeningOps
  <2> HIDE DEF d
  <2>2. IsCode(d)
    BY <2>1 DEF IsCode
  <2>3. CoreRuns(Closing(c.g))
    BY <1>5, <1>7 DEF CloseIfFirst
  <2>4. running' = [running EXCEPT ![n] = [r EXCEPT !.code = Closing(c.g) \o CodeOf(GoesOn(c), r.who)]]
    BY <1>2, <1>4, <2>3, GoesIs
  <2>5. Closing(c.g) \o CodeOf(GoesOn(c), r.who) = CodeOf(d, r.who)
    <3>1. CodeOf(GoesOn(c), r.who) = Opening(c, r.who)
      <4>1. /\ GoesOn(c).op = "opening" /\ GoesOn(c).left = c.left /\ GoesOn(c).of = c.of /\ GoesOn(c).sound = c.sound
        BY <1>3, <1>4 DEF GoesOn, NextOp, LibraryCall
      <4> QED
        BY <4>1 DEF CodeOf, Opening
    <3>2. Opening(d, r.who) = Opening(c, r.who) /\ Opening(c, r.who) \in Seq(Step)
      BY <1>3, <2>1, PartsAre DEF Opening
    <3>3. CASE c.g = "sys"
      <4>1. Closing(c.g) = <<<<"save_basepri">>, <<"set_basepri">>>>
        BY <3>3 DEF Closing
      <4>2. CodeOf(d, r.who) = Then(<<"save_basepri">>, Then(<<"set_basepri">>, Opening(c, r.who)))
        BY <2>1, <3>2, <3>3 DEF CodeOf
      <4>3. <<"save_basepri">> \in Step /\ <<"set_basepri">> \in Step
        BY StepsUsed
      <4> QED
        BY <3>1, <3>2, <4>1, <4>2, <4>3, ThenTwo
    <3>4. CASE c.g # "sys"
      <4>1. Closing(c.g) = <<<<"disable", LineOf[c.g]>>>>
        BY <3>4 DEF Closing
      <4>2. CodeOf(d, r.who) = Then(<<"disable", LineOf[c.g]>>, Opening(c, r.who))
        BY <2>1, <3>2, <3>4 DEF CodeOf
      <4>3. LineOf[c.g] \in {"radio", "low"}
        BY <1>4, <3>4 DEF LineOf, Group
      <4>4. <<"disable", LineOf[c.g]>> \in Step
        BY <4>3, StepsUsed
      <4> QED
        BY <3>1, <3>2, <4>1, <4>2, <4>4, ThenOne
    <3> QED
      BY <3>3, <3>4
  <2>6. running' = [running EXCEPT ![n] = [r EXCEPT !.code = CodeOf(d, r.who)]]
    BY <2>4, <2>5
  <2>7. <<c.op, d.op>> \in Turns /\ (d.op = "save" => c.g = "sys") /\ d.op # "restore" /\ c.op # "open"
    BY <1>4, <2>1 DEF Turns
  <2>8. UNCHANGED <<nvic, mask, counter, saved>>
    BY DEF CloseIfFirst
  <2> QED
    <3>1. (c.op = "close" => counter[c.g] = 1) /\ (c.op = "open" => counter[c.g] = 0) /\ (d.op = "restore" => c.g = "sys")
      BY <1>7, <2>7
    <3>2. <<c.op, d.op>> \in Turns /\ (d.op = "save" => c.g = "sys")
      BY <2>7
    <3>3. d.of = c.of /\ d.sound = c.sound /\ d.left = c.left /\ d.g = c.g /\ d.below = c.below
      BY <2>1
    <3> QED
      BY <1>2, <2>2, <2>6, <2>8, <3>1, <3>2, <3>3, TurnsEvenly
<1> QED
  BY <1>6, <1>7

(* The last section of a group lets its interrupt in, any other goes on.    *)
LEMMA OpenIfLastStep ==
  ASSUME RadioIInv, OpenIfLast
  PROVE  RadioIInv'
<1>1. PICK calls : TopOf(calls, Len(running), running[Len(running)], calls[Len(running)])
  BY TopExists
<1> DEFINE n == Len(running)
           r == running[n]
           c == calls[n]
<1>2. TopOf(calls, n, r, c)
  BY <1>1
<1> HIDE DEF n, r, c
<1>3. Label(c) = "open_if_last" /\ c \in LibraryCall /\ IsCode(c) /\ RegisterTypes(nvic, mask, counter, saved)
  BY <1>2, TopIs DEF OpenIfLast
<1>4. c.op = "open" /\ c.g \in Group
  BY <1>3 DEF Label, LibraryCall, OpeningOps, ClosingOps, IrqOps, HandlerOps, OtherOps
<1>5. Arg = c.g
  <2>1. Arg = HeadOf(c)[2]
    BY <1>2, <1>4, GoesIs
  <2> QED
    BY <1>4, <2>1 DEF HeadOf
<1>6. CASE counter[c.g] # 0
  <2>1. CoreRuns(<<>>)
    BY <1>5, <1>6 DEF OpenIfLast
  <2>2. running' = [running EXCEPT ![n] = [r EXCEPT !.code = CodeOf(GoesOn(c), r.who)]]
    BY <1>2, <1>4, <2>1, GoesIs
  <2>3. RegisterTypes(nvic', mask', counter', saved')
    BY <1>3 DEF OpenIfLast
  <2> QED
    BY <1>2, <1>4, <1>6, <2>2, <2>3, GoesEvenly DEF EvenOps, OpenIfLast
<1>7. CASE counter[c.g] = 0
  <2> DEFINE d == [c EXCEPT !.op = IF c.g = "sys" THEN "restore" ELSE "enable"]
             step == IF c.g = "sys" THEN <<"restore_basepri">> ELSE <<"enable", LineOf[c.g]>>
  <2>1. /\ d \in LibraryCall /\ d.of = c.of /\ d.sound = c.sound /\ d.left = c.left /\ d.g = c.g /\ d.below = c.below
        /\ d.op = (IF c.g = "sys" THEN "restore" ELSE "enable") /\ d.arg = c.arg
    BY <1>3 DEF LibraryCall, ClosingOps
  <2> HIDE DEF d
  <2>2. IsCode(d)
    BY <2>1 DEF IsCode
  <2>3. CoreRuns(<<step>>)
    <3>1. CASE c.g = "sys"
      BY <1>5, <1>7, <3>1 DEF OpenIfLast
    <3>2. CASE c.g # "sys"
      BY <1>5, <1>7, <3>2 DEF OpenIfLast
    <3> QED
      BY <3>1, <3>2
  <2>4. running' = [running EXCEPT ![n] = [r EXCEPT !.code = <<step>> \o CodeOf(GoesOn(c), r.who)]]
    <3> DEFINE s == <<step>>
    <3>1. c.op \notin {"opening", "rest", "return"} /\ CoreRuns(s)
      BY <1>4, <2>3
    <3> HIDE DEF s
    <3>2. running' = [running EXCEPT ![n] = [r EXCEPT !.code = s \o CodeOf(GoesOn(c), r.who)]]
      BY <1>2, <3>1, GoesIs
    <3> QED
      BY <3>2 DEF s
  <2>5. <<step>> \o CodeOf(GoesOn(c), r.who) = CodeOf(d, r.who)
    <3>1. CodeOf(GoesOn(c), r.who) = Rest(c, r.who)
      <4>1. GoesOn(c).op = "rest" /\ GoesOn(c).left = c.left
        BY <1>3, <1>4 DEF GoesOn, NextOp, LibraryCall
      <4> QED
        BY <4>1 DEF CodeOf, Rest
    <3>2. Rest(d, r.who) = Rest(c, r.who) /\ Rest(c, r.who) \in Seq(Step)
      BY <1>3, <2>1, PartsAre DEF Rest
    <3>3. CodeOf(d, r.who) = Then(step, Rest(c, r.who))
      <4>1. CASE c.g = "sys"
        BY <2>1, <3>2, <4>1 DEF CodeOf
      <4>2. CASE c.g # "sys"
        BY <2>1, <3>2, <4>2 DEF CodeOf
      <4> QED
        BY <4>1, <4>2
    <3>4. step \in Step
      <4>1. c.g # "sys" => LineOf[c.g] \in {"radio", "low"}
        BY <1>4 DEF LineOf, Group
      <4> QED
        BY <4>1, StepsUsed
    <3> QED
      BY <3>1, <3>2, <3>3, <3>4, ThenOne
  <2>6. running' = [running EXCEPT ![n] = [r EXCEPT !.code = CodeOf(d, r.who)]]
    BY <2>4, <2>5
  <2>7. <<c.op, d.op>> \in Turns /\ (d.op = "restore" => c.g = "sys") /\ d.op # "save" /\ c.op # "close"
    BY <1>4, <2>1 DEF Turns
  <2>8. UNCHANGED <<nvic, mask, counter, saved>>
    BY DEF OpenIfLast
  <2> QED
    BY <1>2, <1>7, <2>1, <2>2, <2>6, <2>7, <2>8, TurnsEvenly
<1> QED
  BY <1>6, <1>7

(* The low interrupt is triggered with a priority.                          *)
LEMMA TriggerStep ==
  ASSUME RadioIInv, Trigger
  PROVE  RadioIInv'
<1>1. PICK calls : TopOf(calls, Len(running), running[Len(running)], calls[Len(running)])
  BY TopExists
<1> DEFINE n == Len(running)
           r == running[n]
           c == calls[n]
<1>2. TopOf(calls, n, r, c)
  BY <1>1
<1> HIDE DEF n, r, c
<1>3. Label(c) = "trigger" /\ c \in LibraryCall /\ IsCode(c) /\ RegisterTypes(nvic, mask, counter, saved)
  BY <1>2, TopIs DEF Trigger
<1>4. c.op = "trigger"
  BY <1>3 DEF Label, LibraryCall, OpeningOps, ClosingOps, IrqOps, HandlerOps, OtherOps
<1>5. CodeOf(GoesOn(c), r.who) = Pend(r.who) /\ Pend(r.who) \in Seq(Step)
  <2>1. GoesOn(c).op = "pend"
    BY <1>3, <1>4 DEF GoesOn, NextOp, LibraryCall
  <2> QED
    BY <2>1, BasesAre DEF CodeOf
<1> DEFINE p == IF Arg = 0 THEN RADIO_SW_LOW_INTR_PRIO ELSE RADIO_PRIO_LOW
<1>6. \/ CoreRuns(<<>>) \/ CoreRuns(<<<<"priority", p>>>>) \/ CoreRuns(<<<<"nested", TRUE>>>>)
  BY DEF Trigger
<1>7. UNCHANGED <<nvic, mask, counter, saved>>
  BY DEF Trigger
<1>8. p \in {RADIO_PRIO_LOW, RADIO_SW_LOW_INTR_PRIO}
  OBVIOUS
<1> HIDE DEF p
<1>9. CASE CoreRuns(<<>>)
  <2>1. running' = [running EXCEPT ![n] = [r EXCEPT !.code = CodeOf(GoesOn(c), r.who)]]
    BY <1>2, <1>4, <1>9, GoesIs
  <2>2. RegisterTypes(nvic', mask', counter', saved')
    BY <1>3, <1>7
  <2> QED
    BY <1>2, <1>4, <1>7, <2>1, <2>2, GoesEvenly DEF EvenOps
<1>10. CASE CoreRuns(<<<<"priority", p>>>>)
  <2> DEFINE d == [c EXCEPT !.op = "priority", !.arg = p]
  <2>1. /\ d \in LibraryCall /\ d.of = c.of /\ d.sound = c.sound /\ d.left = c.left /\ d.g = c.g /\ d.below = c.below
        /\ d.op = "priority" /\ d.arg = p
    BY <1>3, <1>8 DEF LibraryCall, OtherOps
  <2> HIDE DEF d
  <2>2. IsCode(d)
    BY <1>8, <2>1 DEF IsCode, RADIO_PRIO_LOW, RADIO_SW_LOW_INTR_PRIO
  <2>3. CodeOf(d, r.who) = Then(<<"priority", p>>, Pend(r.who))
    BY <2>1 DEF CodeOf
  <2>4. <<"priority", p>> \in Step
    BY <1>8, StepsUsed
  <2>5. <<<<"priority", p>>>> \o Pend(r.who) = CodeOf(d, r.who)
    BY <1>5, <2>3, <2>4, ThenOne
  <2>6. running' = [running EXCEPT ![n] = [r EXCEPT !.code = CodeOf(d, r.who)]]

    <3> DEFINE s == <<<<"priority", p>>>>
    <3>a. CoreRuns(s) /\ c.op \notin {"opening", "rest", "return"}
      BY <1>4, <1>10
    <3> HIDE DEF s
    <3>b. running' = [running EXCEPT ![n] = [r EXCEPT !.code = s \o CodeOf(GoesOn(c), r.who)]]
      BY <1>2, <3>a, GoesIs
    <3>1. running' = [running EXCEPT ![n] = [r EXCEPT !.code = <<<<"priority", p>>>> \o CodeOf(GoesOn(c), r.who)]]
      BY <3>b DEF s
    <3> QED
      BY <1>5, <2>5, <3>1
  <2>7. <<c.op, d.op>> \in Turns
    BY <1>4, <2>1 DEF Turns
  <2> QED
    BY <1>2, <1>4, <1>7, <2>1, <2>2, <2>6, <2>7, TurnsEvenly
<1>11. CASE CoreRuns(<<<<"nested", TRUE>>>>)
  <2> DEFINE d == [c EXCEPT !.op = "nest"]
  <2>1. /\ d \in LibraryCall /\ d.of = c.of /\ d.sound = c.sound /\ d.left = c.left /\ d.g = c.g /\ d.below = c.below
        /\ d.op = "nest"
    BY <1>3 DEF LibraryCall, OtherOps
  <2> HIDE DEF d
  <2>2. IsCode(d)
    BY <2>1 DEF IsCode
  <2>3. CodeOf(d, r.who) = Then(<<"nested", TRUE>>, Pend(r.who))
    BY <2>1 DEF CodeOf
  <2>4. <<"nested", TRUE>> \in Step
    BY StepsUsed
  <2>5. <<<<"nested", TRUE>>>> \o Pend(r.who) = CodeOf(d, r.who)
    BY <1>5, <2>3, <2>4, ThenOne
  <2>6. running' = [running EXCEPT ![n] = [r EXCEPT !.code = CodeOf(d, r.who)]]

    <3> DEFINE s == <<<<"nested", TRUE>>>>
    <3>a. CoreRuns(s) /\ c.op \notin {"opening", "rest", "return"}
      BY <1>4, <1>11
    <3> HIDE DEF s
    <3>b. running' = [running EXCEPT ![n] = [r EXCEPT !.code = s \o CodeOf(GoesOn(c), r.who)]]
      BY <1>2, <3>a, GoesIs
    <3>1. running' = [running EXCEPT ![n] = [r EXCEPT !.code = <<<<"nested", TRUE>>>> \o CodeOf(GoesOn(c), r.who)]]
      BY <3>b DEF s
    <3> QED
      BY <1>5, <2>5, <3>1
  <2>7. <<c.op, d.op>> \in Turns
    BY <1>4, <2>1 DEF Turns
  <2> QED
    BY <1>2, <1>4, <1>7, <2>1, <2>2, <2>6, <2>7, TurnsEvenly
<1> QED
  BY <1>6, <1>9, <1>10, <1>11

(* The low interrupt's handler asks whether it was triggered meanwhile.     *)
LEMMA TestNestedStep ==
  ASSUME RadioIInv, TestNested
  PROVE  RadioIInv'
<1>1. PICK calls : TopOf(calls, Len(running), running[Len(running)], calls[Len(running)])
  BY TopExists
<1> DEFINE n == Len(running)
           r == running[n]
           c == calls[n]
<1>2. TopOf(calls, n, r, c)
  BY <1>1
<1> HIDE DEF n, r, c
<1>3. Label(c) = "test_nested" /\ c \in LibraryCall /\ IsCode(c) /\ RegisterTypes(nvic, mask, counter, saved)
  BY <1>2, TopIs DEF TestNested
<1>4. c.op = "test_nested"
  BY <1>3 DEF Label, LibraryCall, OpeningOps, ClosingOps, IrqOps, HandlerOps, OtherOps
<1>5. CodeOf(GoesOn(c), r.who) = LastOf /\ LastOf \in Seq(Step)
  <2>1. GoesOn(c).op = "last"
    BY <1>3, <1>4 DEF GoesOn, NextOp, LibraryCall
  <2> QED
    BY <2>1, BasesAre DEF CodeOf
<1>6. CoreRuns(<<>>) \/ CoreRuns(<<<<"priority", RADIO_PRIO_LOW>>, <<"nested", FALSE>>>>)
  BY DEF TestNested
<1>7. UNCHANGED <<nvic, mask, counter, saved>>
  BY DEF TestNested
<1>8. CASE CoreRuns(<<>>)
  <2>1. running' = [running EXCEPT ![n] = [r EXCEPT !.code = CodeOf(GoesOn(c), r.who)]]
    BY <1>2, <1>4, <1>8, GoesIs
  <2>2. RegisterTypes(nvic', mask', counter', saved')
    BY <1>3, <1>7
  <2> QED
    BY <1>2, <1>4, <1>7, <2>1, <2>2, GoesEvenly DEF EvenOps
<1>9. CASE CoreRuns(<<<<"priority", RADIO_PRIO_LOW>>, <<"nested", FALSE>>>>)
  <2> DEFINE d == [c EXCEPT !.op = "low_prio"]
  <2>1. /\ d \in LibraryCall /\ d.of = c.of /\ d.sound = c.sound /\ d.left = c.left /\ d.g = c.g /\ d.below = c.below
        /\ d.op = "low_prio"
    BY <1>3 DEF LibraryCall, HandlerOps
  <2> HIDE DEF d
  <2>2. IsCode(d)
    BY <2>1 DEF IsCode
  <2>3. CodeOf(d, r.who) = Then(<<"priority", RADIO_PRIO_LOW>>, Then(<<"nested", FALSE>>, LastOf))
    BY <2>1 DEF CodeOf, ClearNested
  <2>4. <<"priority", RADIO_PRIO_LOW>> \in Step /\ <<"nested", FALSE>> \in Step
    BY StepsUsed
  <2>5. <<<<"priority", RADIO_PRIO_LOW>>, <<"nested", FALSE>>>> \o LastOf = CodeOf(d, r.who)
    BY <1>5, <2>3, <2>4, ThenTwo
  <2>6. running' = [running EXCEPT ![n] = [r EXCEPT !.code = CodeOf(d, r.who)]]

    <3> DEFINE s == <<<<"priority", RADIO_PRIO_LOW>>, <<"nested", FALSE>>>>
    <3>a. CoreRuns(s) /\ c.op \notin {"opening", "rest", "return"}
      BY <1>4, <1>9
    <3> HIDE DEF s
    <3>b. running' = [running EXCEPT ![n] = [r EXCEPT !.code = s \o CodeOf(GoesOn(c), r.who)]]
      BY <1>2, <3>a, GoesIs
    <3>1. running' = [running EXCEPT ![n] = [r EXCEPT !.code = <<<<"priority", RADIO_PRIO_LOW>>, <<"nested", FALSE>>>> \o CodeOf(GoesOn(c), r.who)]]
      BY <3>b DEF s
    <3> QED
      BY <1>5, <2>5, <3>1
  <2>7. <<c.op, d.op>> \in Turns
    BY <1>4, <2>1 DEF Turns
  <2> QED
    BY <1>2, <1>4, <1>7, <2>1, <2>2, <2>6, <2>7, TurnsEvenly
<1> QED
  BY <1>6, <1>8, <1>9

-----------------------------------------------------------------------------

(* The context that masks all is the one that runs.                         *)
LEMMA NoneBelowMasks ==
  ASSUME NEW calls, NEW n, NEW r, NEW c, TopOf(calls, n, r, c)
  PROVE  /\ c.below["irq"] = 0 /\ counter["irq"] = Held(r, c, "irq") /\ Held(r, c, "irq") \in Nat
         /\ mask.primask <=> MasksAll(r, c)
<1>1. n = Len(running) /\ r = running[n] /\ c = calls[n] /\ PrimaskIs(running, calls, mask.primask)
  BY DEF TopOf, Follows
<1>2. "irq" \in CountedKind
  BY DEF CountedKind
<1>3. c.below["irq"] \in Nat /\ counter["irq"] = c.below["irq"] + Held(r, c, "irq") /\ Held(r, c, "irq") \in Nat
  BY <1>2, BelowIs
<1>4. ASSUME c.below["irq"] > 0 PROVE FALSE
  <2>1. PICK j \in 1 .. n - 1 : Held(running[j], calls[j], "irq") > 0
    BY <1>2, <1>4, BelowIs
  <2>2. ~MasksAll(running[j], calls[j])
    BY <1>1, <2>1 DEF PrimaskIs
  <2> QED
    BY <2>1, <2>2 DEF MasksAll
<1>5. mask.primask <=> MasksAll(r, c)
  BY <1>1 DEF PrimaskIs
<1> QED
  BY <1>3, <1>4, <1>5

(* A step of a call that masks all.                                         *)
LEMMA MaskingStep ==
  ASSUME NEW calls, NEW n, NEW r, NEW c, TopOf(calls, n, r, c),
         c.op \in {"irq_set", "irq_count", "irq_uncount", "irq_restore"},
         running' = [running EXCEPT ![n] = [r EXCEPT !.code = CodeOf(GoesOn(c), r.who)]],
         RegisterTypes(nvic', mask', counter', saved'),
         nvic'.enabled = nvic.enabled, mask'.basepri = mask.basepri,
         \A g \in Group : counter'[g] = counter[g],
         counter'["irq"] = IF c.op = "irq_count" THEN counter["irq"] + 1
                           ELSE IF c.op = "irq_uncount" THEN counter["irq"] - 1 ELSE counter["irq"],
         mask'.primask <=> IF c.op = "irq_restore" THEN counter["irq"] # 0 ELSE TRUE
  PROVE  RadioIInv'
<1> DEFINE r2 == [r EXCEPT !.code = CodeOf(GoesOn(c), r.who)]
           d == GoesOn(c)
<1>1. r \in Context /\ c \in LibraryCall /\ Fits(r, c) /\ n \in Nat /\ n > 0
  BY TopIs
<1>2. c.op \notin {"opening", "rest", "return"}
  OBVIOUS
<1>3. /\ d \in LibraryCall /\ r2 \in Context /\ Fits(r2, d)
      /\ r2.who = r.who /\ r2.sections = r.sections
      /\ d.op = NextOp(c.op) /\ d.of = c.of /\ d.sound = c.sound /\ d.left = c.left
      /\ d.g = c.g /\ d.below = c.below
      /\ \A g : Sections(r2, g) = Sections(r, g)
  BY <1>1, <1>2, GoesOnIs
<1> HIDE DEF r2, d
<1>4. d.op = IF c.op = "irq_set" THEN "irq_count" ELSE IF c.op = "irq_count" THEN "opening"
             ELSE IF c.op = "irq_uncount" THEN "irq_restore" ELSE "rest"
  BY <1>3 DEF NextOp
<1>5. c.left = {} /\ (c.op = "irq_count" => c.of = {"irq"})
  BY <1>1 DEF Fits, OpeningOps, ClosingOps
<1>6. \A g \in Group : ~Counts(c, g) /\ ~Counts(d, g)
  BY <1>3, <1>4, <1>5 DEF Counts, Group, OpeningOps, ClosingOps
<1>7. /\ Counts(c, "irq") <=> c.op = "irq_uncount"
      /\ Counts(d, "irq") <=> c.op = "irq_count"
  BY <1>3, <1>4, <1>5 DEF Counts, OpeningOps, ClosingOps
<1>8. \A g \in Group : Held(r2, d, g) = Held(r, c, g)
  BY <1>3, <1>6 DEF Held
<1>9. /\ c.below["irq"] = 0 /\ counter["irq"] = Held(r, c, "irq") /\ Held(r, c, "irq") \in Nat
      /\ Sections(r, "irq") \in Nat
  BY <1>1, NoneBelowMasks, SectionsAre
<1>10. Held(r, c, "irq") = Sections(r, "irq") + (IF c.op = "irq_uncount" THEN 1 ELSE 0)
  BY <1>7 DEF Held
<1>11. Held(r2, d, "irq") = Sections(r, "irq") + (IF c.op = "irq_count" THEN 1 ELSE 0)
  BY <1>3, <1>7 DEF Held
<1>12. \A g \in CountedKind : counter'[g] = d.below[g] + Held(r2, d, g)
  <2>1. counter'["irq"] = d.below["irq"] + Held(r2, d, "irq")
    BY <1>3, <1>9, <1>10, <1>11
  <2>2. ASSUME NEW g \in Group PROVE counter'[g] = d.below[g] + Held(r2, d, g)
    <3>1. counter[g] = c.below[g] + Held(r, c, g)
      BY BelowIs DEF Group, CountedKind
    <3> QED
      BY <1>3, <1>8, <3>1
  <2> QED
    BY <2>1, <2>2 DEF Group, CountedKind
<1>13. ASSUME NEW j \in 1 .. n - 1, calls[j].op \in MidOps PROVE Excused(r2, d)
  <2>1. Excused(r, c)
    BY <1>13, StaysExcused
  <2>2. d.op \in OpeningOps => "irq" \in d.of
    BY <1>3, <1>4, <1>5 DEF OpeningOps
  <2> QED
    BY <1>3, <2>1, <2>2 DEF Excused
<1>14. \A g \in Group : Closed(r2, d, g) => Closed(r, c, g)
  <2>1. \A g \in Group : ~Mid(r, c, g)
    BY DEF Mid, MidOps
  <2> QED
    BY <1>3, <1>8, <2>1 DEF Closed
<1>15. \A line \in {"radio", "low"} : Enables(r, c, line) => Enables(r2, d, line)
  <2>1. Held(r2, d, "high") = Held(r, c, "high") /\ Held(r2, d, "low") = Held(r, c, "low")
    BY <1>8 DEF Group
  <2>2. c.op \notin {"open", "enable", "radio_on", "start", "return"} /\ d.op \notin {"start", "return"}
    BY <1>4
  <2> QED
    BY <1>3, <2>1, <2>2 DEF Enables
<1>16. Restores(r, c) => Restores(r2, d)
  <2>1. Held(r2, d, "sys") = Held(r, c, "sys")
    BY <1>8 DEF Group
  <2>2. c.op \notin {"open", "restore"} /\ ~Mid(r2, d, "sys")
    BY <1>4 DEF Mid, MidOps
  <2> QED
    BY <1>3, <2>1, <2>2 DEF Restores
<1>17. mask'.primask <=> MasksAll(r2, d)
  <2>1. CASE c.op = "irq_restore"
    <3>1. d.op = "rest" /\ Held(r2, d, "irq") = counter["irq"] /\ Held(r2, d, "irq") \in Nat
      BY <1>4, <1>9, <1>10, <1>11, <2>1
    <3>2. MasksAll(r2, d) <=> counter["irq"] # 0
      BY <3>1 DEF MasksAll
    <3> QED
      BY <2>1, <3>2
  <2>2. CASE c.op # "irq_restore"
    <3>1. MasksAll(r2, d)
      <4>1. CASE c.op = "irq_count"
        BY <1>9, <1>11, <4>1 DEF MasksAll
      <4>2. CASE c.op # "irq_count"
        <5>1. d.op \in {"irq_count", "irq_restore"}
          BY <1>4, <2>2, <4>2
        <5> QED
          BY <5>1 DEF MasksAll
      <4> QED
        BY <4>1, <4>2
    <3> QED
      BY <2>2, <3>1
  <2> QED
    BY <2>1, <2>2
<1>18. running' = [running EXCEPT ![n] = r2]
  BY DEF r2
<1>19. Levelly(calls, n, r, c, r2, d)
  BY <1>3, <1>12, <1>13, <1>14, <1>15, <1>16, <1>17, <1>18 DEF Levelly
<1> QED
  BY <1>19, LevelStep

(* PRIMASK is set, or restored.                                             *)
LEMMA PrimaskSteps ==
  ASSUME RadioIInv, SetPrimask \/ RestorePrimask
  PROVE  RadioIInv'
<1>1. PICK calls : TopOf(calls, Len(running), running[Len(running)], calls[Len(running)])
  BY TopExists
<1> DEFINE n == Len(running)
           r == running[n]
           c == calls[n]
<1>2. TopOf(calls, n, r, c)
  BY <1>1
<1> HIDE DEF n, r, c
<1>3. /\ c \in LibraryCall /\ RegisterTypes(nvic, mask, counter, saved)
      /\ \A op : CoreAt(op) <=> Label(c) = op
  BY <1>2, TopIs
<1>4. Label(c) \in {"set_primask", "restore_primask"}
  BY <1>3 DEF SetPrimask, RestorePrimask
<1>5. c.op = IF Label(c) = "set_primask" THEN "irq_set" ELSE "irq_restore"
  BY <1>3, <1>4 DEF Label, LibraryCall, OpeningOps, ClosingOps, IrqOps, HandlerOps, OtherOps
<1>6. running' = [running EXCEPT ![n] = [r EXCEPT !.code = CodeOf(GoesOn(c), r.who)]]
  <2>1. c.op \notin {"opening", "rest", "return"} /\ CoreRuns(<<>>)
    BY <1>5 DEF SetPrimask, RestorePrimask
  <2> QED
    BY <1>2, <2>1, GoesIs
<1>8. CASE SetPrimask
  <2>1. c.op = "irq_set"
    BY <1>3, <1>5, <1>8 DEF SetPrimask
  <2>2. RegisterTypes(nvic', mask', counter', saved') /\ mask'.primask /\ mask'.basepri = mask.basepri
    BY <1>3, <1>8 DEF SetPrimask, RegisterTypes
  <2>3. nvic'.enabled = nvic.enabled /\ counter' = counter
    BY <1>8 DEF SetPrimask
  <2> QED
    BY <1>2, <1>6, <2>1, <2>2, <2>3, MaskingStep
<1>9. CASE RestorePrimask
  <2>1. c.op = "irq_restore"
    BY <1>3, <1>5, <1>9 DEF RestorePrimask
  <2>2. RegisterTypes(nvic', mask', counter', saved') /\ mask'.basepri = mask.basepri
    BY <1>3, <1>9 DEF RestorePrimask, RegisterTypes
  <2>3. nvic'.enabled = nvic.enabled /\ counter' = counter
    BY <1>9 DEF RestorePrimask
  <2>4. mask'.primask <=> counter["irq"] # 0
    <3>1. mask.primask
      <4>1. MasksAll(r, c)
        BY <2>1 DEF MasksAll
      <4> QED
        BY <1>2, <4>1, NoneBelowMasks
    <3>2. counter.irq = counter["irq"]
      OBVIOUS
    <3>3. CASE counter["irq"] = 0
      BY <1>3, <1>9, <3>2, <3>3 DEF RestorePrimask, RegisterTypes
    <3>4. CASE counter["irq"] # 0
      BY <1>9, <3>1, <3>2, <3>4 DEF RestorePrimask
    <3> QED
      BY <3>3, <3>4
  <2> QED
    BY <1>2, <1>6, <2>1, <2>2, <2>3, <2>4, MaskingStep
<1> QED
  BY <1>8, <1>9

-----------------------------------------------------------------------------

(* What a context is about that has counted, or uncounted, the next group.  *)
LEMMA NearerIs ==
  ASSUME NEW r \in Context, NEW c, Fits(r, c), c.left # {},
         NEW op, (c.op = "opening" /\ op = "close") \/ (c.op = "rest" /\ op = "open"),
         NEW r2, r2 = [r EXCEPT !.code = CodeOf(Nearer(c, op), r.who)]
  PROVE  /\ FirstGroup(c.left) \in c.left /\ FirstGroup(c.left) \in Group
         /\ Nearer(c, op) \in LibraryCall /\ r2 \in Context /\ Fits(r2, Nearer(c, op))
         /\ r2.who = r.who /\ r2.sections = r.sections
         /\ Nearer(c, op).op = op /\ Nearer(c, op).of = c.of /\ Nearer(c, op).sound = c.sound
         /\ Nearer(c, op).left = c.left \ {FirstGroup(c.left)} /\ Nearer(c, op).g = FirstGroup(c.left)
         /\ Nearer(c, op).below = c.below
         /\ \A g : Sections(r2, g) = Sections(r, g)
<1> HIDE DEF Step
<1> DEFINE d == Nearer(c, op)
           f == FirstGroup(c.left)
<1>1. c \in LibraryCall /\ IsCode(c)
  BY DEF Fits, IsCode
<1>2. f \in c.left /\ f \in Group /\ c.left \in SUBSET Group
  <2>1. f \in c.left
    BY <1>1, PartsAre
  <2> QED
    BY <1>1, <2>1 DEF LibraryCall
<1>3. op \in OpeningOps \cup ClosingOps
  BY DEF OpeningOps, ClosingOps
<1>4. /\ d.op = op /\ d.of = c.of /\ d.sound = c.sound /\ d.left = c.left \ {f} /\ d.g = f
      /\ d.below = c.below /\ d.arg = c.arg /\ d \in LibraryCall
  BY <1>1, <1>2, <1>3 DEF Nearer, LibraryCall
<1> HIDE DEF d, f
<1>5. IsCode(d)
  BY <1>4 DEF IsCode
<1>6. CodeOf(d, r.who) \in Seq(Step)
  BY <1>5, CodeIs
<1>7. r2 \in Context /\ r2.who = r.who /\ r2.sections = r.sections /\ r2.code = CodeOf(d, r.who)
  BY <1>6 DEF Context, d
<1>8. \A g : Sections(r2, g) = Sections(r, g)
  BY <1>7 DEF Sections
<1>9. Fits(r2, d)
  <2>1. IF d.op \in OpeningOps THEN d.left \subseteq d.of ELSE d.op \notin ClosingOps => d.left = {}
    BY <1>4 DEF Fits, OpeningOps, ClosingOps
  <2>2. /\ d.op \in MidOps => d.g \in d.of \ d.left
        /\ d.g \notin d.left
    BY <1>2, <1>4 DEF Fits, MidOps, OpeningOps
  <2>3. /\ d.op \in {"close", "open"} /\ d.op \notin HandlerOps /\ r2.who # "system"
    BY <1>4, <1>7 DEF Fits, HandlerOps
  <2>4. r2.who = "radio" =>
             /\ "sys" \notin d.of \cup d.left \cup {d.g}
             /\ \A k \in DOMAIN r2.sections : "sys" \notin r2.sections[k].of
    BY <1>2, <1>4, <1>7 DEF Fits
  <2>5. /\ d.of = {"irq"} \/ d.of \subseteq Group
        /\ \A k \in DOMAIN r2.sections : r2.sections[k].of = {"irq"} \/ r2.sections[k].of \subseteq Group
    BY <1>4, <1>7 DEF Fits
  <2> QED
    BY <1>5, <1>7, <2>1, <2>2, <2>3, <2>4, <2>5 DEF Fits
<1> QED
  BY <1>2, <1>4, <1>7, <1>8, <1>9 DEF d, f

(* A step that counts or uncounts a group.                                  *)
LEMMA NearerStep ==
  ASSUME NEW calls, NEW n, NEW r, NEW c, TopOf(calls, n, r, c), c.left # {},
         NEW op, (c.op = "opening" /\ op = "close") \/ (c.op = "rest" /\ op = "open"),
         running' = [running EXCEPT ![n] = [r EXCEPT !.code = CodeOf(Nearer(c, op), r.who)]],
         counter' = [counter EXCEPT ![FirstGroup(c.left)] = IF op = "close" THEN @ + 1 ELSE @ - 1],
         UNCHANGED <<nvic, mask, saved>>
  PROVE  RadioIInv'
<1> DEFINE r2 == [r EXCEPT !.code = CodeOf(Nearer(c, op), r.who)]
           d == Nearer(c, op)
           f == FirstGroup(c.left)
<1>1. r \in Context /\ c \in LibraryCall /\ Fits(r, c) /\ n \in Nat /\ n > 0 /\ RegisterTypes(nvic, mask, counter, saved)
  BY TopIs
<1>2. /\ d \in LibraryCall /\ r2 \in Context /\ Fits(r2, d)
      /\ r2.who = r.who /\ r2.sections = r.sections
      /\ d.op = op /\ d.of = c.of /\ d.sound = c.sound /\ d.left = c.left \ {f}
      /\ d.g = f /\ d.below = c.below /\ f \in c.left /\ f \in Group
      /\ \A g : Sections(r2, g) = Sections(r, g)
  BY <1>1, NearerIs
<1>3. counter' = [counter EXCEPT ![f] = IF op = "close" THEN @ + 1 ELSE @ - 1]
  OBVIOUS
<1> HIDE DEF r2, d, f
<1>4. c.op = "opening" => f \in c.of
  BY <1>1, <1>2 DEF Fits, OpeningOps
<1>5. /\ \A g : g # f => (Counts(d, g) <=> Counts(c, g))
      /\ Counts(c, f) <=> c.op = "rest"
      /\ Counts(d, f) <=> c.op = "opening"
  BY <1>2, <1>4 DEF Counts, OpeningOps, ClosingOps
<1>6. \A g : g # f => Held(r2, d, g) = Held(r, c, g)
  BY <1>2, <1>5 DEF Held
<1>7. /\ Held(r, c, f) = Sections(r, f) + (IF c.op = "rest" THEN 1 ELSE 0)
      /\ Held(r2, d, f) = Sections(r, f) + (IF c.op = "opening" THEN 1 ELSE 0)
      /\ Sections(r, f) \in Nat
  BY <1>1, <1>2, <1>5, SectionsAre DEF Held
<1>8. f \in CountedKind /\ Group \subseteq CountedKind /\ "irq" # f
  BY <1>2 DEF Group, CountedKind
<1>9. counter \in [CountedKind -> Nat]
  BY <1>1 DEF RegisterTypes
<1>10. \A g \in CountedKind : counter[g] = c.below[g] + Held(r, c, g) /\ c.below[g] \in Nat /\ Held(r, c, g) \in Nat
  BY BelowIs
<1>11. \A g \in CountedKind : counter'[g] = IF g = f THEN (IF op = "close" THEN counter[f] + 1 ELSE counter[f] - 1) ELSE counter[g]
  BY <1>3, <1>8, <1>9
<1>12. \A g \in CountedKind : counter'[g] = d.below[g] + Held(r2, d, g) /\ counter'[g] \in Nat
  <2> TAKE g \in CountedKind
  <2>1. CASE g = f
    <3>1. counter[f] = c.below[f] + Held(r, c, f) /\ c.below[f] \in Nat /\ Held(r, c, f) \in Nat
      BY <1>8, <1>10
    <3>2. counter'[f] = IF op = "close" THEN counter[f] + 1 ELSE counter[f] - 1
      BY <1>8, <1>11
    <3>3. CASE c.op = "opening" /\ op = "close"
      BY <1>2, <1>7, <2>1, <3>1, <3>2, <3>3
    <3>4. CASE c.op = "rest" /\ op = "open"
      BY <1>2, <1>7, <2>1, <3>1, <3>2, <3>4
    <3> QED
      BY <3>3, <3>4
  <2>2. CASE g # f
    BY <1>2, <1>6, <1>10, <1>11, <2>2
  <2> QED
    BY <2>1, <2>2
<1>13. RegisterTypes(nvic', mask', counter', saved')
  <2>1. counter' \in [CountedKind -> Nat]
    <3>1. DOMAIN counter' = CountedKind /\ counter' = [g \in CountedKind |-> counter'[g]]
      BY <1>3, <1>9
    <3> QED
      BY <1>12, <3>1
  <2> QED
    BY <1>1, <2>1 DEF RegisterTypes
<1>14. ASSUME NEW j \in 1 .. n - 1, calls[j].op \in MidOps PROVE Excused(r2, d)
  <2>1. Excused(r, c)
    BY <1>14, StaysExcused
  <2>2. d.op \in OpeningOps => c.op \in OpeningOps
    BY <1>2 DEF OpeningOps
  <2> QED
    BY <1>2, <2>1, <2>2 DEF Excused
<1>15. ASSUME NEW g \in Group, Closed(r2, d, g) PROVE Closed(r, c, g)
  <2>1. ~Mid(r, c, g)
    BY DEF Mid, MidOps
  <2>2. CASE g # f
    BY <1>2, <1>6, <1>15, <2>1, <2>2 DEF Closed
  <2>3. CASE g = f
    <3>1. Held(r, c, f) > 0
      <4>1. CASE c.op = "rest" /\ op = "open"
        BY <1>7, <4>1
      <4>2. CASE c.op = "opening" /\ op = "close"
        <5>1. Sections(r, f) # 0
          BY <1>2, <1>15, <2>3, <4>2 DEF Closed, Mid, MidOps
        <5> QED
          BY <1>7, <4>2, <5>1
      <4> QED
        BY <4>1, <4>2
    <3> QED
      BY <1>2, <1>15, <2>1, <2>3, <3>1 DEF Closed
  <2> QED
    BY <2>2, <2>3
<1>16. ASSUME NEW line \in {"radio", "low"}, Enables(r, c, line) PROVE Enables(r2, d, line)
  <2>1. \A g : Held(r, c, g) > 0 => Held(r2, d, g) > 0 \/ (d.op = "open" /\ d.g = g)
    <3> TAKE g
    <3>1. CASE g = f
      <4>1. CASE c.op = "rest" /\ op = "open"
        BY <1>2, <3>1, <4>1
      <4>2. CASE c.op = "opening" /\ op = "close"
        BY <1>7, <3>1, <4>2
      <4> QED
        BY <4>1, <4>2
    <3>2. CASE g # f
      BY <1>6, <3>2
    <3> QED
      BY <3>1, <3>2
  <2>2. c.op \notin {"open", "enable", "radio_on", "start", "return"} /\ d.op \in {"open", "close"}
    BY <1>2
  <2> QED
    BY <1>2, <1>16, <2>1, <2>2 DEF Enables
<1>17. ASSUME Restores(r, c) PROVE Restores(r2, d)
  <2>1. c.below["sys"] = 0 /\ Held(r, c, "sys") > 0 /\ "sys" \in CountedKind
    BY <1>17 DEF Restores, CountedKind
  <2>2. CASE f # "sys"
    <3>1. ~Mid(r2, d, "sys") /\ Held(r2, d, "sys") = Held(r, c, "sys")
      BY <1>2, <1>6, <2>2 DEF Mid
    <3> QED
      BY <1>2, <2>1, <3>1 DEF Restores
  <2>3. CASE f = "sys" /\ c.op = "opening" /\ op = "close"
    <3>1. Sections(r, "sys") > 0
      BY <1>7, <2>1, <2>3
    <3>2. Sections(r2, "sys") # 0 /\ Held(r2, d, "sys") > 0
      BY <1>2, <1>7, <2>3, <3>1
    <3> QED
      BY <1>2, <2>1, <3>2 DEF Restores, Mid
  <2>4. CASE f = "sys" /\ c.op = "rest" /\ op = "open"
    <3>1. ~Mid(r2, d, "sys") /\ d.op = "open" /\ d.g = "sys"
      BY <1>2, <2>4 DEF Mid, MidOps
    <3>2. Held(r2, d, "sys") = 0 \/ Held(r2, d, "sys") > 0
      BY <1>7, <2>4
    <3> QED
      BY <1>2, <2>1, <3>1, <3>2 DEF Restores
  <2> QED
    BY <2>2, <2>3, <2>4
<1>18. mask'.primask <=> MasksAll(r2, d)
  <2>1. mask.primask <=> MasksAll(r, c)
    BY NoneBelowMasks
  <2>2. Held(r2, d, "irq") = Held(r, c, "irq")
    BY <1>6, <1>8
  <2>3. c.op \notin {"irq_count", "irq_restore"} /\ d.op \notin {"irq_count", "irq_restore"}
    BY <1>2
  <2>4. MasksAll(r2, d) <=> MasksAll(r, c)
    BY <2>2, <2>3 DEF MasksAll
  <2> QED
    BY <2>1, <2>4
<1>19. running' = [running EXCEPT ![n] = r2]
  BY DEF r2, d
<1>20. \A g \in CountedKind : counter'[g] = d.below[g] + Held(r2, d, g)
  BY <1>12
<1>21. Levelly(calls, n, r, c, r2, d)
  BY <1>2, <1>13, <1>14, <1>15, <1>16, <1>17, <1>18, <1>19, <1>20 DEF Levelly
<1> QED
  BY <1>21, LevelStep

-----------------------------------------------------------------------------

(* A group's counter is incremented.                                        *)
LEMMA CountStep ==
  ASSUME RadioIInv, Count
  PROVE  RadioIInv'
<1> HIDE DEF Step
<1>1. PICK calls : TopOf(calls, Len(running), running[Len(running)], calls[Len(running)])
  BY TopExists
<1> DEFINE n == Len(running)
           r == running[n]
           c == calls[n]
<1>2. TopOf(calls, n, r, c)
  BY <1>1
<1> HIDE DEF n, r, c
<1>3. Label(c) = "count" /\ c \in LibraryCall /\ IsCode(c) /\ RegisterTypes(nvic, mask, counter, saved)
      /\ r.code = CodeOf(c, r.who)
  BY <1>2, TopIs DEF Count
<1>4. c.op = "irq_count" \/ (c.op = "opening" /\ c.left # {})
  BY <1>3 DEF Label, LibraryCall, OpeningOps, ClosingOps, IrqOps, HandlerOps, OtherOps
<1>5. CoreRuns(<<>>) /\ counter' = [counter EXCEPT ![Arg] = @ + 1] /\ UNCHANGED <<nvic, mask, saved>>
  BY DEF Count
<1>6. counter \in [CountedKind -> Nat]
  BY <1>3 DEF RegisterTypes
<1>7. CASE c.op = "irq_count"
  <2>1. Arg = "irq"
    <3>1. Arg = HeadOf(c)[2]
      BY <1>2, <1>7, GoesIs
    <3> QED
      BY <1>7, <3>1 DEF HeadOf
  <2>2. running' = [running EXCEPT ![n] = [r EXCEPT !.code = CodeOf(GoesOn(c), r.who)]]
    <3>1. c.op \notin {"opening", "rest", "return"}
      BY <1>7
    <3> QED
      BY <1>2, <1>5, <3>1, GoesIs
  <2>3. counter'["irq"] = counter["irq"] + 1 /\ (\A g \in Group : counter'[g] = counter[g]) /\ counter' \in [CountedKind -> Nat]
    BY <1>5, <1>6, <2>1 DEF CountedKind, Group
  <2>4. RegisterTypes(nvic', mask', counter', saved')
    BY <1>3, <1>5, <2>3 DEF RegisterTypes
  <2>5. mask'.primask
    <3>1. MasksAll(r, c)
      BY <1>7 DEF MasksAll
    <3> QED
      BY <1>2, <1>5, <3>1, NoneBelowMasks
  <2>6. nvic'.enabled = nvic.enabled /\ mask'.basepri = mask.basepri
    BY <1>5
  <2>7. counter'["irq"] = (IF c.op = "irq_count" THEN counter["irq"] + 1
                           ELSE IF c.op = "irq_uncount" THEN counter["irq"] - 1 ELSE counter["irq"])
        /\ (mask'.primask <=> IF c.op = "irq_restore" THEN counter["irq"] # 0 ELSE TRUE)
    BY <1>7, <2>3, <2>5
  <2> QED
    BY <1>2, <1>7, <2>2, <2>3, <2>4, <2>6, <2>7, MaskingStep
<1>8. CASE c.op = "opening" /\ c.left # {}
  <2> DEFINE f == FirstGroup(c.left)
             a == <<"count", f>>
             rest == CodeOf(Nearer(c, "close"), r.who)
  <2>1. a \in Step /\ rest \in Seq(Step) /\ CodeOf(c, r.who) = Then(a, rest)
    BY <1>3, <1>8, SectionSteps
  <2>2. a[2] = f
    OBVIOUS
  <2> HIDE DEF a, rest
  <2>3. Arg = f
    BY <1>2, <2>1, <2>2, RunsOn
  <2>4. running' = [running EXCEPT ![n] = [r EXCEPT !.code = <<>> \o rest]]
    <3> DEFINE s == <<>>
    <3>1. CoreRuns(s)
      BY <1>5
    <3> HIDE DEF s
    <3>2. running' = [running EXCEPT ![n] = [r EXCEPT !.code = s \o rest]]
      BY <1>2, <2>1, <3>1, RunsOn
    <3> QED
      BY <3>2 DEF s
  <2>5. <<>> \o rest = rest
    BY <2>1, ConcatEmptySeq
  <2>6. running' = [running EXCEPT ![n] = [r EXCEPT !.code = CodeOf(Nearer(c, "close"), r.who)]]
    BY <2>4, <2>5 DEF rest
  <2>7. counter' = [counter EXCEPT ![f] = IF "close" = "close" THEN @ + 1 ELSE @ - 1]
    BY <1>5, <2>3
  <2> QED
    BY <1>2, <1>5, <1>8, <2>6, <2>7, NearerStep
<1> QED
  BY <1>4, <1>7, <1>8

(* A group's counter is decremented.                                        *)
LEMMA UncountStep ==
  ASSUME RadioIInv, Uncount
  PROVE  RadioIInv'
<1> HIDE DEF Step
<1>1. PICK calls : TopOf(calls, Len(running), running[Len(running)], calls[Len(running)])
  BY TopExists
<1> DEFINE n == Len(running)
           r == running[n]
           c == calls[n]
<1>2. TopOf(calls, n, r, c)
  BY <1>1
<1> HIDE DEF n, r, c
<1>3. /\ c \in LibraryCall /\ IsCode(c) /\ RegisterTypes(nvic, mask, counter, saved)
      /\ r.code = CodeOf(c, r.who) /\ \A op : CoreAt(op) <=> Label(c) = op
  BY <1>2, TopIs
<1>4. Label(c) \in {"uncount_irq", "uncount"}
  BY <1>3 DEF Uncount
<1>5. \/ c.op = "irq_uncount" /\ Label(c) = "uncount_irq"
      \/ c.op = "rest" /\ c.left # {} /\ Label(c) = "uncount"
  BY <1>3, <1>4 DEF Label, LibraryCall, OpeningOps, ClosingOps, IrqOps, HandlerOps, OtherOps
<1>6. CoreRuns(<<>>) /\ UNCHANGED <<nvic, mask, saved>>
  BY DEF Uncount
<1>7. counter \in [CountedKind -> Nat]
  BY <1>3 DEF RegisterTypes
<1>8. CASE c.op = "irq_uncount" /\ Label(c) = "uncount_irq"
  <2>1. counter' = [counter EXCEPT !.irq = IF @ > 0 THEN @ - 1 ELSE 0]
    BY <1>3, <1>8 DEF Uncount
  <2>2. running' = [running EXCEPT ![n] = [r EXCEPT !.code = CodeOf(GoesOn(c), r.who)]]
    <3>1. c.op \notin {"opening", "rest", "return"}
      BY <1>8
    <3> QED
      BY <1>2, <1>6, <3>1, GoesIs
  <2>3. counter["irq"] > 0 /\ counter["irq"] \in Nat
    <3>1. Held(r, c, "irq") > 0
      <4>1. Counts(c, "irq") /\ r \in Context
        BY <1>2, <1>8, TopIs DEF Counts
      <4> QED
        BY <4>1, HeldIs
    <3> QED
      BY <1>2, <3>1, NoneBelowMasks
  <2>4. counter'["irq"] = counter["irq"] - 1 /\ (\A g \in Group : counter'[g] = counter[g])
    BY <1>7, <2>1, <2>3 DEF CountedKind, Group
  <2>5. counter' \in [CountedKind -> Nat]
    BY <1>7, <2>1, <2>3 DEF CountedKind
  <2>6. RegisterTypes(nvic', mask', counter', saved')
    BY <1>3, <1>6, <2>5 DEF RegisterTypes
  <2>7. mask'.primask
    <3>1. Held(r, c, "irq") > 0
      BY <1>2, <2>3, NoneBelowMasks
    <3>2. MasksAll(r, c)
      BY <3>1 DEF MasksAll
    <3> QED
      BY <1>2, <1>6, <3>2, NoneBelowMasks
  <2>8. nvic'.enabled = nvic.enabled /\ mask'.basepri = mask.basepri
    BY <1>6
  <2>9. counter'["irq"] = (IF c.op = "irq_count" THEN counter["irq"] + 1
                           ELSE IF c.op = "irq_uncount" THEN counter["irq"] - 1 ELSE counter["irq"])
        /\ (mask'.primask <=> IF c.op = "irq_restore" THEN counter["irq"] # 0 ELSE TRUE)
    BY <1>8, <2>4, <2>7
  <2> QED
    BY <1>2, <1>8, <2>2, <2>4, <2>6, <2>8, <2>9, MaskingStep
<1>9. CASE c.op = "rest" /\ c.left # {} /\ Label(c) = "uncount"
  <2>0. counter' = [counter EXCEPT ![Arg] = @ - 1]
    BY <1>3, <1>9 DEF Uncount
  <2> DEFINE f == FirstGroup(c.left)
             a == <<"uncount", f>>
             rest == CodeOf(Nearer(c, "open"), r.who)
  <2>1. a \in Step /\ rest \in Seq(Step) /\ CodeOf(c, r.who) = Then(a, rest)
    BY <1>3, <1>9, SectionSteps
  <2>2. a[2] = f
    OBVIOUS
  <2> HIDE DEF a, rest
  <2>3. Arg = f
    BY <1>2, <2>1, <2>2, RunsOn
  <2>4. running' = [running EXCEPT ![n] = [r EXCEPT !.code = <<>> \o rest]]
    <3> DEFINE s == <<>>
    <3>1. CoreRuns(s)
      BY <1>6
    <3> HIDE DEF s
    <3>2. running' = [running EXCEPT ![n] = [r EXCEPT !.code = s \o rest]]
      BY <1>2, <2>1, <3>1, RunsOn
    <3> QED
      BY <3>2 DEF s
  <2>5. <<>> \o rest = rest
    BY <2>1, ConcatEmptySeq
  <2>6. running' = [running EXCEPT ![n] = [r EXCEPT !.code = CodeOf(Nearer(c, "open"), r.who)]]
    BY <2>4, <2>5 DEF rest
  <2>7. counter' = [counter EXCEPT ![f] = IF "open" = "close" THEN @ + 1 ELSE @ - 1]
    BY <2>0, <2>3
  <2> QED
    BY <1>2, <1>6, <1>9, <2>6, <2>7, NearerStep
<1> QED
  BY <1>5, <1>8, <1>9

(* A context that is in its callback.                                       *)
Idly(calls, n, r, c, r2, d) ==
  /\ TopOf(calls, n, r, c) /\ c.op = "rest" /\ c.left = {}
  /\ r2 \in Context /\ d \in LibraryCall /\ r2.who = r.who /\ d.below = c.below /\ Fits(r2, d)
  /\ running' = [running EXCEPT ![n] = r2] /\ UNCHANGED <<nvic, mask, counter, saved>>
  /\ \A g \in CountedKind : Held(r2, d, g) = Held(r, c, g)
  /\ d.op \notin MidOps \cup {"irq_count", "irq_restore", "start"} /\ (d.op = "return" => r.who # "low")
  /\ \A j \in 1 .. n - 1 : calls[j].op \in MidOps => Excused(r2, d)

(* A context that ends a call, or begins one, with all counters as they were. *)
LEMMA IdleStep ==
  ASSUME NEW calls, NEW n, NEW r, NEW c, NEW r2, NEW d, Idly(calls, n, r, c, r2, d)
  PROVE  RadioIInv'
<1>0.
    /\ TopOf(calls, n, r, c) /\ c.op = "rest" /\ c.left = {}
    /\ r2 \in Context /\ d \in LibraryCall /\ r2.who = r.who /\ d.below = c.below /\ Fits(r2, d)
    /\ running' = [running EXCEPT ![n] = r2] /\ UNCHANGED <<nvic, mask, counter, saved>>
    /\ \A g \in CountedKind : Held(r2, d, g) = Held(r, c, g)
    /\ d.op \notin MidOps \cup {"irq_count", "irq_restore", "start"} /\ (d.op = "return" => r.who # "low")
    /\ \A j \in 1 .. n - 1 : calls[j].op \in MidOps => Excused(r2, d)
  BY DEF Idly
<1> USE <1>0
<1>1. RegisterTypes(nvic', mask', counter', saved')
  BY TopIs
<1>2. \A g \in Group : Closed(r2, d, g) => Closed(r, c, g)
  BY DEF Closed, Mid, MidOps, Group, CountedKind
<1>3. \A line \in {"radio", "low"} : Enables(r, c, line) => Enables(r2, d, line)
  BY DEF Enables, CountedKind
<1>4. Restores(r, c) => Restores(r2, d)
  BY DEF Restores, Mid, MidOps, CountedKind
<1>5. MasksAll(r2, d) <=> MasksAll(r, c)
  <2>1. Held(r2, d, "irq") = Held(r, c, "irq")
    BY DEF CountedKind
  <2> QED
    BY <2>1 DEF MasksAll
<1>6. nvic'.enabled = nvic.enabled /\ mask' = mask /\ counter' = counter
  OBVIOUS
<1>7. Evenly(calls, n, r, c, r2, d)
  BY <1>1, <1>2, <1>3, <1>4, <1>5, <1>6 DEF Evenly
<1> QED
  BY <1>7, EvenStep

-----------------------------------------------------------------------------

(* The section is open.                                                     *)
LEMMA OpenedStep ==
  ASSUME RadioIInv, Opened
  PROVE  RadioIInv'
<1> HIDE DEF Step
<1>1. PICK calls : TopOf(calls, Len(running), running[Len(running)], calls[Len(running)])
  BY TopExists
<1> DEFINE n == Len(running)
           r == running[n]
           c == calls[n]
<1>2. TopOf(calls, n, r, c) /\ n = Len(running) /\ r = running[n]
  BY <1>1
<1> HIDE DEF n, r, c
<1>3. Label(c) = "opened" /\ c \in LibraryCall /\ IsCode(c) /\ RegisterTypes(nvic, mask, counter, saved)
      /\ r.code = CodeOf(c, r.who) /\ r \in Context /\ Fits(r, c)
  BY <1>2, TopIs DEF Opened
<1>4. c.op = "opening" /\ c.left = {}
  BY <1>3 DEF Label, LibraryCall, OpeningOps, ClosingOps, IrqOps, HandlerOps, OtherOps
<1> DEFINE s == [of |-> c.of, sound |-> c.sound]
           a == <<"opened", s>>
<1>5. a \in Step /\ Base(r.who) \in Seq(Step) /\ CodeOf(c, r.who) = Then(a, Base(r.who)) /\ a[2] = s
  BY <1>3, <1>4, SectionSteps
<1>6. s \in Section /\ s.of = c.of /\ s.sound = c.sound
  BY <1>3 DEF LibraryCall, Section
<1> HIDE DEF s, a
<1>7. Arg = s
  BY <1>2, <1>5, RunsOn
<1>8. Tail(r.code) = Base(r.who)
  BY <1>3, <1>5, ThenIs
<1> DEFINE r2 == [r EXCEPT !.code = Tail(r.code), !.sections = Append(r.sections, s)]
           d == [c EXCEPT !.op = "rest"]
<1>9. running' = [running EXCEPT ![n] = r2]
  <2>1. running' = [running EXCEPT ![n].code = Tail(@), ![n].sections = Append(@, s)]
    BY <1>2, <1>7 DEF Opened
  <2>2. running \in Seq(Context) /\ n \in 1 .. Len(running) /\ n \in DOMAIN running
    BY <1>2, TopIs
  <2>5. running' = [running EXCEPT ![n] = [r EXCEPT !.code = Tail(r.code), !.sections = Append(r.sections, s)]]
    BY <1>2, <2>1, <2>2
  <2> QED
    BY <2>5
<1>10. r2 \in Context /\ r2.who = r.who /\ r2.sections = Append(r.sections, s) /\ r2.code = Base(r.who)
  <2> DEFINE x == Tail(r.code)
             y == Append(r.sections, s)
  <2>1. x \in Seq(Step) /\ y \in Seq(Section)
    <3>1. r.sections \in Seq(Section)
      BY <1>3 DEF Context
    <3>2. y \in Seq(Section)
      BY <1>6, <3>1, AppendProperties
    <3> QED
      BY <1>5, <1>8, <3>2
  <2> HIDE DEF x, y
  <2>2. /\ [r EXCEPT !.code = x, !.sections = y] \in Context
        /\ [r EXCEPT !.code = x, !.sections = y].who = r.who
        /\ [r EXCEPT !.code = x, !.sections = y].code = x
        /\ [r EXCEPT !.code = x, !.sections = y].sections = y
    BY <1>3, <2>1 DEF Context
  <2> QED
    BY <1>8, <2>2 DEF x, y
<1>11. /\ d \in LibraryCall /\ d.op = "rest" /\ d.of = c.of /\ d.left = {} /\ d.below = c.below /\ d.g = c.g /\ d.sound = c.sound
       /\ d.arg = c.arg
  BY <1>3, <1>4 DEF LibraryCall, ClosingOps
<1> HIDE DEF r2, d
<1>12. \A g : Sections(r2, g) = Sections(r, g) + (IF g \in c.of THEN 1 ELSE 0)
  BY <1>3, <1>6, <1>10, SectionAdded
<1>13. \A g : ~Counts(d, g) /\ (Counts(c, g) <=> g \in c.of)
  BY <1>4, <1>11 DEF Counts, OpeningOps, ClosingOps
<1>14. \A g : Held(r2, d, g) = Held(r, c, g)
  <2> TAKE g
  <2>1. Sections(r, g) \in Nat
    BY <1>3, SectionsAre
  <2> QED
    BY <1>12, <1>13, <2>1 DEF Held
<1>15. /\ r.sections \in Seq(Section) /\ Len(r.sections) \in Nat
       /\ DOMAIN r2.sections = 1 .. Len(r.sections) + 1
       /\ \A k \in 1 .. Len(r.sections) : k \in DOMAIN r.sections /\ r2.sections[k] = r.sections[k]
       /\ r2.sections[Len(r.sections) + 1] = s
  <2>1. r.sections \in Seq(Section) /\ Len(r.sections) \in Nat /\ DOMAIN r.sections = 1 .. Len(r.sections)
    BY <1>3 DEF Context
  <2> QED
    BY <1>10, <2>1
<1>16. Fits(r2, d)
  <2>1. IsCode(d)
    BY <1>11 DEF IsCode
  <2>2. CodeOf(d, r.who) = Base(r.who)
    BY <1>11, <2>1, SectionSteps
  <2>3. r.who = "radio" => \A k \in DOMAIN r2.sections : "sys" \notin r2.sections[k].of
    BY <1>3, <1>6, <1>15 DEF Fits
  <2>4. \A k \in DOMAIN r2.sections : r2.sections[k].of = {"irq"} \/ r2.sections[k].of \subseteq Group
    BY <1>3, <1>6, <1>15 DEF Fits
  <2>5. r.who # "system" /\ (d.of = {"irq"} \/ d.of \subseteq Group)
        /\ (r.who = "radio" => "sys" \notin d.of \cup d.left \cup {d.g})
    BY <1>3, <1>4, <1>11 DEF Fits
  <2> QED
    BY <1>10, <1>11, <2>1, <2>2, <2>3, <2>4, <2>5 DEF Fits, OpeningOps, ClosingOps, MidOps, HandlerOps
<1>17. ASSUME NEW j \in 1 .. n - 1, calls[j].op \in MidOps PROVE Excused(r2, d)
  <2>1. Excused(r, c)
    BY <1>2, <1>17, StaysExcused
  <2>2. s.sound => "irq" \in s.of
    BY <1>4, <1>6, <2>1 DEF Excused, OpeningOps
  <2>3. \A k \in DOMAIN r2.sections : r2.sections[k].sound => "irq" \in r2.sections[k].of
    BY <1>15, <2>1, <2>2 DEF Excused
  <2> QED
    BY <1>11, <2>3 DEF Excused, OpeningOps
<1>18. \A g \in Group : Closed(r2, d, g) => Closed(r, c, g)
  BY <1>4, <1>11, <1>14 DEF Closed, Mid, MidOps
<1>19. \A line \in {"radio", "low"} : Enables(r, c, line) => Enables(r2, d, line)
  BY <1>4, <1>10, <1>11, <1>14 DEF Enables
<1>20. Restores(r, c) => Restores(r2, d)
  BY <1>4, <1>11, <1>14 DEF Restores, Mid, MidOps
<1>21. MasksAll(r2, d) <=> MasksAll(r, c)
  BY <1>4, <1>11, <1>14 DEF MasksAll
<1>22. RegisterTypes(nvic', mask', counter', saved') /\ nvic'.enabled = nvic.enabled /\ mask' = mask /\ counter' = counter
  BY <1>3 DEF Opened
<1>23. Evenly(calls, n, r, c, r2, d)
  BY <1>2, <1>9, <1>10, <1>11, <1>14, <1>16, <1>17, <1>18, <1>19, <1>20, <1>21, <1>22 DEF Evenly
<1> QED
  BY <1>23, EvenStep

(* The core in a callback.                                                  *)
LEMMA IdleIs ==
  ASSUME NEW calls, NEW n, NEW r, NEW c, TopOf(calls, n, r, c), CoreAt("callback")
  PROVE  /\ c.op = "rest" /\ c.left = {} /\ r.code = Base(r.who) /\ r.who \in {"task", "low", "radio"}
         /\ \A g : ~Counts(c, g) /\ Held(r, c, g) = Sections(r, g)
         /\ n = Len(running) /\ r = running[n] /\ n \in 1 .. Len(running) /\ running \in Seq(Context)
<1>1. Label(c) = "callback" /\ c \in LibraryCall /\ IsCode(c) /\ r.code = CodeOf(c, r.who) /\ r \in Context /\ Fits(r, c)
  BY TopIs
<1>2. c.op = "rest" /\ c.left = {}
  BY <1>1 DEF Label, LibraryCall, OpeningOps, ClosingOps, IrqOps, HandlerOps, OtherOps
<1>3. r.code = Base(r.who)
  BY <1>1, <1>2, SectionSteps
<1>4. r.who \in {"task", "low", "radio"}
  BY <1>1, <1>2 DEF Fits, Context, RadioContext
<1>5. \A g : ~Counts(c, g)
  BY <1>2 DEF Counts, OpeningOps, ClosingOps
<1>6. \A g : Held(r, c, g) = Sections(r, g)
  <2> TAKE g
  <2>1. Sections(r, g) \in Nat
    BY <1>1, SectionsAre
  <2> QED
    BY <1>5, <2>1 DEF Held
<1>7. n = Len(running) /\ r = running[n] /\ n \in 1 .. Len(running) /\ running \in Seq(Context)
  <2>1. n \in Nat /\ n > 0 /\ running \in Seq(Context)
    BY TopIs
  <2> QED
    BY <2>1 DEF TopOf
<1> QED
  BY <1>2, <1>3, <1>4, <1>5, <1>6, <1>7

-----------------------------------------------------------------------------

(* The codes of the calls.                                                  *)
LEMMA CallsAre ==
  /\ LINKLAYER_PLAT_DisableIRQ \in Seq(Step) /\ LINKLAYER_PLAT_EnableIRQ \in Seq(Step)
  /\ \A groups \in SUBSET Group :
       LINKLAYER_PLAT_DisableSpecificIRQ(groups) \in Seq(Step) /\ LINKLAYER_PLAT_EnableSpecificIRQ(groups) \in Seq(Step)
<1> HIDE DEF Step
<1>1. /\ <<"save_primask">> \in Step /\ <<"set_primask">> \in Step /\ <<"count", "irq">> \in Step
      /\ <<"uncount_irq">> \in Step /\ <<"restore_primask">> \in Step
  BY StepsUsed DEF CountedKind
<1>2. LINKLAYER_PLAT_DisableIRQ \in Seq(Step)
  <2> DEFINE a == <<"save_primask">>
             b == <<"set_primask">>
             e == <<"count", "irq">>
  <2>1. a \in Step /\ b \in Step /\ e \in Step
    BY <1>1
  <2> HIDE DEF a, b, e
  <2>2. <<a, b, e>> \in Seq(Step)
    BY <2>1
  <2> QED
    BY <2>2 DEF a, b, e, LINKLAYER_PLAT_DisableIRQ
<1>3. LINKLAYER_PLAT_EnableIRQ \in Seq(Step)
  <2> DEFINE a == <<"uncount_irq">>
             b == <<"restore_primask">>
  <2>1. a \in Step /\ b \in Step
    BY <1>1
  <2> HIDE DEF a, b
  <2>2. <<a, b>> \in Seq(Step)
    BY <2>1
  <2> QED
    BY <2>2 DEF a, b, LINKLAYER_PLAT_EnableIRQ
<1>4. ASSUME NEW groups \in SUBSET Group
      PROVE  LINKLAYER_PLAT_DisableSpecificIRQ(groups) \in Seq(Step) /\ LINKLAYER_PLAT_EnableSpecificIRQ(groups) \in Seq(Step)
  <2>1. ASSUME NEW g \in Group PROVE Closes(g, groups) \in Seq(Step) /\ Opens(g, groups) \in Seq(Step)
    <3> DEFINE a == <<"count", g>>
               b == <<"close_if_first", g>>
               e == <<"uncount", g>>
               f == <<"open_if_last", g>>
    <3>1. a \in Step /\ b \in Step /\ e \in Step /\ f \in Step
      BY StepsUsed DEF Group, CountedKind
    <3>2. Closes(g, groups) = (IF g \in groups THEN <<a, b>> ELSE <<>>) /\ Opens(g, groups) = IF g \in groups THEN <<e, f>> ELSE <<>>
      BY DEF Closes, Opens
    <3> HIDE DEF a, b, e, f
    <3>3. <<a, b>> \in Seq(Step) /\ <<e, f>> \in Seq(Step) /\ <<>> \in Seq(Step)
      BY <3>1
    <3> QED
      BY <3>2, <3>3
  <2>2. /\ Closes("high", groups) \in Seq(Step) /\ Closes("low", groups) \in Seq(Step) /\ Closes("sys", groups) \in Seq(Step)
        /\ Opens("high", groups) \in Seq(Step) /\ Opens("low", groups) \in Seq(Step) /\ Opens("sys", groups) \in Seq(Step)
    BY <2>1 DEF Group
  <2>3. Closes("high", groups) \o Closes("low", groups) \o Closes("sys", groups) \in Seq(Step)
    BY <2>2, ConcatProperties
  <2>4. Opens("high", groups) \o Opens("low", groups) \o Opens("sys", groups) \in Seq(Step)
    BY <2>2, ConcatProperties
  <2> QED
    BY <2>3, <2>4 DEF LINKLAYER_PLAT_DisableSpecificIRQ, LINKLAYER_PLAT_EnableSpecificIRQ
<1> QED
  BY <1>2, <1>3, <1>4

(* A section that the library opens.                                        *)
LEMMA OpenSectionStep ==
  ASSUME RadioIInv, NEW groups, NEW code, OpenSection(groups, code),
         \/ groups = {"irq"} /\ code = LINKLAYER_PLAT_DisableIRQ
         \/ /\ groups \in SUBSET Group /\ code = LINKLAYER_PLAT_DisableSpecificIRQ(groups)
            /\ Core.who = "radio" => "sys" \notin groups
  PROVE  RadioIInv'
<1> HIDE DEF Step
<1>1. PICK calls : TopOf(calls, Len(running), running[Len(running)], calls[Len(running)])
  BY TopExists
<1> DEFINE n == Len(running)
           r == running[n]
           c == calls[n]
<1>2. TopOf(calls, n, r, c) /\ n = Len(running) /\ r = running[n] /\ c = calls[n]
  BY <1>1
<1> HIDE DEF n, r, c
<1>3. /\ c \in LibraryCall /\ IsCode(c) /\ r \in Context /\ Fits(r, c) /\ Core = r
      /\ RegisterTypes(nvic, mask, counter, saved) /\ n \in Nat /\ n > 0
  BY <1>2, TopIs
<1>4. /\ c.op = "rest" /\ c.left = {} /\ r.code = Base(r.who) /\ r.who \in {"task", "low", "radio"}
      /\ \A g : Held(r, c, g) = Sections(r, g)
      /\ n \in 1 .. Len(running) /\ running \in Seq(Context)
  BY <1>2, IdleIs DEF OpenSection
<1> DEFINE sound == "irq" \in groups \/ \A i \in 1 .. Len(running) - 1 : ~InsideDisable(running[i])
           s == [of |-> groups, sound |-> sound]
           irq == groups = {"irq"}
           d == [c EXCEPT !.op = IF irq THEN "irq_save" ELSE "opening", !.of = groups, !.sound = sound,
                          !.left = IF irq THEN {} ELSE groups]
           r2 == [r EXCEPT !.code = CodeOf(d, r.who)]
<1>5. groups \in SUBSET CountedKind /\ sound \in BOOLEAN /\ (irq <=> groups = {"irq"}) /\ (irq <=> "irq" \in groups)
  BY DEF Group, CountedKind
<1>6. ~irq => groups \in SUBSET Group
  OBVIOUS
<1>7. s \in Section /\ s.of = groups /\ s.sound = sound
  BY <1>5 DEF Section
<1>8. ASSUME ~irq, NEW j \in 1 .. n - 1, calls[j].op \in MidOps PROVE ~sound
  <2>1. j \in 1 .. n /\ Fits(running[j], calls[j])
    BY <1>2, <1>3 DEF TopOf, Follows
  <2>2. IsCode(calls[j]) /\ running[j].code = CodeOf(calls[j], running[j].who)
    BY <2>1 DEF Fits
  <2>3. Head(running[j].code)[1] = Label(calls[j])
    BY <2>2, CodeIs
  <2>4. Label(calls[j]) \in {"close_if_first", "save_basepri", "set_basepri", "disable"}
    BY <1>8 DEF MidOps, Label
  <2>5. InsideDisable(running[j])
    BY <2>3, <2>4 DEF InsideDisable
  <2> QED
    BY <1>2, <1>5, <1>8, <2>5
<1>9. running' = [running EXCEPT ![n].code = code \o <<<<"opened", s>>>> \o @]
      /\ UNCHANGED <<nvic, mask, counter, saved>>
  BY <1>2 DEF OpenSection
<1> HIDE DEF sound, irq
<1>10. /\ d \in LibraryCall /\ d.op = (IF irq THEN "irq_save" ELSE "opening") /\ d.of = groups /\ d.sound = sound
       /\ d.left = (IF irq THEN {} ELSE groups) /\ d.below = c.below /\ d.g = c.g /\ d.arg = c.arg
  BY <1>3, <1>5, <1>6 DEF LibraryCall, OpeningOps, IrqOps
<1>11. IsCode(d)
  BY <1>10 DEF IsCode
<1> HIDE DEF d
<1>12. code \in Seq(Step)
  BY <1>6, CallsAre
<1>13. (code \o <<<<"opened", s>>>>) \o Base(r.who) = code \o Then(<<"opened", s>>, Base(r.who))
  <2> DEFINE o == <<"opened", s>>
  <2>1. o \in Step /\ Base(r.who) \in Seq(Step)
    BY <1>7, StepsUsed, BasesAre
  <2> HIDE DEF o
  <2>2. <<o>> \in Seq(Step)
    BY <2>1
  <2>3. (code \o <<o>>) \o Base(r.who) = code \o (<<o>> \o Base(r.who))
    BY <1>12, <2>1, <2>2, ConcatAssociative
  <2> QED
    BY <2>1, <2>3 DEF o, Then
<1>14. code \o Then(<<"opened", s>>, Base(r.who)) = CodeOf(d, r.who)
  <2>1. [of |-> d.of, sound |-> d.sound] = s
    BY <1>10
  <2> DEFINE t == Then(<<"opened", s>>, Base(r.who))
  <2>2. t \in Seq(Step)
    <3>1. <<"opened", s>> \in Step /\ Base(r.who) \in Seq(Step)
      BY <1>7, StepsUsed, BasesAre
    <3> QED
      BY <3>1, ThenIs
  <2>3. Opening(d, r.who) = LINKLAYER_PLAT_DisableSpecificIRQ(d.left) \o t
    BY <2>1 DEF Opening
  <2> HIDE DEF t
  <2>4. CASE ~irq
    <3>1. CodeOf(d, r.who) = Opening(d, r.who)
      BY <1>10, <2>4 DEF CodeOf
    <3>2. code = LINKLAYER_PLAT_DisableSpecificIRQ(groups)
      BY <2>4 DEF irq
    <3> QED
      BY <1>10, <2>3, <2>4, <3>1, <3>2 DEF t
  <2>5. CASE irq
    <3>1. d.left = {} /\ d.op = "irq_save"
      BY <1>10, <2>5
    <3>2. Opening(d, r.who) = t
      BY <1>11, <2>1, <3>1, PartsAre DEF t
    <3>3. CodeOf(d, r.who) = Then(<<"save_primask">>, Then(<<"set_primask">>, Then(<<"count", "irq">>, t)))
      BY <3>1, <3>2 DEF CodeOf
    <3>4. /\ <<"save_primask">> \in Step /\ <<"set_primask">> \in Step /\ <<"count", "irq">> \in Step
      BY StepsUsed DEF CountedKind
    <3>5. code = LINKLAYER_PLAT_DisableIRQ
      BY <2>5 DEF irq, Group
    <3> QED
      BY <2>2, <3>3, <3>4, <3>5, ThenSome DEF t, LINKLAYER_PLAT_DisableIRQ
  <2> QED
    BY <2>4, <2>5
<1>15. running' = [running EXCEPT ![n] = r2]
  <2>1. running' = [running EXCEPT ![n] = [r EXCEPT !.code = (code \o <<<<"opened", s>>>>) \o r.code]]
    BY <1>2, <1>4, <1>9
  <2> QED
    BY <1>4, <1>13, <1>14, <2>1
<1>16. r2 \in Context /\ r2.who = r.who /\ r2.sections = r.sections /\ r2.code = CodeOf(d, r.who)
  <2>1. CodeOf(d, r.who) \in Seq(Step)
    BY <1>11, CodeIs
  <2> QED
    BY <1>3, <2>1 DEF Context
<1> HIDE DEF r2
<1>17. \A g : Sections(r2, g) = Sections(r, g) /\ Sections(r, g) \in Nat
  BY <1>3, <1>16, SectionsAre DEF Sections
<1>18. \A g : ~Counts(d, g)
  BY <1>10 DEF Counts, OpeningOps, ClosingOps
<1>19. \A g : Held(r2, d, g) = Held(r, c, g)
  BY <1>4, <1>17, <1>18 DEF Held
<1>20. Fits(r2, d)
  <2>1. IF d.op \in OpeningOps THEN d.left \subseteq d.of ELSE d.op \notin ClosingOps => d.left = {}
    BY <1>10 DEF OpeningOps, ClosingOps
  <2>2. d.op \in {"irq_save", "opening"} /\ (d.op = "irq_save" => irq)
    BY <1>10
  <2>3. d.op = "irq_save" => d.of = {"irq"} /\ d.sound
    BY <1>5, <1>10, <2>2 DEF sound
  <2>4. r2.who # "system"
    BY <1>4, <1>16
  <2>5. r2.who = "radio" =>
             /\ "sys" \notin d.of \cup d.left \cup {d.g}
             /\ \A k \in DOMAIN r2.sections : "sys" \notin r2.sections[k].of
    <3>1. r.who = "radio" => "sys" \notin groups
      BY <1>3
    <3> QED
      BY <1>3, <1>10, <1>16, <3>1 DEF Fits
  <2>6. /\ d.of = {"irq"} \/ d.of \subseteq Group
        /\ \A k \in DOMAIN r2.sections : r2.sections[k].of = {"irq"} \/ r2.sections[k].of \subseteq Group
    BY <1>3, <1>10, <1>16 DEF Fits
  <2> QED
    BY <1>11, <1>16, <2>1, <2>2, <2>3, <2>4, <2>5, <2>6 DEF Fits, MidOps, HandlerOps
<1>21. ASSUME NEW j \in 1 .. n - 1, calls[j].op \in MidOps PROVE Excused(r2, d)
  <2>1. Excused(r, c)
    BY <1>2, <1>21, StaysExcused
  <2>2. d.op \in OpeningOps /\ d.sound => "irq" \in d.of
    BY <1>8, <1>10, <1>21 DEF OpeningOps
  <2> QED
    BY <1>16, <2>1, <2>2 DEF Excused
<1>22. d.op \notin MidOps \cup {"irq_count", "irq_restore", "start"} /\ d.op # "return"
  BY <1>10 DEF MidOps
<1>23. Idly(calls, n, r, c, r2, d)
  BY <1>2, <1>4, <1>9, <1>10, <1>15, <1>16, <1>19, <1>20, <1>21, <1>22 DEF Idly
<1> QED
  BY <1>23, IdleStep

-----------------------------------------------------------------------------

(* A context in its callback that goes on with something else, and keeps    *)
(* its sections.                                                            *)
LEMMA IdleTurns ==
  ASSUME NEW calls, NEW n, NEW r, NEW c, TopOf(calls, n, r, c), CoreAt("callback"),
         NEW op, NEW arg \in {0, 1, RADIO_PRIO_LOW, RADIO_SW_LOW_INTR_PRIO},
         \/ op = "trigger" /\ arg \in {0, 1}
         \/ op = "radio_off" /\ r.who = "task" /\ r.sections = <<>>
         \/ op = "test_nested" /\ r.who = "low" /\ r.sections = <<>>
         \/ op = "return" /\ r.who = "radio" /\ r.sections = <<>>,
         running' = [running EXCEPT ![n] = [r EXCEPT !.code = CodeOf([c EXCEPT !.op = op, !.arg = arg], r.who)]],
         UNCHANGED <<nvic, mask, counter, saved>>
  PROVE  RadioIInv'
<1> HIDE DEF Step
<1>1. c \in LibraryCall /\ IsCode(c) /\ r \in Context /\ Fits(r, c)
  BY TopIs
<1>2. /\ c.op = "rest" /\ c.left = {} /\ r.who \in {"task", "low", "radio"}
      /\ \A g : Held(r, c, g) = Sections(r, g)
  BY IdleIs
<1> DEFINE d == [c EXCEPT !.op = op, !.arg = arg]
           r2 == [r EXCEPT !.code = CodeOf(d, r.who)]
<1>3. op \in {"trigger", "radio_off", "test_nested", "return"}
  OBVIOUS
<1>4. /\ d \in LibraryCall /\ d.op = op /\ d.arg = arg /\ d.of = c.of /\ d.sound = c.sound /\ d.left = {}
      /\ d.g = c.g /\ d.below = c.below
  BY <1>1, <1>2, <1>3 DEF LibraryCall, HandlerOps, OtherOps
<1>5. running' = [running EXCEPT ![n] = r2]
  OBVIOUS
<1> HIDE DEF d
<1>6. IsCode(d)
  BY <1>4 DEF IsCode
<1>7. r2 \in Context /\ r2.who = r.who /\ r2.sections = r.sections /\ r2.code = CodeOf(d, r.who)
  <2>1. CodeOf(d, r.who) \in Seq(Step)
    BY <1>6, CodeIs
  <2> QED
    BY <1>1, <2>1 DEF Context
<1> HIDE DEF r2
<1>8. \A g : Sections(r2, g) = Sections(r, g) /\ Sections(r, g) \in Nat
  BY <1>1, <1>7, SectionsAre DEF Sections
<1>9. \A g : ~Counts(d, g)
  BY <1>3, <1>4 DEF Counts, OpeningOps, ClosingOps
<1>10. \A g : Held(r2, d, g) = Held(r, c, g)
  BY <1>2, <1>8, <1>9 DEF Held
<1>11. Fits(r2, d)
  <2>1. d.op \notin OpeningOps \cup MidOps \cup {"save", "set", "restore", "open", "enable", "irq_save", "irq_set", "irq_count", "disable"}
    BY <1>3, <1>4 DEF OpeningOps, MidOps
  <2>2. /\ r2.who # "system"
        /\ d.op \in HandlerOps => r2.who = "low"
        /\ d.op \in {"radio_off", "radio_on"} => r2.who = "task"
        /\ d.op = "return" => r2.who # "task"
        /\ d.op \in HandlerOps \cup {"return", "radio_off", "radio_on"} => r2.sections = <<>>
    BY <1>2, <1>4, <1>7 DEF HandlerOps
  <2>3. r2.who = "radio" =>
             /\ "sys" \notin d.of \cup d.left \cup {d.g}
             /\ \A k \in DOMAIN r2.sections : "sys" \notin r2.sections[k].of
    BY <1>1, <1>4, <1>7 DEF Fits
  <2>4. /\ d.of = {"irq"} \/ d.of \subseteq Group
        /\ \A k \in DOMAIN r2.sections : r2.sections[k].of = {"irq"} \/ r2.sections[k].of \subseteq Group
    BY <1>1, <1>4, <1>7 DEF Fits
  <2> QED
    BY <1>4, <1>6, <1>7, <2>1, <2>2, <2>3, <2>4 DEF Fits
<1>12. ASSUME NEW j \in 1 .. n - 1, calls[j].op \in MidOps PROVE Excused(r2, d)
  <2>1. Excused(r, c)
    BY <1>12, StaysExcused
  <2> QED
    BY <1>3, <1>4, <1>7, <2>1 DEF Excused, OpeningOps
<1>13. d.op \notin MidOps \cup {"irq_count", "irq_restore", "start"} /\ (d.op = "return" => r.who # "low")
  BY <1>2, <1>4 DEF MidOps
<1>14. Idly(calls, n, r, c, r2, d)
  BY <1>2, <1>4, <1>5, <1>7, <1>10, <1>11, <1>12, <1>13 DEF Idly
<1> QED
  BY <1>14, IdleStep

(* A trigger, or the radio's interrupt disabled and enabled.                *)
LEMMA CallPlatformStep ==
  ASSUME RadioIInv, CallPlatform
  PROVE  RadioIInv'
<1> HIDE DEF Step
<1>1. PICK calls : TopOf(calls, Len(running), running[Len(running)], calls[Len(running)])
  BY TopExists
<1> DEFINE n == Len(running)
           r == running[n]
           c == calls[n]
<1>2. TopOf(calls, n, r, c) /\ n = Len(running) /\ r = running[n]
  BY <1>1
<1> HIDE DEF n, r, c
<1>3. CoreAt("callback") /\ UNCHANGED <<nvic, mask, counter, saved>>
  BY DEF CallPlatform
<1>4. c \in LibraryCall /\ Core = r
  BY <1>2, TopIs
<1>5. c.op = "rest" /\ c.left = {} /\ r.code = Base(r.who) /\ Base(r.who) \in Seq(Step)
  BY <1>2, <1>3, IdleIs, BasesAre
<1> DEFINE off == LINKLAYER_PLAT_DisableRadioIT \o LINKLAYER_PLAT_EnableRadioIT
<1>6. PICK code : /\ code \in {LINKLAYER_PLAT_TriggerSwLowIT(p) : p \in {0, 1}} \cup {off}
                  /\ Head(code)[1] = "disable" => Core.who = "task" /\ Core.sections = <<>>
                  /\ running' = [running EXCEPT ![Len(running)].code = code \o @]
  BY DEF CallPlatform
<1>7. running' = [running EXCEPT ![n] = [r EXCEPT !.code = code \o Base(r.who)]]
  <2>1. n \in 1 .. Len(running) /\ running \in Seq(Context)
    BY <1>2, <1>3, IdleIs
  <2> QED
    BY <1>2, <1>5, <1>6, <2>1
<1>8. CASE \E p \in {0, 1} : code = LINKLAYER_PLAT_TriggerSwLowIT(p)
  <2>1. PICK p \in {0, 1} : code = LINKLAYER_PLAT_TriggerSwLowIT(p)
    BY <1>8
  <2> DEFINE d == [c EXCEPT !.op = "trigger", !.arg = p]
  <2>2. d.op = "trigger" /\ d.arg = p
    BY <1>4 DEF LibraryCall
  <2>3. <<"trigger", p>> \in Step /\ <<"pend_low">> \in Step
    BY StepsUsed
  <2>4. CodeOf(d, r.who) = Then(<<"trigger", p>>, Then(<<"pend_low">>, Base(r.who)))
    <3> HIDE DEF d
    <3> QED
      BY <2>2 DEF CodeOf, Pend
  <2>5. code \o Base(r.who) = CodeOf(d, r.who)
    <3> HIDE DEF d
    <3> QED
      BY <1>5, <2>1, <2>3, <2>4, ThenTwo DEF LINKLAYER_PLAT_TriggerSwLowIT
  <2>6. running' = [running EXCEPT ![n] = [r EXCEPT !.code = CodeOf(d, r.who)]]
    BY <1>7, <2>5
  <2>7. p \in {0, 1, RADIO_PRIO_LOW, RADIO_SW_LOW_INTR_PRIO}
    OBVIOUS
  <2> QED
    BY <1>2, <1>3, <2>6, <2>7, IdleTurns
<1>9. CASE code = off
  <2> DEFINE a == <<"disable", "radio">>
             b == <<"enable", "radio">>
             d == [c EXCEPT !.op = "radio_off", !.arg = 0]
  <2>1. a \in Step /\ b \in Step /\ a[1] = "disable"
    BY StepsUsed
  <2>2. off = <<a>> \o <<b>>
    BY DEF LINKLAYER_PLAT_DisableRadioIT, LINKLAYER_PLAT_EnableRadioIT
  <2>3. d.op = "radio_off"
    BY <1>4 DEF LibraryCall
  <2>4. CodeOf(d, r.who) = Then(a, Then(b, Base(r.who)))
    <3> HIDE DEF d
    <3> QED
      BY <2>3 DEF CodeOf
  <2> HIDE DEF a, b, off
  <2>5. off \o Base(r.who) = Then(a, Then(b, Base(r.who))) /\ Head(off) = a
    <3>1. <<a>> \in Seq(Step) /\ <<b>> \in Seq(Step)
      BY <2>1
    <3>2. (<<a>> \o <<b>>) \o Base(r.who) = <<a>> \o (<<b>> \o Base(r.who))
      BY <1>5, <3>1, ConcatAssociative
    <3>3. off = Then(a, <<b>>)
      BY <2>2 DEF Then
    <3>4. Head(off) = a
      BY <2>1, <3>1, <3>3, ThenIs
    <3> QED
      BY <2>2, <3>2, <3>4 DEF Then
  <2>6. r.who = "task" /\ r.sections = <<>>
    BY <1>4, <1>6, <1>9, <2>1, <2>5
  <2>7. running' = [running EXCEPT ![n] = [r EXCEPT !.code = CodeOf(d, r.who)]]
    BY <1>7, <1>9, <2>4, <2>5
  <2>8. 0 \in {0, 1, RADIO_PRIO_LOW, RADIO_SW_LOW_INTR_PRIO}
    OBVIOUS
  <2> QED
    BY <1>2, <1>3, <2>6, <2>7, <2>8, IdleTurns
<1> QED
  BY <1>6, <1>8, <1>9

(* The callback of an interrupt returns.                                    *)
LEMMA CallbackReturnsStep ==
  ASSUME RadioIInv, CallbackReturns
  PROVE  RadioIInv'
<1> HIDE DEF Step
<1>1. PICK calls : TopOf(calls, Len(running), running[Len(running)], calls[Len(running)])
  BY TopExists
<1> DEFINE n == Len(running)
           r == running[n]
           c == calls[n]
<1>2. TopOf(calls, n, r, c)
  BY <1>1
<1> HIDE DEF n, r, c
<1>3. CoreAt("callback") /\ UNCHANGED <<nvic, mask, counter, saved>> /\ CoreRuns(<<>>)
  BY DEF CallbackReturns
<1>4. c \in LibraryCall /\ Core = r /\ r.code = CodeOf(c, r.who)
  BY <1>2, TopIs
<1>5. c.op = "rest" /\ c.left = {} /\ r.code = Base(r.who) /\ r.who \in {"task", "low", "radio"}
  BY <1>2, <1>3, IdleIs
<1>6. r.who \in {"low", "radio"} /\ r.sections = <<>>
  BY <1>4, <1>5 DEF CallbackReturns
<1> DEFINE a == <<"callback">>
           d == [c EXCEPT !.op = IF r.who = "low" THEN "test_nested" ELSE "return", !.arg = 0]
<1>7. d.op = IF r.who = "low" THEN "test_nested" ELSE "return"
  BY <1>4 DEF LibraryCall
<1>8. a \in Step
  BY StepsUsed
<1> DEFINE rest == CodeOf(d, r.who)
<1>9. CodeOf(c, r.who) = Then(a, rest) /\ rest \in Seq(Step)
  <2> HIDE DEF d
  <2>1. CASE r.who = "low"
    <3>1. d.op = "test_nested"
      BY <1>7, <2>1
    <3>2. rest = Then(<<"test_nested">>, LastOf)
      BY <3>1 DEF CodeOf
    <3>3. Base(r.who) = Then(a, Then(<<"test_nested">>, LastOf))
      BY <2>1 DEF Base
    <3> HIDE DEF a, rest
    <3>4. Then(<<"test_nested">>, LastOf) \in Seq(Step)
      BY StepsUsed, BasesAre, ThenIs
    <3> QED
      BY <1>4, <1>5, <3>2, <3>3, <3>4
  <2>2. CASE r.who = "radio"
    <3>1. d.op = "return"
      BY <1>7, <2>2
    <3>2. rest = Ended
      BY <3>1 DEF CodeOf
    <3>3. Base(r.who) = Then(a, Ended)
      BY <2>2 DEF Base
    <3> HIDE DEF a, rest
    <3> QED
      BY <1>4, <1>5, <3>2, <3>3, BasesAre
  <2> QED
    BY <1>6, <2>1, <2>2
<1>10. running' = [running EXCEPT ![n] = [r EXCEPT !.code = rest]]
  <2> HIDE DEF a, rest
  <2> DEFINE s == <<>>
  <2>1. CoreRuns(s)
    BY <1>3
  <2> HIDE DEF s
  <2>2. running' = [running EXCEPT ![n] = [r EXCEPT !.code = s \o rest]]
    BY <1>2, <1>8, <1>9, <2>1, RunsOn
  <2>3. s \o rest = rest
    BY <1>9, ConcatEmptySeq DEF s
  <2> QED
    BY <2>2, <2>3
<1>11. 0 \in {0, 1, RADIO_PRIO_LOW, RADIO_SW_LOW_INTR_PRIO}
  OBVIOUS
<1>12. CASE r.who = "low"
  <2>1. running' = [running EXCEPT ![n] = [r EXCEPT !.code = CodeOf([c EXCEPT !.op = "test_nested", !.arg = 0], r.who)]]
    BY <1>10, <1>12
  <2> QED
    BY <1>2, <1>3, <1>6, <1>11, <1>12, <2>1, IdleTurns
<1>13. CASE r.who = "radio"
  <2>1. running' = [running EXCEPT ![n] = [r EXCEPT !.code = CodeOf([c EXCEPT !.op = "return", !.arg = 0], r.who)]]
    BY <1>10, <1>13
  <2> QED
    BY <1>2, <1>3, <1>6, <1>11, <1>13, <2>1, IdleTurns
<1> QED
  BY <1>6, <1>12, <1>13

-----------------------------------------------------------------------------

(* The library closes its last section.                                     *)
LEMMA CloseSectionStep ==
  ASSUME RadioIInv, CloseSection
  PROVE  RadioIInv'
<1> HIDE DEF Step
<1>1. PICK calls : TopOf(calls, Len(running), running[Len(running)], calls[Len(running)])
  BY TopExists
<1> DEFINE n == Len(running)
           r == running[n]
           c == calls[n]
<1>2. TopOf(calls, n, r, c) /\ n = Len(running) /\ r = running[n]
  BY <1>1
<1> HIDE DEF n, r, c
<1>3. CoreAt("callback") /\ UNCHANGED <<nvic, mask, counter, saved>> /\ Core.sections # <<>>
  BY DEF CloseSection
<1>4. c \in LibraryCall /\ Core = r /\ r \in Context /\ Fits(r, c) /\ r.sections # <<>>
  BY <1>2, <1>3, TopIs
<1>5. /\ c.op = "rest" /\ c.left = {} /\ r.code = Base(r.who) /\ r.who \in {"task", "low", "radio"}
      /\ \A g : Held(r, c, g) = Sections(r, g)
      /\ n \in 1 .. Len(running) /\ running \in Seq(Context)
  BY <1>2, <1>3, IdleIs
<1> DEFINE last == Last(r.sections)
           groups == last.of
           irq == "irq" \in groups
           code == IF irq THEN LINKLAYER_PLAT_EnableIRQ ELSE LINKLAYER_PLAT_EnableSpecificIRQ(groups)
           x == code \o r.code
           y == Front(r.sections)
           d == [c EXCEPT !.op = IF irq THEN "irq_uncount" ELSE "rest", !.left = IF irq THEN {} ELSE groups]
           r2 == [r EXCEPT !.code = x, !.sections = y]
<1>6. /\ r.sections \in Seq(Section) /\ Len(r.sections) \in Nat \ {0} /\ DOMAIN r.sections = 1 .. Len(r.sections)
      /\ last = r.sections[Len(r.sections)]
  <2>1. r.sections \in Seq(Section)
    BY <1>4 DEF Context
  <2> QED
    BY <1>4, <2>1, LenProperties DEF Last
<1>7. groups = {"irq"} \/ groups \subseteq Group
  BY <1>4, <1>6 DEF Fits
<1>8. irq => groups = {"irq"}
  BY <1>7 DEF Group
<1>9. y \in Seq(Section) /\ DOMAIN y \subseteq DOMAIN r.sections /\ \A k \in DOMAIN y : y[k] = r.sections[k]
  BY <1>6 DEF Front
<1>10. running' = [running EXCEPT ![n] = r2]
  <2>1. running' = [running EXCEPT ![n].code = code \o @, ![n].sections = Front(@)]
    BY <1>2, <1>4 DEF CloseSection
  <2>2. n \in DOMAIN running
    BY <1>5
  <2> QED
    BY <1>2, <2>1, <2>2
<1>11. /\ d \in LibraryCall /\ d.op = (IF irq THEN "irq_uncount" ELSE "rest") /\ d.of = c.of /\ d.sound = c.sound
       /\ d.left = (IF irq THEN {} ELSE groups) /\ d.below = c.below /\ d.g = c.g /\ d.arg = c.arg
  <2>1. ~irq => groups \in SUBSET Group
    BY <1>7
  <2> HIDE DEF irq, groups
  <2> QED
    BY <1>4, <2>1 DEF LibraryCall, ClosingOps, IrqOps
<1> HIDE DEF d
<1>12. IsCode(d)
  BY <1>11 DEF IsCode
<1>13. x = CodeOf(d, r.who)
  <2>0. Base(r.who) \in Seq(Step)
    BY BasesAre
  <2>1. CASE irq
    <3>1. d.op = "irq_uncount"
      BY <1>11, <2>1
    <3>2. CodeOf(d, r.who) = Then(<<"uncount_irq">>, Then(<<"restore_primask">>, Base(r.who)))
      BY <3>1 DEF CodeOf
    <3>3. <<"uncount_irq">> \in Step /\ <<"restore_primask">> \in Step
      BY StepsUsed
    <3>4. x = LINKLAYER_PLAT_EnableIRQ \o Base(r.who)
      BY <1>5, <2>1
    <3> QED
      BY <2>0, <3>2, <3>3, <3>4, ThenTwo DEF LINKLAYER_PLAT_EnableIRQ
  <2>2. CASE ~irq
    <3>1. d.op = "rest" /\ d.left = groups
      BY <1>11, <2>2
    <3>2. CodeOf(d, r.who) = LINKLAYER_PLAT_EnableSpecificIRQ(groups) \o Base(r.who)
      BY <3>1 DEF CodeOf, Rest
    <3> QED
      BY <1>5, <2>2, <3>2
  <2> QED
    BY <2>1, <2>2
<1>14. x \in Seq(Step)
  BY <1>12, <1>13, CodeIs
<1>15. r2 \in Context /\ r2.who = r.who /\ r2.sections = y /\ r2.code = CodeOf(d, r.who)
  <2> HIDE DEF x, y
  <2>1. r2 \in Context /\ r2.who = r.who /\ r2.sections = y /\ r2.code = x
    BY <1>4, <1>9, <1>14 DEF Context
  <2> QED
    BY <1>13, <2>1
<1> HIDE DEF r2, x
<1>16. ASSUME NEW g PROVE Sections(r, g) = Sections(r2, g) + (IF g \in groups THEN 1 ELSE 0)
  <2>1. r2.sections = Front(r.sections)
    BY <1>15
  <2> QED
    BY <1>4, <1>15, <2>1, SectionClosed
<1> HIDE DEF y
<1>17. ASSUME NEW g \in CountedKind PROVE Counts(d, g) <=> g \in groups
  <2>1. CASE irq
    <3>1. d.op = "irq_uncount" /\ groups = {"irq"}
      BY <1>8, <1>11, <2>1
    <3> QED
      BY <3>1 DEF Counts, OpeningOps, ClosingOps
  <2>2. CASE ~irq
    <3>1. d.op = "rest" /\ d.left = groups
      BY <1>11, <2>2
    <3> QED
      BY <3>1 DEF Counts, OpeningOps, ClosingOps
  <2> QED
    BY <2>1, <2>2
<1>18. \A g \in CountedKind : Held(r2, d, g) = Held(r, c, g)
  BY <1>5, <1>16, <1>17 DEF Held
<1>19. Fits(r2, d)
  <2>1. IF d.op \in OpeningOps THEN d.left \subseteq d.of ELSE d.op \notin ClosingOps => d.left = {}
    BY <1>11 DEF OpeningOps, ClosingOps
  <2>2. d.op \in {"irq_uncount", "rest"}
    BY <1>11
  <2>3. r2.who # "system"
    BY <1>5, <1>15
  <2>4. r2.who = "radio" =>
             /\ "sys" \notin d.of \cup d.left \cup {d.g}
             /\ \A k \in DOMAIN r2.sections : "sys" \notin r2.sections[k].of
    <3>1. r.who = "radio" => "sys" \notin groups
      BY <1>4, <1>6 DEF Fits
    <3>2. r.who = "radio" => \A k \in DOMAIN r2.sections : "sys" \notin r2.sections[k].of
      BY <1>4, <1>9, <1>15 DEF Fits
    <3>3. r.who = "radio" => "sys" \notin c.of \cup {c.g}
      BY <1>4 DEF Fits
    <3> HIDE DEF groups, irq
    <3> QED
      BY <1>11, <1>15, <3>1, <3>2, <3>3
  <2>5. d.of = {"irq"} \/ d.of \subseteq Group
    BY <1>4, <1>11 DEF Fits
  <2>6. \A k \in DOMAIN r2.sections : r2.sections[k].of = {"irq"} \/ r2.sections[k].of \subseteq Group
    BY <1>4, <1>9, <1>15 DEF Fits
  <2> QED
    BY <1>12, <1>15, <2>1, <2>2, <2>3, <2>4, <2>5, <2>6 DEF Fits, MidOps, HandlerOps
<1>20. ASSUME NEW j \in 1 .. n - 1, calls[j].op \in MidOps PROVE Excused(r2, d)
  <2>1. Excused(r, c)
    BY <1>2, <1>20, StaysExcused
  <2>2. d.op \notin OpeningOps
    BY <1>11 DEF OpeningOps
  <2>3. \A k \in DOMAIN r2.sections : r2.sections[k].sound => "irq" \in r2.sections[k].of
    BY <1>9, <1>15, <2>1 DEF Excused
  <2> QED
    BY <2>2, <2>3 DEF Excused
<1>21. d.op \notin MidOps \cup {"irq_count", "irq_restore", "start"} /\ d.op # "return"
  BY <1>11 DEF MidOps
<1>22. Idly(calls, n, r, c, r2, d)
  BY <1>2, <1>3, <1>5, <1>10, <1>11, <1>15, <1>18, <1>19, <1>20, <1>21 DEF Idly
<1> QED
  BY <1>22, IdleStep

-----------------------------------------------------------------------------

(* The steps that enable or disable an interrupt, and which.                *)
LineOps == {"disable", "radio_off", "start", "enable", "radio_on", "last"}
LineAt(c) == IF c.op \in {"disable", "enable"} THEN LineOf[c.g] ELSE IF c.op \in {"radio_off", "radio_on"} THEN "radio" ELSE "low"
GroupAt(c) == IF LineAt(c) = "radio" THEN "high" ELSE "low"

(* A step of these changes neither what a context holds nor who restores    *)
(* BASEPRI.                                                                 *)
LEMMA LineKeeps ==
  ASSUME NEW calls, NEW n, NEW r, NEW c, TopOf(calls, n, r, c), c.op \in LineOps,
         NEW r2, r2 = [r EXCEPT !.code = CodeOf(GoesOn(c), r.who)], NEW d, d = GoesOn(c)
  PROVE  /\ r2 \in Context /\ d \in LibraryCall /\ r2.who = r.who /\ r2.sections = r.sections /\ Fits(r2, d)
         /\ d.op = NextOp(c.op) /\ d.g = c.g /\ d.below = c.below
         /\ LineAt(c) \in {"radio", "low"} /\ HeadOf(c)[2] = LineAt(c) /\ GroupAt(c) \in Group
         /\ c.op \in {"disable", "enable"} => c.g = GroupAt(c)
         /\ \A g : Held(r2, d, g) = Held(r, c, g)
         /\ \A j \in 1 .. n - 1 : calls[j].op \in MidOps => Excused(r2, d)
         /\ \A g : ~Mid(r2, d, g) /\ (Mid(r, c, g) => c.op = "disable" /\ g = c.g)
         /\ Restores(r, c) => Restores(r2, d)
         /\ MasksAll(r2, d) <=> MasksAll(r, c)
<1>1. r \in Context /\ c \in LibraryCall /\ Fits(r, c) /\ IsCode(c)
  BY TopIs
<1>2. c.op \notin {"opening", "rest", "return"}
  BY DEF LineOps
<1>3. /\ d \in LibraryCall /\ r2 \in Context /\ Fits(r2, d)
      /\ r2.who = r.who /\ r2.sections = r.sections
      /\ d.op = NextOp(c.op) /\ d.of = c.of /\ d.sound = c.sound /\ d.left = c.left
      /\ d.g = c.g /\ d.below = c.below
      /\ \A g : Sections(r2, g) = Sections(r, g)
  BY <1>1, <1>2, GoesOnIs
<1>4. d.op = CASE c.op = "disable" -> "opening" [] c.op = "radio_off" -> "radio_on" [] c.op \in {"start", "enable", "radio_on"} -> "rest"
               [] c.op = "last" -> "return"
  BY <1>3 DEF NextOp, LineOps
<1>5. c.g \in Group /\ (c.op \in {"disable", "enable"} => c.g # "sys")
  BY <1>1 DEF LibraryCall, IsCode
<1>6. LineAt(c) \in {"radio", "low"} /\ (c.op \in {"disable", "enable"} => c.g = GroupAt(c)) /\ GroupAt(c) \in Group
  BY <1>5 DEF LineAt, GroupAt, LineOf, Group
<1>7. HeadOf(c)[2] = LineAt(c)
  BY DEF HeadOf, LineAt, LineOps
<1>8. c.op \notin {"disable", "enable"} => c.left = {}
  BY <1>1 DEF Fits, OpeningOps, ClosingOps, LineOps
<1>9. \A g : Counts(d, g) <=> Counts(c, g)
  <2>1. CASE c.op = "disable"
    <3>1. d.op = "opening"
      BY <1>4, <2>1
    <3> QED
      BY <1>3, <2>1, <3>1 DEF Counts, OpeningOps, ClosingOps
  <2>2. CASE c.op = "enable"
    <3>1. d.op = "rest"
      BY <1>4, <2>2
    <3> QED
      BY <1>3, <2>2, <3>1 DEF Counts, OpeningOps, ClosingOps
  <2>3. CASE c.op \notin {"disable", "enable"}
    <3>1. d.op \in {"radio_on", "rest", "return"} /\ c.op \in {"radio_off", "start", "radio_on", "last"}
      BY <1>4, <2>3 DEF LineOps
    <3>2. d.left = {} /\ c.left = {}
      BY <1>3, <1>8, <2>3
    <3> QED
      BY <3>1, <3>2 DEF Counts, OpeningOps, ClosingOps
  <2> QED
    BY <2>1, <2>2, <2>3
<1>10. \A g : Held(r2, d, g) = Held(r, c, g)
  BY <1>3, <1>9 DEF Held
<1>11. ASSUME NEW j \in 1 .. n - 1, calls[j].op \in MidOps PROVE Excused(r2, d)
  <2>1. Excused(r, c)
    BY <1>11, StaysExcused
  <2>2. d.op \in OpeningOps => c.op \in OpeningOps
    BY <1>4 DEF OpeningOps, LineOps
  <2> QED
    BY <1>3, <2>1, <2>2 DEF Excused
<1>12. \A g : ~Mid(r2, d, g) /\ (Mid(r, c, g) => c.op = "disable" /\ g = c.g)
  BY <1>4 DEF Mid, MidOps, LineOps
<1>13. Restores(r, c) => Restores(r2, d)
  <2>1. Restores(r, c) => Held(r, c, "sys") > 0
    BY DEF Restores, LineOps
  <2> QED
    BY <1>3, <1>10, <1>12, <2>1 DEF Restores
<1>14. MasksAll(r2, d) <=> MasksAll(r, c)
  BY <1>4, <1>10 DEF MasksAll, LineOps
<1> QED
  BY <1>3, <1>6, <1>7, <1>10, <1>11, <1>12, <1>13, <1>14

(* No context below holds closed what the step enables.                     *)
LEMMA NoneBelowCloses ==
  ASSUME NEW calls, NEW n, NEW r, NEW c, TopOf(calls, n, r, c), c.op \in {"enable", "radio_on", "last"},
         NEW i \in 1 .. n - 1
  PROVE  ~Closed(running[i], calls[i], GroupAt(c))
<1> DEFINE g == GroupAt(c)
<1>1. /\ r \in Context /\ c \in LibraryCall /\ Fits(r, c) /\ n \in Nat /\ n > 0 /\ n = Len(running) /\ r = running[n] /\ c = calls[n]
      /\ Follows(running, calls, nvic, mask, counter, saved)
  BY TopIs DEF TopOf
<1>2. c.op \in LineOps
  BY DEF LineOps
<1>3. g \in Group /\ g \in CountedKind /\ (c.op = "enable" => c.g = g)
  <2> DEFINE r2 == [r EXCEPT !.code = CodeOf(GoesOn(c), r.who)]
             d == GoesOn(c)
  <2>1. r2 = [r EXCEPT !.code = CodeOf(GoesOn(c), r.who)] /\ d = GoesOn(c)
    OBVIOUS
  <2> HIDE DEF r2, d, g
  <2>2. GroupAt(c) \in Group /\ (c.op \in {"disable", "enable"} => c.g = GroupAt(c))
    BY <1>2, <2>1, LineKeeps
  <2> QED
    BY <2>2 DEF g, Group, CountedKind
<1>4. ASSUME c.below[g] = 0 PROVE ~Closed(running[i], calls[i], g)
  <2>1. Held(running[i], calls[i], g) = 0
    BY <1>3, <1>4, BelowIs
  <2> QED
    BY <2>1 DEF Closed
<1>5. CASE c.op = "enable"
  <2>1. c.below[g] = 0
    BY <1>1, <1>3, <1>5 DEF Fits
  <2> QED
    BY <1>4, <2>1
<1>6. CASE c.op = "radio_on"
  <2>1. r.who = "task"
    BY <1>1, <1>6 DEF Fits
  <2>2. running[1].who = "task" /\ 1 \in 1 .. n /\ n \in 1 .. n
    BY <1>1 DEF Follows
  <2>3. n = 1
    BY <1>1, <2>1, <2>2 DEF Follows, Exclusion
  <2> QED
    BY <1>1, <2>3
<1>7. CASE c.op = "last"
  <2>1. r.who = "low" /\ g = "low"
    BY <1>1, <1>7 DEF Fits, HandlerOps, GroupAt, LineAt
  <2>2. CASE c.below[g] = 0
    BY <1>4, <2>2
  <2>3. CASE c.below[g] # 0
    <3>1. c.below[g] > 0 /\ n \in 1 .. n
      BY <1>1, <1>3, <2>3, BelowIs
    <3>2. PICK j \in 1 .. n - 1 : calls[j].below["low"] = 0 /\ Mid(running[j], calls[j], "low")
      BY <1>1, <2>1, <3>1 DEF Follows, Overlaps
    <3>3. j \in 1 .. n /\ i \in 1 .. n
      BY <1>1
    <3>4. Fits(running[j], calls[j]) /\ running[j] \in Context
      BY <1>1, <3>3, BelowIs DEF Follows
    <3>5. Counts(calls[j], "low")
      BY <3>2, <3>4 DEF Mid, Fits, Counts, MidOps, OpeningOps
    <3>6. Held(running[j], calls[j], "low") > 0
      BY <3>4, <3>5, HeldIs
    <3>7. ASSUME Closed(running[i], calls[i], "low") PROVE FALSE
      <4>1. calls[i].below["low"] = 0 /\ Held(running[i], calls[i], "low") > 0 /\ ~Mid(running[i], calls[i], "low")
        BY <3>7 DEF Closed
      <4>2. i # j
        BY <3>2, <4>1
      <4>3. Tallies(running, calls, counter)
        BY <1>1 DEF Follows
      <4>4. /\ Held(running[i], calls[i], "low") \in Nat /\ Held(running[j], calls[j], "low") \in Nat
            /\ calls[i].below["low"] \in Nat /\ calls[j].below["low"] \in Nat
        BY BelowIs DEF CountedKind
      <4>5. CASE i < j
        <5>1. i \in 1 .. j - 1
          BY <1>1, <4>5
        <5>2. calls[i].below["low"] + Held(running[i], calls[i], "low") <= calls[j].below["low"]
          BY <1>1, <3>3, <4>3, <5>1 DEF Tallies, CountedKind
        <5> QED
          BY <3>2, <4>1, <4>4, <5>2
      <4>6. CASE j < i
        <5>1. j \in 1 .. i - 1
          BY <1>1, <4>6
        <5>2. calls[j].below["low"] + Held(running[j], calls[j], "low") <= calls[i].below["low"]
          BY <1>1, <3>3, <4>3, <5>1 DEF Tallies, CountedKind
        <5> QED
          BY <3>6, <4>1, <4>4, <5>2
      <4> QED
        BY <1>1, <4>2, <4>5, <4>6
    <3> QED
      BY <2>1, <3>7
  <2> QED
    BY <2>2, <2>3
<1> QED
  BY <1>5, <1>6, <1>7

-----------------------------------------------------------------------------

(* A step that enables or disables an interrupt.                            *)
LEMMA SetLineStep ==
  ASSUME RadioIInv, SetLine
  PROVE  RadioIInv'
<1>1. PICK calls : TopOf(calls, Len(running), running[Len(running)], calls[Len(running)])
  BY TopExists
<1> DEFINE n == Len(running)
           r == running[n]
           c == calls[n]
<1>2. TopOf(calls, n, r, c) /\ n = Len(running) /\ r = running[n] /\ c = calls[n]
  BY <1>1
<1> HIDE DEF n, r, c
<1>3. /\ c \in LibraryCall /\ RegisterTypes(nvic, mask, counter, saved) /\ n \in Nat /\ n > 0 /\ Fits(r, c) /\ r \in Context
      /\ \A op : CoreAt(op) <=> Label(c) = op
  BY <1>2, TopIs
<1>4. Label(c) \in {"disable", "enable"} /\ UNCHANGED <<mask, counter, saved>> /\ CoreRuns(<<>>)
  BY <1>3 DEF SetLine
<1>5. /\ Label(c) = "disable" => c.op \in {"disable", "radio_off", "start"}
      /\ Label(c) = "enable" => c.op \in {"enable", "radio_on", "last"}
  BY <1>3 DEF Label, LibraryCall, OpeningOps, ClosingOps, IrqOps, HandlerOps, OtherOps
<1>6. c.op \in LineOps /\ c.op \notin {"opening", "rest", "return"}
  BY <1>4, <1>5 DEF LineOps
<1> DEFINE line == LineAt(c)
           group == GroupAt(c)
           r2 == [r EXCEPT !.code = CodeOf(GoesOn(c), r.who)]
           d == GoesOn(c)
<1>7. running' = [running EXCEPT ![n] = r2] /\ Arg = HeadOf(c)[2]
  BY <1>2, <1>4, <1>6, GoesIs
<1>8. r2 = [r EXCEPT !.code = CodeOf(GoesOn(c), r.who)] /\ d = GoesOn(c)
  OBVIOUS
<1> HIDE DEF r2, d
<1>9. /\ r2 \in Context /\ d \in LibraryCall /\ r2.who = r.who /\ r2.sections = r.sections /\ Fits(r2, d)
      /\ d.op = NextOp(c.op) /\ d.g = c.g /\ d.below = c.below
      /\ LineAt(c) \in {"radio", "low"} /\ HeadOf(c)[2] = LineAt(c) /\ GroupAt(c) \in Group
      /\ c.op \in {"disable", "enable"} => c.g = GroupAt(c)
      /\ \A g : Held(r2, d, g) = Held(r, c, g)
      /\ \A j \in 1 .. n - 1 : calls[j].op \in MidOps => Excused(r2, d)
      /\ \A g : ~Mid(r2, d, g) /\ (Mid(r, c, g) => c.op = "disable" /\ g = c.g)
      /\ Restores(r, c) => Restores(r2, d)
      /\ MasksAll(r2, d) <=> MasksAll(r, c)
  BY <1>2, <1>6, <1>8, LineKeeps
<1>10. nvic' = [nvic EXCEPT !.enabled = IF Label(c) = "disable" THEN @ \ {line} ELSE @ \cup {line}]
  <2>1. CASE Label(c) = "disable"
    BY <1>3, <1>7, <1>9, <2>1 DEF SetLine
  <2>2. CASE Label(c) = "enable"
    BY <1>3, <1>7, <1>9, <2>2 DEF SetLine
  <2> QED
    BY <1>4, <2>1, <2>2
<1>11. nvic'.enabled = (IF Label(c) = "disable" THEN nvic.enabled \ {line} ELSE nvic.enabled \cup {line})
       /\ RegisterTypes(nvic', mask', counter', saved')
  BY <1>3, <1>4, <1>9, <1>10 DEF RegisterTypes
<1>12. Follows(running, calls, nvic, mask, counter, saved)
  BY <1>2 DEF TopOf
<1>13. \A g \in CountedKind : counter'[g] = d.below[g] + Held(r2, d, g)
  BY <1>2, <1>4, <1>9, BelowIs
<1>14. Closures(running, calls, nvic.enabled, mask.basepri) /\ mask'.basepri = mask.basepri
  BY <1>4, <1>12 DEF Follows
<1>15. /\ group = "high" <=> line = "radio"
       /\ group = "low" <=> line = "low"
       /\ group # "sys"
  BY <1>9 DEF GroupAt
<1>16. ASSUME NEW g \in Group, g # group
       PROVE  Shut(g, nvic'.enabled, mask'.basepri) <=> Shut(g, nvic.enabled, mask.basepri)
  BY <1>9, <1>11, <1>14, <1>15, <1>16 DEF Shut, Group
<1>17. Label(c) = "disable" => Shut(group, nvic'.enabled, mask'.basepri)
  BY <1>9, <1>11, <1>15 DEF Shut
<1> HIDE DEF line, group
<1>18. ASSUME NEW g \in Group, Shut(g, nvic.enabled, mask.basepri), ~Shut(g, nvic'.enabled, mask'.basepri),
              NEW j \in 1 .. n - 1
       PROVE  ~Closed(running[j], calls[j], g)
  <2>1. g = group /\ Label(c) = "enable"
    BY <1>4, <1>16, <1>17, <1>18
  <2>2. c.op \in {"enable", "radio_on", "last"}
    BY <1>5, <2>1
  <2>3. ~Closed(running[j], calls[j], GroupAt(c))
    BY <1>2, <2>2, NoneBelowCloses
  <2> QED
    BY <2>1, <2>3 DEF group
<1>19. ASSUME NEW g \in Group, Closed(r2, d, g) PROVE Shut(g, nvic'.enabled, mask'.basepri)
  <2>1. c.below[g] = 0 /\ Held(r, c, g) > 0
    BY <1>9, <1>19 DEF Closed
  <2>2. CASE Label(c) = "disable"
    <3>1. CASE g = group
      BY <1>17, <2>2, <3>1
    <3>2. CASE g # group
      <4>1. ~Mid(r, c, g)
        BY <1>9, <3>2 DEF group
      <4>2. Shut(g, nvic.enabled, mask.basepri)
        <5>1. Closed(r, c, g) /\ n \in 1 .. Len(running)
          BY <1>2, <1>3, <2>1, <4>1 DEF Closed
        <5> QED
          BY <1>2, <1>14, <5>1 DEF Closures
      <4> QED
        BY <1>16, <3>2, <4>2
    <3> QED
      BY <3>1, <3>2
  <2>3. CASE Label(c) = "enable"
    <3>0. c.op \in {"enable", "radio_on", "last"}
      BY <1>5, <2>3
    <3>1. ~Mid(r, c, g)
      BY <1>9, <3>0
    <3>2. Shut(g, nvic.enabled, mask.basepri)
      <4>1. Closed(r, c, g) /\ n \in 1 .. Len(running)
        BY <1>2, <1>3, <2>1, <3>1 DEF Closed
      <4> QED
        BY <1>2, <1>14, <4>1 DEF Closures
    <3>3. g # group
      <4>1. Held(r, c, GroupAt(c)) = 0
        <5>1. CASE c.op = "enable"
          BY <1>3, <1>9, <5>1 DEF Fits
        <5>2. CASE c.op \in {"radio_on", "last"}
          <6>1. r.sections = <<>> /\ c.left = {}
            BY <1>3, <5>2 DEF Fits, HandlerOps, OpeningOps, ClosingOps
          <6>2. ~Counts(c, GroupAt(c))
            BY <5>2 DEF Counts, OpeningOps, ClosingOps
          <6>3. Sections(r, GroupAt(c)) = 0
            BY <1>3, <6>1, SectionsAre
          <6> QED
            BY <6>2, <6>3 DEF Held
        <5> QED
          BY <3>0, <5>1, <5>2
      <4> QED
        BY <2>1, <4>1 DEF group
    <3> QED
      BY <1>16, <3>2, <3>3
  <2> QED
    BY <1>4, <2>2, <2>3
<1>20. ASSUME NEW l \in {"radio", "low"}, Enables(r, c, l), l # line \/ Label(c) = "disable" PROVE Enables(r2, d, l)
  <2>1. CASE c.op = "disable"
    <3>1. d.op = "opening"
      BY <1>9, <2>1 DEF NextOp
    <3> QED
      BY <1>9, <1>20, <2>1, <3>1 DEF Enables
  <2>2. CASE c.op = "radio_off"
    <3>1. d.op = "radio_on"
      BY <1>9, <2>2 DEF NextOp
    <3> QED
      BY <1>9, <1>20, <2>2, <3>1 DEF Enables
  <2>3. CASE c.op = "start"
    <3>1. d.op = "rest"
      BY <1>9, <2>3 DEF NextOp
    <3> QED
      BY <1>9, <1>20, <2>3, <3>1 DEF Enables
  <2>4. CASE c.op \in {"enable", "radio_on", "last"}
    <3>0. Label(c) = "enable" /\ l # line
      BY <1>20, <2>4 DEF Label
    <3>1. d.op = IF c.op = "last" THEN "return" ELSE "rest"
      BY <1>9, <2>4 DEF NextOp
    <3>2. CASE c.op = "enable"
      <4>1. (l = "radio" => c.g # "high") /\ (l = "low" => c.g # "low")
        BY <1>9, <1>15, <3>0, <3>2 DEF group
      <4> QED
        BY <1>9, <1>20, <3>1, <3>2, <4>1 DEF Enables
    <3>3. CASE c.op = "radio_on"
      <4>1. line = "radio"
        BY <3>3 DEF line, LineAt
      <4> QED
        BY <1>9, <1>20, <3>0, <3>1, <3>3, <4>1 DEF Enables
    <3>4. CASE c.op = "last"
      <4>1. line = "low"
        BY <3>4 DEF line, LineAt
      <4> QED
        BY <1>9, <1>20, <3>0, <3>1, <3>4, <4>1 DEF Enables
    <3> QED
      BY <2>4, <3>2, <3>3, <3>4
  <2> QED
    BY <1>6, <2>1, <2>2, <2>3, <2>4 DEF LineOps
<1>21. Label(c) = "disable" => Enables(r2, d, line)
  <2> SUFFICES ASSUME Label(c) = "disable" PROVE Enables(r2, d, line)
    OBVIOUS
  <2>1. CASE c.op = "disable"
    <3>1. Held(r2, d, c.g) > 0
      <4>1. c.g \in c.of \ c.left
        BY <1>3, <2>1 DEF Fits, MidOps
      <4>2. Counts(c, c.g)
        BY <2>1, <4>1 DEF Counts, OpeningOps
      <4>3. Held(r, c, c.g) > 0
        BY <1>3, <4>2, HeldIs
      <4> QED
        BY <1>9, <4>3
    <3>2. (line = "radio" /\ c.g = "high") \/ (line = "low" /\ c.g = "low")
      BY <1>9, <1>15, <2>1 DEF line, group
    <3> QED
      BY <3>1, <3>2 DEF Enables
  <2>2. CASE c.op = "radio_off"
    <3>1. d.op = "radio_on" /\ line = "radio"
      BY <1>9, <2>2 DEF NextOp, line, LineAt
    <3> QED
      BY <3>1 DEF Enables
  <2>3. CASE c.op = "start"
    <3>1. d.op = "rest" /\ line = "low" /\ r2.who = "low"
      BY <1>3, <1>9, <2>3 DEF NextOp, line, LineAt, Fits, HandlerOps
    <3> QED
      BY <3>1 DEF Enables
  <2> QED
    BY <1>5, <2>1, <2>2, <2>3
<1>22. ASSUME NEW l \in {"radio", "low"} \ nvic'.enabled
       PROVE  Enables(r2, d, l) \/ \E j \in 1 .. n - 1 : Enables(running[j], calls[j], l)
  <2>1. CASE l \in nvic.enabled
    <3>1. l = line /\ Label(c) = "disable"
      BY <1>4, <1>11, <1>22, <2>1
    <3> QED
      BY <1>21, <3>1
  <2>2. CASE l \notin nvic.enabled
    <3>1. l # line \/ Label(c) = "disable"
      BY <1>11, <1>22
    <3>2. PICK i \in 1 .. n : Enables(running[i], calls[i], l)
      BY <1>2, <1>14, <2>2 DEF Closures
    <3>3. CASE i = n
      BY <1>2, <1>20, <3>1, <3>2, <3>3
    <3>4. CASE i # n
      <4>1. i \in 1 .. n - 1
        BY <1>3, <3>4
      <4> QED
        BY <3>2, <4>1
    <3> QED
      BY <3>3, <3>4
  <2> QED
    BY <2>1, <2>2
<1>23. ASSUME mask'.basepri # 0
       PROVE  \/ Restores(r2, d)
              \/ r2.who = "radio" /\ \E j \in 1 .. n - 1 : Restores(running[j], calls[j])
                                                           /\ \A k \in j + 1 .. n - 1 : running[k].who = "radio"
  <2>1. PICK i \in 1 .. n : Restores(running[i], calls[i]) /\ \A j \in i + 1 .. n : running[j].who = "radio"
    BY <1>2, <1>14, <1>23 DEF Closures
  <2>2. CASE i = n
    BY <1>2, <1>9, <2>1, <2>2
  <2>3. CASE i # n
    <3>1. i \in 1 .. n - 1 /\ n \in i + 1 .. n /\ \A k \in i + 1 .. n - 1 : k \in i + 1 .. n
      BY <1>3, <2>3
    <3> QED
      BY <1>2, <1>9, <2>1, <3>1
  <2> QED
    BY <2>2, <2>3
<1>24. mask'.primask <=> MasksAll(r2, d)
  BY <1>2, <1>4, <1>9, NoneBelowMasks
<1>25. r2.who = running[n].who /\ d.below = calls[n].below
  BY <1>2, <1>9
<1>26. Moves(running, calls, nvic, mask, counter, saved, r2, d, nvic', mask', counter', saved')
  BY <1>2, <1>9, <1>11, <1>12, <1>13, <1>18, <1>19, <1>22, <1>23, <1>24, <1>25 DEF Moves
<1>27. Follows([running EXCEPT ![Len(running)] = r2], [calls EXCEPT ![Len(running)] = d], nvic', mask', counter', saved')
  BY <1>26, TopStep
<1> QED
  BY <1>2, <1>7, <1>27 DEF RadioIInv

-----------------------------------------------------------------------------

(* A step that sets BASEPRI or restores it.                                 *)
LEMMA SetBasepriStep ==
  ASSUME RadioIInv, SetBasepri
  PROVE  RadioIInv'
<1>1. PICK calls : TopOf(calls, Len(running), running[Len(running)], calls[Len(running)])
  BY TopExists
<1> DEFINE n == Len(running)
           r == running[n]
           c == calls[n]
<1>2. TopOf(calls, n, r, c) /\ n = Len(running) /\ r = running[n] /\ c = calls[n]
  BY <1>1
<1> HIDE DEF n, r, c
<1>3. /\ c \in LibraryCall /\ RegisterTypes(nvic, mask, counter, saved) /\ n \in Nat /\ n > 0 /\ Fits(r, c) /\ r \in Context
      /\ \A op : CoreAt(op) <=> Label(c) = op
  BY <1>2, TopIs
<1>4. Label(c) \in {"set_basepri", "restore_basepri"} /\ UNCHANGED <<nvic, counter, saved>> /\ CoreRuns(<<>>)
  BY <1>3 DEF SetBasepri
<1>5. /\ Label(c) = "set_basepri" => c.op = "set"
      /\ Label(c) = "restore_basepri" => c.op = "restore"
      /\ c.op \in {"set", "restore"}
  BY <1>3, <1>4 DEF Label, LibraryCall, OpeningOps, ClosingOps, IrqOps, HandlerOps, OtherOps
<1>6. c.op \notin {"opening", "rest", "return"}
  BY <1>5
<1> DEFINE r2 == [r EXCEPT !.code = CodeOf(GoesOn(c), r.who)]
           d == GoesOn(c)
<1>7. running' = [running EXCEPT ![n] = r2]
  BY <1>2, <1>4, <1>6, GoesIs
<1>8. /\ d \in LibraryCall /\ r2 \in Context /\ Fits(r2, d)
      /\ r2.who = r.who /\ r2.sections = r.sections
      /\ d.op = NextOp(c.op) /\ d.of = c.of /\ d.sound = c.sound /\ d.left = c.left
      /\ d.g = c.g /\ d.below = c.below
      /\ \A g : Sections(r2, g) = Sections(r, g)
  BY <1>3, <1>6, GoesOnIs
<1> HIDE DEF r2, d
<1>9. d.op = IF c.op = "set" THEN "opening" ELSE "rest"
  BY <1>5, <1>8 DEF NextOp
<1>10. /\ c.g = "sys" /\ c.below["sys"] = 0
       /\ c.op = "set" => "sys" \in c.of \ c.left
       /\ c.op = "restore" => Held(r, c, "sys") = 0
  BY <1>3, <1>5 DEF Fits, MidOps
<1>11. \A g : Counts(d, g) <=> Counts(c, g)
  <2>1. CASE c.op = "set"
    BY <1>8, <1>9, <2>1 DEF Counts, OpeningOps, ClosingOps
  <2>2. CASE c.op = "restore"
    BY <1>8, <1>9, <2>2 DEF Counts, OpeningOps, ClosingOps
  <2> QED
    BY <1>5, <2>1, <2>2
<1>12. \A g : Held(r2, d, g) = Held(r, c, g)
  BY <1>8, <1>11 DEF Held
<1>13. \A g : ~Mid(r2, d, g) /\ (Mid(r, c, g) => g = "sys")
  BY <1>9, <1>10 DEF Mid, MidOps
<1>14. ASSUME NEW j \in 1 .. n - 1, calls[j].op \in MidOps PROVE Excused(r2, d)
  <2>1. Excused(r, c)
    BY <1>2, <1>14, StaysExcused
  <2>2. d.op \in OpeningOps => c.op \in OpeningOps
    BY <1>5, <1>9 DEF OpeningOps
  <2> QED
    BY <1>8, <2>1, <2>2 DEF Excused
<1>15. /\ mask' = [mask EXCEPT !.basepri = IF c.op = "set" THEN RADIO_PRIO_LOW ELSE saved.basepri]
       /\ saved.basepri = 0
  <2>1. saved.basepri = 0
    BY <1>3 DEF RegisterTypes
  <2>2. CASE c.op = "set"
    <3>1. Label(c) = "set_basepri"
      BY <2>2 DEF Label
    <3> QED
      BY <1>3, <2>1, <2>2, <3>1 DEF SetBasepri
  <2>3. CASE c.op = "restore"
    <3>1. Label(c) = "restore_basepri"
      BY <2>3 DEF Label
    <3> QED
      BY <1>3, <2>1, <2>3, <3>1 DEF SetBasepri
  <2> QED
    BY <1>5, <2>2, <2>3
<1>16. /\ RegisterTypes(nvic', mask', counter', saved') /\ mask'.primask = mask.primask
       /\ mask'.basepri = IF c.op = "set" THEN RADIO_PRIO_LOW ELSE 0
  BY <1>3, <1>4, <1>15 DEF RegisterTypes
<1>17. Follows(running, calls, nvic, mask, counter, saved) /\ Closures(running, calls, nvic.enabled, mask.basepri)
  BY <1>2 DEF TopOf, Follows
<1>18. \A g \in CountedKind : counter'[g] = d.below[g] + Held(r2, d, g)
  BY <1>2, <1>4, <1>8, <1>12, BelowIs
<1>19. ASSUME NEW g \in Group, g # "sys"
       PROVE  Shut(g, nvic'.enabled, mask'.basepri) <=> Shut(g, nvic.enabled, mask.basepri)
  BY <1>4, <1>19 DEF Shut, Group
<1>20. c.op = "set" => Shut("sys", nvic'.enabled, mask'.basepri)
  BY <1>16 DEF Shut
<1>21. ASSUME NEW g \in Group, Shut(g, nvic.enabled, mask.basepri), ~Shut(g, nvic'.enabled, mask'.basepri),
              NEW j \in 1 .. n - 1
       PROVE  ~Closed(running[j], calls[j], g)
  <2>1. g = "sys"
    BY <1>19, <1>21
  <2>2. Held(running[j], calls[j], "sys") = 0
    <3>1. "sys" \in CountedKind /\ c.below["sys"] = 0
      BY <1>10 DEF CountedKind
    <3>2. \A i \in 1 .. n - 1, x \in CountedKind : c.below[x] = 0 => Held(running[i], calls[i], x) = 0
      BY <1>2, BelowIs
    <3> QED
      BY <3>1, <3>2
  <2> QED
    BY <2>1, <2>2 DEF Closed
<1>22. ASSUME NEW g \in Group, Closed(r2, d, g) PROVE Shut(g, nvic'.enabled, mask'.basepri)
  <2>1. c.below[g] = 0 /\ Held(r, c, g) > 0
    BY <1>8, <1>12, <1>22 DEF Closed
  <2>2. CASE g = "sys"
    BY <1>5, <1>10, <1>20, <2>1, <2>2
  <2>3. CASE g # "sys"
    <3>1. Closed(r, c, g) /\ n \in 1 .. Len(running)
      BY <1>2, <1>3, <1>13, <2>1, <2>3 DEF Closed
    <3>2. Shut(g, nvic.enabled, mask.basepri)
      BY <1>2, <1>17, <3>1 DEF Closures
    <3> QED
      BY <1>19, <2>3, <3>2
  <2> QED
    BY <2>2, <2>3
<1>23. \A line \in {"radio", "low"} : Enables(r, c, line) => Enables(r2, d, line)
  BY <1>5, <1>8, <1>9, <1>12 DEF Enables
<1>24. ASSUME NEW l \in {"radio", "low"} \ nvic'.enabled
       PROVE  Enables(r2, d, l) \/ \E j \in 1 .. n - 1 : Enables(running[j], calls[j], l)
  <2>1. l \notin nvic.enabled
    BY <1>4, <1>24
  <2>2. PICK i \in 1 .. n : Enables(running[i], calls[i], l)
    BY <1>2, <1>17, <2>1 DEF Closures
  <2>3. CASE i = n
    BY <1>2, <1>23, <2>2, <2>3
  <2>4. CASE i # n
    <3>1. i \in 1 .. n - 1
      BY <1>3, <2>4
    <3> QED
      BY <2>2, <3>1
  <2> QED
    BY <2>3, <2>4
<1>25. mask'.basepri # 0 => Restores(r2, d)
  <2> SUFFICES ASSUME mask'.basepri # 0 PROVE Restores(r2, d)
    OBVIOUS
  <2>1. c.op = "set"
    BY <1>16
  <2>2. Held(r, c, "sys") > 0
    <3>1. Counts(c, "sys")
      BY <1>10, <2>1 DEF Counts, OpeningOps
    <3> QED
      BY <1>3, <3>1, HeldIs
  <2> QED
    BY <1>8, <1>10, <1>12, <1>13, <2>2 DEF Restores
<1>26. mask'.primask <=> MasksAll(r2, d)
  <2>1. MasksAll(r2, d) <=> MasksAll(r, c)
    BY <1>5, <1>9, <1>12 DEF MasksAll
  <2> QED
    BY <1>2, <1>16, <2>1, NoneBelowMasks
<1>27. r2.who = running[n].who /\ d.below = calls[n].below
  BY <1>2, <1>8
<1>28. Moves(running, calls, nvic, mask, counter, saved, r2, d, nvic', mask', counter', saved')
  BY <1>2, <1>8, <1>14, <1>16, <1>17, <1>18, <1>21, <1>22, <1>24, <1>25, <1>26, <1>27 DEF Moves
<1>29. Follows([running EXCEPT ![Len(running)] = r2], [calls EXCEPT ![Len(running)] = d], nvic', mask', counter', saved')
  BY <1>28, TopStep
<1> QED
  BY <1>2, <1>7, <1>29 DEF RadioIInv

-----------------------------------------------------------------------------

(* A handler returns.                                                       *)
LEMMA ReturnStep ==
  ASSUME RadioIInv, ReturnFromInterrupt
  PROVE  RadioIInv'
<1>1. PICK calls : TopOf(calls, Len(running), running[Len(running)], calls[Len(running)])
  BY TopExists
<1> DEFINE n == Len(running)
           r == running[n]
           c == calls[n]
           run2 == Front(running)
           calls2 == Front(calls)
<1>2. TopOf(calls, n, r, c) /\ n = Len(running) /\ r = running[n] /\ c = calls[n]
  BY <1>1
<1>3. running' = run2 /\ UNCHANGED <<nvic, mask, counter, saved>> /\ CoreAt("return")
  BY DEF ReturnFromInterrupt
<1> HIDE DEF n, r, c
<1>4. /\ c \in LibraryCall /\ RegisterTypes(nvic, mask, counter, saved) /\ n \in Nat /\ n > 0 /\ Fits(r, c) /\ r \in Context
      /\ Label(c) = "return" /\ running \in Seq(Context) /\ Follows(running, calls, nvic, mask, counter, saved)
  BY <1>2, <1>3, TopIs DEF TopOf
<1>5. c.op = "return"
  BY <1>4 DEF Label, LibraryCall, OpeningOps, ClosingOps, IrqOps, HandlerOps, OtherOps
<1>6. r.who # "task" /\ r.sections = <<>> /\ c.left = {}
  BY <1>4, <1>5 DEF Fits, OpeningOps, ClosingOps
<1>7. calls \in Seq(LibraryCall) /\ Len(calls) = n /\ running[1].who = "task"
  BY <1>2, <1>4 DEF Follows
<1>8. n - 1 \in Nat /\ n - 1 > 0 /\ n - 1 \in 1 .. n - 1
  BY <1>2, <1>4, <1>6, <1>7
<1>9. /\ run2 \in Seq(Context) /\ Len(run2) = n - 1 /\ \A i \in 1 .. n - 1 : run2[i] = running[i]
  BY <1>2, <1>4, <1>8 DEF Front
<1>10. calls2 \in Seq(LibraryCall) /\ Len(calls2) = n - 1 /\ \A i \in 1 .. n - 1 : calls2[i] = calls[i]
  BY <1>7, <1>8 DEF Front
<1> HIDE DEF run2, calls2
<1>11. \A g : ~Counts(c, g)
  BY <1>5 DEF Counts, OpeningOps, ClosingOps
<1>12. \A g : Held(r, c, g) = 0
  <2> TAKE g
  <2>1. Sections(r, g) = 0
    BY <1>4, <1>6, SectionsAre
  <2> QED
    BY <1>11, <2>1 DEF Held
<1>13. \A i \in 1 .. n - 1 : i \in 1 .. n /\ i # n
  BY <1>4
<1>14. /\ Tallies(running, calls, counter) /\ Closures(running, calls, nvic.enabled, mask.basepri)
       /\ Overlaps(running, calls) /\ Exclusion(running) /\ PrimaskIs(running, calls, mask.primask)
       /\ \A i \in 1 .. n : Fits(running[i], calls[i])
  BY <1>2, <1>4 DEF Follows
<1>15. Tallies(run2, calls2, counter)
  <2>1. \A g \in CountedKind : counter[g] = calls2[n - 1].below[g] + Held(run2[n - 1], calls2[n - 1], g)
    <3> TAKE g \in CountedKind
    <3>1. counter[g] = c.below[g] + Held(r, c, g) /\ c.below[g] \in Nat
      BY <1>2, BelowIs
    <3>2. calls[(n - 1) + 1].below[g] = calls[n - 1].below[g] + Held(running[n - 1], calls[n - 1], g)
      BY <1>2, <1>8, <1>14 DEF Tallies
    <3>3. (n - 1) + 1 = n
      BY <1>4
    <3> QED
      BY <1>2, <1>8, <1>9, <1>10, <1>12, <3>1, <3>2, <3>3
  <2>2. \A i \in 1 .. (n - 1) - 1, g \in CountedKind :
          calls2[i + 1].below[g] = calls2[i].below[g] + Held(run2[i], calls2[i], g)
    <3> TAKE i \in 1 .. (n - 1) - 1, g \in CountedKind
    <3>1. i \in 1 .. n - 1 /\ i + 1 \in 1 .. n - 1
      BY <1>4
    <3>2. calls[i + 1].below[g] = calls[i].below[g] + Held(running[i], calls[i], g)
      BY <1>2, <1>14, <3>1 DEF Tallies
    <3> QED
      BY <1>9, <1>10, <3>1, <3>2
  <2>3. \A i \in 1 .. n - 1 : \A j \in 1 .. i - 1, g \in CountedKind :
          calls2[j].below[g] + Held(run2[j], calls2[j], g) <= calls2[i].below[g]
    <3> TAKE i \in 1 .. n - 1
    <3> TAKE j \in 1 .. i - 1, g \in CountedKind
    <3>1. j \in 1 .. n - 1 /\ i \in 1 .. n
      BY <1>4
    <3>2. calls[j].below[g] + Held(running[j], calls[j], g) <= calls[i].below[g]
      BY <1>2, <1>14, <3>1 DEF Tallies
    <3> QED
      BY <1>9, <1>10, <3>1, <3>2
  <2>4. \A i \in 1 .. n - 1, g \in CountedKind :
          calls2[i].below[g] > 0 =>
            \E j \in 1 .. i - 1 : calls2[j].below[g] = 0 /\ Held(run2[j], calls2[j], g) > 0
    <3> TAKE i \in 1 .. n - 1, g \in CountedKind
    <3> HAVE calls2[i].below[g] > 0
    <3>0. calls[i].below[g] > 0 /\ i \in 1 .. n
      BY <1>10, <1>13
    <3>1. PICK j \in 1 .. i - 1 : calls[j].below[g] = 0 /\ Held(running[j], calls[j], g) > 0
      BY <1>2, <1>14, <3>0 DEF Tallies
    <3>2. j \in 1 .. n - 1
      BY <1>4
    <3> QED
      BY <1>9, <1>10, <3>1, <3>2
  <2> QED
    BY <1>9, <2>1, <2>2, <2>3, <2>4 DEF Tallies
<1>16. Closures(run2, calls2, nvic.enabled, mask.basepri)
  <2>1. ASSUME NEW i \in 1 .. n - 1, NEW g \in Group, Closed(run2[i], calls2[i], g)
        PROVE  Shut(g, nvic.enabled, mask.basepri)
    <3>1. Closed(running[i], calls[i], g) /\ i \in 1 .. n
      BY <1>9, <1>10, <1>13, <2>1
    <3> QED
      BY <1>2, <1>14, <3>1 DEF Closures
  <2>2. ASSUME NEW line \in {"radio", "low"} \ nvic.enabled
        PROVE  \E i \in 1 .. n - 1 : Enables(run2[i], calls2[i], line)
    <3>1. PICK i \in 1 .. n : Enables(running[i], calls[i], line)
      BY <1>2, <1>14 DEF Closures
    <3>2. ~Enables(r, c, line)
      BY <1>5, <1>12 DEF Enables
    <3>3. i \in 1 .. n - 1
      <4>1. i # n
        BY <1>2, <3>1, <3>2
      <4> QED
        BY <1>4, <4>1
    <3> QED
      BY <1>9, <1>10, <3>1, <3>3
  <2>3. ASSUME mask.basepri # 0
        PROVE  \E i \in 1 .. n - 1 : Restores(run2[i], calls2[i]) /\ \A j \in i + 1 .. n - 1 : run2[j].who = "radio"
    <3>1. PICK i \in 1 .. n : Restores(running[i], calls[i]) /\ \A j \in i + 1 .. n : running[j].who = "radio"
      BY <1>2, <1>14, <2>3 DEF Closures
    <3>2. ~Restores(r, c)
      BY <1>5, <1>12 DEF Restores
    <3>3. i \in 1 .. n - 1
      <4>1. i # n
        BY <1>2, <3>1, <3>2
      <4> QED
        BY <1>4, <4>1
    <3>4. \A j \in i + 1 .. n - 1 : run2[j].who = "radio"
      <4> TAKE j \in i + 1 .. n - 1
      <4>1. j \in i + 1 .. n /\ j \in 1 .. n - 1
        BY <1>4, <3>3
      <4> QED
        BY <1>9, <3>1, <4>1
    <3> QED
      BY <1>9, <1>10, <3>1, <3>3, <3>4
  <2> QED
    BY <1>9, <2>1, <2>2, <2>3 DEF Closures
<1>17. Overlaps(run2, calls2)
  <2>1. ASSUME NEW i \in 1 .. n - 1, run2[i].who = "low", calls2[i].below["low"] > 0
        PROVE  \E j \in 1 .. i - 1 : calls2[j].below["low"] = 0 /\ Mid(run2[j], calls2[j], "low")
    <3>0. running[i].who = "low" /\ calls[i].below["low"] > 0 /\ i \in 1 .. n
      BY <1>9, <1>10, <1>13, <2>1
    <3>1. PICK j \in 1 .. i - 1 : calls[j].below["low"] = 0 /\ Mid(running[j], calls[j], "low")
      BY <1>2, <1>14, <3>0 DEF Overlaps
    <3>2. j \in 1 .. n - 1
      BY <1>4
    <3> QED
      BY <1>9, <1>10, <3>1, <3>2
  <2>2. ASSUME NEW i \in 1 .. n - 1, NEW j \in 1 .. i - 1, calls2[j].op \in MidOps
        PROVE  Excused(run2[i], calls2[i])
    <3>1. j \in 1 .. n - 1 /\ i \in 1 .. n
      BY <1>4
    <3>2. Excused(running[i], calls[i])
      BY <1>2, <1>10, <1>14, <2>2, <3>1 DEF Overlaps
    <3> QED
      BY <1>9, <1>10, <3>2
  <2> QED
    BY <1>9, <2>1, <2>2 DEF Overlaps
<1>18. Exclusion(run2)
  <2>1. ASSUME NEW i \in 1 .. n - 1, NEW k \in DOMAIN run2[i].sections, run2[i].sections[k].sound, NEW j \in i + 1 .. n - 1
        PROVE  run2[j].who \notin Excluded(run2[i].sections[k].of)
    <3>1. run2[i] = running[i] /\ j \in 1 .. n - 1 /\ j \in i + 1 .. n /\ i \in 1 .. n /\ run2[j] = running[j]
      BY <1>4, <1>9
    <3>2. running[j].who \notin Excluded(running[i].sections[k].of)
      BY <1>2, <1>14, <2>1, <3>1 DEF Exclusion
    <3> QED
      BY <3>1, <3>2
  <2>2. \A i, j \in 1 .. n - 1 : run2[i].who = run2[j].who => i = j
    BY <1>2, <1>9, <1>13, <1>14 DEF Exclusion
  <2> QED
    BY <1>9, <2>1, <2>2 DEF Exclusion
<1>19. PrimaskIs(run2, calls2, mask.primask)
  <2>1. \A i \in 1 .. n - 1 : ~MasksAll(run2[i], calls2[i])
    BY <1>2, <1>9, <1>10, <1>14 DEF PrimaskIs
  <2>2. ~MasksAll(r, c)
    BY <1>5, <1>12 DEF MasksAll
  <2>3. ~mask.primask
    BY <1>2, <1>14, <2>2 DEF PrimaskIs
  <2>4. \A i \in 1 .. (n - 1) - 1 : i \in 1 .. n - 1
    BY <1>4
  <2> QED
    BY <1>8, <1>9, <2>1, <2>3, <2>4 DEF PrimaskIs
<1>20. run2[1].who = "task" /\ \A i \in 1 .. n - 1 : Fits(run2[i], calls2[i])
  <2>1. 1 \in 1 .. n - 1
    BY <1>8
  <2> QED
    BY <1>7, <1>9, <1>10, <1>13, <1>14, <2>1
<1>21. Follows(run2, calls2, nvic', mask', counter', saved')
  BY <1>3, <1>4, <1>8, <1>9, <1>10, <1>15, <1>16, <1>17, <1>18, <1>19, <1>20 DEF Follows
<1> QED
  BY <1>3, <1>21 DEF RadioIInv

-----------------------------------------------------------------------------

(* What the handler of an interrupt is about at first.                      *)
Entry(who, count) ==
  [op |-> CASE who = "low" -> "start" [] who = "radio" -> "rest" [] OTHER -> "return",
   of |-> {}, sound |-> FALSE, left |-> {}, g |-> "high", arg |-> 0, below |-> count]

Entered(who) == [who |-> who, code |-> Handler[who], sections |-> <<>>]

(* Three steps put before a code are one before the other.                  *)
LEMMA ThenThree ==
  ASSUME NEW a \in Step, NEW b \in Step, NEW c \in Step, NEW s \in Seq(Step)
  PROVE  <<a, b, c>> \o s = Then(a, Then(b, Then(c, s)))
<1> HIDE DEF Step
<1> QED
  BY ThenSome

(* Its code is that of the handler.                                         *)
LEMMA HandlersAre ==
  ASSUME NEW who \in {"system", "low", "radio"}, NEW count \in [CountedKind -> Nat]
  PROVE  Handler[who] = CodeOf(Entry(who, count), who) /\ IsCode(Entry(who, count))
<1> HIDE DEF Step
<1> DEFINE c == Entry(who, count)
<1>1. /\ c.op = (CASE who = "low" -> "start" [] who = "radio" -> "rest" [] OTHER -> "return") /\ c.left = {}
      /\ c \in LibraryCall
  BY DEF Entry, LibraryCall, OtherOps, HandlerOps, ClosingOps, Group
<1> HIDE DEF c
<1>2. IsCode(c)
  BY <1>1 DEF IsCode
<1>3. <<>> \in Seq(Step)
  BY BasesAre
<1> DEFINE a == <<"disable", "low">>
           b == <<"callback">>
           e == <<"test_nested">>
           f == <<"enable", "low">>
           h == <<"return">>
<1>4. a \in Step /\ b \in Step /\ e \in Step /\ f \in Step /\ h \in Step
  BY StepsUsed
<1>5. HASH_IRQHandler = <<a, b, e, f, h>> /\ RADIO_IRQHandler = <<b, h>> /\ Handler["system"] = <<h>>
      /\ Handler["low"] = HASH_IRQHandler /\ Handler["radio"] = RADIO_IRQHandler
  BY DEF HASH_IRQHandler, RADIO_IRQHandler, Handler
<1>6. Ended = Then(h, <<>>) /\ LastOf = Then(f, Ended)
  BY DEF Ended, LastOf
<1>7. Base("low") = Then(b, Then(e, LastOf)) /\ Base("radio") = Then(b, Ended)
  BY DEF Base
<1>8. who = "low" => CodeOf(c, who) = Then(a, Base(who))
  BY <1>1 DEF CodeOf
<1> HIDE DEF a, b, e, f, h
<1>9. Then(h, <<>>) = <<h>>
  <2>1. <<h>> \in Seq(Step)
    BY <1>4
  <2> QED
    BY <2>1, ConcatEmptySeq DEF Then
<1>10. Then(b, Ended) = <<b, h>> /\ Then(f, Ended) = <<f, h>>
  <2>1. <<b, h>> \in Seq(Step) /\ <<f, h>> \in Seq(Step)
    BY <1>4
  <2>2. <<b, h>> \o <<>> = Then(b, Then(h, <<>>)) /\ <<f, h>> \o <<>> = Then(f, Then(h, <<>>))
    BY <1>3, <1>4, ThenTwo
  <2> QED
    BY <1>6, <2>1, <2>2, ConcatEmptySeq
<1>11. Then(a, Then(b, Then(e, <<f, h>>))) = <<a, b, e, f, h>>
  <2>1. <<f, h>> \in Seq(Step) /\ <<a, b, e>> \in Seq(Step) /\ <<a, b, e, f, h>> \in Seq(Step)
    BY <1>4
  <2>2. <<a, b, e>> \o <<f, h>> = Then(a, Then(b, Then(e, <<f, h>>)))
    <3> DEFINE s == <<f, h>>
    <3>1. s \in Seq(Step)
      BY <2>1
    <3> HIDE DEF s
    <3>2. <<a, b, e>> \o s = Then(a, Then(b, Then(e, s)))
      BY <1>4, <3>1, ThenThree
    <3> QED
      BY <3>2 DEF s
  <2>3. /\ <<a, b, e>> \o <<f, h>> \in Seq(Step) /\ Len(<<a, b, e>> \o <<f, h>>) = 5
        /\ \A i \in 1 .. 5 : (<<a, b, e>> \o <<f, h>>)[i] = IF i <= 3 THEN <<a, b, e>>[i] ELSE <<f, h>>[i - 3]
    BY <2>1, ConcatProperties
  <2>4. \A i \in 1 .. 5 : <<a, b, e, f, h>>[i] = (<<a, b, e>> \o <<f, h>>)[i]
    BY <2>3
  <2>5. <<a, b, e, f, h>> = <<a, b, e>> \o <<f, h>>
    BY <2>1, <2>3, <2>4, SeqEqual
  <2> QED
    BY <2>2, <2>5
<1>12. CASE who = "low"
  BY <1>2, <1>5, <1>6, <1>7, <1>8, <1>10, <1>11, <1>12 DEF c
<1>13. CASE who = "radio"
  <2>1. c.op = "rest"
    BY <1>1, <1>13
  <2>2. CodeOf(c, who) = Base(who)
    BY <1>1, <1>2, <2>1, SectionSteps
  <2> QED
    BY <1>2, <1>5, <1>7, <1>10, <1>13, <2>2 DEF c
<1>14. CASE who = "system"
  <2>1. c.op = "return"
    BY <1>1, <1>14
  <2>2. CodeOf(c, who) = Ended
    BY <2>1 DEF CodeOf
  <2> QED
    BY <1>2, <1>5, <1>6, <1>9, <1>14, <2>2 DEF c
<1> QED
  BY <1>12, <1>13, <1>14

(* A handler starts with nothing held.                                      *)
LEMMA EntryFits ==
  ASSUME NEW who \in {"system", "low", "radio"}, NEW count \in [CountedKind -> Nat], NEW r, NEW c,
         r = Entered(who), c = Entry(who, count)
  PROVE  /\ r \in Context /\ c \in LibraryCall /\ Fits(r, c) /\ r.who = who /\ r.sections = <<>> /\ c.below = count
         /\ \A g : Held(r, c, g) = 0
         /\ Excused(r, c) /\ ~MasksAll(r, c)
<1>1. r.who = who /\ r.code = Handler[who] /\ r.sections = <<>>
  BY DEF Entered
<1>2. /\ c.op = (CASE who = "low" -> "start" [] who = "radio" -> "rest" [] OTHER -> "return") /\ c.left = {} /\ c.of = {}
      /\ c.g = "high" /\ ~c.sound /\ c.below = count
  BY DEF Entry
<1>3. Handler[who] = CodeOf(c, who) /\ IsCode(c)
  BY HandlersAre
<1>4. Handler[who] \in Seq(Step)
  BY <1>3, CodeIs
<1>5. r \in Context
  <2>1. <<>> \in Seq(Section)
    OBVIOUS
  <2> QED
    BY <1>4, <2>1 DEF Context, RadioContext, Entered
<1> HIDE DEF Step
<1>6. c.op \in {"start", "rest", "return"} /\ (c.op = "start" <=> who = "low") /\ (c.op = "rest" <=> who = "radio")
      /\ (who = "system" => c.op = "return")
  BY <1>2
<1>7. DOMAIN r.sections = {}
  BY <1>1
<1>8. Fits(r, c)
  <2>1. IF c.op \in OpeningOps THEN c.left \subseteq c.of ELSE c.op \notin ClosingOps => c.left = {}
    BY <1>2 
  <2>2. c.op \notin MidOps \cup {"disable", "save", "set", "restore", "open", "enable", "irq_save", "irq_set", "irq_count", "radio_off", "radio_on"}
    BY <1>6 DEF MidOps
  <2>3. /\ c.op \in HandlerOps => r.who = "low"
        /\ c.op = "return" => r.who # "task"
    BY <1>1, <1>6 DEF HandlerOps
  <2>4. r.who = "radio" => "sys" \notin c.of \cup c.left \cup {c.g}
    BY <1>2
  <2> QED
    BY <1>1, <1>2, <1>3, <1>6, <1>7, <2>1, <2>2, <2>3, <2>4 DEF Fits
<1>9. \A g : Held(r, c, g) = 0
  <2> TAKE g
  <2>1. Sections(r, g) = 0
    BY <1>5, <1>7, SectionsAre
  <2>2. ~Counts(c, g)
    BY <1>2, <1>6 DEF Counts, OpeningOps, ClosingOps
  <2> QED
    BY <2>1, <2>2 DEF Held
<1>10. Excused(r, c)
  BY <1>2, <1>7 DEF Excused
<1>11. ~MasksAll(r, c)
  BY <1>6, <1>9 DEF MasksAll
<1> QED
  BY <1>1, <1>2, <1>3, <1>5, <1>8, <1>9, <1>10, <1>11 DEF IsCode

-----------------------------------------------------------------------------

(* An interrupt that preempts finds nothing of its own shut.                *)
LEMMA PreemptIs ==
  ASSUME NEW who \in RadioContext \ {"task"}, Preempt(who), RegisterTypes(nvic, mask, counter, saved)
  PROVE  /\ who \in {"system", "low", "radio"} /\ who \in nvic.enabled /\ ~mask.primask
         /\ mask.basepri # 0 => who = "radio"
         /\ \A i \in DOMAIN running : running[i].who # who
         /\ who = "radio" => ~Shut("high", nvic.enabled, mask.basepri)
         /\ who = "low" => ~Shut("low", nvic.enabled, mask.basepri)
         /\ who = "system" => ~Shut("sys", nvic.enabled, mask.basepri)
         /\ running' = Append(running, Entered(who)) /\ UNCHANGED <<mask, counter, saved>>
         /\ nvic'.enabled = nvic.enabled /\ RegisterTypes(nvic', mask', counter', saved')
<1>1. who \in {"system", "low", "radio"} /\ who \in nvic.enabled /\ ~mask.primask
  BY DEF RadioContext, Preempt, Unmasked
<1>2. mask.basepri \in {0, 5} /\ nvic.prio["system"] = 10 /\ nvic.prio["low"] \in {5, 15}
  <2>1. nvic.prio \in [radio : {0, RADIO_PRIO_LOW}, low : {RADIO_PRIO_LOW, RADIO_SW_LOW_INTR_PRIO},
                      system : {10}, task : {16}]
    BY DEF RegisterTypes
  <2> QED
    BY <2>1 DEF RegisterTypes, RADIO_PRIO_LOW, RADIO_SW_LOW_INTR_PRIO
<1>3. mask.basepri = 0 \/ nvic.prio[who] < mask.basepri
  BY DEF Preempt, Unmasked
<1>4. mask.basepri # 0 => who = "radio"
  BY <1>1, <1>2, <1>3
<1>5. \A i \in DOMAIN running : running[i].who # who
  BY DEF Preempt, ActiveContexts
<1>6. /\ who = "radio" => ~Shut("high", nvic.enabled, mask.basepri)
      /\ who = "low" => ~Shut("low", nvic.enabled, mask.basepri)
      /\ who = "system" => ~Shut("sys", nvic.enabled, mask.basepri)
  BY <1>1, <1>4 DEF Shut, RADIO_PRIO_LOW
<1>7. running' = Append(running, Entered(who)) /\ UNCHANGED <<mask, counter, saved>>
  BY DEF Preempt, Entered
<1>8. nvic'.enabled = nvic.enabled /\ RegisterTypes(nvic', mask', counter', saved')
  BY <1>7 DEF Preempt, RegisterTypes
<1> QED
  BY <1>1, <1>4, <1>5, <1>6, <1>7, <1>8

(* What a context that is not masked by PRIMASK holds is closed, and so     *)
(* keeps the interrupt out that comes, unless it is excused.                *)
LEMMA KeepsOut ==
  ASSUME NEW calls, NEW n, NEW r, NEW c, TopOf(calls, n, r, c), ~mask.primask,
         NEW i \in 1 .. n, NEW k \in DOMAIN running[i].sections, running[i].sections[k].sound,
         NEW g \in CountedKind, g \in running[i].sections[k].of
  PROVE  g \in Group /\ Shut(g, nvic.enabled, mask.basepri)
<1>1. /\ n = Len(running) /\ r = running[n] /\ c = calls[n] /\ n \in Nat /\ n > 0
      /\ Tallies(running, calls, counter) /\ Closures(running, calls, nvic.enabled, mask.basepri)
      /\ Overlaps(running, calls) /\ PrimaskIs(running, calls, mask.primask)
      /\ Fits(running[i], calls[i]) /\ running \in Seq(Context) /\ calls \in Seq(LibraryCall) /\ Len(calls) = n
  BY TopIs DEF TopOf, Follows
<1>2. running[i] \in Context /\ calls[i] \in LibraryCall
  BY <1>1, ElementOfSeq
<1>3. Sections(running[i], g) > 0 /\ Sections(running[i], g) \in Nat
  BY <1>2, SectionsAre
<1>4. Held(running[i], calls[i], g) > 0 /\ Held(running[i], calls[i], g) \in Nat
  <2>1. Held(running[i], calls[i], g) \in Nat /\ (Held(running[i], calls[i], g) = 0 => Sections(running[i], g) = 0)
    BY <1>2, HeldIs
  <2> QED
    BY <1>3, <2>1
<1>5. ~MasksAll(running[i], calls[i])
  <2>1. CASE i = n
    BY <1>1, <2>1 DEF PrimaskIs
  <2>2. CASE i # n
    <3>1. i \in 1 .. n - 1
      BY <1>1, <2>2
    <3> QED
      BY <1>1, <3>1 DEF PrimaskIs
  <2> QED
    BY <2>1, <2>2
<1>6. g # "irq"
  BY <1>4, <1>5 DEF MasksAll
<1>7. g \in Group /\ "irq" \notin running[i].sections[k].of
  BY <1>1, <1>6 DEF Fits, CountedKind, Group
<1>8. calls[i].below[g] \in Nat
  BY <1>2 DEF LibraryCall
<1>9. CASE calls[i].below[g] = 0
  <2>1. Closed(running[i], calls[i], g)
    BY <1>3, <1>4, <1>9 DEF Closed, Mid
  <2> QED
    BY <1>1, <1>7, <2>1 DEF Closures
<1>10. CASE calls[i].below[g] > 0
  <2>1. PICK j \in 1 .. i - 1 : calls[j].below[g] = 0 /\ Held(running[j], calls[j], g) > 0
    BY <1>1, <1>10 DEF Tallies
  <2>2. j \in 1 .. n
    BY <1>1
  <2>3. ~Excused(running[i], calls[i])
    BY <1>7 DEF Excused
  <2>4. calls[j].op \notin MidOps
    BY <1>1, <2>3 DEF Overlaps
  <2>5. Closed(running[j], calls[j], g)
    BY <2>1, <2>4 DEF Closed, Mid
  <2> QED
    BY <1>1, <1>7, <2>2, <2>5 DEF Closures
<1> QED
  BY <1>8, <1>9, <1>10

-----------------------------------------------------------------------------

(* An interrupt preempts.                                                   *)
LEMMA PreemptStep ==
  ASSUME RadioIInv, NEW who \in RadioContext \ {"task"}, Preempt(who)
  PROVE  RadioIInv'
<1>1. PICK calls : TopOf(calls, Len(running), running[Len(running)], calls[Len(running)])
  BY TopExists
<1> DEFINE n == Len(running)
           r == running[n]
           c == calls[n]
           r2 == Entered(who)
           c2 == Entry(who, counter)
           run2 == Append(running, r2)
           calls2 == Append(calls, c2)
           m == n + 1
<1>2. TopOf(calls, n, r, c) /\ n = Len(running) /\ r = running[n] /\ c = calls[n]
  BY <1>1
<1> HIDE DEF n, r, c
<1>3. /\ RegisterTypes(nvic, mask, counter, saved) /\ n \in Nat /\ n > 0 /\ n \in 1 .. n /\ running \in Seq(Context)
      /\ Follows(running, calls, nvic, mask, counter, saved) /\ counter \in [CountedKind -> Nat]
  <2>1. RegisterTypes(nvic, mask, counter, saved) /\ n \in Nat /\ n > 0 /\ running \in Seq(Context)
    BY <1>2, TopIs
  <2>2. counter \in [CountedKind -> Nat]
    BY <2>1 DEF RegisterTypes
  <2>3. Follows(running, calls, nvic, mask, counter, saved)
    BY <1>2 DEF TopOf
  <2> QED
    BY <2>1, <2>2, <2>3
<1>4. calls \in Seq(LibraryCall) /\ Len(calls) = n /\ running[1].who = "task"
  BY <1>2, <1>3 DEF Follows
<1>5. /\ who \in {"system", "low", "radio"} /\ who \in nvic.enabled /\ ~mask.primask
      /\ mask.basepri # 0 => who = "radio"
      /\ \A i \in DOMAIN running : running[i].who # who
      /\ who = "radio" => ~Shut("high", nvic.enabled, mask.basepri)
      /\ who = "low" => ~Shut("low", nvic.enabled, mask.basepri)
      /\ who = "system" => ~Shut("sys", nvic.enabled, mask.basepri)
      /\ running' = run2 /\ UNCHANGED <<mask, counter, saved>>
      /\ nvic'.enabled = nvic.enabled /\ RegisterTypes(nvic', mask', counter', saved')
  BY <1>3, PreemptIs
<1>6. r2 = Entered(who) /\ c2 = Entry(who, counter)
  OBVIOUS
<1> HIDE DEF r2, c2
<1>7. /\ r2 \in Context /\ c2 \in LibraryCall /\ Fits(r2, c2) /\ r2.who = who /\ r2.sections = <<>> /\ c2.below = counter
      /\ \A g : Held(r2, c2, g) = 0
      /\ Excused(r2, c2) /\ ~MasksAll(r2, c2)
  BY <1>3, <1>5, <1>6, EntryFits
<1>8. /\ run2 \in Seq(Context) /\ Len(run2) = m /\ run2[m] = r2 /\ \A i \in 1 .. n : run2[i] = running[i]
  BY <1>2, <1>3, <1>7
<1>9. /\ calls2 \in Seq(LibraryCall) /\ Len(calls2) = m /\ calls2[m] = c2 /\ \A i \in 1 .. n : calls2[i] = calls[i]
  BY <1>4, <1>7
<1> HIDE DEF run2, calls2
<1>10. /\ m \in Nat /\ m > 0 /\ m \in 1 .. m /\ m - 1 = n
       /\ \A i \in 1 .. m : i = m \/ i \in 1 .. n
       /\ \A i \in 1 .. n : i \in 1 .. m
  BY <1>3
<1> HIDE DEF m
<1>11. /\ Tallies(running, calls, counter) /\ Closures(running, calls, nvic.enabled, mask.basepri)
       /\ Overlaps(running, calls) /\ Exclusion(running) /\ PrimaskIs(running, calls, mask.primask)
       /\ \A i \in 1 .. n : Fits(running[i], calls[i])
  BY <1>2, <1>3 DEF Follows
<1>12. \A g \in CountedKind : counter[g] = c.below[g] + Held(r, c, g) /\ c.below[g] \in Nat /\ Held(r, c, g) \in Nat /\ counter[g] \in Nat
  BY <1>2, <1>3, BelowIs
<1>13. \A i \in 1 .. n : running[i] \in Context /\ calls[i] \in LibraryCall
  BY <1>2, <1>3, <1>4, ElementOfSeq
<1>14. \A i \in 1 .. n, g \in CountedKind : calls[i].below[g] \in Nat /\ Held(running[i], calls[i], g) \in Nat
  <2> TAKE i \in 1 .. n, g \in CountedKind
  <2>1. Held(running[i], calls[i], g) \in Nat
    BY <1>13, HeldIs
  <2>2. calls[i].below \in [CountedKind -> Nat]
    BY <1>13 DEF LibraryCall
  <2> QED
    BY <2>1, <2>2
<1>15. ASSUME NEW g \in CountedKind, counter[g] > 0
       PROVE  \E j \in 1 .. n : calls[j].below[g] = 0 /\ Held(running[j], calls[j], g) > 0
  <2>1. CASE c.below[g] = 0
    <3>1. Held(r, c, g) > 0
      BY <1>12, <1>15, <2>1
    <3> QED
      BY <1>2, <1>3, <2>1, <3>1
  <2>2. CASE c.below[g] > 0
    <3>1. PICK j \in 1 .. n - 1 : calls[j].below[g] = 0 /\ Held(running[j], calls[j], g) > 0
      BY <1>2, <2>2, BelowIs
    <3>2. j \in 1 .. n
      BY <1>3
    <3> QED
      BY <3>1, <3>2
  <2> QED
    BY <1>12, <2>1, <2>2
<1>16. Tallies(run2, calls2, counter)
  <2>1. \A g \in CountedKind : counter[g] = calls2[m].below[g] + Held(run2[m], calls2[m], g)
    BY <1>7, <1>8, <1>9, <1>12
  <2>2. ASSUME NEW i \in 1 .. n, NEW g \in CountedKind
        PROVE  calls2[i + 1].below[g] = calls2[i].below[g] + Held(run2[i], calls2[i], g)
    <3>1. CASE i = n
      <4>1. i + 1 = m
        BY <1>10, <3>1 DEF m
      <4> QED
        BY <1>2, <1>7, <1>8, <1>9, <1>12, <3>1, <4>1
    <3>2. CASE i # n
      <4>1. i \in 1 .. n - 1 /\ i + 1 \in 1 .. n
        BY <1>3, <3>2
      <4>2. calls[i + 1].below[g] = calls[i].below[g] + Held(running[i], calls[i], g)
        BY <1>2, <1>11, <4>1 DEF Tallies
      <4> QED
        BY <1>8, <1>9, <4>1, <4>2
    <3> QED
      BY <3>1, <3>2
  <2>3. ASSUME NEW i \in 1 .. m, NEW j \in 1 .. i - 1, NEW g \in CountedKind
        PROVE  calls2[j].below[g] + Held(run2[j], calls2[j], g) <= calls2[i].below[g]
    <3>0. j \in 1 .. n
      BY <1>10
    <3>1. CASE i = m
      <4>1. CASE j = n
        BY <1>2, <1>7, <1>8, <1>9, <1>12, <3>0, <3>1, <4>1
      <4>2. CASE j # n
        <5>1. j \in 1 .. n - 1
          BY <1>3, <3>0, <4>2
        <5>2. calls[j].below[g] + Held(running[j], calls[j], g) <= calls[n].below[g]
          BY <1>2, <1>3, <1>11, <5>1 DEF Tallies
        <5>3. c.below[g] <= counter[g]
          BY <1>12
        <5>4. calls[j].below[g] \in Nat /\ Held(running[j], calls[j], g) \in Nat /\ c.below[g] \in Nat /\ counter[g] \in Nat
          BY <1>12, <1>14, <3>0
        <5>5. calls[j].below[g] + Held(running[j], calls[j], g) <= counter[g]
          BY <1>2, <5>2, <5>3, <5>4
        <5> QED
          BY <1>7, <1>8, <1>9, <3>0, <3>1, <5>5
      <4> QED
        BY <4>1, <4>2
    <3>2. CASE i # m
      <4>1. i \in 1 .. n
        BY <1>10, <3>2
      <4>2. calls[j].below[g] + Held(running[j], calls[j], g) <= calls[i].below[g]
        BY <1>2, <1>11, <4>1 DEF Tallies
      <4> QED
        BY <1>8, <1>9, <3>0, <4>1, <4>2
    <3> QED
      BY <3>1, <3>2
  <2>4. ASSUME NEW i \in 1 .. m, NEW g \in CountedKind, calls2[i].below[g] > 0
        PROVE  \E j \in 1 .. i - 1 : calls2[j].below[g] = 0 /\ Held(run2[j], calls2[j], g) > 0
    <3>1. CASE i = m
      <4>1. PICK j \in 1 .. n : calls[j].below[g] = 0 /\ Held(running[j], calls[j], g) > 0
        BY <1>7, <1>9, <1>15, <2>4, <3>1
      <4>2. j \in 1 .. i - 1
        BY <1>10, <3>1
      <4> QED
        BY <1>8, <1>9, <4>1, <4>2
    <3>2. CASE i # m
      <4>1. i \in 1 .. n
        BY <1>10, <3>2
      <4>2. calls[i].below[g] > 0
        BY <1>9, <2>4, <4>1
      <4>3. PICK j \in 1 .. i - 1 : calls[j].below[g] = 0 /\ Held(running[j], calls[j], g) > 0
        BY <1>2, <1>11, <4>1, <4>2 DEF Tallies
      <4>4. j \in 1 .. n
        BY <1>3, <4>1
      <4> QED
        BY <1>8, <1>9, <4>3, <4>4
    <3> QED
      BY <3>1, <3>2
  <2> QED
    BY <1>8, <1>10, <2>1, <2>2, <2>3, <2>4 DEF Tallies
<1>17. Closures(run2, calls2, nvic'.enabled, mask'.basepri)
  <2>0. nvic'.enabled = nvic.enabled /\ mask'.basepri = mask.basepri
    BY <1>5
  <2>1. ASSUME NEW i \in 1 .. m, NEW g \in Group, Closed(run2[i], calls2[i], g)
        PROVE  Shut(g, nvic.enabled, mask.basepri)
    <3>1. i # m
      BY <1>7, <1>8, <1>9, <2>1 DEF Closed
    <3>2. i \in 1 .. n
      BY <1>10, <3>1
    <3>3. Closed(running[i], calls[i], g)
      BY <1>8, <1>9, <2>1, <3>2
    <3> QED
      BY <1>2, <1>11, <3>2, <3>3 DEF Closures
  <2>2. ASSUME NEW line \in {"radio", "low"} \ nvic.enabled
        PROVE  \E i \in 1 .. m : Enables(run2[i], calls2[i], line)
    <3>1. PICK i \in 1 .. n : Enables(running[i], calls[i], line)
      BY <1>2, <1>11 DEF Closures
    <3> QED
      BY <1>8, <1>9, <1>10, <3>1
  <2>3. ASSUME mask.basepri # 0
        PROVE  \E i \in 1 .. m : Restores(run2[i], calls2[i]) /\ \A j \in i + 1 .. m : run2[j].who = "radio"
    <3>1. PICK i \in 1 .. n : Restores(running[i], calls[i]) /\ \A j \in i + 1 .. n : running[j].who = "radio"
      BY <1>2, <1>11, <2>3 DEF Closures
    <3>2. ASSUME NEW j \in i + 1 .. m PROVE run2[j].who = "radio"
      <4>1. CASE j = m
        BY <1>5, <1>7, <1>8, <2>3, <4>1
      <4>2. CASE j # m
        <5>1. j \in i + 1 .. n /\ j \in 1 .. n
          BY <1>10, <4>2 DEF m
        <5> QED
          BY <1>8, <3>1, <5>1
      <4> QED
        BY <4>1, <4>2
    <3> QED
      BY <1>8, <1>9, <1>10, <3>1, <3>2
  <2> QED
    BY <1>8, <2>0, <2>1, <2>2, <2>3 DEF Closures
<1>18. Overlaps(run2, calls2)
  <2>1. ASSUME NEW i \in 1 .. m, run2[i].who = "low", calls2[i].below["low"] > 0
        PROVE  \E j \in 1 .. i - 1 : calls2[j].below["low"] = 0 /\ Mid(run2[j], calls2[j], "low")
    <3>1. CASE i = m
      <4>1. counter["low"] > 0 /\ who = "low" /\ "low" \in CountedKind /\ "low" \in Group
        BY <1>7, <1>8, <1>9, <2>1, <3>1 DEF CountedKind, Group
      <4>2. PICK j \in 1 .. n : calls[j].below["low"] = 0 /\ Held(running[j], calls[j], "low") > 0
        BY <1>15, <4>1
      <4>3. ~Closed(running[j], calls[j], "low")
        BY <1>2, <1>5, <1>11, <4>1 DEF Closures
      <4>4. Mid(running[j], calls[j], "low")
        BY <4>2, <4>3 DEF Closed
      <4>5. j \in 1 .. i - 1
        BY <1>10, <3>1
      <4> QED
        BY <1>8, <1>9, <4>2, <4>4, <4>5
    <3>2. CASE i # m
      <4>1. i \in 1 .. n
        BY <1>10, <3>2
      <4>2. running[i].who = "low" /\ calls[i].below["low"] > 0
        BY <1>8, <1>9, <2>1, <4>1
      <4>3. PICK j \in 1 .. i - 1 : calls[j].below["low"] = 0 /\ Mid(running[j], calls[j], "low")
        BY <1>2, <1>11, <4>1, <4>2 DEF Overlaps
      <4>4. j \in 1 .. n
        BY <1>3, <4>1
      <4> QED
        BY <1>8, <1>9, <4>3, <4>4
    <3> QED
      BY <3>1, <3>2
  <2>2. ASSUME NEW i \in 1 .. m, NEW j \in 1 .. i - 1, calls2[j].op \in MidOps
        PROVE  Excused(run2[i], calls2[i])
    <3>1. CASE i = m
      BY <1>7, <1>8, <1>9, <3>1
    <3>2. CASE i # m
      <4>1. i \in 1 .. n /\ j \in 1 .. n
        BY <1>10, <3>2
      <4>2. Excused(running[i], calls[i])
        BY <1>2, <1>9, <1>11, <2>2, <4>1 DEF Overlaps
      <4> QED
        BY <1>8, <1>9, <4>1, <4>2
    <3> QED
      BY <3>1, <3>2
  <2> QED
    BY <1>8, <2>1, <2>2 DEF Overlaps
<1>19. Exclusion(run2)
  <2>1. ASSUME NEW i \in 1 .. m, NEW k \in DOMAIN run2[i].sections, run2[i].sections[k].sound, NEW j \in i + 1 .. m
        PROVE  run2[j].who \notin Excluded(run2[i].sections[k].of)
    <3>1. i \in 1 .. n /\ run2[i] = running[i]
      <4>1. i \in 1 .. n
        BY <1>10
      <4> QED
        BY <1>8, <4>1
    <3>2. CASE j # m
      <4>1. j \in i + 1 .. n /\ j \in 1 .. n
        BY <1>10, <3>1, <3>2 DEF m
      <4>2. running[j].who \notin Excluded(running[i].sections[k].of)
        BY <1>2, <1>11, <2>1, <3>1, <4>1 DEF Exclusion
      <4> QED
        BY <1>8, <3>1, <4>1, <4>2
    <3>3. CASE j = m
      <4>1. ASSUME NEW g \in CountedKind, g \in running[i].sections[k].of
            PROVE  g \in Group /\ Shut(g, nvic.enabled, mask.basepri)
        BY <1>2, <1>5, <2>1, <3>1, <4>1, KeepsOut
      <4>2. /\ "irq" \notin running[i].sections[k].of
            /\ who = "radio" => "high" \notin running[i].sections[k].of
            /\ who = "low" => "low" \notin running[i].sections[k].of
            /\ who = "system" => "sys" \notin running[i].sections[k].of
        BY <1>5, <4>1 DEF CountedKind, Group
      <4>3. who \notin Excluded(running[i].sections[k].of)
        BY <1>5, <4>2 DEF Excluded
      <4> QED
        BY <1>7, <1>8, <3>1, <3>3, <4>3
    <3> QED
      BY <3>2, <3>3
  <2>2. ASSUME NEW i \in 1 .. m, NEW j \in 1 .. m, run2[i].who = run2[j].who PROVE i = j
    <3>1. \A k \in 1 .. n : running[k].who # who
      BY <1>2, <1>3, <1>5
    <3>2. CASE i \in 1 .. n /\ j \in 1 .. n
      BY <1>2, <1>8, <1>11, <2>2, <3>2 DEF Exclusion
    <3>3. CASE i = m /\ j \in 1 .. n
      BY <1>7, <1>8, <2>2, <3>1, <3>3
    <3>4. CASE i \in 1 .. n /\ j = m
      BY <1>7, <1>8, <2>2, <3>1, <3>4
    <3> QED
      BY <1>10, <3>2, <3>3, <3>4
  <2> QED
    BY <1>8, <2>1, <2>2 DEF Exclusion
<1>20. PrimaskIs(run2, calls2, mask'.primask)
  <2>1. ASSUME NEW i \in 1 .. n PROVE ~MasksAll(run2[i], calls2[i])
    <3>1. ~MasksAll(running[i], calls[i])
      <4>1. CASE i = n
        BY <1>2, <1>5, <1>11, <4>1 DEF PrimaskIs
      <4>2. CASE i # n
        <5>1. i \in 1 .. n - 1
          BY <1>3, <4>2
        <5> QED
          BY <1>2, <1>11, <5>1 DEF PrimaskIs
      <4> QED
        BY <4>1, <4>2
    <3> QED
      BY <1>8, <1>9, <3>1
  <2>2. ~mask'.primask /\ ~MasksAll(run2[m], calls2[m])
    BY <1>5, <1>7, <1>8, <1>9
  <2> QED
    BY <1>8, <1>10, <2>1, <2>2 DEF PrimaskIs
<1>21. \A i \in 1 .. m : Fits(run2[i], calls2[i])
  BY <1>7, <1>8, <1>9, <1>10, <1>11
<1>22. run2[1].who = "task"
  <2>1. 1 \in 1 .. n
    BY <1>3
  <2> QED
    BY <1>4, <1>8, <2>1
<1>23. counter' = counter
  BY <1>5
<1>24. Follows(run2, calls2, nvic', mask', counter', saved')
  BY <1>5, <1>8, <1>9, <1>10, <1>16, <1>17, <1>18, <1>19, <1>20, <1>21, <1>22, <1>23 DEF Follows
<1> QED
  BY <1>5, <1>24 DEF RadioIInv

-----------------------------------------------------------------------------

(* Before any interrupt the task is in its callback.                        *)
LEMMA RadioIInvInit ==
  ASSUME RadioInit
  PROVE  RadioIInv
<1> HIDE DEF Step
<1> DEFINE zero == [g \in CountedKind |-> 0]
           c == [op |-> "rest", of |-> {}, sound |-> FALSE, left |-> {}, g |-> "high", arg |-> 0, below |-> zero]
           r == [who |-> "task", code |-> <<<<"callback">>>>, sections |-> <<>>]
           calls == <<c>>
<1>1. zero \in [CountedKind -> Nat] /\ \A g \in CountedKind : zero[g] = 0
  OBVIOUS
<1>2. counter = zero
  <2>1. counter = [irq |-> 0, high |-> 0, low |-> 0, sys |-> 0]
    BY DEF RadioInit
  <2> QED
    BY <2>1 DEF CountedKind
<1>3. running = <<r>>
  BY DEF RadioInit
<1>4. mask = [primask |-> FALSE, basepri |-> 0] /\ saved = [primask |-> FALSE, basepri |-> 0, nested |-> FALSE]
  BY DEF RadioInit
<1> HIDE DEF zero
<1>5. /\ c \in LibraryCall /\ c.op = "rest" /\ c.left = {} /\ c.of = {} /\ c.g = "high" /\ c.below = zero
  BY <1>1 DEF LibraryCall, ClosingOps, Group
<1>6. r.who = "task" /\ r.code = <<<<"callback">>>> /\ r.sections = <<>>
  OBVIOUS
<1> DEFINE a == <<"callback">>
<1>7. a \in Step /\ <<>> \in Seq(Step)
  BY StepsUsed
<1>8. Base("task") = Then(a, <<>>)
  BY DEF Base
<1> HIDE DEF a, c
<1>9. <<a>> \in Seq(Step) /\ Then(a, <<>>) = <<a>>
  <2>1. <<a>> \in Seq(Step)
    BY <1>7
  <2> QED
    BY <2>1, ConcatEmptySeq DEF Then
<1>10. r.code = Base("task") /\ r.code \in Seq(Step)
  BY <1>6, <1>8, <1>9 DEF a
<1>11. r \in Context
  <2>1. <<>> \in Seq(Section)
    OBVIOUS
  <2>2. r.code \in Seq(Step)
    BY <1>10
  <2> QED
    BY <2>1, <2>2 DEF Context, RadioContext
<1> HIDE DEF r
<1>12. IsCode(c)
  BY <1>5 DEF IsCode
<1>13. CodeOf(c, "task") = Base("task")
  BY <1>5, <1>12, SectionSteps
<1>14. DOMAIN r.sections = {}
  BY <1>6
<1>15. Fits(r, c)
  <2>1. IF c.op \in OpeningOps THEN c.left \subseteq c.of ELSE c.op \notin ClosingOps => c.left = {}
    BY <1>5
  <2>2. c.op \notin MidOps \cup HandlerOps
    BY <1>5 DEF MidOps, HandlerOps
  <2> QED
    BY <1>5, <1>6, <1>10, <1>12, <1>13, <1>14, <2>1, <2>2 DEF Fits
<1>16. \A g : Held(r, c, g) = 0
  <2> TAKE g
  <2>1. Sections(r, g) = 0
    BY <1>11, <1>14, SectionsAre
  <2>2. ~Counts(c, g)
    BY <1>5 DEF Counts, OpeningOps, ClosingOps
  <2> QED
    BY <2>1, <2>2 DEF Held
<1>17. running \in Seq(Context) /\ Len(running) = 1 /\ running[1] = r
  BY <1>3, <1>11
<1>18. calls \in Seq(LibraryCall) /\ Len(calls) = 1 /\ calls[1] = c
  BY <1>5
<1> HIDE DEF calls
<1>19. RegisterTypes(nvic, mask, counter, saved) /\ nvic.enabled = {"radio", "low", "system"}
  <2>1. PICK p \in {0, RADIO_PRIO_LOW} :
          nvic = [enabled |-> {"radio", "low", "system"}, pending |-> FALSE,
                  prio |-> [radio |-> p, low |-> RADIO_SW_LOW_INTR_PRIO, system |-> 10, task |-> 16]]
    BY DEF RadioInit
  <2>2. /\ nvic \in [enabled : SUBSET {"radio", "low", "system"}, pending : BOOLEAN,
              prio : [radio : {0, RADIO_PRIO_LOW}, low : {RADIO_PRIO_LOW, RADIO_SW_LOW_INTR_PRIO},
                      system : {10}, task : {16}]]
        /\ nvic.enabled = {"radio", "low", "system"}
    BY <2>1
  <2>3. /\ mask \in [primask : BOOLEAN, basepri : {0, RADIO_PRIO_LOW}]
        /\ saved \in [primask : {FALSE}, basepri : {0}, nested : BOOLEAN]
    BY <1>4
  <2> QED
    BY <1>1, <1>2, <2>2, <2>3 DEF RegisterTypes
<1>20. \A i \in 1 .. 1 : i = 1
  OBVIOUS
<1>21. Tallies(running, calls, counter)
  <2>1. \A g \in CountedKind : counter[g] = 0 /\ c.below[g] = 0
    BY <1>1, <1>2, <1>5
  <2>2. \A g \in CountedKind : counter[g] = calls[1].below[g] + Held(running[1], calls[1], g)
    BY <1>16, <1>17, <1>18, <2>1
  <2>3. 1 .. 1 - 1 = {}
    OBVIOUS
  <2> QED
    BY <1>17, <1>18, <1>20, <2>1, <2>2, <2>3 DEF Tallies
<1>22. Closures(running, calls, nvic.enabled, mask.basepri)
  BY <1>4, <1>16, <1>17, <1>18, <1>19, <1>20 DEF Closures, Closed
<1>23. Overlaps(running, calls)
  BY <1>6, <1>17, <1>18, <1>20 DEF Overlaps
<1>24. Exclusion(running)
  BY <1>14, <1>17, <1>20 DEF Exclusion
<1>25. PrimaskIs(running, calls, mask.primask)
  <2>1. ~MasksAll(r, c)
    BY <1>5, <1>16 DEF MasksAll
  <2>2. ~mask.primask
    BY <1>4
  <2> QED
    BY <1>17, <1>18, <2>1, <2>2 DEF PrimaskIs
<1>26. \A i \in 1 .. 1 : Fits(running[i], calls[i])
  BY <1>15, <1>17, <1>18
<1>27. Follows(running, calls, nvic, mask, counter, saved)
  BY <1>6, <1>17, <1>18, <1>19, <1>21, <1>22, <1>23, <1>24, <1>25, <1>26 DEF Follows
<1> QED
  BY <1>27 DEF RadioIInv

(* Every step keeps the invariant.                                          *)
LEMMA RadioIInvNext ==
  ASSUME RadioIInv, RadioNext
  PROVE  RadioIInv'
<1>1. CASE PlatformStep
  <2>1. CASE Opened
    BY <2>1, OpenedStep
  <2>2. CASE SavePrimask
    BY <2>2, SavePrimaskStep
  <2>3. CASE SetPrimask
    BY <2>3, PrimaskSteps
  <2>4. CASE RestorePrimask
    BY <2>4, PrimaskSteps
  <2>5. CASE Count
    BY <2>5, CountStep
  <2>6. CASE Uncount
    BY <2>6, UncountStep
  <2>7. CASE CloseIfFirst
    BY <2>7, CloseIfFirstStep
  <2>8. CASE OpenIfLast
    BY <2>8, OpenIfLastStep
  <2>9. CASE SetLine
    BY <2>9, SetLineStep
  <2>10. CASE SaveBasepri
    BY <2>10, SaveBasepriStep
  <2>11. CASE SetBasepri
    BY <2>11, SetBasepriStep
  <2>12. CASE Trigger
    BY <2>12, TriggerStep
  <2>13. CASE SetPriority
    BY <2>13, HandlerSteps
  <2>14. CASE SetNested
    BY <2>14, HandlerSteps
  <2>15. CASE TestNested
    BY <2>15, TestNestedStep
  <2>16. CASE PendLow
    BY <2>16, HandlerSteps
  <2>17. CASE ReturnFromInterrupt
    BY <2>17, ReturnStep
  <2> QED
    BY <1>1, <2>1, <2>2, <2>3, <2>4, <2>5, <2>6, <2>7, <2>8, <2>9, <2>10, <2>11, <2>12, <2>13, <2>14, <2>15, <2>16, <2>17
       DEF PlatformStep
<1>2. CASE Library
  <2>1. CASE OpenSection({"irq"}, LINKLAYER_PLAT_DisableIRQ)
    BY <2>1, OpenSectionStep
  <2>2. CASE \E groups \in MaskedAtOnce : Mask(groups)
    <3>1. PICK groups \in MaskedAtOnce : Mask(groups)
      BY <2>2
    <3>2. groups \in SUBSET Group
      BY RadioIrqAssumption DEF Group
    <3> QED
      BY <3>1, <3>2, OpenSectionStep DEF Mask
  <2>3. CASE CloseSection
    BY <2>3, CloseSectionStep
  <2>4. CASE CallPlatform
    BY <2>4, CallPlatformStep
  <2>5. CASE CallbackReturns
    BY <2>5, CallbackReturnsStep
  <2> QED
    BY <1>2, <2>1, <2>2, <2>3, <2>4, <2>5 DEF Library
<1>3. CASE \E who \in RadioContext \ {"task"} : Preempt(who)
  BY <1>3, PreemptStep
<1> QED
  BY <1>1, <1>2, <1>3 DEF RadioNext

(* The inductive invariant of the sections.                                 *)
THEOREM SectionsInductive == RadioSpec => []RadioIInv
<1>1. RadioInit => RadioIInv
  BY RadioIInvInit
<1>2. RadioIInv /\ [RadioNext]_radioVars => RadioIInv'
  <2>1. CASE RadioNext
    BY <2>1, RadioIInvNext
  <2>2. CASE UNCHANGED radioVars
    BY <2>2 DEF radioVars, RadioIInv
  <2> QED
    BY <2>1, <2>2
<1> QED
  BY <1>1, <1>2, PTL DEF RadioSpec

(* What the invariant says of a core that is back in the task with no       *)
(* section open.                                                            *)
LEMMA BackInTask ==
  ASSUME RadioIInv, Len(running) = 1, CoreAt("callback"), Core.sections = <<>>
  PROVE  /\ nvic.enabled = {"radio", "low", "system"} /\ mask = [primask |-> FALSE, basepri |-> 0]
         /\ \A g \in DOMAIN counter : counter[g] = 0
<1>1. PICK calls : TopOf(calls, Len(running), running[Len(running)], calls[Len(running)])
  BY TopExists
<1> DEFINE r == running[1]
           c == calls[1]
<1>2. TopOf(calls, 1, r, c)
  BY <1>1
<1> HIDE DEF r, c
<1>3. /\ r \in Context /\ Core = r /\ r.sections = <<>> /\ c.op = "rest" /\ RegisterTypes(nvic, mask, counter, saved)
      /\ \A g : Held(r, c, g) = Sections(r, g)
  BY <1>2, TopIs, IdleIs
<1>4. \A g : Held(r, c, g) = 0
  <2> TAKE g
  <2>1. Sections(r, g) = 0
    BY <1>3, SectionsAre
  <2> QED
    BY <1>3, <2>1
<1>5. /\ 1 = Len(running) /\ r = running[1] /\ c = calls[1] /\ Closures(running, calls, nvic.enabled, mask.basepri)
      /\ PrimaskIs(running, calls, mask.primask) /\ running[1].who = "task"
  BY <1>2 DEF TopOf, Follows
<1>6. \A i \in 1 .. 1 : i = 1
  OBVIOUS
<1>7. \A g \in CountedKind : counter[g] = 0
  <2> TAKE g \in CountedKind
  <2>1. counter[g] = c.below[g] + Held(r, c, g) /\ c.below[g] \in Nat
    BY <1>2, BelowIs
  <2>2. c.below[g] > 0 => \E j \in 1 .. 1 - 1 : calls[j].below[g] = 0
    BY <1>2, BelowIs
  <2>3. 1 .. 1 - 1 = {}
    OBVIOUS
  <2> QED
    BY <1>4, <2>1, <2>2, <2>3
<1>8. nvic.enabled = {"radio", "low", "system"}
  <2>1. \A line \in {"radio", "low"} : ~Enables(r, c, line)
    BY <1>3, <1>4, <1>5 DEF Enables
  <2>2. {"radio", "low"} \ nvic.enabled = {}
    BY <1>5, <1>6, <2>1 DEF Closures
  <2>3. nvic.enabled \in SUBSET {"radio", "low", "system"} /\ "system" \in nvic.enabled
    BY <1>3 DEF RegisterTypes
  <2> QED
    BY <2>2, <2>3
<1>9. mask.basepri = 0
  <2>1. ~Restores(r, c)
    BY <1>3, <1>4 DEF Restores
  <2> QED
    BY <1>5, <1>6, <2>1 DEF Closures
<1>10. ~mask.primask
  <2>1. ~MasksAll(r, c)
    BY <1>3, <1>4 DEF MasksAll
  <2> QED
    BY <1>5, <2>1 DEF PrimaskIs
<1>11. mask \in [primask : BOOLEAN, basepri : {0, RADIO_PRIO_LOW}] /\ counter \in [CountedKind -> Nat]
  BY <1>3 DEF RegisterTypes
<1>12. mask = [primask |-> FALSE, basepri |-> 0]
  <2>1. mask.primask = FALSE
    BY <1>10, <1>11
  <2> QED
    BY <1>9, <1>11, <2>1
<1> QED
  BY <1>7, <1>8, <1>11, <1>12

(* Inside a section that was opened outside of every gap nothing runs that  *)
(* it keeps out, and at rest everything is open again, whatever the gaps.   *)
THEOREM SectionsHoldAlways == RadioSpec => []SectionsHold
<1>1. RadioIInv => SectionsHold
  <2> SUFFICES ASSUME RadioIInv PROVE SectionsHold
    OBVIOUS
  <2>1. Exclusion(running) /\ running \in Seq(Context) /\ DOMAIN running = 1 .. Len(running)
    BY DEF RadioIInv, Follows
  <2>2. ASSUME NEW i \in DOMAIN running, NEW s \in Range(running[i].sections), s.sound, NEW j \in i + 1 .. Len(running)
        PROVE  running[j].who \notin Excluded(s.of)
    <3>1. PICK k \in DOMAIN running[i].sections : s = running[i].sections[k]
      BY DEF Range
    <3> QED
      BY <2>1, <2>2, <3>1 DEF Exclusion
  <2> QED
    BY <2>2, BackInTask DEF SectionsHold
<1> QED
  BY <1>1, SectionsInductive, PTL
=============================================================================
