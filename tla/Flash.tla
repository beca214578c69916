--------------------------------- MODULE Flash ---------------------------------
(***************************************************************************)
(* The driver of the flash memory, stm32wbaxx_hal_flash.c and _flash_ex.c: *)
(* programming, erasing pages or all of them, and the option bytes, by     *)
(* calls that wait or by an interrupt that goes on from page to page.      *)
(*                                                                         *)
(* Three actors: the main thread, in one call at a time; the memory, which *)
(* works on one operation and raises a flag when it ends; the interrupt,   *)
(* which preempts the thread and runs to its end.  A wait may time out     *)
(* while the memory works, and then the memory goes on by itself.  What is *)
(* programmed, and where, is abstracted; correction interrupts, which this *)
(* program never enables, and the power-down of the memory are left out.   *)
(***************************************************************************)
EXTENDS Integers

CONSTANT LastPage         (* the pages are 0 .. LastPage                    *)

ASSUME FlashAssumption == LastPage \in Nat

VARIABLES
  pFlash,         \* Lock, ErrorCode # NONE, ProcedureOnGoing, Page, NbPagesToErase
  NSCR1,          \* the control register: operation, lock and interrupt bits
  memory,         \* the operation the memory works on, and its page
  flashFlags,     \* the status register: end of operation, error
  suspended,      \* the operations of NSCR2 that wait to be allowed
  flashCall,      \* the call of the main thread
  asked, erased,  \* history: the pages of the last procedure, those erased
  told            \* history: what the last procedure's caller knows of it

flashVars ==
  <<pFlash, NSCR1, memory, flashFlags, suspended, flashCall, asked, erased, told>>

Procedure == {"program", "burst", "mass", "pages"}
OperationBits(type) ==
  CASE type = "program" -> {"PG"}
    [] type = "burst"   -> {"PG", "BWR"}
    [] type = "mass"    -> {"MER"}
    [] type = "pages"   -> {"PER"}
    [] OTHER            -> {}

PageCount == LastPage + 1
Resting == [op |-> "none", page |-> 0]
Working(op) == [op |-> op, page |-> 0]
Erasing(n) == [op |-> "pages", page |-> n]
NoFlashCall == [at |-> "idle", type |-> "none", it |-> FALSE, page |-> 0, last |-> 0]
NoProcess == [Lock |-> FALSE, ErrorCode |-> FALSE, ProcedureOnGoing |-> "none",
              Page |-> 0, NbPagesToErase |-> 0]

CallAt(label) == flashCall.at = label
CallGoesTo(label) == flashCall' = [flashCall EXCEPT !.at = label]

-----------------------------------------------------------------------------
FlashInit ==
  /\ pFlash = NoProcess
  /\ NSCR1 = {"LOCK", "OPTLOCK"}
  /\ memory = Resting /\ flashFlags = {} /\ suspended = {}
  /\ flashCall = NoFlashCall
  /\ asked = {} /\ erased = {} /\ told = "nothing"

(* FLASH_WaitForLastOperation: it gives up, reads an error, or is done.     *)
Waits(status, error) ==
  \/ /\ status = "TIMEOUT" /\ memory # Resting
     /\ error = pFlash.ErrorCode /\ UNCHANGED flashFlags
  \/ /\ status = "ERROR" /\ memory = Resting /\ "error" \in flashFlags
     /\ error = TRUE /\ flashFlags' = flashFlags \ {"error"}
  \/ /\ status = "OK" /\ memory = Resting /\ "error" \notin flashFlags
     /\ error = pFlash.ErrorCode /\ flashFlags' = flashFlags \ {"EOP"}

(* What a call does when it returns with a status: all calls unlock.        *)
ReturnsUnlocked(status, error) ==
  /\ pFlash' = [pFlash EXCEPT !.Lock = FALSE, !.ErrorCode = error]
  /\ flashCall' = NoFlashCall
  /\ told' = IF status = "OK" THEN "done" ELSE "failed"

-----------------------------------------------------------------------------
(***************************************************************************)
(* Faulty variants, see the module Sequencer.                              *)
(***************************************************************************)
PageAfterNext(n) == n + 2

-----------------------------------------------------------------------------
(* HAL_FLASH_Program, HAL_FLASHEx_Erase, their interrupt variants, and      *)
(* HAL_FLASHEx_OBProgram: a call on an unlocked register, with at least one *)
(* page to erase, is refused while another procedure holds the lock.        *)
FlashBegin(type, it, first, last) ==
  /\ CallAt("idle")
  /\ ~pFlash.Lock
  /\ pFlash' = [pFlash EXCEPT !.Lock = TRUE, !.ErrorCode = FALSE]
  /\ flashCall' = [at |-> "check", type |-> type, it |-> it, page |-> first, last |-> last]
  /\ UNCHANGED <<NSCR1, memory, flashFlags, suspended, asked, erased, told>>

(* Verify that the next operation can proceed.                              *)
FlashCheck ==
  /\ CallAt("check")
  /\ \E status \in {"OK", "ERROR", "TIMEOUT"}, error \in BOOLEAN :
       /\ Waits(status, error)
       /\ IF status = "OK" THEN CallGoesTo("start") /\ UNCHANGED <<pFlash, told>>
                           ELSE ReturnsUnlocked(status, error)
  /\ UNCHANGED <<NSCR1, memory, suspended, asked, erased>>

FirstOperation == IF flashCall.type = "pages" THEN Erasing(flashCall.page)
                  ELSE Working(flashCall.type)

(* A call with interrupt returns and keeps the lock.                        *)
FlashStart ==
  /\ CallAt("start") /\ flashCall.type \in Procedure
  /\ pFlash' = IF flashCall.it /\ flashCall.type = "pages"
               THEN [pFlash EXCEPT !.ProcedureOnGoing = "pages", !.Page = flashCall.page,
                                   !.NbPagesToErase = flashCall.last - flashCall.page + 1]
               ELSE [pFlash EXCEPT !.ProcedureOnGoing = flashCall.type]
  /\ NSCR1' = NSCR1 \cup OperationBits(flashCall.type)
                    \cup (IF flashCall.it THEN {"EOPIE", "OPERRIE"} ELSE {})
  /\ memory' = FirstOperation
  /\ IF flashCall.it THEN flashCall' = NoFlashCall ELSE CallGoesTo("wait")
  /\ asked' = CASE flashCall.type = "pages" -> flashCall.page .. flashCall.last
                [] flashCall.type = "mass"  -> 0 .. LastPage
                [] OTHER                    -> {}
  /\ erased' = {} /\ told' = "nothing"
  /\ UNCHANGED <<flashFlags, suspended>>

(* Wait for the last operation; the loop over the pages goes on, or the     *)
(* operation's bits are cleared.                                            *)
FlashWait ==
  /\ CallAt("wait")
  /\ \E status \in {"OK", "ERROR", "TIMEOUT"}, error \in BOOLEAN :
       /\ Waits(status, error)
       /\ IF status = "OK" /\ flashCall.type = "pages" /\ flashCall.page < flashCall.last
          THEN /\ flashCall' = [flashCall EXCEPT !.page = @ + 1]
               /\ memory' = Erasing(flashCall.page + 1)
               /\ UNCHANGED <<pFlash, NSCR1, told>>
          ELSE /\ ReturnsUnlocked(status, error)
               /\ NSCR1' = NSCR1 \ OperationBits(flashCall.type)
               /\ UNCHANGED memory
  /\ UNCHANGED <<suspended, asked, erased>>

(* HAL_FLASHEx_OBProgram after its check: the registers, then OPTSTRT.      *)
OBStart ==
  /\ CallAt("start") /\ flashCall.type = "options" /\ "OPTLOCK" \notin NSCR1
  /\ memory' = Working("options")
  /\ CallGoesTo("wait")
  /\ asked' = {} /\ erased' = {} /\ told' = "nothing"
  /\ UNCHANGED <<pFlash, NSCR1, flashFlags, suspended>>

-----------------------------------------------------------------------------
(* HAL_FLASH_IRQHandler.  The error is dealt with first; a page that ended  *)
(* well starts the next one; the end of the procedure unlocks.  The count   *)
(* of pages left would wrap below zero, which the type invariant excludes.  *)
NextPage(n) == n + 1

IRQ_Flash ==
  /\ "EOPIE" \in NSCR1 /\ flashFlags # {}
  /\ LET type == pFlash.ProcedureOnGoing
         failed == "error" \in flashFlags
         ended == "EOP" \in flashFlags
         left == pFlash.NbPagesToErase - 1
         more == ended /\ type = "pages" /\ left # 0
         stops == failed \/ (ended /\ ~more)
     IN  /\ pFlash' = [pFlash EXCEPT
                         !.ErrorCode = @ \/ failed,
                         !.NbPagesToErase = IF ended /\ type = "pages" THEN left ELSE @,
                         !.Page = IF more THEN NextPage(@) ELSE @,
                         !.ProcedureOnGoing = IF stops THEN "none" ELSE @,
                         !.Lock = @ /\ ~stops]
         /\ memory' = IF more THEN Erasing(NextPage(pFlash.Page)) ELSE memory
         /\ NSCR1' = ((NSCR1 \ OperationBits(type)) \cup (IF more THEN {"PER"} ELSE {}))
                       \ (IF stops THEN {"EOPIE", "OPERRIE"} ELSE {})
         /\ told' = IF failed THEN "failed" ELSE IF more THEN told ELSE "done"
  /\ flashFlags' = {}
  /\ UNCHANGED <<suspended, flashCall, asked, erased>>

-----------------------------------------------------------------------------
(* HAL_FLASH_Unlock, HAL_FLASH_OB_Unlock, and the locks, which the caller   *)
(* of an operation sets when it is over.                                    *)
FlashIdle == CallAt("idle") /\ ~pFlash.Lock

HAL_FLASH_Unlock ==
  /\ FlashIdle /\ NSCR1' = NSCR1 \ {"LOCK"}
  /\ UNCHANGED <<pFlash, memory, flashFlags, suspended, flashCall, asked, erased, told>>

HAL_FLASH_OB_Unlock ==
  /\ FlashIdle /\ "LOCK" \notin NSCR1 /\ NSCR1' = NSCR1 \ {"OPTLOCK"}
  /\ UNCHANGED <<pFlash, memory, flashFlags, suspended, flashCall, asked, erased, told>>

HAL_FLASH_Lock ==
  /\ FlashIdle /\ NSCR1' = NSCR1 \cup {"LOCK"}
  /\ UNCHANGED <<pFlash, memory, flashFlags, suspended, flashCall, asked, erased, told>>

HAL_FLASH_OB_Lock ==
  /\ FlashIdle /\ "LOCK" \notin NSCR1 /\ NSCR1' = NSCR1 \cup {"OPTLOCK"}
  /\ UNCHANGED <<pFlash, memory, flashFlags, suspended, flashCall, asked, erased, told>>

(* HAL_FLASH_OB_Launch: the option bytes are loaded by a reset.             *)
FlashResets ==
  /\ pFlash' = NoProcess /\ NSCR1' = {"LOCK", "OPTLOCK"}
  /\ memory' = Resting /\ flashFlags' = {} /\ suspended' = {}
  /\ flashCall' = NoFlashCall /\ asked' = {} /\ erased' = {} /\ told' = "nothing"

HAL_FLASH_OB_Launch == FlashIdle /\ "OPTLOCK" \notin NSCR1 /\ FlashResets

(* HAL_FLASHEx_SuspendOperation and AllowOperation, at any time.            *)
SuspendOperation(kind) ==
  /\ CallAt("idle") /\ kind \notin suspended
  /\ suspended' = suspended \cup {kind}
  /\ UNCHANGED <<pFlash, NSCR1, memory, flashFlags, flashCall, asked, erased, told>>

AllowOperation(kind) ==
  /\ CallAt("idle") /\ kind \in suspended
  /\ suspended' = suspended \ {kind}
  /\ UNCHANGED <<pFlash, NSCR1, memory, flashFlags, flashCall, asked, erased, told>>

(* The memory ends its operation, well or not.                              *)
Kind(op) == IF op \in {"mass", "pages"} THEN "erase" ELSE "program"
MemoryEnds(well) ==
  /\ memory # Resting /\ Kind(memory.op) \notin suspended
  /\ memory' = Resting
  /\ flashFlags' = flashFlags \cup {IF well THEN "EOP" ELSE "error"}
  /\ erased' = CASE well /\ memory.op = "pages" -> erased \cup {memory.page}
                 [] well /\ memory.op = "mass"  -> 0 .. LastPage
                 [] OTHER                       -> erased
  /\ UNCHANGED <<pFlash, NSCR1, suspended, flashCall, asked, told>>

FlashCalls ==
  /\ "LOCK" \notin NSCR1
  /\ \/ \E type \in Procedure \ {"pages"}, it \in BOOLEAN : FlashBegin(type, it, 0, 0)
     \/ \E first \in 0 .. LastPage, it \in BOOLEAN : \E last \in first .. LastPage :
          FlashBegin("pages", it, first, last)
     \/ "OPTLOCK" \notin NSCR1 /\ FlashBegin("options", FALSE, 0, 0)

FlashSteps == FlashCheck \/ FlashStart \/ OBStart \/ FlashWait \/ IRQ_Flash

FlashLocks ==
  \/ HAL_FLASH_Unlock \/ HAL_FLASH_Lock \/ HAL_FLASH_OB_Unlock \/ HAL_FLASH_OB_Lock
  \/ \E kind \in {"program", "erase"} : SuspendOperation(kind) \/ AllowOperation(kind)

FlashNext ==
  \/ FlashCalls \/ FlashSteps \/ FlashLocks \/ HAL_FLASH_OB_Launch
  \/ \E well \in BOOLEAN : MemoryEnds(well)

FlashSpec == FlashInit /\ [][FlashNext]_flashVars

-----------------------------------------------------------------------------
(* Type invariant: the state of the driver and of the memory.               *)
FlashTypeOK ==
  /\ pFlash \in [Lock : BOOLEAN, ErrorCode : BOOLEAN,
                 ProcedureOnGoing : Procedure \cup {"none"},
                 Page : 0 .. LastPage, NbPagesToErase : 0 .. PageCount]
  /\ NSCR1 \subseteq {"LOCK", "OPTLOCK", "PG", "BWR", "MER", "PER", "EOPIE", "OPERRIE"}
  /\ memory \in [op : Procedure \cup {"none", "options"}, page : 0 .. LastPage]
  /\ flashFlags \subseteq {"EOP", "error"}
  /\ suspended \subseteq {"program", "erase"}
  /\ flashCall \in [at : {"idle", "check", "start", "wait"},
                    type : Procedure \cup {"none", "options"}, it : BOOLEAN,
                    page : 0 .. LastPage, last : 0 .. LastPage]
  /\ asked \subseteq 0 .. LastPage /\ erased \subseteq 0 .. LastPage
  /\ told \in {"nothing", "done", "failed"}

(* The lock of pFlash is taken by a call and may be given back by the       *)
(* interrupt, page after page later: while it is held, a call goes on or    *)
(* the memory is at work for an interrupt that is enabled, and when it is   *)
(* free, no bit of an operation is left in the control register.            *)
LockHasHolder ==
  IF pFlash.Lock
  THEN \/ ~CallAt("idle") /\ "EOPIE" \notin NSCR1
       \/ /\ CallAt("idle") /\ {"EOPIE", "OPERRIE"} \subseteq NSCR1
          /\ pFlash.ProcedureOnGoing # "none"
          /\ memory # Resting \/ flashFlags # {}
  ELSE CallAt("idle") /\ NSCR1 \subseteq {"LOCK", "OPTLOCK"}

(* An erase that is reported as done, by HAL_OK or by the last callback,    *)
(* has erased every page that was asked for, and none but those, ever.      *)
PagesAreErased ==
  /\ told = "done" => asked \subseteq erased
  /\ erased \subseteq asked

FlashDoesAsAsked == FlashTypeOK /\ LockHasHolder /\ PagesAreErased
=============================================================================
