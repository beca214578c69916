---------------------------------- MODULE Otp ----------------------------------
(***************************************************************************)
(* The one-time programmable area: OTP_Write and HW_OTP_Write append a     *)
(* record of two halves, the second with the record's index, to the slots  *)
(* of the area, and OTP_Read looks for the last record of an index.  The   *)
(* area is programmed by the driver of the module Flash, so that a write   *)
(* can fail, time out and be ended by the memory later, or be cut by a     *)
(* reset, which leaves any part of the record behind.                      *)
(***************************************************************************)
EXTENDS Flash, FiniteSets

CONSTANTS
  LastSlot,       (* the slots are 0 .. LastSlot                           *)
  Erased,         (* a half of ones only                                   *)
  Data,           (* first halves: additional data, which may be ones too  *)
  Index           (* second halves: address, tuning and index              *)

ASSUME OtpAssumption == LastSlot \in Nat /\ Erased \notin Index

VARIABLES
  otp,            \* the slots
  writing,        \* the slot and the record of the call that goes on
  burning,        \* those the memory programs, which may outlast the call
  written,        \* history: the last record reported as written, per index
  tried           \* history: what may be left of those tried since

otpVars == <<otp, writing, burning, written, tried>>

Slot == 0 .. LastSlot
Record == [data : Data, index : Index]
NoRecord == [data |-> Erased, index |-> Erased]
NoWrite == [slot |-> 0, record |-> NoRecord]

(* What is left of a record whose programming did not end well.             *)
PartsOf(r) == {[data |-> d, index |-> i] : d \in {Erased, r.data}, i \in {Erased, r.index}}

OtpInit ==
  /\ otp = [s \in Slot |-> NoRecord]
  /\ writing = NoWrite /\ burning = NoWrite
  /\ written = [i \in Index |-> NoRecord]
  /\ tried = [i \in Index |-> {}]

-----------------------------------------------------------------------------
HalfErased(s) == otp[s].data = Erased \/ otp[s].index = Erased
IsErased(s) == otp[s] = NoRecord

(* The search for a free slot stops at a half that is erased.               *)
FreeSlot == CHOOSE s \in Slot : /\ HalfErased(s) \/ s = LastSlot
                                /\ \A before \in 0 .. s - 1 : ~HalfErased(before)

(* The slots whose record has an index.                                     *)
HasIndex(i) == {s \in Slot : otp[s].index = i}

(***************************************************************************)
(* Faulty variants, see the module Sequencer.                              *)
(***************************************************************************)
FirstOfIndex(i) == otp[CHOOSE s \in HasIndex(i) : \A other \in HasIndex(i) : other >= s]

(* OTP_Read: from the last slot down.                                       *)
OTP_Read(i) == otp[CHOOSE s \in HasIndex(i) : \A other \in HasIndex(i) : other <= s]

-----------------------------------------------------------------------------
(* OTP_Write refuses a slot that is not wholly erased, HW_OTP_Write one     *)
(* that is wholly used.  Flags are cleared, the register is unlocked, and   *)
(* HAL_FLASH_Program begins.                                                *)
Writes(r) ==
  /\ CallAt("idle") /\ ~pFlash.Lock /\ writing = NoWrite
  /\ pFlash' = [pFlash EXCEPT !.Lock = TRUE, !.ErrorCode = FALSE]
  /\ NSCR1' = NSCR1 \ {"LOCK"}
  /\ flashFlags' = flashFlags \ {"error"}
  /\ flashCall' = [NoFlashCall EXCEPT !.at = "check", !.type = "program"]
  /\ writing' = [slot |-> FreeSlot, record |-> r]
  /\ tried' = [tried EXCEPT ![r.index] = @ \cup {part \in PartsOf(r) : part.index = r.index}]
  /\ UNCHANGED <<memory, suspended, asked, erased, told, otp, burning, written>>

OTP_Write(r) == IsErased(FreeSlot) /\ Writes(r)
HW_OTP_Write(r) == HalfErased(FreeSlot) /\ Writes(r)

(* The call returned: HAL_FLASH_Lock, and the status for the caller.        *)
WriteReturns ==
  /\ writing # NoWrite /\ CallAt("idle")
  /\ NSCR1' = NSCR1 \cup {"LOCK"}
  /\ writing' = NoWrite
  /\ LET r == writing.record
     IN  IF told = "done"
         THEN /\ written' = [written EXCEPT ![r.index] = r]
              /\ tried' = [tried EXCEPT ![r.index] = {}]
         ELSE UNCHANGED <<written, tried>>
  /\ UNCHANGED <<pFlash, memory, flashFlags, suspended, flashCall, asked,
                 erased, told, otp, burning>>

(* The driver's steps; the memory starts to program what the call wants.    *)
DriverSteps ==
  /\ FlashSteps
  /\ burning' = IF CallAt("start") THEN writing ELSE burning
  /\ UNCHANGED <<otp, writing, written, tried>>

(* A slot that is not erased cannot be programmed and keeps what it has.    *)
SlotBecomes(s, records) ==
  /\ burning' = NoWrite
  /\ \E r \in IF burning # NoWrite /\ IsErased(s) THEN records ELSE {otp[s]} :
       otp' = [otp EXCEPT ![s] = r]

SlotProgrammed(well) ==
  /\ MemoryEnds(well)
  /\ well /\ burning # NoWrite => IsErased(burning.slot)
  /\ SlotBecomes(burning.slot, IF well THEN {burning.record} ELSE PartsOf(burning.record))
  /\ UNCHANGED <<writing, written, tried>>

(* A reset, by the option bytes or by the supply, at any time.              *)
PowerCut ==
  /\ FlashResets
  /\ SlotBecomes(burning.slot, PartsOf(burning.record))
  /\ writing' = NoWrite
  /\ UNCHANGED <<written, tried>>

OtherCalls == writing = NoWrite /\ (FlashCalls \/ FlashLocks) /\ UNCHANGED otpVars

OtpNext ==
  \/ OtherCalls
  \/ \E r \in Record : OTP_Write(r) \/ HW_OTP_Write(r)
  \/ WriteReturns
  \/ DriverSteps
  \/ \E well \in BOOLEAN : SlotProgrammed(well)
  \/ PowerCut

OtpSpec == FlashInit /\ OtpInit /\ [][OtpNext]_<<flashVars, otpVars>>

-----------------------------------------------------------------------------
(* Type invariant: the state of the area and of the writes.                 *)
OtpTypeOK ==
  /\ otp \in [Slot -> [data : Data \cup {Erased}, index : Index \cup {Erased}]]
  /\ {writing, burning} \subseteq
       [slot : Slot, record : [data : Data \cup {Erased}, index : Index \cup {Erased}]]
  /\ written \in [Index -> Record \cup {NoRecord}]
  /\ tried \in [Index -> SUBSET [data : Data \cup {Erased}, index : Index]]
  /\ \A i \in Index : \A part \in tried[i] : part.index = i

(* A record that was reported as written is what OTP_Read finds, through    *)
(* writes that fail, that end after their caller gave up, or that a reset   *)
(* cuts; what it may find instead is what such a later write left.          *)
OtpTellsLastWritten ==
  \A i \in Index : written[i] # NoRecord =>
    HasIndex(i) # {} /\ OTP_Read(i) \in {written[i]} \cup tried[i]

OtpIsKept == FlashDoesAsAsked /\ OtpTypeOK /\ OtpTellsLastWritten
=============================================================================
