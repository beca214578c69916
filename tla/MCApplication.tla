---------------------------- MODULE MCApplication ----------------------------
(***************************************************************************)
(* Parts of the application, and of the services under it, that share no   *)
(* state: a behaviour is one of the buttons, of the LED, of the label's    *)
(* commands, of the engines of cryptography, of the random numbers, of the *)
(* memory manager, or of a heap.                                           *)
(***************************************************************************)
EXTENDS Signals, LabelCommand, Cipher, HwRng, MemoryManager, Heap

(* The patterns each context starts in the application.                     *)
TaskStarts == {"MSG_RECEIVED", "STATUS_SENT", "ERROR"}
ButtonStarts == {"STATUS_SENT"}
TimerStarts == {"STATUS_SENT", "SEARCHING", "ERROR"}

(* Four fields, of which the first has two bytes; a length byte can be zero, *)
(* fit, exceed the buffer, and exceed what is left of the payload.          *)
MaxLength == 6
MCSize == <<2, 1, 1, 1>>
MCPayload == UNION {[1 .. n -> Byte] : n \in 0 .. MaxLength}
MCHeader == {"other manufacturer", "no manufacturer", "other command",
             "display message"}

(* One pool has four words beyond the reservations; one has none, as in     *)
(* this project, and one is too small to be accepted.                       *)
MCReserved == [m \in VM |-> IF m = 1 THEN 4 ELSE 2]
MCConfig == {[pool |-> n, reserved |-> MCReserved] : n \in {7, 8, 12}}

(* Two pools for the heap, the second not aligned at either end.            *)
MCPool == {[start |-> 8, size |-> 96], [start |-> 4, size |-> 93]}

(* While a part is not the one that is looked at, it rests, in one state:   *)
(* the label with one command, which is not received.                       *)
VARIABLE part

RestingLabel ==
  /\ header = "other command" /\ payload = <<>>
  /\ at = "dispatch" /\ field = 1 /\ parsed = 0 /\ furthest = 0
  /\ text = Untouched /\ shown = Untouched /\ answer = "none"

MCInit ==
  /\ ButtonInit /\ LedInit /\ CipherInit /\ PkaInit /\ RngInit /\ AmmInit
  /\ part \in {"button", "led", "label", "cipher", "public key", "random numbers", "memory", "heap"}
  /\ IF part = "label" THEN Init ELSE RestingLabel
  /\ IF part = "heap" THEN HeapInit ELSE UTIL_MM_Init(8, 96)

engineVars == <<cipherVars, pkaVars>>
serviceVars == <<rngVars, ammVars, heapVars>>

ButtonRuns ==
  part = "button" /\ ButtonNext /\ UNCHANGED <<ledVars, vars, engineVars, serviceVars, part>>
LedRuns(step_) ==
  part = "led" /\ step_ /\ UNCHANGED <<buttonVars, vars, engineVars, serviceVars, part>>
LabelRuns ==
  part = "label" /\ Handle /\ UNCHANGED <<signalVars, engineVars, serviceVars, part>>

EngineRuns ==
  /\ \/ part = "cipher" /\ CipherNext /\ UNCHANGED pkaVars
     \/ part = "public key" /\ PkaNext /\ UNCHANGED cipherVars
  /\ UNCHANGED <<signalVars, vars, serviceVars, part>>

NumbersRun(step_) ==
  /\ part = "random numbers" /\ step_
  /\ UNCHANGED <<signalVars, vars, engineVars, ammVars, heapVars, part>>
AmmRuns(step_) ==
  /\ part = "memory" /\ step_
  /\ UNCHANGED <<signalVars, vars, engineVars, rngVars, heapVars, part>>

HeapRuns ==
  /\ part = "heap" /\ HeapNext
  /\ UNCHANGED <<signalVars, vars, engineVars, rngVars, ammVars, part>>

MCNext ==
  \/ ButtonRuns \/ LedRuns(LedNext) \/ LabelRuns \/ EngineRuns
  \/ NumbersRun(RngNext) \/ AmmRuns(AmmNext) \/ HeapRuns

allVars == <<signalVars, vars, engineVars, serviceVars, part>>

(* The fairness of FairLedSpec, FairRngSpec and FairAmmSpec.                *)
MCSpec ==
  /\ MCInit /\ [][MCNext]_allVars
  /\ \A c \in Caller : WF_allVars(LedRuns(Proceed(c)))
  /\ WF_allVars(LedRuns(TimerElapsed))
  /\ WF_allVars(NumbersRun(Main)) /\ SF_allVars(NumbersRun(RunRngTask))
  /\ SF_allVars(NumbersRun(HW_RNG_Run)) /\ SF_allVars(NumbersRun(Fill /\ poolSize' = PoolSize))
  /\ WF_allVars(AmmRuns(RunAmmTask)) /\ WF_allVars(AmmRuns(InvokeCallback))
  /\ WF_allVars(AmmRuns(EndTask))
=============================================================================
