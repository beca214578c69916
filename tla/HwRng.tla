-------------------------------- MODULE HwRng --------------------------------
(***************************************************************************)
(* The pool of random numbers, hw_rng.c.  The task HW_RNG fills the pool   *)
(* by a small state machine that switches the generator on and, once the   *)
(* pool is full, off; the link layer's interrupts and the stack take       *)
(* numbers from it at any time.  HW_PKA_Enable, another task, borrows the  *)
(* clock of the generator.                                                 *)
(*                                                                         *)
(* Numbers are told apart by the order they were generated in: 0, 1, ...   *)
(* What an empty pool gives, the complement of an old number, is left out. *)
(***************************************************************************)
EXTENDS Naturals

CONSTANTS
  PoolSize,     (* CFG_HW_RNG_POOL_SIZE, 32                                *)
  MaxGets,      (* bound: numbers that are taken                           *)
  MaxStarts,    (* bound: calls of HW_RNG_Start                            *)
  MaxPkaEnables (* bound: calls of HW_PKA_Enable                           *)

ASSUME HwRngAssumption ==
  /\ PoolSize \in Nat \ {0}
  /\ MaxGets \in Nat /\ MaxStarts \in Nat \ {0} /\ MaxPkaEnables \in Nat

Slot == 0 .. PoolSize - 1
Error == {"CLOCK_ERROR", "NOISE_ERROR", "UFLOW_ERROR"}

VARIABLES
  numberPool, poolSize, \* HW_RNG_var.pool and the number of its valid elements
  run,              \* HW_RNG_var.run
  clockEn,          \* HW_RNG_var.clock_en, as the set of its users
  error,            \* HW_RNG_var.error
  rngEnabled,       \* the generator is enabled
  rngClock,         \* the generator's bus clock is enabled
  rngRequested,     \* the task HW_RNG is set
  rngAt, caller,    \* what the main thread does next, for which function
  status,           \* the local variable of HW_RNG_Process and HW_RNG_Run
  generated,        \* numbers generated so far
  given,            \* history: numbers taken, an empty pool apart
  repeated,         \* history: one of them was taken twice
  gets, starts, pkaEnables    \* for the bounds

rngVars == <<numberPool, poolSize, run, clockEn, error, rngEnabled, rngClock, rngRequested, rngAt,
          caller, status, generated, given, repeated, gets, starts, pkaEnables>>

bounded == <<gets, starts, pkaEnables>>
history == <<given, repeated>>
numbers == <<numberPool, poolSize, generated>>
clocks == <<clockEn, rngClock>>

Booting == starts = 1 /\ caller = "HW_RNG_Start"

RngAt(label) == rngAt = label
RngGoes(label) == rngAt' = label

-----------------------------------------------------------------------------
RngInit ==
  /\ numberPool = [i \in Slot |-> 0] /\ poolSize = 0 /\ generated = 0
  /\ run = FALSE /\ clockEn = {} /\ error = "OK"
  /\ rngEnabled = FALSE /\ rngClock = FALSE
  /\ rngRequested = FALSE
  /\ rngAt = "start" /\ caller = "HW_RNG_Start" /\ status = "OK"
  /\ given = {} /\ repeated = FALSE
  /\ gets = 0 /\ starts = 1 /\ pkaEnables = 0

-----------------------------------------------------------------------------
(* Faulty variants, see the module Sequencer.                               *)

GetWithoutRequest ==
  /\ gets < MaxGets /\ ~Booting
  /\ IF poolSize = 0
     THEN error' = "UFLOW_ERROR" /\ UNCHANGED <<poolSize, given, repeated>>
     ELSE /\ poolSize' = poolSize - 1
          /\ given' = given \cup {numberPool[poolSize - 1]}
          /\ repeated' = (repeated \/ numberPool[poolSize - 1] \in given)
          /\ UNCHANGED error
  /\ gets' = gets + 1
  /\ UNCHANGED <<numberPool, generated, run, clocks, rngEnabled, rngRequested, rngAt, caller,
                 status, starts, pkaEnables>>

NeverBusy ==
  /\ RngAt("ran") /\ caller = "HW_RNG_Process"
  /\ RngGoes("finish")
  /\ UNCHANGED <<numbers, run, clocks, error, rngEnabled, rngRequested, caller, status,
                 history, bounded>>

-----------------------------------------------------------------------------
(* HW_RNG_EnableClock and the last part of HW_RNG_DisableClock, each in a   *)
(* critical section.                                                        *)

EnableClock(user) ==
  /\ rngClock' = (rngClock \/ clockEn = {})
  /\ clockEn' = clockEn \cup {user}

GateClock == rngClock' = (rngClock /\ clockEn # {})

-----------------------------------------------------------------------------
(* HW_RNG_Start: at boot, and when the stack initialises its generator.     *)
CallStart ==
  /\ RngAt("idle") /\ starts < MaxStarts
  /\ RngGoes("start") /\ caller' = "HW_RNG_Start" /\ starts' = starts + 1
  /\ UNCHANGED <<numbers, run, clocks, error, rngEnabled, rngRequested, status,
                 history, gets, pkaEnables>>

Start ==
  /\ RngAt("start") /\ RngGoes("run")
  /\ poolSize' = 0 /\ run' = FALSE /\ error' = "OK" /\ clockEn' = {}
  /\ UNCHANGED <<numberPool, generated, rngClock, rngEnabled, rngRequested, caller, status,
                 history, bounded>>

StartAgain ==
  /\ RngAt("again")
  /\ IF run /\ error = "OK"
     THEN RngGoes("run") /\ UNCHANGED caller
     ELSE RngGoes("idle") /\ caller' = "none"
  /\ UNCHANGED <<numbers, run, clocks, error, rngEnabled, rngRequested, status, history,
                 bounded>>

(* HW_RNG_Process: the sequencer's task, or a call of the stack.            *)
EnterProcess ==
  /\ RngAt("idle")
  /\ RngGoes("check") /\ caller' = "HW_RNG_Process" /\ status' = "OK"
  /\ UNCHANGED <<numbers, run, clocks, error, rngEnabled, history, bounded>>

RunRngTask == rngRequested /\ rngRequested' = FALSE /\ EnterProcess
CallProcess == EnterProcess /\ UNCHANGED rngRequested

CheckWork ==
  /\ RngAt("check")
  /\ RngGoes(IF run \/ poolSize < PoolSize THEN "take" ELSE "finish")
  /\ UNCHANGED <<numbers, run, clocks, error, rngEnabled, rngRequested, caller, status,
                 history, bounded>>

TakeError ==
  /\ RngAt("take")
  /\ status' = error /\ error' = "OK"
  /\ RngGoes(IF error = "OK" THEN "run" ELSE "finish")
  /\ UNCHANGED <<numbers, run, clocks, rngEnabled, rngRequested, caller, history, bounded>>

(* The status of HW_RNG_Run, or HW_BUSY when it is not done.                *)
Busy ==
  /\ RngAt("ran") /\ caller = "HW_RNG_Process"
  /\ status' = IF status = "OK" /\ run THEN "BUSY" ELSE status
  /\ RngGoes("finish")
  /\ UNCHANGED <<numbers, run, clocks, error, rngEnabled, rngRequested, caller, history,
                 bounded>>

StoreError ==
  /\ RngAt("ran") /\ caller = "HW_RNG_Start"
  /\ error' = status /\ RngGoes("again")
  /\ UNCHANGED <<numbers, run, clocks, rngEnabled, rngRequested, caller, status, history,
                 bounded>>

FinishProcess ==
  /\ RngAt("finish")
  /\ rngRequested' = (rngRequested \/ status # "OK")
  /\ RngGoes("idle") /\ caller' = "none"
  /\ UNCHANGED <<numbers, run, clocks, error, rngEnabled, status, history, bounded>>

-----------------------------------------------------------------------------
(* HW_RNG_Run.  The generator's error flags may be up when it is on.        *)
HW_RNG_Run ==
  /\ RngAt("run") /\ status' = "OK"
  /\ RngGoes(CASE ~run -> "enable"
             [] run /\ poolSize < PoolSize -> "fill"
             [] OTHER -> "switch off")
  /\ UNCHANGED <<numbers, run, clocks, error, rngEnabled, rngRequested, caller, history,
                 bounded>>

RunFindsError ==
  /\ RngAt("run") /\ run
  /\ status' \in {"CLOCK_ERROR", "NOISE_ERROR"} /\ RngGoes("ran")
  /\ UNCHANGED <<numbers, run, clocks, error, rngEnabled, rngRequested, caller, history,
                 bounded>>

EnableRngClock ==
  /\ RngAt("enable") /\ EnableClock("RNG") /\ RngGoes("switch on")
  /\ UNCHANGED <<numbers, run, error, rngEnabled, rngRequested, caller, status, history,
                 bounded>>

SwitchOn ==
  /\ RngAt("switch on")
  /\ rngEnabled' = TRUE /\ run' = TRUE /\ RngGoes("ran")
  /\ UNCHANGED <<numbers, clocks, error, rngRequested, caller, status, history, bounded>>

(* As many numbers as the generator has ready, until the pool is full.      *)
Fill ==
  /\ RngAt("fill")
  /\ \E n \in 0 .. PoolSize - poolSize :
       /\ numberPool' = [i \in Slot |-> IF i \in poolSize .. poolSize + n - 1
                                  THEN generated + i - poolSize ELSE numberPool[i]]
       /\ poolSize' = poolSize + n /\ generated' = generated + n
  /\ RngGoes("ran")
  /\ UNCHANGED <<run, clocks, error, rngEnabled, rngRequested, caller, status, history,
                 bounded>>

(* HW_RNG_Disable, step by step.                                            *)
SwitchOff ==
  /\ RngAt("switch off") /\ rngEnabled' = FALSE /\ RngGoes("release")
  /\ UNCHANGED <<numbers, run, clocks, error, rngRequested, caller, status, history,
                 bounded>>

ReleaseClock ==
  /\ RngAt("release") /\ clockEn' = clockEn \ {"RNG"} /\ RngGoes("gate")
  /\ UNCHANGED <<numbers, run, rngClock, error, rngEnabled, rngRequested, caller, status,
                 history, bounded>>

StopClock ==
  /\ RngAt("gate") /\ GateClock /\ RngGoes("ran") /\ run' = FALSE
  /\ UNCHANGED <<numbers, clockEn, error, rngEnabled, rngRequested, caller, status,
                 history, bounded>>

-----------------------------------------------------------------------------
(* HW_PKA_Enable, as far as the generator's clock goes.                     *)
EnablePka ==
  /\ RngAt("idle") /\ pkaEnables < MaxPkaEnables
  /\ EnableClock("PKA") /\ RngGoes("pka") /\ pkaEnables' = pkaEnables + 1
  /\ UNCHANGED <<numbers, run, error, rngEnabled, rngRequested, caller, status, history,
                 gets, starts>>

ReleasePka ==
  /\ RngAt("pka") /\ clockEn' = clockEn \ {"PKA"} /\ RngGoes("pka gate")
  /\ UNCHANGED <<numbers, run, rngClock, error, rngEnabled, rngRequested, caller, status,
                 history, bounded>>

StopPkaClock ==
  /\ RngAt("pka gate") /\ GateClock /\ RngGoes("idle")
  /\ UNCHANGED <<numbers, run, clockEn, error, rngEnabled, rngRequested, caller, status,
                 history, bounded>>

(* HW_RNG_Get of one number, as its callers ask for: by the link layer's    *)
(* interrupt at any time after boot, or by a task.  It ends by setting the  *)
(* task (HWCB_RNG_Process).                                                 *)
HW_RNG_Get ==
  /\ gets < MaxGets /\ ~Booting
  /\ IF poolSize = 0
     THEN error' = "UFLOW_ERROR" /\ UNCHANGED <<poolSize, given, repeated>>
     ELSE /\ poolSize' = poolSize - 1
          /\ given' = given \cup {numberPool[poolSize - 1]}
          /\ repeated' = (repeated \/ numberPool[poolSize - 1] \in given)
          /\ UNCHANGED error
  /\ gets' = gets + 1
  /\ rngRequested' = TRUE
  /\ UNCHANGED <<numberPool, generated, run, clocks, rngEnabled, rngAt, caller, status, starts,
                 pkaEnables>>

Main ==
  \/ RunRngTask \/ CheckWork \/ TakeError \/ Busy \/ FinishProcess
  \/ Start \/ StartAgain \/ StoreError
  \/ HW_RNG_Run \/ RunFindsError \/ EnableRngClock \/ SwitchOn \/ Fill
  \/ SwitchOff \/ ReleaseClock \/ StopClock
  \/ ReleasePka \/ StopPkaClock

RngNext == Main \/ CallStart \/ CallProcess \/ EnablePka \/ HW_RNG_Get

RngSpec == RngInit /\ [][RngNext]_rngVars

(* The main loop goes on; the generator is not in error whenever it is      *)
(* looked at, and has enough numbers ready at some time.                    *)
FairRngSpec ==
  /\ RngSpec
  /\ WF_rngVars(Main) /\ SF_rngVars(RunRngTask)
  /\ SF_rngVars(HW_RNG_Run) /\ SF_rngVars(Fill /\ poolSize' = PoolSize)

-----------------------------------------------------------------------------
(* Type invariant: the pool's size, and the generator's users.              *)
RngTypeOK ==
  /\ poolSize \in 0 .. PoolSize /\ generated \in Nat
  /\ numberPool \in [Slot -> Nat]
  /\ run \in BOOLEAN /\ rngEnabled \in BOOLEAN /\ rngClock \in BOOLEAN
  /\ rngRequested \in BOOLEAN /\ repeated \in BOOLEAN
  /\ clockEn \subseteq {"RNG", "PKA"}
  /\ error \in Error \cup {"OK"} /\ status \in Error \cup {"OK", "BUSY"}
  /\ caller \in {"none", "HW_RNG_Start", "HW_RNG_Process"}
  /\ given \subseteq Nat
  /\ gets \in 0 .. MaxGets /\ starts \in 1 .. MaxStarts
  /\ pkaEnables \in 0 .. MaxPkaEnables

(* The generator and the PKA at its initialisation have the clock they      *)
(* need, whoever releases it.                                               *)
ClockedWhileUsed == rngEnabled \/ RngAt("pka") => rngClock

(* A pool that is not full, or a generator that is still on, is dealt with: *)
(* the task is set, whatever it was doing when a number was taken.  Only    *)
(* after HW_RNG_Start met an error nobody is told until a number is taken.  *)
RefillRequested ==
  RngAt("idle") /\ (poolSize < PoolSize \/ run) /\ error \notin {"CLOCK_ERROR", "NOISE_ERROR"}
    => rngRequested

(* No number of the pool is given twice.                                    *)
NoNumberTwice == RngTypeOK /\ ~repeated

(* Whoever takes numbers and uses the clock meanwhile: the generator is     *)
(* clocked while it is used, is asked for what is missing, and gives no     *)
(* number twice.                                                            *)
PoolIsSound == ClockedWhileUsed /\ RefillRequested /\ NoNumberTwice

(* Once the task is set, the pool is full again and the generator off.      *)
Refills == rngRequested ~> (poolSize = PoolSize /\ ~run)

=============================================================================
