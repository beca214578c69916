--------------------------- MODULE ServicesProofs ---------------------------
(***************************************************************************)
(* Theorems about the services under the stack.  The pool of random        *)
(* numbers, of any size and with any number of starts, takers and uses of  *)
(* the PKA: that it is sound.  The trace buffer, for a ring of any size,   *)
(* messages of any lengths and any number of contexts that log: however    *)
(* they and the transfers interrupt each other, nothing is lost, sent      *)
(* twice or sent before it is stored.  The memory manager, for any virtual *)
(* memories, buffers, sizes and configurations whose pool is less than     *)
(* half the range of the counters: its accounts are kept.                  *)
(***************************************************************************)
EXTENDS HwRng, AdvTrace, MemoryManager, TLAPS, SequenceTheorems, FiniteSetTheorems,
        WellFoundedInduction

-----------------------------------------------------------------------------
(***************************************************************************)
(* The clock.  A generator that is on counts among the users of its clock, *)
(* except in HW_RNG_Start, which forgets the users before it enables the   *)
(* clock anew; and nobody else switches the clock off meanwhile.           *)
(***************************************************************************)

ClockInv ==
  /\ clockEn # {} => rngClock
  /\ rngEnabled => rngClock
  /\ rngEnabled => "RNG" \in clockEn \/ (rngAt \in {"run", "enable"} /\ ~run)
  /\ rngAt = "switch on" => "RNG" \in clockEn
  /\ rngAt \in {"release", "gate"} => ~rngEnabled
  /\ rngAt = "pka" => rngClock
  /\ rngAt \in {"enable", "switch on"} => ~run
  /\ rngAt \in {"fill", "switch off"} => run

(***************************************************************************)
(* The requests.  What is missing when the main thread is elsewhere has    *)
(* been requested, or is still to be found by the function in progress:    *)
(* the pool can only be short there because a number was taken since, and  *)
(* whoever took it has set the task.                                       *)
(***************************************************************************)

Full == poolSize = PoolSize
FullOrRequested == Full \/ rngRequested
Failed(s) == s \in {"CLOCK_ERROR", "NOISE_ERROR"}

RequestInv ==
  /\ rngAt \in {"idle", "pka", "pka gate"} /\ (~Full \/ run) /\ ~Failed(error)
       => rngRequested
  /\ rngAt \in {"switch off", "release", "gate"} => FullOrRequested
  /\ rngAt = "ran" /\ ~run => FullOrRequested
  /\ rngAt = "again" =>
       /\ error = "OK" /\ ~run => FullOrRequested
       /\ error = "UFLOW_ERROR" => rngRequested
  /\ rngAt = "finish" /\ status = "OK" => rngRequested \/ (Full /\ ~run)
  /\ rngAt = "ran" => status = "OK" \/ Failed(status)
  /\ rngAt \in {"fill", "enable", "switch on", "switch off", "release", "gate"}
       => status = "OK"

(***************************************************************************)
(* The numbers.  Those in the pool differ from each other and from those   *)
(* given, and all are older than the next one the generator makes.         *)
(***************************************************************************)

NumbersInv ==
  /\ ~repeated
  /\ \A n \in given : n < generated
  /\ \A i \in 0 .. poolSize - 1 : numberPool[i] < generated /\ numberPool[i] \notin given
  /\ \A i, j \in 0 .. poolSize - 1 : numberPool[i] = numberPool[j] => i = j

RngIInv == RngTypeOK /\ ClockInv /\ RequestInv /\ NumbersInv

-----------------------------------------------------------------------------
(* The invariant holds at start, and each part of it is kept by every step. *)

(* A pool that is not full is short of numbers.                             *)
LEMMA NotShortIsFull == RngTypeOK => poolSize < PoolSize \/ Full
<1>1. PoolSize \in Nat /\ PoolSize # 0
  BY HwRngAssumption
<1>2. RngTypeOK => poolSize \in 0 .. PoolSize
  BY DEF RngTypeOK
<1> QED BY <1>1, <1>2 DEF Full

(* Each step keeps the types.                                               *)
LEMMA TypeKept == RngIInv /\ [RngNext]_rngVars => RngTypeOK'
<1> SUFFICES ASSUME RngTypeOK, RequestInv, [RngNext]_rngVars PROVE RngTypeOK'
  BY DEF RngIInv
<1> USE HwRngAssumption
        DEF RngTypeOK, Error, numbers, clocks, history, bounded, RngAt, RngGoes
<1>1. CASE RunRngTask
  BY <1>1 DEF RunRngTask, EnterProcess
<1>2. CASE CallProcess
  BY <1>2 DEF CallProcess, EnterProcess
<1>3. CASE CheckWork
  BY <1>3 DEF CheckWork
<1>4. CASE TakeError
  BY <1>4 DEF TakeError
<1>5. CASE Busy
  BY <1>5 DEF Busy
<1>6. CASE FinishProcess
  BY <1>6 DEF FinishProcess
<1>7. CASE CallStart
  BY <1>7 DEF CallStart
<1>8. CASE Start
  <2>1. poolSize' \in 0 .. PoolSize
    BY <1>8 DEF Start
  <2>2. /\ run' \in BOOLEAN /\ error' \in Error \cup {"OK"}
        /\ clockEn' \subseteq {"RNG", "PKA"}
    BY <1>8 DEF Start
  <2>3. UNCHANGED <<numberPool, generated, rngClock, rngEnabled, rngRequested, caller, status,
                    given, repeated, gets, starts, pkaEnables>>
    BY <1>8 DEF Start
  <2> QED BY <2>1, <2>2, <2>3
<1>9. CASE StartAgain
  BY <1>9 DEF StartAgain
<1>10. CASE StoreError
  BY <1>10 DEF StoreError, RequestInv, Failed
<1>11. CASE HW_RNG_Run
  BY <1>11 DEF HW_RNG_Run
<1>12. CASE RunFindsError
  BY <1>12 DEF RunFindsError
<1>13. CASE EnableRngClock
  BY <1>13 DEF EnableRngClock, EnableClock
<1>14. CASE SwitchOn
  BY <1>14 DEF SwitchOn
<1>15. CASE Fill
  <2>1. PICK n \in 0 .. PoolSize - poolSize :
          /\ numberPool' = [i \in Slot |-> IF i \in poolSize .. poolSize + n - 1
                                     THEN generated + i - poolSize ELSE numberPool[i]]
          /\ poolSize' = poolSize + n /\ generated' = generated + n
    BY <1>15 DEF Fill
  <2>2. numberPool' \in [Slot -> Nat]
    BY <2>1 DEF Slot
  <2>3. poolSize' \in 0 .. PoolSize /\ generated' \in Nat
    BY <2>1
  <2> QED BY <1>15, <2>2, <2>3 DEF Fill
<1>16. CASE SwitchOff
  BY <1>16 DEF SwitchOff
<1>17. CASE ReleaseClock
  BY <1>17 DEF ReleaseClock
<1>18. CASE StopClock
  BY <1>18 DEF StopClock, GateClock
<1>19. CASE EnablePka
  BY <1>19 DEF EnablePka, EnableClock
<1>20. CASE ReleasePka
  BY <1>20 DEF ReleasePka
<1>21. CASE StopPkaClock
  BY <1>21 DEF StopPkaClock, GateClock
<1>22. CASE HW_RNG_Get
  <2>1. /\ gets' \in 0 .. MaxGets
        /\ UNCHANGED <<numberPool, generated, run, clockEn, rngClock, rngEnabled, caller,
                       status, starts, pkaEnables>>
        /\ rngRequested' \in BOOLEAN
    BY <1>22 DEF HW_RNG_Get
  <2>2. CASE poolSize = 0
    <3>1. /\ poolSize' = poolSize /\ given' = given /\ repeated' = repeated
          /\ error' = "UFLOW_ERROR"
      BY <1>22, <2>2 DEF HW_RNG_Get
    <3> QED BY <2>1, <3>1
  <2>3. CASE poolSize # 0
    <3>1. poolSize - 1 \in 0 .. PoolSize /\ numberPool[poolSize - 1] \in Nat
      BY <2>3 DEF Slot
    <3>2. /\ poolSize' = poolSize - 1 /\ given' = given \cup {numberPool[poolSize - 1]}
          /\ error' = error
      BY <1>22, <2>3 DEF HW_RNG_Get
    <3>3. repeated' \in BOOLEAN
      BY <1>22, <2>3 DEF HW_RNG_Get
    <3> QED BY <2>1, <3>1, <3>2, <3>3
  <2> QED BY <2>2, <2>3
<1>23. CASE UNCHANGED rngVars
  BY <1>23 DEF rngVars
<1> QED BY <1>1, <1>2, <1>3, <1>4, <1>5, <1>6, <1>7, <1>8, <1>9, <1>10, <1>11, <1>12,
           <1>13, <1>14, <1>15, <1>16, <1>17, <1>18, <1>19, <1>20, <1>21, <1>22, <1>23
        DEF RngNext, Main

(* Each step keeps the generator clocked while it is on.                    *)
LEMMA ClockKept == RngIInv /\ [RngNext]_rngVars => ClockInv'
<1> SUFFICES ASSUME RngTypeOK, ClockInv, [RngNext]_rngVars PROVE ClockInv'
  BY DEF RngIInv
<1> USE HwRngAssumption
        DEF RngTypeOK, ClockInv, numbers, clocks, history, bounded, RngAt, RngGoes
<1>1. CASE RunRngTask
  BY <1>1 DEF RunRngTask, EnterProcess
<1>2. CASE CallProcess
  BY <1>2 DEF CallProcess, EnterProcess
<1>3. CASE CheckWork
  BY <1>3 DEF CheckWork
<1>4. CASE TakeError
  BY <1>4 DEF TakeError
<1>5. CASE Busy
  BY <1>5 DEF Busy
<1>6. CASE FinishProcess
  BY <1>6 DEF FinishProcess
<1>7. CASE CallStart
  BY <1>7 DEF CallStart
<1>8. CASE Start
  BY <1>8 DEF Start
<1>9. CASE StartAgain
  BY <1>9 DEF StartAgain
<1>10. CASE StoreError
  BY <1>10 DEF StoreError
<1>11. CASE HW_RNG_Run
  BY <1>11 DEF HW_RNG_Run
<1>12. CASE RunFindsError
  BY <1>12 DEF RunFindsError
<1>13. CASE EnableRngClock
  <2>1. "RNG" \in clockEn' /\ rngClock'
    BY <1>13 DEF EnableRngClock, EnableClock
  <2> QED BY <1>13, <2>1 DEF EnableRngClock
<1>14. CASE SwitchOn
  BY <1>14 DEF SwitchOn
<1>15. CASE Fill
  BY <1>15 DEF Fill
<1>16. CASE SwitchOff
  BY <1>16 DEF SwitchOff
<1>17. CASE ReleaseClock
  BY <1>17 DEF ReleaseClock
<1>18. CASE StopClock
  BY <1>18 DEF StopClock, GateClock
<1>19. CASE EnablePka
  <2>1. clockEn \subseteq clockEn' /\ rngClock'
    BY <1>19 DEF EnablePka, EnableClock
  <2> QED BY <1>19, <2>1 DEF EnablePka
<1>20. CASE ReleasePka
  BY <1>20 DEF ReleasePka
<1>21. CASE StopPkaClock
  BY <1>21 DEF StopPkaClock, GateClock
<1>22. CASE HW_RNG_Get
  BY <1>22 DEF HW_RNG_Get
<1>23. CASE UNCHANGED rngVars
  BY <1>23 DEF rngVars
<1> QED BY <1>1, <1>2, <1>3, <1>4, <1>5, <1>6, <1>7, <1>8, <1>9, <1>10, <1>11, <1>12,
           <1>13, <1>14, <1>15, <1>16, <1>17, <1>18, <1>19, <1>20, <1>21, <1>22, <1>23
        DEF RngNext, Main

(* Each step keeps what is missing requested, or about to be.               *)
LEMMA RequestKept == RngIInv /\ [RngNext]_rngVars => RequestInv'
<1> SUFFICES ASSUME RngTypeOK, ClockInv, RequestInv, [RngNext]_rngVars PROVE RequestInv'
  BY DEF RngIInv
<1> USE HwRngAssumption
        DEF RngTypeOK, RequestInv, Full, FullOrRequested, Failed, Error, numbers,
        clocks, history, bounded, RngAt, RngGoes
<1>1. CASE RunRngTask
  BY <1>1 DEF RunRngTask, EnterProcess
<1>2. CASE CallProcess
  BY <1>2 DEF CallProcess, EnterProcess
<1>3. CASE CheckWork
  BY <1>3 DEF CheckWork
<1>4. CASE TakeError
  BY <1>4 DEF TakeError
<1>5. CASE Busy
  BY <1>5 DEF Busy
<1>6. CASE FinishProcess
  BY <1>6 DEF FinishProcess
<1>7. CASE CallStart
  BY <1>7 DEF CallStart
<1>8. CASE Start
  BY <1>8 DEF Start
<1>9. CASE StartAgain
  BY <1>9 DEF StartAgain
<1>10. CASE StoreError
  BY <1>10 DEF StoreError
<1>11. CASE HW_RNG_Run
  <2>1. /\ UNCHANGED <<poolSize, run, error, rngRequested>>
        /\ status' = "OK" /\ rngAt = "run"
    BY <1>11 DEF HW_RNG_Run
  <2>2. \/ rngAt' = "enable"
        \/ rngAt' = "fill"
        \/ rngAt' = "switch off" /\ ~(poolSize < PoolSize)
    BY <1>11 DEF HW_RNG_Run
  <2>3. poolSize < PoolSize \/ Full
    BY NotShortIsFull
  <2> QED BY <2>1, <2>2, <2>3
<1>12. CASE RunFindsError
  BY <1>12 DEF RunFindsError
<1>13. CASE EnableRngClock
  BY <1>13 DEF EnableRngClock, EnableClock
<1>14. CASE SwitchOn
  BY <1>14 DEF SwitchOn
<1>15. CASE Fill
  BY <1>15 DEF Fill, ClockInv
<1>16. CASE SwitchOff
  BY <1>16 DEF SwitchOff
<1>17. CASE ReleaseClock
  BY <1>17 DEF ReleaseClock
<1>18. CASE StopClock
  BY <1>18 DEF StopClock, GateClock
<1>19. CASE EnablePka
  BY <1>19 DEF EnablePka, EnableClock
<1>20. CASE ReleasePka
  BY <1>20 DEF ReleasePka
<1>21. CASE StopPkaClock
  BY <1>21 DEF StopPkaClock, GateClock
<1>22. CASE HW_RNG_Get
  BY <1>22 DEF HW_RNG_Get
<1>23. CASE UNCHANGED rngVars
  BY <1>23 DEF rngVars
<1> QED BY <1>1, <1>2, <1>3, <1>4, <1>5, <1>6, <1>7, <1>8, <1>9, <1>10, <1>11, <1>12,
           <1>13, <1>14, <1>15, <1>16, <1>17, <1>18, <1>19, <1>20, <1>21, <1>22, <1>23
        DEF RngNext, Main

(* Only filling, taking and starting touch the numbers.                     *)
LEMMA NumbersKept == RngIInv /\ [RngNext]_rngVars => NumbersInv'
<1> SUFFICES ASSUME RngTypeOK, NumbersInv, [RngNext]_rngVars PROVE NumbersInv'
  BY DEF RngIInv
<1>1. CASE Fill
  <2>1. PICK n \in 0 .. PoolSize - poolSize :
          /\ numberPool' = [i \in Slot |-> IF i \in poolSize .. poolSize + n - 1
                                     THEN generated + i - poolSize ELSE numberPool[i]]
          /\ poolSize' = poolSize + n /\ generated' = generated + n
    BY <1>1 DEF Fill
  <2>2. given' = given /\ repeated' = repeated
    BY <1>1 DEF Fill, history
  <2>3. /\ poolSize \in Nat /\ generated \in Nat /\ n \in Nat
        /\ PoolSize \in Nat /\ poolSize + n <= PoolSize
    BY HwRngAssumption DEF RngTypeOK
  <2>4. \A i \in 0 .. poolSize' - 1 : i \in Slot
    BY <2>1, <2>3 DEF Slot
  <2>5. \A i \in 0 .. poolSize - 1 : numberPool'[i] = numberPool[i] /\ numberPool[i] \in Nat
    <3> TAKE i \in 0 .. poolSize - 1
    <3>1. i \in Slot /\ i \notin poolSize .. poolSize + n - 1
      BY <2>1, <2>3 DEF Slot
    <3> QED BY <2>1, <3>1 DEF RngTypeOK
  <2>6. \A i \in 0 .. poolSize' - 1 :
          i \notin 0 .. poolSize - 1
            => numberPool'[i] = generated + i - poolSize /\ i >= poolSize
    BY <2>1, <2>3, <2>4
  <2>7. /\ \A m \in given : m \in Nat /\ m < generated
        /\ \A i \in 0 .. poolSize - 1 : numberPool[i] < generated /\ numberPool[i] \notin given
        /\ \A i, j \in 0 .. poolSize - 1 : numberPool[i] = numberPool[j] => i = j
    BY DEF NumbersInv, RngTypeOK
  <2>8. ASSUME NEW i \in 0 .. poolSize' - 1
        PROVE  numberPool'[i] < generated' /\ numberPool'[i] \notin given'
    <3>1. CASE i \in 0 .. poolSize - 1
      BY <2>1, <2>2, <2>3, <2>5, <2>7, <3>1
    <3>2. CASE i \notin 0 .. poolSize - 1
      <4>1. numberPool'[i] = generated + i - poolSize /\ i >= poolSize
        BY <2>6, <3>2
      <4>2. ~(numberPool'[i] < generated) /\ numberPool'[i] < generated'
        BY <2>1, <2>3, <4>1
      <4> QED BY <2>2, <2>7, <4>2
    <3> QED BY <3>1, <3>2
  <2>9. ASSUME NEW i \in 0 .. poolSize' - 1, NEW j \in 0 .. poolSize' - 1,
               numberPool'[i] = numberPool'[j]
        PROVE  i = j
    <3>1. CASE i \in 0 .. poolSize - 1 /\ j \in 0 .. poolSize - 1
      BY <2>5, <2>7, <2>9, <3>1
    <3>2. CASE i \notin 0 .. poolSize - 1 /\ j \notin 0 .. poolSize - 1
      BY <2>1, <2>3, <2>6, <2>9, <3>2
    <3>3. CASE i \in 0 .. poolSize - 1 /\ j \notin 0 .. poolSize - 1
      BY <2>1, <2>3, <2>5, <2>6, <2>7, <2>9, <3>3
    <3>4. CASE i \notin 0 .. poolSize - 1 /\ j \in 0 .. poolSize - 1
      BY <2>1, <2>3, <2>5, <2>6, <2>7, <2>9, <3>4
    <3> QED BY <3>1, <3>2, <3>3, <3>4
  <2>10. \A m \in given' : m < generated'
    BY <2>1, <2>2, <2>3, <2>7
  <2>11. ~repeated'
    BY <2>2 DEF NumbersInv
  <2> QED BY <2>8, <2>9, <2>10, <2>11 DEF NumbersInv
<1>2. CASE HW_RNG_Get
  <2>1. CASE poolSize = 0
    BY <1>2, <2>1 DEF HW_RNG_Get, NumbersInv
  <2>2. CASE poolSize # 0
    <3> DEFINE taken == numberPool[poolSize - 1]
    <3>1. /\ poolSize' = poolSize - 1 /\ given' = given \cup {taken}
          /\ repeated' = (repeated \/ taken \in given)
          /\ numberPool' = numberPool /\ generated' = generated
      BY <1>2, <2>2 DEF HW_RNG_Get
    <3>2. poolSize \in Nat /\ poolSize - 1 \in 0 .. poolSize - 1
      BY <2>2 DEF RngTypeOK
    <3>3. taken < generated /\ taken \notin given
      BY <3>2 DEF NumbersInv
    <3>4. \A i \in 0 .. poolSize' - 1 :
            i \in 0 .. poolSize - 1 /\ numberPool[i] # taken
      BY <3>1, <3>2 DEF NumbersInv
    <3> HIDE DEF taken
    <3>5. ~repeated'
      BY <3>1, <3>3 DEF NumbersInv
    <3>6. \A m \in given' : m < generated'
      BY <3>1, <3>3 DEF NumbersInv
    <3>7. \A i \in 0 .. poolSize' - 1 :
            numberPool'[i] < generated' /\ numberPool'[i] \notin given'
      BY <3>1, <3>4 DEF NumbersInv
    <3>8. \A i, j \in 0 .. poolSize' - 1 : numberPool'[i] = numberPool'[j] => i = j
      BY <3>1, <3>4 DEF NumbersInv
    <3> QED BY <3>5, <3>6, <3>7, <3>8 DEF NumbersInv
  <2> QED BY <2>1, <2>2
<1>3. CASE Start
  BY <1>3 DEF Start, NumbersInv, history
<1>4. ASSUME UNCHANGED <<numberPool, poolSize, generated, given, repeated>> PROVE NumbersInv'
  BY <1>4 DEF NumbersInv
<1>5. CASE RunRngTask \/ CallProcess \/ CheckWork \/ TakeError \/ Busy \/ FinishProcess
  BY <1>4, <1>5 DEF RunRngTask, CallProcess, EnterProcess, CheckWork, TakeError, Busy,
                    FinishProcess, numbers, history
<1>6. CASE CallStart \/ StartAgain \/ StoreError
  BY <1>4, <1>6 DEF CallStart, StartAgain, StoreError, numbers, history
<1>7. CASE HW_RNG_Run \/ RunFindsError \/ EnableRngClock \/ SwitchOn
  BY <1>4, <1>7 DEF HW_RNG_Run, RunFindsError, EnableRngClock, SwitchOn, numbers, history
<1>8. CASE SwitchOff \/ ReleaseClock \/ StopClock
  BY <1>4, <1>8 DEF SwitchOff, ReleaseClock, StopClock, numbers, history
<1>9. CASE EnablePka \/ ReleasePka \/ StopPkaClock
  BY <1>4, <1>9 DEF EnablePka, ReleasePka, StopPkaClock, numbers, history
<1>10. CASE UNCHANGED rngVars
  BY <1>4, <1>10 DEF rngVars
<1> QED BY <1>1, <1>2, <1>3, <1>5, <1>6, <1>7, <1>8, <1>9, <1>10 DEF RngNext, Main

(* At first the generator is off and the pool empty.                        *)
LEMMA InitRngIInv == RngInit => RngIInv
<1>1. RngInit => RngTypeOK
  <2> SUFFICES ASSUME RngInit PROVE RngTypeOK
    OBVIOUS
  <2>1. numberPool \in [Slot -> Nat]
    BY DEF RngInit
  <2>2. /\ poolSize \in 0 .. PoolSize /\ generated \in Nat
        /\ gets \in 0 .. MaxGets /\ starts \in 1 .. MaxStarts
        /\ pkaEnables \in 0 .. MaxPkaEnables
    BY HwRngAssumption DEF RngInit
  <2> QED BY <2>1, <2>2 DEF RngInit, RngTypeOK
<1>2. RngInit => ClockInv
  BY DEF RngInit, ClockInv
<1>3. RngInit => RequestInv
  BY DEF RngInit, RequestInv, Failed
<1>4. RngInit => NumbersInv
  BY DEF RngInit, NumbersInv
<1> QED BY <1>1, <1>2, <1>3, <1>4 DEF RngIInv

(* The invariant holds in every behaviour.                                  *)
THEOREM PoolInvariant == RngSpec => []RngIInv
<1>1. RngIInv /\ [RngNext]_rngVars => RngIInv'
  BY TypeKept, ClockKept, RequestKept, NumbersKept DEF RngIInv
<1> QED BY <1>1, InitRngIInv, PTL DEF RngSpec

(* Whoever takes numbers and uses the clock meanwhile, the generator of     *)
(* hw_rng.c is clocked while it is used, the pool is asked to be filled     *)
(* when it is short, and no number is given twice.                          *)
THEOREM PoolStaysSound == RngSpec => []PoolIsSound
<1>1. RngIInv => ClockedWhileUsed
  BY DEF RngIInv, ClockInv, ClockedWhileUsed, RngAt
<1>2. RngIInv => RefillRequested
  <2> SUFFICES ASSUME RngTypeOK, RequestInv PROVE RefillRequested
    BY DEF RngIInv
  <2>1. poolSize < PoolSize => ~Full
    BY DEF RngTypeOK, Full
  <2> QED BY <2>1 DEF RefillRequested, RequestInv, Failed, RngAt
<1>3. RngIInv => NoNumberTwice
  BY DEF RngIInv, NumbersInv, NoNumberTwice
<1>4. RngIInv => PoolIsSound
  BY <1>1, <1>2, <1>3 DEF PoolIsSound
<1> QED BY <1>4, PoolInvariant, PTL

-----------------------------------------------------------------------------
(***************************************************************************)
(* The slots.  None of the stretches the code works on runs over the end   *)
(* of the ring, so the remainder in Slots never matters.                   *)
(***************************************************************************)

(* A place in the ring is its own remainder.                                *)
LEMMA SmallRemainder ==
  ASSUME NEW a \in Nat, a < FifoSize
  PROVE  a % FifoSize = a /\ a \in RingSlot
BY AdvTraceAssumption DEF RingSlot

(* A function on the first n numbers is a sequence of length n.             *)
LEMMA FunctionIsSeq ==
  ASSUME NEW S, NEW n \in Nat, NEW s \in [1 .. n -> S]
  PROVE  s \in Seq(S) /\ Len(s) = n
OBVIOUS

(* A stretch inside the ring: its length and its elements.                  *)
LEMMA StretchOfSlots ==
  ASSUME NEW a \in Nat, NEW n \in Int, a + n <= FifoSize
  PROVE  /\ Slots(a, n) \in Seq(RingSlot)
         /\ Len(Slots(a, n)) = IF n < 0 THEN 0 ELSE n
         /\ \A i \in 1 .. n : Slots(a, n)[i] = a + i - 1
<1>1. \A i \in 1 .. n : a + i - 1 \in Nat /\ a + i - 1 < FifoSize
  BY AdvTraceAssumption
<1>2. \A i \in 1 .. n : (a + i - 1) % FifoSize = a + i - 1 /\ a + i - 1 \in RingSlot
  BY <1>1, SmallRemainder
<1>3. Slots(a, n) = [i \in 1 .. n |-> (a + i - 1) % FifoSize]
  BY DEF Slots
<1>4. Slots(a, n) \in [1 .. n -> RingSlot]
  BY <1>2, <1>3
<1>5. \A i \in 1 .. n : Slots(a, n)[i] = a + i - 1
  BY <1>2, <1>3
<1>6. CASE n < 0
  <2>1. 1 .. n = 1 .. 0
    BY <1>6
  <2>2. Slots(a, n) \in Seq(RingSlot) /\ Len(Slots(a, n)) = 0
    BY <1>4, <2>1, FunctionIsSeq
  <2> QED BY <1>5, <1>6, <2>2
<1>7. CASE n >= 0
  <2>1. n \in Nat
    BY <1>7
  <2>2. Slots(a, n) \in Seq(RingSlot) /\ Len(Slots(a, n)) = n
    BY <1>4, <2>1, FunctionIsSeq
  <2> QED BY <1>5, <1>7, <2>2
<1> QED BY <1>6, <1>7

(* A stretch as a set.                                                      *)
LEMMA SetOfSlots ==
  ASSUME NEW a \in Nat, NEW n \in Nat, a + n <= FifoSize
  PROVE  ToSet(Slots(a, n)) = a .. a + n - 1
<1>1. /\ Slots(a, n) \in Seq(RingSlot) /\ Len(Slots(a, n)) = n
      /\ \A i \in 1 .. n : Slots(a, n)[i] = a + i - 1
  BY StretchOfSlots
<1>2. DOMAIN Slots(a, n) = 1 .. n
  BY <1>1, LenProperties
<1>3. ASSUME NEW slot \in a .. a + n - 1 PROVE slot \in ToSet(Slots(a, n))
  <2>1. slot - a + 1 \in 1 .. n /\ Slots(a, n)[slot - a + 1] = slot
    BY <1>1
  <2> QED BY <1>2, <2>1 DEF ToSet
<1>4. ASSUME NEW slot \in ToSet(Slots(a, n)) PROVE slot \in a .. a + n - 1
  <2>1. PICK i \in 1 .. n : slot = Slots(a, n)[i]
    BY <1>2 DEF ToSet
  <2> QED BY <1>1, <2>1
<1> QED BY <1>3, <1>4

(* Two adjacent stretches are one.                                          *)
LEMMA AdjacentSlots ==
  ASSUME NEW a \in Nat, NEW n \in Nat, NEW k \in Nat, a + n + k <= FifoSize
  PROVE  Slots(a, n + k) = Slots(a, n) \o Slots(a + n, k)
<1> DEFINE left == Slots(a, n)
           right == Slots(a + n, k)
           both == Slots(a, n + k)
<1>1. /\ left \in Seq(RingSlot) /\ Len(left) = n /\ \A i \in 1 .. n : left[i] = a + i - 1
      /\ right \in Seq(RingSlot) /\ Len(right) = k /\ \A i \in 1 .. k : right[i] = a + n + i - 1
      /\ both \in Seq(RingSlot) /\ Len(both) = n + k
      /\ \A i \in 1 .. n + k : both[i] = a + i - 1
  BY StretchOfSlots, AdvTraceAssumption
<1> HIDE DEF left, right, both
<1>2. /\ left \o right \in Seq(RingSlot) /\ Len(left \o right) = n + k
      /\ \A i \in 1 .. n + k : (left \o right)[i] = IF i <= n THEN left[i] ELSE right[i - n]
  BY <1>1, ConcatProperties
<1>3. \A i \in 1 .. n + k : (left \o right)[i] = both[i]
  <2> TAKE i \in 1 .. n + k
  <2>1. CASE i <= n
    BY <1>1, <1>2, <2>1
  <2>2. CASE ~(i <= n)
    <3>1. i - n \in 1 .. k
      BY <2>2
    <3> QED BY <1>1, <1>2, <2>2, <3>1
  <2> QED BY <2>1, <2>2
<1>4. \A i \in 1 .. Len(left \o right) : (left \o right)[i] = both[i]
  BY <1>2, <1>3
<1>5. both = left \o right
  BY <1>1, <1>2, <1>4, SeqEqual
<1> QED BY <1>5 DEF left, right, both

(* b = a + n and m = n + k are written as inequalities: the SMT solver      *)
(* would replace b and m, and then find no instance.                        *)
LEMMA SplitSlots ==
  \A a, n, k, b, m \in Int :
    0 <= a /\ 0 <= n /\ 0 <= k /\ b <= a + n /\ a + n <= b /\ m <= n + k /\ n + k <= m
    /\ a + m <= FifoSize
    => Slots(a, m) = Slots(a, n) \o Slots(b, k)
<1> TAKE a, n, k, b, m \in Int
<1> HAVE 0 <= a /\ 0 <= n /\ 0 <= k /\ b <= a + n /\ a + n <= b /\ m <= n + k /\ n + k <= m
         /\ a + m <= FifoSize
<1>1. /\ b = a + n /\ m = n + k /\ a + n + k <= FifoSize
      /\ a \in Nat /\ n \in Nat /\ k \in Nat
  BY AdvTraceAssumption
<1>2. Slots(a, n + k) = Slots(a, n) \o Slots(a + n, k)
  BY <1>1, AdjacentSlots
<1> QED BY <1>1, <1>2

(* A stretch of no slots.                                                   *)
LEMMA NoSlots == \A a : Slots(a, 0) = <<>>
BY DEF Slots

(* What follows a prefix is what is left when it is dropped.                *)
LEMMA DropPrefix ==
  ASSUME NEW S, NEW s \in Seq(S), NEW t \in Seq(S)
  PROVE  SubSeq(s \o t, Len(s) + 1, Len(s \o t)) = t
<1>1. /\ Len(s) \in Nat /\ Len(t) \in Nat
      /\ s \o t \in Seq(S) /\ Len(s \o t) = Len(s) + Len(t)
      /\ \A i \in 1 .. Len(s) + Len(t) :
           (s \o t)[i] = IF i <= Len(s) THEN s[i] ELSE t[i - Len(s)]
  BY ConcatProperties, LenProperties
<1> DEFINE u == SubSeq(s \o t, Len(s) + 1, Len(s) + Len(t))
<1>2. /\ u \in Seq(S) /\ Len(u) = Len(t)
      /\ \A i \in 1 .. Len(t) : u[i] = (s \o t)[Len(s) + i]
  <2>1. \A i \in Len(s) + 1 .. Len(s) + Len(t) : (s \o t)[i] \in S
    BY <1>1, ElementOfSeq
  <2>2. /\ u \in Seq(S)
        /\ Len(u) = IF Len(s) + 1 <= Len(s) + Len(t) THEN Len(s) + Len(t) - (Len(s) + 1) + 1 ELSE 0
        /\ \A i \in 1 .. Len(s) + Len(t) - (Len(s) + 1) + 1 : u[i] = (s \o t)[Len(s) + 1 + i - 1]
    BY <1>1, <2>1, SubSeqProperties
  <2> HIDE DEF u
  <2>3. Len(u) = Len(t)
    BY <1>1, <2>2
  <2>4. ASSUME NEW i \in 1 .. Len(t) PROVE u[i] = (s \o t)[Len(s) + i]
    <3>1. i \in 1 .. Len(s) + Len(t) - (Len(s) + 1) + 1 /\ Len(s) + 1 + i - 1 = Len(s) + i
      BY <1>1
    <3> QED BY <3>1, <2>2
  <2> QED BY <2>2, <2>3, <2>4
<1> HIDE DEF u
<1>3. \A i \in 1 .. Len(t) : u[i] = t[i]
  BY <1>1, <1>2
<1>4. u = t
  BY <1>2, <1>3, SeqEqual
<1> QED BY <1>1, <1>4 DEF u

(* A sequence is a prefix of every extension of it.                         *)
LEMMA PrefixOfConcat ==
  ASSUME NEW S, NEW s \in Seq(S), NEW t \in Seq(S)
  PROVE  IsPrefix(s, s \o t)
<1>1. /\ Len(s) \in Nat /\ Len(t) \in Nat
      /\ s \o t \in Seq(S) /\ Len(s \o t) = Len(s) + Len(t)
      /\ \A i \in 1 .. Len(s) + Len(t) :
           (s \o t)[i] = IF i <= Len(s) THEN s[i] ELSE t[i - Len(s)]
  BY ConcatProperties, LenProperties
<1> DEFINE u == SubSeq(s \o t, 1, Len(s))
<1>2. \A i \in 1 .. Len(s) : (s \o t)[i] = s[i] /\ s[i] \in S
  BY <1>1, ElementOfSeq
<1>3. u \in Seq(S) /\ Len(u) = Len(s) /\ \A i \in 1 .. Len(s) : u[i] = (s \o t)[i]
  <2>1. /\ u \in Seq(S)
        /\ Len(u) = IF 1 <= Len(s) THEN Len(s) - 1 + 1 ELSE 0
        /\ \A i \in 1 .. Len(s) - 1 + 1 : u[i] = (s \o t)[1 + i - 1]
    BY <1>1, <1>2, SubSeqProperties
  <2> HIDE DEF u
  <2> QED BY <1>1, <2>1
<1> HIDE DEF u
<1>4. u = s
  BY <1>2, <1>3, SeqEqual
<1>5. SubSeq(s, 1, Len(s)) = s
  BY SubSeqFull
<1> QED BY <1>1, <1>4, <1>5 DEF IsPrefix, u

-----------------------------------------------------------------------------
(***************************************************************************)
(* The invariant.                                                          *)
(***************************************************************************)

Holding == {"allocate", "fill", "unlock", "giveUp"}
Holders == {w \in Writer : traceAt[w] \in Holding}

LockInv == TraceLock = Cardinality(Holders) + (IF TransferHolds THEN 1 ELSE 0)

(* A chunk has been chosen, and its completion interrupt has not come yet.  *)
Carrying == transfer # <<>> \/ \E c \in Context : traceAt[c] = "driver"

(* There is one chunk, read from rd, and one context that deals with it.    *)
OneChunk ==
  /\ \A c, d \in Context : traceAt[c] = "driver" /\ traceAt[d] = "driver" => c = d
  /\ \A c \in Context : traceAt[c] = "driver" =>
       transfer = <<>> /\ traceAt[Uart] # "unlock" /\ ptr[c] = rd
  /\ traceAt[Uart] = "unlock" => transfer = <<>>
  /\ traceAt[Uart] \in {"idle", "unlock", "driver"}
  /\ transfer # <<>> => transfer = Slots(rd, sentSize)

(* Where the pointers are: read from r, the ring is in one stretch, or the  *)
(* writers have wrapped and there is a second one at its front.             *)
Stretches(r, s) ==
  /\ s = "NONE" => r <= wr
  /\ s = "DETECTED" => 0 < wr /\ wr < r /\ r <= unchunk_enabled

RingInv ==
  /\ Stretches(rd, unchunk_status)
  /\ unchunk_status = "TRANSFER" => Carrying /\ 0 < wr /\ wr < rd
  /\ Carrying =>
       /\ sentSize > 0
       /\ unchunk_status = "NONE" => rd + sentSize <= wr
       /\ unchunk_status = "DETECTED" => rd + sentSize <= unchunk_enabled
       /\ unchunk_status = "TRANSFER" => rd + sentSize < FifoSize

(* The slots in use, and whether they hold their byte.                      *)
Chunk == rd .. rd + sentSize - 1
Occupied ==
  CASE unchunk_status = "NONE"     -> rd .. wr - 1
    [] unchunk_status = "DETECTED" -> (rd .. unchunk_enabled - 1) \cup (0 .. wr - 1)
    [] unchunk_status = "TRANSFER" -> Chunk \cup (0 .. wr - 1)

BeingFilled(slot) == \E w \in Writer : traceAt[w] = "fill" /\ slot \in ToSet(mine[w])

BytesInv ==
  /\ NothingLost
  /\ \A slot \in Occupied : slot \in filled \/ BeingFilled(slot)
  /\ Carrying => Chunk \subseteq filled

TraceIInv == TraceTypeOK /\ LockInv /\ OneChunk /\ RingInv /\ BytesInv

(* The contexts are finitely many, and the UART's is not a writer.          *)
LEMMA Contexts ==
  /\ Uart \in Context /\ Writer \subseteq Context /\ Uart \notin Writer
  /\ IsFiniteSet(Writer) /\ IsFiniteSet(Context) /\ FifoSize \in Nat /\ FifoSize > 0
  /\ Cardinality(Writer) \in Nat /\ Cardinality(Context) = Cardinality(Writer) + 1
<1>1. IsFiniteSet(Writer) /\ Uart \notin Writer
  BY AdvTraceAssumption
<1>2. Context = Writer \cup {Uart}
  BY DEF Context
<1> QED BY <1>1, <1>2, AdvTraceAssumption, FS_AddElement, FS_CardinalityType

(* No more hold the lock than there are writers.                            *)
LEMMA HoldersFinite ==
  /\ IsFiniteSet(Holders) /\ Cardinality(Holders) \in Nat
  /\ Cardinality(Holders) <= Cardinality(Writer)
<1>1. Holders \in SUBSET Writer
  BY DEF Holders
<1> QED BY <1>1, Contexts, FS_Subset, FS_CardinalityType

(* A counter that counts its holders has its type.                          *)
LEMMA LockBounded == LockInv' => TraceLock' \in 0 .. Cardinality(Context)
<1>1. Holders' \in SUBSET Writer
  BY DEF Holders
<1>2. Cardinality(Holders') \in Nat /\ Cardinality(Holders') <= Cardinality(Writer)
  BY <1>1, Contexts, FS_Subset, FS_CardinalityType
<1> QED BY <1>2, Contexts DEF LockInv

(* The lock when a writer takes it, keeps it, or gives it back.             *)
LEMMA WriterGoes ==
  ASSUME NEW w \in Writer, NEW label, TraceGoto(w, label),
         traceAt \in [Context -> {"idle", "allocate", "fill", "unlock", "giveUp", "send",
                                 "driver"}]
  PROVE  /\ Cardinality(Holders') =
              Cardinality(Holders) + (IF label \in Holding THEN 1 ELSE 0)
                                   - (IF traceAt[w] \in Holding THEN 1 ELSE 0)
         /\ traceAt'[Uart] = traceAt[Uart]
         /\ traceAt'[w] = label
         /\ \A c \in Context : c # w => traceAt'[c] = traceAt[c]
<1>1. /\ traceAt'[w] = label
      /\ \A c \in Context : c # w => traceAt'[c] = traceAt[c]
      /\ traceAt'[Uart] = traceAt[Uart]
  BY Contexts DEF TraceGoto
<1>2. /\ Holders = {v \in Writer : traceAt[v] \in Holding}
      /\ Holders' = {v \in Writer : traceAt'[v] \in Holding}
  BY DEF Holders
<1>3. \A v \in Writer : v # w => (v \in Holders' <=> v \in Holders)
  BY <1>1, <1>2, Contexts
<1>4. CASE label \in Holding
  <2>1. Holders' = Holders \cup {w}
    BY <1>1, <1>2, <1>3, <1>4
  <2>2. w \in Holders <=> traceAt[w] \in Holding
    BY <1>2
  <2>3. Cardinality(Holders') =
          IF w \in Holders THEN Cardinality(Holders) ELSE Cardinality(Holders) + 1
    BY <2>1, HoldersFinite, FS_AddElement
  <2>4. Cardinality(Holders') = Cardinality(Holders) + 1 - (IF traceAt[w] \in Holding THEN 1 ELSE 0)
    BY <2>2, <2>3, HoldersFinite
  <2> QED BY <1>1, <1>4, <2>4, HoldersFinite
<1>5. CASE label \notin Holding
  <2>1. Holders' = Holders \ {w}
    BY <1>1, <1>2, <1>3, <1>5
  <2>2. w \in Holders <=> traceAt[w] \in Holding
    BY <1>2
  <2>3. Cardinality(Holders') =
          IF w \in Holders THEN Cardinality(Holders) - 1 ELSE Cardinality(Holders)
    BY <2>1, HoldersFinite, FS_RemoveElement
  <2>4. Cardinality(Holders') = Cardinality(Holders) - (IF traceAt[w] \in Holding THEN 1 ELSE 0)
    BY <2>2, <2>3, HoldersFinite
  <2> QED BY <1>1, <1>5, <2>4, HoldersFinite
<1> QED BY <1>4, <1>5

(* A step that moves no pointer and no byte, starts no transfer and ends    *)
(* none.                                                                    *)
LEMMA SameSections ==
  ASSUME OneChunk, RingInv, BytesInv,
         UNCHANGED <<pointers, bytes, ptr, transfer>>,
         \A c \in Context : traceAt'[c] = "driver" <=> traceAt[c] = "driver",
         \A w \in Writer : traceAt'[w] = "fill" <=> traceAt[w] = "fill",
         traceAt'[Uart] = traceAt[Uart]
  PROVE  OneChunk' /\ RingInv' /\ BytesInv' /\ (TransferHolds' <=> TransferHolds)
<1>1. OneChunk'
  BY DEF OneChunk, pointers, Slots
<1>2. Carrying' <=> Carrying
  BY DEF Carrying
<1>3. RingInv'
  BY <1>2 DEF RingInv, Stretches, pointers, bytes
<1>4. NothingLost'
  BY DEF BytesInv, NothingLost, Between, Slots, pointers, bytes
<1>5. \A slot : BeingFilled(slot)' <=> BeingFilled(slot)
  BY DEF BeingFilled, bytes
<1>6. Occupied' = Occupied /\ Chunk' = Chunk /\ filled' = filled
  BY DEF Occupied, Chunk, pointers, bytes
<1>7. BytesInv'
  BY <1>2, <1>4, <1>5, <1>6 DEF BytesInv
<1>8. TransferHolds' <=> TransferHolds
  BY DEF TransferHolds
<1> QED BY <1>1, <1>3, <1>7, <1>8

-----------------------------------------------------------------------------
(***************************************************************************)
(* A writer: it takes the lock, may find no room, allocates its slots,     *)
(* fills them and gives the lock back.                                     *)
(***************************************************************************)

(* A step of a writer that only takes or gives back the lock.               *)
LEMMA LockKeepsIInv ==
  ASSUME TraceIInv, NEW w \in Writer,
         Lock(w) \/ (\E size \in MessageLength : AllocateFails(w, size)) \/ UnLock(w)
  PROVE  TraceIInv'
<1> DEFINE label == IF TraceAt(w, "idle") THEN "allocate"
                    ELSE IF TraceAt(w, "allocate") THEN "giveUp"
                    ELSE IF traceAt[w] = "unlock" THEN "send" ELSE "idle"
<1>1. /\ TraceGoto(w, label)
      /\ UNCHANGED <<pointers, bytes, ptr, transfer>>
      /\ traceAt[w] \in {"idle", "allocate", "unlock", "giveUp"}
  BY DEF Lock, AllocateFails, UnLock, TraceAt
<1>2. TraceLock' = TraceLock + (IF label \in Holding THEN 1 ELSE 0)
                             - (IF traceAt[w] \in Holding THEN 1 ELSE 0)
  BY DEF Lock, AllocateFails, UnLock, TraceAt, Holding, TraceIInv, TraceTypeOK
<1>3. label \in {"allocate", "giveUp", "send", "idle"}
  OBVIOUS
<1> HIDE DEF label
<1>4. /\ Cardinality(Holders') =
            Cardinality(Holders) + (IF label \in Holding THEN 1 ELSE 0)
                                 - (IF traceAt[w] \in Holding THEN 1 ELSE 0)
      /\ traceAt'[Uart] = traceAt[Uart] /\ traceAt'[w] = label
      /\ \A c \in Context : c # w => traceAt'[c] = traceAt[c]
  BY <1>1, WriterGoes DEF TraceIInv, TraceTypeOK
<1>5. /\ \A c \in Context : traceAt'[c] = "driver" <=> traceAt[c] = "driver"
      /\ \A v \in Writer : traceAt'[v] = "fill" <=> traceAt[v] = "fill"
  BY <1>1, <1>3, <1>4, Contexts
<1>6. OneChunk' /\ RingInv' /\ BytesInv' /\ (TransferHolds' <=> TransferHolds)
  BY <1>1, <1>4, <1>5, SameSections DEF TraceIInv
<1>7. LockInv'
  <2>1. TraceLock = Cardinality(Holders) + (IF TransferHolds THEN 1 ELSE 0)
    BY DEF TraceIInv, LockInv
  <2>2. (IF TransferHolds' THEN 1 ELSE 0) = (IF TransferHolds THEN 1 ELSE 0)
    BY <1>6
  <2>3. TraceLock' = Cardinality(Holders') + (IF TransferHolds THEN 1 ELSE 0)
    BY <1>2, <1>4, <2>1, HoldersFinite
  <2> QED BY <2>2, <2>3 DEF LockInv
<1>8. TraceTypeOK'
  <2>1. TraceLock' \in 0 .. Cardinality(Context)
    BY <1>7, LockBounded
  <2> QED BY <1>1, <1>3, <2>1, Contexts DEF TraceIInv, TraceTypeOK, TraceGoto, pointers, bytes
<1> QED BY <1>6, <1>7, <1>8 DEF TraceIInv

(* The slots of a message are stored, all of them at once for the others.   *)
LEMMA FillKeepsIInv ==
  ASSUME TraceIInv, NEW w \in Writer, FillMessage(w)
  PROVE  TraceIInv'
<1>1. /\ TraceGoto(w, "unlock") /\ traceAt[w] = "fill"
      /\ UNCHANGED <<pointers, wr, unsent, TraceLock, ptr, transfer>>
      /\ filled' = filled \cup ToSet(mine[w])
      /\ mine' = [mine EXCEPT ![w] = <<>>]
  BY DEF FillMessage, TraceAt
<1>2. /\ Cardinality(Holders') =
            Cardinality(Holders) + (IF "unlock" \in Holding THEN 1 ELSE 0)
                                 - (IF traceAt[w] \in Holding THEN 1 ELSE 0)
      /\ traceAt'[Uart] = traceAt[Uart] /\ traceAt'[w] = "unlock"
      /\ \A c \in Context : c # w => traceAt'[c] = traceAt[c]
  BY <1>1, WriterGoes DEF TraceIInv, TraceTypeOK
<1>3. \A c \in Context : traceAt'[c] = "driver" <=> traceAt[c] = "driver"
  BY <1>1, <1>2
<1>4. /\ Carrying' <=> Carrying
      /\ TransferHolds' <=> TransferHolds
  BY <1>1, <1>2, <1>3 DEF Carrying, TransferHolds
<1>5. LockInv'
  <2>1. Cardinality(Holders') = Cardinality(Holders)
    BY <1>1, <1>2, HoldersFinite DEF Holding
  <2> QED BY <1>1, <1>4, <2>1 DEF TraceIInv, LockInv
<1>6. TraceTypeOK'
  <2>1. TraceLock' \in 0 .. Cardinality(Context)
    BY <1>5, LockBounded
  <2>2. mine' \in [Writer -> Seq(RingSlot)]
    BY <1>1 DEF TraceIInv, TraceTypeOK
  <2>3. mine[w] \in Seq(RingSlot)
    BY DEF TraceIInv, TraceTypeOK
  <2>4. ToSet(mine[w]) \subseteq RingSlot
    BY <2>3 DEF ToSet
  <2> QED BY <1>1, <2>1, <2>2, <2>4, Contexts DEF TraceIInv, TraceTypeOK, TraceGoto, pointers
<1>7. OneChunk'
  BY <1>1, <1>2, <1>3 DEF TraceIInv, OneChunk, pointers, Slots
<1>8. RingInv'
  BY <1>1, <1>4 DEF TraceIInv, RingInv, Stretches, pointers
<1>9. BytesInv'
  <2>1. NothingLost'
    BY <1>1 DEF TraceIInv, BytesInv, NothingLost, Between, Slots, pointers
  <2>2. Occupied' = Occupied /\ Chunk' = Chunk
    BY <1>1 DEF Occupied, Chunk, pointers
  <2>3. ASSUME NEW slot \in Occupied PROVE slot \in filled' \/ BeingFilled(slot)'
    <3>1. CASE slot \in filled
      BY <1>1, <3>1
    <3>2. ASSUME NEW v \in Writer, traceAt[v] = "fill", slot \in ToSet(mine[v])
          PROVE  slot \in filled' \/ BeingFilled(slot)'
      <4>1. CASE v = w
        BY <1>1, <3>2, <4>1
      <4>2. CASE v # w
        <5>1. traceAt'[v] = "fill" /\ mine'[v] = mine[v]
          BY <1>1, <1>2, <3>2, <4>2, Contexts DEF TraceIInv, TraceTypeOK
        <5> QED BY <3>2, <5>1 DEF BeingFilled
      <4> QED BY <4>1, <4>2
    <3> QED BY <3>1, <3>2 DEF TraceIInv, BytesInv, BeingFilled
  <2>4. Carrying' => Chunk' \subseteq filled'
    BY <1>1, <1>4, <2>2 DEF TraceIInv, BytesInv
  <2> QED BY <2>1, <2>2, <2>3, <2>4 DEF BytesInv
<1> QED BY <1>5, <1>6, <1>7, <1>8, <1>9 DEF TraceIInv

(* Where a message goes, and that it overtakes nothing.                     *)
LEMMA AllocatedStretch ==
  ASSUME TraceTypeOK, RingInv, NEW w \in Writer, NEW size \in MessageLength,
         AllocateBufer(w, size)
  PROVE  \E first \in Nat :
           /\ size \in Nat /\ size > 0 /\ first + size < FifoSize
           /\ wr' = first + size
           /\ mine' = [mine EXCEPT ![w] = Slots(first, size)]
           /\ unsent' = unsent \o Slots(first, size)
           /\ UNCHANGED <<rd, sentSize>>
           /\ \/ /\ first = 0 /\ unchunk_status = "NONE" /\ rd <= wr /\ size < rd
                 /\ unchunk_status' = "DETECTED" /\ unchunk_enabled' = wr
              \/ /\ first = wr /\ unchunk_status = "NONE"
                 /\ UNCHANGED <<unchunk_status, unchunk_enabled>>
              \/ /\ first = wr /\ unchunk_status \in {"DETECTED", "TRANSFER"} /\ wr + size < rd
                 /\ UNCHANGED <<unchunk_status, unchunk_enabled>>
<1>1. /\ FifoSize \in Nat /\ size \in Nat /\ size > 0
      /\ rd \in Nat /\ wr \in Nat /\ rd < FifoSize /\ wr < FifoSize
  BY AdvTraceAssumption DEF TraceTypeOK, RingSlot
<1>2. mine' = [mine EXCEPT ![w] = Slots(IF Wraps(size) THEN 0 ELSE wr, size)]
  BY DEF AllocateBufer
<1>3. mine'[w] = Slots(IF Wraps(size) THEN 0 ELSE wr, size)
  BY <1>2 DEF TraceTypeOK
<1>4. /\ wr' = ((IF Wraps(size) THEN 0 ELSE wr) + size) % FifoSize
      /\ unsent' = unsent \o mine'[w]
      /\ UNCHANGED <<rd, sentSize>>
      /\ FreeSize(size) > size
      /\ Wraps(size) => unchunk_status' = "DETECTED" /\ unchunk_enabled' = wr
      /\ ~Wraps(size) => UNCHANGED <<unchunk_status, unchunk_enabled>>
  BY DEF AllocateBufer, Fits
<1>5. /\ unchunk_status \in {"NONE", "DETECTED", "TRANSFER"}
      /\ unchunk_status = "NONE" => rd <= wr
      /\ unchunk_status \in {"DETECTED", "TRANSFER"} => wr < rd
  BY DEF RingInv, Stretches, TraceTypeOK
<1>6. CASE Wraps(size)
  <2>1. wr >= rd /\ rd > size
    BY <1>6 DEF Wraps
  <2>2. size < FifoSize /\ unchunk_status = "NONE"
    BY <1>1, <1>5, <2>1
  <2>3. wr' = size
    BY <1>1, <1>4, <1>6, <2>2, SmallRemainder
  <2> WITNESS 0 \in Nat
  <2> QED BY <1>1, <1>2, <1>3, <1>4, <1>6, <2>1, <2>2, <2>3
<1>7. CASE ~Wraps(size) /\ wr >= rd
  <2>1. wr + size < FifoSize /\ unchunk_status = "NONE"
    BY <1>1, <1>4, <1>5, <1>7 DEF FreeSize
  <2>2. wr' = (wr + size) % FifoSize /\ wr + size \in Nat
    BY <1>1, <1>4, <1>7
  <2>3. wr' = wr + size
    BY <2>1, <2>2, SmallRemainder
  <2> USE <1>1
  <2> WITNESS wr \in Nat
  <2> QED BY <1>1, <1>2, <1>3, <1>4, <1>7, <2>1, <2>3
<1>8. CASE ~Wraps(size) /\ ~(wr >= rd)
  <2>1. wr + size < rd /\ unchunk_status \in {"DETECTED", "TRANSFER"}
    BY <1>1, <1>4, <1>5, <1>8 DEF FreeSize
  <2>2. wr + size < FifoSize
    BY <1>1, <2>1
  <2>3. wr' = (wr + size) % FifoSize /\ wr + size \in Nat
    BY <1>1, <1>4, <1>8
  <2>4. wr' = wr + size
    BY <2>2, <2>3, SmallRemainder
  <2> USE <1>1
  <2> WITNESS wr \in Nat
  <2> QED BY <1>1, <1>2, <1>3, <1>4, <1>8, <2>1, <2>2, <2>4
<1> QED BY <1>6, <1>7, <1>8

(* What is allocated lies behind what the ring holds.                       *)
LEMMA AllocationAppends ==
  ASSUME TraceIInv, NEW w \in Writer, NEW size \in MessageLength, AllocateBufer(w, size),
         Carrying' <=> Carrying
  PROVE  /\ NothingLost' /\ RingInv'
         /\ \A slot \in Occupied' : slot \in Occupied \/ slot \in ToSet(mine'[w])
         /\ wr' \in RingSlot /\ unchunk_enabled' \in RingSlot
         /\ unchunk_status' \in {"NONE", "DETECTED", "TRANSFER"}
         /\ mine' \in [Writer -> Seq(RingSlot)] /\ unsent' \in Seq(RingSlot)
         /\ \A v \in Writer : v # w => mine'[v] = mine[v]
<1>1. PICK first \in Nat :
         /\ size \in Nat /\ size > 0 /\ first + size < FifoSize
         /\ wr' = first + size
         /\ mine' = [mine EXCEPT ![w] = Slots(first, size)]
         /\ unsent' = unsent \o Slots(first, size)
         /\ UNCHANGED <<rd, sentSize>>
         /\ \/ /\ first = 0 /\ unchunk_status = "NONE" /\ rd <= wr /\ size < rd
               /\ unchunk_status' = "DETECTED" /\ unchunk_enabled' = wr
            \/ /\ first = wr /\ unchunk_status = "NONE"
               /\ UNCHANGED <<unchunk_status, unchunk_enabled>>
            \/ /\ first = wr /\ unchunk_status \in {"DETECTED", "TRANSFER"} /\ wr + size < rd
               /\ UNCHANGED <<unchunk_status, unchunk_enabled>>
  BY AllocatedStretch DEF TraceIInv
<1>2. /\ FifoSize \in Nat /\ rd \in Nat /\ wr \in Nat /\ rd < FifoSize /\ wr < FifoSize
      /\ unchunk_enabled \in Nat /\ unchunk_enabled < FifoSize
      /\ sentSize \in Nat
  BY AdvTraceAssumption DEF TraceIInv, TraceTypeOK, RingSlot
<1>3. /\ Slots(first, size) \in Seq(RingSlot)
      /\ ToSet(Slots(first, size)) = first .. first + size - 1
  BY <1>1, <1>2, StretchOfSlots, SetOfSlots
<1>4. /\ mine' \in [Writer -> Seq(RingSlot)] /\ mine'[w] = Slots(first, size)
      /\ \A v \in Writer : v # w => mine'[v] = mine[v]
  BY <1>1, <1>3 DEF TraceIInv, TraceTypeOK
<1>5. unsent' \in Seq(RingSlot)
  BY <1>1, <1>3, ConcatProperties DEF TraceIInv, TraceTypeOK
<1>6. /\ wr' \in RingSlot /\ unchunk_enabled' \in RingSlot
      /\ unchunk_status' \in {"NONE", "DETECTED", "TRANSFER"}
  BY <1>1, <1>2 DEF TraceIInv, TraceTypeOK, RingSlot
<1>7. /\ unchunk_status = "NONE" => rd <= wr
      /\ unchunk_status = "DETECTED" => 0 < wr /\ wr < rd /\ rd <= unchunk_enabled
      /\ unchunk_status = "TRANSFER" => Carrying /\ 0 < wr /\ wr < rd
      /\ Carrying => /\ sentSize > 0
                     /\ unchunk_status = "NONE" => rd + sentSize <= wr
                     /\ unchunk_status = "DETECTED" => rd + sentSize <= unchunk_enabled
                     /\ unchunk_status = "TRANSFER" => rd + sentSize < FifoSize
  BY DEF TraceIInv, RingInv, Stretches
<1>8. RingInv'
  BY <1>1, <1>2, <1>7 DEF RingInv, Stretches
<1>9. \A slot \in Occupied' : slot \in Occupied \/ slot \in first .. first + size - 1
  BY <1>1, <1>2, <1>7 DEF Occupied, Chunk
<1>10. unsent = Between
  BY DEF TraceIInv, BytesInv, NothingLost
<1>11. Between' = Between \o Slots(first, size)
  <2>1. CASE first = 0 /\ unchunk_status = "NONE" /\ unchunk_status' = "DETECTED"
              /\ unchunk_enabled' = wr
    <3>1. Between = Slots(rd, wr - rd)
      BY <2>1 DEF Between
    <3>2. Between' = Slots(rd', unchunk_enabled' - rd') \o Slots(0, wr')
      BY <2>1 DEF Between
    <3>3. rd' = rd /\ unchunk_enabled' = wr /\ wr' = size /\ first = 0
      BY <1>1, <2>1
    <3> QED BY <3>1, <3>2, <3>3
  <2>2. CASE first = wr /\ unchunk_status = "NONE" /\ unchunk_status' = "NONE"
    <3> DEFINE n == wr - rd
    <3>1. n \in Nat /\ rd + n + size <= FifoSize /\ rd + n = wr /\ n + size = wr' - rd'
      BY <1>1, <1>2, <1>7, <2>2
    <3>2. Between = Slots(rd, n) /\ Between' = Slots(rd', wr' - rd')
      BY <2>2 DEF Between
    <3> HIDE DEF n
    <3>3. PICK m \in Nat : m = n + size
      BY <1>1, <3>1
    <3>4. Slots(rd, m) = Slots(rd, n) \o Slots(wr, size)
      <4>1. size \in Nat /\ rd \in Nat /\ wr \in Nat /\ FifoSize \in Nat
        BY <1>1, <1>2
      <4> QED BY <3>1, <3>3, <4>1, SplitSlots
    <3> QED BY <1>1, <2>2, <3>1, <3>2, <3>3, <3>4
  <2>3. CASE first = wr /\ unchunk_status \in {"DETECTED", "TRANSFER"}
              /\ UNCHANGED <<unchunk_status, unchunk_enabled>>
    <3> DEFINE size1 == IF unchunk_status = "DETECTED" THEN unchunk_enabled - rd ELSE sentSize
    <3>1. size1 \in Nat /\ rd + size1 <= FifoSize
      BY <1>2, <1>7, <2>3
    <3>2. /\ Between = Slots(rd, size1) \o Slots(0, wr)
          /\ Between' = Slots(rd, size1) \o Slots(0, wr + size)
      BY <1>1, <2>3 DEF Between, Slots
    <3> HIDE DEF size1
    <3>3. Slots(0, wr + size) = Slots(0, wr) \o Slots(wr, size)
      <4>1. /\ wr + size <= FifoSize
            /\ wr + size \in Nat /\ size \in Nat /\ wr \in Nat /\ FifoSize \in Nat
        BY <1>1, <1>2, <2>3
      <4> QED BY <4>1, SplitSlots
    <3>4. Slots(rd, size1) \in Seq(RingSlot) /\ Slots(0, wr) \in Seq(RingSlot)
      BY <1>2, <3>1, StretchOfSlots
    <3>5. (Slots(rd, size1) \o Slots(0, wr)) \o Slots(first, size)
            = Slots(rd, size1) \o (Slots(0, wr) \o Slots(first, size))
      BY <1>3, <3>4, ConcatAssociative
    <3> QED BY <2>3, <3>2, <3>3, <3>5
  <2> QED BY <1>1, <2>1, <2>2, <2>3
<1>12. NothingLost'
  BY <1>1, <1>10, <1>11 DEF NothingLost
<1> QED BY <1>3, <1>4, <1>5, <1>6, <1>8, <1>9, <1>12

(* A message is given its slots.                                            *)
LEMMA AllocateKeepsIInv ==
  ASSUME TraceIInv, NEW w \in Writer, NEW size \in MessageLength, AllocateBufer(w, size)
  PROVE  TraceIInv'
<1>1. /\ TraceGoto(w, "fill") /\ traceAt[w] = "allocate"
      /\ UNCHANGED <<rd, sentSize, TraceLock, ptr, transfer, filled>>
  BY DEF AllocateBufer, TraceAt
<1>2. /\ Cardinality(Holders') =
            Cardinality(Holders) + (IF "fill" \in Holding THEN 1 ELSE 0)
                                 - (IF traceAt[w] \in Holding THEN 1 ELSE 0)
      /\ traceAt'[Uart] = traceAt[Uart] /\ traceAt'[w] = "fill"
      /\ \A c \in Context : c # w => traceAt'[c] = traceAt[c]
  BY <1>1, WriterGoes DEF TraceIInv, TraceTypeOK
<1>3. \A c \in Context : traceAt'[c] = "driver" <=> traceAt[c] = "driver"
  BY <1>1, <1>2
<1>4. /\ Carrying' <=> Carrying
      /\ TransferHolds' <=> TransferHolds
  BY <1>1, <1>2, <1>3 DEF Carrying, TransferHolds
<1>5. LockInv'
  <2>1. Cardinality(Holders') = Cardinality(Holders)
    BY <1>1, <1>2, HoldersFinite DEF Holding
  <2> QED BY <1>1, <1>4, <2>1 DEF TraceIInv, LockInv
<1>6. /\ NothingLost' /\ RingInv'
      /\ \A slot \in Occupied' : slot \in Occupied \/ slot \in ToSet(mine'[w])
      /\ wr' \in RingSlot /\ unchunk_enabled' \in RingSlot
      /\ unchunk_status' \in {"NONE", "DETECTED", "TRANSFER"}
      /\ mine' \in [Writer -> Seq(RingSlot)] /\ unsent' \in Seq(RingSlot)
      /\ \A v \in Writer : v # w => mine'[v] = mine[v]
  BY <1>4, AllocationAppends
<1>7. TraceTypeOK'
  <2>1. TraceLock' \in 0 .. Cardinality(Context)
    BY <1>5, LockBounded
  <2>2. traceAt' \in [Context -> {"idle", "allocate", "fill", "unlock", "giveUp", "send",
                                  "driver"}]
    BY <1>1, Contexts DEF TraceIInv, TraceTypeOK, TraceGoto
  <2> QED BY <1>1, <1>6, <2>1, <2>2 DEF TraceIInv, TraceTypeOK
<1>8. OneChunk'
  BY <1>1, <1>2, <1>3 DEF TraceIInv, OneChunk, Slots
<1>9. BytesInv'
  <2>1. ASSUME NEW slot \in Occupied' PROVE slot \in filled' \/ BeingFilled(slot)'
    <3>1. CASE slot \in ToSet(mine'[w])
      BY <1>2, <3>1 DEF BeingFilled
    <3>2. CASE slot \in filled
      BY <1>1, <3>2
    <3>3. ASSUME NEW v \in Writer, traceAt[v] = "fill", slot \in ToSet(mine[v])
          PROVE  BeingFilled(slot)'
      <4>1. v # w /\ v \in Context
        BY <1>1, <3>3, Contexts
      <4>2. traceAt'[v] = "fill" /\ mine'[v] = mine[v]
        BY <1>2, <1>6, <3>3, <4>1
      <4> QED BY <3>3, <4>2 DEF BeingFilled
    <3>4. slot \in Occupied \/ slot \in ToSet(mine'[w])
      BY <1>6, <2>1
    <3> QED BY <3>1, <3>2, <3>3, <3>4 DEF TraceIInv, BytesInv, BeingFilled
  <2>2. Carrying' => Chunk' \subseteq filled'
    BY <1>1, <1>4 DEF TraceIInv, BytesInv, Chunk
  <2> QED BY <1>6, <2>1, <2>2 DEF BytesInv
<1> QED BY <1>5, <1>6, <1>7, <1>8, <1>9 DEF TraceIInv

-----------------------------------------------------------------------------
(***************************************************************************)
(* The sender.  Read from r with unchunk status s, the ring still holds    *)
(* the slots Rest(r, s); a chunk is a first stretch of them.               *)
(***************************************************************************)

Rest(r, s) ==
  IF s = "NONE" THEN Slots(r, wr - r) ELSE Slots(r, unchunk_enabled - r) \o Slots(0, wr)
RestSet(r, s) ==
  IF s = "NONE" THEN r .. wr - 1 ELSE (r .. unchunk_enabled - 1) \cup (0 .. wr - 1)

ChunkIsWithin ==
  /\ sentSize > 0
  /\ unchunk_status = "NONE" => rd + sentSize <= wr
  /\ unchunk_status = "DETECTED" => rd + sentSize <= unchunk_enabled
  /\ unchunk_status = "TRANSFER" => 0 < wr /\ wr < rd /\ rd + sentSize < FifoSize

(* The chunk chosen is a first stretch of what is left, and not empty.      *)
LEMMA ChunkChosen ==
  ASSUME TraceTypeOK, NEW c \in Context, NEW r \in RingSlot, NEW s \in {"NONE", "DETECTED"},
         Stretches(r, s), r # wr, ChooseChunk(c, r, s), wr' = wr
  PROVE  /\ rd' \in RingSlot /\ unchunk_enabled' \in RingSlot /\ sentSize' \in 0 .. FifoSize
         /\ unchunk_status' \in {"NONE", "TRANSFER"}
         /\ ptr' \in [Context -> RingSlot] /\ ptr'[c] = rd'
         /\ unchunk_status' = "NONE" => rd' <= wr'
         /\ ChunkIsWithin'
         /\ Between' = Rest(r, s) /\ Occupied' = RestSet(r, s) /\ Chunk' \subseteq Occupied'
<1>1. /\ FifoSize \in Nat /\ r \in Nat /\ r < FifoSize /\ wr \in Nat /\ wr < FifoSize
      /\ unchunk_enabled \in Nat /\ unchunk_enabled < FifoSize
      /\ 0 \in RingSlot /\ unchunk_enabled \in RingSlot
  BY AdvTraceAssumption DEF TraceTypeOK, RingSlot
<1>2. ptr' = [ptr EXCEPT ![c] = rd']
  BY DEF ChooseChunk
<1>3. /\ s = "NONE" => r <= wr
      /\ s = "DETECTED" => 0 < wr /\ wr < r /\ r <= unchunk_enabled
  BY DEF Stretches
<1>4. CASE s = "NONE"
  <2>1. rd' = r /\ unchunk_status' = "NONE" /\ unchunk_enabled' = unchunk_enabled
    BY <1>4 DEF ChooseChunk
  <2>2. r < wr /\ sentSize' = wr - r
    BY <1>1, <1>3, <1>4, <2>1 DEF ChooseChunk
  <2>3. sentSize' \in 0 .. FifoSize /\ sentSize' > 0 /\ rd' + sentSize' = wr
    BY <1>1, <2>1, <2>2
  <2>4. ChunkIsWithin'
    <3>1. rd' + sentSize' <= wr'
      BY <1>1, <2>3
    <3> QED BY <2>1, <2>3, <3>1 DEF ChunkIsWithin
  <2>5. Between' = Rest(r, s)
    BY <1>4, <2>1 DEF Between, Rest, Slots
  <2>6. Occupied' = RestSet(r, s) /\ Occupied' = r .. wr - 1
    BY <1>4, <2>1 DEF Occupied, RestSet
  <2>7. Chunk' \subseteq Occupied'
    BY <1>1, <2>1, <2>2, <2>6 DEF Chunk
  <2>8. ptr' \in [Context -> RingSlot] /\ ptr'[c] = rd'
    BY <1>2, <2>1 DEF TraceTypeOK
  <2> QED BY <1>1, <2>1, <2>2, <2>3, <2>4, <2>5, <2>6, <2>7, <2>8
<1>5. CASE s = "DETECTED" /\ unchunk_enabled = r
  <2>1. rd' = 0 /\ unchunk_status' = "NONE" /\ unchunk_enabled' = 0
    BY <1>5 DEF ChooseChunk
  <2>2. wr > 0 /\ sentSize' = wr
    BY <1>1, <1>3, <1>5, <2>1 DEF ChooseChunk
  <2>3. sentSize' \in 0 .. FifoSize /\ sentSize' > 0 /\ rd' + sentSize' = wr
    BY <1>1, <2>1, <2>2
  <2>4. ChunkIsWithin'
    <3>1. rd' + sentSize' <= wr'
      BY <1>1, <2>3
    <3> QED BY <2>1, <2>3, <3>1 DEF ChunkIsWithin
  <2>5. Between' = Rest(r, s)
    <3>1. Slots(0, wr) \in Seq(RingSlot)
      BY <1>1, StretchOfSlots
    <3>2. unchunk_enabled - r = 0 /\ wr - 0 = wr
      BY <1>1, <1>5
    <3>3. Rest(r, s) = <<>> \o Slots(0, wr)
      BY <1>5, <3>2, NoSlots DEF Rest
    <3>4. Between' = Slots(0, wr)
      BY <2>1, <3>2 DEF Between, Slots
    <3> QED BY <3>1, <3>3, <3>4, ConcatEmptySeq
  <2>6. Occupied' = RestSet(r, s) /\ Occupied' = 0 .. wr - 1
    <3>1. Occupied' = 0 .. wr - 1
      BY <2>1 DEF Occupied
    <3>2. r .. unchunk_enabled - 1 = {}
      BY <1>1, <1>5
    <3> QED BY <1>5, <3>1, <3>2 DEF RestSet
  <2>7. Chunk' \subseteq Occupied'
    BY <1>1, <2>1, <2>2, <2>6 DEF Chunk
  <2>8. ptr' \in [Context -> RingSlot] /\ ptr'[c] = rd'
    BY <1>1, <1>2, <2>1 DEF TraceTypeOK
  <2> QED BY <1>1, <2>1, <2>2, <2>3, <2>4, <2>5, <2>6, <2>7, <2>8
<1>6. CASE s = "DETECTED" /\ unchunk_enabled # r
  <2>1. rd' = r /\ unchunk_status' = "TRANSFER" /\ unchunk_enabled' = 0
    BY <1>6 DEF ChooseChunk
  <2>2. sentSize' = unchunk_enabled - r
    BY <1>6, <2>1 DEF ChooseChunk
  <2>3. sentSize' \in 0 .. FifoSize /\ sentSize' > 0 /\ rd' + sentSize' = unchunk_enabled
    BY <1>1, <1>3, <1>6, <2>1, <2>2
  <2>4. ChunkIsWithin'
    BY <1>1, <1>3, <1>6, <2>1, <2>3 DEF ChunkIsWithin
  <2>5. Between' = Rest(r, s)
    BY <1>6, <2>1, <2>2 DEF Between, Rest, Slots
  <2>6. Chunk' = r .. unchunk_enabled - 1
    BY <1>1, <2>1, <2>2 DEF Chunk
  <2>7. Occupied' = RestSet(r, s)
    BY <1>6, <2>1, <2>6 DEF Occupied, RestSet
  <2>8. Chunk' \subseteq Occupied'
    BY <1>6, <2>6, <2>7 DEF RestSet
  <2>9. ptr' \in [Context -> RingSlot] /\ ptr'[c] = rd'
    BY <1>2, <2>1 DEF TraceTypeOK
  <2> QED BY <1>1, <2>1, <2>3, <2>4, <2>5, <2>7, <2>8, <2>9
<1> QED BY <1>4, <1>5, <1>6

(* A chunk within what is left gives the ring its shape.                    *)
LEMMA CarryingRing ==
  ASSUME unchunk_status' \in {"NONE", "TRANSFER"}, unchunk_status' = "NONE" => rd' <= wr',
         ChunkIsWithin', Carrying'
  PROVE  RingInv'
BY DEF RingInv, Stretches, ChunkIsWithin

(* No context with the lock, no transfer: what a lock count of zero, or of  *)
(* one during a transfer, tells.                                            *)
LEMMA NobodyElse ==
  ASSUME LockInv, TraceLock = IF TransferHolds THEN 1 ELSE 0
  PROVE  /\ Holders = {}
         /\ \A slot : ~BeingFilled(slot)
<1>1. Holders = {}
  <2>1. Cardinality(Holders) = 0
    BY HoldersFinite DEF LockInv
  <2> QED BY <2>1, HoldersFinite, FS_EmptySet
<1> QED BY <1>1 DEF Holders, Holding, BeingFilled

(* TRACE_Send starts a transfer only if nobody holds the lock: then all     *)
(* that is in the ring is stored.                                           *)
LEMMA StartKeepsIInv ==
  ASSUME TraceIInv, NEW w \in Writer, Send(w), TraceLock = 0, rd # wr
  PROVE  TraceIInv'
<1>1. /\ traceAt[w] = "send" /\ TraceLock' = 1 /\ TraceGoto(w, "driver")
      /\ ChooseChunk(w, rd, unchunk_status)
      /\ UNCHANGED <<bytes, transfer>> /\ wr' = wr
  BY DEF Send, StartSending, TraceAt, bytes
<1>2. ~TransferHolds
  BY HoldersFinite DEF TraceIInv, LockInv
<1>3. Holders = {} /\ \A slot : ~BeingFilled(slot)
  BY <1>2, NobodyElse DEF TraceIInv
<1>4. transfer = <<>> /\ ~Carrying /\ \A c \in Context : traceAt[c] # "driver"
  BY <1>2 DEF TransferHolds, Carrying
<1>5. unchunk_status \in {"NONE", "DETECTED"} /\ Stretches(rd, unchunk_status)
  BY <1>4 DEF TraceIInv, RingInv, TraceTypeOK
<1>6. rd \in RingSlot /\ w \in Context
  BY Contexts DEF TraceIInv, TraceTypeOK
<1>7. /\ rd' \in RingSlot /\ unchunk_enabled' \in RingSlot /\ sentSize' \in 0 .. FifoSize
      /\ unchunk_status' \in {"NONE", "TRANSFER"}
      /\ ptr' \in [Context -> RingSlot] /\ ptr'[w] = rd'
      /\ unchunk_status' = "NONE" => rd' <= wr'
      /\ ChunkIsWithin'
      /\ Between' = Rest(rd, unchunk_status) /\ Occupied' = RestSet(rd, unchunk_status)
      /\ Chunk' \subseteq Occupied'
  BY <1>1, <1>5, <1>6, ChunkChosen DEF TraceIInv
<1>8. /\ traceAt'[Uart] = traceAt[Uart] /\ traceAt'[w] = "driver"
      /\ \A c \in Context : c # w => traceAt'[c] = traceAt[c]
  BY <1>1, WriterGoes DEF TraceIInv, TraceTypeOK
<1>9. Carrying' /\ TransferHolds'
  BY <1>6, <1>8 DEF Carrying, TransferHolds
<1>10. LockInv'
  <2>1. Holders' = {}
    BY <1>3, <1>8, Contexts DEF Holders, Holding
  <2> QED BY <1>1, <1>9, <2>1, FS_EmptySet DEF LockInv
<1>11. TraceTypeOK'
  <2>1. TraceLock' \in 0 .. Cardinality(Context)
    BY <1>10, LockBounded
  <2>2. traceAt' \in [Context -> {"idle", "allocate", "fill", "unlock", "giveUp", "send",
                                  "driver"}]
    BY <1>1, Contexts DEF TraceIInv, TraceTypeOK, TraceGoto
  <2> QED BY <1>1, <1>7, <2>1, <2>2 DEF TraceIInv, TraceTypeOK, bytes
<1>12. OneChunk'
  <2>1. traceAt[Uart] # "unlock" /\ traceAt[Uart] = "idle"
    BY <1>2, <1>4, Contexts DEF TransferHolds, TraceIInv, OneChunk
  <2>2. \A c \in Context : traceAt'[c] = "driver" => c = w
    BY <1>4, <1>8
  <2>3. transfer' = <<>>
    BY <1>1, <1>4
  <2> QED BY <1>7, <1>8, <2>1, <2>2, <2>3 DEF OneChunk
<1>13. RingInv'
  BY <1>7, <1>9, CarryingRing
<1>14. BytesInv'
  <2>1. Rest(rd, unchunk_status) = Between
    BY <1>5 DEF Rest, Between
  <2>2. RestSet(rd, unchunk_status) = Occupied
    BY <1>5 DEF RestSet, Occupied
  <2>3. NothingLost'
    BY <1>1, <1>7, <2>1 DEF TraceIInv, BytesInv, NothingLost, bytes
  <2>4. Occupied' \subseteq filled'
    BY <1>1, <1>3, <1>7, <2>2 DEF TraceIInv, BytesInv, bytes
  <2> QED BY <1>7, <2>3, <2>4 DEF BytesInv
<1> QED BY <1>10, <1>11, <1>12, <1>13, <1>14 DEF TraceIInv

(* TRACE_Send starts a transfer or returns.                                 *)
LEMMA SendKeepsIInv ==
  ASSUME TraceIInv, NEW w \in Writer, Send(w)
  PROVE  TraceIInv'
<1>1. CASE TraceLock = 0 /\ rd # wr
  BY <1>1, StartKeepsIInv
<1>2. CASE ~(TraceLock = 0 /\ rd # wr)
  <2>1. /\ traceAt[w] = "send" /\ TraceGoto(w, "idle")
        /\ UNCHANGED <<pointers, bytes, ptr, transfer, TraceLock>>
    BY <1>2 DEF Send, TraceAt
  <2>2. /\ Cardinality(Holders') =
              Cardinality(Holders) + (IF "idle" \in Holding THEN 1 ELSE 0)
                                   - (IF traceAt[w] \in Holding THEN 1 ELSE 0)
        /\ traceAt'[Uart] = traceAt[Uart] /\ traceAt'[w] = "idle"
        /\ \A c \in Context : c # w => traceAt'[c] = traceAt[c]
    BY <2>1, WriterGoes DEF TraceIInv, TraceTypeOK
  <2>3. /\ \A c \in Context : traceAt'[c] = "driver" <=> traceAt[c] = "driver"
        /\ \A v \in Writer : traceAt'[v] = "fill" <=> traceAt[v] = "fill"
    BY <2>1, <2>2, Contexts
  <2>4. OneChunk' /\ RingInv' /\ BytesInv' /\ (TransferHolds' <=> TransferHolds)
    BY <2>1, <2>2, <2>3, SameSections DEF TraceIInv
  <2>5. LockInv'
    <3>1. Cardinality(Holders') = Cardinality(Holders)
      BY <2>1, <2>2, HoldersFinite DEF Holding
    <3> QED BY <2>1, <2>4, <3>1 DEF TraceIInv, LockInv
  <2>6. TraceTypeOK'
    <3>1. TraceLock' \in 0 .. Cardinality(Context)
      BY <2>5, LockBounded
    <3> QED BY <2>1, <3>1, Contexts DEF TraceIInv, TraceTypeOK, TraceGoto, pointers, bytes
  <2> QED BY <2>4, <2>5, <2>6 DEF TraceIInv
<1> QED BY <1>1, <1>2

(* The driver takes the chunk chosen before, whoever ran meanwhile.         *)
LEMMA DriverKeepsIInv ==
  ASSUME TraceIInv, NEW c \in Context, DriverSend(c)
  PROVE  TraceIInv'
<1>1. /\ traceAt[c] = "driver" /\ TraceGoto(c, "idle")
      /\ transfer' = Slots(ptr[c], sentSize) /\ ptr' = [ptr EXCEPT ![c] = 0]
      /\ UNCHANGED <<pointers, bytes, TraceLock>>
  BY DEF DriverSend, TraceAt
<1>2. /\ \A d \in Context : traceAt[d] = "driver" => d = c
      /\ transfer = <<>> /\ traceAt[Uart] # "unlock" /\ ptr[c] = rd
      /\ traceAt[Uart] \in {"idle", "driver"}
  BY <1>1 DEF TraceIInv, OneChunk
<1>3. /\ traceAt'[c] = "idle" /\ \A d \in Context : d # c => traceAt'[d] = traceAt[d]
      /\ traceAt' \in [Context -> {"idle", "allocate", "fill", "unlock", "giveUp", "send",
                                  "driver"}]
  BY <1>1 DEF TraceIInv, TraceTypeOK, TraceGoto
<1>4. \A d \in Context : traceAt'[d] # "driver"
  BY <1>2, <1>3
<1>5. traceAt'[Uart] = "idle"
  BY <1>1, <1>2, <1>3, Contexts
<1>6. Carrying /\ TransferHolds
  BY <1>1 DEF Carrying, TransferHolds
<1>7. /\ transfer' = Slots(rd, sentSize) /\ transfer' \in Seq(RingSlot)
      /\ transfer' # <<>>
  <2>1. /\ FifoSize \in Nat /\ rd \in Nat /\ wr \in Nat /\ wr < FifoSize /\ sentSize \in Nat
        /\ unchunk_enabled \in Nat /\ unchunk_enabled < FifoSize
        /\ unchunk_status \in {"NONE", "DETECTED", "TRANSFER"}
    BY AdvTraceAssumption DEF TraceIInv, TraceTypeOK, RingSlot
  <2>2. sentSize > 0 /\ rd + sentSize <= FifoSize
    BY <1>6, <2>1 DEF TraceIInv, RingInv
  <2>3. Slots(rd, sentSize) \in Seq(RingSlot) /\ Len(Slots(rd, sentSize)) = sentSize
    BY <2>1, <2>2, StretchOfSlots
  <2>4. Slots(rd, sentSize) # <<>>
    BY <2>1, <2>2, <2>3, EmptySeq
  <2> QED BY <1>1, <1>2, <2>3, <2>4
<1>8. Carrying' /\ TransferHolds'
  BY <1>7 DEF Carrying, TransferHolds
<1>9. LockInv'
  <2>1. Holders' = Holders
    BY <1>1, <1>3, Contexts DEF Holders, Holding
  <2> QED BY <1>1, <1>6, <1>8, <2>1 DEF TraceIInv, LockInv
<1>10. TraceTypeOK'
  <2>1. TraceLock' \in 0 .. Cardinality(Context)
    BY <1>9, LockBounded
  <2>2. ptr' \in [Context -> RingSlot]
    BY <1>1, SmallRemainder, AdvTraceAssumption DEF TraceIInv, TraceTypeOK, RingSlot
  <2> QED BY <1>1, <1>3, <1>7, <2>1, <2>2 DEF TraceIInv, TraceTypeOK, pointers, bytes
<1>11. OneChunk'
  BY <1>1, <1>4, <1>5, <1>7 DEF OneChunk, Slots, pointers
<1>12. RingInv'
  BY <1>1, <1>6, <1>8 DEF TraceIInv, RingInv, Stretches, pointers, bytes
<1>13. BytesInv'
  <2>1. NothingLost'
    BY <1>1 DEF TraceIInv, BytesInv, NothingLost, Between, Slots, pointers, bytes
  <2>2. Occupied' = Occupied /\ Chunk' = Chunk /\ filled' = filled
    BY <1>1 DEF Occupied, Chunk, pointers, bytes
  <2>3. \A slot : BeingFilled(slot) => BeingFilled(slot)'
    BY <1>1, <1>3, Contexts DEF BeingFilled, bytes
  <2> QED BY <1>6, <2>1, <2>2, <2>3 DEF TraceIInv, BytesInv
<1> QED BY <1>9, <1>10, <1>11, <1>12, <1>13 DEF TraceIInv

(* The completion interrupt: behind the chunk the ring holds what is left   *)
(* of it.                                                                   *)
LEMMA ChunkDone ==
  ASSUME TraceTypeOK, OneChunk, RingInv, BytesInv, transfer # <<>>
  PROVE  /\ ReadFrom \in RingSlot /\ AfterTransfer \in {"NONE", "DETECTED"}
         /\ Stretches(ReadFrom, AfterTransfer)
         /\ unsent = transfer \o Rest(ReadFrom, AfterTransfer)
         /\ SubSeq(unsent, Len(transfer) + 1, Len(unsent)) = Rest(ReadFrom, AfterTransfer)
         /\ Rest(ReadFrom, AfterTransfer) \in Seq(RingSlot)
         /\ ToSet(transfer) = Chunk
         /\ RestSet(ReadFrom, AfterTransfer) \subseteq Occupied \ Chunk
<1>1. /\ FifoSize \in Nat /\ rd \in Nat /\ rd < FifoSize /\ wr \in Nat /\ wr < FifoSize
      /\ sentSize \in Nat /\ unchunk_enabled \in Nat /\ unchunk_enabled < FifoSize
      /\ unchunk_status \in {"NONE", "DETECTED", "TRANSFER"}
  BY AdvTraceAssumption DEF TraceTypeOK, RingSlot
<1>2. /\ sentSize > 0
      /\ unchunk_status = "NONE" => rd + sentSize <= wr
      /\ unchunk_status = "DETECTED" => rd + sentSize <= unchunk_enabled /\ 0 < wr /\ wr < rd
      /\ unchunk_status = "TRANSFER" => rd + sentSize < FifoSize /\ 0 < wr /\ wr < rd
  BY DEF RingInv, Carrying, Stretches
<1>3. rd + sentSize \in Nat /\ rd + sentSize < FifoSize
  BY <1>1, <1>2
<1>4. /\ transfer = Slots(rd, sentSize) /\ transfer \in Seq(RingSlot)
      /\ ToSet(transfer) = Chunk
  BY <1>1, <1>3, StretchOfSlots, SetOfSlots DEF OneChunk, Chunk
<1>5. \A r \in Nat, n \in Int : r + n <= FifoSize => Slots(r, n) \in Seq(RingSlot)
  BY StretchOfSlots
<1>6. unsent = Between
  BY DEF BytesInv, NothingLost
<1>7. CASE unchunk_status = "TRANSFER"
  <2>1. ReadFrom = 0 /\ AfterTransfer = "NONE" /\ wr - 0 = wr
    BY <1>1, <1>7 DEF ReadFrom, AfterTransfer
  <2>2. Rest(ReadFrom, AfterTransfer) = Slots(0, wr) /\ Slots(0, wr) \in Seq(RingSlot)
    BY <1>1, <1>5, <2>1 DEF Rest
  <2>3. unsent = transfer \o Slots(0, wr)
    BY <1>4, <1>6, <1>7 DEF Between
  <2>4. SubSeq(unsent, Len(transfer) + 1, Len(unsent)) = Slots(0, wr)
    BY <1>4, <2>2, <2>3, DropPrefix
  <2>5. RestSet(ReadFrom, AfterTransfer) = 0 .. wr - 1
    BY <2>1 DEF RestSet
  <2>6. RestSet(ReadFrom, AfterTransfer) \subseteq Occupied \ Chunk
    BY <1>1, <1>2, <1>7, <2>5 DEF Occupied, Chunk
  <2>7. ReadFrom \in RingSlot /\ Stretches(ReadFrom, AfterTransfer)
    BY <1>1, <2>1 DEF RingSlot, Stretches
  <2> QED BY <1>4, <2>1, <2>2, <2>3, <2>4, <2>6, <2>7
<1>8. CASE unchunk_status # "TRANSFER"
  <2>1. ReadFrom = (rd + sentSize) % FifoSize /\ AfterTransfer = unchunk_status
    BY <1>8 DEF ReadFrom, AfterTransfer
  <2>2. ReadFrom = rd + sentSize /\ ReadFrom \in RingSlot
    BY <1>3, <2>1, SmallRemainder
  <2>3. PICK end \in Nat :
          /\ end < FifoSize /\ rd + sentSize <= end
          /\ end = IF unchunk_status = "NONE" THEN wr ELSE unchunk_enabled
    BY <1>1, <1>2, <1>8
  <2>4. Slots(rd, end - rd) = transfer \o Slots(ReadFrom, end - ReadFrom)
    <3>1. PICK n \in Nat : n = end - rd
      BY <1>1, <2>3
    <3>2. PICK k \in Nat : k = end - ReadFrom
      BY <1>1, <1>3, <2>2, <2>3
    <3>3. PICK b \in Nat : b = ReadFrom
      BY <1>3, <2>2
    <3>4. /\ 0 <= rd /\ 0 <= sentSize /\ 0 <= k /\ b <= rd + sentSize /\ rd + sentSize <= b
          /\ n <= sentSize + k /\ sentSize + k <= n /\ rd + n <= FifoSize
      BY <1>1, <1>3, <2>2, <2>3, <3>1, <3>2, <3>3
    <3>5. rd \in Int /\ sentSize \in Int /\ k \in Int /\ b \in Int /\ n \in Int
      BY <1>1
    <3>6. Slots(rd, n) = Slots(rd, sentSize) \o Slots(b, k)
      BY <3>4, <3>5, SplitSlots
    <3> QED BY <1>4, <3>1, <3>2, <3>3, <3>6
  <2>5. Slots(ReadFrom, end - ReadFrom) \in Seq(RingSlot)
    <3>1. end - ReadFrom \in Int /\ ReadFrom + (end - ReadFrom) <= FifoSize /\ ReadFrom \in Nat
      BY <1>1, <1>3, <2>2, <2>3
    <3> QED BY <1>5, <3>1
  <2>6. /\ unsent = transfer \o Rest(ReadFrom, AfterTransfer)
        /\ Rest(ReadFrom, AfterTransfer) \in Seq(RingSlot)
    <3>1. CASE unchunk_status = "NONE"
      <4>1. unsent = Slots(rd, end - rd)
        BY <1>6, <2>3, <3>1 DEF Between
      <4>2. Rest(ReadFrom, AfterTransfer) = Slots(ReadFrom, end - ReadFrom)
        BY <2>1, <2>3, <3>1 DEF Rest
      <4> QED BY <2>4, <2>5, <4>1, <4>2
    <3>2. CASE unchunk_status = "DETECTED"
      <4>1. unsent = Slots(rd, end - rd) \o Slots(0, wr)
        BY <1>6, <2>3, <3>2 DEF Between
      <4>2. Rest(ReadFrom, AfterTransfer) = Slots(ReadFrom, end - ReadFrom) \o Slots(0, wr)
        BY <2>1, <2>3, <3>2 DEF Rest
      <4>3. Slots(0, wr) \in Seq(RingSlot)
        BY <1>1, <1>5
      <4>4. Slots(ReadFrom, end - ReadFrom) \o Slots(0, wr) \in Seq(RingSlot)
        BY <2>5, <4>3, ConcatProperties
      <4>5. (transfer \o Slots(ReadFrom, end - ReadFrom)) \o Slots(0, wr)
              = transfer \o (Slots(ReadFrom, end - ReadFrom) \o Slots(0, wr))
        BY <1>4, <2>5, <4>3, ConcatAssociative
      <4> QED BY <2>4, <4>1, <4>2, <4>4, <4>5
    <3> QED BY <1>1, <1>8, <3>1, <3>2
  <2>7. SubSeq(unsent, Len(transfer) + 1, Len(unsent)) = Rest(ReadFrom, AfterTransfer)
    BY <1>4, <2>6, DropPrefix
  <2>8. RestSet(ReadFrom, AfterTransfer) \subseteq Occupied \ Chunk
    BY <1>1, <1>2, <1>8, <2>1, <2>2 DEF RestSet, Occupied, Chunk
  <2>9. Stretches(ReadFrom, AfterTransfer)
    BY <1>1, <1>2, <1>8, <2>1, <2>2 DEF Stretches
  <2>10. AfterTransfer \in {"NONE", "DETECTED"}
    BY <1>1, <1>8, <2>1
  <2> QED BY <1>4, <2>2, <2>6, <2>7, <2>8, <2>9, <2>10
<1> QED BY <1>7, <1>8

(* The completion interrupt goes on with the next chunk, or stops.          *)
LEMMA TxCpltKeepsIInv ==
  ASSUME TraceIInv, TxCplt
  PROVE  TraceIInv'
<1>1. /\ traceAt[Uart] = "idle" /\ transfer # <<>> /\ transfer' = <<>>
      /\ unsent' = SubSeq(unsent, Len(transfer) + 1, Len(unsent))
      /\ filled' = filled \ ToSet(transfer)
      /\ UNCHANGED <<wr, mine, TraceLock>>
      /\ \/ /\ Continues /\ TraceGoto(Uart, "driver")
            /\ ChooseChunk(Uart, ReadFrom, AfterTransfer)
         \/ /\ ~Continues /\ TraceGoto(Uart, "unlock")
            /\ rd' = ReadFrom /\ unchunk_status' = AfterTransfer
            /\ UNCHANGED <<sentSize, unchunk_enabled, ptr>>
  BY DEF TxCplt, TraceAt
<1>2. /\ ReadFrom \in RingSlot /\ AfterTransfer \in {"NONE", "DETECTED"}
      /\ Stretches(ReadFrom, AfterTransfer)
      /\ unsent' = Rest(ReadFrom, AfterTransfer)
      /\ unsent' \in Seq(RingSlot)
      /\ ToSet(transfer) = Chunk
      /\ RestSet(ReadFrom, AfterTransfer) \subseteq Occupied \ Chunk
  BY <1>1, ChunkDone DEF TraceIInv
<1>3. \A c \in Context : traceAt[c] # "driver"
  BY <1>1 DEF TraceIInv, OneChunk
<1>4. /\ \A c \in Context : c # Uart => traceAt'[c] = traceAt[c]
      /\ traceAt'[Uart] = IF Continues THEN "driver" ELSE "unlock"
      /\ traceAt' \in [Context -> {"idle", "allocate", "fill", "unlock", "giveUp", "send",
                                  "driver"}]
  BY <1>1, Contexts DEF TraceIInv, TraceTypeOK, TraceGoto
<1>5. TransferHolds /\ TransferHolds'
  BY <1>1, <1>4, Contexts DEF TransferHolds
<1>6. LockInv'
  <2>1. Holders' = Holders
    BY <1>4, Contexts DEF Holders
  <2> QED BY <1>1, <1>5, <2>1 DEF TraceIInv, LockInv
<1>7. TraceLock' \in 0 .. Cardinality(Context)
  BY <1>6, LockBounded
<1>8. \A slot \in RestSet(ReadFrom, AfterTransfer) : slot \in filled' \/ BeingFilled(slot)'
  <2>1. \A slot : BeingFilled(slot) => BeingFilled(slot)'
    BY <1>1, <1>4, Contexts DEF BeingFilled
  <2> QED BY <1>1, <1>2, <2>1 DEF TraceIInv, BytesInv
<1>9. CASE Continues
  <2>1. /\ ReadFrom # wr /\ TraceLock = 1 /\ wr' = wr
        /\ ChooseChunk(Uart, ReadFrom, AfterTransfer)
    BY <1>1, <1>9 DEF Continues
  <2>2. /\ rd' \in RingSlot /\ unchunk_enabled' \in RingSlot /\ sentSize' \in 0 .. FifoSize
        /\ unchunk_status' \in {"NONE", "TRANSFER"}
        /\ ptr' \in [Context -> RingSlot] /\ ptr'[Uart] = rd'
        /\ unchunk_status' = "NONE" => rd' <= wr'
        /\ ChunkIsWithin'
        /\ Between' = Rest(ReadFrom, AfterTransfer)
        /\ Occupied' = RestSet(ReadFrom, AfterTransfer)
        /\ Chunk' \subseteq Occupied'
    BY <1>2, <2>1, Contexts, ChunkChosen DEF TraceIInv
  <2>3. Carrying'
    BY <1>4, <1>9, Contexts DEF Carrying
  <2>4. \A slot : ~BeingFilled(slot)'
    <3>1. Holders = {}
      BY <1>5, <2>1, NobodyElse DEF TraceIInv
    <3> QED BY <1>4, <3>1, Contexts DEF Holders, Holding, BeingFilled
  <2>5. TraceTypeOK'
    BY <1>1, <1>2, <1>4, <1>7, <2>2, EmptySeq DEF TraceIInv, TraceTypeOK
  <2>6. OneChunk'
    BY <1>1, <1>3, <1>4, <1>9, <2>2 DEF OneChunk
  <2>7. RingInv'
    BY <2>2, <2>3, CarryingRing
  <2>8. BytesInv'
    <3>1. NothingLost'
      BY <1>2, <2>2 DEF NothingLost
    <3> QED BY <1>8, <2>2, <2>4, <3>1 DEF BytesInv
  <2> QED BY <1>6, <2>5, <2>6, <2>7, <2>8 DEF TraceIInv
<1>10. CASE ~Continues
  <2>1. /\ rd' = ReadFrom /\ unchunk_status' = AfterTransfer
        /\ UNCHANGED <<sentSize, unchunk_enabled, ptr>>
    BY <1>1, <1>10
  <2>2. ~Carrying'
    BY <1>1, <1>3, <1>4, <1>10 DEF Carrying
  <2>3. TraceTypeOK'
    BY <1>1, <1>2, <1>4, <1>7, <2>1, EmptySeq DEF TraceIInv, TraceTypeOK
  <2>4. OneChunk'
    BY <1>1, <1>3, <1>4, <1>10 DEF OneChunk
  <2>5. RingInv'
    BY <1>1, <1>2, <2>1, <2>2 DEF RingInv, Stretches
  <2>6. Between' = Rest(ReadFrom, AfterTransfer)
    BY <1>1, <1>2, <2>1 DEF Between, Rest, Slots
  <2>7. Occupied' = RestSet(ReadFrom, AfterTransfer)
    BY <1>1, <1>2, <2>1 DEF Occupied, RestSet
  <2>8. BytesInv'
    BY <1>2, <1>8, <2>2, <2>6, <2>7 DEF BytesInv, NothingLost
  <2> QED BY <1>6, <2>3, <2>4, <2>5, <2>8 DEF TraceIInv
<1> QED BY <1>9, <1>10

(* The completion interrupt gives the lock back.                            *)
LEMMA TxCpltUnLockKeepsIInv ==
  ASSUME TraceIInv, TxCpltUnLock
  PROVE  TraceIInv'
<1>1. /\ traceAt[Uart] = "unlock" /\ TraceLock' = TraceLock - 1 /\ TraceGoto(Uart, "idle")
      /\ UNCHANGED <<pointers, bytes, ptr, transfer>>
  BY DEF TxCpltUnLock, TraceAt
<1>2. /\ transfer = <<>> /\ \A c \in Context : traceAt[c] # "driver"
  BY <1>1 DEF TraceIInv, OneChunk
<1>3. /\ \A c \in Context : c # Uart => traceAt'[c] = traceAt[c]
      /\ traceAt'[Uart] = "idle"
      /\ traceAt' \in [Context -> {"idle", "allocate", "fill", "unlock", "giveUp", "send",
                                  "driver"}]
  BY <1>1, Contexts DEF TraceIInv, TraceTypeOK, TraceGoto
<1>4. \A c \in Context : traceAt'[c] # "driver"
  BY <1>2, <1>3
<1>5. TransferHolds /\ ~TransferHolds' /\ (Carrying' <=> Carrying)
  BY <1>1, <1>2, <1>3, <1>4 DEF TransferHolds, Carrying
<1>6. LockInv'
  <2>1. Holders' = Holders
    BY <1>3, Contexts DEF Holders
  <2>2. TraceLock' = Cardinality(Holders)
    BY <1>1, <1>5, HoldersFinite DEF TraceIInv, LockInv
  <2> QED BY <1>5, <2>1, <2>2, HoldersFinite DEF LockInv
<1>7. TraceTypeOK'
  <2>1. TraceLock' \in 0 .. Cardinality(Context)
    BY <1>6, LockBounded
  <2> QED BY <1>1, <1>3, <2>1 DEF TraceIInv, TraceTypeOK, pointers, bytes
<1>8. OneChunk'
  BY <1>1, <1>2, <1>3, <1>4 DEF OneChunk
<1>9. RingInv'
  BY <1>1, <1>5 DEF TraceIInv, RingInv, Stretches, pointers, bytes
<1>10. BytesInv'
  <2>1. NothingLost'
    BY <1>1 DEF TraceIInv, BytesInv, NothingLost, Between, Slots, pointers, bytes
  <2>2. Occupied' = Occupied /\ Chunk' = Chunk /\ filled' = filled
    BY <1>1 DEF Occupied, Chunk, pointers, bytes
  <2>3. \A slot : BeingFilled(slot) => BeingFilled(slot)'
    BY <1>1, <1>3, Contexts DEF BeingFilled, bytes
  <2> QED BY <1>5, <2>1, <2>2, <2>3 DEF TraceIInv, BytesInv
<1> QED BY <1>6, <1>7, <1>8, <1>9, <1>10 DEF TraceIInv

-----------------------------------------------------------------------------
(***************************************************************************)
(* The theorem.                                                            *)
(***************************************************************************)

(* The empty ring.                                                          *)
LEMMA InitTraceIInv == TraceInit => TraceIInv
<1> SUFFICES ASSUME TraceInit PROVE TraceIInv
  OBVIOUS
<1>1. /\ 0 \in RingSlot /\ 0 \in 0 .. FifoSize /\ Cardinality(Context) \in Nat
      /\ \A c \in Context : traceAt[c] = "idle"
  BY AdvTraceAssumption, Contexts DEF RingSlot, TraceInit
<1>2. TraceTypeOK
  BY <1>1, EmptySeq DEF TraceInit, TraceTypeOK
<1>3. ~TransferHolds /\ ~Carrying
  BY <1>1, Contexts DEF TraceInit, TransferHolds, Carrying
<1>4. LockInv
  <2>1. Holders = {}
    BY <1>1, Contexts DEF Holders, Holding
  <2> QED BY <1>3, <2>1, FS_EmptySet DEF TraceInit, LockInv
<1>5. OneChunk
  BY <1>1, Contexts DEF TraceInit, OneChunk
<1>6. RingInv
  BY <1>3 DEF TraceInit, RingInv, Stretches
<1>7. BytesInv
  <2>1. Between = <<>> /\ Occupied = {}
    BY NoSlots DEF TraceInit, Between, Occupied
  <2> QED BY <1>3, <2>1 DEF TraceInit, BytesInv, NothingLost
<1> QED BY <1>2, <1>4, <1>5, <1>6, <1>7 DEF TraceIInv

(* The invariant is inductive.                                              *)
LEMMA NextKeepsIInv == TraceIInv /\ [TraceNext]_traceVars => TraceIInv'
<1> SUFFICES ASSUME TraceIInv, [TraceNext]_traceVars PROVE TraceIInv'
  OBVIOUS
<1>1. ASSUME NEW w \in Writer, Write(w) PROVE TraceIInv'
  BY <1>1, LockKeepsIInv, FillKeepsIInv, AllocateKeepsIInv, SendKeepsIInv DEF Write
<1>2. ASSUME NEW c \in Context, DriverSend(c) PROVE TraceIInv'
  BY <1>2, DriverKeepsIInv
<1>3. CASE TxCplt
  BY <1>3, TxCpltKeepsIInv
<1>4. CASE TxCpltUnLock
  BY <1>4, TxCpltUnLockKeepsIInv
<1>5. CASE UNCHANGED traceVars
  <2>1. /\ UNCHANGED <<rd, wr, sentSize, TraceLock, unchunk_status, unchunk_enabled, traceAt>>
        /\ UNCHANGED <<mine, ptr, transfer, unsent, filled>>
    BY <1>5 DEF traceVars
  <2>2. TraceTypeOK'
    BY <2>1 DEF TraceIInv, TraceTypeOK
  <2>3. LockInv'
    BY <2>1 DEF TraceIInv, LockInv, Holders, TransferHolds
  <2>4. OneChunk' /\ RingInv' /\ BytesInv'
    BY <2>1, SameSections DEF TraceIInv, pointers, bytes
  <2> QED BY <2>2, <2>3, <2>4 DEF TraceIInv
<1> QED BY <1>1, <1>2, <1>3, <1>4, <1>5 DEF TraceNext

(* The invariant gives the four properties: the transfer is a prefix of     *)
(* what the ring holds because the chunk is within it.                      *)
LEMMA RingIsWhole == TraceIInv => TraceIsWhole
<1> SUFFICES ASSUME TraceIInv PROVE TraceIsWhole
  OBVIOUS
<1>1. LockCountsHolders
  BY DEF TraceIInv, LockInv, Holders, Holding, LockCountsHolders
<1>2. OneTransferAtATime
  <2>1. \A c, d \in Context : traceAt[c] = "driver" /\ traceAt[d] = "driver" => c = d
    BY DEF TraceIInv, OneChunk
  <2>2. Cardinality({c \in Context : traceAt[c] = "driver"}) <= 1
    <3>1. CASE \E c \in Context : traceAt[c] = "driver"
      <4>1. PICK c \in Context : traceAt[c] = "driver"
        BY <3>1
      <4>2. {d \in Context : traceAt[d] = "driver"} = {c}
        BY <2>1, <4>1
      <4> QED BY <4>2, FS_Singleton
    <3>2. CASE ~ \E c \in Context : traceAt[c] = "driver"
      <4>1. {c \in Context : traceAt[c] = "driver"} = {}
        BY <3>2
      <4> QED BY <4>1, FS_EmptySet
    <3> QED BY <3>1, <3>2
  <2>3. \A c \in Context : traceAt[c] = "driver" => transfer = <<>> /\ sentSize > 0
    BY DEF TraceIInv, OneChunk, RingInv, Carrying
  <2> QED BY <2>2, <2>3 DEF OneTransferAtATime
<1>3. SendsOldestBytes
  <2>1. unsent \in Seq(RingSlot)
    BY DEF TraceIInv, TraceTypeOK
  <2>2. CASE transfer = <<>>
    <3>1. <<>> \o unsent = unsent /\ <<>> \in Seq(RingSlot)
      BY <2>1, ConcatEmptySeq, EmptySeq
    <3>2. IsPrefix(<<>>, <<>> \o unsent)
      BY <2>1, <3>1, PrefixOfConcat
    <3>3. ToSet(<<>>) = {}
      BY DEF ToSet
    <3> QED BY <2>2, <3>1, <3>2, <3>3 DEF SendsOldestBytes
  <2>3. CASE transfer # <<>>
    <3>1. ToSet(transfer) \subseteq filled
      BY <2>3, ChunkDone DEF TraceIInv, BytesInv, Carrying
    <3>2. \E rest \in Seq(RingSlot) : unsent = transfer \o rest
      BY <2>3, ChunkDone DEF TraceIInv
    <3>3. transfer \in Seq(RingSlot)
      BY DEF TraceIInv, TraceTypeOK
    <3>4. IsPrefix(transfer, unsent)
      BY <3>2, <3>3, PrefixOfConcat
    <3> QED BY <3>1, <3>4 DEF SendsOldestBytes
  <2> QED BY <2>2, <2>3
<1>4. NothingLost
  BY DEF TraceIInv, BytesInv
<1> QED BY <1>1, <1>2, <1>3, <1>4 DEF TraceIsWhole

(* However writers, transfers and completion interrupts of                  *)
(* stm32_adv_trace.c interrupt each other, the lock counts those who hold   *)
(* the ring, one transfer at a time sends the oldest bytes, all stored, and *)
(* the ring between the pointers is what was logged and not sent.           *)
THEOREM TraceStaysWhole == TraceSpec => []TraceIsWhole
<1>1. TraceSpec => []TraceIInv
  BY InitTraceIInv, NextKeepsIInv, PTL DEF TraceSpec
<1> QED BY <1>1, RingIsWhole, PTL
-----------------------------------------------------------------------------
(* Sums of functions over finite sets.  The library defines them by a       *)
(* recursion that takes off one element after the other; a smallest set on  *)
(* which it fails cannot exist.                                             *)

Picked(S) == CHOOSE x \in S : TRUE
SumsUp(f, it, S) ==
  it = [s \in SUBSET S |-> IF s = {} THEN 0 ELSE f[Picked(s)] + it[s \ {Picked(s)}]]
Partial(f, S) == CHOOSE it : SumsUp(f, it, S)

(* A property that fails on a finite set fails on a smallest subset of it.  *)
LEMMA HasSmallest ==
  ASSUME NEW S, IsFiniteSet(S), NEW T, T \subseteq SUBSET S, T # {}
  PROVE  \E U \in T : \A V \in SUBSET U : V # U => V \notin T
<1> DEFINE R == StrictSubsetOrdering(S)
<1>1. IsWellFoundedOn(R, SUBSET S)
  BY FS_StrictSubsetOrderingWellFounded, FS_FiniteSubsetsOfFinite
<1>2. PICK U \in T : \A V \in T : ~(<<V, U>> \in R)
  <2> HIDE DEF R
  <2> QED
    BY <1>1, WFMin
<1> SUFFICES ASSUME NEW V \in SUBSET U, V # U, V \in T PROVE FALSE
  BY <1>2
<1>3. U \in SUBSET S /\ V \in SUBSET S
  OBVIOUS
<1>4. <<V, U>> \in R
  BY <1>3 DEF StrictSubsetOrdering
<1> QED
  BY <1>2, <1>4

(* The sum is that of the library.                                          *)
LEMMA SumIsPartial == \A f, S : SumFunctionOnSet(f, S) = Partial(f, S)[S]
  BY DEF SumFunctionOnSet, FoldFunctionOnSet, MapThenFoldSet, Partial, SumsUp, Picked

(* The recursion defines its function.                                      *)
LEMMA SumRecursion ==
  ASSUME NEW f, NEW S, IsFiniteSet(S)
  PROVE  /\ SumsUp(f, Partial(f, S), S)
         /\ \A s \in SUBSET S : Partial(f, S)[s] = SumFunctionOnSet(f, s)
<1> DEFINE Sum(s) == SumFunctionOnSet(f, s)
           Fine(U) == SumsUp(f, Partial(f, U), U) /\ \A s \in SUBSET U : Partial(f, U)[s] = Sum(s)
           T == {U \in SUBSET S : ~Fine(U)}
<1>1. SUFFICES ASSUME T # {} PROVE FALSE
  OBVIOUS
<1>2. PICK U \in SUBSET S : ~Fine(U) /\ \A V \in SUBSET U : V # U => Fine(V)
  <2>1. PICK U \in T : \A V \in SUBSET U : V # U => V \notin T
    <3> HIDE DEF T
    <3>1. T \subseteq SUBSET S
      BY DEF T
    <3> QED
      BY <1>1, <3>1, HasSmallest
  <2> QED
    BY <2>1
<1> HIDE DEF T
<1>3. \A s \in SUBSET U :
        s # {} => Picked(s) \in s /\ s \ {Picked(s)} \in SUBSET U /\ s \ {Picked(s)} # U
  BY DEF Picked
<1> DEFINE g == [s \in SUBSET U |-> IF s = {} THEN 0 ELSE f[Picked(s)] + Sum(s \ {Picked(s)})]
<1>4. ASSUME NEW s \in SUBSET U, s # U PROVE g[s] = Sum(s)
  <2>1. SumsUp(f, Partial(f, s), s) /\ \A r \in SUBSET s : Partial(f, s)[r] = Sum(r)
    BY <1>2, <1>4
  <2>2. Partial(f, s)[s] = IF s = {} THEN 0 ELSE f[Picked(s)] + Partial(f, s)[s \ {Picked(s)}]
    <3>1. s \in SUBSET s
      OBVIOUS
    <3> QED
      BY <2>1, <3>1 DEF SumsUp
  <2>3. Partial(f, s)[s] = Sum(s) /\ Partial(f, s)[s \ {Picked(s)}] = Sum(s \ {Picked(s)})
    BY <2>1
  <2> HIDE DEF Sum
  <2> QED
    BY <2>2, <2>3
<1>5. SumsUp(f, g, U)
  <2>1. \A s \in SUBSET U : s # {} => g[s \ {Picked(s)}] = Sum(s \ {Picked(s)})
    BY <1>3, <1>4
  <2> HIDE DEF Sum
  <2> QED
    BY <2>1 DEF SumsUp
<1>6. SumsUp(f, Partial(f, U), U)
  BY <1>5 DEF Partial
<1> DEFINE it == Partial(f, U)
           D == {s \in SUBSET U : it[s] # g[s]}
<1>7. \A s \in SUBSET U : it[s] = IF s = {} THEN 0 ELSE f[Picked(s)] + it[s \ {Picked(s)}]
  BY <1>6 DEF SumsUp
<1>8. \A s \in SUBSET U : g[s] = IF s = {} THEN 0 ELSE f[Picked(s)] + g[s \ {Picked(s)}]
  <2> HIDE DEF g
  <2> QED
    BY <1>5 DEF SumsUp
<1>9. D = {}
  <2>1. SUFFICES ASSUME D # {} PROVE FALSE
    OBVIOUS
  <2>2. IsFiniteSet(U)
    BY FS_Subset
  <2> HIDE DEF it, g
  <2>3. D \subseteq SUBSET U
    OBVIOUS
  <2>4. PICK s \in D : \A r \in SUBSET s : r # s => r \notin D
    <3> HIDE DEF D
    <3> QED
      BY <2>1, <2>2, <2>3, HasSmallest
  <2>5. s \in SUBSET U /\ it[s] # g[s]
    BY <2>4
  <2>6. s # {} /\ Picked(s) \in s
    BY <1>3, <1>7, <1>8, <2>5
  <2>7. s \ {Picked(s)} \in SUBSET s /\ s \ {Picked(s)} # s /\ s \ {Picked(s)} \in SUBSET U
    BY <2>5, <2>6
  <2>8. it[s \ {Picked(s)}] = g[s \ {Picked(s)}]
    BY <2>4, <2>7
  <2> QED
    BY <1>7, <1>8, <2>5, <2>6, <2>8
<1>10. \A s \in SUBSET U : it[s] = Sum(s)
  <2>1. it[U] = Sum(U)
    BY SumIsPartial
  <2>2. \A s \in SUBSET U : it[s] = g[s]
    BY <1>9
  <2> HIDE DEF it, g, Sum
  <2> QED
    BY <1>4, <2>1, <2>2
<1> QED
  BY <1>2, <1>6, <1>10

(* Adding up takes off one element after the other.                         *)
LEMMA SumTakesOff ==
  ASSUME NEW f, NEW S, IsFiniteSet(S)
  PROVE  SumFunctionOnSet(f, S) =
           IF S = {} THEN 0
           ELSE f[Picked(S)] + SumFunctionOnSet(f, S \ {Picked(S)})
<1>1. /\ SumsUp(f, Partial(f, S), S)
      /\ \A s \in SUBSET S : Partial(f, S)[s] = SumFunctionOnSet(f, s)
  BY SumRecursion
<1>2. S \in SUBSET S /\ S \ {Picked(S)} \in SUBSET S
  OBVIOUS
<1>3. Partial(f, S)[S] = IF S = {} THEN 0 ELSE f[Picked(S)] + Partial(f, S)[S \ {Picked(S)}]
  BY <1>1, <1>2 DEF SumsUp
<1> QED
  BY <1>1, <1>2, <1>3

(* Any element may be taken off first.                                      *)
LEMMA SumWithout ==
  ASSUME NEW S, IsFiniteSet(S), NEW f, \A x \in S : f[x] \in Int
  PROVE  /\ SumFunctionOnSet(f, S) \in Int
         /\ \A x \in S : SumFunctionOnSet(f, S) = f[x] + SumFunctionOnSet(f, S \ {x})
<1> DEFINE Sum(s) == SumFunctionOnSet(f, s)
           Fine(U) == Sum(U) \in Int /\ \A x \in U : Sum(U) = f[x] + Sum(U \ {x})
           T == {U \in SUBSET S : ~Fine(U)}
<1>1. SUFFICES ASSUME T # {} PROVE FALSE
  OBVIOUS
<1>2. PICK U \in SUBSET S : ~Fine(U) /\ \A V \in SUBSET U : V # U => Fine(V)
  <2>1. PICK U \in T : \A V \in SUBSET U : V # U => V \notin T
    <3> HIDE DEF T
    <3>1. T \subseteq SUBSET S
      BY DEF T
    <3> QED
      BY <1>1, <3>1, HasSmallest
  <2> HIDE DEF Fine
  <2> QED
    BY <2>1
<1> HIDE DEF T
<1>3. \A V \in SUBSET S : Sum(V) = IF V = {} THEN 0 ELSE f[Picked(V)] + Sum(V \ {Picked(V)})
  BY SumTakesOff, FS_Subset
<1>4. U # {} /\ Picked(U) \in U
  <2>1. CASE U = {}
    <3>1. Sum(U) = 0
      BY <1>3, <2>1
    <3> HIDE DEF Sum
    <3> QED
      BY <1>2, <2>1, <3>1
  <2> QED
    BY <2>1 DEF Picked
<1> DEFINE p == Picked(U)
<1>5. Sum(U) = f[p] + Sum(U \ {p}) /\ f[p] \in Int /\ Sum(U \ {p}) \in Int
  <2>1. U \ {p} \in SUBSET U /\ U \ {p} # U
    BY <1>4
  <2> QED
    BY <1>2, <1>3, <1>4, <2>1
<1> HIDE DEF p
<1>6. ASSUME NEW x \in U PROVE Sum(U) = f[x] + Sum(U \ {x})
  <2>1. CASE x = p
    BY <1>5, <2>1
  <2>2. CASE x # p
    <3>1. p \in U /\ x \in U \ {p} /\ p \in U \ {x}
      BY <1>4, <2>2 DEF p
    <3>2. U \ {p} \in SUBSET U /\ U \ {p} # U /\ U \ {x} \in SUBSET U /\ U \ {x} # U
      BY <3>1
    <3>3. Sum(U \ {p}) = f[x] + Sum((U \ {p}) \ {x}) /\ Sum(U \ {x}) = f[p] + Sum((U \ {x}) \ {p})
      BY <1>2, <3>1, <3>2
    <3>4. (U \ {p}) \ {x} = (U \ {x}) \ {p}
      OBVIOUS
    <3>5. Sum((U \ {x}) \ {p}) \in Int
      <4>1. (U \ {x}) \ {p} \in SUBSET U /\ (U \ {x}) \ {p} # U
        BY <3>1
      <4> QED
        BY <1>2, <4>1
    <3>6. f[x] \in Int
      OBVIOUS
    <3> DEFINE rest == Sum((U \ {x}) \ {p})
    <3>7. /\ Sum(U) = f[p] + Sum(U \ {p}) /\ Sum(U \ {p}) = f[x] + rest
          /\ Sum(U \ {x}) = f[p] + rest /\ rest \in Int /\ f[x] \in Int /\ f[p] \in Int
      <4> HIDE DEF Sum
      <4> QED
        BY <1>5, <3>3, <3>4, <3>5, <3>6
    <3> HIDE DEF Sum, rest
    <3> QED
      BY <3>7
  <2> QED
    BY <2>1, <2>2
<1> QED
  <2>1. Sum(U) \in Int
    BY <1>5
  <2> QED
    BY <1>2, <1>6, <2>1

(* Functions that agree on a set have the same sum, and one that is nowhere *)
(* less has no lesser one.                                                  *)
LEMMA SumCompares ==
  ASSUME NEW S, IsFiniteSet(S), NEW f, NEW g,
         \A x \in S : f[x] \in Int /\ g[x] \in Int
  PROVE  /\ (\A x \in S : f[x] = g[x]) => SumFunctionOnSet(f, S) = SumFunctionOnSet(g, S)
         /\ (\A x \in S : f[x] <= g[x]) => SumFunctionOnSet(f, S) <= SumFunctionOnSet(g, S)
         /\ (\A x \in S : f[x] >= 0) => SumFunctionOnSet(f, S) >= 0
<1> DEFINE F(s) == SumFunctionOnSet(f, s)
           G(s) == SumFunctionOnSet(g, s)
           Fine(U) == /\ (\A x \in U : f[x] = g[x]) => F(U) = G(U)
                      /\ (\A x \in U : f[x] <= g[x]) => F(U) <= G(U)
                      /\ (\A x \in U : f[x] >= 0) => F(U) >= 0
           T == {U \in SUBSET S : ~Fine(U)}
<1>1. SUFFICES ASSUME T # {} PROVE FALSE
  OBVIOUS
<1>2. PICK U \in SUBSET S : ~Fine(U) /\ \A V \in SUBSET U : V # U => Fine(V)
  <2>1. PICK U \in T : \A V \in SUBSET U : V # U => V \notin T
    <3> HIDE DEF T
    <3>1. T \subseteq SUBSET S
      BY DEF T
    <3> QED
      BY <1>1, <3>1, HasSmallest
  <2> QED
    BY <2>1
<1> HIDE DEF T
<1>3. IsFiniteSet(U)
  BY FS_Subset
<1>4. CASE U = {}
  <2>1. F({}) = 0 /\ G({}) = 0
    BY <1>3, <1>4, SumTakesOff
  <2> HIDE DEF F, G
  <2> QED
    BY <1>2, <1>4, <2>1
<1>5. CASE U # {}
  <2>1. PICK x \in U : TRUE
    BY <1>5
  <2>2. F(U) = f[x] + F(U \ {x}) /\ G(U) = g[x] + G(U \ {x})
    BY <1>3, SumWithout
  <2>3. IsFiniteSet(U \ {x})
    BY <1>3, FS_RemoveElement
  <2>4. F(U \ {x}) \in Int /\ G(U \ {x}) \in Int
    BY <2>3, SumWithout
  <2>5. Fine(U \ {x})
    <3>1. U \ {x} \in SUBSET U /\ U \ {x} # U
      OBVIOUS
    <3> QED
      BY <1>2, <3>1
  <2>6. f[x] \in Int /\ g[x] \in Int
    OBVIOUS
  <2> HIDE DEF F, G
  <2> QED
    BY <1>2, <2>2, <2>4, <2>5, <2>6
<1> QED
  BY <1>4, <1>5

(* What a function over a finite domain adds up to.                         *)
LEMMA SumIsInt ==
  ASSUME NEW D, IsFiniteSet(D), NEW f \in [D -> Int]
  PROVE  /\ SumFunction(f) \in Int
         /\ f \in [D -> Nat] => SumFunction(f) \in Nat
<1>1. DOMAIN f = D /\ SumFunction(f) = SumFunctionOnSet(f, D)
  BY DEF SumFunction
<1>2. SumFunctionOnSet(f, D) \in Int
  BY SumWithout
<1>3. (\A x \in D : f[x] >= 0) => SumFunctionOnSet(f, D) >= 0
  BY SumCompares
<1>4. f \in [D -> Nat] => \A x \in D : f[x] >= 0
  OBVIOUS
<1> QED
  BY <1>1, <1>2, <1>3, <1>4

(* Zeros add up to zero.                                                    *)
LEMMA SumOfZeros ==
  ASSUME NEW D, IsFiniteSet(D)
  PROVE  SumFunction([d \in D |-> 0]) = 0
<1> DEFINE f == [d \in D |-> 0]
           T == {U \in SUBSET D : SumFunctionOnSet(f, U) # 0}
<1>1. ASSUME T # {} PROVE FALSE
  <2>1. T \subseteq SUBSET D
    OBVIOUS
  <2>2. PICK U \in T : \A V \in SUBSET U : V # U => V \notin T
    <3> HIDE DEF T
    <3> QED
      BY <1>1, <2>1, HasSmallest
  <2>3. IsFiniteSet(U) /\ U \in SUBSET D
    BY <2>1, <2>2, FS_Subset
  <2>4. SumFunctionOnSet(f, U) = IF U = {} THEN 0
                                 ELSE f[Picked(U)] + SumFunctionOnSet(f, U \ {Picked(U)})
    BY <2>3, SumTakesOff
  <2>5. U # {} /\ Picked(U) \in U
    BY <2>2, <2>4 DEF Picked
  <2>6. U \ {Picked(U)} \in SUBSET U /\ U \ {Picked(U)} # U /\ U \ {Picked(U)} \in SUBSET D
    BY <2>3, <2>5
  <2>7. SumFunctionOnSet(f, U \ {Picked(U)}) = 0
    BY <2>2, <2>6
  <2>8. f[Picked(U)] = 0
    BY <2>3, <2>5
  <2> HIDE DEF f
  <2>9. SumFunctionOnSet(f, U) = 0
    BY <2>4, <2>5, <2>7, <2>8
  <2> QED
    BY <2>2, <2>9 DEF T
<1>2. SumFunctionOnSet(f, D) = 0 /\ SumFunction(f) = SumFunctionOnSet(f, D)
  BY <1>1 DEF SumFunction
<1> QED
  BY <1>2

(* A function that changes in one place changes its sum by as much.         *)
LEMMA SumChanges ==
  ASSUME NEW D, IsFiniteSet(D), NEW f \in [D -> Int], NEW g \in [D -> Int], NEW e \in D,
         \A d \in D : d # e => g[d] = f[d]
  PROVE  SumFunction(g) = SumFunction(f) - f[e] + g[e]
<1>1. SumFunction(f) = SumFunctionOnSet(f, D) /\ SumFunction(g) = SumFunctionOnSet(g, D)
  BY DEF SumFunction
<1>2. IsFiniteSet(D \ {e})
  BY FS_RemoveElement
<1>3. /\ SumFunctionOnSet(f, D) = f[e] + SumFunctionOnSet(f, D \ {e})
      /\ SumFunctionOnSet(g, D) = g[e] + SumFunctionOnSet(g, D \ {e})
  BY SumWithout
<1>4. SumFunctionOnSet(f, D \ {e}) = SumFunctionOnSet(g, D \ {e})
  <2>1. \A x \in D \ {e} : f[x] \in Int /\ g[x] \in Int /\ f[x] = g[x]
    OBVIOUS
  <2> QED
    BY <1>2, <2>1, SumCompares
<1>5. SumFunctionOnSet(f, D \ {e}) \in Int
  BY <1>2, SumWithout
<1>6. f[e] \in Int /\ g[e] \in Int
  OBVIOUS
<1> QED
  BY <1>1, <1>3, <1>4, <1>5, <1>6

(* The sum of a function that is nowhere less is not less.                  *)
LEMMA SumGrows ==
  ASSUME NEW D, IsFiniteSet(D), NEW f \in [D -> Int], NEW g \in [D -> Int],
         \A d \in D : f[d] <= g[d]
  PROVE  SumFunction(f) <= SumFunction(g)
  BY SumCompares DEF SumFunction

(* The sum of two functions adds up to their sums.                          *)
LEMMA SumAdds ==
  ASSUME NEW D, IsFiniteSet(D), NEW f \in [D -> Int], NEW g \in [D -> Int], NEW h \in [D -> Int],
         \A d \in D : h[d] = f[d] + g[d]
  PROVE  SumFunction(h) = SumFunction(f) + SumFunction(g)
<1> DEFINE F(s) == SumFunctionOnSet(f, s)
           G(s) == SumFunctionOnSet(g, s)
           H(s) == SumFunctionOnSet(h, s)
           T == {U \in SUBSET D : H(U) # F(U) + G(U)}
<1>1. ASSUME T # {} PROVE FALSE
  <2>1. T \subseteq SUBSET D
    OBVIOUS
  <2>2. PICK U \in T : \A V \in SUBSET U : V # U => V \notin T
    <3> HIDE DEF T
    <3> QED BY <1>1, <2>1, HasSmallest
  <2>3. IsFiniteSet(U) /\ U \in SUBSET D /\ H(U) # F(U) + G(U)
    BY <2>1, <2>2, FS_Subset
  <2>4. CASE U = {}
    <3>1. F(U) = 0 /\ G(U) = 0 /\ H(U) = 0
      BY <2>3, <2>4, SumTakesOff
    <3> HIDE DEF F, G, H
    <3> QED BY <2>3, <3>1
  <2>5. CASE U # {}
    <3>1. PICK x \in U : TRUE
      BY <2>5
    <3>2. \A y \in U : f[y] \in Int /\ g[y] \in Int /\ h[y] \in Int
      BY <2>3
    <3>3. /\ F(U) = f[x] + F(U \ {x}) /\ G(U) = g[x] + G(U \ {x}) /\ H(U) = h[x] + H(U \ {x})
      BY <2>3, <3>2, SumWithout
    <3>4. IsFiniteSet(U \ {x})
      BY <2>3, FS_RemoveElement
    <3>5. F(U \ {x}) \in Int /\ G(U \ {x}) \in Int
      BY <3>2, <3>4, SumWithout
    <3>6. H(U \ {x}) = F(U \ {x}) + G(U \ {x})
      <4>1. U \ {x} \in SUBSET U /\ U \ {x} # U /\ U \ {x} \in SUBSET D
        BY <2>3
      <4> QED BY <2>2, <4>1
    <3>7. h[x] = f[x] + g[x] /\ f[x] \in Int /\ g[x] \in Int
      BY <2>3
    <3> HIDE DEF F, G, H
    <3> QED BY <2>3, <3>3, <3>5, <3>6, <3>7
  <2> QED BY <2>4, <2>5
<1>2. H(D) = F(D) + G(D)
  <2>1. D \in SUBSET D /\ D \notin T
    BY <1>1
  <2> QED BY <2>1
<1> QED BY <1>2 DEF SumFunction

(* A function without negative values has none above its sum.               *)
LEMMA SumBounds ==
  ASSUME NEW D, IsFiniteSet(D), NEW f \in [D -> Nat], NEW e \in D
  PROVE  f[e] <= SumFunction(f)
<1>1. SumFunction(f) = SumFunctionOnSet(f, D) /\ \A x \in D : f[x] \in Int
  BY DEF SumFunction
<1>2. SumFunctionOnSet(f, D) = f[e] + SumFunctionOnSet(f, D \ {e})
  BY <1>1, SumWithout
<1>3. IsFiniteSet(D \ {e})
  BY FS_RemoveElement
<1>4. SumFunctionOnSet(f, D \ {e}) \in Int
  BY <1>1, <1>3, SumWithout
<1>5. SumFunctionOnSet(f, D \ {e}) >= 0
  <2>1. \A x \in D \ {e} : f[x] \in Int /\ f[x] >= 0
    OBVIOUS
  <2> QED BY <2>1, <1>3, SumCompares
<1>6. f[e] \in Nat
  OBVIOUS
<1> QED BY <1>1, <1>2, <1>4, <1>5, <1>6

-----------------------------------------------------------------------------
(***************************************************************************)
(* The accounts, of any state.  Words: what an owner holds.  Beyond: what  *)
(* the virtual memories hold beyond their reservations; Left: what they    *)
(* have not used of them.                                                  *)
(***************************************************************************)
Record == [owner : VM \cup {Shared}, size : 0 .. MaxSize]
Info == InfoSize * Cardinality(VM)
Words(h, owner) == SumFunction([b \in Buffer |-> WordsOf(h[b], owner)])
WordsOfEach(h) == [m \in VM |-> Words(h, m)]
Beyond(o, r) == SumFunction([m \in VM |-> Positive(o[m] - r[m])])
Left(o, r) == SumFunction([m \in VM |-> Positive(r[m] - o[m])])

(* The reserved words are what is not left of the pool after the shared     *)
(* counter, and the counters are what the users hold.                       *)
Books(pool, shared, req, r, o, h) ==
  /\ pool \in Nat /\ 2 * pool < Modulus /\ r \in [VM -> Nat] /\ h \in [Buffer -> Record]
  /\ o = WordsOfEach(h) /\ req = SumFunction(r)
  /\ shared = Info + Words(h, Shared) + Beyond(o, r)
  /\ shared + req <= pool

Blank ==
  /\ ammPool = 0 /\ occupiedShared = 0 /\ required = 0
  /\ reserved = [m \in VM |-> 0] /\ occupied = [m \in VM |-> 0]
  /\ held = [b \in Buffer |-> Unheld]

LedgerInv ==
  /\ initialized \in BOOLEAN /\ held \in [Buffer -> Record]
  /\ \A b \in Buffer : held[b].size = 0 => held[b] = Unheld
  /\ initialized => Books(ammPool, occupiedShared, required, reserved, occupied, held)
  /\ ~initialized => Blank

QueueInv ==
  /\ pending \in Seq(Callback) /\ active \in Seq(Callback)
  /\ IsInjective(pending \o active)
  /\ ammRequested \in BOOLEAN /\ processing \in BOOLEAN
  /\ RetryRequested

AmmIInv == LedgerInv /\ QueueInv

(* The constants.                                                           *)
LEMMA AmmConstants ==
  /\ IsFiniteSet(VM) /\ IsFiniteSet(Buffer) /\ Shared \notin VM
  /\ Info \in Nat /\ MaxSize \in Nat /\ Modulus \in Nat
<1>1. Cardinality(VM) \in Nat /\ InfoSize \in Nat
  BY MemoryManagerAssumption, FS_CardinalityType
<1> QED BY <1>1, MemoryManagerAssumption DEF Info

(* The basic memory manager holds a natural number of words for everybody.  *)
LEMMA WordsAreNat ==
  ASSUME NEW h \in [Buffer -> Record], NEW owner
  PROVE  /\ \A b \in Buffer : WordsOf(h[b], owner) \in Nat
         /\ Words(h, owner) \in Nat
<1>1. ASSUME NEW b \in Buffer PROVE WordsOf(h[b], owner) \in Nat
  <2>1. h[b].size \in Nat
    BY AmmConstants DEF Record
  <2> QED BY <2>1 DEF WordsOf, HeaderSize
<1> DEFINE f == [b \in Buffer |-> WordsOf(h[b], owner)]
<1>2. f \in [Buffer -> Nat] /\ f \in [Buffer -> Int]
  BY <1>1
<1>3. SumFunction(f) \in Nat
  <2> HIDE DEF f
  <2> QED BY <1>2, AmmConstants, SumIsInt
<1> QED BY <1>1, <1>3 DEF Words

(* A buffer that changes hands changes what each owner holds.               *)
LEMMA WordsChange ==
  ASSUME NEW h \in [Buffer -> Record], NEW h2 \in [Buffer -> Record], NEW b \in Buffer,
         \A c \in Buffer : c # b => h2[c] = h[c], NEW owner
  PROVE  Words(h2, owner) = Words(h, owner) - WordsOf(h[b], owner) + WordsOf(h2[b], owner)
<1> DEFINE f == [c \in Buffer |-> WordsOf(h[c], owner)]
           g == [c \in Buffer |-> WordsOf(h2[c], owner)]
<1>2. f \in [Buffer -> Int] /\ g \in [Buffer -> Int]
  <2>1. \A c \in Buffer : WordsOf(h[c], owner) \in Nat /\ WordsOf(h2[c], owner) \in Nat
    BY WordsAreNat
  <2> QED BY <2>1
<1>3. f[b] = WordsOf(h[b], owner) /\ g[b] = WordsOf(h2[b], owner)
      /\ \A c \in Buffer : c # b => g[c] = f[c]
  OBVIOUS
<1>4. SumFunction(g) = SumFunction(f) - f[b] + g[b]
  <2> HIDE DEF f, g
  <2> QED BY <1>2, <1>3, AmmConstants, SumChanges
<1> QED BY <1>3, <1>4 DEF Words

(* Held and reserved words: what is held beyond the reservations and what   *)
(* is reserved are what is held and what is left.                           *)
LEMMA Balance ==
  ASSUME NEW o \in [VM -> Nat], NEW r \in [VM -> Nat]
  PROVE  /\ Beyond(o, r) \in Nat /\ Left(o, r) \in Nat
         /\ SumFunction(o) \in Nat /\ SumFunction(r) \in Nat
         /\ Beyond(o, r) + SumFunction(r) = SumFunction(o) + Left(o, r)
<1> DEFINE f == [m \in VM |-> Positive(o[m] - r[m])]
           g == [m \in VM |-> Positive(r[m] - o[m])]
           h == [m \in VM |-> f[m] + r[m]]
<1>1. ASSUME NEW m \in VM
      PROVE  f[m] \in Nat /\ g[m] \in Nat /\ f[m] + r[m] = o[m] + g[m]
  <2>1. o[m] \in Nat /\ r[m] \in Nat
    OBVIOUS
  <2> QED BY <2>1 DEF Positive
<1>2. /\ f \in [VM -> Nat] /\ g \in [VM -> Nat] /\ h \in [VM -> Nat]
      /\ \A m \in VM : h[m] = f[m] + r[m] /\ h[m] = o[m] + g[m]
  BY <1>1
<1>3. \A k \in [VM -> Nat] : k \in [VM -> Int]
  OBVIOUS
<1> HIDE DEF f, g, h
<1>4. SumFunction(h) = SumFunction(f) + SumFunction(r)
  BY <1>2, <1>3, AmmConstants, SumAdds
<1>5. SumFunction(h) = SumFunction(o) + SumFunction(g)
  BY <1>2, <1>3, AmmConstants, SumAdds
<1>6. \A k \in [VM -> Nat] : SumFunction(k) \in Nat
  BY <1>3, AmmConstants, SumIsInt
<1> QED BY <1>2, <1>4, <1>5, <1>6 DEF Beyond, Left, f, g

(* One virtual memory takes or gives back some words.                       *)
LEMMA BeyondChanges ==
  ASSUME NEW o \in [VM -> Nat], NEW r \in [VM -> Nat], NEW o2 \in [VM -> Nat], NEW m \in VM,
         \A n \in VM : n # m => o2[n] = o[n]
  PROVE  /\ Beyond(o2, r) = Beyond(o, r) - Positive(o[m] - r[m]) + Positive(o2[m] - r[m])
         /\ SumFunction(o2) = SumFunction(o) - o[m] + o2[m]
<1> DEFINE f == [n \in VM |-> Positive(o[n] - r[n])]
           g == [n \in VM |-> Positive(o2[n] - r[n])]
<1>1. \A n \in VM : o[n] \in Nat /\ o2[n] \in Nat /\ r[n] \in Nat
  OBVIOUS
<1>2. f \in [VM -> Int] /\ g \in [VM -> Int]
  BY <1>1 DEF Positive
<1>3. \A n \in VM : n # m => g[n] = f[n]
  OBVIOUS
<1>4. f[m] = Positive(o[m] - r[m]) /\ g[m] = Positive(o2[m] - r[m])
  OBVIOUS
<1>5. SumFunction(g) = SumFunction(f) - f[m] + g[m]
  <2> HIDE DEF f, g
  <2> QED BY <1>2, <1>3, AmmConstants, SumChanges
<1>6. SumFunction(o2) = SumFunction(o) - o[m] + o2[m]
  <2>1. o \in [VM -> Int] /\ o2 \in [VM -> Int]
    BY <1>1
  <2> QED BY <2>1, AmmConstants, SumChanges
<1> QED BY <1>4, <1>5, <1>6 DEF Beyond

(* A number below the modulus is its own remainder.                         *)
LEMMA NoWrap ==
  ASSUME NEW x \in Int, 0 <= x, x < Modulus
  PROVE  x % Modulus = x
BY AmmConstants

(* What the books say in numbers.                                           *)
LEMMA BooksAddUp ==
  ASSUME NEW pool, NEW shared, NEW req, NEW r, NEW o, NEW h, Books(pool, shared, req, r, o, h)
  PROVE  /\ pool \in Nat /\ 2 * pool < Modulus /\ shared \in Nat /\ req \in Nat
         /\ o \in [VM -> Nat] /\ r \in [VM -> Nat]
         /\ Words(h, Shared) \in Nat /\ SumFunction(o) \in Nat
         /\ Beyond(o, r) \in Nat /\ Left(o, r) \in Nat
         /\ shared + req <= pool
         /\ shared = Info + Words(h, Shared) + Beyond(o, r)
         /\ Info + Words(h, Shared) + SumFunction(o) + Left(o, r) = shared + req
         /\ \A m \in VM : o[m] = Words(h, m) /\ o[m] <= SumFunction(o) /\ r[m] <= req
<1>1. h \in [Buffer -> Record] /\ r \in [VM -> Nat] /\ o = WordsOfEach(h)
  BY DEF Books
<1>2. \A owner : Words(h, owner) \in Nat
  BY <1>1, WordsAreNat
<1>3. o \in [VM -> Nat] /\ \A m \in VM : o[m] = Words(h, m)
  BY <1>1, <1>2 DEF WordsOfEach
<1>4. /\ Beyond(o, r) \in Nat /\ Left(o, r) \in Nat
      /\ SumFunction(o) \in Nat /\ SumFunction(r) \in Nat
      /\ Beyond(o, r) + SumFunction(r) = SumFunction(o) + Left(o, r)
  BY <1>1, <1>3, Balance
<1>5. \A m \in VM : o[m] <= SumFunction(o) /\ r[m] <= SumFunction(r)
  BY <1>1, <1>3, AmmConstants, SumBounds
<1>6. /\ pool \in Nat /\ 2 * pool < Modulus /\ req = SumFunction(r) /\ shared + req <= pool
      /\ shared = Info + Words(h, Shared) + Beyond(o, r)
  BY DEF Books
<1>7. Info \in Nat /\ Words(h, Shared) \in Nat
  BY <1>2, AmmConstants
<1>8. /\ shared \in Nat
      /\ Info + Words(h, Shared) + SumFunction(o) + Left(o, r) = shared + req
  BY <1>4, <1>6, <1>7
<1> QED BY <1>1, <1>3, <1>4, <1>5, <1>6, <1>7, <1>8

(* The counters of the state: what they are and what is free.               *)
LEMMA Counters ==
  ASSUME Books(ammPool, occupiedShared, required, reserved, occupied, held)
  PROVE  /\ Given = Info + Words(held, Shared) + SumFunction(occupied)
         /\ SharedAvailable = ammPool - occupiedShared - required
         /\ \A m \in VM :
              /\ SelfAvailable(m) = Positive(reserved[m] - occupied[m])
              /\ Plus(SharedAvailable, SelfAvailable(m)) = SharedAvailable + SelfAvailable(m)
<1>1. /\ ammPool \in Nat /\ 2 * ammPool < Modulus /\ occupiedShared \in Nat /\ required \in Nat
      /\ occupied \in [VM -> Nat] /\ reserved \in [VM -> Nat]
      /\ occupiedShared + required <= ammPool
      /\ \A m \in VM : reserved[m] <= required
  BY BooksAddUp
<1>2. occupied = [m \in VM |-> HeldBy(m)]
  BY DEF Books, WordsOfEach, Words, HeldBy
<1>3. Given = Info + Words(held, Shared) + SumFunction(occupied)
  BY <1>2 DEF Given, Info, Words, HeldBy
<1>4. SharedAvailable = ammPool - occupiedShared - required
  <2> DEFINE p == ammPool
             a == ammPool - occupiedShared
             c == ammPool - occupiedShared - required
  <2>1. a \in Int /\ 0 <= a /\ a < Modulus /\ c \in Int /\ 0 <= c /\ c < Modulus
    BY <1>1, AmmConstants
  <2>2. Minus(ammPool, occupiedShared) = a
    <3> HIDE DEF c
    <3> QED BY <2>1, NoWrap DEF Minus
  <2>3. Minus(a, required) = c
    BY <2>1, NoWrap DEF Minus
  <2> QED BY <2>2, <2>3 DEF SharedAvailable
<1>5. ASSUME NEW m \in VM
      PROVE  /\ SelfAvailable(m) = Positive(reserved[m] - occupied[m])
             /\ Plus(SharedAvailable, SelfAvailable(m)) = SharedAvailable + SelfAvailable(m)
  <2>1. reserved[m] \in Nat /\ occupied[m] \in Nat /\ reserved[m] <= required
    BY <1>1
  <2> DEFINE a == SharedAvailable + SelfAvailable(m)
  <2>2. a \in Int /\ 0 <= a /\ a < Modulus
    BY <1>1, <1>4, <2>1, AmmConstants DEF SelfAvailable, Positive
  <2>3. a % Modulus = a
    <3> HIDE DEF a
    <3> QED BY <2>2, NoWrap
  <2> QED BY <2>3 DEF Plus, SelfAvailable
<1> QED BY <1>3, <1>4, <1>5

(* What an owner holds does not change with a buffer that was not his and   *)
(* does not become his.                                                     *)
LEMMA OthersKeepWords ==
  ASSUME NEW h \in [Buffer -> Record], NEW h2 \in [Buffer -> Record], NEW b \in Buffer,
         \A c \in Buffer : c # b => h2[c] = h[c],
         NEW other, h[b].owner # other \/ h[b].size = 0, h2[b].owner # other \/ h2[b].size = 0
  PROVE  Words(h2, other) = Words(h, other)
<1>1. /\ h[b].owner # other \/ ~(h[b].size > 0)
      /\ h2[b].owner # other \/ ~(h2[b].size > 0)
  <2>1. h[b].size \in Nat /\ h2[b].size \in Nat
    BY AmmConstants DEF Record
  <2> QED BY <2>1
<1>2. WordsOf(h[b], other) = 0 /\ WordsOf(h2[b], other) = 0
  BY <1>1 DEF WordsOf
<1>3. Words(h, other) \in Nat
  BY WordsAreNat
<1>4. Words(h2, other) = Words(h, other) - WordsOf(h[b], other) + WordsOf(h2[b], other)
  BY WordsChange
<1> QED BY <1>2, <1>3, <1>4

-----------------------------------------------------------------------------
(***************************************************************************)
(* The accounts under each operation.                                      *)
(***************************************************************************)

(* A configuration that is accepted opens the books.                        *)
LEMMA InitKeepsLedger ==
  ASSUME LedgerInv, NEW c \in Config, AMM_Init(c)
  PROVE  LedgerInv'
<1>1. /\ initialized' = TRUE /\ ammPool' = c.pool /\ reserved' = c.reserved
      /\ required' = SumFunction(c.reserved) /\ occupiedShared' = Info
      /\ occupied' = [m \in VM |-> 0] /\ held' = [b \in Buffer |-> Unheld]
      /\ Info + SumFunction(c.reserved) <= c.pool
  BY DEF AMM_Init, Accepted, WordsReserved, Info, LedgerInv, Blank
<1>2. c.pool \in Nat /\ c.reserved \in [VM -> Nat] /\ 2 * c.pool < Modulus
  BY MemoryManagerAssumption
<1>3. held' \in [Buffer -> Record] /\ \A b \in Buffer : held'[b] = Unheld
  BY <1>1, AmmConstants DEF Record, Unheld
<1>4. ASSUME NEW owner PROVE Words(held', owner) = 0
  <2>1. \A b \in Buffer : WordsOf(held'[b], owner) = 0
    BY <1>3 DEF WordsOf, Unheld
  <2>2. [b \in Buffer |-> WordsOf(held'[b], owner)] = [b \in Buffer |-> 0]
    BY <2>1
  <2> QED BY <2>2, AmmConstants, SumOfZeros DEF Words
<1>5. occupied' = WordsOfEach(held')
  BY <1>1, <1>4 DEF WordsOfEach
<1>6. Beyond(occupied', reserved') = 0
  <2>1. \A m \in VM : Positive(occupied'[m] - reserved'[m]) = 0
    <3> TAKE m \in VM
    <3>1. occupied'[m] = 0 /\ reserved'[m] \in Nat
      BY <1>1, <1>2
    <3> QED BY <3>1 DEF Positive
  <2>2. [m \in VM |-> Positive(occupied'[m] - reserved'[m])] = [m \in VM |-> 0]
    BY <2>1
  <2> QED BY <2>2, AmmConstants, SumOfZeros DEF Beyond
<1>7. Books(ammPool', occupiedShared', required', reserved', occupied', held')
  <2>1. occupiedShared' = Info + Words(held', Shared) + Beyond(occupied', reserved')
    BY <1>1, <1>4, <1>6, AmmConstants
  <2> QED BY <1>1, <1>2, <1>3, <1>5, <2>1 DEF Books
<1> QED BY <1>1, <1>3, <1>7 DEF LedgerInv

(* A buffer for nobody in particular: the shared counter takes its words.   *)
LEMMA AllocSharedKeepsLedger ==
  ASSUME LedgerInv, NEW b \in Buffer, NEW size \in 1 .. MaxSize, AllocShared(b, size)
  PROVE  LedgerInv'
<1>1. /\ initialized /\ Books(ammPool, occupiedShared, required, reserved, occupied, held)
      /\ held \in [Buffer -> Record] /\ held[b] = Unheld /\ size < SharedAvailable
      /\ held' = [held EXCEPT ![b] = [owner |-> Shared, size |-> size]]
      /\ occupiedShared' = Plus(occupiedShared, size + 1)
      /\ UNCHANGED <<initialized, ammPool, required, reserved, occupied>>
  BY DEF AllocShared, Enough, Take, LedgerInv, config, HeaderSize
<1>2. size \in Nat /\ size > 0 /\ size \in 0 .. MaxSize
  BY AmmConstants
<1>3. /\ held' \in [Buffer -> Record] /\ held'[b] = [owner |-> Shared, size |-> size]
      /\ \A c \in Buffer : c # b => held'[c] = held[c]
  BY <1>1, <1>2 DEF Record
<1>4. /\ held[b].size = 0 /\ WordsOf(held[b], Shared) = 0
      /\ held'[b].owner = Shared /\ WordsOf(held'[b], Shared) = size + 1
  BY <1>1, <1>2, <1>3 DEF Unheld, WordsOf, HeaderSize
<1>m. held \in [Buffer -> Record] /\ held' \in [Buffer -> Record]
      /\ \A c \in Buffer : c # b => held'[c] = held[c]
  BY <1>1, <1>3
<1>5. Words(held', Shared) = Words(held, Shared) - 0 + (size + 1)
  <2>1. Words(held', Shared)
          = Words(held, Shared) - WordsOf(held[b], Shared) + WordsOf(held'[b], Shared)
    BY <1>m, WordsChange
  <2> QED BY <1>4, <2>1
<1>6. \A m \in VM : Words(held', m) = Words(held, m)
  <2> TAKE m \in VM
  <2>1. held[b].size = 0 /\ held'[b].owner # m
    BY <1>4, AmmConstants
  <2> QED BY <1>m, <2>1, OthersKeepWords
<1>7. occupied' = WordsOfEach(held')
  BY <1>1, <1>6 DEF Books, WordsOfEach
<1>8. /\ ammPool \in Nat /\ 2 * ammPool < Modulus /\ occupiedShared \in Nat /\ required \in Nat
      /\ occupiedShared = Info + Words(held, Shared) + Beyond(occupied, reserved)
      /\ Words(held, Shared) \in Nat /\ Beyond(occupied, reserved) \in Nat
  BY <1>1, BooksAddUp
<1>9. size < ammPool - occupiedShared - required
  BY <1>1, Counters
<1>10. occupiedShared' = occupiedShared + size + 1
  <2> DEFINE x == occupiedShared + (size + 1)
  <2>1. x \in Int /\ 0 <= x /\ x < Modulus
    BY <1>2, <1>8, <1>9, AmmConstants
  <2>2. x % Modulus = x
    <3> HIDE DEF x
    <3> QED BY <2>1, NoWrap
  <2> QED BY <1>1, <1>2, <1>8, <2>2 DEF Plus
<1>11. Books(ammPool', occupiedShared', required', reserved', occupied', held')
  <2>1. occupiedShared' = Info + Words(held', Shared) + Beyond(occupied, reserved)
    BY <1>2, <1>5, <1>8, <1>10, AmmConstants
  <2>2. occupiedShared' + required <= ammPool
    BY <1>2, <1>8, <1>9, <1>10
  <2> QED BY <1>1, <1>3, <1>7, <2>1, <2>2 DEF Books
<1>12. \A c \in Buffer : held'[c].size = 0 => held'[c] = Unheld
  BY <1>2, <1>3 DEF LedgerInv
<1> QED BY <1>1, <1>3, <1>11, <1>12 DEF LedgerInv

(* A buffer of a virtual memory: what exceeds its reservation is taken from *)
(* the shared part.                                                         *)
LEMMA AllocVirtualKeepsLedger ==
  ASSUME LedgerInv, NEW b \in Buffer, NEW size \in 1 .. MaxSize, NEW m \in VM,
         AllocVirtual(b, m, size)
  PROVE  LedgerInv'
<1>1. /\ initialized /\ Books(ammPool, occupiedShared, required, reserved, occupied, held)
      /\ held \in [Buffer -> Record] /\ held[b] = Unheld
      /\ size < Plus(SharedAvailable, SelfAvailable(m)) /\ Given + size + 1 <= ammPool
      /\ held' = [held EXCEPT ![b] = [owner |-> m, size |-> size]]
      /\ occupied' = [occupied EXCEPT ![m] = Plus(occupied[m], size + 1)]
      /\ occupiedShared' = IF reserved[m] < occupied'[m]
                           THEN Minus(Plus(occupiedShared, size + 1), SelfAvailable(m))
                           ELSE occupiedShared
      /\ UNCHANGED <<initialized, ammPool, required, reserved>>
  <2>1. m # Shared
    BY AmmConstants
  <2> QED BY <2>1 DEF AllocVirtual, Enough, Take, LedgerInv, config, HeaderSize
<1>2. size \in Nat /\ size > 0 /\ size \in 0 .. MaxSize
  BY AmmConstants
<1>3. /\ held' \in [Buffer -> Record] /\ held'[b] = [owner |-> m, size |-> size]
      /\ \A c \in Buffer : c # b => held'[c] = held[c]
  BY <1>1, <1>2 DEF Record
<1>4. /\ held[b].size = 0 /\ WordsOf(held[b], m) = 0
      /\ held'[b].owner = m /\ WordsOf(held'[b], m) = size + 1
  BY <1>1, <1>2, <1>3 DEF Unheld, WordsOf, HeaderSize
<1>m. held \in [Buffer -> Record] /\ held' \in [Buffer -> Record]
      /\ \A c \in Buffer : c # b => held'[c] = held[c]
  BY <1>1, <1>3
<1>5. Words(held', m) = Words(held, m) - 0 + (size + 1)
  <2>1. Words(held', m) = Words(held, m) - WordsOf(held[b], m) + WordsOf(held'[b], m)
    BY <1>m, WordsChange
  <2> QED BY <1>4, <2>1
<1>6. \A other : other # m => Words(held', other) = Words(held, other)
  <2> SUFFICES ASSUME NEW other, other # m
               PROVE  Words(held', other) = Words(held, other)
    OBVIOUS
  <2>1. held[b].size = 0 /\ held'[b].owner # other
    BY <1>4
  <2> QED BY <1>m, <2>1, OthersKeepWords
<1>7. /\ ammPool \in Nat /\ 2 * ammPool < Modulus /\ occupiedShared \in Nat /\ required \in Nat
      /\ occupied \in [VM -> Nat] /\ reserved \in [VM -> Nat]
      /\ occupiedShared = Info + Words(held, Shared) + Beyond(occupied, reserved)
      /\ Words(held, Shared) \in Nat /\ Beyond(occupied, reserved) \in Nat
      /\ occupiedShared + required <= ammPool
      /\ \A n \in VM : occupied[n] = Words(held, n) /\ occupied[n] <= SumFunction(occupied)
                       /\ reserved[n] <= required
      /\ SumFunction(occupied) \in Nat
  BY <1>1, BooksAddUp
<1>8. /\ Given = Info + Words(held, Shared) + SumFunction(occupied)
      /\ SharedAvailable = ammPool - occupiedShared - required
      /\ SelfAvailable(m) = Positive(reserved[m] - occupied[m])
      /\ Plus(SharedAvailable, SelfAvailable(m)) = SharedAvailable + SelfAvailable(m)
  BY <1>1, Counters
<1> DEFINE x == occupied[m]
           y == reserved[m]
           w == size + 1
           self == Positive(y - x)
<1>9. /\ x \in Nat /\ y \in Nat /\ w \in Nat /\ w > 0 /\ y <= required
      /\ x <= SumFunction(occupied)
  BY <1>2, <1>7
<1>10. x + w <= ammPool
  <2>1. Info + Words(held, Shared) + SumFunction(occupied) + w <= ammPool
    BY <1>1, <1>2, <1>7, <1>8, AmmConstants
  <2> HIDE DEF x, w
  <2> QED BY <1>7, <1>9, <2>1, AmmConstants
<1>11. w <= ammPool - occupiedShared - required + self
  <2>1. size < ammPool - occupiedShared - required + self
    BY <1>1, <1>8
  <2>2. self \in Nat
    BY <1>9 DEF Positive
  <2> HIDE DEF self
  <2> QED BY <1>2, <1>7, <2>1, <2>2
<1>12. Plus(x, w) = x + w
  <2> DEFINE v == x + w
  <2>1. v \in Int /\ 0 <= v /\ v < Modulus
    <3> HIDE DEF x, w
    <3> QED BY <1>7, <1>9, <1>10, AmmConstants
  <2>2. v % Modulus = v
    <3> HIDE DEF v
    <3> QED BY <2>1, NoWrap
  <2> QED BY <2>2 DEF Plus
<1>13. /\ occupied' = [occupied EXCEPT ![m] = x + w] /\ occupied'[m] = x + w
       /\ occupied' \in [VM -> Nat]
       /\ \A n \in VM : n # m => occupied'[n] = occupied[n]
  <2>1. occupied' = [occupied EXCEPT ![m] = x + w]
    BY <1>1, <1>12
  <2>2. x + w \in Nat
    BY <1>9
  <2> HIDE DEF x, w
  <2> QED BY <1>7, <2>1, <2>2
<1>14. occupied' = WordsOfEach(held')
  <2>1. \A n \in VM : occupied'[n] = Words(held', n)
    <3> TAKE n \in VM
    <3>1. CASE n = m
      <4>1. occupied'[n] = x + w /\ Words(held', n) = Words(held, m) - 0 + w /\ Words(held, m) = x
        BY <1>5, <1>7, <1>13, <3>1
      <4> QED BY <1>9, <4>1
    <3>2. CASE n # m
      BY <1>6, <1>7, <1>13, <3>2
    <3> QED BY <3>1, <3>2
  <2> QED BY <1>13, <2>1 DEF WordsOfEach
<1>15. Words(held', Shared) = Words(held, Shared)
  BY <1>6, AmmConstants
<1> DEFINE before == Beyond(occupied, reserved)
           after == Beyond(occupied', reserved)
<1>16. after = before - Positive(x - y) + Positive((x + w) - y)
  <2>1. /\ occupied \in [VM -> Nat] /\ reserved \in [VM -> Nat] /\ occupied' \in [VM -> Nat]
        /\ \A n \in VM : n # m => occupied'[n] = occupied[n]
    BY <1>7, <1>13
  <2>2. after = before - Positive(x - y) + Positive(occupied'[m] - y)
    BY <2>1, BeyondChanges
  <2>3. occupied'[m] = x + w
    BY <1>13
  <2> HIDE DEF after, before, x, y, w
  <2> QED BY <2>2, <2>3
<1>17. y < x + w => Minus(Plus(occupiedShared, w), SelfAvailable(m)) = (occupiedShared + w) - self
  <2> SUFFICES ASSUME y < x + w
               PROVE  Minus(Plus(occupiedShared, w), SelfAvailable(m)) = (occupiedShared + w) - self
    OBVIOUS
  <2> DEFINE u == occupiedShared + w
             v == (occupiedShared + w) - self
  <2>1. self \in Nat /\ self <= w /\ w <= ammPool
    <3> HIDE DEF x, y, w
    <3> QED BY <1>7, <1>9, <1>10 DEF Positive
  <2>2. u \in Int /\ 0 <= u /\ u < Modulus /\ v \in Int /\ 0 <= v /\ v < Modulus
    <3> HIDE DEF x, y, w, self
    <3> QED BY <1>7, <1>9, <2>1, AmmConstants
  <2>3. u % Modulus = u /\ v % Modulus = v
    <3> HIDE DEF u, v
    <3> QED BY <2>2, NoWrap
  <2>4. Plus(occupiedShared, w) = u /\ SelfAvailable(m) = self
    BY <1>8, <2>3 DEF Plus
  <2>5. Minus(u, self) = v
    <3>1. u - self = v
      OBVIOUS
    <3> HIDE DEF u, v, self
    <3> QED BY <2>3, <3>1 DEF Minus
  <2> QED BY <2>4, <2>5
<1>18. /\ occupiedShared' = Info + Words(held, Shared) + after
       /\ occupiedShared' + required <= ammPool
  <2>1. occupiedShared' = IF y < x + w THEN (occupiedShared + w) - self ELSE occupiedShared
    BY <1>1, <1>13, <1>17
  <2> HIDE DEF x, y, w, before, after
  <2> QED BY <1>7, <1>9, <1>11, <1>16, <2>1, AmmConstants DEF Positive, before
<1>19. Books(ammPool', occupiedShared', required', reserved', occupied', held')
  <2>1. occupiedShared' = Info + Words(held', Shared) + Beyond(occupied', reserved)
    BY <1>15, <1>18
  <2> QED BY <1>1, <1>3, <1>14, <1>18, <2>1 DEF Books
<1>20. \A c \in Buffer : held'[c].size = 0 => held'[c] = Unheld
  BY <1>2, <1>3 DEF LedgerInv
<1> QED BY <1>1, <1>3, <1>19, <1>20 DEF LedgerInv

(* A buffer that comes back: its words are in the books of its owner.       *)
LEMMA ReleaseGivesBack ==
  ASSUME LedgerInv, NEW b \in Buffer, held[b] # Unheld, Release(b),
         NEW owner, owner = held[b].owner
  PROVE  /\ held \in [Buffer -> Record] /\ held' \in [Buffer -> Record]
         /\ owner \in VM \cup {Shared}
         /\ held[b].size + HeaderSize \in Nat /\ held[b].size + HeaderSize > 0
         /\ Words(held, owner) \in Nat /\ Words(held', owner) \in Nat
         /\ Words(held', owner) = Words(held, owner) - (held[b].size + HeaderSize)
         /\ \A other : other # owner => Words(held', other) = Words(held, other)
         /\ \A c \in Buffer : held'[c].size = 0 => held'[c] = Unheld
<1>1. /\ held \in [Buffer -> Record] /\ held' = [held EXCEPT ![b] = Unheld] /\ Unheld \in Record
      /\ \A c \in Buffer : held[c].size = 0 => held[c] = Unheld
  BY AmmConstants DEF LedgerInv, Release, Unheld, Record
<1>2. /\ held' \in [Buffer -> Record] /\ held'[b] = Unheld
      /\ \A c \in Buffer : c # b => held'[c] = held[c]
  BY <1>1
<1>3. held \in [Buffer -> Record] /\ held' \in [Buffer -> Record]
      /\ \A c \in Buffer : c # b => held'[c] = held[c]
  BY <1>1, <1>2
<1>4. held[b].size \in Nat /\ held[b].size # 0 /\ owner \in VM \cup {Shared}
  BY <1>1, AmmConstants DEF Record
<1>5. Words(held, owner) \in Nat /\ Words(held', owner) \in Nat
  BY <1>3, WordsAreNat
<1>6. Words(held', owner) = Words(held, owner) - WordsOf(held[b], owner) + WordsOf(held'[b], owner)
  BY <1>3, WordsChange
<1>7. held'[b].size = 0 /\ WordsOf(held'[b], owner) = 0
  BY <1>2 DEF Unheld, WordsOf
<1>8. WordsOf(held[b], owner) = held[b].size + HeaderSize
  BY <1>4 DEF WordsOf
<1>9. held[b].size + HeaderSize \in Nat /\ held[b].size + HeaderSize > 0
  BY <1>4 DEF HeaderSize
<1>10. Words(held', owner) = Words(held, owner) - (held[b].size + HeaderSize)
  <2> DEFINE x == Words(held, owner)
             w == held[b].size + HeaderSize
  <2>1. Words(held', owner) = x - w + 0 /\ x \in Nat /\ w \in Nat
    BY <1>5, <1>6, <1>7, <1>8, <1>9
  <2>2. x - w + 0 = x - w
    <3> HIDE DEF x, w
    <3> QED BY <2>1
  <2> QED BY <2>1, <2>2
<1>11. \A other : other # owner => Words(held', other) = Words(held, other)
  <2> SUFFICES ASSUME NEW other, other # owner
               PROVE  Words(held', other) = Words(held, other)
    OBVIOUS
  <2>1. held[b].owner # other /\ held'[b].size = 0
    BY <1>7
  <2> QED BY <1>3, <2>1, OthersKeepWords
<1>12. \A c \in Buffer : held'[c].size = 0 => held'[c] = Unheld
  BY <1>1, <1>2
<1> QED BY <1>3, <1>4, <1>5, <1>9, <1>10, <1>11, <1>12

(* What a free gives back of a buffer of nobody in particular,              *)
LEMMA FreeSharedKeepsLedger ==
  ASSUME LedgerInv, NEW b \in Buffer, AMM_Free(b), held[b].owner = Shared
  PROVE  LedgerInv'
<1> DEFINE w == held[b].size + HeaderSize
<1>1. /\ held[b] # Unheld /\ Release(b) /\ occupiedShared' = Minus(occupiedShared, w)
      /\ UNCHANGED <<initialized, ammPool, required, reserved, occupied>>
  BY DEF AMM_Free, config
<1>2. /\ held \in [Buffer -> Record] /\ held' \in [Buffer -> Record]
      /\ w \in Nat
      /\ Words(held, Shared) \in Nat /\ Words(held', Shared) \in Nat
      /\ Words(held', Shared) = Words(held, Shared) - w
      /\ \A other : other # Shared => Words(held', other) = Words(held, other)
      /\ \A c \in Buffer : held'[c].size = 0 => held'[c] = Unheld
  BY <1>1, ReleaseGivesBack
<1>3. initialized /\ Books(ammPool, occupiedShared, required, reserved, occupied, held)
  BY <1>1 DEF LedgerInv, Blank
<1>4. /\ ammPool \in Nat /\ 2 * ammPool < Modulus /\ occupiedShared \in Nat /\ required \in Nat
      /\ occupiedShared + required <= ammPool
      /\ occupiedShared = Info + Words(held, Shared) + Beyond(occupied, reserved)
      /\ Beyond(occupied, reserved) \in Nat
  BY <1>3, BooksAddUp
<1> DEFINE x == occupiedShared - w
<1>5. /\ x \in Int /\ 0 <= x /\ x < Modulus /\ x + required <= ammPool
      /\ x = Info + Words(held', Shared) + Beyond(occupied, reserved)
  <2> HIDE DEF w
  <2> QED BY <1>2, <1>4, AmmConstants
<1>6. occupiedShared' = x
  <2>1. x % Modulus = x
    <3> HIDE DEF x
    <3> QED BY <1>5, NoWrap
  <2> QED BY <1>1, <2>1 DEF Minus
<1>7. occupied' = WordsOfEach(held')
  <2>1. \A m \in VM : Words(held', m) = Words(held, m)
    BY <1>2, AmmConstants
  <2> QED BY <1>1, <1>3, <2>1 DEF Books, WordsOfEach
<1>8. Books(ammPool', occupiedShared', required', reserved', occupied', held')
  <2> HIDE DEF x, w
  <2> QED BY <1>1, <1>2, <1>3, <1>5, <1>6, <1>7 DEF Books
<1> QED BY <1>1, <1>2, <1>3, <1>8 DEF LedgerInv

(* and of one of a virtual memory: first what exceeds its reservation.      *)
LEMMA FreeVirtualKeepsLedger ==
  ASSUME LedgerInv, NEW b \in Buffer, AMM_Free(b), NEW m \in VM, held[b].owner = m
  PROVE  LedgerInv'
<1> DEFINE w == held[b].size + HeaderSize
           x == occupied[m]
           y == reserved[m]
<1>1. /\ held[b] # Unheld /\ Release(b) /\ FreedVirtual(m, w)
      /\ UNCHANGED <<initialized, ammPool, required, reserved>>
  <2>1. m # Shared
    BY AmmConstants
  <2> QED BY <2>1 DEF AMM_Free, config
<1>2. /\ held \in [Buffer -> Record] /\ held' \in [Buffer -> Record]
      /\ w \in Nat /\ w > 0
      /\ Words(held, m) \in Nat /\ Words(held', m) \in Nat
      /\ Words(held', m) = Words(held, m) - w
      /\ \A other : other # m => Words(held', other) = Words(held, other)
      /\ \A c \in Buffer : held'[c].size = 0 => held'[c] = Unheld
  BY <1>1, ReleaseGivesBack
<1>3. initialized /\ Books(ammPool, occupiedShared, required, reserved, occupied, held)
  BY <1>1 DEF LedgerInv, Blank
<1>4. /\ ammPool \in Nat /\ 2 * ammPool < Modulus /\ occupiedShared \in Nat /\ required \in Nat
      /\ occupied \in [VM -> Nat] /\ reserved \in [VM -> Nat]
      /\ occupiedShared + required <= ammPool
      /\ occupiedShared = Info + Words(held, Shared) + Beyond(occupied, reserved)
      /\ Words(held, Shared) \in Nat /\ Beyond(occupied, reserved) \in Nat
      /\ Left(occupied, reserved) \in Nat /\ SumFunction(occupied) \in Nat
      /\ Info + Words(held, Shared) + SumFunction(occupied) + Left(occupied, reserved)
           = occupiedShared + required
      /\ \A n \in VM : occupied[n] = Words(held, n) /\ occupied[n] <= SumFunction(occupied)
  BY <1>3, BooksAddUp
<1>5. /\ x \in Nat /\ y \in Nat /\ x = Words(held, m) /\ x - w \in Nat /\ x <= ammPool
  <2>1. x = Words(held, m) /\ x \in Nat /\ y \in Nat /\ x <= SumFunction(occupied)
    BY <1>4
  <2>2. Words(held', m) = x - w
    BY <1>2, <2>1
  <2>3. SumFunction(occupied) <= ammPool
    BY <1>4, AmmConstants
  <2> HIDE DEF x, y, w
  <2> QED BY <1>2, <1>4, <2>1, <2>2, <2>3
<1> DEFINE before == Beyond(occupied, reserved)
           after == Beyond(occupied', reserved)
           shared2 == IF x > y THEN IF w > x - y THEN occupiedShared - (x - y)
                                    ELSE occupiedShared - w
                      ELSE occupiedShared
<1>6. occupied' = [occupied EXCEPT ![m] = x - w]
  <2> DEFINE v == x - w
  <2>1. v \in Int /\ 0 <= v /\ v < Modulus
    <3> HIDE DEF x, w
    <3> QED BY <1>2, <1>4, <1>5, AmmConstants
  <2>2. v % Modulus = v
    <3> HIDE DEF v
    <3> QED BY <2>1, NoWrap
  <2>3. Minus(x, w) = v
    BY <2>2 DEF Minus
  <2>4. occupied' = [occupied EXCEPT ![m] = Minus(x, w)]
    BY <1>1 DEF FreedVirtual
  <2> QED BY <2>3, <2>4
<1>7. /\ occupied' \in [VM -> Nat] /\ occupied'[m] = x - w
      /\ \A n \in VM : n # m => occupied'[n] = occupied[n]
  <2> HIDE DEF x, w
  <2> QED BY <1>4, <1>5, <1>6
<1>8. after = before - Positive(x - y) + Positive((x - w) - y)
  <2>1. /\ occupied \in [VM -> Nat] /\ reserved \in [VM -> Nat] /\ occupied' \in [VM -> Nat]
        /\ \A n \in VM : n # m => occupied'[n] = occupied[n]
    BY <1>4, <1>7
  <2>2. after = before - Positive(x - y) + Positive(occupied'[m] - y)
    BY <2>1, BeyondChanges
  <2>3. occupied'[m] = x - w
    BY <1>7
  <2> HIDE DEF after, before, x, y, w
  <2> QED BY <2>2, <2>3
<1>9. after \in Nat
  <2>1. occupied' \in [VM -> Nat] /\ reserved \in [VM -> Nat]
    BY <1>4, <1>7
  <2> QED BY <2>1, Balance
<1>10. /\ shared2 = Info + Words(held, Shared) + after /\ shared2 \in Nat
       /\ shared2 <= occupiedShared
  <2> HIDE DEF x, y, w, before, after
  <2> QED BY <1>2, <1>4, <1>5, <1>8, <1>9, AmmConstants DEF Positive, before
<1>11. occupiedShared' = shared2
  <2>1. occupiedShared' = IF x - y > 0
                          THEN IF w > x - y THEN Minus(occupiedShared, x - y)
                               ELSE Minus(occupiedShared, w)
                          ELSE occupiedShared
    <3>1. x - y > 0 => (w > x - y <=> ~(w <= x - y))
      <4> HIDE DEF x, y, w
      <4> QED BY <1>2, <1>5
    <3> QED BY <1>1, <3>1 DEF FreedVirtual
  <2>2. x - y > 0 <=> x > y
    <3> HIDE DEF x, y
    <3> QED BY <1>5
  <2> DEFINE u == occupiedShared - (x - y)
             v == occupiedShared - w
  <2>3. CASE x > y /\ w > x - y
    <3>1. shared2 = u
      BY <2>3
    <3>2. u % Modulus = u
      <4>1. u \in Int /\ 0 <= u /\ u < Modulus
        <5> HIDE DEF u, shared2
        <5> QED BY <1>4, <1>10, <3>1, AmmConstants
      <4> HIDE DEF u
      <4> QED BY <4>1, NoWrap
    <3>3. Minus(occupiedShared, x - y) = u
      BY <3>2 DEF Minus
    <3> QED BY <2>1, <2>2, <2>3, <3>1, <3>3
  <2>4. CASE x > y /\ ~(w > x - y)
    <3>1. shared2 = v
      BY <2>4
    <3>2. v % Modulus = v
      <4>1. v \in Int /\ 0 <= v /\ v < Modulus
        <5> HIDE DEF v, shared2
        <5> QED BY <1>4, <1>10, <3>1, AmmConstants
      <4> HIDE DEF v
      <4> QED BY <4>1, NoWrap
    <3>3. Minus(occupiedShared, w) = v
      BY <3>2 DEF Minus
    <3> QED BY <2>1, <2>2, <2>4, <3>1, <3>3
  <2>5. CASE ~(x > y)
    BY <2>1, <2>2, <2>5
  <2> QED BY <2>3, <2>4, <2>5
<1>12. occupied' = WordsOfEach(held')
  <2>1. \A n \in VM : occupied'[n] = Words(held', n)
    <3> TAKE n \in VM
    <3>1. CASE n = m
      BY <1>2, <1>5, <1>7, <3>1
    <3>2. CASE n # m
      BY <1>2, <1>4, <1>7, <3>2
    <3> QED BY <3>1, <3>2
  <2> QED BY <1>7, <2>1 DEF WordsOfEach
<1>13. Words(held', Shared) = Words(held, Shared)
  BY <1>2, AmmConstants
<1>14. Books(ammPool', occupiedShared', required', reserved', occupied', held')
  <2>1. occupiedShared' = Info + Words(held', Shared) + Beyond(occupied', reserved)
    BY <1>10, <1>11, <1>13
  <2>2. occupiedShared' + required <= ammPool
    <3> HIDE DEF shared2
    <3> QED BY <1>4, <1>10, <1>11
  <2> HIDE DEF x, y, w, shared2
  <2> QED BY <1>1, <1>2, <1>3, <1>12, <2>1, <2>2 DEF Books
<1> QED BY <1>1, <1>2, <1>3, <1>14 DEF LedgerInv

-----------------------------------------------------------------------------
(***************************************************************************)
(* The callbacks that wait.                                                *)
(***************************************************************************)

(* A sequence after another: no element twice if neither has one twice and  *)
(* they share none.                                                         *)
LEMMA JoinedOnce ==
  ASSUME NEW S, NEW p \in Seq(S), NEW q \in Seq(S)
  PROVE  IsInjective(p \o q) <=>
           /\ IsInjective(p) /\ IsInjective(q)
           /\ \A i \in DOMAIN p, j \in DOMAIN q : p[i] # q[j]
<1> DEFINE m == Len(p)
           n == Len(q)
           s == p \o q
<1>1. /\ m \in Nat /\ n \in Nat /\ DOMAIN p = 1 .. m /\ DOMAIN q = 1 .. n
      /\ s \in Seq(S) /\ DOMAIN s = 1 .. m + n
  OBVIOUS
<1>2. \A i \in 1 .. m : s[i] = p[i] /\ i \in 1 .. m + n
  BY <1>1
<1>3. \A j \in 1 .. n : s[m + j] = q[j] /\ m + j \in 1 .. m + n
  BY <1>1
<1> HIDE DEF m, n, s
<1>4. ASSUME IsInjective(s)
      PROVE  /\ IsInjective(p) /\ IsInjective(q)
             /\ \A i \in DOMAIN p, j \in DOMAIN q : p[i] # q[j]
  <2>1. \A a, b \in 1 .. m + n : s[a] = s[b] => a = b
    BY <1>1, <1>4 DEF IsInjective
  <2>2. IsInjective(p)
    BY <1>1, <1>2, <2>1 DEF IsInjective
  <2>3. IsInjective(q)
    <3> SUFFICES ASSUME NEW a \in 1 .. n, NEW b \in 1 .. n, q[a] = q[b] PROVE a = b
      BY <1>1 DEF IsInjective
    <3>1. m + a = m + b
      BY <1>3, <2>1
    <3> QED BY <1>1, <3>1
  <2>4. ASSUME NEW i \in DOMAIN p, NEW j \in DOMAIN q PROVE p[i] # q[j]
    <3>1. i # m + j
      BY <1>1
    <3>2. s[i] # s[m + j]
      BY <1>1, <1>2, <1>3, <2>1, <3>1
    <3> QED BY <1>1, <1>2, <1>3, <3>2
  <2> QED BY <2>2, <2>3, <2>4
<1>5. ASSUME IsInjective(p), IsInjective(q),
             \A i \in DOMAIN p, j \in DOMAIN q : p[i] # q[j]
      PROVE  IsInjective(s)
  <2> SUFFICES ASSUME NEW a \in 1 .. m + n, NEW b \in 1 .. m + n, s[a] = s[b]
               PROVE  a = b
    BY <1>1 DEF IsInjective
  <2>1. /\ a \in 1 .. m \/ (a - m \in 1 .. n /\ s[a] = q[a - m])
        /\ b \in 1 .. m \/ (b - m \in 1 .. n /\ s[b] = q[b - m])
    <3>1. ASSUME NEW c \in 1 .. m + n, c \notin 1 .. m
          PROVE  c - m \in 1 .. n /\ s[c] = q[c - m]
      <4>1. c - m \in 1 .. n /\ m + (c - m) = c
        BY <1>1, <3>1
      <4> QED BY <1>3, <4>1
    <3> QED BY <3>1
  <2>2. CASE a \in 1 .. m /\ b \in 1 .. m
    BY <1>1, <1>2, <1>5, <2>2 DEF IsInjective
  <2>3. CASE a \in 1 .. m /\ b \notin 1 .. m
    BY <1>1, <1>2, <1>5, <2>1, <2>3
  <2>4. CASE a \notin 1 .. m /\ b \in 1 .. m
    BY <1>1, <1>2, <1>5, <2>1, <2>4
  <2>5. CASE a \notin 1 .. m /\ b \notin 1 .. m
    <3>1. a - m = b - m
      BY <1>1, <1>5, <2>1, <2>5 DEF IsInjective
    <3> QED BY <1>1, <3>1
  <2> QED BY <2>2, <2>3, <2>4, <2>5
<1> QED BY <1>4, <1>5 DEF s

(* A fresh element keeps a sequence without repetition.                     *)
LEMMA FreshOnce ==
  ASSUME NEW S, NEW p \in Seq(S), NEW c \in S, IsInjective(p), \A i \in DOMAIN p : p[i] # c
  PROVE  IsInjective(Append(p, c))
<1>1. /\ Len(p) \in Nat /\ DOMAIN p = 1 .. Len(p) /\ DOMAIN Append(p, c) = 1 .. Len(p) + 1
      /\ \A i \in 1 .. Len(p) : Append(p, c)[i] = p[i]
      /\ Append(p, c)[Len(p) + 1] = c
  OBVIOUS
<1> SUFFICES ASSUME NEW a \in 1 .. Len(p) + 1, NEW b \in 1 .. Len(p) + 1,
                    Append(p, c)[a] = Append(p, c)[b]
             PROVE  a = b
  BY <1>1 DEF IsInjective
<1>2. (a \in 1 .. Len(p) \/ a = Len(p) + 1) /\ (b \in 1 .. Len(p) \/ b = Len(p) + 1)
  BY <1>1
<1>3. CASE a \in 1 .. Len(p) /\ b \in 1 .. Len(p)
  BY <1>1, <1>3 DEF IsInjective
<1>4. CASE a \in 1 .. Len(p) /\ b = Len(p) + 1
  BY <1>1, <1>4
<1>5. CASE a = Len(p) + 1 /\ b \in 1 .. Len(p)
  BY <1>1, <1>5
<1> QED BY <1>2, <1>3, <1>4, <1>5

(* A callback waits in one place at most, and those to be called have the   *)
(* task set or running.                                                     *)
LEMMA QueuesAreKept ==
  ASSUME QueueInv, [AmmNext]_ammVars
  PROVE  QueueInv'
<1> USE DEF QueueInv, RetryRequested
<1>0. /\ IsInjective(pending) /\ IsInjective(active)
      /\ \A i \in DOMAIN pending, j \in DOMAIN active : pending[i] # active[j]
  BY JoinedOnce
<1>1. CASE UNCHANGED queues
  BY <1>1 DEF queues
<1>2. ASSUME NEW cb \in Callback \cup {NoCallback}, AllocFails(cb) PROVE QueueInv'
  <2>1. /\ UNCHANGED <<active, ammRequested, processing>> /\ cb \notin ToSet(pending \o active)
        /\ pending' = IF cb = NoCallback THEN pending ELSE Append(pending, cb)
    BY <1>2 DEF AllocFails
  <2>2. CASE cb = NoCallback
    <3>1. UNCHANGED queues
      BY <2>1, <2>2 DEF queues
    <3> QED BY <1>1, <3>1
  <2>3. CASE cb # NoCallback
    <3>1. cb \in Callback /\ pending' = Append(pending, cb) /\ pending' \in Seq(Callback)
      BY <2>1, <2>3
    <3>2. \A i \in DOMAIN pending : pending[i] # cb
      <4> TAKE i \in DOMAIN pending
      <4>1. i \in DOMAIN (pending \o active) /\ (pending \o active)[i] = pending[i]
        OBVIOUS
      <4> QED BY <2>1, <4>1 DEF ToSet
    <3>3. \A j \in DOMAIN active : active[j] # cb
      <4> TAKE j \in DOMAIN active
      <4>1. /\ Len(pending) + j \in DOMAIN (pending \o active)
            /\ (pending \o active)[Len(pending) + j] = active[j]
        OBVIOUS
      <4> QED BY <2>1, <4>1 DEF ToSet
    <3>4. IsInjective(pending')
      BY <1>0, <3>1, <3>2, FreshOnce
    <3>5. \A i \in DOMAIN pending', j \in DOMAIN active' : pending'[i] # active'[j]
      <4> TAKE i \in DOMAIN pending', j \in DOMAIN active'
      <4>1. active' = active
        BY <2>1
      <4>2. (i \in DOMAIN pending /\ pending'[i] = pending[i]) \/ pending'[i] = cb
        BY <3>1
      <4> QED BY <1>0, <3>3, <4>1, <4>2
    <3>6. IsInjective(pending' \o active')
      BY <1>0, <2>1, <3>1, <3>4, <3>5, JoinedOnce
    <3> QED BY <2>1, <3>1, <3>6
  <2> QED BY <2>2, <2>3
<1>3. ASSUME NEW b \in Buffer, AMM_Free(b) PROVE QueueInv'
  <2>1. /\ pending' = <<>> /\ active' = active \o pending /\ ammRequested' = TRUE
        /\ UNCHANGED processing
    BY <1>3 DEF AMM_Free
  <2>2. active' \in Seq(Callback) /\ pending' \in Seq(Callback) /\ pending' \o active' = active'
    BY <2>1
  <2>3. \A i \in DOMAIN active, j \in DOMAIN pending : active[i] # pending[j]
    BY <1>0
  <2>4. IsInjective(active \o pending)
    BY <1>0, <2>3, JoinedOnce
  <2>5. IsInjective(pending' \o active')
    BY <2>1, <2>2, <2>4
  <2> QED BY <2>1, <2>2, <2>5
<1>4. CASE RunAmmTask \/ EndTask
  <2>1. /\ UNCHANGED <<pending, active>> /\ ammRequested' \in BOOLEAN /\ processing' \in BOOLEAN
        /\ active' # <<>> => processing'
    BY <1>4 DEF RunAmmTask, EndTask
  <2> QED BY <2>1
<1>5. CASE InvokeCallback
  <2>1. /\ active # <<>> /\ active' = Tail(active) /\ processing
        /\ UNCHANGED <<pending, ammRequested, processing>>
    BY <1>5 DEF InvokeCallback
  <2>2. /\ active' \in Seq(Callback) /\ DOMAIN active' = 1 .. Len(active) - 1
        /\ \A j \in 1 .. Len(active) - 1 : active'[j] = active[j + 1] /\ j + 1 \in DOMAIN active
    BY <2>1
  <2>3. IsInjective(active')
    <3> SUFFICES ASSUME NEW a \in 1 .. Len(active) - 1, NEW b \in 1 .. Len(active) - 1,
                        active'[a] = active'[b]
                 PROVE  a = b
      BY <2>2 DEF IsInjective
    <3>1. a + 1 = b + 1
      BY <1>0, <2>2 DEF IsInjective
    <3> QED BY <3>1
  <2>4. \A i \in DOMAIN pending', j \in DOMAIN active' : pending'[i] # active'[j]
    BY <1>0, <2>1, <2>2
  <2>5. IsInjective(pending' \o active')
    BY <1>0, <2>1, <2>2, <2>3, <2>4, JoinedOnce
  <2> QED BY <2>1, <2>2, <2>5
<1> QED
  <2>1. ASSUME NEW c \in Config, AMM_Init(c) PROVE UNCHANGED queues
    BY <2>1 DEF AMM_Init
  <2>2. ASSUME NEW b \in Buffer, NEW size \in 1 .. MaxSize, AllocShared(b, size)
        PROVE  UNCHANGED queues
    BY <2>2 DEF AllocShared
  <2>3. ASSUME NEW b \in Buffer, NEW size \in 1 .. MaxSize, NEW m \in VM, AllocVirtual(b, m, size)
        PROVE  UNCHANGED queues
    BY <2>3 DEF AllocVirtual
  <2>4. UNCHANGED ammVars => UNCHANGED queues
    BY DEF ammVars, queues
  <2> QED BY <1>1, <1>2, <1>3, <1>4, <1>5, <2>1, <2>2, <2>3, <2>4 DEF AmmNext

-----------------------------------------------------------------------------
(***************************************************************************)
(* The theorem.                                                            *)
(***************************************************************************)

(* Before anything is configured the books are blank,                       *)
LEMMA InitAmmIInv == AmmInit => AmmIInv
<1> SUFFICES ASSUME AmmInit PROVE AmmIInv
  OBVIOUS
<1>1. Unheld \in Record /\ Unheld.size = 0
  BY AmmConstants DEF Unheld, Record
<1>2. LedgerInv
  BY <1>1 DEF AmmInit, LedgerInv, Blank
<1>3. pending \in Seq(Callback) /\ active \in Seq(Callback) /\ DOMAIN (pending \o active) = {}
  BY DEF AmmInit
<1>4. IsInjective(pending \o active)
  BY <1>3 DEF IsInjective
<1>5. active = <<>> /\ ammRequested \in BOOLEAN /\ processing \in BOOLEAN
  BY DEF AmmInit
<1>6. QueueInv
  BY <1>3, <1>4, <1>5 DEF QueueInv, RetryRequested
<1> QED BY <1>2, <1>6 DEF AmmIInv

(* every operation keeps them,                                              *)
LEMMA NextAmmIInv == AmmIInv /\ [AmmNext]_ammVars => AmmIInv'
<1> SUFFICES ASSUME LedgerInv, QueueInv, [AmmNext]_ammVars PROVE LedgerInv'
  BY QueuesAreKept DEF AmmIInv
<1>1. CASE UNCHANGED <<config, counters, held>>
  BY <1>1 DEF config, counters, LedgerInv, Blank
<1>2. ASSUME NEW b \in Buffer, AMM_Free(b) PROVE LedgerInv'
  <2>1. held[b].owner = Shared \/ held[b].owner \in VM
    BY DEF LedgerInv, Record
  <2> QED BY <1>2, <2>1, FreeSharedKeepsLedger, FreeVirtualKeepsLedger
<1>3. ASSUME NEW cb \in Callback \cup {NoCallback}, AllocFails(cb) PROVE LedgerInv'
  BY <1>1, <1>3 DEF AllocFails
<1>4. CASE RunAmmTask \/ InvokeCallback \/ EndTask
  BY <1>1, <1>4 DEF RunAmmTask, InvokeCallback, EndTask
<1>5. CASE UNCHANGED ammVars
  BY <1>1, <1>5 DEF ammVars, config, counters
<1> QED
  BY <1>2, <1>3, <1>4, <1>5, InitKeepsLedger, AllocSharedKeepsLedger, AllocVirtualKeepsLedger
     DEF AmmNext

(* and from the books follows what the users rely on.                       *)
LEMMA BooksAreRight == AmmIInv => AccountsAreKept
<1> SUFFICES ASSUME AmmIInv PROVE AccountsAreKept
  OBVIOUS
<1>0. /\ held \in [Buffer -> Record] /\ initialized \in BOOLEAN
      /\ pending \in Seq(Callback) /\ active \in Seq(Callback)
      /\ IsInjective(pending \o active) /\ RetryRequested
      /\ ammRequested \in BOOLEAN /\ processing \in BOOLEAN
  BY DEF AmmIInv, LedgerInv, QueueInv
<1>1. ToSet(pending \o active) \subseteq Callback
  <2>1. pending \o active \in Seq(Callback)
    BY <1>0
  <2> QED BY <2>1 DEF ToSet
<1>2. CASE ~initialized
  <2>1. Blank
    BY <1>2 DEF AmmIInv, LedgerInv
  <2>2. AmmTypeOK
    BY <1>0, <1>1, <2>1 DEF Blank, AmmTypeOK, Record
  <2> QED BY <1>0, <1>2, <2>2 DEF AccountsAreKept, CountersAgree, ReservationsKept
<1>3. CASE initialized
  <2>1. Books(ammPool, occupiedShared, required, reserved, occupied, held)
    BY <1>3 DEF AmmIInv, LedgerInv
  <2>2. /\ ammPool \in Nat /\ occupiedShared \in Nat /\ required \in Nat
        /\ occupied \in [VM -> Nat] /\ reserved \in [VM -> Nat]
        /\ Words(held, Shared) \in Nat /\ SumFunction(occupied) \in Nat
        /\ Beyond(occupied, reserved) \in Nat /\ Left(occupied, reserved) \in Nat
        /\ occupiedShared + required <= ammPool
        /\ occupiedShared = Info + Words(held, Shared) + Beyond(occupied, reserved)
        /\ Info + Words(held, Shared) + SumFunction(occupied) + Left(occupied, reserved)
             = occupiedShared + required
        /\ \A m \in VM : occupied[m] = Words(held, m) /\ occupied[m] <= SumFunction(occupied)
    BY <2>1, BooksAddUp
  <2>3. \A m \in VM : occupied[m] = HeldBy(m)
    BY <2>2 DEF Words, HeldBy
  <2>4. Words(held, Shared) = HeldBy(Shared)
    BY DEF Words, HeldBy
  <2>5. Beyond(occupied, reserved) = SumFunction([m \in VM |-> Excess(m)])
        /\ Left(occupied, reserved) = SumFunction([m \in VM |-> Unused(m)])
    <3>1. /\ [m \in VM |-> Positive(occupied[m] - reserved[m])] = [m \in VM |-> Excess(m)]
          /\ [m \in VM |-> Positive(reserved[m] - occupied[m])] = [m \in VM |-> Unused(m)]
      BY <2>3 DEF Excess, Unused
    <3> QED BY <3>1 DEF Beyond, Left
  <2>6. occupied \in [VM -> 0 .. ammPool]
    <3>1. \A m \in VM : occupied[m] \in 0 .. ammPool
      <4> TAKE m \in VM
      <4>1. occupied[m] \in Nat /\ occupied[m] <= SumFunction(occupied)
        BY <2>2
      <4>2. SumFunction(occupied) <= ammPool
        BY <2>2, AmmConstants
      <4> QED BY <2>2, <4>1, <4>2
    <3> QED BY <2>2, <3>1
  <2>7. AmmTypeOK
    <3>1. required \in 0 .. ammPool /\ occupiedShared \in 0 .. ammPool
      BY <2>2
    <3> QED BY <1>0, <1>1, <2>2, <2>6, <3>1 DEF AmmTypeOK, Record
  <2>8. CountersAgree
    <3>1. occupiedShared = InfoSize * Cardinality(VM) + HeldBy(Shared)
                           + SumFunction([m \in VM |-> Excess(m)])
      BY <2>2, <2>4, <2>5 DEF Info
    <3> QED BY <2>3, <2>7, <3>1 DEF CountersAgree
  <2>9. ReservationsKept
    <3>1. Given = Info + Words(held, Shared) + SumFunction(occupied)
      BY <2>1, Counters
    <3>2. Given + SumFunction([m \in VM |-> Unused(m)]) <= ammPool
      BY <2>2, <2>5, <3>1
    <3> QED BY <3>2 DEF ReservationsKept
  <2> QED BY <1>0, <2>8, <2>9 DEF AccountsAreKept
<1> QED BY <1>0, <1>2, <1>3

(* In whatever order buffers are allocated and freed, the counters agree    *)
(* with what is held, each virtual memory finds what it has reserved, and   *)
(* those who wait for memory are on their way to be told.                   *)
THEOREM AmmAccountsKept == AmmSpec => []AccountsAreKept
<1>1. AmmSpec => []AmmIInv
  BY InitAmmIInv, NextAmmIInv, PTL DEF AmmSpec
<1> QED
  BY <1>1, BooksAreRight, PTL
==============================================================================
