------------------------------ MODULE RngDriver ------------------------------
(***************************************************************************)
(* The driver of the random number generator: numbers are polled for or    *)
(* asked for by interrupt, while the noise source and the clock fail and   *)
(* recover at any time.                                                    *)
(*                                                                         *)
(* As in the module Rtc, `rngTodo' is the code the core still has to run.  *)
(* The pool of numbers above, which does without this driver once the      *)
(* platform has started, is the module HwRng.  The driver's error code,    *)
(* which only reports, is left out.                                        *)
(***************************************************************************)
EXTENDS Integers, Sequences

VARIABLES rng,       \* handle and registers
          rngTodo,   \* what the core still executes
          handedOut  \* history: the last number a caller was given, and how

rngDriverVars == <<rng, rngTodo, handedOut>>

-----------------------------------------------------------------------------
(* Code.                                                                    *)
RngReturn == <<<<"return">>>>
RngSet(field, value) == <<<<"set", field, value>>>>
RngState(s) == RngSet("state", s)
UnlockRng == RngSet("lock", FALSE)
EnableRng == RngSet("en", TRUE)
DisableRng == RngSet("en", FALSE)
EnableRngIt == RngSet("ie", TRUE)
DisableRngIt == RngSet("ie", FALSE)
ClearSeedError == RngSet("seis", FALSE)
RngWhen(field, value, yes, no) == <<<<"when", field, value, yes, no>>>>
WaitRng(what, intime, late) == <<<<"wait", what, intime, late>>>>
RngIdle == RngState("READY") \o UnlockRng

(* The conditioning logic is reset, and runs again once the hardware says so. *)
Recondition(ok, late) == <<<<"reset">>>> \o WaitRng("conditioned", ok, late)

HAL_RNG_MspInit == RngSet("clocked", TRUE)       \* bus clock and interrupt
HAL_RNG_MspDeInit == RngSet("clocked", FALSE)

HAL_RNG_Init ==
  RngWhen("state", "RESET", UnlockRng \o HAL_RNG_MspInit, <<>>) \o RngState("BUSY") \o DisableRng
    \o Recondition(
         EnableRng \o RngWhen("seis", TRUE,
           RngState("ERROR"),
           WaitRng("data", RngState("READY"), RngState("ERROR"))),
         RngState("READY"))
    \o RngReturn

HAL_RNG_DeInit ==
  Recondition(
    <<<<"stop">>>> \o RngSet("ceis", FALSE) \o ClearSeedError \o HAL_RNG_MspDeInit
      \o RngSet("stray", FALSE) \o RngState("RESET") \o UnlockRng,
    RngSet("stray", TRUE) \o RngIdle) \o RngReturn

(* If the source has reset itself only its flag is cleared.                 *)
RNG_RecoverSeedError(ok) ==
  LET done == RngSet("recovering", FALSE)
      failed == done \o RngIdle
  IN RngSet("recovering", TRUE)
       \o RngWhen("secs", FALSE, ClearSeedError \o done \o ok,
            Recondition(RngWhen("seis", TRUE, ClearSeedError, <<>>) \o WaitRng("source", done \o ok, failed), failed))

(* A bug to catch: the status is checked before the data register is read.  *)
ChecksBeforeReading == RngWhen("seis", TRUE, <<<<"read">>>>, <<<<"read">>, <<"give", "poll">>>>)
ReadNumber == <<<<"read">>>> \o RngWhen("seis", TRUE, <<>>, <<<<"give", "poll">>>>)

HAL_RNG_GenerateRandomNumber ==
  LET poll == WaitRng("data", ReadNumber \o RngIdle, RngIdle)
  IN <<<<"take">>>>
       \o RngWhen("state", "READY",
            RngState("BUSY") \o RngWhen("seis", TRUE, RNG_RecoverSeedError(poll), poll),
            UnlockRng)
       \o RngReturn

HAL_RNG_GenerateRandomNumber_IT ==
  <<<<"take">>>>
    \o RngWhen("state", "READY", RngState("BUSY") \o EnableRngIt, UnlockRng) \o RngReturn

IfReady(body) == RngWhen("state", "READY", RngState("BUSY") \o body, <<>>) \o RngReturn
HAL_RNGEx_SetConfig ==
  IfReady(DisableRng
            \o Recondition(EnableRng \o RngState("READY"), RngState("READY")))
HAL_RNGEx_GetConfig == IfReady(RngState("READY"))
HAL_RNGEx_LockConfig == IfReady(RngState("READY"))

(* Once it succeeds the handle stays busy: only HAL_RNG_DeInit frees it.    *)
HAL_RNGEx_RecoverSeedError ==
  IfReady(RNG_RecoverSeedError(RngSet("stray", TRUE)))

-----------------------------------------------------------------------------
(* The interrupt handler, from the status it reads first.                   *)
RngErrorFound ==
  RngState("ERROR") \o <<<<"error callback">>>> \o RngSet("ceis", FALSE) \o ClearSeedError

NumberRead ==
  <<<<"read">>>>
    \o RngWhen("state", "ERROR", <<>>,
         RngState("READY") \o UnlockRng \o <<<<"give", "interrupt">>, <<"ready callback">>>>)

(* A bug to catch: the interrupt is disabled after the callback, which may  *)
(* have asked for the next number.                                          *)
DisablesAfterCallback == NumberRead \o DisableRngIt

NumberFound == DisableRngIt \o NumberRead

HAL_RNG_IRQHandler ==
  CASE rng.ceis -> RngErrorFound
    [] ~rng.ceis /\ rng.seis /\ rng.secs -> DisableRngIt \o RngErrorFound
    [] OTHER -> (IF rng.seis THEN ClearSeedError ELSE <<>>) \o (IF rng.word # "none" THEN NumberFound ELSE <<>>)

-----------------------------------------------------------------------------
RngIs(kind) == rngTodo # <<>> /\ Head(rngTodo)[1] = kind
RngThen(code) == rngTodo' = code \o Tail(rngTodo)

WriteRng ==
  /\ \/ RngIs("set") /\ rng' = [rng EXCEPT ![Head(rngTodo)[2]] = Head(rngTodo)[3]]
     \/ RngIs("reset") /\ rng' = [rng EXCEPT !.resetting = TRUE, !.word = "none"]
     \/ RngIs("stop") /\ rng' = [rng EXCEPT !.en = FALSE, !.ie = FALSE]
     \/ RngIs("leave") /\ rng' = [rng EXCEPT !.late = FALSE]
  /\ RngThen(<<>>) /\ UNCHANGED handedOut

(* A call that finds the lock taken returns HAL_BUSY.                       *)
TakeRngLock ==
  /\ RngIs("take")
  /\ LET end == CHOOSE i \in DOMAIN rngTodo :
           rngTodo[i][1] = "return" /\ \A j \in 1 .. i - 1 : rngTodo[j][1] # "return"
     IN IF rng.lock
        THEN rngTodo' = SubSeq(rngTodo, end + 1, Len(rngTodo)) /\ UNCHANGED rng
        ELSE rng' = [rng EXCEPT !.lock = TRUE] /\ RngThen(<<>>)
  /\ UNCHANGED handedOut

Awaited(what) ==
  CASE what = "conditioned" -> ~rng.resetting
    [] what = "source" -> ~rng.secs
    [] what = "data" -> rng.word # "none"

(* A wait ends when the hardware answers, or when the time is up and it     *)
(* still has not.                                                           *)
BranchRng ==
  /\ \/ /\ RngIs("when")
        /\ RngThen(IF rng[Head(rngTodo)[2]] = Head(rngTodo)[3] THEN Head(rngTodo)[4] ELSE Head(rngTodo)[5])
     \/ /\ RngIs("wait")
        /\ RngThen(IF Awaited(Head(rngTodo)[2]) THEN Head(rngTodo)[3] ELSE Head(rngTodo)[4])
     \/ RngIs("return") /\ RngThen(<<>>)
     \/ RngIs("error callback") /\ RngThen(<<>>)
     \/ RngIs("ready callback") /\ \E code \in {<<>>, HAL_RNG_GenerateRandomNumber_IT} : RngThen(code)
  /\ UNCHANGED <<rng, handedOut>>

(* Reading the data register takes the word from it, or 0 if a reset of the *)
(* conditioning logic has dropped it since the status was read.             *)
ReadRng ==
  /\ \/ RngIs("read") /\ rng' = [rng EXCEPT !.word = "none", !.random = rng.word] /\ UNCHANGED handedOut
     \/ RngIs("give") /\ handedOut' = [how |-> Head(rngTodo)[2], number |-> rng.random,
                                       late |-> rng.late, stray |-> rng.stray] /\ UNCHANGED rng
  /\ RngThen(<<>>)

-----------------------------------------------------------------------------
(* The generator.  An error of its source spoils the word it holds, and a   *)
(* reset of the conditioning logic, asked for or its own, drops it.  Errors *)
(* come one at a time: one that comes while the last is not yet cleared, or *)
(* is recovered from, would be cleared unseen with it.                      *)
GeneratorRuns == rng.clocked /\ rng.en /\ ~rng.resetting

InRngHandler == \E i \in DOMAIN rngTodo : rngTodo[i][1] = "leave"

Generates ==
  \/ GeneratorRuns /\ ~rng.secs /\ rng.word = "none" /\ rng' = [rng EXCEPT !.word = "sound"]
  \/ GeneratorRuns /\ ~rng.seis /\ ~rng.recovering /\ rng' = [rng EXCEPT !.seis = TRUE, !.secs = TRUE,
                                         !.word = IF @ = "none" THEN @ ELSE "suspect", !.late = InRngHandler]
  \/ GeneratorRuns /\ rng.secs /\ rng' = [rng EXCEPT !.secs = FALSE, !.word = "none"]
  \/ rng.clocked /\ rng.en /\ rng' = [rng EXCEPT !.ceis = TRUE]
  \/ rng.resetting /\ \E secs \in {rng.secs, FALSE} :
       rng' = [rng EXCEPT !.resetting = FALSE, !.secs = secs]

GeneratorStep == Generates /\ UNCHANGED <<rngTodo, handedOut>>

RNG_IRQHandler ==
  /\ rng.clocked /\ rng.ie /\ ~InRngHandler
  /\ rng.ceis \/ rng.seis \/ rng.word # "none"
  /\ rngTodo' = HAL_RNG_IRQHandler \o <<<<"leave">>>> \o rngTodo
  /\ UNCHANGED <<rng, handedOut>>

(* The caller opens the driver before it uses it, and closes it after a     *)
(* failure that left the handle busy or its lock taken.                     *)
CallRng ==
  /\ rngTodo = <<>>
  /\ \E code \in CASE rng.state = "RESET" -> {HAL_RNG_Init}
                   [] rng.stray -> {HAL_RNG_DeInit}
                   [] OTHER -> {HAL_RNG_DeInit, HAL_RNG_GenerateRandomNumber, HAL_RNG_GenerateRandomNumber_IT,
                                HAL_RNGEx_SetConfig, HAL_RNGEx_GetConfig, HAL_RNGEx_LockConfig,
                                HAL_RNGEx_RecoverSeedError}
                               \cup (IF rng.lock THEN {} ELSE {HAL_RNG_Init}) : rngTodo' = code
  /\ UNCHANGED <<rng, handedOut>>

RngDriverInit ==
  /\ rng = [state |-> "RESET", lock |-> FALSE, stray |-> FALSE, clocked |-> FALSE, en |-> FALSE, ie |-> FALSE,
            recovering |-> FALSE, resetting |-> FALSE, seis |-> FALSE, secs |-> FALSE, ceis |-> FALSE, word |-> "none",
            random |-> "none", late |-> FALSE]
  /\ rngTodo = <<>> /\ handedOut = [how |-> "poll", number |-> "sound", late |-> FALSE, stray |-> FALSE]

RngDriverNext ==
  \/ WriteRng \/ TakeRngLock \/ BranchRng \/ ReadRng
  \/ GeneratorStep \/ RNG_IRQHandler \/ CallRng

RngDriverSpec == RngDriverInit /\ [][RngDriverNext]_rngDriverVars

-----------------------------------------------------------------------------
(* A number that is polled for was not in the data register when the noise  *)
(* source failed.  Nor was one that is given by interrupt, unless the source *)
(* failed after the handler had read the status, see                        *)
(* InterruptNumbersAreSound, or the number was asked for before a close     *)
(* that timed out and left the interrupt on.                                *)
RngNumbersAreSound ==
  handedOut.how = "poll" \/ ~(handedOut.late \/ handedOut.stray) => handedOut.number = "sound"

(* "In the case of a seed error [...] if a number is available in the RNG_DR *)
(* register, it must not be used because it may not have enough entropy"    *)
(* (stm32wbaxx_hal_rng.c:752), says the handler of itself.  It reads the    *)
(* data register after the status and, unlike the call that polls (line     *)
(* 681), does not look at the status again.                                 *)
InterruptNumbersAreSound ==
  handedOut.how = "interrupt" /\ ~handedOut.stray => handedOut.number = "sound"

(* Between calls the handle is busy only while it waits for an interrupt    *)
(* that can still come, and a handle that is ready has its lock free and no *)
(* interrupt that could take a number from a call that polls.  A close that *)
(* timed out and a recovery that succeeded are excepted.                    *)
RngBusyIsServed ==
  rngTodo = <<>> /\ ~rng.stray =>
    /\ rng.state = "BUSY" => rng.lock /\ rng.ie /\ rng.clocked
    /\ rng.state = "READY" => ~rng.lock /\ ~rng.ie

(* The driver gives no number that is not sound, and serves who waits.      *)
RngDriverIsSound == RngNumbersAreSound /\ RngBusyIsServed
=============================================================================
