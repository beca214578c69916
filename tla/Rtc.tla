-------------------------------- MODULE Rtc --------------------------------
(***************************************************************************)
(* The driver of the real-time clock: its calls protect registers and take *)
(* a lock, its interrupts come between any two accesses, and a callback    *)
(* may call the driver again.                                              *)
(*                                                                         *)
(* `rtcTodo' is the code the core still has to run.  A step that waits for *)
(* the peripheral carries the code for either outcome, the expected one    *)
(* and the timeout.                                                        *)
(***************************************************************************)
EXTENDS Integers, Sequences

CONSTANT Together   \* bound: the features a behaviour uses together

VARIABLES rtc,       \* handle and registers
          rtcTodo,   \* what the core still executes
          inUse,     \* the features this behaviour uses
          calendar   \* registers of time and date, and what they should read

rtcVars == <<rtc, rtcTodo, inUse, calendar>>

RtcAlarm == {"A", "B"}
RtcTamper == {"tamper", "internal"}
RtcEvent == RtcAlarm \cup RtcTamper \cup {"wut", "ts", "ssru"}

Unknown == -1       \* after a call that failed
ResetCalendar == [hours |-> 0, month |-> 1, expected |-> [hours |-> 0, month |-> 1]]

RTC_ByteToBcd2(value) == 16 * (value \div 10) + (value % 10)
RTC_Bcd2ToByte(value) == 10 * (value \div 16) + (value % 16)

-----------------------------------------------------------------------------
(* Calls as code.                                                           *)
RtcReturn == <<<<"return">>>>
RtcState(s) == <<<<"state", s>>>>
Ready == RtcState("READY")
Protect == <<<<"prot", TRUE>>>>
Unprotect == <<<<"prot", FALSE>>>>
Either(one, other) == <<<<"either", one, other>>>>
Answers(intime, late) == Either(intime, late)     \* the peripheral answers, or the wait times out
Flagged(e, yes, no) == <<<<"flagged", e, yes, no>>>>
Given(field, yes, no) == <<<<"given", field, yes, no>>>>
Disable(e) == <<<<"disable", {e}, {e}>>>>
StopSource(e) == <<<<"disable", {e}, {}>>>>
Enable(e) == <<<<"enable", e, FALSE>>>>
EnableIt(e) == <<<<"enable", e, TRUE>>>>
ClearFlag(e) == <<<<"clear", {e}>>>>
Report(e) == <<<<"report", e>>>>       \* clears the flag of an event the caller is told of
Unlock == <<<<"lock", FALSE>>>> \o RtcReturn
RtcLocked(body) == <<<<"take">>>> \o RtcState("BUSY") \o body \o Unlock

HAL_RTC_WaitForSynchro(ok, failed) == Answers(ok, RtcState("TIMEOUT") \o failed)

RTC_EnterInitMode(ok, failed) ==
  Given("initf", ok, <<<<"init", TRUE>>>> \o Given("initf", ok, RtcState("TIMEOUT") \o failed))

RTC_ExitInitMode(ok, failed) ==
  <<<<"init", FALSE>>>> \o
  LET bypass == <<<<"byp", TRUE>>>>
  IN Given("byp", <<<<"byp", FALSE>>>> \o HAL_RTC_WaitForSynchro(bypass \o ok, RtcState("TIMEOUT") \o bypass \o failed),
                  HAL_RTC_WaitForSynchro(ok, RtcState("TIMEOUT") \o failed))

(* A bug to catch: a failure to leave init mode returns at once.            *)
FailsUnprotected(body, ok) ==
  Unprotect \o RTC_EnterInitMode(body \o RTC_ExitInitMode(Protect \o ok, <<>>), Protect)

InInitMode(body, ok) ==
  Unprotect \o RTC_EnterInitMode(body \o RTC_ExitInitMode(Protect \o ok, Protect), Protect)

HAL_RTC_Init ==
  (IF rtc.state = "RESET" THEN <<<<"lock", FALSE>>>> ELSE <<>>) \o RtcState("BUSY")
    \o Either(Ready, InInitMode(<<>>, Ready)) \o RtcReturn

HAL_RTC_DeInit ==
  RtcState("BUSY")
    \o InInitMode(<<<<"disable", RtcEvent, RtcEvent \ RtcTamper>>, <<"byp", FALSE>>, <<"refck", FALSE>>,
                    <<"reset">>, <<"clear", RtcAlarm \cup {"wut", "ts", "tsovf"}>>>>,
                  RtcState("RESET"))
    \o Unlock

(* The register is written with the value of that field, and the call that  *)
(* succeeds confirms it.                                                    *)
SetField(field, register, value) ==
  RtcLocked(InInitMode(<<<<"write", field, register>>>>, <<<<"confirm", field, value>>>> \o Ready))

HAL_RTC_SetTime(hours, format) ==
  IF format = "BIN" THEN SetField("hours", RTC_ByteToBcd2(hours), hours)
  ELSE SetField("hours", hours, RTC_Bcd2ToByte(hours))

(* A month given in BCD although the format is binary is taken as BCD.      *)
BinaryMonth(month) == IF (month \div 16) % 2 = 1 THEN month - 16 + 10 ELSE month

HAL_RTC_SetDate(month, format) ==
  IF format = "BIN" THEN SetField("month", RTC_ByteToBcd2(BinaryMonth(month)), IF month > 12 THEN RTC_Bcd2ToByte(month) ELSE month)
  ELSE SetField("month", month, RTC_Bcd2ToByte(month))

HAL_RTC_GetTime(format) == IF format = "BIN" THEN RTC_Bcd2ToByte(calendar.hours) ELSE calendar.hours
HAL_RTC_GetDate(format) == IF format = "BIN" THEN RTC_Bcd2ToByte(calendar.month) ELSE calendar.month

HAL_RTC_DST_Add1Hour == Unprotect \o <<<<"shift", 1>>>> \o Protect \o RtcReturn
HAL_RTC_DST_Sub1Hour == Unprotect \o <<<<"shift", 23>>>> \o Protect \o RtcReturn

HAL_RTC_SetAlarm(e) == RtcLocked(Disable(e) \o ClearFlag(e) \o Enable(e) \o Ready)
HAL_RTC_SetAlarm_IT(e) == RtcLocked(Disable(e) \o ClearFlag(e) \o EnableIt(e) \o Ready)
HAL_RTC_DeactivateAlarm(e) == RtcLocked(Disable(e) \o Ready)

PollFor(e) == Flagged(e, Report(e), <<>>) \o RtcReturn
HAL_RTC_PollForAlarmAEvent == PollFor("A")
HAL_RTCEx_PollForAlarmBEvent == PollFor("B")
HAL_RTCEx_PollForWakeUpTimerEvent == PollFor("wut")
HAL_RTCEx_PollForTamperEvent == PollFor("tamper")
HAL_RTCEx_PollForInternalTamperEvent == PollFor("internal")
HAL_RTCEx_PollForTimeStampEvent == Flagged("ts", <<>>, <<>>) \o RtcReturn

HAL_RTCEx_SetTimeStamp == RtcLocked(StopSource("ts") \o Enable("ts") \o Ready)
HAL_RTCEx_SetTimeStamp_IT == RtcLocked(Disable("ts") \o EnableIt("ts") \o Ready)
HAL_RTCEx_DeactivateTimeStamp == RtcLocked(Disable("ts") \o Ready)
HAL_RTCEx_GetTimeStamp ==
  Flagged("ts", Report("ts") \o Flagged("tsovf", ClearFlag("tsovf"), <<>>), <<>>) \o RtcReturn

(* The wake-up timer may be written once it says so, or in init mode.       *)
WhenWritable(body) ==
  Given("initf", body, Answers(body, RtcState("TIMEOUT")))

HAL_RTCEx_SetWakeUpTimer == RtcLocked(StopSource("wut") \o WhenWritable(Enable("wut") \o Ready))
HAL_RTCEx_SetWakeUpTimer_IT ==
  RtcLocked(StopSource("wut") \o ClearFlag("wut") \o WhenWritable(EnableIt("wut") \o Ready))
HAL_RTCEx_DeactivateWakeUpTimer == RtcLocked(Disable("wut") \o Ready)

HAL_RTCEx_SetSmoothCalib ==
  RtcLocked(Answers(Unprotect \o Protect \o Ready, RtcState("TIMEOUT")))
HAL_RTCEx_SetLowPowerCalib == RtcLocked(Unprotect \o Protect \o Ready)

HAL_RTCEx_SetSynchroShift ==
  LET done == Protect \o Ready
      failed == Protect \o RtcState("ERROR")
  IN RtcLocked(Answers(Unprotect \o Given("refck", failed, Given("byp", done, HAL_RTC_WaitForSynchro(done, failed))),
                       RtcState("TIMEOUT")))

HAL_RTCEx_SetRefClock == RtcLocked(InInitMode(<<<<"refck", TRUE>>>>, Ready))
HAL_RTCEx_DeactivateRefClock == RtcLocked(InInitMode(<<<<"refck", FALSE>>>>, Ready))
HAL_RTCEx_EnableBypassShadow == RtcLocked(<<<<"byp", TRUE>>>> \o Ready)
HAL_RTCEx_DisableBypassShadow == RtcLocked(<<<<"byp", FALSE>>>> \o Ready)

HAL_RTCEx_SetSSRU_IT == RtcLocked(EnableIt("ssru") \o Ready)
HAL_RTCEx_DeactivateSSRU == RtcLocked(Disable("ssru") \o Ready)

(* The tamper functions take no lock.                                       *)
HAL_RTCEx_SetTamper == Enable("tamper") \o RtcReturn
HAL_RTCEx_SetTamper_IT == EnableIt("tamper") \o RtcReturn
HAL_RTCEx_DeactivateTamper ==
  StopSource("tamper") \o ClearFlag("tamper") \o Disable("tamper") \o RtcReturn
HAL_RTCEx_DeactivateActiveTampers == HAL_RTCEx_DeactivateTamper
HAL_RTCEx_SetInternalTamper == Enable("internal") \o RtcReturn
HAL_RTCEx_SetInternalTamper_IT == EnableIt("internal") \o RtcReturn
HAL_RTCEx_DeactivateInternalTamper == Disable("internal") \o ClearFlag("internal") \o RtcReturn
HAL_RTCEx_SetActiveSeed == Either(Answers(<<>>, RtcState("TIMEOUT")), <<>>) \o RtcReturn
HAL_RTCEx_SetActiveTampers(it) ==
  Either(StopSource("tamper") \o ClearFlag("tamper") \o Disable("tamper"), <<>>)
    \o (IF it THEN EnableIt("tamper") ELSE Enable("tamper"))
    \o Answers(<<>>, RtcState("TIMEOUT")) \o RtcReturn

-----------------------------------------------------------------------------
(* Interrupt handlers, from what the masked flags say when they are read.   *)
Masked(events) == events \cap rtc.flags \cap rtc.ie
Calls(e) == <<<<"callback", e>>>>
(* A bug to catch: the flag is cleared after the callback.                  *)
CallThenClear(e) == IF e \in Masked({e}) THEN Calls(e) \o ClearFlag(e) ELSE <<>>
ClearThenCall(e) == IF e \in Masked({e}) THEN ClearFlag(e) \o Calls(e) ELSE <<>>
CallOnly(e) == IF e \in Masked({e}) THEN Calls(e) ELSE <<>>

HAL_RTC_AlarmIRQHandler == ClearThenCall("A") \o ClearThenCall("B") \o Ready
HAL_RTCEx_WakeUpTimerIRQHandler == ClearThenCall("wut") \o Ready
HAL_RTCEx_SSRUIRQHandler == ClearThenCall("ssru") \o Ready
HAL_RTCEx_TimeStampIRQHandler ==
  (IF "ts" \in Masked({"ts"}) THEN Calls("ts") \o ClearFlag("ts") ELSE <<>>) \o Ready
HAL_RTCEx_TamperIRQHandler ==
  CallOnly("tamper") \o CallOnly("internal") \o <<<<"clear", Masked(RtcTamper)>>>>

RtcHandler(e) ==
  CASE e \in RtcAlarm -> HAL_RTC_AlarmIRQHandler
    [] e = "wut" -> HAL_RTCEx_WakeUpTimerIRQHandler
    [] e = "ssru" -> HAL_RTCEx_SSRUIRQHandler
    [] e = "ts" -> HAL_RTCEx_TimeStampIRQHandler
    [] e \in RtcTamper -> HAL_RTCEx_TamperIRQHandler

(* What a callback of an application does: nothing, or a call on its event. *)
CallbackDoes(e) ==
  CASE e \in RtcAlarm -> {<<>>, HAL_RTC_SetAlarm_IT(e), HAL_RTC_DeactivateAlarm(e)}
    [] e = "wut" -> {<<>>, HAL_RTCEx_DeactivateWakeUpTimer, HAL_RTCEx_SetWakeUpTimer_IT}
    [] e = "ts" -> {<<>>, HAL_RTCEx_GetTimeStamp}
    [] OTHER -> {<<>>}

-----------------------------------------------------------------------------
RtcStep == Head(rtcTodo)
RtcIs(kind) == rtcTodo # <<>> /\ RtcStep[1] = kind
RtcThen(code) == rtcTodo' = code \o Tail(rtcTodo) /\ UNCHANGED inUse

WriteRtc ==
  /\ rtcTodo # <<>> /\ RtcStep[1] \in {"lock", "state", "prot", "byp", "refck"}
  /\ rtc' = [rtc EXCEPT ![RtcStep[1]] = RtcStep[2]]
  /\ RtcThen(<<>>) /\ UNCHANGED calendar

WriteInit ==
  /\ RtcIs("init")
  /\ rtc' = [rtc EXCEPT !.init = RtcStep[2], !.initf = @ /\ RtcStep[2]]
  /\ RtcThen(<<>>) /\ UNCHANGED calendar

(* A call that finds the lock taken returns HAL_BUSY.                       *)
TakeLock ==
  /\ RtcIs("take") /\ ~rtc.lock
  /\ rtc' = [rtc EXCEPT !.lock = TRUE]
  /\ RtcThen(<<>>) /\ UNCHANGED calendar

ReturnAt == CHOOSE i \in DOMAIN rtcTodo :
  rtcTodo[i][1] = "return" /\ \A j \in 1 .. i - 1 : rtcTodo[j][1] # "return"

RefuseBusy ==
  /\ RtcIs("take") /\ rtc.lock
  /\ rtcTodo' = SubSeq(rtcTodo, ReturnAt + 1, Len(rtcTodo))
  /\ UNCHANGED <<rtc, inUse, calendar>>

Branch ==
  /\ \/ RtcIs("either") /\ \E i \in {2, 3} : RtcThen(RtcStep[i])
     \/ RtcIs("flagged") /\ RtcThen(IF RtcStep[2] \in rtc.flags THEN RtcStep[3] ELSE RtcStep[4])
     \/ RtcIs("given") /\ RtcThen(IF rtc[RtcStep[2]] THEN RtcStep[3] ELSE RtcStep[4])
     \/ (RtcIs("return") \/ RtcIs("leave")) /\ RtcThen(<<>>)
  /\ UNCHANGED <<rtc, calendar>>

WriteSources ==
  /\ \/ /\ RtcIs("disable")
        /\ rtc' = [rtc EXCEPT !.enabled = @ \ RtcStep[2], !.ie = @ \ RtcStep[3], !.owed = @ \ RtcStep[2]]
     \/ /\ RtcIs("enable")
        /\ rtc' = [rtc EXCEPT !.enabled = @ \cup {RtcStep[2]},
                              !.ie = IF RtcStep[3] THEN @ \cup {RtcStep[2]} ELSE @]
     \/ RtcIs("clear") /\ rtc' = [rtc EXCEPT !.flags = @ \ RtcStep[2]]
     \/ RtcIs("report") /\ rtc' = [rtc EXCEPT !.flags = @ \ {RtcStep[2]}, !.owed = @ \ {RtcStep[2]}]
  /\ RtcThen(<<>>) /\ UNCHANGED calendar

EventCallback ==
  /\ RtcIs("callback")
  /\ rtc' = [rtc EXCEPT !.owed = @ \ {RtcStep[2]}]
  /\ \E code \in CallbackDoes(RtcStep[2]) : RtcThen(code)
  /\ UNCHANGED calendar

(* A write to a protected register, or to the calendar out of init mode, is *)
(* lost.  What a call wrote is expected to be read once the call confirms.  *)
WriteCalendar ==
  /\ \/ /\ RtcIs("write")
        /\ calendar' = [calendar EXCEPT ![RtcStep[2]] = IF rtc.prot \/ ~rtc.initf THEN @ ELSE RtcStep[3],
                                       !.expected[RtcStep[2]] = Unknown]
     \/ /\ RtcIs("shift")
        /\ LET Shifted(h) == (h + RtcStep[2]) % 24
           IN calendar' = [calendar EXCEPT !.hours = IF rtc.prot THEN @ ELSE RTC_ByteToBcd2(Shifted(RTC_Bcd2ToByte(@))),
                                           !.expected.hours = IF @ = Unknown THEN @ ELSE Shifted(@)]
     \/ RtcIs("confirm") /\ calendar' = [calendar EXCEPT !.expected[RtcStep[2]] = RtcStep[3]]
     \/ RtcIs("reset") /\ calendar' = ResetCalendar
  /\ RtcThen(<<>>) /\ UNCHANGED rtc

RtcCoreStep ==
  \/ WriteRtc \/ WriteInit \/ TakeLock \/ RefuseBusy \/ Branch
  \/ WriteSources \/ EventCallback \/ WriteCalendar

-----------------------------------------------------------------------------
InitModeEntered ==
  /\ rtc.init /\ ~rtc.initf /\ rtc' = [rtc EXCEPT !.initf = TRUE]
  /\ UNCHANGED <<rtcTodo, inUse, calendar>>

(* Alarms and the wrap of the counter need the calendar to run; a time      *)
(* stamp that is not yet read overflows.                                    *)
EventRaised ==
  /\ \E e \in rtc.enabled :
       /\ e \in RtcAlarm \cup {"ssru"} => ~rtc.initf
       /\ rtc' = [rtc EXCEPT !.flags = @ \cup {e} \cup (IF e = "ts" /\ e \in @ THEN {"tsovf"} ELSE {}),
                             !.owed = IF e \in rtc.ie \ rtc.flags THEN @ \cup {e} ELSE @]
  /\ UNCHANGED <<rtcTodo, inUse, calendar>>

InRtcHandler == \E i \in DOMAIN rtcTodo : rtcTodo[i][1] = "leave"

RtcInterrupt ==
  /\ ~InRtcHandler
  /\ \E e \in rtc.flags \cap rtc.ie : rtcTodo' = RtcHandler(e) \o <<<<"leave">>>> \o rtcTodo
  /\ UNCHANGED <<rtc, inUse, calendar>>

RtcFormat == {"BIN", "BCD"}
RtcHours(format) == IF format = "BIN" THEN {9, 23} ELSE {RTC_ByteToBcd2(h) : h \in {9, 23}}
RtcMonths(format) == IF format = "BIN" THEN {9, 12, 16 + 2} ELSE {RTC_ByteToBcd2(m) : m \in {9, 12}}

RtcCalls(feature) ==
  CASE feature = "calendar" ->
         {IF HAL_RTC_GetTime("BIN") \in {9, 23} THEN HAL_RTC_DST_Add1Hour ELSE HAL_RTC_DST_Sub1Hour}
           \cup UNION {{HAL_RTC_SetTime(h, f) : h \in RtcHours(f)} : f \in RtcFormat}
           \cup UNION {{HAL_RTC_SetDate(m, f) : m \in RtcMonths(f)} : f \in RtcFormat}
    [] feature = "setup" ->
         {HAL_RTC_Init, HAL_RTC_DeInit, HAL_RTCEx_EnableBypassShadow, HAL_RTCEx_DisableBypassShadow,
          HAL_RTCEx_SetRefClock, HAL_RTCEx_DeactivateRefClock, HAL_RTCEx_SetSynchroShift,
          HAL_RTCEx_SetSmoothCalib, HAL_RTCEx_SetLowPowerCalib}
    [] feature = "A" ->
         {HAL_RTC_SetAlarm("A"), HAL_RTC_SetAlarm_IT("A"), HAL_RTC_DeactivateAlarm("A"), HAL_RTC_PollForAlarmAEvent}
    [] feature = "B" ->
         {HAL_RTC_SetAlarm("B"), HAL_RTC_SetAlarm_IT("B"), HAL_RTC_DeactivateAlarm("B"), HAL_RTCEx_PollForAlarmBEvent}
    [] feature = "wut" ->
         {HAL_RTCEx_SetWakeUpTimer, HAL_RTCEx_SetWakeUpTimer_IT, HAL_RTCEx_DeactivateWakeUpTimer,
          HAL_RTCEx_PollForWakeUpTimerEvent}
    [] feature = "ts" ->
         {HAL_RTCEx_SetTimeStamp, HAL_RTCEx_SetTimeStamp_IT, HAL_RTCEx_DeactivateTimeStamp,
          HAL_RTCEx_GetTimeStamp, HAL_RTCEx_PollForTimeStampEvent}
    [] feature = "ssru" -> {HAL_RTCEx_SetSSRU_IT, HAL_RTCEx_DeactivateSSRU}
    [] feature = "tamper" ->
         {HAL_RTCEx_SetTamper, HAL_RTCEx_SetTamper_IT, HAL_RTCEx_DeactivateTamper, HAL_RTCEx_PollForTamperEvent,
          HAL_RTCEx_DeactivateActiveTampers, HAL_RTCEx_SetActiveSeed}
           \cup {HAL_RTCEx_SetActiveTampers(it) : it \in BOOLEAN}
    [] feature = "internal" ->
         {HAL_RTCEx_SetInternalTamper, HAL_RTCEx_SetInternalTamper_IT, HAL_RTCEx_DeactivateInternalTamper,
          HAL_RTCEx_PollForInternalTamperEvent}

CallRtc ==
  /\ rtcTodo = <<>>
  /\ \E f \in inUse : \E code \in RtcCalls(f) : rtcTodo' = code
  /\ UNCHANGED <<rtc, inUse, calendar>>

RtcInit ==
  /\ rtc = [state |-> "READY", lock |-> FALSE, prot |-> TRUE, init |-> FALSE, initf |-> FALSE,
            byp |-> FALSE, refck |-> FALSE, enabled |-> {}, ie |-> {}, flags |-> {}, owed |-> {}]
  /\ rtcTodo = <<>>
  /\ inUse \in Together
  /\ calendar = ResetCalendar

RtcNext ==
  \/ RtcCoreStep \/ InitModeEntered \/ EventRaised \/ RtcInterrupt \/ CallRtc

RtcSpec == RtcInit /\ [][RtcNext]_rtcVars

-----------------------------------------------------------------------------
(* Whatever fails in it, a call that has returned left neither the lock     *)
(* taken, nor the registers unprotected, nor the state busy.                *)
RtcCallsLeaveNothing ==
  rtcTodo = <<>> => rtc.prot /\ ~rtc.lock /\ rtc.state # "BUSY"

(* An event raised while its interrupt is enabled stays pending until its   *)
(* callback is called, a poll reports it or its source is stopped.  Time    *)
(* stamps are excepted: their flag is cleared after the callback.           *)
RtcEventsTold ==
  \A e \in rtc.owed \ {"ts"} :
    e \in rtc.flags \cap rtc.ie \/ \E i \in DOMAIN rtcTodo : rtcTodo[i][1] = "callback" /\ rtcTodo[i][2] = e

(* Between calls, time and date read, in either format, as the last call    *)
(* set them, if it succeeded.                                               *)
RtcReadsWhatWasSet ==
  rtcTodo = <<>> => /\ calendar.expected.hours \in {Unknown, HAL_RTC_GetTime("BIN")}
                    /\ calendar.expected.month \in {Unknown, HAL_RTC_GetDate("BIN")}
                    /\ HAL_RTC_GetTime("BCD") = RTC_ByteToBcd2(HAL_RTC_GetTime("BIN"))
                    /\ HAL_RTC_GetDate("BCD") = RTC_ByteToBcd2(HAL_RTC_GetDate("BIN"))

(* Between calls nothing is left over and the calendar is as it was set.    *)
RtcAtRest == RtcCallsLeaveNothing /\ RtcReadsWhatWasSet
=============================================================================
