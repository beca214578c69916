----------------------------- MODULE RtcVector -----------------------------
(***************************************************************************)
(* The real-time clock as this application uses it: alarm A serves the     *)
(* timers, and the wrap of the 32-bit counter is counted by a callback,    *)
(* through one vector, which knows the alarms only.                        *)
(***************************************************************************)
EXTENDS Rtc

(* The timer server calls with the interrupts disabled.                     *)
TIMER_IF_StopTimer == ClearFlag("A") \o HAL_RTC_DeactivateAlarm("A")
TIMER_IF_StartTimer == TIMER_IF_StopTimer \o HAL_RTC_SetAlarm_IT("A")

CallTimerIf ==
  /\ rtcTodo = <<>> /\ rtcTodo' \in {TIMER_IF_StartTimer, TIMER_IF_StopTimer}
  /\ UNCHANGED <<rtc, inUse, calendar>>

RTC_IRQHandler ==
  /\ rtcTodo = <<>> /\ rtc.flags \cap rtc.ie # {}
  /\ rtcTodo' = HAL_RTC_AlarmIRQHandler \o <<<<"leave">>>> \o rtcTodo
  /\ UNCHANGED <<rtc, inUse, calendar>>

(* MX_RTC_Init has enabled the interrupt of the wrap; TIMER_IF_Init has     *)
(* stopped the alarm and reads the counter directly.                        *)
VectorInit ==
  /\ rtc = [state |-> "READY", lock |-> FALSE, prot |-> TRUE, init |-> FALSE, initf |-> FALSE,
            byp |-> TRUE, refck |-> FALSE, enabled |-> {"ssru"}, ie |-> {"ssru"}, flags |-> {}, owed |-> {}]
  /\ rtcTodo = <<>> /\ inUse \in Together /\ calendar = ResetCalendar

VectorNext ==
  RtcCoreStep \/ EventRaised \/ RTC_IRQHandler \/ CallTimerIf

(* The core goes on, and takes a pending interrupt.                         *)
VectorSpec ==
  VectorInit /\ [][VectorNext]_rtcVars /\ WF_rtcVars(RtcCoreStep) /\ SF_rtcVars(RTC_IRQHandler)

(* "Called every 48 days with 1024 ticks per seconds": a wrap of the        *)
(* counter reaches the callback that counts it.                             *)
WrapIsCounted == "ssru" \in rtc.owed ~> "ssru" \notin rtc.owed
=============================================================================
