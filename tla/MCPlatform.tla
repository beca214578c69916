------------------------------ MODULE MCPlatform ------------------------------
(***************************************************************************)
(* The platform under the stack, whose parts share no state: a behaviour   *)
(* is one of the system clock and low power, of the real-time clock, of    *)
(* the driver of the random number generator, of the radio's interrupts,   *)
(* of the flash driver, of the one-time area that is programmed by it, or  *)
(* of the trace buffer, in which the main thread 0, the button interrupt 1 *)
(* and the RTC interrupt 3 log and the UART's completion is 2.             *)
(***************************************************************************)
EXTENDS SystemClock, Rtc, RngDriver, RadioIrq, Otp, AdvTrace

(* Two sections within each other in the task, one in each interrupt.       *)
MCSections == [task |-> 2, low |-> 1, radio |-> 1]

(* What shares a register, a flag's clearing or a lock; each feature with   *)
(* the set-up, or with the calendar.                                        *)
MCTogether ==
  {{"A", "B"}, {"A", "wut"}, {"A", "ssru"}, {"B", "ts"}, {"wut", "ts"},
   {"ts", "tamper"}, {"tamper", "internal"},
   {"A", "setup"}, {"wut", "setup"}, {"ts", "setup"}, {"tamper", "setup"},
   {"A", "calendar"}, {"ssru", "calendar"}, {"internal", "calendar"},
   {"calendar", "setup"}}

VARIABLE platform

(* What another part would do with its choices makes no difference.         *)
PlatformInit ==
  /\ ClockInit /\ RtcInit /\ RngDriverInit /\ RadioInit /\ FlashInit /\ OtpInit /\ TraceInit
  /\ platform \in {"clock", "rtc", "rng", "radio", "flash", "otp", "trace"}
  /\ platform # "clock" => use = "slow"
  /\ platform # "rtc" => inUse = {"A", "B"}
  /\ platform # "radio" => nvic.prio.radio = 0

areaVars == <<flashVars, otpVars>>
platformVars == <<clockVars, rtcVars, rngDriverVars, radioVars, areaVars, traceVars>>

ClockRuns(step_) == step_ /\ UNCHANGED <<rtcVars, rngDriverVars, radioVars, areaVars, traceVars>>
RtcRuns(step_) == step_ /\ UNCHANGED <<clockVars, rngDriverVars, radioVars, areaVars, traceVars>>
RngRuns(step_) == step_ /\ UNCHANGED <<clockVars, rtcVars, radioVars, areaVars, traceVars>>
RadioRuns(step_) == step_ /\ UNCHANGED <<clockVars, rtcVars, rngDriverVars, areaVars, traceVars>>
AreaRuns(step_) == step_ /\ UNCHANGED <<clockVars, rtcVars, rngDriverVars, radioVars, traceVars>>

TraceRuns(step_) == step_ /\ UNCHANGED <<clockVars, rtcVars, rngDriverVars, radioVars, areaVars>>

(* With the one-time area only records are programmed.                      *)
OnlyRecords ==
  /\ flashCall'.type \in {"none", "program"} /\ ~flashCall'.it /\ suspended' = {}

PlatformNext ==
  /\ UNCHANGED platform
  /\ \/ platform = "clock" /\ ClockRuns(ClockNext)
     \/ platform = "rtc" /\ RtcRuns(RtcNext)
     \/ platform = "rng" /\ RngRuns(RngDriverNext)
     \/ platform = "radio" /\ RadioRuns(RadioNext)
     \/ platform = "flash" /\ AreaRuns(FlashNext) /\ UNCHANGED otpVars
     \/ platform = "otp" /\ AreaRuns(OtpNext) /\ OnlyRecords
     \/ platform = "trace" /\ TraceRuns(TraceNext)

PlatformSpec ==
  PlatformInit /\ [][PlatformNext]_<<platformVars, platform>>
=============================================================================
