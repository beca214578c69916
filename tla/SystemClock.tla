---------------------------- MODULE SystemClock ----------------------------
(***************************************************************************)
(* The system clock manager and the low-power modes under it.  Clients ask *)
(* for 16 MHz, 32 MHz or the PLL; the manager moves the core to the        *)
(* highest request through oscillators that need time to start, a voltage  *)
(* that needs time to settle and memories that need wait states, and       *)
(* interrupts (HSE ready, stabilisation timer, PLL ready, radio) cut it    *)
(* between any two register accesses.                                      *)
(*                                                                         *)
(* `todo' is the code the core still has to run, register accesses and     *)
(* calls: an interrupt puts its code before the code it interrupts.        *)
(***************************************************************************)
EXTENDS Integers, Sequences, FiniteSets

VARIABLES clk,      \* registers of RCC, PWR, FLASH, RAMCFG and TIM16
          scm,      \* the manager: target, requests, RadioState, SW_HSERDY
          lpm,      \* who disables Stop and Off modes, sleep_mode_disabled
          todo,     \* what the core still executes
          level,    \* priority it executes at: 16 is a task, 0 masks all
          use       \* what the application does, see AppUse

clockVars == <<clk, scm, lpm, todo, level, use>>

HSE_16MHZ == 1  HSE_32MHZ == 2  SYS_PLL == 3
NO_CLOCK_CONFIG == 0
ClockClient == {"APP", "LL_FW", "RCO"}
(* Applications: one that never asks for 16 MHz; one that does; and one     *)
(* that does while the radio's oscillator is calibrated, without Standby.   *)
AppUse == {"fast", "slow", "calibrated"}
RADIO_INTR_PRIO_LOW == 5
RCC_INTR_PRIO == 1
TaskLevel == 16

MHz == CASE clk.source = "HSI" -> 16
         [] clk.source = "HSE" -> IF clk.pre THEN 16 ELSE 32
         [] clk.source = "PLL" -> 100

scm_getmaxfreq(requests) ==
  CHOOSE f \in {requests[u] : u \in ClockClient} : \A u \in ClockClient : requests[u] <= f

Call(f) == <<<<"call", f>>>>
When(c, code) == IF c THEN code ELSE <<>>

-----------------------------------------------------------------------------
(* The functions of the manager, as the code each still has to run; what    *)
(* depends on a state reached later is a call, looked up when reached.      *)

SwitchHsePre(hse_pre) ==
  <<<<"hsi", TRUE>>, <<"source", "HSI">>, <<"hse", "starting">>>>
    \o Call("SCM_HSE_WaitUntilReady")
    \o <<<<"pre", hse_pre>>, <<"source", "HSE">>, <<"hsi", FALSE>>>>

(* A bug to catch: HSE is made faster before the voltage has settled.       *)
FasterAtOnce == <<<<"vos", 1>>>> \o SwitchHsePre(FALSE) \o <<<<"waitstates", "HSE32">>>>

SwitchHse16toHse32 ==
  <<<<"vos", 1>>, <<"until", "vos">>>> \o SwitchHsePre(FALSE) \o <<<<"waitstates", "HSE32">>>>

SwitchHse32toHse16 ==
  <<<<"waitstates", "HSE16">>>> \o SwitchHsePre(TRUE) \o <<<<"vos", 2>>>>

SwitchPlltoHse32 == <<<<"source", "HSE">>, <<"pll", "off">>, <<"waitstates", "HSE32">>>>

ConfigStartPll == <<<<"pll", "starting">>, <<"pllIe", TRUE>>>>

PllIfTargeted == When(scm.target = SYS_PLL, ConfigStartPll)

scm_systemclockconfig ==
  CASE scm.target = HSE_16MHZ ->
         When(clk.source = "PLL", SwitchPlltoHse32) \o SwitchHse32toHse16 \o <<<<"core", 0>>>>
    [] scm.target = HSE_32MHZ ->
         IF clk.pre THEN SwitchHse16toHse32 \o <<<<"core", 0>>>>
         ELSE IF clk.source = "PLL" THEN SwitchPlltoHse32 \o <<<<"core", 0>>>>
         ELSE <<<<"pll", "off">>, <<"pllIe", FALSE>>>>
    [] scm.target = SYS_PLL ->
         When(clk.pre, SwitchHse16toHse32 \o <<<<"core", 0>>>>) \o ConfigStartPll
    [] OTHER -> <<>>

(* From HSI, with the radio active, the switch is made at once.             *)
SwitchWithRadio ==
  <<<<"hseIe", FALSE>>, <<"until", "vos">>>> \o Call("SCM_HSE_WaitUntilReady")
    \o <<<<"pre", FALSE>>, <<"source", "HSE">>, <<"waitstates", "HSE32">>, <<"hsi", FALSE>>>>
    \o Call("PllIfTargeted") \o <<<<"core", 0>>>>

RequestFromHsi ==
  IF scm.target = HSE_16MHZ THEN <<<<"vos", 2>>>>
  ELSE <<<<"vos", 1>>>> \o When(scm.radio, SwitchWithRadio)

scm_setup ==
  <<<<"hse", "starting">>>> \o
  IF scm.ready /\ scm.radio
  THEN <<<<"source", "HSE">>, <<"waitstates", "HSE32">>, <<"hsi", FALSE>>>>
         \o Call("PllIfTargeted") \o <<<<"core", 0>>>>
  ELSE <<<<"waitstates", "HSE16">>>> \o When(scm.target # HSE_16MHZ, <<<<"vos", 1>>>>)
         \o Call("HserdyOrInterrupt")

HserdyOrInterrupt ==
  IF scm.ready THEN Call("scm_hserdy_isr")
  ELSE <<<<"nvic", FALSE>>, <<"hseIe", TRUE>>>> \o Call("TimerIfHseReady") \o <<<<"nvic", TRUE>>>>

TimerIfHseReady ==
  When(clk.hse = "ready", <<<<"hseIf", FALSE>>>> \o Call("SCM_HSE_StartStabilizationTimer"))

scm_hserdy_isr ==
  When(clk.source = "HSI",
       <<<<"until", "vos">>>> \o Call("SwitchToHse")
         \o <<<<"hsi", FALSE>>, <<"hseIe", FALSE>>, <<"core", 0>>>>)

SwitchToHse ==
  IF scm.target = HSE_16MHZ THEN <<<<"pre", TRUE>>, <<"source", "HSE">>>>
  ELSE <<<<"pre", FALSE>>, <<"source", "HSE">>, <<"waitstates", "HSE32">>>>
         \o Call("PllIfTargeted")

(* A bug to catch: nobody learns of the switch to the PLL.                  *)
PllNotTold ==
  IF scm.target = SYS_PLL THEN <<<<"waitstates", "PLL">>, <<"source", "PLL">>>>
  ELSE <<<<"pll", "off">>, <<"pllIe", FALSE>>>>

scm_pllrdy_isr ==
  IF scm.target = SYS_PLL
  THEN <<<<"waitstates", "PLL">>, <<"source", "PLL">>, <<"core", 0>>>>
  ELSE <<<<"pll", "off">>, <<"pllIe", FALSE>>>>

SCM_HSE_WaitUntilReady ==
  IF scm.ready THEN <<>>
  ELSE (CASE clk.tim -> <<<<"uie", FALSE>>, <<"until", "timer">>>>
          [] ~clk.tim /\ clk.uif -> <<<<"uif", FALSE>>>>
          [] OTHER -> <<<<"until", "hse">>, <<"uif", FALSE>>, <<"uie", FALSE>>,
                        <<"tim", TRUE>>, <<"until", "timer">>, <<"uie", TRUE>>>>)
       \o Call("SCM_HSE_SW_HSERDY_isr")

SCM_HSE_StartStabilizationTimer ==
  When(~scm.ready /\ ~clk.tim, <<<<"uif", FALSE>>, <<"uie", TRUE>>, <<"tim", TRUE>>>>)

SCM_HSE_StopStabilizationTimer == <<<<"tim", FALSE>>, <<"uie", FALSE>>>>

SCM_HSE_SW_HSERDY_isr ==
  <<<<"ready", TRUE>>>> \o SCM_HSE_StopStabilizationTimer \o Call("scm_hserdy_isr")

-----------------------------------------------------------------------------
(* Low power: masked, the core waits for an interrupt in the deepest mode   *)
(* nobody disables, and wakes there.                                        *)
UTIL_LPM_GetMode ==
  CASE lpm.stop # {} -> "sleep" [] lpm.stop = {} /\ lpm.off # {} -> "stop" [] OTHER -> "off"

UTIL_LPM_EnterLowPower ==
  CASE UTIL_LPM_GetMode = "sleep" -> When(~lpm.sleepDisabled, <<<<"wfi", "sleep">>>>)
    [] UTIL_LPM_GetMode = "stop" ->
         <<<<"waitstates", "LP">>, <<"wfi", "stop">>>> \o Call("Exit_Stop_Standby_Mode")
    [] UTIL_LPM_GetMode = "off" ->
         <<<<"waitstates", "LP">>, <<"wfi", "off">>>> \o Call("PWR_ExitOffMode")

Exit_Stop_Standby_Mode ==
  IF clk.stopped THEN When(~scm.radio, <<<<"ready", FALSE>>>>) \o Call("scm_setup")
  ELSE <<<<"waitstates", "RUN">>>>

PWR_ExitOffMode ==
  IF clk.standby THEN <<<<"ready", FALSE>>>> \o Call("scm_setup")
  ELSE Call("Exit_Stop_Standby_Mode")

UTIL_SEQ_Idle == SCM_HSE_StopStabilizationTimer \o Call("UTIL_LPM_EnterLowPower")

Code(f) ==
  CASE f = "PllIfTargeted" -> PllIfTargeted
    [] f = "scm_systemclockconfig" -> scm_systemclockconfig
    [] f = "RequestFromHsi" -> RequestFromHsi
    [] f = "scm_setup" -> scm_setup
    [] f = "HserdyOrInterrupt" -> HserdyOrInterrupt
    [] f = "TimerIfHseReady" -> TimerIfHseReady
    [] f = "scm_hserdy_isr" -> scm_hserdy_isr
    [] f = "SwitchToHse" -> SwitchToHse
    [] f = "scm_pllrdy_isr" -> scm_pllrdy_isr
    [] f = "SCM_HSE_WaitUntilReady" -> SCM_HSE_WaitUntilReady
    [] f = "SCM_HSE_StartStabilizationTimer" -> SCM_HSE_StartStabilizationTimer
    [] f = "SCM_HSE_SW_HSERDY_isr" -> SCM_HSE_SW_HSERDY_isr
    [] f = "UTIL_LPM_EnterLowPower" -> UTIL_LPM_EnterLowPower
    [] f = "Exit_Stop_Standby_Mode" -> Exit_Stop_Standby_Mode
    [] f = "PWR_ExitOffMode" -> PWR_ExitOffMode

-----------------------------------------------------------------------------
(* One access of the core.                                                  *)
Access == Head(todo)
Is(kind) == todo # <<>> /\ Access[1] = kind
Then(code) == todo' = code \o Tail(todo)

Registers ==
  {"hsi", "source", "hse", "pre", "pll", "hseIe", "pllIe", "hseIf", "tim", "uif", "uie", "nvic"}

(* Switching on what is on changes nothing.                                 *)
Written(r, v) ==
  IF r \in {"hse", "pll"} /\ clk[r] # "off" THEN (IF v = "starting" THEN clk[r] ELSE v) ELSE v

(* The loop after a change of source ends once that source runs.            *)
Running(source) ==
  CASE source = "HSI" -> clk.hsi [] source = "HSE" -> clk.hse = "ready" [] source = "PLL" -> clk.pll = "ready"

WriteRegister ==
  /\ todo # <<>> /\ Access[1] \in Registers
  /\ Access[1] = "source" => Running(Access[2])
  /\ clk' = [clk EXCEPT ![Access[1]] = Written(Access[1], Access[2])]
  /\ Then(<<>>) /\ UNCHANGED <<scm, lpm, level, use>>

SetRegulVoltageScaling ==
  /\ Is("vos")
  /\ clk' = [clk EXCEPT !.vos = Access[2], !.settled = @ /\ clk.vos = Access[2]]
  /\ Then(<<>>) /\ UNCHANGED <<scm, lpm, level, use>>

WaitStates(mode) ==
  CASE mode = "LP" -> [flash |-> 3, sram |-> 1]
    [] mode = "RUN" -> scm.ws
    [] mode = "HSE16" -> [flash |-> 1, sram |-> 1]
    [] mode = "HSE32" -> [flash |-> 0, sram |-> 0]
    [] mode = "PLL" -> [flash |-> 3, sram |-> clk.ws.sram]

scm_setwaitstates ==
  /\ Is("waitstates")
  /\ clk' = [clk EXCEPT !.ws = WaitStates(Access[2])]
  /\ scm' = [scm EXCEPT !.ws = IF Access[2] \in {"LP", "RUN"} THEN @
                              ELSE IF Access[2] = "PLL" THEN [@ EXCEPT !.flash = 3]
                              ELSE WaitStates(Access[2])]
  /\ Then(<<>>) /\ UNCHANGED <<lpm, level, use>>

Reached(what) ==
  CASE what = "vos" -> clk.settled [] what = "hse" -> clk.hse = "ready" [] what = "timer" -> ~clk.tim

WaitUntil ==
  /\ Is("until") /\ Reached(Access[2])
  /\ Then(<<>>) /\ UNCHANGED <<clk, scm, lpm, level, use>>

SystemCoreClockUpdate ==
  /\ Is("core") /\ scm' = [scm EXCEPT !.core = MHz]
  /\ Then(<<>>) /\ UNCHANGED <<clk, lpm, level, use>>

SetSwHserdy ==
  /\ Is("ready") /\ scm' = [scm EXCEPT !.ready = Access[2]]
  /\ Then(<<>>) /\ UNCHANGED <<clk, lpm, level, use>>

CallFunction ==
  /\ Is("call") /\ Then(Code(Access[2])) /\ UNCHANGED <<clk, scm, lpm, level, use>>

SetLevel ==
  /\ Is("level") /\ level' = Access[2]
  /\ Then(<<>>) /\ UNCHANGED <<clk, scm, lpm, use>>

(* scm_setsystemclock, whose section masks all but the active radio: the    *)
(* request is noted and the highest taken, then the target is compared.     *)
Request(user, f) == <<<<"request", user, f>>>>

scm_setsystemclock ==
  /\ Is("request")
  /\ LET noted == [scm.requests EXCEPT ![Access[2]] = Access[3]]
     IN scm' = [scm EXCEPT !.requests = noted] /\ Then(<<<<"max", scm_getmaxfreq(noted)>>, <<"level", level>>>>)
  /\ level' = IF level > RCC_INTR_PRIO THEN RCC_INTR_PRIO ELSE level
  /\ UNCHANGED <<clk, lpm, use>>

SetTarget ==
  /\ Is("max")
  /\ scm' = [scm EXCEPT !.target = Access[2]]
  /\ Then(CASE clk.source = "HSI" -> Call("RequestFromHsi")
            [] clk.source # "HSI" /\ scm.target # Access[2] -> Call("scm_systemclockconfig")
            [] OTHER -> <<>>)
  /\ UNCHANGED <<clk, lpm, level, use>>

(* Stop: the core wakes on HSI, the PLL off, HSE only if the radio kept it; *)
(* Standby loses the registers too.  A pending interrupt enters neither.    *)
InterruptPending == (clk.nvic /\ (clk.hseIf \/ clk.pllIf)) \/ (clk.uif /\ clk.uie)

Stopped == [clk EXCEPT !.source = "HSI", !.hsi = TRUE, !.pll = "off", !.tim = FALSE,
                       !.hse = IF scm.radio THEN @ ELSE "off", !.stopped = TRUE]

StandbyClk == [source |-> "HSI", hsi |-> TRUE, hse |-> "off", pre |-> FALSE, pll |-> "off",
               vos |-> 2, settled |-> TRUE, ws |-> [flash |-> 1, sram |-> 1],
               hseIe |-> FALSE, hseIf |-> FALSE, pllIe |-> FALSE, pllIf |-> FALSE,
               tim |-> FALSE, uif |-> TRUE, uie |-> FALSE, nvic |-> TRUE,
               stopped |-> FALSE, standby |-> TRUE]

WaitForInterrupt ==
  /\ Is("wfi")
  /\ \/ clk' = clk
     \/ Access[2] = "stop" /\ ~InterruptPending /\ clk' = Stopped
     \/ Access[2] = "off" /\ ~InterruptPending /\ ~scm.radio /\ clk' = StandbyClk
  /\ Then(<<>>) /\ UNCHANGED <<scm, lpm, level, use>>

CoreStep ==
  \/ WriteRegister \/ SetRegulVoltageScaling \/ scm_setwaitstates \/ WaitUntil
  \/ SystemCoreClockUpdate \/ SetSwHserdy \/ CallFunction \/ SetLevel
  \/ scm_setsystemclock \/ SetTarget \/ WaitForInterrupt

-----------------------------------------------------------------------------
(* The hardware.                                                            *)
HseStarts ==
  /\ clk.hse = "starting"
  /\ clk' = [clk EXCEPT !.hse = "ready", !.hseIf = @ \/ clk.hseIe]
  /\ UNCHANGED <<scm, lpm, todo, level, use>>

PllLocks ==
  /\ clk.pll = "starting" /\ clk.hse = "ready"
  /\ clk' = [clk EXCEPT !.pll = "ready", !.pllIf = @ \/ clk.pllIe]
  /\ UNCHANGED <<scm, lpm, todo, level, use>>

VoltageSettles ==
  /\ ~clk.settled /\ clk' = [clk EXCEPT !.settled = TRUE]
  /\ UNCHANGED <<scm, lpm, todo, level, use>>

TimerElapses ==
  /\ clk.tim /\ clk' = [clk EXCEPT !.tim = FALSE, !.uif = TRUE]
  /\ UNCHANGED <<scm, lpm, todo, level, use>>

(* The contexts that enter the manager.                                     *)
Interrupt(prio, code) ==
  /\ level > prio /\ level' = prio
  /\ todo' = code \o <<<<"level", level>>>> \o todo /\ UNCHANGED <<lpm, use>>

RCC_IRQHandler ==
  /\ clk.nvic /\ (clk.hseIf \/ clk.pllIf) /\ UNCHANGED scm
  /\ IF clk.hseIf
     THEN /\ clk' = [clk EXCEPT !.hseIf = FALSE]
          /\ Interrupt(RCC_INTR_PRIO, Call("SCM_HSE_StartStabilizationTimer"))
     ELSE /\ clk' = [clk EXCEPT !.pllIf = FALSE]
          /\ Interrupt(RCC_INTR_PRIO, Call("scm_pllrdy_isr"))

TIM16_IRQHandler ==
  /\ clk.uif /\ clk.uie /\ clk' = [clk EXCEPT !.uif = FALSE] /\ UNCHANGED scm
  /\ Interrupt(RCC_INTR_PRIO, Call("SCM_HSE_SW_HSERDY_isr"))

(* The active radio interrupts at priority 0, which no limited section      *)
(* masks.  Only an application that never asks for 16 MHz, as this one,     *)
(* lets the radio cut into a change of clock (README, findings).            *)
RadioMayInterrupt == use = "fast" \/ todo = <<>>

LINKLAYER_PLAT_StartRadioEvt ==
  /\ ~scm.radio /\ RadioMayInterrupt /\ scm' = [scm EXCEPT !.radio = TRUE] /\ UNCHANGED clk
  /\ Interrupt(RADIO_INTR_PRIO_LOW, Request("LL_FW", HSE_32MHZ))

LINKLAYER_PLAT_StopRadioEvt ==
  /\ scm.radio /\ scm' = [scm EXCEPT !.radio = FALSE] /\ UNCHANGED clk
  /\ RadioMayInterrupt
  /\ Interrupt(0, Request("LL_FW", HSE_16MHZ))

RunClockTask(code) ==
  /\ todo = <<>> /\ todo' = code /\ UNCHANGED <<scm, use>>

AppRequests ==
  \E f \in (IF use = "fast" THEN HSE_32MHZ ELSE HSE_16MHZ) .. SYS_PLL :
    /\ scm.requests["APP"] # f
    /\ RunClockTask(Request("APP", f)) /\ UNCHANGED <<clk, lpm, level>>

LINKLAYER_PLAT_RCOStartClbr ==
  /\ use = "calibrated" /\ ~lpm.sleepDisabled
  /\ lpm' = [lpm EXCEPT !.sleepDisabled = TRUE, !.stop = @ \cup {"RCO"}]
  /\ RunClockTask(Request("RCO", HSE_32MHZ) \o <<<<"until", "vos">>>>) /\ UNCHANGED <<clk, level>>

LINKLAYER_PLAT_RCOStopClbr ==
  /\ lpm.sleepDisabled
  /\ lpm' = [lpm EXCEPT !.sleepDisabled = FALSE, !.stop = @ \ {"RCO"}]
  /\ RunClockTask(Request("RCO", HSE_16MHZ) \o <<<<"until", "vos">>>>) /\ UNCHANGED <<clk, level>>

(* The stack starts its clock with the interrupts below the radio masked,   *)
(* or the change of clock in scm_hserdy_isr would not be safe.              *)
LINKLAYER_PLAT_AclkCtrl ==
  /\ ~scm.ready /\ todo = <<>> /\ UNCHANGED <<clk, scm>>
  /\ Interrupt(RCC_INTR_PRIO, Call("SCM_HSE_WaitUntilReady"))

UTIL_LPM_SetMode ==
  /\ \E m \in (IF use = "calibrated" THEN {"stop"} ELSE {"stop", "off"}), s \in {{}, {"APP"}} :
       lpm' = [lpm EXCEPT ![m] = (@ \ {"APP"}) \cup s] /\ lpm' # lpm
  /\ RunClockTask(<<>>) /\ UNCHANGED <<clk, level>>

(* UTIL_SEQ_PreIdle clears the flags, then the sequencer idles masked.      *)
GoIdle ==
  /\ clk' = [clk EXCEPT !.stopped = FALSE, !.standby = FALSE]
  /\ RunClockTask(UTIL_SEQ_Idle \o <<<<"level", TaskLevel>>>>) /\ level' = 0 /\ UNCHANGED lpm

ClockInit ==
  /\ clk = [StandbyClk EXCEPT !.source = "HSE", !.hsi = FALSE, !.hse = "ready", !.vos = 1,
                              !.ws = [flash |-> 0, sram |-> 0], !.standby = FALSE]
  /\ scm = [target |-> HSE_32MHZ, radio |-> FALSE, ready |-> TRUE, core |-> 32,
            requests |-> [u \in ClockClient |-> IF u = "APP" THEN HSE_32MHZ ELSE NO_CLOCK_CONFIG],
            ws |-> [flash |-> 0, sram |-> 0]]
  /\ lpm = [stop |-> {"APP"}, off |-> {"APP"}, sleepDisabled |-> FALSE]
  /\ todo = <<>> /\ level = TaskLevel /\ use \in AppUse

ClockNext ==
  \/ CoreStep
  \/ HseStarts \/ PllLocks \/ VoltageSettles \/ TimerElapses
  \/ RCC_IRQHandler \/ TIM16_IRQHandler
  \/ LINKLAYER_PLAT_StartRadioEvt \/ LINKLAYER_PLAT_StopRadioEvt
  \/ AppRequests \/ LINKLAYER_PLAT_RCOStartClbr \/ LINKLAYER_PLAT_RCOStopClbr
  \/ LINKLAYER_PLAT_AclkCtrl \/ UTIL_LPM_SetMode \/ GoIdle

ClockSpec == ClockInit /\ [][ClockNext]_clockVars

(* At no register access does the core run faster than its voltage and the  *)
(* wait states of its memories carry, or from a source that is off.         *)
ClockIsSafe ==
  /\ clk.source = "HSE" => clk.hse = "ready"
  /\ clk.source = "PLL" => clk.pll = "ready" /\ clk.hse = "ready"
  /\ clk.source = "HSI" => clk.hsi
  /\ IF clk.vos = 1 /\ clk.settled
     THEN MHz > 32 => clk.ws.flash = 3
     ELSE MHz <= 16 /\ clk.ws.flash >= 1 /\ clk.ws.sram = 1

(* When no clock change is under way, a delay counted with SystemCoreClock  *)
(* is not shorter than asked (LINKLAYER_PLAT_DelayUs).                       *)
DelayIsLongEnough == todo = <<>> => scm.core >= MHz
=============================================================================
