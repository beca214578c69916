-------------------------------- MODULE Rcc --------------------------------
(***************************************************************************)
(* The driver of the clock tree: oscillators, PLL, system clock and bus    *)
(* prescalers.  A call writes registers and waits for the hardware, which  *)
(* follows later or too late; a call that fails leaves what it wrote, and  *)
(* the caller may call again.  Frequencies are in MHz.                     *)
(***************************************************************************)
EXTENDS Integers, FiniteSets

CONSTANTS Fractions,   \* values of the PLL's fraction, in 1/8192
          MaxCalls     \* calls of one behaviour

ASSUME RccAssumption == Fractions \subseteq 0..8191 /\ 0 \in Fractions /\ MaxCalls \in Nat

VARIABLES rcc,         \* registers; owed is history: the divider that a change counts on and has not written
          rccCall,     \* the call that runs
          rccUse,      \* the clocks this behaviour changes
          rccCalls     \* number of calls so far

rccVars == <<rcc, rccCall, rccUse, rccCalls>>

HSI_VALUE == 16
HSE_VALUE == 32
Sources == {"HSI", "HSE", "PLL"}
BackupClocks == {"LSI1", "LSI2", "LSE", "LSESYS"}
(* What is enabled first and ready later: oscillators, the write access to  *)
(* the backup domain, and the PLL's output without its divider.             *)
Switched == Sources \cup BackupClocks \cup {"DBP", "Undivided"}
PllTypes == {[source |-> "HSI", m |-> 1, n |-> 4, p |-> 2, q |-> 2, r |-> 1],
             [source |-> "HSE", m |-> 2, n |-> 5, p |-> 1, q |-> 2, r |-> 1]}
ResetPll == [source |-> "none", m |-> 1, n |-> 129, p |-> 2, q |-> 2, r |-> 2]
NoPll == [state |-> "none", config |-> ResetPll, frac |-> 0]
Buses == {"PCLK1", "PCLK2", "PCLK7"}
ClockTypes == Buses \cup {"SYSCLK", "HCLK", "HCLK5"}

NoCall == [of |-> "none", at |-> "idle", asked |-> <<>>, wait |-> <<>>, pwrWas |-> FALSE, status |-> "none"]

RccInit ==
  /\ rcc = [on |-> {"HSI"}, ready |-> {"HSI"}, hsePre |-> 1, lsiDiv |-> 1, bypass |-> FALSE, pwr |-> FALSE,
            pll |-> ResetPll, fracen |-> FALSE, fracn |-> 0, outputs |-> {},
            sw |-> "HSI", sws |-> "HSI", hpre |-> 1, ppre |-> [b \in Buses |-> 1], hpre5 |-> 1, hdiv5 |-> 2,
            owed |-> 1, latency |-> 0, SystemCoreClock |-> HSI_VALUE]
  /\ rccCall = NoCall /\ rccCalls = 0 /\ rccUse \in {"buses", "pll", "slow"}

-----------------------------------------------------------------------------
(* What the registers say of frequencies and of the configuration.          *)

RCC_PLL1_GetVCOOutputFreq ==
  LET input == (CASE rcc.pll.source = "HSI" -> HSI_VALUE
                  [] rcc.pll.source = "HSE" -> HSE_VALUE \div rcc.hsePre
                  [] OTHER -> 0) \div rcc.pll.m
  IN input * rcc.pll.n + (IF rcc.fracen THEN (input * rcc.fracn) \div 8192 ELSE 0)

HAL_RCC_GetPLL1PFreq == RCC_PLL1_GetVCOOutputFreq \div rcc.pll.p
HAL_RCC_GetPLL1QFreq == RCC_PLL1_GetVCOOutputFreq \div rcc.pll.q
HAL_RCC_GetPLL1RFreq == RCC_PLL1_GetVCOOutputFreq \div rcc.pll.r

FrequencyOf(source) ==
  CASE source = "HSI" -> HSI_VALUE
    [] source = "HSE" -> HSE_VALUE \div rcc.hsePre
    [] source = "PLL" -> HAL_RCC_GetPLL1RFreq

HAL_RCC_GetSysClockFreq == FrequencyOf(rcc.sws)
HCLK == HAL_RCC_GetSysClockFreq \div rcc.hpre
PCLK(bus) == HCLK \div rcc.ppre[bus]
HAL_RCC_GetHCLK5Freq ==
  HAL_RCC_GetSysClockFreq \div (IF rcc.sws = "PLL" THEN rcc.hpre5 ELSE rcc.hdiv5)

HAL_RCC_GetOscConfig ==
  [hse |-> IF "HSE" \notin rcc.on THEN "off" ELSE IF rcc.hsePre = 2 THEN "div2" ELSE "div1",
   hsi |-> IF "HSI" \in rcc.on THEN "on" ELSE "off",
   lsi |-> rcc.on \cap {"LSI1", "LSI2"}, lsiDiv |-> rcc.lsiDiv,
   lse |-> rcc.on \cap {"LSE", "LSESYS"}, bypass |-> rcc.bypass,
   pll |-> [state |-> IF "PLL" \in rcc.on THEN "on" ELSE "off",
            config |-> rcc.pll, frac |-> IF rcc.fracen THEN rcc.fracn ELSE 0]]

HAL_RCC_GetClockConfig ==
  [types |-> ClockTypes, source |-> rcc.sw, hpre |-> rcc.hpre, ppre |-> rcc.ppre,
   hpre5 |-> rcc.hpre5, hdiv5 |-> rcc.hdiv5, latency |-> rcc.latency]

-----------------------------------------------------------------------------
(* Steps of a call.                                                         *)

RccIdle == rccCall.at = "idle"
RccAt(label) == rccCall.at = label /\ UNCHANGED <<rccUse, rccCalls>>
RccKeeps == UNCHANGED rcc
RccGoes(label) == rccCall' = [rccCall EXCEPT !.at = label]
RccWaits(switched, told, next) ==
  rccCall' = [rccCall EXCEPT !.at = "wait", !.wait = <<switched, told, next>>]
RccReturns(status) == rccCall' = [rccCall EXCEPT !.at = "answers", !.status = status, !.wait = <<>>]
Answered == RccAt("answers") /\ RccKeeps /\ rccCall' = NoCall
RccStarts(name, asked, label) ==
  /\ RccIdle /\ rccCalls < MaxCalls /\ rccCalls' = rccCalls + 1 /\ UNCHANGED <<rcc, rccUse>>
  /\ rccCall' = [NoCall EXCEPT !.of = name, !.asked = asked, !.at = label]

(* A loop until a flag, or until none of several flags, is told.            *)
FlagTold(o) == IF o = "switch" THEN rcc.sws = rcc.sw ELSE o \in rcc.ready
Waited ==
  LET some == \E o \in rccCall.wait[1] : FlagTold(o)
  IN some = rccCall.wait[2]
WaitEnds == RccAt("wait") /\ RccKeeps /\ Waited /\ RccGoes(rccCall.wait[3])
TimesOut == RccAt("wait") /\ RccKeeps /\ ~Waited /\ RccReturns("HAL_TIMEOUT")

TurnedOn(o) == rcc.on \cup o
TurnedOff(o) == rcc.on \ o

(* The clock of the power interface and the access to the backup domain.    *)
OpensBackup(next) ==
  /\ rcc' = [rcc EXCEPT !.pwr = TRUE, !.on = @ \cup {"DBP"}]
  /\ rccCall' = [rccCall EXCEPT !.at = IF "DBP" \in rcc.ready THEN next ELSE "wait",
                                !.wait = <<{"DBP"}, TRUE, next>>, !.pwrWas = rcc.pwr]
 
LeavesBackup(next) == rcc' = [rcc EXCEPT !.pwr = rccCall.pwrWas] /\ RccGoes(next)

-----------------------------------------------------------------------------
(* HAL_RCC_OscConfig, one oscillator after the other.                       *)

Feeds(o, source) == source = o \/ (source = "PLL" /\ rcc.pll.source = o)
InUse(o) == Feeds(o, rcc.sws)
Asked == rccCall.asked

(* HAL_InitTick, which adapts the time base to a new clock, answers an error. *)
TickFails == RccReturns("HAL_ERROR")

HsePre == IF Asked.hse = "div2" THEN 2 ELSE 1

OscHSE ==
  /\ RccAt("HSE")
  /\ \/ Asked.hse = "none" /\ RccKeeps /\ RccGoes("HSI")
     \/ Asked.hse = "off" /\ InUse("HSE") /\ RccKeeps /\ RccReturns("HAL_ERROR")
     \/ Asked.hse \in {"div1", "div2"} /\ InUse("HSE") /\ rcc.sws = "PLL" /\ RccKeeps /\ RccGoes("HSI")
     \/ /\ Asked.hse \in {"div1", "div2"} /\ InUse("HSE") /\ rcc.sws = "HSE"
        /\ rcc' = [rcc EXCEPT !.hsePre = HsePre, !.SystemCoreClock = HSE_VALUE \div HsePre]
        /\ RccGoes("HSI") \/ TickFails
     \/ /\ Asked.hse # "none" /\ ~InUse("HSE")
        /\ rcc' = [rcc EXCEPT !.hsePre = HsePre,
                              !.on = IF Asked.hse = "off" THEN TurnedOff({"HSE"}) ELSE TurnedOn({"HSE"})]
        /\ RccWaits({"HSE"}, Asked.hse # "off", "HSI")

OscHSI ==
  /\ RccAt("HSI")
  /\ \/ (Asked.hsi = "none" \/ (Asked.hsi = "on" /\ InUse("HSI"))) /\ RccKeeps /\ RccGoes("LSI")
     \/ Asked.hsi = "off" /\ InUse("HSI") /\ RccKeeps /\ RccReturns("HAL_ERROR")
     \/ /\ Asked.hsi # "none" /\ ~InUse("HSI")
        /\ rcc' = [rcc EXCEPT !.on = IF Asked.hsi = "off" THEN TurnedOff({"HSI"}) ELSE TurnedOn({"HSI"})]
        /\ RccWaits({"HSI"}, Asked.hsi = "on", "LSI")

OtherLsi == {"LSI1", "LSI2"} \ Asked.lsi

OscLSI ==
  \/ RccAt("LSI") /\ Asked.lsi = {"none"} /\ RccKeeps /\ RccGoes("LSE")
  \/ RccAt("LSI") /\ Asked.lsi # {"none"} /\ OpensBackup("LSI config")
  \/ RccAt("LSI config") /\ Asked.lsi = {} /\ RccKeeps /\ RccGoes("LSI other")
  \/ /\ RccAt("LSI config") /\ Asked.lsi # {}
     /\ IF "LSI1" \in Asked.lsi /\ Asked.lsiDiv # rcc.lsiDiv /\ "LSI1" \in rcc.ready
        THEN rcc' = [rcc EXCEPT !.on = TurnedOff({"LSI1"})] /\ RccWaits({"LSI1"}, FALSE, "LSI on")
        ELSE RccKeeps /\ RccGoes("LSI on")
  \/ /\ RccAt("LSI on") /\ RccWaits(Asked.lsi, TRUE, "LSI other")
     /\ rcc' = [rcc EXCEPT !.on = TurnedOn(Asked.lsi), !.lsiDiv = IF "LSI1" \in Asked.lsi THEN Asked.lsiDiv ELSE @]
  \/ /\ RccAt("LSI other") /\ RccWaits(OtherLsi, FALSE, "LSI end")
     /\ rcc' = [rcc EXCEPT !.on = TurnedOff(OtherLsi)]
  \/ RccAt("LSI end") /\ LeavesBackup("LSE")

OscLSE ==
  \/ RccAt("LSE") /\ Asked.lse = {"none"} /\ RccKeeps /\ RccGoes("PLL")
  \/ RccAt("LSE") /\ Asked.lse # {"none"} /\ OpensBackup("LSE config")
  \/ /\ RccAt("LSE config") /\ Asked.lse = {} /\ RccWaits({"LSE"}, FALSE, "LSE end")
     /\ rcc' = [rcc EXCEPT !.on = TurnedOff({"LSE", "LSESYS"}), !.bypass = FALSE]
  \/ /\ RccAt("LSE config") /\ Asked.lse # {} /\ RccWaits({"LSE"}, TRUE, "LSE system")
     /\ rcc' = [rcc EXCEPT !.on = TurnedOff({"LSESYS"}) \cup Asked.lse, !.bypass = @ \/ Asked.bypass]
  \/ RccAt("LSE system") /\ RccKeeps /\ RccWaits({"LSESYS"}, "LSESYS" \in Asked.lse, "LSE end")
  \/ RccAt("LSE end") /\ LeavesBackup("PLL")

PllConfigured ==
  [rcc EXCEPT !.pll = Asked.pll.config, !.on = TurnedOn({"PLL"}), !.outputs = @ \cup {"R"},
              !.fracen = Asked.pll.frac # 0, !.fracn = IF Asked.pll.frac # 0 THEN Asked.pll.frac ELSE @]

OscPLL ==
  \/ RccAt("PLL") /\ Asked.pll.state = "none" /\ RccKeeps /\ RccReturns("HAL_OK")
  \/ /\ RccAt("PLL") /\ Asked.pll.state # "none" /\ rcc.sws # "PLL"
     /\ rcc' = [rcc EXCEPT !.on = TurnedOff({"PLL"})]
     /\ RccWaits({"PLL"}, FALSE, IF Asked.pll.state = "on" THEN "PLL config" ELSE "PLL outputs")
  \/ RccAt("PLL config") /\ rcc' = PllConfigured /\ RccWaits({"PLL"}, TRUE, "OK")
  \/ /\ RccAt("PLL outputs") /\ RccReturns("HAL_OK")
     /\ rcc' = [rcc EXCEPT !.pll.source = "none", !.outputs = {}]
  \/ /\ RccAt("PLL") /\ rcc.sws = "PLL" /\ RccKeeps /\ RccReturns("HAL_ERROR")
     /\ Asked.pll.state = "off" \/ (Asked.pll.state = "on" /\ rcc.pll # Asked.pll.config)
  \/ /\ RccAt("PLL") /\ rcc.sws = "PLL" /\ Asked.pll.state = "on" /\ rcc.pll = Asked.pll.config
     /\ IF rcc.fracn = Asked.pll.frac
        THEN RccKeeps /\ RccReturns("HAL_OK")
        ELSE rcc' = [rcc EXCEPT !.fracen = FALSE] /\ RccGoes("fraction")
  \/ /\ RccAt("fraction") /\ RccReturns("HAL_OK")
     /\ rcc' = [rcc EXCEPT !.fracn = Asked.pll.frac, !.fracen = TRUE]

CallEndsWell == RccAt("OK") /\ RccKeeps /\ RccReturns("HAL_OK")

-----------------------------------------------------------------------------
(* HAL_RCC_ClockConfig: wait states first when they grow and last when they *)
(* shrink, the PLL taken through its divider, and the divider of the bus    *)
(* only after the switch.                                                   *)

ChangesHCLK == "HCLK" \in Asked.types

(* A bug to catch: the wait states are lowered before the switch, too.      *)
LowersFirst ==
  RccAt("latency") /\ rcc' = [rcc EXCEPT !.latency = Asked.latency] /\ RccGoes("HCLK5")

ConfigLatency ==
  /\ RccAt("latency")
  /\ \/ Asked.latency <= rcc.latency /\ RccKeeps /\ RccGoes("HCLK5")
     \/ /\ Asked.latency > rcc.latency /\ RccGoes("HCLK5")
        /\ rcc' = [rcc EXCEPT !.latency = Asked.latency]
     \/ Asked.latency > rcc.latency /\ RccKeeps /\ RccReturns("HAL_ERROR")     \* the flash does not take it

ConfigHCLK5 ==
  /\ RccAt("HCLK5") /\ RccGoes(IF "SYSCLK" \in Asked.types THEN "SYSCLK" ELSE "dividers")
  /\ rcc' = IF "HCLK5" \in Asked.types
            THEN [rcc EXCEPT !.hpre5 = Asked.hpre5, !.hdiv5 = Asked.hdiv5] ELSE rcc

ConfigSYSCLK ==
  \/ RccAt("SYSCLK") /\ Asked.source \notin rcc.ready /\ RccKeeps /\ RccReturns("HAL_ERROR")
  \/ /\ RccAt("SYSCLK") /\ Asked.source \in rcc.ready
     /\ rcc' = [rcc EXCEPT !.sw = Asked.source,
                           !.owed = IF Asked.source # rcc.sw /\ ChangesHCLK /\ Asked.hpre > rcc.hpre THEN Asked.hpre ELSE @,
                           !.on = IF Asked.source = "PLL" /\ rcc.sws # "PLL" THEN TurnedOff({"Undivided"}) ELSE @]
     /\ RccWaits({"switch"}, TRUE, "switched")
  \/ RccAt("switched") /\ Asked.source # "PLL" /\ RccKeeps /\ RccGoes("dividers")
  \/ /\ RccAt("switched") /\ Asked.source = "PLL" /\ rcc' = [rcc EXCEPT !.on = TurnedOn({"Undivided"})]
     /\ RccWaits({"Undivided"}, TRUE, "dividers")

ConfigDividers ==
  /\ RccAt("dividers") /\ RccGoes("less latency")
  /\ rcc' = [rcc EXCEPT !.hpre = IF ChangesHCLK THEN Asked.hpre ELSE @, !.owed = 1,
                        !.ppre = [b \in Buses |-> IF b \in Asked.types THEN Asked.ppre[b] ELSE @[b]]]

ConfigEnds ==
  /\ RccAt("less latency")
  /\ \/ /\ rcc' = [rcc EXCEPT !.latency = IF Asked.latency < @ THEN Asked.latency ELSE @,
                              !.SystemCoreClock = HCLK]
        /\ RccReturns("HAL_OK") \/ TickFails
     \/ Asked.latency < rcc.latency /\ RccKeeps /\ RccReturns("HAL_ERROR")

HAL_RCC_DeInit ==
  \/ RccAt("reset HSI") /\ rcc' = [rcc EXCEPT !.on = TurnedOn({"HSI"})] /\ RccWaits({"HSI"}, TRUE, "reset switch")
  \/ /\ RccAt("reset switch") /\ RccWaits({"switch"}, TRUE, "reset rest")
     /\ rcc' = [rcc EXCEPT !.sw = "HSI"]
  \/ /\ RccAt("reset rest") /\ RccWaits({"PLL"}, FALSE, "reset PLL")
     /\ rcc' = [rcc EXCEPT !.hpre = 1, !.owed = 1, !.ppre = [b \in Buses |-> 1], !.hpre5 = 1, !.hdiv5 = 2,
                           !.on = (@ \ Sources) \cup {"HSI"}, !.hsePre = 1]
  \/ /\ RccAt("reset PLL") /\ (RccReturns("HAL_OK") \/ TickFails)
     /\ rcc' = [rcc EXCEPT !.pll = ResetPll, !.fracen = FALSE, !.fracn = 0, !.outputs = {},
                           !.on = @ \ {"Undivided"}, !.SystemCoreClock = HSI_VALUE]

HAL_RCC_GetHCLKFreq ==
  /\ RccIdle /\ (rccUse = "buses" \/ rccCalls = MaxCalls)
  /\ rcc' = [rcc EXCEPT !.SystemCoreClock = HCLK] /\ UNCHANGED <<rccCall, rccUse, rccCalls>>

-----------------------------------------------------------------------------
(* The hardware follows the enables; the PLL needs its source, a clock that *)
(* is selected becomes the system clock once it is ready.                   *)

CanRun(o) ==
  /\ o \in rcc.on
  /\ o = "PLL" => rcc.pll.source \in rcc.ready
  /\ o = "LSESYS" => "LSE" \in rcc.ready

Lost(o) ==
  {o} \cup (IF rcc.pll.source = o THEN {"PLL"} ELSE {}) \cup (IF o = "LSE" THEN {"LSESYS"} ELSE {})

Settles ==
  /\ rccCall.at \in {"idle", "wait"}
  /\ \E o \in Switched :
       /\ (o \in rcc.ready) # CanRun(o)
       /\ rcc' = [rcc EXCEPT !.ready = IF CanRun(o) THEN @ \cup {o} ELSE @ \ Lost(o)]
  /\ UNCHANGED <<rccCall, rccUse, rccCalls>>

Switches ==
  /\ rcc.sws # rcc.sw /\ rcc.sw \in rcc.ready
  /\ rcc' = [rcc EXCEPT !.sws = rcc.sw] /\ UNCHANGED <<rccCall, rccUse, rccCalls>>

-----------------------------------------------------------------------------
(* Callers.  They give the wait states for the clock and the divider they   *)
(* ask for (where they ask for no clock: for the one in use and one whose   *)
(* switch is under way), ask for a clock they have enabled, since one just  *)
(* disabled is told ready for a while, and change no oscillator while a     *)
(* switch is under way.                                                     *)

NeededLatency(frequency) == (frequency - 1) \div 32

(* A call changes one oscillator, or the PLL and the HSE or HSI it is fed   *)
(* from.                                                                    *)
NoRequest == [hse |-> "none", hsi |-> "none", lsi |-> {"none"}, lsiDiv |-> 1, lse |-> {"none"}, bypass |-> FALSE, pll |-> NoPll]
PllRequests ==
  {[NoPll EXCEPT !.state = "off"]}
    \cup {[state |-> "on", config |-> c, frac |-> f] : c \in PllTypes, f \in Fractions}
WithPll(r, p) == [r EXCEPT !.pll = p]
HseRequests == {[NoRequest EXCEPT !.hse = h] : h \in {"none", "off", "div1", "div2"}}
HsiRequests == {[NoRequest EXCEPT !.hsi = h] : h \in {"off", "on"}}
LsiRequests == {[NoRequest EXCEPT !.lsi = l, !.lsiDiv = d] : l \in {{}, {"LSI1"}, {"LSI2"}}, d \in {1, 128}}
LseRequests == {[NoRequest EXCEPT !.lse = l, !.bypass = b] : l \in {{}, {"LSE"}, {"LSE", "LSESYS"}}, b \in BOOLEAN}
OscRequests ==
  IF rccUse = "slow" THEN LsiRequests \cup LseRequests
  ELSE IF rccUse = "buses" THEN HseRequests \cup HsiRequests
  ELSE HseRequests \cup HsiRequests \cup {WithPll(NoRequest, p) : p \in PllRequests}
         \cup {WithPll([NoRequest EXCEPT !.hse = "div1"], p) : p \in {q \in PllRequests : q.config.source = "HSE"}}

(* The bypass of the LSE is left through "off" only, and the fraction of    *)
(* the running PLL raised only with the wait states for it.                 *)
Requestable(asked) ==
  /\ rcc.sw = rcc.sws
  /\ asked.lse # {} /\ asked.lse # {"none"} /\ "LSE" \in rcc.on => asked.bypass = rcc.bypass
  /\ asked.lse \in {{}, {"none"}} => ~asked.bypass
  /\ rcc.sws = "PLL" /\ asked.pll.state = "on" =>
       NeededLatency(((RCC_PLL1_GetVCOOutputFreq * 5) \div 4) \div rcc.pll.r) <= rcc.latency

OscConfig == \E asked \in OscRequests : Requestable(asked) /\ RccStarts("OscConfig", asked, "HSE")

ClockRequests ==
  {[types |-> types, source |-> s, hpre |-> h, ppre |-> [b \in Buses |-> IF b = "PCLK1" THEN 1 ELSE h],
    hpre5 |-> h, hdiv5 |-> 1, latency |-> l] :
     types \in IF rccUse = "pll" THEN {{"SYSCLK"}, {"SYSCLK", "HCLK"}} ELSE {ClockTypes, {"HCLK", "PCLK2"}},
     s \in IF rccUse = "pll" THEN Sources ELSE {"HSI", "HSE"}, h \in {1, 2}, l \in {0, 2}}

ClockConfig ==
  /\ rccUse # "slow"
  /\ \E asked \in ClockRequests :
       /\ asked.source = rcc.sws \/ ("SYSCLK" \in asked.types /\ asked.source \in rcc.on)
       /\ asked.source = "PLL" => rcc.pll.source \in rcc.on
       /\ \A s \in IF "SYSCLK" \in asked.types THEN {asked.source} ELSE {rcc.sw, rcc.sws} :
            NeededLatency(FrequencyOf(s) \div (IF "HCLK" \in asked.types THEN asked.hpre ELSE rcc.hpre)) <= asked.latency
       /\ RccStarts("ClockConfig", asked, "latency")

DeInit == rccUse # "slow" /\ RccStarts("DeInit", <<>>, "reset HSI")

RccNext ==
  \/ OscConfig \/ ClockConfig \/ DeInit \/ HAL_RCC_GetHCLKFreq
  \/ OscHSE \/ OscHSI \/ OscLSI \/ OscLSE \/ OscPLL \/ CallEndsWell
  \/ ConfigLatency \/ ConfigHCLK5 \/ ConfigSYSCLK \/ ConfigDividers \/ ConfigEnds
  \/ HAL_RCC_DeInit \/ WaitEnds \/ TimesOut \/ Answered \/ Settles \/ Switches

-----------------------------------------------------------------------------
(* Whatever calls are made, fail and time out: the system clock runs, as    *)
(* does what it is made from; the flash has the wait states for the bus     *)
(* clock at every moment of a change; and the PLL is not taken at its full  *)
(* speed.  The wait states count on the divider of the change: the code     *)
(* writes it after the switch, so from the switch until then, and after a   *)
(* time-out until a later call writes it, the bus is faster than they are   *)
(* for, where a call asks for a new clock together with a greater divider.  *)
ClockStaysUsable ==
  /\ \A o \in Sources : InUse(o) => o \in rcc.ready
  /\ NeededLatency(HAL_RCC_GetSysClockFreq \div (IF rcc.owed > rcc.hpre THEN rcc.owed ELSE rcc.hpre)) <= rcc.latency
  /\ rcc.sw = "PLL" /\ rcc.sws # "PLL" => "Undivided" \notin rcc.on

(* A call that answers HAL_OK has done what it was asked, as the functions  *)
(* that tell the configuration say.  Not so in two cases, where the call    *)
(* does nothing and answers HAL_OK: a divider of the HSE while the PLL runs *)
(* the system from it, and a fraction the PLL still holds, but disabled.    *)
OscDone ==
  LET told == HAL_RCC_GetOscConfig
  IN /\ Asked.hse # "none" /\ rcc.sws # "PLL" => told.hse = Asked.hse
     /\ Asked.hsi # "none" => told.hsi = Asked.hsi
     /\ Asked.lsi # {"none"} =>
          told.lsi = Asked.lsi /\ rcc.ready \cap {"LSI1", "LSI2"} = told.lsi /\ ("LSI1" \in Asked.lsi => told.lsiDiv = Asked.lsiDiv)
     /\ Asked.lse # {"none"} =>
          told.lse = Asked.lse /\ told.lse \subseteq rcc.ready /\ told.bypass = Asked.bypass
     /\ Asked.pll.state # "none" => told.pll.state = Asked.pll.state
     /\ Asked.pll.state = "on" =>
          told.pll.config = Asked.pll.config /\ (rcc.sws # "PLL" => told.pll.frac = Asked.pll.frac)

ClockDone ==
  LET told == HAL_RCC_GetClockConfig
  IN /\ "SYSCLK" \in Asked.types => told.source = Asked.source /\ rcc.sws = Asked.source /\ rcc.SystemCoreClock = HCLK
     /\ "HCLK" \in Asked.types => told.hpre = Asked.hpre
     /\ \A b \in Buses \cap Asked.types : told.ppre[b] = Asked.ppre[b]
     /\ "HCLK5" \in Asked.types => told.hpre5 = Asked.hpre5 /\ told.hdiv5 = Asked.hdiv5
     /\ told.latency = Asked.latency

RccDoesWhatIsAsked ==
  rccCall.status = "HAL_OK" =>
    /\ rccCall.of = "OscConfig" => OscDone
    /\ rccCall.of = "ClockConfig" => ClockDone
    /\ rccCall.of = "DeInit" => rcc.sws = "HSI" /\ rcc.SystemCoreClock = HCLK /\ rcc.on \cap Sources = {"HSI"}
=============================================================================
