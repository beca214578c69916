---------------------------- MODULE PeriphClock ----------------------------
(***************************************************************************)
(* The clocks of the peripherals, of the real-time clock and of the radio's*)
(* sleep timer, selected on top of the clock tree.  A new source for the   *)
(* real-time clock takes a reset of the backup domain, where the slow      *)
(* oscillators live.                                                       *)
(***************************************************************************)
EXTENDS Rcc

CONSTANT Subjects    \* peripherals whose clock is selected

VARIABLE periph    \* a peripheral, and what is selected for it, RTC and radio

periphVars == <<rccVars, periph>>

NoSource == "none"
BusOf == [USART1 |-> "PCLK2", USART2 |-> "PCLK1", LPUART1 |-> "PCLK7", I2C1 |-> "PCLK1", I2C3 |-> "PCLK7",
          SPI1 |-> "PCLK2", SPI3 |-> "PCLK7", LPTIM1 |-> "PCLK7", LPTIM2 |-> "PCLK1"]
Uarts == {"USART1", "USART2", "LPUART1"}
Timers == {"LPTIM1", "LPTIM2"}
Peripherals == DOMAIN BusOf \cup {"SYSTICK", "TIMIC", "SAI1", "RNG", "AUDIOSYNC", "ADC"}

ASSUME SubjectsAssumption == Subjects \subseteq Peripherals

SelectableSources(p) ==
  CASE p \in Uarts -> {BusOf[p], "SYSCLK", "HSI", "LSE"}
    [] p \in Timers -> {BusOf[p], "LSI", "HSI", "LSE"}
    [] p \in DOMAIN BusOf \ (Uarts \cup Timers) -> {BusOf[p], "SYSCLK", "HSI"}
    [] p = "SYSTICK" -> {"HCLK/8", "LSE", "LSI"}
    [] p = "TIMIC" -> {"HSI", "HSI/256"}
    [] p = "SAI1" -> {"PLL1P", "PLL1Q", "SYSCLK", "PIN", "HSI"}
    [] p = "RNG" -> {"LSE", "LSI", "HSI", "PLL1Q"}
    [] p = "AUDIOSYNC" -> {"PLL1P", "PLL1Q"}
    [] p = "ADC" -> {"HCLK", "SYSCLK", "PLL1P", "HSE", "HSI"}
RtcSources == {"LSE", "LSI", "HSE/32"}
RadioSources == {"HSE/1000", "LSE", "LSI"}

(* The outputs of the PLL a call enables.  For the ADC the source is        *)
(* compared with the name of the peripheral, and none is.                   *)
OutputsFor(p, source) ==
  CASE source = "PLL1P" /\ p # "ADC" -> {"P"}
    [] source = "PLL1Q" -> {"Q"}
    [] OTHER -> {}

-----------------------------------------------------------------------------
(* Frequencies, in Hz.                                                      *)

LSE_VALUE == 32768
LSI_VALUE == 32000
InHz(n) == n * 1000000
IfReady(o, frequency) == IF o \in rcc.ready THEN frequency ELSE 0

LsiFreq ==
  IF "LSI1" \in rcc.ready THEN LSI_VALUE \div rcc.lsiDiv ELSE IfReady("LSI2", LSI_VALUE)

BusFreq(source) ==
  CASE source \in Buses -> InHz(PCLK(source))
    [] source = "SYSCLK" -> InHz(HAL_RCC_GetSysClockFreq)
    [] source = "HCLK" -> InHz(HCLK)
    [] source = "HCLK/8" -> InHz(HCLK) \div 8

OscillatorFreq(source) ==
  CASE source = "HSI" -> IfReady("HSI", InHz(HSI_VALUE))
    [] source = "HSI/256" -> IfReady("HSI", InHz(HSI_VALUE) \div 256)
    [] source = "HSE" -> IfReady("HSE", InHz(HSE_VALUE))
    [] source = "HSE/32" -> IfReady("HSE", InHz(HSE_VALUE) \div 32)
    [] source = "HSE/1000" -> IfReady("HSE", InHz(HSE_VALUE) \div 1000)
    [] source = "LSE" -> IfReady("LSE", LSE_VALUE)
    [] source = "LSI" -> LsiFreq

PllFreq(source) == InHz(IF source = "PLL1P" THEN HAL_RCC_GetPLL1PFreq ELSE HAL_RCC_GetPLL1QFreq)

HAL_RCCEx_GetPeriphCLKFreq(source) ==
  CASE source \in Buses \cup {"SYSCLK", "HCLK", "HCLK/8"} -> BusFreq(source)
    [] source \in {"PLL1P", "PLL1Q"} -> PllFreq(source)
    [] source = "PIN" -> 48000
    [] OTHER -> OscillatorFreq(source)

HAL_RCCEx_GetPeriphCLKConfig == [source |-> periph.source, rtc |-> periph.rtc, radio |-> periph.radio]

-----------------------------------------------------------------------------
(* HAL_RCCEx_PeriphCLKConfig.                                               *)

PeriphKeeps == UNCHANGED periph

SelectsSource ==
  /\ RccAt("muxes") /\ RccGoes("RTC source")
  /\ IF Asked.source = NoSource THEN RccKeeps /\ PeriphKeeps
     ELSE /\ periph' = [periph EXCEPT !.source = Asked.source]
          /\ rcc' = [rcc EXCEPT !.outputs = @ \cup OutputsFor(periph.subject, Asked.source)]

StartsRtcSource ==
  /\ RccAt("RTC source") /\ PeriphKeeps
  /\ \/ Asked.rtc \in {NoSource, periph.rtc} /\ RccKeeps /\ RccGoes("radio source")
     \/ Asked.rtc \notin {NoSource, periph.rtc} /\ OpensBackup("RTC switch")

(* The reset stops the slow oscillators and clears what is selected for the *)
(* radio; the registers written back start and select them again.           *)
BackupReset == [tree |-> [rcc EXCEPT !.ready = @ \ BackupClocks], radio |-> periph.radio]

(* A bug to catch: the register is written without what it was.             *)
ResetForgets ==
  [tree |-> [rcc EXCEPT !.ready = @ \ BackupClocks, !.on = @ \ BackupClocks, !.lsiDiv = 1, !.bypass = FALSE],
   radio |-> NoSource]

AfterBackupReset == BackupReset

SlowOscillators == {"LSE", "LSI1", "LSI2"}

(* Of the oscillators the first one that is ready is waited for.            *)
SwitchesRtc ==
  /\ RccAt("RTC switch")
  /\ LET after == IF periph.rtc = NoSource THEN [tree |-> rcc, radio |-> periph.radio] ELSE AfterBackupReset
     IN rcc' = after.tree /\ periph' = [periph EXCEPT !.rtc = Asked.rtc, !.radio = after.radio]
  /\ IF rcc.on \cap SlowOscillators = {}
     THEN RccGoes("RTC end") ELSE RccWaits(rcc.on \cap SlowOscillators, TRUE, "RTC end")

EndsRtcSource == RccAt("RTC end") /\ PeriphKeeps /\ LeavesBackup("radio source")

(* The selection is written in vain without access to the backup domain.    *)
SelectsRadio ==
  /\ RccAt("radio source") /\ RccKeeps
  /\ \/ Asked.radio = NoSource /\ PeriphKeeps /\ RccReturns("HAL_OK")
     \/ /\ Asked.radio # NoSource /\ "DBP" \in rcc.ready
        /\ periph' = [periph EXCEPT !.radio = Asked.radio] /\ RccReturns("HAL_OK")
     \/ /\ Asked.radio # NoSource /\ "DBP" \notin rcc.ready /\ PeriphKeeps
        /\ RccReturns(IF periph.radio = Asked.radio THEN "HAL_OK" ELSE "HAL_ERROR")

HAL_RCCEx_PeriphCLKConfig ==
  SelectsSource \/ StartsRtcSource \/ SwitchesRtc \/ EndsRtcSource \/ SelectsRadio

-----------------------------------------------------------------------------
PeriphInit ==
  /\ RccInit
  /\ \E p \in Subjects :
       periph = [subject |-> p, source |-> CHOOSE s \in SelectableSources(p) : TRUE, rtc |-> NoSource, radio |-> NoSource]

(* A call for a peripheral, where the fast oscillators change, or for the   *)
(* real-time clock or the radio, where the slow ones do; the oscillators    *)
(* and selections as they are when it starts, to compare.                   *)
PeriphCLKConfig ==
  /\ rccUse # "pll" /\ PeriphKeeps
  /\ \E s \in SelectableSources(periph.subject) \cup {NoSource}, t \in RtcSources \cup {NoSource}, r \in RadioSources \cup {NoSource} :
       /\ Cardinality({s, t, r} \ {NoSource}) = 1 /\ (s # NoSource <=> rccUse = "buses")
       /\ RccStarts("PeriphCLKConfig",
                    [source |-> s, rtc |-> t, radio |-> r, before |-> [rcc EXCEPT !.ready = {}, !.pwr = FALSE], selected |-> periph],
                    "muxes")

PeriphNext == (RccNext /\ PeriphKeeps) \/ PeriphCLKConfig \/ HAL_RCCEx_PeriphCLKConfig

PeriphSpec == PeriphInit /\ [][PeriphNext]_periphVars

(* A call that answers HAL_OK has selected what it was asked, enabled the   *)
(* PLL's output for it, and disturbed nothing else: the reset of the backup *)
(* domain costs no oscillator, nor its divider or bypass, nor the clock     *)
(* selected for the radio.  One of the oscillators runs again by then: the  *)
(* code waits for the first, where its comment says for all of them.        *)
PeriphClkDone ==
  LET told == HAL_RCCEx_GetPeriphCLKConfig
      Selected(new, old) == IF new = NoSource THEN old ELSE new
  IN /\ told.source = Selected(Asked.source, Asked.selected.source)
     /\ told.rtc = Selected(Asked.rtc, Asked.selected.rtc)
     /\ told.radio = Selected(Asked.radio, Asked.selected.radio)
     /\ Asked.source # NoSource => OutputsFor(periph.subject, told.source) \subseteq rcc.outputs
     /\ rcc.on \ {"DBP"} = Asked.before.on \ {"DBP"}
     /\ rcc.lsiDiv = Asked.before.lsiDiv /\ rcc.bypass = Asked.before.bypass
     /\ told.rtc # Asked.selected.rtc /\ rcc.on \cap SlowOscillators # {}
          => rcc.on \cap rcc.ready \cap SlowOscillators # {}

(* A frequency is told for a source exactly while it runs, but for the      *)
(* outputs of the PLL, whose frequency is told even when it is off.         *)
OscillatorOf(source) ==
  CASE source \in {"HSI/256"} -> {"HSI"}
    [] source \in {"HSE/32", "HSE/1000"} -> {"HSE"}
    [] source = "LSI" -> {"LSI1", "LSI2"}
    [] source \in {"HSI", "HSE", "LSE"} -> {source}
    [] OTHER -> {rcc.sws}
ToldWhileItRuns ==
  \A s \in UNION {SelectableSources(p) : p \in Peripherals} \cup RtcSources \cup RadioSources :
     s \notin {"PLL1P", "PLL1Q", "PIN"} =>
       (HAL_RCCEx_GetPeriphCLKFreq(s) # 0 <=> OscillatorOf(s) \cap rcc.ready # {})

ClocksAreAsAsked ==
  /\ RccDoesWhatIsAsked /\ (rccCall.at = "answers" => ToldWhileItRuns)
  /\ rccCall.of = "PeriphCLKConfig" /\ rccCall.status = "HAL_OK" => PeriphClkDone
=============================================================================
