------------------------------ MODULE RadioIrq ------------------------------
(***************************************************************************)
(* The critical sections and the software interrupt of the link layer,     *)
(* linklayer_plat.c and the handlers of stm32wbaxx_it.c: counters that     *)
(* close an interrupt at the first request and open it at the last, cut by *)
(* interrupts between any two accesses.                                    *)
(*                                                                         *)
(* The link layer itself is a library: the task, and the two interrupts    *)
(* while their callback is running, open sections, close them in the       *)
(* reverse order, and trigger the low interrupt.  Another interrupt of the *)
(* system only comes and goes.                                             *)
(***************************************************************************)
EXTENDS Naturals, Sequences, SequencesExt

CONSTANTS
  MaskedAtOnce,    (* the sets of groups a call of the library masks         *)
  MaxSections      (* sections each context may have open                    *)

ASSUME RadioIrqAssumption ==
  /\ MaskedAtOnce \subseteq SUBSET {"high", "low", "sys"}
  /\ MaxSections \in [{"task", "low", "radio"} -> Nat]

VARIABLES
  running,  \* the contexts, each preempted by the next: [who, code, sections]
  nvic,     \* enabled interrupts, whether HASH is pending, the priorities
  mask,     \* PRIMASK and BASEPRI
  counter,  \* irq_counter, prio_high_isr_counter, prio_low_isr_counter, prio_sys_isr_counter
  saved     \* primask_bit, local_basepri_value, radio_sw_low_isr_is_running_high_prio

radioVars == <<running, nvic, mask, counter, saved>>

RADIO_PRIO_LOW == 5
RADIO_SW_LOW_INTR_PRIO == 15
RadioContext == {"task", "system", "low", "radio"}
LineOf == [high |-> "radio", low |-> "low"]

Core == Last(running)
CoreAt(op) == Head(Core.code)[1] = op
Arg == Head(Core.code)[2]

(* The core runs `code', then what follows its present step.                *)
CoreRuns(code) == running' = [running EXCEPT ![Len(running)].code = code \o Tail(@)]

-----------------------------------------------------------------------------
(* The functions, as the accesses to memory and registers they still make.  *)

LINKLAYER_PLAT_DisableIRQ == <<<<"save_primask">>, <<"set_primask">>, <<"count", "irq">>>>
LINKLAYER_PLAT_EnableIRQ == <<<<"uncount_irq">>, <<"restore_primask">>>>

Closes(group, groups) ==
  IF group \in groups THEN <<<<"count", group>>, <<"close_if_first", group>>>> ELSE <<>>
LINKLAYER_PLAT_DisableSpecificIRQ(groups) ==
  Closes("high", groups) \o Closes("low", groups) \o Closes("sys", groups)

Opens(group, groups) ==
  IF group \in groups THEN <<<<"uncount", group>>, <<"open_if_last", group>>>> ELSE <<>>
LINKLAYER_PLAT_EnableSpecificIRQ(groups) ==
  Opens("high", groups) \o Opens("low", groups) \o Opens("sys", groups)

LINKLAYER_PLAT_TriggerSwLowIT(priority) == <<<<"trigger", priority>>, <<"pend_low">>>>

LINKLAYER_PLAT_DisableRadioIT == <<<<"disable", "radio">>>>
LINKLAYER_PLAT_EnableRadioIT == <<<<"enable", "radio">>>>

HASH_IRQHandler ==
  <<<<"disable", "low">>, <<"callback">>, <<"test_nested">>, <<"enable", "low">>, <<"return">>>>
RADIO_IRQHandler == <<<<"callback">>, <<"return">>>>

Handler == [low |-> HASH_IRQHandler, radio |-> RADIO_IRQHandler, system |-> <<<<"return">>>>]

-----------------------------------------------------------------------------
RadioInit ==
  /\ running = <<[who |-> "task", code |-> <<<<"callback">>>>, sections |-> <<>>]>>
  /\ \E p \in {0, RADIO_PRIO_LOW} :
       nvic = [enabled |-> {"radio", "low", "system"}, pending |-> FALSE,
               prio |-> [radio |-> p, low |-> RADIO_SW_LOW_INTR_PRIO, system |-> 10, task |-> 16]]
  /\ mask = [primask |-> FALSE, basepri |-> 0]
  /\ counter = [irq |-> 0, high |-> 0, low |-> 0, sys |-> 0]
  /\ saved = [primask |-> FALSE, basepri |-> 0, nested |-> FALSE]

(* An interrupt preempts what has a higher number, and is not masked.       *)
ActiveContexts == {running[i].who : i \in DOMAIN running}
Unmasked(p) == ~mask.primask /\ (mask.basepri = 0 \/ p < mask.basepri)

Preempt(who) ==
  /\ who \in nvic.enabled \ ActiveContexts /\ (who = "low" => nvic.pending)
  /\ Unmasked(nvic.prio[who]) /\ \A c \in ActiveContexts : nvic.prio[who] < nvic.prio[c]
  /\ running' = Append(running, [who |-> who, code |-> Handler[who], sections |-> <<>>])
  /\ nvic' = IF who = "low" THEN [nvic EXCEPT !.pending = FALSE] ELSE nvic
  /\ UNCHANGED <<mask, counter, saved>>

-----------------------------------------------------------------------------
(* A section that opens while a context below is between the count and the  *)
(* disabling of LINKLAYER_PLAT_DisableSpecificIRQ counts as a second one,   *)
(* and closes nothing: it is marked, see SectionsExclude.                   *)
InsideDisable(context) ==
  Head(context.code)[1] \in {"close_if_first", "save_basepri", "set_basepri", "disable"}

OpenSection(groups, code) ==
  /\ CoreAt("callback") /\ Len(Core.sections) < MaxSections[Core.who]
  /\ LET sound == "irq" \in groups \/ \A i \in 1 .. Len(running) - 1 : ~InsideDisable(running[i])
     IN  running' = [running EXCEPT ![Len(running)].code =
                       code \o <<<<"opened", [of |-> groups, sound |-> sound]>>>> \o @]
  /\ UNCHANGED <<nvic, mask, counter, saved>>

(* A radio interrupt that preempts everything leaves BASEPRI alone: it is   *)
(* restored from a variable, which the preempted one may be about to use.   *)
Mask(groups) ==
  /\ Core.who = "radio" => "sys" \notin groups
  /\ OpenSection(groups, LINKLAYER_PLAT_DisableSpecificIRQ(groups))

CloseSection ==
  /\ CoreAt("callback") /\ Core.sections # <<>>
  /\ LET groups == Last(Core.sections).of
         code == IF "irq" \in groups THEN LINKLAYER_PLAT_EnableIRQ
                 ELSE LINKLAYER_PLAT_EnableSpecificIRQ(groups)
     IN  running' = [running EXCEPT ![Len(running)].code = code \o @,
                                    ![Len(running)].sections = Front(@)]
  /\ UNCHANGED <<nvic, mask, counter, saved>>

(* A trigger, and ll_sys_dp_slp_exit of a radio that is awake, which the    *)
(* tasks call outside of their sections.                                    *)
CallPlatform ==
  /\ CoreAt("callback")
  /\ \E code \in {LINKLAYER_PLAT_TriggerSwLowIT(p) : p \in {0, 1}}
                   \cup {LINKLAYER_PLAT_DisableRadioIT \o LINKLAYER_PLAT_EnableRadioIT} :
       /\ Head(code)[1] = "disable" => Core.who = "task" /\ Core.sections = <<>>
       /\ running' = [running EXCEPT ![Len(running)].code = code \o @]
  /\ UNCHANGED <<nvic, mask, counter, saved>>

CallbackReturns ==
  /\ CoreAt("callback") /\ Core.who # "task" /\ Core.sections = <<>>
  /\ CoreRuns(<<>>) /\ UNCHANGED <<nvic, mask, counter, saved>>

Library ==
  \/ OpenSection({"irq"}, LINKLAYER_PLAT_DisableIRQ) \/ (\E groups \in MaskedAtOnce : Mask(groups))
  \/ CloseSection \/ CallPlatform \/ CallbackReturns

-----------------------------------------------------------------------------
(* The steps.                                                               *)

Opened ==
  /\ CoreAt("opened")
  /\ running' = [running EXCEPT ![Len(running)].code = Tail(@), ![Len(running)].sections = Append(@, Arg)]
  /\ UNCHANGED <<nvic, mask, counter, saved>>

SavePrimask ==
  /\ CoreAt("save_primask") /\ CoreRuns(<<>>)
  /\ saved' = IF counter.irq = 0 THEN [saved EXCEPT !.primask = mask.primask] ELSE saved
  /\ UNCHANGED <<nvic, mask, counter>>

SetPrimask ==
  /\ CoreAt("set_primask") /\ CoreRuns(<<>>) /\ mask' = [mask EXCEPT !.primask = TRUE]
  /\ UNCHANGED <<nvic, counter, saved>>

RestorePrimask ==
  /\ CoreAt("restore_primask") /\ CoreRuns(<<>>)
  /\ mask' = IF counter.irq = 0 THEN [mask EXCEPT !.primask = saved.primask] ELSE mask
  /\ UNCHANGED <<nvic, counter, saved>>

Count ==
  /\ CoreAt("count") /\ CoreRuns(<<>>) /\ counter' = [counter EXCEPT ![Arg] = @ + 1]
  /\ UNCHANGED <<nvic, mask, saved>>

Uncount ==
  /\ CoreRuns(<<>>)
  /\ \/ CoreAt("uncount") /\ counter' = [counter EXCEPT ![Arg] = @ - 1]
     \/ CoreAt("uncount_irq") /\ counter' = [counter EXCEPT !.irq = IF @ > 0 THEN @ - 1 ELSE 0]
  /\ UNCHANGED <<nvic, mask, saved>>

Closing(group) ==
  IF group = "sys" THEN <<<<"save_basepri">>, <<"set_basepri">>>> ELSE <<<<"disable", LineOf[group]>>>>

(* A bug to catch: every section saves what the first has set.              *)
ClosesEachTime == CoreAt("close_if_first") /\ CoreRuns(Closing(Arg)) /\ UNCHANGED <<nvic, mask, counter, saved>>

CloseIfFirst ==
  /\ CoreAt("close_if_first") /\ CoreRuns(IF counter[Arg] = 1 THEN Closing(Arg) ELSE <<>>)
  /\ UNCHANGED <<nvic, mask, counter, saved>>

OpenIfLast ==
  /\ CoreAt("open_if_last")
  /\ CoreRuns(IF counter[Arg] # 0 THEN <<>>
              ELSE IF Arg = "sys" THEN <<<<"restore_basepri">>>> ELSE <<<<"enable", LineOf[Arg]>>>>)
  /\ UNCHANGED <<nvic, mask, counter, saved>>

SetLine ==
  /\ CoreRuns(<<>>)
  /\ \/ CoreAt("disable") /\ nvic' = [nvic EXCEPT !.enabled = @ \ {Arg}]
     \/ CoreAt("enable") /\ nvic' = [nvic EXCEPT !.enabled = @ \cup {Arg}]
  /\ UNCHANGED <<mask, counter, saved>>

SaveBasepri ==
  /\ CoreAt("save_basepri") /\ CoreRuns(<<>>) /\ saved' = [saved EXCEPT !.basepri = mask.basepri]
  /\ UNCHANGED <<nvic, mask, counter>>

(* Nothing else sets BASEPRI: __set_BASEPRI_MAX always sets it.             *)
SetBasepri ==
  /\ CoreRuns(<<>>)
  /\ \/ CoreAt("set_basepri") /\ mask' = [mask EXCEPT !.basepri = RADIO_PRIO_LOW]
     \/ CoreAt("restore_basepri") /\ mask' = [mask EXCEPT !.basepri = saved.basepri]
  /\ UNCHANGED <<nvic, counter, saved>>

Trigger ==
  /\ CoreAt("trigger")
  /\ CoreRuns(IF "low" \notin ActiveContexts
              THEN <<<<"priority", IF Arg = 0 THEN RADIO_SW_LOW_INTR_PRIO ELSE RADIO_PRIO_LOW>>>>
              ELSE IF Arg # 0 THEN <<<<"nested", TRUE>>>> ELSE <<>>)
  /\ UNCHANGED <<nvic, mask, counter, saved>>

SetPriority ==
  /\ CoreAt("priority") /\ CoreRuns(<<>>) /\ nvic' = [nvic EXCEPT !.prio.low = Arg]
  /\ UNCHANGED <<mask, counter, saved>>

SetNested ==
  /\ CoreAt("nested") /\ CoreRuns(<<>>) /\ saved' = [saved EXCEPT !.nested = Arg]
  /\ UNCHANGED <<nvic, mask, counter>>

(* HASH_IRQHandler, after its callback.                                     *)
TestNested ==
  /\ CoreAt("test_nested")
  /\ CoreRuns(IF saved.nested THEN <<<<"priority", RADIO_PRIO_LOW>>, <<"nested", FALSE>>>> ELSE <<>>)
  /\ UNCHANGED <<nvic, mask, counter, saved>>

PendLow ==
  /\ CoreAt("pend_low") /\ CoreRuns(<<>>) /\ nvic' = [nvic EXCEPT !.pending = TRUE]
  /\ UNCHANGED <<mask, counter, saved>>

ReturnFromInterrupt ==
  /\ CoreAt("return") /\ running' = Front(running) /\ UNCHANGED <<nvic, mask, counter, saved>>

PlatformStep ==
  \/ Opened \/ SavePrimask \/ SetPrimask \/ RestorePrimask \/ Count \/ Uncount
  \/ CloseIfFirst \/ OpenIfLast \/ SetLine \/ SaveBasepri \/ SetBasepri
  \/ Trigger \/ SetPriority \/ SetNested \/ TestNested \/ PendLow \/ ReturnFromInterrupt

RadioNext == PlatformStep \/ Library \/ (\E who \in RadioContext \ {"task"} : Preempt(who))

RadioSpec == RadioInit /\ [][RadioNext]_radioVars

-----------------------------------------------------------------------------
(* What a section keeps out.                                                *)
Excluded(groups) ==
  IF "irq" \in groups THEN RadioContext
  ELSE (IF "high" \in groups THEN {"radio"} ELSE {}) \cup (IF "low" \in groups THEN {"low"} ELSE {})
         \cup (IF "sys" \in groups THEN {"system"} ELSE {})

(* Inside a section no interrupt runs that it keeps out, however the        *)
(* sections of the contexts are nested, provided that no context below was  *)
(* preempted between the count and the disabling of its own: always for the *)
(* task, which preempts nobody.  Once all sections are closed, those too    *)
(* that were opened in such a gap, every interrupt is enabled again, with   *)
(* no count left over: linklayer_plat.c 292-413 and HASH_IRQHandler.        *)
SectionsHold ==
  /\ \A i \in DOMAIN running : \A s \in Range(running[i].sections) :
       s.sound => \A j \in i + 1 .. Len(running) : running[j].who \notin Excluded(s.of)
  /\ Len(running) = 1 /\ CoreAt("callback") /\ Core.sections = <<>> =>
       /\ nvic.enabled = {"radio", "low", "system"} /\ mask = [primask |-> FALSE, basepri |-> 0]
       /\ \A g \in DOMAIN counter : counter[g] = 0

(* "Disable specific interrupt group ... LL_HIGH_ISR_ONLY: disable link     *)
(* layer high priority ISR" (linklayer_plat.c:367): once the function has   *)
(* returned, and until the group is enabled, its interrupt does not run.    *)
(* For a section that an interrupt opens between the count and the          *)
(* disabling of the context it preempts, it does.                           *)
SectionsExclude ==
  \A i \in DOMAIN running : \A s \in Range(running[i].sections) :
    \A j \in i + 1 .. Len(running) : running[j].who \notin Excluded(s.of)
=============================================================================
