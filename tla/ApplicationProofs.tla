-------------------------- MODULE ApplicationProofs --------------------------
(***************************************************************************)
(* Proofs about the parts of the application that serve the server: the    *)
(* push buttons and the indicator LED, and the parsing of a command.       *)
(*                                                                         *)
(* However the timer's interrupt cuts the button's handler, and the        *)
(* button's interrupt a task, presses are told apart and the LED is        *)
(* animated as long as its pattern lasts: both arguments follow the calls  *)
(* in progress.  For every number of fields, every size of their buffers   *)
(* and every payload, the parser stays within its buffers and within the   *)
(* payload.                                                                *)
(***************************************************************************)
EXTENDS Signals, LabelCommand, FiniteSetTheorems, TLAPS

-----------------------------------------------------------------------------
(* The button.                                                              *)

HandlerOK ==
  handler \in [at : {"idle", "read", "arm", "start", "clear",
                     "test", "stop", "reset", "act"},
               button : Button]

(* A short action is only taken with the timer dead, and is forgotten before*)
(* the timer is armed.                                                      *)
DeadWhenTold ==
  /\ handler.at \in {"reset", "act"} => handler.button \notin longTimer
  /\ handler.at = "start" => "short" \notin acted[handler.button]

ButtonInv == ButtonTypeOK /\ HandlerOK /\ PressesAreToldApart /\ DeadWhenTold

(* The buttons at rest satisfy the invariant.                               *)
LEMMA ButtonsAtRest == ButtonInit => ButtonInv
  BY ButtonAssumption
  DEF ButtonInit, ButtonInv, ButtonTypeOK, HandlerOK, PressesAreToldApart, WaitingHasTimer,
      NoResetAfterShort, DeadWhenTold, NoHandler, HandlerAt

(* Button_TriggerActions keeps the types of what it writes, and a long press *)
(* adds no short action.                                                    *)
LEMMA Triggers ==
  ASSUME ButtonTypeOK, NEW b \in Button, NEW long \in {0, 1}, TriggerActions(b, long)
  PROVE  /\ acted' \in [Button -> SUBSET {"short", "long"}]
         /\ longPressed' \in [Button -> {0, 1}]
         /\ \A k \in Button : k # b => acted'[k] = acted[k]
         /\ long = 1 => ("short" \in acted'[b] => "short" \in acted[b])
<1> DEFINE action == CASE long = 0 -> {"short"}
                       [] long = 1 /\ b = B1 -> {"long"}
                       [] OTHER -> {}
<1>1. action \in SUBSET {"short", "long"}
  OBVIOUS
<1>2. long = 1 => "short" \notin action
  <2>1. CASE b = B1
    BY <2>1
  <2>2. CASE b # B1
    BY <2>2
  <2> QED
    BY <2>1, <2>2
<1>3. acted' = [acted EXCEPT ![b] = @ \cup action] /\ longPressed' = [longPressed EXCEPT ![b] = 0]
  BY DEF TriggerActions
<1>4. acted \in [Button -> SUBSET {"short", "long"}] /\ longPressed \in [Button -> {0, 1}]
  BY DEF ButtonTypeOK
<1> HIDE DEF action
<1>5. acted'[b] = acted[b] \cup action /\ \A k \in Button : k # b => acted'[k] = acted[k]
  BY <1>3, <1>4
<1> QED
  BY <1>1, <1>2, <1>3, <1>4, <1>5

(* Every step of the user, the handler and the timer keeps the invariant.   *)
LEMMA ButtonsStep ==
  ASSUME ButtonInv, [ButtonNext]_buttonVars
  PROVE  ButtonInv'
<1> USE ButtonAssumption
<1> USE DEF ButtonInv, ButtonTypeOK, HandlerOK, PressesAreToldApart, WaitingHasTimer,
            NoResetAfterShort, DeadWhenTold, HandlerAt, HandlerGoes, HandlerReturns, NoHandler
<1>1. ASSUME NEW b \in Button, Falls(b) PROVE ButtonInv'
  BY <1>1 DEF Falls
<1>2. ASSUME NEW b \in Button, Rises(b) PROVE ButtonInv'
  BY <1>2 DEF Rises
<1>3. ASSUME NEW b \in Button, Enter(b) PROVE ButtonInv'
  BY <1>3 DEF Enter
<1>4. ASSUME NEW b \in Button, LongTimerElapsed(b) PROVE ButtonInv'
  <2>1. /\ acted' \in [Button -> SUBSET {"short", "long"}]
        /\ longPressed' \in [Button -> {0, 1}]
        /\ \A k \in Button : k # b => acted'[k] = acted[k]
        /\ "short" \in acted'[b] => "short" \in acted[b]
    BY <1>4, Triggers DEF LongTimerElapsed
  <2>2. /\ longTimer' = longTimer \ {b} /\ waitingTime' = [waitingTime EXCEPT ![b] = 0]
        /\ UNCHANGED <<pin, raised, handler>>
    BY <1>4 DEF LongTimerElapsed
  <2>3. ButtonTypeOK' /\ HandlerOK'
    BY <2>1, <2>2
  <2>4. WaitingHasTimer'
    BY <2>2, <2>3
  <2> QED
    BY <2>1, <2>2, <2>3, <2>4
<1>5. CASE ReadState
  BY <1>5 DEF ReadState
<1>6. CASE Arm
  BY <1>6 DEF Arm
<1>7. CASE StartLongTimer
  BY <1>7 DEF StartLongTimer
<1>8. CASE ClearFlag
  BY <1>8 DEF ClearFlag
<1>9. CASE TestWaiting
  BY <1>9 DEF TestWaiting
<1>10. CASE StopTimer
  BY <1>10 DEF StopTimer
<1>11. CASE ResetButton
  BY <1>11 DEF ResetButton
<1>12. CASE Act
  <2>1. longPressed[handler.button] \in {0, 1} /\ handler.button \in Button
    OBVIOUS
  <2>2. TriggerActions(handler.button, longPressed[handler.button])
    BY <1>12 DEF Act
  <2>3. /\ acted' \in [Button -> SUBSET {"short", "long"}]
        /\ longPressed' \in [Button -> {0, 1}]
        /\ \A k \in Button : k # handler.button => acted'[k] = acted[k]
    BY <2>1, <2>2, Triggers
  <2>4. /\ handler.at = "act" /\ handler' = [at |-> "idle", button |-> B1]
        /\ UNCHANGED <<pin, raised, waitingTime, longTimer>>
    BY <1>12 DEF Act
  <2>5. ButtonTypeOK' /\ HandlerOK'
    BY <2>3, <2>4
  <2> QED
    BY <2>3, <2>4, <2>5
<1>13. CASE UNCHANGED buttonVars
  BY <1>13 DEF buttonVars
<1> QED
  BY <1>1, <1>2, <1>3, <1>4, <1>5, <1>6, <1>7, <1>8, <1>9, <1>10, <1>11, <1>12, <1>13
  DEF ButtonNext

-----------------------------------------------------------------------------
(* The indicator LED.                                                       *)

At(c, labels) == call[c].at \in labels

(* How far a call counts: the button's call finds the step it has reset, or *)
(* what one elapsed timer made of it, and the task's what the button's left.*)
Steps ==
  /\ At("button", {"load", "store"}) => step <= 1
  /\ At("button", {"store"}) => call["button"].count \in 1 .. 2
  /\ At("button", {"blink"}) => step <= 2
  /\ At("task", {"load", "store"}) => step <= 2
  /\ At("task", {"store"}) => call["task"].count \in 1 .. 3
  /\ At("task", {"blink"}) => step <= 3
  /\ \A c \in Caller : At(c, {"show"}) => call[c].count <= 3
  /\ \A c \in Caller : At(c, {"load", "store", "blink"}) => call[c].pattern \in Animated

(* A call that leaves the LED steady leaves no animation without its timer. *)
Steadied ==
  \/ At("button", {"steady"})
  \/ At("button", {"reset"}) /\ call["button"].pattern \notin Animated
  => (currentPattern \in Animated => patternTimer)

(* A call that shows a step has counted it.                                 *)
Begun ==
  \/ At("task", {"blink"}) /\ At("button", {"idle", "stop"})
  \/ At("button", {"blink", "show", "arm"})
  => (currentPattern \in Finite /\ ~patternTimer => step >= 1)

(* A finite pattern is not past its end, unless its steps are to be reset.  *)
NotPast ==
  currentPattern \in Finite =>
    step < StepsOf(currentPattern) \/ \E c \in Caller : At(c, {"reset"})

(* What is left of a call arms the timer.                                   *)
WillArm(c) ==
  \/ At(c, {"set", "arm"})
  \/ At(c, {"reset", "load", "store", "blink"}) /\ call[c].pattern \in Animated
  \/ At(c, {"show"}) /\ Again(call[c].pattern, call[c].count)

Timed == currentPattern \in Animated /\ ~patternTimer => \E c \in Caller : WillArm(c)

(* While no pattern is set no call is past setting one, and the LED is dark *)
(* or will not stay as it is.                                               *)
Dark ==
  currentPattern = "NONE" =>
    /\ \A c \in Caller : At(c, {"idle", "stop", "set"})
    /\ ~joining /\ led /\ ~patternTimer => \E c \in Caller : At(c, {"stop", "set"})

(* Nobody asks for the pattern NONE.                                        *)
Asked == \A c \in Caller : ~At(c, {"idle", "show", "arm"}) => call[c].pattern # "NONE"

LedInv == LedTypeOK /\ Steps /\ Steadied /\ Begun /\ NotPast /\ Timed /\ Dark /\ Asked

(* Before the network is joined the LED has no pattern.                     *)
LEMMA LedAtRest == LedInit => LedInv
<1> SUFFICES ASSUME LedInit PROVE LedInv
  OBVIOUS
<1> USE DEF LedInit, LedTypeOK, NoCall, Caller, Pattern, Animated, Repeating, Finite, MaxStep
<1>1. patternTimer \in BOOLEAN /\ led \in BOOLEAN /\ joining \in BOOLEAN
  OBVIOUS
<1>2. LedTypeOK
  BY <1>1
<1>3. currentPattern = "NONE" /\ ~led /\ \A c \in Caller : call[c].at = "idle"
  OBVIOUS
<1>4. Steps /\ Steadied /\ Begun /\ NotPast /\ Timed /\ Dark /\ Asked
  BY <1>3 DEF Steps, Steadied, Begun, NotPast, Timed, Dark, Asked, At
<1> QED
  BY <1>2, <1>4 DEF LedInv

(* The LED is lit or not whatever the step; the last one leaves it dark.    *)
LEMMA Lights ==
  ASSUME led \in BOOLEAN, NEW p \in Pattern, NEW n \in Nat
  PROVE  /\ Lit(p, n) \in BOOLEAN
         /\ Completes(p, n) => ~Lit(p, n)
<1> USE DEF Lit, Completes, Pattern, Animated, Repeating, Finite
<1>1. CASE p \in Repeating
  BY <1>1
<1>2. CASE p \in Finite /\ n \in 1 .. StepsOf(p)
  <2>1. p \notin Repeating /\ p # "NONE"
    BY <1>2
  <2>2. Lit(p, n) = (n % 2 = 1)
    BY <1>2, <2>1, Zenon
  <2>3. 4 % 2 = 0 /\ 6 % 2 = 0
    OBVIOUS
  <2>4. (n = 4 \/ n = 6) => ~(n % 2 = 1)
    BY <2>3
  <2>5. Completes(p, n) => n = 4 \/ n = 6
    BY DEF StepsOf
  <2> QED
    BY <2>2, <2>4, <2>5, Zenon
<1>3. CASE p = "NONE"
  BY <1>3
<1>4. CASE p = "ERROR" \/ (p \in Finite /\ n \notin 1 .. StepsOf(p))
  <2>1. p \notin Repeating /\ p # "NONE" /\ ~(p \in Finite /\ n \in 1 .. StepsOf(p))
    BY <1>4
  <2>2. Lit(p, n) = led
    BY <2>1, Zenon
  <2>3. ~Completes(p, n)
    BY <2>1 DEF StepsOf
  <2> QED
    BY <2>2, <2>3, Zenon
<1> QED
  BY <1>1, <1>2, <1>3, <1>4

(* Every step of the join procedure, of a call and of the timer keeps the  *)
(* invariant.                                                               *)
LEMMA LedStep ==
  ASSUME LedInv, [LedNext]_ledVars
  PROVE  LedInv'
<1> USE LedAssumption
<1> USE DEF LedInv, LedTypeOK, Steps, Steadied, Begun, NotPast, Timed, Dark, Asked, WillArm,
         At, NoCall, Caller, Pattern, Animated, Repeating, Finite, Quiet, Idle, MaxStep, StepsOf,
         Runs, CallGoes, CallReturns, Again, Completes, Lit, Successor
<1>1. CASE JoinElapsed
  BY <1>1 DEF JoinElapsed
<1>2. CASE JoinFails
  BY <1>2 DEF JoinFails
<1>3. CASE JoinSucceeds
  <2>1. /\ \A c \in Caller : call[c].at = "idle"
        /\ call' = [call EXCEPT !["task"] =
                      [at |-> "stop", pattern |-> "OPERATIONAL", count |-> 0]]
        /\ UNCHANGED <<currentPattern, step, patternTimer>>
    BY <1>3 DEF JoinSucceeds
  <2>2. joining' \in BOOLEAN /\ led' \in BOOLEAN
    BY <1>3 DEF JoinSucceeds
  <2>3. /\ call'["task"] = [at |-> "stop", pattern |-> "OPERATIONAL", count |-> 0]
        /\ call'["button"] = call["button"]
    BY <2>1
  <2>4. LedTypeOK'
    BY <2>1, <2>2, <2>3
  <2> QED
    BY <2>1, <2>3, <2>4
<1>4. ASSUME NEW p \in TaskPatterns, Call("task", p) PROVE LedInv'
  BY <1>4 DEF Call
<1>5. ASSUME NEW p \in ButtonPatterns, Call("button", p) PROVE LedInv'
  BY <1>5 DEF Call
<1>6. ASSUME NEW p \in TimerPatterns, StartFromTimer(p) PROVE LedInv'
  <2>1. p \in Pattern \ {"NONE"} /\ UNCHANGED <<call, joining>>
    BY <1>6 DEF StartFromTimer
  <2>2. CASE p \in Animated
    <3>1. step' = 1 /\ led' = Lit(p, 1) /\ patternTimer' = Again(p, 1)
          /\ currentPattern' = IF Completes(p, 1) THEN "NONE" ELSE p
      BY <1>6, <2>2 DEF StartFromTimer, Animate
    <3>2. led' \in BOOLEAN
      BY <2>1, <3>1, Lights
    <3>3. patternTimer' /\ patternTimer' \in BOOLEAN
      <4>1. Again(p, 1) = TRUE
        BY <2>2
      <4> QED
        BY <3>1, <4>1, Zenon
    <3>4. currentPattern' = p /\ step' = 1
      BY <2>2, <3>1
    <3>5. LedTypeOK'
      BY <2>1, <3>2, <3>3, <3>4
    <3>6. Steps' /\ Steadied' /\ Begun' /\ Asked'
      BY <2>1, <3>3, <3>4
    <3>7. NotPast' /\ Timed' /\ Dark'
      BY <2>1, <3>3, <3>4
    <3> QED
      BY <3>5, <3>6, <3>7
  <2>3. CASE p \notin Animated
    <3>1. step' = 0 /\ currentPattern' = p /\ p = "ERROR"
      BY <1>6, <2>1, <2>3 DEF StartFromTimer
    <3>2. led' \in BOOLEAN /\ patternTimer' \in BOOLEAN
      BY <1>6, <2>1, <2>3 DEF StartFromTimer
    <3> QED
      BY <2>1, <3>1, <3>2
  <2> QED
    BY <2>2, <2>3
<1>7. ASSUME NEW c \in Caller, Stop(c) PROVE LedInv'
  <2>1. /\ call[c].at = "stop" /\ (c = "task" => call["button"].at = "idle")
        /\ call' = [call EXCEPT ![c].at = "set"]
        /\ UNCHANGED <<currentPattern, step, led, joining>>
    BY <1>7 DEF Stop
  <2>2. patternTimer' \in BOOLEAN
    BY <1>7 DEF Stop
  <2>3. LedTypeOK'
    BY <2>1, <2>2
  <2>4. call'[c].at = "set" /\ call'[c].pattern = call[c].pattern
    BY <2>1
  <2>5. \A d \in Caller : d # c => call'[d] = call[d]
    BY <2>1
  <2>6. Steps' /\ Steadied' /\ Begun' /\ NotPast' /\ Asked'
    BY <2>1, <2>4, <2>5
  <2>7. Timed' /\ Dark'
    BY <2>1, <2>4, <2>5
  <2> QED
    BY <2>3, <2>6, <2>7
<1>8. ASSUME NEW c \in Caller, SetPattern(c) PROVE LedInv'
  BY <1>8 DEF SetPattern
<1>9. ASSUME NEW c \in Caller, ResetStep(c) PROVE LedInv'
  BY <1>9 DEF ResetStep
<1>10. ASSUME NEW c \in Caller, Steady(c) PROVE LedInv'
  BY <1>10 DEF Steady
<1>11. ASSUME NEW c \in Caller, LoadStep(c) PROVE LedInv'
  BY <1>11 DEF LoadStep
<1>12. ASSUME NEW c \in Caller, StoreStep(c) PROVE LedInv'
  BY <1>12 DEF StoreStep
<1>13. ASSUME NEW c \in Caller, Switch(c) PROVE LedInv'
  BY <1>13 DEF Switch
<1>14. ASSUME NEW c \in Caller, Show(c) PROVE LedInv'
  <2> DEFINE p == call[c].pattern
             n == call[c].count
  <2>1. /\ call[c].at = "show" /\ (c = "task" => call["button"].at = "idle")
        /\ led' = Lit(p, n)
        /\ currentPattern' = IF Completes(p, n) THEN "NONE" ELSE currentPattern
        /\ IF Again(p, n) THEN call' = [call EXCEPT ![c].at = "arm"]
                          ELSE call' = [call EXCEPT ![c] = NoCall]
        /\ UNCHANGED <<step, patternTimer, joining>>
    BY <1>14 DEF Show
  <2>2. p \in Pattern /\ n \in Nat /\ n <= 3
    BY <2>1
  <2>3. led' \in BOOLEAN
    BY <2>1, <2>2, Lights
  <2>4. ~Completes(p, n)
    BY <2>2
  <2>5. currentPattern' = currentPattern
    BY <2>1, <2>4
  <2>6. CASE Again(p, n)
    <3>1. call' = [call EXCEPT ![c].at = "arm"] /\ UNCHANGED <<step, patternTimer, joining>>
      BY <2>1, <2>6
    <3>2. LedTypeOK'
      <4>1. call[c].at = "show" /\ (c = "task" => call["button"].at = "idle")
        BY <2>1
      <4> QED
        BY <2>3, <2>5, <3>1, <4>1
    <3>3. Steps' /\ Steadied' /\ Begun' /\ Asked'
      BY <2>1, <2>5, <3>1
    <3>4. NotPast' /\ Timed' /\ Dark'
      BY <2>1, <2>5, <3>1
    <3> QED
      BY <3>2, <3>3, <3>4
  <2>7. CASE ~Again(p, n)
    <3>1. call' = [call EXCEPT ![c] = NoCall] /\ UNCHANGED <<step, patternTimer, joining>>
      BY <2>1, <2>7
    <3>2. LedTypeOK'
      <4>1. call[c].at = "show" /\ (c = "task" => call["button"].at = "idle")
        BY <2>1
      <4> QED
        BY <2>3, <2>5, <3>1, <4>1
    <3>3. Steps' /\ Steadied' /\ Begun' /\ Asked'
      BY <2>1, <2>5, <3>1
    <3>4. NotPast' /\ Timed' /\ Dark'
      BY <2>1, <2>5, <2>7, <3>1
    <3> QED
      BY <3>2, <3>3, <3>4
  <2> QED
    BY <2>6, <2>7
<1>15. ASSUME NEW c \in Caller, StartTimer(c) PROVE LedInv'
  BY <1>15 DEF StartTimer
<1>16. CASE TimerElapsed
  <2> DEFINE p == currentPattern
             n == Successor(step)
  <2>1. /\ patternTimer /\ \A c \in Caller : call[c].at \in {"idle", "stop"}
        /\ step' = n /\ led' = Lit(p, n) /\ patternTimer' = Again(p, n)
        /\ currentPattern' = IF Completes(p, n) THEN "NONE" ELSE p
        /\ UNCHANGED <<call, joining>>
    BY <1>16 DEF TimerElapsed, Animate
  <2>2. p \in Pattern /\ n \in 0 .. MaxStep
    OBVIOUS
  <2>3. led' \in BOOLEAN /\ (Completes(p, n) => ~led')
    <3>1. led \in BOOLEAN /\ n \in Nat
      OBVIOUS
    <3>2. Lit(p, n) \in BOOLEAN /\ (Completes(p, n) => ~Lit(p, n))
      BY <2>2, <3>1, Lights
    <3> QED
      BY <2>1, <3>2, Zenon
  <2>4. patternTimer' \in BOOLEAN
    BY <2>1, Zenon
  <2>5. p \in Finite => n >= 1 /\ n <= StepsOf(p)
    BY <2>1
  <2>6. LedTypeOK'
    <3>1. /\ step' = n /\ currentPattern' = IF Completes(p, n) THEN "NONE" ELSE p
          /\ UNCHANGED <<call, joining>>
      BY <2>1
    <3>2. led' \in BOOLEAN
      BY <2>3
    <3> QED
      BY <2>2, <2>4, <2>5, <3>1, <3>2
  <2>7. Steps' /\ Steadied' /\ Begun' /\ Asked'
    BY <2>1, <2>2, <2>5
  <2>8. CASE p = "NONE"
    <3>1. currentPattern' = "NONE" /\ UNCHANGED <<call, joining>>
      BY <2>1, <2>8
    <3>2. led' = FALSE
      BY <2>1, <2>8, Zenon
    <3> QED
      BY <2>6, <2>7, <2>8, <3>1, <3>2
  <2>9. CASE p = "ERROR"
    <3>1. currentPattern' = "ERROR"
      BY <2>1, <2>9
    <3> QED
      BY <2>6, <2>7, <3>1
  <2>10. CASE p \in Repeating
    <3>1. currentPattern' = p
      BY <2>1, <2>10
    <3>2. Again(p, n) = TRUE
      BY <2>10
    <3>3. patternTimer' = TRUE
      BY <2>1, <3>2, Zenon
    <3> QED
      BY <2>6, <2>7, <2>10, <3>1, <3>3
  <2>11. CASE p \in Finite /\ n = StepsOf(p)
    <3>1. currentPattern' = "NONE" /\ UNCHANGED <<call, joining>>
      BY <2>1, <2>11
    <3>2. led' = FALSE
      BY <2>3, <2>11
    <3> QED
      BY <2>1, <2>6, <2>7, <3>1, <3>2
  <2>12. CASE p \in Finite /\ n < StepsOf(p)
    <3>1. currentPattern' = p /\ step' = n
      BY <2>1, <2>12
    <3>2. Again(p, n) = TRUE
      BY <2>5, <2>12
    <3>3. patternTimer' = TRUE
      BY <2>1, <3>2, Zenon
    <3> QED
      BY <2>6, <2>7, <2>12, <3>1, <3>3
  <2> QED
    BY <2>2, <2>5, <2>8, <2>9, <2>10, <2>11, <2>12
<1>17. CASE UNCHANGED ledVars
  BY <1>17 DEF ledVars
<1> QED
  BY <1>1, <1>2, <1>3, <1>4, <1>5, <1>6, <1>7, <1>8, <1>9, <1>10, <1>11, <1>12, <1>13, <1>14,
     <1>15, <1>16, <1>17 DEF LedNext, Proceed

-----------------------------------------------------------------------------
(* However the timer's interrupt cuts the button's handler, a press that    *)
(* waits has the timer that ends it, and a short press no reset; however    *)
(* the calls of APP_BSP_LedPatternStart preempt each other, an animated     *)
(* pattern keeps its timer, and the LED is dark when its pattern is over:   *)
(* for any number of buttons, and any patterns but NONE in any context.     *)
THEOREM SignalsRight == SignalsSpec => []SignalsAreRight
<1> DEFINE SInv == ButtonInv /\ LedInv
<1>1. ButtonInit /\ LedInit => SInv
  BY ButtonsAtRest, LedAtRest
<1>2. SInv /\ [SignalsNext]_signalVars => SInv'
  <2> SUFFICES ASSUME SInv, [SignalsNext]_signalVars PROVE SInv'
    OBVIOUS
  <2>1. [ButtonNext]_buttonVars /\ [LedNext]_ledVars
    BY DEF SignalsNext, signalVars
  <2> QED
    BY <2>1, ButtonsStep, LedStep
<1>3. LedInv => AnimationIsTimed /\ DarkWhenDone
  <2> SUFFICES ASSUME LedInv PROVE AnimationIsTimed /\ DarkWhenDone
    OBVIOUS
  <2>1. Quiet => \A c \in Caller : ~WillArm(c) /\ ~At(c, {"stop", "set"})
    BY DEF Quiet, Idle, WillArm, At
  <2>2. AnimationIsTimed
    BY <2>1 DEF AnimationIsTimed, LedInv, LedTypeOK, Timed
  <2>3. DarkWhenDone
    BY <2>1 DEF DarkWhenDone, LedInv, LedTypeOK, Dark
  <2> QED
    BY <2>2, <2>3
<1>4. SInv => SignalsAreRight
  BY <1>3 DEF SignalsAreRight, ButtonInv
<1> QED
  BY <1>1, <1>2, <1>4, PTL DEF SignalsSpec

-----------------------------------------------------------------------------
(* The string kept of a text: a prefix of it that ends before its first     *)
(* terminator, so no longer than what was stored.                           *)

(* A text with its terminator, cut if it must be, fits its buffer.          *)
LEMMA TerminatedFits ==
  ASSUME NEW t \in Seq(Byte), NEW size \in Nat \ {0}, Len(t) <= size
  PROVE  /\ Terminated(t, size) \in Seq(Byte)
         /\ Len(Terminated(t, size)) <= size
<1> DEFINE n == IF Len(t) < size THEN Len(t) ELSE size - 1
           kept == SubSeq(t, 1, n)
           string == {i \in 1 .. Len(kept) : \A j \in 1 .. i : kept[j] # 0}
<1>1. n \in Nat /\ n <= Len(t) /\ n <= size
  OBVIOUS
<1>2. Terminated(t, size) = SubSeq(kept, 1, Cardinality(string))
  BY DEF Terminated
<1> HIDE DEF n
<1>3. kept \in Seq(Byte) /\ Len(kept) = n
  BY <1>1
<1>4. string \subseteq 1 .. n
  BY <1>3
<1> HIDE DEF kept, string
<1>5. IsFiniteSet(1 .. n) /\ Cardinality(1 .. n) = n
  BY <1>1, FS_Interval
<1>6. Cardinality(string) \in Nat /\ Cardinality(string) <= n
  BY <1>1, <1>4, <1>5, FS_Subset, FS_CardinalityType
<1> QED
  BY <1>1, <1>2, <1>3, <1>6

-----------------------------------------------------------------------------
(* The strengthening: how far the parser has come, and that a text about to *)
(* be copied has been found to fit.                                         *)

Position ==
  /\ parsed <= Len(payload)
  /\ at = "dispatch" => parsed = 0
  /\ at = "length" /\ field = 1 => parsed < Len(payload)

CheckedText ==
  at = "copy" => /\ parsed \in 1 .. Len(payload)
                 /\ payload[parsed] <= Size[field]
                 /\ parsed + payload[parsed] <= Len(payload)

IInv ==
  /\ TypeOK
  /\ StaysInPayload
  /\ at # "returned" => Position
  /\ CheckedText

(* The fields are numbered from one.                                        *)
LEMMA Fields == FieldNbr \in Nat \ {0} /\ 1 \in Field /\ Field \subseteq Nat
<1>1. FieldNbr \in Nat /\ FieldNbr # 0
  BY LabelAssumption
<1> QED
  BY <1>1 DEF Field

(* Each buffer has room for a character at least.                           *)
LEMMA Sizes == \A f \in Field : Size[f] \in Nat \ {0}
BY LabelAssumption

(* A payload is a sequence of bytes.                                        *)
LEMMA PayloadIsBytes ==
  ASSUME payload \in Payload
  PROVE  /\ payload \in Seq(Byte) /\ Len(payload) \in Nat
         /\ \A i \in 1 .. Len(payload) : payload[i] \in Nat
<1>1. Byte \subseteq Nat /\ payload \in Seq(Byte)
  BY LabelAssumption
<1>2. \A i \in 1 .. Len(payload) : payload[i] \in Byte
  BY <1>1
<1>3. \A i \in 1 .. Len(payload) : payload[i] \in Nat
  <2> TAKE i \in 1 .. Len(payload)
  <2>1. payload[i] \in Byte
    BY <1>2
  <2> QED
    BY <1>1, <2>1
<1>4. Len(payload) \in Nat
  BY <1>1
<1> QED
  BY <1>1, <1>3, <1>4

(* Before a command nothing is stored.                                      *)
LEMMA NothingStored ==
  /\ Untouched \in [Field -> Seq(Byte)]
  /\ \A f \in Field : Len(Untouched[f]) = 0
BY DEF Untouched

(* The invariant holds when the handler is called,                          *)
LEMMA InitIInv == Init => IInv
<1> SUFFICES ASSUME Init PROVE IInv
  OBVIOUS
<1>1. payload \in Payload
  BY DEF Init
<1>2. Len(payload) \in Nat
  BY <1>1, PayloadIsBytes
<1>3. TypeOK
  BY <1>1, Fields, Sizes, NothingStored DEF Init, TypeOK
<1> QED
  BY <1>2, <1>3 DEF Init, IInv, StaysInPayload, Position, CheckedText

(* and after each field it deals with,                                      *)
LEMMA NextIInv == IInv /\ [Handle]_vars => IInv'
<1> SUFFICES ASSUME IInv, [Handle]_vars PROVE IInv'
  OBVIOUS
<1>b. /\ payload \in Seq(Byte) /\ Len(payload) \in Nat
      /\ \A i \in 1 .. Len(payload) : payload[i] \in Nat
  BY PayloadIsBytes DEF IInv, TypeOK
<1> USE Fields, Sizes
    DEF IInv, TypeOK, StaysInPayload, Position, CheckedText, Return
<1>1. CASE Dispatch
  <2>1. UNCHANGED <<header, payload, field, parsed, furthest, text, shown>> /\ parsed = 0
    BY <1>1 DEF Dispatch
  <2>2. CASE at' = "returned" /\ answer' \in {"MALFORMED", "UNSUPP_COMMAND", "UNSUPP_CLUSTER"}
    BY <2>1, <2>2
  <2>3. CASE Len(payload) >= FieldNbr /\ at' = "length" /\ UNCHANGED answer
    <3>1. Len(payload) > 0
      BY <2>3, <1>b DEF Field
    <3> QED
      BY <2>1, <2>3, <3>1
  <2> QED
    BY <1>1, <2>2, <2>3 DEF Dispatch
<1>2. CASE ParseLength
  <2>1. CASE field > 1 /\ parsed >= Len(payload)
    BY <1>2, <2>1 DEF ParseLength
  <2>2. CASE ~(field > 1 /\ parsed >= Len(payload))
    <3>1. parsed + 1 \in 1 .. Len(payload)
      BY <1>2, <2>2, <1>b DEF ParseLength, Field
    <3>2. parsed' = parsed + 1 /\ furthest' = parsed + 1
      BY <1>2, <2>2 DEF ParseLength
    <3>3. CASE payload[parsed + 1] > Size[field]
               \/ parsed + 1 + payload[parsed + 1] > Len(payload)
      <4>1. Return("MALFORMED")
        BY <1>2, <2>2, <3>3 DEF ParseLength
      <4> QED
        BY <1>2, <3>1, <3>2, <4>1, <1>b DEF ParseLength
    <3>4. CASE ~(payload[parsed + 1] > Size[field]
                 \/ parsed + 1 + payload[parsed + 1] > Len(payload))
      <4>1. at' = "copy" /\ UNCHANGED answer
        BY <1>2, <2>2, <3>4 DEF ParseLength
      <4>2. payload[parsed + 1] \in Nat /\ Size[field] \in Nat
        BY <3>1, <1>b
      <4> QED
        BY <1>2, <3>1, <3>2, <3>4, <4>1, <4>2, <1>b DEF ParseLength
    <3> QED
      BY <3>3, <3>4
  <2> QED
    BY <2>1, <2>2
<1>3. CASE CopyText
  <2>0. UNCHANGED <<header, payload, answer, shown>>
    BY <1>3 DEF CopyText
  <2> DEFINE length == payload[parsed]
  <2>1. length \in Nat /\ parsed \in 1 .. Len(payload) /\ parsed + length <= Len(payload)
        /\ length <= Size[field]
    BY <1>3, <1>b DEF CopyText
  <2> DEFINE copied == SubSeq(payload, parsed + 1, parsed + length)
  <2> HIDE DEF length
  <2>2. copied \in Seq(Byte) /\ Len(copied) = length
    BY <2>1, <1>b
  <2>3. text' = [text EXCEPT ![field] = copied]
        /\ parsed' = parsed + length /\ furthest' = parsed + length
    BY <1>3 DEF CopyText, length
  <2> HIDE DEF copied
  <2>4. text' \in [Field -> Seq(Byte)] /\ \A f \in Field : Len(text'[f]) <= Size[f]
    BY <2>1, <2>2, <2>3
  <2>5. CASE field < FieldNbr
    <3>1. field' = field + 1 /\ at' = "length"
      BY <1>3, <2>5 DEF CopyText
    <3>2. field' \in Field /\ field' # 1
      BY <3>1, <2>5 DEF Field
    <3>3. /\ parsed' \in 0 .. Len(payload) /\ furthest' = parsed'
      BY <2>1, <2>3
    <3>4. header' \in Header /\ payload' \in Payload /\ furthest' \in Nat
          /\ answer' \in {"none", "SUCCESS", "MALFORMED", "UNSUPP_COMMAND", "UNSUPP_CLUSTER"}
      BY <2>0, <3>3, <1>b
    <3>5. shown' \in [Field -> Seq(Byte)] /\ \A f \in Field : Len(shown'[f]) <= Size[f]
      BY <2>0, <1>b
    <3>6. TypeOK'
      BY <2>4, <3>1, <3>2, <3>3, <3>4, <3>5 DEF TypeOK
    <3>7. StaysInPayload' /\ Position' /\ CheckedText'
      BY <2>0, <3>1, <3>2, <3>3 DEF StaysInPayload, Position, CheckedText
    <3> QED
      BY <3>6, <3>7 DEF IInv
  <2>6. CASE ~(field < FieldNbr)
    <3>1. at' = "consumed" /\ UNCHANGED field
      BY <1>3, <2>6 DEF CopyText
    <3> QED
      BY <2>0, <2>1, <2>3, <2>4, <3>1
  <2> QED
    BY <2>5, <2>6
<1>4. CASE CheckConsumed
  BY <1>4, <1>b DEF CheckConsumed
<1>5. CASE Deliver
  <2>1. \A f \in Field : /\ Terminated(text[f], Size[f]) \in Seq(Byte)
                         /\ Len(Terminated(text[f], Size[f])) <= Size[f]
    BY TerminatedFits
  <2>2. shown' \in [Field -> Seq(Byte)]
        /\ \A f \in Field : Len(shown'[f]) <= Size[f]
    BY <1>5, <2>1 DEF Deliver
  <2> QED
    BY <1>5, <2>2, <1>b DEF Deliver
<1>6. CASE UNCHANGED vars
  BY <1>6 DEF vars
<1> QED
  BY <1>1, <1>2, <1>3, <1>4, <1>5, <1>6 DEF Handle

(* hence always.                                                            *)
THEOREM InductiveInvariant == Spec => []IInv
BY InitIInv, NextIInv, PTL DEF Spec

-----------------------------------------------------------------------------
(* What is stored fits its buffer, for every payload: the handler's copies  *)
(* and terminators, and the callback's.                                     *)
THEOREM TextsFit == Spec => []TypeOK
<1>1. IInv => TypeOK
  BY DEF IInv
<1> QED
  BY <1>1, InductiveInvariant, PTL

(* Every byte that the handler accesses is one of the payload, whatever     *)
(* lengths the payload claims.                                              *)
THEOREM ReadsPayloadOnly == Spec => []StaysInPayload
<1>1. IInv => StaysInPayload
  BY DEF IInv
<1> QED
  BY <1>1, InductiveInvariant, PTL

=============================================================================
