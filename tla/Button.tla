-------------------------------- MODULE Button --------------------------------
(***************************************************************************)
(* The push buttons: the edge interrupt and its handler BSP_PB_Callback,   *)
(* the long-press timer, and the actions they trigger (app_bsp.c, over the *)
(* board driver stm32wbaxx_nucleo.c).                                      *)
(*                                                                         *)
(* Three actors: the user, who moves the pins; the edge interrupt, of the  *)
(* lowest priority, the same for every button, so that one handler runs at *)
(* a time; and the timer interrupt, which preempts the handler between any *)
(* two of its accesses to the shared descriptor and runs to its end.  The  *)
(* durations are abstracted: a running timer may expire at any time.       *)
(***************************************************************************)
EXTENDS Naturals

CONSTANTS
  Button,       (* the buttons of the board                       *)
  B1,           (* the one whose long press does something        *)
  Threshold     (* BUTTON_LONG_PRESS_THRESHOLD_MS                 *)

ASSUME ButtonAssumption == B1 \in Button /\ Threshold \in Nat \ {0}

VARIABLES
  pin,          \* level of the button's pin, which a pressed button pulls low
  raised,       \* the buttons whose edge interrupt is pending
  waitingTime,  \* buttonDesc[b].waitingTime
  longPressed,  \* buttonDesc[b].longPressed
  longTimer,        \* the buttons whose longTimerId is running
  handler,      \* the call of BSP_PB_Callback that is on the stack
  acted         \* history: actions triggered since the timer was last armed

buttonVars == <<pin, raised, waitingTime, longPressed, longTimer, handler, acted>>

NoHandler == [at |-> "idle", button |-> B1]
HandlerAt(label) == handler.at = label
HandlerGoes(label) == handler' = [handler EXCEPT !.at = label]
HandlerReturns == handler' = NoHandler

-----------------------------------------------------------------------------
(* The board driver.                                                        *)

(* BSP_PB_GetState: 1 when the pin is low.                                  *)
GetState(b) == IF pin[b] = "low" THEN 1 ELSE 0

(* The pin is configured to interrupt on its falling edge.                  *)
Falls(b) ==
  /\ pin[b] = "high"
  /\ pin' = [pin EXCEPT ![b] = "low"]
  /\ raised' = raised \cup {b}
  /\ UNCHANGED <<waitingTime, longPressed, longTimer, handler, acted>>

Rises(b) ==
  /\ pin[b] = "low"
  /\ pin' = [pin EXCEPT ![b] = "high"]
  /\ UNCHANGED <<raised, waitingTime, longPressed, longTimer, handler, acted>>

(* Button_TriggerActions with the given long-press flag, which it consumes. *)
TriggerActions(b, long) ==
  LET action == CASE long = 0 -> {"short"}
                  [] long = 1 /\ b = B1 -> {"long"}
                  [] OTHER -> {}
  IN  /\ acted' = [acted EXCEPT ![b] = @ \cup action]
      /\ longPressed' = [longPressed EXCEPT ![b] = 0]

-----------------------------------------------------------------------------
(***************************************************************************)
(* Faulty variants, see the module Sequencer.                              *)
(***************************************************************************)

TimerNotStopped ==
  /\ HandlerAt("stop") /\ HandlerGoes("reset")
  /\ UNCHANGED <<pin, raised, waitingTime, longPressed, longTimer, acted>>

-----------------------------------------------------------------------------
ButtonInit ==
  /\ pin = [b \in Button |-> "high"]
  /\ raised = {}
  /\ waitingTime = [b \in Button |-> 0]
  /\ longPressed = [b \in Button |-> 0]
  /\ longTimer = {}
  /\ handler = NoHandler
  /\ acted = [b \in Button |-> {}]

Enter(b) ==
  /\ HandlerAt("idle") /\ b \in raised
  /\ raised' = raised \ {b}
  /\ handler' = [at |-> "read", button |-> b]
  /\ UNCHANGED <<pin, waitingTime, longPressed, longTimer, acted>>

(* The state that BSP_PB_Callback takes for "pressed" is GPIO_PIN_RESET, 0. *)
ReadState ==
  /\ HandlerAt("read")
  /\ HandlerGoes(IF GetState(handler.button) = 0 THEN "arm" ELSE "test")
  /\ UNCHANGED <<pin, raised, waitingTime, longPressed, longTimer, acted>>

Arm ==
  /\ HandlerAt("arm") /\ HandlerGoes("start")
  /\ waitingTime' = [waitingTime EXCEPT ![handler.button] = Threshold]
  /\ acted' = [acted EXCEPT ![handler.button] = {}]
  /\ UNCHANGED <<pin, raised, longPressed, longTimer>>

(* UTIL_TIMER_SetPeriod and UTIL_TIMER_Start.                               *)
StartLongTimer ==
  /\ HandlerAt("start") /\ HandlerGoes("clear")
  /\ longTimer' = longTimer \cup {handler.button}
  /\ UNCHANGED <<pin, raised, waitingTime, longPressed, acted>>

ClearFlag ==
  /\ HandlerAt("clear") /\ HandlerReturns
  /\ longPressed' = [longPressed EXCEPT ![handler.button] = 0]
  /\ UNCHANGED <<pin, raised, waitingTime, longTimer, acted>>

TestWaiting ==
  /\ HandlerAt("test")
  /\ IF waitingTime[handler.button] # 0 THEN HandlerGoes("stop") ELSE HandlerReturns
  /\ UNCHANGED <<pin, raised, waitingTime, longPressed, longTimer, acted>>

StopTimer ==
  /\ HandlerAt("stop") /\ HandlerGoes("reset")
  /\ longTimer' = longTimer \ {handler.button}
  /\ UNCHANGED <<pin, raised, waitingTime, longPressed, acted>>

ResetButton ==
  /\ HandlerAt("reset") /\ HandlerGoes("act")
  /\ waitingTime' = [waitingTime EXCEPT ![handler.button] = 0]
  /\ longPressed' = [longPressed EXCEPT ![handler.button] = 0]
  /\ UNCHANGED <<pin, raised, longTimer, acted>>

Act ==
  /\ HandlerAt("act") /\ HandlerReturns
  /\ TriggerActions(handler.button, longPressed[handler.button])
  /\ UNCHANGED <<pin, raised, waitingTime, longTimer>>

(* The timer interrupt, at any time: it sets the flag and acts on it.       *)
LongTimerElapsed(b) ==
  /\ b \in longTimer
  /\ longTimer' = longTimer \ {b}
  /\ waitingTime' = [waitingTime EXCEPT ![b] = 0]
  /\ TriggerActions(b, 1)
  /\ UNCHANGED <<pin, raised, handler>>

ButtonNext ==
  \/ \E b \in Button : Falls(b) \/ Rises(b) \/ Enter(b) \/ LongTimerElapsed(b)
  \/ ReadState \/ Arm \/ StartLongTimer \/ ClearFlag
  \/ TestWaiting \/ StopTimer \/ ResetButton \/ Act

ButtonSpec == ButtonInit /\ [][ButtonNext]_buttonVars

-----------------------------------------------------------------------------
(* Type invariant: the state of the buttons and of the handler.             *)
ButtonTypeOK ==
  /\ pin \in [Button -> {"low", "high"}]
  /\ raised \subseteq Button
  /\ waitingTime \in [Button -> {0, Threshold}]
  /\ longPressed \in [Button -> {0, 1}]
  /\ longTimer \subseteq Button
  /\ handler.at \in {"idle", "read", "arm", "start", "clear",
                     "test", "stop", "reset", "act"}
  /\ handler.button \in Button
  /\ acted \in [Button -> SUBSET {"short", "long"}]

(* BSP_PB_Callback arms the timer and records it in waitingTime in steps    *)
(* that the timer's own interrupt may separate.  A button that waits always *)
(* has a timer to end the wait, unless its handler is between those steps.  *)
WaitingHasTimer ==
  /\ ButtonTypeOK
  /\ \A b \in Button :
       waitingTime[b] # 0 =>
         \/ b \in longTimer
         \/ handler.button = b /\ (HandlerAt("start") \/ HandlerAt("reset"))

(* Once a press has had its short action, its timer is dead: the long-press *)
(* action, a factory reset, cannot follow without a new arming.             *)
NoResetAfterShort ==
  \A b \in Button : "short" \in acted[b] => b \notin longTimer

(* However handler and timer interleave, a press that waits ends, and after *)
(* its short action none of a long press follows.  The other order is not   *)
(* excluded, see OneActionPerPress.                                         *)
PressesAreToldApart == WaitingHasTimer /\ NoResetAfterShort

(* "If waitingTime is 0, it means the long press timer already elapsed and  *)
(* triggered the action. [...] We don't trigger actions again on release    *)
(* for long press", says BSP_PB_Callback of the release (app_bsp.c:934): no *)
(* press has actions of both kinds.  The code tests waitingTime before it   *)
(* stops the timer, which may elapse in between.                            *)
OneActionPerPress == \A b \in Button : acted[b] # {"short", "long"}

=============================================================================
