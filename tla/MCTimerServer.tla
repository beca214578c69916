----------------------------- MODULE MCTimerServer -----------------------------
(***************************************************************************)
(* Instances of TimerServer for TLC.  Timer led plays the pattern timer,   *)
(* key the long-press timer of a button, and tick a periodic timer.        *)
(***************************************************************************)
EXTENDS TimerServer

CONSTANTS led, key, tick

Created == [t \in Timer |-> 1]

(* Every timer is started by one context and may be stopped by others.      *)
OneStarter == [c \in Context |->
  CASE c = "main" -> {led} [] c = "button" -> {key} [] c = "callback" -> {tick}]
Stopping == [c \in Context |-> IF c = "callback" THEN {led, tick} ELSE OneStarter[c]]

(* The pattern timer is started by tasks and by callbacks.                  *)
PatternStarters == [c \in Context |-> IF c = "button" THEN {key} ELSE {led}]

=============================================================================
