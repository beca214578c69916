-------------------------------- MODULE Signals --------------------------------
(***************************************************************************)
(* What the user tells the device and what it tells the user: the push     *)
(* buttons and the indicator LED.  They share no variable; a short press   *)
(* starts a pattern, a call that LedPattern lets happen at any time.       *)
(***************************************************************************)
EXTENDS Button, LedPattern

signalVars == <<buttonVars, ledVars>>

SignalsNext ==
  \/ ButtonNext /\ UNCHANGED ledVars
  \/ LedNext /\ UNCHANGED buttonVars

SignalsSpec == ButtonInit /\ LedInit /\ [][SignalsNext]_signalVars

-----------------------------------------------------------------------------
(* The button and its timer tell presses apart, and the LED blinks as long  *)
(* as its pattern lasts.                                                    *)
SignalsAreRight == PressesAreToldApart /\ AnimationIsTimed /\ DarkWhenDone

=============================================================================
