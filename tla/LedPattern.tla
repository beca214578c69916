------------------------------ MODULE LedPattern ------------------------------
(***************************************************************************)
(* The blue LED: the patterns of app_bsp.c and the blinking of the join    *)
(* procedure in app_zigbee.c, which drive the same LED.                    *)
(*                                                                         *)
(* Patterns are started by sequencer tasks, by the button's interrupt,     *)
(* which preempts them, and by timer callbacks, which preempt both and run *)
(* to their end.  A task and the button's interrupt each have a call of    *)
(* APP_BSP_LedPatternStart in progress or none; its accesses to ledControl *)
(* are steps of their own, and "step++" is a read and a write.             *)
(***************************************************************************)
EXTENDS Naturals

CONSTANTS
  TaskPatterns,     (* patterns started by tasks once the network is joined *)
  ButtonPatterns,   (* by the button's interrupt                            *)
  TimerPatterns     (* by timer callbacks                                   *)

Repeating == {"SEARCHING", "OPERATIONAL"}
Finite == {"MSG_RECEIVED", "STATUS_SENT"}
Animated == Repeating \cup Finite
Pattern == Animated \cup {"ERROR", "NONE"}

(* The application never starts the pattern NONE, which is dark.            *)
ASSUME LedAssumption ==
  TaskPatterns \cup ButtonPatterns \cup TimerPatterns \subseteq Pattern \ {"NONE"}

(* Number of steps of a finite pattern; step counts beyond are not told apart. *)
StepsOf(p) == IF p = "MSG_RECEIVED" THEN 4 ELSE 6
MaxStep == 7
Successor(n) == IF n < MaxStep THEN n + 1 ELSE n

VARIABLES
  currentPattern, step,   \* ledControl
  patternTimer,                  \* whether ledControl.patternTimer is running
  led,                    \* whether the LED is lit
  call,                   \* the calls of APP_BSP_LedPatternStart in progress
  joining                 \* whether the join procedure blinks the LED

ledVars == <<currentPattern, step, patternTimer, led, call, joining>>

Caller == {"task", "button"}
NoCall == [at |-> "idle", pattern |-> "NONE", count |-> 0]
Idle(c) == call[c].at = "idle"
Quiet == \A c \in Caller : Idle(c)

(* The button's interrupt runs to its end before the task goes on.          *)
Runs(c, label) == call[c].at = label /\ (c = "task" => Idle("button"))
CallGoes(c, label) == call' = [call EXCEPT ![c].at = label]
CallReturns(c) == call' = [call EXCEPT ![c] = NoCall]

-----------------------------------------------------------------------------
(* A faulty variant, see the module Sequencer.                              *)

AgainUntilEnd(p, n) == p \in Finite /\ n \in 1 .. StepsOf(p) - 1

(* One step of the animation: what LedPatternTimerCallback makes of the LED,*)
(* and whether it wants to be called again (next_interval > 0).             *)
Completes(p, n) == p \in Finite /\ n = StepsOf(p)
Again(p, n) == p \in Repeating \/ (p \in Finite /\ n \in 1 .. StepsOf(p) - 1)
Lit(p, n) == CASE p \in Repeating -> ~led
               [] p \in Finite /\ n \in 1 .. StepsOf(p) -> n % 2 = 1
               [] p = "NONE" -> FALSE
               [] OTHER -> led

(* What LedPatternTimerCallback does, in one step, when it is not preempted. *)
Animate(p, n) ==
  /\ step' = n
  /\ led' = Lit(p, n)
  /\ patternTimer' = Again(p, n)
  /\ currentPattern' = IF Completes(p, n) THEN "NONE" ELSE p

-----------------------------------------------------------------------------
LedInit ==
  /\ currentPattern = "NONE" /\ step = 0 /\ patternTimer = FALSE /\ led = FALSE
  /\ call = [c \in Caller |-> NoCall]
  /\ joining = TRUE

(* APP_ZIGBEE_NwkFormWaitJoinElapsed while the device is not joined.        *)
JoinElapsed ==
  /\ joining
  /\ led' = ~led
  /\ UNCHANGED <<currentPattern, step, patternTimer, call, joining>>

(* An attempt ends: the LED goes off, and on if the device has joined; the  *)
(* application then starts, whose pattern is OPERATIONAL.                   *)
JoinFails ==
  /\ joining /\ Quiet
  /\ led' = FALSE
  /\ UNCHANGED <<currentPattern, step, patternTimer, call, joining>>

JoinSucceeds ==
  /\ joining /\ Quiet
  /\ joining' = FALSE /\ led' = TRUE
  /\ call' = [call EXCEPT !["task"] =
                [at |-> "stop", pattern |-> "OPERATIONAL", count |-> 0]]
  /\ UNCHANGED <<currentPattern, step, patternTimer>>

(* APP_BSP_LedPatternStart, step by step.                                   *)
Call(c, p) ==
  /\ Idle(c) /\ Runs(c, "idle")
  /\ c = "task" => ~joining
  /\ call' = [call EXCEPT ![c] = [at |-> "stop", pattern |-> p, count |-> 0]]
  /\ UNCHANGED <<currentPattern, step, patternTimer, led, joining>>

Stop(c) ==
  /\ Runs(c, "stop") /\ CallGoes(c, "set")
  /\ patternTimer' = FALSE
  /\ UNCHANGED <<currentPattern, step, led, joining>>

SetPattern(c) ==
  /\ Runs(c, "set") /\ CallGoes(c, "reset")
  /\ currentPattern' = call[c].pattern
  /\ UNCHANGED <<step, patternTimer, led, joining>>

ResetStep(c) ==
  /\ Runs(c, "reset")
  /\ CallGoes(c, IF call[c].pattern \in Animated THEN "load" ELSE "steady")
  /\ step' = 0
  /\ UNCHANGED <<currentPattern, patternTimer, led, joining>>

Steady(c) ==
  /\ Runs(c, "steady") /\ CallReturns(c)
  /\ led' = (call[c].pattern = "ERROR")
  /\ UNCHANGED <<currentPattern, step, patternTimer, joining>>

LoadStep(c) ==
  /\ Runs(c, "load")
  /\ call' = [call EXCEPT ![c].at = "store", ![c].count = Successor(step)]
  /\ UNCHANGED <<currentPattern, step, patternTimer, led, joining>>

StoreStep(c) ==
  /\ Runs(c, "store") /\ CallGoes(c, "blink")
  /\ step' = call[c].count
  /\ UNCHANGED <<currentPattern, patternTimer, led, joining>>

(* The switch on the current pattern, then what its case does.              *)
Switch(c) ==
  /\ Runs(c, "blink")
  /\ call' = [call EXCEPT ![c] = [at |-> "show", pattern |-> currentPattern,
                                  count |-> step]]
  /\ UNCHANGED <<currentPattern, step, patternTimer, led, joining>>

Show(c) ==
  LET p == call[c].pattern
      n == call[c].count
  IN  /\ Runs(c, "show")
      /\ led' = Lit(p, n)
      /\ currentPattern' = IF Completes(p, n) THEN "NONE" ELSE currentPattern
      /\ IF Again(p, n) THEN CallGoes(c, "arm") ELSE CallReturns(c)
      /\ UNCHANGED <<step, patternTimer, joining>>

StartTimer(c) ==
  /\ Runs(c, "arm") /\ CallReturns(c)
  /\ patternTimer' = TRUE
  /\ UNCHANGED <<currentPattern, step, led, joining>>

(* The timer interrupt: the pattern's own timer, and other timers whose     *)
(* callbacks start a pattern.  A call takes microseconds and the shortest   *)
(* interval is 100 ms: a timer started during a call outlasts it.           *)
TimerElapsed ==
  /\ patternTimer
  /\ \A c \in Caller : call[c].at \in {"idle", "stop"}
  /\ Animate(currentPattern, Successor(step))
  /\ UNCHANGED <<call, joining>>

StartFromTimer(p) ==
  /\ IF p \in Animated
     THEN Animate(p, 1)
     ELSE /\ patternTimer' = FALSE /\ currentPattern' = p /\ step' = 0
          /\ led' = (p = "ERROR")
  /\ UNCHANGED <<call, joining>>

Proceed(c) ==
  \/ Stop(c) \/ SetPattern(c) \/ ResetStep(c) \/ Steady(c) \/ LoadStep(c)
  \/ StoreStep(c) \/ Switch(c) \/ Show(c) \/ StartTimer(c)

LedNext ==
  \/ JoinElapsed \/ JoinFails \/ JoinSucceeds
  \/ \E p \in TaskPatterns : Call("task", p)
  \/ \E p \in ButtonPatterns : Call("button", p)
  \/ \E p \in TimerPatterns : StartFromTimer(p)
  \/ \E c \in Caller : Proceed(c)
  \/ TimerElapsed

LedSpec == LedInit /\ [][LedNext]_ledVars

(* A call in progress ends, and a running timer expires.                    *)
FairLedSpec == /\ LedSpec
            /\ \A c \in Caller : WF_ledVars(Proceed(c))
            /\ WF_ledVars(TimerElapsed)

-----------------------------------------------------------------------------
(* Type invariant: ledControl, the LED and the calls in progress.  A finite *)
(* pattern is never seen past its last step.                                *)
LedTypeOK ==
  /\ currentPattern \in Pattern
  /\ Quiet /\ currentPattern \in Finite => step < StepsOf(currentPattern)
  /\ step \in 0 .. MaxStep
  /\ patternTimer \in BOOLEAN /\ led \in BOOLEAN /\ joining \in BOOLEAN
  /\ call \in [Caller -> [at : {"idle", "stop", "set", "reset", "steady", "load",
                                 "store", "blink", "show", "arm"},
                           pattern : Pattern, count : 0 .. MaxStep]]

(* However the calls of APP_BSP_LedPatternStart preempt each other, the     *)
(* timer of an animated pattern is not lost: it runs whenever no call is in *)
(* progress.                                                                *)
AnimationIsTimed ==
  /\ LedTypeOK
  /\ Quiet /\ currentPattern \in Animated => patternTimer

(* A pattern that ended leaves the LED dark, or a timer that will see to it. *)
DarkWhenDone ==
  Quiet /\ ~joining /\ currentPattern = "NONE" /\ ~patternTimer => ~led

(* A repeating pattern that is not replaced blinks for ever.                *)
BlinksForever ==
  <>[](currentPattern \in Repeating) => []<>led /\ []<>~led

=============================================================================
