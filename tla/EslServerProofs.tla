--------------------------- MODULE EslServerProofs ---------------------------
(***************************************************************************)
(* Theorems about the label server over the join procedure, for any number *)
(* of text fields and any messages and failure codes: with factory resets, *)
(* leaves and rejoins the join procedure keeps its promise, in which a     *)
(* member may leave and come back; and what the label keeps and shows is   *)
(* one message, but for the mixtures that DisplaysAreWhole names.          *)
(***************************************************************************)
EXTENDS EslServer, TLAPS

-----------------------------------------------------------------------------
(***************************************************************************)
(* Theorems about the join procedure, for every set of failure codes: its  *)
(* invariants, and that each of its steps is a step of the promise of the  *)
(* module NetworkMembership or leaves its phase alone.                     *)
(***************************************************************************)

-----------------------------------------------------------------------------
(* The strengthening.  KeepsTrying is not inductive without knowing that    *)
(* the retry timer and the request exclude each other and the running task; *)
(* JoinedIsConfirmed needs the preset SUCCESS to be overwritten before it   *)
(* is read.  Nothing is said of a device that has joined: the server may    *)
(* reset it, see below.                                                     *)

Attempting == {"preset", "blink", "startup", "wait", "stop blinking", "result",
               "reset", "retry"}

NotYetJoined ==
  /\ at \in Attempting => eJoinStatus # Success
  /\ At("configure") => eJoinStatus = Success

RequestsAreExclusive ==
  /\ waitTimer => At("idle") /\ ~requested /\ eJoinStatus # Success
  /\ requested => At("idle") /\ eJoinStatus # Success

AnswerIsConfirmed ==
  At("stop blinking") \/ At("result") \/ (At("wait") /\ startupEnded)
    => (eZbStartupWaitStatus = Success => inNetwork)

IInv ==
  /\ JoinTypeOK
  /\ KeepsTrying
  /\ EventBelongsToAttempt
  /\ BlinksOnlyWhileJoining
  /\ NotYetJoined
  /\ RequestsAreExclusive
  /\ AnswerIsConfirmed

-----------------------------------------------------------------------------
(* The invariant holds at start and is preserved by every step.             *)

(* The invariant holds before the first attempt.                            *)
LEMMA InitIInv == JoinInit => IInv
BY JoinAssumption
DEF JoinInit, IInv, JoinTypeOK, KeepsTrying, EventBelongsToAttempt,
    BlinksOnlyWhileJoining, NotYetJoined, Attempting,
    RequestsAreExclusive, AnswerIsConfirmed, At, Status

(* Each step of an attempt, of the stack and of the timers keeps it.        *)
LEMMA NextIInv == IInv /\ [JoinNext]_joinVars => IInv'
<1> SUFFICES ASSUME IInv, [JoinNext]_joinVars PROVE IInv'
  OBVIOUS
<1> USE JoinAssumption
    DEF IInv, JoinTypeOK, KeepsTrying, EventBelongsToAttempt,
        BlinksOnlyWhileJoining, NotYetJoined, Attempting, RequestsAreExclusive,
        AnswerIsConfirmed, At, Goto, Status
<1>1. CASE NwkFormOrJoin
  BY <1>1 DEF NwkFormOrJoin
<1>2. CASE PresetStatus
  BY <1>2 DEF PresetStatus
<1>3. CASE StartBlinking
  BY <1>3 DEF StartBlinking
<1>4. CASE StartupAccepted
  BY <1>4 DEF StartupAccepted
<1>5. ASSUME NEW s \in Failure, StartupRefused(s) PROVE IInv'
  BY <1>5 DEF StartupRefused
<1>6. CASE WaitEvt
  BY <1>6 DEF WaitEvt
<1>7. CASE StopBlinking
  BY <1>7 DEF StopBlinking
<1>8. CASE Result
  BY <1>8 DEF Result
<1>9. CASE ResetStack
  BY <1>9 DEF ResetStack
<1>10. CASE RetryLater
  BY <1>10 DEF RetryLater
<1>11. CASE Configure
  BY <1>11 DEF Configure
<1>12. ASSUME NEW s \in Status, StartupWaitCallback(s) PROVE IInv'
  BY <1>12 DEF StartupWaitCallback
<1>13. CASE NwkFormWaitElapsed
  BY <1>13 DEF NwkFormWaitElapsed
<1>14. CASE NwkFormWaitJoinElapsed
  BY <1>14 DEF NwkFormWaitJoinElapsed
<1>15. CASE UNCHANGED joinVars
  BY <1>15 DEF joinVars
<1>16. QED
  BY <1>1, <1>2, <1>3, <1>4, <1>5, <1>6, <1>7, <1>8, <1>9, <1>10, <1>11, <1>12,
     <1>13, <1>14, <1>15 DEF JoinNext, Task

(* The inductive invariant of the join procedure.                           *)
THEOREM InductiveInvariant == JoinSpec => []IInv
BY InitIInv, NextIInv, PTL DEF JoinSpec

(* A device that has not joined always has an attempt in progress,          *)
(* requested, or coming when the retry timer of app_zigbee.c expires.       *)
THEOREM NeverGivesUp == JoinSpec => []KeepsTrying
<1>1. IInv => KeepsTrying
  BY DEF IInv
<1>2. QED
  BY <1>1, InductiveInvariant, PTL

(* The startup event is never left over from an earlier attempt, so that    *)
(* ZbStartupWait does not return the SUCCESS it presets.                    *)
THEOREM NoStaleEvent == JoinSpec => []EventBelongsToAttempt
<1>1. IInv => EventBelongsToAttempt
  BY DEF IInv
<1>2. QED
  BY <1>1, InductiveInvariant, PTL

(* A step that takes the device for joined finds it joined.                 *)
LEMMA StepConfirms ==
  IInv /\ [JoinNext]_joinVars
    => [eJoinStatus # Success /\ eJoinStatus' = Success => inNetwork']_joinVars
<1> SUFFICES ASSUME IInv, JoinNext, eJoinStatus # Success, eJoinStatus' = Success
             PROVE  inNetwork'
  BY DEF joinVars
<1>1. Result
  BY JoinAssumption
  DEF JoinNext, Task, NwkFormOrJoin, PresetStatus, StartBlinking, StartupAccepted,
      StartupRefused, WaitEvt, StopBlinking, ResetStack, RetryLater, Configure,
      StartupWaitCallback, NwkFormWaitElapsed, NwkFormWaitJoinElapsed
<1> QED BY <1>1 DEF Result, IInv, AnswerIsConfirmed, At

(* eJoinStatus becomes SUCCESS only in a device whose stack has joined.     *)
THEOREM NeverFalselyJoined == JoinSpec => JoinedIsConfirmed
BY StepConfirms, InductiveInvariant, PTL DEF JoinSpec, JoinedIsConfirmed

(* The blinking of the LED ends with the join procedure.                    *)
THEOREM BlinkingEnds == JoinSpec => []BlinksOnlyWhileJoining
<1>1. IInv => BlinksOnlyWhileJoining
  BY DEF IInv
<1>2. QED
  BY <1>1, InductiveInvariant, PTL

-----------------------------------------------------------------------------
(* The join procedure implements its promise.                               *)

(* At first the device is out, as the abstract membership has it.           *)
LEMMA InitRefines == JoinInit => Membership!Init
BY JoinAssumption
DEF JoinInit, Membership!Init, Phase, At

(* Each step of the procedure is one of the membership, or unseen by it.    *)
LEMMA StepRefines == IInv /\ [JoinNext]_joinVars => [Membership!Next]_Phase
<1> SUFFICES ASSUME IInv, [JoinNext]_joinVars
             PROVE  Membership!Next \/ UNCHANGED Phase
  OBVIOUS
<1> USE JoinAssumption
    DEF IInv, JoinTypeOK, EventBelongsToAttempt, NotYetJoined, Attempting, At, Goto,
        Status, Phase, RequestsAreExclusive, AnswerIsConfirmed
<1>1. CASE NwkFormOrJoin
  BY <1>1 DEF NwkFormOrJoin
<1>2. CASE PresetStatus
  BY <1>2 DEF PresetStatus
<1>3. CASE StartBlinking
  BY <1>3 DEF StartBlinking
<1>4. CASE StartupAccepted
  BY <1>4 DEF StartupAccepted, Membership!Next, Membership!Try
<1>5. ASSUME NEW s \in Failure, StartupRefused(s)
      PROVE  UNCHANGED Phase
  BY <1>5 DEF StartupRefused
<1>6. CASE WaitEvt
  BY <1>6 DEF WaitEvt
<1>7. CASE StopBlinking
  BY <1>7 DEF StopBlinking
<1>8. CASE Result
  BY <1>8 DEF Result, Membership!Next, Membership!Accept, Membership!Refuse
<1>9. CASE ResetStack
  BY <1>9 DEF ResetStack
<1>10. CASE RetryLater
  BY <1>10 DEF RetryLater
<1>11. CASE Configure
  BY <1>11 DEF Configure
<1>12. ASSUME NEW s \in Status, StartupWaitCallback(s)
       PROVE  UNCHANGED Phase
  BY <1>12 DEF StartupWaitCallback
<1>13. CASE NwkFormWaitElapsed
  BY <1>13 DEF NwkFormWaitElapsed
<1>14. CASE NwkFormWaitJoinElapsed
  BY <1>14 DEF NwkFormWaitJoinElapsed
<1>15. CASE UNCHANGED joinVars
  BY <1>15 DEF joinVars
<1>16. QED
  BY <1>1, <1>2, <1>3, <1>4, <1>5, <1>6, <1>7, <1>8, <1>9, <1>10, <1>11, <1>12,
     <1>13, <1>14, <1>15 DEF JoinNext, Task

(* The safety part of the promise: tries and answers alternate, and a       *)
(* device becomes a member only by an accepted try.                         *)
THEOREM ImplementsMembership == JoinSpec => Membership!Spec
BY InitRefines, StepRefines, InductiveInvariant, PTL
DEF JoinSpec, Membership!Spec

-----------------------------------------------------------------------------
(* The server over the join procedure.                                      *)

-----------------------------------------------------------------------------
(***************************************************************************)
(* The join procedure.  Outside of it, a step of the server changes only   *)
(* whether the device is in the network, between two attempts, and whether *)
(* it reports.                                                             *)
(***************************************************************************)

ServerOnly ==
  /\ UNCHANGED <<eJoinStatus, eZbStartupWaitStatus, startupEnded, requested,
                 waitTimer, joinTimer, at, starting, blueLed>>
  /\ inNetwork' \in BOOLEAN /\ reporting' \in BOOLEAN
  /\ inNetwork' # inNetwork => At("idle")

(* A step of the composition is one of the join procedure, or touches its   *)
(* variables only as the server does.                                       *)
LEMMA NextIsJoinOrServer ==
  ASSUME JoinTypeOK, [Next]_vars
  PROVE  [JoinNext]_joinVars \/ ServerOnly
<1>1. CASE Join \/ JoinTimers
  BY <1>1 DEF Join, JoinTimers, JoinNext
<1>2. ASSUME NEW left \in BOOLEAN, LeaveConfirm(left) PROVE ServerOnly
  BY <1>2 DEF LeaveConfirm, ServerOnly, JoinTypeOK
<1>3. ASSUME NEW accepted \in BOOLEAN, PerformFactoryReset(accepted) PROVE ServerOnly
  BY <1>3 DEF PerformFactoryReset, ServerOnly, JoinTypeOK
<1>4. CASE StackRejoins
  BY <1>4 DEF StackRejoins, ServerOnly, JoinTypeOK
<1>5. CASE CopyField \/ SetValid \/ Display \/ EndDisplay
  BY <1>5 DEF CopyField, SetValid, Display, EndDisplay
<1>6. CASE Button \/ ShortPress \/ PeriodicReportFails
  BY <1>6 DEF Button, Send, Redraw, EndShortPress, ShortPress, PeriodicReportFails
<1>7. ASSUME NEW m \in Message, ReceiveDisplay(m) PROVE UNCHANGED joinVars
  BY <1>7 DEF ReceiveDisplay
<1>8. CASE UNCHANGED vars
  BY <1>8 DEF vars
<1> QED BY <1>1, <1>2, <1>3, <1>4, <1>5, <1>6, <1>7, <1>8 DEF Next, Main

(* The server's own steps keep the join procedure's invariant.              *)
LEMMA ServerKeepsIInv == IInv /\ ServerOnly => IInv'
<1> SUFFICES ASSUME IInv, ServerOnly PROVE IInv'
  OBVIOUS
<1>1. /\ eJoinStatus' = eJoinStatus /\ eZbStartupWaitStatus' = eZbStartupWaitStatus
      /\ startupEnded' = startupEnded /\ requested' = requested
      /\ waitTimer' = waitTimer /\ joinTimer' = joinTimer
      /\ at' = at /\ starting' = starting /\ blueLed' = blueLed
      /\ inNetwork' \in BOOLEAN /\ reporting' \in BOOLEAN
      /\ inNetwork' # inNetwork => at = "idle"
  BY DEF ServerOnly, At
<1>2. JoinTypeOK'
  BY <1>1 DEF IInv, JoinTypeOK
<1>3. KeepsTrying' /\ EventBelongsToAttempt' /\ BlinksOnlyWhileJoining'
  BY <1>1 DEF IInv, KeepsTrying, EventBelongsToAttempt, BlinksOnlyWhileJoining, At
<1>4. NotYetJoined' /\ RequestsAreExclusive'
  BY <1>1 DEF IInv, NotYetJoined, RequestsAreExclusive, At
<1>5. AnswerIsConfirmed'
  <2>1. CASE at = "idle"
    BY <1>1, <2>1 DEF AnswerIsConfirmed, At
  <2>2. CASE inNetwork' = inNetwork
    BY <1>1, <2>2 DEF IInv, AnswerIsConfirmed, At
  <2> QED BY <1>1, <2>1, <2>2
<1> QED BY <1>2, <1>3, <1>4, <1>5 DEF IInv

(* And so do all steps of the composition.                                  *)
LEMMA ServerNextIInv == IInv /\ [Next]_vars => IInv'
<1>1. IInv => JoinTypeOK
  BY DEF IInv
<1> QED BY <1>1, NextIsJoinOrServer, ServerKeepsIInv, NextIInv

(* The join procedure's invariant holds with the server as well.            *)
THEOREM ServerJoinInvariant == Spec => []IInv
<1>1. Init => IInv
  BY InitIInv DEF Init
<1> QED BY <1>1, ServerNextIInv, PTL DEF Spec

(* Whatever the server and its users do, a device that has not joined has   *)
(* an attempt in progress, requested, or coming with the retry timer.       *)
THEOREM ServerNeverGivesUp == Spec => []KeepsTrying
<1>1. IInv => KeepsTrying
  BY DEF IInv
<1> QED BY <1>1, ServerJoinInvariant, PTL

(* Nor is the device ever taken for joined by an answer of another attempt. *)
THEOREM ServerNeverFalselyJoined == Spec => JoinedIsConfirmed
<1>1. IInv /\ [Next]_vars
        => [eJoinStatus # Success /\ eJoinStatus' = Success => inNetwork']_joinVars
  <2> SUFFICES ASSUME IInv, [Next]_vars
               PROVE  [eJoinStatus # Success /\ eJoinStatus' = Success => inNetwork']_joinVars
    OBVIOUS
  <2>1. CASE [JoinNext]_joinVars
    BY <2>1, StepConfirms
  <2>2. CASE ServerOnly
    BY <2>2 DEF ServerOnly
  <2> QED BY <2>1, <2>2, NextIsJoinOrServer DEF IInv
<1> QED BY <1>1, ServerJoinInvariant, PTL DEF Spec, JoinedIsConfirmed

(* With the server, the join procedure still implements the safety part of  *)
(* its promise.                                                             *)
THEOREM ServerImplementsMembership == Spec => Membership!Spec
<1>1. Init => Membership!Init
  BY InitRefines DEF Init
<1>2. IInv /\ [Next]_vars => [Membership!Next]_Phase
  <2> SUFFICES ASSUME IInv, [Next]_vars PROVE [Membership!Next]_Phase
    OBVIOUS
  <2>1. CASE [JoinNext]_joinVars
    BY <2>1, StepRefines
  <2>2. CASE ServerOnly
    BY <2>2 DEF ServerOnly, Phase, At, IInv, JoinTypeOK, EventBelongsToAttempt,
                Membership!Next, Membership!Leave, Membership!Rejoin
  <2> QED BY <2>1, <2>2, NextIsJoinOrServer DEF IInv
<1> QED BY <1>1, <1>2, ServerJoinInvariant, PTL DEF Spec, Membership!Spec

-----------------------------------------------------------------------------
(***************************************************************************)
(* The label.  As long as no factory reset has cut a display command, the  *)
(* fields it has copied are its message's and the others as they were; one *)
(* that was cut leaves the fields copied after the reset, and blanks.  A   *)
(* redraw of the button finds nobody else at work.                         *)
(***************************************************************************)

WholeData ==
  /\ ~display.cut /\ (display.at # "idle" \/ dataValid)
       => \A f \in Field : data[f] = IF Copied(f) THEN message ELSE before[f]
  /\ display.cut
       => \E c \in Nat :
            /\ display.at = "copy" => c <= display.field
            /\ \A f \in Field :
                 data[f] = IF c <= f /\ Copied(f) THEN message ELSE Blank
  /\ ~display.cut /\ display.at \in {"check", "draw", "shown", "done"} => dataValid

ItsOwn(f) == screen[f] = message \/ (display.cut /\ screen[f] = Blank)

WholeDisplay ==
  /\ display.at = "draw" => \A f \in Field : f < display.field => ItsOwn(f)
  /\ display.at = "shown" => \A f \in Field : ItsOwn(f)
  /\ ~display.cut /\ (display.at = "done" \/ (display.at = "idle" /\ dataValid))
       => Uniform(screen, message)

WholeButton ==
  /\ button.at \in {"send", "check"} => button.field = 1
  /\ ~button.cut /\ button.at \in {"draw", "shown"} => dataValid
  /\ ~button.cut /\ button.at = "draw"
       => \A f \in Field : f < button.field => screen[f] = data[f]
  /\ ~button.cut /\ button.at = "shown" => \A f \in Field : screen[f] = data[f]

LabelInv ==
  /\ TypeOK
  /\ display.at \in {"valid", "check"} => display.field = 1
  /\ WholeData
  /\ WholeDisplay
  /\ WholeButton

(* Nothing is shown at first.                                               *)
LEMMA InitLabel == Init => LabelInv
<1> SUFFICES ASSUME Init PROVE LabelInv
  OBVIOUS
<1>1. JoinTypeOK
  BY InitIInv DEF Init, IInv
<1>2. Idle \in Callback({"copy", "valid"}) /\ Idle \in Callback({"send"})
  BY EslAssumption DEF Idle, Callback, Field
<1>3. TypeOK
  BY <1>1, <1>2 DEF Init, TypeOK
<1> QED BY <1>3 DEF Init, LabelInv, WholeData, WholeDisplay, WholeButton, Idle

(* Drawing one field, or checking whether there is anything to draw, keeps  *)
(* a callback of its type.                                                  *)
LEMMA DrawKeepsType ==
  ASSUME NEW labels, NEW callback \in Callback(labels), NEW then,
         TypeOK, UpdateEpdDisplay(callback, then)
  PROVE  /\ then \in Callback(labels)
         /\ lastStatus' \in {"SUCCESS", "OTHER_ERROR"}
         /\ screen' \in [Field -> Message \cup {Blank}]
<1>1. CASE callback.at = "check" /\ then = AfterCheck(callback)
           /\ UNCHANGED <<screen, lastStatus>>
  BY <1>1 DEF AfterCheck, Callback, TypeOK
<1>2. CASE /\ callback.at = "draw" /\ then = AfterDraw(callback) /\ UNCHANGED lastStatus
           /\ screen' = [screen EXCEPT ![callback.field] = data[callback.field]]
  <2>1. callback.field \in Field
    BY DEF Callback
  <2>2. CASE callback.field < FieldNbr
    <3>1. callback.field + 1 \in Field
      BY <2>2, EslAssumption DEF Callback, Field
    <3>2. then = [callback EXCEPT !.field = @ + 1]
      BY <1>2, <2>2 DEF AfterDraw
    <3> QED BY <1>2, <2>1, <3>1, <3>2 DEF Callback, TypeOK
  <2>3. CASE ~(callback.field < FieldNbr)
    <3>1. then = [callback EXCEPT !.at = "shown"]
      BY <1>2, <2>3 DEF AfterDraw
    <3> QED BY <1>2, <2>1, <3>1 DEF Callback, TypeOK
  <2> QED BY <2>2, <2>3
<1>3. CASE callback.at = "shown" /\ then = [callback EXCEPT !.at = "done"]
           /\ lastStatus' = "SUCCESS" /\ UNCHANGED screen
  BY <1>3 DEF Callback, TypeOK
<1> QED BY <1>1, <1>2, <1>3 DEF UpdateEpdDisplay

(* What the callbacks are when they begin.                                  *)
LEMMA IdleIsCallback ==
  ASSUME NEW labels, NEW label \in labels \cup {"idle", "check", "draw", "shown", "done"}
  PROVE  [Idle EXCEPT !.at = label] \in Callback(labels)
<1>1. 1 \in Field /\ FALSE \in BOOLEAN
  BY EslAssumption DEF Field
<1> DEFINE callback == Idle
<1>2. callback \in [at : {"idle"}, field : Field, cut : BOOLEAN]
  BY <1>1 DEF Idle
<1> HIDE DEF callback
<1>3. [callback EXCEPT !.at = label] \in Callback(labels)
  BY <1>2 DEF Callback
<1> QED BY <1>3 DEF callback

(* What a step of the join procedure or of the stack, and the beginning and *)
(* the end of a short press, leave alone is all that the label's invariant  *)
(* speaks of.                                                               *)
LEMMA LabelUntouched ==
  ASSUME LabelInv, JoinTypeOK',
         UNCHANGED <<data, dataValid, screen, display, message, before>>,
         lastStatus' \in {"SUCCESS", "OTHER_ERROR"},
         button' \in Callback({"send"}), leaving' \in BOOLEAN, cleared' \in BOOLEAN,
         \/ button' = button
         \/ button'.at \in {"idle", "send", "check"} /\ button'.field = 1
  PROVE  LabelInv'
<1>1. TypeOK'
  BY DEF LabelInv, TypeOK
<1>2. WholeData' = WholeData
  BY DEF WholeData, Copied
<1>3. WholeDisplay' = WholeDisplay
  BY DEF WholeDisplay, Uniform, ItsOwn
<1>4. WholeButton'
  BY DEF LabelInv, WholeButton
<1> QED BY <1>1, <1>2, <1>3, <1>4 DEF LabelInv

(* What the data are when the command has copied them all.                  *)
LEMMA DataWhenCopied ==
  ASSUME LabelInv, display.at # "copy", display.at # "idle" \/ dataValid
  PROVE  /\ \A f \in Field : data[f] = message \/ (display.cut /\ data[f] = Blank)
         /\ ~display.cut => \A f \in Field : data[f] = message
BY DEF LabelInv, WholeData, Copied

(* A field drawn by the display command or, while one is shown, by the      *)
(* button is of that command.                                               *)
LEMMA DrawnIsItsOwn ==
  ASSUME LabelInv, NEW g \in Field, display.at # "copy", display.at # "idle" \/ dataValid,
         screen' = [screen EXCEPT ![g] = data[g]], message' = message,
         display'.cut = display.cut
  PROVE  \A f \in Field : ItsOwn(f) \/ f = g => ItsOwn(f)'
BY DataWhenCopied DEF LabelInv, TypeOK, ItsOwn

(* One step of the callback of the display command.                         *)
LEMMA DisplayStepsKeepLabel ==
  ASSUME LabelInv, Display
  PROVE  LabelInv'
<1> USE EslAssumption
<1>1. /\ UNCHANGED <<joinVars, data, dataValid, button, leaving, history>>
      /\ UpdateEpdDisplay(display, display') /\ button.at = "idle"
      /\ TypeOK
  BY DEF Display, MainRuns, LabelInv
<1>2. TypeOK'
  <2>1. /\ display' \in Callback({"copy", "valid"})
        /\ lastStatus' \in {"SUCCESS", "OTHER_ERROR"}
        /\ screen' \in [Field -> Message \cup {Blank}]
    BY <1>1, DrawKeepsType DEF TypeOK
  <2>2. JoinTypeOK'
    BY <1>1 DEF TypeOK, JoinTypeOK, joinVars
  <2> QED BY <1>1, <2>1, <2>2 DEF TypeOK, history
<1>3. WholeButton'
  BY <1>1 DEF WholeButton
<1>4. ASSUME display.at \in {"check", "draw", "shown"},
             display'.at \in {"draw", "shown", "done"}, display'.cut = display.cut
      PROVE  WholeData'
  <2>1. \A f \in Field : Copied(f) /\ Copied(f)'
    BY <1>4 DEF Copied
  <2> QED BY <1>1, <1>4, <2>1 DEF LabelInv, WholeData, history
<1>5. CASE display.at = "check" /\ display' = AfterCheck(display)
           /\ UNCHANGED <<screen, lastStatus>>
  <2>1. /\ display'.at = (IF dataValid THEN "draw" ELSE "done")
        /\ display'.field = 1 /\ display'.cut = display.cut
    BY <1>1, <1>5 DEF AfterCheck, LabelInv, TypeOK, Callback
  <2>2. WholeData'
    BY <1>4, <1>5, <2>1
  <2>3. WholeDisplay'
    BY <1>1, <1>5, <2>1 DEF WholeDisplay, WholeData, LabelInv, Field
  <2> QED BY <1>2, <1>3, <2>1, <2>2, <2>3 DEF LabelInv
<1>6. CASE /\ display.at = "draw" /\ display' = AfterDraw(display) /\ UNCHANGED lastStatus
           /\ screen' = [screen EXCEPT ![display.field] = data[display.field]]
  <2>1. display.field \in Field
    BY <1>1 DEF TypeOK, Callback
  <2>2. /\ display'.cut = display.cut
        /\ display.field < FieldNbr => display'.at = "draw" /\ display'.field = display.field + 1
        /\ ~(display.field < FieldNbr) => display'.at = "shown"
    BY <1>1, <1>6 DEF AfterDraw, TypeOK, Callback
  <2>3. WholeData'
    BY <1>4, <1>6, <2>2
  <2>4. \A f \in Field : f < display.field \/ f = display.field => ItsOwn(f)'
    BY <1>1, <1>6, <2>1, <2>2, DrawnIsItsOwn DEF LabelInv, WholeDisplay, history
  <2>5. WholeDisplay'
    <3>1. CASE display.field < FieldNbr
      <4>1. \A f \in Field : f < display'.field => ItsOwn(f)'
        BY <2>1, <2>2, <2>4, <3>1 DEF Field
      <4> QED BY <2>2, <3>1, <4>1 DEF WholeDisplay
    <3>2. CASE ~(display.field < FieldNbr)
      <4>1. \A f \in Field : ItsOwn(f)'
        BY <2>1, <2>4, <3>2 DEF Field
      <4> QED BY <2>2, <3>2, <4>1 DEF WholeDisplay
    <3> QED BY <3>1, <3>2
  <2> QED BY <1>2, <1>3, <2>2, <2>3, <2>5 DEF LabelInv
<1>7. CASE display.at = "shown" /\ display' = [display EXCEPT !.at = "done"]
           /\ lastStatus' = "SUCCESS" /\ UNCHANGED screen
  <2>1. display'.at = "done" /\ display'.cut = display.cut
    BY <1>1, <1>7 DEF TypeOK, Callback
  <2>2. WholeData'
    BY <1>4, <1>7, <2>1
  <2>3. WholeDisplay'
    BY <1>1, <1>7, <2>1 DEF WholeDisplay, LabelInv, ItsOwn, Uniform, history
  <2> QED BY <1>2, <1>3, <2>1, <2>2, <2>3 DEF LabelInv
<1> QED BY <1>1, <1>5, <1>6, <1>7 DEF UpdateEpdDisplay

(* The other steps of a display command: its arrival, the copies of its     *)
(* fields, the validation and the end.                                      *)
LEMMA CommandStepsKeepLabel ==
  ASSUME LabelInv,
         (\E m \in Message : ReceiveDisplay(m)) \/ CopyField \/ SetValid \/ EndDisplay
  PROVE  LabelInv'
<1> USE EslAssumption
<1>1. ASSUME UNCHANGED joinVars PROVE JoinTypeOK'
  BY <1>1 DEF LabelInv, TypeOK, JoinTypeOK, joinVars
<1>2. ASSUME NEW m \in Message, ReceiveDisplay(m) PROVE LabelInv'
  <2>1. TypeOK'
    BY <1>1, <1>2, IdleIsCallback DEF ReceiveDisplay, LabelInv, TypeOK
  <2>2. /\ display'.at = "copy" /\ display'.field = 1 /\ display'.cut = FALSE
        /\ button' = button /\ button.at = "idle" /\ data' = data /\ before' = data
    BY <1>2 DEF ReceiveDisplay, Idle, MainRuns
  <2>3. \A f \in Field : ~Copied(f)'
    BY <2>2 DEF Copied, Field
  <2>4. WholeData'
    BY <2>2, <2>3 DEF WholeData
  <2>5. WholeDisplay' /\ WholeButton'
    BY <2>2 DEF WholeDisplay, WholeButton
  <2> QED BY <2>1, <2>2, <2>4, <2>5 DEF LabelInv
<1>3. CASE CopyField
  <2>1. /\ UNCHANGED <<joinVars, dataValid, lastStatus, button, leaving, screen, history>>
        /\ display.at = "copy" /\ button.at = "idle"
        /\ display.field \in Field
        /\ data' = [data EXCEPT ![display.field] = message]
        /\ TypeOK
    BY <1>3 DEF CopyField, LabelInv, TypeOK, Callback, MainRuns
  <2>2. /\ display' \in Callback({"copy", "valid"})
        /\ display'.cut = display.cut
        /\ display.field < FieldNbr => display'.at = "copy" /\ display'.field = display.field + 1
        /\ ~(display.field < FieldNbr) => display'.at = "valid" /\ display'.field = 1
    <3>1. display \in Callback({"copy", "valid"})
      BY <2>1 DEF TypeOK
    <3>2. CASE display.field < FieldNbr
      <4>1. display' = [display EXCEPT !.field = @ + 1]
        BY <1>3, <3>2 DEF CopyField
      <4>2. display.field + 1 \in Field
        BY <2>1, <3>2 DEF Field
      <4> QED BY <2>1, <3>1, <3>2, <4>1, <4>2 DEF Callback
    <3>3. CASE ~(display.field < FieldNbr)
      <4>1. display' = [display EXCEPT !.at = "valid", !.field = 1]
        BY <1>3, <3>3 DEF CopyField
      <4>2. 1 \in Field
        BY DEF Field
      <4> QED BY <3>1, <3>3, <4>1, <4>2 DEF Callback
    <3> QED BY <3>2, <3>3
  <2>3. TypeOK'
    BY <1>1, <2>1, <2>2 DEF TypeOK, history
  <2>4. \A f \in Field : /\ Copied(f) <=> f < display.field
                         /\ Copied(f)' <=> Copied(f) \/ f = display.field
    <3>1. CASE display.field < FieldNbr
      BY <2>1, <2>2, <3>1 DEF Copied, Field
    <3>2. CASE ~(display.field < FieldNbr)
      BY <2>1, <2>2, <3>2 DEF Copied, Field
    <3> QED BY <3>1, <3>2
  <2>5. ASSUME ~display.cut
        PROVE  \A f \in Field : data'[f] = IF Copied(f)' THEN message ELSE before[f]
    BY <2>1, <2>4, <2>5 DEF LabelInv, WholeData, TypeOK
  <2>6. ASSUME display.cut
        PROVE  \E c \in Nat :
                 /\ display'.at = "copy" => c <= display'.field
                 /\ \A f \in Field :
                      data'[f] = IF c <= f /\ Copied(f)' THEN message ELSE Blank
    <3>1. PICK c \in Nat :
            /\ c <= display.field
            /\ \A f \in Field : data[f] = IF c <= f /\ Copied(f) THEN message ELSE Blank
      BY <2>1, <2>6 DEF LabelInv, WholeData
    <3>2. display'.at = "copy" => c <= display'.field
      BY <2>1, <2>2, <3>1 DEF Field
    <3>3. \A f \in Field : data'[f] = IF c <= f /\ Copied(f)' THEN message ELSE Blank
      BY <2>1, <2>4, <3>1 DEF TypeOK
    <3> QED BY <3>2, <3>3
  <2>7. display'.at \in {"copy", "valid"}
    BY <2>2
  <2>8. WholeData'
    BY <2>1, <2>2, <2>5, <2>6, <2>7 DEF WholeData, history
  <2>9. WholeDisplay' /\ WholeButton'
    BY <2>1, <2>7 DEF WholeDisplay, WholeButton
  <2> QED BY <2>2, <2>3, <2>7, <2>8, <2>9 DEF LabelInv
<1>4. CASE SetValid
  <2>1. /\ display'.at = "check" /\ display'.field = 1 /\ display'.cut = display.cut
        /\ display' \in Callback({"copy", "valid"})
        /\ display.at = "valid" /\ button.at = "idle" /\ dataValid'
        /\ UNCHANGED <<joinVars, data, lastStatus, button, leaving, screen, history>>
    BY <1>4 DEF SetValid, LabelInv, TypeOK, Callback, MainRuns
  <2>2. TypeOK'
    BY <1>1, <1>4, <2>1 DEF SetValid, LabelInv, TypeOK, history
  <2>3. \A f \in Field : Copied(f) /\ Copied(f)'
    BY <2>1 DEF Copied
  <2>4. WholeData'
    BY <2>1, <2>3 DEF LabelInv, WholeData, history
  <2>5. WholeDisplay' /\ WholeButton'
    BY <2>1 DEF WholeDisplay, WholeButton
  <2> QED BY <2>1, <2>2, <2>4, <2>5 DEF LabelInv
<1>5. CASE EndDisplay
  <2>1. /\ display' = [Idle EXCEPT !.cut = display.cut]
        /\ display.at = "done" /\ display.cut \in BOOLEAN /\ button.at = "idle"
        /\ lastStatus' = "SUCCESS"
        /\ UNCHANGED <<joinVars, data, dataValid, button, leaving, screen, history>>
    BY <1>5 DEF EndDisplay, LabelInv, TypeOK, Callback, MainRuns
  <2>2. /\ display'.at = "idle" /\ display'.cut = display.cut
        /\ display' \in Callback({"copy", "valid"})
    BY <2>1 DEF Idle, Callback, Field
  <2>3. TypeOK'
    BY <1>1, <2>1, <2>2 DEF LabelInv, TypeOK, history
  <2>4. \A f \in Field : Copied(f) /\ Copied(f)'
    BY <2>1, <2>2 DEF Copied
  <2>5. WholeData'
    BY <2>1, <2>2, <2>4 DEF LabelInv, WholeData, history
  <2>6. WholeDisplay' /\ WholeButton'
    BY <2>1, <2>2 DEF LabelInv, WholeDisplay, WholeButton, Uniform, history
  <2> QED BY <2>2, <2>3, <2>5, <2>6 DEF LabelInv
<1> QED BY <1>2, <1>3, <1>4, <1>5

(* A factory reset clears the data, wherever the callbacks are.             *)
LEMMA ResetKeepsLabel ==
  ASSUME LabelInv, NEW accepted \in BOOLEAN, PerformFactoryReset(accepted), JoinTypeOK'
  PROVE  LabelInv'
<1> USE EslAssumption
<1>1. /\ display' = Cut(display) /\ button' = Cut(button)
      /\ data' = [f \in Field |-> Blank] /\ dataValid' = FALSE
      /\ UNCHANGED <<screen, message, before, lastStatus>>
      /\ TypeOK
  BY DEF PerformFactoryReset, LabelInv
<1>2. /\ display'.at = display.at /\ display'.field = display.field
      /\ display'.cut = (display.cut \/ display.at # "idle")
      /\ display' \in Callback({"copy", "valid"})
      /\ button'.at = button.at /\ button'.field = button.field
      /\ button'.cut = (button.cut \/ button.at # "idle")
      /\ button' \in Callback({"send"})
  BY <1>1 DEF Cut, TypeOK, Callback
<1>3. TypeOK'
  BY <1>1, <1>2 DEF PerformFactoryReset, TypeOK
<1>4. WholeData'
  <2> DEFINE c == IF display.at = "copy" THEN display.field ELSE FieldNbr + 1
  <2>1. c \in Nat /\ (display.at = "copy" => c <= display.field)
    BY <1>1 DEF TypeOK, Callback, Field
  <2>2. \A f \in Field : ~(c <= f /\ Copied(f)')
    BY <1>1, <1>2 DEF Copied, Field, TypeOK, Callback
  <2>3. \A f \in Field : data'[f] = IF c <= f /\ Copied(f)' THEN message' ELSE Blank
    BY <1>1, <2>2
  <2> HIDE DEF c
  <2> QED BY <1>1, <1>2, <2>1, <2>3 DEF WholeData
<1>5. WholeDisplay'
  <2>1. \A f \in Field : ItsOwn(f) => ItsOwn(f)'
    BY <1>1, <1>2 DEF ItsOwn
  <2> QED BY <1>1, <1>2, <2>1 DEF LabelInv, WholeDisplay
<1>6. WholeButton'
  BY <1>1, <1>2 DEF LabelInv, WholeButton
<1> QED BY <1>2, <1>3, <1>4, <1>5, <1>6 DEF LabelInv

(* A step of the button's redraw.                                           *)
LEMMA RedrawKeepsLabel ==
  ASSUME LabelInv, Redraw, JoinTypeOK'
  PROVE  LabelInv'
<1> USE EslAssumption
<1>1. /\ UNCHANGED <<data, dataValid, display, leaving, history>>
      /\ UpdateEpdDisplay(button, button') /\ TypeOK
  BY DEF Redraw, LabelInv
<1>2. TypeOK'
  <2>1. /\ button' \in Callback({"send"})
        /\ lastStatus' \in {"SUCCESS", "OTHER_ERROR"}
        /\ screen' \in [Field -> Message \cup {Blank}]
    BY <1>1, DrawKeepsType DEF TypeOK
  <2> QED BY <1>1, <2>1 DEF TypeOK, history
<1>3. WholeData'
  BY <1>1 DEF LabelInv, WholeData, Copied, history
<1>4. CASE button.at = "check" /\ button' = AfterCheck(button)
           /\ UNCHANGED <<screen, lastStatus>>
  <2>1. /\ button'.at = (IF dataValid THEN "draw" ELSE "done") /\ button'.field = 1
    BY <1>1, <1>4 DEF AfterCheck, LabelInv, WholeButton, TypeOK, Callback
  <2>2. WholeDisplay'
    BY <1>1, <1>4 DEF LabelInv, WholeDisplay, ItsOwn, Uniform, history
  <2>3. WholeButton'
    BY <1>1, <2>1 DEF WholeButton, Field
  <2> QED BY <1>1, <1>2, <1>3, <2>2, <2>3 DEF LabelInv
<1>5. CASE /\ button.at = "draw" /\ button' = AfterDraw(button) /\ UNCHANGED lastStatus
           /\ screen' = [screen EXCEPT ![button.field] = data[button.field]]
  <2>1. button.field \in Field
    BY <1>1 DEF TypeOK, Callback
  <2>2. /\ button'.cut = button.cut
        /\ button.field < FieldNbr => button'.at = "draw" /\ button'.field = button.field + 1
        /\ ~(button.field < FieldNbr) => button'.at = "shown"
    BY <1>1, <1>5 DEF AfterDraw, TypeOK, Callback
  <2>3. WholeDisplay'
    <3>1. ASSUME display.at \in {"draw", "shown", "done"} \/ (display.at = "idle" /\ dataValid)
          PROVE  \A f \in Field : ItsOwn(f) => ItsOwn(f)'
      BY <1>1, <1>5, <2>1, <3>1, DrawnIsItsOwn DEF history
    <3>2. ASSUME ~display.cut, display.at = "done" \/ (display.at = "idle" /\ dataValid)
          PROVE  Uniform(screen, message)'
      BY <1>1, <1>5, <2>1, <3>2, DataWhenCopied
         DEF LabelInv, WholeDisplay, Uniform, history, TypeOK
    <3> QED BY <1>1, <3>1, <3>2 DEF LabelInv, WholeDisplay
  <2>4. WholeButton'
    <3>1. ~button.cut => \A f \in Field : f < button.field \/ f = button.field
                                            => screen'[f] = data[f]
      BY <1>1, <1>5, <2>1 DEF LabelInv, WholeButton, TypeOK
    <3>2. CASE button.field < FieldNbr
      <4>1. ~button.cut => \A f \in Field : f < button'.field => screen'[f] = data[f]
        BY <2>1, <2>2, <3>1, <3>2 DEF Field
      <4> QED BY <1>1, <1>5, <2>2, <3>2, <4>1 DEF LabelInv, WholeButton
    <3>3. CASE ~(button.field < FieldNbr)
      <4>1. ~button.cut => \A f \in Field : screen'[f] = data[f]
        BY <2>1, <3>1, <3>3 DEF Field
      <4> QED BY <1>1, <1>5, <2>2, <3>3, <4>1 DEF LabelInv, WholeButton
    <3> QED BY <3>2, <3>3
  <2> QED BY <1>1, <1>2, <1>3, <2>3, <2>4 DEF LabelInv
<1>6. CASE button.at = "shown" /\ button' = [button EXCEPT !.at = "done"]
           /\ lastStatus' = "SUCCESS" /\ UNCHANGED screen
  <2>1. button'.at = "done"
    BY <1>1, <1>6 DEF TypeOK, Callback
  <2>2. WholeDisplay'
    BY <1>1, <1>6 DEF LabelInv, WholeDisplay, ItsOwn, Uniform, history
  <2>3. WholeButton'
    BY <2>1 DEF WholeButton
  <2> QED BY <1>1, <1>2, <1>3, <2>2, <2>3 DEF LabelInv
<1> QED BY <1>1, <1>4, <1>5, <1>6 DEF UpdateEpdDisplay

(* Each step of the callbacks keeps the label's invariant.                  *)
LEMMA NextLabel == IInv /\ LabelInv /\ [Next]_vars => LabelInv'
<1> SUFFICES ASSUME IInv, LabelInv, [Next]_vars PROVE LabelInv'
  OBVIOUS
<1>1. JoinTypeOK'
  BY ServerNextIInv DEF IInv
<1>2. CASE Join \/ JoinTimers \/ StackRejoins \/ \E left \in BOOLEAN : LeaveConfirm(left)
  BY <1>1, <1>2, LabelUntouched
     DEF Join, JoinTimers, StackRejoins, LeaveConfirm, eslVars, history, LabelInv, TypeOK
<1>3. CASE ShortPress
  <2> DEFINE label == IF Joined THEN "send" ELSE "check"
  <2>1. button' = [Idle EXCEPT !.at = label]
    BY <1>3 DEF ShortPress
  <2>2. button' \in Callback({"send"})
    BY <2>1, IdleIsCallback
  <2>3. button'.at \in {"send", "check"} /\ button'.field = 1
    BY <2>1 DEF Idle
  <2> QED BY <1>1, <1>3, <2>2, <2>3, LabelUntouched DEF ShortPress, LabelInv, TypeOK, history
<1>4. CASE Send
  <2>1. button' \in Callback({"send"}) /\ button'.at = "check" /\ button'.field = 1
    BY <1>4 DEF Send, LabelInv, TypeOK, Callback, WholeButton
  <2> QED BY <1>1, <1>4, <2>1, LabelUntouched DEF Send, LabelInv, TypeOK, history
<1>5. CASE Redraw
  BY <1>1, <1>5, RedrawKeepsLabel
<1>6. CASE EndShortPress
  <2>1. Idle \in Callback({"send"}) /\ Idle.at = "idle" /\ Idle.field = 1
    BY EslAssumption DEF Idle, Callback, Field
  <2> QED BY <1>1, <1>6, <2>1, LabelUntouched DEF EndShortPress, LabelInv, TypeOK, history
<1>7. CASE PeriodicReportFails
  BY <1>1, <1>7, LabelUntouched DEF PeriodicReportFails, LabelInv, TypeOK, history
<1>8. CASE \E accepted \in BOOLEAN : PerformFactoryReset(accepted)
  BY <1>1, <1>8, ResetKeepsLabel
<1>9. CASE (\E m \in Message : ReceiveDisplay(m)) \/ CopyField \/ SetValid \/ EndDisplay
  BY <1>9, CommandStepsKeepLabel
<1>10. CASE Display
  BY <1>10, DisplayStepsKeepLabel
<1>11. CASE UNCHANGED vars
  BY <1>1, <1>11, LabelUntouched DEF vars, eslVars, history, LabelInv, TypeOK
<1> QED BY <1>2, <1>3, <1>4, <1>5, <1>6, <1>7, <1>8, <1>9, <1>10, <1>11 DEF Next, Main, Button

(* The label keeps, and a display command shows, one message, or what was   *)
(* copied of it after a factory reset; a short press between two copies     *)
(* shows the fields copied so far and the others as they were.              *)
THEOREM DisplaysStayWhole == Spec => []DisplaysAreWhole
<1>1. Init => LabelInv
  BY InitLabel
<1>2. LabelInv => DisplaysAreWhole
  <2> SUFFICES ASSUME LabelInv PROVE DisplaysAreWhole
    OBVIOUS
  <2>1. DataIsLastMessage
    <3>1. ASSUME display.at = "idle", dataValid, ~display.cut
          PROVE  Uniform(data, message) /\ Uniform(screen, message)
      BY <3>1, DataWhenCopied DEF LabelInv, WholeDisplay, Uniform
    <3>2. ASSUME display.at = "idle", display.cut
          PROVE  /\ \A f \in Field : data[f] \in {message, Blank}
                 /\ \A f, g \in Field : f < g /\ data[f] = message => data[g] = message
      <4>1. PICK c \in Nat :
              \A f \in Field : data[f] = IF c <= f /\ Copied(f) THEN message ELSE Blank
        BY <3>2 DEF LabelInv, WholeData
      <4>2. \A f \in Field : Copied(f)
        BY <3>2 DEF Copied
      <4> QED BY <4>1, <4>2, EslAssumption DEF Field
    <3> QED BY <3>1, <3>2 DEF DataIsLastMessage, LabelInv
  <2>2. ShownIsKnown
    <3>1. ASSUME button.at = "shown", ~button.cut, NEW f \in Field
          PROVE  IF display.cut THEN screen[f] \in {message, Blank}
                 ELSE screen[f] = IF Copied(f) THEN message ELSE before[f]
      BY <3>1 DEF LabelInv, WholeButton, WholeData
    <3> QED BY <3>1 DEF LabelInv, WholeDisplay, ItsOwn, ShownIsKnown
  <2> QED BY <2>1, <2>2 DEF DisplaysAreWhole
<1> QED BY <1>1, <1>2, ServerJoinInvariant, NextLabel, PTL DEF Spec

=============================================================================
