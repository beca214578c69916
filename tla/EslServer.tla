------------------------------ MODULE EslServer ------------------------------
(***************************************************************************)
(* The electronic shelf label server, app_zigbee_endpoint.c, on top of the *)
(* join procedure.                                                         *)
(*                                                                         *)
(* The display command runs in a task of the stack.  The forced update of  *)
(* a short press runs in the button's interrupt, which preempts the tasks; *)
(* the periodic report and the factory reset of a long press run in timer  *)
(* callbacks, which preempt both and are one step.  All of them access the *)
(* label's data without a lock, so each access of the first two is a step. *)
(***************************************************************************)
EXTENDS NetworkJoin, Naturals

CONSTANTS
  Message,      (* contents of display commands             *)
  Blank,        (* a cleared field                          *)
  FieldNbr      (* number of text fields of EslData_t, four *)

ASSUME EslAssumption == Blank \notin Message /\ FieldNbr \in Nat \ {0}

Field == 1 .. FieldNbr

VARIABLES
  data,         \* the text fields of currentEslData, by the message they are of
  dataValid,    \* currentEslData.data_valid
  lastStatus,   \* attribute LastUpdateStatus
  screen,       \* the text fields as last written to the display
  display,      \* the display callback in progress
  button,       \* the short-press action in progress
  leaving,      \* the stack owes the confirmation of a leave request
  message,      \* history: contents of the last display command
  before,       \* history: the data when that command arrived
  cleared       \* history: factory reset, and no display command since

history == <<message, before, cleared>>
eslVars == <<data, dataValid, lastStatus, screen, display, button, leaving,
             history>>
vars == <<joinVars, eslVars>>

(* A callback in progress: where it is, which field is next, and whether a  *)
(* factory reset cut it (history; of a display command, until the next one). *)
Idle == [at |-> "idle", field |-> 1, cut |-> FALSE]
MainRuns == button.at = "idle"
Joined == eJoinStatus = Success /\ inNetwork   \* APP_ZIGBEE_IsAppliJoinNetwork

-----------------------------------------------------------------------------
(***************************************************************************)
(* Faulty variants, see the module Sequencer.                              *)
(***************************************************************************)

CopyFirstFieldOnly ==
  /\ MainRuns /\ display.at = "copy"
  /\ data' = [data EXCEPT ![display.field] = message]
  /\ display' = [display EXCEPT !.at = "valid", !.field = 1]
  /\ UNCHANGED <<joinVars, dataValid, lastStatus, button, leaving, screen, history>>

-----------------------------------------------------------------------------
Init ==
  /\ JoinInit
  /\ data = [f \in Field |-> Blank] /\ dataValid = FALSE
  /\ lastStatus = "SUCCESS"
  /\ display = Idle /\ button = Idle
  /\ leaving = FALSE
  /\ message = Blank /\ cleared = FALSE
  /\ screen = [f \in Field |-> Blank] /\ before = [f \in Field |-> Blank]

(* The join procedure, when neither a display command nor the button's      *)
(* interrupt keeps the main thread from it; its timers at any time.         *)
Join ==
  /\ MainRuns /\ display.at = "idle"
  /\ Task \/ \E s \in Status : StartupWaitCallback(s)
  /\ UNCHANGED eslVars

JoinTimers == (NwkFormWaitElapsed \/ NwkFormWaitJoinElapsed) /\ UNCHANGED eslVars

(* esl_cluster_handler passes a well-formed display command to              *)
(* APP_ZIGBEE_EslServerDisplayMessageCallback.                              *)
ReceiveDisplay(m) ==
  /\ MainRuns /\ display.at = "idle" /\ At("idle") /\ inNetwork
  /\ display' = [Idle EXCEPT !.at = "copy"]
  /\ message' = m /\ before' = data /\ cleared' = FALSE
  /\ UNCHANGED <<joinVars, data, dataValid, lastStatus, screen, button, leaving>>

CopyField ==
  /\ MainRuns /\ display.at = "copy"
  /\ data' = [data EXCEPT ![display.field] = message]
  /\ display' = IF display.field < FieldNbr
                THEN [display EXCEPT !.field = @ + 1]
                ELSE [display EXCEPT !.at = "valid", !.field = 1]
  /\ UNCHANGED <<joinVars, dataValid, lastStatus, button, leaving, screen, history>>

SetValid ==
  /\ MainRuns /\ display.at = "valid"
  /\ display' = [display EXCEPT !.at = "check"]
  /\ dataValid' = TRUE
  /\ UNCHANGED <<joinVars, data, lastStatus, button, leaving, screen, history>>

(* UpdateEpdDisplay, called by a callback that then is at "done".           *)
AfterCheck(callback) ==
  [callback EXCEPT !.at = IF dataValid THEN "draw" ELSE "done"]

AfterDraw(callback) ==
  IF callback.field < FieldNbr
  THEN [callback EXCEPT !.field = @ + 1]
  ELSE [callback EXCEPT !.at = "shown"]

UpdateEpdDisplay(callback, then) ==
  \/ /\ callback.at = "check" /\ then = AfterCheck(callback)
     /\ UNCHANGED <<screen, lastStatus>>
  \/ /\ callback.at = "draw" /\ then = AfterDraw(callback)
     /\ screen' = [screen EXCEPT ![callback.field] = data[callback.field]]
     /\ UNCHANGED lastStatus
  \/ /\ callback.at = "shown" /\ then = [callback EXCEPT !.at = "done"]
     /\ lastStatus' = "SUCCESS"
     /\ UNCHANGED screen

Display ==
  /\ MainRuns
  /\ UpdateEpdDisplay(display, display')
  /\ UNCHANGED <<joinVars, data, dataValid, button, leaving, history>>

EndDisplay ==
  /\ MainRuns /\ display.at = "done"
  /\ lastStatus' = "SUCCESS"
  /\ display' = [Idle EXCEPT !.cut = display.cut]
  /\ UNCHANGED <<joinVars, data, dataValid, button, leaving, screen, history>>

(***************************************************************************)
(* The short press: TriggerPeriodicStatusUpdate, then UpdateEpdDisplay.    *)
(* Only a failure to send leaves a trace, in the status attribute.         *)
(***************************************************************************)
ShortPress ==
  /\ button.at = "idle"
  /\ button' = [Idle EXCEPT !.at = IF Joined THEN "send" ELSE "check"]
  /\ UNCHANGED <<joinVars, data, dataValid, lastStatus, display, leaving, screen, history>>

Send ==
  /\ button.at = "send"
  /\ lastStatus' \in {lastStatus, "OTHER_ERROR"}
  /\ button' = [button EXCEPT !.at = "check"]
  /\ UNCHANGED <<joinVars, data, dataValid, display, leaving, screen, history>>

Redraw ==
  /\ UpdateEpdDisplay(button, button')
  /\ UNCHANGED <<joinVars, data, dataValid, display, leaving, history>>

EndShortPress ==
  /\ button.at = "done"
  /\ button' = Idle
  /\ UNCHANGED <<joinVars, data, dataValid, lastStatus, display, leaving, screen, history>>

(* PeriodicStatusUpdateTimerCallback, of which a failed report is left.     *)
PeriodicReportFails ==
  /\ reporting /\ dataValid /\ Joined
  /\ lastStatus' = "OTHER_ERROR"
  /\ UNCHANGED <<joinVars, data, dataValid, display, button, leaving, screen, history>>

Cut(callback) == [callback EXCEPT !.cut = @ \/ callback.at # "idle"]

(* PerformFactoryReset; the stack accepts the leave request or not.         *)
PerformFactoryReset(accepted) ==
  /\ accepted => inNetwork
  /\ reporting' = FALSE
  /\ data' = [f \in Field |-> Blank] /\ dataValid' = FALSE
  /\ leaving' = (leaving \/ accepted)
  /\ display' = Cut(display) /\ button' = Cut(button)
  /\ cleared' = TRUE
  /\ UNCHANGED <<eJoinStatus, eZbStartupWaitStatus, startupEnded, requested,
                 waitTimer, joinTimer, at, starting, inNetwork, blueLed,
                 lastStatus, screen, message, before>>

(* LeaveConfirmCallback, a task of the stack: the application only logs it. *)
LeaveConfirm(left) ==
  /\ leaving /\ MainRuns /\ display.at = "idle" /\ At("idle")
  /\ leaving' = FALSE
  /\ inNetwork' = (inNetwork /\ ~left)
  /\ UNCHANGED <<eJoinStatus, eZbStartupWaitStatus, startupEnded, requested,
                 waitTimer, joinTimer, at, starting, blueLed, reporting,
                 data, dataValid, lastStatus, display, button, screen, history>>

(* "Stack should attempt rejoin automatically based on startup config."     *)
StackRejoins ==
  /\ At("idle") /\ eJoinStatus = Success /\ ~inNetwork /\ ~leaving
  /\ inNetwork' = TRUE
  /\ UNCHANGED <<eJoinStatus, eZbStartupWaitStatus, startupEnded, requested,
                 waitTimer, joinTimer, at, starting, blueLed, reporting, eslVars>>

Main ==
  \/ Join
  \/ CopyField \/ SetValid \/ Display \/ EndDisplay
  \/ \E left \in BOOLEAN : LeaveConfirm(left)

Button == Send \/ Redraw \/ EndShortPress

Next ==
  \/ Main \/ Button \/ JoinTimers \/ StackRejoins
  \/ ShortPress
  \/ \E m \in Message : ReceiveDisplay(m)
  \/ PeriodicReportFails
  \/ \E accepted \in BOOLEAN : PerformFactoryReset(accepted)

Spec == Init /\ [][Next]_vars

(* The main loop and the button's interrupt go on, the stack rejoins, and   *)
(* the network at some time accepts a device that asks again and again.     *)
FairSpec ==
  /\ Spec
  /\ SF_vars(Main) /\ WF_vars(Button) /\ WF_vars(StackRejoins)
  /\ WF_vars(NwkFormWaitElapsed /\ UNCHANGED eslVars)
  /\ SF_vars(MainRuns /\ StartupAccepted /\ UNCHANGED eslVars)
  /\ SF_vars(MainRuns /\ StartupWaitCallback(Success) /\ UNCHANGED eslVars)

-----------------------------------------------------------------------------
(* Type invariant: the label's data and the callbacks in progress.          *)
Callback(labels) ==
  [at : labels \cup {"idle", "check", "draw", "shown", "done"}, field : Field,
   cut : BOOLEAN]

TypeOK ==
  /\ JoinTypeOK
  /\ data \in [Field -> Message \cup {Blank}] /\ dataValid \in BOOLEAN
  /\ screen \in [Field -> Message \cup {Blank}]
  /\ lastStatus \in {"SUCCESS", "OTHER_ERROR"}
  /\ display \in Callback({"copy", "valid"}) /\ button \in Callback({"send"})
  /\ leaving \in BOOLEAN /\ message \in Message \cup {Blank}
  /\ before \in [Field -> Message \cup {Blank}] /\ cleared \in BOOLEAN

Uniform(fields, m) == \A f \in Field : fields[f] = m

(* The command has copied a field, or is over.                              *)
Copied(f) == display.at = "copy" => f < display.field

(* Valid data that no display command is working on is the last command's,  *)
(* whole, and is what the display shows, whichever presses, redraws and     *)
(* timers interrupted the command.  If a factory reset did, all that the    *)
(* command leaves behind is its last fields, those copied after the reset:  *)
(* nothing of an earlier command.                                           *)
DataIsLastMessage ==
  /\ TypeOK
  /\ display.at = "idle" /\ dataValid /\ ~display.cut
       => Uniform(data, message) /\ Uniform(screen, message)
  /\ display.at = "idle" /\ display.cut
       => /\ \A f \in Field : data[f] \in {message, Blank}
          /\ \A f, g \in Field : f < g /\ data[f] = message => data[g] = message

(* What a callback has shown when its display update is complete.  A        *)
(* display command has shown its own message, and with a factory reset in   *)
(* between still no field of an earlier one.  A short press that comes      *)
(* between two copies does show two messages: the fields copied so far, and *)
(* those that were there before the command.                                *)
ShownIsKnown ==
  /\ display.at = "shown"
       => \A f \in Field : screen[f] = message \/ (display.cut /\ screen[f] = Blank)
  /\ button.at = "shown" /\ ~button.cut
       => \A f \in Field :
            IF display.cut THEN screen[f] \in {message, Blank}
            ELSE screen[f] = IF Copied(f) THEN message ELSE before[f]

(* What is kept, and what is shown, is one message, with no exception but   *)
(* the mixtures that the two parts name.                                    *)
DisplaysAreWhole == DataIsLastMessage /\ ShownIsKnown

(* "Performs factory reset: leaves network, clears data, rejoins."          *)
(* (app_zigbee_endpoint.c, PerformFactoryReset): after a reset, and until   *)
(* the next display command, the label has no valid data.                   *)
ResetClearsData == cleared /\ display.at = "idle" => ~dataValid

=============================================================================
