----------------------------- MODULE NetworkJoin -----------------------------
(***************************************************************************)
(* Joining the network: the network-form task of app_zigbee.c, the stack's *)
(* startup callback, and the two timers that retry a failed attempt and    *)
(* blink the LED during one.                                               *)
(*                                                                         *)
(* The task runs in the main thread; while it waits for the startup event  *)
(* the sequencer runs the tasks of the stack, and so the callback.  The    *)
(* timer callbacks are interrupts and come between any two steps.  The     *)
(* stack is a binary library: it refuses a startup or accepts it, and      *)
(* answers once per accepted startup.                                      *)
(***************************************************************************)
CONSTANT Failure    (* the status codes other than ZB_STATUS_SUCCESS        *)

Success == "SUCCESS"
Status == {Success} \cup Failure

ASSUME JoinAssumption == Success \notin Failure /\ Failure # {}

VARIABLES
  eJoinStatus,            \* stZigbeeAppInfo.eJoinStatus
  eZbStartupWaitStatus,
  startupEnded,           \* EVENT_ZIGBEE_STARTUP_ENDED is set
  requested,              \* CFG_TASK_ZIGBEE_NETWORK_FORM is set
  waitTimer,              \* stNwkFormWaitTimer is running
  joinTimer,              \* stNwkFormWaitJoinTimer is running
  at,                     \* where the network-form task is
  starting,               \* the stack owes an answer to a startup
  inNetwork,              \* the stack has an extended PAN id
  blueLed,                \* whether the join procedure lit LED_BLUE
  reporting               \* periodicUpdateTimer is running

joinVars == <<eJoinStatus, eZbStartupWaitStatus, startupEnded, requested,
              waitTimer, joinTimer, at, starting, inNetwork, blueLed, reporting>>

At(label) == at = label
Goto(label) == at' = label

-----------------------------------------------------------------------------
(***************************************************************************)
(* Faulty variants, see the module Sequencer.                              *)
(***************************************************************************)

RetryForgotten ==
  /\ At("retry") /\ Goto("idle")
  /\ UNCHANGED <<eJoinStatus, eZbStartupWaitStatus, startupEnded, requested,
                 waitTimer, joinTimer, starting, inNetwork, reporting,
                 blueLed>>

ReturnWithoutWaiting ==
  /\ At("wait") /\ Goto("stop blinking")
  /\ UNCHANGED <<eJoinStatus, eZbStartupWaitStatus, startupEnded, requested,
                 waitTimer, joinTimer, starting, inNetwork, reporting,
                 blueLed>>

ElapsedWithoutTask ==
  /\ waitTimer
  /\ waitTimer' = FALSE /\ joinTimer' = FALSE
  /\ UNCHANGED <<eJoinStatus, eZbStartupWaitStatus, startupEnded, requested,
                 at, starting, inNetwork, reporting, blueLed>>

-----------------------------------------------------------------------------
(* APP_ZIGBEE_StackLayersInit: an error status, and the task requested.     *)
JoinInit ==
  /\ eJoinStatus \in Failure
  /\ eZbStartupWaitStatus = Success
  /\ startupEnded = FALSE /\ requested = TRUE
  /\ waitTimer = FALSE /\ joinTimer = FALSE
  /\ at = "idle" /\ starting = FALSE /\ inNetwork = FALSE /\ reporting = FALSE
  /\ blueLed = FALSE

(* The sequencer starts APP_ZIGBEE_NwkFormOrJoin.                           *)
NwkFormOrJoin ==
  /\ At("idle") /\ requested
  /\ requested' = FALSE
  /\ Goto(IF eJoinStatus # Success THEN "preset" ELSE "configure")
  /\ UNCHANGED <<eJoinStatus, eZbStartupWaitStatus, startupEnded, waitTimer,
                 joinTimer, starting, inNetwork, reporting, blueLed>>

(* ZbStartupWait.                                                           *)
PresetStatus ==
  /\ At("preset") /\ Goto("blink")
  /\ eZbStartupWaitStatus' = Success
  /\ UNCHANGED <<eJoinStatus, startupEnded, requested, waitTimer, joinTimer,
                 starting, inNetwork, reporting, blueLed>>

StartBlinking ==
  /\ At("blink") /\ Goto("startup")
  /\ joinTimer' = TRUE
  /\ UNCHANGED <<eJoinStatus, eZbStartupWaitStatus, startupEnded, requested,
                 waitTimer, starting, inNetwork, reporting, blueLed>>

StartupAccepted ==
  /\ At("startup") /\ Goto("wait")
  /\ starting' = TRUE
  /\ UNCHANGED <<eJoinStatus, eZbStartupWaitStatus, startupEnded, requested,
                 waitTimer, joinTimer, inNetwork, reporting, blueLed>>

StartupRefused(status) ==
  /\ At("startup") /\ Goto("reset")
  /\ eJoinStatus' = status
  /\ UNCHANGED <<eZbStartupWaitStatus, startupEnded, requested, waitTimer,
                 joinTimer, starting, inNetwork, reporting, blueLed>>

WaitEvt ==
  /\ At("wait") /\ startupEnded
  /\ Goto("stop blinking")
  /\ startupEnded' = FALSE
  /\ UNCHANGED <<eJoinStatus, eZbStartupWaitStatus, requested, waitTimer,
                 joinTimer, starting, inNetwork, reporting, blueLed>>

StopBlinking ==
  /\ At("stop blinking") /\ Goto("result")
  /\ joinTimer' = FALSE
  /\ blueLed' = FALSE
  /\ UNCHANGED <<eJoinStatus, eZbStartupWaitStatus, startupEnded, requested,
                 waitTimer, starting, inNetwork, reporting>>

Result ==
  /\ At("result")
  /\ eJoinStatus' = eZbStartupWaitStatus
  /\ IF eJoinStatus' = Success
     THEN Goto("configure") /\ blueLed' = TRUE
     ELSE Goto("reset") /\ UNCHANGED blueLed
  /\ UNCHANGED <<eZbStartupWaitStatus, startupEnded, requested, waitTimer,
                 joinTimer, starting, inNetwork, reporting>>

(* After a failure the stack is reset (ZbReset) and the retry timer started. *)
ResetStack ==
  /\ At("reset") /\ Goto("retry")
  /\ inNetwork' = FALSE
  /\ UNCHANGED <<eJoinStatus, eZbStartupWaitStatus, startupEnded, requested,
                 waitTimer, joinTimer, starting, reporting, blueLed>>

RetryLater ==
  /\ At("retry") /\ Goto("idle")
  /\ waitTimer' = TRUE
  /\ UNCHANGED <<eJoinStatus, eZbStartupWaitStatus, startupEnded, requested,
                 joinTimer, starting, inNetwork, reporting, blueLed>>

(* APP_ZIGBEE_ConfigMeshNetwork and APP_ZIGBEE_ApplicationStart.            *)
Configure ==
  /\ At("configure") /\ Goto("idle")
  /\ reporting' = TRUE
  /\ UNCHANGED <<eJoinStatus, eZbStartupWaitStatus, startupEnded, requested,
                 waitTimer, joinTimer, starting, inNetwork, blueLed>>

(* The stack's answer, ZbStartupWaitCallback.                               *)
StartupWaitCallback(status) ==
  /\ starting /\ At("wait")
  /\ eZbStartupWaitStatus' = status
  /\ startupEnded' = TRUE
  /\ starting' = FALSE
  /\ inNetwork' = (status = Success)
  /\ UNCHANGED <<eJoinStatus, requested, waitTimer, joinTimer, at, reporting,
                 blueLed>>

(* The timer callbacks.  NwkFormWaitJoinElapsed blinks the LED until it     *)
(* finds the device joined, and then stops its own periodic timer.          *)
NwkFormWaitElapsed ==
  /\ waitTimer
  /\ waitTimer' = FALSE /\ joinTimer' = FALSE
  /\ requested' = TRUE
  /\ UNCHANGED <<eJoinStatus, eZbStartupWaitStatus, startupEnded, at, starting,
                 inNetwork, reporting, blueLed>>

NwkFormWaitJoinElapsed ==
  /\ joinTimer
  /\ IF eJoinStatus # Success
     THEN blueLed' = ~blueLed /\ UNCHANGED joinTimer
     ELSE blueLed' = FALSE /\ joinTimer' = FALSE
  /\ UNCHANGED <<eJoinStatus, eZbStartupWaitStatus, startupEnded, requested,
                 waitTimer, at, starting, inNetwork, reporting>>

Task ==
  \/ NwkFormOrJoin \/ PresetStatus \/ StartBlinking
  \/ StartupAccepted \/ (\E s \in Failure : StartupRefused(s))
  \/ WaitEvt \/ StopBlinking \/ Result \/ ResetStack \/ RetryLater \/ Configure

JoinNext ==
  \/ Task
  \/ \E s \in Status : StartupWaitCallback(s)
  \/ NwkFormWaitElapsed
  \/ NwkFormWaitJoinElapsed

JoinSpec == JoinInit /\ [][JoinNext]_joinVars

-----------------------------------------------------------------------------
(* Type invariant: the application's join state and the stack's.            *)
JoinTypeOK ==
  /\ eJoinStatus \in Status /\ eZbStartupWaitStatus \in Status
  /\ startupEnded \in BOOLEAN /\ requested \in BOOLEAN
  /\ waitTimer \in BOOLEAN /\ joinTimer \in BOOLEAN
  /\ at \in {"idle", "preset", "blink", "startup", "wait", "stop blinking",
             "result", "reset", "retry", "configure"}
  /\ starting \in BOOLEAN /\ inNetwork \in BOOLEAN
  /\ blueLed \in BOOLEAN /\ reporting \in BOOLEAN

(* The procedure never gives up: outside the task, a device that has not    *)
(* joined has the task requested or the retry timer running.                *)
KeepsTrying == At("idle") /\ eJoinStatus # Success => requested \/ waitTimer

(* The event and the answer belong to the attempt in progress: an event of  *)
(* an earlier attempt would end the wait at once, with the preset SUCCESS.  *)
EventBelongsToAttempt ==
  /\ startupEnded => At("wait") /\ ~starting
  /\ starting => At("wait") /\ ~startupEnded

(* The task takes the device for joined only when the stack has joined.     *)
JoinedIsConfirmed ==
  [][eJoinStatus # Success /\ eJoinStatus' = Success => inNetwork']_joinVars

(* The LED stops blinking with the procedure, whichever way an attempt      *)
(* ended: a refused startup leaves the blinking to the retry timer.         *)
BlinksOnlyWhileJoining ==
  joinTimer => At("startup") \/ At("wait") \/ At("stop blinking")
               \/ At("reset") \/ At("retry") \/ (At("idle") /\ waitTimer)

(* The procedure implements its promise, fairness included (in EslServer).  *)
Phase ==
  CASE eJoinStatus = Success /\ inNetwork -> "member"
    [] eJoinStatus = Success /\ ~inNetwork -> "away"
    [] eJoinStatus # Success /\ (starting \/ startupEnded
         \/ At("stop blinking") \/ At("result")) -> "trying"
    [] OTHER -> "out"

Membership == INSTANCE NetworkMembership WITH phase <- Phase

MembershipSpec == Membership!FairSpec

=============================================================================
