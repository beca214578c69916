------------------------------ MODULE MCKernel ------------------------------
(***************************************************************************)
(* The utilities everything runs on, which share no state: a behaviour is  *)
(* one of the sequencer, of the timer server, of a list, of a ring, of the *)
(* calendar, of the system time, or of the console's commands.             *)
(***************************************************************************)
EXTENDS Sequencer, MCTimerServer, Containers, SystemTime, SerialCommand

CONSTANTS e1, e2

(* Tasks 0 and 1 wait for an event each, at different priorities; task 2    *)
(* has no callback.                                                         *)
KernelRequests == {<<0, 1>>, <<1, 0>>, <<2, 0>>}
KernelWaits == {<<0, e1>>, <<1, e2>>}

(* Rings that hold three or four elements, of one size or with headers.     *)
MCQueueKind ==
  {[flag |-> f, elementSize |-> 0, max |-> 10] : f \in {"NO_FLAG", "NO_WRAP", "SPLIT"}}
    \cup {[flag |-> f, elementSize |-> n, max |-> 8] : f \in {"NO_FLAG", "NO_WRAP"}, n \in {2, 3}}

VARIABLE part

bufferVars == <<listVars, ringVars, serialVars>>
clockVars == <<timeVars, deltaVars>>

KernelInit ==
  /\ Init /\ TimersInit /\ LST_init_head /\ TimeInit /\ DeltaInit /\ SerialInit
  /\ part \in {"sequencer", "timers", "list", "ring", "calendar", "time", "console"}
  /\ IF part = "ring" THEN RingInit ELSE CircularQueue_Init(CHOOSE k \in QueueKind : TRUE)

KernelRuns ==
  /\ \/ part = "sequencer" /\ Next /\ UNCHANGED timerVars
     \/ part = "timers" /\ TimersNext /\ UNCHANGED vars
  /\ UNCHANGED <<bufferVars, clockVars, part>>

BufferRuns ==
  /\ \/ part = "list" /\ ListNext /\ UNCHANGED <<ringVars, serialVars>>
     \/ part = "ring" /\ RingNext /\ UNCHANGED <<listVars, serialVars>>
     \/ part = "console" /\ SerialNext /\ UNCHANGED <<listVars, ringVars>>
  /\ UNCHANGED <<vars, timerVars, clockVars, part>>

ClockRuns ==
  /\ \/ part = "calendar" /\ NextDay /\ UNCHANGED deltaVars
     \/ part = "time" /\ DeltaNext /\ UNCHANGED timeVars
  /\ UNCHANGED <<vars, timerVars, bufferVars, part>>

kernelVars == <<vars, timerVars, bufferVars, clockVars, part>>

(* The calendar ends with the last day a stamp of 32 bits can tell.         *)
CalendarEnds == part = "calendar" /\ day = LastDay /\ UNCHANGED kernelVars

KernelNext == KernelRuns \/ BufferRuns \/ ClockRuns \/ CalendarEnds

KernelSpec == KernelInit /\ [][KernelNext]_kernelVars

-----------------------------------------------------------------------------
(* A list, a queue and the console's buffer give back what they were given, *)
(* in order, and all of it.                                                 *)
(* The parts that rest are as they are at first.                            *)
ContainersKeepOrder ==
  /\ part = "list" => ListIsItsSequence
  /\ part = "ring" => QueueGivesInOrder
  /\ part = "console" => SerialLinesAreWhole

(* A time is kept, and told as the civil calendar tells it.                 *)
TimeIsRight ==
  /\ part = "time" => SysTimeIsKept
  /\ part = "calendar" => DatesAreCivil
=============================================================================
