---------------------------- MODULE SequencerProofs ----------------------------
(***************************************************************************)
(* Proofs about the sequencer, for any number of tasks, priorities, events *)
(* and nested waits.                                                       *)
(***************************************************************************)
EXTENDS Sequencer, Integers, SequenceTheorems, WellFoundedInduction, TLAPS

-----------------------------------------------------------------------------
(* Least and greatest elements, for the bit searches.                       *)

(* A set of natural numbers that is not empty has a least one.              *)
LEMMA HasMinimum ==
  ASSUME NEW S, S \subseteq Nat, S # {}
  PROVE  \E x \in S : \A y \in S : x <= y
<1> DEFINE R == OpToRel(<, Nat)
<1>1. IsWellFoundedOn(R, Nat)
  BY NatLessThanWellFounded
<1> HIDE DEF R
<1>2. PICK x \in S : \A y \in S : ~ (<<y, x>> \in R)
  BY <1>1, WFMin
<1>3. \A y \in S : y < x => <<y, x>> \in R
  BY DEF R, OpToRel
<1>4. \A y \in S : x <= y
  <2> TAKE y \in S
  <2>1. ~(y < x)
    BY <1>2, <1>3
  <2>2. x \in Nat /\ y \in Nat
    OBVIOUS
  <2> QED BY <2>1, <2>2
<1> QED BY <1>4

(* One that is bounded has a greatest one.                                  *)
LEMMA HasMaximum ==
  ASSUME NEW n \in Nat, NEW S, S \subseteq 0 .. n, S # {}
  PROVE  \E x \in S : \A y \in S : y <= x
<1> DEFINE D == {n - x : x \in S}
<1>1. \A x \in S : x \in Nat /\ n - x \in Nat
  OBVIOUS
<1>2. D \subseteq Nat /\ D # {}
  <2>1. D \subseteq Nat
    BY <1>1
  <2>2. D # {}
    OBVIOUS
  <2> QED BY <2>1, <2>2
<1>3. PICK d \in D : \A y \in D : d <= y
  <2> HIDE DEF D
  <2> QED BY <1>2, HasMinimum
<1>4. PICK x \in S : d = n - x
  BY <1>3
<1>5. \A y \in S : y <= x
  BY <1>1, <1>3, <1>4
<1> QED BY <1>5

(* SEQ_BitPosition of a mask that is not empty is one of its bits.          *)
LEMMA BitPositionInMask ==
  ASSUME NEW S \in SUBSET Task, S # {}
  PROVE  BitPosition(S) \in S
<1>1. TaskNbr - 1 \in Nat /\ S \subseteq 0 .. TaskNbr - 1
  BY SequencerAssumption DEF Task
<1>2. \E x \in S : \A y \in S : y <= x
  BY <1>1, HasMaximum
<1> QED BY <1>2 DEF BitPosition

-----------------------------------------------------------------------------
(* The C stack under Replace.                                               *)

(* The stack has a top level.                                               *)
LEMMA TopIsLevel ==
  ASSUME TypeOK
  PROVE  Top \in Level /\ Len(levels) \in Nat /\ Len(levels) >= 1
BY DEF TypeOK, Top

(* Replacing the top level leaves the levels below.                         *)
LEMMA ReplaceTop ==
  ASSUME TypeOK, NEW l \in Level
  PROVE  /\ Replace(l) \in Seq(Level)
         /\ Replace(l) # <<>>
         /\ Len(Replace(l)) = Len(levels)
         /\ Replace(l)[Len(levels)] = l
         /\ \A i \in 1 .. Len(levels) - 1 : Replace(l)[i] = levels[i]
<1>1. levels \in Seq(Level) /\ Len(levels) \in 1 .. Len(levels)
  BY TopIsLevel DEF TypeOK
<1>2. /\ Replace(l) \in Seq(Level)
      /\ Len(Replace(l)) = Len(levels)
      /\ \A j \in 1 .. Len(levels) :
            Replace(l)[j] = IF j = Len(levels) THEN l ELSE levels[j]
  BY <1>1, ExceptSeq DEF Replace
<1> QED BY <1>1, <1>2

(* What a call of UTIL_SEQ_Run pushes is a level.                           *)
LEMMA NewLevelIsLevel ==
  ASSUME NEW mask \in SUBSET Task
  PROVE  NewLevel(mask) \in Level
<1>1. 0 \in Prio
  BY SequencerAssumption DEF Prio
<1> QED BY <1>1 DEF NewLevel, Level, Pc

(* A snapshot of the masks leaves a level a level.                          *)
LEMMA SnapshotIsLevel ==
  ASSUME TypeOK, NEW l \in Level
  PROVE  Snapshot(l) \in Level
BY DEF Snapshot, Level, TypeOK, Pc

-----------------------------------------------------------------------------
(***************************************************************************)
(* The inductive invariant.  A level below the top is a callback in        *)
(* UTIL_SEQ_WaitEvt; a level that holds a callback knows its task; the     *)
(* search leaves a candidate that is pending, allowed and in the           *)
(* round-robin mask, so that SEQ_BitPosition is never applied to zero.     *)
(***************************************************************************)

LevelOK(l) ==
  /\ l.pc \in {"dispatch", "task", "wait"} => l.task \in Task
  /\ l.pc = "wait" => l.current_task_idx = l.task

CallStack ==
  /\ \A i \in 1 .. Len(levels) - 1 : levels[i].pc = "wait"
  /\ \A i \in 1 .. Len(levels) : LevelOK(levels[i])

RunningIsCurrent ==
  At("dispatch") \/ At("task") => CurrentTaskIdx = Top.task

CandidateExists ==
  At("choose") =>
    /\ Top.current_task_set \subseteq priority[Top.counter] \cap SuperMask
    /\ Top.current_task_set \cap round_robin[Top.counter] # {}

IInv ==
  /\ TypeOK
  /\ CallStack
  /\ RunningIsCurrent
  /\ CandidateExists
  /\ ClaimedTaskIsPending
  /\ PrioritiesCoverTaskSet

(* A step of the running level keeps the shape of the stack.                *)
LEMMA StackReplaced ==
  ASSUME TypeOK, CallStack, NEW l \in Level, LevelOK(l), levels' = Replace(l)
  PROVE  /\ levels' \in Seq(Level) /\ levels' # <<>>
         /\ CallStack'
         /\ Top' = l
<1>1. /\ levels' \in Seq(Level) /\ levels' # <<>>
      /\ Len(levels') = Len(levels)
      /\ levels'[Len(levels)] = l
      /\ \A i \in 1 .. Len(levels) - 1 : levels'[i] = levels[i]
  BY ReplaceTop
<1>2. Len(levels) \in Nat /\ Len(levels) >= 1
  BY TopIsLevel
<1>3. Top' = l
  BY <1>1 DEF Top
<1>4. CallStack'
  <2>1. \A i \in 1 .. Len(levels') - 1 : levels'[i].pc = "wait"
    BY <1>1 DEF CallStack
  <2>2. \A i \in 1 .. Len(levels') : LevelOK(levels'[i])
    <3> TAKE i \in 1 .. Len(levels')
    <3>1. CASE i = Len(levels)
      BY <3>1, <1>1
    <3>2. CASE i # Len(levels)
      BY <3>2, <1>1, <1>2 DEF CallStack
    <3> QED BY <3>1, <3>2
  <2> QED BY <2>1, <2>2 DEF CallStack, LevelOK
<1> QED BY <1>1, <1>3, <1>4

(* The invariant holds at first.                                            *)
LEMMA InitIInv == Init => IInv
<1> SUFFICES ASSUME Init PROVE IInv
  OBVIOUS
<1>1. NewLevel(Task) \in Level
  BY NewLevelIsLevel
<1>2. levels \in Seq(Level) /\ Len(levels) = 1 /\ levels[1] = NewLevel(Task)
  BY <1>1 DEF Init
<1>3. NewLevel(Task).pc = "enter"
  BY DEF NewLevel
<1>4. TypeOK
  <2>1. CurrentTaskIdx \in Task
    BY SequencerAssumption DEF Init, Task
  <2> QED BY <1>2, <2>1 DEF TypeOK, Init
<1>5. Top.pc = "enter"
  BY <1>2, <1>3 DEF Top
<1>6. CallStack
  BY <1>2, <1>3 DEF CallStack, LevelOK
<1>7. PrioritiesCoverTaskSet
  BY DEF PrioritiesCoverTaskSet, Init
<1> QED BY <1>4, <1>5, <1>6, <1>7
        DEF IInv, RunningIsCurrent, CandidateExists, ClaimedTaskIsPending, At

(* The steps of the search for a task.                                      *)

(* Entry of UTIL_SEQ_Run.                                                   *)
LEMMA EnterIInv == IInv /\ Enter => IInv'
<1> SUFFICES ASSUME IInv, Enter PROVE IInv'
  OBVIOUS
<1> DEFINE l == [Snapshot(Top) EXCEPT !.super_mask_backup = SuperMask]
<1>1. TypeOK /\ Top \in Level
  BY TopIsLevel DEF IInv
<1>2. l \in Level /\ l.pc = "loop"
  BY <1>1, SnapshotIsLevel DEF Snapshot, Level, TypeOK
<1> HIDE DEF l
<1>3. /\ levels' \in Seq(Level) /\ levels' # <<>> /\ CallStack' /\ Top' = l
  BY <1>1, <1>2, StackReplaced DEF IInv, Enter, LevelOK, l
<1> QED BY <1>1, <1>2, <1>3
        DEF IInv, TypeOK, Enter, RunningIsCurrent, CandidateExists,
            ClaimedTaskIsPending, PrioritiesCoverTaskSet, At

(* The search for the highest priority that has a task to run.              *)
LEMMA SelectPriorityIInv ==
  ASSUME IInv, NEW p \in Prio, SelectPriority(p)
  PROVE  IInv'
<1> DEFINE l == [Top EXCEPT !.pc = "choose", !.counter = p,
                            !.current_task_set = RunnableAt(p)]
<1>1. TypeOK /\ Top \in Level
  BY TopIsLevel DEF IInv
<1>2. RunnableAt(p) \in SUBSET Task /\ RunnableAt(p) \subseteq priority[p] \cap SuperMask
  BY <1>1 DEF RunnableAt, TypeOK
<1>3. /\ l \in Level
      /\ l.pc = "choose" /\ l.counter = p /\ l.current_task_set = RunnableAt(p)
  BY <1>1, <1>2 DEF Level, Pc
<1> HIDE DEF l
<1>4. /\ levels' \in Seq(Level) /\ levels' # <<>> /\ CallStack' /\ Top' = l
  BY <1>1, <1>3, StackReplaced DEF IInv, SelectPriority, LevelOK, l
<1>5. round_robin' \in [Prio -> SUBSET Task]
  BY <1>1 DEF SelectPriority, TypeOK
<1>6. RunnableAt(p) \cap round_robin'[p] # {}
  BY <1>1, <1>2 DEF SelectPriority, TypeOK
<1>7. TypeOK'
  BY <1>1, <1>4, <1>5 DEF TypeOK, SelectPriority
<1>8. CandidateExists'
  BY <1>2, <1>3, <1>4, <1>6 DEF CandidateExists, SelectPriority, At
<1> QED BY <1>3, <1>4, <1>7, <1>8
        DEF IInv, SelectPriority, RunningIsCurrent, ClaimedTaskIsPending,
            PrioritiesCoverTaskSet, At

(* SEQ_BitPosition is applied to a candidate mask: the chosen task is       *)
(* pending.                                                                 *)
LEMMA ChooseTaskIInv == IInv /\ ChooseTask => IInv'
<1> SUFFICES ASSUME IInv, ChooseTask PROVE IInv'
  OBVIOUS
<1> DEFINE l == [Top EXCEPT !.pc = "claim", !.counter = 0, !.current_task_set = {}]
           p == Top.counter
           mask == Preferred(p) \cap round_robin[p]
<1>1. TypeOK /\ Top \in Level
  BY TopIsLevel DEF IInv
<1>2. p \in Prio /\ Top.current_task_set \in SUBSET Task
  BY <1>1 DEF Level
<1>3. l \in Level /\ l.pc = "claim"
  <2>1. 0 \in Prio
    BY SequencerAssumption DEF Prio
  <2> QED BY <1>1, <2>1 DEF Level, Pc
<1>4. /\ Top.current_task_set \subseteq priority[p] \cap SuperMask
      /\ Top.current_task_set \cap round_robin[p] # {}
  BY DEF IInv, CandidateExists, ChooseTask
<1>5. Preferred(p) \subseteq Top.current_task_set
  BY DEF Preferred
<1>6. mask # {}
  BY <1>1, <1>2, <1>4 DEF Preferred, Starving, ClearedOrServed, TypeOK
<1>7. CurrentTaskIdx' \in Top.current_task_set
  BY <1>2, <1>5, <1>6, BitPositionInMask DEF ChooseTask
<1>8. CurrentTaskIdx' \in TaskSet \cap SuperMask /\ CurrentTaskIdx' \in Task
  BY <1>2, <1>4, <1>7 DEF IInv, PrioritiesCoverTaskSet
<1> HIDE DEF l, mask
<1>9. /\ levels' \in Seq(Level) /\ levels' # <<>> /\ CallStack' /\ Top' = l
  BY <1>1, <1>3, StackReplaced DEF IInv, ChooseTask, LevelOK, l
<1>10. TaskClearList' \in SUBSET Task
  BY <1>1, <1>2 DEF ChooseTask, Starving, ClearedOrServed, TypeOK
<1>11. TypeOK'
  BY <1>1, <1>8, <1>9, <1>10 DEF TypeOK, ChooseTask
<1> QED BY <1>3, <1>8, <1>9, <1>11
        DEF IInv, ChooseTask, RunningIsCurrent, CandidateExists,
            ClaimedTaskIsPending, PrioritiesCoverTaskSet, At

(* The claim of the task, a critical section.                               *)
LEMMA ClaimIInv == IInv /\ Claim => IInv'
<1> SUFFICES ASSUME IInv, Claim PROVE IInv'
  OBVIOUS
<1> DEFINE l == [Top EXCEPT !.pc = "dispatch", !.task = CurrentTaskIdx]
<1>1. TypeOK /\ Top \in Level
  BY TopIsLevel DEF IInv
<1>2. CurrentTaskIdx \in Task
  BY <1>1 DEF IInv, ClaimedTaskIsPending, Claim, TypeOK
<1>3. l \in Level /\ l.pc = "dispatch" /\ l.task = CurrentTaskIdx
  BY <1>1, <1>2 DEF Level, Pc
<1> HIDE DEF l
<1>4. /\ levels' \in Seq(Level) /\ levels' # <<>> /\ CallStack' /\ Top' = l
  BY <1>1, <1>2, <1>3, StackReplaced DEF IInv, Claim, LevelOK, l
<1>5. TypeOK'
  BY <1>1, <1>4 DEF TypeOK, Claim
<1>6. PrioritiesCoverTaskSet'
  BY DEF IInv, PrioritiesCoverTaskSet, Claim
<1> QED BY <1>3, <1>4, <1>5, <1>6
        DEF IInv, Claim, RunningIsCurrent, CandidateExists,
            ClaimedTaskIsPending, At

(* The call of the task's callback.                                         *)
LEMMA DispatchIInv == IInv /\ Dispatch => IInv'
<1> SUFFICES ASSUME IInv, Dispatch PROVE IInv'
  OBVIOUS
<1> DEFINE l == [NewLevel(Top.Mask_bm) EXCEPT
                   !.pc = "task", !.super_mask_backup = Top.super_mask_backup,
                   !.task = Top.task, !.saved_rr = round_robin']
<1>1. TypeOK /\ Top \in Level
  BY TopIsLevel DEF IInv
<1>2. round_robin' \in [Prio -> SUBSET Task]
  BY <1>1 DEF TypeOK, Dispatch
<1>3. NewLevel(Top.Mask_bm) \in Level
  BY <1>1, NewLevelIsLevel DEF Level
<1>4. LevelOK(Top)
  BY <1>1, TopIsLevel DEF IInv, CallStack, Top
<1>5. l \in Level /\ l.pc = "task" /\ l.task = Top.task
  BY <1>1, <1>2, <1>3 DEF Level, Pc
<1> HIDE DEF l
<1>6. LevelOK(l)
  BY <1>4, <1>5 DEF LevelOK, Dispatch, At
<1>7. /\ levels' \in Seq(Level) /\ levels' # <<>> /\ CallStack' /\ Top' = l
  BY <1>1, <1>5, <1>6, StackReplaced DEF IInv, Dispatch, l
<1> QED BY <1>1, <1>2, <1>5, <1>7
        DEF IInv, TypeOK, Dispatch, RunningIsCurrent, CandidateExists,
            ClaimedTaskIsPending, PrioritiesCoverTaskSet, At

(* Its return, and the snapshots for the next turn.                         *)
LEMMA TaskReturnIInv ==
  ASSUME IInv, NEW t \in Task, TaskReturn(t)
  PROVE  IInv'
<1> DEFINE l == [Snapshot(Top) EXCEPT
                   !.task = NoTaskRunning, !.saved_rr = [p \in Prio |-> {}]]
<1>1. TypeOK /\ Top \in Level
  BY TopIsLevel DEF IInv
<1>2. CurrentTaskIdx \in Task
  BY DEF IInv, RunningIsCurrent, TaskReturn
<1>3. l \in Level /\ l.pc = "loop"
  BY <1>1, SnapshotIsLevel DEF Snapshot, Level
<1> HIDE DEF l
<1>4. /\ levels' \in Seq(Level) /\ levels' # <<>> /\ CallStack' /\ Top' = l
  BY <1>1, <1>3, StackReplaced DEF IInv, TaskReturn, LevelOK, l
<1>5. round_robin' \in [Prio -> SUBSET Task]
  BY <1>1 DEF TypeOK, TaskReturn
<1> QED BY <1>1, <1>2, <1>3, <1>4, <1>5
        DEF IInv, TypeOK, TaskReturn, RunningIsCurrent, CandidateExists,
            ClaimedTaskIsPending, PrioritiesCoverTaskSet, At

(* The steps that only move the program counter of the top level.           *)
LEMMA GotoIInv ==
  ASSUME IInv, NEW l \in Level, l.pc \in {"loop", "overrun", "preidle", "idle", "leave"},
         levels' = Replace(l),
         CurrentTaskIdx' \in Task \cup {NoTaskRunning},
         UNCHANGED <<TaskSet, TaskMask, SuperMask, EvtSet, EvtWaited,
                     priority, round_robin, TaskClearList>>
  PROVE  IInv'
<1>1. TypeOK
  BY DEF IInv
<1>2. /\ levels' \in Seq(Level) /\ levels' # <<>> /\ CallStack' /\ Top' = l
  BY <1>1, StackReplaced DEF IInv, LevelOK
<1> QED BY <1>1, <1>2
        DEF IInv, TypeOK, RunningIsCurrent, CandidateExists,
            ClaimedTaskIsPending, PrioritiesCoverTaskSet, At

(* The search runs past the lowest priority.                                *)
LEMMA OverrunIInv == IInv /\ Overrun => IInv'
<1> SUFFICES ASSUME IInv, Overrun PROVE IInv'
  OBVIOUS
<1> DEFINE l == [Top EXCEPT !.pc = "overrun"]
<1>1. TypeOK /\ Top \in Level
  BY TopIsLevel DEF IInv
<1>2. l \in Level /\ l.pc = "overrun"
  BY <1>1 DEF Level, Pc
<1> HIDE DEF l
<1> QED BY <1>1, <1>2, GotoIInv DEF Overrun, Goto, TypeOK, l

(* The catch of a task without a callback.                                  *)
LEMMA CatchWarningIInv == IInv /\ CatchWarning => IInv'
<1> SUFFICES ASSUME IInv, CatchWarning PROVE IInv'
  OBVIOUS
<1> DEFINE l == [Top EXCEPT !.pc = "loop", !.task = NoTaskRunning]
<1>1. TypeOK /\ Top \in Level
  BY TopIsLevel DEF IInv
<1>2. l \in Level /\ l.pc = "loop"
  BY <1>1 DEF Level, Pc
<1> HIDE DEF l
<1> QED BY <1>1, <1>2, GotoIInv DEF CatchWarning, TypeOK, l

(* The end of the loop.                                                     *)
LEMMA ExitLoopIInv == IInv /\ ExitLoop => IInv'
<1> SUFFICES ASSUME IInv, ExitLoop PROVE IInv'
  OBVIOUS
<1> DEFINE target == IF Top.local_evtset \cap EvtWaited = {}
                     THEN "preidle" ELSE "leave"
           l == [Top EXCEPT !.pc = target,
                            !.local_taskset = {}, !.local_evtset = {},
                            !.local_taskmask = {}, !.local_evtwaited = {}]
<1>1. TypeOK /\ Top \in Level
  BY TopIsLevel DEF IInv
<1>2. l \in Level /\ l.pc \in {"preidle", "leave"}
  BY <1>1 DEF Level, Pc
<1>3. levels' = Replace(l)
  BY DEF ExitLoop
<1> HIDE DEF l
<1> QED BY <1>2, <1>3, GotoIInv DEF ExitLoop

(* The test for work before the processor idles.                            *)
LEMMA IdleCheckIInv == IInv /\ IdleCheck => IInv'
<1> SUFFICES ASSUME IInv, IdleCheck PROVE IInv'
  OBVIOUS
<1> DEFINE l == [Top EXCEPT !.pc = IF NothingToDo THEN "idle" ELSE "leave"]
<1>1. TypeOK /\ Top \in Level
  BY TopIsLevel DEF IInv
<1>2. l \in Level /\ l.pc \in {"idle", "leave"}
  BY <1>1 DEF Level, Pc
<1>3. levels' = Replace(l)
  BY DEF IdleCheck, Goto
<1> HIDE DEF l
<1> QED BY <1>1, <1>2, <1>3, GotoIInv DEF IdleCheck, TypeOK

(* The end of the idle function.                                            *)
LEMMA WakeUpIInv == IInv /\ WakeUp => IInv'
<1> SUFFICES ASSUME IInv, WakeUp PROVE IInv'
  OBVIOUS
<1> DEFINE l == [Top EXCEPT !.pc = "leave"]
<1>1. TypeOK /\ Top \in Level
  BY TopIsLevel DEF IInv
<1>2. l \in Level /\ l.pc = "leave"
  BY <1>1 DEF Level, Pc
<1>3. levels' = Replace(l)
  BY DEF WakeUp, Goto
<1> HIDE DEF l
<1> QED BY <1>1, <1>2, <1>3, GotoIInv DEF WakeUp, TypeOK

(* UTIL_SEQ_Run returns: the level below, if any, is a waiting callback.    *)
LEMMA LeaveIInv == IInv /\ Leave => IInv'
<1> SUFFICES ASSUME IInv, Leave PROVE IInv'
  OBVIOUS
<1>1. TypeOK /\ Top \in Level /\ Len(levels) \in Nat /\ Len(levels) >= 1
  BY TopIsLevel DEF IInv
<1>2. NewLevel(Task) \in Level /\ NewLevel(Task).pc = "enter"
  BY NewLevelIsLevel DEF NewLevel
<1>3. /\ levels' \in Seq(Level) /\ levels' # <<>>
      /\ CallStack'
      /\ Top'.pc \in {"enter", "wait"}
  <2>1. CASE Len(levels) = 1
    <3>1. levels' = <<NewLevel(Task)>>
      BY <2>1 DEF Leave
    <3>2. /\ levels' \in Seq(Level) /\ Len(levels') = 1
          /\ levels'[1] = NewLevel(Task)
      BY <1>2, <3>1
    <3> QED BY <1>2, <3>2 DEF CallStack, LevelOK, Top
  <2>2. CASE Len(levels) # 1
    <3>1. levels' = SubSeq(levels, 1, Len(levels) - 1)
      BY <2>2, Zenon DEF Leave
    <3>2. Len(levels) - 1 \in 1 .. Len(levels) - 1
      <4> DEFINE n == Len(levels)
      <4>1. n \in Nat /\ n >= 1 /\ n # 1
        BY <1>1, <2>2
      <4> HIDE DEF n
      <4>2. n - 1 \in 1 .. n - 1
        BY <4>1
      <4> QED BY <4>2 DEF n
    <3>3. /\ levels' \in Seq(Level) /\ Len(levels') = Len(levels) - 1
          /\ \A i \in 1 .. Len(levels) - 1 : levels'[i] = levels[i]
      BY <1>1, <3>1, <3>2 DEF TypeOK
    <3>4. CallStack'
      BY <1>1, <3>3 DEF IInv, CallStack, LevelOK
    <3>5. levels'[Len(levels')] = levels[Len(levels) - 1]
      BY <3>2, <3>3
    <3>6. levels[Len(levels) - 1].pc = "wait"
      BY <3>2 DEF IInv, CallStack
    <3> QED BY <3>2, <3>3, <3>4, <3>5, <3>6 DEF Top
  <2> QED BY <2>1, <2>2
<1>4. TypeOK'
  BY <1>1, <1>3 DEF TypeOK, Leave, Level
<1> QED BY <1>3, <1>4
        DEF IInv, Leave, RunningIsCurrent, CandidateExists,
            ClaimedTaskIsPending, PrioritiesCoverTaskSet, At

(* UTIL_SEQ_WaitEvt.                                                        *)

(* Entry of UTIL_SEQ_WaitEvt.                                               *)
LEMMA WaitEvtIInv ==
  ASSUME IInv, NEW e \in Event, WaitEvt(e)
  PROVE  IInv'
<1> DEFINE l == [Top EXCEPT !.pc = "wait", !.evt = e,
                            !.waited_backup = EvtWaited,
                            !.current_task_idx = CurrentTaskIdx]
<1>1. TypeOK /\ Top \in Level
  BY TopIsLevel DEF IInv
<1>2. LevelOK(Top) /\ CurrentTaskIdx = Top.task
  BY <1>1, TopIsLevel DEF IInv, CallStack, RunningIsCurrent, WaitEvt, Top
<1>3. /\ l \in Level
      /\ l.pc = "wait" /\ l.task = Top.task /\ l.current_task_idx = Top.task
  BY <1>1, <1>2 DEF Level, Pc, TypeOK
<1> HIDE DEF l
<1>4. LevelOK(l)
  BY <1>2, <1>3 DEF LevelOK, WaitEvt, At
<1>5. /\ levels' \in Seq(Level) /\ levels' # <<>> /\ CallStack' /\ Top' = l
  BY <1>1, <1>3, <1>4, StackReplaced DEF IInv, WaitEvt, l
<1> QED BY <1>1, <1>3, <1>5
        DEF IInv, TypeOK, WaitEvt, RunningIsCurrent, CandidateExists,
            ClaimedTaskIsPending, PrioritiesCoverTaskSet, At

(* A nested run while the event is missing.                                 *)
LEMMA EvtIdleIInv == IInv /\ EvtIdle => IInv'
<1> SUFFICES ASSUME IInv, EvtIdle PROVE IInv'
  OBVIOUS
<1> DEFINE l == NewLevel(Task \ {Top.current_task_idx})
<1>1. TypeOK /\ Len(levels) \in Nat /\ Len(levels) >= 1
  BY TopIsLevel DEF IInv
<1>2. l \in Level /\ l.pc = "enter"
  BY NewLevelIsLevel DEF NewLevel
<1> HIDE DEF l
<1>3. levels' = Append(levels, l)
  BY DEF EvtIdle, l
<1>4. /\ levels' \in Seq(Level) /\ levels' # <<>>
      /\ Len(levels') = Len(levels) + 1
      /\ levels'[Len(levels) + 1] = l
      /\ \A i \in 1 .. Len(levels) : levels'[i] = levels[i]
  BY <1>1, <1>2, <1>3, AppendProperties DEF TypeOK
<1>5. Top' = l
  BY <1>4 DEF Top
<1>6. CallStack'
  <2>1. \A i \in 1 .. Len(levels) : levels[i].pc = "wait"
    BY <1>1 DEF IInv, CallStack, EvtIdle, At, Top
  <2>2. \A i \in 1 .. Len(levels') - 1 : levels'[i].pc = "wait"
    BY <1>1, <1>4, <2>1
  <2>3. \A i \in 1 .. Len(levels') : LevelOK(levels'[i])
    <3> TAKE i \in 1 .. Len(levels')
    <3>1. CASE i = Len(levels) + 1
      BY <1>2, <1>4, <3>1 DEF LevelOK
    <3>2. CASE i # Len(levels) + 1
      BY <1>1, <1>4, <3>2 DEF IInv, CallStack
    <3> QED BY <3>1, <3>2
  <2> QED BY <2>2, <2>3 DEF CallStack, LevelOK
<1> QED BY <1>1, <1>2, <1>4, <1>5, <1>6
        DEF IInv, TypeOK, EvtIdle, RunningIsCurrent, CandidateExists,
            ClaimedTaskIsPending, PrioritiesCoverTaskSet, At

(* The event has come, and the callback goes on.                            *)
LEMMA WaitEvtReturnIInv == IInv /\ WaitEvtReturn => IInv'
<1> SUFFICES ASSUME IInv, WaitEvtReturn PROVE IInv'
  OBVIOUS
<1> DEFINE l == [Top EXCEPT !.pc = "task", !.evt = NoEvent,
                            !.waited_backup = {},
                            !.current_task_idx = NoTaskRunning]
<1>1. TypeOK /\ Top \in Level
  BY TopIsLevel DEF IInv
<1>2. LevelOK(Top) /\ At("wait")
  BY <1>1, TopIsLevel DEF IInv, CallStack, WaitEvtReturn, Top
<1>3. Top.task \in Task /\ Top.current_task_idx = Top.task
  BY <1>2 DEF LevelOK, At
<1>4. l \in Level /\ l.pc = "task" /\ l.task = Top.task
  BY <1>1 DEF Level, Pc
<1> HIDE DEF l
<1>5. /\ levels' \in Seq(Level) /\ levels' # <<>> /\ CallStack' /\ Top' = l
  BY <1>1, <1>3, <1>4, StackReplaced DEF IInv, WaitEvtReturn, LevelOK, l
<1>6. CurrentTaskIdx' = Top.task
  BY <1>3 DEF WaitEvtReturn
<1>7. TypeOK'
  <2>1. EvtWaited' \in SUBSET Event
    BY <1>1 DEF WaitEvtReturn, Level
  <2> QED BY <1>1, <1>3, <1>5, <1>6, <2>1 DEF TypeOK, WaitEvtReturn
<1> QED BY <1>4, <1>5, <1>6, <1>7
        DEF IInv, WaitEvtReturn, RunningIsCurrent, CandidateExists,
            ClaimedTaskIsPending, PrioritiesCoverTaskSet, At

(* The calls of interrupts do not touch the C stack; a task is only ever    *)
(* added to the pending ones.                                               *)
LEMMA CallIInv == IInv /\ Call => IInv'
<1> SUFFICES ASSUME IInv, Call PROVE IInv'
  OBVIOUS
<1>0. TypeOK /\ Top \in Level
  BY TopIsLevel DEF IInv
<1>1. ASSUME NEW r \in Requests, SetTask(r[1], r[2]) PROVE IInv'
  <2>1. r[1] \in Task /\ r[2] \in Prio
    BY SequencerAssumption
  <2>2. TypeOK'
    BY <1>0, <1>1, <2>1 DEF TypeOK, SetTask
  <2>3. PrioritiesCoverTaskSet'
    BY <1>0, <1>1, <2>1 DEF IInv, TypeOK, PrioritiesCoverTaskSet, SetTask
  <2>4. \A p \in Prio : priority[p] \subseteq priority'[p]
    BY <1>0, <1>1, <2>1 DEF TypeOK, SetTask
  <2>5. CandidateExists'
    BY <1>0, <1>1, <2>4 DEF IInv, CandidateExists, SetTask, At, Top, Level
  <2> QED BY <1>1, <2>2, <2>3, <2>5
          DEF IInv, SetTask, CallStack, LevelOK, RunningIsCurrent,
              ClaimedTaskIsPending, At, Top
<1>2. ASSUME NEW e \in Event, SetEvt(e) \/ ClrEvt(e) PROVE IInv'
  BY <1>0, <1>2
     DEF IInv, TypeOK, SetEvt, ClrEvt, CallStack, LevelOK, RunningIsCurrent,
         CandidateExists, ClaimedTaskIsPending, PrioritiesCoverTaskSet, At, Top
<1>3. ASSUME NEW t \in Task, PauseTask(t) \/ ResumeTask(t) PROVE IInv'
  BY <1>0, <1>3
     DEF IInv, TypeOK, PauseTask, ResumeTask, CallStack, LevelOK, RunningIsCurrent,
         CandidateExists, ClaimedTaskIsPending, PrioritiesCoverTaskSet, At, Top
<1> QED BY <1>1, <1>2, <1>3, SequencerAssumption DEF Call

(* Every step keeps the invariant.                                          *)
LEMMA NextIInv == IInv /\ [Next]_vars => IInv'
<1> SUFFICES ASSUME IInv, [Next]_vars PROVE IInv'
  OBVIOUS
<1>1. CASE RunStep
  BY <1>1, EnterIInv, SelectPriorityIInv, OverrunIInv, ChooseTaskIInv, ClaimIInv,
     DispatchIInv, CatchWarningIInv, ExitLoopIInv, IdleCheckIInv, WakeUpIInv,
     LeaveIInv DEF RunStep
<1>2. ASSUME NEW t \in Task, TaskReturn(t) PROVE IInv'
  BY <1>2, TaskReturnIInv
<1>3. ASSUME NEW e \in Event, WaitEvt(e) PROVE IInv'
  BY <1>3, WaitEvtIInv
<1>4. CASE WaitStep
  BY <1>4, EvtIdleIInv, WaitEvtReturnIInv DEF WaitStep
<1>5. CASE Call
  BY <1>5, CallIInv
<1>6. CASE UNCHANGED vars
  BY <1>6 DEF vars, IInv, TypeOK, CallStack, LevelOK, RunningIsCurrent,
     CandidateExists, ClaimedTaskIsPending, PrioritiesCoverTaskSet, At, Top
<1> QED BY <1>1, <1>2, <1>3, <1>4, <1>5, <1>6 DEF Next

(* Every reachable state satisfies the invariant.                           *)
THEOREM InductiveInvariant == Spec => []IInv
BY InitIInv, NextIInv, PTL DEF Spec

(* Every variable, and every local on the C stack, keeps its type.          *)
THEOREM TypeCorrect == Spec => []TypeOK
<1>1. IInv => TypeOK
  BY DEF IInv
<1> QED BY <1>1, InductiveInvariant, PTL

(* UTIL_SEQ_Run tests TaskSet and searches the priority masks: they agree.  *)
THEOREM PrioritiesAgree == Spec => []PrioritiesCoverTaskSet
<1>1. IInv => PrioritiesCoverTaskSet
  BY DEF IInv
<1> QED BY <1>1, InductiveInvariant, PTL

(* The task that UTIL_SEQ_Run claims is pending and allowed.                *)
THEOREM ClaimsPendingTask == Spec => []ClaimedTaskIsPending
<1>1. IInv => ClaimedTaskIsPending
  BY DEF IInv
<1> QED BY <1>1, InductiveInvariant, PTL


-----------------------------------------------------------------------------
(***************************************************************************)
(* Proofs about nested runs of the sequencer, for any number of tasks,     *)
(* priorities, events and nested waits: what a nested run changes is       *)
(* restored, the search ends, and nothing is slept over.                   *)
(***************************************************************************)

-----------------------------------------------------------------------------
(***************************************************************************)
(* The saved values, level by level.  A run saves the mask it found, which *)
(* excludes the callbacks below the one that started it; a wait saves the  *)
(* event the next callback below waits for.                                *)
(***************************************************************************)

Outer(n) == {levels[i].task : i \in 1 .. n}
WaitedBelow(n) == IF n = 1 THEN {} ELSE {levels[n - 1].evt}
MaskOfRun(n) == IF n = 1 THEN Task ELSE Task \ {levels[n - 1].task}

MaskSaved(n) ==
  levels[n].pc # "enter" => levels[n].super_mask_backup = Task \ Outer(n - 2)

EvtSaved(n) ==
  levels[n].pc = "wait" => levels[n].waited_backup = WaitedBelow(n)

Nesting ==
  /\ \A n \in 1 .. Len(levels) : MaskSaved(n) /\ EvtSaved(n)
  /\ At("enter") => Top.Mask_bm = MaskOfRun(Len(levels))
  /\ SuperMask = Task \ Outer(IF At("enter") THEN Len(levels) - 2 ELSE Len(levels) - 1)
  /\ EvtWaited = IF At("wait") THEN {Top.evt} ELSE WaitedBelow(Len(levels))

(* Replacing the top level leaves what lower levels have saved.             *)
LEMMA StackKept ==
  ASSUME TypeOK, NEW l \in Level, levels' = Replace(l)
  PROVE  /\ Len(levels') = Len(levels) /\ Top' = l
         /\ levels'[Len(levels)] = l
         /\ \A i \in 1 .. Len(levels) - 1 : levels'[i] = levels[i]
         /\ \A n \in 1 .. Len(levels) : WaitedBelow(n)' = WaitedBelow(n)
         /\ MaskOfRun(Len(levels))' = MaskOfRun(Len(levels))
         /\ \A n \in Int : n < Len(levels) => Outer(n)' = Outer(n)
<1>1. Len(levels) \in Nat /\ Len(levels) >= 1
  BY TopIsLevel
<1>2. /\ Len(levels') = Len(levels) /\ levels'[Len(levels)] = l
      /\ \A i \in 1 .. Len(levels) - 1 : levels'[i] = levels[i]
  BY ReplaceTop
<1>3. Top' = l
  BY <1>2 DEF Top
<1>4. \A n \in 1 .. Len(levels) : n # 1 => levels'[n - 1] = levels[n - 1]
  <2> TAKE n \in 1 .. Len(levels)
  <2> HAVE n # 1
  <2>1. n - 1 \in 1 .. Len(levels) - 1
    BY <1>1
  <2> QED BY <1>2, <2>1
<1>5. /\ \A n \in 1 .. Len(levels) : WaitedBelow(n)' = WaitedBelow(n)
      /\ MaskOfRun(Len(levels))' = MaskOfRun(Len(levels))
  <2>1. \A n \in 1 .. Len(levels) : WaitedBelow(n)' = WaitedBelow(n)
    <3> TAKE n \in 1 .. Len(levels)
    <3> QED BY <1>4 DEF WaitedBelow
  <2>2. Len(levels) \in 1 .. Len(levels)
    BY <1>1
  <2> QED BY <1>2, <1>4, <2>1, <2>2 DEF MaskOfRun
<1>6. ASSUME NEW n \in Int, n < Len(levels) PROVE Outer(n)' = Outer(n)
  <2>1. \A i \in 1 .. n : i \in 1 .. Len(levels) - 1
    BY <1>1, <1>6
  <2> QED BY <1>2, <2>1 DEF Outer
<1> QED BY <1>2, <1>3, <1>5, <1>6

(* The steps inside a run that neither enter it, nor wait.                  *)
LEMMA InsideNesting ==
  ASSUME IInv, Nesting, NEW l \in Level, levels' = Replace(l),
         Top.pc \notin {"enter", "wait"}, l.pc \notin {"enter", "wait"},
         l.super_mask_backup = Top.super_mask_backup,
         UNCHANGED <<SuperMask, EvtWaited>>
  PROVE  Nesting'
<1>1. TypeOK /\ Len(levels) \in Nat /\ Len(levels) >= 1
  BY TopIsLevel DEF IInv
<1>2. /\ Len(levels') = Len(levels) /\ Top' = l /\ levels'[Len(levels)] = l
      /\ \A i \in 1 .. Len(levels) - 1 : levels'[i] = levels[i]
      /\ \A n \in 1 .. Len(levels) : WaitedBelow(n)' = WaitedBelow(n)
      /\ \A n \in Int : n < Len(levels) => Outer(n)' = Outer(n)
  BY <1>1, StackKept
<1>3. ASSUME NEW n \in 1 .. Len(levels')
      PROVE  MaskSaved(n)' /\ EvtSaved(n)'
  <2>1. n \in 1 .. Len(levels) /\ n - 2 \in Int /\ n - 2 < Len(levels)
    BY <1>1, <1>2
  <2>2. Outer(n - 2)' = Outer(n - 2) /\ WaitedBelow(n)' = WaitedBelow(n)
    BY <1>2, <2>1
  <2>3. MaskSaved(n) /\ EvtSaved(n)
    BY <2>1 DEF Nesting
  <2>4. CASE n = Len(levels)
    BY <1>2, <2>2, <2>3, <2>4 DEF MaskSaved, EvtSaved, Top
  <2>5. CASE n # Len(levels)
    <3>1. n \in 1 .. Len(levels) - 1
      BY <1>1, <2>1, <2>5
    <3> QED BY <1>2, <2>2, <2>3, <3>1 DEF MaskSaved, EvtSaved
  <2> QED BY <2>4, <2>5
<1>4. SuperMask = Task \ Outer(Len(levels) - 1) /\ EvtWaited = WaitedBelow(Len(levels))
  BY DEF Nesting, At
<1>5. SuperMask' = Task \ Outer(Len(levels) - 1)'
  <2>1. \A i \in 1 .. Len(levels) - 1 : levels'[i].task = levels[i].task
    BY <1>2
  <2> QED BY <1>2, <1>4, <2>1 DEF Outer
<1>6. EvtWaited' = WaitedBelow(Len(levels))'
  <2>1. Len(levels) \in 1 .. Len(levels)
    BY <1>1
  <2>2. Len(levels) # 1 => levels'[Len(levels) - 1] = levels[Len(levels) - 1]
    <3> HAVE Len(levels) # 1
    <3> QED BY <1>1, <1>2
  <2> QED BY <1>2, <1>4, <2>1, <2>2 DEF WaitedBelow
<1> QED BY <1>2, <1>3, <1>5, <1>6 DEF Nesting, At

(* At first nothing is nested.                                              *)
LEMMA InitNesting == Init => Nesting
<1> SUFFICES ASSUME Init PROVE Nesting
  OBVIOUS
<1>1. NewLevel(Task) \in Level
  BY NewLevelIsLevel
<1>2. Len(levels) = 1 /\ levels[1] = NewLevel(Task) /\ Top = NewLevel(Task)
  BY <1>1 DEF Init, Top
<1>3. Outer(-1) = {} /\ Outer(1 - 2) = {}
  BY DEF Outer
<1> QED BY <1>2, <1>3
        DEF Nesting, MaskSaved, EvtSaved, At, NewLevel, MaskOfRun, WaitedBelow, Init

(* The steps of a run change nothing of what the levels saved.              *)
LEMMA RunStepNesting ==
  ASSUME IInv, Nesting,
         \/ \E p \in Prio : SelectPriority(p)
         \/ Overrun \/ ChooseTask \/ Claim \/ Dispatch \/ CatchWarning
         \/ ExitLoop \/ IdleCheck \/ WakeUp
         \/ \E t \in Task : TaskReturn(t)
  PROVE  Nesting'
<1>0. TypeOK /\ Top \in Level
  BY TopIsLevel DEF IInv
<1>1. ASSUME NEW p \in Prio, SelectPriority(p) PROVE Nesting'
  <2> DEFINE l == [Top EXCEPT !.pc = "choose", !.counter = p,
                              !.current_task_set = RunnableAt(p)]
  <2>1. l \in Level /\ l.pc = "choose" /\ l.super_mask_backup = Top.super_mask_backup
    BY <1>0 DEF Level, Pc, RunnableAt, TypeOK
  <2>2. levels' = Replace(l) /\ UNCHANGED <<SuperMask, EvtWaited>> /\ Top.pc = "loop"
    BY <1>1 DEF SelectPriority, At
  <2> HIDE DEF l
  <2> QED BY <2>1, <2>2, InsideNesting
<1>2. CASE Overrun
  <2> DEFINE l == [Top EXCEPT !.pc = "overrun"]
  <2>1. l \in Level /\ l.pc = "overrun" /\ l.super_mask_backup = Top.super_mask_backup
    BY <1>0 DEF Level, Pc
  <2>2. levels' = Replace(l) /\ UNCHANGED <<SuperMask, EvtWaited>> /\ Top.pc = "loop"
    BY <1>2 DEF Overrun, At, Goto
  <2> HIDE DEF l
  <2> QED BY <2>1, <2>2, InsideNesting
<1>3. CASE ChooseTask
  <2> DEFINE l == [Top EXCEPT !.pc = "claim", !.counter = 0, !.current_task_set = {}]
  <2>1. 0 \in Prio
    BY SequencerAssumption DEF Prio
  <2>2. l \in Level /\ l.pc = "claim" /\ l.super_mask_backup = Top.super_mask_backup
    BY <1>0, <2>1 DEF Level, Pc
  <2>3. levels' = Replace(l) /\ UNCHANGED <<SuperMask, EvtWaited>> /\ Top.pc = "choose"
    BY <1>3 DEF ChooseTask, At
  <2> HIDE DEF l
  <2> QED BY <2>2, <2>3, InsideNesting
<1>4. CASE Claim
  <2> DEFINE l == [Top EXCEPT !.pc = "dispatch", !.task = CurrentTaskIdx]
  <2>1. l \in Level /\ l.pc = "dispatch" /\ l.super_mask_backup = Top.super_mask_backup
    BY <1>0 DEF Level, Pc, TypeOK
  <2>2. levels' = Replace(l) /\ UNCHANGED <<SuperMask, EvtWaited>> /\ Top.pc = "claim"
    BY <1>4 DEF Claim, At
  <2> HIDE DEF l
  <2> QED BY <2>1, <2>2, InsideNesting
<1>5. CASE Dispatch
  <2> DEFINE l == [NewLevel(Top.Mask_bm) EXCEPT
                     !.pc = "task", !.super_mask_backup = Top.super_mask_backup,
                     !.task = Top.task, !.saved_rr = round_robin']
  <2>1. NewLevel(Top.Mask_bm) \in Level /\ round_robin' \in [Prio -> SUBSET Task]
    BY <1>0, <1>5, NewLevelIsLevel DEF Level, TypeOK, Dispatch
  <2>2. l \in Level /\ l.pc = "task" /\ l.super_mask_backup = Top.super_mask_backup
    BY <1>0, <2>1 DEF Level, Pc
  <2>3. levels' = Replace(l) /\ UNCHANGED <<SuperMask, EvtWaited>> /\ Top.pc = "dispatch"
    BY <1>5 DEF Dispatch, At
  <2> HIDE DEF l
  <2> QED BY <2>2, <2>3, InsideNesting
<1>6. CASE CatchWarning
  <2> DEFINE l == [Top EXCEPT !.pc = "loop", !.task = NoTaskRunning]
  <2>1. l \in Level /\ l.pc = "loop" /\ l.super_mask_backup = Top.super_mask_backup
    BY <1>0 DEF Level, Pc
  <2>2. levels' = Replace(l) /\ UNCHANGED <<SuperMask, EvtWaited>> /\ Top.pc = "dispatch"
    BY <1>6 DEF CatchWarning, At
  <2> HIDE DEF l
  <2> QED BY <2>1, <2>2, InsideNesting
<1>7. CASE ExitLoop
  <2> DEFINE target == IF Top.local_evtset \cap EvtWaited = {}
                       THEN "preidle" ELSE "leave"
             l == [Top EXCEPT !.pc = target,
                              !.local_taskset = {}, !.local_evtset = {},
                              !.local_taskmask = {}, !.local_evtwaited = {}]
  <2>1. /\ l \in Level /\ l.pc \in {"preidle", "leave"}
        /\ l.super_mask_backup = Top.super_mask_backup
    BY <1>0 DEF Level, Pc
  <2>2. levels' = Replace(l) /\ UNCHANGED <<SuperMask, EvtWaited>> /\ Top.pc = "loop"
    BY <1>7 DEF ExitLoop, At
  <2> HIDE DEF l
  <2> QED BY <2>1, <2>2, InsideNesting
<1>8. CASE IdleCheck
  <2> DEFINE l == [Top EXCEPT !.pc = IF NothingToDo THEN "idle" ELSE "leave"]
  <2>1. /\ l \in Level /\ l.pc \in {"idle", "leave"}
        /\ l.super_mask_backup = Top.super_mask_backup
    BY <1>0 DEF Level, Pc
  <2>2. levels' = Replace(l) /\ UNCHANGED <<SuperMask, EvtWaited>> /\ Top.pc = "preidle"
    BY <1>8 DEF IdleCheck, At, Goto
  <2> HIDE DEF l
  <2> QED BY <2>1, <2>2, InsideNesting
<1>9. CASE WakeUp
  <2> DEFINE l == [Top EXCEPT !.pc = "leave"]
  <2>1. l \in Level /\ l.pc = "leave" /\ l.super_mask_backup = Top.super_mask_backup
    BY <1>0 DEF Level, Pc
  <2>2. levels' = Replace(l) /\ UNCHANGED <<SuperMask, EvtWaited>> /\ Top.pc = "idle"
    BY <1>9 DEF WakeUp, At, Goto
  <2> HIDE DEF l
  <2> QED BY <2>1, <2>2, InsideNesting
<1>10. ASSUME NEW t \in Task, TaskReturn(t) PROVE Nesting'
  <2> DEFINE l == [Snapshot(Top) EXCEPT
                     !.task = NoTaskRunning, !.saved_rr = [p \in Prio |-> {}]]
  <2>1. l \in Level /\ l.pc = "loop" /\ l.super_mask_backup = Top.super_mask_backup
    BY <1>0, SnapshotIsLevel DEF Snapshot, Level
  <2>2. levels' = Replace(l) /\ UNCHANGED <<SuperMask, EvtWaited>> /\ Top.pc = "task"
    BY <1>10 DEF TaskReturn, At
  <2> HIDE DEF l
  <2> QED BY <2>1, <2>2, InsideNesting
<1> QED BY <1>1, <1>2, <1>3, <1>4, <1>5, <1>6, <1>7, <1>8, <1>9, <1>10

(* The steps that enter a run or a wait, and those that leave one.          *)

(* Replacing the top level leaves the callbacks below it.                   *)
LEMMA OuterReplaced ==
  ASSUME TypeOK, NEW l \in Level, levels' = Replace(l)
  PROVE  /\ Outer(Len(levels) - 1)' = Outer(Len(levels) - 1)
         /\ Outer(Len(levels) - 2)' = Outer(Len(levels) - 2)
         /\ WaitedBelow(Len(levels))' = WaitedBelow(Len(levels))
<1>1. Len(levels) \in Nat /\ Len(levels) >= 1
  BY TopIsLevel
<1>2. Len(levels') = Len(levels) /\ \A i \in 1 .. Len(levels) - 1 : levels'[i] = levels[i]
  BY StackKept
<1>3. \A i \in 1 .. Len(levels) - 2 : i \in 1 .. Len(levels) - 1
  BY <1>1
<1>4. /\ \A i \in 1 .. Len(levels) - 1 : levels'[i].task = levels[i].task
      /\ \A i \in 1 .. Len(levels) - 2 : levels'[i].task = levels[i].task
  BY <1>2, <1>3
<1>5. Len(levels) # 1 => levels'[Len(levels) - 1] = levels[Len(levels) - 1]
  <2> HAVE Len(levels) # 1
  <2> QED BY <1>1, <1>2
<1> QED BY <1>2, <1>4, <1>5 DEF Outer, WaitedBelow

(* If the new top level has saved what it should, so have all levels.       *)
LEMMA TopReplacedSaved ==
  ASSUME TypeOK, Nesting, NEW l \in Level, levels' = Replace(l),
         l.pc # "enter" => l.super_mask_backup = Task \ Outer(Len(levels) - 2),
         l.pc = "wait" => l.waited_backup = WaitedBelow(Len(levels))
  PROVE  \A n \in 1 .. Len(levels') : (MaskSaved(n) /\ EvtSaved(n))'
<1>1. Len(levels) \in Nat /\ Len(levels) >= 1
  BY TopIsLevel
<1>2. /\ Len(levels') = Len(levels) /\ Top' = l /\ levels'[Len(levels)] = l
      /\ \A i \in 1 .. Len(levels) - 1 : levels'[i] = levels[i]
      /\ \A n \in 1 .. Len(levels) : WaitedBelow(n)' = WaitedBelow(n)
      /\ \A n \in Int : n < Len(levels) => Outer(n)' = Outer(n)
  BY StackKept
<1> TAKE n \in 1 .. Len(levels')
<1>3. n \in 1 .. Len(levels) /\ n - 2 \in Int /\ n - 2 < Len(levels)
  BY <1>1, <1>2
<1>4. Outer(n - 2)' = Outer(n - 2) /\ WaitedBelow(n)' = WaitedBelow(n)
  BY <1>2, <1>3
<1>5. CASE n = Len(levels)
  BY <1>2, <1>4, <1>5 DEF MaskSaved, EvtSaved
<1>6. CASE n # Len(levels)
  <2>1. n \in 1 .. Len(levels) - 1
    BY <1>1, <1>3, <1>6
  <2>2. MaskSaved(n) /\ EvtSaved(n)
    BY <1>3 DEF Nesting
  <2> QED BY <1>2, <1>4, <2>1, <2>2 DEF MaskSaved, EvtSaved
<1> QED BY <1>5, <1>6

(* A run saves the mask of the run around it.                               *)
LEMMA EnterNesting == IInv /\ Nesting /\ Enter => Nesting'
<1> SUFFICES ASSUME IInv, Nesting, Enter PROVE Nesting'
  OBVIOUS
<1> DEFINE l == [Snapshot(Top) EXCEPT !.super_mask_backup = SuperMask]
           n == Len(levels)
<1>1. TypeOK /\ Top \in Level /\ n \in Nat /\ n >= 1
  BY TopIsLevel DEF IInv
<1>2. l \in Level /\ l.pc = "loop" /\ l.super_mask_backup = SuperMask
  BY <1>1, SnapshotIsLevel DEF Snapshot, Level, TypeOK
<1>3. levels' = Replace(l) /\ SuperMask' = SuperMask \cap Top.Mask_bm /\ EvtWaited' = EvtWaited
  BY DEF Enter
<1>4. SuperMask = Task \ Outer(n - 2) /\ Top.Mask_bm = MaskOfRun(n) /\ EvtWaited = WaitedBelow(n)
  BY DEF Nesting, Enter, At
<1> HIDE DEF l
<1>5. Outer(n - 1) = IF n = 1 THEN {} ELSE Outer(n - 2) \cup {levels[n - 1].task}
  <2>1. CASE n = 1
    BY <2>1 DEF Outer
  <2>2. CASE n # 1
    <3> HIDE DEF n
    <3>1. 1 .. n - 1 = (1 .. n - 2) \cup {n - 1}
      BY <1>1, <2>2
    <3> QED BY <2>2, <3>1 DEF Outer
  <2> QED BY <2>1, <2>2
<1>6. SuperMask' = Task \ Outer(n - 1)
  <2>1. CASE n = 1
    <3>1. Outer(n - 2) = {}
      BY <2>1 DEF Outer
    <3> QED BY <1>3, <1>4, <1>5, <2>1, <3>1 DEF MaskOfRun
  <2>2. CASE n # 1
    BY <1>3, <1>4, <1>5, <2>2 DEF MaskOfRun
  <2> QED BY <2>1, <2>2
<1>7. \A k \in 1 .. Len(levels') : (MaskSaved(k) /\ EvtSaved(k))'
  BY <1>1, <1>2, <1>3, <1>4, TopReplacedSaved
<1>8. Len(levels') = n /\ Top' = l
  BY <1>1, <1>2, <1>3, StackKept
<1>9. Outer(n - 1)' = Outer(n - 1) /\ WaitedBelow(n)' = WaitedBelow(n)
  BY <1>1, <1>2, <1>3, OuterReplaced
<1> QED BY <1>2, <1>3, <1>4, <1>6, <1>7, <1>8, <1>9 DEF Nesting, At

(* A wait saves the event the wait around it waits for.                     *)
LEMMA WaitEvtNesting ==
  ASSUME IInv, Nesting, NEW e \in Event, WaitEvt(e)
  PROVE  Nesting'
<1> DEFINE l == [Top EXCEPT !.pc = "wait", !.evt = e,
                            !.waited_backup = EvtWaited,
                            !.current_task_idx = CurrentTaskIdx]
           n == Len(levels)
<1>1. TypeOK /\ Top \in Level /\ n \in Nat /\ n >= 1
  BY TopIsLevel DEF IInv
<1>2. /\ l \in Level /\ l.pc = "wait" /\ l.evt = e /\ l.waited_backup = EvtWaited
      /\ l.super_mask_backup = Top.super_mask_backup
  BY <1>1 DEF Level, Pc, TypeOK
<1>3. levels' = Replace(l) /\ SuperMask' = SuperMask /\ EvtWaited' = {e} /\ Top.pc = "task"
  BY DEF WaitEvt, At
<1> HIDE DEF l
<1>4. SuperMask = Task \ Outer(n - 1) /\ EvtWaited = WaitedBelow(n)
  BY <1>3 DEF Nesting, At
<1>5. Top.super_mask_backup = Task \ Outer(n - 2)
  BY <1>1, <1>3 DEF Nesting, MaskSaved, Top
<1>6. \A k \in 1 .. Len(levels') : (MaskSaved(k) /\ EvtSaved(k))'
  BY <1>1, <1>2, <1>3, <1>4, <1>5, TopReplacedSaved
<1>7. Len(levels') = n /\ Top' = l
  BY <1>1, <1>2, <1>3, StackKept
<1>8. Outer(n - 1)' = Outer(n - 1)
  BY <1>1, <1>2, <1>3, OuterReplaced
<1> QED BY <1>2, <1>3, <1>4, <1>6, <1>7, <1>8 DEF Nesting, At

(* The end of a wait restores that event.                                   *)
LEMMA WaitEvtReturnNesting == IInv /\ Nesting /\ WaitEvtReturn => Nesting'
<1> SUFFICES ASSUME IInv, Nesting, WaitEvtReturn PROVE Nesting'
  OBVIOUS
<1> DEFINE l == [Top EXCEPT !.pc = "task", !.evt = NoEvent,
                            !.waited_backup = {},
                            !.current_task_idx = NoTaskRunning]
           n == Len(levels)
<1>1. TypeOK /\ Top \in Level /\ n \in Nat /\ n >= 1
  BY TopIsLevel DEF IInv
<1>2. l \in Level /\ l.pc = "task" /\ l.super_mask_backup = Top.super_mask_backup
  BY <1>1 DEF Level, Pc
<1>3. /\ levels' = Replace(l) /\ SuperMask' = SuperMask
      /\ EvtWaited' = Top.waited_backup /\ Top.pc = "wait"
  BY DEF WaitEvtReturn, At
<1> HIDE DEF l
<1>4. SuperMask = Task \ Outer(n - 1)
  BY <1>3 DEF Nesting, At
<1>5. Top.super_mask_backup = Task \ Outer(n - 2) /\ Top.waited_backup = WaitedBelow(n)
  BY <1>1, <1>3 DEF Nesting, MaskSaved, EvtSaved, Top
<1>6. \A k \in 1 .. Len(levels') : (MaskSaved(k) /\ EvtSaved(k))'
  BY <1>1, <1>2, <1>3, <1>5, TopReplacedSaved
<1>7. Len(levels') = n /\ Top' = l
  BY <1>1, <1>2, <1>3, StackKept
<1>8. Outer(n - 1)' = Outer(n - 1) /\ WaitedBelow(n)' = WaitedBelow(n)
  BY <1>1, <1>2, <1>3, OuterReplaced
<1> QED BY <1>2, <1>3, <1>4, <1>5, <1>6, <1>7, <1>8 DEF Nesting, At

(* A nested run is called with the tasks that wait masked.                  *)
LEMMA EvtIdleNesting == IInv /\ Nesting /\ EvtIdle => Nesting'
<1> SUFFICES ASSUME IInv, Nesting, EvtIdle PROVE Nesting'
  OBVIOUS
<1> DEFINE l == NewLevel(Task \ {Top.current_task_idx})
           n == Len(levels)
<1>1. TypeOK /\ n \in Nat /\ n >= 1 /\ Top = levels[n] /\ Top.pc = "wait"
  BY TopIsLevel DEF IInv, EvtIdle, At, Top
<1>2. l \in Level /\ l.pc = "enter" /\ l.Mask_bm = Task \ {Top.current_task_idx}
  BY NewLevelIsLevel DEF NewLevel
<1> HIDE DEF l
<1>3. /\ Len(levels') = n + 1 /\ levels'[n + 1] = l
      /\ \A i \in 1 .. n : levels'[i] = levels[i]
  <2>1. levels' = Append(levels, l)
    BY DEF EvtIdle, l
  <2> QED BY <1>1, <1>2, <2>1, AppendProperties DEF TypeOK
<1>4. Top' = l /\ UNCHANGED <<SuperMask, EvtWaited>>
  BY <1>3 DEF Top, EvtIdle
<1>5. SuperMask = Task \ Outer(n - 1) /\ EvtWaited = {levels[n].evt}
  BY <1>1 DEF Nesting, At
<1>6. Top.current_task_idx = levels[n].task
  BY <1>1 DEF IInv, CallStack, LevelOK
<1> HIDE DEF n
<1>7. \A k \in 1 .. Len(levels') : (MaskSaved(k) /\ EvtSaved(k))'
  <2> TAKE k \in 1 .. Len(levels')
  <2>1. CASE k = n + 1
    BY <1>2, <1>3, <2>1 DEF MaskSaved, EvtSaved
  <2>2. CASE k # n + 1
    <3>1. k \in 1 .. n /\ (k # 1 => k - 1 \in 1 .. n)
      BY <1>1, <1>3, <2>2
    <3>2. \A i \in 1 .. k - 2 : i \in 1 .. n
      BY <1>1, <3>1
    <3>3. Outer(k - 2)' = Outer(k - 2)
      BY <1>3, <3>2 DEF Outer
    <3>4. WaitedBelow(k)' = WaitedBelow(k)
      BY <1>3, <3>1 DEF WaitedBelow
    <3>5. MaskSaved(k) /\ EvtSaved(k)
      BY <3>1 DEF Nesting, n
    <3> QED BY <1>3, <3>1, <3>3, <3>4, <3>5 DEF MaskSaved, EvtSaved
  <2> QED BY <2>1, <2>2
<1>9. SuperMask' = Task \ {levels'[i].task : i \in 1 .. Len(levels') - 2}
  <2>1. Len(levels') - 2 = n - 1
    BY <1>1, <1>3
  <2>2. \A i \in 1 .. n - 1 : levels'[i].task = levels[i].task
    <3> TAKE i \in 1 .. n - 1
    <3>1. i \in 1 .. n
      BY <1>1
    <3> QED BY <1>3, <3>1
  <2> QED BY <1>4, <1>5, <2>1, <2>2 DEF Outer
<1>10. n \in 1 .. n /\ Len(levels') - 1 = n /\ Len(levels') # 1
  BY <1>1, <1>3
<1>11. /\ levels'[Len(levels') - 1].task = levels[n].task
       /\ levels'[Len(levels') - 1].evt = levels[n].evt
  BY <1>3, <1>10
<1>12. At("enter")' /\ ~At("wait")'
  BY <1>2, <1>4 DEF At
<1>13. Top'.Mask_bm = MaskOfRun(Len(levels))' /\ EvtWaited' = WaitedBelow(Len(levels))'
  BY <1>2, <1>4, <1>5, <1>6, <1>10, <1>11 DEF MaskOfRun, WaitedBelow
<1> QED BY <1>7, <1>9, <1>12, <1>13 DEF Nesting, Outer

(* The end of a run restores the mask.                                      *)
LEMMA LeaveNesting == IInv /\ Nesting /\ Leave => Nesting'
<1> SUFFICES ASSUME IInv, Nesting, Leave PROVE Nesting'
  OBVIOUS
<1> DEFINE n == Len(levels)
<1>1. /\ TypeOK /\ n \in Nat /\ n >= 1
      /\ Top = levels[n] /\ Top.pc = "leave"
  BY TopIsLevel DEF IInv, Leave, At, Top
<1>2. /\ SuperMask' = Task \ Outer(n - 2) /\ EvtWaited' = WaitedBelow(n)
  BY <1>1 DEF Nesting, MaskSaved, Leave, At
<1>3. CASE n = 1
  <2>1. levels' = <<NewLevel(Task)>> /\ NewLevel(Task) \in Level
    BY <1>3, NewLevelIsLevel DEF Leave
  <2>2. Len(levels') = 1 /\ levels'[1] = NewLevel(Task) /\ Top' = NewLevel(Task)
    BY <2>1 DEF Top
  <2>3. Outer(n - 2) = {} /\ \A k \in {1} : Outer(k - 2)' = {}
    BY <1>3 DEF Outer
  <2> QED BY <1>2, <1>3, <2>2, <2>3
          DEF Nesting, MaskSaved, EvtSaved, At, NewLevel, MaskOfRun, WaitedBelow
<1>4. CASE n # 1
  <2>1. levels' = SubSeq(levels, 1, n - 1)
    BY <1>4, Zenon DEF Leave
  <2>2. EvtWaited' = {levels[n - 1].evt}
    BY <1>2, <1>4 DEF WaitedBelow
  <2>3. n - 1 \in 1 .. n - 1
    <3> HIDE DEF n
    <3> QED BY <1>1, <1>4
  <2>4. /\ Len(levels') = n - 1
        /\ \A i \in 1 .. n - 1 : levels'[i] = levels[i]
    BY <1>1, <2>1, <2>3 DEF TypeOK
  <2>5. levels[n - 1].pc = "wait"
    BY <2>3 DEF IInv, CallStack
  <2>6. Top' = levels[n - 1] /\ levels'[n - 1] = levels[n - 1]
    BY <2>3, <2>4 DEF Top
  <2>7. \A k \in 1 .. n - 1 : MaskSaved(k) /\ EvtSaved(k)
    BY <1>1 DEF Nesting
  <2> HIDE DEF n
  <2>8. \A k \in 1 .. Len(levels') : (MaskSaved(k) /\ EvtSaved(k))'
    <3> TAKE k \in 1 .. Len(levels')
    <3>1. k \in 1 .. n - 1 /\ (k # 1 => k - 1 \in 1 .. n - 1)
      BY <1>1, <2>4
    <3>2. \A i \in 1 .. k - 2 : i \in 1 .. n - 1
      BY <1>1, <3>1
    <3>3. Outer(k - 2)' = Outer(k - 2)
      BY <2>4, <3>2 DEF Outer
    <3>4. WaitedBelow(k)' = WaitedBelow(k)
      BY <2>4, <3>1 DEF WaitedBelow
    <3> QED BY <2>4, <2>7, <3>1, <3>3, <3>4 DEF MaskSaved, EvtSaved
  <2>9. SuperMask' = Task \ {levels'[i].task : i \in 1 .. Len(levels') - 1}
    <3>1. Len(levels') - 1 = n - 2
      BY <1>1, <2>4
    <3>2. \A i \in 1 .. n - 2 : levels'[i].task = levels[i].task
      <4> TAKE i \in 1 .. n - 2
      <4>1. i \in 1 .. n - 1
        BY <1>1
      <4> QED BY <2>4, <4>1
    <3> QED BY <1>2, <3>1, <3>2 DEF Outer
  <2>10. At("wait")' /\ ~At("enter")' /\ EvtWaited' = {Top'.evt}
    BY <2>2, <2>5, <2>6 DEF At
  <2> QED BY <2>8, <2>9, <2>10 DEF Nesting, Outer
<1> QED BY <1>3, <1>4

(* Every step keeps what is saved right.                                    *)
LEMMA NextNesting == IInv /\ Nesting /\ [Next]_vars => Nesting'
<1> SUFFICES ASSUME IInv, Nesting, [Next]_vars PROVE Nesting'
  OBVIOUS
<1>1. CASE RunStep
  BY <1>1, RunStepNesting, EnterNesting, LeaveNesting DEF RunStep
<1>2. ASSUME NEW t \in Task, TaskReturn(t) PROVE Nesting'
  BY <1>2, RunStepNesting
<1>3. ASSUME NEW e \in Event, WaitEvt(e) PROVE Nesting'
  BY <1>3, WaitEvtNesting
<1>4. CASE WaitStep
  BY <1>4, EvtIdleNesting, WaitEvtReturnNesting DEF WaitStep
<1>5. CASE UNCHANGED <<levels, SuperMask, EvtWaited>>
  <2>1. levels' = levels /\ SuperMask' = SuperMask /\ EvtWaited' = EvtWaited
    BY <1>5
  <2>2. Top' = Top /\ At("enter")' = At("enter") /\ At("wait")' = At("wait")
    BY <2>1 DEF Top, At
  <2>3. /\ MaskOfRun(Len(levels))' = MaskOfRun(Len(levels))
        /\ WaitedBelow(Len(levels))' = WaitedBelow(Len(levels))
    BY <2>1 DEF MaskOfRun, WaitedBelow
  <2>4. \A n : Outer(n)' = Outer(n)
    BY <2>1 DEF Outer
  <2>5. \A n : MaskSaved(n)' = MaskSaved(n) /\ EvtSaved(n)' = EvtSaved(n)
    BY <2>1, <2>4 DEF MaskSaved, EvtSaved, WaitedBelow
  <2>6. /\ {levels'[i].task : i \in 1 .. Len(levels') - 1} = Outer(Len(levels) - 1)
        /\ {levels'[i].task : i \in 1 .. Len(levels') - 2} = Outer(Len(levels) - 2)
    BY <2>1 DEF Outer
  <2>7. (\A n \in 1 .. Len(levels) : MaskSaved(n) /\ EvtSaved(n))'
    BY <2>1, <2>5 DEF Nesting
  <2> QED BY <2>1, <2>2, <2>3, <2>6, <2>7 DEF Nesting, Outer
<1>6. CASE Call
  <2>1. UNCHANGED <<levels, SuperMask, EvtWaited>>
    BY <1>6 DEF Call, SetTask, SetEvt, ClrEvt, PauseTask, ResumeTask
  <2> QED BY <1>5, <2>1
<1>7. CASE UNCHANGED vars
  BY <1>5, <1>7 DEF vars
<1> QED BY <1>1, <1>2, <1>3, <1>4, <1>6, <1>7 DEF Next

(* Hence what is in force is right at every depth.                          *)
LEMMA NestingRestores == IInv /\ Nesting => NestedRunsRestore
<1> SUFFICES ASSUME IInv, Nesting PROVE NestedRunsRestore
  OBVIOUS
<1> DEFINE n == Len(levels)
<1>1. n \in Nat /\ n >= 1 /\ Top = levels[n]
  BY TopIsLevel DEF IInv, Top
<1>2. \A i \in 1 .. n - 1 : levels[i].pc = "wait"
  BY DEF IInv, CallStack
<1>3. Waiting \subseteq 1 .. n /\ \A i \in 1 .. n - 1 : i \in Waiting
  <2>1. \A i \in 1 .. n - 1 : i \in 1 .. n
    <3> HIDE DEF n
    <3> QED BY <1>1
  <2> QED BY <1>2, <2>1 DEF Waiting
<1>4. n \in Waiting <=> At("wait")
  BY <1>1 DEF Waiting, At
<1>5. SuperMaskExcludesWaiters
  <2>1. Waiting \ {n} = 1 .. n - 1
    <3> HIDE DEF n
    <3>1. \A i \in 1 .. n : i # n => i \in 1 .. n - 1
      BY <1>1
    <3>2. n \notin 1 .. n - 1
      BY <1>1
    <3> QED BY <1>3, <3>1, <3>2
  <2>2. ~At("enter") => SuperMask = Task \ Outer(n - 1)
    BY DEF Nesting
  <2> QED BY <2>1, <2>2 DEF SuperMaskExcludesWaiters, Outer
<1>6. InnermostEventWaited
  <2>1. EvtWaited = IF At("wait") THEN {levels[n].evt} ELSE WaitedBelow(n)
    BY <1>1 DEF Nesting
  <2> DEFINE last == CHOOSE i \in Waiting : \A j \in Waiting : j <= i
  <2> HIDE DEF n
  <2>2. CASE At("wait")
    <3>1. n \in Waiting /\ \A j \in Waiting : j <= n
      BY <1>1, <1>3, <1>4, <2>2
    <3>2. last \in Waiting /\ \A j \in Waiting : j <= last
      BY <3>1
    <3>3. last = n
      <4>1. last \in 1 .. n
        BY <1>3, <3>2
      <4>2. n <= last /\ last <= n
        BY <3>1, <3>2
      <4> HIDE DEF last
      <4> QED BY <1>1, <4>1, <4>2
    <3> QED BY <2>1, <2>2, <3>1, <3>3 DEF InnermostEventWaited
  <2>3. CASE ~At("wait") /\ n = 1
    <3>1. Waiting = {}
      BY <1>1, <1>3, <1>4, <2>3
    <3> QED BY <2>1, <2>3, <3>1 DEF InnermostEventWaited, WaitedBelow
  <2>4. CASE ~At("wait") /\ n # 1
    <3>1. n - 1 \in Waiting /\ \A j \in Waiting : j <= n - 1
      BY <1>1, <1>3, <1>4, <2>4
    <3>2. last \in Waiting /\ \A j \in Waiting : j <= last
      BY <3>1
    <3>3. last = n - 1
      <4>1. last \in 1 .. n
        BY <1>3, <3>2
      <4>2. n - 1 <= last /\ last <= n - 1
        BY <3>1, <3>2
      <4> HIDE DEF last
      <4> QED BY <1>1, <4>1, <4>2
    <3> QED BY <2>1, <2>4, <3>1, <3>3 DEF InnermostEventWaited, WaitedBelow
  <2> QED BY <2>2, <2>3, <2>4
<1>7. CallbackIsCurrentTask
  BY DEF IInv, RunningIsCurrent, CallbackIsCurrentTask
<1> QED BY <1>5, <1>6, <1>7 DEF NestedRunsRestore

(* The inductive invariant with the saved values.                           *)
THEOREM NestingInvariant == Spec => [](IInv /\ Nesting)
<1>1. Init => IInv /\ Nesting
  BY InitIInv, InitNesting
<1>2. IInv /\ Nesting /\ [Next]_vars => (IInv /\ Nesting)'
  BY NextIInv, NextNesting
<1> QED BY <1>1, <1>2, PTL DEF Spec

(* Whatever a nested run changes, SuperMask, EvtWaited and CurrentTaskIdx,  *)
(* is what it was when the callback below goes on.                          *)
THEOREM NestedRunsAreUndone == Spec => []NestedRunsRestore
BY NestingRestores, NestingInvariant, PTL

-----------------------------------------------------------------------------
(* The search for a priority, and the idle section.                         *)

(* At the loop's condition the tasks read are still pending, unless this    *)
(* run has claimed one without callback since.                              *)
SnapshotPending ==
  /\ At("loop") => Top.local_taskset \subseteq TaskSet \/ CurrentTaskIdx \notin Registered
  /\ SearchTerminates
  /\ NeverIdleWithWork

(* At first there is no snapshot.                                           *)
LEMMA InitSnapshot == Init => SnapshotPending
<1> SUFFICES ASSUME Init PROVE SnapshotPending
  OBVIOUS
<1>1. NewLevel(Task) \in Level
  BY NewLevelIsLevel
<1>2. Top = NewLevel(Task)
  BY <1>1 DEF Init, Top
<1> QED BY <1>2 DEF SnapshotPending, SearchTerminates, NeverIdleWithWork, At, NewLevel

(* The search runs past the end only if the claimed task has no callback.   *)
LEMMA OverrunFindsNoTask ==
  ASSUME IInv, SnapshotPending, Overrun
  PROVE  CurrentTaskIdx \notin Registered
<1>1. PICK t \in Top.local_taskset \cap Top.local_taskmask \cap SuperMask : TRUE
  BY DEF Overrun, LoopCondition
<1>2. CASE Top.local_taskset \subseteq TaskSet
  <2>1. PICK p \in Prio : t \in priority[p]
    BY <1>1, <1>2 DEF IInv, PrioritiesCoverTaskSet
  <2>2. t \in RunnableAt(p)
    BY <1>1, <2>1 DEF RunnableAt
  <2> QED BY <2>1, <2>2 DEF Overrun
<1> QED BY <1>2 DEF SnapshotPending, Overrun

(* A run returns to a wait, or to the main loop.                            *)
LEMMA TopAfterLeave ==
  ASSUME IInv, Leave
  PROVE  Top'.pc \in {"enter", "wait"}
<1>1. /\ TypeOK /\ Len(levels) \in Nat /\ Len(levels) >= 1
  BY TopIsLevel DEF IInv
<1>2. CASE Len(levels) = 1
  <2>1. levels' = <<NewLevel(Task)>> /\ NewLevel(Task) \in Level
    BY <1>2, NewLevelIsLevel DEF Leave
  <2>2. Top' = NewLevel(Task)
    BY <2>1 DEF Top
  <2> QED BY <2>2 DEF NewLevel
<1>3. CASE Len(levels) # 1
  <2> DEFINE n == Len(levels)
  <2>1. levels' = SubSeq(levels, 1, n - 1)
    BY <1>3, Zenon DEF Leave
  <2>2. n - 1 \in 1 .. n - 1
    <3>1. n \in Nat /\ n >= 1 /\ n # 1
      BY <1>1, <1>3
    <3> HIDE DEF n
    <3> QED BY <3>1
  <2>3. Len(levels') = n - 1 /\ levels'[n - 1] = levels[n - 1]
    BY <1>1, <2>1, <2>2 DEF TypeOK
  <2>4. levels[n - 1].pc = "wait"
    BY <2>2 DEF IInv, CallStack
  <2> QED BY <2>3, <2>4 DEF Top
<1> QED BY <1>2, <1>3

(* Every step keeps a task of the snapshot pending.                         *)
LEMMA NextSnapshot == IInv /\ SnapshotPending /\ [Next]_vars => SnapshotPending'
<1> SUFFICES ASSUME IInv, SnapshotPending, [Next]_vars PROVE SnapshotPending'
  OBVIOUS
<1>0. TypeOK /\ Top \in Level /\ Len(levels) \in Nat /\ Len(levels) >= 1
  BY TopIsLevel DEF IInv
<1>1. ASSUME NEW l \in Level, levels' = Replace(l), l.pc \notin {"loop", "overrun", "idle"}
      PROVE  SnapshotPending'
  <2>1. Top' = l
    BY <1>0, <1>1, StackKept
  <2> QED BY <1>1, <2>1 DEF SnapshotPending, SearchTerminates, NeverIdleWithWork, At
<1>2. CASE Enter
  <2> DEFINE l == [Snapshot(Top) EXCEPT !.super_mask_backup = SuperMask]
  <2>1. l \in Level /\ l.pc = "loop" /\ l.local_taskset = TaskSet
    BY <1>0, SnapshotIsLevel DEF Snapshot, Level, TypeOK
  <2>2. levels' = Replace(l) /\ TaskSet' = TaskSet
    BY <1>2 DEF Enter
  <2> HIDE DEF l
  <2>3. Top' = l
    BY <1>0, <2>1, <2>2, StackKept
  <2> QED BY <2>1, <2>2, <2>3 DEF SnapshotPending, SearchTerminates, NeverIdleWithWork, At
<1>3. ASSUME NEW t \in Task, TaskReturn(t) PROVE SnapshotPending'
  <2> DEFINE l == [Snapshot(Top) EXCEPT
                     !.task = NoTaskRunning, !.saved_rr = [p \in Prio |-> {}]]
  <2>1. l \in Level /\ l.pc = "loop" /\ l.local_taskset = TaskSet
    BY <1>0, SnapshotIsLevel DEF Snapshot, Level
  <2>2. levels' = Replace(l) /\ TaskSet' = TaskSet
    BY <1>3 DEF TaskReturn
  <2> HIDE DEF l
  <2>3. Top' = l
    BY <1>0, <2>1, <2>2, StackKept
  <2> QED BY <2>1, <2>2, <2>3 DEF SnapshotPending, SearchTerminates, NeverIdleWithWork, At
<1>4. CASE CatchWarning
  <2> DEFINE l == [Top EXCEPT !.pc = "loop", !.task = NoTaskRunning]
  <2>1. l \in Level /\ l.pc = "loop"
    BY <1>0 DEF Level, Pc
  <2>2. levels' = Replace(l) /\ CurrentTaskIdx' \notin Registered
    BY <1>4 DEF CatchWarning
  <2> HIDE DEF l
  <2>3. Top' = l
    BY <1>0, <2>1, <2>2, StackKept
  <2> QED BY <2>1, <2>2, <2>3 DEF SnapshotPending, SearchTerminates, NeverIdleWithWork, At
<1>5. CASE Overrun
  <2> DEFINE l == [Top EXCEPT !.pc = "overrun"]
  <2>1. l \in Level /\ l.pc = "overrun"
    BY <1>0 DEF Level, Pc
  <2>2. levels' = Replace(l) /\ CurrentTaskIdx' = CurrentTaskIdx
    BY <1>5 DEF Overrun, Goto
  <2> HIDE DEF l
  <2>3. Top' = l
    BY <1>0, <2>1, <2>2, StackKept
  <2> QED BY <1>5, <2>1, <2>2, <2>3, OverrunFindsNoTask
          DEF SnapshotPending, SearchTerminates, NeverIdleWithWork, At
<1>6. ASSUME NEW p \in Prio, SelectPriority(p) PROVE SnapshotPending'
  <2> DEFINE l == [Top EXCEPT !.pc = "choose", !.counter = p,
                              !.current_task_set = RunnableAt(p)]
  <2>1. l \in Level /\ l.pc = "choose"
    BY <1>0 DEF Level, Pc, RunnableAt, TypeOK
  <2> QED BY <1>1, <1>6, <2>1 DEF SelectPriority
<1>7. CASE ChooseTask
  <2>1. 0 \in Prio
    BY SequencerAssumption DEF Prio
  <2> DEFINE l == [Top EXCEPT !.pc = "claim", !.counter = 0, !.current_task_set = {}]
  <2>2. l \in Level /\ l.pc = "claim"
    BY <1>0, <2>1 DEF Level, Pc
  <2> QED BY <1>1, <1>7, <2>2 DEF ChooseTask
<1>8. CASE Claim
  <2> DEFINE l == [Top EXCEPT !.pc = "dispatch", !.task = CurrentTaskIdx]
  <2>1. l \in Level /\ l.pc = "dispatch"
    BY <1>0 DEF Level, Pc, TypeOK
  <2> QED BY <1>1, <1>8, <2>1 DEF Claim
<1>9. CASE Dispatch
  <2> DEFINE l == [NewLevel(Top.Mask_bm) EXCEPT
                     !.pc = "task", !.super_mask_backup = Top.super_mask_backup,
                     !.task = Top.task, !.saved_rr = round_robin']
  <2>1. NewLevel(Top.Mask_bm) \in Level /\ round_robin' \in [Prio -> SUBSET Task]
    BY <1>0, <1>9, NewLevelIsLevel DEF Level, TypeOK, Dispatch
  <2>2. l \in Level /\ l.pc = "task"
    BY <1>0, <2>1 DEF Level, Pc
  <2> QED BY <1>1, <1>9, <2>2 DEF Dispatch
<1>10. CASE ExitLoop
  <2> DEFINE target == IF Top.local_evtset \cap EvtWaited = {}
                       THEN "preidle" ELSE "leave"
             l == [Top EXCEPT !.pc = target,
                              !.local_taskset = {}, !.local_evtset = {},
                              !.local_taskmask = {}, !.local_evtwaited = {}]
  <2>1. l \in Level /\ l.pc \in {"preidle", "leave"}
    BY <1>0 DEF Level, Pc
  <2> QED BY <1>1, <1>10, <2>1 DEF ExitLoop
<1>11. CASE IdleCheck
  <2> DEFINE l == [Top EXCEPT !.pc = IF NothingToDo THEN "idle" ELSE "leave"]
  <2>1. /\ l \in Level /\ l.pc \in {"idle", "leave"}
        /\ l.pc = "idle" => NothingToDo
    BY <1>0 DEF Level, Pc
  <2>2. levels' = Replace(l)
    BY <1>11 DEF IdleCheck, Goto
  <2>3. NothingToDo' = NothingToDo
    BY <1>11 DEF IdleCheck, NothingToDo
  <2> HIDE DEF l
  <2>4. Top' = l
    BY <1>0, <2>1, <2>2, StackKept
  <2> QED BY <2>1, <2>3, <2>4 DEF SnapshotPending, SearchTerminates, NeverIdleWithWork, At
<1>12. CASE WakeUp
  <2> DEFINE l == [Top EXCEPT !.pc = "leave"]
  <2>1. l \in Level /\ l.pc = "leave"
    BY <1>0 DEF Level, Pc
  <2> QED BY <1>1, <1>12, <2>1 DEF WakeUp, Goto
<1>13. ASSUME NEW e \in Event, WaitEvt(e) PROVE SnapshotPending'
  <2> DEFINE l == [Top EXCEPT !.pc = "wait", !.evt = e,
                              !.waited_backup = EvtWaited,
                              !.current_task_idx = CurrentTaskIdx]
  <2>1. l \in Level /\ l.pc = "wait"
    BY <1>0 DEF Level, Pc, TypeOK
  <2> QED BY <1>1, <1>13, <2>1 DEF WaitEvt
<1>14. CASE WaitEvtReturn
  <2> DEFINE l == [Top EXCEPT !.pc = "task", !.evt = NoEvent,
                              !.waited_backup = {},
                              !.current_task_idx = NoTaskRunning]
  <2>1. l \in Level /\ l.pc = "task"
    BY <1>0 DEF Level, Pc
  <2> QED BY <1>1, <1>14, <2>1 DEF WaitEvtReturn
<1>15. CASE EvtIdle
  <2> DEFINE l == NewLevel(Task \ {Top.current_task_idx})
  <2>1. l \in Level /\ l.pc = "enter"
    BY NewLevelIsLevel DEF NewLevel
  <2>2. Top' = l
    BY <1>0, <1>15, <2>1, AppendProperties DEF TypeOK, EvtIdle, Top
  <2> QED BY <2>1, <2>2 DEF SnapshotPending, SearchTerminates, NeverIdleWithWork, At
<1>16. CASE Leave
  <2>1. Top'.pc \in {"enter", "wait"}
    BY <1>16, TopAfterLeave
  <2> QED BY <2>1 DEF SnapshotPending, SearchTerminates, NeverIdleWithWork, At
<1>17. CASE Call
  <2>1. /\ levels' = levels /\ CurrentTaskIdx' = CurrentTaskIdx
        /\ TaskSet \subseteq TaskSet' /\ ~At("idle")
    BY <1>17 DEF Call, SetTask, SetEvt, ClrEvt, PauseTask, ResumeTask, InterruptsEnabled
  <2>2. Top' = Top
    BY <2>1 DEF Top
  <2> QED BY <2>1, <2>2 DEF SnapshotPending, SearchTerminates, NeverIdleWithWork, At
<1>18. CASE UNCHANGED vars
  BY <1>18 DEF vars, SnapshotPending, SearchTerminates, NeverIdleWithWork, NothingToDo, At, Top
<1> QED BY <1>2, <1>3, <1>4, <1>5, <1>6, <1>7, <1>8, <1>9, <1>10, <1>11, <1>12,
           <1>13, <1>14, <1>15, <1>16, <1>17, <1>18 DEF Next, RunStep, WaitStep

(* Both invariants hold for ever.                                           *)
THEOREM SearchInvariant == Spec => [](IInv /\ SnapshotPending)
<1>1. Init => IInv /\ SnapshotPending
  BY InitIInv, InitSnapshot
<1>2. IInv /\ SnapshotPending /\ [Next]_vars => (IInv /\ SnapshotPending)'
  BY NextIInv, NextSnapshot
<1> QED BY <1>1, <1>2, PTL DEF Spec

(* The inner loop of UTIL_SEQ_Run, which has no bound, passes the last      *)
(* priority only after a task without callback was claimed.                 *)
THEOREM SearchEnds == Spec => []SearchTerminates
<1>1. SnapshotPending => SearchTerminates
  BY DEF SnapshotPending
<1> QED BY <1>1, SearchInvariant, PTL

(* UTIL_SEQ_Idle is called only when no task may run and the event waited   *)
(* for is absent: a request made on the way to it is not slept over.        *)
THEOREM NeverSleepsOverWork == Spec => []NeverIdleWithWork
<1>1. SnapshotPending => NeverIdleWithWork
  BY DEF SnapshotPending
<1> QED BY <1>1, SearchInvariant, PTL

-----------------------------------------------------------------------------
(***************************************************************************)
(* The sequencer implements TaskScheduler, for any number of tasks,        *)
(* priorities, events and nested waits: every step of UTIL_SEQ_Run,        *)
(* UTIL_SEQ_WaitEvt or an interrupt is a step of the abstract scheduler or *)
(* leaves what it sees alone.                                              *)
(***************************************************************************)

-----------------------------------------------------------------------------
(* A level has a task from its claim to its callback's return, and an event *)
(* while the callback waits: it is then an activation.                      *)

Claimed(l) == l.pc \in {"dispatch", "task", "wait"}

LevelShape(l) ==
  /\ l.task = NoTaskRunning <=> ~Claimed(l)
  /\ IF l.pc = "wait" THEN l.evt \in Event ELSE l.evt = NoEvent

Shape == \A i \in 1 .. Len(levels) : LevelShape(levels[i])

RInv == IInv /\ Nesting /\ Shape

Activations ==
  [i \in 1 .. ActiveLevels |-> [task |-> levels[i].task, awaits |-> levels[i].evt]]

(* The mark of no task is none.                                             *)
LEMMA NoTaskRunningIsNoTask == NoTaskRunning \notin Task
BY SequencerAssumption DEF NoTaskRunning, Task

(* A step of the running level keeps the shape of the levels.               *)
LEMMA ShapeReplaced ==
  ASSUME TypeOK, Shape, NEW l \in Level, LevelShape(l), levels' = Replace(l)
  PROVE  Shape'
<1>1. Len(levels) \in Nat /\ Len(levels) >= 1
  BY TopIsLevel
<1>2. /\ Len(levels') = Len(levels) /\ levels'[Len(levels)] = l
      /\ \A i \in 1 .. Len(levels) - 1 : levels'[i] = levels[i]
  BY StackKept
<1>3. ASSUME NEW i \in 1 .. Len(levels') PROVE LevelShape(levels'[i])
  <2>1. CASE i = Len(levels)
    BY <1>2, <2>1
  <2>2. CASE i # Len(levels)
    <3>1. i \in 1 .. Len(levels) - 1 /\ i \in 1 .. Len(levels)
      BY <1>1, <1>2, <2>2
    <3> QED BY <1>2, <3>1 DEF Shape
  <2> QED BY <2>1, <2>2
<1> QED BY <1>3 DEF Shape, LevelShape, Claimed

(* A level replaced by one with the same activation, or by none as before,  *)
(* is not seen by the abstract scheduler.                                   *)
LEMMA SameActivations ==
  ASSUME TypeOK, NEW l \in Level, levels' = Replace(l),
         l.task = Top.task, l.evt = Top.evt
  PROVE  Activations' = Activations
<1> DEFINE n == Len(levels)
<1>1. n \in Nat /\ n >= 1 /\ Top = levels[n]
  BY TopIsLevel DEF Top
<1>2. /\ Len(levels') = n /\ Top' = l /\ levels'[n] = l
      /\ \A i \in 1 .. n - 1 : levels'[i] = levels[i]
  BY StackKept
<1>3. ActiveLevels' = ActiveLevels /\ ActiveLevels \in {n - 1, n}
  BY <1>2 DEF ActiveLevels
<1> HIDE DEF n
<1>4. \A i \in 1 .. ActiveLevels : levels'[i].task = levels[i].task /\ levels'[i].evt = levels[i].evt
  <2> TAKE i \in 1 .. ActiveLevels
  <2>1. i \in 1 .. n
    BY <1>1, <1>3
  <2>2. CASE i = n
    BY <1>1, <1>2, <2>2
  <2>3. CASE i # n
    <3>1. i \in 1 .. n - 1
      BY <1>1, <2>1, <2>3
    <3> QED BY <1>2, <3>1
  <2> QED BY <2>2, <2>3
<1> QED BY <1>3, <1>4 DEF Activations

(* Appending, written as a function.                                        *)
LEMMA AppendIsFunction ==
  ASSUME NEW S, NEW s \in Seq(S), NEW x \in S, NEW n \in Nat, n >= 1, Len(s) = n - 1
  PROVE  Append(s, x) = [i \in 1 .. n |-> IF i = n THEN x ELSE s[i]]
<1>1. /\ Append(s, x) \in Seq(S) /\ Len(Append(s, x)) = n
      /\ \A i \in 1 .. n - 1 : Append(s, x)[i] = s[i]
      /\ Append(s, x)[n] = x
  BY AppendProperties
<1>2. Append(s, x) = [i \in 1 .. n |-> Append(s, x)[i]]
  <2> DEFINE t == Append(s, x)
  <2>1. t \in Seq(S) /\ Len(t) = n
    BY <1>1
  <2> HIDE DEF t
  <2>2. t = [i \in 1 .. n |-> t[i]]
    BY <2>1
  <2> QED BY <2>2 DEF t
<1>3. \A i \in 1 .. n : i # n => i \in 1 .. n - 1
  OBVIOUS
<1> QED BY <1>1, <1>2, <1>3

Recorded(l) == [task |-> l.task, awaits |-> l.evt]

(* The abstract stack holds the levels that are in a callback.              *)
LEMMA ActivationsAreLevels ==
  ASSUME TypeOK
  PROVE  /\ ActiveLevels \in Nat
         /\ ActiveLevels = IF Top.task = NoTaskRunning THEN Len(levels) - 1 ELSE Len(levels)
         /\ Activations \in Seq([task : Task \cup {NoTaskRunning}, awaits : Event \cup {NoEvent}])
         /\ Len(Activations) = ActiveLevels
         /\ \A i \in 1 .. ActiveLevels : Activations[i] = Recorded(levels[i])
<1>1. Len(levels) \in Nat /\ Len(levels) >= 1
  BY TopIsLevel
<1>2. /\ ActiveLevels \in Nat /\ ActiveLevels <= Len(levels)
      /\ ActiveLevels = IF Top.task = NoTaskRunning THEN Len(levels) - 1 ELSE Len(levels)
  BY <1>1 DEF ActiveLevels
<1>3. \A i \in 1 .. ActiveLevels :
        Recorded(levels[i]) \in [task : Task \cup {NoTaskRunning}, awaits : Event \cup {NoEvent}]
  <2> TAKE i \in 1 .. ActiveLevels
  <2>1. i \in 1 .. Len(levels)
    BY <1>1, <1>2
  <2>2. levels[i] \in Level
    BY <2>1 DEF TypeOK
  <2> QED BY <2>2 DEF Level, Recorded
<1>4. Activations = [i \in 1 .. ActiveLevels |-> Recorded(levels[i])]
  BY DEF Activations, Recorded
<1> QED BY <1>2, <1>3, <1>4

(* A claim appends an activation, a return removes it, a wait and its end   *)
(* change the event of the last one.                                        *)
LEMMA OneMore ==
  ASSUME TypeOK, TypeOK', NEW l \in Level, levels' = Replace(l),
         Top.task = NoTaskRunning, l.task # NoTaskRunning
  PROVE  Activations' = Append(Activations, Recorded(l))
<1> DEFINE n == Len(levels)
<1>1. n \in Nat /\ n >= 1
  BY TopIsLevel
<1>2. /\ Len(levels') = n /\ Top' = l /\ levels'[n] = l
      /\ \A i \in 1 .. n - 1 : levels'[i] = levels[i]
  BY StackKept
<1>3. ActiveLevels = n - 1 /\ ActiveLevels' = n
  BY <1>2 DEF ActiveLevels
<1> HIDE DEF n
<1>4. \A i \in 1 .. n : levels'[i] = IF i = n THEN l ELSE levels[i]
  <2> TAKE i \in 1 .. n
  <2>1. i # n => i \in 1 .. n - 1
    BY <1>1
  <2> QED BY <1>2, <2>1
<1>5. /\ Activations = [i \in 1 .. n - 1 |-> Recorded(levels[i])]
      /\ Activations' = [i \in 1 .. n |-> Recorded(levels'[i])]
  BY <1>3 DEF Activations, Recorded
<1>6. /\ Activations \in Seq([task : Task \cup {NoTaskRunning}, awaits : Event \cup {NoEvent}])
      /\ Len(Activations) = n - 1
  BY <1>3, ActivationsAreLevels
<1>7. Recorded(l) \in [task : Task \cup {NoTaskRunning}, awaits : Event \cup {NoEvent}]
  BY DEF Recorded, Level
<1>8. Append(Activations, Recorded(l))
        = [i \in 1 .. n |-> IF i = n THEN Recorded(l) ELSE Activations[i]]
  <2> DEFINE S == [task : Task \cup {NoTaskRunning}, awaits : Event \cup {NoEvent}]
             x == Recorded(l)
             a == Activations
  <2>1. a \in Seq(S) /\ x \in S /\ n \in Nat /\ n >= 1 /\ Len(a) = n - 1
    BY <1>1, <1>6, <1>7
  <2> HIDE DEF S, x, a
  <2>2. Append(a, x) = [i \in 1 .. n |-> IF i = n THEN x ELSE a[i]]
    BY <2>1, AppendIsFunction
  <2> QED BY <2>2 DEF x, a
<1>9. \A i \in 1 .. n : Recorded(levels'[i]) = IF i = n THEN Recorded(l) ELSE Activations[i]
  <2> TAKE i \in 1 .. n
  <2>1. i # n => i \in 1 .. n - 1
    BY <1>1
  <2> QED BY <1>4, <1>5, <2>1
<1> QED BY <1>5, <1>8, <1>9

(* A callback that returns leaves the abstract stack.                       *)
LEMMA OneLess ==
  ASSUME TypeOK, NEW l \in Level, levels' = Replace(l),
         Top.task # NoTaskRunning, l.task = NoTaskRunning
  PROVE  Activations' = SubSeq(Activations, 1, Len(Activations) - 1)
<1> DEFINE n == Len(levels)
<1>1. n \in Nat /\ n >= 1
  BY TopIsLevel
<1>2. /\ Len(levels') = n /\ Top' = l
      /\ \A i \in 1 .. n - 1 : levels'[i] = levels[i]
  BY StackKept
<1>3. ActiveLevels = n /\ ActiveLevels' = n - 1
  BY <1>2 DEF ActiveLevels
<1> HIDE DEF n
<1>4. /\ Activations \in Seq([task : Task \cup {NoTaskRunning}, awaits : Event \cup {NoEvent}])
      /\ Len(Activations) = n
      /\ \A i \in 1 .. n : Activations[i] = Recorded(levels[i])
  BY <1>3, ActivationsAreLevels
<1>5. Activations' = [i \in 1 .. n - 1 |-> Recorded(levels'[i])]
  BY <1>3 DEF Activations, Recorded
<1>6. SubSeq(Activations, 1, n - 1) = [i \in 1 .. n - 1 |-> Activations[i]]
  BY <1>1, <1>4
<1>7. \A i \in 1 .. n - 1 : Recorded(levels'[i]) = Activations[i]
  <2> TAKE i \in 1 .. n - 1
  <2>1. i \in 1 .. n
    BY <1>1
  <2> QED BY <1>2, <1>4, <2>1
<1> QED BY <1>4, <1>5, <1>6, <1>7

(* A callback that waits, or stops waiting, changes its last entry.         *)
LEMMA LastChanged ==
  ASSUME TypeOK, NEW l \in Level, levels' = Replace(l),
         Top.task # NoTaskRunning, l.task = Top.task
  PROVE  Activations' = [Activations EXCEPT ![Len(Activations)].awaits = l.evt]
<1> DEFINE n == Len(levels)
<1>1. n \in Nat /\ n >= 1 /\ Top = levels[n]
  BY TopIsLevel DEF Top
<1>2. /\ Len(levels') = n /\ Top' = l /\ levels'[n] = l
      /\ \A i \in 1 .. n - 1 : levels'[i] = levels[i]
  BY StackKept
<1>3. ActiveLevels = n /\ ActiveLevels' = n
  BY <1>2 DEF ActiveLevels
<1> HIDE DEF n
<1>4. Len(Activations) = n
  BY <1>3, ActivationsAreLevels
<1>5. /\ Activations = [i \in 1 .. n |-> Recorded(levels[i])]
      /\ Activations' = [i \in 1 .. n |-> Recorded(levels'[i])]
  BY <1>3 DEF Activations, Recorded
<1>6. \A i \in 1 .. n : i # n => levels'[i] = levels[i]
  <2> TAKE i \in 1 .. n
  <2>1. i # n => i \in 1 .. n - 1
    BY <1>1
  <2> QED BY <1>2, <2>1
<1>7. Recorded(levels'[n]) = [Recorded(levels[n]) EXCEPT !.awaits = l.evt]
  BY <1>1, <1>2 DEF Recorded
<1>8. [Activations EXCEPT ![n].awaits = l.evt]
        = [i \in 1 .. n |-> IF i = n THEN [Activations[n] EXCEPT !.awaits = l.evt]
                                     ELSE Activations[i]]
  BY <1>1, <1>5
<1>9. \A i \in 1 .. n : Recorded(levels'[i])
        = IF i = n THEN [Activations[n] EXCEPT !.awaits = l.evt] ELSE Activations[i]
  BY <1>1, <1>5, <1>6, <1>7
<1> QED BY <1>4, <1>5, <1>8, <1>9

-----------------------------------------------------------------------------
(* Every step.                                                              *)

Refines == Shape' /\ [Scheduler!Next]_(Scheduler!vars)

(* The top level has the shape of a level.                                  *)
LEMMA TopShape ==
  ASSUME TypeOK, Shape
  PROVE  LevelShape(Top)
BY TopIsLevel DEF Shape, Top

(* A step that keeps task and event of the top level is a stutter.          *)
LEMMA Unseen ==
  ASSUME TypeOK, Shape, NEW l \in Level, levels' = Replace(l),
         l.task = Top.task, l.evt = Top.evt,
         Claimed(l) <=> Claimed(Top), l.pc = "wait" <=> Top.pc = "wait",
         UNCHANGED <<TaskSet, EvtSet>>
  PROVE  Refines
<1>1. LevelShape(l)
  BY TopShape DEF LevelShape
<1>2. Shape'
  BY <1>1, ShapeReplaced
<1>3. Activations' = Activations
  BY SameActivations
<1>4. UNCHANGED Scheduler!vars
  BY <1>3 DEF Scheduler!vars, Activations
<1> QED BY <1>2, <1>4 DEF Refines

(* The search is not seen by the abstract scheduler.                        *)
LEMMA SearchRefines ==
  ASSUME RInv,
         \/ Enter \/ \E p \in Prio : SelectPriority(p)
         \/ Overrun \/ ChooseTask \/ Dispatch \/ ExitLoop \/ IdleCheck \/ WakeUp
  PROVE  Refines
<1>0. TypeOK /\ Shape /\ Top \in Level /\ LevelShape(Top)
  BY TopIsLevel, TopShape DEF RInv, IInv
<1>1. CASE Enter
  <2> DEFINE l == [Snapshot(Top) EXCEPT !.super_mask_backup = SuperMask]
  <2>1. l \in Level /\ l.pc = "loop" /\ l.task = Top.task /\ l.evt = Top.evt
    BY <1>0, SnapshotIsLevel DEF Snapshot, Level, TypeOK
  <2>2. levels' = Replace(l) /\ UNCHANGED <<TaskSet, EvtSet>> /\ Top.pc = "enter"
    BY <1>1 DEF Enter, At
  <2> HIDE DEF l
  <2> QED BY <1>0, <2>1, <2>2, Unseen DEF Claimed
<1>2. ASSUME NEW p \in Prio, SelectPriority(p) PROVE Refines
  <2> DEFINE l == [Top EXCEPT !.pc = "choose", !.counter = p,
                              !.current_task_set = RunnableAt(p)]
  <2>1. l \in Level /\ l.pc = "choose" /\ l.task = Top.task /\ l.evt = Top.evt
    BY <1>0 DEF Level, Pc, RunnableAt, TypeOK
  <2>2. levels' = Replace(l) /\ UNCHANGED <<TaskSet, EvtSet>> /\ Top.pc = "loop"
    BY <1>2 DEF SelectPriority, At
  <2> HIDE DEF l
  <2> QED BY <1>0, <2>1, <2>2, Unseen DEF Claimed
<1>3. CASE Overrun
  <2> DEFINE l == [Top EXCEPT !.pc = "overrun"]
  <2>1. l \in Level /\ l.pc = "overrun" /\ l.task = Top.task /\ l.evt = Top.evt
    BY <1>0 DEF Level, Pc
  <2>2. levels' = Replace(l) /\ UNCHANGED <<TaskSet, EvtSet>> /\ Top.pc = "loop"
    BY <1>3 DEF Overrun, At, Goto
  <2> HIDE DEF l
  <2> QED BY <1>0, <2>1, <2>2, Unseen DEF Claimed
<1>4. CASE ChooseTask
  <2> DEFINE l == [Top EXCEPT !.pc = "claim", !.counter = 0, !.current_task_set = {}]
  <2>1. 0 \in Prio
    BY SequencerAssumption DEF Prio
  <2>2. l \in Level /\ l.pc = "claim" /\ l.task = Top.task /\ l.evt = Top.evt
    BY <1>0, <2>1 DEF Level, Pc
  <2>3. levels' = Replace(l) /\ UNCHANGED <<TaskSet, EvtSet>> /\ Top.pc = "choose"
    BY <1>4 DEF ChooseTask, At
  <2> HIDE DEF l
  <2> QED BY <1>0, <2>2, <2>3, Unseen DEF Claimed
<1>5. CASE Dispatch
  <2> DEFINE l == [NewLevel(Top.Mask_bm) EXCEPT
                     !.pc = "task", !.super_mask_backup = Top.super_mask_backup,
                     !.task = Top.task, !.saved_rr = round_robin']
  <2>1. NewLevel(Top.Mask_bm) \in Level /\ round_robin' \in [Prio -> SUBSET Task]
    BY <1>0, <1>5, NewLevelIsLevel DEF Level, TypeOK, Dispatch
  <2>2. l \in Level /\ l.pc = "task" /\ l.task = Top.task
    BY <1>0, <2>1 DEF Level, Pc
  <2>3. l.evt = NoEvent
    BY DEF NewLevel
  <2>4. levels' = Replace(l) /\ UNCHANGED <<TaskSet, EvtSet>> /\ Top.pc = "dispatch"
    BY <1>5 DEF Dispatch, At
  <2>5. Top.evt = NoEvent
    BY <1>0, <2>4 DEF LevelShape
  <2> HIDE DEF l
  <2> QED BY <1>0, <2>2, <2>3, <2>4, <2>5, Unseen DEF Claimed
<1>6. CASE ExitLoop
  <2> DEFINE target == IF Top.local_evtset \cap EvtWaited = {}
                       THEN "preidle" ELSE "leave"
             l == [Top EXCEPT !.pc = target,
                              !.local_taskset = {}, !.local_evtset = {},
                              !.local_taskmask = {}, !.local_evtwaited = {}]
  <2>1. l \in Level /\ l.pc \in {"preidle", "leave"} /\ l.task = Top.task /\ l.evt = Top.evt
    BY <1>0 DEF Level, Pc
  <2>2. levels' = Replace(l) /\ UNCHANGED <<TaskSet, EvtSet>> /\ Top.pc = "loop"
    BY <1>6 DEF ExitLoop, At
  <2> HIDE DEF l
  <2> QED BY <1>0, <2>1, <2>2, Unseen DEF Claimed
<1>7. CASE IdleCheck
  <2> DEFINE l == [Top EXCEPT !.pc = IF NothingToDo THEN "idle" ELSE "leave"]
  <2>1. l \in Level /\ l.pc \in {"idle", "leave"} /\ l.task = Top.task /\ l.evt = Top.evt
    BY <1>0 DEF Level, Pc
  <2>2. levels' = Replace(l) /\ UNCHANGED <<TaskSet, EvtSet>> /\ Top.pc = "preidle"
    BY <1>7 DEF IdleCheck, At, Goto
  <2> HIDE DEF l
  <2> QED BY <1>0, <2>1, <2>2, Unseen DEF Claimed
<1>8. CASE WakeUp
  <2> DEFINE l == [Top EXCEPT !.pc = "leave"]
  <2>1. l \in Level /\ l.pc = "leave" /\ l.task = Top.task /\ l.evt = Top.evt
    BY <1>0 DEF Level, Pc
  <2>2. levels' = Replace(l) /\ UNCHANGED <<TaskSet, EvtSet>> /\ Top.pc = "idle"
    BY <1>8 DEF WakeUp, At, Goto
  <2> HIDE DEF l
  <2> QED BY <1>0, <2>1, <2>2, Unseen DEF Claimed
<1> QED BY <1>1, <1>2, <1>3, <1>4, <1>5, <1>6, <1>7, <1>8

(* A task is claimed: it is pending, and no activation is its own, since    *)
(* the mask of the run excludes them.                                       *)
LEMMA ClaimStarts ==
  ASSUME RInv, TypeOK', Claim
  PROVE  Refines
<1> DEFINE c == CurrentTaskIdx
           l == [Top EXCEPT !.pc = "dispatch", !.task = c]
           n == Len(levels)
<1>0. TypeOK /\ Shape /\ Top \in Level /\ LevelShape(Top) /\ n \in Nat /\ n >= 1
  BY TopIsLevel, TopShape DEF RInv, IInv
<1>1. At("claim") /\ levels' = Replace(l) /\ TaskSet' = TaskSet \ {c} /\ EvtSet' = EvtSet
  BY DEF Claim
<1>2. c \in TaskSet /\ c \in SuperMask /\ c \in Task
  BY <1>0, <1>1 DEF RInv, IInv, ClaimedTaskIsPending, TypeOK
<1>3. l \in Level /\ l.pc = "dispatch" /\ l.task = c /\ l.evt = Top.evt
  BY <1>0, <1>2 DEF Level, Pc
<1>4. Top.task = NoTaskRunning /\ Top.evt = NoEvent /\ l.task # NoTaskRunning
  BY <1>0, <1>1, <1>2, <1>3, NoTaskRunningIsNoTask DEF LevelShape, Claimed, At
<1> HIDE DEF l
<1>5. Shape'
  <2>1. LevelShape(l)
    BY <1>3, <1>4 DEF LevelShape, Claimed
  <2> QED BY <1>0, <1>1, <1>3, <2>1, ShapeReplaced
<1>6. Activations' = Append(Activations, [task |-> c, awaits |-> NoEvent])
  BY <1>0, <1>1, <1>3, <1>4, OneMore DEF Recorded
<1>7. /\ Len(Activations) = n - 1
      /\ \A i \in 1 .. n - 1 : /\ Activations[i].task = levels[i].task
                               /\ Activations[i].awaits = levels[i].evt
  <2>1. /\ Len(Activations) = n - 1
        /\ \A i \in 1 .. n - 1 : Activations[i] = Recorded(levels[i])
    BY <1>0, <1>4, ActivationsAreLevels
  <2>2. \A x : Recorded(x).task = x.task /\ Recorded(x).awaits = x.evt
    BY DEF Recorded
  <2> QED BY <2>1, <2>2
<1>8. \A i \in 1 .. n - 1 : levels[i].pc = "wait" /\ levels[i].evt # NoEvent /\ levels[i].task # c
  <2> TAKE i \in 1 .. n - 1
  <2>1. i \in 1 .. n
    <3> HIDE DEF n
    <3> QED BY <1>0
  <2>2. levels[i].pc = "wait"
    BY DEF RInv, IInv, CallStack
  <2>3. levels[i].evt # NoEvent
    BY <1>0, <2>1, <2>2, SequencerAssumption DEF Shape, LevelShape
  <2>4. SuperMask = Task \ Outer(n - 1)
    BY <1>1 DEF RInv, Nesting, At
  <2>5. levels[i].task \in Outer(n - 1)
    BY DEF Outer
  <2> QED BY <1>2, <2>2, <2>3, <2>4, <2>5
<1>9. ~Scheduler!Executing
  <2>1. CASE n = 1
    <3>1. Activations = <<>>
      BY <1>0, <1>7, <2>1, ActivationsAreLevels
    <3> QED BY <3>1 DEF Scheduler!Executing, Activations
  <2>2. CASE n # 1
    <3>1. n - 1 \in 1 .. n - 1
      <4> HIDE DEF n
      <4> QED BY <1>0, <2>2
    <3>2. Activations[Len(Activations)].awaits # NoEvent
      BY <1>7, <1>8, <3>1
    <3> QED BY <3>2 DEF Scheduler!Executing, Scheduler!Innermost, Activations
  <2> QED BY <2>1, <2>2
<1>10. \A i \in 1 .. Len(Activations) : Activations[i].task # c
  BY <1>7, <1>8
<1>11. PICK t \in Task : t = c
  BY <1>2
<1>12. Scheduler!Start(t)
  BY <1>1, <1>2, <1>6, <1>9, <1>10, <1>11 DEF Scheduler!Start, Activations
<1>13. Scheduler!Next
  BY <1>12, Zenon DEF Scheduler!Next
<1> QED BY <1>5, <1>13 DEF Refines

(* A callback that runs is the innermost activation, and waits for nothing. *)
LEMMA RunningExecutes ==
  ASSUME TypeOK, Shape, Top.pc \in {"dispatch", "task"}
  PROVE  Scheduler!Executing /\ Top.task # NoTaskRunning
<1>1. LevelShape(Top) /\ Len(levels) \in Nat /\ Len(levels) >= 1 /\ Top = levels[Len(levels)]
  BY TopShape, TopIsLevel DEF Top
<1>2. Top.task # NoTaskRunning /\ Top.evt = NoEvent
  BY <1>1 DEF LevelShape, Claimed
<1>3. /\ Len(Activations) = Len(levels)
      /\ Activations[Len(levels)] = Recorded(Top)
  BY <1>1, <1>2, ActivationsAreLevels
<1>4. Recorded(Top).awaits = NoEvent
  BY <1>2 DEF Recorded
<1>5. Activations # <<>>
  BY <1>1, <1>3
<1> QED BY <1>2, <1>3, <1>4, <1>5 DEF Scheduler!Executing, Scheduler!Innermost, Activations

(* The return of a callback is its abstract end.                            *)
LEMMA ReturnFinishes ==
  ASSUME RInv, CatchWarning \/ \E t \in Task : TaskReturn(t)
  PROVE  Refines
<1>0. TypeOK /\ Shape /\ Top \in Level
  BY TopIsLevel DEF RInv, IInv
<1>1. ASSUME NEW l \in Level, levels' = Replace(l), l.pc = "loop", l.task = NoTaskRunning,
             l.evt = NoEvent, Top.pc \in {"dispatch", "task"}, UNCHANGED <<TaskSet, EvtSet>>
      PROVE  Refines
  <2>1. Shape'
    BY <1>0, <1>1, ShapeReplaced DEF LevelShape, Claimed
  <2>2. Scheduler!Executing /\ Top.task # NoTaskRunning
    BY <1>0, <1>1, RunningExecutes
  <2>3. Activations' = SubSeq(Activations, 1, Len(Activations) - 1)
    BY <1>0, <1>1, <2>2, OneLess
  <2>4. Scheduler!Finish
    BY <1>1, <2>2, <2>3 DEF Scheduler!Finish, Activations
  <2>5. Scheduler!Next
    BY <2>4 DEF Scheduler!Next
  <2> QED BY <2>1, <2>5 DEF Refines
<1>2. LevelShape(Top)
  BY <1>0, TopShape
<1>3. CASE CatchWarning
  <2> DEFINE l == [Top EXCEPT !.pc = "loop", !.task = NoTaskRunning]
  <2>1. /\ l \in Level /\ l.pc = "loop" /\ l.task = NoTaskRunning
        /\ l.evt = Top.evt
    BY <1>0 DEF Level, Pc
  <2>2. levels' = Replace(l) /\ UNCHANGED <<TaskSet, EvtSet>> /\ Top.pc = "dispatch"
    BY <1>3 DEF CatchWarning, At
  <2>3. Top.evt = NoEvent
    BY <1>2, <2>2 DEF LevelShape
  <2> HIDE DEF l
  <2> QED BY <1>1, <2>1, <2>2, <2>3
<1>4. ASSUME NEW t \in Task, TaskReturn(t) PROVE Refines
  <2> DEFINE l == [Snapshot(Top) EXCEPT
                     !.task = NoTaskRunning, !.saved_rr = [p \in Prio |-> {}]]
  <2>1. /\ l \in Level /\ l.pc = "loop" /\ l.task = NoTaskRunning
        /\ l.evt = Top.evt
    BY <1>0, SnapshotIsLevel DEF Snapshot, Level
  <2>2. levels' = Replace(l) /\ UNCHANGED <<TaskSet, EvtSet>> /\ Top.pc = "task"
    BY <1>4 DEF TaskReturn, At
  <2>3. Top.evt = NoEvent
    BY <1>2, <2>2 DEF LevelShape
  <2> HIDE DEF l
  <2> QED BY <1>1, <2>1, <2>2, <2>3
<1> QED BY <1>3, <1>4

(* A wait is an abstract wait for the same event.                           *)
LEMMA WaitAwaits ==
  ASSUME RInv, NEW e \in Event, WaitEvt(e)
  PROVE  Refines
<1> DEFINE l == [Top EXCEPT !.pc = "wait", !.evt = e,
                            !.waited_backup = EvtWaited,
                            !.current_task_idx = CurrentTaskIdx]
<1>0. TypeOK /\ Shape /\ Top \in Level /\ LevelShape(Top) /\ Top.pc = "task"
  BY TopIsLevel, TopShape DEF RInv, IInv, WaitEvt, At
<1>1. l \in Level /\ l.pc = "wait" /\ l.task = Top.task /\ l.evt = e
  BY <1>0 DEF Level, Pc, TypeOK
<1>2. levels' = Replace(l) /\ UNCHANGED <<TaskSet, EvtSet>>
  BY DEF WaitEvt
<1> HIDE DEF l
<1>3. Scheduler!Executing /\ Top.task # NoTaskRunning
  BY <1>0, RunningExecutes
<1>4. Shape'
  BY <1>0, <1>1, <1>2, <1>3, ShapeReplaced DEF LevelShape, Claimed
<1>5. Activations' = [Activations EXCEPT ![Len(Activations)].awaits = e]
  BY <1>0, <1>1, <1>2, <1>3, LastChanged
<1>6. Scheduler!Await(e)
  BY <1>2, <1>3, <1>5 DEF Scheduler!Await, Activations
<1>7. Scheduler!Next
  BY <1>6, Zenon DEF Scheduler!Next
<1> QED BY <1>4, <1>7 DEF Refines

(* Its end is the abstract end of the wait.                                 *)
LEMMA WaitEndResumes ==
  ASSUME RInv, WaitEvtReturn
  PROVE  Refines
<1> DEFINE l == [Top EXCEPT !.pc = "task", !.evt = NoEvent,
                            !.waited_backup = {},
                            !.current_task_idx = NoTaskRunning]
           n == Len(levels)
<1>0. /\ TypeOK /\ Shape /\ Top \in Level /\ LevelShape(Top) /\ Top.pc = "wait"
      /\ n \in Nat /\ n >= 1 /\ Top = levels[n]
  BY TopIsLevel, TopShape DEF RInv, IInv, WaitEvtReturn, At, Top
<1>1. l \in Level /\ l.pc = "task" /\ l.task = Top.task /\ l.evt = NoEvent
  BY <1>0 DEF Level, Pc
<1>2. /\ levels' = Replace(l) /\ TaskSet' = TaskSet
      /\ Top.evt \in EvtSet /\ EvtSet' = EvtSet \ {Top.evt}
  BY DEF WaitEvtReturn
<1>3. Top.task # NoTaskRunning /\ Top.evt # NoEvent
  BY <1>0, SequencerAssumption DEF LevelShape, Claimed
<1> HIDE DEF l
<1>4. Shape'
  BY <1>0, <1>1, <1>2, <1>3, ShapeReplaced DEF LevelShape, Claimed
<1>5. Activations' = [Activations EXCEPT ![Len(Activations)].awaits = NoEvent]
  BY <1>0, <1>1, <1>2, <1>3, LastChanged
<1>6. /\ Len(Activations) = n /\ Activations[n] = Recorded(Top)
      /\ Recorded(Top).awaits = Top.evt
  BY <1>0, <1>3, ActivationsAreLevels DEF Recorded
<1>7. Activations # <<>> /\ Activations[Len(Activations)].awaits = Top.evt
  BY <1>0, <1>6
<1>8. Scheduler!Resume
  BY <1>2, <1>3, <1>5, <1>7
     DEF Scheduler!Resume, Scheduler!Awaiting, Scheduler!Innermost, Activations
<1>9. Scheduler!Next
  BY <1>8 DEF Scheduler!Next
<1> QED BY <1>4, <1>9 DEF Refines

(* A nested run begins and ends without an activation of its own.           *)
LEMMA NestedRunUnseen ==
  ASSUME RInv, EvtIdle \/ Leave
  PROVE  Refines
<1> DEFINE n == Len(levels)
<1>0. /\ TypeOK /\ Shape /\ Top \in Level /\ LevelShape(Top)
      /\ n \in Nat /\ n >= 1 /\ Top = levels[n]
  BY TopIsLevel, TopShape DEF RInv, IInv, Top
<1>1. UNCHANGED <<TaskSet, EvtSet>>
  BY DEF EvtIdle, Leave
<1>2. CASE EvtIdle
  <2> DEFINE l == NewLevel(Task \ {Top.current_task_idx})
  <2>1. l \in Level /\ l.pc = "enter" /\ l.task = NoTaskRunning /\ l.evt = NoEvent
    BY NewLevelIsLevel DEF NewLevel
  <2>2. levels' = Append(levels, l) /\ Top.pc = "wait"
    BY <1>2 DEF EvtIdle, At
  <2> HIDE DEF l
  <2>3. /\ Len(levels') = n + 1 /\ levels'[n + 1] = l
        /\ \A i \in 1 .. n : levels'[i] = levels[i]
    BY <1>0, <2>1, <2>2, AppendProperties DEF TypeOK
  <2>4. Shape'
    <3>1. ASSUME NEW i \in 1 .. Len(levels') PROVE LevelShape(levels'[i])
      <4>1. CASE i = n + 1
        BY <2>1, <2>3, <4>1 DEF LevelShape, Claimed
      <4>2. CASE i # n + 1
        <5>1. i \in 1 .. n
          BY <1>0, <2>3, <4>2
        <5> QED BY <1>0, <2>3, <5>1 DEF Shape
      <4> QED BY <4>1, <4>2
    <3> QED BY <3>1 DEF Shape, LevelShape, Claimed
  <2>5. Top' = l
    BY <2>3 DEF Top
  <2>6. ActiveLevels = n /\ ActiveLevels' = n
    <3>1. Top.task # NoTaskRunning
      BY <1>0, <2>2 DEF LevelShape, Claimed
    <3> QED BY <1>0, <2>1, <2>3, <2>5, <3>1 DEF ActiveLevels
  <2>7. Activations' = Activations
    BY <2>3, <2>6 DEF Activations
  <2>8. UNCHANGED Scheduler!vars
    BY <1>1, <2>7 DEF Scheduler!vars, Activations
  <2> QED BY <2>4, <2>8 DEF Refines
<1>3. CASE Leave
  <2>1. Top.task = NoTaskRunning
    BY <1>0, <1>3 DEF LevelShape, Claimed, Leave, At
  <2>2. ActiveLevels = n - 1
    BY <2>1 DEF ActiveLevels
  <2>3. CASE n = 1
    <3>1. levels' = <<NewLevel(Task)>>
      BY <1>3, <2>3 DEF Leave
    <3>2. NewLevel(Task).task = NoTaskRunning /\ LevelShape(NewLevel(Task))
      BY DEF NewLevel, LevelShape, Claimed
    <3>3. NewLevel(Task) \in Level
      BY NewLevelIsLevel
    <3>4. Len(levels') = 1 /\ levels'[1] = NewLevel(Task) /\ Top' = NewLevel(Task)
      BY <3>1, <3>3 DEF Top
    <3>5. Shape'
      BY <3>2, <3>4 DEF Shape, LevelShape, Claimed
    <3>6. ActiveLevels' = 0 /\ ActiveLevels = 0
      BY <2>2, <2>3, <3>2, <3>4 DEF ActiveLevels
    <3>7. Activations' = Activations
      BY <3>6 DEF Activations
    <3>8. UNCHANGED Scheduler!vars
      BY <1>1, <3>7 DEF Scheduler!vars, Activations
    <3> QED BY <3>5, <3>8 DEF Refines
  <2>4. CASE n # 1
    <3>1. levels' = SubSeq(levels, 1, n - 1)
      BY <1>3, <2>4, Zenon DEF Leave
    <3>2. n - 1 \in 1 .. n - 1 /\ n - 1 \in 1 .. n /\ \A i \in 1 .. n - 1 : i \in 1 .. n
      <4> HIDE DEF n
      <4> QED BY <1>0, <2>4
    <3>3. Len(levels') = n - 1 /\ \A i \in 1 .. n - 1 : levels'[i] = levels[i]
      BY <1>0, <3>1, <3>2 DEF TypeOK
    <3>4. levels[n - 1].pc = "wait"
      BY <3>2 DEF RInv, IInv, CallStack
    <3>5. Top' = levels[n - 1]
      BY <3>2, <3>3 DEF Top
    <3>6. levels[n - 1].task # NoTaskRunning
      BY <1>0, <3>2, <3>4 DEF Shape, LevelShape, Claimed
    <3>7. Shape'
      BY <1>0, <3>2, <3>3 DEF Shape, LevelShape, Claimed
    <3>8. ActiveLevels' = n - 1
      BY <3>3, <3>5, <3>6 DEF ActiveLevels
    <3>9. Activations' = Activations
      BY <2>2, <3>3, <3>8 DEF Activations
    <3>10. UNCHANGED Scheduler!vars
      BY <1>1, <3>9 DEF Scheduler!vars, Activations
    <3> QED BY <3>7, <3>10 DEF Refines
  <2> QED BY <2>3, <2>4
<1> QED BY <1>2, <1>3

(* The calls of tasks and interrupts are the abstract ones.                 *)
LEMMA CallsRefine ==
  ASSUME RInv, Call \/ UNCHANGED vars
  PROVE  Refines
<1>1. levels' = levels
  BY DEF Call, SetTask, SetEvt, ClrEvt, PauseTask, ResumeTask, vars
<1>2. Shape' /\ Activations' = Activations
  BY <1>1 DEF RInv, Shape, LevelShape, Claimed, Activations, ActiveLevels, Top
<1>3. ASSUME UNCHANGED <<TaskSet, EvtSet>> PROVE Refines
  <2>1. UNCHANGED Scheduler!vars
    BY <1>2, <1>3 DEF Scheduler!vars, Activations
  <2> QED BY <1>2, <2>1 DEF Refines
<1>4. ASSUME NEW r \in Requests, SetTask(r[1], r[2]) PROVE Refines
  <2>1. PICK t \in Task : t = r[1]
    BY SequencerAssumption
  <2>2. Scheduler!Request(t)
    BY <1>2, <1>4, <2>1 DEF Scheduler!Request, SetTask, Activations
  <2>3. Scheduler!Next
    BY <2>2, Zenon DEF Scheduler!Next
  <2> QED BY <1>2, <2>3 DEF Refines
<1>5. ASSUME NEW e \in Event, SetEvt(e) PROVE Refines
  <2>1. Scheduler!Signal(e)
    BY <1>2, <1>5 DEF Scheduler!Signal, SetEvt, Activations
  <2>2. Scheduler!Next
    BY <2>1, Zenon DEF Scheduler!Next
  <2> QED BY <1>2, <2>2 DEF Refines
<1>6. ASSUME NEW e \in Clearable, ClrEvt(e) PROVE Refines
  <2>1. e \in Event
    BY SequencerAssumption
  <2>2. Scheduler!Cancel(e)
    BY <1>2, <1>6 DEF Scheduler!Cancel, ClrEvt, Activations
  <2>3. Scheduler!Next
    BY <2>1, <2>2, Zenon DEF Scheduler!Next
  <2> QED BY <1>2, <2>3 DEF Refines
<1>7. ASSUME NEW t \in Pausable, PauseTask(t) \/ ResumeTask(t) PROVE Refines
  BY <1>3, <1>7 DEF PauseTask, ResumeTask
<1>8. CASE UNCHANGED vars
  BY <1>3, <1>8 DEF vars
<1> QED BY <1>4, <1>5, <1>6, <1>7, <1>8 DEF Call

(* Every step refines.                                                      *)
LEMMA NextRefines ==
  ASSUME RInv, [Next]_vars
  PROVE  Refines
<1>1. TypeOK'
  BY NextIInv DEF RInv, IInv
<1>2. CASE RunStep
  BY <1>1, <1>2, SearchRefines, ClaimStarts, ReturnFinishes, NestedRunUnseen DEF RunStep
<1>3. ASSUME NEW t \in Task, TaskReturn(t) PROVE Refines
  BY <1>3, ReturnFinishes
<1>4. ASSUME NEW e \in Event, WaitEvt(e) PROVE Refines
  BY <1>4, WaitAwaits
<1>5. CASE WaitStep
  BY <1>5, NestedRunUnseen, WaitEndResumes DEF WaitStep
<1>6. CASE Call \/ UNCHANGED vars
  BY <1>6, CallsRefine
<1> QED BY <1>2, <1>3, <1>4, <1>5, <1>6 DEF Next

(* The initial state refines.                                               *)
LEMMA InitRefines == Init => Shape /\ Scheduler!Init
<1> SUFFICES ASSUME Init PROVE Shape /\ Scheduler!Init
  OBVIOUS
<1>1. NewLevel(Task) \in Level
  BY NewLevelIsLevel
<1>2. Len(levels) = 1 /\ levels[1] = NewLevel(Task) /\ Top = NewLevel(Task)
  BY <1>1 DEF Init, Top
<1>3. NewLevel(Task).task = NoTaskRunning /\ LevelShape(NewLevel(Task))
  BY DEF NewLevel, LevelShape, Claimed
<1>4. Shape
  BY <1>2, <1>3 DEF Shape
<1>5. ActiveLevels = 0 /\ TypeOK
  BY <1>2, <1>3, InitIInv DEF ActiveLevels, IInv
<1>6. Activations = <<>>
  BY <1>5, ActivationsAreLevels
<1> QED BY <1>4, <1>6 DEF Scheduler!Init, Activations, Init

(* The sequencer is the abstract scheduler: a callback starts once for its  *)
(* requests, never while it is active, and waits end innermost first.       *)
THEOREM ImplementsScheduler == Spec => ImplementsTaskScheduler
<1>1. Init => RInv /\ Scheduler!Init
  BY InitIInv, InitNesting, InitRefines DEF RInv
<1>2. RInv /\ [Next]_vars => RInv' /\ [Scheduler!Next]_(Scheduler!vars)
  BY NextIInv, NextNesting, NextRefines DEF RInv, Refines
<1> QED BY <1>1, <1>2, PTL DEF Spec, ImplementsTaskScheduler, Scheduler!Spec
=============================================================================
