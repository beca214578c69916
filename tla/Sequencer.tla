------------------------------ MODULE Sequencer ------------------------------
(***************************************************************************)
(* The run-to-completion scheduler of the firmware, Utilities/stm32_seq.c. *)
(*                                                                         *)
(* One main thread runs UTIL_SEQ_Run forever.  A task callback that calls  *)
(* UTIL_SEQ_WaitEvt re-enters UTIL_SEQ_Run below itself, so the C stack is *)
(* a sequence of levels, each a call of UTIL_SEQ_Run, the callback it runs *)
(* and the event that callback waits for.  Interrupts call SetTask and     *)
(* SetEvt between any two steps of the main thread except inside its       *)
(* critical sections: a critical section is one step here, and the idle    *)
(* section, which contains UTIL_SEQ_Idle, is the state pc = "idle" in which*)
(* no interrupt action is enabled.                                         *)
(*                                                                         *)
(* Bit masks are sets of bit numbers.  The initial state is the one after  *)
(* the application's initialisation, when the set of registered callbacks  *)
(* no longer changes.                                                      *)
(***************************************************************************)
EXTENDS Naturals, Sequences

CONSTANTS
  TaskNbr,      (* number of task identifiers (UTIL_SEQ_CONF_TASK_NBR)      *)
  PrioNbr,      (* number of priorities (UTIL_SEQ_CONF_PRIO_NBR)            *)
  Event,        (* event bits                                               *)
  Registered,   (* tasks whose TaskCb is not NULL                           *)
  Requests,     (* the <<task, priority>> pairs passed to UTIL_SEQ_SetTask  *)
  Pausable,     (* tasks passed to UTIL_SEQ_PauseTask / UTIL_SEQ_ResumeTask *)
  Clearable,    (* events passed to UTIL_SEQ_ClrEvt                         *)
  Waits         (* the <<task, event>> pairs where the task's callback      *)
                (* calls UTIL_SEQ_WaitEvt on the event                      *)

Task == 0 .. TaskNbr - 1
Prio == 0 .. PrioNbr - 1

NoTaskRunning == 256          \* UTIL_SEQ_NOTASKRUNNING: no task number
NoBit == 255                  \* (uint8_t)(31 - __CLZ(0))
NoEvent == "no event"

ASSUME SequencerAssumption ==
  /\ TaskNbr \in 1 .. 32
  /\ PrioNbr \in Nat \ {0}
  /\ NoEvent \notin Event
  /\ Registered \subseteq Task
  /\ Requests \subseteq Task \X Prio
  /\ Pausable \subseteq Task
  /\ Clearable \subseteq Event
  /\ Waits \subseteq Task \X Event

VARIABLES
  TaskSet, TaskMask, SuperMask, EvtSet, EvtWaited, CurrentTaskIdx,
  priority,       \* TaskPrio[p].priority
  round_robin,    \* TaskPrio[p].round_robin
  TaskClearList,
  levels          \* the calls of UTIL_SEQ_Run on the C stack, outermost first

vars == <<TaskSet, TaskMask, SuperMask, EvtSet, EvtWaited, CurrentTaskIdx,
          priority, round_robin, TaskClearList, levels>>

-----------------------------------------------------------------------------
(* The C stack.  A local that is dead is kept at its initial value.         *)

Pc == {"enter", "loop", "choose", "claim", "dispatch", "task", "wait",
       "preidle", "idle", "leave", "overrun"}

Level ==
  [ pc : Pc,
    Mask_bm : SUBSET Task,             \* argument of UTIL_SEQ_Run
    super_mask_backup : SUBSET Task,
    local_taskset : SUBSET Task,
    local_evtset : SUBSET Event,
    local_taskmask : SUBSET Task,
    local_evtwaited : SUBSET Event,
    counter : Prio,
    current_task_set : SUBSET Task,
    saved_rr : [Prio -> SUBSET Task],  \* local array round_robin
    task : Task \cup {NoTaskRunning},  \* the callback that is on the stack
    evt : Event \cup {NoEvent},        \* argument of UTIL_SEQ_WaitEvt
    waited_backup : SUBSET Event,      \* event_waited_id_backup
    current_task_idx : Task \cup {NoTaskRunning} ]

NewLevel(mask) ==
  [ pc |-> "enter", Mask_bm |-> mask, super_mask_backup |-> {},
    local_taskset |-> {}, local_evtset |-> {}, local_taskmask |-> {},
    local_evtwaited |-> {}, counter |-> 0, current_task_set |-> {},
    saved_rr |-> [p \in Prio |-> {}], task |-> NoTaskRunning,
    evt |-> NoEvent, waited_backup |-> {},
    current_task_idx |-> NoTaskRunning ]

Top == levels[Len(levels)]
Replace(l) == [levels EXCEPT ![Len(levels)] = l]
Goto(label) == Replace([Top EXCEPT !.pc = label])
At(label) == Top.pc = label

-----------------------------------------------------------------------------
(***************************************************************************)
(* Faulty variants.  Each is a definition below with one plausible mistake *)
(* in it, and stands for it only when a property's power to notice the     *)
(* mistake is measured.                                                    *)
(***************************************************************************)

LoopIgnoresTaskMask ==
  /\ Top.local_taskset \cap SuperMask # {}
  /\ Top.local_evtset \cap Top.local_evtwaited = {}

StarvingTestedUnmasked(p) ==
  LET starving == TaskSet \ (TaskClearList \cup (Task \ round_robin[p]))
  IN  IF starving # {} THEN starving \cap Top.current_task_set
      ELSE Top.current_task_set

ClaimClearsFirstPriority ==
  /\ At("claim")
  /\ TaskSet' = TaskSet \ {CurrentTaskIdx}
  /\ priority' = [priority EXCEPT ![0] = @ \ {CurrentTaskIdx}]
  /\ levels' = Replace([Top EXCEPT !.pc = "dispatch", !.task = CurrentTaskIdx])
  /\ UNCHANGED <<TaskMask, SuperMask, EvtSet, EvtWaited, CurrentTaskIdx,
                 round_robin, TaskClearList>>

DispatchKeepsRoundRobin ==
  /\ At("dispatch") /\ CurrentTaskIdx \in Registered
  /\ levels' = Replace([NewLevel(Top.Mask_bm) EXCEPT
                 !.pc = "task", !.super_mask_backup = Top.super_mask_backup,
                 !.task = Top.task, !.saved_rr = round_robin])
  /\ UNCHANGED <<TaskSet, TaskMask, SuperMask, EvtSet, EvtWaited,
                 CurrentTaskIdx, priority, round_robin, TaskClearList>>

IdleWithoutCheck ==
  /\ At("preidle")
  /\ levels' = Goto("idle")
  /\ UNCHANGED <<TaskSet, TaskMask, SuperMask, EvtSet, EvtWaited,
                 CurrentTaskIdx, priority, round_robin, TaskClearList>>

EvtIdleFullMask ==
  /\ At("wait") /\ Top.evt \notin EvtSet
  /\ levels' = Append(levels, NewLevel(Task))
  /\ UNCHANGED <<TaskSet, TaskMask, SuperMask, EvtSet, EvtWaited,
                 CurrentTaskIdx, priority, round_robin, TaskClearList>>

WaitReturnForgetsOuterWait ==
  /\ At("wait") /\ Top.evt \in EvtSet
  /\ CurrentTaskIdx' = Top.current_task_idx
  /\ EvtSet' = EvtSet \ {Top.evt}
  /\ EvtWaited' = {}
  /\ levels' = Replace([Top EXCEPT !.pc = "task", !.evt = NoEvent,
                                   !.waited_backup = {},
                                   !.current_task_idx = NoTaskRunning])
  /\ UNCHANGED <<TaskSet, TaskMask, SuperMask, priority, round_robin,
                 TaskClearList>>

-----------------------------------------------------------------------------
Init ==
  /\ TaskSet = {} /\ TaskMask = Task /\ SuperMask = Task
  /\ EvtSet = {} /\ EvtWaited = {}
  /\ CurrentTaskIdx = 0
  /\ priority = [p \in Prio |-> {}]
  /\ round_robin = [p \in Prio |-> {}]
  /\ TaskClearList = {}
  /\ levels = <<NewLevel(Task)>>

(***************************************************************************)
(* UTIL_SEQ_Run, one action per stretch of code that no interrupt can      *)
(* observe half done.                                                      *)
(***************************************************************************)

Snapshot(l) ==
  [l EXCEPT !.pc = "loop",
            !.local_taskset = TaskSet, !.local_evtset = EvtSet,
            !.local_taskmask = TaskMask, !.local_evtwaited = EvtWaited]

Enter ==
  /\ At("enter")
  /\ SuperMask' = SuperMask \cap Top.Mask_bm
  /\ levels' = Replace([Snapshot(Top) EXCEPT !.super_mask_backup = SuperMask])
  /\ UNCHANGED <<TaskSet, TaskMask, EvtSet, EvtWaited, CurrentTaskIdx,
                 priority, round_robin, TaskClearList>>

LoopCondition ==
  /\ Top.local_taskset \cap Top.local_taskmask \cap SuperMask # {}
  /\ Top.local_evtset \cap Top.local_evtwaited = {}

RunnableAt(p) == priority[p] \cap Top.local_taskmask \cap SuperMask

(* The inner while: the first priority with a runnable task.                *)
SelectPriority(p) ==
  /\ At("loop") /\ LoopCondition
  /\ RunnableAt(p) # {}
  /\ \A q \in Prio : q < p => RunnableAt(q) = {}
  /\ levels' = Replace([Top EXCEPT !.pc = "choose", !.counter = p,
                                   !.current_task_set = RunnableAt(p)])
  /\ round_robin' = IF round_robin[p] \cap RunnableAt(p) = {}
                    THEN [round_robin EXCEPT ![p] = Task]
                    ELSE round_robin
  /\ UNCHANGED <<TaskSet, TaskMask, SuperMask, EvtSet, EvtWaited,
                 CurrentTaskIdx, priority, TaskClearList>>

(* The inner while has no bound of its own: with no runnable task in any    *)
(* priority mask it reads past the end of TaskPrio.  What follows is        *)
(* undefined and not modelled.                                              *)
Overrun ==
  /\ At("loop") /\ LoopCondition
  /\ \A p \in Prio : RunnableAt(p) = {}
  /\ levels' = Goto("overrun")
  /\ UNCHANGED <<TaskSet, TaskMask, SuperMask, EvtSet, EvtWaited,
                 CurrentTaskIdx, priority, round_robin, TaskClearList>>

(* SEQ_BitPosition: the highest bit of a mask.                              *)
BitPosition(S) == IF S = {} THEN NoBit
                  ELSE CHOOSE i \in S : \A j \in S : j <= i

ClearedOrServed(p) == TaskClearList \cup (Task \ round_robin[p])
Starving(p) == TaskSet \ ClearedOrServed(p)
Preferred(p) == IF Starving(p) \cap Top.current_task_set # {}
                THEN Starving(p) \cap Top.current_task_set
                ELSE Top.current_task_set

ChooseTask ==
  /\ At("choose")
  /\ LET p == Top.counter
     IN  /\ TaskClearList' = IF Starving(p) = {} THEN {} ELSE ClearedOrServed(p)
         /\ CurrentTaskIdx' = BitPosition(Preferred(p) \cap round_robin[p])
  /\ levels' = Replace([Top EXCEPT !.pc = "claim", !.counter = 0,
                                   !.current_task_set = {}])
  /\ UNCHANGED <<TaskSet, TaskMask, SuperMask, EvtSet, EvtWaited,
                 priority, round_robin>>

(* The critical section that removes the chosen task from the pending ones. *)
Claim ==
  /\ At("claim")
  /\ TaskSet' = TaskSet \ {CurrentTaskIdx}
  /\ priority' = [p \in Prio |-> priority[p] \ {CurrentTaskIdx}]
  /\ levels' = Replace([Top EXCEPT !.pc = "dispatch", !.task = CurrentTaskIdx])
  /\ UNCHANGED <<TaskMask, SuperMask, EvtSet, EvtWaited, CurrentTaskIdx,
                 round_robin, TaskClearList>>

(* The callback is called, with the round-robin masks saved.                *)
Dispatch ==
  /\ At("dispatch") /\ CurrentTaskIdx \in Registered
  /\ round_robin' = [p \in Prio |-> round_robin[p] \ {CurrentTaskIdx}]
  /\ levels' = Replace([NewLevel(Top.Mask_bm) EXCEPT
                 !.pc = "task", !.super_mask_backup = Top.super_mask_backup,
                 !.task = Top.task, !.saved_rr = round_robin'])
  /\ UNCHANGED <<TaskSet, TaskMask, SuperMask, EvtSet, EvtWaited,
                 CurrentTaskIdx, priority, TaskClearList>>

(* No callback: UTIL_SEQ_CatchWarning, and the loop condition is evaluated  *)
(* again on the masks read before the task was claimed.                     *)
CatchWarning ==
  /\ At("dispatch") /\ CurrentTaskIdx \notin Registered
  /\ levels' = Replace([Top EXCEPT !.pc = "loop", !.task = NoTaskRunning])
  /\ UNCHANGED <<TaskSet, TaskMask, SuperMask, EvtSet, EvtWaited,
                 CurrentTaskIdx, priority, round_robin, TaskClearList>>

(* The callback returns.                                                    *)
TaskReturn(t) ==
  /\ At("task") /\ Top.task = t
  /\ round_robin' = [p \in Prio |-> round_robin[p] \cap Top.saved_rr[p]]
  /\ TaskClearList' = TaskClearList \cup {CurrentTaskIdx}
  /\ levels' = Replace([Snapshot(Top) EXCEPT
                 !.task = NoTaskRunning, !.saved_rr = [p \in Prio |-> {}]])
  /\ UNCHANGED <<TaskSet, TaskMask, SuperMask, EvtSet, EvtWaited,
                 CurrentTaskIdx, priority>>

(* The end of the loop, and the idle part unless the waited event is there. *)
ExitLoop ==
  /\ At("loop") /\ ~LoopCondition
  /\ CurrentTaskIdx' = NoTaskRunning
  /\ levels' = Replace([Top EXCEPT
                 !.pc = IF Top.local_evtset \cap EvtWaited = {}
                        THEN "preidle" ELSE "leave",
                 !.local_taskset = {}, !.local_evtset = {},
                 !.local_taskmask = {}, !.local_evtwaited = {}])
  /\ UNCHANGED <<TaskSet, TaskMask, SuperMask, EvtSet, EvtWaited, priority,
                 round_robin, TaskClearList>>

NothingToDo ==
  /\ TaskSet \cap TaskMask \cap SuperMask = {}
  /\ EvtSet \cap EvtWaited = {}

(* The idle section is entered and the masks are read again.                *)
IdleCheck ==
  /\ At("preidle")
  /\ levels' = Goto(IF NothingToDo THEN "idle" ELSE "leave")
  /\ UNCHANGED <<TaskSet, TaskMask, SuperMask, EvtSet, EvtWaited,
                 CurrentTaskIdx, priority, round_robin, TaskClearList>>

(* UTIL_SEQ_Idle returns, and the idle section is left.                     *)
WakeUp ==
  /\ At("idle")
  /\ levels' = Goto("leave")
  /\ UNCHANGED <<TaskSet, TaskMask, SuperMask, EvtSet, EvtWaited,
                 CurrentTaskIdx, priority, round_robin, TaskClearList>>

(* UTIL_SEQ_Run returns: into UTIL_SEQ_WaitEvt, or into the main loop,      *)
(* which calls it again with the full mask.                                 *)
Leave ==
  /\ At("leave")
  /\ SuperMask' = Top.super_mask_backup
  /\ levels' = IF Len(levels) = 1 THEN <<NewLevel(Task)>>
               ELSE SubSeq(levels, 1, Len(levels) - 1)
  /\ UNCHANGED <<TaskSet, TaskMask, EvtSet, EvtWaited, CurrentTaskIdx,
                 priority, round_robin, TaskClearList>>

-----------------------------------------------------------------------------
(* UTIL_SEQ_WaitEvt, called by the running callback.                        *)

WaitEvt(e) ==
  /\ At("task") /\ <<Top.task, e>> \in Waits
  /\ levels' = Replace([Top EXCEPT !.pc = "wait", !.evt = e,
                                   !.waited_backup = EvtWaited,
                                   !.current_task_idx = CurrentTaskIdx])
  /\ EvtWaited' = {e}
  /\ UNCHANGED <<TaskSet, TaskMask, SuperMask, EvtSet, CurrentTaskIdx,
                 priority, round_robin, TaskClearList>>

(* The event is not there: UTIL_SEQ_EvtIdle runs the other tasks.           *)
EvtIdle ==
  /\ At("wait") /\ Top.evt \notin EvtSet
  /\ levels' = Append(levels, NewLevel(Task \ {Top.current_task_idx}))
  /\ UNCHANGED <<TaskSet, TaskMask, SuperMask, EvtSet, EvtWaited,
                 CurrentTaskIdx, priority, round_robin, TaskClearList>>

(* The event is there: it is consumed and the callback continues.           *)
WaitEvtReturn ==
  /\ At("wait") /\ Top.evt \in EvtSet
  /\ CurrentTaskIdx' = Top.current_task_idx
  /\ EvtSet' = EvtSet \ {Top.evt}
  /\ EvtWaited' = Top.waited_backup
  /\ levels' = Replace([Top EXCEPT !.pc = "task", !.evt = NoEvent,
                                   !.waited_backup = {},
                                   !.current_task_idx = NoTaskRunning])
  /\ UNCHANGED <<TaskSet, TaskMask, SuperMask, priority, round_robin,
                 TaskClearList>>

-----------------------------------------------------------------------------
(* The functions that interrupts, and callbacks, call in a critical section.*)

InterruptsEnabled == ~At("idle")

SetTask(t, p) ==
  /\ InterruptsEnabled
  /\ TaskSet' = TaskSet \cup {t}
  /\ priority' = [priority EXCEPT ![p] = @ \cup {t}]
  /\ UNCHANGED <<TaskMask, SuperMask, EvtSet, EvtWaited, CurrentTaskIdx,
                 round_robin, TaskClearList, levels>>

SetEvt(e) ==
  /\ InterruptsEnabled
  /\ EvtSet' = EvtSet \cup {e}
  /\ UNCHANGED <<TaskSet, TaskMask, SuperMask, EvtWaited, CurrentTaskIdx,
                 priority, round_robin, TaskClearList, levels>>

ClrEvt(e) ==
  /\ InterruptsEnabled
  /\ EvtSet' = EvtSet \ {e}
  /\ UNCHANGED <<TaskSet, TaskMask, SuperMask, EvtWaited, CurrentTaskIdx,
                 priority, round_robin, TaskClearList, levels>>

PauseTask(t) ==
  /\ InterruptsEnabled
  /\ TaskMask' = TaskMask \ {t}
  /\ UNCHANGED <<TaskSet, SuperMask, EvtSet, EvtWaited, CurrentTaskIdx,
                 priority, round_robin, TaskClearList, levels>>

ResumeTask(t) ==
  /\ InterruptsEnabled
  /\ TaskMask' = TaskMask \cup {t}
  /\ UNCHANGED <<TaskSet, SuperMask, EvtSet, EvtWaited, CurrentTaskIdx,
                 priority, round_robin, TaskClearList, levels>>

-----------------------------------------------------------------------------
RunStep ==
  \/ Enter
  \/ \E p \in Prio : SelectPriority(p)
  \/ Overrun
  \/ ChooseTask
  \/ Claim
  \/ Dispatch
  \/ CatchWarning
  \/ ExitLoop
  \/ IdleCheck
  \/ WakeUp
  \/ Leave

WaitStep == EvtIdle \/ WaitEvtReturn

Call ==
  \/ \E r \in Requests : SetTask(r[1], r[2])
  \/ \E e \in Event : SetEvt(e)
  \/ \E e \in Clearable : ClrEvt(e)
  \/ \E t \in Pausable : PauseTask(t) \/ ResumeTask(t)

Next ==
  \/ RunStep
  \/ \E t \in Task : TaskReturn(t)
  \/ \E e \in Event : WaitEvt(e)
  \/ WaitStep
  \/ Call

Spec == Init /\ [][Next]_vars

(* The processor keeps executing the main thread, and no callback runs, or  *)
(* waits again and again, for ever.  Nothing is assumed of interrupts.      *)
Fairness ==
  /\ WF_vars(RunStep)
  /\ WF_vars(WaitStep)
  /\ \A t \in Task : SF_vars(TaskReturn(t))

-----------------------------------------------------------------------------
(***************************************************************************)
(* Properties.                                                             *)
(***************************************************************************)

(* Every variable has its type: the type invariant.                         *)
TypeOK ==
  /\ TaskSet \in SUBSET Task
  /\ TaskMask \in SUBSET Task
  /\ SuperMask \in SUBSET Task
  /\ EvtSet \in SUBSET Event
  /\ EvtWaited \in SUBSET Event
  /\ CurrentTaskIdx \in Task \cup {NoTaskRunning}
  /\ priority \in [Prio -> SUBSET Task]
  /\ round_robin \in [Prio -> SUBSET Task]
  /\ TaskClearList \in SUBSET Task
  /\ levels \in Seq(Level)
  /\ levels # <<>>

(* UTIL_SEQ_Run tests TaskSet but searches the priority masks: the inner    *)
(* loop of the search terminates only because the two always agree, across  *)
(* interrupts and nested runs.                                              *)
PrioritiesCoverTaskSet == TaskSet = UNION {priority[p] : p \in Prio}

(* The search for a priority runs past the end of TaskPrio only after this  *)
(* run claimed a task without callback, which leaves the masks of the       *)
(* previous loop in place: with every task registered it always terminates. *)
SearchTerminates == At("overrun") => CurrentTaskIdx \notin Registered

(* The round-robin and starvation masks never leave the selection without a *)
(* candidate (__CLZ(0)): what is claimed is a pending task that the mask of *)
(* the current run allows.                                                  *)
ClaimedTaskIsPending == At("claim") => CurrentTaskIdx \in TaskSet \cap SuperMask

(* The levels whose callbacks wait in UTIL_SEQ_WaitEvt.                      *)
Waiting == {i \in 1 .. Len(levels) : levels[i].pc = "wait"}

(* Inside a nested run SuperMask excludes the waiting callbacks and nothing *)
(* else: every run restores the mask it found.                              *)
SuperMaskExcludesWaiters ==
  ~At("enter") =>
    SuperMask = Task \ {levels[i].task : i \in Waiting \ {Len(levels)}}

(* Only the innermost wait can end: EvtWaited is its event.                 *)
InnermostEventWaited ==
  EvtWaited = IF Waiting = {} THEN {}
              ELSE {levels[CHOOSE i \in Waiting : \A j \in Waiting : j <= i].evt}

(* A callback finds itself in CurrentTaskIdx, also after it has waited and  *)
(* other callbacks have run above it.                                       *)
CallbackIsCurrentTask == At("task") => CurrentTaskIdx = Top.task

(* What UTIL_SEQ_Run and UTIL_SEQ_WaitEvt change for a nested run is in     *)
(* order at every level of the nesting, and is undone in the reverse order: *)
(* the mask, the event waited for and the current task.                     *)
NestedRunsRestore ==
  SuperMaskExcludesWaiters /\ InnermostEventWaited /\ CallbackIsCurrentTask

(* The processor idles only when no task may run and the event waited for   *)
(* is absent: a request made before the idle section is never slept over.   *)
NeverIdleWithWork == At("idle") => NothingToDo

(* A pending task of the highest priority is eventually taken off the set   *)
(* of pending tasks, however often the others are set again.                *)
NoStarvation ==
  \A t \in Task : t \in priority[0] ~> t \notin TaskSet

(* UTIL_SEQ_Run and UTIL_SEQ_WaitEvt implement TaskScheduler: a level of    *)
(* the C stack with a claimed task is an activation, which starts when the  *)
(* task is claimed.  In particular no callback is entered again while it    *)
(* waits, whatever it is set to meanwhile, and waits end innermost first.   *)
ActiveLevels == IF Top.task = NoTaskRunning THEN Len(levels) - 1 ELSE Len(levels)

Scheduler == INSTANCE TaskScheduler WITH
  pending <- TaskSet,
  signalled <- EvtSet,
  activations <- [i \in 1 .. ActiveLevels |->
                    [task |-> levels[i].task, awaits |-> levels[i].evt]]

ImplementsTaskScheduler == Scheduler!Spec

=============================================================================
