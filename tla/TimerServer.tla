------------------------------ MODULE TimerServer ------------------------------
(***************************************************************************)
(* The software timers of the firmware, Utilities/stm32_timer.c, on the    *)
(* RTC alarm, Common/WPAN/Interface/timer_if.c.                            *)
(*                                                                         *)
(* One alarm of the RTC serves a list of timers whose time stamps count    *)
(* ticks from the time context, the tick of the last re-base.  The RTC     *)
(* counter is used only in differences to that context, so the model keeps *)
(* the difference, elapsed, and the alarm relative to it.                  *)
(*                                                                         *)
(* Three contexts call the functions, each pre-empted by the next: the     *)
(* main thread, the push-button interrupt and the callbacks of expired     *)
(* timers, which the RTC interrupt runs after its critical section.  A     *)
(* critical section is one step; what UTIL_TIMER_Start tests before its    *)
(* critical section is another.  No tick passes inside a critical section. *)
(***************************************************************************)
EXTENDS Integers, Sequences, FiniteSets

CONSTANTS
  Timer,          (* the timer objects, all created                         *)
  Periodic,       (* those in mode UTIL_TIMER_PERIODIC                      *)
  Period,         (* the periods they are given, in ticks                   *)
  FirstPeriod,    (* the period each was created with                       *)
  Users,          (* the timers each context starts and sets the period of  *)
  Stoppers,       (* the timers each context stops                          *)
  MinTimeout,     (* MIN_ALARM_DELAY                                        *)
  MaxLatency,     (* bound: ticks between an alarm and its handler          *)
  MaxElapsed      (* bound: no function is called this many ticks after the *)
                  (* last re-base; the re-base itself is never prevented    *)

Context == {"main", "button", "callback"}
NoTimer == "no timer"

ASSUME TimerServerAssumption ==
  /\ IsFiniteSet(Timer) /\ Periodic \subseteq Timer
  /\ NoTimer \notin Timer
  /\ Period \subseteq Nat
  /\ FirstPeriod \in [Timer -> Nat]
  /\ Users \in [Context -> SUBSET Timer]
  /\ Stoppers \in [Context -> SUBSET Timer]
  /\ MinTimeout \in Nat \ {0}
  /\ MaxLatency \in Nat
  /\ MaxElapsed \in Nat

VARIABLES
  list,             \* the timers from TimerListHead on
  Timestamp, ReloadValue, IsPending, IsRunning, IsReloadStopped,
  elapsed,          \* TIMER_IF_GetTimerElapsedTime: counter - RtcTimerContext
  alarm,            \* alarm A, in ticks after the context; kept when it fired
  irq,              \* the alarm flag is set
  pc, object,       \* what each context executes, and on which timer
  due,              \* history: ticks until a running timer's period is over,
                    \* not counted beyond TooLate
  relinked          \* history: a timer in the list was linked again

server == <<list, Timestamp, IsPending, elapsed, alarm, irq>>
timerVars == <<list, Timestamp, ReloadValue, IsPending, IsRunning, IsReloadStopped,
          elapsed, alarm, irq, pc, object, due, relinked>>

-----------------------------------------------------------------------------
(* The list operations, on a record of the variables they change.  The time *)
(* stamp of a timer that leaves the list is dead and becomes 0 here.        *)

Server == [list |-> list, Timestamp |-> Timestamp, IsPending |-> IsPending,
           elapsed |-> elapsed, alarm |-> alarm, irq |-> irq]

Become(s) ==
  /\ list' = s.list /\ Timestamp' = s.Timestamp /\ IsPending' = s.IsPending
  /\ elapsed' = s.elapsed /\ alarm' = s.alarm /\ irq' = s.irq

Member(seq) == {seq[i] : i \in 1 .. Len(seq)}
TimerExists(t) == t \in Member(list)

Larger(a, b) == IF a > b THEN a ELSE b

(***************************************************************************)
(* Faulty variants, each with one plausible mistake; no behaviour of the   *)
(* specification uses them.                                                *)
(***************************************************************************)

InsertAtContext(s0, t) ==
  LET ticks == Larger(ReloadValue[t], MinTimeout)
      s == [s0 EXCEPT !.Timestamp[t] = ticks, !.IsPending[t] = FALSE]
      now == IF s0.list = <<>> THEN [s EXCEPT !.elapsed = 0] ELSE s
  IN  IF s.list = <<>> \/ s.Timestamp[t] < s.Timestamp[s.list[1]]
      THEN LET s1 == [now EXCEPT !.list = <<t>> \o @]
               timeout == Larger(s1.Timestamp[t], s1.elapsed + MinTimeout)
           IN  [s1 EXCEPT !.IsPending = [u \in Timer |-> u = t],
                          !.Timestamp[t] = timeout, !.alarm = timeout, !.irq = FALSE]
      ELSE [now EXCEPT !.list = Append(@, t)]

RemoveWithoutRearm(s, t) ==
  [s EXCEPT !.list = SelectSeq(@, LAMBDA u : u # t), !.IsPending[t] = FALSE,
            !.Timestamp[t] = 0]

(* TimerSetTimeout of the head: setting the alarm clears the alarm flag.    *)
TimerSetTimeout(s) ==
  LET head == s.list[1]
      timeout == Larger(s.Timestamp[head], s.elapsed + MinTimeout)
  IN  [s EXCEPT !.IsPending[head] = TRUE, !.Timestamp[head] = timeout,
                !.alarm = timeout, !.irq = FALSE]

TimerInsertNewHeadTimer(s, t) ==
  TimerSetTimeout([s EXCEPT
    !.list = <<t>> \o s.list,
    !.IsPending = [u \in Timer |-> @[u] /\ ~(s.list # <<>> /\ u = s.list[1])]])

(* TimerInsertTimer links t behind the i-th timer.                          *)
Behind(s, t, i) == i = Len(s.list) \/ s.Timestamp[t] <= s.Timestamp[s.list[i + 1]]

TimerInsertTimer(s, t) ==
  LET i == CHOOSE n \in 1 .. Len(s.list) :
             Behind(s, t, n) /\ \A m \in 1 .. n - 1 : ~Behind(s, t, m)
  IN  [s EXCEPT !.list = SubSeq(@, 1, i) \o <<t>> \o SubSeq(@, i + 1, Len(@))]

(* The critical section of UTIL_TIMER_Start.                                *)
Insert(s0, t) ==
  LET ticks == Larger(ReloadValue[t], MinTimeout)
      now == IF s0.list = <<>> THEN 0 ELSE s0.elapsed
      s == [s0 EXCEPT !.elapsed = now, !.Timestamp[t] = ticks + now,
                      !.IsPending[t] = FALSE]
  IN  IF s.list = <<>> \/ s.Timestamp[t] < s.Timestamp[s.list[1]]
      THEN TimerInsertNewHeadTimer(s, t)
      ELSE TimerInsertTimer(s, t)

(* The critical section of UTIL_TIMER_Stop.                                 *)
Without(seq, t) ==
  IF t \notin Member(seq) THEN seq
  ELSE LET i == CHOOSE n \in 1 .. Len(seq) : seq[n] = t
       IN  SubSeq(seq, 1, i - 1) \o SubSeq(seq, i + 1, Len(seq))

RemoveTimer(s, t) ==
  IF s.list = <<>> THEN s
  ELSE IF s.list[1] # t THEN [s EXCEPT !.list = Without(@, t), !.Timestamp[t] = 0]
       ELSE LET rest == [s EXCEPT !.list = Tail(@), !.IsPending[t] = FALSE,
                                  !.Timestamp[t] = 0]
            IN  IF rest.list = <<>> THEN [rest EXCEPT !.irq = FALSE]
                ELSE TimerSetTimeout(rest)

(* UTIL_TIMER_IRQ_Handler: the time stamps after the re-base, and the first *)
(* timer that has expired.  It is the head that is taken off the list.      *)
Expired(s, t) == s.Timestamp[t] <= s.elapsed
FirstExpired(s) ==
  IF \A i \in 1 .. Len(s.list) : ~Expired(s, s.list[i]) THEN NoTimer
  ELSE s.list[CHOOSE i \in 1 .. Len(s.list) :
                Expired(s, s.list[i]) /\ \A j \in 1 .. i - 1 : ~Expired(s, s.list[j])]

Rebase(s) ==
  [s EXCEPT !.elapsed = 0, !.irq = FALSE,
            !.Timestamp = [t \in Timer |->
              IF t \notin Member(s.list) THEN @[t]
              ELSE IF Expired(s, t) THEN 0 ELSE @[t] - s.elapsed]]

TakeHead(s, expired) ==
  IF expired = NoTimer THEN s
  ELSE [s EXCEPT !.list = Tail(@), !.IsPending[expired] = FALSE]

RearmHead(s) ==
  IF s.list = <<>> \/ s.IsPending[s.list[1]] THEN s ELSE TimerSetTimeout(s)

-----------------------------------------------------------------------------
TimersInit ==
  /\ list = <<>>
  /\ Timestamp = [t \in Timer |-> 0]
  /\ ReloadValue = FirstPeriod
  /\ IsPending = [t \in Timer |-> FALSE]
  /\ IsRunning = [t \in Timer |-> FALSE]
  /\ IsReloadStopped = [t \in Timer |-> FALSE]
  /\ elapsed = 0 /\ alarm = 0 /\ irq = FALSE
  /\ pc = [c \in Context |-> IF c = "main" THEN "run" ELSE "out"]
  /\ object = [c \in Context |-> NoTimer]
  /\ due = [t \in Timer |-> 0]
  /\ relinked = FALSE

(* A context executes unless it is pre-empted.                              *)
Executes(c) ==
  /\ ~relinked
  /\ c # "callback" => pc["callback"] = "out"
  /\ c = "main" => pc["button"] = "out"

TimerGoto(c, label, t) ==
  /\ pc' = [pc EXCEPT ![c] = label]
  /\ object' = [object EXCEPT ![c] = t]

Idle(t) == ~TimerExists(t) /\ ~IsRunning[t]
Checked(c, t) == IF Idle(t) THEN TimerGoto(c, "insert", t) ELSE TimerGoto(c, "run", NoTimer)

(* UTIL_TIMER_Start up to its critical section: what it refuses, it refuses *)
(* here.                                                                    *)
Start(c, t) ==
  /\ Executes(c) /\ pc[c] = "run" /\ t \in Users[c]
  /\ Checked(c, t)
  /\ UNCHANGED <<server, ReloadValue, IsRunning, IsReloadStopped, due, relinked>>

(* Its critical section.  A timer that is in the list by now is linked      *)
(* again; what the list becomes is not modelled.                            *)
StartInsert(c, t) ==
  /\ Executes(c) /\ pc[c] = "insert" /\ object[c] = t
  /\ relinked' = TimerExists(t)
  /\ Become(IF relinked' THEN Server ELSE Insert(Server, t))
  /\ IsRunning' = [IsRunning EXCEPT ![t] = TRUE]
  /\ IsReloadStopped' = [IsReloadStopped EXCEPT ![t] = FALSE]
  /\ due' = [due EXCEPT ![t] = ReloadValue[t]]
  /\ TimerGoto(c, "run", NoTimer)
  /\ UNCHANGED ReloadValue

Stopped(t) ==
  /\ Become(RemoveTimer(Server, t))
  /\ IsRunning' = IF list = <<>> THEN IsRunning ELSE [IsRunning EXCEPT ![t] = FALSE]
  /\ IsReloadStopped' = [IsReloadStopped EXCEPT ![t] = TRUE]
  /\ due' = [due EXCEPT ![t] = 0]

Stop(c, t) ==
  /\ Executes(c) /\ pc[c] = "run" /\ t \in Stoppers[c]
  /\ Stopped(t)
  /\ UNCHANGED <<ReloadValue, pc, object, relinked>>

(* UTIL_TIMER_SetPeriod stops and starts a timer that is in the list;       *)
(* UTIL_TIMER_StartWithPeriod starts it also when it is not.                *)
SetPeriod(c, t, p) ==
  /\ Executes(c) /\ pc[c] = "run" /\ t \in Users[c]
  /\ ReloadValue' = [ReloadValue EXCEPT ![t] = p]
  /\ IF TimerExists(t) THEN TimerGoto(c, "stop", t) ELSE UNCHANGED <<pc, object>>
  /\ UNCHANGED <<server, IsRunning, IsReloadStopped, due, relinked>>

StartWithPeriod(c, t, p) ==
  /\ Executes(c) /\ pc[c] = "run" /\ t \in Users[c]
  /\ ReloadValue' = [ReloadValue EXCEPT ![t] = p]
  /\ TimerGoto(c, IF TimerExists(t) THEN "stop" ELSE "check", t)
  /\ UNCHANGED <<server, IsRunning, IsReloadStopped, due, relinked>>

RestartStop(c, t) ==
  /\ Executes(c) /\ pc[c] = "stop" /\ object[c] = t
  /\ Stopped(t)
  /\ TimerGoto(c, "check", t)
  /\ UNCHANGED <<ReloadValue, relinked>>

RestartCheck(c, t) ==
  /\ Executes(c) /\ pc[c] = "check" /\ object[c] = t
  /\ Checked(c, t)
  /\ UNCHANGED <<server, ReloadValue, IsRunning, IsReloadStopped, due, relinked>>

-----------------------------------------------------------------------------
(* Interrupts and time.                                                     *)

ButtonEnter ==
  /\ Executes("button") /\ pc["button"] = "out"
  /\ TimerGoto("button", "run", NoTimer)
  /\ UNCHANGED <<server, ReloadValue, IsRunning, IsReloadStopped, due, relinked>>

Return(c) ==
  /\ c # "main"
  /\ Executes(c) /\ pc[c] = "run"
  /\ TimerGoto(c, "out", NoTimer)
  /\ UNCHANGED <<server, ReloadValue, IsRunning, IsReloadStopped, due, relinked>>

(* UTIL_TIMER_IRQ_Handler; the callback of the expired timer runs next.     *)
IRQ_Handler ==
  /\ Executes("callback") /\ pc["callback"] = "out" /\ irq
  /\ LET expired == FirstExpired(Server)
         taken == TakeHead(Rebase(Server), expired)
         exec == expired \in Periodic /\ ~IsReloadStopped[expired]
         restart == exec /\ expired \notin Member(taken.list)
     IN  /\ Become(RearmHead(IF restart THEN Insert(taken, expired) ELSE taken))
         /\ IsRunning' = [t \in Timer |-> IF t = expired THEN restart ELSE IsRunning[t]]
         /\ due' = [t \in Timer |-> IF t # expired THEN due[t]
                                    ELSE IF restart THEN ReloadValue[t] ELSE 0]
         /\ TimerGoto("callback", IF expired = NoTimer THEN "out" ELSE "run", NoTimer)
  /\ UNCHANGED <<ReloadValue, IsReloadStopped, relinked>>

(* Beyond this the server has made a timer wait for others twice.           *)
TooLate == -(Cardinality(Timer) * (MinTimeout + MaxLatency)) - 1

(* A tick of the RTC.  The handler is never later than MaxLatency; nothing  *)
(* depends on the time while the list is empty.                             *)
Tick ==
  /\ ~relinked
  /\ list # <<>>
  /\ irq => elapsed < alarm + MaxLatency
  /\ elapsed' = elapsed + 1
  /\ irq' = (irq \/ alarm = elapsed + 1)
  /\ due' = [t \in Timer |-> IF TimerExists(t) THEN Larger(due[t] - 1, TooLate)
                             ELSE due[t]]
  /\ UNCHANGED <<list, Timestamp, ReloadValue, IsPending, IsRunning,
                 IsReloadStopped, alarm, pc, object, relinked>>

TimerCall(c, t) ==
  /\ elapsed < MaxElapsed
  /\ \/ Start(c, t)
     \/ Stop(c, t)
     \/ \E p \in Period : SetPeriod(c, t, p) \/ StartWithPeriod(c, t, p)

Continue(c, t) ==
  \/ StartInsert(c, t)
  \/ RestartStop(c, t)
  \/ RestartCheck(c, t)

TimersNext ==
  \/ \E c \in Context, t \in Timer : TimerCall(c, t) \/ Continue(c, t)
  \/ \E c \in Context : Return(c)
  \/ ButtonEnter
  \/ IRQ_Handler
  \/ Tick

TimersSpec == TimersInit /\ [][TimersNext]_timerVars

-----------------------------------------------------------------------------
(***************************************************************************)
(* Properties.                                                             *)
(***************************************************************************)

(* Every variable has its type: the type invariant.                         *)
TimersTypeOK ==
  /\ list \in Seq(Timer)
  /\ Timestamp \in [Timer -> Nat]
  /\ ReloadValue \in [Timer -> Nat]
  /\ IsPending \in [Timer -> BOOLEAN]
  /\ IsRunning \in [Timer -> BOOLEAN]
  /\ IsReloadStopped \in [Timer -> BOOLEAN]
  /\ elapsed \in Nat /\ alarm \in Nat /\ irq \in BOOLEAN
  /\ pc \in [Context -> {"out", "run", "insert", "stop", "check"}]
  /\ object \in [Context -> Timer \cup {NoTimer}]
  /\ due \in [Timer -> Int]
  /\ relinked \in BOOLEAN

(* TimerExists is to "check if the object to be added is not already in the *)
(* list": no timer is linked into the list twice, although the check is     *)
(* made before the critical section that links it.                          *)
NeverLinkedTwice == ~relinked

(* The list holds every timer once, and those that UTIL_TIMER_IsRunning     *)
(* reports, whoever starts, stops, restarts or expires them.                *)
ListHoldsRunningTimers ==
  /\ \A i, j \in 1 .. Len(list) : list[i] = list[j] => i = j
  /\ ~relinked => \A t \in Timer : IsRunning[t] <=> TimerExists(t)

(* No timeout is lost: while a timer is running, the alarm is set for the   *)
(* head of the list and is still to come, or its interrupt is pending.      *)
AlarmServesHead ==
  list # <<>> =>
    /\ IsPending[list[1]]
    /\ alarm = Timestamp[list[1]]
    /\ irq <=> elapsed >= alarm

(* The interrupt handler unlinks the head and calls the first expired       *)
(* timer: they are the same, although the list is not always sorted.        *)
FirstExpiredIsHead == irq => list # <<>> /\ FirstExpired(Server) = list[1]

(* The callback of a timer is called after its whole period, whatever was   *)
(* re-based, stopped or re-armed meanwhile.                                 *)
NeverEarly ==
  [][IRQ_Handler => \/ FirstExpired(Server) = NoTimer
                    \/ due[FirstExpired(Server)] <= 0]_timerVars

(* The delays a timer meets do not add up without bound: the other timers   *)
(* are served before it at most once each.                                  *)
LatenessBounded ==
  \A t \in Timer : TimerExists(t) => due[t] > TooLate

(* Whoever starts, stops and expires timers, and in whatever order, each one*)
(* that runs is linked, has the alarm on its way to it, is the one its      *)
(* interrupt calls, and is called in time.                                  *)
TimersAreServed ==
  ListHoldsRunningTimers /\ AlarmServesHead /\ FirstExpiredIsHead /\ LatenessBounded

=============================================================================
