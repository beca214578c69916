---------------------------- MODULE TaskScheduler ----------------------------
(***************************************************************************)
(* What the sequencer promises its users, without its masks.               *)
(*                                                                         *)
(* A requested task is started once per request or batch of requests; a    *)
(* started callback runs to its end and is interrupted by another callback *)
(* only while it waits for an event; a callback is never started while it  *)
(* is active; waits end innermost first, each consuming its own event.     *)
(***************************************************************************)
EXTENDS Naturals, Sequences

CONSTANTS Task, Event, NoEvent

VARIABLES
  pending,      \* tasks requested and not started since
  signalled,    \* events set and not consumed
  activations   \* the callbacks on the stack, innermost last

vars == <<pending, signalled, activations>>

Activation == [task : Task, awaits : Event \cup {NoEvent}]

Innermost == activations[Len(activations)]
Awaiting == activations # <<>> /\ Innermost.awaits # NoEvent
Executing == activations # <<>> /\ Innermost.awaits = NoEvent

Init == pending = {} /\ signalled = {} /\ activations = <<>>

Request(t) ==
  /\ pending' = pending \cup {t}
  /\ UNCHANGED <<signalled, activations>>

Signal(e) ==
  /\ signalled' = signalled \cup {e}
  /\ UNCHANGED <<pending, activations>>

Cancel(e) ==
  /\ signalled' = signalled \ {e}
  /\ UNCHANGED <<pending, activations>>

Start(t) ==
  /\ ~Executing
  /\ t \in pending
  /\ \A i \in 1 .. Len(activations) : activations[i].task # t
  /\ pending' = pending \ {t}
  /\ activations' = Append(activations, [task |-> t, awaits |-> NoEvent])
  /\ UNCHANGED signalled

Await(e) ==
  /\ Executing
  /\ activations' = [activations EXCEPT ![Len(activations)].awaits = e]
  /\ UNCHANGED <<pending, signalled>>

Resume ==
  /\ Awaiting
  /\ Innermost.awaits \in signalled
  /\ signalled' = signalled \ {Innermost.awaits}
  /\ activations' = [activations EXCEPT ![Len(activations)].awaits = NoEvent]
  /\ UNCHANGED pending

Finish ==
  /\ Executing
  /\ activations' = SubSeq(activations, 1, Len(activations) - 1)
  /\ UNCHANGED <<pending, signalled>>

Next ==
  \/ \E t \in Task : Request(t) \/ Start(t)
  \/ \E e \in Event : Signal(e) \/ Cancel(e) \/ Await(e)
  \/ Resume
  \/ Finish

Spec == Init /\ [][Next]_vars

=============================================================================
