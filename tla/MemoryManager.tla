---------------------------- MODULE MemoryManager ----------------------------
(***************************************************************************)
(* The advanced memory manager, advanced_memory_manager.c: virtual         *)
(* memories, each with a reserved number of words, over one pool of a      *)
(* basic memory manager.  What a virtual memory takes beyond its           *)
(* reservation comes out of the shared part, which users without a virtual *)
(* memory use too.  Each operation is a critical section, so one step.     *)
(*                                                                         *)
(* The basic memory manager may fail at any request (its blocks have       *)
(* overhead and it fragments); it never hands out more than the pool.      *)
(***************************************************************************)
EXTENDS Integers, FiniteSets, Functions, SequencesExt

CONSTANTS
  VM,           (* identifiers of the virtual memories                     *)
  Shared,       (* AMM_NO_VIRTUAL_ID                                       *)
  Config,       (* configurations: pool size, and reservation by memory    *)
  InfoSize,     (* AMM_VIRTUAL_INFO_ELEMENT_SIZE                           *)
  Buffer,       (* buffers that can be held at the same time               *)
  MaxSize,      (* bound: words asked for                                  *)
  Callback,     (* callbacks of users that wait for memory                 *)
  NoCallback,   (* the null pointer                                        *)
  Modulus       (* 2^32: the arithmetic of the counters                    *)

ASSUME MemoryManagerAssumption ==
  /\ IsFiniteSet(VM) /\ Shared \notin VM /\ IsFiniteSet(Buffer)
  /\ Config \subseteq [pool : Nat, reserved : [VM -> Nat]]
  /\ InfoSize \in Nat /\ MaxSize \in Nat /\ NoCallback \notin Callback
  /\ Modulus \in Nat /\ \A c \in Config : 2 * c.pool < Modulus

HeaderSize == 1

VARIABLES
  initialized,    \* AmmInitialized
  ammPool,        \* AmmPoolSize
  occupiedShared, \* AmmOccupiedSharedPoolSize
  required,       \* AmmRequiredVirtualMemorySize
  reserved,       \* RequiredSize, by virtual memory
  occupied,       \* OccupiedSize, by virtual memory
  held,           \* buffers held by users: owner and size of their header
  pending, active,\* callbacks waiting for a free, and to be called
  ammRequested,   \* the task AMM is set
  processing      \* AMM_BackgroundProcess runs

ammVars == <<initialized, ammPool, occupiedShared, required, reserved, occupied, held,
            pending, active, ammRequested, processing>>
counters == <<occupiedShared, occupied>>
config == <<initialized, ammPool, required, reserved>>
queues == <<pending, active, ammRequested, processing>>

Unheld == [owner |-> Shared, size |-> 0]     \* no buffer has size 0
Minus(a, b) == (a - b) % Modulus
Plus(a, b) == (a + b) % Modulus

Positive(n) == IF n > 0 THEN n ELSE 0
WordsReserved(r) == SumFunction(r)

-----------------------------------------------------------------------------
AmmInit ==
  /\ initialized = FALSE /\ ammPool = 0
  /\ occupiedShared = 0 /\ required = 0
  /\ reserved = [m \in VM |-> 0] /\ occupied = [m \in VM |-> 0]
  /\ held = [b \in Buffer |-> Unheld]
  /\ pending = <<>> /\ active = <<>> /\ ammRequested = FALSE /\ processing = FALSE

(* AMM_Init of a configuration that passes its checks.  The pool's first    *)
(* words hold the information on the virtual memories.                      *)
Accepted(c) ==
  /\ c.pool > 0 /\ \A m \in VM : c.reserved[m] > 0
  /\ InfoSize * Cardinality(VM) + WordsReserved(c.reserved) <= c.pool

AMM_Init(c) ==
  /\ ~initialized /\ Accepted(c)
  /\ initialized' = TRUE /\ ammPool' = c.pool /\ reserved' = c.reserved
  /\ required' = WordsReserved(c.reserved)
  /\ occupiedShared' = InfoSize * Cardinality(VM)
  /\ UNCHANGED <<occupied, held, queues>>

-----------------------------------------------------------------------------
(* What the users hold, and with the information what the pool has given.   *)
WordsOf(buffer, owner) ==
  IF buffer.size > 0 /\ buffer.owner = owner THEN buffer.size + HeaderSize ELSE 0

HeldBy(owner) == SumFunction([b \in Buffer |-> WordsOf(held[b], owner)])

Given ==
  InfoSize * Cardinality(VM) + HeldBy(Shared) + SumFunction([m \in VM |-> HeldBy(m)])

SelfAvailable(m) == Positive(reserved[m] - occupied[m])

SharedAvailable == Minus(Minus(ammPool, occupiedShared), required)

Take(b, owner, size) ==
  /\ held[b] = Unheld /\ Given + size + HeaderSize <= ammPool
  /\ held' = [held EXCEPT ![b] = [owner |-> owner, size |-> size]]

Release(b) == held' = [held EXCEPT ![b] = Unheld]

-----------------------------------------------------------------------------
(* What AMM_Free gives back of a virtual memory's words: first the part that *)
(* exceeds the reservation.                                                 *)
FreedVirtual(m, words) ==
  LET over == occupied[m] - reserved[m]
  IN  /\ occupiedShared' =
           CASE over > 0 /\ words > over  -> Minus(occupiedShared, over)
             [] over > 0 /\ words <= over -> Minus(occupiedShared, words)
             [] OTHER -> occupiedShared
      /\ occupied' = [occupied EXCEPT ![m] = Minus(@, words)]

-----------------------------------------------------------------------------
(* More faulty variants.                                                    *)

EnoughButHeader(owner, size) ==
  IF owner = Shared THEN size <= SharedAvailable
  ELSE size <= Plus(SharedAvailable, SelfAvailable(owner))

InvokeLast ==
  /\ processing /\ active # <<>>
  /\ active' = Front(active)
  /\ UNCHANGED <<config, counters, held, pending, ammRequested, processing>>

-----------------------------------------------------------------------------
(* AMM_Alloc: the comparison is strict because of the header.               *)
Enough(owner, size) ==
  IF owner = Shared THEN size < SharedAvailable
  ELSE size < Plus(SharedAvailable, SelfAvailable(owner))

AllocShared(b, size) ==
  /\ initialized /\ Enough(Shared, size) /\ Take(b, Shared, size)
  /\ occupiedShared' = Plus(occupiedShared, size + HeaderSize)
  /\ UNCHANGED <<config, occupied, queues>>

AllocVirtual(b, m, size) ==
  /\ initialized /\ Enough(m, size) /\ Take(b, m, size)
  /\ occupied' = [occupied EXCEPT ![m] = Plus(@, size + HeaderSize)]
  /\ occupiedShared' = IF reserved[m] < occupied'[m]
                       THEN Minus(Plus(occupiedShared, size + HeaderSize), SelfAvailable(m))
                       ELSE occupiedShared
  /\ UNCHANGED <<config, queues>>

(* The request is refused, or the basic memory manager fails.  A callback   *)
(* is the node of a list: one that is in a list is not passed again.        *)
AllocFails(cb) ==
  /\ initialized
  /\ cb \notin ToSet(pending \o active)
  /\ pending' = IF cb = NoCallback THEN pending ELSE Append(pending, cb)
  /\ UNCHANGED <<config, counters, held, active, ammRequested, processing>>

(* AMM_Free of a buffer that was allocated.  It sets the task after its     *)
(* critical section, but the task only runs once its caller is done.        *)
AMM_Free(b) ==
  LET words == held[b].size + HeaderSize
  IN  /\ held[b] # Unheld /\ Release(b)
      /\ IF held[b].owner = Shared
         THEN occupiedShared' = Minus(occupiedShared, words) /\ UNCHANGED occupied
         ELSE FreedVirtual(held[b].owner, words)
      /\ pending' = <<>> /\ active' = active \o pending /\ ammRequested' = TRUE
      /\ UNCHANGED <<config, processing>>

(* AMM_BackgroundProcess, the task.  A callback may allocate and free: the  *)
(* actions above.                                                           *)
RunAmmTask ==
  /\ ammRequested /\ ~processing
  /\ ammRequested' = FALSE /\ processing' = TRUE
  /\ UNCHANGED <<config, counters, held, pending, active>>

InvokeCallback ==
  /\ processing /\ active # <<>>
  /\ active' = Tail(active)
  /\ UNCHANGED <<config, counters, held, pending, ammRequested, processing>>

EndTask ==
  /\ processing /\ active = <<>>
  /\ processing' = FALSE
  /\ UNCHANGED <<config, counters, held, pending, active, ammRequested>>

AmmNext ==
  \/ \E c \in Config : AMM_Init(c)
  \/ \E b \in Buffer, size \in 1 .. MaxSize :
       AllocShared(b, size) \/ \E m \in VM : AllocVirtual(b, m, size)
  \/ \E cb \in Callback \cup {NoCallback} : AllocFails(cb)
  \/ \E b \in Buffer : AMM_Free(b)
  \/ RunAmmTask \/ InvokeCallback \/ EndTask

AmmSpec == AmmInit /\ [][AmmNext]_ammVars

(* The sequencer runs the task, and the task goes on.                       *)
FairAmmSpec == AmmSpec /\ WF_ammVars(RunAmmTask) /\ WF_ammVars(InvokeCallback) /\ WF_ammVars(EndTask)

-----------------------------------------------------------------------------
(* Type invariant: no counter wraps, no callback is queued twice.           *)
AmmTypeOK ==
  /\ initialized \in BOOLEAN /\ ammPool \in Nat
  /\ required \in 0 .. ammPool /\ occupiedShared \in 0 .. ammPool
  /\ reserved \in [VM -> Nat] /\ occupied \in [VM -> 0 .. ammPool]
  /\ held \in [Buffer -> [owner : VM \cup {Shared}, size : 0 .. MaxSize]]
  /\ IsInjective(pending \o active)
  /\ ToSet(pending \o active) \subseteq Callback
  /\ ammRequested \in BOOLEAN /\ processing \in BOOLEAN

(* The counters say what the users hold: those of each virtual memory all   *)
(* its words, the shared one the rest and what exceeds the reservations -   *)
(* whatever the order of allocations and frees.                             *)
Excess(m) == Positive(HeldBy(m) - reserved[m])

CountersAgree ==
  /\ AmmTypeOK
  /\ initialized =>
       /\ \A m \in VM : occupied[m] = HeldBy(m)
       /\ occupiedShared = InfoSize * Cardinality(VM) + HeldBy(Shared)
                           + SumFunction([m \in VM |-> Excess(m)])

(* The promise of a reservation: what a virtual memory has not used of it   *)
(* is free in the pool, whatever the others take.                           *)
Unused(m) == Positive(reserved[m] - HeldBy(m))

ReservationsKept ==
  initialized => Given + SumFunction([m \in VM |-> Unused(m)]) <= ammPool

(* A callback to be called has the task set or running.                     *)
RetryRequested == active # <<>> => ammRequested \/ processing

(* In whatever order buffers are allocated and freed, the counters agree with*)
(* what is held, each virtual memory finds what it has reserved, and those  *)
(* who wait for memory are on their way to be told.                         *)
AccountsAreKept == CountersAgree /\ ReservationsKept /\ RetryRequested

(* A callback that memory has been freed for is called in the end.          *)
RetriesCalled ==
  \A cb \in Callback : (cb \in ToSet(active)) ~> (cb \notin ToSet(active))
=============================================================================
