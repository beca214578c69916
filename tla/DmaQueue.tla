------------------------------- MODULE DmaQueue -------------------------------
(***************************************************************************)
(* Queues of linked-list nodes for the GPDMA, the HAL_DMAEx_List functions *)
(* of stm32wbaxx_hal_dma_ex.c.  A node is a block of register values in    *)
(* memory whose last register holds the address of the next node.  A queue *)
(* remembers its head, the node its tail leads back to and how many nodes  *)
(* there are; the rest is found by following the links.                    *)
(*                                                                         *)
(* A node has four registers here: two that a dynamic queue leaves out     *)
(* when they equal those of the node before (they stand for CTR1, CTR2 and *)
(* CBR1), one that it never leaves out (CSAR, CDAR), and the link CLLR.    *)
(* Node 0 stands for what lies at the base address of the nodes' region.   *)
(* A link is the lower half of an address; the upper half is the one of    *)
(* the queue's head.                                                       *)
(* ErrorCode is left out (nothing reads it), and NULL arguments.           *)
(***************************************************************************)
EXTENDS Naturals, SequencesExt

CONSTANTS
  Node,            (* addresses of nodes, numbers from 1                   *)
  Region,          (* Region[n]: the bits set in the upper half of n       *)
  Kind             (* Kind[n]: the type of n, its channel and addressing   *)

Queue == {"a", "b"}
Compared == {1, 2}                    \* registers a dynamic node may leave out
LinkReg == 4
Full == 1 .. LinkReg

ASSUME QueueAssumption ==
  Node \subseteq Nat \ {0} /\ DOMAIN Region = Node /\ DOMAIN Kind = Node

VARIABLES
  queue,           \* queue[q]: the DMA_QListTypeDef of q
  memory,          \* memory[n]: the registers of node n, and where CLLR is
  want,            \* history: the nodes q was built from, and its first circular one
  misused,         \* history: a call was accepted that breaks a queue, see QueueIsItsSequence
  steps            \* calls so far

queueVars == <<queue, memory, want, misused, steps>>

CONSTANT MaxSteps  (* bound: calls                                         *)

Unlinked == [link |-> 0, loads |-> {}]
Linked(n) == [link |-> n, loads |-> Full]

EmptyQueue == [head |-> 0, circular |-> 0, number |-> 0, state |-> "RESET", type |-> "STATIC"]

(* DMA_List_BuildNode: data are the registers before CLLR.                  *)
DMA_List_BuildNode(data) == [regs |-> Append(data, Unlinked), cllr |-> LinkReg]
DMA_List_GetNodeConfig(m, n) == SubSeq(m[n].regs, 1, LinkReg - 1)

QueueInit ==
  /\ queue = [q \in Queue |-> EmptyQueue]
  /\ memory = [n \in Node \cup {0} |-> DMA_List_BuildNode(<<1, 1, 10 + n>>)]
  /\ want = [q \in Queue |-> [nodes |-> <<>>, circular |-> 0]]
  /\ misused = FALSE /\ steps = 0

-----------------------------------------------------------------------------
(* Faulty variants, see the module Sequencer.                               *)

StaleTail(m, prev, node, next) ==
  [m EXCEPT ![prev].regs[LinkReg] = Linked(node)]

KeepsComparing(s, c) ==
  IF c \in Compared /\ s.context[c] = s.node.regs[s.k]
  THEN LET at == s.node.cllr - 1
           r == [i \in 1 .. LinkReg |->
                   IF s.k <= i /\ i < LinkReg THEN s.node.regs[i + 1] ELSE s.node.regs[i]]
       IN [s EXCEPT !.node.regs = [r EXCEPT ![at].loads = @ \ {c}], !.node.cllr = at]
  ELSE [s EXCEPT !.context[c] = IF c \in Compared THEN @ ELSE s.node.regs[s.k],
                 !.node.regs[s.node.cllr].loads = @ \cup {c}, !.k = @ + 1]

-----------------------------------------------------------------------------
(* Links and checks.                                                        *)

LinkOf(m, n) == m[n].regs[m[n].cllr].link
SetLink(m, n, l) == [m EXCEPT ![n].regs[LinkReg] = l]

Given(ns) == SelectSeq(ns, LAMBDA n : n # 0)

(* The addresses are joined bit by bit, and compared with the first: others *)
(* whose bits the first has too are accepted.                               *)
DMA_List_CheckNodesBaseAddresses(ns) ==
  Given(ns) # <<>> /\ UNION {Region[n] : n \in ToSet(Given(ns))} # Region[Head(Given(ns))]
DMA_List_CheckNodesTypes(ns) == \E n, k \in ToSet(Given(ns)) : Kind[n] # Kind[k]
Mismatched(ns) == DMA_List_CheckNodesBaseAddresses(ns) \/ DMA_List_CheckNodesTypes(ns)

(* DMA_List_FindNode: the nodes met from the head, as many as the queue     *)
(* says; where n is among them; n = 0 asks for the last one.                *)
Walk(q, m) ==
  LET at[i \in 1 .. q.number] == IF i = 1 THEN q.head ELSE LinkOf(m, at[i - 1])
  IN [i \in 1 .. q.number |-> at[i]]

Tail0(q, m) == IF q.number = 0 THEN 0 ELSE Walk(q, m)[q.number]
IsIn(q, m, n) == \E i \in 1 .. q.number : Walk(q, m)[i] = n
Position(q, m, n) == CHOOSE i \in 1 .. q.number :
                       Walk(q, m)[i] = n /\ \A k \in 1 .. i - 1 : Walk(q, m)[k] # n
Before(q, m, i) == IF i = 1 THEN 0 ELSE Walk(q, m)[i - 1]

Ready(q) == [q EXCEPT !.state = "READY"]
DMA_List_CleanQueue == EmptyQueue

(* The result of a function: the queue, the memory.                         *)
Result(q, m) == [q |-> q, m |-> m]
NotFound(q, m) == Result([q EXCEPT !.state = "BUSY"], m)

-----------------------------------------------------------------------------
(* Nodes.  Each function refuses a dynamic queue, and nodes that do not     *)
(* match.  A node that is not found leaves the queue BUSY.                  *)

(* prev leads to node, node to next (or, at the end of a linear list, keeps *)
(* what it has).                                                            *)
Between(m, prev, node, next) ==
  SetLink(IF next = 0 THEN m ELSE SetLink(m, node, Linked(next)), prev, Linked(node))

HAL_DMAEx_List_InsertNode(q, m, prev, new) ==
  LET i == Position(q, m, prev)
      grown == Ready([q EXCEPT !.number = @ + 1])
  IN IF q.type = "DYNAMIC" \/ Mismatched(<<q.head, prev, new>>) THEN Result(q, m)
     ELSE IF q.head = 0 /\ prev = 0 THEN Result(Ready([q EXCEPT !.head = new, !.number = 1]), m)
     ELSE IF q.head = 0
     THEN Result(Ready([q EXCEPT !.head = prev, !.number = 2]), SetLink(m, prev, Linked(new)))
     ELSE IF prev = 0 THEN Result([grown EXCEPT !.head = new], SetLink(m, new, Linked(q.head)))
     ELSE IF ~IsIn(q, m, prev) THEN NotFound(q, m)
     ELSE IF i = q.number THEN Result(grown, Between(m, prev, new, q.circular))
     ELSE Result(grown, SetLink(SetLink(m, new, m[prev].regs[LinkReg]), prev, Linked(new)))

HAL_DMAEx_List_InsertNode_Head(q, m, new) ==
  LET grown == Ready([q EXCEPT !.number = @ + 1, !.head = new])
  IN IF q.type = "DYNAMIC" \/ Mismatched(<<q.head, new>>) THEN Result(q, m)
     ELSE Result(grown, IF q.head = 0 THEN m ELSE SetLink(m, new, Linked(q.head)))

HAL_DMAEx_List_InsertNode_Tail(q, m, new) ==
  LET grown == Ready([q EXCEPT !.number = @ + 1, !.head = IF q.head = 0 THEN new ELSE @])
  IN IF q.type = "DYNAMIC" \/ Mismatched(<<q.head, new>>) THEN Result(q, m)
     ELSE Result(grown, IF q.head = 0 THEN m ELSE Between(m, Tail0(q, m), new, q.circular))

(* A queue whose last node goes is cleaned.                                 *)
Shrunk(q) == IF q.number = 1 THEN DMA_List_CleanQueue ELSE Ready([q EXCEPT !.number = @ - 1])

(* Removing the first circular node, or the tail, makes the queue linear.   *)
Opened(q, m) == SetLink(m, Tail0(q, m), Unlinked)

HAL_DMAEx_List_RemoveNode(q, m, n) ==
  LET i == Position(q, m, n)
      first == q.circular = n
      o == IF first THEN Opened(q, m) ELSE m
      linear == [q EXCEPT !.circular = IF first THEN 0 ELSE @]
  IN IF q.head = 0 \/ q.type = "DYNAMIC" THEN Result(q, m)
     ELSE IF ~IsIn(q, m, n) THEN NotFound(q, m)
     ELSE IF i = 1
     THEN Result(Shrunk([linear EXCEPT !.head = LinkOf(o, n)]), SetLink(o, n, Unlinked))
     ELSE IF i = q.number
     THEN Result(Shrunk([q EXCEPT !.circular = 0]),
                 SetLink(SetLink(m, Before(q, m, i), Unlinked), n, Unlinked))
     ELSE Result(Shrunk(linear),
                 SetLink(SetLink(o, Before(q, m, i), o[n].regs[LinkReg]), n, Unlinked))

HAL_DMAEx_List_RemoveNode_Head(q, m) ==
  LET first == q.circular = q.head
      o == IF first THEN Opened(q, m) ELSE m
  IN IF q.head = 0 \/ q.type = "DYNAMIC" THEN Result(q, m)
     ELSE IF q.number = 1 THEN Result(DMA_List_CleanQueue, SetLink(m, q.head, Unlinked))
     ELSE Result(Shrunk([q EXCEPT !.circular = IF first THEN 0 ELSE @, !.head = LinkOf(o, q.head)]),
                 SetLink(o, q.head, Unlinked))

HAL_DMAEx_List_RemoveNode_Tail(q, m) ==
  IF q.head = 0 \/ q.type = "DYNAMIC" THEN Result(q, m)
  ELSE IF q.number = 1 THEN Result(DMA_List_CleanQueue, SetLink(m, q.head, Unlinked))
  ELSE Result(Shrunk([q EXCEPT !.circular = 0]),
              SetLink(SetLink(m, Before(q, m, q.number), Unlinked), Tail0(q, m), Unlinked))

(* new leads where old did; the tail of a circular queue back to its first  *)
(* circular node, which may be new itself.                                  *)
HAL_DMAEx_List_ReplaceNode(q, m, old, new) ==
  LET i == Position(q, m, old)
      first == q.circular = old
      moved == SetLink(SetLink(m, new, m[old].regs[LinkReg]), old, Unlinked)
      joined == IF i = 1 THEN moved ELSE SetLink(moved, Before(q, m, i), Linked(new))
      r == Ready([q EXCEPT !.head = IF i = 1 THEN new ELSE @, !.circular = IF first THEN new ELSE @])
  IN IF q.head = 0 \/ q.type = "DYNAMIC" \/ Mismatched(<<q.head, old, new>>) THEN Result(q, m)
     ELSE IF ~IsIn(q, m, old) THEN NotFound(q, m)
     ELSE IF i = q.number /\ i > 1
     THEN LET t == SetLink(SetLink(m, Before(q, m, i), Linked(new)), old, Unlinked)
          IN Result(r, IF r.circular = 0 THEN t ELSE SetLink(t, new, Linked(r.circular)))
     ELSE Result(r, IF first THEN SetLink(joined, Tail0(r, joined), Linked(new)) ELSE joined)

HAL_DMAEx_List_ReplaceNode_Head(q, m, new) ==
  LET first == q.circular = q.head
      t == IF first THEN SetLink(m, Tail0(q, m), Linked(new)) ELSE m
      r == Ready([q EXCEPT !.head = new, !.circular = IF first THEN new ELSE @])
  IN IF q.head = 0 \/ q.type = "DYNAMIC" \/ Mismatched(<<q.head, new>>) THEN Result(q, m)
     ELSE Result(r, SetLink(SetLink(t, new, t[q.head].regs[LinkReg]), q.head, Unlinked))

(* The node before a tail that is the head is the base address.            *)
HAL_DMAEx_List_ReplaceNode_Tail(q, m, new) ==
  LET tail == Tail0(q, m)
      t == SetLink(SetLink(m, Before(q, m, q.number), Linked(new)), tail, Unlinked)
      r == Ready([q EXCEPT !.circular = IF @ = tail THEN new ELSE @,
                           !.head = IF q.number = 1 THEN new ELSE @])
  IN IF q.head = 0 \/ q.type = "DYNAMIC" THEN Result(q, m)
     ELSE Result(r, IF r.circular = 0 THEN t ELSE SetLink(t, new, Linked(r.circular)))

(* DMA_List_ResetQueueNodes clears the link of every node.                  *)
DMA_List_ResetQueueNodes(q, m) ==
  FoldLeft(LAMBDA n, i : SetLink(n, i, Unlinked), m, Walk(q, m))

HAL_DMAEx_List_ResetQ(q, m) ==
  IF q.state = "BUSY" \/ q.type = "DYNAMIC" THEN Result(q, m)
  ELSE Result([EmptyQueue EXCEPT !.type = q.type], DMA_List_ResetQueueNodes(q, m))

-----------------------------------------------------------------------------
(* A queue put into another; the result is the queue put into.              *)

Joined(s, d) == Ready([d EXCEPT !.number = @ + s.number])
Refused(s, d, prev) ==
  s.head = 0 \/ s.type = "DYNAMIC" \/ d.type = "DYNAMIC" \/ Mismatched(<<s.head, prev, d.head>>)

HAL_DMAEx_List_InsertQ_Head(s, d, m) ==
  LET first == d.circular = d.head
      t == IF first THEN SetLink(m, Tail0(d, m), Linked(s.head)) ELSE m
      j == [Joined(s, d) EXCEPT !.head = s.head, !.circular = IF first THEN s.head ELSE @]
  IN IF d.head = 0 THEN Result(Ready([d EXCEPT !.head = s.head, !.number = s.number]), m)
     ELSE Result(j, SetLink(t, Tail0(s, m), Linked(d.head)))

HAL_DMAEx_List_InsertQ_Tail(s, d, m) ==
  IF d.head = 0 THEN Result(Ready([d EXCEPT !.head = s.head, !.number = s.number]), m)
  ELSE LET t == SetLink(m, Tail0(d, m), Linked(s.head))
       IN Result(Joined(s, d), IF d.circular = 0 THEN t
                               ELSE SetLink(t, Tail0(s, m), Linked(d.circular)))

HAL_DMAEx_List_InsertQ(s, d, m, prev) ==
  LET i == Position(d, m, prev)
      next == LinkOf(m, prev)
  IN IF d.head = 0 \/ prev = 0 THEN HAL_DMAEx_List_InsertQ_Head(s, d, m)
     ELSE IF ~IsIn(d, m, prev) THEN NotFound(d, m)
     ELSE IF i = d.number THEN HAL_DMAEx_List_InsertQ_Tail(s, d, m)
     ELSE Result(Joined(s, d), SetLink(SetLink(m, prev, Linked(s.head)), Tail0(s, m), Linked(next)))

-----------------------------------------------------------------------------
(* Circularity.                                                             *)

HAL_DMAEx_List_SetCircularModeConfig(q, m, first) ==
  IF q.head = 0 \/ q.circular # 0 \/ q.type = "DYNAMIC" THEN Result(q, m)
  ELSE IF ~IsIn(q, m, first) THEN NotFound(q, m)
  ELSE Result(Ready([q EXCEPT !.circular = first]), SetLink(m, Tail0(q, m), Linked(first)))

HAL_DMAEx_List_SetCircularMode(q, m) == HAL_DMAEx_List_SetCircularModeConfig(q, m, q.head)

HAL_DMAEx_List_ClearCircularMode(q, m) ==
  IF q.head = 0 \/ q.circular = 0 \/ q.type = "DYNAMIC" THEN Result(q, m)
  ELSE Result(Ready([q EXCEPT !.circular = 0]), Opened(q, m))

-----------------------------------------------------------------------------
(* The dynamic format: a node keeps the registers that differ from those    *)
(* loaded before it, then its link, whose loads say which the next one has. *)

DMA_List_FormatNode(regs, at, format) ==
  IF format = "DYNAMIC"
  THEN [i \in 1 .. LinkReg |-> IF at <= i /\ i < LinkReg THEN regs[i + 1] ELSE regs[i]]
  ELSE [i \in 1 .. LinkReg |-> IF at < i /\ i < LinkReg THEN regs[i - 1] ELSE regs[i]]

DMA_List_ClearUnusedFields(regs, from) ==
  [i \in 1 .. LinkReg |-> IF i >= from THEN 0 ELSE regs[i]]

(* One register of the node: left out, or kept and noted in the context.    *)
CompareRegister(s, c) ==
  IF c \in Compared /\ s.context[c] = s.node.regs[s.k]
  THEN LET at == s.node.cllr - 1
           r == DMA_List_FormatNode(s.node.regs, s.k, "DYNAMIC")
       IN [s EXCEPT !.node.regs = [r EXCEPT ![at].loads = @ \ {c}], !.node.cllr = at]
  ELSE [s EXCEPT !.context[c] = s.node.regs[s.k],
                 !.node.regs[s.node.cllr].loads = @ \cup {c}, !.k = @ + 1]

DMA_List_ConvertNodeToDynamic(context, node) ==
  LET s == FoldLeft(CompareRegister, [context |-> context, node |-> node, k |-> 1], <<1, 2, 3, 4>>)
  IN [context |-> s.context,
      node |-> [regs |-> DMA_List_ClearUnusedFields(s.node.regs, s.k), cllr |-> s.k - 1]]

(* Every node but the last is told what the next one holds.                 *)
DMA_List_UpdateDynamicQueueNodesCLLR(q, m, isLast) ==
  LET tell(s, i) ==
        LET next == LinkOf(s.m, s.at) IN
        [at |-> next,
         m |-> [s.m EXCEPT ![s.at].regs[s.m[s.at].cllr].loads =
                             s.m[next].regs[s.m[next].cllr].loads]]
      e == FoldLeft(tell, [at |-> q.head, m |-> m], [i \in 1 .. q.number - 1 |-> i])
      c == e.m[e.at].cllr
  IN [e.m EXCEPT ![e.at].regs[c] =
        IF q.circular = 0 THEN Unlinked
        ELSE IF isLast THEN [@ EXCEPT !.loads = @ \ {LinkReg}] ELSE Linked(q.head)]

HAL_DMAEx_List_ConvertQToDynamic(q, m) ==
  LET last == Tail0(q, m)
      convert(s, i) ==
        LET n == s.context[LinkReg].link
            c == DMA_List_ConvertNodeToDynamic(s.context, s.m[n])
        IN IF q.circular = n /\ n # last THEN [s EXCEPT !.context = s.m[n].regs]
           ELSE [context |-> c.context, m |-> [s.m EXCEPT ![n] = c.node]]
      e == FoldLeft(convert, [context |-> m[q.head].regs, m |-> m], [i \in 1 .. q.number - 1 |-> i])
      circularBefore == q.circular # 0 /\ q.circular # last
  IN IF q.head = 0 \/ q.type = "DYNAMIC" THEN Result(q, m)
     ELSE Result([Ready(q) EXCEPT !.type = "DYNAMIC"],
                 DMA_List_UpdateDynamicQueueNodesCLLR(q, e.m, ~circularBefore))

(* Back: the links first go to their place, then the registers are filled   *)
(* in from the node before, then every link loads everything.               *)
DMA_List_UpdateStaticQueueNodesCLLR(q, m, all) ==
  LET place(s, i) ==
        LET l == s.m[s.at].regs[s.m[s.at].cllr]
            put == IF all THEN Linked(l.link) ELSE l
        IN [at |-> l.link,
            m |-> SetLink(s.m, s.at, IF i = q.number /\ q.circular = 0 THEN Unlinked ELSE put)]
  IN FoldLeft(place, [at |-> q.head, m |-> m], [i \in 1 .. q.number |-> i]).m

DMA_List_ConvertNodeToStatic(context, node) ==
  LET loads == context.regs[context.cllr].loads
      fill(r, c) == IF c \in loads THEN r
                    ELSE [DMA_List_FormatNode(r, c, "STATIC") EXCEPT ![c] = context.regs[c]]
  IN [regs |-> FoldLeft(fill, node.regs, <<1, 2, 3, 4>>), cllr |-> LinkReg]

HAL_DMAEx_List_ConvertQToStatic(q, m) ==
  LET p == DMA_List_UpdateStaticQueueNodesCLLR(q, m, FALSE)
      convert(s, i) ==
        LET n == s.m[s.at].regs[LinkReg].link
        IN [at |-> n, m |-> [s.m EXCEPT ![n] = DMA_List_ConvertNodeToStatic(s.m[s.at], @)]]
      e == FoldLeft(convert, [at |-> q.head, m |-> p], [i \in 1 .. q.number - 1 |-> i])
  IN IF q.head = 0 \/ q.type = "STATIC" THEN Result(q, m)
     ELSE Result([Ready(q) EXCEPT !.type = "STATIC"],
                 DMA_List_UpdateStaticQueueNodesCLLR(q, e.m, TRUE))

-----------------------------------------------------------------------------
(* The calls.  A node is put into a queue when it is in none; what the      *)
(* queue should be afterwards is said of sequences, without links.  After a *)
(* call that broke a queue its addresses lead anywhere, and no more calls   *)
(* are looked at.                                                           *)

Nodes(q) == want[q].nodes
IsLoose(n) == \A q \in Queue : n \notin ToSet(Nodes(q))
IndexIn(q, n) == CHOOSE i \in DOMAIN Nodes(q) : Nodes(q)[i] = n
IsStatic(q) == queue[q].type = "STATIC"
Alike(q, ns) == ~Mismatched(<<queue[q].head>> \o ns)

(* The nodes of a queue that is followed from its head, and others.         *)
Elsewhere(ns) == \E n, k \in ToSet(Given(ns)) : Region[n] # Region[k]
Misplaced(q, ns) == Elsewhere(<<queue[q].head>> \o ns)
Misuse(broken) == misused' = broken

OneCall == steps < MaxSteps /\ ~misused /\ steps' = steps + 1

Called(q, r, done, w) ==
  /\ OneCall
  /\ queue' = [queue EXCEPT ![q] = r.q]
  /\ memory' = r.m
  /\ want' = [want EXCEPT ![q] = IF done /\ IsStatic(q) THEN w ELSE @]

Grows(q, i, n) == [want[q] EXCEPT !.nodes = InsertAt(@, i, n)]
Loses(q, i) ==
  [nodes |-> RemoveAt(Nodes(q), i),
   circular |-> IF i = Len(Nodes(q)) \/ want[q].circular = Nodes(q)[i] THEN 0 ELSE want[q].circular]
Changes(q, i, n) ==
  [nodes |-> ReplaceAt(Nodes(q), i, n),
   circular |-> IF want[q].circular = Nodes(q)[i] THEN n ELSE want[q].circular]

BuildNode ==
  /\ OneCall
  /\ \E n \in Node, d \in {1, 2} :
       IsLoose(n) /\ memory' = [memory EXCEPT ![n] = DMA_List_BuildNode(<<d, 1, 10 + n>>)]
  /\ UNCHANGED <<queue, want, misused>>

InsertNode(q, prev, n) ==
  /\ IsLoose(n) /\ prev # n
  /\ queue[q].head = 0 => IsLoose(prev)
  /\ LET w == IF Nodes(q) = <<>> THEN [want[q] EXCEPT !.nodes = IF prev = 0 THEN <<n>> ELSE <<prev, n>>]
              ELSE Grows(q, IF prev = 0 THEN 1 ELSE IndexIn(q, prev) + 1, n)
         found == prev = 0 \/ Nodes(q) = <<>> \/ prev \in ToSet(Nodes(q))
         done == found /\ Alike(q, <<prev, n>>)
     IN /\ Called(q, HAL_DMAEx_List_InsertNode(queue[q], memory, prev, n), done, w)
        /\ Misuse(done /\ IsStatic(q) /\ Misplaced(q, <<prev, n>>))

InsertNode_Head(q, n) ==
  /\ IsLoose(n)
  /\ Called(q, HAL_DMAEx_List_InsertNode_Head(queue[q], memory, n), Alike(q, <<n>>), Grows(q, 1, n))
  /\ Misuse(Alike(q, <<n>>) /\ IsStatic(q) /\ Misplaced(q, <<n>>))

InsertNode_Tail(q, n) ==
  /\ IsLoose(n)
  /\ Called(q, HAL_DMAEx_List_InsertNode_Tail(queue[q], memory, n), Alike(q, <<n>>),
            Grows(q, Len(Nodes(q)) + 1, n))
  /\ Misuse(Alike(q, <<n>>) /\ IsStatic(q) /\ Misplaced(q, <<n>>))

RemoveNode(q, n) ==
  /\ Called(q, HAL_DMAEx_List_RemoveNode(queue[q], memory, n), n \in ToSet(Nodes(q)),
            Loses(q, IndexIn(q, n)))
  /\ UNCHANGED misused

RemoveNode_Head(q) ==
  /\ Called(q, HAL_DMAEx_List_RemoveNode_Head(queue[q], memory), Nodes(q) # <<>>, Loses(q, 1))
  /\ UNCHANGED misused

RemoveNode_Tail(q) ==
  /\ Called(q, HAL_DMAEx_List_RemoveNode_Tail(queue[q], memory), Nodes(q) # <<>>,
            Loses(q, Len(Nodes(q))))
  /\ UNCHANGED misused

ReplaceNode(q, old, n) ==
  /\ IsLoose(n)
  /\ LET done == old \in ToSet(Nodes(q)) /\ Alike(q, <<old, n>>) IN
     /\ Called(q, HAL_DMAEx_List_ReplaceNode(queue[q], memory, old, n), done,
               Changes(q, IndexIn(q, old), n))
     /\ Misuse(done /\ IsStatic(q) /\ Misplaced(q, <<n>>))

ReplaceNode_Head(q, n) ==
  /\ IsLoose(n)
  /\ LET done == Nodes(q) # <<>> /\ Alike(q, <<n>>) IN
     /\ Called(q, HAL_DMAEx_List_ReplaceNode_Head(queue[q], memory, n), done, Changes(q, 1, n))
     /\ Misuse(done /\ IsStatic(q) /\ Misplaced(q, <<n>>))

(* Neither the addresses nor the types are compared, nor is the case of one *)
(* node told apart, whose "node before" is the base address.                *)
ReplaceNode_Tail(q, n) ==
  /\ IsLoose(n)
  /\ Called(q, HAL_DMAEx_List_ReplaceNode_Tail(queue[q], memory, n), Nodes(q) # <<>>,
            Changes(q, Len(Nodes(q)), n))
  /\ Misuse(IsStatic(q) /\ Nodes(q) # <<>>
               /\ (Len(Nodes(q)) = 1 \/ DMA_List_CheckNodesTypes(<<queue[q].head, n>>)
                     \/ Misplaced(q, <<n>>)))

ResetQ(q) ==
  /\ Called(q, HAL_DMAEx_List_ResetQ(queue[q], memory), queue[q].state # "BUSY",
            [nodes |-> <<>>, circular |-> 0])
  /\ UNCHANGED misused

(* The source is cleaned when it was put in; both stay BUSY when the        *)
(* previous node was not found.  Only InsertQ refuses one that is circular; *)
(* its last node still leads back.                                          *)
InsertsQ(s, d, prev, r, found, at, circular) ==
  LET taken == ~Refused(queue[s], queue[d], prev)
      done == taken /\ found
  IN
  /\ OneCall /\ s # d
  /\ queue' = IF taken
              THEN [queue EXCEPT ![d] = r.q,
                                 ![s] = IF found THEN DMA_List_CleanQueue ELSE [@ EXCEPT !.state = "BUSY"]]
              ELSE queue
  /\ memory' = IF done THEN r.m ELSE memory
  /\ want' = IF done
             THEN [want EXCEPT ![s] = [nodes |-> <<>>, circular |-> 0],
                               ![d] = [nodes |-> SubSeq(Nodes(d), 1, at) \o Nodes(s)
                                                 \o SubSeq(Nodes(d), at + 1, Len(Nodes(d))),
                                       circular |-> circular]]
             ELSE want
  /\ Misuse(done /\ (queue[s].circular # 0 \/ Elsewhere(<<queue[s].head, queue[d].head>>)))

AtHead(s, d) ==
  IF Nodes(d) # <<>> /\ want[d].circular = Nodes(d)[1] THEN Nodes(s)[1] ELSE want[d].circular

InsertQ(s, d, prev) ==
  /\ queue[s].circular = 0
  /\ InsertsQ(s, d, prev, HAL_DMAEx_List_InsertQ(queue[s], queue[d], memory, prev),
              prev = 0 \/ Nodes(d) = <<>> \/ prev \in ToSet(Nodes(d)),
              IF prev = 0 \/ Nodes(d) = <<>> THEN 0 ELSE IndexIn(d, prev),
              IF prev = 0 THEN AtHead(s, d) ELSE want[d].circular)

InsertQ_Head(s, d) ==
  InsertsQ(s, d, 0, HAL_DMAEx_List_InsertQ_Head(queue[s], queue[d], memory), TRUE, 0, AtHead(s, d))

InsertQ_Tail(s, d) ==
  InsertsQ(s, d, 0, HAL_DMAEx_List_InsertQ_Tail(queue[s], queue[d], memory), TRUE,
           Len(Nodes(d)), want[d].circular)

SetCircularModeConfig(q, n) ==
  /\ Called(q, HAL_DMAEx_List_SetCircularModeConfig(queue[q], memory, n),
            n \in ToSet(Nodes(q)) /\ queue[q].circular = 0, [want[q] EXCEPT !.circular = n])
  /\ UNCHANGED misused

SetCircularMode(q) ==
  /\ Called(q, HAL_DMAEx_List_SetCircularMode(queue[q], memory),
            Nodes(q) # <<>> /\ queue[q].circular = 0, [want[q] EXCEPT !.circular = Nodes(q)[1]])
  /\ UNCHANGED misused

ClearCircularMode(q) ==
  /\ Called(q, HAL_DMAEx_List_ClearCircularMode(queue[q], memory), TRUE, [want[q] EXCEPT !.circular = 0])
  /\ UNCHANGED misused

(* A first circular node inside the queue is not converted, and the last    *)
(* node of the dynamic queue leads to the head instead of to it.            *)
IsInside(q, n) == n # 0 /\ n # Nodes(q)[1] /\ n # Last(Nodes(q))

ConvertQToDynamic(q) ==
  /\ Called(q, HAL_DMAEx_List_ConvertQToDynamic(queue[q], memory), FALSE, want[q])
  /\ Misuse(Nodes(q) # <<>> /\ IsStatic(q) /\ IsInside(q, want[q].circular))

ConvertQToStatic(q) ==
  /\ Called(q, HAL_DMAEx_List_ConvertQToStatic(queue[q], memory), FALSE, want[q])
  /\ UNCHANGED misused

OneQueue(q) ==
  \/ \E n \in Node : \/ \E prev \in Node \cup {0} : InsertNode(q, prev, n) \/ ReplaceNode(q, prev, n)
                     \/ InsertNode_Head(q, n) \/ InsertNode_Tail(q, n) \/ RemoveNode(q, n)
                     \/ ReplaceNode_Head(q, n) \/ ReplaceNode_Tail(q, n)
                     \/ SetCircularModeConfig(q, n)
  \/ RemoveNode_Head(q) \/ RemoveNode_Tail(q) \/ ResetQ(q) \/ SetCircularMode(q)
  \/ ClearCircularMode(q) \/ ConvertQToDynamic(q) \/ ConvertQToStatic(q)

TwoQueues(s, d) ==
  InsertQ_Head(s, d) \/ InsertQ_Tail(s, d) \/ \E n \in Node \cup {0} : InsertQ(s, d, n)

QueueNext == BuildNode \/ (\E q \in Queue : OneQueue(q)) \/ \E s, d \in Queue : TwoQueues(s, d)

QueueSpec == QueueInit /\ [][QueueNext]_queueVars

-----------------------------------------------------------------------------
(* Properties.                                                              *)

(* Following the links from the head gives the nodes that were put into the *)
(* queue, in their order, as many as the queue counts, and the last of them *)
(* leads back to the first circular node or nowhere, in the static format   *)
(* and in the dynamic one: after any calls but four that the functions      *)
(* accept and that break the queue.  These are a node of another region,    *)
(* where the bits of the first address have those of the others             *)
(* (hal_dma_ex.c:3762), ReplaceNode_Tail of the only node or with a node    *)
(* that does not match (1977), a circular source for InsertQ_Head or        *)
(* InsertQ_Tail (2348, 2485), and the conversion of a queue whose first     *)
(* circular node is inside it (2870).                                       *)
QueueIsItsSequence ==
  misused \/ \A q \in Queue :
    /\ queue[q].number = Len(Nodes(q))
    /\ Walk(queue[q], memory) = Nodes(q)
    /\ queue[q].circular = want[q].circular
    /\ Nodes(q) # <<>> => LinkOf(memory, Last(Nodes(q))) = want[q].circular

(* Making a queue dynamic and static again gives back every register of     *)
(* every node: what a dynamic node leaves out can be filled in from the     *)
(* nodes before it.                                                         *)
QueueRoundTrip ==
  misused \/ \A q \in Queue :
    (Nodes(q) # <<>> /\ IsStatic(q) /\ ~IsInside(q, want[q].circular)) =>
      LET dynamic == HAL_DMAEx_List_ConvertQToDynamic(queue[q], memory)
          static == HAL_DMAEx_List_ConvertQToStatic(dynamic.q, dynamic.m)
      IN \A n \in ToSet(Nodes(q)) : static.m[n] = memory[n]

(* A queue is its sequence of nodes, and its formats are worth the same.    *)
QueuesAreKept == QueueIsItsSequence /\ QueueRoundTrip
=============================================================================
