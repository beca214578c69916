-------------------------------- MODULE Heap --------------------------------
(***************************************************************************)
(* The basic memory manager: a pool whose free blocks are linked in the    *)
(* order of their addresses, allocated from the first that is large        *)
(* enough, split, and merged with their neighbours when freed.  Addresses  *)
(* and sizes are in bytes; the caller excludes interrupts.                 *)
(***************************************************************************)
EXTENDS Integers, FiniteSets, FiniteSetsExt

CONSTANTS Pool,      \* pools to initialize: records [start, size]
          Wanted     \* sizes asked for

ASSUME HeapAssumption == \A p \in Pool : p.start \in Nat /\ p.size >= 4 * 8

VARIABLES block,     \* address -> header of a block: [size, next, allocated]
          pxEnd, xFreeBytesRemaining, xMinimumEverFreeBytesRemaining,
          buffers    \* what the callers hold: [addr, size]; the pool

heapVars == <<block, pxEnd, xFreeBytesRemaining, xMinimumEverFreeBytesRemaining, buffers>>

portBYTE_ALIGNMENT == 8
xHeapStructSize == 8
heapMINIMUM_BLOCK_SIZE == 2 * xHeapStructSize
xStart == -1         \* the head of the list is no block of the pool
NULL == -2

AlignedUp(n) == ((n + portBYTE_ALIGNMENT - 1) \div portBYTE_ALIGNMENT) * portBYTE_ALIGNMENT
AlignedDown(n) == (n \div portBYTE_ALIGNMENT) * portBYTE_ALIGNMENT

(* The first block of the list that is in stops; the end marker is listed.  *)
FirstFree(b, stops) ==
  LET Search[a \in DOMAIN b] == IF a \in stops THEN a ELSE Search[b[a].next] IN Search[xStart]

BlockHeader(size, next) == [size |-> size, next |-> next, allocated |-> FALSE]

-----------------------------------------------------------------------------
(* Faulty variants, see the module Sequencer.                               *)

(* The block after is not merged.                                           *)
InsertMergingBefore(b, pos, size) ==
  LET pxIterator == FirstFree(b, {a \in DOMAIN b : b[a].next >= pos})
      joins == pxIterator # xStart /\ pxIterator + b[pxIterator].size = pos
  IN IF joins THEN [a \in DOMAIN b \ {pos} |-> IF a = pxIterator THEN [b[a] EXCEPT !.size = @ + size] ELSE b[a]]
     ELSE [a \in DOMAIN b \cup {pos} |->
             CASE a = pos -> BlockHeader(size, b[pxIterator].next)
               [] a = pxIterator -> [b[a] EXCEPT !.next = pos]
               [] OTHER -> b[a]]

-----------------------------------------------------------------------------
(* The block is merged with the one before it, then with the one after it   *)
(* unless that is the end marker; the headers inside a block are forgotten. *)
prvInsertBlockIntoFreeList(b, pos, size) ==
  LET pxIterator == FirstFree(b, {a \in DOMAIN b : b[a].next >= pos})
      after == b[pxIterator].next
      joinsBefore == pxIterator # xStart /\ pxIterator + b[pxIterator].size = pos
      insert == IF joinsBefore THEN pxIterator ELSE pos
      length == IF joinsBefore THEN b[pxIterator].size + size ELSE size
      joinsAfter == insert + length = after /\ after # pxEnd
      merged == {a \in {pos} : joinsBefore} \cup {a \in {after} : joinsAfter}
  IN [a \in (DOMAIN b \ merged) \cup {insert} |->
        CASE a = insert -> IF joinsAfter THEN BlockHeader(length + b[after].size, b[after].next) ELSE BlockHeader(length, after)
          [] a = pxIterator /\ a # insert -> [b[a] EXCEPT !.next = insert]
          [] OTHER -> b[a]]

UTIL_MM_Init(p_pool, pool_size) ==
  LET aligned == AlignedUp(p_pool)
      total == pool_size - (aligned - p_pool)
      end == AlignedDown(aligned + total - xHeapStructSize)
  IN /\ block = [a \in {xStart, aligned, end} |->
                   CASE a = xStart -> BlockHeader(0, aligned)
                     [] a = aligned -> BlockHeader(end - aligned, end)
                     [] a = end -> BlockHeader(0, NULL)]
     /\ pxEnd = end
     /\ xFreeBytesRemaining = end - aligned
     /\ xMinimumEverFreeBytesRemaining = end - aligned
     /\ buffers = [held |-> {}, pool |-> [start |-> p_pool, size |-> pool_size]]

BlockSizeFor(xWantedSize) == IF xWantedSize > 0 THEN AlignedUp(xWantedSize + xHeapStructSize) ELSE 0

(* The first block large enough, split if the rest is worth it; the search  *)
(* ends at the end marker when there is none.                               *)
UTIL_MM_GetBuffer(xWantedSize) ==
  LET size == BlockSizeFor(xWantedSize)
      pos == FirstFree(block, {a \in DOMAIN block \ {xStart} : block[a].size >= size \/ block[a].next = NULL})
      before == CHOOSE a \in DOMAIN block : ~block[a].allocated /\ block[a].next = pos
      unlinked == [block EXCEPT ![before].next = block[pos].next]
      splits == block[pos].size - size > heapMINIMUM_BLOCK_SIZE
      taken == IF splits THEN size ELSE block[pos].size
      rest == IF splits THEN prvInsertBlockIntoFreeList(unlinked, pos + size, block[pos].size - size) ELSE unlinked
  IN IF size > 0 /\ size <= xFreeBytesRemaining /\ pos # pxEnd
     THEN /\ block' = [rest EXCEPT ![pos] = [size |-> taken, next |-> NULL, allocated |-> TRUE]]
          /\ xFreeBytesRemaining' = xFreeBytesRemaining - taken
          /\ xMinimumEverFreeBytesRemaining' = Min({xMinimumEverFreeBytesRemaining, xFreeBytesRemaining'})
          /\ buffers' = [buffers EXCEPT !.held = @ \cup {[addr |-> pos + xHeapStructSize, size |-> xWantedSize]}]
          /\ UNCHANGED pxEnd
     ELSE UNCHANGED heapVars

UTIL_MM_ReleaseBuffer(pv) ==
  LET pos == pv.addr - xHeapStructSize
      freed == prvInsertBlockIntoFreeList([block EXCEPT ![pos].allocated = FALSE], pos, block[pos].size)
  IN /\ block[pos].allocated /\ block[pos].next = NULL
     /\ block' = freed
     /\ xFreeBytesRemaining' = xFreeBytesRemaining + block[pos].size
     /\ buffers' = [buffers EXCEPT !.held = @ \ {pv}]
     /\ UNCHANGED <<pxEnd, xMinimumEverFreeBytesRemaining>>

HeapInit == \E p \in Pool : UTIL_MM_Init(p.start, p.size)

HeapNext ==
  \/ \E n \in Wanted : UTIL_MM_GetBuffer(n)
  \/ \E pv \in buffers.held : UTIL_MM_ReleaseBuffer(pv)

HeapSpec == HeapInit /\ [][HeapNext]_heapVars

-----------------------------------------------------------------------------
(* The blocks of the list.                                                  *)
FreeBlocks ==
  LET From[a \in DOMAIN block] == IF a = pxEnd THEN {} ELSE {a} \cup From[block[a].next]
  IN From[block[xStart].next]

HeldBlocks == {pv.addr - xHeapStructSize : pv \in buffers.held}

(* However buffers are taken and given back, the free blocks and those held *)
(* cover the pool without overlap, free neighbours are merged, a buffer has *)
(* the room asked for, and the counter tells what is free.                  *)
HeapIsTiled ==
  LET blocks == FreeBlocks \cup HeldBlocks
      first == AlignedUp(buffers.pool.start)
  IN /\ first \in blocks /\ FreeBlocks \cap HeldBlocks = {}
     /\ \A a \in blocks : /\ a + block[a].size \in blocks \cup {pxEnd}
                          /\ \A c \in blocks : c > a => c >= a + block[a].size
     /\ \A a \in FreeBlocks : a + block[a].size \notin FreeBlocks
     /\ \A pv \in buffers.held : pv.size <= block[pv.addr - xHeapStructSize].size - xHeapStructSize
     /\ first >= buffers.pool.start /\ pxEnd + xHeapStructSize <= buffers.pool.start + buffers.pool.size
     /\ xFreeBytesRemaining = MapThenSumSet(LAMBDA a : block[a].size, FreeBlocks)
=============================================================================
