------------------------------ MODULE Containers ------------------------------
(***************************************************************************)
(* The containers of the stack and of the memory manager, each with the    *)
(* sequence it should hold.                                                *)
(*                                                                         *)
(* The circular doubly linked list, stm_list.c: each operation runs with   *)
(* the interrupts masked, so it is one step.                               *)
(*                                                                         *)
(* The queue of byte strings in a ring, stm_queue.c.  Elements have one    *)
(* size, or carry it in a header of two bytes.  One that meets the end of  *)
(* the ring wraps, or leaves the end unused and starts at 0, or is split in*)
(* two elements.                                                           *)
(***************************************************************************)
EXTENDS Integers, Sequences, SequencesExt

-----------------------------------------------------------------------------
(* The list.                                                                *)

CONSTANTS ListNode, listHead

ASSUME ListAssumption == listHead \notin ListNode

VARIABLES links,     \* links.next and links.prev of each node and of the head
          listed     \* the nodes the list should hold, in order

listVars == <<links, listed>>

SetLinks(next, prev) == links' = [next |-> next, prev |-> prev]

-----------------------------------------------------------------------------
LST_init_head ==
  /\ links = [next |-> [n \in ListNode \cup {listHead} |-> n], prev |-> [n \in ListNode \cup {listHead} |-> n]]
  /\ listed = <<>>

LST_is_empty == links.next[listHead] = listHead

LST_insert_head(node) ==
  LET first == links.next[listHead]
  IN SetLinks([links.next EXCEPT ![node] = first, ![listHead] = node],
              [links.prev EXCEPT ![node] = listHead, ![first] = node])

LST_insert_tail(node) ==
  LET last == links.prev[listHead]
  IN SetLinks([links.next EXCEPT ![node] = listHead, ![last] = node],
              [links.prev EXCEPT ![node] = last, ![listHead] = node])

LST_insert_node_after(node, ref_node) ==
  LET after == links.next[ref_node]
  IN SetLinks([links.next EXCEPT ![node] = after, ![ref_node] = node],
              [links.prev EXCEPT ![node] = ref_node, ![after] = node])

LST_insert_node_before(node, ref_node) ==
  LET before == links.prev[ref_node]
  IN SetLinks([links.next EXCEPT ![node] = ref_node, ![before] = node],
              [links.prev EXCEPT ![node] = before, ![ref_node] = node])

LST_remove_node(node) ==
  LET before == links.prev[node]
      after == [links.next EXCEPT ![before] = links.next[node]][node]
  IN SetLinks([links.next EXCEPT ![before] = links.next[node]], [links.prev EXCEPT ![after] = before])

LST_remove_head == LST_remove_node(links.next[listHead])
LST_remove_tail == LST_remove_node(links.prev[listHead])

LST_get_size ==
  LET From[n \in ListNode \cup {listHead}] == IF n = listHead THEN 0 ELSE 1 + From[links.next[n]]
  IN From[links.next[listHead]]

LST_get_next_node(ref_node) == links.next[ref_node]
LST_get_prev_node(ref_node) == links.prev[ref_node]

-----------------------------------------------------------------------------
(* Callers insert only nodes of no list, and remove only nodes of this one. *)
ListNext ==
  \/ \E node \in ListNode \ ToSet(listed) :
       \/ LST_insert_head(node) /\ listed' = <<node>> \o listed
       \/ LST_insert_tail(node) /\ listed' = Append(listed, node)
       \/ \E i \in DOMAIN listed :
            \/ LST_insert_node_after(node, listed[i]) /\ listed' = InsertAt(listed, i + 1, node)
            \/ LST_insert_node_before(node, listed[i]) /\ listed' = InsertAt(listed, i, node)
  \/ \E i \in DOMAIN listed : LST_remove_node(listed[i]) /\ listed' = RemoveAt(listed, i)
  \/ LST_remove_head /\ listed' = IF LST_is_empty THEN listed ELSE Tail(listed)
  \/ LST_remove_tail /\ listed' = IF LST_is_empty THEN listed ELSE Front(listed)

ListSpec == LST_init_head /\ [][ListNext]_listVars

(* In both directions the links lead through the nodes inserted and not     *)
(* removed, in order, and from any node back to the head.                   *)
ListIsItsSequence ==
  LET around == <<listHead>> \o listed \o <<listHead>>
  IN /\ \A i \in 1 .. Len(around) - 1 : /\ LST_get_next_node(around[i]) = around[i + 1]
                                        /\ LST_get_prev_node(around[i + 1]) = around[i]
     /\ LST_get_size = Len(listed) /\ (LST_is_empty <=> listed = <<>>)

-----------------------------------------------------------------------------
(* The queue.                                                               *)

CONSTANTS QueueKind,   \* records [flag, elementSize, max] to initialize queues with
          ElementSize, \* sizes of the elements added
          ByteValues         \* 256

ASSUME RingAssumption ==
  /\ ByteValues \in Nat \ {0}
  /\ \A k \in QueueKind : k.max \in Nat \ {0} /\ (k.flag = "SPLIT" => k.elementSize = 0)
  /\ \A n \in ElementSize : n \in 0 .. ByteValues - 3     \* README, limits of the queue

VARIABLES q,         \* the queue
          queued     \* the elements it should hold

ringVars == <<q, queued>>

MOD(x, y) == IF x >= y THEN x - y ELSE x
Ring(x) == MOD(x, q.kind.max)

ElemSizeStorageRoom == IF q.kind.elementSize = 0 THEN 2 ELSE 0
SizeAt(buf, p) ==
  IF q.kind.elementSize = 0 THEN buf[p] + buf[Ring(p + 1)] * ByteValues ELSE q.kind.elementSize

Overlay(buf, p, bytes) == [i \in DOMAIN buf |-> IF i \in p .. p + Len(bytes) - 1 THEN bytes[i - p + 1] ELSE buf[i]]
ElementHeader(n) == IF q.kind.elementSize = 0 THEN <<n % ByteValues, n \div ByteValues>> ELSE <<>>
Marker == IF q.kind.elementSize = 0 THEN <<ByteValues - 1, ByteValues - 1>> ELSE <<>>

-----------------------------------------------------------------------------
(* Faulty variants, see the module Sequencer.                               *)

UnusedEndForgotten(need, stride, eobFree) == IF q.kind.flag = "SPLIT" THEN ElemSizeStorageRoom ELSE 0

-----------------------------------------------------------------------------
(* The bytes an element that meets the end takes beyond its own.  eobFree,  *)
(* eob_free_size, is unsigned in the code: when the last element reaches    *)
(* over the end, what is negative here is larger there than any need.       *)
Overhead(need, stride, eobFree) ==
  LET wrapped == (IF eobFree < 0 \/ need < eobFree THEN 0 ELSE eobFree % stride) % ByteValues
  IN IF wrapped <= ElemSizeStorageRoom THEN 0
     ELSE CASE q.kind.flag = "NO_WRAP" -> wrapped
            [] q.kind.flag = "SPLIT" -> ElemSizeStorageRoom
            [] OTHER -> 0

-----------------------------------------------------------------------------
(* One element, after the last one, which takes `cur' bytes.                *)
AddElement(s, x) ==
  LET n == Len(x)
      last == Ring(s.last + s.cur)
      headed == IF ElemSizeStorageRoom = 0 THEN s.buf
                ELSE [s.buf EXCEPT ![last] = n % ByteValues, ![Ring(last + 1)] = n \div ByteValues]
      p == Ring(last + ElemSizeStorageRoom)
      here == IF q.kind.max - p < n THEN q.kind.max - p ELSE n
      start == SubSeq(x, 1, here)
      rest == SubSeq(x, here + 1, n)
      bytes == s.byteCount + ElemSizeStorageRoom
  IN CASE here = n \/ q.kind.flag = "NO_FLAG" ->
            [buf |-> Overlay(Overlay(headed, p, start), 0, rest), last |-> last,
             byteCount |-> bytes + n, count |-> s.count + 1, cur |-> n + ElemSizeStorageRoom]
       [] here < n /\ q.kind.flag = "NO_WRAP" ->
            [buf |-> Overlay(Overlay(headed, p - Len(Marker), Marker), 0, ElementHeader(n) \o x), last |-> 0,
             byteCount |-> bytes + here + ElemSizeStorageRoom + n,
             count |-> s.count + 1, cur |-> n + ElemSizeStorageRoom]
       [] here < n /\ q.kind.flag = "SPLIT" ->
            [buf |-> Overlay(Overlay(headed, p - ElemSizeStorageRoom, ElementHeader(here) \o start),
                           0, ElementHeader(Len(rest)) \o rest), last |-> 0,
             byteCount |-> bytes + here + ElemSizeStorageRoom + Len(rest),
             count |-> s.count + 2, cur |-> Len(rest) + ElemSizeStorageRoom]

CircularQueue_Add(xs) ==
  LET size == Len(Head(xs))
      cur == IF q.byteCount # 0 THEN SizeAt(q.buf, q.last) + ElemSizeStorageRoom ELSE 0
      eobFree == IF q.last >= q.first THEN q.kind.max - (q.last + cur) ELSE 0
      stride == size + ElemSizeStorageRoom
      need == stride * Len(xs)
      added == FoldLeft(AddElement, [buf |-> q.buf, last |-> q.last, byteCount |-> q.byteCount,
                                     count |-> q.count, cur |-> cur], xs)
  IN IF size # 0 /\ q.byteCount + need + Overhead(need, stride, eobFree) <= q.kind.max
     THEN /\ q' = [q EXCEPT !.buf = added.buf, !.last = added.last, !.byteCount = added.byteCount, !.count = added.count]
          /\ queued' = queued \o xs
     ELSE UNCHANGED ringVars

(* The position of the first element: an unused end is skipped.             *)
EndUnused ==
  /\ q.kind.flag = "NO_WRAP"
  /\ IF q.kind.elementSize = 0 THEN SizeAt(q.buf, q.first) = ByteValues * ByteValues - 1
     ELSE q.first > q.last /\ q.kind.max - q.first < q.kind.elementSize

FirstPosition == IF EndUnused THEN 0 ELSE q.first

(* The bytes of the first element, read on from the start of the ring.      *)
CircularQueue_Sense ==
  [i \in 1 .. SizeAt(q.buf, FirstPosition) |->
     q.buf[(FirstPosition + ElemSizeStorageRoom + i - 1) % q.kind.max]]

CircularQueue_Remove ==
  /\ q.byteCount > 0
  /\ LET skipped == IF EndUnused THEN q.kind.max - q.first ELSE 0
         n == SizeAt(q.buf, FirstPosition)
         left == q.byteCount - skipped - (n + ElemSizeStorageRoom)
     IN /\ q' = [q EXCEPT !.byteCount = left, !.count = @ - 1,
                          !.first = IF left > 0 THEN Ring(FirstPosition + n + ElemSizeStorageRoom) ELSE FirstPosition]
        /\ queued' = IF n < Len(Head(queued)) THEN <<SubSeq(Head(queued), n + 1, Len(Head(queued)))>> \o Tail(queued)
                     ELSE Tail(queued)

CircularQueue_Empty == q.byteCount <= 0
CircularQueue_NbElement == q.count

CircularQueue_Init(kind) ==
  /\ q = [kind |-> kind, buf |-> [i \in 0 .. kind.max - 1 |-> 0], first |-> 0, last |-> 0, byteCount |-> 0, count |-> 0]
  /\ queued = <<>>

RingInit == \E kind \in QueueKind : CircularQueue_Init(kind)

(* The bytes of an element differ, and from those of the elements around.   *)
After(contents) == -1 - ((0 - contents) % 3)
NextContents == IF queued = <<>> THEN -1 ELSE After(Last(queued)[1])
Element(contents, n) == [i \in 1 .. n |-> contents - 3 * (i - 1)]

RingNext ==
  \/ \E n \in IF q.kind.elementSize = 0 THEN ElementSize ELSE {q.kind.elementSize} :
       \/ CircularQueue_Add(<<Element(NextContents, n)>>)
       \/ CircularQueue_Add(<<Element(NextContents, n), Element(After(NextContents), n)>>)
  \/ CircularQueue_Remove

RingSpec == RingInit /\ [][RingNext]_ringVars

-----------------------------------------------------------------------------
(* The first element of the ring is the first one added that was not yet    *)
(* removed, complete unless it was split; the counters tell whether and     *)
(* how many there are.                                                      *)
QueueGivesInOrder ==
  /\ CircularQueue_Empty <=> queued = <<>>
  /\ q.kind.flag # "SPLIT" => CircularQueue_NbElement = Len(queued)
  /\ queued # <<>> => /\ CircularQueue_Sense # <<>> /\ IsPrefix(CircularQueue_Sense, Head(queued))
                      /\ q.kind.flag # "SPLIT" => CircularQueue_Sense = Head(queued)
=============================================================================
