------------------------------- MODULE Deque --------------------------------
(* The two list implementations of internal/eval: Deque, a doubly linked   *)
(* list of byte buffers (deque.go, bytelist.go), and DequeBasic, a single  *)
(* buffer.  A buffer is a sequence of cells; the entry of x takes Size[x]  *)
(* consecutive cells <<x, 1>> .. <<x, Size[x]>> (header, data and the      *)
(* length repeated at the end), so reading at a wrong offset is visible.   *)
(* Junk is a byte no entry occupies.                                       *)
EXTENDS Integers, Sequences, SequencesExt, FiniteSetsExt

CONSTANTS Elems, Pivots, Norm, Indices,
          Size,       \* GetEncodeDeqEntrySize
          NodeSize,   \* minDequeNodeSize, 256 in the code
          SizeClass,  \* the allocator rounds an appended buffer up to it
          MaxLen,     \* bound on the length of the list
          MaxDead,    \* bound on the dead bytes a push may leave in the head
          Restores    \* "all", "live": which lists are dumped and restored

VARIABLES q,          \* the Deque
          b,          \* a DequeBasic given the same calls
          list,       \* what an iterator over q returns now
          reply       \* what the Deque answered

Null  == 0
Junk  == <<"junk", 0>>
PanicText == "panic"
\* at most one node per element, and two more while one is being split
Ids   == 1 .. MaxLen + 2
Free  == [buf |-> <<>>, cap |-> 0, next |-> Null, prev |-> Null]

Grow(n) == ((n + SizeClass - 1) \div SizeClass) * SizeClass
Cut(buf, i, j) == SubSeq(buf, i + 1, j)          \* buf[i:j]

EncodeDeqEntry(x) == [i \in 1 .. Size[x] |-> <<Norm[x], i>>]

\* DecodeDeqEntry(buf[idx:]): the text and the length of the entry.
DecodeDeqEntry(buf, idx) ==
  IF idx + 1 \in DOMAIN buf /\ buf[idx + 1][2] = 1
  THEN LET x == buf[idx + 1][1]
       IN  IF Cut(buf, idx, idx + Size[x]) = EncodeDeqEntry(x)
           THEN <<x, Size[x]>> ELSE <<PanicText, 1>>
  ELSE <<PanicText, 1>>

\* Where the entry that ends the buffer starts, by the length at its end.
EntryStart(buf) == IF buf = <<>> THEN 0 ELSE Len(buf) - Last(buf)[2]

---------------------------------------------------------------------------
(* byteList                                                                *)

SetNext(d, n, m) == IF n = Null THEN d ELSE [d EXCEPT !.heap[n].next = m]
SetPrev(d, n, m) == IF n = Null THEN d ELSE [d EXCEPT !.heap[n].prev = m]
newId(d) == Min({n \in Ids : d.heap[n].cap = 0})
newNode(d, buf, cap) ==
  [d EXCEPT !.heap[newId(d)] = [buf |-> buf, cap |-> cap, next |-> Null, prev |-> Null]]

append(d, n) ==
  [SetNext(SetPrev(d, n, d.tail), d.tail, n)
     EXCEPT !.tail = n, !.head = IF @ = Null THEN n ELSE @]

prepend(d, n) ==
  [SetPrev(SetNext(d, n, d.head), d.head, n)
     EXCEPT !.head = n, !.tail = IF @ = Null THEN n ELSE @]

delete(d, n) ==
  LET node == d.heap[n]
      out  == SetPrev(SetNext(d, node.prev, node.next), node.next, node.prev)
  IN  [out EXCEPT !.head = IF @ = n THEN node.next ELSE @,
                  !.tail = IF @ = n THEN node.prev ELSE @,
                  !.heap[n] = Free]

---------------------------------------------------------------------------
(* Deque                                                                   *)

NewDeque == [heap |-> [n \in Ids |-> Free], head |-> Null, tail |-> Null,
             leftIdx |-> 0, Length |-> 0]

\* The iterator after each element: the node and offset it stands at and the
\* element it has just returned.
NewIterator(d) == [node |-> d.head, idx |-> d.leftIdx, x |-> "", at |-> Null]
Advance(d, it) ==
  IF it.node = Null THEN [node |-> Null, idx |-> 0, x |-> PanicText, at |-> Null]
  ELSE LET buf == d.heap[it.node].buf
           e   == DecodeDeqEntry(buf, it.idx)
           end == it.idx + e[2] >= Len(buf)
       IN  [node |-> IF end THEN d.heap[it.node].next ELSE it.node,
            idx  |-> IF end THEN 0 ELSE it.idx + e[2], x |-> e[1], at |-> it.node]
Iterate(d) ==
  FoldLeftDomain(LAMBDA its, i : Append(its, Advance(d, IF i = 1 THEN NewIterator(d) ELSE its[i - 1])),
                 <<>>, [i \in 1 .. d.Length |-> i])
Contents(d) == LET it == Iterate(d) IN [i \in 1 .. d.Length |-> it[i].x]

\* The three ways to make room on the left: before leftIdx, in a new buffer
\* for the head, in a new head.
LPush(d, x) ==
  LET size == Size[x]
      h    == d.head
      buf  == d.heap[h].buf
      Pad(n) == [i \in 1 .. n |-> Junk]
      grown  == EncodeDeqEntry(x) \o Cut(buf, d.leftIdx, Len(buf))
      room   == size + NodeSize - d.leftIdx
      cap    == Max({size, NodeSize})
      fresh  == newNode(d, Pad(cap - size) \o EncodeDeqEntry(x), cap)
      pushed == IF d.leftIdx >= size
                THEN [d EXCEPT !.leftIdx = @ - size,
                       !.heap[h].buf = Pad(d.leftIdx - size) \o EncodeDeqEntry(x)
                                         \o Cut(buf, d.leftIdx, Len(buf))]
                ELSE IF d.leftIdx > 0
                THEN [d EXCEPT !.leftIdx = 0, !.heap[h].buf = grown,
                       !.heap[h].cap = IF Len(grown) <= room THEN room ELSE Grow(Len(grown))]
                ELSE [prepend(fresh, newId(d)) EXCEPT !.leftIdx = cap - size]
  IN  [pushed EXCEPT !.Length = @ + 1]

\* The tail is full or there is none; it is too short; there is room.
RPush(d, x) ==
  LET size == Size[x]
      t    == d.tail
      node == d.heap[t]
      pushed == IF t = Null \/ Len(node.buf) = node.cap
                THEN append(newNode(d, EncodeDeqEntry(x), Max({size, NodeSize})), newId(d))
                ELSE [d EXCEPT !.heap[t].buf = @ \o EncodeDeqEntry(x),
                               !.heap[t].cap = Max({@, Len(node.buf) + size})]
  IN  [pushed EXCEPT !.Length = @ + 1]

LPop(d) ==
  LET h   == d.head
      e   == DecodeDeqEntry(d.heap[h].buf, d.leftIdx)
      idx == d.leftIdx + e[2]
      rest == IF idx = Len(d.heap[h].buf) THEN [delete(d, h) EXCEPT !.leftIdx = 0]
              ELSE [d EXCEPT !.leftIdx = idx,
                     !.heap[h].buf = [i \in DOMAIN @ |-> IF i <= idx THEN Junk ELSE @[i]]]
  IN  IF d.Length = 0 THEN <<d, <<"error">>>>
      ELSE IF h = Null \/ e[1] = PanicText THEN <<d, <<PanicText>>>>
      ELSE <<[rest EXCEPT !.Length = @ - 1], <<"elem", e[1]>>>>

RPop(d) ==
  LET t    == d.tail
      buf  == d.heap[t].buf
      at   == EntryStart(buf)
      cut  == [d EXCEPT !.heap[t].buf = Cut(buf, 0, at)]
      rest == IF at > 0 THEN cut
              ELSE LET del == delete(cut, t)
                   IN  [del EXCEPT !.leftIdx = IF del.tail = Null THEN 0 ELSE @]
  IN  IF d.Length = 0 THEN <<d, <<"error">>>>
      ELSE IF t = Null \/ DecodeDeqEntry(buf, at)[1] = PanicText THEN <<d, <<PanicText>>>>
      ELSE <<[rest EXCEPT !.Length = @ - 1], <<"elem", DecodeDeqEntry(buf, at)[1]>>>>

\* breakPivotNodeAndInsertAfter: what follows the pivot moves to a new node,
\* the pivot's node becomes the tail for a moment and RPush does the rest.
breakPivotNodeAndInsertAfter(d, p, it, x) ==
  LET buf  == d.heap[p].buf
      n    == newId(d)
      last == d.heap[p].next
      cut  == [SetPrev(newNode(d, Cut(buf, it.idx, Len(buf)), Grow(Len(buf) - it.idx)), last, n)
                EXCEPT !.heap[n].next = last, !.heap[p].next = Null,
                       !.heap[p].buf = Cut(buf, 0, it.idx), !.tail = p]
      put  == RPush(cut, x)
      join == SetNext(SetPrev(put, n, put.tail), put.tail, n)
  IN  [join EXCEPT !.tail = IF last = Null THEN n ELSE d.tail]

\* it is the iterator just past the pivot, the i-th element.
insertAfterPivotNode(d, it, i, x) ==
  LET p   == it.at
      put == RPush([SetNext(d, p, Null) EXCEPT !.tail = p], x)
  IN  IF i = d.Length THEN RPush(d, x)
      ELSE IF it.idx = 0
      THEN [SetPrev(SetNext(put, put.tail, it.node), it.node, put.tail) EXCEPT !.tail = d.tail]
      ELSE breakPivotNodeAndInsertAfter(d, p, it, x)

\* Mutant: the dead bytes of the head are not left behind.
breakPivotNodeAndInsertBeforeKeepsIdx(d, p, it, e, len, leftIdx) ==
  LET buf == d.heap[p].buf
      at  == (IF it.idx = 0 THEN Len(buf) ELSE it.idx) - len
      n   == newId(d)
      old == d.heap[p].prev
      cut == [SetNext(newNode(d, Cut(buf, 0, at), Grow(at)), old, n)
               EXCEPT !.heap[n].prev = old, !.heap[n].next = e, !.heap[e].prev = n,
                      !.heap[e].next = p, !.heap[p].prev = e,
                      !.heap[p].buf = Cut(buf, at, Len(buf)), !.heap[p].cap = @ - at]
  IN  IF old = Null THEN [cut EXCEPT !.head = n, !.leftIdx = 0] ELSE cut

\* breakPivotNodeAndInsertBefore and updateHeadLInsert: what precedes the
\* pivot moves to a new node, without the dead bytes of the head.
breakPivotNodeAndInsertBefore(d, p, it, e, len, leftIdx) ==
  LET buf == d.heap[p].buf
      at  == (IF it.idx = 0 THEN Len(buf) ELSE it.idx) - len
      n   == newId(d)
      old == d.heap[p].prev
      cut == [SetNext(newNode(d, Cut(buf, leftIdx, at), Grow(at - leftIdx)), old, n)
               EXCEPT !.heap[n].prev = old, !.heap[n].next = e, !.heap[e].prev = n,
                      !.heap[e].next = p, !.heap[p].prev = e,
                      !.heap[p].buf = Cut(buf, at, Len(buf)), !.heap[p].cap = @ - at]
  IN  IF old = Null THEN [cut EXCEPT !.head = n, !.leftIdx = 0] ELSE cut

insertBeforePivotNode(d, it, i, pivot, x) ==
  LET p    == it.at
      len  == Size[pivot]
      e    == newId(d)
      prev == d.heap[p].prev
      with == newNode(d, EncodeDeqEntry(x), Size[x])
      left == IF prev # Null THEN 0 ELSE d.leftIdx
      put  == IF it.idx = len \/ (it.idx = 0 /\ Len(d.heap[p].buf) = len)
              THEN [SetNext(SetPrev(with, p, e), prev, e)
                      EXCEPT !.heap[e].next = p, !.heap[e].prev = prev]
              ELSE breakPivotNodeAndInsertBefore(with, p, it, e, len, left)
  IN  IF i = 1 THEN LPush(d, x) ELSE [put EXCEPT !.Length = @ + 1]

\* LInsert: the Deque and the answer.
LInsert(d, pivot, x, where) ==
  LET it   == Iterate(d)
      hits == {i \in 1 .. d.Length : it[i].x = pivot}
      i    == Min(hits)
      put  == IF where = "before" THEN insertBeforePivotNode(d, it[i], i, pivot, x)
              ELSE insertAfterPivotNode(d, it[i], i, x)
  IN  IF hits = {} THEN <<d, -1>> ELSE <<put, put.Length>>

sanitizeStartIndex(n, start) == Max({0, IF start < 0 THEN n + start ELSE start})
sanitizeStopIndex(n, stop)   == Min({n - 1, IF stop < 0 THEN n + stop ELSE stop})
LRange(elems, start, stop) ==
  LET n == Len(elems)
  IN  SubSeq(elems, sanitizeStartIndex(n, start) + 1, sanitizeStopIndex(n, stop) + 1)

\* The nodes in the order of the next pointers.
Chain(d) ==
  FoldLeft(LAMBDA c, k : IF c = <<>> \/ d.heap[Last(c)].next = Null THEN c
                         ELSE Append(c, d.heap[Last(c)].next),
           IF d.head = Null THEN <<>> ELSE <<d.head>>, [k \in 1 .. MaxLen |-> k])

\* The nodes of c, renamed to their positions and linked in this order.
Renamed(d, c, Cap(_)) ==
  LET n == Len(c)
  IN  [d EXCEPT !.head = IF n = 0 THEN Null ELSE 1, !.tail = n,
                !.heap = [i \in Ids |->
                   IF i > n THEN Free
                   ELSE [buf |-> @[c[i]].buf, cap |-> Cap(@[c[i]]),
                         next |-> IF i = n THEN Null ELSE i + 1, prev |-> i - 1]]]

\* Serialize followed by DeserializeDeque: each node in a buffer of exactly
\* its length.
Restored(d) == Renamed(d, Chain(d), LAMBDA node : Len(node.buf))

\* The list is linked both ways, from head to tail, and no node is left out.
LinkedBothWays(d) ==
  LET c == Chain(d)
  IN  /\ {n \in Ids : d.heap[n].cap # 0} = Range(c) /\ IsInjective(c)
      /\ d.tail = IF c = <<>> THEN Null ELSE Last(c)
      /\ \A i \in DOMAIN c : d.heap[c[i]].prev = IF i = 1 THEN Null ELSE c[i - 1]

\* Which addresses the nodes have is immaterial: a well-linked list is kept
\* under the names 1, 2, ... from the left.
Named(d) == IF LinkedBothWays(d) THEN Renamed(d, Chain(d), LAMBDA node : node.cap) ELSE d

---------------------------------------------------------------------------
(* DequeBasic.  Its capacity is left out: moving the bytes within the      *)
(* buffer or into a larger one gives the same bytes.                       *)

NewBasicDeque == [buf |-> <<>>, Length |-> 0]
BasicIterate(c) ==
  LET Step(its, i) ==
        LET from == IF i = 1 THEN 0 ELSE its[i - 1].idx
            e    == DecodeDeqEntry(c.buf, from)
        IN  Append(its, [idx |-> from + e[2], x |-> e[1], from |-> from])
  IN  FoldLeftDomain(Step, <<>>, [i \in 1 .. c.Length |-> i])
BasicContents(c) == LET it == BasicIterate(c) IN [i \in 1 .. c.Length |-> it[i].x]

insertElementAfterIndex(c, x, idx) ==
  [buf |-> Cut(c.buf, 0, idx) \o EncodeDeqEntry(x) \o Cut(c.buf, idx, Len(c.buf)),
   Length |-> c.Length + 1]
BasicLPush(c, x) == insertElementAfterIndex(c, x, 0)
BasicRPush(c, x) == insertElementAfterIndex(c, x, Len(c.buf))

BasicLPop(c) ==
  LET e == DecodeDeqEntry(c.buf, 0)
  IN  IF c.Length = 0 THEN <<c, <<"error">>>>
      ELSE <<[buf |-> Cut(c.buf, e[2], Len(c.buf)), Length |-> c.Length - 1], <<"elem", e[1]>>>>

BasicRPop(c) ==
  LET at == EntryStart(c.buf)
  IN  IF c.Length = 0 THEN <<c, <<"error">>>>
      ELSE <<[buf |-> Cut(c.buf, 0, at), Length |-> c.Length - 1],
             <<"elem", DecodeDeqEntry(c.buf, at)[1]>>>>

BasicLInsert(c, pivot, x, where) ==
  LET it   == BasicIterate(c)
      hits == {i \in 1 .. c.Length : it[i].x = pivot}
      i    == Min(hits)
      put  == insertElementAfterIndex(c, x, IF where = "before" THEN it[i].from ELSE it[i].idx)
  IN  IF hits = {} THEN <<c, -1>> ELSE <<put, put.Length>>

---------------------------------------------------------------------------
(* The same calls on both                                                  *)

dvars == <<q, b, list, reply>>

\* Type correctness; no buffer is longer than what was allocated for it.
DequeTypeOK ==
  /\ q.head \in Ids \cup {Null} /\ q.tail \in Ids \cup {Null}
  /\ q.leftIdx \in Nat /\ q.Length \in 0 .. MaxLen /\ b.Length \in 0 .. MaxLen
  /\ \A n \in Ids : q.heap[n].next \in Ids \cup {Null} /\ Len(q.heap[n].buf) <= q.heap[n].cap

DequeInit == q = NewDeque /\ b = NewBasicDeque /\ list = <<>> /\ reply = <<"OK">>

DoPush(x) ==
  /\ q.Length < MaxLen /\ q.leftIdx <= MaxDead
  /\ \/ q' = Named(LPush(q, x)) /\ b' = BasicLPush(b, x)
     \/ q' = Named(RPush(q, x)) /\ b' = BasicRPush(b, x)
  /\ reply' = <<"len", q'.Length>>

DoPop ==
  \/ \E r \in {LPop(q)} : q' = Named(r[1]) /\ b' = BasicLPop(b)[1] /\ reply' = r[2]
  \/ \E r \in {RPop(q)} : q' = Named(r[1]) /\ b' = BasicRPop(b)[1] /\ reply' = r[2]

DoInsert(pivot, x, where) ==
  /\ q.Length < MaxLen /\ q.leftIdx <= MaxDead
  /\ \E r \in {LInsert(q, pivot, x, where)} : q' = Named(r[1]) /\ reply' = <<"len", r[2]>>
  /\ b' = BasicLInsert(b, pivot, x, where)[1]

\* A list whose head holds dead bytes only is one that RPop has emptied.
DoRestore ==
  /\ Restores = "all" \/ ~(q.Length = 0 /\ q.head # Null)
  /\ q' = Restored(q) /\ reply' = <<"OK">> /\ UNCHANGED b

Call == \/ \E x \in Elems : DoPush(x)
        \/ DoPop \/ DoRestore
        \/ \E p \in Pivots, x \in Elems, w \in {"before", "after"} : DoInsert(p, x, w)

DequeNext == Call /\ list' = Contents(q')

DequeSpec == DequeInit /\ [][DequeNext]_dvars

\* The single-buffer implementation holds the same elements after the same
\* calls, so the two implementations of DequeI can replace each other.
SameList == BasicContents(b) = list

\* LRange returns the elements at the positions asked for, in order, and none
\* twice; positions count from 0 and negative ones from the right.
RangeIsSlice ==
  LET From0(i) == IF i < 0 THEN Len(list) + i ELSE i
  IN  \A s, t \in Indices :
        LRange(list, s, t) =
          LET kept == SelectSeq([i \in 1 .. Len(list) |-> i],
                                LAMBDA i : From0(s) <= i - 1 /\ i - 1 <= From0(t))
          IN  [j \in DOMAIN kept |-> list[kept[j]]]

\* The list of buffers is linked both ways, from head to tail, and no buffer
\* is left behind: RPop and LInsert follow prev, the iterator follows next.
Linked == LinkedBothWays(q)

\* The Deque behaves as a list: pushes and inserts land where they are asked
\* to, pops and ranges return what a plain sequence would, whatever buffers
\* were split, grown, dropped or restored on the way; so does the other
\* implementation of DequeI.
List == INSTANCE ListSpec
DequeIsList == List!Spec /\ [](DequeTypeOK /\ SameList /\ RangeIsSlice /\ Linked)
=============================================================================
