--------------------------------- MODULE Suba ---------------------------------
(***************************************************************************)
(* suba.c: an allocator inside one piece of memory.  Cells, each a header  *)
(* of POff bytes and what follows it, tile the memory; the free ones are   *)
(* linked in a circle by address, tail is the highest.  A cell is known by *)
(* its offset (ref_t).                                                     *)
(***************************************************************************)
EXTENDS Integers, FiniteSets, FiniteSetsExt

CONSTANTS
  Hdr,          \* ALIGN(sizeof *suba)
  MemSize,      \* suba->size
  POff,         \* the size of a header
  MinCell,      \* suba->mincell, at least ALIGN(sizeof(struct cell))
  Request       \* the sizes asked for

VARIABLES
  heap,         \* [cell: the sizes, next: the links of the free cells, tail]
  asked,        \* for each cell in use what was asked for
  balance,      \* alloc_total - free_total
  overlap       \* a call handed out memory in use

subaVars == <<heap, asked, balance, overlap>>

ALIGN(s) == s + (s % 2)
First == [cell |-> [c \in {Hdr} |-> MemSize - (Hdr + POff)], next |-> [c \in {Hdr} |-> Hdr], tail |-> Hdr]
Init == heap = First /\ asked = <<>> /\ balance = 0 /\ overlap = FALSE

FreeCells(h) == DOMAIN h.next
ISADJ(h, c, d) == c + POff + h.cell[c] = d
NoCell == 0
Add(f, c, v) == [d \in DOMAIN f \cup {c} |-> IF d = c THEN v ELSE f[d]]
Cut(f, c) == [d \in DOMAIN f \ {c} |-> f[d]]
CellSize(s) == IF s < MinCell THEN MinCell ELSE ALIGN(s)

(* suba_alloc without the reclaim function: the heap it leaves and the     *)
(* cell, or NoCell.  The search begins behind tail and ends with tail.     *)
Nth(h) == LET to[i \in 0 .. Cardinality(FreeCells(h))] == IF i = 0 THEN h.tail ELSE h.next[to[i - 1]]
          IN to
\* the free cell c2, linked from c1, is divided: size bytes and a free rest c3
Split(h, c1, c2, size) ==
  LET c3 == c2 + POff + size
  IN [cell |-> Add(Add(h.cell, c3, h.cell[c2] - (size + POff)), c2, size),
      next |-> IF c1 = c2 THEN [c \in {c3} |-> c3] ELSE Add(Add(Cut(h.next, c2), c3, h.next[c2]), c1, c3),
      tail |-> IF c2 = h.tail THEN c3 ELSE h.tail]
Whole(h, c1, c2) == [h EXCEPT !.next = Add(Cut(h.next, c2), c1, h.next[c2])]
Fits(h, size) == {i \in 1 .. Cardinality(FreeCells(h)) : h.cell[Nth(h)[i]] >= size}
Took(h, s) ==
  LET size == CellSize(s)
      fits == Fits(h, size)
      c1   == Nth(h)[Min(fits) - 1]
      c2   == Nth(h)[Min(fits)]
  IN CASE fits = {} -> [h |-> h, c |-> NoCell]
       [] fits # {} /\ h.cell[c2] - size > MinCell -> [h |-> Split(h, c1, c2, size), c |-> c2]
       \* the last cell is never used whole
       [] fits # {} /\ h.cell[c2] - size <= MinCell /\ h.next[c1] = h.tail -> [h |-> h, c |-> NoCell]
       [] OTHER -> [h |-> Whole(h, c1, c2), c |-> c2]

(* suba_free *)
Insertion(h, c) == LET to == Nth(h)
                       stop == {i \in 0 .. Cardinality(FreeCells(h)) : ~(h.next[to[i]] < c)}
                   IN to[Min(stop)]
\* mutant: tail stays on a header that was joined away
NewTail_Old(h, c1, c2, c3, j1) == h.tail
NewTail(h, c1, c2, c3, j1) == IF c3 # h.tail THEN h.tail ELSE IF j1 THEN c1 ELSE c2

\* a cell behind tail
GaveLast(h, c) ==
  IF ISADJ(h, h.tail, c)
  THEN [h EXCEPT !.cell = Add(Cut(h.cell, c), h.tail, h.cell[h.tail] + POff + h.cell[c])]
  ELSE [h EXCEPT !.next = Add(Add(h.next, c, h.next[h.tail]), h.tail, c), !.tail = c]
\* c2, joined to the free cell c1 below it, or not, and to c3 above it, or not
GaveBelow(h, c1, c2, c3, j2) ==
  [cell |-> Add(IF j2 THEN Cut(Cut(h.cell, c2), c3) ELSE Cut(h.cell, c2), c1,
                h.cell[c1] + (POff + h.cell[c2] + (IF j2 THEN POff + h.cell[c3] ELSE 0))),
   next |-> IF j2 THEN Add(Cut(h.next, c3), c1, h.next[c3]) ELSE h.next,
   tail |-> IF j2 THEN NewTail(h, c1, c2, c3, TRUE) ELSE h.tail]
GaveAlone(h, c1, c2, c3, j2) ==
  LET kept == IF j2 THEN Cut(h.next, c3) ELSE h.next
      linked == IF c1 \in DOMAIN kept THEN Add(kept, c1, c2) ELSE kept
      onward == IF ~j2 THEN h.next[c1] ELSE IF h.next[c3] = c3 THEN c2 ELSE h.next[c3]
  IN [cell |-> IF j2 THEN Add(Cut(h.cell, c3), c2, h.cell[c2] + POff + h.cell[c3]) ELSE h.cell,
      next |-> Add(linked, c2, onward),
      tail |-> IF j2 THEN NewTail(h, c1, c2, c3, FALSE) ELSE h.tail]
Gave(h, c2) ==
  LET c1 == Insertion(h, c2)
      c3 == h.next[c1]
  IN CASE c2 > h.tail -> GaveLast(h, c2)
       [] c2 < h.tail /\ ISADJ(h, c1, c2) -> GaveBelow(h, c1, c2, c3, ISADJ(h, c2, c3))
       [] OTHER -> GaveAlone(h, c1, c2, c3, ISADJ(h, c2, c3))

Cost(h, c) == POff + h.cell[c]
InUse(c) == c \in DOMAIN asked

Alloc(s) == LET t == Took(heap, s)
            IN /\ heap' = t.h
               /\ IF t.c = NoCell THEN UNCHANGED <<asked, balance, overlap>>
                  ELSE /\ asked' = Add(asked, t.c, s)
                       /\ balance' = balance + Cost(t.h, t.c)
                       /\ overlap' = (overlap \/ InUse(t.c))
Free(c) == /\ heap' = Gave(heap, c) /\ asked' = Cut(asked, c)
           /\ balance' = balance - Cost(heap, c)
           /\ UNCHANGED overlap

(* an allocation that fails calls suba->reclaim, which frees one of the    *)
(* client's cells, and tries again; once is enough here                    *)
AllocReclaim(s, victim) ==
  LET h == Gave(heap, victim)
      t == Took(h, s)
  IN /\ Took(heap, s).c = NoCell
     /\ heap' = t.h
     /\ asked' = IF t.c = NoCell THEN Cut(asked, victim) ELSE Add(Cut(asked, victim), t.c, s)
     /\ balance' = balance - Cost(heap, victim) + (IF t.c = NoCell THEN 0 ELSE Cost(t.h, t.c))
     /\ overlap' = (overlap \/ (InUse(t.c) /\ t.c # victim))

(* suba_realloc of a cell in use to a size other than 0: the old cell is   *)
(* read up to the new size, also where that is larger                      *)
Moves(c, s) == heap.cell[c] < s \/ heap.cell[c] - ALIGN(s) > MinCell
Realloc(c, s) ==
  LET t == Took(heap, s)
  IN IF ~Moves(c, s)
     THEN asked' = [asked EXCEPT ![c] = s] /\ UNCHANGED <<heap, balance, overlap>>
     ELSE IF t.c = NoCell THEN UNCHANGED subaVars
     ELSE /\ heap' = Gave(t.h, c)
          /\ asked' = Cut(Add(asked, t.c, s), c)
          /\ balance' = (balance + Cost(t.h, t.c)) - Cost(heap, c)
          /\ overlap' = (overlap \/ InUse(t.c))

(* suba_init with rst *)
Reset == heap' = First /\ asked' = <<>> /\ balance' = 0 /\ UNCHANGED overlap

Next == \/ \E s \in Request : \/ Alloc(s)
                              \/ \E c \in DOMAIN asked : Realloc(c, s) \/ AllocReclaim(s, c)
        \/ \E c \in DOMAIN asked : Free(c)
        \/ Reset

(* The cells tile the memory: no two overlap and none is lost; the free    *)
(* ones are exactly those not in use, in one ascending circle that ends at *)
(* tail, no two of them adjacent; whoever asked has room enough, rounded   *)
(* up, or the difference in suba_realloc would wrap; and the totals count  *)
(* the bytes of the cells in use.                                          *)
End(h, c) == c + POff + h.cell[c]
Tiled == /\ Hdr \in DOMAIN heap.cell
         /\ \A c \in DOMAIN heap.cell : End(heap, c) = MemSize \/ End(heap, c) \in DOMAIN heap.cell
         /\ \A c, d \in DOMAIN heap.cell : c < d => End(heap, c) <= d
Circle == /\ heap.tail = Max(FreeCells(heap))
          /\ \A c \in FreeCells(heap) :
               LET above == {d \in FreeCells(heap) : d > c}
               IN heap.next[c] = IF above = {} THEN Min(FreeCells(heap)) ELSE Min(above)
Coalesced == \A c, d \in FreeCells(heap) : ~ISADJ(heap, c, d)
Held == UNION {c .. End(heap, c) - 1 : c \in DOMAIN asked}
Sound == /\ Tiled /\ Circle /\ Coalesced /\ ~overlap
         /\ FreeCells(heap) = DOMAIN heap.cell \ DOMAIN asked
         /\ \A c \in DOMAIN asked : heap.cell[c] >= ALIGN(asked[c])
         /\ balance = Cardinality(Held)
=============================================================================
