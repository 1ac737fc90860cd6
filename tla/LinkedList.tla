------------------------------ MODULE LinkedList ------------------------------
(***************************************************************************)
(* linkedlist.c: a singly linked list that remembers the nodes of the last *)
(* positions it was asked for, in a cache of CacheSize entries, so that a  *)
(* pass over the list by index is linear.  Nodes are addresses, reused     *)
(* after they are freed.  content is the list a client believes in.        *)
(***************************************************************************)
EXTENDS Integers, Sequences, SequencesExt

CONSTANTS
  Node,       \* addresses the allocator hands out
  Datum,      \* what is stored: numbers, compared by insert_sorted
  ListMax,    \* max_size
  CacheSize   \* CACHE_SIZE: 2 in the code

VARIABLES
  ptr, data,  \* the fields of the nodes allocated now
  first, last, size,
  cache,      \* l->cache: [idx, ent]
  content,
  answers,    \* every call answered as a list would
  headTaken   \* linkedlist_remove_data has removed the first element

listVars == <<ptr, data, first, last, size, cache, content, answers, headTaken>>

NoNode == 0
NoData == -1
Inf == ListMax + 10      \* (unsigned int)-1
Unused == [idx |-> 0, ent |-> NoNode]
(* bound: how far the position of a cached node may drift, see RemoveData *)
NotAdrift == \A i \in DOMAIN cache : cache[i].idx < ListMax

Init == /\ ptr = <<>> /\ data = <<>> /\ first = NoNode /\ last = NoNode /\ size = 0
        /\ cache = [i \in 1 .. CacheSize |-> Unused]
        /\ content = <<>> /\ answers = TRUE /\ headTaken = FALSE

Heap == DOMAIN ptr
Follow(n) == IF n = NoNode THEN NoNode ELSE ptr[n]
(* the node k links away from l->first *)
At[k \in Nat] == IF k = 0 THEN first ELSE Follow(At[k - 1])
Before == CHOOSE k \in 0 .. size - 2 : At[k + 1] = last

Set(f, n, v) == [m \in DOMAIN f \cup {n} |-> IF m = n THEN v ELSE f[m]]
Without(f, n) == [m \in DOMAIN f \ {n} |-> f[m]]

(* the allocator hands out the lowest free address *)
Fresh(n) == n \in Node \ Heap /\ \A m \in Node \ Heap : n <= m
Alloc(n, d) == Fresh(n) /\ data' = Set(data, n, d)
Free(n, links) == /\ ptr' = Without(links, n) /\ data' = Without(data, n)

(* _cache_remove_by_node (the idx it leaves is never read), and           *)
(* _cache_update_by_index                                                  *)
Drop(c, n) == [i \in DOMAIN c |-> IF c[i].ent = n THEN Unused ELSE c[i]]
Shift(c, k, by) == [i \in DOMAIN c |-> IF c[i].ent # NoNode /\ c[i].idx >= k
                                       THEN [c[i] EXCEPT !.idx = @ + by] ELSE c[i]]

Answer(got, want) == answers' = (got = want)
Full == size = ListMax
Refused == /\ Answer("error", IF Len(content) = ListMax THEN "error" ELSE "ok")
           /\ UNCHANGED <<ptr, data, first, last, size, cache, content, headTaken>>

(* linkedlist_add *)
Add(n, d) ==
  /\ ~Full /\ Alloc(n, d)
  /\ ptr' = IF size = 0 THEN Set(ptr, n, NoNode) ELSE Set(Set(ptr, last, n), n, NoNode)
  /\ first' = IF size = 0 THEN n ELSE first
  /\ last' = n /\ size' = size + 1
  /\ content' = Append(content, d) /\ Answer(0, 0)
  /\ UNCHANGED <<cache, headTaken>>

\* mutant: positions behind the new node are not moved
InsertShift_None(k) == cache
InsertShift(k) == Shift(cache, k, 1)

(* linkedlist_insert *)
Insert(n, k, d) ==
  /\ ~Full /\ k <= size /\ Alloc(n, d)
  /\ ptr' = IF k = 0 THEN Set(ptr, n, first)
            ELSE Set(Set(ptr, n, IF k = size THEN NoNode ELSE At[k]),
                     IF k = size THEN last ELSE At[k - 1], n)
  /\ first' = IF k = 0 THEN n ELSE first
  /\ last' = IF k = size THEN n ELSE last
  /\ size' = size + 1 /\ cache' = InsertShift(k)
  /\ content' = InsertAt(content, k + 1, d) /\ Answer(0, 0)
  /\ UNCHANGED headTaken

(* linkedlist_insert_sorted: n goes before the first larger element, or in *)
(* the place of an equal one when replaced is not NULL                     *)
Stop(k, d, replace) == k = size \/ d < data[At[k]] \/ (replace /\ d = data[At[k]])
InsertSorted(n, d, replace) ==
  LET k  == CHOOSE j \in 0 .. size : Stop(j, d, replace) /\ \A i \in 0 .. j - 1 : ~Stop(i, d, replace)
      rm == IF k < size /\ replace /\ d = data[At[k]] THEN At[k] ELSE NoNode
      after == IF rm = NoNode THEN At[k] ELSE ptr[rm]
      linked == Set(IF k = 0 THEN ptr ELSE Set(ptr, At[k - 1], n), n, after)
  IN /\ ~Full /\ Fresh(n)
     /\ ptr' = Without(linked, rm) /\ data' = Without(Set(data, n, d), rm)
     /\ first' = IF k = 0 THEN n ELSE first
     /\ last' = IF after = NoNode THEN n ELSE last
     /\ size' = IF rm = NoNode THEN size + 1 ELSE size
     /\ cache' = IF rm = NoNode THEN Shift(cache, k, 1) ELSE Drop(cache, rm)
     /\ content' = IF rm = NoNode THEN InsertAt(content, k + 1, d) ELSE ReplaceAt(content, k + 1, d)
     /\ Answer(k, IF \E i \in 1 .. Len(content) : content[i] > d \/ (replace /\ content[i] = d)
                  THEN (CHOOSE i \in 1 .. Len(content) :
                          /\ content[i] > d \/ (replace /\ content[i] = d)
                          /\ \A j \in 1 .. i - 1 : ~(content[j] > d \/ (replace /\ content[j] = d))) - 1
                  ELSE Len(content))
     /\ UNCHANGED headTaken

(* line 352-364: the entry to start from.  closest_idx is the index of the *)
(* best entry so far, not its distance, and 0 ends the loop.               *)
Scan(k) ==
  LET best[i \in 0 .. CacheSize] ==
        IF i = 0 THEN [closest_idx |-> Inf, closest |-> 0, stale |-> 0]
        ELSE LET b == best[i - 1]
                 ce == cache[i]
             IN CASE b.closest_idx = 0 -> b
                  [] b.closest_idx # 0 /\ ce.ent = NoNode -> [b EXCEPT !.stale = i]
                  [] b.closest_idx # 0 /\ ce.ent # NoNode ->
                       IF k >= ce.idx /\ k - ce.idx < b.closest_idx
                       THEN [b EXCEPT !.closest_idx = ce.idx, !.closest = i]
                       ELSE IF b.stale = 0 THEN [b EXCEPT !.stale = i] ELSE b
  IN best[CacheSize]

(* line 374-381: how far a cached position is moved before it ends *)
Steps(n, far) == LET go[i \in 0 .. far] == IF i = 0 THEN n ELSE Follow(go[i - 1])
                 IN go

(* linkedlist_get, and linkedlist_next with k = iter->i1: the answer and *)
(* the cache it leaves                                                     *)
Lookup(k) ==
  LET s == Scan(k)
      ce == cache[s.closest]
      far == IF ce.idx < k THEN k - ce.idx ELSE 0
      went == Steps(ce.ent, far)
      end == IF went[far] # NoNode THEN far
             ELSE CHOOSE i \in 0 .. far : went[i] = NoNode /\ \A j \in 0 .. i - 1 : went[j] # NoNode
  IN IF k >= size THEN [got |-> NoData, cache |-> cache]
     ELSE IF k = 0 THEN [got |-> data[first], cache |-> cache]
     ELSE IF k = size - 1 THEN [got |-> data[last], cache |-> cache]
     ELSE IF s.closest_idx = Inf
     THEN [got |-> data[At[k]], cache |-> [cache EXCEPT ![s.stale] = [idx |-> k, ent |-> At[k]]]]
     ELSE [got |-> IF went[end] = NoNode THEN NoData ELSE data[went[end]],
           cache |-> [cache EXCEPT ![s.closest] = [idx |-> ce.idx + end, ent |-> went[end]]]]

Want(k) == IF k < Len(content) THEN content[k + 1] ELSE NoData

Get(k) == /\ Answer(Lookup(k).got, Want(k)) /\ cache' = Lookup(k).cache
          /\ UNCHANGED <<ptr, data, first, last, size, content, headTaken>>

(* linkedlist_get_last, linkedlist_size *)
GetLast == /\ Answer(IF size = 0 THEN NoData ELSE data[last],
                     IF content = <<>> THEN NoData ELSE Last(content))
           /\ UNCHANGED <<ptr, data, first, last, size, cache, content, headTaken>>

\* mutant: the cache keeps the node that is freed
Forget_Not(n) == cache
Forget(n) == Drop(cache, n)

(* linkedlist_remove *)
RemoveIdx(k) ==
  LET tmp == At[k]
      links == IF k = 0 THEN ptr ELSE Set(ptr, At[k - 1], ptr[tmp])
  IN /\ k < size /\ Free(tmp, links)
     /\ first' = IF k = 0 THEN ptr[tmp] ELSE first
     /\ last' = IF k > 0 /\ tmp = last THEN At[k - 1] ELSE last
     /\ size' = size - 1 /\ cache' = Shift(Forget(tmp), k, -1)
     /\ content' = RemoveAt(content, k + 1) /\ Answer(data[tmp], content[k + 1])
     /\ UNCHANGED headTaken

(* linkedlist_remove_last *)
RemoveLast ==
  /\ size > 0
  /\ \/ /\ size = 1 /\ Free(first, ptr) /\ first' = NoNode /\ last' = NoNode
        /\ cache' = Drop(cache, first) /\ Answer(data[first], Last(content))
     \/ /\ size > 1 /\ Free(last, Set(ptr, At[Before], NoNode))
        /\ last' = At[Before] /\ UNCHANGED first
        /\ cache' = Drop(cache, last) /\ Answer(data[last], Last(content))
  /\ size' = size - 1 /\ content' = Front(content)
  /\ UNCHANGED headTaken

(* linkedlist_remove_data.  Removing the first element leaves the indexes  *)
(* of the cached positions as they are, one too high (line 489-491).       *)
RemoveData(d) ==
  LET k == CHOOSE j \in 0 .. size - 1 : data[At[j]] = d /\ \A i \in 0 .. j - 1 : data[At[i]] # d
      tmp == At[k]
  IN /\ \E j \in 0 .. size - 1 : data[At[j]] = d
     /\ Free(tmp, IF k = 0 THEN ptr ELSE Set(ptr, At[k - 1], ptr[tmp]))
     /\ first' = IF k = 0 THEN ptr[tmp] ELSE first
     /\ last' = IF k > 0 /\ tmp = last THEN At[k - 1] ELSE last
     /\ cache' = IF k = 0 THEN Drop(cache, tmp) ELSE Drop(Shift(cache, k, -1), tmp)
     /\ size' = size - 1
     /\ content' = RemoveFirst(content, d) /\ Answer(d, d)
     /\ headTaken' = (headTaken \/ k = 0)
NoSuchData(d) ==
  /\ \A j \in 0 .. size - 1 : data[At[j]] # d
  /\ Answer(NoData, IF Contains(content, d) THEN d ELSE NoData)
  /\ UNCHANGED <<ptr, data, first, last, size, cache, content, headTaken>>

(* linkedlist_clear: linkedlist_deinit, then linkedlist_init *)
Clear == /\ ptr' = <<>> /\ data' = <<>> /\ first' = NoNode /\ last' = NoNode /\ size' = 0
         /\ cache' = [i \in 1 .. CacheSize |-> Unused]
         /\ content' = <<>> /\ Answer(0, 0) /\ headTaken' = FALSE

Next ==
  \/ \E n \in Node, d \in Datum :
       /\ NotAdrift
       /\ \/ Add(n, d)
          \/ \E k \in 0 .. ListMax : Insert(n, k, d)
          \/ \E replace \in BOOLEAN : InsertSorted(n, d, replace)
  \/ Full /\ Refused
  \/ \E k \in 0 .. ListMax : Get(k) \/ RemoveIdx(k)
  \/ GetLast \/ RemoveLast \/ Clear
  \/ \E d \in Datum : RemoveData(d) \/ NoSuchData(d)

(* The links lead through the elements in order (as linkedlist_toarray     *)
(* reads them) and end at last.                                            *)
Linked == /\ size = Len(content)
          /\ \A k \in 1 .. size : At[k - 1] \in Heap /\ data[At[k - 1]] = content[k]
          /\ At[size] = NoNode
          /\ size > 0 => last = At[size - 1]

(* No cached position is a freed node, and none is off, unless             *)
(* linkedlist_remove_data took the first element.                          *)
CacheCoherent ==
  \A i \in 1 .. CacheSize :
    cache[i].ent # NoNode => /\ cache[i].ent \in Heap
                             /\ ~headTaken => cache[i].ent = At[cache[i].idx]

(* The list is the one the client believes in, and it answers every call   *)
(* as that list would as long as the cache is coherent.                    *)
Faithful == Linked /\ CacheCoherent /\ (answers \/ headTaken)
=============================================================================
