-------------------------------- MODULE Diff --------------------------------
(***************************************************************************)
(* diff.c: Myers' O(ND) difference algorithm with the linear space         *)
(* refinement.  One action per diagonal of the search of                   *)
(* _find_middle_snake, and one per turn of the recursion of _ses, whose    *)
(* pending calls are the sequence work.  The two tables of furthest points *)
(* share one array, buf, that is never cleared between the searches.       *)
(***************************************************************************)
EXTENDS SeqRef

CONSTANTS
  Symbols,    \* the elements of the sequences compared
  MaxLen,     \* bound: their length
  Dmaxs       \* the values of the parameter dmax that are tried

ASSUME DiffAssumption == MaxLen \in Nat /\ Dmaxs \subseteq Nat

VARIABLES
  a, b,       \* the sequences
  dmax,       \* 0: no limit
  collect,    \* whether ses is not NULL
  pc,
  work,       \* what is left to do, in order
  frame,      \* the parameters of the _ses call under way
  buf,        \* the varray both tables are packed in
  fresh,      \* indexes of buf written since the search began
  d, k,       \* the loops of _find_middle_snake
  ms,         \* the middle snake
  dd,         \* what _find_middle_snake returned
  script,     \* the edits collected in ses
  ret         \* what the outermost _ses returned

input  == <<a, b, dmax, collect>>
search == <<frame, buf, fresh, d, k, ms, dd>>
vars   == <<input, pc, work, search, script, ret>>

INT_MAX == 2147483647
None    == -2              \* ret before it is known
Limit   == IF dmax # 0 THEN dmax ELSE INT_MAX

Ses(aoff, n, boff, m) ==
  [call |-> "ses", aoff |-> aoff, n |-> n, boff |-> boff, m |-> m]
Match(aoff, n) == [call |-> "match", aoff |-> aoff, n |-> n, boff |-> 0, m |-> 0]

(* _setv, _v: diagonals -N .. N of the forward (0) and the backward (1)    *)
(* table, interleaved                                                      *)
Packed(kk, r) == IF kk <= 0 THEN -kk * 4 + r ELSE kk * 4 + (r - 2)
Load(j) == IF j \in DOMAIN buf THEN buf[j] ELSE 0   \* varray_get clears new bins
FV(kk) == Load(Packed(kk, 0))
RV(kk) == Load(Packed(kk, 1))
Store(f, j, val) == [i \in DOMAIN f \cup {j} |-> IF i = j THEN val ELSE f[i]]

(* _edit: empty edits are dropped, and one like the last extends it *)
Edit(edits, op, off, len) ==
  IF len = 0 \/ ~collect THEN edits
  ELSE IF edits # <<>> /\ Last(edits).op = op
  THEN [edits EXCEPT ![Len(edits)].len = @ + len]
  ELSE Append(edits, [op |-> op, off |-> off, len |-> len])

Init == /\ a \in BoundedSeq(Symbols, MaxLen) /\ b \in BoundedSeq(Symbols, MaxLen)
        /\ dmax \in Dmaxs /\ collect \in BOOLEAN
        /\ pc = "prefix" /\ work = <<>> /\ frame = Ses(0, 0, 0, 0)
        /\ buf = <<>> /\ fresh = {} /\ d = 0 /\ k = 0
        /\ ms = [x |-> 0, y |-> 0, u |-> 0, v |-> 0]
        /\ dd = 0 /\ script = <<>> /\ ret = None

Returned(value) == ret' = IF ret = None THEN value ELSE ret

(* how far equal elements go on from (x, y), forward or backward, inside   *)
(* the box of n by m elements at aoff, boff                                *)
Ahead(f, x, y) ==
  CHOOSE t \in 0 .. MaxLen :
    /\ \A s \in 0 .. t - 1 : /\ x + s < f.n /\ y + s < f.m
                             /\ a[f.aoff + x + s + 1] = b[f.boff + y + s + 1]
    /\ ~ (/\ x + t < f.n /\ y + t < f.m
          /\ a[f.aoff + x + t + 1] = b[f.boff + y + t + 1])
Behind(f, x, y) ==
  CHOOSE t \in 0 .. MaxLen :
    /\ \A s \in 0 .. t - 1 : /\ x - s > 0 /\ y - s > 0
                             /\ a[f.aoff + x - s] = b[f.boff + y - s]
    /\ ~ (/\ x - t > 0 /\ y - t > 0 /\ a[f.aoff + x - t] = b[f.boff + y - t])

(* diff, line 327-342: common first elements are matched at once *)
Prefix ==
  LET whole == Ses(0, Len(a), 0, Len(b))
      x == Ahead(whole, 0, 0)
  IN /\ pc = "prefix" /\ pc' = "ses"
     /\ script' = Edit(script, "match", 0, x)
     /\ work' = <<Ses(x, Len(a) - x, x, Len(b) - x)>>
     /\ UNCHANGED <<input, search, ret>>

(* _ses, line 210-215 *)
SesEmpty ==
  LET f == Head(work)
  IN /\ pc = "ses" /\ work # <<>> /\ f.call = "ses" /\ (f.n = 0 \/ f.m = 0)
     /\ script' = IF f.n = 0 THEN Edit(script, "insert", f.boff, f.m)
                             ELSE Edit(script, "delete", f.aoff, f.n)
     /\ Returned(IF f.n = 0 THEN f.m ELSE f.n)
     /\ work' = Tail(work)
     /\ UNCHANGED <<input, pc, search>>

\* mutant: the match in the middle is not recorded
MiddleMatch_Drop ==
  /\ pc = "ses" /\ work # <<>> /\ Head(work).call = "match"
  /\ work' = Tail(work)
  /\ UNCHANGED <<input, pc, search, script, ret>>

(* line 232: the match between the two halves *)
MiddleMatch ==
  LET f == Head(work)
  IN /\ pc = "ses" /\ work # <<>> /\ f.call = "match"
     /\ script' = Edit(script, "match", f.aoff, f.n)
     /\ work' = Tail(work)
     /\ UNCHANGED <<input, pc, search, ret>>

Finish == /\ pc = "ses" /\ work = <<>> /\ pc' = "done"
          /\ UNCHANGED <<input, work, search, script, ret>>

Delta == frame.n - frame.m

\* mutants: parity taken with a signed remainder; the middle rounded down
Odd_Signed == Delta > 0 /\ Delta % 2 = 1
Odd == Delta % 2 = 1
Mid_Floor == (frame.n + frame.m) \div 2
Mid == ((frame.n + frame.m) \div 2) + (Delta % 2)

\* mutant: one step too early
OverLimit_Early == 2 * d >= Limit
OverLimit == 2 * d - 1 >= Limit

(* _find_middle_snake, line 90-98 *)
SearchStart ==
  LET f == Head(work)
      one == Packed(1, 0)
      last == Packed(f.n - f.m - 1, 1)
  IN /\ pc = "ses" /\ work # <<>> /\ f.call = "ses" /\ f.n > 0 /\ f.m > 0
     /\ pc' = "depth" /\ frame' = f /\ work' = Tail(work) /\ d' = 0
     /\ buf' = Store(Store(buf, one, 0), last, f.n) /\ fresh' = {one, last}
     /\ UNCHANGED <<input, k, ms, dd, script, ret>>

(* line 98-103 *)
Depth ==
  /\ pc = "depth"
  /\ \/ /\ d > Mid /\ pc' = "error" /\ UNCHANGED <<k, dd>>
     \/ /\ d <= Mid /\ OverLimit
        /\ dd' = Limit /\ pc' = "snake" /\ UNCHANGED k
     \/ /\ d <= Mid /\ ~OverLimit
        /\ k' = d /\ pc' = "forward" /\ UNCHANGED dd
  /\ UNCHANGED <<input, work, frame, buf, fresh, d, ms, script, ret>>

(* the next diagonal of a table, or what comes after its last one *)
NextDiagonal(then) ==
  IF k > -d THEN k' = k - 2 /\ UNCHANGED <<pc, d>>
  ELSE k' = d /\ pc' = then /\ d' = IF then = "depth" THEN d + 1 ELSE d

ForwardX == IF k = -d \/ (k # d /\ FV(k - 1) < FV(k + 1)) THEN FV(k + 1)
                                                         ELSE FV(k - 1) + 1

\* mutant: an overlap is looked for one diagonal too far out
ForwardMeets_Wide == Odd /\ k >= Delta - (d + 1) /\ k <= Delta + (d + 1)
ForwardMeets == Odd /\ k >= Delta - (d - 1) /\ k <= Delta + (d - 1)

(* line 105-136 *)
Forward ==
  LET x0 == ForwardX
      y0 == x0 - k
      x  == x0 + Ahead(frame, x0, y0)
      met == ForwardMeets /\ x >= RV(k)
  IN /\ pc = "forward"
     /\ buf' = Store(buf, Packed(k, 0), x) /\ fresh' = fresh \cup {Packed(k, 0)}
     /\ IF met
        THEN /\ ms' = [x |-> x0, y |-> y0, u |-> x, v |-> x - k]
             /\ dd' = 2 * d - 1 /\ pc' = "snake" /\ UNCHANGED <<d, k>>
        ELSE /\ ms' = [ms EXCEPT !.x = x0, !.y = y0]
             /\ NextDiagonal("backward") /\ UNCHANGED dd
     /\ UNCHANGED <<input, work, frame, script, ret>>

BackDiagonal == Delta + k

\* mutant: the backward path starts one element too far right
BackwardX_Right == IF k = d THEN RV(BackDiagonal - 1) + 1 ELSE RV(BackDiagonal + 1)
BackwardX == IF k = d \/ (k # -d /\ RV(BackDiagonal - 1) < RV(BackDiagonal + 1))
             THEN RV(BackDiagonal - 1) ELSE RV(BackDiagonal + 1) - 1
BackwardMeets == ~Odd /\ BackDiagonal >= -d /\ BackDiagonal <= d

(* line 137-170 *)
Backward ==
  LET kr == BackDiagonal
      x0 == BackwardX
      y0 == x0 - kr
      x  == x0 - Behind(frame, x0, y0)
      met == BackwardMeets /\ x <= FV(kr)
  IN /\ pc = "backward"
     /\ buf' = Store(buf, Packed(kr, 1), x) /\ fresh' = fresh \cup {Packed(kr, 1)}
     /\ IF met
        THEN /\ ms' = [x |-> x, y |-> x - kr, u |-> x0, v |-> y0]
             /\ dd' = 2 * d /\ pc' = "snake" /\ UNCHANGED <<d, k>>
        ELSE /\ ms' = [ms EXCEPT !.u = x0, !.v = y0]
             /\ NextDiagonal("depth") /\ UNCHANGED dd
     /\ UNCHANGED <<input, work, frame, script, ret>>

(* line 223-226: over the limit, or only the distance is wanted *)
SnakeReturn ==
  /\ pc = "snake" /\ (dd >= Limit \/ ~collect)
  /\ Returned(IF dd >= Limit THEN Limit ELSE dd)
  /\ pc' = "ses" /\ UNCHANGED <<input, work, search, script>>

\* mutant: the counts of the second half are not reduced (line 236-237)
Halves_Whole(f) ==
  <<Ses(f.aoff, ms.x, f.boff, ms.y), Match(f.aoff + ms.x, ms.u - ms.x),
    Ses(f.aoff + ms.u, f.n, f.boff + ms.v, f.m)>>

(* line 228-238: the halves on both sides of the snake *)
Halves(f) ==
  <<Ses(f.aoff, ms.x, f.boff, ms.y), Match(f.aoff + ms.x, ms.u - ms.x),
    Ses(f.aoff + ms.u, f.n - ms.u, f.boff + ms.v, f.m - ms.v)>>

SnakeSplit ==
  /\ pc = "snake" /\ dd < Limit /\ collect /\ dd > 1
  /\ Returned(dd)
  /\ work' = Halves(frame) \o work
  /\ pc' = "ses" /\ UNCHANGED <<input, search, script>>

(* line 241-276: a single insertion or deletion, before or after a match *)
SnakeBase ==
  LET f == frame
      longer == f.m > f.n
      len == IF longer THEN f.n ELSE f.m
      end == IF longer THEN f.boff + (f.m - 1) ELSE f.aoff + (f.n - 1)
      begin == IF longer THEN f.boff ELSE f.aoff
      op == IF longer THEN "insert" ELSE "delete"
      skip == IF longer THEN 0 ELSE 1
  IN /\ pc = "snake" /\ dd < Limit /\ collect /\ dd <= 1
     /\ Returned(dd)
     /\ script' = IF ms.x = ms.u
                  THEN Edit(Edit(script, "match", f.aoff, len), op, end, 1)
                  ELSE Edit(Edit(script, op, begin, 1), "match", f.aoff + skip, len)
     /\ pc' = "ses" /\ UNCHANGED <<input, work, search>>

Next == \/ Prefix \/ SesEmpty \/ MiddleMatch \/ Finish
        \/ SearchStart \/ Depth \/ Forward \/ Backward
        \/ SnakeReturn \/ SnakeSplit \/ SnakeBase

Spec == Init /\ [][Next]_vars /\ WF_vars(Next)

----------------------------------------------------------------------------
(* Properties *)

Tasks == {work[i] : i \in DOMAIN work}
InBox(t) == /\ t.n >= 0 /\ t.m >= 0 /\ t.aoff >= 0 /\ t.boff >= 0
            /\ t.aoff + t.n <= Len(a) /\ t.boff + t.m <= Len(b)

(* What is searched, and every call and match still to come, lies inside   *)
(* the two sequences: no count turns negative when a snake splits a        *)
(* problem.                                                                *)
InBoxes == \A t \in Tasks \cup {frame} : InBox(t)

(* A search reads only what it has stored itself: buf still holds the      *)
(* points of earlier searches, and nothing clears it.                      *)
Reads ==
  CASE pc = "forward" ->
         (IF k = -d THEN {} ELSE {Packed(k - 1, 0)}) \cup
         (IF k = d /\ d # 0 THEN {} ELSE {Packed(k + 1, 0)}) \cup
         (IF ForwardMeets THEN {Packed(k, 1)} ELSE {})
    [] pc = "backward" ->
         (IF k = -d /\ d # 0 THEN {} ELSE {Packed(BackDiagonal - 1, 1)}) \cup
         (IF k = d THEN {} ELSE {Packed(BackDiagonal + 1, 1)}) \cup
         (IF BackwardMeets THEN {Packed(BackDiagonal, 0)} ELSE {})
    [] OTHER -> {}

ReadsFresh == Reads \subseteq fresh

(* The comparisons of line 123 and 157 stay inside a and b: the point a    *)
(* diagonal starts from is never left of or above the box, nor right of or *)
(* below it going backward.                                                *)
StartsInBox ==
  /\ pc = "forward" => ForwardX >= 0 /\ ForwardX - k >= 0
  /\ pc = "backward" => BackwardX <= frame.n /\ BackwardX - BackDiagonal <= frame.m

(* Every search the recursion makes stands on its own: its two ranges lie  *)
(* in the sequences, it compares no element outside of them, and it reads  *)
(* no entry an earlier search left in the shared table.                    *)
SearchSafe == InBoxes /\ StartsInBox /\ ReadsFresh

(* The middle snake lies in the box and joins two smaller problems whose   *)
(* distances add up to the one found.                                      *)
SnakeOptimal ==
  pc = "snake" /\ dd < Limit =>
    LET sub(x, y, u, v) ==
          ScriptDistance(SubSeq(a, frame.aoff + x + 1, frame.aoff + u),
                         SubSeq(b, frame.boff + y + 1, frame.boff + v))
    IN /\ 0 <= ms.x /\ ms.x <= ms.u /\ ms.u <= frame.n
       /\ 0 <= ms.y /\ ms.y <= ms.v /\ ms.v <= frame.m
       /\ sub(0, 0, frame.n, frame.m) = dd
       /\ dd > 1 => /\ sub(0, 0, ms.x, ms.y) + sub(ms.u, ms.v, frame.n, frame.m) = dd
                    /\ sub(ms.x, ms.y, ms.u, ms.v) = 0

(* The edit script turns a into b, its offsets name the elements it means, *)
(* and it is as short as it can be.                                        *)
After(s, e) ==
  CASE e.op = "match"  -> [ok  |-> s.ok /\ e.off = s.at,
                           at  |-> s.at + e.len, cost |-> s.cost,
                           out |-> s.out \o SubSeq(a, e.off + 1, e.off + e.len)]
    [] e.op = "delete" -> [ok  |-> s.ok /\ e.off = s.at,
                           at  |-> s.at + e.len, cost |-> s.cost + e.len,
                           out |-> s.out]
    [] e.op = "insert" -> [ok  |-> s.ok /\ e.off = Len(s.out),
                           at  |-> s.at, cost |-> s.cost + e.len,
                           out |-> s.out \o SubSeq(b, e.off + 1, e.off + e.len)]
Unedited == [ok |-> TRUE, at |-> 0, cost |-> 0, out |-> <<>>]
Apply(edits) ==
  LET made[i \in 0 .. Len(edits)] == IF i = 0 THEN Unedited ELSE After(made[i - 1], edits[i])
  IN made[Len(edits)]

ScriptTransforms ==
  pc = "done" /\ collect /\ ret < Limit =>
    LET r == Apply(script)
    IN r.ok /\ r.at = Len(a) /\ r.out = b /\ r.cost = ScriptDistance(a, b)

(* diff returns the distance when it is below the limit, and something not *)
(* below the limit otherwise.                                              *)
DistanceCorrect ==
  pc = "done" => LET dist == ScriptDistance(a, b)
                 IN IF dist < Limit THEN ret = dist ELSE ret >= Limit

(* The search never gives up with EFAULT (line 173), and the recursion     *)
(* ends.                                                                   *)
Terminates == <>(pc = "done")
=============================================================================
