-------------------------------- MODULE Varray --------------------------------
(***************************************************************************)
(* varray.c: an array that never moves, in bins allocated and cleared when *)
(* an index in them is first asked for: two of InitSize elements, then     *)
(* twice as many each.  arr is, of every index, what may be found there.   *)
(***************************************************************************)
EXTENDS Integers, Sequences, FiniteSets, FiniteSetsExt

CONSTANTS
  Written,      \* what is written
  InitSize,     \* 1 << VARRAY_INIT_SIZE: 64 in the code
  Bins          \* 16 in the code

VARIABLES
  bins,         \* va->bins: <<>>, or the elements of the bin from offset 0
  i1, i2,       \* the iterator
  pos,          \* the first index an iteration has not passed, or Off
  past,         \* varray_next read bins[Bins], past the end of struct varray
  arr, kept

varrayVars == <<bins, i1, i2, pos, past, arr, kept>>

Off == -1
NoMem == "nomem"
End == "end"
Cleared == 0
Bin == 0 .. Bins - 1
(* the first index beyond bin i: what r is doubled to *)
Limit[i \in 0 .. Bins] == IF i = 0 THEN InitSize ELSE 2 * Limit[i - 1]
BinSize(i) == IF i = 0 THEN InitSize ELSE Limit[i - 1]
Start(i) == IF i = 0 THEN 0 ELSE Limit[i - 1]
Index == 0 .. Limit[Bins - 1] - 1
BinOf(x) == Min({i \in Bin : Limit[i] > x})

Init == /\ bins = [i \in Bin |-> <<>>] /\ i1 = 0 /\ i2 = 0 /\ pos = 0 /\ past = FALSE
        /\ arr = [x \in Index |-> {Cleared}] /\ kept = TRUE

Fresh(i) == [o \in 0 .. BinSize(i) - 1 |-> Cleared]
Offset(x, i) == IF i = 0 THEN x ELSE x - BinSize(i)
Reached(i) == IF bins[i] = <<>> THEN [bins EXCEPT ![i] = Fresh(i)] ELSE bins
(* a bin that comes or goes ends what an iteration promises *)
Disturb(i) == pos' = IF bins[i] = <<>> THEN Off ELSE pos

(* varray_get, and the caller reading or writing what it points to *)
Read(x) == LET i == BinOf(x)
           IN /\ bins' = Reached(i) /\ Disturb(i)
              /\ kept' = (bins'[i][Offset(x, i)] \in arr[x])
              /\ UNCHANGED <<i1, i2, past, arr>>
Write(x, v) == LET i == BinOf(x)
               IN /\ bins' = [Reached(i) EXCEPT ![i][Offset(x, i)] = v] /\ Disturb(i)
                  /\ arr' = [arr EXCEPT ![x] = {v}]
                  /\ UNCHANGED <<i1, i2, past, kept>>
(* the allocator refuses, or idx is beyond the last bin *)
GetFails(x) == /\ x \in Index => bins[BinOf(x)] = <<>>
               /\ UNCHANGED varrayVars

(* varray_release: the bins wholly at or above from *)
\* mutant: the bin that holds index from - 1 goes too
FirstReleased_Low(from) == IF from = 0 THEN 0 ELSE Min({i \in 0 .. Bins : from <= Limit[i]})
FirstReleased(from) == IF from = 0 THEN 0 ELSE Min({i \in 0 .. Bins : from <= Limit[i]}) + 1
Release(from) ==
  LET gone == {i \in Bin : i >= FirstReleased(from) /\ bins[i] # <<>>}
  IN /\ bins' = [i \in Bin |-> IF i \in gone THEN <<>> ELSE bins[i]]
     /\ pos' = IF gone = {} THEN pos ELSE Off
     /\ arr' = [x \in Index |-> IF x >= from THEN arr[x] \cup {Cleared} ELSE arr[x]]
     /\ UNCHANGED <<i1, i2, past, kept>>

(* varray_deinit and varray_del release everything; varray_init *)
Reinit == /\ bins' = [i \in Bin |-> <<>>] /\ arr' = [x \in Index |-> {Cleared}]
          /\ pos' = Off /\ UNCHANGED <<i1, i2, past, kept>>

Iterate == /\ i1' = 0 /\ i2' = 0 /\ pos' = 0 /\ UNCHANGED <<bins, past, arr, kept>>

(* varray_next.  When the last bin is used up, or after it returned NULL,  *)
(* line 180 reads bins[16]: the behaviour of the model ends there.         *)
Promised == {x \in Index : x >= pos /\ bins[BinOf(x)] # <<>>}
IterNext ==
  LET over == i2 = BinSize(i1)
      b == IF over THEN i1 + 1 ELSE i1
      o == IF over THEN 0 ELSE i2
      there == {i \in b .. Bins - 1 : bins[i] # <<>>}
      got == IF there = {} THEN End ELSE Start(Min(there)) + o
  IN /\ ~past
     /\ IF b >= Bins THEN past' = TRUE /\ UNCHANGED <<i1, i2, pos, kept>>
        ELSE /\ i1' = IF there = {} THEN Bins ELSE Min(there)
             /\ i2' = IF there = {} THEN o ELSE o + 1
             /\ kept' = (pos # Off => IF Promised = {} THEN got = End ELSE got = Min(Promised))
             /\ pos' = IF pos = Off \/ there = {} THEN Off ELSE got + 1
             /\ UNCHANGED past
     /\ UNCHANGED <<bins, arr>>

Next == \/ \E x \in Index : Read(x) \/ \E v \in Written : Write(x, v)
        \/ \E x \in Index \cup {Limit[Bins - 1]} : GetFails(x)
        \/ \E from \in Index \cup {Limit[Bins - 1]} : Release(from)
        \/ Reinit \/ Iterate \/ IterNext

(* No two indexes share an element, no element is lost by a release of     *)
(* higher ones, a fresh one is cleared, and an iteration nothing disturbs  *)
(* passes every element of the bins in order and then ends.                *)
Faithful == /\ kept
            /\ \A x \in Index : LET b == bins[BinOf(x)]
                                IN IF b = <<>> THEN Cleared \in arr[x]
                                   ELSE b[Offset(x, BinOf(x))] \in arr[x]
            /\ pos # Off /\ ~past => /\ i2 <= BinSize(i1)
                                     /\ pos = 0 \/ pos = Start(i1) + i2
=============================================================================
