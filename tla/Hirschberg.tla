----------------------------- MODULE Hirschberg -----------------------------
(***************************************************************************)
(* longestCommonSubsequence.hpp: Hirschberg's linear-space construction of *)
(* a longest common subsequence.  A range of iterators [lo, hi) is the     *)
(* positions lo+1 .. hi of a sequence; members is the set of positions of  *)
(* xs that the bit vector xs_in_lcs marks.                                 *)
(***************************************************************************)
EXTENDS Integers, Sequences, SequencesExt, FiniteSetsExt

Larger(i, j) == IF i >= j THEN i ELSE j

(* lcs_lens: the last of the rows computed one from the other, whose entry *)
(* i is the length of an LCS of x and the first i elements of y            *)
NextRow(prev, e, y) ==
  LET curr[i \in 0 .. Len(y)] ==
        IF i = 0 THEN 0
        ELSE IF e = y[i] THEN prev[i - 1] + 1
        ELSE Larger(curr[i - 1], prev[i])
  IN curr

lcs_lens(x, y) ==
  LET row[k \in 0 .. Len(x)] ==
        IF k = 0 THEN [i \in 0 .. Len(y) |-> 0] ELSE NextRow(row[k - 1], x[k], y)
  IN row[Len(x)]

\* mutant: the second halves are compared from the front
SplitOf_Forward(lower, upper, y) ==
  LET ll_b == lcs_lens(lower, y)
      ll_e == lcs_lens(upper, y)
      both == [i \in 0 .. Len(y) |-> ll_b[i] + ll_e[Len(y) - i]]
  IN Min({i \in DOMAIN both : \A j \in DOMAIN both : both[j] <= both[i]})

(* The first split of y, counted from ylo, at which a prefix and a suffix  *)
(* share most with the halves of x (line 113-136).                         *)
SplitOf(lower, upper, y) ==
  LET ll_b == lcs_lens(lower, y)
      ll_e == lcs_lens(Reverse(upper), Reverse(y))
      both == [i \in 0 .. Len(y) |-> ll_b[i] + ll_e[Len(y) - i]]
  IN Min({i \in DOMAIN both : \A j \in DOMAIN both : both[j] <= both[i]})

(* calculate_lcs over ranges <<xlo, xhi, ylo, yhi>> *)
Ranges(xs, ys) ==
  {r \in (0 .. Len(xs)) \X (0 .. Len(xs)) \X (0 .. Len(ys)) \X (0 .. Len(ys)) :
     r[1] <= r[2] /\ r[3] <= r[4]}

calculate_lcs(xs, ys) ==
  LET marked[r \in Ranges(xs, ys)] ==
        LET xlo == r[1]
            xhi == r[2]
            ylo == r[3]
            yhi == r[4]
            xmid == xlo + (xhi - xlo) \div 2
            y == SubSeq(ys, ylo + 1, yhi)
            ymid == ylo + SplitOf(SubSeq(xs, xlo + 1, xmid), SubSeq(xs, xmid + 1, xhi), y)
        IN IF xhi = xlo THEN {}
           ELSE IF xhi = xlo + 1
           THEN IF Contains(y, xs[xhi]) THEN {xhi} ELSE {}
           ELSE marked[<<xlo, xmid, ylo, ymid>>] \cup marked[<<xmid, xhi, ymid, yhi>>]
  IN marked[<<0, Len(xs), 0, Len(ys)>>]

(* set_lcs: the marked elements, in the order they have in xs *)
set_lcs(xs, members) ==
  LET lcs[i \in 0 .. Len(xs)] ==
        IF i = 0 THEN <<>>
        ELSE IF i \in members THEN Append(lcs[i - 1], xs[i]) ELSE lcs[i - 1]
  IN lcs[Len(xs)]

(* lcs: the string and the positions it was taken from *)
lcs3(xs, ys) ==
  LET xs_in_lcs == calculate_lcs(xs, ys)
  IN [text |-> set_lcs(xs, xs_in_lcs), members |-> xs_in_lcs]
=============================================================================
