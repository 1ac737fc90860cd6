------------------------------- MODULE SeqRef -------------------------------
(***************************************************************************)
(* What the string functions promise, defined by enumeration and without   *)
(* dynamic programming.                                                    *)
(***************************************************************************)
EXTENDS Integers, Sequences, SequencesExt, FiniteSetsExt

(* the member of S that i - 1 others are smaller than *)
Nth(S, i) == CHOOSE x \in S : Cardinality({y \in S : y < x}) = i - 1

(* s with any of its elements left out *)
Subsequences(s) ==
  {[i \in 1 .. Cardinality(kept) |-> s[Nth(kept, i)]] : kept \in SUBSET DOMAIN s}

(* the length of a longest common subsequence, and of a longest common     *)
(* contiguous one                                                          *)
LcsLength(s, t)  == Max({Len(x) : x \in Subsequences(s) \cap Subsequences(t)})
Lcs2Length(s, t) == Max({Len(x) : x \in SubSeqs(s) \cap SubSeqs(t)})

(* The least cost of lining up part of s with an equally long part of t:   *)
(* an insertion or deletion for what is left out, a substitution for each  *)
(* pair that differs.                                                      *)
Hamming(x, y) == Cardinality({i \in DOMAIN x : x[i] # y[i]})
LiningUp(s, t, p) == Len(s) + Len(t) - 2 * Len(p[1]) + Hamming(p[1], p[2])
EquallyLong(s, t) == {p \in Subsequences(s) \X Subsequences(t) : Len(p[1]) = Len(p[2])}

EditDistance(s, t) == Min({LiningUp(s, t, p) : p \in EquallyLong(s, t)})

(* insertions and deletions only: what diff() minimises *)
ScriptDistance(s, t) == Len(s) + Len(t) - 2 * LcsLength(s, t)
=============================================================================
