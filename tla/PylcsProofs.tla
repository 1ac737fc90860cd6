------------------------------ MODULE PylcsProofs ------------------------------
(***************************************************************************)
(* Proofs about the dynamic programs of Pylcs, for strings and lists of    *)
(* any length over any bytes.                                              *)
(***************************************************************************)
EXTENDS Pylcs, Lemmas

----------------------------------------------------------------------------
(* The table of lcs: a cell is the answer for two prefixes. *)

LcsCells(s, t) ==
  [c \in Cells(s, t) |-> LcsLength(SubSeq(s, 1, c[1]), SubSeq(t, 1, c[2]))]

(* What one turn of the loops makes of the cells before. *)
LcsTurn(s, t, dp) ==
  [c \in Cells(s, t) |->
     IF c[1] = 0 \/ c[2] = 0 THEN 0
     ELSE IF s[c[1]] = t[c[2]] THEN dp[<<c[1] - 1, c[2] - 1>>] + 1
     ELSE Larger(dp[<<c[1] - 1, c[2]>>], dp[<<c[1], c[2] - 1>>])]

LEMMA CellsIs ==
  ASSUME NEW E, NEW s \in Seq(E), NEW t \in Seq(E)
  PROVE  /\ \A c \in Cells(s, t) : /\ c = <<c[1], c[2]>> /\ c[1] \in Nat /\ c[2] \in Nat
                                   /\ c[1] \in 0 .. Len(s) /\ c[2] \in 0 .. Len(t)
         /\ \A i \in 0 .. Len(s) : \A j \in 0 .. Len(t) : <<i, j>> \in Cells(s, t)
         /\ \A c \in Cells(s, t) : c[1] # 0 /\ c[2] # 0 =>
              /\ c[1] \in 1 .. Len(s) /\ c[2] \in 1 .. Len(t)
              /\ <<c[1] - 1, c[2] - 1>> \in Cells(s, t)
              /\ <<c[1] - 1, c[2]>> \in Cells(s, t) /\ <<c[1], c[2] - 1>> \in Cells(s, t)
<1>1. Len(s) \in Nat /\ Len(t) \in Nat
  BY LenProperties
<1> DEFINE m == Len(s)
           n == Len(t)
<1>2. m \in Nat /\ n \in Nat /\ Cells(s, t) = (0 .. m) \X (0 .. n)
  BY <1>1 DEF Cells
<1> HIDE DEF m, n
<1>3. /\ \A c \in Cells(s, t) : c = <<c[1], c[2]>> /\ c[1] \in 0 .. m /\ c[2] \in 0 .. n
      /\ \A i \in 0 .. m : \A j \in 0 .. n : <<i, j>> \in Cells(s, t)
  BY <1>2
<1>4. \A i \in 0 .. m : i \in Nat /\ (i # 0 => i \in 1 .. m /\ i - 1 \in 0 .. m)
  BY <1>2
<1>5. \A i \in 0 .. n : i \in Nat /\ (i # 0 => i \in 1 .. n /\ i - 1 \in 0 .. n)
  BY <1>2
<1>6. ASSUME NEW c \in Cells(s, t), c[1] # 0, c[2] # 0
      PROVE  /\ c[1] \in 1 .. m /\ c[2] \in 1 .. n
             /\ <<c[1] - 1, c[2] - 1>> \in Cells(s, t)
             /\ <<c[1] - 1, c[2]>> \in Cells(s, t) /\ <<c[1], c[2] - 1>> \in Cells(s, t)
  BY <1>3, <1>4, <1>5, <1>6
<1> QED
  BY <1>3, <1>4, <1>5, <1>6 DEF m, n

(* A table filled from the cells before is determined by them. *)
LEMMA OneTable ==
  ASSUME NEW E, NEW s \in Seq(E), NEW t \in Seq(E), NEW f, NEW g,
         \A c \in Cells(s, t) :
           (c[1] # 0 /\ c[2] # 0 =>
              /\ f[<<c[1] - 1, c[2] - 1>>] = g[<<c[1] - 1, c[2] - 1>>]
              /\ f[<<c[1] - 1, c[2]>>] = g[<<c[1] - 1, c[2]>>]
              /\ f[<<c[1], c[2] - 1>>] = g[<<c[1], c[2] - 1>>])
           => f[c] = g[c]
  PROVE  \A c \in Cells(s, t) : f[c] = g[c]
<1> DEFINE T == {n \in Nat : \A c \in Cells(s, t) : c[1] + c[2] <= n => f[c] = g[c]}
<1> USE CellsIs
<1>1. 0 \in T
  <2> SUFFICES ASSUME NEW c \in Cells(s, t), c[1] + c[2] <= 0 PROVE f[c] = g[c]
    OBVIOUS
  <2>1. c[1] \in Nat /\ c[2] \in Nat
    OBVIOUS
  <2>2. c[1] = 0
    BY <2>1
  <2> QED
    BY <2>2
<1>2. \A n \in Nat : n \in T => n + 1 \in T
  <2> SUFFICES ASSUME NEW n \in Nat, n \in T, NEW c \in Cells(s, t), c[1] + c[2] <= n + 1
               PROVE  f[c] = g[c]
    OBVIOUS
  <2>1. CASE ~ (c[1] # 0 /\ c[2] # 0)
    BY <2>1
  <2>2. CASE c[1] # 0 /\ c[2] # 0
    <3>1. /\ <<c[1] - 1, c[2] - 1>> \in Cells(s, t)
          /\ <<c[1] - 1, c[2]>> \in Cells(s, t) /\ <<c[1], c[2] - 1>> \in Cells(s, t)
      BY <2>2
    <3>2. c[1] \in Nat /\ c[2] \in Nat
      OBVIOUS
    <3>3. (c[1] - 1) + (c[2] - 1) <= n /\ (c[1] - 1) + c[2] <= n /\ c[1] + (c[2] - 1) <= n
      BY <3>2
    <3>4. \A d \in Cells(s, t) : d[1] + d[2] <= n => f[d] = g[d]
      OBVIOUS
    <3>5. /\ f[<<c[1] - 1, c[2] - 1>>] = g[<<c[1] - 1, c[2] - 1>>]
          /\ f[<<c[1] - 1, c[2]>>] = g[<<c[1] - 1, c[2]>>]
          /\ f[<<c[1], c[2] - 1>>] = g[<<c[1], c[2] - 1>>]
      BY <3>1, <3>3, <3>4
    <3> QED
      BY <2>2, <3>5
  <2> QED
    BY <2>1, <2>2
<1> HIDE DEF T
<1>3. Nat \subseteq T
  BY <1>1, <1>2, Induction
<1>4. \A c \in Cells(s, t) : c[1] + c[2] \in Nat /\ c[1] + c[2] <= c[1] + c[2]
  OBVIOUS
<1> QED
  BY <1>3, <1>4 DEF T

LEMMA LcsCellsTurn ==
  ASSUME NEW E, NEW s \in Seq(E), NEW t \in Seq(E)
  PROVE  LcsTurn(s, t, LcsCells(s, t)) = LcsCells(s, t)
<1>a. \A r \in Seq(E) :
        /\ SubSeq(r, 1, 0) = <<>>
        /\ \A k \in 0 .. Len(r) : SubSeq(r, 1, k) \in Seq(E)
        /\ \A k \in 1 .. Len(r) : r[k] \in E /\ SubSeq(r, 1, k) = Append(SubSeq(r, 1, k - 1), r[k])
  BY FirstElements
<1> DEFINE g == LcsCells(s, t)
           P(i) == SubSeq(s, 1, i)
           Q(j) == SubSeq(t, 1, j)
<1>1. \A c \in Cells(s, t) : g[c] = LcsLength(P(c[1]), Q(c[2]))
  BY DEF LcsCells
<1>2. \A i \in 0 .. Len(s) : \A j \in 0 .. Len(t) : g[<<i, j>>] = LcsLength(P(i), Q(j))
  <2> SUFFICES ASSUME NEW i \in 0 .. Len(s), NEW j \in 0 .. Len(t)
               PROVE  g[<<i, j>>] = LcsLength(P(i), Q(j))
    OBVIOUS
  <2>1. <<i, j>> \in Cells(s, t) /\ <<i, j>>[1] = i /\ <<i, j>>[2] = j
    BY CellsIs
  <2> HIDE DEF g, P, Q
  <2>2. g[<<i, j>>] = LcsLength(P(<<i, j>>[1]), Q(<<i, j>>[2]))
    BY <1>1, <2>1
  <2> QED
    BY <2>1, <2>2
<1>3. /\ P(0) = <<>> /\ \A i \in 0 .. Len(s) : P(i) \in Seq(E)
      /\ \A i \in 1 .. Len(s) : s[i] \in E /\ P(i) = Append(P(i - 1), s[i])
  BY <1>a
<1>4. /\ Q(0) = <<>> /\ \A j \in 0 .. Len(t) : Q(j) \in Seq(E)
      /\ \A j \in 1 .. Len(t) : t[j] \in E /\ Q(j) = Append(Q(j - 1), t[j])
  BY <1>a
<1> HIDE DEF g, P, Q
<1> SUFFICES ASSUME NEW c \in Cells(s, t)
             PROVE  LcsTurn(s, t, g)[c] = g[c]
  BY DEF LcsTurn, LcsCells, g
<1> DEFINE i == c[1]
           j == c[2]
<1>5. /\ i \in 0 .. Len(s) /\ j \in 0 .. Len(t) /\ c = <<i, j>>
      /\ i # 0 /\ j # 0 =>
              /\ i \in 1 .. Len(s) /\ j \in 1 .. Len(t)
              /\ <<i - 1, j - 1>> \in Cells(s, t)
              /\ <<i - 1, j>> \in Cells(s, t) /\ <<i, j - 1>> \in Cells(s, t)
  BY CellsIs
<1>6. LcsTurn(s, t, g)[c] = IF i = 0 \/ j = 0 THEN 0
                            ELSE IF s[i] = t[j] THEN g[<<i - 1, j - 1>>] + 1
                            ELSE Larger(g[<<i - 1, j>>], g[<<i, j - 1>>])
  BY DEF LcsTurn
<1>7. g[c] = LcsLength(P(i), Q(j))
  BY <1>1
<1> HIDE DEF i, j
<1>8. CASE i = 0 \/ j = 0
  <2>1. LcsLength(P(i), Q(j)) = 0
    <3>1. P(i) \in Seq(E) /\ Q(j) \in Seq(E)
      BY <1>3, <1>4, <1>5
    <3> QED
      BY <1>3, <1>4, <1>8, <3>1, LcsLengthNothing
  <2> QED
    BY <1>6, <1>7, <1>8, <2>1
<1>9. CASE i # 0 /\ j # 0
  <2>1. /\ i \in 1 .. Len(s) /\ j \in 1 .. Len(t) /\ i - 1 \in 0 .. Len(s) /\ j - 1 \in 0 .. Len(t)
    BY <1>5, <1>9, LenProperties
  <2>2. /\ g[<<i - 1, j - 1>>] = LcsLength(P(i - 1), Q(j - 1))
        /\ g[<<i - 1, j>>] = LcsLength(P(i - 1), Q(j))
        /\ g[<<i, j - 1>>] = LcsLength(P(i), Q(j - 1))
    BY <1>2, <1>5, <2>1
  <2>3. /\ P(i) = Append(P(i - 1), s[i]) /\ Q(j) = Append(Q(j - 1), t[j])
        /\ P(i - 1) \in Seq(E) /\ Q(j - 1) \in Seq(E) /\ s[i] \in E /\ t[j] \in E
    BY <1>3, <1>4, <2>1
  <2>4. CASE s[i] = t[j]
    <3>1. LcsLength(P(i), Q(j)) = LcsLength(P(i - 1), Q(j - 1)) + 1
      BY <2>3, <2>4, LcsLengthSame
    <3> QED
      BY <1>6, <1>7, <1>9, <2>2, <2>4, <3>1
  <2>5. CASE s[i] # t[j]
    <3>1. LcsLength(P(i), Q(j)) = Larger(LcsLength(P(i - 1), Q(j)), LcsLength(P(i), Q(j - 1)))
      BY <2>3, <2>5, LcsLengthDiffer DEF Larger
    <3> QED
      BY <1>6, <1>7, <1>9, <2>2, <2>5, <3>1
  <2> QED
    BY <2>4, <2>5
<1> QED
  BY <1>8, <1>9

LEMMA LcsTableIs ==
  ASSUME NEW E, NEW s \in Seq(E), NEW t \in Seq(E)
  PROVE  LcsTable(s, t) = LcsCells(s, t)
<1> DEFINE P(h) == h = LcsTurn(s, t, h)
           dp == LcsTable(s, t)
<1>1. dp = CHOOSE h : P(h)
  BY DEF LcsTable, LcsTurn
<1>2. P(LcsCells(s, t))
  BY LcsCellsTurn
<1> HIDE DEF P
<1>3. P(dp)
  BY <1>1, <1>2
<1> HIDE DEF dp
<1>4. dp = LcsTurn(s, t, dp) /\ LcsCells(s, t) = LcsTurn(s, t, LcsCells(s, t))
  BY <1>2, <1>3 DEF P
<1> DEFINE g == LcsCells(s, t)
<1>5. g = LcsTurn(s, t, g) /\ dp = LcsTurn(s, t, dp)
  BY <1>4
<1>6. g = [c \in Cells(s, t) |-> g[c]] /\ dp = [c \in Cells(s, t) |-> dp[c]]
  BY <1>5 DEF LcsTurn
<1> HIDE DEF g
<1>7. ASSUME NEW c \in Cells(s, t),
             c[1] # 0 /\ c[2] # 0 =>
              /\ dp[<<c[1] - 1, c[2] - 1>>] = g[<<c[1] - 1, c[2] - 1>>]
              /\ dp[<<c[1] - 1, c[2]>>] = g[<<c[1] - 1, c[2]>>]
              /\ dp[<<c[1], c[2] - 1>>] = g[<<c[1], c[2] - 1>>]
      PROVE  dp[c] = g[c]
  <2>1. LcsTurn(s, t, dp)[c] = LcsTurn(s, t, g)[c]
    BY <1>7 DEF LcsTurn
  <2> QED
    BY <1>5, <2>1
<1>8. \A c \in Cells(s, t) : dp[c] = g[c]
  BY <1>7, OneTable
<1>9. dp = g
  BY <1>6, <1>8
<1> QED
  BY <1>9 DEF g, dp

----------------------------------------------------------------------------
(* The loop of utf8_split has, after byte r, cut off the characters that   *)
(* end there or before.                                                    *)

Ends(s) == StartsOf(s) \cup {Len(s) + 1}
Piece(s, i) == SubSeq(s, Nth(Ends(s), i), Nth(Ends(s), i + 1) - 1)
Reached(s, r) == {i \in Ends(s) : i <= r + 1}
Cuts(s, r) == Cardinality(Reached(s, r))
SplitAt(s, r) == [split |-> [i \in 1 .. Cuts(s, r) - 1 |-> Piece(s, i)],
                  left  |-> Nth(Ends(s), Cuts(s, r)) - 1]

Bytes == Starts \cup Conts

LEMMA EndsIs ==
  ASSUME NEW s \in Seq(Bytes)
  PROVE  /\ Ends(s) \in SUBSET Nat /\ IsFiniteSet(Ends(s)) /\ Cardinality(Ends(s)) \in Nat
         /\ 1 \in Ends(s) /\ Len(s) + 1 \in Ends(s)
         /\ \A i \in Ends(s) : 1 <= i /\ i <= Len(s) + 1
         /\ \A r \in 1 .. Len(s) : r + 1 \in Ends(s) <=> r = Len(s) \/ s[r + 1] \notin Conts
<1> DEFINE m == Len(s)
<1>1. m \in Nat /\ DOMAIN s = 1 .. m /\ \A i \in 1 .. m : s[i] \in Bytes
  BY LenProperties, ElementOfSeq
<1>2. \A i : i \in Ends(s) <=> i = m + 1 \/ (i \in 1 .. m /\ (i = 1 \/ s[i] \in Starts))
  BY <1>1 DEF Ends, StartsOf
<1> HIDE DEF m
<1>3. \A i \in Ends(s) : i \in 1 .. m + 1
  <2>1. \A i \in 1 .. m : i \in 1 .. m + 1
    BY <1>1
  <2>2. m + 1 \in 1 .. m + 1
    BY <1>1
  <2> QED
    BY <1>2, <2>1, <2>2
<1>4. IsFiniteSet(1 .. m + 1) /\ Ends(s) \subseteq 1 .. m + 1
  BY <1>1, <1>3, FS_Interval
<1>5. IsFiniteSet(Ends(s)) /\ Cardinality(Ends(s)) \in Nat
  BY <1>4, FS_Subset, FS_CardinalityType
<1>6. \A i \in 1 .. m + 1 : i \in Nat /\ 1 <= i /\ i <= m + 1
  BY <1>1
<1>7. 1 \in Ends(s) /\ m + 1 \in Ends(s)
  <2>1. m = 0 \/ 1 \in 1 .. m
    BY <1>1
  <2> QED
    BY <1>2, <2>1
<1>8. ASSUME NEW r \in 1 .. m
      PROVE  r + 1 \in Ends(s) <=> r = m \/ s[r + 1] \notin Conts
  <2>1. r + 1 # 1 /\ (r + 1 = m + 1 <=> r = m) /\ (r # m => r + 1 \in 1 .. m)
    BY <1>1
  <2>2. \A i \in 1 .. m : s[i] \in Starts <=> s[i] \notin Conts
    BY <1>1, PylcsAssumption DEF Bytes
  <2>3. r + 1 \in 1 .. m => r # m
    BY <1>1
  <2> QED
    BY <1>2, <2>1, <2>2, <2>3
<1> QED
  BY <1>3, <1>5, <1>6, <1>7, <1>8 DEF m

LEMMA CutsIs ==
  ASSUME NEW s \in Seq(Bytes)
  PROVE  /\ Cuts(s, 0) = 1 /\ Nth(Ends(s), 1) = 1
         /\ Cuts(s, Len(s)) = Cardinality(Ends(s))
         /\ \A r \in 0 .. Len(s) : Cuts(s, r) \in 1 .. Cardinality(Ends(s))
         /\ \A r \in 1 .. Len(s) :
              IF r + 1 \in Ends(s)
              THEN Cuts(s, r) = Cuts(s, r - 1) + 1 /\ Nth(Ends(s), Cuts(s, r)) = r + 1
              ELSE Cuts(s, r) = Cuts(s, r - 1)
<1> DEFINE D == Ends(s)
           m == Len(s)
<1>1. /\ D \in SUBSET Nat /\ IsFiniteSet(D) /\ Cardinality(D) \in Nat /\ m \in Nat
      /\ 1 \in D /\ \A i \in D : i \in Nat /\ 1 <= i /\ i <= m + 1
  BY EndsIs, LenProperties
<1>2. \A r : Reached(s, r) = {i \in D : i <= r + 1} /\ Cuts(s, r) = Cardinality(Reached(s, r))
  BY DEF Reached, Cuts
<1> HIDE DEF D, m
<1>3. Reached(s, 0) = {1} /\ Reached(s, m) = D
  <2>1. \A i \in D : i <= 0 + 1 <=> i = 1
    BY <1>1
  <2>2. {i \in D : i <= 0 + 1} = {1} /\ {i \in D : i <= m + 1} = D
    BY <1>1, <2>1
  <2> QED
    BY <1>2, <2>2
<1>4. Cuts(s, 0) = 1 /\ Cuts(s, m) = Cardinality(D)
  BY <1>2, <1>3, FS_Singleton
<1>5. Nth(D, 1) = 1
  <2>1. Below(D, 1) = {}
    <3>1. \A i \in D : ~ (i < 1)
      BY <1>1
    <3> QED
      BY <3>1 DEF Below
  <2>2. 1 - 1 = Cardinality(Below(D, 1))
    BY <2>1, FS_EmptySet
  <2> QED
    BY <1>1, <2>2, NthIs
<1>6. ASSUME NEW r \in 0 .. m
      PROVE  Cuts(s, r) \in 1 .. Cardinality(D) /\ IsFiniteSet(Reached(s, r))
  <2>1. Reached(s, r) \subseteq D /\ 1 \in Reached(s, r)
    BY <1>1, <1>2
  <2>2. IsFiniteSet(Reached(s, r)) /\ Cardinality(Reached(s, r)) <= Cardinality(D)
        /\ Cardinality(Reached(s, r)) \in Nat /\ Cardinality(Reached(s, r)) # 0
    BY <1>1, <2>1, FS_Subset, FS_CardinalityType, FS_EmptySet
  <2> QED
    BY <1>1, <1>2, <2>2
<1>7. ASSUME NEW r \in 1 .. m, r + 1 \in D
      PROVE  Cuts(s, r) = Cuts(s, r - 1) + 1 /\ Nth(D, Cuts(s, r)) = r + 1
  <2>1. r - 1 \in 0 .. m /\ r \in Nat
    BY <1>1
  <2>2. Reached(s, r - 1) = Below(D, r + 1)
    <3>1. \A i \in D : i <= (r - 1) + 1 <=> i < r + 1
      BY <1>1, <2>1
    <3> QED
      BY <1>2, <3>1 DEF Below
  <2>3. Reached(s, r) = Reached(s, r - 1) \cup {r + 1} /\ r + 1 \notin Reached(s, r - 1)
    <3>1. \A i \in D : i <= r + 1 <=> i <= (r - 1) + 1 \/ i = r + 1
      BY <1>1, <2>1
    <3>2. ~ (r + 1 <= (r - 1) + 1)
      BY <2>1
    <3> QED
      BY <1>2, <1>7, <3>1, <3>2
  <2>4. Cuts(s, r) = Cuts(s, r - 1) + 1
    BY <1>2, <1>6, <2>1, <2>3, FS_AddElement
  <2>5. Cuts(s, r) - 1 = Cardinality(Below(D, r + 1))
    BY <1>1, <1>2, <1>6, <2>1, <2>2, <2>4
  <2> QED
    BY <1>1, <1>7, <2>4, <2>5, NthIs
<1>8. ASSUME NEW r \in 1 .. m, r + 1 \notin D
      PROVE  Cuts(s, r) = Cuts(s, r - 1)
  <2>1. \A i \in D : i <= r + 1 <=> i <= (r - 1) + 1
    BY <1>1, <1>8
  <2>2. Reached(s, r) = Reached(s, r - 1)
    BY <1>2, <2>1
  <2> QED
    BY <1>2, <2>2
<1> QED
  BY <1>4, <1>5, <1>6, <1>7, <1>8 DEF D, m

(* The loop over the characters is the definition of a character. *)
LEMMA CharsArePieces ==
  ASSUME NEW s \in Seq(Bytes)
  PROVE  /\ Chars(s) = [i \in 1 .. Cardinality(Ends(s)) - 1 |-> Piece(s, i)]
         /\ \A i \in 1 .. Cardinality(Ends(s)) - 1 : Piece(s, i) \in Seq(Bytes)
<1> DEFINE D == Ends(s)
           F == StartsOf(s)
           m == Len(s)
           n == Cardinality(F)
<1>1. /\ D \in SUBSET Nat /\ IsFiniteSet(D) /\ m \in Nat /\ m + 1 \in D
      /\ \A i \in D : i \in Nat /\ 1 <= i /\ i <= m + 1
      /\ \A k \in 1 .. m : s[k] \in Bytes
  BY EndsIs, LenProperties, ElementOfSeq
<1>2. D = F \cup {m + 1} /\ F \subseteq 1 .. m
  BY LenProperties DEF Ends, StartsOf
<1>3. /\ Chars(s) = [i \in 1 .. n |-> SubSeq(s, Nth(F, i), IF i < n THEN Nth(F, i + 1) - 1 ELSE m)]
      /\ \A i : Piece(s, i) = SubSeq(s, Nth(D, i), Nth(D, i + 1) - 1)
  BY DEF Chars, Piece
<1> HIDE DEF D, F, m
<1>4. m + 1 \notin F /\ F \in SUBSET Nat /\ \A i \in F : i < m + 1
  BY <1>1, <1>2
<1>5. IsFiniteSet(F) /\ n \in Nat
  BY <1>1, <1>2, FS_Subset, FS_CardinalityType
<1> HIDE DEF n
<1>6. Cardinality(D) = n + 1
  BY <1>2, <1>4, <1>5, FS_AddElement DEF n
<1>7. ASSUME NEW i \in 1 .. n
      PROVE  Nth(F, i) = Nth(D, i)
  <2>1. Nth(F, i) \in F /\ Cardinality(Below(F, Nth(F, i))) = i - 1
    BY <1>4, <1>5, NthExists DEF n
  <2> DEFINE x == Nth(F, i)
  <2> HIDE DEF x
  <2>2. x \in F /\ Cardinality(Below(F, x)) = i - 1
    BY <2>1 DEF x
  <2>3. Below(D, x) = Below(F, x) /\ x \in D
    <3>1. x <= m /\ ~ (m + 1 < x)
      BY <1>1, <1>2, <1>4, <2>2
    <3> QED
      BY <1>2, <2>2, <3>1 DEF Below
  <2>4. Nth(D, i) = x
    BY <1>1, <2>2, <2>3, NthIs
  <2> QED
    BY <2>4 DEF x
<1>8. Nth(D, n + 1) = m + 1
  <2>1. Below(D, m + 1) = F
    <3>1. ~ (m + 1 < m + 1)
      BY <1>1
    <3> QED
      BY <1>2, <1>4, <3>1 DEF Below
  <2>2. (n + 1) - 1 = Cardinality(Below(D, m + 1))
    BY <1>5, <2>1 DEF n
  <2> QED
    BY <1>1, <2>2, NthIs
<1>9. ASSUME NEW i \in 1 .. n
      PROVE  /\ SubSeq(s, Nth(F, i), IF i < n THEN Nth(F, i + 1) - 1 ELSE m) = Piece(s, i)
             /\ Piece(s, i) \in Seq(Bytes)
  <2>1. Nth(F, i) = Nth(D, i) /\ Nth(F, i) \in F
    BY <1>4, <1>5, <1>7, NthExists DEF n
  <2>2. CASE i < n
    <3>1. i + 1 \in 1 .. n
      BY <1>5, <2>2
    <3>2. Nth(F, i + 1) = Nth(D, i + 1) /\ Nth(F, i + 1) \in F
      BY <1>4, <1>5, <1>7, <3>1, NthExists DEF n
    <3>3. SubSeq(s, Nth(F, i), IF i < n THEN Nth(F, i + 1) - 1 ELSE m) = Piece(s, i)
      BY <1>3, <2>1, <2>2, <3>2
    <3> DEFINE a == Nth(D, i)
               c == Nth(D, i + 1)
               b == c - 1
    <3>4. a \in F /\ c \in F /\ Piece(s, i) = SubSeq(s, a, b)
      BY <1>3, <2>1, <3>2
    <3> HIDE DEF a, c
    <3>5. a \in Int /\ b \in Int /\ \A k \in a .. b : k \in 1 .. m /\ s[k] \in Bytes
      BY <1>1, <1>2, <3>4
    <3> HIDE DEF b
    <3>6. SubSeq(s, a, b) \in Seq(Bytes)
      BY <3>5, SubSeqProperties
    <3> QED
      BY <3>3, <3>4, <3>6
  <2>3. CASE i = n
    <3>1. Nth(D, i + 1) - 1 = m
      BY <1>1, <1>8, <2>3
    <3>2. ~ (i < n)
      BY <1>5, <2>3
    <3>3. SubSeq(s, Nth(F, i), IF i < n THEN Nth(F, i + 1) - 1 ELSE m) = Piece(s, i)
      BY <1>3, <2>1, <3>1, <3>2
    <3> DEFINE a == Nth(D, i)
    <3>4. a \in F /\ Piece(s, i) = SubSeq(s, a, m)
      BY <1>3, <2>1, <3>1
    <3> HIDE DEF a
    <3>5. a \in Int /\ m \in Int /\ \A k \in a .. m : k \in 1 .. m /\ s[k] \in Bytes
      BY <1>1, <1>2, <3>4
    <3>6. SubSeq(s, a, m) \in Seq(Bytes)
      BY <3>5, SubSeqProperties
    <3> QED
      BY <3>3, <3>4, <3>6
  <2>4. i < n \/ i = n
    BY <1>5
  <2> QED
    BY <2>2, <2>3, <2>4
<1>10. Cardinality(D) - 1 = n
  BY <1>5, <1>6
<1> QED
  BY <1>3, <1>9, <1>10 DEF D

LEMMA OneMore ==
  ASSUME NEW F, NEW n \in Nat, NEW f, \A i \in 1 .. n + 1 : f[i] \in F
  PROVE  [i \in 1 .. n + 1 |-> f[i]] = Append([i \in 1 .. n |-> f[i]], f[n + 1])
<1> DEFINE p == [i \in 1 .. n |-> f[i]]
           q == [i \in 1 .. n + 1 |-> f[i]]
<1>1. n + 1 \in 1 .. n + 1 /\ \A i \in 1 .. n + 1 : i \in 1 .. n \/ i = n + 1
  OBVIOUS
<1>2. \A i \in 1 .. n : i \in 1 .. n + 1
  OBVIOUS
<1>3. p \in Seq(F) /\ Len(p) = n
  BY <1>2, IsASeq
<1>4. q \in Seq(F) /\ Len(q) = n + 1
  <2> DEFINE k == n + 1
  <2>1. k \in Nat /\ \A i \in 1 .. k : f[i] \in F
    OBVIOUS
  <2> HIDE DEF k
  <2>2. [i \in 1 .. k |-> f[i]] \in Seq(F) /\ Len([i \in 1 .. k |-> f[i]]) = k
    BY <2>1, IsASeq
  <2> QED
    BY <2>2 DEF k
<1>5. /\ \A i \in 1 .. n : p[i] = f[i] /\ q[i] = f[i]
      /\ q[n + 1] = f[n + 1] /\ f[n + 1] \in F
  BY <1>1, <1>2
<1> HIDE DEF p, q
<1>6. /\ Append(p, f[n + 1]) \in Seq(F) /\ Len(Append(p, f[n + 1])) = n + 1
      /\ Append(p, f[n + 1])[n + 1] = f[n + 1]
      /\ \A i \in 1 .. n : Append(p, f[n + 1])[i] = p[i]
  BY <1>3, <1>5, AppendProperties
<1>7. \A i \in 1 .. n + 1 : q[i] = Append(p, f[n + 1])[i]
  BY <1>1, <1>5, <1>6
<1>8. q = Append(p, f[n + 1])
  BY <1>4, <1>6, <1>7, SeqEqual
<1> QED
  BY <1>8 DEF p, q

(* One turn of the loop of utf8_split. *)
SplitTurn(str, done) ==
  [right \in 0 .. Len(str) |->
     IF right = 0 THEN [split |-> <<>>, left |-> 0]
     ELSE LET so_far == done[right - 1]
          IN IF right = Len(str) \/ str[right + 1] \notin Conts
             THEN [split |-> Append(so_far.split, SubSeq(str, so_far.left + 1, right)), left |-> right]
             ELSE so_far]

Splits(s) == [r \in 0 .. Len(s) |-> SplitAt(s, r)]

LEMMA SplitsTurn ==
  ASSUME NEW s \in Seq(Bytes)
  PROVE  SplitTurn(s, Splits(s)) = Splits(s)
<1> DEFINE g == Splits(s)
           m == Len(s)
           D == Ends(s)
           N == Cardinality(D)
<1>1. /\ m \in Nat /\ N \in Nat
      /\ \A r \in 1 .. m : r + 1 \in D <=> r = m \/ s[r + 1] \notin Conts
  BY EndsIs, LenProperties
<1>2. /\ Cuts(s, 0) = 1 /\ Nth(D, 1) = 1
      /\ \A r \in 0 .. m : Cuts(s, r) \in 1 .. N
      /\ \A r \in 1 .. m :
              IF r + 1 \in D
              THEN Cuts(s, r) = Cuts(s, r - 1) + 1 /\ Nth(D, Cuts(s, r)) = r + 1
              ELSE Cuts(s, r) = Cuts(s, r - 1)
  BY CutsIs
<1>3. \A i \in 1 .. N - 1 : Piece(s, i) \in Seq(Bytes)
  BY CharsArePieces
<1>4. \A r \in 0 .. m : g[r] = SplitAt(s, r)
  BY DEF Splits
<1>5. \A r : SplitAt(s, r) = [split |-> [i \in 1 .. Cuts(s, r) - 1 |-> Piece(s, i)],
                              left  |-> Nth(D, Cuts(s, r)) - 1]
  BY DEF SplitAt
<1>6. \A i : Piece(s, i) = SubSeq(s, Nth(D, i), Nth(D, i + 1) - 1)
  BY DEF Piece
<1> SUFFICES ASSUME NEW r \in 0 .. m PROVE SplitTurn(s, g)[r] = g[r]
  BY DEF SplitTurn, Splits
<1>7. SplitTurn(s, g)[r] =
        IF r = 0 THEN [split |-> <<>>, left |-> 0]
        ELSE IF r = m \/ s[r + 1] \notin Conts
             THEN [split |-> Append(g[r - 1].split, SubSeq(s, g[r - 1].left + 1, r)), left |-> r]
             ELSE g[r - 1]
  BY DEF SplitTurn
<1> HIDE DEF g, m, D, N
<1>8. CASE r = 0
  <2>1. [i \in 1 .. 0 |-> Piece(s, i)] = <<>>
    OBVIOUS
  <2> QED
    BY <1>2, <1>4, <1>5, <1>7, <1>8, <2>1
<1>9. CASE r # 0
  <2>1. r \in 1 .. m /\ r - 1 \in 0 .. m
    BY <1>1, <1>9
  <2>2. CASE r + 1 \notin D
    <3>1. SplitTurn(s, g)[r] = g[r - 1]
      BY <1>1, <1>7, <1>9, <2>1, <2>2
    <3>2. Cuts(s, r) = Cuts(s, r - 1)
      BY <1>2, <2>1, <2>2
    <3>3. SplitAt(s, r) = SplitAt(s, r - 1)
      BY <3>2 DEF SplitAt
    <3> QED
      BY <1>4, <2>1, <3>1, <3>3
  <2>3. CASE r + 1 \in D
    <3> DEFINE k == Cuts(s, r - 1)
    <3>1. /\ Cuts(s, r) = k + 1 /\ Nth(D, k + 1) = r + 1
          /\ k \in 1 .. N /\ k + 1 \in 1 .. N
      BY <1>2, <2>1, <2>3
    <3>2. /\ g[r - 1] = [split |-> [i \in 1 .. k - 1 |-> Piece(s, i)], left |-> Nth(D, k) - 1]
          /\ g[r] = [split |-> [i \in 1 .. k |-> Piece(s, i)], left |-> r]
      <4>1. g[r - 1] = [split |-> [i \in 1 .. k - 1 |-> Piece(s, i)], left |-> Nth(D, k) - 1]
        BY <1>4, <1>5, <2>1
      <4>2. (k + 1) - 1 = k /\ (r + 1) - 1 = r
        BY <1>1, <2>1, <3>1
      <4>3. g[r] = [split |-> [i \in 1 .. (k + 1) - 1 |-> Piece(s, i)], left |-> (r + 1) - 1]
        BY <1>4, <1>5, <3>1
      <4> QED
        BY <4>1, <4>2, <4>3
    <3>3. Nth(D, k) \in Nat
      <4>1. Nth(D, k) \in D
        BY EndsIs, NthExists, <3>1 DEF D, N
      <4> QED
        BY EndsIs, <4>1 DEF D
    <3> HIDE DEF k
    <3>4. Piece(s, k) = SubSeq(s, (Nth(D, k) - 1) + 1, r)
      <4>1. (Nth(D, k) - 1) + 1 = Nth(D, k) /\ (r + 1) - 1 = r
        BY <1>1, <2>1, <3>3
      <4> QED
        BY <1>6, <3>1, <4>1
    <3>5. [i \in 1 .. k |-> Piece(s, i)] = Append([i \in 1 .. k - 1 |-> Piece(s, i)], Piece(s, k))
      <4> DEFINE f == [i \in 1 .. k |-> Piece(s, i)]
                 n == k - 1
      <4>1. n \in Nat /\ n + 1 = k /\ \A i \in 1 .. k : i \in 1 .. N - 1
        BY <1>1, <3>1
      <4>2. \A i \in 1 .. k : f[i] = Piece(s, i) /\ f[i] \in Seq(Bytes)
        BY <1>3, <4>1
      <4>3. \A i \in 1 .. n : i \in 1 .. k
        BY <4>1
      <4>4. k \in 1 .. k
        BY <3>1
      <4> HIDE DEF f, n
      <4>5. [i \in 1 .. n + 1 |-> f[i]] = Append([i \in 1 .. n |-> f[i]], f[n + 1])
        BY <4>1, <4>2, OneMore
      <4>6. [i \in 1 .. n + 1 |-> f[i]] = [i \in 1 .. k |-> Piece(s, i)]
        BY <4>1, <4>2
      <4>7. [i \in 1 .. n |-> f[i]] = [i \in 1 .. n |-> Piece(s, i)] /\ f[n + 1] = Piece(s, k)
        BY <4>1, <4>2, <4>3, <4>4
      <4> QED
        BY <4>5, <4>6, <4>7 DEF n
    <3>6. SplitTurn(s, g)[r] =
            [split |-> Append(g[r - 1].split, SubSeq(s, g[r - 1].left + 1, r)), left |-> r]
      BY <1>1, <1>7, <1>9, <2>1, <2>3
    <3>7. g[r - 1].split = [i \in 1 .. k - 1 |-> Piece(s, i)] /\ g[r - 1].left = Nth(D, k) - 1
      BY <3>2
    <3> QED
      BY <3>2, <3>4, <3>5, <3>6, <3>7
  <2> QED
    BY <2>2, <2>3
<1> QED
  BY <1>8, <1>9

LEMMA Utf8SplitIs ==
  ASSUME NEW s \in Seq(Bytes)
  PROVE  utf8_split(s) = Chars(s) /\ Chars(s) \in Seq(Seq(Bytes))
<1> DEFINE P(h) == h = SplitTurn(s, h)
           m == Len(s)
           done == CHOOSE h : P(h)
           g == Splits(s)
<1>1. utf8_split(s) = done[m].split
  BY DEF utf8_split, SplitTurn
<1>2. P(g)
  BY SplitsTurn
<1> HIDE DEF P
<1>3. P(done)
  BY <1>2
<1> HIDE DEF done
<1>4. g = SplitTurn(s, g) /\ done = SplitTurn(s, done) /\ m \in Nat
  BY <1>2, <1>3, LenProperties DEF P
<1> HIDE DEF g, m
<1> DEFINE T == {n \in Nat : n <= m => done[n] = g[n]}
<1>5. \A r \in 0 .. m : SplitTurn(s, done)[r] =
        IF r = 0 THEN [split |-> <<>>, left |-> 0]
        ELSE IF r = m \/ s[r + 1] \notin Conts
             THEN [split |-> Append(done[r - 1].split, SubSeq(s, done[r - 1].left + 1, r)), left |-> r]
             ELSE done[r - 1]
  BY DEF SplitTurn, m
<1>6. \A r \in 0 .. m : SplitTurn(s, g)[r] =
        IF r = 0 THEN [split |-> <<>>, left |-> 0]
        ELSE IF r = m \/ s[r + 1] \notin Conts
             THEN [split |-> Append(g[r - 1].split, SubSeq(s, g[r - 1].left + 1, r)), left |-> r]
             ELSE g[r - 1]
  BY DEF SplitTurn, m
<1>7. 0 \in T
  <2>1. 0 \in 0 .. m
    BY <1>4
  <2>2. SplitTurn(s, done)[0] = SplitTurn(s, g)[0]
    BY <1>5, <1>6, <2>1
  <2>3. done[0] = g[0]
    BY <1>4, <2>2
  <2> QED
    BY <2>3
<1>8. \A n \in Nat : n \in T => n + 1 \in T
  <2> SUFFICES ASSUME NEW n \in Nat, n \in T, n + 1 <= m PROVE done[n + 1] = g[n + 1]
    OBVIOUS
  <2>1. n + 1 \in 0 .. m /\ n + 1 # 0 /\ (n + 1) - 1 = n /\ n <= m
    BY <1>4
  <2>2. done[n] = g[n]
    BY <2>1
  <2>3. SplitTurn(s, done)[n + 1] = SplitTurn(s, g)[n + 1]
    BY <1>5, <1>6, <2>1, <2>2
  <2> QED
    BY <1>4, <2>3
<1>9. Nat \subseteq T
  <2> HIDE DEF T
  <2> QED
    BY <1>7, <1>8, Induction
<1>10. done[m] = g[m] /\ m \in 0 .. m
  BY <1>4, <1>9
<1>11. g[m] = SplitAt(s, m)
  BY <1>10 DEF g, m, Splits
<1>12. Cuts(s, m) = Cardinality(Ends(s))
  BY CutsIs DEF m
<1>13. g[m].split = Chars(s)
  BY <1>11, <1>12, CharsArePieces DEF SplitAt
<1>14. Chars(s) \in Seq(Seq(Bytes))
  <2> DEFINE n == Cardinality(Ends(s)) - 1
  <2>1. n \in Nat
    BY EndsIs, FS_EmptySet
  <2>2. /\ Chars(s) = [i \in 1 .. n |-> Piece(s, i)]
        /\ \A i \in 1 .. n : Piece(s, i) \in Seq(Bytes)
    BY CharsArePieces
  <2> HIDE DEF n
  <2> QED
    BY <2>1, <2>2, IsASeq
<1> QED
  BY <1>1, <1>10, <1>13, <1>14

LEMMA CharsOfNothing == Chars(<<>>) = <<>>
<1>1. StartsOf(<<>>) = {} /\ Cardinality({}) = 0
  BY FS_EmptySet DEF StartsOf
<1> QED
  BY <1>1 DEF Chars

----------------------------------------------------------------------------
(* What the functions return for two strings. *)

LEMMA LcsIs ==
  ASSUME NEW s \in Seq(Bytes), NEW t \in Seq(Bytes)
  PROVE  lcs_length_(s, t) = LcsLength(Chars(s), Chars(t))
<1> DEFINE a == Chars(s)
           b == Chars(t)
<1>1. /\ utf8_split(s) = a /\ a \in Seq(Seq(Bytes))
      /\ utf8_split(t) = b /\ b \in Seq(Seq(Bytes))
  BY Utf8SplitIs
<1>2. CASE s = <<>> \/ t = <<>>
  <2>1. LcsLength(a, b) = 0
    <3>1. a = <<>> \/ b = <<>>
      BY <1>2, CharsOfNothing
    <3> HIDE DEF a, b
    <3> QED
      BY <1>1, <3>1, LcsLengthNothing
  <2> QED
    BY <1>2, <2>1 DEF lcs_length_
<1>3. CASE ~ (s = <<>> \/ t = <<>>)
  <2>1. lcs_length_(s, t) = LcsTable(a, b)[<<Len(a), Len(b)>>]
    BY <1>1, <1>3 DEF lcs_length_, Corner
  <2> HIDE DEF a, b
  <2>2. LcsTable(a, b) = LcsCells(a, b)
    BY <1>1, LcsTableIs
  <2>3. <<Len(a), Len(b)>> \in Cells(a, b)
    BY <1>1, LenProperties DEF Cells
  <2>4. LcsCells(a, b)[<<Len(a), Len(b)>>] = LcsLength(SubSeq(a, 1, Len(a)), SubSeq(b, 1, Len(b)))
    BY <2>3 DEF LcsCells
  <2>5. SubSeq(a, 1, Len(a)) = a /\ SubSeq(b, 1, Len(b)) = b
    BY <1>1, FirstElements
  <2>6. lcs_length_(s, t) = LcsLength(a, b)
    BY <2>1, <2>2, <2>4, <2>5
  <2> QED
    BY <2>6 DEF a, b
<1> QED
  BY <1>2, <1>3

LEMMA MatrixIs ==
  ASSUME NEW s \in Seq(Bytes), NEW t \in Seq(Bytes), Chars(s) # <<>>, Chars(t) # <<>>
  PROVE  lcs_matrix_(s, t) = LcsCells(Chars(s), Chars(t))
<1>1. s # <<>> /\ t # <<>>
  BY CharsOfNothing
<1>2. lcs_matrix_(s, t) = LcsTable(Chars(s), Chars(t))
  BY <1>1, Utf8SplitIs DEF lcs_matrix_
<1> QED
  BY <1>2, Utf8SplitIs, LcsTableIs

----------------------------------------------------------------------------
(* The loop over a list has, after n turns, the answers for the first n    *)
(* strings.                                                                *)

Answers(n) == [i \in 1 .. n |-> Result(fn, str1, str_list[i])]
Answered   == \E n \in 0 .. Len(str_list) : ls = Answers(n)
ListInv    == /\ str1 \in Seq(Bytes)
              /\ str_list \in Seq(Seq(Bytes))
              /\ Answered

LEMMA BoundedSeqIsSeq ==
  ASSUME NEW S, NEW n, NEW x \in BoundedSeq(S, n)
  PROVE  x \in Seq(S)
BY DEF BoundedSeq, SeqOf

LEMMA ListInvInit == Init => ListInv
<1> SUFFICES ASSUME Init PROVE ListInv
  OBVIOUS
<1>1. str1 \in Seq(Bytes)
  BY BoundedSeqIsSeq DEF Init, Strings, Bytes
<1>2. str_list \in Seq(Seq(Bytes))
  <2>1. Strings \subseteq Seq(Bytes) /\ BoundedSeq(Starts \cup Conts, MaxItem) \subseteq Seq(Bytes)
    BY BoundedSeqIsSeq DEF Strings, Bytes
  <2>2. CASE str_list \in BoundedSeq(Strings, 1)
    BY <2>1, <2>2, BoundedSeqIsSeq, SeqMonotonic
  <2>3. CASE str_list \in BoundedSeq(BoundedSeq(Starts \cup Conts, MaxItem), MaxList)
    BY <2>1, <2>3, BoundedSeqIsSeq, SeqMonotonic
  <2> QED
    BY <2>2, <2>3 DEF Init, Lists
<1>3. ls = Answers(0)
  BY DEF Init, Answers
<1>4. 0 \in 0 .. Len(str_list)
  BY <1>2, LenProperties
<1> QED
  BY <1>1, <1>2, <1>3, <1>4 DEF ListInv, Answered

LEMMA ListInvStep == ListInv /\ [Next]_vars => ListInv'
<1> SUFFICES ASSUME ListInv, [Next]_vars PROVE ListInv'
  OBVIOUS
<1>1. CASE UNCHANGED vars
  BY <1>1 DEF vars, ListInv, Answered, Answers
<1>2. CASE Compare
  <2>1. str1' = str1 /\ str_list' = str_list /\ fn' = fn
    BY <1>2 DEF Compare
  <2>2. PICK n \in 0 .. Len(str_list) : ls = Answers(n)
    BY DEF ListInv, Answered
  <2>3. n \in Nat /\ Len(str_list) \in Nat
    BY LenProperties DEF ListInv
  <2> DEFINE F == {Result(fn, str1, str_list[i]) : i \in 1 .. n + 1}
             f == [i \in 1 .. n + 1 |-> Result(fn, str1, str_list[i])]
  <2>4. \A i \in 1 .. n + 1 : f[i] \in F /\ f[i] = Result(fn, str1, str_list[i])
    OBVIOUS
  <2>5. n + 1 \in 1 .. n + 1 /\ \A i \in 1 .. n : i \in 1 .. n + 1
    BY <2>3
  <2>6. f = Answers(n + 1)
    BY DEF Answers
  <2> HIDE DEF f, F
  <2>7. ls = [i \in 1 .. n |-> f[i]] /\ f = [i \in 1 .. n + 1 |-> f[i]]
    BY <2>2, <2>4, <2>5, <2>6 DEF Answers
  <2>8. Len(ls) = n
    <3>1. \A i \in 1 .. n : f[i] \in F
      BY <2>4, <2>5
    <3> QED
      BY <2>3, <2>7, <3>1, IsASeq
  <2>9. ls' = Append(ls, f[n + 1]) /\ n + 1 \in 0 .. Len(str_list)
    BY <1>2, <2>3, <2>4, <2>5, <2>8 DEF Compare
  <2>10. ls' = Answers(n + 1)
    BY <2>3, <2>4, <2>6, <2>7, <2>9, OneMore
  <2>11. ls' = Answers(n + 1)'
    BY <2>1, <2>10 DEF Answers
  <2>12. Answered'
    BY <2>1, <2>9, <2>11 DEF Answered
  <2> QED
    BY <2>1, <2>12 DEF ListInv
<1> QED
  BY <1>1, <1>2 DEF Next

LEMMA ListInvAlways == Spec => []ListInv
<1> QED
  BY ListInvInit, ListInvStep, PTL DEF Spec

LEMMA AnswerIs ==
  ASSUME ListInv, NEW f, NEW i \in Results(f)
  PROVE  ls[i] = Result(f, str1, str_list[i]) /\ str_list[i] \in Seq(Bytes) /\ fn = f
<1>1. PICK n \in 0 .. Len(str_list) : ls = Answers(n)
  BY DEF ListInv, Answered
<1>2. i \in DOMAIN ls /\ fn = f
  BY DEF Results
<1>3. i \in 1 .. n /\ ls[i] = Result(fn, str1, str_list[i])
  BY <1>1, <1>2 DEF Answers
<1>4. str_list \in Seq(Seq(Bytes)) /\ Len(str_list) \in Nat
  BY LenProperties DEF ListInv
<1>5. i \in 1 .. Len(str_list)
  BY <1>3, <1>4
<1> QED
  BY <1>2, <1>3, <1>4, <1>5, ElementOfSeq

(* lcs and lcs_of_list (main.cpp:60-90, 313)  return the length, in         *)
(* characters, of a longest common subsequence of the two strings, for     *)
(* every string of the list.                                               *)
THEOREM LcsIsCorrect == Spec => []LcsCorrect
<1>1. ListInv => LcsCorrect
  <2> SUFFICES ASSUME ListInv, NEW i \in Results("lcs")
               PROVE  ls[i] = LcsLength(Chars(str1), Chars(str_list[i]))
    BY DEF LcsCorrect
  <2>1. ls[i] = Result("lcs", str1, str_list[i]) /\ str_list[i] \in Seq(Bytes)
    BY AnswerIs
  <2>2. ls[i] = lcs_length_(str1, str_list[i])
    BY <2>1 DEF Result
  <2> QED
    BY <2>1, <2>2, LcsIs DEF ListInv
<1> QED
  BY <1>1, ListInvAlways, PTL

(* Every entry of the table lcs_matrix returns is the answer for the two   *)
(* prefixes it stands for.                                                 *)
THEOREM MatrixIsCorrect == Spec => []MatrixCorrect
<1>1. ListInv => MatrixCorrect
  <2> SUFFICES ASSUME ListInv, NEW i \in Results("lcs_matrix"),
                      Chars(str1) # <<>>, Chars(str_list[i]) # <<>>
               PROVE  /\ DOMAIN ls[i] = Cells(Chars(str1), Chars(str_list[i]))
                      /\ \A c \in DOMAIN ls[i] :
                           ls[i][c] = LcsLength(SubSeq(Chars(str1), 1, c[1]),
                                                SubSeq(Chars(str_list[i]), 1, c[2]))
    BY DEF MatrixCorrect, Cells
  <2>1. ls[i] = Result("lcs_matrix", str1, str_list[i]) /\ str_list[i] \in Seq(Bytes)
    BY AnswerIs
  <2>2. ls[i] = lcs_matrix_(str1, str_list[i])
    BY <2>1 DEF Result
  <2>3. ls[i] = LcsCells(Chars(str1), Chars(str_list[i]))
    BY <2>1, <2>2, MatrixIs DEF ListInv
  <2> QED
    BY <2>3 DEF LcsCells
<1> QED
  BY <1>1, ListInvAlways, PTL

----------------------------------------------------------------------------
(* The edit distance, element by element. *)

LEMMA HammingType ==
  ASSUME NEW E, NEW x \in Seq(E), NEW y
  PROVE  Hamming(x, y) \in Nat /\ IsFiniteSet({i \in DOMAIN x : x[i] # y[i]})
<1> DEFINE n == Len(x)
<1>1. n \in Nat /\ DOMAIN x = 1 .. n
  BY LenProperties
<1> HIDE DEF n
<1>2. IsFiniteSet(1 .. n)
  BY <1>1, FS_Interval
<1>3. IsFiniteSet({i \in DOMAIN x : x[i] # y[i]})
  BY <1>1, <1>2, FS_Subset
<1> QED
  BY <1>3, FS_CardinalityType DEF Hamming

LEMMA HammingAppend ==
  ASSUME NEW E, NEW x \in Seq(E), NEW y \in Seq(E), Len(x) = Len(y), NEW e \in E, NEW f \in E
  PROVE  Hamming(Append(x, e), Append(y, f)) = Hamming(x, y) + IF e = f THEN 0 ELSE 1
<1> DEFINE n == Len(x)
           p == Append(x, e)
           q == Append(y, f)
           A == {i \in DOMAIN x : x[i] # y[i]}
           B == {i \in DOMAIN p : p[i] # q[i]}
<1>1. /\ n \in Nat /\ DOMAIN x = 1 .. n /\ DOMAIN p = 1 .. n + 1
      /\ p[n + 1] = e /\ q[n + 1] = f
      /\ \A i \in 1 .. n : p[i] = x[i] /\ q[i] = y[i]
  BY AppendProperties, LenProperties
<1>2. Hamming(x, y) = Cardinality(A) /\ Hamming(p, q) = Cardinality(B)
  BY DEF Hamming
<1>3. Cardinality(A) \in Nat /\ IsFiniteSet(A)
  BY <1>2, HammingType
<1>4. \A i : i \in 1 .. n + 1 <=> i \in 1 .. n \/ i = n + 1
  BY <1>1
<1>5. n + 1 \notin 1 .. n
  BY <1>1
<1> HIDE DEF n, p, q
<1>6. \A i : i \in A <=> i \in 1 .. n /\ x[i] # y[i]
  BY <1>1
<1>7. \A i : i \in B <=> i \in A \/ (i = n + 1 /\ e # f)
  BY <1>1, <1>4, <1>5
<1> HIDE DEF A, B
<1>8. CASE e = f
  <2>1. A = B
    BY <1>7, <1>8
  <2> QED
    BY <1>2, <1>3, <1>8, <2>1 DEF p, q
<1>9. CASE e # f
  <2>1. B = A \cup {n + 1} /\ n + 1 \notin A
    BY <1>5, <1>6, <1>7, <1>9
  <2>2. Cardinality(B) = Cardinality(A) + 1
    BY <1>3, <2>1, FS_AddElement
  <2> QED
    BY <1>2, <1>9, <2>2 DEF p, q
<1> QED
  BY <1>8, <1>9

(* Two subsequences of the same length line up; the first of them may be   *)
(* taken apart from the second.                                            *)
Lined(s, t, x, y) == x \in Subsequences(s) /\ y \in Subsequences(t) /\ Len(x) = Len(y)
Cost(s, t, x, y)  == Len(s) + Len(t) - 2 * Len(x) + Hamming(x, y)

LEMMA LinedType ==
  ASSUME NEW E, NEW s \in Seq(E), NEW t \in Seq(E), NEW x, NEW y, Lined(s, t, x, y)
  PROVE  /\ x \in Seq(E) /\ y \in Seq(E) /\ Len(x) \in Nat
         /\ Len(s) \in Nat /\ Len(t) \in Nat /\ Hamming(x, y) \in Nat
         /\ Cost(s, t, x, y) \in Nat
<1>1. x \in Seq(E) /\ y \in Seq(E) /\ Len(x) \in 0 .. Len(s) /\ Len(x) \in 0 .. Len(t)
  BY SubsequencesType DEF Lined
<1>2. Len(s) \in Nat /\ Len(t) \in Nat
  BY LenProperties
<1>3. Hamming(x, y) \in Nat
  BY <1>1, HammingType
<1>4. Cost(s, t, x, y) \in Nat
  BY <1>1, <1>2, <1>3 DEF Cost
<1> QED
  BY <1>1, <1>2, <1>3, <1>4

LEMMA EditDistanceIs ==
  ASSUME NEW E, NEW s \in Seq(E), NEW t \in Seq(E)
  PROVE  /\ EditDistance(s, t) \in Nat
         /\ \E x, y : Lined(s, t, x, y) /\ Cost(s, t, x, y) = EditDistance(s, t)
         /\ \A x, y : Lined(s, t, x, y) => EditDistance(s, t) <= Cost(s, t, x, y)
<1> DEFINE C == {LiningUp(s, t, p) : p \in EquallyLong(s, t)}
<1>1. \A p \in EquallyLong(s, t) : /\ Lined(s, t, p[1], p[2])
                                   /\ LiningUp(s, t, p) = Cost(s, t, p[1], p[2])
  BY DEF EquallyLong, LiningUp, Lined, Cost
<1>2. \A x, y : Lined(s, t, x, y) => /\ <<x, y>> \in EquallyLong(s, t)
                                    /\ LiningUp(s, t, <<x, y>>) = Cost(s, t, x, y)
  BY DEF EquallyLong, LiningUp, Lined, Cost
<1>3. Lined(s, t, <<>>, <<>>)
  BY EmptyIsSubsequence DEF Lined
<1>4. C \in SUBSET Nat /\ C # {}
  <2>1. \A p \in EquallyLong(s, t) : LiningUp(s, t, p) \in Nat
    BY <1>1, LinedType
  <2>2. EquallyLong(s, t) # {}
    BY <1>2, <1>3
  <2> QED
    BY <2>1, <2>2
<1>5. \A x, y : Lined(s, t, x, y) => Cost(s, t, x, y) \in C
  BY <1>2
<1>6. \A n \in C : \E x, y : Lined(s, t, x, y) /\ Cost(s, t, x, y) = n
  BY <1>1
<1>7. EditDistance(s, t) = Min(C)
  BY DEF EditDistance
<1> HIDE DEF C
<1>8. Min(C) \in C /\ \A n \in C : Min(C) <= n
  BY <1>4, MinIsLeast
<1> QED
  BY <1>4, <1>5, <1>6, <1>7, <1>8

LEMMA CostAppend ==
  ASSUME NEW E, NEW s \in Seq(E), NEW t \in Seq(E), NEW x, NEW y, Lined(s, t, x, y),
         NEW e \in E, NEW f \in E
  PROVE  /\ Cost(Append(s, e), t, x, y) = Cost(s, t, x, y) + 1
         /\ Cost(s, Append(t, f), x, y) = Cost(s, t, x, y) + 1
         /\ Cost(Append(s, e), Append(t, f), x, y) = Cost(s, t, x, y) + 2
         /\ Cost(Append(s, e), Append(t, f), Append(x, e), Append(y, f))
              = Cost(s, t, x, y) + IF e = f THEN 0 ELSE 1
<1>1. /\ x \in Seq(E) /\ y \in Seq(E) /\ Len(x) \in Nat /\ Len(x) = Len(y)
      /\ Len(s) \in Nat /\ Len(t) \in Nat /\ Hamming(x, y) \in Nat
  BY LinedType DEF Lined
<1>2. /\ Len(Append(s, e)) = Len(s) + 1 /\ Len(Append(t, f)) = Len(t) + 1
      /\ Len(Append(x, e)) = Len(x) + 1
  BY <1>1, AppendProperties
<1>3. Hamming(Append(x, e), Append(y, f)) = Hamming(x, y) + IF e = f THEN 0 ELSE 1
  BY <1>1, HammingAppend
<1> DEFINE d == IF e = f THEN 0 ELSE 1
           h == Hamming(x, y)
           k == Hamming(Append(x, e), Append(y, f))
<1>4. d \in Nat /\ k = h + d /\ h \in Nat
  BY <1>1, <1>3
<1>5. /\ Cost(s, t, x, y) = Len(s) + Len(t) - 2 * Len(x) + h
      /\ Cost(Append(s, e), t, x, y) = (Len(s) + 1) + Len(t) - 2 * Len(x) + h
      /\ Cost(s, Append(t, f), x, y) = Len(s) + (Len(t) + 1) - 2 * Len(x) + h
      /\ Cost(Append(s, e), Append(t, f), x, y) = (Len(s) + 1) + (Len(t) + 1) - 2 * Len(x) + h
      /\ Cost(Append(s, e), Append(t, f), Append(x, e), Append(y, f))
           = (Len(s) + 1) + (Len(t) + 1) - 2 * (Len(x) + 1) + k
  BY <1>2 DEF Cost
<1> HIDE DEF d, h, k
<1>6. /\ Cost(Append(s, e), t, x, y) = Cost(s, t, x, y) + 1
      /\ Cost(s, Append(t, f), x, y) = Cost(s, t, x, y) + 1
      /\ Cost(Append(s, e), Append(t, f), x, y) = Cost(s, t, x, y) + 2
      /\ Cost(Append(s, e), Append(t, f), Append(x, e), Append(y, f)) = Cost(s, t, x, y) + d
  BY <1>1, <1>4, <1>5
<1> QED
  BY <1>6 DEF d

LEMMA LinedAppend ==
  ASSUME NEW E, NEW s \in Seq(E), NEW t \in Seq(E), NEW e \in E, NEW f \in E, NEW x, NEW y,
         Lined(s, t, x, y)
  PROVE  /\ Lined(Append(s, e), t, x, y) /\ Lined(s, Append(t, f), x, y)
         /\ Lined(Append(s, e), Append(t, f), x, y)
         /\ Lined(Append(s, e), Append(t, f), Append(x, e), Append(y, f))
<1>1. x \in Seq(E) /\ y \in Seq(E) /\ Len(x) = Len(y)
  BY LinedType DEF Lined
<1>2. Len(Append(x, e)) = Len(x) + 1 /\ Len(Append(y, f)) = Len(y) + 1
  BY <1>1, AppendProperties
<1>3. /\ Subsequences(Append(s, e)) = Subsequences(s) \cup {Append(z, e) : z \in Subsequences(s)}
      /\ Subsequences(Append(t, f)) = Subsequences(t) \cup {Append(z, f) : z \in Subsequences(t)}
  BY SubsequencesAppend
<1> QED
  BY <1>1, <1>2, <1>3 DEF Lined

(* What is lined up with two sequences leaves the end of one out, or lines *)
(* up the two ends.                                                        *)
LEMMA LinedCases ==
  ASSUME NEW E, NEW s \in Seq(E), NEW t \in Seq(E), NEW e \in E, NEW f \in E, NEW x, NEW y,
         Lined(Append(s, e), Append(t, f), x, y)
  PROVE  \/ Lined(s, Append(t, f), x, y)
         \/ Lined(Append(s, e), t, x, y)
         \/ \E v, w : Lined(s, t, v, w) /\ x = Append(v, e) /\ y = Append(w, f)
<1>1. /\ Subsequences(Append(s, e)) = Subsequences(s) \cup {Append(z, e) : z \in Subsequences(s)}
      /\ Subsequences(Append(t, f)) = Subsequences(t) \cup {Append(z, f) : z \in Subsequences(t)}
  BY SubsequencesAppend
<1>2. CASE x \in Subsequences(s) \/ y \in Subsequences(t)
  BY <1>2 DEF Lined
<1>3. CASE ~ (x \in Subsequences(s) \/ y \in Subsequences(t))
  <2>1. PICK v \in Subsequences(s) : x = Append(v, e)
    BY <1>1, <1>3 DEF Lined
  <2>2. PICK w \in Subsequences(t) : y = Append(w, f)
    BY <1>1, <1>3 DEF Lined
  <2>3. v \in Seq(E) /\ w \in Seq(E) /\ Len(v) \in Nat /\ Len(w) \in Nat
    BY SubsequencesType, LenProperties
  <2>4. Len(x) = Len(v) + 1 /\ Len(y) = Len(w) + 1 /\ Len(x) = Len(y)
    BY <2>1, <2>2, <2>3, AppendProperties DEF Lined
  <2>5. Len(v) = Len(w)
    BY <2>3, <2>4
  <2> QED
    BY <2>1, <2>2, <2>5 DEF Lined
<1> QED
  BY <1>2, <1>3

(* One more element on one side changes the distance by at most one.       *)
LEMMA EditDistanceMore ==
  ASSUME NEW E, NEW s \in Seq(E), NEW t \in Seq(E), NEW e \in E, NEW f \in E
  PROVE  /\ EditDistance(Append(s, e), Append(t, f)) <= EditDistance(s, t) + IF e = f THEN 0 ELSE 1
         /\ EditDistance(Append(s, e), Append(t, f)) <= EditDistance(s, Append(t, f)) + 1
         /\ EditDistance(Append(s, e), Append(t, f)) <= EditDistance(Append(s, e), t) + 1
<1> DEFINE p == Append(s, e)
           q == Append(t, f)
<1>1. p \in Seq(E) /\ q \in Seq(E)
  BY AppendProperties
<1>2. \A x, y : Lined(p, q, x, y) => EditDistance(p, q) <= Cost(p, q, x, y)
  <2> HIDE DEF p, q
  <2> QED
    BY <1>1, EditDistanceIs
<1>3. EditDistance(p, q) <= EditDistance(s, t) + IF e = f THEN 0 ELSE 1
  <2>1. PICK x, y : Lined(s, t, x, y) /\ Cost(s, t, x, y) = EditDistance(s, t)
    BY EditDistanceIs
  <2>2. Lined(p, q, Append(x, e), Append(y, f))
    BY <2>1, LinedAppend
  <2>3. Cost(p, q, Append(x, e), Append(y, f)) = Cost(s, t, x, y) + IF e = f THEN 0 ELSE 1
    BY <2>1, CostAppend
  <2> QED
    BY <1>2, <2>1, <2>2, <2>3
<1>4. EditDistance(p, q) <= EditDistance(s, q) + 1
  <2>1. PICK x, y : Lined(s, q, x, y) /\ Cost(s, q, x, y) = EditDistance(s, q)
    <3> HIDE DEF q
    <3> QED
      BY <1>1, EditDistanceIs
  <2> HIDE DEF q
  <2>2. Lined(p, q, x, y) /\ Cost(p, q, x, y) = Cost(s, q, x, y) + 1
    BY <1>1, <2>1, LinedAppend, CostAppend
  <2> QED
    BY <1>2, <2>1, <2>2
<1>5. EditDistance(p, q) <= EditDistance(p, t) + 1
  <2>1. PICK x, y : Lined(p, t, x, y) /\ Cost(p, t, x, y) = EditDistance(p, t)
    <3> HIDE DEF p
    <3> QED
      BY <1>1, EditDistanceIs
  <2> HIDE DEF p
  <2>2. Lined(p, q, x, y) /\ Cost(p, q, x, y) = Cost(p, t, x, y) + 1
    BY <1>1, <2>1, LinedAppend, CostAppend
  <2> QED
    BY <1>2, <2>1, <2>2
<1> QED
  BY <1>3, <1>4, <1>5

LEMMA EditDistanceNothing ==
  ASSUME NEW E, NEW s \in Seq(E)
  PROVE  EditDistance(<<>>, s) = Len(s) /\ EditDistance(s, <<>>) = Len(s)
<1> DEFINE z == <<>>
<1>1. /\ z \in Seq(E) /\ Len(z) = 0 /\ Subsequences(z) = {z} /\ z \in Subsequences(s)
      /\ Len(s) \in Nat /\ \A x \in Seq(E) : Len(x) = 0 => x = z
  BY EmptySeq, SubsequencesEmpty, EmptyIsSubsequence, LenProperties
<1>2. Hamming(z, z) = 0
  <2>1. {i \in DOMAIN z : z[i] # z[i]} = {}
    OBVIOUS
  <2> QED
    BY <2>1, FS_EmptySet DEF Hamming
<1> HIDE DEF z
<1>3. /\ \A x, y : Lined(z, s, x, y) => x = z /\ y = z
      /\ \A x, y : Lined(s, z, x, y) => x = z /\ y = z
  BY <1>1, LinedType DEF Lined
<1>4. Cost(z, s, z, z) = Len(s) /\ Cost(s, z, z, z) = Len(s)
  BY <1>1, <1>2 DEF Cost
<1>5. \E x, y : Lined(z, s, x, y) /\ Cost(z, s, x, y) = EditDistance(z, s)
  BY <1>1, EditDistanceIs
<1>6. \E x, y : Lined(s, z, x, y) /\ Cost(s, z, x, y) = EditDistance(s, z)
  BY <1>1, EditDistanceIs
<1>7. EditDistance(z, s) = Len(s) /\ EditDistance(s, z) = Len(s)
  BY <1>3, <1>4, <1>5, <1>6
<1> QED
  BY <1>7 DEF z

LEMMA EditDistanceSame ==
  ASSUME NEW E, NEW s \in Seq(E), NEW t \in Seq(E), NEW e \in E
  PROVE  EditDistance(Append(s, e), Append(t, e)) = EditDistance(s, t)
<1> DEFINE p == Append(s, e)
           q == Append(t, e)
<1>1. p \in Seq(E) /\ q \in Seq(E)
  BY AppendProperties
<1>2. EditDistance(p, q) \in Nat /\ EditDistance(s, t) \in Nat
  <2> HIDE DEF p, q
  <2> QED
    BY <1>1, EditDistanceIs
<1>3. EditDistance(p, q) <= EditDistance(s, t)
  <2>1. EditDistance(p, q) <= EditDistance(s, t) + IF e = e THEN 0 ELSE 1
    BY EditDistanceMore
  <2> QED
    BY <1>2, <2>1
<1>4. \A v, w : Lined(s, t, v, w) => EditDistance(s, t) <= Cost(s, t, v, w)
  BY EditDistanceIs
<1>5. PICK x, y : Lined(p, q, x, y) /\ Cost(p, q, x, y) = EditDistance(p, q)
  <2> HIDE DEF p, q
  <2> QED
    BY <1>1, EditDistanceIs
<1>6. CASE \E v, w : Lined(s, t, v, w) /\ x = Append(v, e) /\ y = Append(w, e)
  <2>1. PICK v, w : Lined(s, t, v, w) /\ x = Append(v, e) /\ y = Append(w, e)
    BY <1>6
  <2>2. Cost(p, q, x, y) = Cost(s, t, v, w) + IF e = e THEN 0 ELSE 1
    BY <2>1, CostAppend
  <2>3. Cost(p, q, x, y) = Cost(s, t, v, w)
    BY <2>1, <2>2, LinedType
  <2> QED
    BY <1>3, <1>2, <1>4, <1>5, <2>1, <2>3
<1>7. CASE Lined(s, t, x, y)
  <2>1. Cost(p, q, x, y) = Cost(s, t, x, y) + 2 /\ Cost(s, t, x, y) \in Nat
    BY <1>7, CostAppend, LinedType
  <2> QED
    BY <1>3, <1>2, <1>4, <1>5, <1>7, <2>1
(* One end is left out and the other lined up with an element before it.   *)
<1>8. ASSUME NEW v, NEW w, NEW a \in E, NEW b \in E, Lined(s, t, v, w),
             x = Append(v, a), y = Append(w, b)
      PROVE  EditDistance(s, t) <= Cost(p, q, x, y)
  <2>1. /\ v \in Seq(E) /\ w \in Seq(E) /\ Len(v) \in Nat /\ Len(v) = Len(w)
        /\ Len(s) \in Nat /\ Len(t) \in Nat /\ Hamming(v, w) \in Nat
    BY <1>8, LinedType DEF Lined
  <2>2. Len(p) = Len(s) + 1 /\ Len(q) = Len(t) + 1 /\ Len(x) = Len(v) + 1
    BY <1>8, <2>1, AppendProperties
  <2>3. Hamming(x, y) = Hamming(v, w) + IF a = b THEN 0 ELSE 1
    BY <1>8, <2>1, HammingAppend
  <2>4. Hamming(v, w) <= Hamming(x, y) /\ Hamming(x, y) \in Nat
    BY <2>1, <2>3
  <2>5. Cost(s, t, v, w) <= Cost(p, q, x, y)
    <3>1. Cost(s, t, v, w) = Len(s) + Len(t) - 2 * Len(v) + Hamming(v, w)
      BY DEF Cost
    <3>2. Cost(p, q, x, y) = (Len(s) + 1) + (Len(t) + 1) - 2 * (Len(v) + 1) + Hamming(x, y)
      BY <2>2 DEF Cost
    <3> QED
      BY <2>1, <2>4, <3>1, <3>2
  <2>6. EditDistance(s, t) <= Cost(s, t, v, w)
    BY <1>4, <1>8
  <2>7. Cost(s, t, v, w) \in Nat /\ Cost(p, q, x, y) \in Nat
    BY <1>8, <1>1, <1>2, <1>5, LinedType
  <2> QED
    BY <1>2, <2>5, <2>6, <2>7
<1>9. x \in Seq(E) /\ y \in Seq(E) /\ Len(x) = Len(y)
  <2> HIDE DEF p, q
  <2> QED
    BY <1>1, <1>5, LinedType DEF Lined
<1>10. \A z \in Seq(E) : Len(z) = 0 <=> z = <<>>
  BY EmptySeq, LenProperties
<1>11. CASE Lined(s, q, x, y) /\ ~ Lined(s, t, x, y)
  <2>1. x \in Subsequences(s) /\ y \notin Subsequences(t) /\ y \in Subsequences(q)
    BY <1>11 DEF Lined
  <2>2. PICK w \in Subsequences(t) : y = Append(w, e)
    BY <2>1, SubsequencesAppend
  <2>3. w \in Seq(E) /\ Len(w) \in Nat
    BY SubsequencesType, LenProperties
  <2>4. y # <<>> /\ Len(y) = Len(w) + 1
    BY <2>2, <2>3, AppendProperties
  <2>5. x # <<>>
    BY <1>9, <1>10, <2>4
  <2>6. PICK v \in Seq(E), a \in E : x = Append(v, a)
    BY <1>9, <2>5, SequenceEmptyOrAppend
  <2>7. v \in Subsequences(s) /\ Len(x) = Len(v) + 1 /\ Len(v) \in Nat
    BY <2>1, <2>6, SubsequencesPrefix, AppendProperties, LenProperties
  <2>8. Len(v) = Len(w)
    <3>1. Len(v) + 1 = Len(w) + 1
      BY <1>9, <2>4, <2>7
    <3> QED
      BY <2>3, <2>7, <3>1
  <2>9. Lined(s, t, v, w)
    BY <2>7, <2>8 DEF Lined
  <2>10. EditDistance(s, t) <= Cost(p, q, x, y)
    BY <1>8, <2>2, <2>6, <2>9
  <2> QED
    BY <1>3, <1>2, <1>5, <2>10
<1>12. CASE Lined(p, t, x, y) /\ ~ Lined(s, t, x, y)
  <2>1. y \in Subsequences(t) /\ x \notin Subsequences(s) /\ x \in Subsequences(p)
    BY <1>12 DEF Lined
  <2>2. PICK v \in Subsequences(s) : x = Append(v, e)
    BY <2>1, SubsequencesAppend
  <2>3. v \in Seq(E) /\ Len(v) \in Nat
    BY SubsequencesType, LenProperties
  <2>4. x # <<>> /\ Len(x) = Len(v) + 1
    BY <2>2, <2>3, AppendProperties
  <2>5. y # <<>>
    BY <1>9, <1>10, <2>4
  <2>6. PICK w \in Seq(E), b \in E : y = Append(w, b)
    BY <1>9, <2>5, SequenceEmptyOrAppend
  <2>7. w \in Subsequences(t) /\ Len(y) = Len(w) + 1 /\ Len(w) \in Nat
    BY <2>1, <2>6, SubsequencesPrefix, AppendProperties, LenProperties
  <2>8. Len(v) = Len(w)
    <3>1. Len(v) + 1 = Len(w) + 1
      BY <1>9, <2>4, <2>7
    <3> QED
      BY <2>3, <2>7, <3>1
  <2>9. Lined(s, t, v, w)
    BY <2>7, <2>8 DEF Lined
  <2>10. EditDistance(s, t) <= Cost(p, q, x, y)
    BY <1>8, <2>2, <2>6, <2>9
  <2> QED
    BY <1>3, <1>2, <1>5, <2>10
<1>13. \/ Lined(s, q, x, y)
       \/ Lined(p, t, x, y)
       \/ \E v, w : Lined(s, t, v, w) /\ x = Append(v, e) /\ y = Append(w, e)
  BY <1>5, LinedCases
<1> QED
  BY <1>6, <1>7, <1>11, <1>12, <1>13

LEMMA EditDistanceDiffer ==
  ASSUME NEW E, NEW s \in Seq(E), NEW t \in Seq(E), NEW e \in E, NEW f \in E, e # f
  PROVE  EditDistance(Append(s, e), Append(t, f))
           = 1 + Min({EditDistance(Append(s, e), t), EditDistance(s, Append(t, f)), EditDistance(s, t)})
<1> DEFINE p == Append(s, e)
           q == Append(t, f)
           M == {EditDistance(p, t), EditDistance(s, q), EditDistance(s, t)}
           d == EditDistance(p, q)
<1>1. p \in Seq(E) /\ q \in Seq(E)
  BY AppendProperties
<1>2. /\ d \in Nat /\ EditDistance(p, t) \in Nat
      /\ EditDistance(s, q) \in Nat /\ EditDistance(s, t) \in Nat
  <2> HIDE DEF p, q
  <2> QED
    BY <1>1, EditDistanceIs
<1>3. /\ d <= EditDistance(p, t) + 1 /\ d <= EditDistance(s, q) + 1
      /\ d <= EditDistance(s, t) + 1
  <2>1. d <= EditDistance(s, t) + IF e = f THEN 0 ELSE 1
    BY EditDistanceMore
  <2> QED
    BY <1>2, <2>1, EditDistanceMore
<1>4. PICK x, y : Lined(p, q, x, y) /\ Cost(p, q, x, y) = d
  <2> HIDE DEF p, q
  <2> QED
    BY <1>1, EditDistanceIs
<1>5. \/ Lined(s, q, x, y)
      \/ Lined(p, t, x, y)
      \/ \E v, w : Lined(s, t, v, w) /\ x = Append(v, e) /\ y = Append(w, f)
  BY <1>4, LinedCases
<1>6. ASSUME Lined(s, q, x, y) PROVE EditDistance(s, q) + 1 <= d
  <2> HIDE DEF q
  <2>1. /\ Cost(p, q, x, y) = Cost(s, q, x, y) + 1 /\ Cost(s, q, x, y) \in Nat
        /\ EditDistance(s, q) <= Cost(s, q, x, y)
    <3>1. Cost(p, q, x, y) = Cost(s, q, x, y) + 1
      BY <1>1, <1>6, CostAppend
    <3>2. EditDistance(s, q) <= Cost(s, q, x, y)
      BY <1>1, <1>6, EditDistanceIs
    <3> QED
      BY <1>1, <1>6, <3>1, <3>2, LinedType
  <2> QED
    BY <1>2, <1>4, <2>1
<1>7. ASSUME Lined(p, t, x, y) PROVE EditDistance(p, t) + 1 <= d
  <2> HIDE DEF p
  <2>1. /\ Cost(p, q, x, y) = Cost(p, t, x, y) + 1 /\ Cost(p, t, x, y) \in Nat
        /\ EditDistance(p, t) <= Cost(p, t, x, y)
    <3>1. Cost(p, q, x, y) = Cost(p, t, x, y) + 1
      BY <1>1, <1>7, CostAppend
    <3>2. EditDistance(p, t) <= Cost(p, t, x, y)
      BY <1>1, <1>7, EditDistanceIs
    <3> QED
      BY <1>1, <1>7, <3>1, <3>2, LinedType
  <2> QED
    BY <1>2, <1>4, <2>1
<1>8. ASSUME \E v, w : Lined(s, t, v, w) /\ x = Append(v, e) /\ y = Append(w, f)
      PROVE  EditDistance(s, t) + 1 <= d
  <2>1. PICK v, w : Lined(s, t, v, w) /\ x = Append(v, e) /\ y = Append(w, f)
    BY <1>8
  <2>2. Cost(p, q, x, y) = Cost(s, t, v, w) + IF e = f THEN 0 ELSE 1
    BY <2>1, CostAppend
  <2>3. EditDistance(s, t) <= Cost(s, t, v, w) /\ Cost(s, t, v, w) \in Nat
    BY <2>1, LinedType, EditDistanceIs
  <2> QED
    BY <1>2, <1>4, <2>2, <2>3
<1>9. \E m \in M : m + 1 <= d
  BY <1>5, <1>6, <1>7, <1>8
<1>10. M \in SUBSET Nat /\ M # {} /\ \A m \in M : d <= m + 1
  BY <1>2, <1>3
<1> HIDE DEF M, d
<1>11. Min(M) \in M /\ \A m \in M : Min(M) <= m
  BY <1>10, MinIsLeast
<1>12. d = 1 + Min(M)
  <2>1. d \in Nat
    BY <1>2 DEF d
  <2>2. Min(M) \in Nat /\ d <= Min(M) + 1
    BY <1>10, <1>11
  <2>3. PICK m \in M : m + 1 <= d
    BY <1>9
  <2>4. Min(M) <= m /\ m \in Nat
    BY <1>10, <1>11, <2>3
  <2> QED
    BY <2>1, <2>2, <2>3, <2>4
<1> QED
  BY <1>12 DEF d, M, p, q

----------------------------------------------------------------------------
(* The table of levenshtein_distance. *)

EditCells(s, t) ==
  [c \in Cells(s, t) |-> EditDistance(SubSeq(s, 1, c[1]), SubSeq(t, 1, c[2]))]

EditTurn(s, t, dp) ==
  [c \in Cells(s, t) |->
     IF c[1] = 0 THEN c[2]
     ELSE IF c[2] = 0 THEN c[1]
     ELSE IF s[c[1]] = t[c[2]] THEN dp[<<c[1] - 1, c[2] - 1>>]
     ELSE 1 + Min({dp[<<c[1], c[2] - 1>>], dp[<<c[1] - 1, c[2]>>], dp[<<c[1] - 1, c[2] - 1>>]})]

LEMMA EditCellsTurn ==
  ASSUME NEW E, NEW s \in Seq(E), NEW t \in Seq(E)
  PROVE  EditTurn(s, t, EditCells(s, t)) = EditCells(s, t)
<1>a. \A r \in Seq(E) :
        /\ SubSeq(r, 1, 0) = <<>>
        /\ \A k \in 0 .. Len(r) : SubSeq(r, 1, k) \in Seq(E) /\ Len(SubSeq(r, 1, k)) = k
        /\ \A k \in 1 .. Len(r) : r[k] \in E /\ SubSeq(r, 1, k) = Append(SubSeq(r, 1, k - 1), r[k])
  BY FirstElements
<1> DEFINE g == EditCells(s, t)
           P(i) == SubSeq(s, 1, i)
           Q(j) == SubSeq(t, 1, j)
<1>1. \A c \in Cells(s, t) : g[c] = EditDistance(P(c[1]), Q(c[2]))
  BY DEF EditCells
<1>2. \A i \in 0 .. Len(s) : \A j \in 0 .. Len(t) : g[<<i, j>>] = EditDistance(P(i), Q(j))
  <2> SUFFICES ASSUME NEW i \in 0 .. Len(s), NEW j \in 0 .. Len(t)
               PROVE  g[<<i, j>>] = EditDistance(P(i), Q(j))
    OBVIOUS
  <2>1. <<i, j>> \in Cells(s, t) /\ <<i, j>>[1] = i /\ <<i, j>>[2] = j
    BY CellsIs
  <2> HIDE DEF g, P, Q
  <2>2. g[<<i, j>>] = EditDistance(P(<<i, j>>[1]), Q(<<i, j>>[2]))
    BY <1>1, <2>1
  <2> QED
    BY <2>1, <2>2
<1>3. /\ P(0) = <<>> /\ \A i \in 0 .. Len(s) : P(i) \in Seq(E) /\ Len(P(i)) = i
      /\ \A i \in 1 .. Len(s) : s[i] \in E /\ P(i) = Append(P(i - 1), s[i])
  BY <1>a
<1>4. /\ Q(0) = <<>> /\ \A j \in 0 .. Len(t) : Q(j) \in Seq(E) /\ Len(Q(j)) = j
      /\ \A j \in 1 .. Len(t) : t[j] \in E /\ Q(j) = Append(Q(j - 1), t[j])
  BY <1>a
<1> HIDE DEF g, P, Q
<1> SUFFICES ASSUME NEW c \in Cells(s, t)
             PROVE  EditTurn(s, t, g)[c] = g[c]
  BY DEF EditTurn, EditCells, g
<1> DEFINE i == c[1]
           j == c[2]
<1>5. /\ i \in 0 .. Len(s) /\ j \in 0 .. Len(t) /\ c = <<i, j>>
      /\ i # 0 /\ j # 0 =>
              /\ i \in 1 .. Len(s) /\ j \in 1 .. Len(t)
              /\ <<i - 1, j - 1>> \in Cells(s, t)
              /\ <<i - 1, j>> \in Cells(s, t) /\ <<i, j - 1>> \in Cells(s, t)
  BY CellsIs
<1>6. EditTurn(s, t, g)[c] = IF i = 0 THEN j
                             ELSE IF j = 0 THEN i
                             ELSE IF s[i] = t[j] THEN g[<<i - 1, j - 1>>]
                             ELSE 1 + Min({g[<<i, j - 1>>], g[<<i - 1, j>>], g[<<i - 1, j - 1>>]})
  BY DEF EditTurn
<1>7. g[c] = EditDistance(P(i), Q(j))
  BY <1>1
<1> HIDE DEF i, j
<1>8. CASE i = 0 \/ j = 0
  <2>1. P(i) \in Seq(E) /\ Q(j) \in Seq(E) /\ Len(P(i)) = i /\ Len(Q(j)) = j
    BY <1>3, <1>4, <1>5
  <2>2. \A r \in Seq(E) : EditDistance(<<>>, r) = Len(r) /\ EditDistance(r, <<>>) = Len(r)
    BY EditDistanceNothing
  <2>3. CASE i = 0
    <3>1. P(i) = <<>>
      BY <1>3, <2>3
    <3> QED
      BY <1>6, <1>7, <2>1, <2>2, <2>3, <3>1
  <2>4. CASE i # 0 /\ j = 0
    <3>1. Q(j) = <<>>
      BY <1>4, <2>4
    <3> QED
      BY <1>6, <1>7, <2>1, <2>2, <2>4, <3>1
  <2> QED
    BY <1>8, <2>3, <2>4
<1>9. CASE i # 0 /\ j # 0
  <2>1. /\ i \in 1 .. Len(s) /\ j \in 1 .. Len(t) /\ i - 1 \in 0 .. Len(s) /\ j - 1 \in 0 .. Len(t)
    BY <1>5, <1>9, LenProperties
  <2>2. /\ g[<<i - 1, j - 1>>] = EditDistance(P(i - 1), Q(j - 1))
        /\ g[<<i - 1, j>>] = EditDistance(P(i - 1), Q(j))
        /\ g[<<i, j - 1>>] = EditDistance(P(i), Q(j - 1))
    BY <1>2, <1>5, <2>1
  <2>3. /\ P(i) = Append(P(i - 1), s[i]) /\ Q(j) = Append(Q(j - 1), t[j])
        /\ P(i - 1) \in Seq(E) /\ Q(j - 1) \in Seq(E) /\ s[i] \in E /\ t[j] \in E
    BY <1>3, <1>4, <2>1
  <2>4. CASE s[i] = t[j]
    <3>1. EditDistance(P(i), Q(j)) = EditDistance(P(i - 1), Q(j - 1))
      BY <2>3, <2>4, EditDistanceSame
    <3> QED
      BY <1>6, <1>7, <1>9, <2>2, <2>4, <3>1
  <2>5. CASE s[i] # t[j]
    <3>1. EditDistance(P(i), Q(j))
            = 1 + Min({EditDistance(P(i), Q(j - 1)), EditDistance(P(i - 1), Q(j)),
                       EditDistance(P(i - 1), Q(j - 1))})
      BY <2>3, <2>5, EditDistanceDiffer
    <3> QED
      BY <1>6, <1>7, <1>9, <2>2, <2>5, <3>1
  <2> QED
    BY <2>4, <2>5
<1> QED
  BY <1>8, <1>9

LEMMA EditTableIs ==
  ASSUME NEW E, NEW s \in Seq(E), NEW t \in Seq(E)
  PROVE  EditTable(s, t) = EditCells(s, t)
<1> DEFINE P(h) == h = EditTurn(s, t, h)
           dp == EditTable(s, t)
           g == EditCells(s, t)
<1>1. dp = CHOOSE h : P(h)
  BY DEF EditTable, EditTurn
<1>2. P(g)
  BY EditCellsTurn
<1> HIDE DEF P
<1>3. P(dp)
  BY <1>1, <1>2
<1> HIDE DEF dp
<1>4. g = EditTurn(s, t, g) /\ dp = EditTurn(s, t, dp)
  BY <1>2, <1>3 DEF P
<1>5. g = [c \in Cells(s, t) |-> g[c]] /\ dp = [c \in Cells(s, t) |-> dp[c]]
  BY <1>4 DEF EditTurn
<1> HIDE DEF g
<1>6. ASSUME NEW c \in Cells(s, t),
             c[1] # 0 /\ c[2] # 0 =>
              /\ dp[<<c[1] - 1, c[2] - 1>>] = g[<<c[1] - 1, c[2] - 1>>]
              /\ dp[<<c[1] - 1, c[2]>>] = g[<<c[1] - 1, c[2]>>]
              /\ dp[<<c[1], c[2] - 1>>] = g[<<c[1], c[2] - 1>>]
      PROVE  dp[c] = g[c]
  <2>1. EditTurn(s, t, dp)[c] = EditTurn(s, t, g)[c]
    BY <1>6 DEF EditTurn
  <2> QED
    BY <1>4, <2>1
<1>7. \A c \in Cells(s, t) : dp[c] = g[c]
  BY <1>6, OneTable
<1>8. dp = g
  BY <1>5, <1>7
<1> QED
  BY <1>8 DEF g, dp

LEMMA LevenshteinIs ==
  ASSUME NEW s \in Seq(Bytes), NEW t \in Seq(Bytes), s # <<>>, t # <<>>
  PROVE  levenshtein_distance(s, t) = EditDistance(Chars(s), Chars(t))
<1> DEFINE a == Chars(s)
           b == Chars(t)
<1>1. /\ utf8_split(s) = a /\ a \in Seq(Seq(Bytes))
      /\ utf8_split(t) = b /\ b \in Seq(Seq(Bytes))
  BY Utf8SplitIs
<1>2. levenshtein_distance(s, t) = EditTable(a, b)[<<Len(a), Len(b)>>]
  BY <1>1 DEF levenshtein_distance, Corner
<1> HIDE DEF a, b
<1>3. EditTable(a, b) = EditCells(a, b)
  BY <1>1, EditTableIs
<1>4. <<Len(a), Len(b)>> \in Cells(a, b)
  BY <1>1, LenProperties DEF Cells
<1>5. EditCells(a, b)[<<Len(a), Len(b)>>] = EditDistance(SubSeq(a, 1, Len(a)), SubSeq(b, 1, Len(b)))
  BY <1>4 DEF EditCells
<1>6. SubSeq(a, 1, Len(a)) = a /\ SubSeq(b, 1, Len(b)) = b
  BY <1>1, FirstElements
<1>7. levenshtein_distance(s, t) = EditDistance(a, b)
  BY <1>2, <1>3, <1>5, <1>6
<1> QED
  BY <1>7 DEF a, b

(* levenshtein_distance (main.cpp:336-363) and its ..._of_list return the  *)
(* Levenshtein distance, in characters, of two strings neither of which is *)
(* empty: the least cost over every way to line the two up.                *)
THEOREM LevenshteinIsCorrect == Spec => []LevenshteinNonEmpty
<1>1. ListInv => LevenshteinNonEmpty
  <2> SUFFICES ASSUME ListInv, NEW i \in Results("levenshtein"),
                      str1 # <<>>, str_list[i] # <<>>
               PROVE  ls[i] = EditDistance(Chars(str1), Chars(str_list[i]))
    BY DEF LevenshteinNonEmpty
  <2>1. ls[i] = Result("levenshtein", str1, str_list[i]) /\ str_list[i] \in Seq(Bytes)
    BY AnswerIs
  <2>2. ls[i] = levenshtein_distance(str1, str_list[i])
    BY <2>1 DEF Result
  <2> QED
    BY <2>1, <2>2, LevenshteinIs DEF ListInv
<1> QED
  BY <1>1, ListInvAlways, PTL

----------------------------------------------------------------------------
(* The table of lcs2: a cell is the length of the longest common suffix of *)
(* two prefixes.                                                           *)

Shared(s, t, i, j) ==
  {k \in Nat : k <= i /\ k <= j /\ \A d \in 0 .. k - 1 : s[i - d] = t[j - d]}
Lcs2Cells(s, t) == [c \in Cells(s, t) |-> Max(Shared(s, t, c[1], c[2]))]

Lcs2Turn(s, t, dp) ==
  [c \in Cells(s, t) |->
     IF c[1] = 0 \/ c[2] = 0 THEN 0
     ELSE IF s[c[1]] = t[c[2]] THEN dp[<<c[1] - 1, c[2] - 1>>] + 1 ELSE 0]

LEMMA SharedMost ==
  ASSUME NEW s, NEW t, NEW i \in Nat, NEW j \in Nat
  PROVE  /\ Max(Shared(s, t, i, j)) \in Shared(s, t, i, j)
         /\ \A k \in Shared(s, t, i, j) : k <= Max(Shared(s, t, i, j))
<1> DEFINE S == Shared(s, t, i, j)
<1>1. S \in SUBSET Nat /\ (\A k \in S : k <= i)
  BY DEF Shared
<1>2. 0 \in S
  BY DEF Shared
<1> HIDE DEF S
<1>3. Max(S) \in S /\ \A k \in S : k <= Max(S)
  BY <1>1, <1>2, MaxIsMost
<1> QED
  BY <1>3 DEF S

LEMMA SharedSame ==
  ASSUME NEW s, NEW t, NEW i \in Nat, NEW j \in Nat, i # 0, j # 0
  PROVE  Max(Shared(s, t, i, j)) = IF s[i] = t[j] THEN Max(Shared(s, t, i - 1, j - 1)) + 1 ELSE 0
<1> DEFINE S == Shared(s, t, i, j)
           T == Shared(s, t, i - 1, j - 1)
<1>1. i - 1 \in Nat /\ j - 1 \in Nat
  OBVIOUS
<1>2. \A k : k \in S <=> k \in Nat /\ k <= i /\ k <= j /\ \A d \in 0 .. k - 1 : s[i - d] = t[j - d]
  BY DEF Shared
<1>3. \A k : k \in T <=> /\ k \in Nat /\ k <= i - 1 /\ k <= j - 1
                         /\ \A d \in 0 .. k - 1 : s[i - 1 - d] = t[j - 1 - d]
  BY DEF Shared
<1>4. Max(S) \in S /\ \A k \in S : k <= Max(S)
  BY SharedMost
<1>5. Max(T) \in T /\ \A k \in T : k <= Max(T)
  BY <1>1, SharedMost
<1> DEFINE m == Max(S)
           n == Max(T)
<1> HIDE DEF S, T, m, n
<1>6. m \in S /\ n \in T /\ (\A k \in S : k <= m) /\ (\A k \in T : k <= n)
  BY <1>4, <1>5 DEF m, n
<1>7. m \in Nat /\ n \in Nat
  BY <1>2, <1>3, <1>6
<1>8. ASSUME m # 0
      PROVE  s[i] = t[j] /\ m - 1 \in T
  <2>1. 0 \in 0 .. m - 1 /\ i - 0 = i /\ j - 0 = j
    BY <1>7, <1>8
  <2>2. m <= i /\ m <= j /\ \A d \in 0 .. m - 1 : s[i - d] = t[j - d]
    BY <1>2, <1>6
  <2>3. ASSUME NEW d \in 0 .. (m - 1) - 1
        PROVE  s[i - 1 - d] = t[j - 1 - d]
    <3>1. d + 1 \in 0 .. m - 1 /\ i - (d + 1) = i - 1 - d /\ j - (d + 1) = j - 1 - d
      BY <1>7
    <3>2. s[i - (d + 1)] = t[j - (d + 1)]
      BY <2>2, <3>1
    <3> QED
      BY <3>1, <3>2
  <2>4. m - 1 \in Nat /\ m - 1 <= i - 1 /\ m - 1 <= j - 1
    BY <1>7, <1>8, <2>2
  <2>5. s[i - 0] = t[j - 0]
    BY <2>1, <2>2
  <2> QED
    BY <1>3, <2>1, <2>3, <2>4, <2>5
<1>9. ASSUME s[i] = t[j]
      PROVE  n + 1 \in S
  <2>1. n <= i - 1 /\ n <= j - 1 /\ \A d \in 0 .. n - 1 : s[i - 1 - d] = t[j - 1 - d]
    BY <1>3, <1>6
  <2>2. ASSUME NEW d \in 0 .. (n + 1) - 1
        PROVE  s[i - d] = t[j - d]
    <3>1. CASE d = 0
      <4>1. i - d = i /\ j - d = j
        BY <3>1
      <4> QED
        BY <1>9, <4>1
    <3>2. CASE d # 0
      <4>1. d - 1 \in 0 .. n - 1 /\ i - 1 - (d - 1) = i - d /\ j - 1 - (d - 1) = j - d
        BY <1>7, <3>2
      <4>2. s[i - 1 - (d - 1)] = t[j - 1 - (d - 1)]
        BY <2>1, <4>1
      <4> QED
        BY <4>1, <4>2
    <3> QED
      BY <3>1, <3>2
  <2>3. n + 1 \in Nat /\ n + 1 <= i /\ n + 1 <= j
    BY <1>7, <2>1
  <2> QED
    BY <1>2, <2>2, <2>3
<1>10. m = IF s[i] = t[j] THEN n + 1 ELSE 0
  <2>1. CASE s[i] = t[j]
    <3>1. n + 1 <= m
      BY <1>6, <1>9, <2>1
    <3>2. m - 1 <= n
      BY <1>6, <1>7, <1>8, <3>1
    <3> QED
      BY <1>7, <2>1, <3>1, <3>2
  <2>2. CASE s[i] # t[j]
    BY <1>8, <2>2
  <2> QED
    BY <2>1, <2>2
<1> QED
  BY <1>10 DEF m, n, S, T

LEMMA Lcs2CellsTurn ==
  ASSUME NEW E, NEW s \in Seq(E), NEW t \in Seq(E)
  PROVE  Lcs2Turn(s, t, Lcs2Cells(s, t)) = Lcs2Cells(s, t)
<1> DEFINE g == Lcs2Cells(s, t)
<1>1. \A c \in Cells(s, t) : g[c] = Max(Shared(s, t, c[1], c[2]))
  BY DEF Lcs2Cells
<1> HIDE DEF g
<1> SUFFICES ASSUME NEW c \in Cells(s, t)
             PROVE  Lcs2Turn(s, t, g)[c] = g[c]
  BY DEF Lcs2Turn, Lcs2Cells, g
<1> DEFINE i == c[1]
           j == c[2]
<1>2. /\ i \in Nat /\ j \in Nat
      /\ i # 0 /\ j # 0 => <<i - 1, j - 1>> \in Cells(s, t)
  BY CellsIs
<1>3. Lcs2Turn(s, t, g)[c] = IF i = 0 \/ j = 0 THEN 0
                             ELSE IF s[i] = t[j] THEN g[<<i - 1, j - 1>>] + 1 ELSE 0
  BY DEF Lcs2Turn
<1>4. g[c] = Max(Shared(s, t, i, j))
  BY <1>1
<1> HIDE DEF i, j
<1>5. CASE i = 0 \/ j = 0
  <2>1. Max(Shared(s, t, i, j)) = 0
    <3>1. Max(Shared(s, t, i, j)) \in Shared(s, t, i, j)
      BY <1>2, SharedMost
    <3> QED
      BY <1>2, <1>5, <3>1 DEF Shared
  <2> QED
    BY <1>3, <1>4, <1>5, <2>1
<1>6. CASE i # 0 /\ j # 0
  <2>1. g[<<i - 1, j - 1>>] = Max(Shared(s, t, i - 1, j - 1))
    <3> DEFINE d == <<i - 1, j - 1>>
    <3>1. d \in Cells(s, t) /\ d[1] = i - 1 /\ d[2] = j - 1
      BY <1>2, <1>6
    <3> HIDE DEF d
    <3>2. g[d] = Max(Shared(s, t, i - 1, j - 1))
      BY <1>1, <3>1
    <3> QED
      BY <3>2 DEF d
  <2>2. Max(Shared(s, t, i, j)) = IF s[i] = t[j] THEN Max(Shared(s, t, i - 1, j - 1)) + 1 ELSE 0
    BY <1>2, <1>6, SharedSame
  <2> QED
    BY <1>3, <1>4, <1>6, <2>1, <2>2
<1> QED
  BY <1>5, <1>6

LEMMA Lcs2TableIs ==
  ASSUME NEW E, NEW s \in Seq(E), NEW t \in Seq(E)
  PROVE  Lcs2Table(s, t) = Lcs2Cells(s, t)
<1> DEFINE P(h) == h = Lcs2Turn(s, t, h)
           dp == Lcs2Table(s, t)
           g == Lcs2Cells(s, t)
<1>1. dp = CHOOSE h : P(h)
  BY DEF Lcs2Table, Lcs2Turn
<1>2. P(g)
  BY Lcs2CellsTurn
<1> HIDE DEF P
<1>3. P(dp)
  BY <1>1, <1>2
<1> HIDE DEF dp
<1>4. g = Lcs2Turn(s, t, g) /\ dp = Lcs2Turn(s, t, dp)
  BY <1>2, <1>3 DEF P
<1>5. g = [c \in Cells(s, t) |-> g[c]] /\ dp = [c \in Cells(s, t) |-> dp[c]]
  BY <1>4 DEF Lcs2Turn
<1> HIDE DEF g
<1>6. ASSUME NEW c \in Cells(s, t),
             c[1] # 0 /\ c[2] # 0 =>
              /\ dp[<<c[1] - 1, c[2] - 1>>] = g[<<c[1] - 1, c[2] - 1>>]
              /\ dp[<<c[1] - 1, c[2]>>] = g[<<c[1] - 1, c[2]>>]
              /\ dp[<<c[1], c[2] - 1>>] = g[<<c[1], c[2] - 1>>]
      PROVE  dp[c] = g[c]
  <2>1. Lcs2Turn(s, t, dp)[c] = Lcs2Turn(s, t, g)[c]
    BY <1>6 DEF Lcs2Turn
  <2> QED
    BY <1>4, <2>1
<1>7. \A c \in Cells(s, t) : dp[c] = g[c]
  BY <1>6, OneTable
<1>8. dp = g
  BY <1>5, <1>7
<1> QED
  BY <1>8 DEF g, dp

LEMMA Part ==
  ASSUME NEW E, NEW s \in Seq(E), NEW a \in 0 .. Len(s), NEW b \in 0 .. Len(s)
  PROVE  /\ SubSeq(s, a + 1, b) \in SubSeqs(s) /\ SubSeq(s, a + 1, b) \in Seq(E)
         /\ Len(SubSeq(s, a + 1, b)) = IF a < b THEN b - a ELSE 0
         /\ \A k \in 1 .. b - a : SubSeq(s, a + 1, b)[k] = s[a + k]
<1>1. /\ Len(s) \in Nat /\ a \in Nat /\ b \in Nat /\ b <= Len(s)
      /\ \A k \in 1 .. Len(s) : s[k] \in E
  BY LenProperties, ElementOfSeq
<1> DEFINE m == a + 1
<1>2. m \in Int /\ b \in Int /\ \A k \in m .. b : k \in 1 .. Len(s)
  BY <1>1
<1>3. /\ b - m + 1 = b - a /\ (m <= b <=> a < b)
      /\ \A k \in 1 .. b - a : m + k - 1 = a + k
  BY <1>1
<1> HIDE DEF m
<1>4. /\ SubSeq(s, m, b) \in Seq(E)
      /\ Len(SubSeq(s, m, b)) = IF m <= b THEN b - m + 1 ELSE 0
      /\ \A k \in 1 .. b - m + 1 : SubSeq(s, m, b)[k] = s[m + k - 1]
  BY <1>1, <1>2, SubSeqProperties
<1>5. SubSeq(s, a + 1, b) \in SubSeqs(s)
  BY DEF SubSeqs
<1> QED
  BY <1>3, <1>4, <1>5 DEF m

(* A common substring is a common suffix of two prefixes, and back.        *)
LEMMA SharedIsCommon ==
  ASSUME NEW E, NEW s \in Seq(E), NEW t \in Seq(E), NEW i \in 0 .. Len(s), NEW j \in 0 .. Len(t),
         NEW k \in Shared(s, t, i, j)
  PROVE  \E x \in SubSeqs(s) \cap SubSeqs(t) : Len(x) = k
<1>1. Len(s) \in Nat /\ Len(t) \in Nat
  BY LenProperties
<1>2. /\ k \in Nat /\ k <= i /\ k <= j /\ i \in Nat /\ j \in Nat
      /\ \A d \in 0 .. k - 1 : s[i - d] = t[j - d]
  BY <1>1 DEF Shared
<1> DEFINE a == i - k
           p == j - k
           x == SubSeq(s, a + 1, i)
           y == SubSeq(t, p + 1, j)
<1>3. /\ a \in 0 .. Len(s) /\ p \in 0 .. Len(t) /\ i - a = k /\ j - p = k
      /\ (IF a < i THEN i - a ELSE 0) = k /\ (IF p < j THEN j - p ELSE 0) = k
      /\ \A d \in 1 .. k : k - d \in 0 .. k - 1 /\ a + d = i - (k - d) /\ p + d = j - (k - d)
  BY <1>1, <1>2
<1> HIDE DEF a, p
<1>4. /\ x \in SubSeqs(s) /\ x \in Seq(E) /\ Len(x) = k
      /\ \A d \in 1 .. k : x[d] = s[a + d]
  BY <1>3, Part
<1>5. /\ y \in SubSeqs(t) /\ y \in Seq(E) /\ Len(y) = k
      /\ \A d \in 1 .. k : y[d] = t[p + d]
  BY <1>3, Part
<1> HIDE DEF x, y
<1>6. \A d \in 1 .. k : x[d] = y[d]
  BY <1>2, <1>3, <1>4, <1>5
<1>7. x = y
  BY <1>4, <1>5, <1>6, SeqEqual
<1> QED
  BY <1>4, <1>5, <1>7

LEMMA CommonIsShared ==
  ASSUME NEW E, NEW s \in Seq(E), NEW t \in Seq(E), NEW x \in SubSeqs(s) \cap SubSeqs(t)
  PROVE  \E i \in 0 .. Len(s) : \E j \in 0 .. Len(t) : Len(x) \in Shared(s, t, i, j)
<1>1. Len(s) \in Nat /\ Len(t) \in Nat
  BY LenProperties
<1>2. PICK a \in 0 .. Len(s), b \in 0 .. Len(s) : x = SubSeq(s, a + 1, b)
  BY DEF SubSeqs
<1>3. PICK p \in 0 .. Len(t), q \in 0 .. Len(t) : x = SubSeq(t, p + 1, q)
  BY DEF SubSeqs
<1>4. /\ Len(x) = IF a < b THEN b - a ELSE 0
      /\ \A k \in 1 .. b - a : x[k] = s[a + k]
  BY <1>2, Part
<1>5. /\ Len(x) = IF p < q THEN q - p ELSE 0
      /\ \A k \in 1 .. q - p : x[k] = t[p + k]
  BY <1>3, Part
<1> DEFINE n == Len(x)
<1> HIDE DEF n
<1>6. a \in Nat /\ b \in Nat /\ p \in Nat /\ q \in Nat
  BY <1>1
<1>7. CASE n = 0
  <2>1. 0 \in 0 .. Len(s) /\ 0 \in 0 .. Len(t) /\ 0 \in Shared(s, t, 0, 0)
    BY <1>1 DEF Shared
  <2> QED
    BY <1>7, <2>1 DEF n
<1>8. CASE n # 0
  <2>1. n = b - a /\ n = q - p /\ n \in Nat /\ n <= b /\ n <= q
    BY <1>4, <1>5, <1>6, <1>8 DEF n
  <2>2. ASSUME NEW d \in 0 .. n - 1
        PROVE  s[b - d] = t[q - d]
    <3>1. n - d \in 1 .. n /\ a + (n - d) = b - d /\ p + (n - d) = q - d
      BY <1>6, <2>1
    <3>2. x[n - d] = s[a + (n - d)] /\ x[n - d] = t[p + (n - d)]
      BY <1>4, <1>5, <2>1, <3>1
    <3> QED
      BY <3>1, <3>2
  <2>3. n \in Shared(s, t, b, q)
    BY <2>1, <2>2 DEF Shared
  <2> QED
    BY <2>3 DEF n
<1> QED
  BY <1>7, <1>8

LEMMA LargestCell ==
  ASSUME NEW E, NEW s \in Seq(E), NEW t \in Seq(E)
  PROVE  Max({Lcs2Cells(s, t)[c] : c \in DOMAIN Lcs2Cells(s, t)}) = Lcs2Length(s, t)
<1> DEFINE g == Lcs2Cells(s, t)
           G == {g[c] : c \in DOMAIN g}
           A == {Len(x) : x \in SubSeqs(s) \cap SubSeqs(t)}
<1>1. Len(s) \in Nat /\ Len(t) \in Nat
  BY LenProperties
<1>2. DOMAIN g = Cells(s, t) /\ \A c \in Cells(s, t) : g[c] = Max(Shared(s, t, c[1], c[2]))
  BY DEF Lcs2Cells
<1>3. Lcs2Length(s, t) = Max(A)
  BY DEF Lcs2Length
<1>4. /\ \A i \in 0 .. Len(s) : \A j \in 0 .. Len(t) :
           /\ Max(Shared(s, t, i, j)) \in Shared(s, t, i, j)
           /\ \A k \in Shared(s, t, i, j) : k \in Nat /\ k <= Max(Shared(s, t, i, j)) /\ k <= Len(s)
  <2> SUFFICES ASSUME NEW i \in 0 .. Len(s), NEW j \in 0 .. Len(t)
               PROVE  /\ Max(Shared(s, t, i, j)) \in Shared(s, t, i, j)
                      /\ \A k \in Shared(s, t, i, j) :
                           k \in Nat /\ k <= Max(Shared(s, t, i, j)) /\ k <= Len(s)
    OBVIOUS
  <2>1. i \in Nat /\ j \in Nat /\ i <= Len(s)
    BY <1>1
  <2>2. \A k \in Shared(s, t, i, j) : k \in Nat /\ k <= Len(s)
    BY <1>1, <2>1 DEF Shared
  <2> QED
    BY <2>1, <2>2, SharedMost
<1>5. \A n : n \in G <=> \E i \in 0 .. Len(s) : \E j \in 0 .. Len(t) : n = Max(Shared(s, t, i, j))
  <2>1. \A c \in Cells(s, t) : c[1] \in 0 .. Len(s) /\ c[2] \in 0 .. Len(t)
    BY CellsIs
  <2>2. \A i \in 0 .. Len(s) : \A j \in 0 .. Len(t) :
          <<i, j>> \in Cells(s, t) /\ <<i, j>>[1] = i /\ <<i, j>>[2] = j
    BY CellsIs
  <2> HIDE DEF g
  <2>3. ASSUME NEW n \in G
        PROVE  \E i \in 0 .. Len(s) : \E j \in 0 .. Len(t) : n = Max(Shared(s, t, i, j))
    BY <1>2, <2>1
  <2>4. ASSUME NEW i \in 0 .. Len(s), NEW j \in 0 .. Len(t)
        PROVE  Max(Shared(s, t, i, j)) \in G
    <3> DEFINE c == <<i, j>>
    <3>1. c \in Cells(s, t) /\ c[1] = i /\ c[2] = j
      BY <2>2
    <3> HIDE DEF c
    <3>2. g[c] = Max(Shared(s, t, i, j)) /\ g[c] \in G
      BY <1>2, <3>1
    <3> QED
      BY <3>2
  <2> QED
    BY <2>3, <2>4
<1>6. \A n \in G : n \in Nat /\ n <= Len(s) /\ n \in A
  <2> SUFFICES ASSUME NEW n \in G PROVE n \in Nat /\ n <= Len(s) /\ n \in A
    OBVIOUS
  <2>1. PICK i \in 0 .. Len(s), j \in 0 .. Len(t) : n = Max(Shared(s, t, i, j))
    BY <1>5
  <2>2. n \in Shared(s, t, i, j)
    BY <1>4, <2>1
  <2>3. PICK x \in SubSeqs(s) \cap SubSeqs(t) : Len(x) = n
    BY <2>2, SharedIsCommon
  <2> QED
    BY <1>4, <2>2, <2>3
<1>7. \A n \in A : n \in Nat /\ \E k \in G : n <= k
  <2> SUFFICES ASSUME NEW x \in SubSeqs(s) \cap SubSeqs(t)
               PROVE  Len(x) \in Nat /\ \E k \in G : Len(x) <= k
    OBVIOUS
  <2>1. PICK i \in 0 .. Len(s), j \in 0 .. Len(t) : Len(x) \in Shared(s, t, i, j)
    BY CommonIsShared
  <2>2. Len(x) \in Nat /\ Len(x) <= Max(Shared(s, t, i, j))
    BY <1>4, <2>1
  <2>3. Max(Shared(s, t, i, j)) \in G
    BY <1>5
  <2> QED
    BY <2>2, <2>3
<1>8. G # {}
  <2>1. 0 \in 0 .. Len(s) /\ 0 \in 0 .. Len(t)
    BY <1>1
  <2> QED
    BY <1>5, <2>1
<1> HIDE DEF G, A
<1>9. Max(G) \in G /\ \A n \in G : n <= Max(G)
  <2>1. G \in SUBSET Nat /\ \A n \in G : n <= Len(s)
    BY <1>6
  <2> QED
    BY <1>1, <1>8, <2>1, MaxIsMost
<1> DEFINE m == Max(G)
<1> HIDE DEF m
<1>10. m \in G /\ \A n \in G : n <= m
  BY <1>9 DEF m
<1>11. m \in A /\ A \in SUBSET Nat
  BY <1>6, <1>7, <1>10
<1>12. \A n \in A : n <= m
  <2> SUFFICES ASSUME NEW n \in A PROVE n <= m
    OBVIOUS
  <2>1. PICK k \in G : n <= k
    BY <1>7
  <2>2. n \in Nat /\ k \in Nat /\ m \in Nat /\ k <= m
    BY <1>6, <1>7, <1>10
  <2> QED
    BY <2>1, <2>2
<1>13. Max(A) = m
  BY <1>11, <1>12, MaxIs
<1> QED
  BY <1>3, <1>13 DEF m, G

LEMMA NothingCommon ==
  ASSUME NEW E, NEW s \in Seq(E)
  PROVE  Lcs2Length(<<>>, s) = 0 /\ Lcs2Length(s, <<>>) = 0
<1>1. SubSeqs(<<>>) = {<<>>}
  <2> DEFINE z == <<>>
             I == 0 .. Len(z)
  <2>1. I = {0} /\ SubSeq(z, 0 + 1, 0) = z
    BY EmptySeq, SubSeqEmpty
  <2>2. SubSeqs(z) = {SubSeq(z, i + 1, j) : i, j \in I}
    BY DEF SubSeqs
  <2> HIDE DEF z, I
  <2>3. \A x : x \in SubSeqs(z) <=> \E i, j \in I : x = SubSeq(z, i + 1, j)
    BY <2>2
  <2>4. \A x : x \in SubSeqs(z) <=> x = SubSeq(z, 0 + 1, 0)
    BY <2>1, <2>3, Zenon
  <2>5. SubSeqs(z) = {z}
    BY <2>1, <2>4
  <2> QED
    BY <2>5 DEF z
<1>2. <<>> \in SubSeqs(s)
  <2>1. 0 \in 0 .. Len(s) /\ SubSeq(s, 0 + 1, 0) = <<>>
    BY LenProperties, SubSeqEmpty
  <2> QED
    BY <2>1 DEF SubSeqs
<1> DEFINE Z == {Len(x) : x \in {<<>>}}
<1>3. Z = {0}
  BY EmptySeq
<1>4. Max({0}) = 0
  BY MaxIs
<1>5. SubSeqs(<<>>) \cap SubSeqs(s) = {<<>>} /\ SubSeqs(s) \cap SubSeqs(<<>>) = {<<>>}
  BY <1>1, <1>2
<1> QED
  BY <1>3, <1>4, <1>5 DEF Lcs2Length

LEMMA Lcs2Is ==
  ASSUME NEW s \in Seq(Bytes), NEW t \in Seq(Bytes)
  PROVE  lcs2_length_(s, t) = Lcs2Length(Chars(s), Chars(t))
<1> DEFINE a == Chars(s)
           b == Chars(t)
<1>1. /\ utf8_split(s) = a /\ a \in Seq(Seq(Bytes))
      /\ utf8_split(t) = b /\ b \in Seq(Seq(Bytes))
  BY Utf8SplitIs
<1>2. CASE s = <<>> \/ t = <<>>
  <2>1. Lcs2Length(a, b) = 0
    <3>1. a = <<>> \/ b = <<>>
      BY <1>2, CharsOfNothing
    <3> HIDE DEF a, b
    <3> QED
      BY <1>1, <3>1, NothingCommon
  <2> QED
    BY <1>2, <2>1 DEF lcs2_length_
<1>3. CASE ~ (s = <<>> \/ t = <<>>)
  <2>1. lcs2_length_(s, t) = Max({Lcs2Table(a, b)[c] : c \in DOMAIN Lcs2Table(a, b)})
    BY <1>1, <1>3 DEF lcs2_length_
  <2> HIDE DEF a, b
  <2>2. Lcs2Table(a, b) = Lcs2Cells(a, b)
    BY <1>1, Lcs2TableIs
  <2>3. Max({Lcs2Cells(a, b)[c] : c \in DOMAIN Lcs2Cells(a, b)}) = Lcs2Length(a, b)
    BY <1>1, LargestCell
  <2>4. lcs2_length_(s, t) = Lcs2Length(a, b)
    BY <2>1, <2>2, <2>3
  <2> QED
    BY <2>4 DEF a, b
<1> QED
  BY <1>2, <1>3

(* lcs2 and lcs2_of_list (main.cpp:263-294, 324) return the length, in     *)
(* characters, of a longest common substring.                              *)
THEOREM Lcs2IsCorrect == Spec => []Lcs2Correct
<1>1. ListInv => Lcs2Correct
  <2> SUFFICES ASSUME ListInv, NEW i \in Results("lcs2")
               PROVE  ls[i] = Lcs2Length(Chars(str1), Chars(str_list[i]))
    BY DEF Lcs2Correct
  <2>1. ls[i] = Result("lcs2", str1, str_list[i]) /\ str_list[i] \in Seq(Bytes)
    BY AnswerIs
  <2>2. ls[i] = lcs2_length_(str1, str_list[i])
    BY <2>1 DEF Result
  <2> QED
    BY <2>1, <2>2, Lcs2Is DEF ListInv
<1> QED
  BY <1>1, ListInvAlways, PTL

(***************************************************************************)
(* lcs_lens: the entry i of the last row is the answer for x and the first *)
(* i elements of y.                                                        *)
(***************************************************************************)

(* A row filled from left to right is determined by how it is filled. *)
LEMMA OneRow ==
  ASSUME NEW n \in Nat, NEW T, 0 \in T, \A i \in 1 .. n : i - 1 \in T => i \in T
  PROVE  0 .. n \subseteq T
<1> DEFINE S == {i \in Nat : i <= n => i \in T}
<1>1. 0 \in S
  OBVIOUS
<1>2. \A i \in Nat : i \in S => i + 1 \in S
  <2> SUFFICES ASSUME NEW i \in Nat, i \in S, i + 1 <= n PROVE i + 1 \in T
    OBVIOUS
  <2>1. i + 1 \in 1 .. n /\ (i + 1) - 1 = i /\ i \in T
    OBVIOUS
  <2> QED
    BY <2>1
<1> HIDE DEF S
<1>3. Nat \subseteq S
  BY <1>1, <1>2, Induction
<1> QED
  BY <1>3 DEF S

Lens(x, y) == [i \in 0 .. Len(y) |-> LcsLength(x, SubSeq(y, 1, i))]

RowTurn(prev, e, y, curr) ==
  [i \in 0 .. Len(y) |->
     IF i = 0 THEN 0
     ELSE IF e = y[i] THEN prev[i - 1] + 1
     ELSE Larger(curr[i - 1], prev[i])]

LEMMA LensTurn ==
  ASSUME NEW E, NEW x \in Seq(E), NEW e \in E, NEW y \in Seq(E)
  PROVE  RowTurn(Lens(x, y), e, y, Lens(Append(x, e), y)) = Lens(Append(x, e), y)
<1> DEFINE p == Append(x, e)
           g == Lens(p, y)
           f == Lens(x, y)
           Q(i) == SubSeq(y, 1, i)
           n == Len(y)
<1>1. /\ n \in Nat /\ Q(0) = <<>> /\ \A i \in 0 .. n : Q(i) \in Seq(E)
      /\ \A i \in 1 .. n : y[i] \in E /\ Q(i) = Append(Q(i - 1), y[i])
  BY FirstElements
<1>2. p \in Seq(E)
  BY AppendProperties
<1>3. \A i \in 0 .. n : g[i] = LcsLength(p, Q(i)) /\ f[i] = LcsLength(x, Q(i))
  BY DEF Lens
<1> HIDE DEF f, g, Q, n
<1> SUFFICES ASSUME NEW i \in 0 .. n PROVE RowTurn(f, e, y, g)[i] = g[i]
  BY DEF RowTurn, Lens, g, f, n
<1>4. RowTurn(f, e, y, g)[i] = IF i = 0 THEN 0
                               ELSE IF e = y[i] THEN f[i - 1] + 1
                               ELSE Larger(g[i - 1], f[i])
  BY DEF RowTurn, n
<1>5. CASE i = 0
  BY <1>1, <1>2, <1>3, <1>4, <1>5, LcsLengthNothing
<1>6. CASE i # 0
  <2>1. i \in 1 .. n /\ i - 1 \in 0 .. n
    BY <1>1, <1>6
  <2>2. /\ Q(i) = Append(Q(i - 1), y[i]) /\ Q(i - 1) \in Seq(E) /\ Q(i) \in Seq(E) /\ y[i] \in E
    BY <1>1, <2>1
  <2>3. /\ g[i] = LcsLength(p, Q(i)) /\ f[i] = LcsLength(x, Q(i))
        /\ g[i - 1] = LcsLength(p, Q(i - 1)) /\ f[i - 1] = LcsLength(x, Q(i - 1))
    BY <1>3, <2>1
  <2>4. CASE e = y[i]
    <3>1. LcsLength(p, Q(i)) = LcsLength(x, Q(i - 1)) + 1
      BY <2>2, <2>4, LcsLengthSame
    <3> QED
      BY <1>4, <1>6, <2>3, <2>4, <3>1
  <2>5. CASE e # y[i]
    <3>1. LcsLength(p, Q(i)) = Larger(LcsLength(x, Q(i)), LcsLength(p, Q(i - 1)))
      BY <2>2, <2>5, LcsLengthDiffer DEF Larger
    <3>2. LcsLength(x, Q(i)) \in Nat /\ LcsLength(p, Q(i - 1)) \in Nat
      <4> HIDE DEF p
      <4> QED
        BY <1>2, <2>2, LcsLengthIs
    <3>3. \A a, b \in Nat : Larger(a, b) = Larger(b, a)
      BY DEF Larger
    <3> QED
      BY <1>4, <1>6, <2>3, <2>5, <3>1, <3>2, <3>3
  <2> QED
    BY <2>4, <2>5
<1> QED
  BY <1>5, <1>6

LEMMA NextRowIs ==
  ASSUME NEW E, NEW x \in Seq(E), NEW e \in E, NEW y \in Seq(E)
  PROVE  NextRow(Lens(x, y), e, y) = Lens(Append(x, e), y)
<1> DEFINE prev == Lens(x, y)
           g == Lens(Append(x, e), y)
           P(h) == h = RowTurn(prev, e, y, h)
           curr == NextRow(prev, e, y)
           n == Len(y)
<1>1. curr = CHOOSE h : P(h)
  <2> HIDE DEF prev
  <2> QED
    BY DEF NextRow, RowTurn
<1>2. P(g)
  BY LensTurn
<1> HIDE DEF P
<1>3. P(curr)
  BY <1>1, <1>2
<1> HIDE DEF curr, g, prev
<1>4. g = RowTurn(prev, e, y, g) /\ curr = RowTurn(prev, e, y, curr) /\ n \in Nat
  BY <1>2, <1>3, LenProperties DEF P
<1>5. g = [i \in 0 .. n |-> g[i]] /\ curr = [i \in 0 .. n |-> curr[i]]
  BY <1>4 DEF RowTurn
<1>6. ASSUME NEW i \in 0 .. n, i # 0 => curr[i - 1] = g[i - 1]
      PROVE  curr[i] = g[i]
  <2>1. RowTurn(prev, e, y, curr)[i] = RowTurn(prev, e, y, g)[i]
    BY <1>6 DEF RowTurn
  <2> QED
    BY <1>4, <2>1
<1> HIDE DEF n
<1> DEFINE T == {i \in 0 .. n : curr[i] = g[i]}
<1>7. n \in Nat /\ 0 \in T /\ \A i \in 1 .. n : i - 1 \in T => i \in T
  <2>1. 0 \in 0 .. n /\ n \in Nat /\ \A i \in 1 .. n : i \in 0 .. n /\ i # 0
    BY <1>4
  <2> QED
    BY <1>6, <2>1
<1> HIDE DEF T
<1>8. 0 .. n \subseteq T
  BY <1>7, OneRow
<1>9. curr = g
  BY <1>5, <1>8 DEF T
<1> QED
  BY <1>9 DEF curr, g, prev

RowsTurn(x, y, row) ==
  [k \in 0 .. Len(x) |->
     IF k = 0 THEN [i \in 0 .. Len(y) |-> 0] ELSE NextRow(row[k - 1], x[k], y)]

LEMMA LensIs ==
  ASSUME NEW E, NEW x \in Seq(E), NEW y \in Seq(E)
  PROVE  lcs_lens(x, y) = Lens(x, y)
<1> DEFINE m == Len(x)
           g == [k \in 0 .. m |-> Lens(SubSeq(x, 1, k), y)]
           P(h) == h = RowsTurn(x, y, h)
           row == CHOOSE h : P(h)
<1>1. lcs_lens(x, y) = row[m]
  BY DEF lcs_lens, RowsTurn
<1>2. /\ m \in Nat /\ SubSeq(x, 1, 0) = <<>> /\ SubSeq(x, 1, m) = x
      /\ \A k \in 0 .. m : SubSeq(x, 1, k) \in Seq(E)
      /\ \A k \in 1 .. m : x[k] \in E /\ SubSeq(x, 1, k) = Append(SubSeq(x, 1, k - 1), x[k])
  BY FirstElements
<1>3. P(g)
  <2> SUFFICES ASSUME NEW k \in 0 .. m PROVE RowsTurn(x, y, g)[k] = g[k]
    BY DEF RowsTurn
  <2>1. g[k] = Lens(SubSeq(x, 1, k), y) /\ \A j \in 0 .. m : g[j] = Lens(SubSeq(x, 1, j), y)
    OBVIOUS
  <2> HIDE DEF g
  <2>2. RowsTurn(x, y, g)[k] = IF k = 0 THEN [i \in 0 .. Len(y) |-> 0] ELSE NextRow(g[k - 1], x[k], y)
    BY DEF RowsTurn
  <2>3. CASE k = 0
    <3>1. \A i \in 0 .. Len(y) : LcsLength(<<>>, SubSeq(y, 1, i)) = 0
      BY FirstElements, LcsLengthNothing
    <3>2. Lens(<<>>, y) = [i \in 0 .. Len(y) |-> 0]
      BY <3>1 DEF Lens
    <3> QED
      BY <1>2, <2>1, <2>2, <2>3, <3>2
  <2>4. CASE k # 0
    <3>1. k \in 1 .. m /\ k - 1 \in 0 .. m
      BY <1>2, <2>4
    <3>2. g[k - 1] = Lens(SubSeq(x, 1, k - 1), y) /\ SubSeq(x, 1, k - 1) \in Seq(E) /\ x[k] \in E
          /\ SubSeq(x, 1, k) = Append(SubSeq(x, 1, k - 1), x[k])
      BY <1>2, <2>1, <3>1
    <3>3. NextRow(g[k - 1], x[k], y) = Lens(Append(SubSeq(x, 1, k - 1), x[k]), y)
      BY <3>2, NextRowIs
    <3> QED
      BY <2>1, <2>2, <2>4, <3>2, <3>3
  <2> QED
    BY <2>3, <2>4
<1> HIDE DEF P
<1>4. P(row)
  BY <1>3
<1> HIDE DEF row
<1>5. g = RowsTurn(x, y, g) /\ row = RowsTurn(x, y, row)
  BY <1>3, <1>4 DEF P
<1>6. g[m] = Lens(x, y) /\ m \in 0 .. m
  <2>1. m \in 0 .. m
    BY <1>2
  <2>2. g[m] = Lens(SubSeq(x, 1, m), y)
    BY <2>1
  <2> QED
    BY <1>2, <2>1, <2>2
<1> HIDE DEF g
<1>7. ASSUME NEW k \in 0 .. m, k # 0 => row[k - 1] = g[k - 1]
      PROVE  row[k] = g[k]
  <2>1. RowsTurn(x, y, row)[k] = RowsTurn(x, y, g)[k]
    BY <1>7 DEF RowsTurn
  <2> QED
    BY <1>5, <2>1
<1> HIDE DEF m
<1> DEFINE T == {k \in 0 .. m : row[k] = g[k]}
<1>8. m \in Nat /\ 0 \in T /\ \A k \in 1 .. m : k - 1 \in T => k \in T
  <2>1. 0 \in 0 .. m /\ m \in Nat /\ \A k \in 1 .. m : k \in 0 .. m /\ k # 0
    BY <1>2
  <2> QED
    BY <1>7, <2>1
<1> HIDE DEF T
<1>9. 0 .. m \subseteq T
  BY <1>8, OneRow
<1> QED
  BY <1>1, <1>6, <1>9 DEF T
(* The cut SplitOf chooses is one of those.                                *)
LEMMA SplitOfIs ==
  ASSUME NEW E, NEW s \in Seq(E), NEW t \in Seq(E), NEW y \in Seq(E)
  PROVE  /\ SplitOf(s, t, y) \in 0 .. Len(y)
         /\ LcsLength(s \o t, y)
              = LcsLength(s, Slice(y, 0, SplitOf(s, t, y)))
                + LcsLength(t, Slice(y, SplitOf(s, t, y), Len(y)))
<1> DEFINE n == Len(y)
           ll_b == lcs_lens(s, y)
           ll_e == lcs_lens(Reverse(t), Reverse(y))
           both == [i \in 0 .. n |-> ll_b[i] + ll_e[n - i]]
           D == {i \in 0 .. n : \A j \in 0 .. n : both[j] <= both[i]}
           Sum(i) == LcsLength(s, Slice(y, 0, i)) + LcsLength(t, Slice(y, i, n))
           all == LcsLength(s \o t, y)
<1>1. SplitOf(s, t, y) = Min(D)
  <2> HIDE DEF ll_b, ll_e, n
  <2>1. DOMAIN both = 0 .. n
    OBVIOUS
  <2> HIDE DEF both
  <2>2. D = {i \in DOMAIN both : \A j \in DOMAIN both : both[j] <= both[i]}
    BY <2>1
  <2>3. SplitOf(s, t, y) = Min({i \in DOMAIN both : \A j \in DOMAIN both : both[j] <= both[i]})
    BY DEF SplitOf, both, ll_b, ll_e, n
  <2> QED
    BY <2>2, <2>3
<1>2. n \in Nat
  BY LenProperties
<1>3. ASSUME NEW i \in 0 .. n
      PROVE  /\ both[i] = Sum(i) /\ Sum(i) \in Nat /\ Sum(i) <= all
  <2> DEFINE a == Slice(y, 0, i)
             b == Slice(y, i, n)
             rt == Reverse(t)
             ry == Reverse(y)
  <2>1. 0 \in 0 .. n /\ n \in 0 .. n /\ 0 <= i /\ i <= n /\ n - i \in 0 .. n
    BY <1>2
  <2>2. a \in Seq(E) /\ b \in Seq(E) /\ a \o b = y
    <3>1. a \in Seq(E)
      BY <2>1, PartIs
    <3>2. b \in Seq(E)
      BY <2>1, PartIs
    <3>3. Slice(y, 0, i) \o Slice(y, i, n) = Slice(y, 0, n)
      BY <2>1, PartJoin
    <3>4. Slice(y, 0, n) = y
      <4>1. SubSeq(y, 1, n) = Slice(y, 0, n)
        BY <2>1, FirstPart
      <4> QED
        BY <4>1, FirstElements
    <3> QED
      BY <3>1, <3>2, <3>3, <3>4
  <2>3. rt \in Seq(E) /\ ry \in Seq(E) /\ Len(ry) = n
    BY ReverseIs
  <2>4. ll_b[i] = LcsLength(s, a)
    <3>1. ll_b = Lens(s, y)
      BY LensIs
    <3>2. SubSeq(y, 1, i) = a
      BY FirstPart
    <3> QED
      BY <3>1, <3>2 DEF Lens
  <2>5. ll_e[n - i] = LcsLength(t, b)
    <3>1. SubSeq(ry, 1, n - i) = Reverse(b)
      BY RestReversed
    <3> HIDE DEF rt, ry, n, b
    <3>2. ll_e = Lens(rt, ry)
      BY <2>3, LensIs DEF rt, ry
    <3>3. ll_e[n - i] = LcsLength(rt, SubSeq(ry, 1, n - i))
      BY <2>1, <2>3, <3>2 DEF Lens
    <3>4. LcsLength(rt, Reverse(b)) = LcsLength(t, b)
      BY <2>2, LcsLengthReverse DEF rt
    <3> QED
      BY <3>1, <3>3, <3>4
  <2>6. both[i] = ll_b[i] + ll_e[n - i]
    OBVIOUS
  <2>7. LcsLength(s, a) \in Nat /\ LcsLength(t, b) \in Nat
    <3> HIDE DEF a, b
    <3> QED
      BY <2>2, LcsLengthIs
  <2>8. LcsLength(s, a) + LcsLength(t, b) <= all
    <3> HIDE DEF a, b
    <3>1. LcsLength(s, a) + LcsLength(t, b) <= LcsLength(s \o t, a \o b)
      BY <2>2, SumAtMost
    <3> QED
      BY <2>2, <3>1
  <2> QED
    BY <2>4, <2>5, <2>6, <2>7, <2>8
<1>4. PICK i \in 0 .. n : all <= Sum(i)
  BY SumReached
<1>5. all \in Nat
  <2> DEFINE p == s \o t
  <2>1. p \in Seq(E)
    BY ConcatProperties
  <2> HIDE DEF p
  <2>2. LcsLength(p, y) \in Nat
    BY <2>1, LcsLengthIs
  <2> QED
    BY <2>2 DEF p
<1> HIDE DEF both, Sum, all, n
<1>6. both[i] = all
  BY <1>3, <1>4, <1>5
<1>7. \A j \in 0 .. n : both[j] <= all
  BY <1>3
<1>8. i \in D
  BY <1>6, <1>7
<1>9. D \in SUBSET Nat /\ D # {}
  BY <1>2, <1>8
<1>10. D \subseteq 0 .. n /\ \A j \in D : both[i] <= both[j]
  OBVIOUS
<1> HIDE DEF D
<1>11. Min(D) \in D
  BY <1>9, MinIsLeast
<1>12. Min(D) \in 0 .. n /\ all <= both[Min(D)]
  BY <1>6, <1>10, <1>11
<1>13. all = Sum(Min(D))
  <2> DEFINE m == Min(D)
  <2>1. m \in 0 .. n /\ all <= both[m]
    BY <1>12
  <2> HIDE DEF m
  <2>2. all = Sum(m)
    BY <1>3, <1>5, <2>1
  <2> QED
    BY <2>2 DEF m
<1> QED
  BY <1>1, <1>12, <1>13 DEF Sum, all, n
(***************************************************************************)
(* set_lcs copies the marked elements in their order.                      *)
(***************************************************************************)

KeptTurn(xs, members, lcs) ==
  [i \in 0 .. Len(xs) |->
     IF i = 0 THEN <<>>
     ELSE IF i \in members THEN Append(lcs[i - 1], xs[i]) ELSE lcs[i - 1]]

KeptOf(xs, members) == [i \in 0 .. Len(xs) |-> Picked(SubSeq(xs, 1, i), members \cap (1 .. i))]

LEMMA PickedNothing ==
  ASSUME NEW s
  PROVE  Picked(s, {}) = <<>>
<1>1. Cardinality({}) = 0
  BY FS_EmptySet
<1> QED
  BY <1>1 DEF Picked

LEMMA KeptStep ==
  ASSUME NEW E, NEW xs \in Seq(E), NEW members, NEW i \in 1 .. Len(xs)
  PROVE  Picked(SubSeq(xs, 1, i), members \cap (1 .. i))
           = IF i \in members
             THEN Append(Picked(SubSeq(xs, 1, i - 1), members \cap (1 .. i - 1)), xs[i])
             ELSE Picked(SubSeq(xs, 1, i - 1), members \cap (1 .. i - 1))
<1> DEFINE p == SubSeq(xs, 1, i - 1)
           A == members \cap (1 .. i - 1)
           B == members \cap (1 .. i)
<1>1. i \in Nat /\ i - 1 \in 0 .. Len(xs) /\ Len(xs) \in Nat
  BY LenProperties
<1>2. p \in Seq(E) /\ Len(p) = i - 1 /\ xs[i] \in E /\ SubSeq(xs, 1, i) = Append(p, xs[i])
  BY <1>1, FirstElements
<1> HIDE DEF p
<1>3. A \in SUBSET (1 .. Len(p)) /\ Len(p) + 1 = i
  BY <1>1, <1>2
<1>4. i \in members => B = A \cup {Len(p) + 1}
  BY <1>1, <1>3
<1>5. i \notin members => B = A
  BY <1>1
<1> HIDE DEF A, B
<1>6. CASE i \in members
  <2>1. B = A \cup {Len(p) + 1}
    BY <1>4, <1>6
  <2>2. Picked(Append(p, xs[i]), B) = Append(Picked(p, A), xs[i])
    <3> DEFINE e == xs[i]
    <3>1. e \in E
      BY <1>2
    <3> HIDE DEF e
    <3>2. Picked(Append(p, e), B) = Append(Picked(p, A), e)
      BY <1>2, <1>3, <2>1, <3>1, PickedKeep
    <3> QED
      BY <3>2 DEF e
  <2> QED
    BY <1>2, <1>6, <2>2 DEF p, A, B
<1>7. CASE i \notin members
  <2>1. Picked(Append(p, xs[i]), A) = Picked(p, A)
    BY <1>2, <1>3, PickedLeave
  <2> QED
    BY <1>2, <1>5, <1>7, <2>1 DEF p, A, B
<1> QED
  BY <1>6, <1>7

LEMMA KeptIs ==
  ASSUME NEW E, NEW xs \in Seq(E), NEW members \in SUBSET (1 .. Len(xs))
  PROVE  set_lcs(xs, members) = Picked(xs, members)
<1> DEFINE m == Len(xs)
           g == KeptOf(xs, members)
           P(h) == h = KeptTurn(xs, members, h)
           lcs == CHOOSE h : P(h)
<1>1. set_lcs(xs, members) = lcs[m]
  BY DEF set_lcs, KeptTurn
<1>2. m \in Nat /\ SubSeq(xs, 1, 0) = <<>> /\ SubSeq(xs, 1, m) = xs
  BY FirstElements
<1>3. \A k \in 0 .. m : g[k] = Picked(SubSeq(xs, 1, k), members \cap (1 .. k))
  BY DEF KeptOf
<1>4. P(g)
  <2> HIDE DEF g
  <2> SUFFICES ASSUME NEW k \in 0 .. m PROVE KeptTurn(xs, members, g)[k] = g[k]
    BY DEF KeptTurn, KeptOf, g
  <2>1. KeptTurn(xs, members, g)[k]
          = IF k = 0 THEN <<>>
            ELSE IF k \in members THEN Append(g[k - 1], xs[k]) ELSE g[k - 1]
    BY DEF KeptTurn
  <2>2. CASE k = 0
    <3>1. members \cap (1 .. 0) = {}
      OBVIOUS
    <3>2. g[0] = Picked(SubSeq(xs, 1, 0), {})
      BY <1>3, <2>2, <3>1
    <3>3. g[0] = <<>>
      BY <3>2, PickedNothing
    <3> QED
      BY <2>1, <2>2, <3>3
  <2>3. CASE k # 0
    <3>1. k \in 1 .. m /\ k - 1 \in 0 .. m
      BY <1>2, <2>3
    <3>2. g[k - 1] = Picked(SubSeq(xs, 1, k - 1), members \cap (1 .. k - 1))
      BY <1>3, <3>1
    <3>3. g[k] = IF k \in members THEN Append(g[k - 1], xs[k]) ELSE g[k - 1]
      <4>1. g[k] = Picked(SubSeq(xs, 1, k), members \cap (1 .. k))
        BY <1>3
      <4>2. Picked(SubSeq(xs, 1, k), members \cap (1 .. k))
              = IF k \in members
                THEN Append(Picked(SubSeq(xs, 1, k - 1), members \cap (1 .. k - 1)), xs[k])
                ELSE Picked(SubSeq(xs, 1, k - 1), members \cap (1 .. k - 1))
        BY <3>1, KeptStep
      <4> QED
        BY <3>2, <4>1, <4>2
    <3> QED
      BY <2>1, <2>3, <3>3
  <2> QED
    BY <2>2, <2>3
<1> HIDE DEF P
<1>5. P(lcs)
  BY <1>4
<1> HIDE DEF lcs
<1>6. g = KeptTurn(xs, members, g) /\ lcs = KeptTurn(xs, members, lcs)
  BY <1>4, <1>5 DEF P
<1>7. g[m] = Picked(xs, members) /\ m \in 0 .. m
  <2>1. m \in 0 .. m /\ members \cap (1 .. m) = members
    <3>1. m \in 0 .. m
      BY <1>2
    <3>2. \A i \in members : i \in 1 .. m
      OBVIOUS
    <3> HIDE DEF m
    <3> QED
      BY <3>1, <3>2
  <2> QED
    BY <1>2, <1>3, <2>1
<1> HIDE DEF g
<1>8. ASSUME NEW k \in 0 .. m, k # 0 => lcs[k - 1] = g[k - 1]
      PROVE  lcs[k] = g[k]
  <2>1. KeptTurn(xs, members, lcs)[k] = KeptTurn(xs, members, g)[k]
    BY <1>8 DEF KeptTurn
  <2> QED
    BY <1>6, <2>1
<1> HIDE DEF m
<1> DEFINE T == {k \in 0 .. m : lcs[k] = g[k]}
<1>9. m \in Nat /\ 0 \in T /\ \A k \in 1 .. m : k - 1 \in T => k \in T
  <2>1. 0 \in 0 .. m /\ m \in Nat /\ \A k \in 1 .. m : k \in 0 .. m /\ k # 0
    BY <1>2
  <2> QED
    BY <1>8, <2>1
<1> HIDE DEF T
<1>10. 0 .. m \subseteq T
  BY <1>9, OneRow
<1> QED
  BY <1>1, <1>7, <1>10 DEF T

(* What is picked from two parts is what is picked from the first and,     *)
(* behind it, from the second.                                             *)
LEMMA PickedUnion ==
  ASSUME NEW E
  PROVE  \A s \in Seq(E) : \A A, B \in SUBSET (1 .. Len(s)) :
           (\A a \in A : \A b \in B : a < b) => Picked(s, A \cup B) = Picked(s, A) \o Picked(s, B)
<1> DEFINE Fits(s) == \A A, B \in SUBSET (1 .. Len(s)) :
             (\A a \in A : \A b \in B : a < b) => Picked(s, A \cup B) = Picked(s, A) \o Picked(s, B)
           S == {s \in Seq(E) : Fits(s)}
<1>1. <<>> \in S
  <2> SUFFICES ASSUME NEW A, NEW B, A = {}, B = {}
               PROVE  Picked(<<>>, A \cup B) = Picked(<<>>, A) \o Picked(<<>>, B)
    <3>1. 1 .. Len(<<>>) = {} /\ <<>> \in Seq(E)
      BY EmptySeq
    <3> QED
      BY <3>1
  <2>1. A \cup B = {} /\ <<>> \o <<>> = <<>>
    BY ConcatEmptySeq, EmptySeq
  <2> QED
    BY <2>1, PickedNothing
<1>2. \A r \in Seq(E) : \A e \in E : r \in S => Append(r, e) \in S
  <2> SUFFICES ASSUME NEW r \in Seq(E), NEW e \in E, Fits(r),
                      NEW A \in SUBSET (1 .. Len(Append(r, e))),
                      NEW B \in SUBSET (1 .. Len(Append(r, e))),
                      \A a \in A : \A b \in B : a < b
               PROVE  Picked(Append(r, e), A \cup B) = Picked(Append(r, e), A) \o Picked(Append(r, e), B)
    BY AppendProperties
  <2> DEFINE n == Len(r)
             p == Append(r, e)
  <2>1. n \in Nat /\ Len(p) = n + 1 /\ A \in SUBSET (1 .. n + 1) /\ B \in SUBSET (1 .. n + 1)
    BY LenProperties, AppendProperties
  <2>2. \A K \in SUBSET (1 .. n) : /\ Picked(p, K) = Picked(r, K) /\ Picked(r, K) \in Seq(E)
                                   /\ Picked(p, K \cup {n + 1}) = Append(Picked(r, K), e)
    BY PickedLeave, PickedSeq, PickedKeep
  <2>3. \A C, D \in SUBSET (1 .. n) : (\A c \in C : \A d \in D : c < d) =>
          Picked(r, C \cup D) = Picked(r, C) \o Picked(r, D)
    OBVIOUS
  <2> HIDE DEF n, p
  <2>4. CASE n + 1 \in B
    <3> DEFINE C == B \ {n + 1}
    <3>1. A \in SUBSET (1 .. n) /\ C \in SUBSET (1 .. n) /\ \A a \in A : \A c \in C : a < c
      <4>1. \A a \in A : a < n + 1 /\ a \in 1 .. n + 1
        BY <2>1, <2>4
      <4> QED
        BY <2>1, <4>1
    <3>2. B = C \cup {n + 1} /\ A \cup B = (A \cup C) \cup {n + 1} /\ A \cup C \in SUBSET (1 .. n)
      BY <2>4, <3>1
    <3> HIDE DEF C
    <3>3. Picked(p, A \cup B) = Append(Picked(r, A \cup C), e)
      BY <2>2, <3>2
    <3>4. Picked(p, B) = Append(Picked(r, C), e)
      BY <2>2, <3>1, <3>2
    <3>5. Picked(p, A) = Picked(r, A) /\ Picked(r, A) \in Seq(E) /\ Picked(r, C) \in Seq(E)
      BY <2>2, <3>1
    <3>6. Picked(r, A \cup C) = Picked(r, A) \o Picked(r, C)
      BY <2>3, <3>1
    <3>7. Picked(r, A) \o Append(Picked(r, C), e) = Append(Picked(r, A) \o Picked(r, C), e)
      BY <3>5, ConcatAppend
    <3>8. Picked(p, A \cup B) = Picked(p, A) \o Picked(p, B)
      BY <3>3, <3>4, <3>5, <3>6, <3>7
    <3> QED
      BY <3>8 DEF p
  <2>5. CASE n + 1 \in A
    <3>1. B = {}
      <4>1. \A b \in B : n + 1 < b /\ b \in 1 .. n + 1
        BY <2>1, <2>5
      <4> QED
        BY <2>1, <4>1
    <3>2. Picked(p, B) = <<>> /\ A \cup B = A
      BY <3>1, PickedNothing
    <3>3. Picked(p, A) \in Seq(E)
      <4>1. p \in Seq(E) /\ A \in SUBSET (1 .. Len(p))
        BY <2>1, AppendProperties DEF p
      <4> QED
        BY <4>1, PickedSeq
    <3>4. Picked(p, A) \o <<>> = Picked(p, A)
      BY <3>3, ConcatEmptySeq
    <3> QED
      BY <3>2, <3>4 DEF p
  <2>6. CASE n + 1 \notin A /\ n + 1 \notin B
    <3>1. A \in SUBSET (1 .. n) /\ B \in SUBSET (1 .. n) /\ A \cup B \in SUBSET (1 .. n)
      BY <2>1, <2>6
    <3>2. Picked(r, A \cup B) = Picked(r, A) \o Picked(r, B)
      BY <2>3, <3>1
    <3>3. Picked(p, A \cup B) = Picked(r, A \cup B) /\ Picked(p, A) = Picked(r, A)
            /\ Picked(p, B) = Picked(r, B)
      BY <2>2, <3>1
    <3> QED
      BY <3>2, <3>3 DEF p
  <2> QED
    BY <2>4, <2>5, <2>6
<1> HIDE DEF S
<1>3. Seq(E) \subseteq S
  BY <1>1, <1>2, SeqInduction
<1> QED
  BY <1>3 DEF S

LEMMA PickedOne ==
  ASSUME NEW s, NEW i \in Nat
  PROVE  Picked(s, {i}) = <<s[i]>>
<1>1. Cardinality({i}) = 1
  BY FS_Singleton
<1>2. Nth({i}, 1) = i
  <2>1. \A x \in {i} : {y \in {i} : y < x} = {}
    OBVIOUS
  <2>2. \A x \in {i} : Cardinality({y \in {i} : y < x}) = 1 - 1
    BY <2>1, FS_EmptySet
  <2> QED
    BY <2>2 DEF Nth
<1> QED
  BY <1>1, <1>2 DEF Picked
(***************************************************************************)
(* calculate_lcs: a range of more than one element is divided into two     *)
(* shorter ones whose answers make up its own.                             *)
(***************************************************************************)

Size(r)          == r[2] - r[1]
Mid(r)           == r[1] + (r[2] - r[1]) \div 2
CutAt(xs, ys, r) == r[3] + SplitOf(Slice(xs, r[1], Mid(r)), Slice(xs, Mid(r), r[2]), Slice(ys, r[3], r[4]))
FrontHalf(xs, ys, r) == <<r[1], Mid(r), r[3], CutAt(xs, ys, r)>>
BackHalf(xs, ys, r)  == <<Mid(r), r[2], CutAt(xs, ys, r), r[4]>>

RangeLcs(xs, ys, r) == LcsLength(Slice(xs, r[1], r[2]), Slice(ys, r[3], r[4]))

LEMMA RangeIs ==
  ASSUME NEW E, NEW xs \in Seq(E), NEW ys \in Seq(E), NEW r \in Ranges(xs, ys)
  PROVE  /\ r[1] \in 0 .. Len(xs) /\ r[2] \in 0 .. Len(xs) /\ r[1] <= r[2]
         /\ r[3] \in 0 .. Len(ys) /\ r[4] \in 0 .. Len(ys) /\ r[3] <= r[4]
         /\ Slice(xs, r[1], r[2]) \in Seq(E) /\ Slice(ys, r[3], r[4]) \in Seq(E)
         /\ Len(Slice(ys, r[3], r[4])) = r[4] - r[3]
         /\ r[1] \in Nat /\ r[2] \in Nat /\ r[3] \in Nat /\ r[4] \in Nat
         /\ Len(xs) \in Nat /\ Len(ys) \in Nat /\ Size(r) \in Nat /\ Size(r) <= Len(xs)
<1>1. /\ r[1] \in 0 .. Len(xs) /\ r[2] \in 0 .. Len(xs) /\ r[1] <= r[2]
      /\ r[3] \in 0 .. Len(ys) /\ r[4] \in 0 .. Len(ys) /\ r[3] <= r[4]
  BY DEF Ranges
<1> DEFINE a == r[1]
           b == r[2]
           c == r[3]
           d == r[4]
<1>2. /\ a \in 0 .. Len(xs) /\ b \in 0 .. Len(xs) /\ a <= b
      /\ c \in 0 .. Len(ys) /\ d \in 0 .. Len(ys) /\ c <= d
  BY <1>1
<1>3. Len(xs) \in Nat /\ Len(ys) \in Nat
  BY LenProperties
<1> HIDE DEF a, b, c, d
<1>4. Slice(xs, a, b) \in Seq(E)
  BY <1>2, PartIs
<1>5. Slice(ys, c, d) \in Seq(E) /\ Len(Slice(ys, c, d)) = d - c
  BY <1>2, PartIs
<1>6. a \in Nat /\ b \in Nat /\ c \in Nat /\ d \in Nat /\ b - a \in Nat /\ b - a <= Len(xs)
  BY <1>2, <1>3
<1> QED
  BY <1>2, <1>3, <1>4, <1>5, <1>6 DEF Size, a, b, c, d

LEMMA HalvesAre ==
  ASSUME NEW E, NEW xs \in Seq(E), NEW ys \in Seq(E), NEW r \in Ranges(xs, ys),
         r[2] # r[1], r[2] # r[1] + 1
  PROVE  /\ FrontHalf(xs, ys, r) \in Ranges(xs, ys) /\ BackHalf(xs, ys, r) \in Ranges(xs, ys)
         /\ Size(FrontHalf(xs, ys, r)) < Size(r) /\ Size(BackHalf(xs, ys, r)) < Size(r)
         /\ Slice(xs, r[1], Mid(r)) \o Slice(xs, Mid(r), r[2]) = Slice(xs, r[1], r[2])
         /\ Slice(ys, r[3], CutAt(xs, ys, r)) \o Slice(ys, CutAt(xs, ys, r), r[4])
              = Slice(ys, r[3], r[4])
         /\ RangeLcs(xs, ys, r) = RangeLcs(xs, ys, FrontHalf(xs, ys, r)) + RangeLcs(xs, ys, BackHalf(xs, ys, r))
<1> DEFINE a == r[1]
           b == r[2]
           c == r[3]
           d == r[4]
           m == Mid(r)
           y == Slice(ys, c, d)
           s == Slice(xs, a, m)
           t == Slice(xs, m, b)
           i == SplitOf(s, t, y)
           k == CutAt(xs, ys, r)
<1>0. \A lo, mid, hi \in 0 .. Len(xs) : lo <= mid /\ mid <= hi =>
        Slice(xs, lo, mid) \o Slice(xs, mid, hi) = Slice(xs, lo, hi)
  BY PartJoin
<1>1. /\ a \in 0 .. Len(xs) /\ b \in 0 .. Len(xs) /\ a <= b
      /\ c \in 0 .. Len(ys) /\ d \in 0 .. Len(ys) /\ c <= d
      /\ y \in Seq(E) /\ Len(y) = d - c
      /\ a \in Nat /\ b \in Nat /\ c \in Nat /\ d \in Nat
      /\ Len(xs) \in Nat /\ Len(ys) \in Nat
  BY RangeIs
<1>2. m = a + (b - a) \div 2 /\ b # a /\ b # a + 1
  BY DEF Mid
<1>3. k = c + i
  BY DEF CutAt
<1>4. Size(r) = b - a
  BY DEF Size
<1>5. FrontHalf(xs, ys, r) = <<a, m, c, k>> /\ BackHalf(xs, ys, r) = <<m, b, k, d>>
  BY DEF FrontHalf, BackHalf
<1>6. RangeLcs(xs, ys, r) = LcsLength(Slice(xs, a, b), y)
  BY DEF RangeLcs
<1> HIDE DEF a, b, c, d, m, y, k
<1>7. m \in 0 .. Len(xs) /\ a < m /\ m < b /\ m \in Nat
  <2>1. b - a >= 2 /\ b - a \in Nat
    BY <1>1, <1>2
  <2> DEFINE q == (b - a) \div 2
  <2>2. q >= 1 /\ q < b - a /\ q \in Nat
    BY <2>1
  <2>3. m = a + q
    BY <1>2
  <2> HIDE DEF q
  <2> QED
    BY <1>1, <2>2, <2>3
<1>8. s \in Seq(E) /\ t \in Seq(E) /\ s \o t = Slice(xs, a, b)
  <2>1. s \in Seq(E)
    BY <1>1, <1>7, PartIs
  <2>2. t \in Seq(E)
    BY <1>1, <1>7, PartIs
  <2>3. s \o t = Slice(xs, a, b)
    <3>1. a <= m /\ m <= b
      BY <1>1, <1>7
    <3>2. Slice(xs, a, m) \o Slice(xs, m, b) = Slice(xs, a, b)
      BY <1>0, <1>1, <1>7, <3>1
    <3> QED
      BY <3>2
  <2> QED
    BY <2>1, <2>2, <2>3
<1> HIDE DEF s, t
<1>9. /\ i \in 0 .. Len(y)
      /\ LcsLength(s \o t, y) = LcsLength(s, Slice(y, 0, i)) + LcsLength(t, Slice(y, i, Len(y)))
  BY <1>1, <1>8, SplitOfIs
<1> HIDE DEF i
<1>10. k \in 0 .. Len(ys) /\ c <= k /\ k <= d /\ k \in Nat /\ i \in 0 .. d - c
  BY <1>1, <1>3, <1>9
<1>11. Slice(y, 0, i) = Slice(ys, c, k)
  <2>1. 0 \in 0 .. d - c /\ 0 <= i /\ c + 0 = c
    BY <1>1, <1>10
  <2>2. Slice(Slice(ys, c, d), 0, i) = Slice(ys, c + 0, c + i)
    BY <1>1, <1>10, <2>1, PartOfPart
  <2> QED
    BY <1>3, <2>1, <2>2 DEF y
<1>12. Slice(y, i, Len(y)) = Slice(ys, k, d)
  <2>1. d - c \in 0 .. d - c /\ i <= d - c /\ c + (d - c) = d
    BY <1>1, <1>10
  <2>2. Slice(Slice(ys, c, d), i, d - c) = Slice(ys, c + i, c + (d - c))
    BY <1>1, <1>10, <2>1, PartOfPart
  <2> QED
    BY <1>1, <1>3, <2>1, <2>2 DEF y
<1>13. Slice(ys, c, k) \o Slice(ys, k, d) = y
  BY <1>1, <1>10, PartJoin DEF y
<1>14. <<a, m, c, k>> \in Ranges(xs, ys) /\ <<m, b, k, d>> \in Ranges(xs, ys)
  BY <1>1, <1>7, <1>10 DEF Ranges
<1>15. Size(<<a, m, c, k>>) < Size(r) /\ Size(<<m, b, k, d>>) < Size(r)
  <2>1. Size(<<a, m, c, k>>) = m - a /\ Size(<<m, b, k, d>>) = b - m
    BY DEF Size
  <2> QED
    BY <1>1, <1>4, <1>7, <2>1
<1>16. /\ RangeLcs(xs, ys, <<a, m, c, k>>) = LcsLength(s, Slice(ys, c, k))
       /\ RangeLcs(xs, ys, <<m, b, k, d>>) = LcsLength(t, Slice(ys, k, d))
  BY DEF RangeLcs, s, t
<1>17. RangeLcs(xs, ys, r) = RangeLcs(xs, ys, <<a, m, c, k>>) + RangeLcs(xs, ys, <<m, b, k, d>>)
  BY <1>6, <1>8, <1>9, <1>11, <1>12, <1>16
<1>18. s \o t = Slice(xs, a, b) /\ Slice(ys, c, k) \o Slice(ys, k, d) = Slice(ys, c, d)
  BY <1>8, <1>13 DEF y
<1> QED
  BY <1>5, <1>14, <1>15, <1>17, <1>18 DEF a, b, c, d, m, s, t, k
(* What one turn of calculate_lcs makes of the answers for shorter ranges. *)
MarkedAt(xs, ys, h, r) ==
  IF r[2] = r[1] THEN {}
  ELSE IF r[2] = r[1] + 1
  THEN IF Contains(Slice(ys, r[3], r[4]), xs[r[2]]) THEN {r[2]} ELSE {}
  ELSE h[FrontHalf(xs, ys, r)] \cup h[BackHalf(xs, ys, r)]

MarkedTurn(xs, ys, h) == [r \in Ranges(xs, ys) |-> MarkedAt(xs, ys, h, r)]

LEMMA SameMarks ==
  ASSUME NEW E, NEW xs \in Seq(E), NEW ys \in Seq(E), NEW r \in Ranges(xs, ys), NEW f, NEW g,
         \A q \in Ranges(xs, ys) : Size(q) < Size(r) => f[q] = g[q]
  PROVE  MarkedAt(xs, ys, f, r) = MarkedAt(xs, ys, g, r)
<1>1. CASE r[2] = r[1] \/ r[2] = r[1] + 1
  BY <1>1 DEF MarkedAt
<1>2. CASE r[2] # r[1] /\ r[2] # r[1] + 1
  <2>1. /\ FrontHalf(xs, ys, r) \in Ranges(xs, ys) /\ BackHalf(xs, ys, r) \in Ranges(xs, ys)
        /\ Size(FrontHalf(xs, ys, r)) < Size(r) /\ Size(BackHalf(xs, ys, r)) < Size(r)
    BY <1>2, HalvesAre
  <2>2. f[FrontHalf(xs, ys, r)] = g[FrontHalf(xs, ys, r)] /\ f[BackHalf(xs, ys, r)] = g[BackHalf(xs, ys, r)]
    BY <2>1
  <2> QED
    BY <2>2 DEF MarkedAt
<1> QED
  BY <1>1, <1>2

(* The recursion ends: there is a function that the halves make up.        *)
LEMMA MarkedExists ==
  ASSUME NEW E, NEW xs \in Seq(E), NEW ys \in Seq(E)
  PROVE  \E h : h = MarkedTurn(xs, ys, h)
<1> DEFINE R == Ranges(xs, ys)
           Good(h, n) == \A r \in R : Size(r) <= n => h[r] = MarkedAt(xs, ys, h, r)
           T == {n \in Nat : \E h : Good(h, n)}
<1>1. \A r \in R : Size(r) \in Nat /\ Size(r) <= Len(xs)
  BY RangeIs
<1>2. 0 \in T
  <2> DEFINE h == [r \in R |-> {}]
  <2>1. ASSUME NEW r \in R, Size(r) <= 0
        PROVE  h[r] = MarkedAt(xs, ys, h, r)
    <3>1. r[1] \in Nat /\ r[2] \in Nat /\ r[1] <= r[2] /\ Size(r) = r[2] - r[1]
      BY RangeIs DEF Size
    <3>2. r[2] = r[1]
      BY <2>1, <3>1
    <3> QED
      BY <3>2 DEF MarkedAt
  <2> QED
    BY <2>1
<1>3. \A n \in Nat : n \in T => n + 1 \in T
  <2> SUFFICES ASSUME NEW n \in Nat, n \in T
               PROVE  \E g : Good(g, n + 1)
    OBVIOUS
  <2>1. PICK h : Good(h, n)
    OBVIOUS
  <2> DEFINE g == [r \in R |-> IF Size(r) <= n THEN h[r] ELSE MarkedAt(xs, ys, h, r)]
  <2>2. ASSUME NEW r \in R, Size(r) <= n + 1
        PROVE  g[r] = MarkedAt(xs, ys, g, r)
    <3>1. \A q \in R : Size(q) < Size(r) => h[q] = g[q]
      <4>1. \A q \in R : Size(q) < Size(r) => Size(q) <= n
        BY <1>1, <2>2
      <4> QED
        BY <4>1
    <3>2. g[r] = MarkedAt(xs, ys, h, r)
      BY <2>1
    <3> HIDE DEF g
    <3>3. MarkedAt(xs, ys, h, r) = MarkedAt(xs, ys, g, r)
      BY <3>1, SameMarks
    <3> QED
      BY <3>2, <3>3
  <2> HIDE DEF g
  <2>3. Good(g, n + 1)
    BY <2>2
  <2> QED
    BY <2>3
<1> HIDE DEF T
<1>4. Len(xs) \in T
  <2>1. Len(xs) \in Nat
    BY LenProperties
  <2>2. Nat \subseteq T
    BY <1>2, <1>3, Induction
  <2> QED
    BY <2>1, <2>2
<1>5. PICK h : Good(h, Len(xs))
  BY <1>4 DEF T
<1> DEFINE g == [r \in R |-> h[r]]
<1>6. ASSUME NEW r \in R
      PROVE  g[r] = MarkedAt(xs, ys, g, r)
  <2>1. g[r] = MarkedAt(xs, ys, h, r)
    BY <1>1, <1>5
  <2>2. \A q \in R : Size(q) < Size(r) => h[q] = g[q]
    OBVIOUS
  <2> HIDE DEF g
  <2>3. MarkedAt(xs, ys, h, r) = MarkedAt(xs, ys, g, r)
    BY <2>2, SameMarks
  <2> QED
    BY <2>1, <2>3
<1>7. g = [r \in R |-> g[r]]
  OBVIOUS
<1> HIDE DEF g
<1>8. g = MarkedTurn(xs, ys, g)
  BY <1>6, <1>7 DEF MarkedTurn
<1> QED
  BY <1>8

(* The marks of a range lie in it and spell a longest common subsequence.  *)
Spells(xs, ys, marks, r) ==
  /\ marks \subseteq r[1] + 1 .. r[2]
  /\ Picked(xs, marks) \in Common(Slice(xs, r[1], r[2]), Slice(ys, r[3], r[4]))
  /\ Len(Picked(xs, marks)) = RangeLcs(xs, ys, r)

LEMMA SpellsShort ==
  ASSUME NEW E, NEW xs \in Seq(E), NEW ys \in Seq(E), NEW r \in Ranges(xs, ys), NEW h,
         r[2] = r[1] \/ r[2] = r[1] + 1
  PROVE  Spells(xs, ys, MarkedAt(xs, ys, h, r), r)
<1> DEFINE a == r[1]
           b == r[2]
           x == Slice(xs, a, b)
           y == Slice(ys, r[3], r[4])
           marks == MarkedAt(xs, ys, h, r)
<1>1. /\ a \in 0 .. Len(xs) /\ b \in 0 .. Len(xs) /\ a <= b /\ a \in Nat /\ b \in Nat
      /\ x \in Seq(E) /\ y \in Seq(E) /\ Len(xs) \in Nat
  BY RangeIs
<1>2. Len(x) = b - a /\ \A k \in 1 .. b - a : x[k] = xs[a + k] /\ xs[a + k] \in E
  <2> HIDE DEF a, b
  <2> QED
    BY <1>1, PartIs
<1>3. <<>> \in Common(x, y) /\ Len(<<>>) = 0 /\ Picked(xs, {}) = <<>>
  <2> HIDE DEF x, y
  <2> QED
    BY <1>1, EmptyIsSubsequence, EmptySeq, PickedNothing DEF Common
<1>4. b = a \/ b = a + 1
  OBVIOUS
<1>5. marks = IF b = a THEN {}
              ELSE IF Contains(y, xs[b]) THEN {b} ELSE {}
  BY <1>4 DEF MarkedAt
<1>6. Spells(xs, ys, marks, r) <=> /\ marks \subseteq a + 1 .. b
                                   /\ Picked(xs, marks) \in Common(x, y)
                                   /\ Len(Picked(xs, marks)) = LcsLength(x, y)
  BY DEF Spells, RangeLcs
<1> HIDE DEF a, b, x, y, marks
<1>7. CASE b = a
  <2>1. x = <<>> /\ marks = {}
    BY <1>1, <1>2, <1>5, <1>7, EmptySeq
  <2>2. LcsLength(x, y) = 0
    BY <1>1, <2>1, LcsLengthNothing
  <2>3. Spells(xs, ys, marks, r)
    BY <1>3, <1>6, <2>1, <2>2
  <2> QED
    BY <2>3 DEF marks
<1>8. CASE b = a + 1
  <2> DEFINE e == xs[b]
             d == <<e>>
  <2>1. b - a = 1 /\ a + 1 = b /\ b # a /\ 1 \in 1 .. b - a /\ b \in a + 1 .. b
    BY <1>1, <1>8
  <2>2. Len(x) = 1 /\ x[1] = e /\ e \in E
    BY <1>2, <2>1
  <2> HIDE DEF e
  <2>3. d \in Seq(E) /\ Len(d) = 1 /\ d[1] = e
    BY <2>2
  <2>4. x = d
    <3> HIDE DEF d
    <3>1. \A k \in 1 .. Len(x) : x[k] = d[k]
      BY <2>2, <2>3
    <3>2. Len(x) = Len(d)
      BY <2>2, <2>3
    <3> QED
      BY <1>1, <2>3, <3>1, <3>2, SeqEqual
  <2>5. LcsLength(x, y) = IF Contains(y, e) THEN 1 ELSE 0
    BY <1>1, <2>2, <2>4, LcsLengthSingle
  <2>6. CASE Contains(y, e)
    <3>1. marks = {b}
      BY <1>5, <2>1, <2>6 DEF e
    <3>2. Picked(xs, marks) = d
      BY <1>1, <3>1, PickedOne DEF e
    <3>3. d \in Subsequences(y)
      BY <1>1, <2>2, <2>6, SingleIs
    <3>4. d \in Subsequences(x)
      <4>1. Contains(d, e)
        BY <2>3 DEF Contains
      <4>2. d \in Subsequences(d) <=> Contains(d, e)
        BY <2>2, <2>3, SingleIs
      <4> QED
        BY <2>4, <4>1, <4>2
    <3>5. d \in Common(x, y)
      BY <3>3, <3>4 DEF Common
    <3>6. marks \subseteq a + 1 .. b
      BY <2>1, <3>1
    <3>7. Len(d) = LcsLength(x, y)
      BY <2>3, <2>5, <2>6
    <3>8. Spells(xs, ys, marks, r)
      BY <1>6, <3>2, <3>5, <3>6, <3>7
    <3> QED
      BY <3>8 DEF marks
  <2>7. CASE ~ Contains(y, e)
    <3>1. marks = {}
      BY <1>5, <2>1, <2>7 DEF e
    <3>2. LcsLength(x, y) = 0
      BY <2>5, <2>7
    <3>3. Spells(xs, ys, marks, r)
      BY <1>3, <1>6, <3>1, <3>2
    <3> QED
      BY <3>3 DEF marks
  <2> QED
    BY <2>6, <2>7
<1> QED
  BY <1>4, <1>7, <1>8

LEMMA SpellsLong ==
  ASSUME NEW E, NEW xs \in Seq(E), NEW ys \in Seq(E), NEW r \in Ranges(xs, ys), NEW A, NEW B,
         r[2] # r[1], r[2] # r[1] + 1,
         Spells(xs, ys, A, FrontHalf(xs, ys, r)), Spells(xs, ys, B, BackHalf(xs, ys, r))
  PROVE  Spells(xs, ys, A \cup B, r)
<1>a. \A C, D \in SUBSET (1 .. Len(xs)) :
        (\A c \in C : \A d \in D : c < d) => Picked(xs, C \cup D) = Picked(xs, C) \o Picked(xs, D)
  BY PickedUnion
<1>b. \A K \in SUBSET (1 .. Len(xs)) : Picked(xs, K) \in Seq(E)
  BY PickedSeq
<1> DEFINE a == r[1]
           b == r[2]
           c == r[3]
           d == r[4]
           m == Mid(r)
           k == CutAt(xs, ys, r)
           f == FrontHalf(xs, ys, r)
           g == BackHalf(xs, ys, r)
           x1 == Slice(xs, a, m)
           x2 == Slice(xs, m, b)
           y1 == Slice(ys, c, k)
           y2 == Slice(ys, k, d)
           p == Picked(xs, A)
           q == Picked(xs, B)
<1>1. f[1] = a /\ f[2] = m /\ f[3] = c /\ f[4] = k /\ g[1] = m /\ g[2] = b /\ g[3] = k /\ g[4] = d
  BY DEF FrontHalf, BackHalf
<1>2. f \in Ranges(xs, ys) /\ g \in Ranges(xs, ys)
  BY HalvesAre
<1>3. x1 \o x2 = Slice(xs, a, b) /\ y1 \o y2 = Slice(ys, c, d)
  BY HalvesAre
<1>4. RangeLcs(xs, ys, r) = RangeLcs(xs, ys, f) + RangeLcs(xs, ys, g)
  BY HalvesAre
<1>5. Spells(xs, ys, A, f) /\ Spells(xs, ys, B, g)
  OBVIOUS
<1>6. Spells(xs, ys, A \cup B, r) <=>
        /\ A \cup B \subseteq a + 1 .. b
        /\ Picked(xs, A \cup B) \in Common(Slice(xs, a, b), Slice(ys, c, d))
        /\ Len(Picked(xs, A \cup B)) = RangeLcs(xs, ys, r)
  BY DEF Spells
<1> HIDE DEF a, b, c, d, m, k, f, g
<1>7. /\ a \in Nat /\ m \in Nat /\ b \in Nat /\ a <= m /\ m <= b /\ b <= Len(xs) /\ Len(xs) \in Nat
      /\ x1 \in Seq(E) /\ x2 \in Seq(E) /\ y1 \in Seq(E) /\ y2 \in Seq(E)
  <2>1. /\ f[1] \in Nat /\ f[2] \in Nat /\ f[1] <= f[2] /\ Len(xs) \in Nat
        /\ Slice(xs, f[1], f[2]) \in Seq(E) /\ Slice(ys, f[3], f[4]) \in Seq(E)
    BY <1>2, RangeIs
  <2>2. /\ g[1] \in Nat /\ g[2] \in Nat /\ g[1] <= g[2] /\ g[2] \in 0 .. Len(xs)
        /\ Slice(xs, g[1], g[2]) \in Seq(E) /\ Slice(ys, g[3], g[4]) \in Seq(E)
    BY <1>2, RangeIs
  <2>3. g[2] <= Len(xs)
    BY <2>1, <2>2
  <2> QED
    BY <1>1, <2>1, <2>2, <2>3
<1>8. A \subseteq a + 1 .. m /\ p \in Common(x1, y1) /\ Len(p) = RangeLcs(xs, ys, f)
  BY <1>1, <1>5 DEF Spells
<1>9. B \subseteq m + 1 .. b /\ q \in Common(x2, y2) /\ Len(q) = RangeLcs(xs, ys, g)
  BY <1>1, <1>5 DEF Spells
<1> HIDE DEF x1, x2, y1, y2
<1>10. A \cup B \subseteq a + 1 .. b
  <2>1. \A i \in a + 1 .. m : i \in a + 1 .. b
    BY <1>7
  <2>2. \A i \in m + 1 .. b : i \in a + 1 .. b
    BY <1>7
  <2> QED
    BY <1>8, <1>9, <2>1, <2>2
<1>11. A \in SUBSET (1 .. Len(xs)) /\ B \in SUBSET (1 .. Len(xs))
  <2>1. \A i \in a + 1 .. b : i \in 1 .. Len(xs)
    BY <1>7
  <2> QED
    BY <1>10, <2>1
<1>12. \A i \in A : \A j \in B : i < j
  <2>1. \A i \in a + 1 .. m : \A j \in m + 1 .. b : i < j
    BY <1>7
  <2> QED
    BY <1>8, <1>9, <2>1
<1>13. Picked(xs, A \cup B) = p \o q /\ p \in Seq(E) /\ q \in Seq(E)
  BY <1>a, <1>b, <1>11, <1>12
<1> HIDE DEF p, q
<1>14. p \o q \in Common(Slice(xs, a, b), Slice(ys, c, d))
  <2>1. p \o q \in Subsequences(x1 \o x2)
    BY <1>7, <1>8, <1>9, SubsequencesJoin DEF Common
  <2>2. p \o q \in Subsequences(y1 \o y2)
    BY <1>7, <1>8, <1>9, SubsequencesJoin DEF Common
  <2> QED
    BY <1>3, <2>1, <2>2 DEF Common
<1>15. Len(p \o q) = Len(p) + Len(q)
  BY <1>13, ConcatProperties
<1>16. Len(p \o q) = RangeLcs(xs, ys, r)
  BY <1>4, <1>8, <1>9, <1>15
<1> QED
  BY <1>6, <1>10, <1>13, <1>14, <1>16

LEMMA MarkedIs ==
  ASSUME NEW E, NEW xs \in Seq(E), NEW ys \in Seq(E), NEW h, h = MarkedTurn(xs, ys, h)
  PROVE  \A r \in Ranges(xs, ys) : Spells(xs, ys, h[r], r)
<1> DEFINE R == Ranges(xs, ys)
           T == {n \in Nat : \A r \in R : Size(r) <= n => Spells(xs, ys, h[r], r)}
<1>1. \A r \in R : Size(r) \in Nat
  BY RangeIs
<1>2. \A r \in R : h[r] = MarkedAt(xs, ys, h, r)
  BY DEF MarkedTurn
<1>3. \A r \in R : r[2] = r[1] \/ r[2] = r[1] + 1 => Spells(xs, ys, h[r], r)
  BY <1>2, SpellsShort
<1>4. 0 \in T
  <2> SUFFICES ASSUME NEW r \in R, Size(r) <= 0 PROVE Spells(xs, ys, h[r], r)
    OBVIOUS
  <2>1. r[1] \in Nat /\ r[2] \in Nat /\ r[1] <= r[2] /\ Size(r) = r[2] - r[1]
    BY RangeIs DEF Size
  <2>2. r[2] = r[1]
    BY <2>1
  <2> QED
    BY <1>3, <2>2
<1>5. \A n \in Nat : n \in T => n + 1 \in T
  <2> SUFFICES ASSUME NEW n \in Nat, n \in T, NEW r \in R, Size(r) <= n + 1
               PROVE  Spells(xs, ys, h[r], r)
    OBVIOUS
  <2>1. CASE r[2] = r[1] \/ r[2] = r[1] + 1
    BY <1>3, <2>1
  <2>2. CASE r[2] # r[1] /\ r[2] # r[1] + 1
    <3> DEFINE f == FrontHalf(xs, ys, r)
               g == BackHalf(xs, ys, r)
    <3>1. f \in R /\ g \in R /\ Size(f) < Size(r) /\ Size(g) < Size(r)
      BY <2>2, HalvesAre
    <3>2. h[r] = h[f] \cup h[g]
      BY <1>2, <2>2 DEF MarkedAt
    <3> HIDE DEF f, g
    <3>3. Size(f) <= n /\ Size(g) <= n
      BY <1>1, <3>1
    <3>4. Spells(xs, ys, h[f], f) /\ Spells(xs, ys, h[g], g)
      BY <3>1, <3>3
    <3>5. Spells(xs, ys, h[f] \cup h[g], r)
      BY <2>2, <3>4, SpellsLong DEF f, g
    <3> QED
      BY <3>2, <3>5
  <2> QED
    BY <2>1, <2>2
<1> HIDE DEF T
<1>6. Nat \subseteq T
  BY <1>4, <1>5, Induction
<1> SUFFICES ASSUME NEW r \in R PROVE Spells(xs, ys, h[r], r)
  OBVIOUS
<1>7. Size(r) \in T /\ Size(r) <= Size(r)
  BY <1>1, <1>6
<1> QED
  BY <1>7 DEF T

LEMMA HirschbergIs ==
  ASSUME NEW E, NEW xs \in Seq(E), NEW ys \in Seq(E)
  PROVE  /\ lcs3(xs, ys).text \in Common(xs, ys)
         /\ Len(lcs3(xs, ys).text) = LcsLength(xs, ys)
         /\ lcs3(xs, ys).text = set_lcs(xs, lcs3(xs, ys).members)
<1> DEFINE P(h) == h = MarkedTurn(xs, ys, h)
           marked == CHOOSE h : P(h)
           all == <<0, Len(xs), 0, Len(ys)>>
           M == marked[all]
<1>1. calculate_lcs(xs, ys) = M
  BY DEF calculate_lcs, MarkedTurn, MarkedAt, FrontHalf, BackHalf, CutAt, Mid, Slice
<1>2. \E h : P(h)
  BY MarkedExists
<1> HIDE DEF P
<1>3. P(marked)
  BY <1>2
<1> HIDE DEF marked
<1>4. \A r \in Ranges(xs, ys) : Spells(xs, ys, marked[r], r)
  BY <1>3, MarkedIs DEF P
<1>5. all \in Ranges(xs, ys) /\ Len(xs) \in Nat /\ Len(ys) \in Nat
  BY LenProperties DEF Ranges
<1>6. Slice(xs, 0, Len(xs)) = xs /\ Slice(ys, 0, Len(ys)) = ys
  BY <1>5, SubSeqFull DEF Slice
<1>7. all[1] = 0 /\ all[2] = Len(xs) /\ all[3] = 0 /\ all[4] = Len(ys)
  OBVIOUS
<1> HIDE DEF all
<1>8. M \in SUBSET (1 .. Len(xs)) /\ Picked(xs, M) \in Common(xs, ys)
        /\ Len(Picked(xs, M)) = LcsLength(xs, ys)
  <2>1. Spells(xs, ys, M, all)
    BY <1>4, <1>5
  <2>2. 0 + 1 = 1
    OBVIOUS
  <2> HIDE DEF M
  <2> QED
    BY <1>6, <1>7, <2>1, <2>2 DEF Spells, RangeLcs
<1> HIDE DEF M
<1>9. set_lcs(xs, M) = Picked(xs, M)
  BY <1>8, KeptIs
<1>10. lcs3(xs, ys).text = set_lcs(xs, M) /\ lcs3(xs, ys).members = M
  BY <1>1 DEF lcs3
<1> QED
  BY <1>8, <1>9, <1>10

(* lcs_string (main.cpp:275, longestCommonSubsequence.hpp:63-167) returns  *)
(* a subsequence of both byte strings, no common one is longer, and it is  *)
(* what the marked positions of str1 spell.                                *)
THEOREM LcsStringIsCorrect == Spec => []LcsStringCorrect
<1>1. ListInv => LcsStringCorrect
  <2> SUFFICES ASSUME ListInv, NEW i \in Results("lcs_string")
               PROVE  /\ ls[i].text \in Subsequences(str1) \cap Subsequences(str_list[i])
                      /\ Len(ls[i].text) = LcsLength(str1, str_list[i])
                      /\ ls[i].text = set_lcs(str1, ls[i].members)
    BY DEF LcsStringCorrect
  <2>1. ls[i] = Result("lcs_string", str1, str_list[i]) /\ str_list[i] \in Seq(Bytes)
    BY AnswerIs
  <2>2. ls[i] = lcs3(str1, str_list[i]) /\ str1 \in Seq(Bytes)
    BY <2>1 DEF Result, ListInv, lcs_string
  <2> DEFINE t == str_list[i]
  <2>3. t \in Seq(Bytes)
    BY <2>1
  <2>4. ls[i] = lcs3(str1, t)
    BY <2>2
  <2> HIDE DEF t
  <2>5. /\ lcs3(str1, t).text \in Common(str1, t)
        /\ Len(lcs3(str1, t).text) = LcsLength(str1, t)
        /\ lcs3(str1, t).text = set_lcs(str1, lcs3(str1, t).members)
    BY <2>2, <2>3, HirschbergIs
  <2> QED
    BY <2>4, <2>5 DEF Common, t
<1> QED
  BY <1>1, ListInvAlways, PTL
=============================================================================
