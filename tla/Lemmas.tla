-------------------------------- MODULE Lemmas --------------------------------
(***************************************************************************)
(* What the proofs of several components need: remainders, the smallest    *)
(* member of a set, induction over the naturals, and what SeqRef's         *)
(* definitions by enumeration come to, element by element and part by      *)
(* part, for sequences of any length over any elements.                    *)
(***************************************************************************)
EXTENDS SeqRef, FiniteSetTheorems, SequenceTheorems, WellFoundedInduction, TLAPS

(* A multiple of n that lies strictly above -n and no higher than n.       *)
LEMMA SmallMultiple ==
  ASSUME NEW n \in Nat \ {0}, NEW d \in Int, -n < n * d, n * d <= n
  PROVE  d = 0 \/ d = 1
<1>1. CASE d >= 2
  <2>1. n * d >= n * 2
    BY <1>1
  <2> QED
    BY <2>1
<1>2. CASE d <= -1
  <2>1. n * d <= n * (-1)
    BY <1>2
  <2> QED
    BY <2>1
<1> QED
  BY <1>1, <1>2

LEMMA Division ==
  ASSUME NEW n \in Nat \ {0}, NEW k \in Nat
  PROVE  /\ k = n * (k \div n) + (k % n) /\ k \div n \in Int
         /\ k % n \in 0 .. n - 1
OBVIOUS

(* An index that goes round a buffer of n bytes is the count of the steps, *)
(* modulo n.                                                               *)
LEMMA NextRemainder ==
  ASSUME NEW n \in Nat \ {0}, NEW k \in Nat
  PROVE  (k + 1) % n = IF (k % n) + 1 = n THEN 0 ELSE (k % n) + 1
<1> DEFINE q == k \div n
           p == (k + 1) \div n
           r == k % n
           s == (k + 1) % n
<1>1. k = n * q + r /\ q \in Int /\ r \in 0 .. n - 1
  BY Division
<1>2. k + 1 = n * p + s /\ p \in Int /\ s \in 0 .. n - 1
  BY Division
<1> HIDE DEF q, p, r, s
<1>3. n * p - n * q = n * (p - q)
  BY <1>1, <1>2
<1>4. n * (p - q) = r + 1 - s
  BY <1>1, <1>2, <1>3
<1>5. p - q = 0 \/ p - q = 1
  BY <1>1, <1>2, <1>4, SmallMultiple
<1>6. r + 1 = s \/ r + 1 = s + n
  BY <1>4, <1>5, <1>1, <1>2
<1>7. s = IF r + 1 = n THEN 0 ELSE r + 1
  BY <1>6, <1>1, <1>2
<1> QED
  BY <1>7 DEF r, s

LEMMA WholeTurn ==
  ASSUME NEW n \in Nat \ {0}, NEW i \in 0 .. n - 1
  PROVE  i % n = i /\ (i + n) % n = i
OBVIOUS

LEMMA RemainderAtMost ==
  ASSUME NEW n \in Nat \ {0}, NEW k \in Nat
  PROVE  k % n \in 0 .. n - 1 /\ k % n <= k
<1>1. CASE k < n
  BY <1>1, WholeTurn
<1>2. CASE k >= n
  BY <1>2, Division
<1> QED
  BY <1>1, <1>2, Division

(* The smallest member of a set of naturals is one of them.                *)
LEMMA MinIsLeast ==
  ASSUME NEW S \in SUBSET Nat, S # {}
  PROVE  Min(S) \in S /\ \A y \in S : Min(S) <= y
<1>1. PICK x \in S : \A y \in S : ~ (<<y, x>> \in OpToRel(<, Nat))
  BY WFMin, NatLessThanWellFounded
<1>2. \A y \in S : <<y, x>> \in OpToRel(<, Nat) <=> y < x
  BY Z3 DEF OpToRel
<1>3. \A y \in S : ~ (y < x)
  BY <1>1, <1>2, Zenon
<1>4. \A y \in S : x <= y
  BY <1>3
<1> QED
  BY <1>4 DEF Min

(* What holds of 0 and of n + 1 when of n holds of all naturals. *)
LEMMA Induction ==
  ASSUME NEW S, 0 \in S, \A n \in Nat : n \in S => n + 1 \in S
  PROVE  Nat \subseteq S
<1> DEFINE T == Nat \ S
<1> SUFFICES ASSUME T # {} PROVE FALSE
  OBVIOUS
<1>1. T \in SUBSET Nat
  OBVIOUS
<1> HIDE DEF T
<1>2. Min(T) \in T /\ \A y \in T : Min(T) <= y
  BY <1>1, MinIsLeast
<1> DEFINE m == Min(T)
<1>3. m \in T /\ \A y \in T : m <= y
  BY <1>2
<1> HIDE DEF m
<1>4. m \in Nat /\ m \notin S /\ m # 0
  BY <1>3 DEF T
<1>5. m - 1 \in Nat /\ m - 1 \in S
  BY <1>3, <1>4 DEF T
<1>6. (m - 1) + 1 \in S
  BY <1>5
<1> QED
  BY <1>4, <1>6

(* A prime does not divide a product of two smaller positive numbers.      *)
LEMMA PrimeDivides ==
  ASSUME NEW n \in Nat, n >= 2, \A d \in 2 .. n - 1 : n % d # 0,
         NEW a \in 1 .. n - 1, NEW x \in 1 .. n - 1, NEW c \in Int
  PROVE  x * a # n * c
<1> DEFINE S == {y \in Nat : y > 0 /\ \E e \in Int : y * a = n * e}
<1> SUFFICES ASSUME x * a = n * c PROVE FALSE
  OBVIOUS
<1>1. S \in SUBSET Nat /\ x \in S
  OBVIOUS
<1> DEFINE m == Min(S)
<1> HIDE DEF S
<1>2. m \in S /\ \A y \in S : m <= y
  BY <1>1, MinIsLeast
<1> HIDE DEF m
<1>3. m \in Nat /\ m > 0 /\ m <= x
  BY <1>1, <1>2 DEF S
<1>4. PICK e \in Int : m * a = n * e
  BY <1>2 DEF S
<1>5. n % m = 0
  <2> DEFINE q == n \div m
             r == n % m
  <2>1. n = m * q + r /\ q \in Int /\ r \in 0 .. m - 1
    BY <1>3, Division
  <2> SUFFICES ASSUME r # 0 PROVE FALSE
    OBVIOUS
  <2> HIDE DEF q, r
  <2>2. r * a = n * a - (m * q) * a
    <3>1. r = n - m * q
      BY <1>3, <2>1
    <3>2. m * q \in Int
      BY <1>3, <2>1
    <3> DEFINE z == m * q
    <3> HIDE DEF z
    <3>3. (n - z) * a = n * a - z * a
      BY <3>2 DEF z
    <3> QED
      BY <3>1, <3>3 DEF z
  <2>3. (m * q) * a = (m * a) * q
    BY <1>3, <2>1
  <2>4. (m * a) * q = n * (e * q)
    <3>1. (n * e) * q = n * (e * q)
      BY <2>1
    <3> QED
      BY <1>4, <3>1
  <2>5. n * a - n * (e * q) = n * (a - e * q)
    <3> DEFINE w == e * q
    <3>1. w \in Int
      BY <2>1
    <3> HIDE DEF w
    <3>2. n * a - n * w = n * (a - w)
      BY <3>1
    <3> QED
      BY <3>2 DEF w
  <2>6. r * a = n * (a - e * q) /\ a - e * q \in Int
    BY <2>1, <2>2, <2>3, <2>4, <2>5
  <2>7. r \in S
    BY <2>1, <2>6 DEF S
  <2> QED
    BY <1>2, <1>3, <2>1, <2>7
<1>6. CASE m = 1
  <2>1. a = n * e
    BY <1>4, <1>6
  <2>2. e >= 1 \/ e <= 0
    OBVIOUS
  <2>3. e >= 1 => n * e >= n
    OBVIOUS
  <2>4. e <= 0 => n * e <= 0
    OBVIOUS
  <2> QED
    BY <2>1, <2>2, <2>3, <2>4
<1>7. CASE m # 1
  <2>1. m \in 2 .. n - 1
    BY <1>3, <1>7
  <2> QED
    BY <1>5, <2>1
<1> QED
  BY <1>6, <1>7

(* Steps of a around a circle of n places, n a prime, visit each once.     *)
LEMMA Circling ==
  ASSUME NEW n \in Nat, n >= 2, \A d \in 2 .. n - 1 : n % d # 0,
         NEW a \in 1 .. n - 1, NEW h \in Nat,
         NEW i \in 0 .. n - 1, NEW j \in 0 .. n - 1, i < j
  PROVE  (h + i * a) % n # (h + j * a) % n
<1> DEFINE b == h + i * a
           e == h + j * a
<1> SUFFICES ASSUME b % n = e % n PROVE FALSE
  OBVIOUS
<1>1. i * a \in Nat /\ j * a \in Nat
  OBVIOUS
<1>2. b \in Nat /\ e \in Nat
  BY <1>1
<1>3. e - b = (j - i) * a
  <2> DEFINE u == i * a
             v == j * a
  <2>1. (j - i) * a = v - u
    OBVIOUS
  <2>2. u \in Int /\ v \in Int
    OBVIOUS
  <2> HIDE DEF u, v
  <2>3. (h + v) - (h + u) = v - u
    BY <2>2
  <2> QED
    BY <2>1, <2>3 DEF u, v
<1> HIDE DEF b, e
<1> DEFINE p == b \div n
           q == e \div n
           r == b % n
<1>4. b = n * p + r /\ p \in Int /\ r \in Int
  BY <1>2, Division
<1>5. e = n * q + r /\ q \in Int
  BY <1>2, Division
<1> HIDE DEF p, q, r
<1>6. (j - i) * a = n * (q - p)
  <2>1. n * (q - p) = n * q - n * p
    BY <1>4, <1>5
  <2>2. n * q \in Int /\ n * p \in Int
    BY <1>4, <1>5
  <2>3. e - b = n * q - n * p
    BY <1>2, <1>4, <1>5, <2>2
  <2> QED
    BY <1>3, <2>1, <2>3
<1>7. j - i \in 1 .. n - 1 /\ q - p \in Int
  BY <1>4, <1>5
<1> QED
  BY <1>6, <1>7, PrimeDivides

(* The largest member of a set of naturals that has a bound. *)
LEMMA MaxIsMost ==
  ASSUME NEW S \in SUBSET Nat, S # {}, NEW B \in Nat, \A x \in S : x <= B
  PROVE  Max(S) \in S /\ \A y \in S : y <= Max(S)
<1> DEFINE T == {B - x : x \in S}
<1>1. T \in SUBSET Nat /\ T # {}
  <2>1. \A x \in S : B - x \in Nat
    OBVIOUS
  <2> QED
    BY <2>1
<1>2. Min(T) \in T /\ \A y \in T : Min(T) <= y
  BY <1>1, MinIsLeast
<1>3. PICK x \in S : Min(T) = B - x
  BY <1>2
<1>4. \A y \in S : B - y \in T
  OBVIOUS
<1> HIDE DEF T
<1>5. \A y \in S : B - x <= B - y
  BY <1>2, <1>3, <1>4
<1>6. \A y \in S : x >= y
  BY <1>5
<1>7. Max(S) \in S /\ \A y \in S : Max(S) >= y
  BY <1>6, Zenon DEF Max
<1> QED
  BY <1>7

LEMMA MaxIs ==
  ASSUME NEW S \in SUBSET Nat, NEW x \in S, \A y \in S : y <= x
  PROVE  Max(S) = x
<1>1. Max(S) \in S /\ \A y \in S : y <= Max(S)
  BY MaxIsMost
<1>2. x <= Max(S) /\ Max(S) <= x /\ Max(S) \in Nat /\ x \in Nat
  BY <1>1
<1> QED
  BY <1>2

LEMMA MinIs ==
  ASSUME NEW S \in SUBSET Nat, NEW x \in S, \A y \in S : x <= y
  PROVE  Min(S) = x
<1>1. Min(S) \in S /\ \A y \in S : Min(S) <= y
  BY MinIsLeast
<1>2. x >= Min(S) /\ Min(S) >= x /\ Min(S) \in Nat /\ x \in Nat
  BY <1>1
<1> QED
  BY <1>2

----------------------------------------------------------------------------
(* Nth counts the members of a set in ascending order. *)

Below(S, x) == {y \in S : y < x}

LEMMA BelowFinite ==
  ASSUME NEW S \in SUBSET Nat, IsFiniteSet(S), NEW x
  PROVE  IsFiniteSet(Below(S, x)) /\ Cardinality(Below(S, x)) \in Nat
BY FS_Subset, FS_CardinalityType DEF Below

LEMMA RankStrict ==
  ASSUME NEW S \in SUBSET Nat, IsFiniteSet(S), NEW x \in S, NEW y \in S, x < y
  PROVE  Cardinality(Below(S, x)) < Cardinality(Below(S, y))
<1>1. Below(S, x) \subseteq Below(S, y) /\ x \in Below(S, y) /\ x \notin Below(S, x)
  <2>1. x \in Nat /\ y \in Nat /\ \A z \in S : z \in Nat /\ (z < x => z < y)
    OBVIOUS
  <2>2. ~ (x < x)
    BY <2>1
  <2> QED
    BY <2>1, <2>2, Zenon DEF Below
<1>2. /\ IsFiniteSet(Below(S, y)) /\ Cardinality(Below(S, y)) \in Nat
      /\ Cardinality(Below(S, x)) \in Nat
  BY BelowFinite
<1>3. Cardinality(Below(S, x)) <= Cardinality(Below(S, y))
  BY <1>1, <1>2, FS_Subset
<1>4. Cardinality(Below(S, x)) # Cardinality(Below(S, y))
  BY <1>1, <1>2, FS_Subset
<1> QED
  BY <1>2, <1>3, <1>4

LEMMA RankInjective ==
  ASSUME NEW S \in SUBSET Nat, IsFiniteSet(S), NEW x \in S, NEW y \in S,
         Cardinality(Below(S, x)) = Cardinality(Below(S, y))
  PROVE  x = y
<1>1. x \in Nat /\ y \in Nat /\ Cardinality(Below(S, x)) \in Nat
  BY BelowFinite
<1>2. ~ (x < y) /\ ~ (y < x)
  BY <1>1, RankStrict
<1> QED
  BY <1>1, <1>2

(* The i-th member is the one with i - 1 below it. *)
LEMMA NthIs ==
  ASSUME NEW S \in SUBSET Nat, IsFiniteSet(S), NEW x \in S,
         NEW i, i - 1 = Cardinality(Below(S, x))
  PROVE  Nth(S, i) = x
<1>1. Nth(S, i) \in S /\ Cardinality(Below(S, Nth(S, i))) = i - 1
  BY DEF Nth, Below
<1> DEFINE y == Nth(S, i)
<1>2. y \in S /\ Cardinality(Below(S, y)) = Cardinality(Below(S, x))
  BY <1>1
<1> HIDE DEF y
<1>3. y = x
  BY <1>2, RankInjective, Zenon
<1> QED
  BY <1>3 DEF y

(* There is one as long as i is no more than the count. *)
LEMMA NthExists ==
  ASSUME NEW S \in SUBSET Nat, IsFiniteSet(S), NEW i \in 1 .. Cardinality(S)
  PROVE  Nth(S, i) \in S /\ Cardinality(Below(S, Nth(S, i))) = i - 1
<1> DEFINE N == Cardinality(S)
           f == [x \in S |-> Cardinality(Below(S, x)) + 1]
<1>1. N \in Nat /\ IsFiniteSet(1 .. N) /\ Cardinality(1 .. N) = N
  BY FS_CardinalityType, FS_Interval
<1>2. \A x \in S : Cardinality(Below(S, x)) + 1 \in 1 .. N
  <2> SUFFICES ASSUME NEW x \in S PROVE Cardinality(Below(S, x)) + 1 \in 1 .. N
    OBVIOUS
  <2>1. Below(S, x) \subseteq S /\ x \notin Below(S, x)
    BY DEF Below
  <2>2. Cardinality(Below(S, x)) <= N /\ Cardinality(Below(S, x)) # N
    BY <2>1, FS_Subset
  <2>3. Cardinality(Below(S, x)) \in Nat
    BY BelowFinite
  <2> QED
    BY <1>1, <2>2, <2>3
<1>3. f \in [S -> 1 .. N]
  BY <1>2
<1>4. \A x, y \in S : f[x] = f[y] => x = y
  <2> SUFFICES ASSUME NEW x \in S, NEW y \in S, f[x] = f[y] PROVE x = y
    OBVIOUS
  <2>1. Cardinality(Below(S, x)) \in Nat /\ Cardinality(Below(S, y)) \in Nat
    BY BelowFinite
  <2>2. Cardinality(Below(S, x)) = Cardinality(Below(S, y))
    BY <2>1
  <2> QED
    BY <2>2, RankInjective
<1> HIDE DEF f
<1>5. f \in Injection(S, 1 .. N)
  BY <1>3, <1>4 DEF Injection, IsInjective
<1>6. f \in Surjection(S, 1 .. N)
  BY <1>1, <1>5, FS_Injection
<1>7. PICK x \in S : f[x] = i
  BY <1>6 DEF Surjection
<1>8. Cardinality(Below(S, x)) = i - 1
  <2>1. Cardinality(Below(S, x)) \in Nat /\ f[x] = Cardinality(Below(S, x)) + 1
    BY BelowFinite DEF f
  <2> QED
    BY <1>7, <2>1
<1> QED
  BY <1>8, NthIs

----------------------------------------------------------------------------
(* A subsequence of Append(s, e) leaves e out or ends in it. *)

Picked(s, kept) == [i \in 1 .. Cardinality(kept) |-> s[Nth(kept, i)]]

LEMMA PickedSeq ==
  ASSUME NEW E, NEW s \in Seq(E), NEW kept \in SUBSET (1 .. Len(s))
  PROVE  /\ kept \in SUBSET Nat /\ IsFiniteSet(kept) /\ Cardinality(kept) \in 0 .. Len(s)
         /\ Picked(s, kept) \in Seq(E) /\ Len(Picked(s, kept)) = Cardinality(kept)
<1>1. Len(s) \in Nat /\ IsFiniteSet(1 .. Len(s)) /\ Cardinality(1 .. Len(s)) = Len(s)
  <2>1. Len(s) \in Nat
    BY LenProperties
  <2> QED
    BY SMTT(30), <2>1, FS_Interval
<1>2. IsFiniteSet(kept) /\ Cardinality(kept) <= Len(s)
  BY <1>1, FS_Subset
<1>3. Cardinality(kept) \in Nat /\ kept \in SUBSET Nat
  BY <1>2, FS_CardinalityType
<1>4. \A i \in 1 .. Cardinality(kept) : s[Nth(kept, i)] \in E
  <2> SUFFICES ASSUME NEW i \in 1 .. Cardinality(kept) PROVE s[Nth(kept, i)] \in E
    OBVIOUS
  <2>1. Nth(kept, i) \in 1 .. Len(s)
    BY <1>2, <1>3, NthExists
  <2> QED
    BY <2>1, ElementOfSeq
<1> DEFINE n == Cardinality(kept)
<1> HIDE DEF n
<1>5. \A i \in 1 .. n : s[Nth(kept, i)] \in E
  BY <1>4 DEF n
<1>6. [i \in 1 .. n |-> s[Nth(kept, i)]] \in Seq(E) /\ Len([i \in 1 .. n |-> s[Nth(kept, i)]]) = n
  BY <1>3, <1>5, IsASeq DEF n
<1> QED
  BY <1>1, <1>2, <1>3, <1>6 DEF n, Picked

LEMMA PickedLeave ==
  ASSUME NEW E, NEW s \in Seq(E), NEW kept \in SUBSET (1 .. Len(s)), NEW e \in E
  PROVE  Picked(Append(s, e), kept) = Picked(s, kept)
<1>1. \A i \in 1 .. Cardinality(kept) : Nth(kept, i) \in 1 .. Len(s)
  BY PickedSeq, NthExists
<1>2. \A k \in 1 .. Len(s) : Append(s, e)[k] = s[k]
  BY AppendProperties
<1> QED
  BY <1>1, <1>2 DEF Picked

LEMMA PickedKeep ==
  ASSUME NEW E, NEW s \in Seq(E), NEW e \in E, NEW kept \in SUBSET (1 .. Len(s)),
         NEW more, more = kept \cup {Len(s) + 1}
  PROVE  Picked(Append(s, e), more) = Append(Picked(s, kept), e)
<1> DEFINE m == Len(s)
           c == Cardinality(kept)
           t == Append(s, e)
           x == Picked(s, kept)
           y == Picked(t, more)
<1>1. /\ kept \in SUBSET Nat /\ IsFiniteSet(kept) /\ c \in Nat
      /\ x \in Seq(E) /\ Len(x) = c /\ m \in Nat
  BY PickedSeq, LenProperties
<1>2. t \in Seq(E) /\ Len(t) = m + 1 /\ t[m + 1] = e /\ \A k \in 1 .. m : t[k] = s[k]
  BY AppendProperties
<1>3. m + 1 \notin kept /\ more \in SUBSET (1 .. Len(t))
  <2>1. kept \in SUBSET (1 .. m)
    OBVIOUS
  <2> HIDE DEF m
  <2>2. \A k \in 1 .. m : k # m + 1 /\ k \in 1 .. m + 1
    BY <1>1
  <2>3. m + 1 \in 1 .. m + 1
    BY <1>1
  <2>4. m + 1 \notin kept /\ kept \cup {m + 1} \subseteq 1 .. m + 1
    BY <2>1, <2>2, <2>3
  <2> QED
    BY <1>2, <2>4
<1>4. /\ more \in SUBSET Nat /\ IsFiniteSet(more) /\ y \in Seq(E) /\ Len(y) = Cardinality(more)
  <2> HIDE DEF t
  <2> QED
    BY <1>2, <1>3, PickedSeq
<1>5. Cardinality(more) = c + 1
  BY <1>1, <1>3, FS_AddElement
<1>6. \A i \in 1 .. c : y[i] = x[i]
  <2> SUFFICES ASSUME NEW i \in 1 .. c PROVE y[i] = x[i]
    OBVIOUS
  <2> DEFINE k == Nth(kept, i)
  <2>1. k \in kept /\ Cardinality(Below(kept, k)) = i - 1
    BY <1>1, NthExists
  <2>5. x[i] = s[k]
    BY <1>1 DEF Picked
  <2> HIDE DEF k
  <2>2. k \in 1 .. m /\ k \in more
    BY <2>1
  <2>3. Below(more, k) = Below(kept, k)
    BY <1>1, <2>2 DEF Below
  <2>4. Nth(more, i) = k
    BY <1>4, <2>1, <2>2, <2>3, NthIs
  <2>6. y[i] = t[k]
    <3> HIDE DEF t
    <3>1. i \in 1 .. Cardinality(more)
      BY <1>1, <1>5
    <3> QED
      BY <2>4, <3>1 DEF Picked
  <2> QED
    BY <1>2, <2>2, <2>5, <2>6
<1>7. y[c + 1] = e
  <2>1. Below(more, m + 1) = kept /\ m + 1 \in more
    <3>1. kept \in SUBSET (1 .. m)
      OBVIOUS
    <3>4. more = kept \cup {m + 1}
      OBVIOUS
    <3> HIDE DEF m
    <3>2. \A k \in 1 .. m : k < m + 1
      BY <1>1
    <3>3. ~ (m + 1 < m + 1)
      BY <1>1
    <3> QED
      BY <3>1, <3>2, <3>3, <3>4 DEF Below
  <2>2. Nth(more, c + 1) = m + 1
    BY <1>1, <1>4, <2>1, NthIs
  <2> QED
    BY <1>1, <1>2, <1>5, <2>2 DEF Picked
<1>8. Append(x, e) \in Seq(E) /\ Len(Append(x, e)) = c + 1
      /\ Append(x, e)[c + 1] = e /\ \A i \in 1 .. c : Append(x, e)[i] = x[i]
  BY <1>1, AppendProperties
<1> HIDE DEF c, x, y, m, t
<1>9. \A i \in 1 .. c + 1 : y[i] = Append(x, e)[i]
  <2>1. \A i \in 1 .. c + 1 : i \in 1 .. c \/ i = c + 1
    BY <1>1
  <2> QED
    BY <1>6, <1>7, <1>8, <2>1
<1>10. y = Append(x, e)
  BY <1>4, <1>5, <1>8, <1>9, SeqEqual
<1> QED
  BY <1>10 DEF x, y, m, t

LEMMA SubsequencesType ==
  ASSUME NEW E, NEW s \in Seq(E), NEW x \in Subsequences(s)
  PROVE  x \in Seq(E) /\ Len(x) \in 0 .. Len(s)
<1>1. DOMAIN s = 1 .. Len(s)
  BY LenProperties
<1>2. PICK kept \in SUBSET (1 .. Len(s)) : x = Picked(s, kept)
  BY <1>1 DEF Subsequences, Picked
<1> QED
  BY <1>2, PickedSeq

LEMMA SubsequencesEmpty == Subsequences(<<>>) = {<<>>}
<1>1. DOMAIN <<>> = {} /\ Cardinality({}) = 0
  BY FS_EmptySet
<1>2. Picked(<<>>, {}) = <<>>
  BY <1>1 DEF Picked
<1>3. Subsequences(<<>>) = {Picked(<<>>, {})}
  BY <1>1 DEF Subsequences, Picked
<1> QED
  BY <1>2, <1>3

LEMMA SubsequencesAppend ==
  ASSUME NEW E, NEW s \in Seq(E), NEW e \in E
  PROVE  Subsequences(Append(s, e)) = Subsequences(s) \cup {Append(x, e) : x \in Subsequences(s)}
<1> DEFINE m == Len(s)
           t == Append(s, e)
<1>1. /\ m \in Nat /\ DOMAIN s = 1 .. m
      /\ t \in Seq(E) /\ DOMAIN t = 1 .. m + 1
  BY LenProperties, AppendProperties
<1>2. \A x : x \in Subsequences(s) <=> \E kept \in SUBSET (1 .. m) : x = Picked(s, kept)
  BY <1>1 DEF Subsequences, Picked
<1>3. \A x : x \in Subsequences(t) <=> \E kept \in SUBSET (1 .. m + 1) : x = Picked(t, kept)
  BY <1>1 DEF Subsequences, Picked
<1>4. \A kept \in SUBSET (1 .. m) : /\ Picked(t, kept) = Picked(s, kept)
                                   /\ Picked(t, kept \cup {m + 1}) = Append(Picked(s, kept), e)
  <2> SUFFICES ASSUME NEW kept \in SUBSET (1 .. m)
               PROVE  /\ Picked(t, kept) = Picked(s, kept)
                      /\ Picked(t, kept \cup {m + 1}) = Append(Picked(s, kept), e)
    OBVIOUS
  <2>1. Picked(t, kept) = Picked(s, kept)
    BY PickedLeave
  <2>2. Picked(t, kept \cup {m + 1}) = Append(Picked(s, kept), e)
    <3> DEFINE more == kept \cup {Len(s) + 1}
    <3>1. more = kept \cup {Len(s) + 1}
      OBVIOUS
    <3> HIDE DEF more
    <3>2. Picked(Append(s, e), more) = Append(Picked(s, kept), e)
      BY <3>1, PickedKeep
    <3> QED
      BY <3>2 DEF more
  <2> QED
    BY <2>1, <2>2
<1> HIDE DEF t, m
<1>5. m + 1 \in 1 .. m + 1 /\ \A k : k \in 1 .. m <=> k \in 1 .. m + 1 /\ k # m + 1
  BY <1>1
<1>6. ASSUME NEW x \in Subsequences(t)
      PROVE  x \in Subsequences(s) \cup {Append(y, e) : y \in Subsequences(s)}
  <2>1. PICK kept \in SUBSET (1 .. m + 1) : x = Picked(t, kept)
    BY <1>3, <1>6
  <2>2. CASE m + 1 \notin kept
    <3>1. kept \in SUBSET (1 .. m)
      BY <1>1, <2>2
    <3> QED
      BY <1>2, <1>4, <2>1, <3>1
  <2>3. CASE m + 1 \in kept
    <3> DEFINE less == kept \ {m + 1}
    <3>1. less \in SUBSET (1 .. m) /\ kept = less \cup {m + 1}
      BY <1>5, <2>3
    <3> HIDE DEF less
    <3>2. x = Append(Picked(s, less), e) /\ Picked(s, less) \in Subsequences(s)
      BY <1>2, <1>4, <2>1, <3>1
    <3> QED
      BY <3>2
  <2> QED
    BY <2>2, <2>3
<1>7. ASSUME NEW x \in Subsequences(s)
      PROVE  x \in Subsequences(t) /\ Append(x, e) \in Subsequences(t)
  <2>1. PICK kept \in SUBSET (1 .. m) : x = Picked(s, kept)
    BY <1>2, <1>7
  <2>2. kept \in SUBSET (1 .. m + 1) /\ kept \cup {m + 1} \in SUBSET (1 .. m + 1)
    BY <1>5
  <2>3. x = Picked(t, kept) /\ Append(x, e) = Picked(t, kept \cup {m + 1})
    BY <1>4, <2>1
  <2> QED
    BY <1>3, <2>2, <2>3
<1> QED
  BY <1>6, <1>7 DEF t

----------------------------------------------------------------------------
(* What holds of <<>> and of Append(s, e) when of s holds of all sequences. *)
LEMMA SeqInduction ==
  ASSUME NEW E, NEW S, <<>> \in S,
         \A s \in Seq(E) : \A e \in E : s \in S => Append(s, e) \in S
  PROVE  Seq(E) \subseteq S
<1> DEFINE T == {n \in Nat : \A s \in Seq(E) : Len(s) = n => s \in S}
<1>1. 0 \in T
  BY EmptySeq
<1>2. \A n \in Nat : n \in T => n + 1 \in T
  <2> SUFFICES ASSUME NEW n \in Nat, n \in T, NEW s \in Seq(E), Len(s) = n + 1 PROVE s \in S
    OBVIOUS
  <2>1. s # <<>>
    BY EmptySeq
  <2>2. PICK r \in Seq(E), e \in E : s = Append(r, e)
    BY <2>1, SequenceEmptyOrAppend
  <2>3. Len(s) = Len(r) + 1 /\ Len(r) \in Nat
    BY <2>2, AppendProperties, LenProperties
  <2>4. r \in S
    BY <2>3
  <2> QED
    BY <2>2, <2>4
<1>3. Nat \subseteq T
  <2> HIDE DEF T
  <2> QED
    BY <1>1, <1>2, Induction
<1> QED
  BY <1>3, LenProperties

LEMMA EmptyIsSubsequence ==
  ASSUME NEW E, NEW s \in Seq(E)
  PROVE  <<>> \in Subsequences(s)
<1> DEFINE S == {r \in Seq(E) : <<>> \in Subsequences(r)}
<1>1. <<>> \in S
  BY SubsequencesEmpty, EmptySeq
<1>2. \A r \in Seq(E) : \A e \in E : r \in S => Append(r, e) \in S
  BY SubsequencesAppend, AppendProperties
<1> HIDE DEF S
<1>3. Seq(E) \subseteq S
  BY <1>1, <1>2, SeqInduction
<1> QED
  BY <1>3 DEF S

(* What a subsequence begins with is one. *)
LEMMA SubsequencesPrefix ==
  ASSUME NEW E, NEW s \in Seq(E), NEW x \in Seq(E), NEW e \in E,
         Append(x, e) \in Subsequences(s)
  PROVE  x \in Subsequences(s)
<1> DEFINE Closed(r) == \A y \in Seq(E) : \A f \in E :
                          Append(y, f) \in Subsequences(r) => y \in Subsequences(r)
           S == {r \in Seq(E) : Closed(r)}
<1>1. <<>> \in S
  <2>1. \A y \in Seq(E) : \A f \in E : Append(y, f) # <<>>
    BY AppendProperties
  <2> QED
    BY <2>1, SubsequencesEmpty, EmptySeq
<1>2. \A r \in Seq(E) : \A g \in E : r \in S => Append(r, g) \in S
  <2> SUFFICES ASSUME NEW r \in Seq(E), NEW g \in E, Closed(r),
                      NEW y \in Seq(E), NEW f \in E, Append(y, f) \in Subsequences(Append(r, g))
               PROVE  y \in Subsequences(Append(r, g))
    BY AppendProperties
  <2>1. Subsequences(Append(r, g)) = Subsequences(r) \cup {Append(z, g) : z \in Subsequences(r)}
    BY SubsequencesAppend
  <2>2. CASE Append(y, f) \in Subsequences(r)
    BY <2>1, <2>2
  <2>3. CASE Append(y, f) \in {Append(z, g) : z \in Subsequences(r)}
    <3>1. PICK z \in Subsequences(r) : Append(y, f) = Append(z, g)
      BY <2>3
    <3>2. z \in Seq(E)
      BY SubsequencesType
    <3>3. y = z
      BY <3>1, <3>2, AppendInjective
    <3> QED
      BY <2>1, <3>3
  <2> QED
    BY <2>1, <2>2, <2>3
<1> HIDE DEF S
<1>3. Seq(E) \subseteq S
  BY <1>1, <1>2, SeqInduction
<1> QED
  BY <1>3 DEF S

----------------------------------------------------------------------------
(* The length of a longest common subsequence, element by element. *)

Common(s, t) == Subsequences(s) \cap Subsequences(t)

LEMMA LcsLengthIs ==
  ASSUME NEW E, NEW s \in Seq(E), NEW t \in Seq(E)
  PROVE  /\ LcsLength(s, t) \in Nat
         /\ \E x \in Common(s, t) : Len(x) = LcsLength(s, t)
         /\ \A x \in Common(s, t) : Len(x) <= LcsLength(s, t)
<1> DEFINE L == {Len(x) : x \in Common(s, t)}
<1>1. \A x \in Common(s, t) : Len(x) \in 0 .. Len(s)
  BY SubsequencesType DEF Common
<1>2. Len(s) \in Nat
  BY LenProperties
<1>3. <<>> \in Common(s, t)
  BY EmptyIsSubsequence DEF Common
<1>4. LcsLength(s, t) = Max(L)
  BY DEF LcsLength, Common
<1>5. L \in SUBSET Nat /\ L # {} /\ \A n \in L : n <= Len(s)
  <2>1. \A x \in Common(s, t) : Len(x) \in Nat /\ Len(x) <= Len(s)
    BY <1>1, <1>2
  <2> QED
    BY <1>3, <2>1
<1>6. /\ \A n \in L : \E x \in Common(s, t) : Len(x) = n
      /\ \A x \in Common(s, t) : Len(x) \in L
  OBVIOUS
<1> HIDE DEF L
<1>7. Max(L) \in L /\ \A n \in L : n <= Max(L)
  BY <1>2, <1>5, MaxIsMost
<1> QED
  BY <1>4, <1>5, <1>6, <1>7

(* A longest common subsequence is known by being one and by the bound. *)
LEMMA LcsLengthIsThis ==
  ASSUME NEW E, NEW s \in Seq(E), NEW t \in Seq(E), NEW x \in Common(s, t),
         \A y \in Common(s, t) : Len(y) <= Len(x)
  PROVE  LcsLength(s, t) = Len(x)
<1>1. PICK z \in Common(s, t) : Len(z) = LcsLength(s, t)
  BY LcsLengthIs
<1>2. Len(z) <= Len(x) /\ Len(x) <= Len(z)
  BY <1>1, LcsLengthIs
<1>3. Len(z) \in Nat /\ Len(x) \in Nat
  BY SubsequencesType, LenProperties DEF Common
<1> QED
  BY <1>1, <1>2, <1>3

LEMMA LcsLengthNothing ==
  ASSUME NEW E, NEW s \in Seq(E)
  PROVE  LcsLength(<<>>, s) = 0 /\ LcsLength(s, <<>>) = 0
<1>1. <<>> \in Common(<<>>, s) /\ <<>> \in Common(s, <<>>) /\ <<>> \in Seq(E) /\ Len(<<>>) = 0
  BY EmptyIsSubsequence, EmptySeq DEF Common
<1>2. \A y : y \in Common(<<>>, s) \/ y \in Common(s, <<>>) => y = <<>>
  BY SubsequencesEmpty DEF Common
<1>3. /\ \A y \in Common(<<>>, s) : Len(y) <= Len(<<>>)
      /\ \A y \in Common(s, <<>>) : Len(y) <= Len(<<>>)
  BY <1>1, <1>2
<1>4. \A r \in Seq(E) : \A t \in Seq(E) : \A x \in Common(r, t) :
        (\A y \in Common(r, t) : Len(y) <= Len(x)) => LcsLength(r, t) = Len(x)
  BY LcsLengthIsThis
<1>5. LcsLength(<<>>, s) = Len(<<>>) /\ LcsLength(s, <<>>) = Len(<<>>)
  BY <1>1, <1>3, <1>4, Zenon
<1> QED
  BY <1>1, <1>5

LEMMA LcsLengthSame ==
  ASSUME NEW E, NEW s \in Seq(E), NEW t \in Seq(E), NEW e \in E
  PROVE  LcsLength(Append(s, e), Append(t, e)) = LcsLength(s, t) + 1
<1>1. /\ Subsequences(Append(s, e)) = Subsequences(s) \cup {Append(y, e) : y \in Subsequences(s)}
      /\ Subsequences(Append(t, e)) = Subsequences(t) \cup {Append(y, e) : y \in Subsequences(t)}
  BY SubsequencesAppend
<1>2. PICK x \in Common(s, t) : Len(x) = LcsLength(s, t)
  BY LcsLengthIs
<1>3. x \in Seq(E) /\ Len(x) \in Nat /\ Len(Append(x, e)) = Len(x) + 1
  BY SubsequencesType, LenProperties, AppendProperties DEF Common
<1>4. Append(x, e) \in Common(Append(s, e), Append(t, e))
  BY <1>1, <1>2 DEF Common
<1>5. ASSUME NEW y \in Common(Append(s, e), Append(t, e))
      PROVE  Len(y) <= Len(x) + 1
  <2>1. CASE y \in Common(s, t)
    <3>1. Len(y) <= Len(x) /\ Len(y) \in Nat
      BY <1>2, <2>1, LcsLengthIs, SubsequencesType, LenProperties DEF Common
    <3> QED
      BY <1>3, <3>1
  <2>2. CASE \E z \in Common(s, t) : y = Append(z, e)
    <3>1. PICK z \in Common(s, t) : y = Append(z, e)
      BY <2>2
    <3>2. z \in Seq(E) /\ Len(z) \in Nat /\ Len(z) <= Len(x)
      BY <1>2, LcsLengthIs, SubsequencesType, LenProperties DEF Common
    <3>3. Len(y) = Len(z) + 1
      BY <3>1, <3>2, AppendProperties
    <3> QED
      BY <1>3, <3>2, <3>3
  <2>3. \A z \in Seq(E) : /\ Append(z, e) \in Subsequences(s) => z \in Subsequences(s)
                          /\ Append(z, e) \in Subsequences(t) => z \in Subsequences(t)
    BY SubsequencesPrefix
  <2>4. \A z \in Subsequences(s) \cup Subsequences(t) : z \in Seq(E)
    BY SubsequencesType
  <2>5. \A z \in Seq(E) : \A w \in Seq(E) : Append(z, e) = Append(w, e) => z = w
    BY AppendInjective
  <2>6. /\ y \in Subsequences(s) \/ \E z \in Subsequences(s) : y = Append(z, e)
        /\ y \in Subsequences(t) \/ \E z \in Subsequences(t) : y = Append(z, e)
    BY <1>1 DEF Common
  <2>7. CASE ~ (y \in Subsequences(s) /\ y \in Subsequences(t))
    <3>1. PICK z \in Seq(E) : y = Append(z, e)
      BY <2>4, <2>6, <2>7
    <3>2. z \in Subsequences(s) /\ z \in Subsequences(t)
      BY <2>3, <2>4, <2>5, <2>6, <3>1
    <3> QED
      BY <2>2, <3>1, <3>2 DEF Common
  <2> QED
    BY <2>1, <2>7 DEF Common
<1>6. Append(s, e) \in Seq(E) /\ Append(t, e) \in Seq(E)
  BY AppendProperties
<1>7. \A y \in Common(Append(s, e), Append(t, e)) : Len(y) <= Len(Append(x, e))
  BY <1>3, <1>5
<1>8. LcsLength(Append(s, e), Append(t, e)) = Len(Append(x, e))
  BY <1>4, <1>6, <1>7, LcsLengthIsThis, Zenon
<1> QED
  BY <1>2, <1>3, <1>8

LEMMA LcsLengthDiffer ==
  ASSUME NEW E, NEW s \in Seq(E), NEW t \in Seq(E), NEW e \in E, NEW f \in E, e # f
  PROVE  LcsLength(Append(s, e), Append(t, f))
           = IF LcsLength(s, Append(t, f)) >= LcsLength(Append(s, e), t)
             THEN LcsLength(s, Append(t, f)) ELSE LcsLength(Append(s, e), t)
<1> DEFINE p == Append(s, e)
           q == Append(t, f)
<1>1. /\ Subsequences(p) = Subsequences(s) \cup {Append(y, e) : y \in Subsequences(s)}
      /\ Subsequences(q) = Subsequences(t) \cup {Append(y, f) : y \in Subsequences(t)}
      /\ p \in Seq(E) /\ q \in Seq(E)
  BY SubsequencesAppend, AppendProperties
<1>2. \A z \in Seq(E) : \A w \in Seq(E) : Append(z, e) # Append(w, f)
  BY AppendInjective
<1>3. \A z \in Subsequences(s) \cup Subsequences(t) : z \in Seq(E)
  BY SubsequencesType
<1> HIDE DEF p, q
<1>4. Common(p, q) = Common(s, q) \cup Common(p, t)
  BY <1>1, <1>2, <1>3 DEF Common
<1>5. /\ LcsLength(s, q) \in Nat /\ LcsLength(p, t) \in Nat /\ LcsLength(p, q) \in Nat
      /\ \A y \in Common(s, q) : Len(y) <= LcsLength(s, q)
      /\ \A y \in Common(p, t) : Len(y) <= LcsLength(p, t)
      /\ \A y \in Common(p, q) : Len(y) <= LcsLength(p, q)
  BY <1>1, LcsLengthIs
<1>6. PICK a \in Common(s, q) : Len(a) = LcsLength(s, q)
  BY <1>1, LcsLengthIs
<1>7. PICK b \in Common(p, t) : Len(b) = LcsLength(p, t)
  BY <1>1, LcsLengthIs
<1>8. PICK c \in Common(p, q) : Len(c) = LcsLength(p, q)
  BY <1>1, LcsLengthIs
<1>9. LcsLength(s, q) <= LcsLength(p, q) /\ LcsLength(p, t) <= LcsLength(p, q)
  BY <1>4, <1>5, <1>6, <1>7
<1>10. LcsLength(p, q) <= LcsLength(s, q) \/ LcsLength(p, q) <= LcsLength(p, t)
  BY <1>4, <1>5, <1>8
<1>11. LcsLength(p, q) = IF LcsLength(s, q) >= LcsLength(p, t) THEN LcsLength(s, q)
                         ELSE LcsLength(p, t)
  BY <1>5, <1>9, <1>10
<1> QED
  BY <1>11 DEF p, q

----------------------------------------------------------------------------
(* How a sequence begins. *)

LEMMA FirstElements ==
  ASSUME NEW E, NEW s \in Seq(E)
  PROVE  /\ Len(s) \in Nat
         /\ SubSeq(s, 1, 0) = <<>> /\ SubSeq(s, 1, Len(s)) = s
         /\ \A i \in 0 .. Len(s) : SubSeq(s, 1, i) \in Seq(E) /\ Len(SubSeq(s, 1, i)) = i
         /\ \A i \in 1 .. Len(s) : /\ s[i] \in E
                                   /\ SubSeq(s, 1, i) = Append(SubSeq(s, 1, i - 1), s[i])
<1>1. Len(s) \in Nat /\ \A i \in 1 .. Len(s) : s[i] \in E
  BY LenProperties, ElementOfSeq
<1>2. SubSeq(s, 1, 0) = <<>> /\ SubSeq(s, 1, Len(s)) = s
  BY SubSeqEmpty, SubSeqFull
<1>3. ASSUME NEW i \in 0 .. Len(s)
      PROVE  SubSeq(s, 1, i) \in Seq(E) /\ Len(SubSeq(s, 1, i)) = i
                /\ \A k \in 1 .. i : SubSeq(s, 1, i)[k] = s[k]
  <2>1. i \in Nat /\ 1 \in Int /\ i \in Int /\ \A k \in 1 .. i : k \in 1 .. Len(s) /\ s[k] \in E
    BY <1>1
  <2>2. /\ SubSeq(s, 1, i) \in Seq(E)
        /\ Len(SubSeq(s, 1, i)) = IF 1 <= i THEN i - 1 + 1 ELSE 0
        /\ \A k \in 1 .. i - 1 + 1 : SubSeq(s, 1, i)[k] = s[1 + k - 1]
    BY <2>1, SubSeqProperties
  <2>3. i - 1 + 1 = i /\ \A k \in 1 .. i : 1 + k - 1 = k
    BY <2>1
  <2> QED
    BY <2>1, <2>2, <2>3
<1>4. ASSUME NEW i \in 1 .. Len(s)
      PROVE  SubSeq(s, 1, i) = Append(SubSeq(s, 1, i - 1), s[i])
  <2> DEFINE p == SubSeq(s, 1, i)
             q == SubSeq(s, 1, i - 1)
  <2>1. /\ i \in 0 .. Len(s) /\ i - 1 \in 0 .. Len(s) /\ i \in Nat /\ i \in 1 .. i /\ s[i] \in E
        /\ \A k \in 1 .. i : k \in 1 .. i - 1 \/ k = i
        /\ (i - 1) + 1 = i
    BY <1>1
  <2>2. /\ p \in Seq(E) /\ Len(p) = i /\ \A k \in 1 .. i : p[k] = s[k]
        /\ q \in Seq(E) /\ Len(q) = i - 1 /\ \A k \in 1 .. i - 1 : q[k] = s[k]
    BY <1>3, <2>1
  <2> HIDE DEF p, q
  <2>3. /\ Append(q, s[i]) \in Seq(E) /\ Len(Append(q, s[i])) = i
        /\ \A k \in 1 .. i - 1 : Append(q, s[i])[k] = q[k]
        /\ Append(q, s[i])[i] = s[i]
    BY <2>1, <2>2, AppendProperties
  <2>4. \A k \in 1 .. i : p[k] = Append(q, s[i])[k]
    BY <2>1, <2>2, <2>3
  <2>5. p = Append(q, s[i])
    BY <2>2, <2>3, <2>4, SeqEqual
  <2> QED
    BY <2>5 DEF p, q
<1> QED
  BY <1>1, <1>2, <1>3, <1>4

(***************************************************************************)
(* Subsequences of a concatenation are those of the parts, one behind the  *)
(* other.                                                                  *)
(***************************************************************************)

LEMMA ConcatAppend ==
  ASSUME NEW E, NEW s \in Seq(E), NEW t \in Seq(E), NEW e \in E
  PROVE  s \o Append(t, e) = Append(s \o t, e)
<1>1. <<e>> \in Seq(E) /\ s \o t \in Seq(E)
  BY ConcatProperties
<1>2. Append(t, e) = t \o <<e>> /\ Append(s \o t, e) = (s \o t) \o <<e>>
  BY <1>1, AppendIsConcat
<1>3. (s \o t) \o <<e>> = s \o (t \o <<e>>)
  BY <1>1, ConcatAssociative
<1> QED
  BY <1>2, <1>3

LEMMA SubsequencesJoin ==
  ASSUME NEW E, NEW s \in Seq(E), NEW t \in Seq(E),
         NEW a \in Subsequences(s), NEW b \in Subsequences(t)
  PROVE  a \o b \in Subsequences(s \o t)
<1> DEFINE Joins(r) == \A y \in Subsequences(r) : a \o y \in Subsequences(s \o r)
           S == {r \in Seq(E) : Joins(r)}
<1>1. a \in Seq(E)
  BY SubsequencesType
<1>2. <<>> \in S
  <2>1. s \o <<>> = s /\ a \o <<>> = a
    BY <1>1, ConcatEmptySeq
  <2> QED
    BY <2>1, SubsequencesEmpty, EmptySeq
<1>3. \A r \in Seq(E) : \A e \in E : r \in S => Append(r, e) \in S
  <2> SUFFICES ASSUME NEW r \in Seq(E), NEW e \in E, Joins(r),
                      NEW y \in Subsequences(Append(r, e))
               PROVE  a \o y \in Subsequences(s \o Append(r, e))
    BY AppendProperties
  <2>1. s \o r \in Seq(E) /\ s \o Append(r, e) = Append(s \o r, e)
    BY ConcatProperties, ConcatAppend
  <2>2. Subsequences(Append(s \o r, e))
          = Subsequences(s \o r) \cup {Append(x, e) : x \in Subsequences(s \o r)}
    BY ZenonT(60), <2>1, SubsequencesAppend
  <2>3. CASE y \in Subsequences(r)
    BY <2>1, <2>2, <2>3
  <2>4. CASE \E x \in Subsequences(r) : y = Append(x, e)
    <3>1. PICK x \in Subsequences(r) : y = Append(x, e)
      BY <2>4
    <3>2. x \in Seq(E)
      BY SubsequencesType
    <3>3. a \o y = Append(a \o x, e)
      BY <1>1, <3>1, <3>2, ConcatAppend
    <3> QED
      BY <2>1, <2>2, <3>3
  <2> QED
    BY <2>3, <2>4, SubsequencesAppend
<1> HIDE DEF S
<1>4. Seq(E) \subseteq S
  BY <1>2, <1>3, SeqInduction
<1> QED
  BY <1>4 DEF S

LEMMA SubsequencesSplit ==
  ASSUME NEW E
  PROVE  \A s, t \in Seq(E) : \A z \in Subsequences(s \o t) :
           \E a \in Subsequences(s) : \E b \in Subsequences(t) : z = a \o b
<1> SUFFICES ASSUME NEW s \in Seq(E), NEW t \in Seq(E), NEW z \in Subsequences(s \o t)
             PROVE  \E a \in Subsequences(s) : \E b \in Subsequences(t) : z = a \o b
  OBVIOUS
<1> DEFINE Splits2(r) == \A x \in Subsequences(s \o r) :
                          \E a \in Subsequences(s) : \E b \in Subsequences(r) : x = a \o b
           S == {r \in Seq(E) : Splits2(r)}
<1>1. <<>> \in S
  <2>1. s \o <<>> = s /\ \A a \in Seq(E) : a \o <<>> = a
    BY ConcatEmptySeq
  <2>2. \A a \in Subsequences(s) : a \in Seq(E)
    BY SubsequencesType
  <2> QED
    BY <2>1, <2>2, SubsequencesEmpty, EmptySeq
<1>2. \A r \in Seq(E) : \A e \in E : r \in S => Append(r, e) \in S
  <2> SUFFICES ASSUME NEW r \in Seq(E), NEW e \in E, Splits2(r),
                      NEW x \in Subsequences(s \o Append(r, e))
               PROVE  \E a \in Subsequences(s) : \E b \in Subsequences(Append(r, e)) : x = a \o b
    BY AppendProperties
  <2>1. s \o r \in Seq(E) /\ s \o Append(r, e) = Append(s \o r, e)
    BY ConcatProperties, ConcatAppend
  <2>2. Subsequences(Append(r, e)) = Subsequences(r) \cup {Append(y, e) : y \in Subsequences(r)}
    BY SubsequencesAppend
  <2>3. CASE x \in Subsequences(s \o r)
    BY <2>2, <2>3
  <2>4. CASE \E y \in Subsequences(s \o r) : x = Append(y, e)
    <3>1. PICK y \in Subsequences(s \o r) : x = Append(y, e)
      BY <2>4
    <3>2. PICK a \in Subsequences(s), b \in Subsequences(r) : y = a \o b
      OBVIOUS
    <3>3. a \in Seq(E) /\ b \in Seq(E)
      BY SubsequencesType
    <3>4. a \o Append(b, e) = Append(a \o b, e)
      BY <3>3, ConcatAppend
    <3>5. x = a \o Append(b, e)
      BY <3>1, <3>2, <3>4
    <3> QED
      BY <2>2, <3>5
  <2>5. x \in Subsequences(s \o r) \/ \E y \in Subsequences(s \o r) : x = Append(y, e)
    <3> DEFINE q == s \o r
    <3>1. q \in Seq(E) /\ x \in Subsequences(Append(q, e))
      BY <2>1
    <3> HIDE DEF q
    <3>2. Subsequences(Append(q, e)) = Subsequences(q) \cup {Append(y, e) : y \in Subsequences(q)}
      BY <3>1, SubsequencesAppend
    <3>3. x \in Subsequences(q) \/ \E y \in Subsequences(q) : x = Append(y, e)
      BY <3>1, <3>2
    <3> QED
      BY <3>3 DEF q
  <2> QED
    BY <2>3, <2>4, <2>5
<1> HIDE DEF S
<1>3. Seq(E) \subseteq S
  BY <1>1, <1>2, SeqInduction
<1> QED
  BY <1>3 DEF S

(* What is a subsequence in two parts is so of two parts of the sequence.  *)
LEMMA SplitBetween ==
  ASSUME NEW E, NEW y \in Seq(E), NEW a \in Seq(E), NEW b \in Seq(E), a \o b \in Subsequences(y)
  PROVE  \E u, v \in Seq(E) : u \o v = y /\ a \in Subsequences(u) /\ b \in Subsequences(v)
<1> DEFINE Cut(r, c, d) == \E u, v \in Seq(E) :
                             u \o v = r /\ c \in Subsequences(u) /\ d \in Subsequences(v)
           S == {r \in Seq(E) : \A c, d \in Seq(E) : c \o d \in Subsequences(r) => Cut(r, c, d)}
<1>1. <<>> \in S
  <2> SUFFICES ASSUME NEW c \in Seq(E), NEW d \in Seq(E), c \o d \in Subsequences(<<>>)
               PROVE  Cut(<<>>, c, d)
    BY EmptySeq
  <2>1. c \o d = <<>>
    BY SubsequencesEmpty
  <2>2. c = <<>> /\ d = <<>>
    BY <2>1, ConcatEqualIffEmpty
  <2>3. <<>> \in Seq(E) /\ <<>> \o <<>> = <<>>
    BY EmptySeq, ConcatEmptySeq
  <2> QED
    BY <2>2, <2>3, SubsequencesEmpty
<1>2. \A r \in Seq(E) : \A e \in E : r \in S => Append(r, e) \in S
  <2> SUFFICES ASSUME NEW r \in Seq(E), NEW e \in E, r \in S,
                      NEW c \in Seq(E), NEW d \in Seq(E), c \o d \in Subsequences(Append(r, e))
               PROVE  Cut(Append(r, e), c, d)
    BY AppendProperties
  <2>1. \A v \in Seq(E) : Subsequences(Append(v, e))
                             = Subsequences(v) \cup {Append(x, e) : x \in Subsequences(v)}
    BY SubsequencesAppend
  <2>2. \A u, v \in Seq(E) : /\ u \o Append(v, e) = Append(u \o v, e)
                             /\ Append(v, e) \in Seq(E)
    BY ConcatAppend, AppendProperties
  <2>3. CASE c \o d \in Subsequences(r)
    <3>1. PICK u \in Seq(E), v \in Seq(E) : u \o v = r /\ c \in Subsequences(u) /\ d \in Subsequences(v)
      BY <2>3
    <3>2. d \in Subsequences(Append(v, e)) /\ u \o Append(v, e) = Append(r, e)
      BY <2>1, <2>2, <3>1
    <3> QED
      BY <2>2, <3>1, <3>2
  <2>4. CASE \E x \in Subsequences(r) : c \o d = Append(x, e)
    <3>1. PICK x \in Subsequences(r) : c \o d = Append(x, e)
      BY <2>4
    <3>2. x \in Seq(E)
      BY SubsequencesType
    <3>3. CASE d = <<>>
      <4> DEFINE u == Append(r, e)
                 v == <<>>
      <4>1. c \o d = c /\ u \in Seq(E) /\ u \o v = u /\ v \in Seq(E) /\ d \in Subsequences(v)
        BY <2>2, <3>3, ConcatEmptySeq, EmptySeq, SubsequencesEmpty
      <4>2. c \in Subsequences(u)
        BY <4>1
      <4> HIDE DEF u, v
      <4>3. Cut(u, c, d)
        BY <4>1, <4>2
      <4> QED
        BY <4>3 DEF u
    <3>4. CASE d # <<>>
      <4>1. PICK w \in Seq(E), f \in E : d = Append(w, f)
        BY <3>4, SequenceEmptyOrAppend
      <4> DEFINE q == c \o w
      <4>a. c \o Append(w, f) = Append(c \o w, f)
        BY ConcatAppend
      <4>2. Append(q, f) = Append(x, e) /\ q \in Seq(E)
        BY <3>1, <4>1, <4>a, ConcatProperties
      <4> HIDE DEF q
      <4>b. q = x /\ f = e
        BY <3>2, <4>2, AppendInjective
      <4>3. c \o w = x /\ f = e
        BY <4>b DEF q
      <4>4. PICK u \in Seq(E), v \in Seq(E) :
              u \o v = r /\ c \in Subsequences(u) /\ w \in Subsequences(v)
        BY <4>3
      <4>5. d \in Subsequences(Append(v, e)) /\ u \o Append(v, e) = Append(r, e)
        <5>1. d = Append(w, e) /\ w \in Subsequences(v)
          BY <4>1, <4>3, <4>4
        <5>2. u \o Append(v, e) = Append(u \o v, e)
          BY <2>2
        <5>3. Append(w, e) \in Subsequences(Append(v, e))
          <6>1. Subsequences(Append(v, e)) = Subsequences(v) \cup {Append(p, e) : p \in Subsequences(v)}
            BY <2>1
          <6>2. w \in Subsequences(v)
            BY <5>1
          <6> QED
            BY <6>1, <6>2
        <5> QED
          BY <4>4, <5>1, <5>2, <5>3
      <4> QED
        BY <2>2, <4>4, <4>5
    <3> QED
      BY <3>3, <3>4
  <2>5. c \o d \in Subsequences(r) \/ \E x \in Subsequences(r) : c \o d = Append(x, e)
    <3> DEFINE q == c \o d
    <3>1. q \in Subsequences(Append(r, e))
      OBVIOUS
    <3> HIDE DEF q
    <3>2. q \in Subsequences(r) \/ \E x \in Subsequences(r) : q = Append(x, e)
      BY <2>1, <3>1
    <3> QED
      BY <3>2 DEF q
  <2> QED
    BY <2>3, <2>4, <2>5
<1> HIDE DEF S
<1>3. Seq(E) \subseteq S
  BY <1>1, <1>2, SeqInduction
<1> QED
  BY <1>3 DEF S

(***************************************************************************)
(* Reverse.                                                                *)
(***************************************************************************)

LEMMA ReverseIs ==
  ASSUME NEW E, NEW s \in Seq(E)
  PROVE  /\ Reverse(s) \in Seq(E) /\ Len(Reverse(s)) = Len(s)
         /\ \A i \in 1 .. Len(s) : Reverse(s)[i] = s[Len(s) - i + 1]
<1> DEFINE n == Len(s)
<1>1. n \in Nat /\ \A i \in 1 .. n : s[i] \in E
  BY LenProperties, ElementOfSeq
<1>2. Reverse(s) = [i \in 1 .. n |-> s[(n - i) + 1]]
  BY DEF Reverse
<1> HIDE DEF n
<1>3. \A i \in 1 .. n : s[(n - i) + 1] \in E
  <2>1. \A i \in 1 .. n : (n - i) + 1 \in 1 .. n
    BY <1>1
  <2> QED
    BY <1>1, <2>1
<1>4. Reverse(s) \in Seq(E) /\ Len(Reverse(s)) = n
  BY <1>1, <1>2, <1>3, IsASeq
<1> QED
  BY <1>2, <1>4 DEF n

LEMMA ReverseReverse ==
  ASSUME NEW E, NEW s \in Seq(E)
  PROVE  Reverse(Reverse(s)) = s
<1> DEFINE r == Reverse(s)
           q == Reverse(r)
           n == Len(s)
<1>1. n \in Nat /\ r \in Seq(E) /\ Len(r) = n /\ \A i \in 1 .. n : r[i] = s[n - i + 1]
  BY ReverseIs, LenProperties
<1> HIDE DEF r
<1>2. q \in Seq(E) /\ Len(q) = n /\ \A i \in 1 .. n : q[i] = r[n - i + 1]
  BY <1>1, ReverseIs
<1> HIDE DEF q, n
<1>3. \A i \in 1 .. n : n - i + 1 \in 1 .. n /\ n - (n - i + 1) + 1 = i
  BY <1>1
<1>4. \A i \in 1 .. n : q[i] = s[i]
  BY <1>1, <1>2, <1>3
<1>5. q = s
  BY <1>2, <1>4, SeqEqual DEF n
<1> QED
  BY <1>5 DEF q, r

LEMMA ReverseAppend ==
  ASSUME NEW E, NEW s \in Seq(E), NEW e \in E
  PROVE  Reverse(Append(s, e)) = <<e>> \o Reverse(s)
<1> DEFINE n == Len(s)
           p == Append(s, e)
           q == Reverse(p)
           r == Reverse(s)
           d == <<e>>
           w == d \o r
<1>1. /\ n \in Nat /\ p \in Seq(E) /\ Len(p) = n + 1 /\ p[n + 1] = e
      /\ \A i \in 1 .. n : p[i] = s[i]
  BY LenProperties, AppendProperties
<1>2. r \in Seq(E) /\ Len(r) = n /\ \A i \in 1 .. n : r[i] = s[n - i + 1]
  BY ReverseIs
<1>3. d \in Seq(E) /\ Len(d) = 1 /\ d[1] = e
  OBVIOUS
<1> HIDE DEF p, r, d
<1>4. q \in Seq(E) /\ Len(q) = n + 1 /\ \A i \in 1 .. n + 1 : q[i] = p[(n + 1) - i + 1]
  BY <1>1, ReverseIs
<1>5. /\ w \in Seq(E) /\ Len(w) = 1 + n
      /\ \A i \in 1 .. 1 + n : w[i] = IF i <= 1 THEN d[i] ELSE r[i - 1]
  <2>1. /\ w \in Seq(E) /\ Len(w) = Len(d) + Len(r)
        /\ \A i \in 1 .. Len(d) + Len(r) : w[i] = IF i <= Len(d) THEN d[i] ELSE r[i - Len(d)]
    <3>1. d \in Seq(E) /\ r \in Seq(E)
      BY <1>2, <1>3
    <3> QED
      BY <3>1, ConcatProperties
  <2> QED
    BY <1>2, <1>3, <2>1
<1> HIDE DEF q, w, n
<1>6. ASSUME NEW i \in 1 .. n + 1
      PROVE  q[i] = w[i]
  <2>1. i \in 1 .. 1 + n /\ i \in Nat
    BY <1>1
  <2>2. CASE i = 1
    <3>1. (n + 1) - i + 1 = n + 1 /\ i <= 1
      BY <1>1, <2>2
    <3> QED
      BY <1>1, <1>3, <1>4, <1>5, <2>1, <2>2, <3>1
  <2>3. CASE i # 1
    <3>1. /\ ~ (i <= 1) /\ (n + 1) - i + 1 \in 1 .. n /\ i - 1 \in 1 .. n
          /\ n - (i - 1) + 1 = (n + 1) - i + 1
      BY <1>1, <2>1, <2>3
    <3>2. q[i] = s[(n + 1) - i + 1]
      BY <1>1, <1>4, <3>1
    <3>3. w[i] = s[n - (i - 1) + 1]
      BY <1>2, <1>5, <2>1, <3>1
    <3> QED
      BY <3>1, <3>2, <3>3
  <2> QED
    BY <2>2, <2>3
<1>7. q = w
  BY <1>1, <1>4, <1>5, <1>6, SeqEqual
<1> QED
  BY <1>7 DEF q, w, p, r, d

LEMMA SubsequencesReverse ==
  ASSUME NEW E, NEW s \in Seq(E), NEW z \in Subsequences(s)
  PROVE  Reverse(z) \in Subsequences(Reverse(s))
<1> DEFINE S == {r \in Seq(E) : \A x \in Subsequences(r) : Reverse(x) \in Subsequences(Reverse(r))}
<1>1. <<>> \in S
  <2>1. Reverse(<<>>) \in Seq(E) /\ Len(Reverse(<<>>)) = 0
    BY EmptySeq, ReverseIs
  <2>2. Reverse(<<>>) = <<>>
    BY <2>1, EmptySeq
  <2> QED
    BY <2>2, SubsequencesEmpty, EmptySeq
<1>2. \A r \in Seq(E) : \A e \in E : r \in S => Append(r, e) \in S
  <2> SUFFICES ASSUME NEW r \in Seq(E), NEW e \in E, r \in S,
                      NEW x \in Subsequences(Append(r, e))
               PROVE  Reverse(x) \in Subsequences(Reverse(Append(r, e)))
    BY AppendProperties
  <2> DEFINE d == <<e>>
  <2>1. /\ Reverse(Append(r, e)) = d \o Reverse(r) /\ Reverse(r) \in Seq(E) /\ d \in Seq(E)
        /\ <<>> \in Subsequences(d)
    <3>1. Reverse(Append(r, e)) = d \o Reverse(r) /\ Reverse(r) \in Seq(E) /\ d \in Seq(E)
      BY ReverseAppend, ReverseIs
    <3> HIDE DEF d
    <3> QED
      BY <3>1, EmptyIsSubsequence
  <2>2. d \in Subsequences(d)
    <3>1. d = Append(<<>>, e)
      OBVIOUS
    <3>2. <<>> \in Subsequences(<<>>) /\ <<>> \in Seq(E)
      BY SubsequencesEmpty, EmptySeq
    <3> HIDE DEF d
    <3>3. Subsequences(Append(<<>>, e)) = Subsequences(<<>>) \cup {Append(y, e) : y \in Subsequences(<<>>)}
      BY ZenonT(60), <3>2, SubsequencesAppend
    <3> QED
      BY <3>1, <3>2, <3>3
  <2> HIDE DEF d
  <2>3. CASE x \in Subsequences(r)
    <3>1. Reverse(x) \in Subsequences(Reverse(r)) /\ Reverse(x) \in Seq(E)
      BY <2>1, <2>3, SubsequencesType
    <3>2. <<>> \o Reverse(x) = Reverse(x)
      BY <3>1, ConcatEmptySeq
    <3>3. <<>> \o Reverse(x) \in Subsequences(d \o Reverse(r))
      BY <2>1, <3>1, SubsequencesJoin
    <3> QED
      BY <2>1, <3>2, <3>3
  <2>4. CASE \E y \in Subsequences(r) : x = Append(y, e)
    <3>1. PICK y \in Subsequences(r) : x = Append(y, e)
      BY <2>4
    <3>2. y \in Seq(E) /\ Reverse(y) \in Subsequences(Reverse(r))
      BY SubsequencesType
    <3>3. Reverse(x) = d \o Reverse(y)
      BY <3>1, <3>2, ReverseAppend DEF d
    <3>4. d \o Reverse(y) \in Subsequences(d \o Reverse(r))
      BY <2>1, <2>2, <3>2, SubsequencesJoin
    <3> QED
      BY <2>1, <3>3, <3>4
  <2> QED
    BY <2>3, <2>4, SubsequencesAppend
<1> HIDE DEF S
<1>3. Seq(E) \subseteq S
  BY <1>1, <1>2, SeqInduction
<1> QED
  BY <1>3 DEF S

LEMMA LcsLengthReverse ==
  ASSUME NEW E, NEW s \in Seq(E), NEW t \in Seq(E)
  PROVE  LcsLength(Reverse(s), Reverse(t)) = LcsLength(s, t)
<1>1. \A u, v \in Seq(E) : \A x \in Common(u, v) :
        Reverse(x) \in Common(Reverse(u), Reverse(v)) /\ Len(Reverse(x)) = Len(x)
  BY SubsequencesReverse, SubsequencesType, ReverseIs DEF Common
<1> DEFINE p == Reverse(s)
           q == Reverse(t)
<1>2. p \in Seq(E) /\ q \in Seq(E) /\ Reverse(p) = s /\ Reverse(q) = t
  BY ReverseIs, ReverseReverse
<1>3. PICK x \in Common(s, t) : Len(x) = LcsLength(s, t)
  BY LcsLengthIs
<1>4. Reverse(x) \in Common(p, q) /\ Len(Reverse(x)) = Len(x)
  BY <1>1
<1> HIDE DEF p, q
<1>5. \A y \in Common(p, q) : Len(y) <= LcsLength(s, t)
  <2> SUFFICES ASSUME NEW y \in Common(p, q) PROVE Len(y) <= LcsLength(s, t)
    OBVIOUS
  <2>1. Reverse(y) \in Common(s, t) /\ Len(Reverse(y)) = Len(y)
    BY <1>1, <1>2
  <2> QED
    BY <2>1, LcsLengthIs
<1>6. \A y \in Common(p, q) : Len(y) <= Len(Reverse(x))
  BY <1>3, <1>4, <1>5
<1>7. LcsLength(p, q) = Len(Reverse(x))
  BY <1>2, <1>4, <1>6, LcsLengthIsThis
<1> QED
  BY <1>3, <1>4, <1>7 DEF p, q

(***************************************************************************)
(* One element, and what remains of the other sequence.                    *)
(***************************************************************************)

LEMMA SingleIs ==
  ASSUME NEW E, NEW e \in E, NEW y \in Seq(E)
  PROVE  <<e>> \in Subsequences(y) <=> Contains(y, e)
<1> DEFINE S == {r \in Seq(E) : <<e>> \in Subsequences(r) <=> Contains(r, e)}
<1>1. <<>> \in S
  <2>1. Len(<<>>) = 0 /\ <<>> \in Seq(E) /\ <<e>> # <<>>
    BY EmptySeq
  <2>2. ~ Contains(<<>>, e)
    BY <2>1 DEF Contains
  <2> QED
    BY <2>1, <2>2, SubsequencesEmpty
<1>2. \A r \in Seq(E) : \A f \in E : r \in S => Append(r, f) \in S
  <2> SUFFICES ASSUME NEW r \in Seq(E), NEW f \in E, r \in S
               PROVE  Append(r, f) \in S
    OBVIOUS
  <2> DEFINE p == Append(r, f)
             d == <<e>>
             n == Len(r)
  <2>1. /\ n \in Nat /\ p \in Seq(E) /\ Len(p) = n + 1 /\ p[n + 1] = f
        /\ \A i \in 1 .. n : p[i] = r[i]
    BY LenProperties, AppendProperties
  <2>2. Subsequences(p) = Subsequences(r) \cup {Append(x, f) : x \in Subsequences(r)}
    BY SubsequencesAppend
  <2>3. d = Append(<<>>, e) /\ <<>> \in Seq(E) /\ <<>> \in Subsequences(r)
    BY EmptyIsSubsequence, EmptySeq
  <2> HIDE DEF p, d
  <2>4. d \in Subsequences(p) <=> d \in Subsequences(r) \/ e = f
    <3>1. \A x \in Subsequences(r) : x \in Seq(E)
      BY SubsequencesType
    <3>2. \A x \in Subsequences(r) : d = Append(x, f) => e = f
      <4> DEFINE z == <<>>
      <4>1. z \in Seq(E) /\ d = Append(z, e)
        BY <2>3
      <4> HIDE DEF z
      <4>2. \A x \in Seq(E) : Append(z, e) = Append(x, f) <=> z = x /\ e = f
        BY <4>1, AppendInjective
      <4> QED
        BY <3>1, <4>1, <4>2
    <3>3. e = f => d \in Subsequences(p)
      BY <2>2, <2>3
    <3> QED
      BY <2>2, <3>2, <3>3
  <2>5. Contains(p, e) <=> Contains(r, e) \/ e = f
    <3> HIDE DEF n
    <3>1. Contains(p, e) <=> \E i \in 1 .. n + 1 : p[i] = e
      BY <2>1 DEF Contains
    <3>2. Contains(r, e) <=> \E i \in 1 .. n : r[i] = e
      BY DEF Contains, n
    <3>3. n + 1 \in 1 .. n + 1 /\ \A i \in 1 .. n : i \in 1 .. n + 1
      BY <2>1
    <3>4. \A i \in 1 .. n + 1 : i \in 1 .. n \/ i = n + 1
      BY <2>1
    <3> QED
      BY <2>1, <3>1, <3>2, <3>3, <3>4
  <2>6. d \in Subsequences(p) <=> Contains(p, e)
    BY <2>4, <2>5 DEF d
  <2> QED
    BY <2>1, <2>6 DEF p, d
<1> HIDE DEF S
<1>3. Seq(E) \subseteq S
  BY <1>1, <1>2, SeqInduction
<1> QED
  BY <1>3 DEF S

(* What a range with one element of xs has in common with the other.       *)
LEMMA LcsLengthSingle ==
  ASSUME NEW E, NEW e \in E, NEW y \in Seq(E)
  PROVE  LcsLength(<<e>>, y) = IF Contains(y, e) THEN 1 ELSE 0
<1> DEFINE d == <<e>>
<1>1. d = Append(<<>>, e) /\ d \in Seq(E) /\ Len(d) = 1 /\ <<>> \in Seq(E) /\ Len(<<>>) = 0
  BY EmptySeq
<1>2. d \in Subsequences(y) <=> Contains(y, e)
  BY SingleIs
<1> HIDE DEF d
<1>3. Subsequences(d) = {<<>>, d}
  <2> DEFINE z == <<>>
  <2>1. z \in Seq(E) /\ Subsequences(z) = {z} /\ d = Append(z, e)
    BY <1>1, SubsequencesEmpty
  <2> HIDE DEF z
  <2>2. Subsequences(Append(z, e)) = Subsequences(z) \cup {Append(x, e) : x \in Subsequences(z)}
    BY <2>1, SubsequencesAppend
  <2>3. Subsequences(d) = {z, d}
    BY <2>1, <2>2
  <2> QED
    BY <2>3 DEF z
<1>4. <<>> \in Common(d, y)
  BY <1>3, EmptyIsSubsequence DEF Common
<1>5. CASE Contains(y, e)
  <2>1. d \in Common(d, y) /\ \A x \in Common(d, y) : x = <<>> \/ x = d
    BY <1>2, <1>3, <1>5 DEF Common
  <2>2. \A x \in Common(d, y) : Len(x) <= Len(d)
    <3>1. \A x \in Common(d, y) : Len(x) = 0 \/ Len(x) = 1
      BY <1>1, <2>1
    <3>2. Len(d) = 1 /\ 0 <= 1 /\ 1 <= 1
      BY <1>1
    <3> QED
      BY <3>1, <3>2, Zenon
  <2>3. LcsLength(d, y) = Len(d)
    BY <1>1, <2>1, <2>2, LcsLengthIsThis
  <2> QED
    BY <1>1, <1>5, <2>3 DEF d
<1>6. CASE ~ Contains(y, e)
  <2>1. \A x \in Common(d, y) : x = <<>>
    BY <1>2, <1>3, <1>6 DEF Common
  <2> DEFINE z == <<>>
  <2>2. z \in Common(d, y) /\ \A x \in Common(d, y) : Len(x) <= Len(z)
    BY <1>1, <1>4, <2>1
  <2>3. Len(z) = 0
    BY <1>1
  <2> HIDE DEF z
  <2>4. LcsLength(d, y) = Len(z)
    BY <1>1, <2>2, LcsLengthIsThis
  <2> QED
    BY <1>6, <2>3, <2>4 DEF d
<1> QED
  BY <1>5, <1>6

(* The elements of the range [lo, hi).                                     *)
Slice(s, lo, hi) == SubSeq(s, lo + 1, hi)

LEMMA PartIs ==
  ASSUME NEW E, NEW s \in Seq(E), NEW lo \in 0 .. Len(s), NEW hi \in 0 .. Len(s), lo <= hi
  PROVE  /\ lo \in Nat /\ hi \in Nat /\ Len(s) \in Nat
         /\ Slice(s, lo, hi) \in Seq(E) /\ Len(Slice(s, lo, hi)) = hi - lo /\ hi - lo \in Nat
         /\ \A k \in 1 .. hi - lo : Slice(s, lo, hi)[k] = s[lo + k] /\ s[lo + k] \in E
<1>1. Len(s) \in Nat /\ \A i \in 1 .. Len(s) : s[i] \in E
  BY LenProperties, ElementOfSeq
<1>2. /\ lo \in Nat /\ hi \in Nat /\ lo + 1 \in Int /\ hi \in Int
      /\ \A i \in lo + 1 .. hi : i \in 1 .. Len(s) /\ s[i] \in E
  BY <1>1
<1>3. /\ SubSeq(s, lo + 1, hi) \in Seq(E)
      /\ Len(SubSeq(s, lo + 1, hi)) = IF lo + 1 <= hi THEN hi - (lo + 1) + 1 ELSE 0
      /\ \A i \in 1 .. hi - (lo + 1) + 1 : SubSeq(s, lo + 1, hi)[i] = s[lo + 1 + i - 1]
  BY <1>2, SubSeqProperties
<1>4. /\ hi - (lo + 1) + 1 = hi - lo /\ hi - lo \in Nat /\ (~ (lo + 1 <= hi) => hi - lo = 0)
      /\ \A i \in 1 .. hi - lo : lo + 1 + i - 1 = lo + i /\ lo + i \in lo + 1 .. hi
  BY <1>2
<1> QED
  BY <1>1, <1>2, <1>3, <1>4 DEF Slice

LEMMA PartJoin ==
  ASSUME NEW E, NEW s \in Seq(E), NEW lo \in 0 .. Len(s), NEW mid \in 0 .. Len(s),
         NEW hi \in 0 .. Len(s), lo <= mid, mid <= hi
  PROVE  Slice(s, lo, mid) \o Slice(s, mid, hi) = Slice(s, lo, hi)
<1> DEFINE p == Slice(s, lo, mid)
           q == Slice(s, mid, hi)
           r == Slice(s, lo, hi)
           w == p \o q
<1>1. /\ lo \in Nat /\ mid \in Nat /\ p \in Seq(E) /\ Len(p) = mid - lo
      /\ \A k \in 1 .. mid - lo : p[k] = s[lo + k]
  BY PartIs
<1>2. /\ hi \in Nat /\ q \in Seq(E) /\ Len(q) = hi - mid
      /\ \A k \in 1 .. hi - mid : q[k] = s[mid + k]
  BY PartIs
<1>3. lo <= hi
  BY <1>1, <1>2
<1>4. r \in Seq(E) /\ Len(r) = hi - lo /\ \A k \in 1 .. hi - lo : r[k] = s[lo + k]
  BY <1>3, PartIs
<1> HIDE DEF p, q, r
<1>5. /\ w \in Seq(E) /\ Len(w) = Len(p) + Len(q)
      /\ \A i \in 1 .. Len(p) + Len(q) : w[i] = IF i <= Len(p) THEN p[i] ELSE q[i - Len(p)]
  BY <1>1, <1>2, ConcatProperties
<1>6. Len(p) + Len(q) = hi - lo
  BY <1>1, <1>2
<1> HIDE DEF w
<1>7. ASSUME NEW i \in 1 .. hi - lo
      PROVE  w[i] = r[i]
  <2>1. w[i] = IF i <= mid - lo THEN p[i] ELSE q[i - (mid - lo)]
    BY <1>1, <1>5, <1>6
  <2>2. CASE i <= mid - lo
    <3>1. i \in 1 .. mid - lo
      BY <1>1, <2>2
    <3> QED
      BY <1>1, <1>4, <2>1, <2>2, <3>1
  <2>3. CASE ~ (i <= mid - lo)
    <3>1. i - (mid - lo) \in 1 .. hi - mid /\ mid + (i - (mid - lo)) = lo + i
      BY <1>1, <1>2, <2>3
    <3> QED
      BY <1>2, <1>4, <2>1, <2>3, <3>1
  <2> QED
    BY <2>2, <2>3
<1>8. w = r
  BY <1>4, <1>5, <1>6, <1>7, SeqEqual
<1> QED
  BY <1>8 DEF w, p, q, r

LEMMA PartOfPart ==
  ASSUME NEW E, NEW s \in Seq(E), NEW lo \in 0 .. Len(s), NEW hi \in 0 .. Len(s), lo <= hi,
         NEW i \in 0 .. hi - lo, NEW j \in 0 .. hi - lo, i <= j
  PROVE  Slice(Slice(s, lo, hi), i, j) = Slice(s, lo + i, lo + j)
<1> DEFINE p == Slice(s, lo, hi)
           q == Slice(p, i, j)
           r == Slice(s, lo + i, lo + j)
<1>1. /\ lo \in Nat /\ hi \in Nat /\ Len(s) \in Nat /\ p \in Seq(E) /\ Len(p) = hi - lo
      /\ \A k \in 1 .. hi - lo : p[k] = s[lo + k]
  BY PartIs
<1> HIDE DEF p
<1>2. q \in Seq(E) /\ Len(q) = j - i /\ i \in Nat /\ j \in Nat
        /\ \A k \in 1 .. j - i : q[k] = p[i + k]
  <2>1. i \in 0 .. Len(p) /\ j \in 0 .. Len(p)
    BY <1>1
  <2> QED
    BY ZenonT(60), <1>1, <2>1, PartIs
<1>3. lo + i \in 0 .. Len(s) /\ lo + j \in 0 .. Len(s) /\ lo + i <= lo + j
  BY <1>1, <1>2
<1>4. r \in Seq(E) /\ Len(r) = (lo + j) - (lo + i)
        /\ \A k \in 1 .. (lo + j) - (lo + i) : r[k] = s[(lo + i) + k]
  BY <1>3, PartIs
<1>5. (lo + j) - (lo + i) = j - i
  BY <1>1, <1>2
<1> HIDE DEF q, r
<1>6. ASSUME NEW k \in 1 .. j - i
      PROVE  q[k] = r[k]
  <2>1. i + k \in 1 .. hi - lo /\ lo + (i + k) = (lo + i) + k
    BY <1>1, <1>2
  <2> QED
    BY <1>1, <1>2, <1>4, <1>5, <2>1
<1>7. q = r
  BY <1>2, <1>4, <1>5, <1>6, SeqEqual
<1> QED
  BY <1>7 DEF q, r, p

LEMMA FirstPart ==
  ASSUME NEW E, NEW s \in Seq(E), NEW i \in 0 .. Len(s)
  PROVE  /\ SubSeq(s, 1, i) = Slice(s, 0, i) /\ SubSeq(s, 1, i) \in Seq(E)
         /\ Len(SubSeq(s, 1, i)) = i
         /\ \A k \in 1 .. i : SubSeq(s, 1, i)[k] = s[k]
<1>1. 0 \in 0 .. Len(s) /\ i \in Nat /\ 0 <= i
  BY LenProperties
<1>2. /\ Slice(s, 0, i) \in Seq(E) /\ Len(Slice(s, 0, i)) = i - 0
      /\ \A k \in 1 .. i - 0 : Slice(s, 0, i)[k] = s[0 + k]
  BY <1>1, PartIs
<1>3. i - 0 = i /\ (\A k \in 1 .. i : 0 + k = k) /\ 0 + 1 = 1
  BY <1>1
<1>4. SubSeq(s, 1, i) = Slice(s, 0, i)
  BY <1>3 DEF Slice
<1> QED
  BY <1>2, <1>3, <1>4

(* The rest of y behind i elements, reversed, is how the reverse begins.   *)
LEMMA RestReversed ==
  ASSUME NEW E, NEW y \in Seq(E), NEW i \in 0 .. Len(y)
  PROVE  SubSeq(Reverse(y), 1, Len(y) - i) = Reverse(Slice(y, i, Len(y)))
<1> DEFINE n == Len(y)
           b == Reverse(y)
           p == Slice(y, i, n)
           r == Reverse(p)
           q == SubSeq(b, 1, n - i)
<1>1. n \in Nat /\ b \in Seq(E) /\ Len(b) = n /\ \A k \in 1 .. n : b[k] = y[n - k + 1]
  BY ReverseIs, LenProperties
<1>2. i \in Nat /\ i <= n /\ n \in 0 .. n /\ 0 \in 0 .. n /\ n - i \in 0 .. n
  BY <1>1
<1>3. p \in Seq(E) /\ Len(p) = n - i /\ \A k \in 1 .. n - i : p[k] = y[i + k]
  BY <1>2, PartIs
<1> DEFINE m == n - i
<1> HIDE DEF b, p
<1>4. r \in Seq(E) /\ Len(r) = m /\ \A k \in 1 .. m : r[k] = p[m - k + 1]
  <2> HIDE DEF n, m
  <2>1. p \in Seq(E) /\ Len(p) = m
    BY <1>3 DEF m
  <2> QED
    BY <2>1, ReverseIs
<1>5. q \in Seq(E) /\ Len(q) = m /\ \A k \in 1 .. m : q[k] = b[k]
  <2> HIDE DEF n
  <2>1. m \in 0 .. Len(b) /\ q = SubSeq(b, 1, m)
    BY <1>1, <1>2
  <2> HIDE DEF m, q
  <2> QED
    BY <1>1, <2>1, FirstPart
<1> HIDE DEF n, r, q
<1>6. ASSUME NEW k \in 1 .. m
      PROVE  q[k] = r[k]
  <2>1. k \in 1 .. n /\ m - k + 1 \in 1 .. m /\ i + (m - k + 1) = n - k + 1
    BY <1>1, <1>2
  <2>2. q[k] = y[n - k + 1]
    BY <1>1, <1>5, <2>1
  <2>3. r[k] = y[n - k + 1]
    BY <1>3, <1>4, <2>1
  <2> QED
    BY <2>2, <2>3
<1> HIDE DEF m
<1>7. q = r
  BY <1>4, <1>5, <1>6, SeqEqual
<1> QED
  BY <1>7 DEF q, r, b, n, p

LEMMA PartOfConcat ==
  ASSUME NEW E
  PROVE  \A u, v \in Seq(E) : /\ Len(u) \in 0 .. Len(u \o v)
                              /\ Slice(u \o v, 0, Len(u)) = u
                              /\ Slice(u \o v, Len(u), Len(u \o v)) = v
<1> SUFFICES ASSUME NEW u \in Seq(E), NEW v \in Seq(E)
             PROVE  /\ Len(u) \in 0 .. Len(u \o v) /\ Slice(u \o v, 0, Len(u)) = u
                    /\ Slice(u \o v, Len(u), Len(u \o v)) = v
  OBVIOUS
<1> DEFINE y == u \o v
           i == Len(u)
           n == Len(y)
<1>1. /\ y \in Seq(E) /\ n = i + Len(v) /\ i \in Nat /\ Len(v) \in Nat
      /\ \A k \in 1 .. i + Len(v) : y[k] = IF k <= i THEN u[k] ELSE v[k - i]
  BY ConcatProperties, LenProperties
<1> HIDE DEF y, i, n
<1>2. i \in 0 .. n /\ n \in 0 .. n /\ i <= n /\ n - i = Len(v)
  BY <1>1
<1> DEFINE p == Slice(y, 0, i)
           q == Slice(y, i, n)
<1>3. p \in Seq(E) /\ Len(p) = i /\ \A k \in 1 .. i : p[k] = y[k]
  <2>1. p = SubSeq(y, 1, i)
    BY FirstPart, <1>1, <1>2 DEF n
  <2> HIDE DEF p
  <2> QED
    BY FirstPart, <1>1, <1>2, <2>1 DEF n
<1>4. q \in Seq(E) /\ Len(q) = Len(v) /\ \A k \in 1 .. Len(v) : q[k] = y[i + k]
  <2>1. i \in 0 .. Len(y) /\ n \in 0 .. Len(y)
    BY <1>2 DEF n
  <2>2. q \in Seq(E) /\ Len(q) = n - i /\ \A k \in 1 .. n - i : q[k] = y[i + k]
    BY ZenonT(60), <1>1, <1>2, <2>1, PartIs
  <2> QED
    BY <1>2, <2>2
<1> HIDE DEF p, q
<1>5. ASSUME NEW k \in 1 .. i
      PROVE  p[k] = u[k]
  <2>1. k \in 1 .. i + Len(v) /\ k <= i
    BY <1>1
  <2> QED
    BY <1>1, <1>3, <2>1
<1>6. ASSUME NEW k \in 1 .. Len(v)
      PROVE  q[k] = v[k]
  <2>1. i + k \in 1 .. i + Len(v) /\ ~ (i + k <= i) /\ (i + k) - i = k
    BY <1>1
  <2> QED
    BY <1>1, <1>4, <2>1
<1>7. p = u
  BY <1>3, <1>5, SeqEqual DEF i
<1>8. q = v
  BY <1>4, <1>6, SeqEqual
<1> QED
  BY <1>2, <1>7, <1>8 DEF p, q, i, n, y

(***************************************************************************)
(* Wherever y is cut, the two halves of x have no more in common with the  *)
(* two parts than x has with y, and at some cut they have as much.         *)
(***************************************************************************)

LEMMA SumAtMost ==
  ASSUME NEW E, NEW s \in Seq(E), NEW t \in Seq(E), NEW u \in Seq(E), NEW v \in Seq(E)
  PROVE  LcsLength(s, u) + LcsLength(t, v) <= LcsLength(s \o t, u \o v)
<1>1. PICK x \in Common(s, u) : Len(x) = LcsLength(s, u)
  BY LcsLengthIs
<1>2. PICK z \in Common(t, v) : Len(z) = LcsLength(t, v)
  BY LcsLengthIs
<1>3. x \in Seq(E) /\ z \in Seq(E)
  BY SubsequencesType DEF Common
<1>4. x \o z \in Common(s \o t, u \o v)
  <2>1. x \o z \in Subsequences(s \o t)
    BY SubsequencesJoin DEF Common
  <2>2. x \o z \in Subsequences(u \o v)
    BY SubsequencesJoin DEF Common
  <2> QED
    BY <2>1, <2>2 DEF Common
<1>5. Len(x \o z) = Len(x) + Len(z)
  BY <1>3, ConcatProperties
<1>6. Len(x \o z) <= LcsLength(s \o t, u \o v)
  <2> DEFINE p == s \o t
             q == u \o v
             w == x \o z
  <2>1. p \in Seq(E) /\ q \in Seq(E) /\ w \in Common(p, q)
    BY <1>4, ConcatProperties
  <2> HIDE DEF p, q, w
  <2>2. Len(w) <= LcsLength(p, q)
    BY <2>1, LcsLengthIs
  <2> QED
    BY <2>2 DEF p, q, w
<1> QED
  BY <1>1, <1>2, <1>5, <1>6

LEMMA SumReached ==
  ASSUME NEW E
  PROVE  \A s, t, y \in Seq(E) : \E i \in 0 .. Len(y) :
           LcsLength(s \o t, y) <= LcsLength(s, Slice(y, 0, i)) + LcsLength(t, Slice(y, i, Len(y)))
<1>a. \A c, d \in Seq(E) : \A z \in Subsequences(c \o d) :
        \E a \in Subsequences(c) : \E b \in Subsequences(d) : z = a \o b
  BY SubsequencesSplit
<1>b. \A c, d \in Seq(E) : /\ Len(c) \in 0 .. Len(c \o d)
                           /\ Slice(c \o d, 0, Len(c)) = c
                           /\ Slice(c \o d, Len(c), Len(c \o d)) = d
  BY PartOfConcat
<1> SUFFICES ASSUME NEW s \in Seq(E), NEW t \in Seq(E), NEW y \in Seq(E)
             PROVE  \E i \in 0 .. Len(y) :
                      LcsLength(s \o t, y) <= LcsLength(s, Slice(y, 0, i)) + LcsLength(t, Slice(y, i, Len(y)))
  OBVIOUS
<1> DEFINE p == s \o t
<1>1. p \in Seq(E)
  BY ConcatProperties
<1> HIDE DEF p
<1>2. PICK z \in Common(p, y) : Len(z) = LcsLength(p, y)
  BY <1>1, LcsLengthIs
<1>3. PICK a \in Subsequences(s), b \in Subsequences(t) : z = a \o b
  <2>1. z \in Subsequences(s \o t)
    BY DEF Common, p
  <2> QED
    BY <1>a, <2>1
<1>4. a \in Seq(E) /\ b \in Seq(E) /\ Len(a) \in Nat /\ Len(b) \in Nat
  BY SubsequencesType, LenProperties
<1>5. Len(z) = Len(a) + Len(b)
  BY <1>3, <1>4, ConcatProperties
<1>6. a \o b \in Subsequences(y)
  BY <1>3 DEF Common
<1>7. PICK u \in Seq(E), v \in Seq(E) :
        u \o v = y /\ a \in Subsequences(u) /\ b \in Subsequences(v)
  BY <1>4, <1>6, SplitBetween
<1>8. Len(a) <= LcsLength(s, u) /\ LcsLength(s, u) \in Nat
  <2>1. a \in Common(s, u)
    BY <1>7 DEF Common
  <2> QED
    BY <2>1, LcsLengthIs
<1>9. Len(b) <= LcsLength(t, v) /\ LcsLength(t, v) \in Nat
  <2>1. b \in Common(t, v)
    BY <1>7 DEF Common
  <2> QED
    BY <2>1, LcsLengthIs
<1>10. Len(u) \in 0 .. Len(y) /\ Slice(y, 0, Len(u)) = u /\ Slice(y, Len(u), Len(y)) = v
  <2>1. /\ Len(u) \in 0 .. Len(u \o v) /\ Slice(u \o v, 0, Len(u)) = u
        /\ Slice(u \o v, Len(u), Len(u \o v)) = v
    BY <1>b
  <2> QED
    BY <1>7, <2>1
<1>11. LcsLength(p, y) <= LcsLength(s, u) + LcsLength(t, v)
  BY <1>2, <1>4, <1>5, <1>8, <1>9
<1>12. LcsLength(p, y) <= LcsLength(s, Slice(y, 0, Len(u))) + LcsLength(t, Slice(y, Len(u), Len(y)))
  BY <1>10, <1>11
<1> QED
  BY <1>10, <1>12 DEF p

(***************************************************************************)
(* How much one more element can add, and what the extremes mean.          *)
(***************************************************************************)

LEMMA LcsLengthMore ==
  ASSUME NEW E, NEW s \in Seq(E), NEW t \in Seq(E), NEW e \in E
  PROVE  /\ LcsLength(s, t) <= LcsLength(Append(s, e), t)
         /\ LcsLength(Append(s, e), t) <= LcsLength(s, t) + 1
         /\ LcsLength(s, t) <= LcsLength(s, Append(t, e))
         /\ LcsLength(s, Append(t, e)) <= LcsLength(s, t) + 1
<1>1. \A u, v \in Seq(E) : \A x \in Common(u, v) :
        /\ x \in Common(Append(u, e), v) /\ x \in Common(u, Append(v, e))
  <2> SUFFICES ASSUME NEW u \in Seq(E), NEW v \in Seq(E), NEW x \in Common(u, v)
               PROVE  x \in Common(Append(u, e), v) /\ x \in Common(u, Append(v, e))
    OBVIOUS
  <2>1. /\ Subsequences(Append(u, e)) = Subsequences(u) \cup {Append(y, e) : y \in Subsequences(u)}
        /\ Subsequences(Append(v, e)) = Subsequences(v) \cup {Append(y, e) : y \in Subsequences(v)}
    BY SubsequencesAppend
  <2> QED
    BY <2>1 DEF Common
<1>2. \A u, v \in Seq(E) : \A x \in Subsequences(Append(u, e)) \cap Subsequences(v) :
        \E y \in Common(u, v) : Len(x) <= Len(y) + 1
  <2> SUFFICES ASSUME NEW u \in Seq(E), NEW v \in Seq(E),
                      NEW x \in Subsequences(Append(u, e)), x \in Subsequences(v)
               PROVE  \E y \in Common(u, v) : Len(x) <= Len(y) + 1
    OBVIOUS
  <2>1. Subsequences(Append(u, e)) = Subsequences(u) \cup {Append(y, e) : y \in Subsequences(u)}
    BY SubsequencesAppend
  <2>2. CASE x \in Subsequences(u)
    <3>1. x \in Common(u, v) /\ Len(x) \in Nat
      BY <2>2, SubsequencesType, LenProperties DEF Common
    <3> QED
      BY <3>1
  <2>3. CASE \E y \in Subsequences(u) : x = Append(y, e)
    <3>1. PICK y \in Subsequences(u) : x = Append(y, e)
      BY <2>3
    <3>2. y \in Seq(E)
      BY SubsequencesType
    <3>3. y \in Subsequences(v)
      BY <3>1, <3>2, SubsequencesPrefix
    <3>4. Len(x) = Len(y) + 1 /\ Len(y) \in Nat
      BY <3>1, <3>2, AppendProperties, LenProperties
    <3> QED
      BY <3>3, <3>4 DEF Common
  <2> QED
    BY <2>1, <2>2, <2>3
<1> DEFINE p == Append(s, e)
           q == Append(t, e)
<1>3. p \in Seq(E) /\ q \in Seq(E)
  BY AppendProperties
<1>4. /\ LcsLength(s, t) \in Nat /\ LcsLength(p, t) \in Nat /\ LcsLength(s, q) \in Nat
      /\ \A x \in Common(s, t) : Len(x) <= LcsLength(s, t)
      /\ \A x \in Common(p, t) : Len(x) <= LcsLength(p, t)
      /\ \A x \in Common(s, q) : Len(x) <= LcsLength(s, q)
  BY <1>3, LcsLengthIs
<1>5. PICK x \in Common(s, t) : Len(x) = LcsLength(s, t)
  BY LcsLengthIs
<1>6. PICK y \in Common(p, t) : Len(y) = LcsLength(p, t)
  BY <1>3, LcsLengthIs
<1>7. PICK z \in Common(s, q) : Len(z) = LcsLength(s, q)
  BY <1>3, LcsLengthIs
<1>8. x \in Common(p, t) /\ x \in Common(s, q)
  BY <1>1
<1>9. \E w \in Common(s, t) : Len(y) <= Len(w) + 1
  BY <1>2 DEF Common
<1>10. \E w \in Common(s, t) : Len(z) <= Len(w) + 1
  <2>1. z \in Subsequences(q) /\ z \in Subsequences(s)
    BY DEF Common
  <2>2. PICK w \in Common(t, s) : Len(z) <= Len(w) + 1
    BY <1>2, <2>1
  <2> QED
    BY <2>2 DEF Common
<1> HIDE DEF p, q
<1>11. \A w \in Common(s, t) : Len(w) \in Nat
  BY SubsequencesType, LenProperties DEF Common
<1>12. LcsLength(s, t) <= LcsLength(p, t) /\ LcsLength(s, t) <= LcsLength(s, q)
  BY <1>4, <1>5, <1>8
<1>13. LcsLength(p, t) <= LcsLength(s, t) + 1
  BY <1>4, <1>6, <1>9, <1>11
<1>14. LcsLength(s, q) <= LcsLength(s, t) + 1
  BY <1>4, <1>7, <1>10, <1>11
<1> QED
  BY <1>12, <1>13, <1>14 DEF p, q

LEMMA LcsLengthBoth ==
  ASSUME NEW E, NEW s \in Seq(E), NEW t \in Seq(E), NEW e \in E, NEW f \in E
  PROVE  LcsLength(Append(s, e), Append(t, f)) <= LcsLength(s, t) + 1
<1>1. /\ LcsLength(s, t) \in Nat
      /\ LcsLength(s, Append(t, f)) <= LcsLength(s, t) + 1
      /\ LcsLength(Append(s, e), t) <= LcsLength(s, t) + 1
  BY LcsLengthIs, LcsLengthMore
<1>2. CASE e = f
  BY <1>1, <1>2, LcsLengthSame
<1>3. CASE e # f
  BY <1>1, <1>3, LcsLengthDiffer
<1> QED
  BY <1>2, <1>3

LEMMA LcsLengthAtMost ==
  ASSUME NEW E, NEW s \in Seq(E), NEW t \in Seq(E)
  PROVE  LcsLength(s, t) <= Len(s) /\ LcsLength(s, t) <= Len(t)
<1>1. PICK x \in Common(s, t) : Len(x) = LcsLength(s, t)
  BY LcsLengthIs
<1>2. Len(x) \in 0 .. Len(s) /\ Len(x) \in 0 .. Len(t)
  BY SubsequencesType DEF Common
<1> QED
  BY <1>1, <1>2

(* The only subsequence as long as the sequence is the sequence. *)
LEMMA WholeSubsequence ==
  ASSUME NEW E, NEW s \in Seq(E)
  PROVE  s \in Subsequences(s) /\ \A x \in Subsequences(s) : Len(x) = Len(s) => x = s
<1> DEFINE S == {r \in Seq(E) : /\ r \in Subsequences(r)
                                /\ \A x \in Subsequences(r) : Len(x) = Len(r) => x = r}
<1>1. <<>> \in S
  BY SubsequencesEmpty, EmptySeq
<1>2. \A r \in Seq(E) : \A e \in E : r \in S => Append(r, e) \in S
  <2> SUFFICES ASSUME NEW r \in Seq(E), NEW e \in E, r \in S
               PROVE  /\ Append(r, e) \in Subsequences(Append(r, e))
                      /\ \A x \in Subsequences(Append(r, e)) :
                           Len(x) = Len(Append(r, e)) => x = Append(r, e)
    BY AppendProperties
  <2>1. Subsequences(Append(r, e)) = Subsequences(r) \cup {Append(y, e) : y \in Subsequences(r)}
    BY SubsequencesAppend
  <2>2. Len(Append(r, e)) = Len(r) + 1 /\ Len(r) \in Nat
    BY AppendProperties, LenProperties
  <2>3. \A x \in Subsequences(r) : x \in Seq(E) /\ Len(x) \in 0 .. Len(r) /\ Len(x) \in Nat
    BY SubsequencesType, LenProperties
  <2>4. \A x \in Subsequences(r) : Len(Append(x, e)) = Len(x) + 1
    BY <2>3, AppendProperties
  <2>5. \A x \in Subsequences(r) : Len(x) # Len(r) + 1
    BY <2>2, <2>3
  <2>6. \A x \in Subsequences(r) : Len(x) + 1 = Len(r) + 1 => x = r
    BY <2>2, <2>3
  <2> QED
    BY <2>1, <2>2, <2>4, <2>5, <2>6
<1> HIDE DEF S
<1>3. Seq(E) \subseteq S
  BY <1>1, <1>2, SeqInduction
<1> QED
  BY <1>3 DEF S

LEMMA LcsLengthWhole ==
  ASSUME NEW E, NEW s \in Seq(E), NEW t \in Seq(E)
  PROVE  /\ LcsLength(s, s) = Len(s)
         /\ LcsLength(s, t) = Len(s) /\ Len(s) = Len(t) => s = t
<1>1. s \in Common(s, s)
  BY WholeSubsequence DEF Common
<1>2. LcsLength(s, s) >= Len(s) /\ LcsLength(s, s) <= Len(s) /\ LcsLength(s, s) \in Nat
  BY <1>1, LcsLengthIs, LcsLengthAtMost
<1>3. Len(s) \in Nat
  BY LenProperties
<1>4. ASSUME LcsLength(s, t) = Len(s), Len(s) = Len(t)
      PROVE  s = t
  <2>1. PICK x \in Common(s, t) : Len(x) = LcsLength(s, t)
    BY LcsLengthIs
  <2>2. x = s /\ x = t
    BY <1>4, <2>1, WholeSubsequence DEF Common
  <2> QED
    BY <2>2
<1> QED
  BY <1>2, <1>3, <1>4

(***************************************************************************)
(* The edit graph of s and t: Dist(s, t, x, y) is the least number of      *)
(* edits that turn the first x elements of s into the first y of t.  The   *)
(* code follows diagonals beyond the two sequences; so does Dist, as if    *)
(* both went on with elements that equal nothing.                          *)
(***************************************************************************)

Upto(s, x) == IF x <= Len(s) THEN SubSeq(s, 1, x) ELSE s
Dist(s, t, x, y) == (x + y) - 2 * LcsLength(Upto(s, x), Upto(t, y))
MatchesAt(s, t, x, y) == x < Len(s) /\ y < Len(t) /\ s[x + 1] = t[y + 1]
Slides(s, t, x, y, c) == \A i \in 0 .. c - 1 : MatchesAt(s, t, x + i, y + i)

LEMMA UptoIs ==
  ASSUME NEW E, NEW s \in Seq(E), NEW x \in Nat
  PROVE  /\ Upto(s, x) \in Seq(E) /\ Len(Upto(s, x)) \in Nat /\ Len(Upto(s, x)) <= x
         /\ Upto(s, 0) = <<>> /\ Upto(s, Len(s)) = s
         /\ x < Len(s) => s[x + 1] \in E /\ Upto(s, x + 1) = Append(Upto(s, x), s[x + 1])
         /\ x >= Len(s) => Upto(s, x + 1) = Upto(s, x)
         /\ x <= Len(s) => Upto(s, x) = Slice(s, 0, x)
<1>1. /\ Len(s) \in Nat
      /\ SubSeq(s, 1, 0) = <<>> /\ SubSeq(s, 1, Len(s)) = s
      /\ \A i \in 0 .. Len(s) : SubSeq(s, 1, i) \in Seq(E) /\ Len(SubSeq(s, 1, i)) = i
      /\ \A i \in 1 .. Len(s) : /\ s[i] \in E
                                /\ SubSeq(s, 1, i) = Append(SubSeq(s, 1, i - 1), s[i])
  BY FirstElements
<1>b. Len(s) \in Nat
  BY LenProperties
<1>a. /\ Upto(s, 0) = <<>> /\ Upto(s, Len(s)) = s
      /\ \A i \in Nat : i <= Len(s) => Upto(s, i) = SubSeq(s, 1, i)
      /\ \A i \in Nat : i >= Len(s) => Upto(s, i) = s
  <2>1. 0 <= Len(s) /\ Len(s) <= Len(s)
    BY <1>1
  <2>2. \A i \in Nat : i >= Len(s) => Upto(s, i) = s
    <3> SUFFICES ASSUME NEW i \in Nat, i >= Len(s) PROVE Upto(s, i) = s
      OBVIOUS
    <3>1. i <= Len(s) => i = Len(s)
      BY <1>b
    <3> QED
      BY <1>1, <3>1, Zenon DEF Upto
  <2>3. \A i \in Nat : i <= Len(s) => Upto(s, i) = SubSeq(s, 1, i)
    BY Zenon DEF Upto
  <2>4. Upto(s, 0) = <<>> /\ Upto(s, Len(s)) = s
    BY <1>1, <2>1, Zenon DEF Upto
  <2> QED
    BY <2>2, <2>3, <2>4, Zenon
<1>2. CASE x < Len(s)
  <2>1. Upto(s, x) = SubSeq(s, 1, x) /\ Upto(s, x + 1) = SubSeq(s, 1, x + 1)
    <3>1. x <= Len(s) /\ x + 1 <= Len(s) /\ x + 1 \in Nat
      BY <1>1, <1>2
    <3> QED
      BY <1>a, <3>1, Zenon
  <2>2. x + 1 \in 1 .. Len(s) /\ (x + 1) - 1 = x /\ x \in 0 .. Len(s)
    BY <1>1, <1>2
  <2>3. s[x + 1] \in E /\ SubSeq(s, 1, x + 1) = Append(SubSeq(s, 1, x), s[x + 1])
    BY <1>1, <2>2
  <2>4. ~ (x >= Len(s)) /\ Slice(s, 0, x) = SubSeq(s, 1, x)
    BY <1>1, <1>2 DEF Slice
  <2> QED
    <3> HIDE DEF Upto
    <3>1. Upto(s, x) \in Seq(E) /\ Len(Upto(s, x)) = x
      BY <1>1, <2>1, <2>2
    <3> QED
      BY <1>2, <1>a, <2>1, <2>3, <2>4, <3>1
<1>3. CASE x >= Len(s)
  <2>1. Upto(s, x) = s /\ Upto(s, x + 1) = s
    <3>1. x + 1 \in Nat /\ x + 1 >= Len(s)
      BY <1>1, <1>3
    <3> QED
      BY <1>a, <1>3, <3>1, Zenon
  <2>2. x <= Len(s) => Slice(s, 0, x) = s
    <3> SUFFICES ASSUME x <= Len(s) PROVE SubSeq(s, 0 + 1, x) = s
      BY DEF Slice
    <3>1. x = Len(s) /\ 0 + 1 = 1
      BY <1>b, <1>3
    <3> QED
      BY <1>1, <3>1
  <2>3. ~ (x < Len(s))
    BY <1>1, <1>3
  <2> QED
    BY <1>1, <1>3, <1>a, <2>1, <2>2, <2>3
<1> QED
  BY <1>1, <1>2, <1>3

LEMMA DistIs ==
  ASSUME NEW E, NEW s \in Seq(E), NEW t \in Seq(E), NEW x \in Nat, NEW y \in Nat
  PROVE  /\ Dist(s, t, x, y) \in Nat
         /\ Dist(s, t, x, y) >= x - y /\ Dist(s, t, x, y) >= y - x
         /\ ((Dist(s, t, x, y) + x) - y) % 2 = 0
         /\ Dist(s, t, x, 0) = x /\ Dist(s, t, 0, y) = y
<1> DEFINE p == Upto(s, x)
           q == Upto(t, y)
           l == LcsLength(p, q)
<1>1. /\ p \in Seq(E) /\ q \in Seq(E) /\ Len(p) \in Nat /\ Len(q) \in Nat
      /\ Len(p) <= x /\ Len(q) <= y /\ Upto(s, 0) = <<>> /\ Upto(t, 0) = <<>>
  BY UptoIs
<1>2. LcsLength(p, <<>>) = 0 /\ LcsLength(<<>>, q) = 0
  <2> HIDE DEF p, q
  <2> QED
    BY <1>1, LcsLengthNothing
<1>3. l \in Nat /\ l <= Len(p) /\ l <= Len(q)
  <2> HIDE DEF p, q
  <2> QED
    BY <1>1, LcsLengthIs, LcsLengthAtMost
<1>4. Dist(s, t, x, y) = (x + y) - 2 * l
  BY DEF Dist
<1>5. Dist(s, t, x, 0) = x /\ Dist(s, t, 0, y) = y
  BY <1>1, <1>2 DEF Dist
<1> HIDE DEF l, p, q
<1>6. l <= x /\ l <= y
  BY <1>1, <1>3
<1>7. (((x + y) - 2 * l + x) - y) % 2 = 0
  BY <1>3
<1> QED
  BY <1>3, <1>4, <1>5, <1>6, <1>7

LEMMA LcsLengthNext ==
  ASSUME NEW E, NEW u \in Seq(E), NEW v \in Seq(E), NEW e \in E, NEW f \in E
  PROVE  /\ LcsLength(u, v) <= LcsLength(Append(u, e), v)
         /\ LcsLength(Append(u, e), v) <= LcsLength(u, v) + 1
         /\ LcsLength(u, v) <= LcsLength(u, Append(v, f))
         /\ LcsLength(u, Append(v, f)) <= LcsLength(u, v) + 1
         /\ LcsLength(Append(u, e), Append(v, f)) <= LcsLength(u, v) + 1
         /\ e = f => LcsLength(Append(u, e), Append(v, f)) = LcsLength(u, v) + 1
         /\ e # f => \/ LcsLength(Append(u, e), Append(v, f)) = LcsLength(Append(u, e), v)
                     \/ LcsLength(Append(u, e), Append(v, f)) = LcsLength(u, Append(v, f))
BY LcsLengthMore, LcsLengthBoth, LcsLengthSame, LcsLengthDiffer

LEMMA DistNext ==
  ASSUME NEW E, NEW s \in Seq(E), NEW t \in Seq(E), NEW x \in Nat, NEW y \in Nat
  PROVE  /\ Dist(s, t, x + 1, y) <= Dist(s, t, x, y) + 1
         /\ Dist(s, t, x, y + 1) <= Dist(s, t, x, y) + 1
         /\ Dist(s, t, x + 1, y + 1) >= Dist(s, t, x, y)
         /\ MatchesAt(s, t, x, y) => Dist(s, t, x + 1, y + 1) = Dist(s, t, x, y)
         /\ ~MatchesAt(s, t, x, y) => \/ Dist(s, t, x + 1, y + 1) = Dist(s, t, x + 1, y) + 1
                                    \/ Dist(s, t, x + 1, y + 1) = Dist(s, t, x, y + 1) + 1
<1> DEFINE p == Upto(s, x)
           q == Upto(t, y)
           l(i, j) == LcsLength(Upto(s, i), Upto(t, j))
           m == LcsLength(Upto(s, x), Upto(t, y))
           mx == LcsLength(Upto(s, x + 1), Upto(t, y))
           my == LcsLength(Upto(s, x), Upto(t, y + 1))
           mm == LcsLength(Upto(s, x + 1), Upto(t, y + 1))
<1>1. /\ p \in Seq(E) /\ q \in Seq(E) /\ Len(s) \in Nat /\ Len(t) \in Nat
      /\ Upto(s, x + 1) \in Seq(E) /\ Upto(t, y + 1) \in Seq(E)
      /\ x < Len(s) => s[x + 1] \in E /\ Upto(s, x + 1) = Append(p, s[x + 1])
      /\ x >= Len(s) => Upto(s, x + 1) = p
      /\ y < Len(t) => t[y + 1] \in E /\ Upto(t, y + 1) = Append(q, t[y + 1])
      /\ y >= Len(t) => Upto(t, y + 1) = q
  <2>1. \A r \in Seq(E) : \A i \in Nat :
          /\ Upto(r, i) \in Seq(E) /\ Len(r) \in Nat
          /\ i < Len(r) => r[i + 1] \in E /\ Upto(r, i + 1) = Append(Upto(r, i), r[i + 1])
          /\ i >= Len(r) => Upto(r, i + 1) = Upto(r, i)
    BY SMTT(30), UptoIs, LenProperties
  <2>2. x + 1 \in Nat /\ y + 1 \in Nat
    OBVIOUS
  <2> QED
    BY <2>1, <2>2
<1>2. m \in Nat /\ mx \in Nat /\ my \in Nat /\ mm \in Nat
  <2>1. \A u, v \in Seq(E) : LcsLength(u, v) \in Nat
    BY LcsLengthIs
  <2> QED
    BY <1>1, <2>1
<1>3. /\ Dist(s, t, x, y) = (x + y) - 2 * m
      /\ Dist(s, t, x + 1, y) = (x + 1 + y) - 2 * mx
      /\ Dist(s, t, x, y + 1) = (x + (y + 1)) - 2 * my
      /\ Dist(s, t, x + 1, y + 1) = (x + 1 + (y + 1)) - 2 * mm
  BY DEF Dist
<1> HIDE DEF p, q, m, mx, my, mm
<1> DEFINE e == s[x + 1]
           f == t[y + 1]
           X(c) == LcsLength(Append(p, c), q)
           Y(c) == LcsLength(p, Append(q, c))
           XY(c, z) == LcsLength(Append(p, c), Append(q, z))
<1>a. /\ x < Len(s) => e \in E /\ mx = X(e)
      /\ x >= Len(s) => mx = m /\ mm = my
      /\ y < Len(t) => f \in E /\ my = Y(f)
      /\ y >= Len(t) => my = m /\ mm = mx
      /\ x < Len(s) /\ y < Len(t) => mm = XY(e, f)
      /\ m = LcsLength(p, q)
  BY <1>1, Zenon DEF p, q, m, mx, my, mm
<1>b. MatchesAt(s, t, x, y) <=> x < Len(s) /\ y < Len(t) /\ e = f
  BY DEF MatchesAt
<1>c. \A c, z \in E : /\ m <= X(c) /\ X(c) <= m + 1
                      /\ m <= Y(z) /\ Y(z) <= m + 1
                      /\ XY(c, z) <= m + 1
                      /\ c = z => XY(c, z) = m + 1
                      /\ c # z => XY(c, z) = X(c) \/ XY(c, z) = Y(z)
  <2> SUFFICES ASSUME NEW c \in E, NEW z \in E
               PROVE  /\ m <= X(c) /\ X(c) <= m + 1
                      /\ m <= Y(z) /\ Y(z) <= m + 1
                      /\ XY(c, z) <= m + 1
                      /\ c = z => XY(c, z) = m + 1
                      /\ c # z => XY(c, z) = X(c) \/ XY(c, z) = Y(z)
    BY Zenon
  <2>1. /\ LcsLength(p, q) <= X(c) /\ X(c) <= LcsLength(p, q) + 1
        /\ LcsLength(p, q) <= Y(z) /\ Y(z) <= LcsLength(p, q) + 1
        /\ XY(c, z) <= LcsLength(p, q) + 1
        /\ c = z => XY(c, z) = LcsLength(p, q) + 1
        /\ c # z => XY(c, z) = X(c) \/ XY(c, z) = Y(z)
    BY <1>1, LcsLengthNext
  <2>2. LcsLength(p, q) = m
    BY DEF m, p, q
  <2> HIDE DEF X, Y, XY
  <2> QED
    BY <2>1, <2>2
<1> HIDE DEF e, f, X, Y, XY
<1>6. m <= mx /\ m <= my /\ mm <= m + 1
  BY SMTT(30), <1>1, <1>2, <1>a, <1>c
<1>7. MatchesAt(s, t, x, y) => mm = m + 1
  BY <1>a, <1>b, <1>c
<1>8. ~MatchesAt(s, t, x, y) => mm = mx \/ mm = my
  BY <1>1, <1>a, <1>b, <1>c
<1> QED
  BY <1>2, <1>3, <1>6, <1>7, <1>8

(* Along a diagonal the distance never falls, and matches keep it.         *)
LEMMA DistAlong ==
  ASSUME NEW E, NEW s \in Seq(E), NEW t \in Seq(E), NEW x \in Nat, NEW y \in Nat, NEW i \in Nat
  PROVE  /\ Dist(s, t, x, y) <= Dist(s, t, x + i, y + i)
         /\ Slides(s, t, x, y, i)
              => Dist(s, t, x + i, y + i) = Dist(s, t, x, y)
<1> DEFINE D(j) == Dist(s, t, x + j, y + j)
           M(j) == MatchesAt(s, t, x + j, y + j)
           S == {j \in Nat : D(0) <= D(j) /\ ((\A h \in 0 .. j - 1 : M(h)) => D(j) = D(0))}
<1>1. \A j \in Nat : /\ D(j) \in Nat /\ D(j) <= D(j + 1)
                     /\ M(j) => D(j + 1) = D(j)
  <2> SUFFICES ASSUME NEW j \in Nat
               PROVE  D(j) \in Nat /\ D(j) <= D(j + 1) /\ (M(j) => D(j + 1) = D(j))
    OBVIOUS
  <2>1. x + j \in Nat /\ y + j \in Nat /\ (x + j) + 1 = x + (j + 1) /\ (y + j) + 1 = y + (j + 1)
    OBVIOUS
  <2>2. /\ Dist(s, t, x + j, y + j) \in Nat
        /\ Dist(s, t, (x + j) + 1, (y + j) + 1) >= Dist(s, t, x + j, y + j)
        /\ M(j) => Dist(s, t, (x + j) + 1, (y + j) + 1) = Dist(s, t, x + j, y + j)
    <3> DEFINE p == x + j
               q == y + j
    <3>1. p \in Nat /\ q \in Nat
      BY <2>1
    <3> HIDE DEF D, p, q
    <3>2. /\ Dist(s, t, p, q) \in Nat /\ Dist(s, t, p + 1, q + 1) >= Dist(s, t, p, q)
          /\ MatchesAt(s, t, p, q) => Dist(s, t, p + 1, q + 1) = Dist(s, t, p, q)
      <4>1. Dist(s, t, p, q) \in Nat
        BY <3>1, DistIs
      <4> HIDE DEF M
      <4> QED
        BY <3>1, <4>1, DistNext
    <3> QED
      BY <3>2 DEF p, q
  <2> HIDE DEF M
  <2>3. D(j) = Dist(s, t, x + j, y + j) /\ D(j + 1) = Dist(s, t, (x + j) + 1, (y + j) + 1)
    BY <2>1
  <2> HIDE DEF D
  <2>4. D(j) \in Nat /\ D(j + 1) >= D(j) /\ (M(j) => D(j + 1) = D(j))
    BY <2>2, <2>3
  <2>5. D(j + 1) \in Nat
    <3>1. (x + j) + 1 \in Nat /\ (y + j) + 1 \in Nat
      OBVIOUS
    <3> QED
      BY <2>3, <3>1, DistIs
  <2> QED
    BY <2>4, <2>5
<1>2. D(0) = Dist(s, t, x, y)
  OBVIOUS
<1> HIDE DEF D, M
<1>3. 0 \in S
  BY <1>1
<1>4. ASSUME NEW j \in Nat, j \in S PROVE j + 1 \in S
  <2>1. D(0) <= D(j) /\ ((\A h \in 0 .. j - 1 : M(h)) => D(j) = D(0))
    BY <1>4
  <2>2. /\ D(j) \in Nat /\ D(j) <= D(j + 1) /\ (M(j) => D(j + 1) = D(j))
        /\ D(j + 1) \in Nat /\ D(0) \in Nat
    <3>1. j + 1 \in Nat /\ 0 \in Nat
      OBVIOUS
    <3> QED
      BY <1>1, <3>1, Zenon
  <2>3. D(0) <= D(j + 1)
    BY <2>1, <2>2
  <2>4. ASSUME \A h \in 0 .. (j + 1) - 1 : M(h) PROVE D(j + 1) = D(0)
    <3>1. j \in 0 .. (j + 1) - 1 /\ \A h \in 0 .. j - 1 : h \in 0 .. (j + 1) - 1
      OBVIOUS
    <3> QED
      BY <2>1, <2>2, <2>4, <3>1
  <2> QED
    BY <2>3, <2>4
<1> HIDE DEF S
<1>5. Nat \subseteq S
  BY <1>3, <1>4, Induction
<1>6. D(0) <= D(i) /\ ((\A h \in 0 .. i - 1 : M(h)) => D(i) = D(0))
  BY <1>5 DEF S
<1> QED
  BY <1>2, <1>6 DEF D, M, Slides

LEMMA DistSlide ==
  ASSUME NEW E, NEW s \in Seq(E), NEW t \in Seq(E), NEW x \in Nat, NEW y \in Nat, NEW i \in Nat,
         Slides(s, t, x, y, i)
  PROVE  Dist(s, t, x + i, y + i) = Dist(s, t, x, y)
BY DistAlong

(* What is left to the far corner, as the distance in the sequences turned *)
(* round: the backward search.                                             *)
Back(s, t, x, y) == Dist(Reverse(s), Reverse(t), Len(s) - x, Len(t) - y)

LEMMA BackIs ==
  ASSUME NEW E, NEW s \in Seq(E), NEW t \in Seq(E), NEW x \in 0 .. Len(s), NEW y \in 0 .. Len(t)
  PROVE  /\ Back(s, t, x, y) \in Nat
         /\ Back(s, t, x, y) = ScriptDistance(Slice(s, x, Len(s)), Slice(t, y, Len(t)))
         /\ Dist(s, t, x, y) = ScriptDistance(Slice(s, 0, x), Slice(t, 0, y))
         /\ Dist(s, t, Len(s), Len(t)) = ScriptDistance(s, t)
         /\ Back(s, t, 0, 0) = ScriptDistance(s, t)
         /\ ScriptDistance(s, t) <= Dist(s, t, x, y) + Back(s, t, x, y)
<1> DEFINE n == Len(s)
           m == Len(t)
           p == Slice(s, 0, x)
           q == Slice(t, 0, y)
           u == Slice(s, x, n)
           v == Slice(t, y, m)
           rs == Reverse(s)
           rt == Reverse(t)
<1>1. /\ n \in Nat /\ m \in Nat /\ x \in Nat /\ y \in Nat /\ n - x \in Nat /\ m - y \in Nat
      /\ x <= n /\ y <= m /\ n - x <= n /\ m - y <= m /\ 0 \in 0 .. n /\ 0 \in 0 .. m
      /\ n \in 0 .. n /\ m \in 0 .. m
  BY LenProperties
<1>2. /\ p \in Seq(E) /\ u \in Seq(E) /\ Len(p) = x - 0 /\ Len(u) = n - x
  <2>1. p \in Seq(E) /\ Len(p) = x - 0
    BY <1>1, PartIs
  <2>2. u \in Seq(E) /\ Len(u) = n - x
    BY <1>1, PartIs
  <2> QED
    BY <2>1, <2>2
<1>3. /\ q \in Seq(E) /\ v \in Seq(E) /\ Len(q) = y - 0 /\ Len(v) = m - y
  <2>1. q \in Seq(E) /\ Len(q) = y - 0
    BY <1>1, PartIs
  <2>2. v \in Seq(E) /\ Len(v) = m - y
    BY <1>1, PartIs
  <2> QED
    BY <2>1, <2>2
<1>4. p \o u = s /\ q \o v = t
  <2>1. Slice(s, 0, n) = s /\ Slice(t, 0, m) = t
    <3>1. SubSeq(s, 1, n) = s /\ SubSeq(t, 1, m) = t
      BY FirstElements
    <3>2. SubSeq(s, 1, n) = Slice(s, 0, n) /\ SubSeq(t, 1, m) = Slice(t, 0, m)
      BY <1>1, FirstPart
    <3> QED
      BY <3>1, <3>2
  <2>2. p \o u = Slice(s, 0, n)
    BY <1>1, PartJoin
  <2>3. q \o v = Slice(t, 0, m)
    BY <1>1, PartJoin
  <2> QED
    BY <2>1, <2>2, <2>3
<1>5. rs \in Seq(E) /\ Len(rs) = n /\ rt \in Seq(E) /\ Len(rt) = m
  BY ReverseIs
<1>6. Upto(s, x) = p /\ Upto(t, y) = q /\ Upto(s, n) = s /\ Upto(t, m) = t
  BY <1>1, UptoIs
<1>7. Upto(rs, n - x) = Reverse(u) /\ Upto(rt, m - y) = Reverse(v)
  <2>1. Upto(rs, n - x) = SubSeq(rs, 1, n - x) /\ Upto(rt, m - y) = SubSeq(rt, 1, m - y)
    BY <1>1, <1>5 DEF Upto
  <2>2. SubSeq(rs, 1, n - x) = Reverse(u) /\ SubSeq(rt, 1, m - y) = Reverse(v)
    BY RestReversed
  <2> QED
    BY <2>1, <2>2
<1>8. Upto(rs, n) = rs /\ Upto(rt, m) = rt
  BY <1>5, <1>1, UptoIs
<1>9. LcsLength(Reverse(u), Reverse(v)) = LcsLength(u, v) /\ LcsLength(rs, rt) = LcsLength(s, t)
  <2> HIDE DEF u, v
  <2> QED
    BY <1>2, <1>3, LcsLengthReverse
<1> DEFINE lp == LcsLength(p, q)
           lu == LcsLength(u, v)
           ls == LcsLength(s, t)
<1>10. lp + lu <= ls /\ lp \in Nat /\ lu \in Nat /\ ls \in Nat
  <2> HIDE DEF p, q, u, v
  <2> QED
    BY <1>2, <1>3, <1>4, SumAtMost, LcsLengthIs
<1>11. Back(s, t, x, y) = ((n - x) + (m - y)) - 2 * lu /\ Back(s, t, 0, 0) = (n + m) - 2 * ls
  <2>1. Back(s, t, x, y) = ((n - x) + (m - y)) - 2 * LcsLength(Reverse(u), Reverse(v))
    BY <1>7 DEF Back, Dist
  <2>2. n - 0 = n /\ m - 0 = m
    BY <1>1
  <2>3. Back(s, t, 0, 0) = Dist(rs, rt, n, m)
    BY <2>2 DEF Back
  <2>4. Dist(rs, rt, n, m) = (n + m) - 2 * LcsLength(rs, rt)
    BY <1>8 DEF Dist
  <2> QED
    BY <1>9, <2>1, <2>3, <2>4
<1>12. /\ Dist(s, t, x, y) = (x + y) - 2 * lp
       /\ Dist(s, t, n, m) = (n + m) - 2 * ls
  BY <1>6 DEF Dist
<1>13. /\ ScriptDistance(u, v) = Len(u) + Len(v) - 2 * lu
       /\ ScriptDistance(p, q) = Len(p) + Len(q) - 2 * lp
       /\ ScriptDistance(s, t) = n + m - 2 * ls
  BY DEF ScriptDistance
<1>14. Back(s, t, x, y) \in Nat
  <2>1. n - x \in Nat /\ m - y \in Nat
    BY <1>1
  <2> DEFINE i == n - x
             j == m - y
  <2>2. i \in Nat /\ j \in Nat
    BY <2>1
  <2> HIDE DEF i, j, rs, rt
  <2>3. Dist(rs, rt, i, j) \in Nat
    BY <1>5, <2>2, DistIs
  <2> QED
    BY <2>3 DEF Back, rs, rt, i, j
<1> HIDE DEF p, q, u, v, n, m, lp, lu, ls
<1>15. /\ Back(s, t, x, y) = ScriptDistance(u, v)
       /\ Dist(s, t, x, y) = ScriptDistance(p, q)
       /\ Dist(s, t, n, m) = ScriptDistance(s, t)
       /\ Back(s, t, 0, 0) = ScriptDistance(s, t)
       /\ ScriptDistance(s, t) <= Dist(s, t, x, y) + Back(s, t, x, y)
  <2>1. Len(u) = n - x /\ Len(v) = m - y /\ Len(p) = x /\ Len(q) = y
    BY <1>1, <1>2, <1>3
  <2> QED
    BY <1>1, <1>10, <1>11, <1>12, <1>13, <2>1
<1> QED
  BY <1>14, <1>15 DEF p, q, u, v, n, m

LEMMA BackNext ==
  ASSUME NEW E, NEW s \in Seq(E), NEW t \in Seq(E), NEW x \in 0 .. Len(s), NEW y \in 0 .. Len(t)
  PROVE  /\ x # Len(s) => Back(s, t, x, y) <= Back(s, t, x + 1, y) + 1
         /\ y # Len(t) => Back(s, t, x, y) <= Back(s, t, x, y + 1) + 1
         /\ MatchesAt(s, t, x, y) => Back(s, t, x, y) = Back(s, t, x + 1, y + 1)
<1> DEFINE n == Len(s)
           m == Len(t)
           p == Reverse(s)
           q == Reverse(t)
           D(i, j) == Dist(p, q, i, j)
           z == n - (x + 1)
           w == m - (y + 1)
<1>1. n \in Nat /\ m \in Nat /\ x \in Nat /\ y \in Nat /\ x <= n /\ y <= m
  BY LenProperties
<1>2. /\ p \in Seq(E) /\ Len(p) = n /\ \A i \in 1 .. n : p[i] = s[n - i + 1]
      /\ q \in Seq(E) /\ Len(q) = m /\ \A i \in 1 .. m : q[i] = t[m - i + 1]
  BY ReverseIs
<1>3. \A i, j \in Nat : /\ D(i + 1, j) <= D(i, j) + 1 /\ D(i, j + 1) <= D(i, j) + 1
                        /\ MatchesAt(p, q, i, j) => D(i + 1, j + 1) = D(i, j)
  <2> SUFFICES ASSUME NEW i \in Nat, NEW j \in Nat
               PROVE  /\ D(i + 1, j) <= D(i, j) + 1 /\ D(i, j + 1) <= D(i, j) + 1
                      /\ MatchesAt(p, q, i, j) => D(i + 1, j + 1) = D(i, j)
    BY Zenon
  <2> HIDE DEF p, q
  <2>1. p \in Seq(E) /\ q \in Seq(E)
    BY <1>2
  <2>2. /\ Dist(p, q, i + 1, j) <= Dist(p, q, i, j) + 1
        /\ Dist(p, q, i, j + 1) <= Dist(p, q, i, j) + 1
    BY <2>1, DistNext
  <2>3. MatchesAt(p, q, i, j) => Dist(p, q, i + 1, j + 1) = Dist(p, q, i, j)
    BY <2>1, DistNext
  <2> QED
    BY <2>2, <2>3
<1>4. \A i, j : Back(s, t, i, j) = D(n - i, m - j)
  BY DEF Back
<1>5. /\ n - x \in Nat /\ m - y \in Nat
      /\ x # n => z \in Nat /\ z + 1 = n - x
      /\ y # m => w \in Nat /\ w + 1 = m - y
  BY <1>1
<1>6. ASSUME MatchesAt(s, t, x, y)
      PROVE  z \in Nat /\ w \in Nat /\ z + 1 = n - x /\ w + 1 = m - y /\ MatchesAt(p, q, z, w)
  <2>1. x < n /\ y < m /\ s[x + 1] = t[y + 1]
    BY <1>6 DEF MatchesAt
  <2>2. z + 1 \in 1 .. n /\ w + 1 \in 1 .. m /\ z < n /\ w < m
    BY <1>1, <2>1
  <2>3. n - (z + 1) + 1 = x + 1 /\ m - (w + 1) + 1 = y + 1
    BY <1>1
  <2>4. p[z + 1] = s[x + 1] /\ q[w + 1] = t[y + 1]
    <3> HIDE DEF p, q, z, w, n, m
    <3> QED
      BY <1>2, <2>2, <2>3
  <2> HIDE DEF p, q, z, w, n, m
  <2>5. MatchesAt(p, q, z, w)
    BY <1>2, <2>1, <2>2, <2>4 DEF MatchesAt
  <2> QED
    BY <1>1, <1>5, <2>1, <2>5
<1> HIDE DEF D, n, m, p, q
<1>7. x # n => Back(s, t, x, y) <= Back(s, t, x + 1, y) + 1
  <2> HIDE DEF z
  <2> SUFFICES ASSUME x # n PROVE D(z + 1, m - y) <= D(z, m - y) + 1
    BY <1>4, <1>5 DEF z
  <2> QED
    BY <1>3, <1>5
<1>8. y # m => Back(s, t, x, y) <= Back(s, t, x, y + 1) + 1
  <2> HIDE DEF w
  <2> SUFFICES ASSUME y # m PROVE D(n - x, w + 1) <= D(n - x, w) + 1
    BY <1>4, <1>5 DEF w
  <2> QED
    BY <1>3, <1>5
<1>9. MatchesAt(s, t, x, y) => Back(s, t, x, y) = Back(s, t, x + 1, y + 1)
  <2> HIDE DEF z, w
  <2> SUFFICES ASSUME MatchesAt(s, t, x, y) PROVE D(z + 1, w + 1) = D(z, w)
    BY <1>4, <1>6 DEF z, w
  <2> QED
    BY <1>3, <1>6
<1> QED
  BY <1>7, <1>8, <1>9 DEF n, m

(* A shortest path through the edit graph comes to each point from one     *)
(* that is on it too.                                                      *)
LEMMA StepBack ==
  ASSUME NEW E, NEW s \in Seq(E), NEW t \in Seq(E), NEW x \in 0 .. Len(s), NEW y \in 0 .. Len(t),
         Dist(s, t, x, y) + Back(s, t, x, y) = ScriptDistance(s, t), Dist(s, t, x, y) # 0
  PROVE  \E i \in 0 .. Len(s) : \E j \in 0 .. Len(t) :
           /\ i + j < x + y
           /\ Dist(s, t, i, j) + Back(s, t, i, j) = ScriptDistance(s, t)
           /\ Dist(s, t, x, y) = Dist(s, t, i, j) \/ Dist(s, t, x, y) = Dist(s, t, i, j) + 1
<1> DEFINE D(i, j) == Dist(s, t, i, j)
           B(i, j) == Back(s, t, i, j)
           n == Len(s)
           m == Len(t)
           T == ScriptDistance(s, t)
<1>1. n \in Nat /\ m \in Nat /\ x \in Nat /\ y \in Nat /\ x <= n /\ y <= m
  BY LenProperties
<1>2. \A i \in 0 .. n : \A j \in 0 .. m :
        D(i, j) \in Nat /\ B(i, j) \in Nat /\ T <= D(i, j) + B(i, j) /\ i \in Nat /\ j \in Nat
  <2> SUFFICES ASSUME NEW i \in 0 .. n, NEW j \in 0 .. m
               PROVE  D(i, j) \in Nat /\ B(i, j) \in Nat /\ T <= D(i, j) + B(i, j)
                      /\ i \in Nat /\ j \in Nat
    BY Zenon
  <2>1. i \in Nat /\ j \in Nat
    BY <1>1
  <2>2. D(i, j) \in Nat
    BY <2>1, DistIs
  <2> QED
    BY <2>1, <2>2, BackIs
<1>3. T \in Int
  BY <1>2 DEF ScriptDistance
<1>4. ASSUME y # 0, D(x, y) = D(x, y - 1) + 1
      PROVE  x + (y - 1) < x + y /\ D(x, y - 1) + B(x, y - 1) = T
             /\ x \in 0 .. n /\ y - 1 \in 0 .. m
  <2> DEFINE j == y - 1
  <2>1. j \in 0 .. m /\ j + 1 = y /\ j # m /\ x \in 0 .. n
    BY <1>1, <1>4
  <2> HIDE DEF j
  <2>2. B(x, j) <= B(x, j + 1) + 1
    <3> HIDE DEF B
    <3> QED
      BY <2>1, BackNext DEF B
  <2>3. D(x, y) + B(x, y) = T /\ D(x, y) = D(x, j) + 1 /\ B(x, j) <= B(x, y) + 1
    BY <1>4, <2>1, <2>2 DEF j
  <2>4. /\ D(x, j) \in Nat /\ B(x, j) \in Nat /\ T <= D(x, j) + B(x, j)
        /\ D(x, y) \in Nat /\ B(x, y) \in Nat
    BY <1>2, <2>1
  <2> HIDE DEF D, B, T
  <2>5. D(x, j) + B(x, j) = T
    BY <1>3, <2>3, <2>4
  <2> QED
    BY <1>1, <2>1, <2>5 DEF j
<1>5. ASSUME x # 0, D(x, y) = D(x - 1, y) + 1
      PROVE  (x - 1) + y < x + y /\ D(x - 1, y) + B(x - 1, y) = T
             /\ x - 1 \in 0 .. n /\ y \in 0 .. m
  <2> DEFINE i == x - 1
  <2>1. i \in 0 .. n /\ i + 1 = x /\ i # n /\ y \in 0 .. m
    BY <1>1, <1>5
  <2> HIDE DEF i
  <2>2. B(i, y) <= B(i + 1, y) + 1
    <3> HIDE DEF B
    <3> QED
      BY <2>1, BackNext DEF B
  <2>3. D(x, y) + B(x, y) = T /\ D(x, y) = D(i, y) + 1 /\ B(i, y) <= B(x, y) + 1
    BY <1>5, <2>1, <2>2 DEF i
  <2>4. /\ D(i, y) \in Nat /\ B(i, y) \in Nat /\ T <= D(i, y) + B(i, y)
        /\ D(x, y) \in Nat /\ B(x, y) \in Nat
    BY <1>2, <2>1
  <2> HIDE DEF D, B, T
  <2>5. D(i, y) + B(i, y) = T
    BY <1>3, <2>3, <2>4
  <2> QED
    BY <1>1, <2>1, <2>5 DEF i
<1>6. CASE x = 0
  <2>1. D(0, y) = y /\ (y # 0 => D(0, y - 1) = y - 1)
    <3>1. \A j \in Nat : D(0, j) = j
      <4>1. 0 \in Nat
        OBVIOUS
      <4> QED
        BY <4>1, DistIs
    <3>2. y # 0 => y - 1 \in Nat
      BY <1>1
    <3> HIDE DEF D
    <3> QED
      BY <1>1, <3>1, <3>2
  <2>2. y # 0 /\ D(x, y) = D(x, y - 1) + 1
    BY <1>1, <1>6, <2>1
  <2> QED
    BY <1>4, <2>2
<1>7. CASE y = 0
  <2>1. D(x, 0) = x /\ (x # 0 => D(x - 1, 0) = x - 1)
    <3>1. \A j \in Nat : D(j, 0) = j
      <4>1. 0 \in Nat
        OBVIOUS
      <4> QED
        BY <4>1, DistIs
    <3>2. x # 0 => x - 1 \in Nat
      BY <1>1
    <3> HIDE DEF D
    <3> QED
      BY <1>1, <3>1, <3>2
  <2>2. x # 0 /\ D(x, y) = D(x - 1, y) + 1
    BY <1>1, <1>7, <2>1
  <2> QED
    BY <1>5, <2>2
<1>8. CASE x # 0 /\ y # 0
  <2> DEFINE i == x - 1
             j == y - 1
  <2>1. i \in 0 .. n /\ j \in 0 .. m /\ i + 1 = x /\ j + 1 = y /\ i + j < x + y
        /\ i \in Nat /\ j \in Nat
    BY <1>1, <1>8
  <2> HIDE DEF i, j
  <2>2. CASE MatchesAt(s, t, i, j)
    <3>1. D(i + 1, j + 1) = D(i, j)
      BY <2>1, <2>2, DistNext
    <3>2. B(i, j) = B(i + 1, j + 1)
      BY <2>1, <2>2, BackNext
    <3>3. D(x, y) = D(i, j) /\ D(i, j) + B(i, j) = T
      BY <2>1, <3>1, <3>2
    <3> QED
      BY <2>1, <3>3
  <2>3. CASE ~MatchesAt(s, t, i, j)
    <3>1. D(i + 1, j + 1) = D(i + 1, j) + 1 \/ D(i + 1, j + 1) = D(i, j + 1) + 1
      BY <2>1, <2>3, DistNext
    <3>2. D(x, y) = D(x, y - 1) + 1 \/ D(x, y) = D(x - 1, y) + 1
      BY <2>1, <3>1 DEF i, j
    <3> HIDE DEF D, B, T
    <3> QED
      BY <1>4, <1>5, <1>8, <3>2 DEF D, B, T
  <2> QED
    BY <2>2, <2>3
<1> QED
  BY <1>6, <1>7, <1>8

(* So it has a point at every distance. *)
LEMMA Crossing ==
  ASSUME NEW E, NEW s \in Seq(E), NEW t \in Seq(E), NEW c \in 0 .. ScriptDistance(s, t)
  PROVE  \E x \in 0 .. Len(s) : \E y \in 0 .. Len(t) :
           Dist(s, t, x, y) = c /\ Back(s, t, x, y) = ScriptDistance(s, t) - c
<1> DEFINE D(i, j) == Dist(s, t, i, j)
           B(i, j) == Back(s, t, i, j)
           n == Len(s)
           m == Len(t)
           T == ScriptDistance(s, t)
           Found == \E x \in 0 .. n : \E y \in 0 .. m : D(x, y) = c /\ B(x, y) = T - c
           S == {i \in Nat : \A x \in 0 .. n : \A y \in 0 .. m :
                               x + y <= i /\ D(x, y) + B(x, y) = T /\ c <= D(x, y) => Found}
<1>1. n \in Nat /\ m \in Nat /\ n \in 0 .. n /\ m \in 0 .. m
  BY LenProperties
<1>2. \A i \in 0 .. n : \A j \in 0 .. m : D(i, j) \in Nat /\ B(i, j) \in Nat
  <2> SUFFICES ASSUME NEW i \in 0 .. n, NEW j \in 0 .. m
               PROVE  D(i, j) \in Nat /\ B(i, j) \in Nat
    BY Zenon
  <2>1. i \in Nat /\ j \in Nat
    BY <1>1
  <2> QED
    BY <2>1, DistIs, BackIs
<1>3. D(n, m) + B(n, m) = T /\ c <= D(n, m) /\ c \in Nat /\ T \in Nat
  <2>1. D(n, m) = T /\ B(n, m) = ScriptDistance(Slice(s, n, n), Slice(t, m, m))
    BY <1>1, BackIs
  <2>2. B(n, m) = 0
    <3>1. B(n, m) = Dist(Reverse(s), Reverse(t), 0, 0)
      <4>1. n - n = 0 /\ m - m = 0
        BY <1>1
      <4> QED
        BY <4>1 DEF Back
    <3>2. Reverse(s) \in Seq(E) /\ Reverse(t) \in Seq(E) /\ 0 \in Nat
      BY ReverseIs
    <3> QED
      BY <3>1, <3>2, DistIs
  <2>3. T \in Nat
    BY <1>1, <1>2, <2>1
  <2> HIDE DEF D, B, T
  <2>4. c \in 0 .. T
    BY DEF T
  <2> QED
    BY <2>1, <2>2, <2>3, <2>4
<1>4. \A x \in 0 .. n : \A y \in 0 .. m :
        D(x, y) + B(x, y) = T /\ D(x, y) # 0 =>
          \E i \in 0 .. n : \E j \in 0 .. m :
            /\ i + j < x + y /\ D(i, j) + B(i, j) = T
            /\ D(x, y) = D(i, j) \/ D(x, y) = D(i, j) + 1
  BY StepBack
<1>5. ASSUME NEW x \in 0 .. n, NEW y \in 0 .. m, D(x, y) + B(x, y) = T, D(x, y) = c
      PROVE  Found
  <2>1. D(x, y) \in Nat /\ B(x, y) \in Nat
    BY <1>2
  <2> HIDE DEF D, B, T
  <2>2. D(x, y) = c /\ B(x, y) = T - c
    BY <1>3, <1>5, <2>1
  <2> QED
    BY <2>2
<1> HIDE DEF D, B, T, n, m, Found
<1>6. 0 \in S
  <2> SUFFICES ASSUME NEW x \in 0 .. n, NEW y \in 0 .. m,
                      x + y <= 0, D(x, y) + B(x, y) = T, c <= D(x, y)
               PROVE  Found
    OBVIOUS
  <2>1. D(x, y) = 0
    <3> SUFFICES ASSUME D(x, y) # 0 PROVE FALSE
      OBVIOUS
    <3>1. PICK i \in 0 .. n, j \in 0 .. m : i + j < x + y
      BY <1>4
    <3> QED
      BY <1>1, <3>1
  <2> QED
    BY <1>3, <1>5, <2>1
<1>7. ASSUME NEW h \in Nat, h \in S PROVE h + 1 \in S
  <2> SUFFICES ASSUME NEW x \in 0 .. n, NEW y \in 0 .. m,
                      x + y <= h + 1, D(x, y) + B(x, y) = T, c <= D(x, y)
               PROVE  Found
    OBVIOUS
  <2>1. D(x, y) \in Nat
    BY <1>2
  <2>2. CASE D(x, y) = c
    BY <1>5, <2>2
  <2>3. CASE D(x, y) # c
    <3>1. D(x, y) # 0 /\ c + 1 <= D(x, y)
      BY <1>3, <2>1, <2>3
    <3>2. PICK i \in 0 .. n, j \in 0 .. m :
            /\ i + j < x + y /\ D(i, j) + B(i, j) = T
            /\ D(x, y) = D(i, j) \/ D(x, y) = D(i, j) + 1
      BY <1>4, <3>1
    <3>3. D(i, j) \in Nat /\ i \in Int /\ j \in Int /\ x \in Int /\ y \in Int
      BY <1>1, <1>2
    <3>4. i + j <= h /\ c <= D(i, j)
      BY <1>3, <2>1, <3>1, <3>2, <3>3
    <3> QED
      BY <1>7, <3>2, <3>4
  <2> QED
    BY <2>2, <2>3
<1> HIDE DEF S
<1>8. Nat \subseteq S
  BY <1>6, <1>7, Induction
<1>9. n + m \in S
  BY <1>1, <1>8
<1>10. Found
  BY <1>1, <1>3, <1>9 DEF S
<1> QED
  BY <1>10 DEF Found, D, B, T, n, m

LEMMA DistBounds ==
  ASSUME NEW E
  PROVE  \A p, q \in Seq(E) : \A u, v \in Nat :
           /\ Dist(p, q, u, v) >= u - v /\ Dist(p, q, u, v) >= v - u
           /\ ((Dist(p, q, u, v) + u) - v) % 2 = 0
<1>1. \A p, q \in Seq(E) : \A u, v \in Nat :
        Dist(p, q, u, v) >= u - v /\ Dist(p, q, u, v) >= v - u
  BY DistIs
<1>2. \A p, q \in Seq(E) : \A u, v \in Nat : ((Dist(p, q, u, v) + u) - v) % 2 = 0
  <2> SUFFICES ASSUME NEW p \in Seq(E), NEW q \in Seq(E), NEW u \in Nat, NEW v \in Nat
               PROVE  ((Dist(p, q, u, v) + u) - v) % 2 = 0
    BY Zenon
  <2> QED
    BY DistIs
<1> QED
  BY <1>1, <1>2, Zenon

(* Where they meet, a shortest path goes through. *)
LEMMA MeetingCosts ==
  ASSUME NEW E, NEW s \in Seq(E), NEW t \in Seq(E), NEW e \in Int, NEW f \in Int,
         ScriptDistance(s, t) >= e + f, NEW x \in 0 .. Len(s), NEW y \in 0 .. Len(t),
         Dist(s, t, x, y) <= e, Back(s, t, x, y) <= f
  PROVE  ScriptDistance(s, t) = e + f /\ Dist(s, t, x, y) = e /\ Back(s, t, x, y) = f
<1>1. /\ Back(s, t, x, y) \in Nat
      /\ ScriptDistance(s, t) <= Dist(s, t, x, y) + Back(s, t, x, y)
  BY BackIs
<1>2. Dist(s, t, x, y) \in Nat
  <2>1. x \in Nat /\ y \in Nat
    BY LenProperties
  <2> QED
    BY <2>1, DistIs
<1>3. ScriptDistance(s, t) \in Int
  <2>1. Len(s) \in Nat /\ Len(t) \in Nat /\ LcsLength(s, t) \in Nat
    BY LenProperties, LcsLengthIs
  <2> QED
    BY <2>1 DEF ScriptDistance
<1> QED
  BY <1>1, <1>2, <1>3

LEMMA SameIs ==
  ASSUME NEW E, NEW s \in Seq(E), NEW t \in Seq(E)
  PROVE  ScriptDistance(s, t) \in Nat /\ (ScriptDistance(s, t) = 0 <=> s = t)
<1> DEFINE l == LcsLength(s, t)
<1>1. /\ Len(s) \in Nat /\ Len(t) \in Nat /\ l \in Nat /\ l <= Len(s) /\ l <= Len(t)
      /\ l = Len(s) /\ Len(s) = Len(t) => s = t
      /\ LcsLength(s, s) = Len(s)
  BY LenProperties, LcsLengthIs, LcsLengthAtMost, LcsLengthWhole
<1>2. ScriptDistance(s, t) = Len(s) + Len(t) - 2 * l
  BY DEF ScriptDistance
<1>3. s = t => l = Len(s) /\ Len(t) = Len(s)
  BY <1>1
<1> HIDE DEF l
<1>4. ScriptDistance(s, t) \in Nat
  BY <1>1, <1>2
<1>5. ScriptDistance(s, t) = 0 => s = t
  BY <1>1, <1>2
<1>6. s = t => ScriptDistance(s, t) = 0
  BY <1>1, <1>2, <1>3
<1> QED
  BY <1>4, <1>5, <1>6

(* Two sequences one edit apart: where the edit may be. *)
EditAtStart(s, t) == \/ Len(s) = Len(t) + 1 /\ Slice(s, 1, Len(s)) = t
                     \/ Len(t) = Len(s) + 1 /\ Slice(t, 1, Len(t)) = s
EditAtEnd(s, t) == \/ Len(s) = Len(t) + 1 /\ Slice(s, 0, Len(t)) = t
                   \/ Len(t) = Len(s) + 1 /\ Slice(t, 0, Len(s)) = s

LEMMA StartDiffers ==
  ASSUME NEW E, NEW s \in Seq(E), NEW t \in Seq(E), ScriptDistance(s, t) = 1,
         Len(s) # 0, Len(t) # 0, s[1] # t[1]
  PROVE  EditAtStart(s, t)
<1> DEFINE n == Len(s)
           m == Len(t)
           rs == Reverse(s)
           rt == Reverse(t)
           i == n - 1
           j == m - 1
<1>1. /\ n \in Nat /\ m \in Nat /\ i \in Nat /\ j \in Nat /\ i + 1 = n /\ j + 1 = m
      /\ 0 \in 0 .. n /\ 1 \in 0 .. n /\ 0 \in 0 .. m /\ 1 \in 0 .. m
      /\ n \in 1 .. n /\ m \in 1 .. m /\ n - n + 1 = 1 /\ m - m + 1 = 1
      /\ n - 0 = n /\ m - 0 = m /\ i < n /\ j < m /\ 1 <= n /\ 1 <= m /\ n \in 0 .. n /\ m \in 0 .. m
  BY LenProperties
<1>2. /\ rs \in Seq(E) /\ Len(rs) = n /\ rs[n] = s[1]
      /\ rt \in Seq(E) /\ Len(rt) = m /\ rt[m] = t[1]
  <2>1. \A z \in 1 .. n : rs[z] = s[n - z + 1]
    BY ReverseIs
  <2>2. \A z \in 1 .. m : rt[z] = t[m - z + 1]
    BY ReverseIs
  <2>3. rs \in Seq(E) /\ Len(rs) = n /\ rt \in Seq(E) /\ Len(rt) = m
    BY ReverseIs
  <2> HIDE DEF n, m, rs, rt
  <2>4. rs[n] = s[n - n + 1] /\ rt[m] = t[m - m + 1]
    BY <1>1, <2>1, <2>2
  <2> QED
    BY <1>1, <2>3, <2>4
<1>3. ~MatchesAt(rs, rt, i, j)
  <2> HIDE DEF n, m, rs, rt, i, j
  <2> QED
    BY <1>1, <1>2 DEF MatchesAt
<1>4. \/ Dist(rs, rt, n, m) = Dist(rs, rt, n, j) + 1
      \/ Dist(rs, rt, n, m) = Dist(rs, rt, i, m) + 1
  <2> HIDE DEF n, m, rs, rt, i, j
  <2>1. \/ Dist(rs, rt, i + 1, j + 1) = Dist(rs, rt, i + 1, j) + 1
        \/ Dist(rs, rt, i + 1, j + 1) = Dist(rs, rt, i, j + 1) + 1
    BY <1>1, <1>2, <1>3, DistNext
  <2> QED
    BY <1>1, <2>1
<1>5. /\ Dist(rs, rt, n, m) = Back(s, t, 0, 0)
      /\ Dist(rs, rt, n, j) = Back(s, t, 0, 1)
      /\ Dist(rs, rt, i, m) = Back(s, t, 1, 0)
  BY <1>1, Zenon DEF Back
<1>6. /\ Back(s, t, 0, 0) = 1
      /\ Back(s, t, 0, 1) = ScriptDistance(Slice(s, 0, n), Slice(t, 1, m)) /\ Back(s, t, 0, 1) \in Nat
      /\ Back(s, t, 1, 0) = ScriptDistance(Slice(s, 1, n), Slice(t, 0, m)) /\ Back(s, t, 1, 0) \in Nat
  <2> DEFINE one == 1
  <2>a. 0 \in 0 .. Len(s) /\ 0 \in 0 .. Len(t) /\ one \in 0 .. Len(s) /\ one \in 0 .. Len(t)
    BY <1>1
  <2>1. /\ Back(s, t, 0, 1) = ScriptDistance(Slice(s, 0, n), Slice(t, 1, m))
        /\ Back(s, t, 0, 1) \in Nat
    <3> HIDE DEF one
    <3>1. /\ Back(s, t, 0, one) = ScriptDistance(Slice(s, 0, n), Slice(t, one, m))
          /\ Back(s, t, 0, one) \in Nat
      BY <2>a, BackIs
    <3> QED
      BY <3>1 DEF one
  <2>2. /\ Back(s, t, 1, 0) = ScriptDistance(Slice(s, 1, n), Slice(t, 0, m))
        /\ Back(s, t, 1, 0) \in Nat
    <3> HIDE DEF one
    <3>1. /\ Back(s, t, one, 0) = ScriptDistance(Slice(s, one, n), Slice(t, 0, m))
          /\ Back(s, t, one, 0) \in Nat
      BY <2>a, BackIs
    <3> QED
      BY <3>1 DEF one
  <2>3. Back(s, t, 0, 0) = ScriptDistance(s, t)
    BY <1>1, BackIs
  <2> QED
    BY <2>1, <2>2, <2>3
<1>7. /\ Slice(s, 0, n) = s /\ Slice(t, 0, m) = t
      /\ Slice(s, 1, n) \in Seq(E) /\ Len(Slice(s, 1, n)) = n - 1
      /\ Slice(t, 1, m) \in Seq(E) /\ Len(Slice(t, 1, m)) = m - 1
  <2>1. Slice(s, 0, n) = s /\ Slice(t, 0, m) = t
    <3>1. SubSeq(s, 1, n) = s /\ SubSeq(t, 1, m) = t
      BY FirstElements
    <3>2. SubSeq(s, 1, n) = Slice(s, 0, n) /\ SubSeq(t, 1, m) = Slice(t, 0, m)
      BY <1>1, FirstPart
    <3> QED
      BY <3>1, <3>2
  <2>2. Slice(s, 1, n) \in Seq(E) /\ Len(Slice(s, 1, n)) = n - 1
    <3> DEFINE one == 1
    <3>1. one \in 0 .. Len(s) /\ n \in 0 .. Len(s) /\ one <= n
      BY <1>1
    <3> HIDE DEF n, one
    <3>2. Slice(s, one, n) \in Seq(E) /\ Len(Slice(s, one, n)) = n - one
      BY <3>1, PartIs
    <3> QED
      BY <3>2 DEF one
  <2>3. Slice(t, 1, m) \in Seq(E) /\ Len(Slice(t, 1, m)) = m - 1
    <3> DEFINE one == 1
    <3>1. one \in 0 .. Len(t) /\ m \in 0 .. Len(t) /\ one <= m
      BY <1>1
    <3> HIDE DEF m, one
    <3>2. Slice(t, one, m) \in Seq(E) /\ Len(Slice(t, one, m)) = m - one
      BY <3>1, PartIs
    <3> QED
      BY <3>2 DEF one
  <2> QED
    BY <2>1, <2>2, <2>3
<1>8. CASE Back(s, t, 0, 1) = 0
  <2> DEFINE v == Slice(t, 1, m)
  <2>1. v = s /\ Len(v) = m - 1
    <3>1. ScriptDistance(s, v) = 0 /\ v \in Seq(E) /\ Len(v) = m - 1
      BY <1>6, <1>7, <1>8
    <3> HIDE DEF v
    <3> QED
      BY <3>1, SameIs
  <2>2. m = n + 1
    BY <1>1, <2>1
  <2> QED
    BY <2>1, <2>2 DEF EditAtStart
<1>9. CASE Back(s, t, 1, 0) = 0
  <2> DEFINE v == Slice(s, 1, n)
  <2>1. v = t /\ Len(v) = n - 1
    <3>1. ScriptDistance(v, t) = 0 /\ v \in Seq(E) /\ Len(v) = n - 1
      BY <1>6, <1>7, <1>9
    <3> HIDE DEF v
    <3> QED
      BY <3>1, SameIs
  <2>2. n = m + 1
    BY <1>1, <2>1
  <2> QED
    BY <2>1, <2>2 DEF EditAtStart
<1> HIDE DEF n, m, rs, rt, i, j
<1>10. Back(s, t, 0, 1) = 0 \/ Back(s, t, 1, 0) = 0
  BY <1>4, <1>5, <1>6
<1> QED
  BY <1>8, <1>9, <1>10

LEMMA EndDiffers ==
  ASSUME NEW E, NEW s \in Seq(E), NEW t \in Seq(E), ScriptDistance(s, t) = 1,
         Len(s) # 0, Len(t) # 0, s[Len(s)] # t[Len(t)]
  PROVE  EditAtEnd(s, t)
<1> DEFINE n == Len(s)
           m == Len(t)
           i == n - 1
           j == m - 1
<1>1. /\ n \in Nat /\ m \in Nat /\ i \in Nat /\ j \in Nat /\ i + 1 = n /\ j + 1 = m
      /\ i \in 0 .. n /\ j \in 0 .. m /\ n \in 0 .. n /\ m \in 0 .. m
      /\ 0 \in 0 .. n /\ 0 \in 0 .. m /\ 0 <= i /\ 0 <= j
  BY LenProperties
<1>2. ~MatchesAt(s, t, i, j)
  <2> HIDE DEF n, m, i, j
  <2>1. s[i + 1] # t[j + 1]
    BY <1>1 DEF n, m
  <2> QED
    BY <2>1 DEF MatchesAt
<1>3. \/ Dist(s, t, n, m) = Dist(s, t, n, j) + 1
      \/ Dist(s, t, n, m) = Dist(s, t, i, m) + 1
  <2> HIDE DEF n, m, i, j
  <2>1. \/ Dist(s, t, i + 1, j + 1) = Dist(s, t, i + 1, j) + 1
        \/ Dist(s, t, i + 1, j + 1) = Dist(s, t, i, j + 1) + 1
    BY <1>1, <1>2, DistNext
  <2> QED
    BY <1>1, <2>1
<1>4. /\ Dist(s, t, n, m) = 1
      /\ Dist(s, t, n, j) = ScriptDistance(Slice(s, 0, n), Slice(t, 0, j))
      /\ Dist(s, t, i, m) = ScriptDistance(Slice(s, 0, i), Slice(t, 0, m))
      /\ Dist(s, t, n, j) \in Nat /\ Dist(s, t, i, m) \in Nat
  <2>1. Dist(s, t, n, j) = ScriptDistance(Slice(s, 0, n), Slice(t, 0, j))
    <3>1. n \in 0 .. Len(s) /\ j \in 0 .. Len(t)
      BY <1>1
    <3> HIDE DEF n, j
    <3> QED
      BY <3>1, BackIs
  <2>2. Dist(s, t, i, m) = ScriptDistance(Slice(s, 0, i), Slice(t, 0, m))
    <3>1. i \in 0 .. Len(s) /\ m \in 0 .. Len(t)
      BY <1>1
    <3> HIDE DEF i, m
    <3> QED
      BY <3>1, BackIs
  <2>3. Dist(s, t, n, m) = ScriptDistance(s, t)
    BY <1>1, BackIs
  <2>4. Dist(s, t, n, j) \in Nat /\ Dist(s, t, i, m) \in Nat
    BY <1>1, DistIs
  <2> QED
    BY <2>1, <2>2, <2>3, <2>4
<1>5. /\ Slice(s, 0, n) = s /\ Slice(t, 0, m) = t
      /\ Slice(s, 0, i) \in Seq(E) /\ Len(Slice(s, 0, i)) = i - 0
      /\ Slice(t, 0, j) \in Seq(E) /\ Len(Slice(t, 0, j)) = j - 0
  <2>1. Slice(s, 0, n) = s /\ Slice(t, 0, m) = t
    <3>1. SubSeq(s, 1, n) = s /\ SubSeq(t, 1, m) = t
      BY FirstElements
    <3>2. SubSeq(s, 1, n) = Slice(s, 0, n) /\ SubSeq(t, 1, m) = Slice(t, 0, m)
      BY <1>1, FirstPart
    <3> QED
      BY <3>1, <3>2
  <2>2. Slice(s, 0, i) \in Seq(E) /\ Len(Slice(s, 0, i)) = i - 0
    <3>1. 0 \in 0 .. Len(s) /\ i \in 0 .. Len(s) /\ 0 <= i
      BY <1>1
    <3> HIDE DEF i
    <3> QED
      BY <3>1, PartIs
  <2>3. Slice(t, 0, j) \in Seq(E) /\ Len(Slice(t, 0, j)) = j - 0
    <3>1. 0 \in 0 .. Len(t) /\ j \in 0 .. Len(t) /\ 0 <= j
      BY <1>1
    <3> HIDE DEF j
    <3> QED
      BY <3>1, PartIs
  <2> QED
    BY <2>1, <2>2, <2>3
<1>6. CASE Dist(s, t, n, j) = 0
  <2> DEFINE v == Slice(t, 0, j)
  <2>1. v = s /\ Len(v) = j - 0
    <3>1. ScriptDistance(s, v) = 0 /\ v \in Seq(E) /\ Len(v) = j - 0
      BY <1>4, <1>5, <1>6
    <3> HIDE DEF v
    <3> QED
      BY <3>1, SameIs
  <2> HIDE DEF v
  <2>2. m = n + 1 /\ j = n
    BY <1>1, <2>1
  <2> QED
    BY <2>1, <2>2 DEF EditAtEnd, v
<1>7. CASE Dist(s, t, i, m) = 0
  <2> DEFINE v == Slice(s, 0, i)
  <2>1. v = t /\ Len(v) = i - 0
    <3>1. ScriptDistance(v, t) = 0 /\ v \in Seq(E) /\ Len(v) = i - 0
      BY <1>4, <1>5, <1>7
    <3> HIDE DEF v
    <3> QED
      BY <3>1, SameIs
  <2> HIDE DEF v
  <2>2. n = m + 1 /\ i = m
    BY <1>1, <2>1
  <2> QED
    BY <2>1, <2>2 DEF EditAtEnd, v
<1> HIDE DEF n, m, i, j
<1> QED
  BY <1>3, <1>4, <1>6, <1>7
===============================================================================
