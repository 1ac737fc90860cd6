------------------------------ MODULE DiffProofs ------------------------------
(***************************************************************************)
(* Proofs about Diff, for sequences of any length over any elements.  The  *)
(* backward search is the forward one with both axes turned round, so what *)
(* a search stores is described once, as a row g of furthest points in a   *)
(* box of n by m elements: g[kk] is how far diagonal kk has been followed. *)
(***************************************************************************)
EXTENDS Diff, Lemmas

(* The diagonals a search of e edits ends on. *)
Diag(e) == {kk \in Int : -e <= kk /\ kk <= e /\ (kk + e) % 2 = 0}

LEMMA DiagIs ==
  /\ \A e \in Int : \A kk \in Diag(e) : kk \in Int /\ -e <= kk /\ kk <= e
  /\ \A e \in Int : \A kk \in Diag(e) : kk # -e => kk - 2 \in Diag(e) /\ kk - 1 \in Diag(e - 1)
  /\ \A e \in Int : \A kk \in Diag(e) : kk # e => kk + 2 \in Diag(e) /\ kk + 1 \in Diag(e - 1)
  /\ \A e \in Int : \A kk \in Diag(e) : \A j \in Diag(e - 1) : kk # j
  /\ \A e \in Int : \A kk \in Diag(e) : -kk \in Diag(e)
  /\ \A e \in Nat : e \in Diag(e)
  /\ Diag(-1) = {} /\ \A kk \in Diag(0) : kk = 0
  /\ \A e \in Int : \A kk, j \in Diag(e) : kk < j => kk <= j - 2
BY DEF Diag

(* Which diagonals the other search is compared on: those at most w away   *)
(* from the one through the far corner.                                    *)
Near(kk, n, m, w) == n - m - w <= kk /\ kk <= n - m + w

(* A row: a point beyond the box was stepped to from beside it, and the    *)
(* diagonal on the other side of that step is as far; compared and not     *)
(* met, a point is inside.                                                 *)
Row(g, e, n, m, w) ==
  \A kk \in Diag(e) :
    /\ g[kk] \in Nat /\ g[kk] - kk >= 0
    /\ g[kk] > n => kk - 2 >= -e /\ g[kk - 2] >= g[kk] - 1
    /\ g[kk] - kk > m => kk + 2 <= e /\ g[kk + 2] >= g[kk] + 1
    /\ Near(kk, n, m, w) => g[kk] < n /\ g[kk] - kk < m

(* Where diagonal kk of the next row starts, and what its point x is. *)
From(g, e, kk) ==
  IF kk = -e \/ (kk # e /\ g[kk - 1] < g[kk + 1]) THEN g[kk + 1] ELSE g[kk - 1] + 1

Stepped(g, e, kk, x, n, m, w) ==
  /\ x \in Nat /\ x - kk >= 0
  /\ kk # -e => x >= g[kk - 1] + 1
  /\ kk # e => x >= g[kk + 1]
  /\ x > n => kk # -e /\ g[kk - 1] >= x - 1
  /\ x - kk > m => kk # e /\ g[kk + 1] >= x
  /\ Near(kk, n, m, w) => x < n /\ x - kk < m

LEMMA StepIs ==
  ASSUME NEW n \in Nat, NEW m \in Nat, NEW w0 \in Int, NEW w \in Int, NEW e \in Nat,
         NEW g, Row(g, e - 1, n, m, w0), e = 0 => g[1] = 0,
         NEW kk \in Diag(e), NEW t \in Nat,
         t > 0 => From(g, e, kk) + t <= n /\ (From(g, e, kk) + t) - kk <= m,
         Near(kk, n, m, w) => From(g, e, kk) + t < n /\ (From(g, e, kk) + t) - kk < m
  PROVE  /\ From(g, e, kk) \in Nat /\ From(g, e, kk) - kk >= 0
         /\ Stepped(g, e, kk, From(g, e, kk) + t, n, m, w)
<1> DEFINE x0 == From(g, e, kk)
           x == x0 + t
<1>c. Near(kk, n, m, w) => x < n /\ x - kk < m
  OBVIOUS
<1>a. e \in Int
  OBVIOUS
<1>b. kk \in Int /\ -e <= kk /\ kk <= e
  BY <1>a, DiagIs
<1>1. /\ kk \in Int /\ -e <= kk /\ kk <= e
      /\ kk # -e => kk - 1 \in Diag(e - 1)
      /\ kk # e => kk + 1 \in Diag(e - 1)
  BY <1>a, <1>b, DiagIs, Zenon
<1>z. e = 0 => kk = 0 /\ kk = -e /\ kk = e /\ kk + 1 = 1
  BY <1>1
<1>2. /\ kk # -e => /\ g[kk - 1] \in Nat /\ g[kk - 1] - (kk - 1) >= 0
                    /\ g[kk - 1] - (kk - 1) > m => kk + 1 <= e - 1 /\ g[kk + 1] >= g[kk - 1] + 1
      /\ kk # e => /\ g[kk + 1] \in Nat /\ g[kk + 1] - (kk + 1) >= 0
                   /\ g[kk + 1] > n => kk - 1 >= -(e - 1) /\ g[kk - 1] >= g[kk + 1] - 1
  <2>1. ASSUME kk # -e
        PROVE  /\ g[kk - 1] \in Nat /\ g[kk - 1] - (kk - 1) >= 0
               /\ g[kk - 1] - (kk - 1) > m => kk + 1 <= e - 1 /\ g[kk + 1] >= g[kk - 1] + 1
    <3>1. (kk - 1) + 2 = kk + 1
      BY <1>1
    <3> QED
      BY <1>1, <2>1, <3>1 DEF Row
  <2>2. ASSUME kk # e
        PROVE  /\ g[kk + 1] \in Nat /\ g[kk + 1] - (kk + 1) >= 0
               /\ g[kk + 1] > n => kk - 1 >= -(e - 1) /\ g[kk - 1] >= g[kk + 1] - 1
    <3>1. (kk + 1) - 2 = kk - 1
      BY <1>1
    <3> QED
      BY <1>1, <2>2, <3>1 DEF Row
  <2> QED
    BY <2>1, <2>2
<1>3. CASE e = 0
  <2>1. kk = 0 /\ x0 = 0
    BY <1>z, <1>3 DEF From
  <2> HIDE DEF x0
  <2>2. x \in Nat /\ x - kk >= 0 /\ x <= n /\ x - kk <= m
    BY <2>1 DEF x0
  <2>3. Near(kk, n, m, w) => x < n /\ x - kk < m
    BY <1>c DEF x0
  <2>4. kk = -e /\ kk = e
    BY <1>z, <1>3
  <2>5. Stepped(g, e, kk, x, n, m, w)
    <3> HIDE DEF x
    <3> QED
      BY <2>1, <2>2, <2>3, <2>4 DEF Stepped
  <2> QED
    BY <2>1, <2>5 DEF x0
<1>4. CASE e # 0
  <2> DEFINE p == g[kk - 1]
             q == g[kk + 1]
  <2>1. /\ x0 = IF kk = -e \/ (kk # e /\ p < q) THEN q ELSE p + 1
        /\ kk # -e => /\ p \in Nat /\ p - (kk - 1) >= 0
                      /\ p - (kk - 1) > m => kk + 1 <= e - 1 /\ q >= p + 1
        /\ kk # e => /\ q \in Nat /\ q - (kk + 1) >= 0
                     /\ q > n => kk - 1 >= -(e - 1) /\ p >= q - 1
        /\ t > 0 => x0 + t <= n /\ (x0 + t) - kk <= m
        /\ Near(kk, n, m, w) => x0 + t < n /\ (x0 + t) - kk < m
    BY <1>2 DEF From
  <2> HIDE DEF p, q, x0
  <2>2. /\ x0 \in Nat /\ x0 - kk >= 0
        /\ kk # -e => x0 >= p + 1
        /\ kk # e => x0 >= q
        /\ x0 > n => kk # -e /\ p >= x0 - 1
        /\ x0 - kk > m => kk # e /\ q >= x0
    BY <1>1, <1>4, <2>1
  <2>3. /\ x \in Nat /\ x - kk >= 0
        /\ kk # -e => x >= p + 1
        /\ kk # e => x >= q
        /\ x > n => kk # -e /\ p >= x - 1
        /\ x - kk > m => kk # e /\ q >= x
        /\ Near(kk, n, m, w) => x < n /\ x - kk < m
    <3>1. x > n \/ x - kk > m => t = 0
      BY <1>1, <2>1, <2>2
    <3> QED
      BY <1>1, <2>1, <2>2, <3>1
  <2> HIDE DEF x
  <2>4. Stepped(g, e, kk, x, n, m, w)
    BY <2>3 DEF Stepped, p, q
  <2> QED
    BY <2>2, <2>4 DEF x, x0
<1> QED
  BY <1>3, <1>4

LEMMA RowIs ==
  ASSUME NEW n \in Nat, NEW m \in Nat, NEW w \in Int, NEW e \in Nat, NEW g,
         \A kk \in Diag(e) : Stepped(g, e, kk, g[kk], n, m, w),
         \A kk \in Diag(e - 1) : g[kk] \in Nat
  PROVE  Row(g, e, n, m, w)
<1> SUFFICES ASSUME NEW kk \in Diag(e)
             PROVE  /\ g[kk] \in Nat /\ g[kk] - kk >= 0
                    /\ g[kk] > n => kk - 2 >= -e /\ g[kk - 2] >= g[kk] - 1
                    /\ g[kk] - kk > m => kk + 2 <= e /\ g[kk + 2] >= g[kk] + 1
                    /\ Near(kk, n, m, w) => g[kk] < n /\ g[kk] - kk < m
  BY DEF Row
<1>1. kk \in Int /\ -e <= kk /\ kk <= e
  BY DiagIs
<1>2. ASSUME g[kk] > n
      PROVE  kk - 2 >= -e /\ g[kk - 2] >= g[kk] - 1
  <2>1. kk # -e /\ g[kk - 1] >= g[kk] - 1 /\ g[kk] \in Nat
    BY <1>2 DEF Stepped
  <2>2. kk - 2 \in Diag(e) /\ kk - 1 \in Diag(e - 1) /\ kk - 2 >= -e
    BY <2>1, DiagIs
  <2>3. (kk - 2) + 1 = kk - 1 /\ kk - 2 # e
    BY <1>1
  <2>4. g[kk - 2] >= g[kk - 1] /\ g[kk - 2] \in Nat /\ g[kk - 1] \in Nat
    BY <2>2, <2>3 DEF Stepped
  <2> QED
    BY <2>1, <2>2, <2>4
<1>3. ASSUME g[kk] - kk > m
      PROVE  kk + 2 <= e /\ g[kk + 2] >= g[kk] + 1
  <2>1. kk # e /\ g[kk + 1] >= g[kk] /\ g[kk] \in Nat
    BY <1>3 DEF Stepped
  <2>2. kk + 2 \in Diag(e) /\ kk + 1 \in Diag(e - 1) /\ kk + 2 <= e
    BY <2>1, DiagIs
  <2>3. (kk + 2) - 1 = kk + 1 /\ kk + 2 # -e
    BY <1>1
  <2>4. g[kk + 2] >= g[kk + 1] + 1 /\ g[kk + 2] \in Nat /\ g[kk + 1] \in Nat
    BY <2>2, <2>3 DEF Stepped
  <2> QED
    BY <2>1, <2>2, <2>4
<1> QED
  BY <1>2, <1>3 DEF Stepped

(* Two searches that meet meet inside the box. *)
LEMMA MeetIs ==
  ASSUME NEW n \in Nat, NEW m \in Nat, NEW e \in Nat, NEW w \in {e - 1, e},
         NEW g, Row(g, e - 1, n, m, w - 1), e = 0 => g[1] = 0,
         NEW kk \in Diag(e), Near(kk, n, m, w), (kk - (n - m) + w) % 2 = 0
  PROVE  From(g, e, kk) <= n /\ From(g, e, kk) - kk <= m
<1> DEFINE x0 == From(g, e, kk)
           p == g[kk - 1]
           q == g[kk + 1]
<1>a. e \in Int
  OBVIOUS
<1>b. kk \in Int /\ -e <= kk /\ kk <= e
  BY <1>a, DiagIs
<1>1. /\ kk \in Int /\ -e <= kk /\ kk <= e
      /\ kk # -e => kk - 1 \in Diag(e - 1)
      /\ kk # e => kk + 1 \in Diag(e - 1)
  BY <1>a, <1>b, DiagIs, Zenon
<1>z. e = 0 => kk = 0 /\ kk = -e /\ kk = e /\ kk + 1 = 1
  BY <1>1
<1>2. CASE e = 0
  <2>1. kk = 0 /\ x0 = 0
    BY <1>z, <1>2 DEF From
  <2> HIDE DEF x0
  <2>2. x0 <= n /\ x0 - kk <= m
    BY <2>1
  <2> QED
    BY <2>2 DEF x0
<1>3. CASE e # 0
  <2>1. ASSUME kk # -e
        PROVE  /\ p \in Nat
               /\ p > n => kk - 3 >= -(e - 1)
               /\ p - (kk - 1) > m => kk + 1 <= e - 1 /\ q >= p + 1
               /\ Near(kk - 1, n, m, w - 1) => p < n /\ p - (kk - 1) < m
    <3>1. (kk - 1) + 2 = kk + 1 /\ (kk - 1) - 2 = kk - 3
      BY <1>1
    <3> QED
      BY <1>1, <2>1, <3>1 DEF Row
  <2>2. ASSUME kk # e
        PROVE  /\ q \in Nat
               /\ q > n => kk - 1 >= -(e - 1) /\ p >= q - 1
               /\ q - (kk + 1) > m => kk + 3 <= e - 1
               /\ Near(kk + 1, n, m, w - 1) => q < n /\ q - (kk + 1) < m
    <3>1. (kk + 1) + 2 = kk + 3 /\ (kk + 1) - 2 = kk - 1
      BY <1>1
    <3> QED
      BY <1>1, <2>2, <3>1 DEF Row
  <2>3. x0 = IF kk = -e \/ (kk # e /\ p < q) THEN q ELSE p + 1
    BY DEF From
  <2> HIDE DEF p, q, x0
  <2>4. w \in Int /\ n - m - w <= kk /\ kk <= n - m + w /\ w <= e
    BY DEF Near
  <2>5. /\ kk # -e /\ kk - 1 >= n - m - w + 1 => Near(kk - 1, n, m, w - 1)
        /\ kk # e /\ kk + 1 <= n - m + w - 1 => Near(kk + 1, n, m, w - 1)
    BY <1>1, <2>4 DEF Near
  <2> SUFFICES x0 <= n /\ x0 - kk <= m
    BY DEF x0
  <2>6. CASE kk = -e
    BY <1>1, <1>3, <2>2, <2>3, <2>4, <2>5, <2>6
  <2>7. CASE kk = e
    BY <1>1, <1>3, <2>1, <2>3, <2>4, <2>5, <2>7
  <2>8. CASE kk # -e /\ kk # e
    <3>1. w \in Int /\ x0 \in Nat /\ p \in Nat /\ q \in Nat
      BY <2>1, <2>2, <2>3, <2>4, <2>8
    <3>2. CASE x0 = p + 1 /\ x0 > n
      <4>1. p >= n /\ ~Near(kk - 1, n, m, w - 1)
        BY <2>1, <2>8, <3>1, <3>2
      <4>2. kk - 1 = n - m - w - 1
        <5>1. kk = n - m - w \/ kk = n - m - w + 1
          BY <1>1, <2>4, <2>5, <2>8, <4>1
        <5>2. kk # n - m - w + 1
          BY <1>1, <2>4
        <5> QED
          BY <1>1, <2>4, <5>1, <5>2
      <4>3. p - (kk - 1) > m
        BY <1>3, <2>4, <3>1, <4>1, <4>2
      <4>4. kk + 1 <= e - 1 /\ q >= p + 1 /\ kk + 1 = n - m - w + 1
        BY <1>1, <2>1, <2>4, <2>8, <4>2, <4>3
      <4>5. w >= 1 => Near(kk + 1, n, m, w - 1)
        BY <1>1, <2>4, <2>5, <2>8, <4>4
      <4> QED
        BY <1>1, <1>3, <2>1, <2>2, <2>4, <2>8, <3>1, <4>1, <4>4, <4>5
    <3>3. CASE x0 = p + 1 /\ x0 <= n
      BY <1>1, <1>3, <2>1, <2>2, <2>3, <2>4, <2>5, <2>8, <3>1, <3>3
    <3>4. CASE x0 = q /\ x0 > n
      <4>1. kk - 1 >= -(e - 1) /\ p >= q - 1 /\ p >= n
        BY <2>2, <2>8, <3>1, <3>4
      <4>2. ~Near(kk - 1, n, m, w - 1)
        BY <2>1, <2>8, <3>1, <4>1
      <4>3. kk - 1 = n - m - w - 1
        <5>1. kk = n - m - w \/ kk = n - m - w + 1
          BY <1>1, <2>4, <2>5, <2>8, <4>2
        <5>2. kk # n - m - w + 1
          BY <1>1, <2>4
        <5> QED
          BY <1>1, <2>4, <5>1, <5>2
      <4>4. q - (kk + 1) >= m + w
        BY <1>1, <2>4, <3>1, <3>4, <4>3
      <4>5. w >= 1 => Near(kk + 1, n, m, w - 1)
        BY <1>1, <2>4, <2>5, <2>8, <4>3
      <4>6. w = 0 => e = 1
        BY <1>3, <2>4
      <4> QED
        BY <1>1, <1>3, <2>1, <2>2, <2>4, <2>8, <3>1, <4>1, <4>4, <4>5, <4>6
    <3>5. CASE x0 = q /\ x0 <= n
      BY <1>1, <1>3, <2>1, <2>2, <2>3, <2>4, <2>5, <2>8, <3>1, <3>5
    <3> QED
      BY <2>3, <3>1, <3>2, <3>3, <3>4, <3>5
  <2> QED
    BY <2>6, <2>7, <2>8
<1> QED
  BY <1>2, <1>3

(* The point x of diagonal kk is the last one e edits reach. *)
Reached(s, t, e, kk, x) ==
  /\ x \in Nat /\ x - kk >= 0
  /\ Dist(s, t, x, x - kk) <= e /\ Dist(s, t, x + 1, (x - kk) + 1) > e

LEMMA ReachedIs ==
  ASSUME NEW E, NEW s \in Seq(E), NEW t \in Seq(E), NEW e \in Int, NEW kk \in Int, NEW x,
         Reached(s, t, e, kk, x), NEW i \in Nat, i - kk >= 0
  PROVE  Dist(s, t, i, i - kk) \in Nat /\ (Dist(s, t, i, i - kk) <= e <=> i <= x)
<1> DEFINE D(j) == Dist(s, t, j, j - kk)
<1>1. /\ x \in Nat /\ x - kk \in Nat /\ D(x) <= e /\ D(x + 1) > e
  <2>1. (x - kk) + 1 = (x + 1) - kk
    BY DEF Reached
  <2> QED
    BY <2>1 DEF Reached
<1>2. \A j, h \in Nat : j - kk >= 0 /\ j <= h => D(j) \in Nat /\ D(h) \in Nat /\ D(j) <= D(h)
  <2> SUFFICES ASSUME NEW j \in Nat, NEW h \in Nat, j - kk >= 0, j <= h
               PROVE  D(j) \in Nat /\ D(h) \in Nat /\ D(j) <= D(h)
    OBVIOUS
  <2>1. j - kk \in Nat /\ h - kk \in Nat /\ h - j \in Nat /\ j + (h - j) = h
        /\ (j - kk) + (h - j) = h - kk
    OBVIOUS
  <2> DEFINE y == j - kk
             z == h - kk
             i1 == h - j
  <2>2. y \in Nat /\ z \in Nat /\ i1 \in Nat /\ j + i1 = h /\ y + i1 = z
    BY <2>1
  <2>3. D(j) = Dist(s, t, j, y) /\ D(h) = Dist(s, t, h, z)
    OBVIOUS
  <2> HIDE DEF y, z, i1, D
  <2>4. Dist(s, t, j, y) <= Dist(s, t, j + i1, y + i1)
    BY <2>2, DistAlong
  <2>5. Dist(s, t, j, y) \in Nat /\ Dist(s, t, h, z) \in Nat
    BY <2>2, DistIs
  <2> QED
    BY <2>2, <2>3, <2>4, <2>5
<1> HIDE DEF D
<1>3. D(i) \in Nat /\ D(x) \in Nat /\ D(x + 1) \in Nat
  BY <1>1, <1>2
<1>4. i <= x => D(i) <= e
  BY <1>1, <1>2, <1>3
<1>5. ~ (i <= x) => D(i) > e
  <2> SUFFICES ASSUME ~ (i <= x) PROVE D(i) > e
    OBVIOUS
  <2>1. x + 1 \in Nat /\ x + 1 <= i /\ (x + 1) - kk >= 0
    BY <1>1
  <2> QED
    BY <1>1, <1>2, <1>3, <2>1
<1> QED
  BY <1>3, <1>4, <1>5 DEF D

(* The next row of furthest points, from the last one. *)
LEMMA ReachStep ==
  ASSUME NEW E, NEW s \in Seq(E), NEW t \in Seq(E), NEW e \in Nat, NEW kk \in Diag(e),
         NEW g, \A j \in Diag(e - 1) : Reached(s, t, e - 1, j, g[j]),
         e = 0 => g[1] = 0, NEW c \in Nat,
         NEW x0, x0 = From(g, e, kk), x0 \in Nat, x0 - kk >= 0,
         Dist(s, t, x0 + c, (x0 - kk) + c) = Dist(s, t, x0, x0 - kk),
         ~MatchesAt(s, t, x0 + c, (x0 - kk) + c)
  PROVE  Reached(s, t, e, kk, x0 + c)
<1> DEFINE y0 == x0 - kk
           x == x0 + c
           y == y0 + c
           D(i, j) == Dist(s, t, i, j)
<1>a. e \in Int
  OBVIOUS
<1>b. kk \in Int /\ -e <= kk /\ kk <= e
  BY <1>a, DiagIs
<1>1. /\ kk # -e => kk - 1 \in Diag(e - 1)
      /\ kk # e => kk + 1 \in Diag(e - 1)
  BY <1>a, <1>b, DiagIs, Zenon
<1>2. /\ x0 \in Nat /\ y0 \in Nat /\ x \in Nat /\ y \in Nat /\ x - kk = y /\ x - kk >= 0
      /\ (x - kk) + 1 = y + 1 /\ x + 1 \in Nat /\ y + 1 \in Nat /\ x0 <= x
  BY <1>b
<1>3. \A i, j \in Nat : /\ D(i, j) \in Nat /\ D(i, j) >= i - j /\ D(i, j) >= j - i
                        /\ D(i + 1, j) <= D(i, j) + 1 /\ D(i, j + 1) <= D(i, j) + 1
  BY DistIs, DistNext
<1>4. D(x, y) = D(x0, y0)
  OBVIOUS
<1>5. D(x + 1, y + 1) = D(x + 1, y) + 1 \/ D(x + 1, y + 1) = D(x, y + 1) + 1
  <2>1. ~MatchesAt(s, t, x, y)
    OBVIOUS
  <2> HIDE DEF x, y
  <2> QED
    BY <1>2, <2>1, DistNext
<1>6. CASE e = 0
  <2>1. kk = 0 /\ x0 = 0
    <3>1. kk = 0 /\ kk = -e /\ kk + 1 = 1
      BY <1>b, <1>6
    <3> QED
      BY <1>6, <3>1 DEF From
  <2>2. y0 = 0
    BY <2>1
  <2>3. D(x0, y0) = 0
    <3>1. 0 \in Nat
      OBVIOUS
    <3>2. Dist(s, t, 0, 0) = 0
      BY <3>1, DistIs
    <3> QED
      BY <2>1, <2>2, <3>2
  <2> HIDE DEF D, x, y, y0
  <2>4. D(x + 1, y + 1) > 0
    <3>1. D(x + 1, y) \in Nat /\ D(x, y + 1) \in Nat
      BY <1>2, <1>3
    <3> QED
      BY <1>5, <3>1
  <2>5. Reached(s, t, e, kk, x)
    BY <1>2, <1>4, <1>6, <2>3, <2>4 DEF Reached, D
  <2> QED
    BY <2>5 DEF x
<1>7. CASE e # 0
  <2> DEFINE p == g[kk - 1]
             q == g[kk + 1]
  <2>1. kk # -e => /\ p \in Nat /\ p - (kk - 1) \in Nat
                   /\ D(p, p - (kk - 1)) <= e - 1
                   /\ \A i \in Nat : i - (kk - 1) >= 0 /\ i > p => D(i, i - (kk - 1)) > e - 1
    <3> SUFFICES ASSUME kk # -e
                 PROVE  /\ p \in Nat /\ p - (kk - 1) \in Nat
                        /\ D(p, p - (kk - 1)) <= e - 1
                        /\ \A i \in Nat : i - (kk - 1) >= 0 /\ i > p => D(i, i - (kk - 1)) > e - 1
      OBVIOUS
    <3> DEFINE j == kk - 1
    <3>1. Reached(s, t, e - 1, j, p) /\ j \in Int /\ e - 1 \in Int
      BY <1>1, <1>b
    <3> HIDE DEF j, p
    <3>2. p \in Nat /\ p - j \in Nat /\ Dist(s, t, p, p - j) <= e - 1
      BY <3>1 DEF Reached
    <3>3. \A i \in Nat : i - j >= 0 => Dist(s, t, i, i - j) \in Nat /\ (Dist(s, t, i, i - j) <= e - 1 <=> i <= p)
      BY <3>1, ReachedIs
    <3>4. \A i \in Nat : i - j >= 0 /\ i > p => Dist(s, t, i, i - j) > e - 1
      BY <3>2, <3>3
    <3> QED
      BY <3>2, <3>4 DEF j
  <2>2. kk # e => /\ q \in Nat /\ q - (kk + 1) \in Nat
                  /\ D(q, q - (kk + 1)) <= e - 1
                  /\ \A i \in Nat : i - (kk + 1) >= 0 /\ i > q => D(i, i - (kk + 1)) > e - 1
    <3> SUFFICES ASSUME kk # e
                 PROVE  /\ q \in Nat /\ q - (kk + 1) \in Nat
                        /\ D(q, q - (kk + 1)) <= e - 1
                        /\ \A i \in Nat : i - (kk + 1) >= 0 /\ i > q => D(i, i - (kk + 1)) > e - 1
      OBVIOUS
    <3> DEFINE j == kk + 1
    <3>1. Reached(s, t, e - 1, j, q) /\ j \in Int /\ e - 1 \in Int
      BY <1>1, <1>b
    <3> HIDE DEF j, q
    <3>2. q \in Nat /\ q - j \in Nat /\ Dist(s, t, q, q - j) <= e - 1
      BY <3>1 DEF Reached
    <3>3. \A i \in Nat : i - j >= 0 => Dist(s, t, i, i - j) \in Nat /\ (Dist(s, t, i, i - j) <= e - 1 <=> i <= q)
      BY <3>1, ReachedIs
    <3>4. \A i \in Nat : i - j >= 0 /\ i > q => Dist(s, t, i, i - j) > e - 1
      BY <3>2, <3>3
    <3> QED
      BY <3>2, <3>4 DEF j
  <2>3. x0 = IF kk = -e \/ (kk # e /\ p < q) THEN q ELSE p + 1
    BY DEF From
  <2> HIDE DEF p, q, x, y, D
  <2>4. /\ kk # -e => x0 >= p + 1
        /\ kk # e => x0 >= q
        /\ \/ kk # e /\ x0 = q
           \/ kk # -e /\ x0 = p + 1
    BY SMTT(30), <1>7, <1>b, <2>1, <2>2, <2>3
  <2>5. D(x0, y0) <= e
    <3>1. CASE kk # e /\ x0 = q
      <4>1. (q - (kk + 1)) + 1 = y0
        BY <1>b, <2>2, <3>1
      <4> DEFINE j == q - (kk + 1)
      <4>2. j \in Nat /\ D(q, j) <= e - 1 /\ j + 1 = y0
        BY <2>2, <3>1, <4>1
      <4> HIDE DEF j
      <4>3. q \in Nat /\ j + 1 \in Nat
        BY <2>2, <3>1, <4>2
      <4>4. D(q, j) \in Nat /\ D(q, j + 1) \in Nat /\ D(q, j + 1) <= D(q, j) + 1
        BY <1>3, <4>2, <4>3
      <4> QED
        BY <3>1, <4>2, <4>4
    <3>2. CASE kk # -e /\ x0 = p + 1
      <4>1. p - (kk - 1) = y0
        BY <1>b, <2>1, <3>2
      <4>2. D(p, y0) <= e - 1 /\ y0 \in Nat
        BY <1>2, <2>1, <3>2, <4>1
      <4> HIDE DEF y0
      <4>3. p \in Nat /\ p + 1 \in Nat
        BY <2>1, <3>2
      <4>4. D(p, y0) \in Nat /\ D(p + 1, y0) \in Nat /\ D(p + 1, y0) <= D(p, y0) + 1
        BY <1>3, <4>2, <4>3
      <4> QED
        BY <3>2, <4>2, <4>4
    <3> QED
      BY <2>4, <3>1, <3>2
  <2>6. D(x + 1, y) + 1 > e
    <3>1. CASE kk = e
      <4>1. D(x + 1, y) \in Nat /\ D(x + 1, y) >= (x + 1) - y
        BY <1>2, <1>3
      <4> QED
        BY <1>2, <1>b, <3>1, <4>1
    <3>2. CASE kk # e
      <4>1. x + 1 > q /\ (x + 1) - (kk + 1) = y /\ x + 1 \in Nat
        BY <1>2, <1>b, <2>2, <2>4, <3>2
      <4>2. D(x + 1, y) > e - 1
        BY <1>2, <2>2, <3>2, <4>1
      <4>3. D(x + 1, y) \in Nat
        BY <1>2, <1>3
      <4> QED
        BY <4>2, <4>3
    <3> QED
      BY <3>1, <3>2
  <2>7. D(x, y + 1) + 1 > e
    <3>1. CASE kk = -e
      <4>1. D(x, y + 1) \in Nat /\ D(x, y + 1) >= (y + 1) - x
        BY <1>2, <1>3
      <4> QED
        BY <1>2, <1>b, <3>1, <4>1
    <3>2. CASE kk # -e
      <4>1. x > p /\ x - (kk - 1) = y + 1 /\ x \in Nat /\ y + 1 >= 0
        BY SMTT(30), <1>2, <1>b, <2>1, <2>4, <3>2
      <4>2. D(x, y + 1) > e - 1
        BY <1>2, <2>1, <3>2, <4>1
      <4>3. D(x, y + 1) \in Nat
        BY <1>2, <1>3
      <4> QED
        BY <4>2, <4>3
    <3> QED
      BY <3>1, <3>2
  <2>8. D(x + 1, y + 1) > e
    BY <1>5, <2>6, <2>7
  <2>9. Reached(s, t, e, kk, x)
    BY <1>2, <1>4, <2>5, <2>8 DEF Reached, D
  <2> QED
    BY <2>9 DEF x
<1> QED
  BY <1>6, <1>7

(* When no e + f edits lead through the box but the two searches have made *)
(* e and f, some diagonal of one has come as far as the other's.           *)
LEMMA SearchesMeet ==
  ASSUME NEW E, NEW s \in Seq(E), NEW t \in Seq(E), NEW e \in Nat, NEW f \in Nat,
         ScriptDistance(s, t) = e + f, NEW g, NEW h
  PROVE  /\ \A kk \in Diag(e) : Reached(s, t, e, kk, g[kk])
         /\ \A kk \in Diag(f) : Reached(Reverse(s), Reverse(t), f, kk, h[kk])
         => \E kk \in Diag(e) : /\ (Len(s) - Len(t)) - kk \in Diag(f)
                                 /\ g[kk] + h[(Len(s) - Len(t)) - kk] >= Len(s)
<1>0. \A p, q \in Seq(E) : \A u, v \in Nat :
        /\ Dist(p, q, u, v) >= u - v /\ Dist(p, q, u, v) >= v - u
        /\ ((Dist(p, q, u, v) + u) - v) % 2 = 0
  BY DistBounds, Zenon
<1> SUFFICES ASSUME \A kk \in Diag(e) : Reached(s, t, e, kk, g[kk]),
                    \A kk \in Diag(f) : Reached(Reverse(s), Reverse(t), f, kk, h[kk])
             PROVE  \E kk \in Diag(e) : /\ (Len(s) - Len(t)) - kk \in Diag(f)
                                        /\ g[kk] + h[(Len(s) - Len(t)) - kk] >= Len(s)
  OBVIOUS
<1> DEFINE n == Len(s)
           m == Len(t)
           rs == Reverse(s)
           rt == Reverse(t)
<1>1. e \in 0 .. ScriptDistance(s, t)
  OBVIOUS
<1>2. PICK x \in 0 .. n, y \in 0 .. m : Dist(s, t, x, y) = e /\ Back(s, t, x, y) = ScriptDistance(s, t) - e
  BY <1>1, Crossing
<1> DEFINE kk == x - y
           z == n - x
           w == m - y
           j == z - w
<1>3. n \in Nat /\ m \in Nat /\ rs \in Seq(E) /\ rt \in Seq(E)
  BY LenProperties, ReverseIs
<1>4. /\ x \in Nat /\ y \in Nat /\ z \in Nat /\ w \in Nat /\ kk \in Int /\ j \in Int
      /\ j = (n - m) - kk /\ x - kk = y /\ z - j = w /\ x + z = n
  BY <1>3
<1>5. Dist(s, t, x, y) = e /\ Dist(rs, rt, z, w) = f
  <2>1. Back(s, t, x, y) = Dist(rs, rt, z, w)
    BY DEF Back
  <2> HIDE DEF z, w, rs, rt
  <2> QED
    BY <1>2, <2>1
<1> HIDE DEF n, m, rs, rt, z, w, kk, j
<1>6. kk \in Diag(e)
  <2>1. /\ Dist(s, t, x, y) >= x - y /\ Dist(s, t, x, y) >= y - x
        /\ ((Dist(s, t, x, y) + x) - y) % 2 = 0
    BY <1>4, DistIs
  <2>2. e >= x - y /\ e >= y - x /\ ((e + x) - y) % 2 = 0
    BY <1>5, <2>1
  <2> QED
    BY <1>4, <2>2 DEF Diag, kk
<1>7. j \in Diag(f)
  <2>1. /\ Dist(rs, rt, z, w) >= z - w /\ Dist(rs, rt, z, w) >= w - z
        /\ ((Dist(rs, rt, z, w) + z) - w) % 2 = 0
    <3>1. rs \in Seq(E) /\ rt \in Seq(E) /\ z \in Nat /\ w \in Nat
      BY <1>3, <1>4
    <3> QED
      BY <1>0, <3>1, Zenon
  <2>2. f >= z - w /\ f >= w - z /\ ((f + z) - w) % 2 = 0
    BY <1>5, <2>1
  <2> QED
    BY <1>4, <2>2 DEF Diag, j
<1>8. g[kk] \in Nat /\ x <= g[kk]
  <2> DEFINE p == g[kk]
  <2>1. Reached(s, t, e, kk, p) /\ e \in Int
    BY <1>6
  <2> HIDE DEF p
  <2>2. Dist(s, t, x, x - kk) <= e <=> x <= p
    BY <1>4, <2>1, ReachedIs
  <2>3. x <= p /\ p \in Nat
    BY <1>4, <1>5, <2>1, <2>2 DEF Reached
  <2> QED
    BY <2>3 DEF p
<1>9. h[j] \in Nat /\ z <= h[j]
  <2> DEFINE p == h[j]
  <2>1. Reached(rs, rt, f, j, p) /\ f \in Int
    BY <1>7 DEF rs, rt
  <2> HIDE DEF p
  <2>2. Dist(rs, rt, z, z - j) <= f <=> z <= p
    BY <1>3, <1>4, <2>1, ReachedIs
  <2>3. z <= p /\ p \in Nat
    BY <1>4, <1>5, <2>1, <2>2 DEF Reached
  <2> QED
    BY <2>3 DEF p
<1>10. g[kk] + h[j] >= n
  BY <1>3, <1>4, <1>8, <1>9
<1>11. j = (Len(s) - Len(t)) - kk /\ n = Len(s)
  BY <1>4 DEF n, m
<1> QED
  BY <1>6, <1>7, <1>10, <1>11

(***************************************************************************)
(* What a state keeps.                                                     *)
(***************************************************************************)

Box == {t \in [call : {"ses", "match"}, aoff : Nat, n : Nat, boff : Nat, m : Nat] : InBox(t)}

(* The two tables as rows, the backward one turned round. *)
AheadTo == [kk \in Int |-> FV(kk)]
BehindTo == [kk \in Int |-> frame.n - RV(Delta - kk)]
AheadWidth(e) == IF Odd THEN e - 1 ELSE -1
BehindWidth(e) == IF Odd THEN -1 ELSE e

AheadRow(e) == /\ Row(AheadTo, e, frame.n, frame.m, AheadWidth(e))
               /\ \A kk \in Diag(e) : Packed(kk, 0) \in fresh
BehindRow(e) == /\ Row(BehindTo, e, frame.n, frame.m, BehindWidth(e))
                /\ \A kk \in Diag(e) : Packed(Delta - kk, 1) \in fresh
AheadStep(kk) == /\ Stepped(AheadTo, d, kk, AheadTo[kk], frame.n, frame.m, AheadWidth(d))
                 /\ Packed(kk, 0) \in fresh
BehindStep(kk) == /\ Stepped(BehindTo, d, kk, BehindTo[kk], frame.n, frame.m, BehindWidth(d))
                  /\ Packed(Delta - kk, 1) \in fresh
AheadStart == d = 0 => AheadTo[1] = 0 /\ Packed(1, 0) \in fresh
BehindStart == d = 0 => BehindTo[1] = 0 /\ Packed(Delta - 1, 1) \in fresh

SnakeIn == /\ ms.x \in Nat /\ ms.u \in Nat /\ ms.x <= ms.u /\ ms.u <= frame.n
           /\ ms.y \in Nat /\ ms.v \in Nat /\ ms.y <= ms.v /\ ms.v <= frame.m

Tasked == /\ a \in Seq(Symbols) /\ b \in Seq(Symbols)
          /\ Len(a) <= MaxLen /\ Len(b) <= MaxLen
          /\ dmax \in Nat
          /\ work \in Seq(Box) /\ frame \in Box

AtDepth == pc = "depth" => /\ AheadRow(d - 1) /\ BehindRow(d - 1)
                           /\ AheadStart /\ BehindStart
AtForward == pc = "forward" => /\ k \in Diag(d)
                               /\ AheadRow(d - 1) /\ BehindRow(d - 1)
                               /\ AheadStart /\ BehindStart
                               /\ \A kk \in Diag(d) : kk > k => AheadStep(kk)
AtBackward == pc = "backward" => /\ k \in Diag(d)
                                 /\ AheadRow(d) /\ BehindRow(d - 1)
                                 /\ BehindStart
                                 /\ \A kk \in Diag(d) : kk < -k => BehindStep(kk)
AtSnake == pc = "snake" /\ dd < Limit => SnakeIn

DiffInv == /\ Tasked
           /\ \A j \in DOMAIN buf : buf[j] \in Int
           /\ d \in Nat
           /\ AtDepth /\ AtForward /\ AtBackward /\ AtSnake

(* _setv: no two entries of the two tables share an index. *)
LEMMA PackedInjective ==
  \A kk, j \in Int : \A r, s \in {0, 1} : Packed(kk, r) = Packed(j, s) => kk = j /\ r = s
BY DEF Packed

LEMMA StoreIs ==
  ASSUME NEW kk \in Int, NEW r \in {0, 1}, NEW v, buf' = Store(buf, Packed(kk, r), v)
  PROVE  \A j \in Int : \A s \in {0, 1} :
           Load(Packed(j, s))' = IF j = kk /\ s = r THEN v ELSE Load(Packed(j, s))
<1> SUFFICES ASSUME NEW j \in Int, NEW s \in {0, 1}
             PROVE  Load(Packed(j, s))' = IF j = kk /\ s = r THEN v ELSE Load(Packed(j, s))
  OBVIOUS
<1> DEFINE p == Packed(kk, r)
           q == Packed(j, s)
<1>1. p = q <=> j = kk /\ s = r
  <2>1. p = q => j = kk /\ s = r
    BY PackedInjective
  <2> QED
    BY <2>1
<1>2. Load(Packed(j, s))' = IF q \in DOMAIN buf' THEN buf'[q] ELSE 0
  BY DEF Load, Packed
<1>3. Load(Packed(j, s)) = IF q \in DOMAIN buf THEN buf[q] ELSE 0
  BY DEF Load
<1>4. buf' = [i \in DOMAIN buf \cup {p} |-> IF i = p THEN v ELSE buf[i]]
  BY DEF Store
<1> HIDE DEF p, q
<1> QED
  BY <1>1, <1>2, <1>3, <1>4

LEMMA LoadIsInt ==
  ASSUME \A j \in DOMAIN buf : buf[j] \in Int
  PROVE  \A i : Load(i) \in Int
BY DEF Load

LEMMA StoreIsInt ==
  ASSUME NEW f, \A j \in DOMAIN f : f[j] \in Int, NEW i, NEW v \in Int
  PROVE  \A j \in DOMAIN Store(f, i, v) : Store(f, i, v)[j] \in Int
BY DEF Store

(* The diagonal slides are inside the box when they move at all. *)
LEMMA AheadIs ==
  ASSUME Tasked, NEW f \in Box, NEW x \in Nat, NEW y \in Nat
  PROVE  /\ Ahead(f, x, y) \in Nat
         /\ Ahead(f, x, y) > 0 => x + Ahead(f, x, y) <= f.n /\ y + Ahead(f, x, y) <= f.m
         /\ \A s \in 0 .. Ahead(f, x, y) - 1 :
              /\ x + s < f.n /\ y + s < f.m
              /\ a[f.aoff + x + s + 1] = b[f.boff + y + s + 1]
         /\ LET s == Ahead(f, x, y)
            IN  ~ (/\ x + s < f.n /\ y + s < f.m
                   /\ a[f.aoff + x + s + 1] = b[f.boff + y + s + 1])
<1> DEFINE C(s) == /\ x + s < f.n /\ y + s < f.m
                   /\ a[f.aoff + x + s + 1] = b[f.boff + y + s + 1]
           T == {t \in 0 .. MaxLen : ~C(t)}
           t == Ahead(f, x, y)
<1>1. f.n \in Nat /\ f.m \in Nat /\ f.n <= MaxLen /\ MaxLen \in Nat
  <2>1. f.aoff \in Nat /\ f.n \in Nat /\ f.m \in Nat /\ f.aoff + f.n <= Len(a) /\ Len(a) <= MaxLen
    BY DEF Box, InBox, Tasked
  <2>2. Len(a) \in Nat
    BY LenProperties DEF Tasked
  <2> QED
    BY <2>1, <2>2, DiffAssumption
<1>2. T \in SUBSET Nat /\ f.n \in T
  BY <1>1
<1>3. Min(T) \in T /\ \A i \in T : Min(T) <= i
  <2> HIDE DEF T
  <2> QED
    BY <1>2, MinIsLeast
<1> DEFINE z == Min(T)
<1>4. z \in 0 .. MaxLen /\ ~C(z) /\ \A s \in 0 .. z - 1 : C(s)
  <2>1. z \in 0 .. MaxLen /\ ~C(z)
    BY <1>3
  <2> SUFFICES ASSUME NEW s \in 0 .. z - 1 PROVE C(s)
    BY <2>1
  <2>2. s \notin T
    <3> HIDE DEF T
    <3> QED
      BY <1>1, <1>3, <2>1
  <2>3. s \in 0 .. MaxLen
    <3> HIDE DEF z
    <3> QED
      BY <1>1, <2>1
  <2> QED
    BY <2>2, <2>3
<1>5. t = CHOOSE u \in 0 .. MaxLen : (\A s \in 0 .. u - 1 : C(s)) /\ ~C(u)
  BY DEF Ahead
<1> HIDE DEF z, t, C
<1>6. t \in 0 .. MaxLen /\ (\A s \in 0 .. t - 1 : C(s)) /\ ~C(t)
  BY <1>4, <1>5
<1>7. t \in Nat
  BY <1>1, <1>6
<1>8. t > 0 => x + t <= f.n /\ y + t <= f.m
  <2> SUFFICES ASSUME t > 0 PROVE x + t <= f.n /\ y + t <= f.m
    OBVIOUS
  <2>1. C(t - 1)
    BY <1>6, <1>7
  <2>2. x + (t - 1) < f.n /\ y + (t - 1) < f.m
    BY <2>1 DEF C
  <2> QED
    BY <1>1, <1>7, <2>2
<1> QED
  BY <1>6, <1>7, <1>8 DEF t, C

LEMMA BehindIs ==
  ASSUME Tasked, NEW f \in Box, NEW x \in Int, NEW y \in Int, x <= f.n
  PROVE  /\ Behind(f, x, y) \in Nat
         /\ Behind(f, x, y) > 0 => x - Behind(f, x, y) >= 0 /\ y - Behind(f, x, y) >= 0
         /\ \A s \in 0 .. Behind(f, x, y) - 1 :
              /\ x - s > 0 /\ y - s > 0
              /\ a[f.aoff + x - s] = b[f.boff + y - s]
         /\ LET s == Behind(f, x, y)
            IN  ~ (/\ x - s > 0 /\ y - s > 0
                   /\ a[f.aoff + x - s] = b[f.boff + y - s])
<1> DEFINE C(s) == /\ x - s > 0 /\ y - s > 0
                   /\ a[f.aoff + x - s] = b[f.boff + y - s]
           T == {t \in 0 .. MaxLen : ~C(t)}
           t == Behind(f, x, y)
<1>1. f.n \in Nat /\ f.m \in Nat /\ f.n <= MaxLen /\ MaxLen \in Nat
  <2>1. f.aoff \in Nat /\ f.n \in Nat /\ f.m \in Nat /\ f.aoff + f.n <= Len(a) /\ Len(a) <= MaxLen
    BY DEF Box, InBox, Tasked
  <2>2. Len(a) \in Nat
    BY LenProperties DEF Tasked
  <2> QED
    BY <2>1, <2>2, DiffAssumption
<1>2. T \in SUBSET Nat /\ f.n \in T
  BY <1>1
<1>3. Min(T) \in T /\ \A i \in T : Min(T) <= i
  <2> HIDE DEF T
  <2> QED
    BY <1>2, MinIsLeast
<1> DEFINE z == Min(T)
<1>4. z \in 0 .. MaxLen /\ ~C(z) /\ \A s \in 0 .. z - 1 : C(s)
  <2>1. z \in 0 .. MaxLen /\ ~C(z)
    BY <1>3
  <2> SUFFICES ASSUME NEW s \in 0 .. z - 1 PROVE C(s)
    BY <2>1
  <2>2. s \notin T
    <3> HIDE DEF T
    <3> QED
      BY <1>1, <1>3, <2>1
  <2>3. s \in 0 .. MaxLen
    <3> HIDE DEF z
    <3> QED
      BY <1>1, <2>1
  <2> QED
    BY <2>2, <2>3
<1>5. t = CHOOSE u \in 0 .. MaxLen : (\A s \in 0 .. u - 1 : C(s)) /\ ~C(u)
  BY DEF Behind
<1> HIDE DEF z, t, C
<1>6. t \in 0 .. MaxLen /\ (\A s \in 0 .. t - 1 : C(s)) /\ ~C(t)
  BY <1>4, <1>5
<1>7. t \in Nat
  BY <1>1, <1>6
<1>8. t > 0 => x - t >= 0 /\ y - t >= 0
  <2> SUFFICES ASSUME t > 0 PROVE x - t >= 0 /\ y - t >= 0
    OBVIOUS
  <2>1. C(t - 1)
    BY <1>6, <1>7
  <2>2. x - (t - 1) > 0 /\ y - (t - 1) > 0
    BY <2>1 DEF C
  <2> QED
    BY <1>1, <1>7, <2>2
<1> QED
  BY <1>6, <1>7, <1>8 DEF t, C

LEMMA FrameIs ==
  ASSUME Tasked
  PROVE  /\ frame \in Box /\ frame.n \in Nat /\ frame.m \in Nat
         /\ Delta \in Int /\ Delta = frame.n - frame.m
         /\ \A e \in Int : AheadWidth(e) \in Int /\ BehindWidth(e) \in Int
BY DEF Tasked, Box, Delta, AheadWidth, BehindWidth

LEMMA ToIs ==
  ASSUME DiffInv
  PROVE  \A kk \in Int : /\ AheadTo[kk] = FV(kk) /\ FV(kk) \in Int
                         /\ BehindTo[kk] = frame.n - RV(Delta - kk) /\ RV(kk) \in Int
                         /\ RV(kk) = frame.n - BehindTo[Delta - kk]
                         /\ BehindTo[kk] \in Int
<1> SUFFICES ASSUME NEW kk \in Int
             PROVE  /\ AheadTo[kk] = FV(kk) /\ FV(kk) \in Int
                    /\ BehindTo[kk] = frame.n - RV(Delta - kk) /\ RV(kk) \in Int
                    /\ RV(kk) = frame.n - BehindTo[Delta - kk]
                    /\ BehindTo[kk] \in Int
  OBVIOUS
<1>1. \A j : FV(j) \in Int /\ RV(j) \in Int
  BY LoadIsInt DEF DiffInv, FV, RV
<1>2. frame.n \in Nat /\ Delta \in Int
  BY FrameIs DEF DiffInv
<1>3. AheadTo[kk] = FV(kk) /\ BehindTo[kk] = frame.n - RV(Delta - kk)
  BY DEF AheadTo, BehindTo
<1>4. BehindTo[Delta - kk] = frame.n - RV(Delta - (Delta - kk)) /\ Delta - (Delta - kk) = kk
  BY <1>2 DEF BehindTo
<1> QED
  BY <1>1, <1>2, <1>3, <1>4

LEMMA RowAgrees ==
  ASSUME NEW g, NEW h, NEW e \in Int, NEW n \in Nat, NEW m \in Nat, NEW w \in Int,
         Row(g, e, n, m, w), \A kk \in Diag(e) : h[kk] = g[kk]
  PROVE  Row(h, e, n, m, w)
<1> SUFFICES ASSUME NEW kk \in Diag(e)
             PROVE  /\ h[kk] \in Nat /\ h[kk] - kk >= 0
                    /\ h[kk] > n => kk - 2 >= -e /\ h[kk - 2] >= h[kk] - 1
                    /\ h[kk] - kk > m => kk + 2 <= e /\ h[kk + 2] >= h[kk] + 1
                    /\ Near(kk, n, m, w) => h[kk] < n /\ h[kk] - kk < m
  BY DEF Row
<1>1. /\ g[kk] \in Nat /\ g[kk] - kk >= 0
      /\ g[kk] > n => kk - 2 >= -e /\ g[kk - 2] >= g[kk] - 1
      /\ g[kk] - kk > m => kk + 2 <= e /\ g[kk + 2] >= g[kk] + 1
      /\ Near(kk, n, m, w) => g[kk] < n /\ g[kk] - kk < m
  BY DEF Row
<1>2. kk \in Int /\ (kk # -e => kk - 2 \in Diag(e)) /\ (kk # e => kk + 2 \in Diag(e))
  BY DiagIs, Zenon
<1>3. (kk - 2 >= -e => kk # -e) /\ (kk + 2 <= e => kk # e)
  BY <1>2
<1> QED
  BY <1>1, <1>2, <1>3

LEMMA SteppedAgrees ==
  ASSUME NEW g, NEW h, NEW e \in Int, NEW n \in Nat, NEW m \in Nat, NEW w \in Int,
         NEW kk \in Diag(e), NEW x, Stepped(g, e, kk, x, n, m, w),
         \A j \in Diag(e - 1) : h[j] = g[j]
  PROVE  Stepped(h, e, kk, x, n, m, w)
<1>1. (kk # -e => kk - 1 \in Diag(e - 1)) /\ (kk # e => kk + 1 \in Diag(e - 1))
  BY DiagIs, Zenon
<1> QED
  BY <1>1 DEF Stepped

(* Where a diagonal starts from is inside on the near side, and what is    *)
(* read to find that was stored by this search.                            *)
LEMMA FromIs ==
  ASSUME NEW n \in Nat, NEW m \in Nat, NEW w \in Int, NEW e \in Nat,
         NEW g, Row(g, e - 1, n, m, w), e = 0 => g[1] = 0, NEW kk \in Diag(e)
  PROVE  From(g, e, kk) \in Nat /\ From(g, e, kk) - kk >= 0
<1>1. ~Near(kk, n, m, -1)
  BY DiagIs DEF Near
<1> DEFINE t == 0
           v == -1
<1>2. t \in Nat /\ ~ (t > 0) /\ v \in Int /\ ~Near(kk, n, m, v)
  BY <1>1
<1> HIDE DEF t, v
<1> QED
  BY <1>2, StepIs

LEMMA ForwardStarts ==
  ASSUME DiffInv, pc = "forward"
  PROVE  /\ ForwardX = From(AheadTo, d, k)
         /\ ForwardX \in Nat /\ ForwardX - k >= 0
         /\ Reads \subseteq fresh
<1>1. /\ d \in Nat /\ k \in Diag(d) /\ AheadRow(d - 1) /\ BehindRow(d - 1)
      /\ AheadStart /\ BehindStart
  BY DEF DiffInv, AtForward
<1>2. d \in Int /\ k \in Int /\ -d <= k /\ k <= d
  BY <1>1, DiagIs
<1>3. /\ k # -d => k - 1 \in Diag(d - 1)
      /\ k # d => k + 1 \in Diag(d - 1)
  BY <1>1, <1>2, DiagIs, Zenon
<1>4. ForwardX = From(AheadTo, d, k)
  <2>1. k - 1 \in Int /\ k + 1 \in Int
    BY <1>2
  <2>2. FV(k - 1) = AheadTo[k - 1] /\ FV(k + 1) = AheadTo[k + 1]
    BY <2>1, ToIs
  <2> QED
    BY <2>2 DEF ForwardX, From
<1>5. From(AheadTo, d, k) \in Nat /\ From(AheadTo, d, k) - k >= 0
  <2>1. frame.n \in Nat /\ frame.m \in Nat /\ AheadWidth(d - 1) \in Int
    BY <1>2, FrameIs DEF DiffInv
  <2> QED
    BY <1>1, <2>1, FromIs DEF AheadRow, AheadStart
<1>6. Reads \subseteq fresh
  <2>1. k # -d => Packed(k - 1, 0) \in fresh
    BY <1>1, <1>3 DEF AheadRow
  <2>2. ~ (k = d /\ d # 0) => Packed(k + 1, 0) \in fresh
    <3>1. CASE d = 0
      <4>1. k + 1 = 1
        BY <1>2, <3>1
      <4> QED
        BY <1>1, <3>1, <4>1 DEF AheadStart
    <3>2. CASE d # 0
      BY <1>1, <1>3, <3>2 DEF AheadRow
    <3> QED
      BY <3>1, <3>2
  <2>3. ForwardMeets => Packed(k, 1) \in fresh
    <3> SUFFICES ASSUME ForwardMeets PROVE Packed(k, 1) \in fresh
      OBVIOUS
    <3>1. Delta \in Int /\ Delta % 2 = 1 /\ k >= Delta - (d - 1) /\ k <= Delta + (d - 1)
      BY FrameIs DEF DiffInv, ForwardMeets, Odd
    <3>2. (k + d) % 2 = 0
      BY <1>1 DEF Diag
    <3>3. Delta - k \in Diag(d - 1)
      BY <1>2, <3>1, <3>2 DEF Diag
    <3>4. Delta - (Delta - k) = k
      BY <1>2, <3>1
    <3> QED
      BY <1>1, <3>3, <3>4 DEF BehindRow
  <2>4. Reads = (IF k = -d THEN {} ELSE {Packed(k - 1, 0)}) \cup
                (IF k = d /\ d # 0 THEN {} ELSE {Packed(k + 1, 0)}) \cup
                (IF ForwardMeets THEN {Packed(k, 1)} ELSE {})
    BY DEF Reads
  <2> QED
    BY <2>1, <2>2, <2>3, <2>4
<1> QED
  BY <1>4, <1>5, <1>6

LEMMA BackwardStarts ==
  ASSUME DiffInv, pc = "backward"
  PROVE  /\ BackwardX = frame.n - From(BehindTo, d, -k)
         /\ BackwardX \in Int /\ BackwardX <= frame.n
         /\ BackwardX - BackDiagonal <= frame.m
         /\ Reads \subseteq fresh
<1>1. /\ d \in Nat /\ k \in Diag(d) /\ AheadRow(d) /\ BehindRow(d - 1) /\ BehindStart
  BY DEF DiffInv, AtBackward
<1>2. d \in Int /\ k \in Int /\ -d <= k /\ k <= d /\ -k \in Diag(d)
  BY <1>1, DiagIs
<1>3. /\ -k # -d => (-k) - 1 \in Diag(d - 1)
      /\ -k # d => (-k) + 1 \in Diag(d - 1)
  BY <1>1, <1>2, DiagIs, Zenon
<1>4. /\ frame.n \in Nat /\ frame.m \in Nat /\ Delta \in Int /\ Delta = frame.n - frame.m
      /\ BehindWidth(d - 1) \in Int /\ BackDiagonal = Delta + k
  BY <1>2, FrameIs DEF DiffInv, BackDiagonal
<1>5. BackwardX = frame.n - From(BehindTo, d, -k)
  <2> DEFINE p == BehindTo[(-k) - 1]
             q == BehindTo[(-k) + 1]
  <2>1. p \in Int /\ q \in Int
    BY <1>2, ToIs
  <2>2. RV(BackDiagonal - 1) = frame.n - q /\ RV(BackDiagonal + 1) = frame.n - p
    <3>1. BackDiagonal - 1 \in Int /\ BackDiagonal + 1 \in Int
      BY <1>2, <1>4
    <3>2. Delta - (BackDiagonal - 1) = (-k) + 1 /\ Delta - (BackDiagonal + 1) = (-k) - 1
      BY <1>2, <1>4
    <3> QED
      BY <3>1, <3>2, ToIs
  <2>3. From(BehindTo, d, -k) = IF -k = -d \/ (-k # d /\ p < q) THEN q ELSE p + 1
    BY DEF From
  <2>4. BackwardX = IF k = d \/ (k # -d /\ frame.n - q < frame.n - p)
                    THEN frame.n - q ELSE (frame.n - p) - 1
    BY <2>2 DEF BackwardX
  <2> HIDE DEF p, q
  <2>5. (-k = -d <=> k = d) /\ (-k = d <=> k = -d)
    BY <1>2
  <2>6. frame.n - q < frame.n - p <=> p < q
    BY <1>4, <2>1
  <2>7. (frame.n - p) - 1 = frame.n - (p + 1)
    BY <1>4, <2>1
  <2> QED
    BY <2>3, <2>4, <2>5, <2>6, <2>7
<1>6. From(BehindTo, d, -k) \in Nat /\ From(BehindTo, d, -k) - (-k) >= 0
  BY <1>1, <1>2, <1>4, FromIs DEF BehindRow, BehindStart
<1>7. BackwardX \in Int /\ BackwardX <= frame.n /\ BackwardX - BackDiagonal <= frame.m
  BY <1>2, <1>4, <1>5, <1>6
<1>8. Reads \subseteq fresh
  <2>1. \A j \in Diag(d - 1) : Packed(Delta - j, 1) \in fresh
    BY <1>1 DEF BehindRow
  <2>2. ~ (k = -d /\ d # 0) => Packed(BackDiagonal - 1, 1) \in fresh
    <3>1. Delta - ((-k) + 1) = BackDiagonal - 1
      BY <1>2, <1>4
    <3>2. CASE d = 0
      <4>1. BackDiagonal - 1 = Delta - 1
        BY <1>2, <1>4, <3>2
      <4> QED
        BY <1>1, <3>2, <4>1 DEF BehindStart
    <3>3. CASE d # 0
      <4> SUFFICES ASSUME k # -d PROVE Packed(BackDiagonal - 1, 1) \in fresh
        BY <3>3
      <4>1. (-k) + 1 \in Diag(d - 1)
        BY <1>2, <1>3
      <4> QED
        BY <2>1, <3>1, <4>1
    <3> QED
      BY <3>2, <3>3
  <2>3. k # d => Packed(BackDiagonal + 1, 1) \in fresh
    <3> SUFFICES ASSUME k # d PROVE Packed(BackDiagonal + 1, 1) \in fresh
      OBVIOUS
    <3>1. Delta - ((-k) - 1) = BackDiagonal + 1
      BY <1>2, <1>4
    <3>2. (-k) - 1 \in Diag(d - 1)
      BY <1>2, <1>3
    <3> QED
      BY <2>1, <3>1, <3>2
  <2>4. BackwardMeets => Packed(BackDiagonal, 0) \in fresh
    <3> SUFFICES ASSUME BackwardMeets PROVE Packed(BackDiagonal, 0) \in fresh
      OBVIOUS
    <3>1. Delta % 2 # 1 /\ BackDiagonal >= -d /\ BackDiagonal <= d
      BY DEF BackwardMeets, Odd
    <3>2. (k + d) % 2 = 0
      BY <1>1 DEF Diag
    <3>3. BackDiagonal \in Diag(d)
      BY <1>2, <1>4, <3>1, <3>2 DEF Diag
    <3> QED
      BY <1>1, <3>3 DEF AheadRow
  <2>5. Reads = (IF k = -d /\ d # 0 THEN {} ELSE {Packed(BackDiagonal - 1, 1)}) \cup
                (IF k = d THEN {} ELSE {Packed(BackDiagonal + 1, 1)}) \cup
                (IF BackwardMeets THEN {Packed(BackDiagonal, 0)} ELSE {})
    BY DEF Reads
  <2> QED
    BY <2>2, <2>3, <2>4, <2>5
<1> QED
  BY <1>5, <1>7, <1>8

(* What a diagonal of the forward search stores, and where. *)
LEMMA ForwardStores ==
  ASSUME DiffInv, Forward
  PROVE  LET x0 == ForwardX
             t == Ahead(frame, x0, x0 - k)
         IN  /\ x0 = From(AheadTo, d, k) /\ x0 \in Nat /\ x0 - k >= 0
             /\ t \in Nat /\ (t > 0 => x0 + t <= frame.n /\ (x0 - k) + t <= frame.m)
             /\ \A j \in Int : /\ AheadTo'[j] = IF j = k THEN x0 + t ELSE AheadTo[j]
                               /\ BehindTo'[j] = BehindTo[j]
<1> DEFINE x0 == ForwardX
           t == Ahead(frame, x0, x0 - k)
           x == x0 + t
<1>1. /\ pc = "forward" /\ buf' = Store(buf, Packed(k, 0), x)
      /\ UNCHANGED <<input, work, frame, script, ret>>
  BY DEF Forward
<1>2. d \in Nat /\ k \in Diag(d) /\ Tasked
  BY <1>1 DEF DiffInv, AtForward
<1>3. frame \in Box /\ Delta \in Int /\ k \in Int
  BY <1>2, FrameIs, DiagIs
<1>4. x0 = From(AheadTo, d, k) /\ x0 \in Nat /\ x0 - k >= 0
  BY <1>1, ForwardStarts
<1>5. t \in Nat /\ (t > 0 => x <= frame.n /\ (x0 - k) + t <= frame.m)
  <2>1. x0 - k \in Nat
    BY <1>3, <1>4
  <2> HIDE DEF x0
  <2> QED
    BY <1>2, <1>3, <1>4, <2>1, AheadIs
<1> HIDE DEF x0, t
<1>6. ASSUME NEW j \in Int
      PROVE  /\ AheadTo'[j] = IF j = k THEN x ELSE AheadTo[j]
             /\ BehindTo'[j] = BehindTo[j]
  <2>1. \A i \in Int : \A r \in {0, 1} :
          Load(Packed(i, r))' = IF i = k /\ r = 0 THEN x ELSE Load(Packed(i, r))
    <3> HIDE DEF x
    <3> QED
      BY <1>1, <1>3, StoreIs
  <2>2. FV(j)' = IF j = k THEN x ELSE FV(j)
    BY <2>1 DEF FV
  <2>3. RV(Delta - j)' = RV(Delta - j)
    <3>1. Delta - j \in Int
      BY <1>3
    <3> HIDE DEF x
    <3>2. Load(Packed(Delta - j, 1))' = Load(Packed(Delta - j, 1))
      <4> DEFINE i == Delta - j
      <4>1. i \in Int /\ i' = i
        BY <1>1, <3>1 DEF Delta
      <4>2. i \in Int
        BY <4>1
      <4>3. Load(Packed(Delta - j, 1))' = Load(Packed(i, 1))'
        OBVIOUS
      <4> QED
        BY <1>1, <2>1, <3>1 DEF Load, Packed, Delta
    <3> QED
      BY <3>2 DEF RV
  <2>4. frame' = frame
    BY <1>1
  <2> HIDE DEF x
  <2> QED
    BY <2>2, <2>3, <2>4 DEF AheadTo, BehindTo
<1> QED
  BY <1>4, <1>5, <1>6 DEF x0, t

(* The inner loop of the forward search. *)
LEMMA ForwardKeeps ==
  ASSUME DiffInv, Forward
  PROVE  DiffInv'
<1> DEFINE x0 == ForwardX
           t == Ahead(frame, x0, x0 - k)
           x == x0 + t
           n == frame.n
           m == frame.m
           met == ForwardMeets /\ x >= RV(k)
<1>1. /\ pc = "forward"
      /\ buf' = Store(buf, Packed(k, 0), x) /\ fresh' = fresh \cup {Packed(k, 0)}
      /\ IF met
         THEN /\ ms' = [x |-> x0, y |-> x0 - k, u |-> x, v |-> x - k]
              /\ dd' = 2 * d - 1 /\ pc' = "snake" /\ UNCHANGED <<d, k>>
         ELSE /\ ms' = [ms EXCEPT !.x = x0, !.y = x0 - k]
              /\ NextDiagonal("backward") /\ UNCHANGED dd
      /\ UNCHANGED <<input, work, frame, script, ret>>
  BY DEF Forward
<1>2. /\ d \in Nat /\ k \in Diag(d) /\ AheadRow(d - 1) /\ BehindRow(d - 1)
      /\ AheadStart /\ BehindStart /\ Tasked
      /\ \A kk \in Diag(d) : kk > k => AheadStep(kk)
      /\ \A j \in DOMAIN buf : buf[j] \in Int
  BY <1>1 DEF DiffInv, AtForward
<1>3. /\ n \in Nat /\ m \in Nat /\ frame \in Box /\ Delta \in Int /\ Delta = n - m
      /\ k \in Int /\ -d <= k /\ k <= d /\ d \in Int
      /\ \A e \in Int : AheadWidth(e) \in Int /\ BehindWidth(e) \in Int
  BY <1>2, FrameIs, DiagIs
<1>s. /\ x0 = From(AheadTo, d, k) /\ x0 \in Nat /\ x0 - k >= 0
      /\ t \in Nat /\ (t > 0 => x <= n /\ (x0 - k) + t <= m)
      /\ \A j \in Int : /\ AheadTo'[j] = IF j = k THEN x ELSE AheadTo[j]
                        /\ BehindTo'[j] = BehindTo[j]
  BY ForwardStores
<1> HIDE DEF x0, t
<1>4. x0 = From(AheadTo, d, k) /\ x0 \in Nat /\ x0 - k >= 0
  BY <1>s
<1>5. t \in Nat /\ (t > 0 => x <= n /\ (x0 - k) + t <= m)
  BY <1>s
<1>6. x \in Nat /\ x - k = (x0 - k) + t /\ x - k >= 0
  BY <1>3, <1>4, <1>5
<1>7. ASSUME NEW j \in Int
      PROVE  /\ AheadTo'[j] = IF j = k THEN x ELSE AheadTo[j]
             /\ BehindTo'[j] = BehindTo[j]
  BY <1>s
<1>8. /\ frame' = frame /\ Tasked' /\ Delta' = Delta /\ \A e \in Int : AheadWidth(e)' = AheadWidth(e)
      /\ \A e \in Int : BehindWidth(e)' = BehindWidth(e)
  BY <1>1, <1>2 DEF Tasked, Box, InBox, input, Delta, AheadWidth, BehindWidth, Odd
<1>9. \A j \in DOMAIN buf' : buf'[j] \in Int
  <2>1. x \in Int
    BY <1>6
  <2> HIDE DEF x
  <2> QED
    BY <1>1, <1>2, <2>1, StoreIsInt
<1> DEFINE g == AheadTo
           h == AheadTo'
<1>10. /\ g = AheadTo /\ h = AheadTo'
       /\ \A j \in Int : h[j] = IF j = k THEN x ELSE g[j]
       /\ \A j \in Diag(d - 1) : h[j] = g[j]
  <2>1. \A j \in Int : h[j] = IF j = k THEN x ELSE g[j]
    BY <1>7
  <2>2. \A j \in Diag(d - 1) : j \in Int /\ j # k
    BY <1>2, <1>3, DiagIs
  <2> HIDE DEF g, h, x
  <2>3. \A j \in Diag(d - 1) : h[j] = g[j]
    BY <2>1, <2>2
  <2> QED
    BY <2>1, <2>3 DEF g, h
<1>11. ASSUME ~met
       PROVE  Stepped(g, d, k, x, n, m, AheadWidth(d))
  <2>1. Near(k, n, m, AheadWidth(d)) => x < n /\ x - k < m
    <3> SUFFICES ASSUME Near(k, n, m, AheadWidth(d)) PROVE x < n /\ x - k < m
      OBVIOUS
    <3>1. Odd /\ AheadWidth(d) = d - 1
      BY <1>3 DEF Near, AheadWidth
    <3>2. ForwardMeets
      BY <1>3, <3>1 DEF ForwardMeets, Near
    <3>3. ~ (x >= RV(k)) /\ RV(k) \in Int /\ RV(k) = n - BehindTo[Delta - k]
      BY <1>3, <1>11, <3>2, ToIs
    <3>4. Delta - k \in Diag(d - 1)
      <4>1. (k + d) % 2 = 0
        BY <1>2 DEF Diag
      <4>2. Delta % 2 = 1
        BY <3>1 DEF Odd
      <4>3. k >= Delta - (d - 1) /\ k <= Delta + (d - 1)
        BY <3>2 DEF ForwardMeets
      <4> QED
        BY <1>3, <4>1, <4>2, <4>3 DEF Diag
    <3>5. BehindTo[Delta - k] \in Nat /\ BehindTo[Delta - k] - (Delta - k) >= 0
      BY <1>2, <3>4 DEF BehindRow, Row
    <3> HIDE DEF x
    <3>6. x < RV(k)
      BY <1>6, <3>3
    <3> DEFINE q == BehindTo[Delta - k]
    <3>7. q \in Nat /\ q - (Delta - k) >= 0 /\ x < n - q
      BY <3>3, <3>5, <3>6
    <3> HIDE DEF q
    <3> QED
      BY <1>3, <1>6, <3>7
  <2>2. t > 0 => x <= n /\ x - k <= m
    BY <1>5, <1>6
  <2>3. Row(g, d - 1, n, m, AheadWidth(d - 1)) /\ (d = 0 => g[1] = 0)
    BY <1>2 DEF AheadRow, AheadStart
  <2>4. AheadWidth(d) \in Int /\ AheadWidth(d - 1) \in Int
    BY <1>3
  <2> HIDE DEF g, n, m
  <2> QED
    BY <1>2, <1>3, <1>4, <1>5, <2>1, <2>2, <2>3, <2>4, <1>10, StepIs
<1>12. ASSUME ~met, NEW kk \in Diag(d), kk >= k
       PROVE  Stepped(h, d, kk, h[kk], n, m, AheadWidth(d)) /\ Packed(kk, 0) \in fresh'
  <2>1. kk \in Int /\ AheadWidth(d) \in Int /\ d \in Int
    BY <1>3, DiagIs
  <2>2. CASE kk = k
    <3>1. Stepped(g, d, kk, h[kk], n, m, AheadWidth(d))
      BY <1>3, <1>10, <1>11, <1>12, <2>2
    <3>2. Packed(kk, 0) \in fresh'
      BY <1>1, <2>2
    <3> HIDE DEF g, h, n, m
    <3> QED
      BY ZenonT(60), <1>3, <1>10, <2>1, <3>1, <3>2, SteppedAgrees
  <2>3. CASE kk # k
    <3>1. kk > k /\ h[kk] = g[kk]
      BY <1>3, <1>10, <1>12, <2>1, <2>3
    <3>2. AheadStep(kk)
      BY <1>2, <3>1
    <3>3. Stepped(g, d, kk, h[kk], n, m, AheadWidth(d)) /\ Packed(kk, 0) \in fresh
      BY <3>1, <3>2 DEF AheadStep
    <3> HIDE DEF g, h, n, m
    <3> QED
      BY <1>1, <1>3, <1>10, <2>1, <3>3, SteppedAgrees
  <2> QED
    BY <2>2, <2>3
<1>13. Row(h, d - 1, n, m, AheadWidth(d - 1))
  <2>1. Row(g, d - 1, n, m, AheadWidth(d - 1)) /\ d - 1 \in Int /\ AheadWidth(d - 1) \in Int
    BY <1>2, <1>3 DEF AheadRow
  <2> HIDE DEF g, h, n, m
  <2> QED
    BY SMTT(30), <1>3, <1>10, <2>1, RowAgrees
<1>14. Row(BehindTo', d - 1, n, m, BehindWidth(d - 1))
  <2> DEFINE p == BehindTo
             q == BehindTo'
  <2>1. Row(p, d - 1, n, m, BehindWidth(d - 1)) /\ d - 1 \in Int /\ BehindWidth(d - 1) \in Int
    BY <1>2, <1>3 DEF BehindRow
  <2>2. \A j \in Diag(d - 1) : q[j] = p[j]
    BY <1>3, <1>7, DiagIs
  <2> HIDE DEF p, q, n, m
  <2>3. Row(q, d - 1, n, m, BehindWidth(d - 1))
    BY <1>3, <2>1, <2>2, RowAgrees
  <2> QED
    BY <2>3 DEF q
<1>15. fresh \subseteq fresh'
  BY <1>1
<1>16. CASE met
  <2>1. /\ ms' = [x |-> x0, y |-> x0 - k, u |-> x, v |-> x - k]
        /\ pc' = "snake" /\ d' = d
    BY <1>1, <1>16
  <2>2. x <= n /\ x - k <= m
    <3>1. CASE t > 0
      BY <1>5, <1>6, <3>1
    <3>2. CASE t = 0
      <4>1. Odd /\ Near(k, n, m, d - 1) /\ AheadWidth(d - 1) = (d - 1) - 1
        BY <1>3, <1>16 DEF ForwardMeets, Near, AheadWidth
      <4>2. (k - (n - m) + (d - 1)) % 2 = 0
        <5>1. (k + d) % 2 = 0 /\ (n - m) % 2 = 1
          BY <1>2, <1>3, <4>1 DEF Diag, Odd
        <5> HIDE DEF n, m
        <5> QED
          BY <1>3, <5>1
      <4>3. Row(g, d - 1, n, m, (d - 1) - 1) /\ (d = 0 => g[1] = 0)
        BY <1>2, <4>1 DEF AheadRow, AheadStart
      <4> DEFINE w == d - 1
      <4>4. w \in {d - 1, d} /\ w \in Int
        BY <1>3
      <4>5. Row(g, d - 1, n, m, w - 1) /\ Near(k, n, m, w) /\ (k - (n - m) + w) % 2 = 0
        BY <4>1, <4>2, <4>3
      <4> HIDE DEF g, n, m, w
      <4>6. From(g, d, k) <= n /\ From(g, d, k) - k <= m
        BY <1>2, <1>3, <4>3, <4>4, <4>5, MeetIs
      <4>7. x0 <= n /\ x0 - k <= m
        BY <1>4, <1>10, <4>6
      <4>8. x = x0
        BY <1>4, <3>2
      <4> HIDE DEF x
      <4> QED
        BY <4>7, <4>8
    <3> QED
      BY <1>5, <3>1, <3>2
  <2>3. SnakeIn'
    <3>1. /\ ms'.x = x0 /\ ms'.y = x0 - k /\ ms'.u = x /\ ms'.v = x - k /\ frame' = frame
      BY <1>8, <2>1
    <3>2. x0 <= x /\ x0 - k <= x - k /\ x0 - k \in Nat /\ x - k \in Nat
      BY <1>3, <1>4, <1>5, <1>6
    <3> HIDE DEF x
    <3> QED
      BY <1>4, <1>6, <2>2, <3>1, <3>2 DEF SnakeIn
  <2> QED
    BY <1>2, <1>8, <1>9, <2>1, <2>3 DEF DiffInv, AtDepth, AtForward, AtBackward, AtSnake
<1>17. CASE ~met /\ k > -d
  <2>1. k' = k - 2 /\ pc' = "forward" /\ d' = d
    BY <1>1, <1>17 DEF NextDiagonal
  <2>2. k - 2 \in Diag(d) /\ \A kk \in Diag(d) : kk > k - 2 => kk >= k
    <3>1. k # -d
      BY <1>3, <1>17
    <3>2. k - 2 \in Diag(d)
      BY <1>2, <1>3, <3>1, DiagIs
    <3>3. \A kk \in Diag(d) : kk \in Int /\ (kk < k => kk <= k - 2)
      BY <1>2, <1>3, DiagIs
    <3> QED
      BY <1>3, <3>2, <3>3
  <2>3. \A kk \in Diag(d) : kk > k - 2 => AheadStep(kk)'
    <3> SUFFICES ASSUME NEW kk \in Diag(d), kk > k - 2 PROVE AheadStep(kk)'
      OBVIOUS
    <3>1. Stepped(h, d, kk, h[kk], n, m, AheadWidth(d)) /\ Packed(kk, 0) \in fresh'
      BY <1>12, <1>17, <2>2
    <3> QED
      BY <1>3, <1>8, <2>1, <3>1 DEF AheadStep, Packed
  <2>4. AheadRow(d - 1)'
    BY <1>2, <1>3, <1>8, <1>13, <1>15, <2>1 DEF AheadRow, Packed
  <2>5. BehindRow(d - 1)'
    BY <1>2, <1>3, <1>8, <1>14, <1>15, <2>1 DEF BehindRow, Packed
  <2>6. AheadStart'
    <3> SUFFICES ASSUME d = 0 PROVE AheadTo'[1] = 0 /\ Packed(1, 0) \in fresh'
      BY <2>1 DEF AheadStart, Packed
    <3>1. k # 1 /\ AheadTo[1] = 0 /\ Packed(1, 0) \in fresh
      BY <1>2, <1>3 DEF AheadStart
    <3> QED
      BY <1>7, <1>15, <3>1
  <2>7. BehindStart'
    BY <1>2, <1>7, <1>8, <1>15, <2>1 DEF BehindStart, Packed
  <2> QED
    BY <1>2, <1>8, <1>9, <2>1, <2>2, <2>3, <2>4, <2>5, <2>6, <2>7
       DEF DiffInv, AtDepth, AtForward, AtBackward, AtSnake
<1>18. CASE ~met /\ ~ (k > -d)
  <2>1. k' = d /\ pc' = "backward" /\ d' = d
    BY <1>1, <1>18 DEF NextDiagonal
  <2>2. \A kk \in Diag(d) : kk >= k
    BY <1>3, <1>18, DiagIs
  <2>3. \A kk \in Diag(d) : Stepped(h, d, kk, h[kk], n, m, AheadWidth(d)) /\ Packed(kk, 0) \in fresh'
    BY <1>12, <1>18, <2>2
  <2>4. Row(h, d, n, m, AheadWidth(d))
    <3>1. \A kk \in Diag(d - 1) : h[kk] \in Nat
      BY <1>13 DEF Row
    <3>2. AheadWidth(d) \in Int
      BY <1>3
    <3> HIDE DEF h, n, m
    <3> QED
      BY <1>2, <1>3, <2>3, <3>1, <3>2, RowIs
  <2>5. AheadRow(d)'
    BY <1>3, <1>8, <2>1, <2>3, <2>4 DEF AheadRow, Packed
  <2>6. BehindRow(d - 1)'
    BY <1>2, <1>3, <1>8, <1>14, <1>15, <2>1 DEF BehindRow, Packed
  <2>7. BehindStart'
    BY <1>2, <1>7, <1>8, <1>15, <2>1 DEF BehindStart, Packed
  <2>8. d \in Diag(d) /\ \A kk \in Diag(d) : ~ (kk < -d)
    BY <1>2, <1>3, DiagIs
  <2> QED
    BY <1>2, <1>8, <1>9, <2>1, <2>5, <2>6, <2>7, <2>8
       DEF DiffInv, AtDepth, AtForward, AtBackward, AtSnake
<1> QED
  BY <1>16, <1>17, <1>18

(* The same for the backward search, measured from the far corner. *)
LEMMA BackwardStores ==
  ASSUME DiffInv, Backward
  PROVE  LET z0 == From(BehindTo, d, -k)
             t == Behind(frame, BackwardX, BackwardX - BackDiagonal)
         IN  /\ BackwardX = frame.n - z0 /\ BackwardX - BackDiagonal = frame.m - (z0 + k)
             /\ z0 \in Nat /\ z0 + k \in Nat /\ t \in Nat
             /\ t > 0 => z0 + t <= frame.n /\ z0 + k + t <= frame.m
             /\ \A j \in Int : /\ BehindTo'[j] = IF j = -k THEN z0 + t ELSE BehindTo[j]
                               /\ AheadTo'[j] = AheadTo[j]
<1> DEFINE kr == BackDiagonal
           x0 == BackwardX
           t == Behind(frame, x0, x0 - kr)
           x == x0 - t
           n == frame.n
           m == frame.m
           z0 == From(BehindTo, d, -k)
           z == z0 + t
<1>1. /\ pc = "backward" /\ buf' = Store(buf, Packed(kr, 1), x)
      /\ UNCHANGED <<input, work, frame, script, ret>>
  BY DEF Backward
<1>2. d \in Nat /\ k \in Diag(d) /\ BehindRow(d - 1) /\ BehindStart /\ Tasked
  BY <1>1 DEF DiffInv, AtBackward
<1>3. /\ n \in Nat /\ m \in Nat /\ frame \in Box /\ Delta \in Int /\ Delta = n - m
      /\ k \in Int /\ -d <= k /\ k <= d /\ d \in Int /\ -k \in Diag(d)
      /\ \A e \in Int : AheadWidth(e) \in Int /\ BehindWidth(e) \in Int
  BY <1>2, FrameIs, DiagIs
<1>4. /\ x0 = n - z0 /\ x0 \in Int /\ x0 <= n /\ x0 - kr <= m
      /\ kr = Delta + k /\ kr \in Int
  BY <1>1, <1>3, BackwardStarts DEF BackDiagonal
<1>a. z0 \in Nat /\ z0 - (-k) >= 0
  <2> DEFINE j == -k
             w == BehindWidth(d - 1)
             h0 == BehindTo
  <2>1. /\ Row(h0, d - 1, n, m, w) /\ (d = 0 => h0[1] = 0) /\ w \in Int
        /\ j \in Diag(d) /\ z0 = From(h0, d, j)
    BY <1>2, <1>3 DEF BehindRow, BehindStart
  <2> HIDE DEF j, w, h0, z0, n, m
  <2>2. From(h0, d, j) \in Nat /\ From(h0, d, j) - j >= 0
    BY <1>2, <1>3, <2>1, FromIs
  <2> QED
    BY <2>1, <2>2 DEF j
<1>5. t \in Nat /\ (t > 0 => x >= 0 /\ (x0 - kr) - t >= 0)
  <2>1. x0 - kr \in Int
    BY <1>3, <1>4
  <2> HIDE DEF x0, kr, z0
  <2> QED
    BY <1>2, <1>3, <1>4, <2>1, BehindIs
<1> HIDE DEF x0, t, kr, z0
<1>6. /\ x \in Int /\ z \in Nat /\ x = n - z /\ x - kr = m - (z + k)
      /\ x0 - kr = m - (z0 + k) /\ (x0 - kr) - t = m - (z + k)
  BY <1>3, <1>4, <1>5, <1>a
<1>7. ASSUME NEW j \in Int
      PROVE  /\ BehindTo'[j] = IF j = -k THEN z ELSE BehindTo[j]
             /\ AheadTo'[j] = AheadTo[j]
  <2>1. \A i \in Int : \A r \in {0, 1} :
          Load(Packed(i, r))' = IF i = kr /\ r = 1 THEN x ELSE Load(Packed(i, r))
    <3> HIDE DEF x
    <3> QED
      BY <1>1, <1>4, StoreIs
  <2>2. FV(j)' = FV(j)
    BY <2>1 DEF FV
  <2>3. RV(Delta - j)' = IF j = -k THEN x ELSE RV(Delta - j)
    <3>1. Delta - j \in Int /\ (Delta - j = kr <=> j = -k)
      BY <1>3, <1>4
    <3> HIDE DEF x
    <3>2. Load(Packed(Delta - j, 1))' = IF j = -k THEN x ELSE Load(Packed(Delta - j, 1))
      BY <1>1, <2>1, <3>1 DEF Load, Packed, Delta
    <3> QED
      BY <3>2 DEF RV
  <2>4. frame' = frame
    BY <1>1
  <2>5. n - x = z
    BY <1>3, <1>6
  <2> HIDE DEF x, z
  <2>6. BehindTo'[j] = n - RV(Delta - j)' /\ BehindTo[j] = n - RV(Delta - j)
    BY <2>4 DEF BehindTo
  <2>7. AheadTo'[j] = FV(j)' /\ AheadTo[j] = FV(j)
    BY DEF AheadTo
  <2> QED
    BY <2>2, <2>3, <2>5, <2>6, <2>7
<1>8. z0 + k \in Nat /\ (t > 0 => z0 + t <= n /\ z0 + k + t <= m)
  BY <1>3, <1>4, <1>5, <1>6, <1>a
<1> QED
  BY <1>4, <1>5, <1>6, <1>7, <1>8, <1>a DEF x0, t, kr, z0

(* The inner loop of the backward search, as a forward one from the far    *)
(* corner: z is how far its point is from there.                           *)
LEMMA BackwardKeeps ==
  ASSUME DiffInv, Backward
  PROVE  DiffInv'
<1> DEFINE kr == BackDiagonal
           x0 == BackwardX
           t == Behind(frame, x0, x0 - kr)
           x == x0 - t
           n == frame.n
           m == frame.m
           met == BackwardMeets /\ x <= FV(kr)
           z0 == From(BehindTo, d, -k)
           z == z0 + t
<1>1. /\ pc = "backward"
      /\ buf' = Store(buf, Packed(kr, 1), x) /\ fresh' = fresh \cup {Packed(kr, 1)}
      /\ IF met
         THEN /\ ms' = [x |-> x, y |-> x - kr, u |-> x0, v |-> x0 - kr]
              /\ dd' = 2 * d /\ pc' = "snake" /\ UNCHANGED <<d, k>>
         ELSE /\ ms' = [ms EXCEPT !.u = x0, !.v = x0 - kr]
              /\ NextDiagonal("depth") /\ UNCHANGED dd
      /\ UNCHANGED <<input, work, frame, script, ret>>
  BY DEF Backward
<1>2. /\ d \in Nat /\ k \in Diag(d) /\ AheadRow(d) /\ BehindRow(d - 1)
      /\ BehindStart /\ Tasked
      /\ \A kk \in Diag(d) : kk < -k => BehindStep(kk)
      /\ \A j \in DOMAIN buf : buf[j] \in Int
  BY <1>1 DEF DiffInv, AtBackward
<1>3. /\ n \in Nat /\ m \in Nat /\ frame \in Box /\ Delta \in Int /\ Delta = n - m
      /\ k \in Int /\ -d <= k /\ k <= d /\ d \in Int /\ -k \in Diag(d)
      /\ \A e \in Int : AheadWidth(e) \in Int /\ BehindWidth(e) \in Int
  BY <1>2, FrameIs, DiagIs
<1>s. /\ x0 = n - z0 /\ x0 - kr = m - (z0 + k)
      /\ z0 \in Nat /\ z0 + k \in Nat /\ t \in Nat
      /\ t > 0 => z <= n /\ z0 + k + t <= m
      /\ \A j \in Int : /\ BehindTo'[j] = IF j = -k THEN z ELSE BehindTo[j]
                        /\ AheadTo'[j] = AheadTo[j]
  BY BackwardStores
<1>4. kr = Delta + k /\ kr \in Int
  BY <1>3 DEF BackDiagonal
<1> HIDE DEF x0, t, kr, z0
<1>5. t \in Nat /\ (t > 0 => x >= 0 /\ (x0 - kr) - t >= 0)
  BY <1>3, <1>s
<1>6. /\ x \in Int /\ z \in Nat /\ x = n - z /\ x - kr = m - (z + k)
      /\ x0 - kr = m - (z0 + k) /\ (x0 - kr) - t = m - (z + k)
      /\ x0 = n - z0 /\ x0 \in Int /\ x0 <= n /\ x0 - kr <= m
  BY <1>3, <1>4, <1>s
<1>a. z0 \in Nat /\ z0 - (-k) >= 0
  BY <1>3, <1>s
<1>7. ASSUME NEW j \in Int
      PROVE  /\ BehindTo'[j] = IF j = -k THEN z ELSE BehindTo[j]
             /\ AheadTo'[j] = AheadTo[j]
  BY <1>s
<1>8. /\ frame' = frame /\ Tasked' /\ Delta' = Delta /\ \A e \in Int : AheadWidth(e)' = AheadWidth(e)
      /\ \A e \in Int : BehindWidth(e)' = BehindWidth(e)
  BY <1>1, <1>2 DEF Tasked, Box, InBox, input, Delta, AheadWidth, BehindWidth, Odd
<1>9. \A j \in DOMAIN buf' : buf'[j] \in Int
  <2>1. x \in Int
    BY <1>6
  <2> HIDE DEF x
  <2> QED
    BY <1>1, <1>2, <2>1, StoreIsInt
<1> DEFINE g == BehindTo
           h == BehindTo'
<1>10. /\ g = BehindTo /\ h = BehindTo'
       /\ \A j \in Int : h[j] = IF j = -k THEN z ELSE g[j]
       /\ \A j \in Diag(d - 1) : h[j] = g[j]
  <2>1. \A j \in Int : h[j] = IF j = -k THEN z ELSE g[j]
    BY <1>7
  <2>2. \A j \in Diag(d - 1) : j \in Int /\ j # -k
    BY <1>2, <1>3, DiagIs
  <2> HIDE DEF g, h, z
  <2>3. \A j \in Diag(d - 1) : h[j] = g[j]
    BY <2>1, <2>2
  <2> QED
    BY <2>1, <2>3 DEF g, h
<1>11. ASSUME ~met
       PROVE  Stepped(g, d, -k, z, n, m, BehindWidth(d))
  <2>1. Near(-k, n, m, BehindWidth(d)) => z < n /\ z - (-k) < m
    <3> SUFFICES ASSUME Near(-k, n, m, BehindWidth(d)) PROVE z < n /\ z - (-k) < m
      OBVIOUS
    <3>1. ~Odd /\ BehindWidth(d) = d
      BY <1>3 DEF Near, BehindWidth
    <3>2. BackwardMeets
      <4>1. Delta - d <= -k /\ -k <= Delta + d
        BY <1>3, <3>1 DEF Near
      <4>2. kr >= -d /\ kr <= d
        BY <1>3, <1>4, <4>1
      <4> QED
        BY <3>1, <4>2 DEF BackwardMeets, kr
    <3>3. ~ (x <= FV(kr)) /\ FV(kr) \in Int /\ FV(kr) = AheadTo[kr]
      BY <1>4, <1>11, <3>2, ToIs
    <3>4. kr \in Diag(d)
      <4>1. (k + d) % 2 = 0
        BY <1>2 DEF Diag
      <4>2. Delta % 2 # 1
        BY <3>1 DEF Odd
      <4>3. kr >= -d /\ kr <= d
        BY <3>2 DEF BackwardMeets, kr
      <4>4. kr \in Int /\ (kr + d) % 2 = 0
        <5>1. Delta \in Int /\ k \in Int /\ d \in Int /\ kr = Delta + k
          BY <1>3, <1>4
        <5> QED
          BY <4>1, <4>2, <5>1
      <4> QED
        BY <4>3, <4>4 DEF Diag
    <3>5. AheadTo[kr] \in Nat /\ AheadTo[kr] - kr >= 0
      BY <1>2, <3>4 DEF AheadRow, Row
    <3> DEFINE q == AheadTo[kr]
    <3>6. q \in Nat /\ q - kr >= 0 /\ x > q
      BY <1>6, <3>3, <3>5
    <3>7. x \in Int /\ x = n - z /\ x - kr = m - (z + k) /\ z \in Nat
      BY <1>6
    <3> HIDE DEF q, x, z
    <3> QED
      BY <1>3, <1>4, <3>6, <3>7
  <2>2. t > 0 => z <= n /\ z - (-k) <= m
    <3>1. t > 0 => n - z >= 0 /\ m - (z + k) >= 0
      BY <1>5, <1>6
    <3>2. z \in Nat
      BY <1>6
    <3> HIDE DEF z
    <3> QED
      BY <1>3, <3>1, <3>2
  <2>3. Row(g, d - 1, n, m, BehindWidth(d - 1)) /\ (d = 0 => g[1] = 0)
    BY <1>2 DEF BehindRow, BehindStart
  <2>4. BehindWidth(d) \in Int /\ BehindWidth(d - 1) \in Int
    BY <1>3
  <2>5. z0 = From(g, d, -k)
    BY DEF z0
  <2> DEFINE j == -k
  <2>6. /\ j \in Diag(d) /\ z0 = From(g, d, j)
        /\ t > 0 => z0 + t <= n /\ (z0 + t) - j <= m
        /\ Near(j, n, m, BehindWidth(d)) => z0 + t < n /\ (z0 + t) - j < m
    BY <1>3, <2>1, <2>2, <2>5
  <2> HIDE DEF g, n, m, j
  <2>7. Stepped(g, d, j, z0 + t, n, m, BehindWidth(d))
    BY <1>2, <1>3, <1>5, <2>3, <2>4, <2>6, StepIs
  <2> QED
    BY <2>7 DEF j
<1>12. ASSUME ~met, NEW kk \in Diag(d), kk <= -k
       PROVE  Stepped(h, d, kk, h[kk], n, m, BehindWidth(d)) /\ Packed(Delta - kk, 1) \in fresh'
  <2>1. kk \in Int /\ BehindWidth(d) \in Int /\ d \in Int
    BY <1>3, DiagIs
  <2>2. CASE kk = -k
    <3>1. Stepped(g, d, kk, h[kk], n, m, BehindWidth(d))
      BY <1>3, <1>10, <1>11, <1>12, <2>1, <2>2
    <3>2. Packed(Delta - kk, 1) \in fresh'
      <4>1. Delta - kk = kr
        BY <1>3, <1>4, <2>2
      <4> QED
        BY <1>1, <4>1
    <3> HIDE DEF g, h, n, m
    <3> QED
      BY ZenonT(60), <1>3, <1>10, <2>1, <3>1, <3>2, SteppedAgrees
  <2>3. CASE kk # -k
    <3>1. kk < -k /\ h[kk] = g[kk]
      BY <1>3, <1>10, <1>12, <2>1, <2>3
    <3>2. BehindStep(kk)
      BY <1>2, <3>1
    <3>3. Stepped(g, d, kk, h[kk], n, m, BehindWidth(d)) /\ Packed(Delta - kk, 1) \in fresh
      BY <3>1, <3>2 DEF BehindStep
    <3> HIDE DEF g, h, n, m
    <3> QED
      BY <1>1, <1>3, <1>10, <2>1, <3>3, SteppedAgrees
  <2> QED
    BY <2>2, <2>3
<1>13. Row(h, d - 1, n, m, BehindWidth(d - 1))
  <2>1. Row(g, d - 1, n, m, BehindWidth(d - 1)) /\ d - 1 \in Int /\ BehindWidth(d - 1) \in Int
    BY <1>2, <1>3 DEF BehindRow
  <2> HIDE DEF g, h, n, m
  <2> QED
    BY <1>3, <1>10, <2>1, RowAgrees
<1>14. Row(AheadTo', d, n, m, AheadWidth(d))
  <2> DEFINE p == AheadTo
             q == AheadTo'
  <2>1. Row(p, d, n, m, AheadWidth(d)) /\ d \in Int /\ AheadWidth(d) \in Int
    BY <1>2, <1>3 DEF AheadRow
  <2>2. \A j \in Diag(d) : q[j] = p[j]
    BY <1>3, <1>7, DiagIs
  <2> HIDE DEF p, q, n, m
  <2>3. Row(q, d, n, m, AheadWidth(d))
    BY <1>3, <2>1, <2>2, RowAgrees
  <2> QED
    BY <2>3 DEF q
<1>15. fresh \subseteq fresh'
  BY <1>1
<1>16. CASE met
  <2>1. /\ ms' = [x |-> x, y |-> x - kr, u |-> x0, v |-> x0 - kr]
        /\ pc' = "snake" /\ d' = d
    BY <1>1, <1>16
  <2>2. z <= n /\ z + k <= m
    <3>1. CASE t > 0
      <4>1. n - z >= 0 /\ m - (z + k) >= 0 /\ z \in Nat
        BY <1>5, <1>6, <3>1
      <4> HIDE DEF z
      <4> QED
        BY <1>3, <4>1
    <3>2. CASE t = 0
      <4>1. ~Odd /\ BackwardMeets /\ kr >= -d /\ kr <= d
        BY <1>16 DEF BackwardMeets, kr
      <4>2. Near(-k, n, m, d) /\ BehindWidth(d - 1) = d - 1
        BY <1>3, <1>4, <4>1 DEF Near, BehindWidth
      <4>3. ((-k) - (n - m) + d) % 2 = 0
        <5>1. (k + d) % 2 = 0 /\ (n - m) % 2 # 1
          BY <1>2, <1>3, <4>1 DEF Diag, Odd
        <5> HIDE DEF n, m
        <5> QED
          BY <1>3, <5>1
      <4>4. Row(g, d - 1, n, m, d - 1) /\ (d = 0 => g[1] = 0)
        BY <1>2, <4>2 DEF BehindRow, BehindStart
      <4> DEFINE w == d
                 j == -k
      <4>5. w \in {d - 1, d} /\ w \in Int /\ j \in Diag(d) /\ z0 = From(g, d, j)
        BY <1>3 DEF z0
      <4>6. Row(g, d - 1, n, m, w - 1) /\ Near(j, n, m, w) /\ (j - (n - m) + w) % 2 = 0
        BY <4>2, <4>3, <4>4
      <4> HIDE DEF g, n, m, w, j
      <4>7. z0 <= n /\ z0 - j <= m
        BY <1>2, <1>3, <4>4, <4>5, <4>6, MeetIs
      <4>8. z = z0 /\ z0 - j = z0 + k
        BY <1>3, <1>a, <3>2 DEF j
      <4> HIDE DEF z
      <4> QED
        BY <4>7, <4>8
    <3> QED
      BY <1>5, <3>1, <3>2
  <2>3. SnakeIn'
    <3>1. /\ ms'.x = x /\ ms'.y = x - kr /\ ms'.u = x0 /\ ms'.v = x0 - kr /\ frame' = frame
      BY <1>8, <2>1
    <3>2. /\ x \in Nat /\ x <= x0 /\ x0 <= n
          /\ x - kr \in Nat /\ x - kr <= x0 - kr /\ x0 - kr <= m
      BY <1>3, <1>4, <1>5, <1>6, <1>a, <2>2
    <3>3. x0 \in Nat /\ x0 - kr \in Nat
      <4> HIDE DEF x, n, m
      <4> QED
        BY <1>4, <1>6, <3>2
    <3> HIDE DEF x
    <3> QED
      BY <3>1, <3>2, <3>3 DEF SnakeIn
  <2> QED
    BY <1>2, <1>8, <1>9, <2>1, <2>3 DEF DiffInv, AtDepth, AtForward, AtBackward, AtSnake
<1>17. CASE ~met /\ k > -d
  <2>1. k' = k - 2 /\ pc' = "backward" /\ d' = d
    BY <1>1, <1>17 DEF NextDiagonal
  <2>2. k - 2 \in Diag(d) /\ \A kk \in Diag(d) : kk < -(k - 2) => kk <= -k
    <3>1. k # -d /\ -k # d
      BY <1>3, <1>17
    <3>2. k - 2 \in Diag(d)
      BY <1>2, <1>3, <3>1, DiagIs
    <3>3. \A kk \in Diag(d) : kk \in Int /\ (-k < kk => -k <= kk - 2)
      BY <1>2, <1>3, DiagIs
    <3>4. \A kk \in Diag(d) : kk < -(k - 2) => kk <= -k
      BY <1>3, <3>3
    <3> QED
      BY <3>2, <3>4
  <2>3. \A kk \in Diag(d) : kk < -(k - 2) => BehindStep(kk)'
    <3> SUFFICES ASSUME NEW kk \in Diag(d), kk < -(k - 2) PROVE BehindStep(kk)'
      OBVIOUS
    <3>1. Stepped(h, d, kk, h[kk], n, m, BehindWidth(d)) /\ Packed(Delta - kk, 1) \in fresh'
      BY <1>12, <1>17, <2>2
    <3> QED
      BY <1>3, <1>8, <2>1, <3>1 DEF BehindStep, Packed
  <2>4. AheadRow(d)'
    BY <1>2, <1>3, <1>8, <1>14, <1>15, <2>1 DEF AheadRow, Packed
  <2>5. BehindRow(d - 1)'
    BY <1>2, <1>3, <1>8, <1>13, <1>15, <2>1 DEF BehindRow, Packed
  <2>6. BehindStart'
    <3> SUFFICES ASSUME d = 0 PROVE BehindTo'[1] = 0 /\ Packed(Delta - 1, 1) \in fresh'
      BY <1>8, <2>1 DEF BehindStart, Packed
    <3>1. -k # 1 /\ BehindTo[1] = 0 /\ Packed(Delta - 1, 1) \in fresh
      BY <1>2, <1>3 DEF BehindStart
    <3> QED
      BY <1>7, <1>15, <3>1
  <2> QED
    BY <1>2, <1>8, <1>9, <2>1, <2>2, <2>3, <2>4, <2>5, <2>6
       DEF DiffInv, AtDepth, AtForward, AtBackward, AtSnake
<1>18. CASE ~met /\ ~ (k > -d)
  <2>1. k' = d /\ pc' = "depth" /\ d' = d + 1
    BY <1>1, <1>18 DEF NextDiagonal
  <2>2. \A kk \in Diag(d) : kk <= -k
    BY <1>3, <1>18, DiagIs
  <2>3. \A kk \in Diag(d) : Stepped(h, d, kk, h[kk], n, m, BehindWidth(d)) /\ Packed(Delta - kk, 1) \in fresh'
    BY <1>12, <1>18, <2>2
  <2>4. Row(h, d, n, m, BehindWidth(d))
    <3>1. \A kk \in Diag(d - 1) : h[kk] \in Nat
      BY <1>13 DEF Row
    <3>2. BehindWidth(d) \in Int
      BY <1>3
    <3> HIDE DEF h, n, m
    <3> QED
      BY <1>2, <1>3, <2>3, <3>1, <3>2, RowIs
  <2>5. d' - 1 = d /\ d' \in Nat /\ d' # 0
    BY <1>2, <2>1
  <2>6. \A e \in Int : e = d => AheadRow(e)' /\ BehindRow(e)'
    <3> SUFFICES ASSUME NEW e \in Int, e = d PROVE AheadRow(e)' /\ BehindRow(e)'
      OBVIOUS
    <3>1. Row(AheadTo', e, frame'.n, frame'.m, AheadWidth(e)')
      BY <1>3, <1>8, <1>14
    <3>2. Row(BehindTo', e, frame'.n, frame'.m, BehindWidth(e)')
      BY <1>3, <1>8, <2>4
    <3>3. \A kk \in Diag(e) : Packed(kk, 0) \in fresh' /\ Packed(Delta' - kk, 1) \in fresh'
      BY <1>2, <1>8, <1>15, <2>3 DEF AheadRow
    <3> QED
      BY <3>1, <3>2, <3>3 DEF AheadRow, BehindRow, Packed
  <2>7. AheadStart' /\ BehindStart'
    BY <2>5 DEF AheadStart, BehindStart
  <2>8. AtDepth'
    <3>1. d' - 1 \in Int
      BY <2>5
    <3> QED
      BY <2>5, <2>6, <2>7, <3>1 DEF AtDepth
  <2> QED
    BY <1>8, <1>9, <2>1, <2>5, <2>8 DEF DiffInv, AtForward, AtBackward, AtSnake
<1> QED
  BY <1>16, <1>17, <1>18

LEMMA DiffInit == Init => DiffInv
<1> SUFFICES ASSUME Init PROVE DiffInv
  OBVIOUS
<1>1. \A s \in BoundedSeq(Symbols, MaxLen) : s \in Seq(Symbols) /\ Len(s) <= MaxLen
  <2> SUFFICES ASSUME NEW s \in BoundedSeq(Symbols, MaxLen)
               PROVE  s \in Seq(Symbols) /\ Len(s) <= MaxLen
    OBVIOUS
  <2>1. PICK n \in 0 .. MaxLen : s \in [1 .. n -> Symbols]
    BY DEF BoundedSeq, SeqOf
  <2>2. n \in Nat /\ n <= MaxLen
    BY DiffAssumption
  <2>3. s \in Seq(Symbols) /\ Len(s) = n
    BY <2>1, <2>2
  <2> QED
    BY <2>2, <2>3
<1>2. /\ a \in Seq(Symbols) /\ b \in Seq(Symbols) /\ Len(a) <= MaxLen /\ Len(b) <= MaxLen
      /\ dmax \in Nat
  BY <1>1, DiffAssumption DEF Init
<1>3. Len(a) \in Nat /\ Len(b) \in Nat
  BY <1>2, LenProperties
<1>4. frame \in Box /\ work \in Seq(Box)
  <2>1. frame = [call |-> "ses", aoff |-> 0, n |-> 0, boff |-> 0, m |-> 0] /\ work = <<>>
    BY DEF Init, Ses
  <2>2. frame \in Box
    BY <1>3, <2>1 DEF Box, InBox
  <2> QED
    BY <2>1, <2>2
<1>5. pc = "prefix" /\ d = 0 /\ buf = <<>>
  BY DEF Init
<1> QED
  BY <1>2, <1>4, <1>5 DEF DiffInv, Tasked, AtDepth, AtForward, AtBackward, AtSnake

(* A step that leaves the search alone and makes no new calls. *)
LEMMA RestKeeps ==
  ASSUME DiffInv, UNCHANGED <<input, frame, buf, d>>,
         work' = work \/ (work # <<>> /\ work' = Tail(work)), pc' \in {"ses", "done"}
  PROVE  DiffInv'
<1>1. work \in Seq(Box) /\ Tasked
  BY DEF DiffInv, Tasked
<1>2. work' \in Seq(Box)
  <2>1. work # <<>> => Tail(work) \in Seq(Box)
    BY <1>1, HeadTailProperties
  <2> QED
    BY <1>1, <2>1
<1>3. Box' = Box
  BY DEF Box, InBox, input
<1> QED
  BY <1>1, <1>2, <1>3 DEF DiffInv, Tasked, input, AtDepth, AtForward, AtBackward, AtSnake

LEMMA PrefixKeeps ==
  ASSUME DiffInv, Prefix
  PROVE  DiffInv'
<1> DEFINE whole == Ses(0, Len(a), 0, Len(b))
           x == Ahead(whole, 0, 0)
           rest == Ses(x, Len(a) - x, x, Len(b) - x)
<1>1. /\ Tasked /\ Len(a) \in Nat /\ Len(b) \in Nat
  BY LenProperties DEF DiffInv, Tasked
<1>2. whole \in Box /\ whole.n = Len(a) /\ whole.m = Len(b)
  BY <1>1 DEF Ses, Box, InBox
<1>3. x \in Nat /\ (x > 0 => x <= Len(a) /\ x <= Len(b))
  <2> HIDE DEF whole
  <2>1. 0 \in Nat
    OBVIOUS
  <2>2. /\ Ahead(whole, 0, 0) \in Nat
        /\ Ahead(whole, 0, 0) > 0 => /\ 0 + Ahead(whole, 0, 0) <= whole.n
                                     /\ 0 + Ahead(whole, 0, 0) <= whole.m
    BY <1>1, <1>2, <2>1, AheadIs
  <2> QED
    BY <1>2, <2>2
<1>4. pc' = "ses" /\ work' = <<rest>> /\ UNCHANGED <<input, search, ret>>
  BY DEF Prefix
<1> HIDE DEF x
<1>5. rest \in Box
  BY <1>1, <1>3 DEF Ses, Box, InBox
<1> HIDE DEF rest
<1>6. work' \in Seq(Box)
  BY <1>4, <1>5
<1>7. Box' = Box
  BY <1>4 DEF Box, InBox, input
<1> QED
  BY <1>1, <1>4, <1>6, <1>7
     DEF DiffInv, Tasked, input, search, AtDepth, AtForward, AtBackward, AtSnake

(* The first two points stored are what the searches of no edits read. *)
LEMMA SearchStartKeeps ==
  ASSUME DiffInv, SearchStart
  PROVE  DiffInv'
<1> DEFINE f == Head(work)
           last == f.n - f.m - 1
           mid == Store(buf, Packed(1, 0), 0)
<1>1. /\ work # <<>> /\ pc' = "depth" /\ frame' = f /\ work' = Tail(work) /\ d' = 0
      /\ buf' = Store(mid, Packed(last, 1), f.n)
      /\ fresh' = {Packed(1, 0), Packed(last, 1)} /\ UNCHANGED input
  BY DEF SearchStart
<1>2. Tasked /\ \A j \in DOMAIN buf : buf[j] \in Int
  BY DEF DiffInv
<1>3. f \in Box /\ work' \in Seq(Box)
  BY <1>1, <1>2, HeadTailProperties DEF Tasked
<1>4. f.n \in Nat /\ f.m \in Nat /\ last \in Int
  BY <1>3 DEF Box
<1>5. Box' = Box
  BY <1>1 DEF Box, InBox, input
<1>6. Tasked'
  BY <1>1, <1>2, <1>3, <1>5 DEF Tasked, input
<1>7. \A j \in DOMAIN buf' : buf'[j] \in Int
  <2>1. \A j \in DOMAIN mid : mid[j] \in Int
    BY <1>2, StoreIsInt
  <2>2. f.n \in Int
    BY <1>4
  <2> HIDE DEF mid, last, f
  <2> QED
    BY <1>1, <2>1, <2>2, StoreIsInt
<1>8. AheadTo'[1] = 0 /\ BehindTo'[1] = 0
  <2> DEFINE i == Packed(1, 0)
             j == Packed(last, 1)
  <2>1. i # j
    <3> HIDE DEF last
    <3> QED
      BY <1>4, PackedInjective
  <2>2. i \in DOMAIN buf' /\ j \in DOMAIN buf' /\ buf'[i] = 0 /\ buf'[j] = f.n
    <3>1. /\ buf' = [y \in DOMAIN mid \cup {j} |-> IF y = j THEN f.n ELSE mid[y]]
          /\ mid = [y \in DOMAIN buf \cup {i} |-> IF y = i THEN 0 ELSE buf[y]]
      BY <1>1 DEF Store
    <3> HIDE DEF i, j, f, mid
    <3> QED
      BY <2>1, <3>1
  <2>3. FV(1)' = 0 /\ \A kk : kk = last => RV(kk)' = f.n
    <3> HIDE DEF last, f
    <3> QED
      BY <2>2 DEF FV, RV, Load, Packed
  <2>4. Delta' - 1 = last
    BY <1>1 DEF Delta
  <2>5. AheadTo'[1] = FV(1)' /\ BehindTo'[1] = frame'.n - RV(Delta - 1)'
    BY DEF AheadTo, BehindTo
  <2>6. RV(Delta - 1)' = f.n
    BY <2>3, <2>4 DEF RV
  <2> QED
    BY <1>1, <1>4, <2>3, <2>5, <2>6
<1>9. AheadStart' /\ BehindStart'
  <2>1. Packed(Delta - 1, 1)' = Packed(last, 1)
    BY <1>1 DEF Delta, Packed
  <2> QED
    BY <1>1, <1>8, <2>1 DEF AheadStart, BehindStart, Packed
<1>10. \A e \in Int : e = -1 => AheadRow(e)' /\ BehindRow(e)'
  BY DiagIs DEF AheadRow, BehindRow, Row
<1>11. d' - 1 = -1 /\ d' \in Nat
  BY <1>1
<1>12. AtDepth'
  BY <1>9, <1>10, <1>11 DEF AtDepth
<1> QED
  BY <1>1, <1>6, <1>7, <1>11, <1>12 DEF DiffInv, AtForward, AtBackward, AtSnake

LEMMA DepthKeeps ==
  ASSUME DiffInv, Depth
  PROVE  DiffInv'
<1>1. /\ pc = "depth" /\ UNCHANGED <<input, work, frame, buf, fresh, d, ms>>
      /\ \/ pc' = "error"
         \/ dd' = Limit /\ pc' = "snake"
         \/ k' = d /\ pc' = "forward"
  BY DEF Depth
<1>2. d \in Nat /\ AheadRow(d - 1) /\ BehindRow(d - 1) /\ AheadStart /\ BehindStart
  BY <1>1 DEF DiffInv, AtDepth
<1>3. Tasked' /\ Delta' = Delta
  BY <1>1 DEF DiffInv, Tasked, Box, InBox, input, Delta
<1>4. CASE pc' = "error"
  BY <1>1, <1>3, <1>4 DEF DiffInv, AtDepth, AtForward, AtBackward, AtSnake
<1>5. CASE dd' = Limit /\ pc' = "snake"
  <2>1. Limit' = Limit /\ Limit \in Nat /\ ~ (Limit < Limit)
    BY <1>1 DEF DiffInv, Tasked, Limit, INT_MAX, input
  <2> QED
    BY <1>1, <1>3, <1>5, <2>1 DEF DiffInv, AtDepth, AtForward, AtBackward, AtSnake
<1>6. CASE k' = d /\ pc' = "forward"
  <2>1. /\ d \in Diag(d) /\ \A kk \in Diag(d) : ~ (kk > d)
    BY <1>2, DiagIs
  <2>2. AheadRow(d - 1)' /\ BehindRow(d - 1)' /\ AheadStart' /\ BehindStart'
    BY <1>1, <1>2 DEF AheadRow, BehindRow, AheadStart, BehindStart, AheadTo, BehindTo,
                      FV, RV, Load, Packed, Delta, AheadWidth, BehindWidth, Odd
  <2>3. AtForward'
    BY <1>1, <1>6, <2>1, <2>2 DEF AtForward
  <2> QED
    BY <1>1, <1>3, <1>6, <2>3 DEF DiffInv, AtDepth, AtBackward, AtSnake
<1> QED
  BY <1>1, <1>4, <1>5, <1>6

(* The snake splits the box in two boxes, and the match between them. *)
LEMMA HalvesAre ==
  ASSUME Tasked, SnakeIn
  PROVE  LET before == Ses(frame.aoff, ms.x, frame.boff, ms.y)
             between == Match(frame.aoff + ms.x, ms.u - ms.x)
             after == Ses(frame.aoff + ms.u, frame.n - ms.u, frame.boff + ms.v, frame.m - ms.v)
         IN  /\ Halves(frame) = <<before, between, after>>
             /\ before \in Box /\ between \in Box /\ after \in Box
<1>2. frame \in Box /\ work \in Seq(Box)
  BY DEF Tasked
<1>3. /\ frame.aoff \in Nat /\ frame.boff \in Nat /\ frame.n \in Nat /\ frame.m \in Nat
      /\ frame.aoff + frame.n <= Len(a) /\ frame.boff + frame.m <= Len(b)
      /\ Len(a) \in Nat /\ Len(b) \in Nat
  BY <1>2, LenProperties DEF Tasked, Box, InBox
<1> DEFINE x == ms.x
           y == ms.y
           u == ms.u
           v == ms.v
           before == Ses(frame.aoff, x, frame.boff, y)
           between == Match(frame.aoff + x, u - x)
           after == Ses(frame.aoff + u, frame.n - u, frame.boff + v, frame.m - v)
<1>a. /\ x \in Nat /\ u \in Nat /\ x <= u /\ u <= frame.n
      /\ y \in Nat /\ v \in Nat /\ y <= v /\ v <= frame.m
  BY DEF SnakeIn
<1>b. /\ before = Ses(frame.aoff, x, frame.boff, y)
      /\ between = Match(frame.aoff + x, u - x)
      /\ after = Ses(frame.aoff + u, frame.n - u, frame.boff + v, frame.m - v)
  OBVIOUS
<1> HIDE DEF x, y, u, v, before, between, after
<1>c. ASSUME NEW c \in {"ses", "match"}, NEW p \in Nat, NEW i \in Nat, NEW q \in Nat,
             NEW j \in Nat, p + i <= Len(a), q + j <= Len(b)
      PROVE  [call |-> c, aoff |-> p, n |-> i, boff |-> q, m |-> j] \in Box
  BY <1>c DEF Box, InBox
<1>4. before \in Box
  <2>1. x \in Nat /\ y \in Nat /\ frame.aoff + x <= Len(a) /\ frame.boff + y <= Len(b)
    BY <1>3, <1>a
  <2> QED
    BY <1>3, <1>b, <1>c, <2>1 DEF Ses
<1>5. between \in Box
  <2>1. /\ frame.aoff + x \in Nat /\ u - x \in Nat
        /\ (frame.aoff + x) + (u - x) <= Len(a) /\ 0 + 0 <= Len(b) /\ 0 \in Nat
    BY <1>3, <1>a
  <2> QED
    BY <1>b, <1>c, <2>1 DEF Match
<1>6. after \in Box
  <2>1. /\ frame.aoff + u \in Nat /\ frame.n - u \in Nat
        /\ (frame.aoff + u) + (frame.n - u) = frame.aoff + frame.n
    BY <1>3, <1>a
  <2>2. /\ frame.boff + v \in Nat /\ frame.m - v \in Nat
        /\ (frame.boff + v) + (frame.m - v) = frame.boff + frame.m
    BY <1>3, <1>a
  <2> QED
    BY <1>3, <1>b, <1>c, <2>1, <2>2 DEF Ses
<1>7. Halves(frame) = <<before, between, after>>
  BY <1>b DEF Halves, x, y, u, v
<1> QED
  BY <1>4, <1>5, <1>6, <1>7 DEF before, between, after, x, y, u, v

LEMMA SnakeSplitKeeps ==
  ASSUME DiffInv, SnakeSplit
  PROVE  DiffInv'
<1>1. /\ pc' = "ses" /\ work' = Halves(frame) \o work /\ UNCHANGED <<input, search>>
      /\ SnakeIn
  BY DEF SnakeSplit, DiffInv, AtSnake
<1>2. Tasked /\ work \in Seq(Box)
  BY DEF DiffInv, Tasked
<1>3. Halves(frame) \in Seq(Box)
  <2>1. PICK t1 \in Box, t2 \in Box, t3 \in Box : Halves(frame) = <<t1, t2, t3>>
    BY <1>1, <1>2, HalvesAre
  <2> QED
    BY <2>1
<1>4. work' \in Seq(Box)
  BY <1>1, <1>2, <1>3, ConcatProperties
<1>5. Box' = Box
  BY <1>1 DEF Box, InBox, input
<1> QED
  BY <1>1, <1>2, <1>4, <1>5
     DEF DiffInv, Tasked, input, search, AtDepth, AtForward, AtBackward, AtSnake

LEMMA DiffStep == DiffInv /\ [Next]_vars => DiffInv'
<1> SUFFICES ASSUME DiffInv, [Next]_vars PROVE DiffInv'
  OBVIOUS
<1>1. CASE UNCHANGED vars
  BY <1>1 DEF vars, input, search, DiffInv, Tasked, Box, InBox,
     AtDepth, AtForward, AtBackward, AtSnake, AheadRow, BehindRow, AheadStart, BehindStart,
     AheadStep, BehindStep, AheadTo, BehindTo, FV, RV, Load, Packed, Delta,
     AheadWidth, BehindWidth, Odd, SnakeIn, Limit
<1>2. CASE Prefix
  BY <1>2, PrefixKeeps
<1>3. CASE SesEmpty
  BY <1>3, RestKeeps DEF SesEmpty, search
<1>4. CASE MiddleMatch
  BY <1>4, RestKeeps DEF MiddleMatch, search
<1>5. CASE Finish
  BY <1>5, RestKeeps DEF Finish, search
<1>6. CASE SearchStart
  BY <1>6, SearchStartKeeps
<1>7. CASE Depth
  BY <1>7, DepthKeeps
<1>8. CASE Forward
  BY <1>8, ForwardKeeps
<1>9. CASE Backward
  BY <1>9, BackwardKeeps
<1>10. CASE SnakeReturn
  BY <1>10, RestKeeps DEF SnakeReturn, search
<1>11. CASE SnakeSplit
  BY <1>11, SnakeSplitKeeps
<1>12. CASE SnakeBase
  BY <1>12, RestKeeps DEF SnakeBase, search
<1> QED
  BY <1>1, <1>2, <1>3, <1>4, <1>5, <1>6, <1>7, <1>8, <1>9, <1>10, <1>11, <1>12 DEF Next

LEMMA DiffSafe == DiffInv => SearchSafe
<1> SUFFICES ASSUME DiffInv PROVE SearchSafe
  OBVIOUS
<1>1. InBoxes
  <2>1. work \in Seq(Box) /\ frame \in Box
    BY DEF DiffInv, Tasked
  <2>2. \A i \in DOMAIN work : work[i] \in Box
    BY <2>1
  <2>3. \A t \in Box : InBox(t)
    BY DEF Box
  <2> QED
    BY <2>1, <2>2, <2>3 DEF InBoxes, Tasks
<1>2. StartsInBox
  <2>1. pc = "forward" => ForwardX >= 0 /\ ForwardX - k >= 0
    BY ForwardStarts
  <2> QED
    BY <2>1, BackwardStarts DEF StartsInBox
<1>3. ReadsFresh
  <2>1. pc \notin {"forward", "backward"} => Reads = {}
    BY DEF Reads
  <2> QED
    BY <2>1, ForwardStarts, BackwardStarts DEF ReadsFresh
<1> QED
  BY <1>1, <1>2, <1>3 DEF SearchSafe

(***************************************************************************)
(* The two parts a call compares.                                          *)
(***************************************************************************)
PartA(f) == Slice(a, f.aoff, f.aoff + f.n)
PartB(f) == Slice(b, f.boff, f.boff + f.m)

LEMMA PartsAre ==
  ASSUME Tasked, NEW f \in Box
  PROVE  /\ PartA(f) \in Seq(Symbols) /\ Len(PartA(f)) = f.n /\ f.n \in Nat /\ f.aoff \in Nat
         /\ PartB(f) \in Seq(Symbols) /\ Len(PartB(f)) = f.m /\ f.m \in Nat /\ f.boff \in Nat
         /\ \A i \in 1 .. f.n : PartA(f)[i] = a[f.aoff + i]
         /\ \A i \in 1 .. f.m : PartB(f)[i] = b[f.boff + i]
         /\ Reverse(PartA(f)) \in Seq(Symbols) /\ Len(Reverse(PartA(f))) = f.n
         /\ Reverse(PartB(f)) \in Seq(Symbols) /\ Len(Reverse(PartB(f))) = f.m
         /\ \A i \in 1 .. f.n : Reverse(PartA(f))[i] = a[f.aoff + (f.n - i + 1)]
         /\ \A i \in 1 .. f.m : Reverse(PartB(f))[i] = b[f.boff + (f.m - i + 1)]
<1> DEFINE p == f.aoff
           n == f.n
           q == f.boff
           m == f.m
           pn == p + n
           qm == q + m
           A == PartA(f)
           B == PartB(f)
<1>1. /\ p \in Nat /\ n \in Nat /\ pn <= Len(a) /\ q \in Nat /\ m \in Nat /\ qm <= Len(b)
      /\ a \in Seq(Symbols) /\ b \in Seq(Symbols) /\ Len(a) \in Nat /\ Len(b) \in Nat
  BY LenProperties DEF Box, InBox, Tasked
<1>2. A = Slice(a, p, pn) /\ B = Slice(b, q, qm) /\ pn - p = n /\ qm - q = m
  BY <1>1 DEF PartA, PartB
<1>3. /\ p \in 0 .. Len(a) /\ pn \in 0 .. Len(a) /\ p <= pn
      /\ q \in 0 .. Len(b) /\ qm \in 0 .. Len(b) /\ q <= qm
  BY <1>1
<1>4. A \in Seq(Symbols) /\ Len(A) = n /\ \A i \in 1 .. n : A[i] = a[p + i]
  <2> HIDE DEF p, pn, n, A
  <2> QED
    BY ZenonT(60), <1>1, <1>2, <1>3, PartIs
<1>5. B \in Seq(Symbols) /\ Len(B) = m /\ \A i \in 1 .. m : B[i] = b[q + i]
  <2> HIDE DEF q, qm, m, B
  <2> QED
    BY ZenonT(60), <1>1, <1>2, <1>3, PartIs
<1> HIDE DEF A, B, n, m, p, q
<1>6. ASSUME NEW i \in 1 .. n PROVE Reverse(A)[i] = a[p + (n - i + 1)]
  <2>1. n - i + 1 \in 1 .. n
    BY <1>1
  <2>2. Reverse(A)[i] = A[n - i + 1]
    BY <1>4, ReverseIs
  <2> QED
    BY <1>4, <2>1, <2>2
<1>7. ASSUME NEW i \in 1 .. m PROVE Reverse(B)[i] = b[q + (m - i + 1)]
  <2>1. m - i + 1 \in 1 .. m
    BY <1>1
  <2>2. Reverse(B)[i] = B[m - i + 1]
    BY <1>5, ReverseIs
  <2> QED
    BY <1>5, <2>1, <2>2
<1>8. /\ Reverse(A) \in Seq(Symbols) /\ Len(Reverse(A)) = n
      /\ Reverse(B) \in Seq(Symbols) /\ Len(Reverse(B)) = m
  BY <1>4, <1>5, ReverseIs
<1> QED
  BY <1>1, <1>4, <1>5, <1>6, <1>7, <1>8 DEF A, B, n, m, p, q

(* A slide goes exactly as far as the elements match. *)
LEMMA AheadSlides ==
  ASSUME Tasked, NEW f \in Box, NEW x \in Nat, NEW y \in Nat
  PROVE  /\ Slides(PartA(f), PartB(f), x, y, Ahead(f, x, y))
         /\ ~MatchesAt(PartA(f), PartB(f), x + Ahead(f, x, y), y + Ahead(f, x, y))
<1> DEFINE C(s) == /\ x + s < f.n /\ y + s < f.m
                   /\ a[f.aoff + x + s + 1] = b[f.boff + y + s + 1]
           t == Ahead(f, x, y)
<1>1. t \in Nat /\ (\A s \in 0 .. t - 1 : C(s)) /\ ~C(t)
  BY AheadIs
<1>2. ASSUME NEW s \in Nat
      PROVE  C(s) <=> MatchesAt(PartA(f), PartB(f), x + s, y + s)
  <2>1. /\ PartA(f) \in Seq(Symbols) /\ Len(PartA(f)) = f.n /\ f.n \in Nat /\ f.aoff \in Nat
        /\ PartB(f) \in Seq(Symbols) /\ Len(PartB(f)) = f.m /\ f.m \in Nat /\ f.boff \in Nat
        /\ \A i \in 1 .. f.n : PartA(f)[i] = a[f.aoff + i]
        /\ \A i \in 1 .. f.m : PartB(f)[i] = b[f.boff + i]
    BY PartsAre
  <2>2. x + s < f.n => PartA(f)[(x + s) + 1] = a[f.aoff + x + s + 1]
    <3> SUFFICES ASSUME x + s < f.n PROVE PartA(f)[(x + s) + 1] = a[f.aoff + x + s + 1]
      OBVIOUS
    <3>1. (x + s) + 1 \in 1 .. f.n /\ f.aoff + ((x + s) + 1) = f.aoff + x + s + 1
      BY <2>1
    <3> QED
      BY <2>1, <3>1
  <2>3. y + s < f.m => PartB(f)[(y + s) + 1] = b[f.boff + y + s + 1]
    <3> SUFFICES ASSUME y + s < f.m PROVE PartB(f)[(y + s) + 1] = b[f.boff + y + s + 1]
      OBVIOUS
    <3>1. (y + s) + 1 \in 1 .. f.m /\ f.boff + ((y + s) + 1) = f.boff + y + s + 1
      BY <2>1
    <3> QED
      BY <2>1, <3>1
  <2> QED
    BY <2>1, <2>2, <2>3 DEF MatchesAt
<1> HIDE DEF t, C
<1>3. \A s \in 0 .. t - 1 : s \in Nat
  BY <1>1
<1>4. /\ Slides(PartA(f), PartB(f), x, y, t)
      /\ ~MatchesAt(PartA(f), PartB(f), x + t, y + t)
  BY <1>1, <1>2, <1>3 DEF Slides
<1> QED
  BY <1>4 DEF t

LEMMA BehindSlides ==
  ASSUME Tasked, NEW f \in Box, NEW z \in Nat, NEW w \in Nat
  PROVE  LET t == Behind(f, f.n - z, f.m - w)
         IN  /\ Slides(Reverse(PartA(f)), Reverse(PartB(f)), z, w, t)
             /\ ~MatchesAt(Reverse(PartA(f)), Reverse(PartB(f)), z + t, w + t)
<1> DEFINE x == f.n - z
           y == f.m - w
           C(s) == /\ x - s > 0 /\ y - s > 0
                   /\ a[f.aoff + x - s] = b[f.boff + y - s]
           t == Behind(f, x, y)
           RA == Reverse(PartA(f))
           RB == Reverse(PartB(f))
<1>a. /\ RA \in Seq(Symbols) /\ Len(RA) = f.n /\ f.n \in Nat /\ f.aoff \in Nat
      /\ RB \in Seq(Symbols) /\ Len(RB) = f.m /\ f.m \in Nat /\ f.boff \in Nat
      /\ \A i \in 1 .. f.n : RA[i] = a[f.aoff + (f.n - i + 1)]
      /\ \A i \in 1 .. f.m : RB[i] = b[f.boff + (f.m - i + 1)]
  BY PartsAre
<1>b. x \in Int /\ y \in Int /\ x <= f.n
  BY <1>a
<1>1. t \in Nat /\ (\A s \in 0 .. t - 1 : C(s)) /\ ~C(t)
  <2> HIDE DEF x, y
  <2> QED
    BY <1>b, BehindIs
<1> HIDE DEF t, RA, RB
<1>2. ASSUME NEW s \in Nat
      PROVE  C(s) <=> MatchesAt(RA, RB, z + s, w + s)
  <2>1. (x - s > 0 <=> z + s < f.n) /\ (y - s > 0 <=> w + s < f.m)
    BY <1>a
  <2>2. z + s < f.n => RA[(z + s) + 1] = a[f.aoff + x - s]
    <3> SUFFICES ASSUME z + s < f.n PROVE RA[(z + s) + 1] = a[f.aoff + x - s]
      OBVIOUS
    <3>1. /\ (z + s) + 1 \in 1 .. f.n
          /\ f.aoff + (f.n - ((z + s) + 1) + 1) = f.aoff + x - s
      BY <1>a
    <3> QED
      BY <1>a, <3>1
  <2>3. w + s < f.m => RB[(w + s) + 1] = b[f.boff + y - s]
    <3> SUFFICES ASSUME w + s < f.m PROVE RB[(w + s) + 1] = b[f.boff + y - s]
      OBVIOUS
    <3>1. /\ (w + s) + 1 \in 1 .. f.m
          /\ f.boff + (f.m - ((w + s) + 1) + 1) = f.boff + y - s
      BY <1>a
    <3> QED
      BY <1>a, <3>1
  <2> HIDE DEF x, y
  <2> QED
    BY <1>a, <2>1, <2>2, <2>3 DEF MatchesAt
<1> HIDE DEF C
<1>3. \A s \in 0 .. t - 1 : s \in Nat
  BY <1>1
<1>4. /\ Slides(RA, RB, z, w, t)
      /\ ~MatchesAt(RA, RB, z + t, w + t)
  BY <1>1, <1>2, <1>3 DEF Slides
<1> QED
  BY <1>4 DEF t, RA, RB

LEMMA SlidesEqual ==
  ASSUME NEW E, NEW s \in Seq(E), NEW t \in Seq(E), NEW x \in Nat, NEW y \in Nat, NEW c \in Nat,
         x + c <= Len(s), y + c <= Len(t)
  PROVE  Slides(s, t, x, y, c) => Slice(s, x, x + c) = Slice(t, y, y + c)
<1> SUFFICES ASSUME Slides(s, t, x, y, c)
             PROVE  Slice(s, x, x + c) = Slice(t, y, y + c)
  OBVIOUS
<1> DEFINE u == x + c
           v == y + c
           p == Slice(s, x, u)
           q == Slice(t, y, v)
<1>1. /\ x \in 0 .. Len(s) /\ u \in 0 .. Len(s) /\ x <= u /\ u - x = c
      /\ y \in 0 .. Len(t) /\ v \in 0 .. Len(t) /\ y <= v /\ v - y = c
  BY LenProperties
<1>2. \A i \in 1 .. c : s[x + i] = t[y + i]
  <2> SUFFICES ASSUME NEW i \in 1 .. c PROVE s[x + i] = t[y + i]
    OBVIOUS
  <2>1. i - 1 \in 0 .. c - 1 /\ (x + (i - 1)) + 1 = x + i /\ (y + (i - 1)) + 1 = y + i
    OBVIOUS
  <2>2. MatchesAt(s, t, x + (i - 1), y + (i - 1))
    BY <2>1 DEF Slides
  <2> QED
    BY <2>1, <2>2 DEF MatchesAt
<1> HIDE DEF u, v
<1>3. p \in Seq(E) /\ Len(p) = c /\ \A i \in 1 .. c : p[i] = s[x + i]
  <2>1. /\ p \in Seq(E) /\ Len(p) = u - x
        /\ \A i \in 1 .. u - x : p[i] = s[x + i]
    BY <1>1, PartIs, Zenon
  <2> HIDE DEF p
  <2> QED
    BY <1>1, <2>1
<1>4. q \in Seq(E) /\ Len(q) = c /\ \A i \in 1 .. c : q[i] = t[y + i]
  <2>1. /\ q \in Seq(E) /\ Len(q) = v - y
        /\ \A i \in 1 .. v - y : q[i] = t[y + i]
    BY <1>1, PartIs, Zenon
  <2> HIDE DEF q
  <2> QED
    BY <1>1, <2>1
<1> HIDE DEF p, q
<1>5. p = q
  BY <1>2, <1>3, <1>4, SeqEqual
<1> QED
  BY <1>5 DEF p, q, u, v

LEMMA SlidesEqualBack ==
  ASSUME NEW E, NEW s \in Seq(E), NEW t \in Seq(E), NEW z \in Nat, NEW w \in Nat, NEW c \in Nat,
         z + c <= Len(s), w + c <= Len(t)
  PROVE  Slides(Reverse(s), Reverse(t), z, w, c) =>
           Slice(s, Len(s) - (z + c), Len(s) - z) = Slice(t, Len(t) - (w + c), Len(t) - w)
<1> SUFFICES ASSUME Slides(Reverse(s), Reverse(t), z, w, c)
             PROVE  Slice(s, Len(s) - (z + c), Len(s) - z) = Slice(t, Len(t) - (w + c), Len(t) - w)
  OBVIOUS
<1> DEFINE n == Len(s)
           m == Len(t)
           x == n - (z + c)
           u == n - z
           y == m - (w + c)
           v == m - w
           p == Slice(s, x, u)
           q == Slice(t, y, v)
<1>1. /\ n \in Nat /\ m \in Nat
      /\ x \in 0 .. n /\ u \in 0 .. n /\ x <= u /\ u - x = c /\ u = x + c
      /\ y \in 0 .. m /\ v \in 0 .. m /\ y <= v /\ v - y = c
  BY LenProperties
<1>2. \A i \in 1 .. c : s[x + i] = t[y + i]
  <2> SUFFICES ASSUME NEW i \in 1 .. c PROVE s[x + i] = t[y + i]
    OBVIOUS
  <2> DEFINE h == z + (c - i)
             j == w + (c - i)
  <2>1. c - i \in 0 .. c - 1 /\ h + 1 \in 1 .. n /\ j + 1 \in 1 .. m
        /\ n - (h + 1) + 1 = x + i /\ m - (j + 1) + 1 = y + i
    BY <1>1
  <2>2. MatchesAt(Reverse(s), Reverse(t), h, j)
    BY <2>1 DEF Slides
  <2> HIDE DEF h, j, n, m, x, y
  <2>3. Reverse(s)[h + 1] = s[x + i] /\ Reverse(t)[j + 1] = t[y + i]
    <3>1. \A e \in 1 .. n : Reverse(s)[e] = s[n - e + 1]
      BY ReverseIs DEF n
    <3>2. \A e \in 1 .. m : Reverse(t)[e] = t[m - e + 1]
      BY ReverseIs DEF m
    <3> QED
      BY <2>1, <3>1, <3>2
  <2> QED
    BY <2>2, <2>3 DEF MatchesAt
<1> HIDE DEF u, v, x, y
<1>3. p \in Seq(E) /\ Len(p) = c /\ \A i \in 1 .. c : p[i] = s[x + i]
  <2>1. /\ p \in Seq(E) /\ Len(p) = u - x
        /\ \A i \in 1 .. u - x : p[i] = s[x + i]
    BY <1>1, PartIs, Zenon
  <2> HIDE DEF p
  <2> QED
    BY <1>1, <2>1
<1>4. q \in Seq(E) /\ Len(q) = c /\ \A i \in 1 .. c : q[i] = t[y + i]
  <2>1. /\ q \in Seq(E) /\ Len(q) = v - y
        /\ \A i \in 1 .. v - y : q[i] = t[y + i]
    BY <1>1, PartIs, Zenon
  <2> HIDE DEF q
  <2> QED
    BY <1>1, <2>1
<1> HIDE DEF p, q
<1>5. p = q
  BY <1>2, <1>3, <1>4, SeqEqual
<1> QED
  BY <1>5 DEF p, q, u, v, x, y

(***************************************************************************)
(* What a search has found out about the distance of its two parts.        *)
(***************************************************************************)
CallDistance(f) == ScriptDistance(PartA(f), PartB(f))
Distance == ScriptDistance(PartA(frame), PartB(frame))

AheadReached(e, kk) == Reached(PartA(frame), PartB(frame), e, kk, AheadTo[kk])
BehindReached(e, kk) ==
  Reached(Reverse(PartA(frame)), Reverse(PartB(frame)), e, kk, BehindTo[kk])
Apart(kk) == AheadTo[kk] + BehindTo[Delta - kk] < frame.n

(* The snake lies on a shortest path, halves its edits, and what it spans  *)
(* is the same in both parts.                                              *)
SnakeCuts ==
  /\ Dist(PartA(frame), PartB(frame), ms.x, ms.y) + Back(PartA(frame), PartB(frame), ms.u, ms.v) = dd
  /\ \/ Dist(PartA(frame), PartB(frame), ms.x, ms.y) = Back(PartA(frame), PartB(frame), ms.u, ms.v)
     \/ Dist(PartA(frame), PartB(frame), ms.x, ms.y) = Back(PartA(frame), PartB(frame), ms.u, ms.v) + 1
  /\ Slice(PartA(frame), ms.x, ms.u) = Slice(PartB(frame), ms.y, ms.v)

FoundDepth ==
  pc = "depth" => /\ \A kk \in Diag(d - 1) : AheadReached(d - 1, kk) /\ BehindReached(d - 1, kk)
                  /\ Distance >= 2 * d - 1
FoundForward ==
  pc = "forward" =>
    /\ \A kk \in Diag(d - 1) : AheadReached(d - 1, kk) /\ BehindReached(d - 1, kk)
    /\ Distance >= 2 * d - 1 /\ 2 * d - 1 < Limit
    /\ \A kk \in Diag(d) : kk > k => /\ AheadReached(d, kk)
                                     /\ Delta - kk \in Diag(d - 1) => Apart(kk)
FoundBackward ==
  pc = "backward" =>
    /\ \A kk \in Diag(d) : AheadReached(d, kk)
    /\ \A kk \in Diag(d - 1) : BehindReached(d - 1, kk)
    /\ Distance >= 2 * d
    /\ \A kk \in Diag(d) : kk < -k => /\ BehindReached(d, kk)
                                      /\ Delta - kk \in Diag(d) => Apart(Delta - kk)
FoundSnake ==
  pc = "snake" => /\ dd \in Nat
                  /\ IF dd < Limit THEN Distance = dd /\ SnakeCuts ELSE Distance >= Limit

Found == FoundDepth /\ FoundForward /\ FoundBackward /\ FoundSnake

(* The point a diagonal of the forward search ends on is the furthest one  *)
(* that d edits reach, and its slide costs nothing.                        *)
LEMMA ForwardReaches ==
  ASSUME DiffInv, Found, Forward
  PROVE  LET A == PartA(frame)
             B == PartB(frame)
             x0 == ForwardX
             x == x0 + Ahead(frame, x0, x0 - k)
         IN  /\ Reached(A, B, d, k, x) /\ Dist(A, B, x, x - k) = Dist(A, B, x0, x0 - k)
             /\ x <= frame.n /\ x - k <= frame.m => Slice(A, x0, x) = Slice(B, x0 - k, x - k)
<1> DEFINE A == PartA(frame)
           B == PartB(frame)
           x0 == ForwardX
           y0 == x0 - k
           t == Ahead(frame, x0, x0 - k)
           x == x0 + t
           g == AheadTo
<1>1. pc = "forward"
  BY DEF Forward
<1>2. /\ d \in Nat /\ k \in Diag(d) /\ AheadStart /\ Tasked /\ frame \in Box /\ k \in Int
      /\ \A kk \in Diag(d - 1) : AheadReached(d - 1, kk)
  <2>1. d \in Nat /\ k \in Diag(d) /\ AheadStart /\ Tasked
    BY <1>1 DEF DiffInv, AtForward
  <2> QED
    BY <1>1, <2>1, DiagIs, FrameIs DEF Found, FoundForward
<1>3. x0 = From(g, d, k) /\ x0 \in Nat /\ y0 >= 0 /\ t \in Nat
  BY ForwardStores
<1>4. y0 \in Nat /\ x \in Nat /\ x - k = y0 + t
  BY <1>2, <1>3
<1>5. /\ A \in Seq(Symbols) /\ B \in Seq(Symbols) /\ Len(A) = frame.n /\ Len(B) = frame.m
  BY <1>2, PartsAre
<1>6. Slides(A, B, x0, y0, t) /\ ~MatchesAt(A, B, x0 + t, y0 + t)
  <2> HIDE DEF x0
  <2>1. y0 \in Nat
    BY <1>4
  <2> QED
    BY <1>2, <1>3, <2>1, AheadSlides
<1>7. \A j \in Diag(d - 1) : Reached(A, B, d - 1, j, g[j])
  BY <1>2 DEF AheadReached
<1>8. d = 0 => g[1] = 0
  BY <1>2 DEF AheadStart
<1> HIDE DEF A, B, x0, y0, t, g
<1>9. Dist(A, B, x0 + t, y0 + t) = Dist(A, B, x0, y0)
  <2>1. x0 \in Nat /\ y0 \in Nat /\ t \in Nat
    BY <1>3, <1>4
  <2>2. A \in Seq(Symbols) /\ B \in Seq(Symbols)
    BY <1>5
  <2>3. Slides(A, B, x0, y0, t)
    BY <1>6
  <2> QED
    BY <2>1, <2>2, <2>3, DistSlide
<1>10. Reached(A, B, d, k, x0 + t)
  <2>1. y0 = x0 - k
    BY DEF y0
  <2>2. x0 - k >= 0
    BY <1>3, <2>1
  <2>3. Dist(A, B, x0 + t, (x0 - k) + t) = Dist(A, B, x0, x0 - k)
    BY <1>9, <2>1
  <2>4. ~MatchesAt(A, B, x0 + t, (x0 - k) + t)
    BY <1>6, <2>1
  <2> QED
    BY <1>2, <1>3, <1>5, <1>7, <1>8, <2>2, <2>3, <2>4, ReachStep
<1>11. x <= frame.n /\ y0 + t <= frame.m => Slice(A, x0, x0 + t) = Slice(B, y0, y0 + t)
  <2> SUFFICES ASSUME x <= frame.n, y0 + t <= frame.m
               PROVE  Slice(A, x0, x0 + t) = Slice(B, y0, y0 + t)
    OBVIOUS
  <2>1. x0 \in Nat /\ y0 \in Nat /\ t \in Nat /\ x0 + t <= Len(A) /\ y0 + t <= Len(B)
    BY <1>3, <1>4, <1>5
  <2>2. A \in Seq(Symbols) /\ B \in Seq(Symbols)
    BY <1>5
  <2>3. Slides(A, B, x0, y0, t)
    BY <1>6
  <2> QED
    BY <2>1, <2>2, <2>3, SlidesEqual
<1> QED
  BY <1>4, <1>9, <1>10, <1>11 DEF A, B, x0, y0, t, g

LEMMA BackwardReaches ==
  ASSUME DiffInv, Found, Backward
  PROVE  LET A == PartA(frame)
             B == PartB(frame)
             z0 == From(BehindTo, d, -k)
             z == z0 + Behind(frame, BackwardX, BackwardX - BackDiagonal)
         IN  /\ Reached(Reverse(A), Reverse(B), d, -k, z)
             /\ Dist(Reverse(A), Reverse(B), z, z + k) = Dist(Reverse(A), Reverse(B), z0, z0 + k)
             /\ z <= frame.n /\ z + k <= frame.m =>
                  Slice(A, frame.n - z, frame.n - z0)
                    = Slice(B, frame.m - (z + k), frame.m - (z0 + k))
<1> DEFINE A == PartA(frame)
           B == PartB(frame)
           RA == Reverse(A)
           RB == Reverse(B)
           z0 == From(BehindTo, d, -k)
           w0 == z0 + k
           t == Behind(frame, BackwardX, BackwardX - BackDiagonal)
           z == z0 + t
           n == frame.n
           m == frame.m
           j == -k
           h == BehindTo
<1>1. pc = "backward"
  BY DEF Backward
<1>2. /\ d \in Nat /\ k \in Int /\ j \in Diag(d) /\ BehindStart /\ Tasked /\ frame \in Box
      /\ \A kk \in Diag(d - 1) : BehindReached(d - 1, kk)
  <2>1. d \in Nat /\ k \in Diag(d) /\ BehindStart /\ Tasked
    BY <1>1 DEF DiffInv, AtBackward
  <2> QED
    BY <1>1, <2>1, DiagIs, FrameIs DEF Found, FoundBackward
<1>3. /\ BackwardX = n - z0 /\ BackwardX - BackDiagonal = m - w0
      /\ z0 \in Nat /\ w0 \in Nat /\ t \in Nat
  BY BackwardStores
<1>4. t = Behind(frame, n - z0, m - w0) /\ z0 = From(h, d, j)
  BY <1>3
<1>5. /\ A \in Seq(Symbols) /\ B \in Seq(Symbols) /\ Len(A) = n /\ Len(B) = m
      /\ RA \in Seq(Symbols) /\ RB \in Seq(Symbols)
  BY <1>2, PartsAre
<1> HIDE DEF z0, w0, t, j
<1>6. Slides(RA, RB, z0, w0, t) /\ ~MatchesAt(RA, RB, z0 + t, w0 + t)
  BY <1>2, <1>3, <1>4, BehindSlides
<1>7. \A i \in Diag(d - 1) : Reached(RA, RB, d - 1, i, h[i])
  BY <1>2 DEF BehindReached
<1>8. d = 0 => h[1] = 0
  BY <1>2 DEF BehindStart
<1>9. z0 - j = w0 /\ z0 - j >= 0 /\ z + k = w0 + t
  BY <1>2, <1>3 DEF j, w0
<1> HIDE DEF A, B, RA, RB, h
<1>10. Dist(RA, RB, z0 + t, w0 + t) = Dist(RA, RB, z0, w0)
  BY <1>3, <1>5, <1>6, DistSlide
<1>11. Reached(RA, RB, d, j, z0 + t)
  <2>1. Dist(RA, RB, z0 + t, (z0 - j) + t) = Dist(RA, RB, z0, z0 - j)
    BY <1>9, <1>10
  <2>2. ~MatchesAt(RA, RB, z0 + t, (z0 - j) + t)
    BY <1>6, <1>9
  <2>3. z0 - j >= 0
    BY <1>9
  <2> QED
    BY <1>2, <1>3, <1>4, <1>5, <1>7, <1>8, <2>1, <2>2, <2>3, ReachStep
<1>12. z <= n /\ w0 + t <= m =>
         Slice(A, n - (z0 + t), n - z0) = Slice(B, m - (w0 + t), m - w0)
  <2> HIDE DEF n, m
  <2> SUFFICES ASSUME z <= n, w0 + t <= m
               PROVE  Slice(A, n - (z0 + t), n - z0) = Slice(B, m - (w0 + t), m - w0)
    OBVIOUS
  <2>1. Slides(Reverse(A), Reverse(B), z0, w0, t)
    BY <1>6 DEF RA, RB
  <2>2. z0 \in Nat /\ w0 \in Nat /\ t \in Nat /\ z0 + t <= Len(A) /\ w0 + t <= Len(B)
    BY <1>3, <1>5
  <2>3. A \in Seq(Symbols) /\ B \in Seq(Symbols)
    BY <1>5
  <2>4. Slice(A, Len(A) - (z0 + t), Len(A) - z0) = Slice(B, Len(B) - (w0 + t), Len(B) - w0)
    BY <2>1, <2>2, <2>3, SlidesEqualBack
  <2> QED
    BY <1>5, <2>4
<1> QED
  BY <1>9, <1>10, <1>11, <1>12 DEF A, B, RA, RB, z0, w0, t, j

LEMMA SearchStays ==
  ASSUME UNCHANGED <<input, frame>>
  PROVE  /\ PartA(frame)' = PartA(frame) /\ PartB(frame)' = PartB(frame)
         /\ Distance' = Distance /\ Limit' = Limit /\ Delta' = Delta
BY DEF input, PartA, PartB, Distance, Limit, Delta

LEMMA DistanceIs ==
  ASSUME Tasked
  PROVE  /\ Distance \in Nat /\ Distance <= frame.n + frame.m
         /\ (Distance + Delta) % 2 = 0
<1> DEFINE A == PartA(frame)
           B == PartB(frame)
           l == LcsLength(A, B)
<1>1. /\ A \in Seq(Symbols) /\ B \in Seq(Symbols)
      /\ Len(A) = frame.n /\ Len(B) = frame.m /\ frame.n \in Nat /\ frame.m \in Nat
      /\ Delta = frame.n - frame.m
  BY FrameIs, PartsAre
<1> HIDE DEF A, B
<1>2. Distance \in Nat
  <2>1. Distance = ScriptDistance(A, B)
    BY DEF Distance, A, B
  <2> QED
    BY <1>1, <2>1, SameIs
<1>3. Distance = frame.n + frame.m - 2 * l /\ l \in Nat
  BY <1>1, LcsLengthIs DEF Distance, ScriptDistance, A, B
<1> HIDE DEF l
<1>4. ((frame.n + frame.m - 2 * l) + (frame.n - frame.m)) % 2 = 0
  BY <1>1, <1>3
<1> QED
  BY <1>1, <1>2, <1>3, <1>4

LEMMA ForwardFinds ==
  ASSUME DiffInv, Found, DiffInv', Forward
  PROVE  Found'
<1> DEFINE A == PartA(frame)
           B == PartB(frame)
           RA == Reverse(A)
           RB == Reverse(B)
           x0 == ForwardX
           y0 == x0 - k
           t == Ahead(frame, x0, x0 - k)
           x == x0 + t
           n == frame.n
           m == frame.m
           met == ForwardMeets /\ x >= RV(k)
           g == AheadTo
           h == AheadTo'
           r == BehindTo
           D == Distance
<1>1. /\ pc = "forward"
      /\ IF met
         THEN /\ ms' = [x |-> x0, y |-> y0, u |-> x, v |-> x - k]
              /\ dd' = 2 * d - 1 /\ pc' = "snake" /\ UNCHANGED <<d, k>>
         ELSE /\ ms' = [ms EXCEPT !.x = x0, !.y = y0]
              /\ NextDiagonal("backward") /\ UNCHANGED dd
      /\ UNCHANGED <<input, work, frame, script, ret>>
  BY DEF Forward
<1>2. /\ d \in Nat /\ k \in Diag(d) /\ Tasked /\ frame \in Box /\ k \in Int /\ d \in Int
      /\ -d <= k /\ k <= d /\ Delta \in Int /\ Delta = n - m /\ n \in Nat /\ m \in Nat
  <2>1. d \in Nat /\ k \in Diag(d) /\ Tasked
    BY <1>1 DEF DiffInv, AtForward
  <2> QED
    BY <2>1, DiagIs, FrameIs
<1>3. /\ \A kk \in Diag(d - 1) : Reached(A, B, d - 1, kk, g[kk]) /\ Reached(RA, RB, d - 1, kk, r[kk])
      /\ D >= 2 * d - 1 /\ 2 * d - 1 < Limit /\ D \in Nat
      /\ \A kk \in Diag(d) : kk > k => /\ Reached(A, B, d, kk, g[kk])
                                       /\ Delta - kk \in Diag(d - 1) => g[kk] + r[Delta - kk] < n
  BY <1>1, <1>2, DistanceIs DEF Found, FoundForward, AheadReached, BehindReached, Apart
<1>4. /\ Reached(A, B, d, k, x) /\ Dist(A, B, x, x - k) = Dist(A, B, x0, y0)
      /\ x <= n /\ x - k <= m => Slice(A, x0, x) = Slice(B, y0, x - k)
  BY ForwardReaches
<1>5. \A j \in Int : h[j] = (IF j = k THEN x ELSE g[j]) /\ BehindTo'[j] = r[j]
  BY ForwardStores
<1>6. /\ PartA(frame)' = A /\ PartB(frame)' = B /\ Distance' = D /\ Limit' = Limit
      /\ Delta' = Delta /\ frame' = frame
  BY <1>1, SearchStays
<1>7. /\ A \in Seq(Symbols) /\ B \in Seq(Symbols) /\ Len(A) = n /\ Len(B) = m
      /\ RA \in Seq(Symbols) /\ RB \in Seq(Symbols)
      /\ D = ScriptDistance(A, B)
  BY <1>2, PartsAre DEF Distance
<1>8. \A kk \in Diag(d - 1) : kk \in Int /\ kk # k
  BY <1>2, DiagIs
<1>9. \A kk \in Diag(d) : kk \in Int
  BY <1>2, DiagIs
<1>10. x \in Nat /\ x - k \in Nat
  <2> HIDE DEF x
  <2> QED
    BY <1>2, <1>4 DEF Reached
<1> HIDE DEF A, B, RA, RB, x0, y0, t, x, n, m, g, h, r, D
<1>11. \A kk \in Diag(d - 1) : Reached(A, B, d - 1, kk, h[kk]) /\ Reached(RA, RB, d - 1, kk, BehindTo'[kk])
  BY <1>3, <1>5, <1>8
<1>12. Delta - k \in Diag(d - 1) => (ForwardMeets /\ RV(k) = n - r[Delta - k] /\ r[Delta - k] \in Int)
  <2> SUFFICES ASSUME Delta - k \in Diag(d - 1)
               PROVE  ForwardMeets /\ RV(k) = n - r[Delta - k] /\ r[Delta - k] \in Int
    OBVIOUS
  <2>1. -(d - 1) <= Delta - k /\ Delta - k <= d - 1 /\ ((Delta - k) + (d - 1)) % 2 = 0
    BY DEF Diag
  <2>2. (k + d) % 2 = 0
    BY <1>2 DEF Diag
  <2>3. Delta % 2 = 1
    BY <1>2, <2>1, <2>2
  <2>4. k >= Delta - (d - 1) /\ k <= Delta + (d - 1)
    BY <1>2, <2>1
  <2>5. Delta - k \in Int
    BY <1>2
  <2> QED
    BY <1>2, <2>3, <2>4, <2>5, ToIs DEF ForwardMeets, Odd, n, r
<1>13. ASSUME ~met, NEW kk \in Diag(d), kk >= k
       PROVE  /\ Reached(A, B, d, kk, h[kk])
              /\ Delta - kk \in Diag(d - 1) => h[kk] + BehindTo'[Delta - kk] < n
  <2>1. kk \in Int /\ Delta - kk \in Int
    BY <1>2, <1>9
  <2>2. BehindTo'[Delta - kk] = r[Delta - kk]
    BY <1>5, <2>1
  <2>3. CASE kk = k
    <3>1. h[kk] = x /\ Reached(A, B, d, kk, x)
      BY <1>4, <1>5, <2>1, <2>3
    <3>2. ASSUME Delta - k \in Diag(d - 1) PROVE x + r[Delta - k] < n
      <4>1. ~ (x >= RV(k)) /\ RV(k) = n - r[Delta - k] /\ r[Delta - k] \in Int
        BY <1>12, <1>13, <3>2
      <4> QED
        BY <1>2, <1>10, <4>1 DEF n
    <3> QED
      BY <2>2, <2>3, <3>1, <3>2
  <2>4. CASE kk # k
    <3>1. kk > k /\ h[kk] = g[kk]
      BY <1>2, <1>5, <1>13, <2>1, <2>4
    <3> QED
      BY <1>3, <2>2, <3>1
  <2> QED
    BY <2>3, <2>4
<1>14. CASE met
  <2> DEFINE y == x - k
             j == Delta - k
             i == n - x
  <2>1. /\ ms'.x = x0 /\ ms'.y = y0 /\ ms'.u = x /\ ms'.v = y /\ dd' = 2 * d - 1 /\ pc' = "snake"
    BY <1>1, <1>14
  <2>2. x <= n /\ y <= m
    <3>1. SnakeIn'
      BY <1>3, <1>6, <2>1 DEF DiffInv, AtSnake
    <3> QED
      BY <1>6, <2>1, <3>1 DEF SnakeIn, n, m
  <2>3. j \in Diag(d - 1)
    <3>1. Delta % 2 = 1 /\ k >= Delta - (d - 1) /\ k <= Delta + (d - 1)
      BY <1>14 DEF ForwardMeets, Odd
    <3>2. (k + d) % 2 = 0
      BY <1>2 DEF Diag
    <3> QED
      BY <1>2, <3>1, <3>2 DEF Diag
  <2>4. i \in Nat /\ i - j = m - y /\ i - j >= 0 /\ j \in Int /\ x \in 0 .. Len(A) /\ y \in 0 .. Len(B)
    <3>1. i \in Nat /\ i - j = m - y /\ i - j >= 0 /\ j \in Int /\ x \in 0 .. n /\ y \in 0 .. m
      <4> HIDE DEF x
      <4>1. n - x - (Delta - k) = m - (x - k)
        BY <1>2, <1>10
      <4> QED
        BY <1>2, <1>10, <2>2, <4>1
    <3> QED
      BY <1>7, <3>1
  <2>5. i <= r[j] /\ Reached(RA, RB, d - 1, j, r[j])
    <3>1. x >= RV(k) /\ RV(k) = n - r[j] /\ r[j] \in Int
      BY <1>12, <1>14, <2>3
    <3> QED
      BY <1>2, <1>3, <1>10, <2>3, <3>1 DEF n
  <2> HIDE DEF i, j, y
  <2>6. Dist(RA, RB, i, i - j) <= d - 1
    <3> DEFINE q == r[j]
    <3>1. i <= q /\ Reached(RA, RB, d - 1, j, q) /\ d - 1 \in Int
      BY <1>2, <2>5
    <3> HIDE DEF q
    <3> QED
      BY <1>7, <2>4, <3>1, ReachedIs
  <2>7. Back(A, B, x, y) = Dist(RA, RB, i, i - j)
    BY <1>7, <2>4 DEF Back, RA, RB, i
  <2>8. Dist(A, B, x, y) <= d
    BY <1>4 DEF Reached, y
  <2>9. D = 2 * d - 1 /\ Dist(A, B, x, y) = d /\ Back(A, B, x, y) = d - 1
    <3>1. ScriptDistance(A, B) >= d + (d - 1) /\ d - 1 \in Int /\ d + (d - 1) = 2 * d - 1
      BY <1>2, <1>3, <1>7
    <3>2. Back(A, B, x, y) <= d - 1
      BY <2>6, <2>7
    <3> QED
      <4> DEFINE e == d - 1
      <4>1. /\ ScriptDistance(A, B) >= d + e /\ e \in Int /\ d \in Int
            /\ Dist(A, B, x, y) <= d /\ Back(A, B, x, y) <= e
        BY <1>2, <2>8, <3>1, <3>2
      <4> HIDE DEF e
      <4>2. ScriptDistance(A, B) = d + e /\ Dist(A, B, x, y) = d /\ Back(A, B, x, y) = e
        BY <1>7, <2>4, <4>1, MeetingCosts
      <4> QED
        BY <1>2, <1>7, <4>2 DEF e
  <2>10. /\ Dist(A, B, x0, y0) + Back(A, B, x, y) = 2 * d - 1
         /\ Dist(A, B, x0, y0) = Back(A, B, x, y) + 1
    BY <1>2, <1>4, <2>9 DEF y
  <2>11. Slice(A, x0, x) = Slice(B, y0, y)
    BY <1>4, <2>2 DEF y
  <2>12. SnakeCuts'
    BY <1>6, <2>1, <2>10, <2>11 DEF SnakeCuts
  <2> QED
    BY <1>3, <1>6, <2>1, <2>9, <2>12 DEF Found, FoundDepth, FoundForward, FoundBackward, FoundSnake
<1>15. CASE ~met /\ k > -d
  <2>1. k' = k - 2 /\ pc' = "forward" /\ d' = d
    BY <1>1, <1>15 DEF NextDiagonal
  <2>2. \A kk \in Diag(d) : kk > k - 2 => kk >= k
    <3>1. \A kk \in Diag(d) : kk < k => kk <= k - 2
      BY <1>2, DiagIs
    <3> QED
      BY <1>2, <1>9, <3>1
  <2>3. FoundForward'
    <3>1. \A kk \in Diag(d) : kk > k - 2 =>
            /\ Reached(A, B, d, kk, h[kk])
            /\ Delta - kk \in Diag(d - 1) => h[kk] + BehindTo'[Delta - kk] < n
      BY <1>13, <1>15, <2>2
    <3> QED
      BY <1>3, <1>6, <1>11, <2>1, <3>1
         DEF FoundForward, AheadReached, BehindReached, Apart, RA, RB, h, n
  <2> QED
    BY <2>1, <2>3 DEF Found, FoundDepth, FoundBackward, FoundSnake
<1>16. CASE ~met /\ ~ (k > -d)
  <2>1. k' = d /\ pc' = "backward" /\ d' = d
    BY <1>1, <1>16 DEF NextDiagonal
  <2>2. \A kk \in Diag(d) : kk >= k
    BY <1>2, <1>16, DiagIs
  <2>3. \A kk \in Diag(d) : /\ Reached(A, B, d, kk, h[kk])
                            /\ Delta - kk \in Diag(d - 1) => h[kk] + BehindTo'[Delta - kk] < n
    BY <1>13, <1>16, <2>2
  <2>4. D >= 2 * d
    <3>1. CASE d = 0
      BY <1>3, <3>1
    <3>2. CASE d # 0
      <4> SUFFICES ASSUME D < 2 * d PROVE FALSE
        BY <1>2, <1>3
      <4> DEFINE e == d - 1
                 h1 == BehindTo'
      <4>1. e \in Nat /\ ScriptDistance(A, B) = d + e
        <5>1. D = 2 * d - 1
          BY <1>2, <1>3
        <5> QED
          BY <1>2, <1>7, <3>2, <5>1
      <4>2. \A kk \in Diag(e) : Reached(Reverse(A), Reverse(B), e, kk, h1[kk])
        BY <1>11 DEF RA, RB
      <4>3. \A kk \in Diag(d) : Reached(A, B, d, kk, h[kk])
        BY <2>3
      <4> HIDE DEF e, h1
      <4>4. \E kk \in Diag(d) : /\ (Len(A) - Len(B)) - kk \in Diag(e)
                                /\ h[kk] + h1[(Len(A) - Len(B)) - kk] >= Len(A)
        BY <1>2, <1>7, <4>1, <4>2, <4>3, SearchesMeet
      <4>5. PICK kk \in Diag(d) : /\ Delta - kk \in Diag(e) /\ h[kk] + h1[Delta - kk] >= n
        BY <1>2, <1>7, <4>4 DEF n, m
      <4>6. h[kk] + h1[Delta - kk] < n
        BY <2>3, <4>5 DEF e, h1
      <4>7. h[kk] \in Nat /\ h1[Delta - kk] \in Nat
        BY <4>2, <4>3, <4>5 DEF Reached
      <4> QED
        BY <1>2, <4>5, <4>6, <4>7 DEF n
    <3> QED
      BY <3>1, <3>2
  <2>5. \A kk \in Diag(d) : kk \in Int /\ ~ (kk < -d)
    BY <1>2, DiagIs
  <2>6. FoundBackward'
    BY <1>3, <1>6, <1>11, <2>1, <2>3, <2>4, <2>5
       DEF FoundBackward, AheadReached, BehindReached, RA, RB, h
  <2> QED
    BY <2>1, <2>6 DEF Found, FoundDepth, FoundForward, FoundSnake
<1> QED
  BY <1>14, <1>15, <1>16

LEMMA BackwardFinds ==
  ASSUME DiffInv, Found, DiffInv', Backward
  PROVE  Found'
<1> DEFINE A == PartA(frame)
           B == PartB(frame)
           RA == Reverse(A)
           RB == Reverse(B)
           x0 == BackwardX
           y0 == x0 - BackDiagonal
           t == Behind(frame, x0, y0)
           x == x0 - t
           y == x - BackDiagonal
           z0 == From(BehindTo, d, -k)
           z == z0 + t
           n == frame.n
           m == frame.m
           met == BackwardMeets /\ x <= FV(BackDiagonal)
           g == AheadTo
           h == BehindTo'
           r == BehindTo
           D == Distance
<1>1. /\ pc = "backward"
      /\ IF met
         THEN /\ ms' = [x |-> x, y |-> y, u |-> x0, v |-> y0]
              /\ dd' = 2 * d /\ pc' = "snake" /\ UNCHANGED <<d, k>>
         ELSE /\ ms' = [ms EXCEPT !.u = x0, !.v = y0]
              /\ NextDiagonal("depth") /\ UNCHANGED dd
      /\ UNCHANGED <<input, work, frame, script, ret>>
  BY DEF Backward
<1>2. /\ d \in Nat /\ k \in Diag(d) /\ Tasked /\ frame \in Box /\ k \in Int /\ d \in Int
      /\ -d <= k /\ k <= d /\ Delta \in Int /\ Delta = n - m /\ n \in Nat /\ m \in Nat
      /\ -k \in Diag(d) /\ BackDiagonal = Delta + k
  <2>1. d \in Nat /\ k \in Diag(d) /\ Tasked
    BY <1>1 DEF DiffInv, AtBackward
  <2> QED
    BY <2>1, DiagIs, FrameIs DEF BackDiagonal
<1>3. /\ \A kk \in Diag(d) : Reached(A, B, d, kk, g[kk])
      /\ \A kk \in Diag(d - 1) : Reached(RA, RB, d - 1, kk, r[kk])
      /\ D >= 2 * d /\ D \in Nat
      /\ \A kk \in Diag(d) : kk < -k => /\ Reached(RA, RB, d, kk, r[kk])
                                        /\ Delta - kk \in Diag(d) =>
                                             g[Delta - kk] + r[Delta - (Delta - kk)] < n
  BY <1>1, <1>2, DistanceIs DEF Found, FoundBackward, AheadReached, BehindReached, Apart
<1>4. /\ Reached(RA, RB, d, -k, z) /\ Dist(RA, RB, z, z + k) = Dist(RA, RB, z0, z0 + k)
      /\ z <= n /\ z + k <= m => Slice(A, n - z, n - z0) = Slice(B, m - (z + k), m - (z0 + k))
  BY BackwardReaches
<1>5. /\ \A j \in Int : h[j] = (IF j = -k THEN z ELSE r[j]) /\ AheadTo'[j] = g[j]
      /\ x0 = n - z0 /\ y0 = m - (z0 + k) /\ z0 \in Nat /\ z0 + k \in Nat /\ t \in Nat
  BY BackwardStores
<1>6. /\ PartA(frame)' = A /\ PartB(frame)' = B /\ Distance' = D /\ Limit' = Limit
      /\ Delta' = Delta /\ frame' = frame
  BY <1>1, SearchStays
<1>7. /\ A \in Seq(Symbols) /\ B \in Seq(Symbols) /\ Len(A) = n /\ Len(B) = m
      /\ RA \in Seq(Symbols) /\ RB \in Seq(Symbols)
      /\ D = ScriptDistance(A, B)
  BY <1>2, PartsAre DEF Distance
<1>8. \A kk \in Diag(d - 1) : kk \in Int /\ kk # -k
  BY <1>2, DiagIs
<1>9. \A kk \in Diag(d) : kk \in Int
  BY <1>2, DiagIs
<1> HIDE DEF A, B, RA, RB, x0, y0, t, z0, n, m, g, h, r, D
<1>10. /\ z \in Nat /\ z + k \in Nat /\ x = n - z /\ y = m - (z + k)
       /\ x0 - BackDiagonal = y0
  <2>1. z \in Nat /\ z + k \in Nat /\ x = n - z
    BY <1>2, <1>5
  <2>2. x0 - BackDiagonal = y0
    BY DEF y0
  <2>3. y = m - (z + k)
    BY <1>2, <1>5, <2>2
  <2> QED
    BY <2>1, <2>2, <2>3
<1> HIDE DEF x, y, z
<1>11. /\ \A kk \in Diag(d - 1) : Reached(RA, RB, d - 1, kk, h[kk])
       /\ \A kk \in Diag(d) : Reached(A, B, d, kk, AheadTo'[kk]) /\ AheadTo'[kk] = g[kk]
  BY <1>3, <1>5, <1>8, <1>9
<1>12. Delta + k \in Diag(d) => (BackwardMeets /\ FV(BackDiagonal) = g[Delta + k])
  <2> SUFFICES ASSUME Delta + k \in Diag(d)
               PROVE  BackwardMeets /\ FV(BackDiagonal) = g[Delta + k]
    OBVIOUS
  <2>1. -d <= Delta + k /\ Delta + k <= d /\ ((Delta + k) + d) % 2 = 0
    BY DEF Diag
  <2>2. (k + d) % 2 = 0
    BY <1>2 DEF Diag
  <2>3. Delta % 2 # 1
    BY <1>2, <2>1, <2>2
  <2>4. Delta + k \in Int
    BY <1>2
  <2> QED
    BY <1>2, <2>1, <2>3, <2>4, ToIs DEF BackwardMeets, Odd, g
<1>13. ASSUME ~met, NEW kk \in Diag(d), kk <= -k
       PROVE  /\ Reached(RA, RB, d, kk, h[kk])
              /\ Delta - kk \in Diag(d) => g[Delta - kk] + h[kk] < n
  <2>1. kk \in Int /\ Delta - kk \in Int /\ Delta - (Delta - kk) = kk
    BY <1>2, <1>9
  <2>2. CASE kk = -k
    <3>1. h[kk] = z /\ Reached(RA, RB, d, kk, z)
      BY <1>4, <1>5, <2>1, <2>2
    <3>2. ASSUME Delta + k \in Diag(d) PROVE g[Delta + k] + z < n
      <4>1. ~ (x <= FV(BackDiagonal)) /\ FV(BackDiagonal) = g[Delta + k]
        BY <1>12, <1>13, <3>2
      <4>2. g[Delta + k] \in Nat
        BY <1>3, <3>2 DEF Reached
      <4> QED
        BY <1>2, <1>10, <4>1, <4>2 DEF n
    <3>3. Delta - kk = Delta + k
      BY <1>2, <2>2
    <3> QED
      BY <3>1, <3>2, <3>3
  <2>3. CASE kk # -k
    <3>1. kk < -k /\ h[kk] = r[kk]
      BY <1>2, <1>5, <1>13, <2>1, <2>3
    <3> QED
      BY <1>3, <2>1, <3>1
  <2> QED
    BY <2>2, <2>3
<1>14. CASE met /\ 2 * d < Limit
  <2> DEFINE kr == Delta + k
             w == z + k
  <2>1. /\ ms'.x = x /\ ms'.y = y /\ ms'.u = x0 /\ ms'.v = y0 /\ dd' = 2 * d /\ pc' = "snake"
    BY <1>1, <1>14
  <2>2. x \in 0 .. n /\ y \in 0 .. m /\ x0 <= n
    <3>1. SnakeIn'
      BY <1>6, <1>14, <2>1 DEF DiffInv, AtSnake
    <3>2. x \in Nat /\ y \in Nat /\ x <= x0 /\ x0 <= n /\ y <= y0 /\ y0 <= m
      BY <1>6, <2>1, <3>1 DEF SnakeIn, n, m
    <3> QED
      BY <1>2, <1>5, <1>10, <3>2 DEF n, m
  <2>3. kr \in Diag(d)
    <3>1. Delta % 2 # 1 /\ kr >= -d /\ kr <= d
      BY <1>2, <1>14 DEF BackwardMeets, Odd
    <3>2. (k + d) % 2 = 0
      BY <1>2 DEF Diag
    <3>3. (kr + d) % 2 = 0
      BY <1>2, <3>1, <3>2
    <3> QED
      BY <1>2, <3>1, <3>3 DEF Diag
  <2>4. x - kr = y /\ kr \in Int /\ x - kr >= 0 /\ x \in Nat /\ n - x = z /\ m - y = w
    BY <1>2, <1>10, <2>2 DEF n, m
  <2>5. x <= g[kr] /\ Reached(A, B, d, kr, g[kr])
    BY <1>3, <1>12, <1>14, <2>3
  <2> HIDE DEF kr, w
  <2>6. Dist(A, B, x, y) <= d
    <3> DEFINE q == g[kr]
    <3>1. x <= q /\ Reached(A, B, d, kr, q)
      BY <2>5
    <3> HIDE DEF q
    <3>2. Dist(A, B, x, x - kr) <= d <=> x <= q
      BY <1>2, <1>7, <2>4, <3>1, ReachedIs
    <3> QED
      BY <2>4, <3>1, <3>2
  <2>7. Back(A, B, x, y) = Dist(RA, RB, z, w) /\ Dist(RA, RB, z, w) <= d
    <3>1. z - (-k) = z + k
      BY <1>2, <1>10
    <3> QED
      BY <1>4, <1>7, <2>4, <3>1 DEF Back, RA, RB, Reached, w
  <2>8. D = 2 * d /\ Dist(A, B, x, y) = d /\ Back(A, B, x, y) = d
    <3>1. ScriptDistance(A, B) >= d + d /\ d + d = 2 * d
      BY <1>2, <1>3, <1>7
    <3>2. x \in 0 .. Len(A) /\ y \in 0 .. Len(B) /\ Back(A, B, x, y) <= d
      BY <1>7, <2>2, <2>7
    <3>3. ScriptDistance(A, B) = d + d /\ Dist(A, B, x, y) = d /\ Back(A, B, x, y) = d
      <4>1. A \in Seq(Symbols) /\ B \in Seq(Symbols) /\ d \in Int
        BY <1>2, <1>7
      <4>2. ScriptDistance(A, B) >= d + d
        BY <3>1
      <4> QED
        BY <2>6, <3>2, <4>1, <4>2, MeetingCosts
    <3> QED
      BY <1>7, <3>1, <3>3
  <2>9. Back(A, B, x0, y0) = Dist(RA, RB, z0, z0 + k)
    <3>1. n - x0 = z0 /\ m - y0 = z0 + k
      BY <1>2, <1>5 DEF n, m
    <3> QED
      BY <1>7, <3>1 DEF Back, RA, RB
  <2>10. /\ Dist(A, B, x, y) + Back(A, B, x0, y0) = 2 * d
         /\ Dist(A, B, x, y) = Back(A, B, x0, y0)
    <3>1. Back(A, B, x0, y0) = d
      BY <1>4, <2>7, <2>8, <2>9 DEF w
    <3> QED
      BY <1>2, <2>8, <3>1
  <2>11. Slice(A, x, x0) = Slice(B, y, y0)
    <3>1. z <= n /\ z + k <= m
      BY <1>2, <1>10, <2>2 DEF n, m
    <3> QED
      BY <1>4, <1>5, <1>10, <3>1
  <2>12. SnakeCuts'
    BY <1>6, <2>1, <2>10, <2>11 DEF SnakeCuts
  <2>13. dd' \in Nat
    BY <1>2, <2>1
  <2> QED
    BY <1>6, <1>14, <2>1, <2>8, <2>12, <2>13
       DEF Found, FoundDepth, FoundForward, FoundBackward, FoundSnake
<1>15. CASE met /\ ~ (2 * d < Limit)
  <2>1. pc' = "snake" /\ dd' = 2 * d /\ dd' \in Nat
    BY <1>1, <1>2, <1>15
  <2>2. Limit \in Nat /\ D >= Limit
    <3>1. Limit \in Nat
      BY <1>2 DEF Limit, INT_MAX, Tasked
    <3> QED
      BY <1>2, <1>3, <1>15, <3>1
  <2> QED
    BY <1>6, <1>15, <2>1, <2>2 DEF Found, FoundDepth, FoundForward, FoundBackward, FoundSnake
<1>16. CASE ~met /\ k > -d
  <2>1. k' = k - 2 /\ pc' = "backward" /\ d' = d
    BY <1>1, <1>16 DEF NextDiagonal
  <2>2. \A kk \in Diag(d) : kk < -(k - 2) => kk <= -k
    <3>1. \A kk \in Diag(d) : -k < kk => -k <= kk - 2
      BY <1>2, DiagIs
    <3> QED
      BY <1>2, <1>9, <3>1
  <2>3. \A kk \in Diag(d) : kk < -(k - 2) =>
          /\ Reached(RA, RB, d, kk, h[kk])
          /\ Delta - kk \in Diag(d) => AheadTo'[Delta - kk] + h[Delta - (Delta - kk)] < n
    <3> SUFFICES ASSUME NEW kk \in Diag(d), kk < -(k - 2)
                 PROVE  /\ Reached(RA, RB, d, kk, h[kk])
                        /\ Delta - kk \in Diag(d) => AheadTo'[Delta - kk] + h[Delta - (Delta - kk)] < n
      OBVIOUS
    <3>1. /\ Reached(RA, RB, d, kk, h[kk])
          /\ Delta - kk \in Diag(d) => g[Delta - kk] + h[kk] < n
      BY <1>13, <1>16, <2>2
    <3>2. Delta - (Delta - kk) = kk
      BY <1>2, <1>9
    <3> QED
      BY <1>11, <3>1, <3>2
  <2>4. FoundBackward'
    BY <1>3, <1>6, <1>11, <2>1, <2>3
       DEF FoundBackward, AheadReached, BehindReached, Apart, RA, RB, h, n
  <2> QED
    BY <2>1, <2>4 DEF Found, FoundDepth, FoundForward, FoundSnake
<1>17. CASE ~met /\ ~ (k > -d)
  <2>1. k' = d /\ pc' = "depth" /\ d' = d + 1 /\ d' - 1 = d
    BY <1>1, <1>2, <1>17 DEF NextDiagonal
  <2>2. \A kk \in Diag(d) : kk <= -k
    BY <1>2, <1>17, DiagIs
  <2>3. \A kk \in Diag(d) : /\ Reached(RA, RB, d, kk, h[kk])
                            /\ Delta - kk \in Diag(d) => g[Delta - kk] + h[kk] < n
    BY <1>13, <1>17, <2>2
  <2>4. D >= 2 * d + 1
    <3> SUFFICES ASSUME D = 2 * d PROVE FALSE
      BY <1>2, <1>3
    <3>1. ScriptDistance(A, B) = d + d
      BY <1>2, <1>7
    <3>2. \A kk \in Diag(d) : Reached(A, B, d, kk, g[kk])
      BY <1>3
    <3>3. \A kk \in Diag(d) : Reached(Reverse(A), Reverse(B), d, kk, h[kk])
      BY <2>3 DEF RA, RB
    <3>4. \E kk \in Diag(d) : /\ (Len(A) - Len(B)) - kk \in Diag(d)
                              /\ g[kk] + h[(Len(A) - Len(B)) - kk] >= Len(A)
      BY <1>2, <1>7, <3>1, <3>2, <3>3, SearchesMeet
    <3>5. PICK kk \in Diag(d) : /\ Delta - kk \in Diag(d) /\ g[kk] + h[Delta - kk] >= n
      BY <1>2, <1>7, <3>4 DEF n, m
    <3>6. g[kk] + h[Delta - kk] < n
      <4>1. Delta - (Delta - kk) = kk
        BY <1>2, <1>9
      <4> QED
        BY <2>3, <3>5, <4>1
    <3>7. g[kk] \in Nat /\ h[Delta - kk] \in Nat
      BY <3>2, <3>3, <3>5 DEF Reached
    <3> QED
      BY <1>2, <3>5, <3>6, <3>7 DEF n
  <2>5. D >= 2 * (d + 1) - 1
    BY <1>2, <1>3, <2>4
  <2>6. \A e \in Int : e = d => \A kk \in Diag(e) : AheadReached(e, kk)' /\ BehindReached(e, kk)'
    BY <1>6, <1>11, <2>3 DEF AheadReached, BehindReached, RA, RB, h
  <2>7. d' - 1 \in Int
    BY <1>2, <2>1
  <2>8. FoundDepth'
    BY <1>6, <2>1, <2>5, <2>6, <2>7 DEF FoundDepth
  <2> QED
    BY <2>1, <2>8 DEF Found, FoundForward, FoundBackward, FoundSnake
<1> QED
  BY <1>14, <1>15, <1>16, <1>17

(* The middle (line 93) is deep enough: the search ends before it.         *)
LEMMA DepthFinds ==
  ASSUME DiffInv, Found, Depth
  PROVE  Found' /\ pc' # "error"
<1>1. /\ pc = "depth" /\ UNCHANGED <<input, work, frame, buf, fresh, d, ms>>
      /\ \/ d > Mid /\ pc' = "error"
         \/ OverLimit /\ dd' = Limit /\ pc' = "snake"
         \/ ~OverLimit /\ k' = d /\ pc' = "forward"
  BY DEF Depth
<1>2. /\ \A kk \in Diag(d - 1) : AheadReached(d - 1, kk) /\ BehindReached(d - 1, kk)
      /\ Distance >= 2 * d - 1
  BY <1>1 DEF Found, FoundDepth
<1>3. /\ d \in Nat /\ Tasked /\ frame.n \in Nat /\ frame.m \in Nat
      /\ Delta = frame.n - frame.m /\ Limit \in Nat
      /\ Distance \in Nat /\ Distance <= frame.n + frame.m
  <2>1. Tasked /\ d \in Nat
    BY DEF DiffInv
  <2>2. Limit \in Nat
    BY <2>1 DEF Limit, INT_MAX, Tasked
  <2> QED
    BY <2>1, <2>2, FrameIs, DistanceIs
<1>4. ~ (d > Mid)
  <2>1. 2 * Mid >= frame.n + frame.m /\ Mid \in Int
    BY <1>3 DEF Mid
  <2> HIDE DEF Mid
  <2> QED
    BY <1>2, <1>3, <2>1
<1>5. /\ Distance' = Distance /\ Limit' = Limit /\ Delta' = Delta
      /\ PartA(frame)' = PartA(frame) /\ PartB(frame)' = PartB(frame)
  BY <1>1, SearchStays
<1>6. CASE OverLimit /\ dd' = Limit /\ pc' = "snake"
  <2>1. Distance >= Limit /\ ~ (Limit < Limit)
    BY <1>2, <1>3, <1>6 DEF OverLimit
  <2> QED
    BY <1>3, <1>5, <1>6, <2>1 DEF Found, FoundDepth, FoundForward, FoundBackward, FoundSnake
<1>7. CASE ~OverLimit /\ k' = d /\ pc' = "forward"
  <2>1. 2 * d - 1 < Limit
    BY <1>3, <1>7 DEF OverLimit
  <2>2. \A kk \in Diag(d) : ~ (kk > d)
    BY <1>3, DiagIs
  <2>3. AheadTo' = AheadTo /\ BehindTo' = BehindTo
    BY <1>1 DEF AheadTo, BehindTo, FV, RV, Load, Packed, Delta
  <2>4. FoundForward'
    BY <1>1, <1>2, <1>5, <1>7, <2>1, <2>2, <2>3
       DEF FoundForward, AheadReached, BehindReached
  <2> QED
    BY <1>7, <2>4 DEF Found, FoundDepth, FoundBackward, FoundSnake
<1> QED
  BY <1>1, <1>4, <1>6, <1>7

LEMMA CallDistanceIs ==
  ASSUME Tasked, NEW f \in Box
  PROVE  CallDistance(f) \in Nat
BY PartsAre, SameIs DEF CallDistance

LEMMA FoundStep ==
  ASSUME DiffInv, Found, DiffInv', [Next]_vars
  PROVE  Found' /\ (pc # "error" => pc' # "error")
<1>1. CASE UNCHANGED vars
  <2>1. PartA(frame)' = PartA(frame) /\ PartB(frame)' = PartB(frame)
    BY <1>1 DEF vars, input, search, PartA, PartB
  <2>2. AheadTo' = AheadTo /\ BehindTo' = BehindTo
    BY <1>1 DEF vars, search, AheadTo, BehindTo, FV, RV, Load, Packed, Delta
  <2> QED
    BY <1>1, <2>1, <2>2 DEF vars, input, search, Found, FoundDepth, FoundForward, FoundBackward,
       FoundSnake, SnakeCuts, AheadReached, BehindReached, Apart, Distance, Delta, Limit
<1>2. CASE \/ Prefix \/ SesEmpty \/ MiddleMatch \/ Finish
           \/ SnakeReturn \/ SnakeSplit \/ SnakeBase
  <2>1. pc' \in {"ses", "done"}
    BY <1>2 DEF Prefix, SesEmpty, MiddleMatch, Finish, SnakeReturn, SnakeSplit, SnakeBase
  <2> QED
    BY <2>1 DEF Found, FoundDepth, FoundForward, FoundBackward, FoundSnake
<1>3. CASE SearchStart
  <2>1. pc' = "depth" /\ d' = 0
    BY <1>3 DEF SearchStart
  <2>2. Distance' \in Nat
    <3> DEFINE f == Head(work)
    <3>1. f \in Box /\ Tasked /\ frame' = f /\ UNCHANGED input
      BY <1>3, HeadTailProperties DEF SearchStart, DiffInv, Tasked
    <3>2. Distance' = CallDistance(f)
      BY <3>1 DEF Distance, CallDistance, PartA, PartB, input
    <3> HIDE DEF f
    <3> QED
      BY <3>1, <3>2, CallDistanceIs
  <2>3. Diag(d' - 1) = {} /\ 2 * d' - 1 = -1
    BY <2>1, DiagIs
  <2>4. FoundDepth'
    BY <2>1, <2>2, <2>3 DEF FoundDepth
  <2> QED
    BY <2>1, <2>4 DEF Found, FoundForward, FoundBackward, FoundSnake
<1>4. CASE Depth
  BY <1>4, DepthFinds
<1>5. CASE Forward
  <2>1. pc' # "error"
    BY <1>5 DEF Forward, NextDiagonal
  <2> QED
    BY <1>5, <2>1, ForwardFinds
<1>6. CASE Backward
  <2>1. pc' # "error"
    BY <1>6 DEF Backward, NextDiagonal
  <2> QED
    BY <1>6, <2>1, BackwardFinds
<1> QED
  BY <1>1, <1>2, <1>3, <1>4, <1>5, <1>6 DEF Next

(* Dropping the elements both sequences begin with keeps their distance. *)
LEMMA RestDistance ==
  ASSUME NEW E, NEW s \in Seq(E), NEW t \in Seq(E), NEW c \in Nat,
         c <= Len(s), c <= Len(t), Slides(s, t, 0, 0, c)
  PROVE  ScriptDistance(Slice(s, c, Len(s)), Slice(t, c, Len(t))) = ScriptDistance(s, t)
<1> DEFINE n == Len(s)
           m == Len(t)
           rs == Reverse(s)
           rt == Reverse(t)
           z == n - c
           w == m - c
<1>1. n \in Nat /\ m \in Nat /\ z \in Nat /\ w \in Nat /\ z + c = n /\ w + c = m
  BY LenProperties
<1>2. rs \in Seq(E) /\ rt \in Seq(E)
  BY ReverseIs
<1>3. Dist(s, t, c, c) = 0
  <2>1. 0 \in Nat /\ 0 + c = c
    OBVIOUS
  <2>2. Dist(s, t, 0 + c, 0 + c) = Dist(s, t, 0, 0)
    BY DistSlide
  <2>3. Dist(s, t, 0, 0) = 0
    BY DistIs
  <2> QED
    BY <2>1, <2>2, <2>3
<1>4. /\ Back(s, t, c, c) = ScriptDistance(Slice(s, c, n), Slice(t, c, m))
      /\ Back(s, t, 0, 0) = ScriptDistance(s, t)
      /\ ScriptDistance(s, t) <= Dist(s, t, c, c) + Back(s, t, c, c)
      /\ Back(s, t, c, c) \in Nat /\ Back(s, t, 0, 0) \in Nat
  <2>1. c \in 0 .. Len(s) /\ c \in 0 .. Len(t) /\ 0 \in 0 .. Len(s) /\ 0 \in 0 .. Len(t)
    BY <1>1
  <2> QED
    BY <2>1, BackIs
<1>5. Back(s, t, c, c) <= Back(s, t, 0, 0)
  <2>1. Back(s, t, c, c) = Dist(rs, rt, z, w)
    BY DEF Back
  <2>2. Back(s, t, 0, 0) = Dist(rs, rt, z + c, w + c)
    <3>1. n - 0 = z + c /\ m - 0 = w + c
      BY <1>1
    <3>2. Back(s, t, 0, 0) = Dist(rs, rt, n - 0, m - 0)
      BY DEF Back
    <3> QED
      BY <3>1, <3>2
  <2> HIDE DEF rs, rt, z, w
  <2>3. Dist(rs, rt, z, w) <= Dist(rs, rt, z + c, w + c)
    BY <1>1, <1>2, DistAlong
  <2> QED
    BY <2>1, <2>2, <2>3
<1> QED
  BY <1>3, <1>4, <1>5

(* A part of a part that is compared, as the elements of a and b.          *)
LEMMA SubIs ==
  ASSUME Tasked, NEW f \in Box, NEW x \in 0 .. f.n, NEW u \in 0 .. f.n, x <= u,
         NEW y \in 0 .. f.m, NEW v \in 0 .. f.m, y <= v
  PROVE  /\ SubSeq(a, f.aoff + x + 1, f.aoff + u) = Slice(PartA(f), x, u)
         /\ SubSeq(b, f.boff + y + 1, f.boff + v) = Slice(PartB(f), y, v)
<1> DEFINE p == f.aoff
           q == f.boff
           pn == p + f.n
           qm == q + f.m
<1>1. /\ p \in 0 .. Len(a) /\ pn \in 0 .. Len(a) /\ p <= pn /\ pn - p = f.n
      /\ q \in 0 .. Len(b) /\ qm \in 0 .. Len(b) /\ q <= qm /\ qm - q = f.m
      /\ a \in Seq(Symbols) /\ b \in Seq(Symbols)
  <2>1. /\ p \in Nat /\ f.n \in Nat /\ pn <= Len(a) /\ q \in Nat /\ f.m \in Nat /\ qm <= Len(b)
        /\ a \in Seq(Symbols) /\ b \in Seq(Symbols) /\ Len(a) \in Nat /\ Len(b) \in Nat
    BY LenProperties DEF Box, InBox, Tasked
  <2> QED
    BY SMTT(30), <2>1
<1>2. Slice(Slice(a, p, pn), x, u) = Slice(a, p + x, p + u)
  <2> HIDE DEF p, pn
  <2>1. x \in 0 .. pn - p /\ u \in 0 .. pn - p
    BY <1>1
  <2> QED
    BY <1>1, <2>1, PartOfPart
<1>3. Slice(Slice(b, q, qm), y, v) = Slice(b, q + y, q + v)
  <2> HIDE DEF q, qm
  <2>1. y \in 0 .. qm - q /\ v \in 0 .. qm - q
    BY <1>1
  <2> QED
    BY <1>1, <2>1, PartOfPart
<1>4. /\ Slice(a, p + x, p + u) = SubSeq(a, f.aoff + x + 1, f.aoff + u)
      /\ Slice(b, q + y, q + v) = SubSeq(b, f.boff + y + 1, f.boff + v)
  BY DEF Slice
<1> QED
  BY <1>2, <1>3, <1>4 DEF PartA, PartB

LEMMA FoundOptimal == DiffInv /\ Found => SnakeOptimal
<1> SUFFICES ASSUME DiffInv, Found, pc = "snake", dd < Limit PROVE SnakeOptimal
  BY DEF SnakeOptimal
<1> DEFINE A == PartA(frame)
           B == PartB(frame)
           n == frame.n
           m == frame.m
           x == ms.x
           y == ms.y
           u == ms.u
           v == ms.v
           sub(i, j, g, h) == ScriptDistance(SubSeq(a, frame.aoff + i + 1, frame.aoff + g),
                                             SubSeq(b, frame.boff + j + 1, frame.boff + h))
<1>1. /\ Tasked /\ frame \in Box /\ n \in Nat /\ m \in Nat
      /\ A \in Seq(Symbols) /\ B \in Seq(Symbols) /\ Len(A) = n /\ Len(B) = m
  <2>1. Tasked
    BY DEF DiffInv
  <2> QED
    BY <2>1, FrameIs, PartsAre
<1>2. /\ x \in 0 .. n /\ u \in 0 .. n /\ x <= u /\ 0 \in 0 .. n /\ n \in 0 .. n /\ u <= n
      /\ y \in 0 .. m /\ v \in 0 .. m /\ y <= v /\ 0 \in 0 .. m /\ m \in 0 .. m /\ v <= m
      /\ 0 <= x /\ 0 <= y /\ 0 <= n /\ 0 <= m
  BY <1>1 DEF DiffInv, AtSnake, SnakeIn
<1>3. /\ ScriptDistance(A, B) = dd /\ Dist(A, B, x, y) + Back(A, B, u, v) = dd
      /\ Slice(A, x, u) = Slice(B, y, v)
  BY DEF Found, FoundSnake, Distance, SnakeCuts
<1>4. ASSUME NEW i \in 0 .. n, NEW g \in 0 .. n, i <= g, NEW j \in 0 .. m, NEW h \in 0 .. m, j <= h
      PROVE  sub(i, j, g, h) = ScriptDistance(Slice(A, i, g), Slice(B, j, h))
  BY <1>1, <1>4, SubIs
<1> HIDE DEF A, B, sub, n, m, x, y, u, v
<1>5. sub(0, 0, n, m) = dd
  <2>1. Len(A) \in 0 .. Len(A) /\ Len(B) \in 0 .. Len(B)
    BY <1>1, <1>2
  <2>2. /\ Dist(A, B, Len(A), Len(B)) = ScriptDistance(Slice(A, 0, Len(A)), Slice(B, 0, Len(B)))
        /\ Dist(A, B, Len(A), Len(B)) = ScriptDistance(A, B)
    BY <1>1, <2>1, BackIs
  <2>3. sub(0, 0, n, m) = ScriptDistance(Slice(A, 0, n), Slice(B, 0, m))
    BY <1>2, <1>4
  <2> QED
    BY <1>1, <1>3, <2>2, <2>3
<1>6. sub(0, 0, x, y) = Dist(A, B, x, y)
  <2>1. x \in 0 .. Len(A) /\ y \in 0 .. Len(B)
    BY <1>1, <1>2
  <2>a. A \in Seq(Symbols) /\ B \in Seq(Symbols)
    BY <1>1
  <2>2. Dist(A, B, x, y) = ScriptDistance(Slice(A, 0, x), Slice(B, 0, y))
    BY <2>a, <2>1, BackIs
  <2> QED
    BY <1>2, <1>4, <2>2
<1>7. sub(u, v, n, m) = Back(A, B, u, v)
  <2>1. u \in 0 .. Len(A) /\ v \in 0 .. Len(B)
    BY <1>1, <1>2
  <2>a. A \in Seq(Symbols) /\ B \in Seq(Symbols)
    BY <1>1
  <2>2. Back(A, B, u, v) = ScriptDistance(Slice(A, u, Len(A)), Slice(B, v, Len(B)))
    BY <2>a, <2>1, BackIs
  <2>3. sub(u, v, n, m) = ScriptDistance(Slice(A, u, n), Slice(B, v, m))
    BY <1>2, <1>4
  <2> QED
    BY <1>1, <2>2, <2>3
<1>8. sub(x, y, u, v) = 0
  <2>1. sub(x, y, u, v) = ScriptDistance(Slice(A, x, u), Slice(B, y, v))
    BY <1>2, <1>4
  <2>2. Slice(A, x, u) \in Seq(Symbols)
    <3>1. x \in 0 .. Len(A) /\ u \in 0 .. Len(A)
      BY <1>1, <1>2
    <3> QED
      BY <1>1, <1>2, <3>1, PartIs
  <2> DEFINE p == Slice(A, x, u)
  <2> HIDE DEF p
  <2>3. ScriptDistance(p, p) = 0
    BY <2>2, SameIs DEF p
  <2> QED
    BY <1>3, <2>1, <2>3 DEF p
<1>9. /\ 0 <= x /\ x <= u /\ u <= n /\ 0 <= y /\ y <= v /\ v <= m
      /\ sub(0, 0, n, m) = dd
      /\ dd > 1 => sub(0, 0, x, y) + sub(u, v, n, m) = dd /\ sub(x, y, u, v) = 0
  BY <1>2, <1>3, <1>5, <1>6, <1>7, <1>8
<1> QED
  BY <1>9 DEF SnakeOptimal, sub, n, m, x, y, u, v

(***************************************************************************)
(* What diff will return.                                                  *)
(***************************************************************************)
Whole == ScriptDistance(a, b)
Answers(value) == value \in Nat /\ IF Whole < Limit THEN value = Whole ELSE value >= Limit

(* Until the outermost call has its answer, it is the call to be made or   *)
(* the one whose search is under way.                                      *)
Outermost ==
  /\ pc # "done"
  /\ pc = "ses" => \E t \in Box : work = <<t>> /\ t.call = "ses" /\ CallDistance(t) = Whole
  /\ pc \notin {"prefix", "ses"} => Distance = Whole
Answered == IF ret = None THEN Outermost ELSE Answers(ret)

LEMMA WholeIs ==
  ASSUME Tasked
  PROVE  Whole \in Nat /\ Limit \in Nat
BY SameIs DEF Whole, Tasked, Limit, INT_MAX

LEMMA NothingLeft ==
  ASSUME Tasked, NEW f \in Box
  PROVE  /\ f.n = 0 => CallDistance(f) = f.m
         /\ f.m = 0 => CallDistance(f) = f.n
<1>1. /\ PartA(f) \in Seq(Symbols) /\ Len(PartA(f)) = f.n /\ f.n \in Nat
      /\ PartB(f) \in Seq(Symbols) /\ Len(PartB(f)) = f.m /\ f.m \in Nat
  BY PartsAre
<1>2. /\ f.n = 0 => PartA(f) = <<>>
      /\ f.m = 0 => PartB(f) = <<>>
  BY <1>1, EmptySeq
<1>3. /\ LcsLength(<<>>, PartB(f)) = 0
      /\ LcsLength(PartA(f), <<>>) = 0
  BY <1>1, LcsLengthNothing
<1>4. f.n = 0 => LcsLength(PartA(f), PartB(f)) = 0
  BY <1>2, <1>3
<1>5. f.m = 0 => LcsLength(PartA(f), PartB(f)) = 0
  BY <1>2, <1>3
<1> QED
  BY <1>1, <1>4, <1>5 DEF CallDistance, ScriptDistance

(* The call that diff makes of _ses, behind the prefix the two share. *)
LEMMA PrefixIs ==
  ASSUME DiffInv, Prefix
  PROVE  LET x == Ahead(Ses(0, Len(a), 0, Len(b)), 0, 0)
             rest == Ses(x, Len(a) - x, x, Len(b) - x)
         IN  /\ script' = Edit(script, "match", 0, x) /\ work' = <<rest>>
             /\ x \in 0 .. Len(a) /\ x \in 0 .. Len(b)
             /\ Slides(a, b, 0, 0, x) /\ ~MatchesAt(a, b, x, x)
             /\ rest \in Box /\ rest.call = "ses"
             /\ rest.aoff = x /\ rest.n = Len(a) - x /\ rest.boff = x /\ rest.m = Len(b) - x
             /\ PartA(rest) = Slice(a, x, Len(a)) /\ PartB(rest) = Slice(b, x, Len(b))
             /\ CallDistance(rest) = Whole
<1> DEFINE whole == Ses(0, Len(a), 0, Len(b))
           x == Ahead(whole, 0, 0)
           rest == Ses(x, Len(a) - x, x, Len(b) - x)
<1>1. /\ Tasked /\ Len(a) \in Nat /\ Len(b) \in Nat /\ a \in Seq(Symbols) /\ b \in Seq(Symbols)
  BY LenProperties DEF DiffInv, Tasked
<1>2. /\ whole \in Box /\ whole.n = Len(a) /\ whole.m = Len(b)
      /\ whole.aoff = 0 /\ whole.boff = 0
  BY <1>1 DEF Ses, Box, InBox
<1>3. /\ x \in Nat /\ (x > 0 => x <= Len(a) /\ x <= Len(b))
      /\ Slides(PartA(whole), PartB(whole), 0, 0, x)
      /\ ~MatchesAt(PartA(whole), PartB(whole), x, x)
  <2> HIDE DEF whole
  <2>1. 0 \in Nat
    OBVIOUS
  <2>2. /\ Ahead(whole, 0, 0) \in Nat
        /\ Ahead(whole, 0, 0) > 0 => /\ 0 + Ahead(whole, 0, 0) <= whole.n
                                     /\ 0 + Ahead(whole, 0, 0) <= whole.m
        /\ Slides(PartA(whole), PartB(whole), 0, 0, Ahead(whole, 0, 0))
        /\ ~MatchesAt(PartA(whole), PartB(whole), 0 + Ahead(whole, 0, 0), 0 + Ahead(whole, 0, 0))
    BY <1>1, <1>2, <2>1, AheadIs, AheadSlides
  <2> QED
    BY <1>2, <2>2
<1>4. PartA(whole) = a /\ PartB(whole) = b
  <2>1. /\ PartA(whole) \in Seq(Symbols) /\ Len(PartA(whole)) = whole.n
        /\ PartB(whole) \in Seq(Symbols) /\ Len(PartB(whole)) = whole.m
        /\ \A i \in 1 .. whole.n : PartA(whole)[i] = a[whole.aoff + i]
        /\ \A i \in 1 .. whole.m : PartB(whole)[i] = b[whole.boff + i]
    BY <1>1, <1>2, PartsAre
  <2>2. /\ \A i \in 1 .. Len(a) : PartA(whole)[i] = a[i]
        /\ \A i \in 1 .. Len(b) : PartB(whole)[i] = b[i]
    <3>1. \A i \in Int : 0 + i = i
      OBVIOUS
    <3> HIDE DEF whole
    <3> QED
      BY <1>1, <1>2, <2>1, <3>1
  <2> HIDE DEF whole
  <2> QED
    BY <1>1, <1>2, <2>1, <2>2, SeqEqual
<1>5. /\ x <= Len(a) /\ x <= Len(b)
      /\ Slides(a, b, 0, 0, x) /\ ~MatchesAt(a, b, x, x)
      /\ ScriptDistance(Slice(a, x, Len(a)), Slice(b, x, Len(b))) = Whole
  <2>1. x <= Len(a) /\ x <= Len(b)
    BY <1>1, <1>3
  <2>2. Slides(a, b, 0, 0, x) /\ ~MatchesAt(a, b, x, x)
    BY <1>3, <1>4
  <2> HIDE DEF x
  <2> QED
    BY <1>1, <1>3, <2>1, <2>2, RestDistance DEF Whole
<1>6. script' = Edit(script, "match", 0, x) /\ work' = <<rest>> /\ UNCHANGED input
  BY DEF Prefix
<1>7. /\ rest.call = "ses" /\ rest.aoff = x /\ rest.n = Len(a) - x
      /\ rest.boff = x /\ rest.m = Len(b) - x
  BY DEF Ses
<1>8. /\ PartA(rest) = Slice(a, x, Len(a)) /\ PartB(rest) = Slice(b, x, Len(b))
      /\ CallDistance(rest) = Whole
  <2>1. x + (Len(a) - x) = Len(a) /\ x + (Len(b) - x) = Len(b)
    BY <1>1, <1>3
  <2> HIDE DEF x, rest
  <2> QED
    BY <1>5, <1>7, <2>1 DEF CallDistance, PartA, PartB
<1>9. rest \in Box
  <2>1. DiffInv'
    BY PrefixKeeps
  <2>2. Head(work') \in Box'
    BY <1>6, <2>1 DEF DiffInv, Tasked
  <2>3. Box' = Box
    BY <1>6 DEF input, Box, InBox
  <2> QED
    BY <1>6, <2>2, <2>3
<1>10. x \in 0 .. Len(a) /\ x \in 0 .. Len(b)
  BY <1>1, <1>3, <1>5
<1> HIDE DEF x, rest
<1> QED
  BY <1>5, <1>6, <1>7, <1>8, <1>9, <1>10 DEF x, rest, whole

LEMMA PrefixAnswers ==
  ASSUME DiffInv, Answered, Prefix
  PROVE  Answered'
<1>1. pc = "prefix" /\ pc' = "ses" /\ UNCHANGED <<input, ret>>
  BY DEF Prefix
<1>2. PICK rest \in Box : work' = <<rest>> /\ rest.call = "ses" /\ CallDistance(rest) = Whole
  BY PrefixIs
<1>3. /\ \A t \in Box : CallDistance(t)' = CallDistance(t)
      /\ Whole' = Whole /\ Box' = Box
  BY <1>1 DEF CallDistance, PartA, PartB, Whole, input, Box, InBox
<1>4. CASE ret = None
  <2>1. Outermost'
    BY <1>1, <1>2, <1>3 DEF Outermost
  <2> QED
    BY <1>1, <1>4, <2>1 DEF Answered
<1>5. CASE ret # None
  BY <1>1, <1>3, <1>5 DEF Answered, Answers, Limit, input
<1> QED
  BY <1>4, <1>5

LEMMA Returns ==
  ASSUME Tasked, Answered, NEW value, Returned(value), UNCHANGED input,
         ret = None => value \in Nat /\ Answers(value)
  PROVE  Answered'
<1>1. Whole' = Whole /\ Limit' = Limit
  BY DEF Whole, Limit, input
<1>2. CASE ret = None
  <2>1. ret' = value /\ ret' # None /\ Answers(value)
    BY <1>2 DEF Returned, None
  <2> QED
    BY <1>1, <2>1 DEF Answered, Answers
<1>3. CASE ret # None
  <2>1. ret' = ret /\ Answers(ret)
    BY <1>3 DEF Returned, Answered
  <2> QED
    BY <1>1, <1>3, <2>1 DEF Answered, Answers
<1> QED
  BY <1>2, <1>3

LEMMA AnsweredStep ==
  ASSUME DiffInv, Found, Answered, [Next]_vars
  PROVE  Answered'
<1>1. Tasked /\ Whole \in Nat /\ Limit \in Nat /\ Distance \in Nat
  <2>1. Tasked
    BY DEF DiffInv
  <2> QED
    BY <2>1, WholeIs, DistanceIs
<1>2. UNCHANGED input
  BY DEF vars, Next, Prefix, SesEmpty, MiddleMatch, Finish, SearchStart, Depth, Forward, Backward,
         SnakeReturn, SnakeSplit, SnakeBase
<1>3. /\ Whole' = Whole /\ Limit' = Limit /\ Box' = Box
      /\ \A t : CallDistance(t)' = CallDistance(t)
  BY <1>2 DEF Whole, Limit, Box, InBox, CallDistance, PartA, PartB, input
<1>4. CASE Prefix
  BY <1>4, PrefixAnswers
<1>5. ASSUME pc = "snake", ret = None
      PROVE  IF dd < Limit THEN Whole = dd ELSE Whole >= Limit
  BY <1>5 DEF Found, FoundSnake, Answered, Outermost
<1>6. CASE SesEmpty
  <2> DEFINE f == Head(work)
             value == IF f.n = 0 THEN f.m ELSE f.n
  <2>1. f \in Box
    BY <1>1, <1>6, HeadTailProperties DEF SesEmpty, Tasked
  <2>2. Returned(value) /\ (f.n = 0 \/ f.m = 0) /\ pc = "ses"
    BY <1>6 DEF SesEmpty
  <2>3. f.n \in Nat /\ f.m \in Nat
    BY <2>1 DEF Box
  <2>4. ret = None => CallDistance(f) = Whole
    BY <2>2 DEF Answered, Outermost
  <2> HIDE DEF f
  <2>5. value = CallDistance(f)
    BY <1>1, <2>1, <2>2, <2>3, NothingLeft
  <2>6. ret = None => value \in Nat /\ Answers(value)
    BY <1>1, <2>4, <2>5 DEF Answers
  <2> QED
    BY <1>1, <1>2, <2>2, <2>6, Returns
<1>7. CASE SnakeReturn
  <2> DEFINE value == IF dd >= Limit THEN Limit ELSE dd
  <2>1. Returned(value) /\ pc = "snake"
    BY <1>7 DEF SnakeReturn
  <2>2. ASSUME ret = None PROVE value \in Nat /\ Answers(value)
    <3>a. dd \in Nat
      BY <2>1 DEF Found, FoundSnake
    <3>1. IF dd < Limit THEN Whole = dd ELSE Whole >= Limit
      BY <1>5, <2>1, <2>2
    <3>2. CASE dd < Limit
      <4>1. Whole = dd /\ dd \in Nat /\ ~ (dd >= Limit)
        BY <1>1, <3>1, <3>2
      <4> QED
        BY <3>2, <4>1 DEF Answers
    <3>3. CASE ~ (dd < Limit)
      <4>1. Whole >= Limit /\ ~ (Whole < Limit) /\ Limit >= Limit
        BY <1>1, <3>1, <3>3
      <4>2. value = Limit
        BY <1>1, <3>a, <3>3
      <4> QED
        BY <1>1, <4>1, <4>2 DEF Answers
    <3> QED
      BY <3>2, <3>3
  <2> QED
    BY <1>1, <1>2, <2>1, <2>2, Returns
<1>8. CASE SnakeSplit \/ SnakeBase
  <2>1. Returned(dd) /\ pc = "snake" /\ dd < Limit
    BY <1>8 DEF SnakeSplit, SnakeBase
  <2>2. ret = None => dd \in Nat /\ Answers(dd)
    BY <1>1, <1>5, <2>1 DEF Answers
  <2> QED
    BY <1>1, <1>2, <2>1, <2>2, Returns
<1>9. CASE SearchStart
  <2> DEFINE f == Head(work)
  <2>1. ret' = ret /\ pc = "ses" /\ pc' = "depth" /\ frame' = f
    BY <1>9 DEF SearchStart
  <2>2. ret = None => CallDistance(f) = Whole
    BY <2>1 DEF Answered, Outermost
  <2>3. Distance' = CallDistance(f)
    BY <1>2, <2>1 DEF Distance, CallDistance, PartA, PartB, input
  <2>4. ret = None => Outermost'
    BY <1>3, <2>1, <2>2, <2>3 DEF Outermost
  <2> QED
    BY <1>3, <2>1, <2>4 DEF Answered, Answers
<1>10. CASE Depth \/ Forward \/ Backward
  <2>1. /\ ret' = ret /\ pc \in {"depth", "forward", "backward"} /\ UNCHANGED frame
        /\ pc' \notin {"done", "ses"}
    BY <1>10 DEF Depth, Forward, Backward, NextDiagonal
  <2>2. Distance' = Distance
    BY <1>2, <2>1, SearchStays
  <2>3. ret = None => Outermost'
    BY <1>3, <2>1, <2>2 DEF Answered, Outermost
  <2> QED
    BY <1>3, <2>1, <2>3 DEF Answered, Answers
<1>11. CASE MiddleMatch \/ Finish
  <2>1. ret' = ret /\ pc = "ses"
    BY <1>11 DEF MiddleMatch, Finish
  <2>2. ret # None
    <3>1. ASSUME NEW t \in Box, work = <<t>>, t.call = "ses" PROVE FALSE
      BY <1>11, <3>1 DEF MiddleMatch, Finish
    <3> QED
      BY <2>1, <3>1 DEF Answered, Outermost
  <2> QED
    BY <1>3, <2>1, <2>2 DEF Answered, Answers
<1>12. CASE UNCHANGED vars
  <2>1. /\ ret' = ret /\ pc' = pc /\ work' = work /\ UNCHANGED frame
    BY <1>12 DEF vars, search
  <2>2. Distance' = Distance
    BY <1>2, <2>1, SearchStays
  <2>3. ret = None => Outermost'
    BY <1>3, <2>1, <2>2 DEF Answered, Outermost
  <2> QED
    BY <1>3, <2>1, <2>3 DEF Answered, Answers
<1> QED
  BY <1>4, <1>6, <1>7, <1>8, <1>9, <1>10, <1>11, <1>12 DEF Next

LEMMA FoundInit == Init => Found /\ Answered /\ pc # "error"
BY DEF Init, Found, FoundDepth, FoundForward, FoundBackward, FoundSnake, Answered, Outermost

LEMMA FoundKeeps ==
  DiffInv /\ Found /\ Answered /\ pc # "error" /\ [Next]_vars
    => (DiffInv /\ Found /\ Answered /\ pc # "error")'
BY DiffStep, FoundStep, AnsweredStep

LEMMA AnsweredCorrect == Answered => DistanceCorrect
BY DEF Answered, Answers, Outermost, DistanceCorrect, Whole

LEMMA Always == Spec => [](DiffInv /\ Found /\ Answered /\ pc # "error")
<1>1. Init => DiffInv /\ Found /\ Answered /\ pc # "error"
  BY DiffInit, FoundInit
<1> QED
  BY <1>1, FoundKeeps, PTL DEF Spec

(***************************************************************************)
(* What a script does to a.                                                *)
(***************************************************************************)
MadeBy(edits, h) ==
  [i \in 0 .. Len(edits) |-> IF i = 0 THEN Unedited ELSE After(h[i - 1], edits[i])]

LEMMA MadeIs ==
  ASSUME NEW E, NEW edits \in Seq(E), NEW h
  PROVE  h = MadeBy(edits, h) =>
           /\ h[0] = Unedited
           /\ \A i \in 1 .. Len(edits) : h[i] = After(h[i - 1], edits[i])
<1> SUFFICES ASSUME h = MadeBy(edits, h)
             PROVE  /\ h[0] = Unedited
                    /\ \A i \in 1 .. Len(edits) : h[i] = After(h[i - 1], edits[i])
  OBVIOUS
<1>1. Len(edits) \in Nat
  BY LenProperties
<1>2. \A i \in 0 .. Len(edits) : h[i] = IF i = 0 THEN Unedited ELSE After(h[i - 1], edits[i])
  BY DEF MadeBy
<1> QED
  BY <1>1, <1>2

LEMMA MadeUnique ==
  ASSUME NEW E, NEW edits \in Seq(E), NEW g, NEW h,
         g = MadeBy(edits, g), h = MadeBy(edits, h)
  PROVE  g[Len(edits)] = h[Len(edits)]
<1> DEFINE n == Len(edits)
           S == {i \in Nat : i <= n => g[i] = h[i]}
<1>1. n \in Nat
  BY LenProperties
<1>2. 0 \in S
  BY MadeIs
<1>3. ASSUME NEW i \in Nat, i \in S
      PROVE  i + 1 \in S
  <2> SUFFICES ASSUME i + 1 <= n PROVE g[i + 1] = h[i + 1]
    OBVIOUS
  <2>1. i + 1 \in 1 .. Len(edits) /\ (i + 1) - 1 = i /\ i <= n
    BY <1>1
  <2>2. \A j \in 1 .. Len(edits) : g[j] = After(g[j - 1], edits[j]) /\ h[j] = After(h[j - 1], edits[j])
    BY MadeIs
  <2>3. g[i + 1] = After(g[i], edits[i + 1]) /\ h[i + 1] = After(h[i], edits[i + 1])
    BY <2>1, <2>2
  <2> QED
    BY <1>3, <2>1, <2>3
<1> HIDE DEF S
<1>4. Nat \subseteq S
  BY <1>2, <1>3, Induction
<1> QED
  BY <1>1, <1>4 DEF S

(* One more edit, one more turn. *)
Made(h, edits, e) ==
  [i \in 0 .. Len(edits) + 1 |-> IF i = Len(edits) + 1 THEN After(h[Len(edits)], e) ELSE h[i]]

LEMMA MadeMore ==
  ASSUME NEW E, NEW edits \in Seq(E), NEW e \in E, NEW h, h = MadeBy(edits, h)
  PROVE  LET g == Made(h, edits, e)
         IN  g = MadeBy(Append(edits, e), g)
<1> DEFINE n == Len(edits)
           more == Append(edits, e)
           g == Made(h, edits, e)
<1>1. /\ n \in Nat /\ Len(more) = n + 1 /\ more[n + 1] = e
      /\ \A i \in 1 .. n : more[i] = edits[i]
  BY LenProperties, AppendProperties
<1>2. /\ h[0] = Unedited
      /\ \A i \in 1 .. n : h[i] = After(h[i - 1], edits[i])
  BY MadeIs
<1>3. \A i \in 0 .. n + 1 : g[i] = IF i = n + 1 THEN After(h[n], e) ELSE h[i]
  BY DEF Made
<1>4. g = [i \in 0 .. n + 1 |-> g[i]]
  BY DEF Made
<1> HIDE DEF g, more, n
<1>5. ASSUME NEW i \in 0 .. n + 1
      PROVE  g[i] = IF i = 0 THEN Unedited ELSE After(g[i - 1], more[i])
  <2>1. CASE i = 0
    BY <1>1, <1>2, <1>3, <2>1
  <2>2. CASE i = n + 1
    <3>1. g[i] = After(h[n], e) /\ i # 0 /\ i - 1 = n /\ n \in 0 .. n + 1 /\ n # n + 1
      BY <1>1, <1>3, <2>2
    <3>2. g[n] = h[n]
      BY <1>3, <3>1
    <3> QED
      BY <1>1, <2>2, <3>1, <3>2
  <2>3. CASE i # 0 /\ i # n + 1
    <3>1. i \in 1 .. n /\ i - 1 \in 0 .. n + 1 /\ i - 1 # n + 1
      BY <1>1, <2>3
    <3>2. g[i] = h[i] /\ g[i - 1] = h[i - 1]
      BY <1>3, <2>3, <3>1
    <3> QED
      BY <1>1, <1>2, <2>3, <3>1, <3>2
  <2> QED
    BY <2>1, <2>2, <2>3
<1>6. g = MadeBy(more, g)
  BY <1>1, <1>4, <1>5 DEF MadeBy
<1> QED
  BY <1>6 DEF g, more

LEMMA MadeExists ==
  ASSUME NEW E, NEW edits \in Seq(E)
  PROVE  \E h : h = MadeBy(edits, h)
<1> DEFINE P(s) == \E h : h = MadeBy(s, h)
           S == {s \in Seq(E) : P(s)}
<1>1. <<>> \in S
  <2> DEFINE h == [i \in 0 .. 0 |-> Unedited]
  <2>1. h = MadeBy(<<>>, h)
    <3>1. Len(<<>>) = 0 /\ \A i \in 0 .. 0 : i = 0
      OBVIOUS
    <3> QED
      BY <3>1 DEF MadeBy
  <2> QED
    BY <2>1
<1>2. ASSUME NEW s \in Seq(E), NEW e \in E, s \in S
      PROVE  Append(s, e) \in S
  <2>1. PICK h : h = MadeBy(s, h)
    BY <1>2
  <2>2. Made(h, s, e) = MadeBy(Append(s, e), Made(h, s, e))
    BY <2>1, MadeMore
  <2>3. Append(s, e) \in Seq(E)
    BY AppendProperties
  <2> QED
    BY <2>2, <2>3
<1> HIDE DEF S
<1>3. Seq(E) \subseteq S
  BY <1>1, <1>2, SeqInduction
<1> QED
  BY <1>3 DEF S

LEMMA ApplyIs ==
  ASSUME NEW E, NEW edits \in Seq(E), NEW h, h = MadeBy(edits, h)
  PROVE  Apply(edits) = h[Len(edits)]
<1> DEFINE P(g) == g = MadeBy(edits, g)
           made == CHOOSE g : P(g)
<1>1. Apply(edits) = made[Len(edits)]
  BY DEF Apply, MadeBy
<1> HIDE DEF P
<1>2. P(made)
  BY DEF P
<1> HIDE DEF made
<1>3. made = MadeBy(edits, made)
  BY <1>2 DEF P
<1> QED
  BY <1>1, <1>3, MadeUnique

LEMMA ApplyNone == Apply(<<>>) = Unedited
<1>1. <<>> \in Seq({})
  OBVIOUS
<1>2. PICK h : h = MadeBy(<<>>, h)
  BY <1>1, MadeExists
<1>3. h[0] = Unedited
  BY <1>1, <1>2, MadeIs
<1>4. Apply(<<>>) = h[Len(<<>>)] /\ Len(<<>>) = 0
  BY <1>1, <1>2, ApplyIs
<1> QED
  BY <1>3, <1>4

LEMMA ApplyMore ==
  ASSUME NEW E, NEW edits \in Seq(E), NEW e \in E
  PROVE  Apply(Append(edits, e)) = After(Apply(edits), e)
<1>1. PICK h : h = MadeBy(edits, h)
  BY MadeExists
<1> DEFINE g == Made(h, edits, e)
           more == Append(edits, e)
<1>2. g = MadeBy(more, g)
  BY <1>1, MadeMore
<1>3. g[Len(edits) + 1] = After(h[Len(edits)], e)
  <2>1. Len(edits) + 1 \in 0 .. Len(edits) + 1
    BY LenProperties
  <2> QED
    BY <2>1 DEF Made
<1>4. more \in Seq(E) /\ Len(more) = Len(edits) + 1
  BY AppendProperties
<1> HIDE DEF g, more
<1>5. Apply(more) = g[Len(more)]
  BY <1>2, <1>4, ApplyIs
<1>6. Apply(edits) = h[Len(edits)]
  BY <1>1, ApplyIs
<1> QED
  BY <1>3, <1>4, <1>5, <1>6 DEF more

(***************************************************************************)
(* A script as a path through the edit graph of a and b: the point it has  *)
(* reached, and what it has cost.                                          *)
(***************************************************************************)
EditType == [op : {"match", "delete", "insert"}, off : Nat, len : Nat]
Point == [x : 0 .. Len(a), y : 0 .. Len(b), c : 0 .. Whole]
At(p) == [ok |-> TRUE, at |-> p.x, cost |-> p.c, out |-> Slice(b, 0, p.y)]

Goes(e, p, q) ==
  CASE e.op = "match"  -> /\ e.off = p.x /\ q.x = p.x + e.len /\ q.y = p.y + e.len /\ q.c = p.c
                          /\ Slice(a, p.x, q.x) = Slice(b, p.y, q.y)
    [] e.op = "delete" -> e.off = p.x /\ q.x = p.x + e.len /\ q.y = p.y /\ q.c = p.c + e.len
    [] e.op = "insert" -> e.off = p.y /\ q.x = p.x /\ q.y = p.y + e.len /\ q.c = p.c + e.len

LEMMA GoesTo ==
  ASSUME Tasked, NEW p \in Point, NEW q \in Point, NEW e \in EditType, Goes(e, p, q)
  PROVE  After(At(p), e) = At(q)
<1>1. /\ p.x \in Nat /\ p.y \in Nat /\ p.c \in Nat /\ q.x \in Nat /\ q.y \in Nat /\ q.c \in Nat
      /\ p.x \in 0 .. Len(a) /\ q.x \in 0 .. Len(a) /\ p.y \in 0 .. Len(b) /\ q.y \in 0 .. Len(b)
      /\ e.len \in Nat /\ e.off \in Nat /\ 0 \in 0 .. Len(b)
      /\ a \in Seq(Symbols) /\ b \in Seq(Symbols)
  BY LenProperties DEF Point, EditType, Tasked
<1>2. At(p).ok = TRUE /\ At(p).at = p.x /\ At(p).cost = p.c /\ At(p).out = Slice(b, 0, p.y)
  BY DEF At
<1>3. Len(Slice(b, 0, p.y)) = p.y
  BY <1>1, PartIs
<1>4. p.y <= q.y => Slice(b, 0, p.y) \o Slice(b, p.y, q.y) = Slice(b, 0, q.y)
  <2> DEFINE i == p.y
             j == q.y
  <2>1. 0 <= i /\ i \in 0 .. Len(b) /\ j \in 0 .. Len(b) /\ 0 \in 0 .. Len(b) /\ b \in Seq(Symbols)
    BY <1>1
  <2> HIDE DEF i, j
  <2>2. i <= j => Slice(b, 0, i) \o Slice(b, i, j) = Slice(b, 0, j)
    BY <2>1, PartJoin
  <2> QED
    BY <2>2 DEF i, j
<1>5. CASE e.op = "match"
  <2>1. /\ e.off = p.x /\ q.x = p.x + e.len /\ q.y = p.y + e.len /\ q.c = p.c
        /\ Slice(a, p.x, q.x) = Slice(b, p.y, q.y)
    BY <1>5 DEF Goes
  <2>2. SubSeq(a, e.off + 1, e.off + e.len) = Slice(b, p.y, q.y) /\ p.y <= q.y
    <3>1. SubSeq(a, e.off + 1, e.off + e.len) = Slice(a, p.x, q.x)
      BY <2>1 DEF Slice
    <3>2. p.y <= q.y
      BY <1>1, <2>1
    <3> QED
      BY <2>1, <3>1, <3>2
  <2>3. After(At(p), e) = [ok  |-> At(p).ok /\ e.off = At(p).at,
                           at  |-> At(p).at + e.len, cost |-> At(p).cost,
                           out |-> At(p).out \o SubSeq(a, e.off + 1, e.off + e.len)]
    BY <1>5 DEF After
  <2> QED
    BY <1>2, <1>4, <2>1, <2>2, <2>3 DEF At
<1>6. CASE e.op = "delete"
  <2>1. e.off = p.x /\ q.x = p.x + e.len /\ q.y = p.y /\ q.c = p.c + e.len
    BY <1>6 DEF Goes
  <2>2. After(At(p), e) = [ok  |-> At(p).ok /\ e.off = At(p).at,
                           at  |-> At(p).at + e.len, cost |-> At(p).cost + e.len,
                           out |-> At(p).out]
    BY <1>6 DEF After
  <2> QED
    BY <1>2, <2>1, <2>2 DEF At
<1>7. CASE e.op = "insert"
  <2>1. e.off = p.y /\ q.x = p.x /\ q.y = p.y + e.len /\ q.c = p.c + e.len
    BY <1>7 DEF Goes
  <2>2. SubSeq(b, e.off + 1, e.off + e.len) = Slice(b, p.y, q.y) /\ p.y <= q.y
    BY <1>1, <2>1 DEF Slice
  <2>3. After(At(p), e) = [ok  |-> At(p).ok /\ e.off = Len(At(p).out),
                           at  |-> At(p).at, cost |-> At(p).cost + e.len,
                           out |-> At(p).out \o SubSeq(b, e.off + 1, e.off + e.len)]
    BY <1>7 DEF After
  <2> QED
    BY <1>2, <1>3, <1>4, <2>1, <2>2, <2>3 DEF At
<1> QED
  BY <1>5, <1>6, <1>7 DEF EditType

(* Two edits of one kind, one after the other, are one edit. *)
LEMMA GoesOn ==
  ASSUME Tasked, NEW p \in Point, NEW q \in Point, NEW r \in Point,
         NEW e \in EditType, NEW f \in EditType, e.op = f.op, Goes(e, p, q), Goes(f, q, r)
  PROVE  LET g == [e EXCEPT !.len = @ + f.len]
         IN  g \in EditType /\ g.op = e.op /\ Goes(g, p, r)
<1> DEFINE g == [e EXCEPT !.len = @ + f.len]
<1>1. /\ p.x \in Nat /\ p.y \in Nat /\ p.c \in Nat /\ q.x \in Nat /\ q.y \in Nat /\ q.c \in Nat
      /\ r.x \in Nat /\ r.y \in Nat /\ r.c \in Nat
      /\ p.x \in 0 .. Len(a) /\ q.x \in 0 .. Len(a) /\ r.x \in 0 .. Len(a)
      /\ p.y \in 0 .. Len(b) /\ q.y \in 0 .. Len(b) /\ r.y \in 0 .. Len(b)
      /\ e.len \in Nat /\ f.len \in Nat
      /\ a \in Seq(Symbols) /\ b \in Seq(Symbols)
  BY LenProperties DEF Point, EditType, Tasked
<1>2. g \in EditType /\ g.op = e.op /\ g.off = e.off /\ g.len = e.len + f.len
  <2>1. e = [op |-> e.op, off |-> e.off, len |-> e.len]
    BY DEF EditType
  <2>2. g = [op |-> e.op, off |-> e.off, len |-> e.len + f.len]
    BY <2>1
  <2>3. e.op \in {"match", "delete", "insert"} /\ e.off \in Nat /\ e.len + f.len \in Nat
    BY <1>1 DEF EditType
  <2> HIDE DEF g
  <2> QED
    BY <2>2, <2>3 DEF EditType
<1> HIDE DEF g
<1>3. CASE e.op = "match"
  <2>1. /\ e.off = p.x /\ q.x = p.x + e.len /\ q.y = p.y + e.len /\ q.c = p.c
        /\ Slice(a, p.x, q.x) = Slice(b, p.y, q.y)
    BY <1>3 DEF Goes
  <2>2. /\ r.x = q.x + f.len /\ r.y = q.y + f.len /\ r.c = q.c
        /\ Slice(a, q.x, r.x) = Slice(b, q.y, r.y)
    BY <1>3 DEF Goes
  <2>3. p.x <= q.x /\ q.x <= r.x /\ p.y <= q.y /\ q.y <= r.y
    BY SMTT(30), <1>1, <2>1, <2>2
  <2>4. /\ Slice(a, p.x, q.x) \o Slice(a, q.x, r.x) = Slice(a, p.x, r.x)
        /\ Slice(b, p.y, q.y) \o Slice(b, q.y, r.y) = Slice(b, p.y, r.y)
    BY <1>1, <2>3, PartJoin
  <2>5. Slice(a, p.x, r.x) = Slice(b, p.y, r.y)
    BY <2>1, <2>2, <2>4
  <2>6. r.x = p.x + (e.len + f.len) /\ r.y = p.y + (e.len + f.len)
    BY SMTT(30), <1>1, <2>1, <2>2
  <2>7. Goes(g, p, r)
    BY <1>2, <1>3, <2>1, <2>2, <2>5, <2>6 DEF Goes
  <2> QED
    BY <1>2, <2>7 DEF g
<1>4. CASE e.op = "delete"
  <2>1. /\ e.off = p.x /\ q.x = p.x + e.len /\ q.y = p.y /\ q.c = p.c + e.len
        /\ r.x = q.x + f.len /\ r.y = q.y /\ r.c = q.c + f.len
    BY <1>4 DEF Goes
  <2>2. r.x = p.x + (e.len + f.len) /\ r.c = p.c + (e.len + f.len)
    BY SMTT(30), <1>1, <2>1
  <2>3. Goes(g, p, r)
    BY <1>2, <1>4, <2>1, <2>2 DEF Goes
  <2> QED
    BY <1>2, <2>3 DEF g
<1>5. CASE e.op = "insert"
  <2>1. /\ e.off = p.y /\ q.x = p.x /\ q.y = p.y + e.len /\ q.c = p.c + e.len
        /\ r.x = q.x /\ r.y = q.y + f.len /\ r.c = q.c + f.len
    BY <1>5 DEF Goes
  <2>2. r.y = p.y + (e.len + f.len) /\ r.c = p.c + (e.len + f.len)
    BY <1>1, <2>1
  <2>3. Goes(g, p, r)
    BY <1>2, <1>5, <2>1, <2>2 DEF Goes
  <2> QED
    BY <1>2, <2>3 DEF g
<1> QED
  BY <1>3, <1>4, <1>5 DEF EditType

(* The script is a path that ends in q; its last edit began on it too, so  *)
(* that the edit can be extended.                                          *)
Written(edits, q) ==
  /\ edits \in Seq(EditType) /\ Apply(edits) = At(q)
  /\ edits # <<>> => \E p \in Point : /\ Apply(Front(edits)) = At(p)
                                      /\ Goes(Last(edits), p, q)

LEMMA FrontIs ==
  ASSUME NEW E, NEW s \in Seq(E), s # <<>>
  PROVE  /\ Front(s) \in Seq(E) /\ Last(s) \in E /\ Last(s) = s[Len(s)]
         /\ Len(s) \in Nat /\ Len(s) > 0 /\ Len(Front(s)) = Len(s) - 1
         /\ \A i \in 1 .. Len(s) - 1 : Front(s)[i] = s[i]
         /\ s = Append(Front(s), Last(s))
<1>1. Len(s) \in Nat /\ Len(s) > 0 /\ \A i \in 1 .. Len(s) : s[i] \in E
  BY EmptySeq, LenProperties, ElementOfSeq
<1>2. Front(s) = SubSeq(s, 1, Len(s) - 1) /\ Last(s) = s[Len(s)] /\ Last(s) \in E
  BY <1>1 DEF Front, Last
<1>3. /\ Len(s) - 1 \in 0 .. Len(s)
      /\ SubSeq(s, 1, Len(s) - 1) \in Seq(E) /\ Len(SubSeq(s, 1, Len(s) - 1)) = Len(s) - 1
      /\ \A i \in 1 .. Len(s) - 1 : SubSeq(s, 1, Len(s) - 1)[i] = s[i]
  <2>1. Len(s) - 1 \in 0 .. Len(s)
    BY <1>1
  <2> DEFINE j == Len(s) - 1
  <2> HIDE DEF j
  <2>2. j \in 0 .. Len(s)
    BY <2>1 DEF j
  <2>3. /\ SubSeq(s, 1, j) \in Seq(E) /\ Len(SubSeq(s, 1, j)) = j
        /\ \A i \in 1 .. j : SubSeq(s, 1, j)[i] = s[i]
    BY <2>2, FirstPart
  <2> QED
    BY <2>1, <2>3 DEF j
<1> DEFINE t == Append(Front(s), Last(s))
<1>4. /\ t \in Seq(E) /\ Len(t) = Len(s) /\ t[Len(s)] = s[Len(s)]
      /\ \A i \in 1 .. Len(s) - 1 : t[i] = s[i]
  BY <1>1, <1>2, <1>3, AppendProperties
<1> HIDE DEF t
<1>5. \A i \in 1 .. Len(s) : t[i] = s[i]
  BY <1>1, <1>4
<1>6. s = t
  BY <1>4, <1>5, SeqEqual
<1> QED
  BY <1>1, <1>2, <1>3, <1>6 DEF t

LEMMA AppendIs ==
  ASSUME NEW E, NEW s \in Seq(E), NEW e \in E
  PROVE  /\ Append(s, e) \in Seq(E) /\ Append(s, e) # <<>>
         /\ Front(Append(s, e)) = s /\ Last(Append(s, e)) = e
<1> DEFINE t == Append(s, e)
<1>1. /\ t \in Seq(E) /\ Len(t) = Len(s) + 1 /\ t[Len(s) + 1] = e /\ Len(s) \in Nat
      /\ \A i \in 1 .. Len(s) : t[i] = s[i]
  BY LenProperties, AppendProperties
<1> HIDE DEF t
<1>2. t # <<>>
  BY <1>1, EmptySeq
<1>3. /\ Front(t) \in Seq(E) /\ Last(t) = e /\ Len(Front(t)) = Len(s)
      /\ \A i \in 1 .. Len(s) : Front(t)[i] = s[i]
  BY <1>1, <1>2, FrontIs
<1>4. Front(t) = s
  BY <1>3, SeqEqual
<1> QED
  BY <1>1, <1>2, <1>3, <1>4 DEF t

LEMMA AppendWrites ==
  ASSUME Tasked, NEW p \in Point, NEW q \in Point, NEW edits \in Seq(EditType),
         NEW e \in EditType, Apply(edits) = At(p), Goes(e, p, q)
  PROVE  Written(Append(edits, e), q)
<1> DEFINE t == Append(edits, e)
<1>1. t \in Seq(EditType) /\ t # <<>> /\ Front(t) = edits /\ Last(t) = e
  BY AppendIs
<1>2. Apply(t) = At(q)
  BY ApplyMore, GoesTo
<1> HIDE DEF t
<1>3. Written(t, q)
  BY <1>1, <1>2 DEF Written
<1> QED
  BY <1>3 DEF t

(* _edit, whether it drops, extends or appends. *)
LEMMA EditWrites ==
  ASSUME Tasked, collect = TRUE, NEW p \in Point, NEW q \in Point, NEW edits, Written(edits, p),
         NEW op \in {"match", "delete", "insert"}, NEW off \in Nat, NEW len \in Nat,
         Goes([op |-> op, off |-> off, len |-> len], p, q)
  PROVE  Written(Edit(edits, op, off, len), q)
<1> DEFINE e == [op |-> op, off |-> off, len |-> len]
           n == Len(edits)
           l == Last(edits)
           more == [edits EXCEPT ![n].len = @ + len]
<1>1. e \in EditType /\ e.op = op /\ e.len = len /\ e.off = off /\ Goes(e, p, q)
  BY DEF EditType
<1>2. edits \in Seq(EditType) /\ Apply(edits) = At(p)
  BY DEF Written
<1> HIDE DEF e
<1>3. CASE len = 0
  <2>1. q.x = p.x /\ q.y = p.y /\ q.c = p.c
    <3>1. /\ p.x \in Int /\ p.y \in Int /\ p.c \in Int
          /\ p.x + 0 = p.x /\ p.y + 0 = p.y /\ p.c + 0 = p.c
      BY DEF Point
    <3>2. e.op \in {"match", "delete", "insert"} /\ e.len = 0
      BY <1>1, <1>3
    <3>3. CASE e.op = "match"
      BY <1>1, <3>1, <3>2, <3>3 DEF Goes
    <3>4. CASE e.op = "delete"
      BY <1>1, <3>1, <3>2, <3>4 DEF Goes
    <3>5. CASE e.op = "insert"
      BY <1>1, <3>1, <3>2, <3>5 DEF Goes
    <3> QED
      BY <3>2, <3>3, <3>4, <3>5
  <2>2. p = q
    BY <2>1 DEF Point
  <2>3. Edit(edits, op, off, len) = edits
    BY <1>3 DEF Edit
  <2> QED
    BY <2>2, <2>3
<1>4. CASE len # 0 /\ ~ (edits # <<>> /\ l.op = op)
  <2>1. Edit(edits, op, off, len) = Append(edits, e)
    BY <1>4 DEF Edit, e
  <2> QED
    BY <1>1, <1>2, <2>1, AppendWrites
<1>5. CASE len # 0 /\ edits # <<>> /\ l.op = op
  <2> DEFINE f == Front(edits)
             g == [l EXCEPT !.len = @ + e.len]
  <2>1. Edit(edits, op, off, len) = more
    BY <1>5 DEF Edit
  <2>2. /\ f \in Seq(EditType) /\ l \in EditType /\ l = edits[n] /\ n \in Nat /\ n > 0
        /\ Len(f) = n - 1 /\ \A i \in 1 .. n - 1 : f[i] = edits[i]
        /\ edits = Append(f, l)
    BY <1>2, <1>5, FrontIs
  <2>3. PICK o \in Point : Apply(f) = At(o) /\ Goes(l, o, p)
    BY <1>5 DEF Written
  <2>4. g \in EditType /\ Goes(g, o, q)
    <3> HIDE DEF l
    <3> QED
      BY <1>1, <1>5, <2>2, <2>3, GoesOn
  <2>5. more = Append(f, g)
    <3>1. more = [edits EXCEPT ![n] = g]
      BY <1>1, <2>2
    <3>2. /\ more \in Seq(EditType) /\ Len(more) = n
          /\ \A i \in 1 .. n : more[i] = IF i = n THEN g ELSE edits[i]
      <4> HIDE DEF g, more, l
      <4>1. DOMAIN edits = 1 .. n /\ \A i \in 1 .. n : edits[i] \in EditType
        BY <1>2, <2>2, LenProperties, ElementOfSeq
      <4>2. more = [i \in 1 .. n |-> IF i = n THEN g ELSE edits[i]]
        BY <3>1, <4>1
      <4>3. more \in [1 .. n -> EditType]
        BY <2>4, <4>1, <4>2
      <4> QED
        BY <2>2, <4>2, <4>3
    <3> DEFINE t == Append(f, g)
    <3>3. /\ t \in Seq(EditType) /\ Len(t) = Len(f) + 1 /\ t[Len(f) + 1] = g
          /\ \A i \in 1 .. Len(f) : t[i] = f[i]
      BY <2>2, <2>4, AppendProperties
    <3> HIDE DEF t, g, more, f, l
    <3>4. Len(t) = n /\ \A i \in 1 .. n : t[i] = more[i]
      <4> HIDE DEF n
      <4>1. Len(t) = n /\ t[n] = g /\ \A i \in 1 .. n - 1 : t[i] = f[i]
        BY <2>2, <3>3
      <4>2. \A i \in 1 .. n : i # n => i \in 1 .. n - 1
        BY <2>2
      <4> QED
        BY <2>2, <3>2, <4>1, <4>2
    <3> QED
      BY <3>2, <3>3, <3>4, SeqEqual DEF t
  <2> HIDE DEF f, g
  <2>6. Written(Append(f, g), q)
    BY <2>2, <2>3, <2>4, AppendWrites
  <2> QED
    BY <2>1, <2>5, <2>6
<1> QED
  BY <1>3, <1>4, <1>5

(***************************************************************************)
(* The pending calls and matches as the rest of that path.                 *)
(***************************************************************************)

(* A call with one edit has it at the start or at the end, the four base   *)
(* cases of line 247.                                                      *)
Simple(s, t) ==
  /\ ScriptDistance(s, t) = 0 => Len(s) = 0 \/ Len(t) = 0
  /\ ScriptDistance(s, t) = 1 /\ Len(s) # 0 /\ Len(t) # 0 => EditAtStart(s, t) \/ EditAtEnd(s, t)

Does(t, p, q) ==
  /\ t.aoff = p.x /\ q.x = p.x + t.n
  /\ IF t.call = "ses"
     THEN /\ t.boff = p.y /\ q.y = p.y + t.m /\ q.c = p.c + CallDistance(t)
          /\ Simple(PartA(t), PartB(t))
     ELSE q.y = p.y + t.n /\ q.c = p.c /\ Slice(a, p.x, q.x) = Slice(b, p.y, q.y)

Corner == [x |-> Len(a), y |-> Len(b), c |-> Whole]
Joins(ts, P) == /\ P[Len(ts) + 1] = Corner
                /\ \A i \in 1 .. Len(ts) + 1 : P[i] \in Point
                /\ \A i \in 1 .. Len(ts) : Does(ts[i], P[i], P[i + 1])
Chain(ts, p) == \E P : P[1] = p /\ Joins(ts, P)

LEMMA ChainNothing ==
  ASSUME NEW p, Chain(<<>>, p)
  PROVE  p = Corner
<1>1. Len(<<>>) + 1 = 1
  OBVIOUS
<1> QED
  BY <1>1 DEF Chain, Joins

LEMMA ChainHead ==
  ASSUME NEW E, NEW ts \in Seq(E), ts # <<>>, NEW p, Chain(ts, p)
  PROVE  \E q \in Point : Does(Head(ts), p, q) /\ Chain(Tail(ts), q)
<1> DEFINE n == Len(ts)
           r == Tail(ts)
<1>1. PICK P : P[1] = p /\ Joins(ts, P)
  BY DEF Chain
<1>2. /\ n \in Nat /\ n > 0 /\ Len(r) = n - 1 /\ Head(ts) = ts[1]
      /\ \A i \in 1 .. n - 1 : r[i] = ts[i + 1]
  BY EmptySeq, LenProperties, HeadTailProperties
<1> DEFINE Q == [i \in 1 .. n |-> P[i + 1]]
<1>3. \A i \in 1 .. n : Q[i] = P[i + 1]
  OBVIOUS
<1> HIDE DEF Q, r, n
<1>4. /\ P[n + 1] = Corner
      /\ \A i \in 1 .. n + 1 : P[i] \in Point
      /\ \A i \in 1 .. n : Does(ts[i], P[i], P[i + 1])
  BY <1>1 DEF Joins, n
<1>5. Joins(r, Q)
  <2>1. Len(r) + 1 = n
    BY <1>2
  <2>2. Q[n] = Corner
    BY <1>2, <1>3, <1>4
  <2>3. \A i \in 1 .. n : Q[i] \in Point
    BY <1>2, <1>3, <1>4
  <2>4. ASSUME NEW i \in 1 .. n - 1 PROVE Does(r[i], Q[i], Q[i + 1])
    <3>1. i + 1 \in 1 .. n /\ i \in 1 .. n
      BY <1>2
    <3>2. r[i] = ts[i + 1] /\ Q[i] = P[i + 1] /\ Q[i + 1] = P[(i + 1) + 1]
      BY <1>2, <1>3, <3>1
    <3> QED
      BY <1>4, <3>1, <3>2
  <2> QED
    BY <1>2, <2>1, <2>2, <2>3, <2>4 DEF Joins
<1>6. P[2] \in Point /\ Does(Head(ts), p, P[2]) /\ Q[1] = P[2]
  <2>1. 1 \in 1 .. n /\ 1 + 1 = 2 /\ 2 \in 1 .. n + 1
    BY <1>2
  <2> QED
    BY <1>1, <1>2, <1>3, <1>4, <2>1
<1> QED
  BY <1>5, <1>6 DEF Chain, r

LEMMA ChainMore ==
  ASSUME NEW E, NEW ts \in Seq(E), NEW t \in E, NEW p \in Point, NEW q \in Point,
         Does(t, p, q), Chain(ts, q)
  PROVE  Chain(<<t>> \o ts, p) /\ <<t>> \o ts \in Seq(E)
<1> DEFINE n == Len(ts)
           r == <<t>> \o ts
<1>1. PICK P : P[1] = q /\ Joins(ts, P)
  BY DEF Chain
<1>2. /\ n \in Nat /\ r \in Seq(E) /\ Len(r) = n + 1 /\ r[1] = t
      /\ \A i \in 1 .. n : r[i + 1] = ts[i]
  <2>1. <<t>> \in Seq(E) /\ Len(<<t>>) = 1 /\ <<t>>[1] = t /\ n \in Nat
    BY LenProperties
  <2> DEFINE u == <<t>>
  <2> HIDE DEF u
  <2>2. u \in Seq(E) /\ Len(u) = 1 /\ u[1] = t
    BY <2>1 DEF u
  <2>3. /\ u \o ts \in Seq(E) /\ Len(u \o ts) = Len(u) + Len(ts)
        /\ \A i \in 1 .. Len(u) + Len(ts) :
             (u \o ts)[i] = IF i <= Len(u) THEN u[i] ELSE ts[i - Len(u)]
    BY <2>2, ConcatProperties
  <2>4. (u \o ts)[1] = t
    BY <2>1, <2>2, <2>3
  <2>5. ASSUME NEW i \in 1 .. n PROVE (u \o ts)[i + 1] = ts[i]
    <3>1. i + 1 \in 1 .. 1 + n /\ ~ (i + 1 <= 1) /\ (i + 1) - 1 = i
      BY <2>1
    <3> QED
      BY <2>2, <2>3, <3>1
  <2> QED
    BY <2>1, <2>2, <2>3, <2>4, <2>5 DEF u
<1> DEFINE Q == [i \in 1 .. n + 2 |-> IF i = 1 THEN p ELSE P[i - 1]]
<1>3. Q[1] = p /\ \A i \in 1 .. n + 1 : Q[i + 1] = P[i]
  <2>1. 1 \in 1 .. n + 2
    BY <1>2
  <2>2. ASSUME NEW i \in 1 .. n + 1 PROVE Q[i + 1] = P[i]
    <3>1. i + 1 \in 1 .. n + 2 /\ i + 1 # 1 /\ (i + 1) - 1 = i
      BY <1>2
    <3> QED
      BY <3>1
  <2> QED
    BY <2>1, <2>2
<1> HIDE DEF Q, r, n
<1>4. /\ P[n + 1] = Corner
      /\ \A i \in 1 .. n + 1 : P[i] \in Point
      /\ \A i \in 1 .. n : Does(ts[i], P[i], P[i + 1])
  BY <1>1 DEF Joins, n
<1>5. Joins(r, Q)
  <2>1. Len(r) + 1 = (n + 1) + 1 /\ n + 1 \in 1 .. n + 1
    BY <1>2
  <2>2. Q[(n + 1) + 1] = Corner
    BY <1>3, <1>4, <2>1
  <2>3. ASSUME NEW i \in 1 .. (n + 1) + 1 PROVE Q[i] \in Point
    <3>1. i = 1 \/ (i - 1 \in 1 .. n + 1 /\ (i - 1) + 1 = i)
      BY <1>2
    <3> QED
      BY <1>3, <1>4, <3>1
  <2>4. ASSUME NEW i \in 1 .. n + 1 PROVE Does(r[i], Q[i], Q[i + 1])
    <3>1. CASE i = 1
      <4>1. r[i] = t /\ Q[i] = p /\ Q[i + 1] = q
        BY <1>1, <1>2, <1>3, <3>1
      <4> QED
        BY <4>1
    <3>2. CASE i # 1
      <4>1. i - 1 \in 1 .. n /\ i - 1 \in 1 .. n + 1 /\ (i - 1) + 1 = i
        BY <1>2, <3>2
      <4>2. r[i] = ts[i - 1] /\ Q[i] = P[i - 1] /\ Q[i + 1] = P[(i - 1) + 1]
        <5>1. r[(i - 1) + 1] = ts[i - 1] /\ Q[(i - 1) + 1] = P[i - 1]
          BY <1>2, <1>3, <4>1
        <5>2. Q[i + 1] = P[i]
          BY <1>3
        <5> QED
          BY <4>1, <5>1, <5>2
      <4> QED
        BY <1>4, <4>1, <4>2
    <3> QED
      BY <3>1, <3>2
  <2> QED
    BY <1>2, <2>1, <2>2, <2>3, <2>4 DEF Joins
<1> QED
  BY <1>2, <1>3, <1>5 DEF Chain, r

(***************************************************************************)
(* Which halves a snake leaves.                                            *)
(***************************************************************************)

(* What begins where a forward snake could not go on begins with an edit. *)
LEMMA RestSimple ==
  ASSUME NEW E, NEW s \in Seq(E), NEW t \in Seq(E), NEW x \in 0 .. Len(s), NEW y \in 0 .. Len(t),
         ~MatchesAt(s, t, x, y)
  PROVE  Simple(Slice(s, x, Len(s)), Slice(t, y, Len(t)))
<1> DEFINE n == Len(s)
           m == Len(t)
           p == Slice(s, x, n)
           q == Slice(t, y, m)
<1>1. /\ n \in Nat /\ m \in Nat /\ x \in Nat /\ y \in Nat /\ x <= n /\ y <= m
      /\ n \in 0 .. Len(s) /\ m \in 0 .. Len(t)
  BY LenProperties
<1>2. /\ p \in Seq(E) /\ Len(p) = n - x /\ \A i \in 1 .. n - x : p[i] = s[x + i]
  <2> HIDE DEF n
  <2> QED
    BY <1>1, PartIs
<1>3. /\ q \in Seq(E) /\ Len(q) = m - y /\ \A i \in 1 .. m - y : q[i] = t[y + i]
  <2> HIDE DEF m
  <2> QED
    BY <1>1, PartIs
<1> HIDE DEF p, q
<1>4. Len(p) # 0 /\ Len(q) # 0 => p[1] # q[1]
  <2> SUFFICES ASSUME Len(p) # 0, Len(q) # 0 PROVE p[1] # q[1]
    OBVIOUS
  <2>1. x < n /\ y < m /\ 1 \in 1 .. n - x /\ 1 \in 1 .. m - y
    BY <1>1, <1>2, <1>3
  <2>2. s[x + 1] # t[y + 1]
    BY <2>1 DEF MatchesAt
  <2> QED
    BY <1>2, <1>3, <2>1, <2>2
<1>5. ScriptDistance(p, q) = 0 => Len(p) = 0 \/ Len(q) = 0
  BY <1>2, <1>3, <1>4, SameIs
<1>6. ScriptDistance(p, q) = 1 /\ Len(p) # 0 /\ Len(q) # 0 => EditAtStart(p, q)
  BY <1>2, <1>3, <1>4, StartDiffers
<1>7. Simple(p, q)
  BY <1>5, <1>6 DEF Simple
<1> QED
  BY <1>7 DEF p, q, n, m

(* What ends where a backward snake could not go on ends with an edit. *)
LEMMA FirstSimple ==
  ASSUME NEW E, NEW s \in Seq(E), NEW t \in Seq(E), NEW x \in 0 .. Len(s), NEW y \in 0 .. Len(t),
         ~MatchesAt(Reverse(s), Reverse(t), Len(s) - x, Len(t) - y)
  PROVE  Simple(Slice(s, 0, x), Slice(t, 0, y))
<1> DEFINE n == Len(s)
           m == Len(t)
           p == Slice(s, 0, x)
           q == Slice(t, 0, y)
<1>1. /\ n \in Nat /\ m \in Nat /\ x \in Nat /\ y \in Nat /\ x <= n /\ y <= m
      /\ 0 \in 0 .. Len(s) /\ 0 \in 0 .. Len(t) /\ x - 0 = x /\ y - 0 = y
  BY LenProperties
<1>2. /\ p \in Seq(E) /\ Len(p) = x /\ \A i \in 1 .. x : p[i] = s[0 + i]
  BY <1>1, PartIs
<1>3. /\ q \in Seq(E) /\ Len(q) = y /\ \A i \in 1 .. y : q[i] = t[0 + i]
  BY <1>1, PartIs
<1> HIDE DEF p, q
<1>4. Len(p) # 0 /\ Len(q) # 0 => p[Len(p)] # q[Len(q)]
  <2> SUFFICES ASSUME Len(p) # 0, Len(q) # 0 PROVE p[Len(p)] # q[Len(q)]
    OBVIOUS
  <2> DEFINE i == n - x
             j == m - y
  <2>1. /\ i < n /\ j < m /\ x \in 1 .. x /\ y \in 1 .. y /\ 0 + x = x /\ 0 + y = y
        /\ i + 1 \in 1 .. n /\ j + 1 \in 1 .. m /\ n - (i + 1) + 1 = x /\ m - (j + 1) + 1 = y
    BY <1>1, <1>2, <1>3
  <2>2. /\ Len(Reverse(s)) = n /\ \A z \in 1 .. n : Reverse(s)[z] = s[n - z + 1]
        /\ Len(Reverse(t)) = m /\ \A z \in 1 .. m : Reverse(t)[z] = t[m - z + 1]
    BY ReverseIs
  <2> HIDE DEF i, j, n, m
  <2>3. ~MatchesAt(Reverse(s), Reverse(t), i, j)
    BY DEF i, j, n, m
  <2>4. Reverse(s)[i + 1] # Reverse(t)[j + 1]
    BY <2>1, <2>2, <2>3 DEF MatchesAt
  <2>5. s[x] # t[y]
    BY <2>1, <2>2, <2>4
  <2>6. p[x] = s[x] /\ q[y] = t[y]
    BY <1>2, <1>3, <2>1
  <2> QED
    BY <1>2, <1>3, <2>5, <2>6
<1>5. ScriptDistance(p, q) = 0 => Len(p) = 0 \/ Len(q) = 0
  BY <1>2, <1>3, <1>4, SameIs
<1>6. ScriptDistance(p, q) = 1 /\ Len(p) # 0 /\ Len(q) # 0 => EditAtEnd(p, q)
  BY <1>2, <1>3, <1>4, EndDiffers
<1>7. Simple(p, q)
  BY <1>5, <1>6 DEF Simple
<1> QED
  BY <1>7 DEF p, q

(* A common first part is a distance of nothing, and so is a common rest. *)
LEMMA NoDistance ==
  ASSUME NEW E, NEW s \in Seq(E), NEW t \in Seq(E), NEW x \in 0 .. Len(s), NEW y \in 0 .. Len(t)
  PROVE  /\ Dist(s, t, x, y) = 0 <=> Slice(s, 0, x) = Slice(t, 0, y)
         /\ Back(s, t, x, y) = 0 <=> Slice(s, x, Len(s)) = Slice(t, y, Len(t))
<1> DEFINE n == Len(s)
           m == Len(t)
<1>1. /\ n \in 0 .. Len(s) /\ m \in 0 .. Len(t) /\ x <= n /\ y <= m /\ 0 <= x /\ 0 <= y
      /\ 0 \in 0 .. Len(s) /\ 0 \in 0 .. Len(t)
  BY LenProperties
<1>2. /\ Dist(s, t, x, y) = ScriptDistance(Slice(s, 0, x), Slice(t, 0, y))
      /\ Back(s, t, x, y) = ScriptDistance(Slice(s, x, n), Slice(t, y, m))
  BY BackIs
<1> HIDE DEF n, m
<1>3. /\ Slice(s, 0, x) \in Seq(E) /\ Slice(t, 0, y) \in Seq(E)
      /\ Slice(s, x, n) \in Seq(E) /\ Slice(t, y, m) \in Seq(E)
  BY <1>1, PartIs
<1>4. /\ ScriptDistance(Slice(s, 0, x), Slice(t, 0, y)) = 0 <=> Slice(s, 0, x) = Slice(t, 0, y)
      /\ ScriptDistance(Slice(s, x, n), Slice(t, y, m)) = 0 <=> Slice(s, x, n) = Slice(t, y, m)
  BY <1>3, SameIs
<1> QED
  BY <1>2, <1>4 DEF n, m

(* The single edit of a search of distance one is the last thing exactly   *)
(* if no match follows it (line 247).                                      *)
LEMMA LastEdit ==
  ASSUME NEW E, NEW s \in Seq(E), NEW t \in Seq(E), NEW c \in Nat,
         Dist(s, t, c, c) = 0, Dist(s, t, c + 1, c + 1) > 0,
         NEW x \in Nat, NEW y \in Nat, (x = c /\ y = c + 1) \/ (x = c + 1 /\ y = c),
         NEW z \in Nat, x + z <= Len(s), y + z <= Len(t),
         Slides(s, t, x, y, z), ~MatchesAt(s, t, x + z, y + z), Back(s, t, x + z, y + z) = 0
  PROVE  z = 0 <=> EditAtEnd(s, t)
<1> DEFINE n == Len(s)
           m == Len(t)
<1>1. n \in Nat /\ m \in Nat /\ n \in 0 .. Len(s) /\ m \in 0 .. Len(t)
  BY LenProperties
<1>2. Slice(s, 0, n) = s /\ Slice(t, 0, m) = t
  <2>1. SubSeq(s, 1, n) = s /\ SubSeq(t, 1, m) = t
    BY FirstElements
  <2>2. SubSeq(s, 1, n) = Slice(s, 0, n) /\ SubSeq(t, 1, m) = Slice(t, 0, m)
    BY <1>1, FirstPart
  <2> QED
    BY <2>1, <2>2
<1>3. c \in 0 .. Len(s) /\ c \in 0 .. Len(t) /\ Slice(s, 0, c) = Slice(t, 0, c)
  <2>1. c \in 0 .. Len(s) /\ c \in 0 .. Len(t)
    BY <1>1
  <2> QED
    BY <2>1, NoDistance
<1>4. ASSUME z = 0 PROVE EditAtEnd(s, t)
  <2>1. /\ ~MatchesAt(s, t, x, y) /\ Back(s, t, x, y) = 0
        /\ x \in 0 .. Len(s) /\ y \in 0 .. Len(t)
    <3>1. x + z = x /\ y + z = y
      BY <1>4
    <3> QED
      BY <1>1, <3>1
  <2> DEFINE p == Slice(s, x, n)
             q == Slice(t, y, m)
  <2>2. p = q
    BY <2>1, NoDistance
  <2>a. x <= n /\ y <= m
    BY <2>1, <1>1
  <2>b. /\ Len(p) = n - x /\ \A i \in 1 .. n - x : p[i] = s[x + i]
    <3> HIDE DEF n
    <3> QED
      BY <1>1, <2>1, <2>a, PartIs
  <2>3. /\ Len(p) = n - x /\ \A i \in 1 .. n - x : p[i] = s[x + i]
        /\ Len(q) = m - y /\ \A i \in 1 .. m - y : q[i] = t[y + i]
    <3> HIDE DEF m
    <3>1. /\ Len(q) = m - y /\ \A i \in 1 .. m - y : q[i] = t[y + i]
      BY <1>1, <2>1, <2>a, PartIs
    <3> QED
      BY <2>b, <3>1
  <2> HIDE DEF p, q
  <2>4. x = n /\ y = m
    <3>1. ASSUME x < n PROVE FALSE
      <4>1. y < m /\ 1 \in 1 .. n - x /\ 1 \in 1 .. m - y
        BY <1>1, <2>2, <2>3, <3>1
      <4>2. s[x + 1] = t[y + 1]
        BY <2>2, <2>3, <4>1
      <4> QED
        BY <2>1, <3>1, <4>1, <4>2 DEF MatchesAt
    <3> QED
      BY <1>1, <2>1, <2>2, <2>3, <3>1
  <2>5. \/ n = m + 1 /\ Slice(s, 0, m) = t
        \/ m = n + 1 /\ Slice(t, 0, n) = s
    BY <1>2, <1>3, <2>4
  <2> QED
    BY <2>5 DEF EditAtEnd
<1>5. ASSUME EditAtEnd(s, t), z # 0 PROVE FALSE
  <2>1. x < n /\ y < m
    <3>1. 0 \in 0 .. z - 1 /\ x + 0 = x /\ y + 0 = y
      BY <1>5
    <3>2. MatchesAt(s, t, x, y)
      BY <3>1 DEF Slides
    <3> QED
      BY <3>2 DEF MatchesAt
  <2> DEFINE l == IF n = m + 1 THEN m ELSE n
  <2>2. /\ l \in Nat /\ l \in 0 .. Len(s) /\ l \in 0 .. Len(t) /\ c + 1 <= l
        /\ Slice(s, 0, l) = Slice(t, 0, l)
    <3>1. \/ n = m + 1 /\ Slice(s, 0, m) = t
          \/ m = n + 1 /\ Slice(t, 0, n) = s
      BY <1>5 DEF EditAtEnd
    <3>2. CASE n = m + 1 /\ Slice(s, 0, m) = t
      BY <1>1, <1>2, <2>1, <3>2
    <3>3. CASE m = n + 1 /\ Slice(t, 0, n) = s
      BY <1>1, <1>2, <2>1, <3>3
    <3> QED
      BY <3>1, <3>2, <3>3
  <2> HIDE DEF l
  <2>3. Dist(s, t, l, l) = 0
    BY <2>2, NoDistance
  <2> DEFINE g == c + 1
             i == l - g
  <2>4. g \in Nat /\ i \in Nat /\ g + i = l
    BY <2>2
  <2> HIDE DEF g, i
  <2>5. Dist(s, t, g, g) <= Dist(s, t, g + i, g + i)
    BY <2>4, DistAlong
  <2>6. Dist(s, t, g, g) \in Nat /\ Dist(s, t, g, g) <= 0
    BY <2>3, <2>4, <2>5, DistIs
  <2>7. ~ (Dist(s, t, g, g) > 0)
    BY <2>6
  <2> QED
    BY <2>7 DEF g
<1> QED
  BY <1>4, <1>5

(* The half behind the first edit of a backward search starts with it.     *)
LEMMA FirstEdit ==
  ASSUME NEW E, NEW s \in Seq(E), NEW t \in Seq(E), NEW c \in Nat,
         Dist(Reverse(s), Reverse(t), c, c) = 0,
         NEW z \in Nat, NEW w \in Nat, (z = c /\ w = c + 1) \/ (z = c + 1 /\ w = c),
         z <= Len(s), w <= Len(t)
  PROVE  Simple(Slice(s, Len(s) - z, Len(s)), Slice(t, Len(t) - w, Len(t)))
<1> DEFINE n == Len(s)
           m == Len(t)
           u == n - z
           v == m - w
           i == n - c
           j == m - c
           p == Slice(s, u, n)
           q == Slice(t, v, m)
<1>1. /\ n \in Nat /\ m \in Nat /\ n \in 0 .. Len(s) /\ m \in 0 .. Len(t)
      /\ u \in 0 .. Len(s) /\ v \in 0 .. Len(t) /\ i \in 0 .. Len(s) /\ j \in 0 .. Len(t)
      /\ n - i = c /\ m - j = c /\ n - u = z /\ m - v = w /\ u <= n /\ v <= m /\ i <= n /\ j <= m
  BY LenProperties
<1>2. Slice(s, i, n) = Slice(t, j, m)
  <2>1. Back(s, t, i, j) = 0
    <3>1. Back(s, t, i, j) = Dist(Reverse(s), Reverse(t), n - i, m - j)
      BY DEF Back
    <3> QED
      BY <1>1, <3>1
  <2> HIDE DEF i, j
  <2> QED
    BY <1>1, <2>1, NoDistance
<1>3. p \in Seq(E) /\ Len(p) = z /\ q \in Seq(E) /\ Len(q) = w
  <2>1. p \in Seq(E) /\ Len(p) = n - u
    <3> HIDE DEF n, m, u, v
    <3> QED
      BY <1>1, PartIs
  <2>2. q \in Seq(E) /\ Len(q) = m - v
    <3> HIDE DEF n, m, u, v
    <3> QED
      BY <1>1, PartIs
  <2> HIDE DEF n, m, u, v, p, q
  <2> QED
    BY <1>1, <2>1, <2>2
<1>4. ScriptDistance(p, q) # 0
  <2>1. z # w
    OBVIOUS
  <2> HIDE DEF p, q
  <2> QED
    BY <1>3, <2>1, SameIs
<1>5. CASE z = c + 1 /\ w = c
  <2>1. q = Slice(t, j, m)
    BY <1>5
  <2> DEFINE one == 1
  <2>2. one \in 0 .. n - u /\ z \in 0 .. n - u /\ one <= z /\ u + one = i /\ u + z = n
    BY <1>1, <1>5
  <2>3. Slice(Slice(s, u, n), one, z) = Slice(s, u + one, u + z)
    <3> HIDE DEF one, u, n
    <3> QED
      BY <1>1, <2>2, PartOfPart
  <2>4. Slice(p, 1, z) = Slice(s, i, n)
    <3> HIDE DEF u, i, n
    <3> QED
      BY <2>2, <2>3 DEF one
  <2> HIDE DEF p, q
  <2>5. EditAtStart(p, q)
    BY <1>2, <1>3, <1>5, <2>1, <2>4 DEF EditAtStart
  <2> QED
    BY <1>4, <2>5 DEF Simple, p, q
<1>6. CASE z = c /\ w = c + 1
  <2>1. p = Slice(s, i, n)
    BY <1>6
  <2> DEFINE one == 1
  <2>2. one \in 0 .. m - v /\ w \in 0 .. m - v /\ one <= w /\ v + one = j /\ v + w = m
    BY <1>1, <1>6
  <2>3. Slice(Slice(t, v, m), one, w) = Slice(t, v + one, v + w)
    <3> HIDE DEF one, v, m
    <3> QED
      BY <1>1, <2>2, PartOfPart
  <2>4. Slice(q, 1, w) = Slice(t, j, m)
    <3> HIDE DEF v, j, m
    <3> QED
      BY <2>2, <2>3 DEF one
  <2> HIDE DEF p, q
  <2>5. EditAtStart(p, q)
    BY <1>2, <1>3, <1>6, <2>1, <2>4 DEF EditAtStart
  <2> QED
    BY <1>4, <2>5 DEF Simple, p, q
<1> QED
  BY <1>5, <1>6

LEMMA FarSimple ==
  ASSUME NEW s, NEW t, ScriptDistance(s, t) >= 2
  PROVE  Simple(s, t)
BY DEF Simple

(* Both halves of a snake start or end with their single edit, and a call  *)
(* of distance one ends with its edit exactly if the snake is empty.       *)
SnakeEnds ==
  pc = "snake" /\ dd < Limit =>
    /\ dd > 1 => /\ Simple(Slice(PartA(frame), 0, ms.x), Slice(PartB(frame), 0, ms.y))
                 /\ Simple(Slice(PartA(frame), ms.u, frame.n), Slice(PartB(frame), ms.v, frame.m))
    /\ dd = 1 => (ms.x = ms.u <=> EditAtEnd(PartA(frame), PartB(frame)))

(* What a snake costs on its two sides. *)
Sides ==
  pc = "snake" /\ dd < Limit =>
    LET A == PartA(frame)
        B == PartB(frame)
    IN  /\ ms.x \in 0 .. frame.n /\ ms.u \in 0 .. frame.n /\ ms.x <= ms.u
        /\ ms.y \in 0 .. frame.m /\ ms.v \in 0 .. frame.m /\ ms.y <= ms.v
        /\ ScriptDistance(Slice(A, 0, ms.x), Slice(B, 0, ms.y)) = Dist(A, B, ms.x, ms.y)
        /\ ScriptDistance(Slice(A, ms.u, frame.n), Slice(B, ms.v, frame.m))
             = Back(A, B, ms.u, ms.v)
        /\ Dist(A, B, ms.x, ms.y) \in Nat /\ Back(A, B, ms.u, ms.v) \in Nat
        /\ Dist(A, B, ms.x, ms.y) + Back(A, B, ms.u, ms.v) = dd
        /\ \/ Dist(A, B, ms.x, ms.y) = Back(A, B, ms.u, ms.v)
           \/ Dist(A, B, ms.x, ms.y) = Back(A, B, ms.u, ms.v) + 1

LEMMA SidesAre == DiffInv /\ Found => Sides
<1> SUFFICES ASSUME DiffInv, Found, pc = "snake", dd < Limit PROVE Sides
  BY DEF Sides
<1> DEFINE A == PartA(frame)
           B == PartB(frame)
           n == frame.n
           m == frame.m
           x == ms.x
           y == ms.y
           u == ms.u
           v == ms.v
<1>1. /\ A \in Seq(Symbols) /\ B \in Seq(Symbols) /\ Len(A) = n /\ Len(B) = m
      /\ n \in Nat /\ m \in Nat
  <2>1. Tasked
    BY DEF DiffInv
  <2> QED
    BY <2>1, FrameIs, PartsAre
<1>2. /\ x \in 0 .. n /\ u \in 0 .. n /\ x <= u
      /\ y \in 0 .. m /\ v \in 0 .. m /\ y <= v
  BY <1>1 DEF DiffInv, AtSnake, SnakeIn
<1>3. /\ Dist(A, B, x, y) + Back(A, B, u, v) = dd
      /\ Dist(A, B, x, y) = Back(A, B, u, v) \/ Dist(A, B, x, y) = Back(A, B, u, v) + 1
  BY DEF Found, FoundSnake, SnakeCuts
<1> HIDE DEF A, B, n, m, x, y, u, v
<1>4. /\ x \in 0 .. Len(A) /\ u \in 0 .. Len(A) /\ y \in 0 .. Len(B) /\ v \in 0 .. Len(B)
      /\ x \in Nat /\ y \in Nat
  BY <1>1, <1>2
<1>5. /\ Dist(A, B, x, y) = ScriptDistance(Slice(A, 0, x), Slice(B, 0, y))
      /\ Dist(A, B, x, y) \in Nat
  <2> DEFINE p == Slice(A, 0, x)
             q == Slice(B, 0, y)
  <2>0. A \in Seq(Symbols) /\ B \in Seq(Symbols) /\ x \in 0 .. Len(A) /\ y \in 0 .. Len(B)
    BY <1>1, <1>4
  <2>1. Dist(A, B, x, y) = ScriptDistance(p, q)
    BY <2>0, BackIs
  <2>2. Dist(A, B, x, y) \in Nat
    BY <1>1, <1>4, DistIs
  <2> QED
    BY <2>1, <2>2
<1>6. /\ Back(A, B, u, v) = ScriptDistance(Slice(A, u, n), Slice(B, v, m))
      /\ Back(A, B, u, v) \in Nat
  <2>0. A \in Seq(Symbols) /\ B \in Seq(Symbols) /\ u \in 0 .. Len(A) /\ v \in 0 .. Len(B)
    BY <1>1, <1>4
  <2>1. /\ Back(A, B, u, v) = ScriptDistance(Slice(A, u, Len(A)), Slice(B, v, Len(B)))
        /\ Back(A, B, u, v) \in Nat
    BY <2>0, BackIs
  <2> QED
    BY <1>1, <2>1
<1> QED
  BY <1>2, <1>3, <1>5, <1>6 DEF Sides, A, B, n, m, x, y, u, v

LEMMA ForwardEnds ==
  ASSUME DiffInv, Found, DiffInv', Found', Forward, pc' = "snake", dd' < Limit
  PROVE  SnakeEnds'
<1> DEFINE A == PartA(frame)
           B == PartB(frame)
           x0 == ForwardX
           y0 == x0 - k
           t == Ahead(frame, x0, x0 - k)
           x == x0 + t
           y == x - k
           n == frame.n
           m == frame.m
           met == ForwardMeets /\ x >= RV(k)
           g == AheadTo
<1>1. /\ pc = "forward" /\ dd' = 2 * d - 1
      /\ ms'.x = x0 /\ ms'.y = y0 /\ ms'.u = x /\ ms'.v = y
      /\ UNCHANGED <<input, frame>>
  <2>1. /\ pc = "forward"
        /\ IF met
           THEN /\ ms' = [x |-> x0, y |-> y0, u |-> x, v |-> y]
                /\ dd' = 2 * d - 1 /\ pc' = "snake" /\ UNCHANGED <<d, k>>
           ELSE /\ ms' = [ms EXCEPT !.x = x0, !.y = y0]
                /\ NextDiagonal("backward") /\ UNCHANGED dd
        /\ UNCHANGED <<input, work, frame, script, ret>>
    BY DEF Forward
  <2>2. NextDiagonal("backward") => pc' # "snake"
    BY <2>1 DEF NextDiagonal
  <2> HIDE DEF met, x0, y0, x, y
  <2> QED
    BY <2>1, <2>2
<1>2. /\ d \in Nat /\ k \in Diag(d) /\ Tasked /\ frame \in Box /\ k \in Int /\ d \in Int
      /\ -d <= k /\ k <= d /\ n \in Nat /\ m \in Nat
  <2>1. d \in Nat /\ k \in Diag(d) /\ Tasked
    BY <1>1 DEF DiffInv, AtForward
  <2> QED
    BY <2>1, DiagIs, FrameIs
<1>3. /\ PartA(frame)' = A /\ PartB(frame)' = B /\ Limit' = Limit /\ frame' = frame
  BY <1>1, SearchStays
<1>4. /\ A \in Seq(Symbols) /\ B \in Seq(Symbols) /\ Len(A) = n /\ Len(B) = m
  BY <1>2, PartsAre
<1>5. /\ x0 = From(g, d, k) /\ x0 \in Nat /\ y0 \in Nat /\ t \in Nat
  <2>1. x0 = From(AheadTo, d, k) /\ x0 \in Nat /\ x0 - k >= 0 /\ t \in Nat
    BY ForwardStores
  <2> HIDE DEF x0, t
  <2> QED
    BY <1>2, <2>1
<1>6. /\ x0 \in 0 .. n /\ x \in 0 .. n /\ y0 \in 0 .. m /\ y \in 0 .. m
      /\ ScriptDistance(Slice(A, 0, x0), Slice(B, 0, y0)) = Dist(A, B, x0, y0)
      /\ Dist(A, B, x0, y0) \in Nat /\ Back(A, B, x, y) \in Nat
      /\ Dist(A, B, x0, y0) + Back(A, B, x, y) = 2 * d - 1
      /\ Dist(A, B, x0, y0) = Back(A, B, x, y) \/ Dist(A, B, x0, y0) = Back(A, B, x, y) + 1
  <2>1. Sides'
    BY SidesAre, PTL
  <2>2. dd' < Limit'
    BY <1>3
  <2> QED
    BY <1>1, <1>3, <2>1, <2>2 DEF Sides
<1> HIDE DEF A, B, x0, y0, t, x, y, n, m, g
<1>7. d \in Nat \ {0} /\ Dist(A, B, x0, y0) = d /\ Back(A, B, x, y) = d - 1
  BY <1>2, <1>6
<1>8. /\ Slides(A, B, x0, y0, t) /\ ~MatchesAt(A, B, x, y)
      /\ x = x0 + t /\ y = y0 + t
  <2>1. x = x0 + t /\ y = y0 + t /\ y0 = x0 - k
    BY <1>2, <1>5 DEF x, y, y0
  <2>2. t = Ahead(frame, x0, y0)
    BY DEF t, y0
  <2>3. /\ Slides(A, B, x0, y0, Ahead(frame, x0, y0))
        /\ ~MatchesAt(A, B, x0 + Ahead(frame, x0, y0), y0 + Ahead(frame, x0, y0))
    BY <1>2, <1>5, AheadSlides DEF A, B
  <2> QED
    BY <2>1, <2>2, <2>3
<1>9. Simple(Slice(A, x, n), Slice(B, y, m))
  <2>1. x \in 0 .. Len(A) /\ y \in 0 .. Len(B)
    BY <1>4, <1>6
  <2>2. Simple(Slice(A, x, Len(A)), Slice(B, y, Len(B)))
    BY <1>4, <1>8, <2>1, RestSimple
  <2> QED
    BY <1>4, <2>2
<1>10. d # 1 => Simple(Slice(A, 0, x0), Slice(B, 0, y0))
  BY <1>6, <1>7, FarSimple
<1>11. d = 1 => (x0 = x <=> EditAtEnd(A, B))
  <2> SUFFICES ASSUME d = 1 PROVE x0 = x <=> EditAtEnd(A, B)
    OBVIOUS
  <2> DEFINE c == g[0]
  <2>1. Reached(A, B, 0, 0, c)
    <3>1. \A kk \in Diag(d - 1) : AheadReached(d - 1, kk)
      BY <1>1 DEF Found, FoundForward
    <3>2. d - 1 = 0 /\ 0 \in Diag(0)
      BY DEF Diag
    <3> QED
      BY <3>1, <3>2 DEF AheadReached, A, B, g
  <2>2. (x0 = c /\ y0 = c + 1) \/ (x0 = c + 1 /\ y0 = c)
    <3>1. k = 1 \/ k = -1
      BY <1>2 DEF Diag
    <3>2. c \in Nat /\ y0 = x0 - k
      BY <2>1 DEF Reached, y0
    <3>3. k = 1 => x0 = c + 1
      BY <1>5 DEF From
    <3>4. k = -1 => x0 = c
      BY <1>5 DEF From
    <3> HIDE DEF c
    <3> QED
      BY <3>1, <3>2, <3>3, <3>4
  <2> HIDE DEF c
  <2>3. c \in Nat /\ Dist(A, B, c, c) = 0 /\ Dist(A, B, c + 1, c + 1) > 0
    <3>1. c \in Nat /\ Dist(A, B, c, c - 0) <= 0 /\ Dist(A, B, c + 1, (c - 0) + 1) > 0
      BY <2>1 DEF Reached
    <3>2. Dist(A, B, c, c) \in Nat /\ c - 0 = c
      BY <1>4, <3>1, DistIs
    <3> QED
      BY <3>1, <3>2
  <2>4. x0 + t <= Len(A) /\ y0 + t <= Len(B) /\ Back(A, B, x0 + t, y0 + t) = 0
    BY <1>4, <1>6, <1>7, <1>8
  <2>5. t = 0 <=> EditAtEnd(A, B)
    BY <1>4, <1>5, <1>8, <2>2, <2>3, <2>4, LastEdit
  <2>6. x0 = x <=> t = 0
    BY <1>5, <1>8
  <2> QED
    BY <2>5, <2>6
<1>12. (dd' > 1 => d # 1) /\ (dd' = 1 => d = 1)
  BY <1>1, <1>7
<1> QED
  BY <1>1, <1>3, <1>9, <1>10, <1>11, <1>12 DEF SnakeEnds, n, m

LEMMA BackwardEnds ==
  ASSUME DiffInv, Found, DiffInv', Found', Backward, pc' = "snake", dd' < Limit
  PROVE  SnakeEnds'
<1> DEFINE A == PartA(frame)
           B == PartB(frame)
           RA == Reverse(A)
           RB == Reverse(B)
           x0 == BackwardX
           y0 == x0 - BackDiagonal
           t == Behind(frame, x0, y0)
           x == x0 - t
           y == x - BackDiagonal
           z0 == From(BehindTo, d, -k)
           w0 == z0 + k
           n == frame.n
           m == frame.m
           met == BackwardMeets /\ x <= FV(BackDiagonal)
           g == BehindTo
<1>1. /\ pc = "backward" /\ dd' = 2 * d
      /\ ms'.x = x /\ ms'.y = y /\ ms'.u = x0 /\ ms'.v = y0
      /\ UNCHANGED <<input, frame>>
  <2>1. /\ pc = "backward"
        /\ IF met
           THEN /\ ms' = [x |-> x, y |-> y, u |-> x0, v |-> y0]
                /\ dd' = 2 * d /\ pc' = "snake" /\ UNCHANGED <<d, k>>
           ELSE /\ ms' = [ms EXCEPT !.u = x0, !.v = y0]
                /\ NextDiagonal("depth") /\ UNCHANGED dd
        /\ UNCHANGED <<input, work, frame, script, ret>>
    BY DEF Backward
  <2>2. NextDiagonal("depth") => pc' # "snake"
    BY <2>1 DEF NextDiagonal
  <2> HIDE DEF met, x0, y0, x, y
  <2> QED
    BY <2>1, <2>2
<1>2. /\ d \in Nat /\ k \in Diag(d) /\ Tasked /\ frame \in Box /\ k \in Int /\ d \in Int
      /\ -d <= k /\ k <= d /\ Delta \in Int /\ Delta = n - m /\ n \in Nat /\ m \in Nat
      /\ BackDiagonal = Delta + k
  <2>1. d \in Nat /\ k \in Diag(d) /\ Tasked
    BY <1>1 DEF DiffInv, AtBackward
  <2> QED
    BY <2>1, DiagIs, FrameIs DEF BackDiagonal
<1>3. /\ PartA(frame)' = A /\ PartB(frame)' = B /\ Limit' = Limit /\ frame' = frame
  BY <1>1, SearchStays
<1>4. /\ A \in Seq(Symbols) /\ B \in Seq(Symbols) /\ Len(A) = n /\ Len(B) = m
  BY <1>2, PartsAre
<1>5. x0 = n - z0 /\ y0 = m - w0 /\ z0 \in Nat /\ w0 \in Nat /\ t \in Nat
  BY BackwardStores
<1>6. /\ x0 \in 0 .. n /\ x \in 0 .. n /\ y0 \in 0 .. m /\ y \in 0 .. m
      /\ ScriptDistance(Slice(A, x0, n), Slice(B, y0, m)) = Back(A, B, x0, y0)
      /\ Dist(A, B, x, y) \in Nat /\ Back(A, B, x0, y0) \in Nat
      /\ Dist(A, B, x, y) + Back(A, B, x0, y0) = 2 * d
      /\ Dist(A, B, x, y) = Back(A, B, x0, y0) \/ Dist(A, B, x, y) = Back(A, B, x0, y0) + 1
  <2>1. Sides'
    BY SidesAre, PTL
  <2>2. dd' < Limit'
    BY <1>3
  <2> QED
    BY <1>1, <1>3, <2>1, <2>2 DEF Sides
<1> HIDE DEF A, B, RA, RB, x0, y0, t, z0, w0, n, m, g
<1>7. Dist(A, B, x, y) = d /\ Back(A, B, x0, y0) = d
  <2> HIDE DEF x, y
  <2> QED
    BY <1>2, <1>6
<1>8. n - x = z0 + t /\ m - y = w0 + t /\ x = x0 - t /\ y = y0 - t
  <2>1. x0 - BackDiagonal = y0
    BY DEF y0
  <2>2. y = y0 - t
    BY <1>2, <1>5, <2>1
  <2> QED
    BY <1>2, <1>5, <2>2
<1> HIDE DEF x, y
<1>9. ~MatchesAt(RA, RB, n - x, m - y)
  <2>1. t = Behind(frame, n - z0, m - w0)
    BY <1>5 DEF t
  <2>2. LET c == Behind(frame, frame.n - z0, frame.m - w0)
        IN  ~MatchesAt(Reverse(PartA(frame)), Reverse(PartB(frame)), z0 + c, w0 + c)
    BY <1>2, <1>5, BehindSlides
  <2> QED
    BY <1>8, <2>1, <2>2 DEF RA, RB, A, B, n, m
<1>10. Simple(Slice(A, 0, x), Slice(B, 0, y))
  <2>1. x \in 0 .. Len(A) /\ y \in 0 .. Len(B) /\ ~MatchesAt(Reverse(A), Reverse(B), Len(A) - x, Len(B) - y)
    BY <1>4, <1>6, <1>9 DEF RA, RB
  <2> QED
    BY <1>4, <2>1, FirstSimple
<1>11. d > 0 => Simple(Slice(A, x0, n), Slice(B, y0, m))
  <2>1. CASE d # 1
    BY <1>2, <1>6, <1>7, <2>1, FarSimple
  <2>2. CASE d = 1
    <3> DEFINE c == g[0]
    <3>1. Reached(RA, RB, 0, 0, c)
      <4>1. \A kk \in Diag(d - 1) : BehindReached(d - 1, kk)
        BY <1>1 DEF Found, FoundBackward
      <4>2. d - 1 = 0 /\ 0 \in Diag(0)
        BY <2>2 DEF Diag
      <4> QED
        BY <4>1, <4>2 DEF BehindReached, A, B, RA, RB, g
    <3>2. (z0 = c /\ w0 = c + 1) \/ (z0 = c + 1 /\ w0 = c)
      <4>1. k = 1 \/ k = -1
        BY <1>2, <2>2 DEF Diag
      <4>2. c \in Nat /\ w0 = z0 + k
        BY <3>1 DEF Reached, w0
      <4>3. k = 1 => z0 = c
        BY <2>2 DEF From, z0, g
      <4>0. \A j \in Int : j + 1 = 0 => -j = 1
        OBVIOUS
      <4>4. k = -1 => z0 = c + 1
        <5> SUFFICES ASSUME k = -1 PROVE z0 = c + 1
          OBVIOUS
        <5>1. 1 - 1 = 0
          OBVIOUS
        <5>2. z0 = From(g, 1, 1)
          <6> DEFINE i == -k
          <6>1. i = 1
            <7>1. k \in Int
              BY <1>2
            <7>2. k + 1 = 0
              OBVIOUS
            <7> HIDE DEF i
            <7>3. i = -k
              BY DEF i
            <7> QED
              BY <4>0, <7>1, <7>2, <7>3, Zenon
          <6>2. z0 = From(g, 1, i)
            BY <2>2 DEF z0, g
          <6> HIDE DEF i
          <6> QED
            BY <6>1, <6>2
        <5>3. 1 # -1
          OBVIOUS
        <5> QED
          BY <5>1, <5>2, <5>3 DEF From
      <4> HIDE DEF c
      <4> QED
        BY <4>1, <4>2, <4>3, <4>4
    <3> HIDE DEF c
    <3>3. c \in Nat /\ Dist(RA, RB, c, c) = 0
      <4>1. c \in Nat /\ Dist(RA, RB, c, c - 0) <= 0
        BY <3>1 DEF Reached
      <4>2. RA \in Seq(Symbols) /\ RB \in Seq(Symbols)
        BY <1>4, ReverseIs DEF RA, RB
      <4>3. Dist(RA, RB, c, c) \in Nat /\ c - 0 = c
        BY <4>1, <4>2, DistIs
      <4> QED
        BY <4>1, <4>3
    <3>4. z0 <= Len(A) /\ w0 <= Len(B) /\ Len(A) - z0 = x0 /\ Len(B) - w0 = y0
      BY <1>2, <1>4, <1>5, <1>6
    <3>5. Simple(Slice(A, Len(A) - z0, Len(A)), Slice(B, Len(B) - w0, Len(B)))
      BY <1>4, <1>5, <3>2, <3>3, <3>4, FirstEdit DEF RA, RB
    <3> QED
      BY <1>4, <3>4, <3>5
  <2> QED
    BY <2>1, <2>2
<1>12. (dd' > 1 => d > 0) /\ dd' # 1
  BY <1>1, <1>2
<1> QED
  BY <1>1, <1>3, <1>10, <1>11, <1>12 DEF SnakeEnds, n, m

LEMMA EndsStep ==
  ASSUME DiffInv, Found, SnakeEnds, DiffInv', Found', [Next]_vars
  PROVE  SnakeEnds'
<1> SUFFICES ASSUME pc' = "snake", dd' < Limit' PROVE SnakeEnds'
  BY DEF SnakeEnds
<1>1. CASE UNCHANGED vars
  <2>1. PartA(frame)' = PartA(frame) /\ PartB(frame)' = PartB(frame)
    BY <1>1 DEF vars, input, search, PartA, PartB
  <2> QED
    BY <1>1, <2>1 DEF vars, input, search, SnakeEnds, Limit
<1>2. CASE \/ Prefix \/ SesEmpty \/ MiddleMatch \/ Finish \/ SearchStart
           \/ SnakeReturn \/ SnakeSplit \/ SnakeBase
  <2>1. pc' # "snake"
    BY <1>2 DEF Prefix, SesEmpty, MiddleMatch, Finish, SearchStart,
                SnakeReturn, SnakeSplit, SnakeBase
  <2> QED
    BY <2>1
<1>3. CASE Depth
  <2>1. dd' = Limit' /\ Limit' \in Nat
    <3>1. dd' = Limit /\ Limit' = Limit
      BY <1>3 DEF Depth, Limit, input
    <3>2. Limit \in Nat
      BY DEF Limit, INT_MAX, DiffInv, Tasked
    <3> QED
      BY <3>1, <3>2
  <2>2. FALSE
    <3> DEFINE l == Limit'
    <3>1. l \in Nat /\ l < l
      BY <2>1
    <3> HIDE DEF l
    <3> QED
      BY <3>1
  <2> QED
    BY <2>2
<1>4. CASE Forward
  <2>1. dd' < Limit
    BY <1>4 DEF Forward, Limit, input
  <2> QED
    BY <1>4, <2>1, ForwardEnds
<1>5. CASE Backward
  <2>1. dd' < Limit
    BY <1>5 DEF Backward, Limit, input
  <2> QED
    BY <1>5, <2>1, BackwardEnds
<1> QED
  BY <1>1, <1>2, <1>3, <1>4, <1>5 DEF Next

(***************************************************************************)
(* The script so far and the work to come are one shortest path.           *)
(***************************************************************************)
Searching == pc \notin {"prefix", "ses", "done"}

ScriptTo(p) ==
  /\ Written(script, p)
  /\ ~Searching => Chain(work, p)
  /\ Searching => /\ frame.call = "ses" /\ frame.n > 0 /\ frame.m > 0
                  /\ \E q \in Point : Does(frame, p, q) /\ Chain(work, q)
  /\ pc = "done" => work = <<>>

Scripted ==
  /\ collect \in BOOLEAN
  /\ collect = TRUE /\ Whole < Limit =>
       IF pc = "prefix" THEN script = <<>> ELSE \E p \in Point : ScriptTo(p)

LEMMA PathStays ==
  ASSUME UNCHANGED input
  PROVE  /\ Point' = Point /\ Whole' = Whole /\ Limit' = Limit /\ collect' = collect
         /\ \A s, p : Written(s, p)' <=> Written(s, p)
         /\ \A t, p, q : Does(t, p, q)' <=> Does(t, p, q)
         /\ \A ts, p : Chain(ts, p)' <=> Chain(ts, p)
<1>1. a' = a /\ b' = b /\ Limit' = Limit /\ collect' = collect
  BY DEF input, Limit
<1>2. Whole' = Whole /\ Corner' = Corner
  BY <1>1 DEF Whole, Corner
<1>3. Point' = Point
  BY <1>1, <1>2 DEF Point
<1>4. \A p : At(p)' = At(p)
  BY <1>1 DEF At
<1>5. \A s : Apply(s)' = Apply(s)
  BY <1>1 DEF Apply, After, Unedited
<1>6. \A e, p, q : Goes(e, p, q)' <=> Goes(e, p, q)
  BY <1>1 DEF Goes
<1>7. \A s, p : Written(s, p)' <=> Written(s, p)
  BY <1>3, <1>4, <1>5, <1>6 DEF Written
<1>8. \A t, p, q : Does(t, p, q)' <=> Does(t, p, q)
  BY <1>1 DEF Does, CallDistance, PartA, PartB
<1>9. \A ts, p : Chain(ts, p)' <=> Chain(ts, p)
  BY <1>2, <1>3, <1>8 DEF Chain, Joins
<1> QED
  BY <1>1, <1>2, <1>3, <1>7, <1>8, <1>9

LEMMA ChainEmpty ==
  ASSUME Tasked
  PROVE  Corner \in Point /\ Chain(<<>>, Corner)
<1>1. Corner \in Point
  BY WholeIs, LenProperties DEF Corner, Point, Tasked
<1> DEFINE P == [i \in 1 .. 1 |-> Corner]
<1>2. Len(<<>>) + 1 = 1 /\ Len(<<>>) = 0
  OBVIOUS
<1>3. P[1] = Corner
  OBVIOUS
<1>4. Joins(<<>>, P)
  BY <1>1, <1>2, <1>3 DEF Joins
<1> QED
  BY <1>1, <1>3, <1>4 DEF Chain

(* What the actions keep, once they have written something. *)
LEMMA ScriptedNext ==
  ASSUME Scripted, UNCHANGED input, pc' # "prefix",
         NEW p, collect = TRUE /\ Whole < Limit => p \in Point /\ ScriptTo(p)'
  PROVE  Scripted'
<1>1. Point' = Point /\ Whole' = Whole /\ Limit' = Limit /\ collect' = collect
  BY PathStays
<1> QED
  BY <1>1 DEF Scripted

LEMMA PrefixScripts ==
  ASSUME DiffInv, Scripted, Prefix
  PROVE  Scripted'
<1> DEFINE x == Ahead(Ses(0, Len(a), 0, Len(b)), 0, 0)
           rest == Ses(x, Len(a) - x, x, Len(b) - x)
           p == [x |-> 0, y |-> 0, c |-> 0]
<1>1. /\ script' = Edit(script, "match", 0, x) /\ work' = <<rest>>
      /\ x \in 0 .. Len(a) /\ x \in 0 .. Len(b)
      /\ Slides(a, b, 0, 0, x) /\ ~MatchesAt(a, b, x, x)
      /\ rest \in Box /\ rest.call = "ses"
      /\ rest.aoff = x /\ rest.n = Len(a) - x /\ rest.boff = x /\ rest.m = Len(b) - x
      /\ PartA(rest) = Slice(a, x, Len(a)) /\ PartB(rest) = Slice(b, x, Len(b))
      /\ CallDistance(rest) = Whole
  BY PrefixIs
<1>2. pc = "prefix" /\ pc' = "ses" /\ UNCHANGED input
  BY DEF Prefix
<1>3. /\ Tasked /\ a \in Seq(Symbols) /\ b \in Seq(Symbols) /\ Len(a) \in Nat /\ Len(b) \in Nat
      /\ Whole \in Nat
  <2>1. Tasked
    BY DEF DiffInv
  <2> QED
    BY <1>2, <2>1, WholeIs, LenProperties DEF Tasked, Scripted
<1> HIDE DEF x, rest
<1> DEFINE r == [x |-> x, y |-> x, c |-> 0]
<1>p. p \in Point /\ r \in Point /\ r.x = x /\ r.y = x /\ r.c = 0
  BY <1>1, <1>3 DEF Point
<1>4. PICK q \in Point : q.x = x /\ q.y = x /\ q.c = 0
  <2> HIDE DEF r
  <2> QED
    BY <1>p
<1>5. Written(<<>>, p)
  <2>1. Apply(<<>>) = At(p)
    <3>1. Slice(b, 0, 0) = <<>>
      <4>1. 0 \in 0 .. Len(b) /\ 0 <= 0 /\ 0 - 0 = 0
        BY <1>3
      <4>2. Slice(b, 0, 0) \in Seq(Symbols) /\ Len(Slice(b, 0, 0)) = 0
        BY <1>3, <4>1, PartIs
      <4> QED
        BY <4>2, EmptySeq
    <3> QED
      BY <3>1, ApplyNone DEF At, Unedited
  <2> QED
    BY <2>1 DEF Written
<1>6. Goes([op |-> "match", off |-> 0, len |-> x], p, q)
  <2>1. 0 + x = x /\ x \in Nat /\ 0 + x <= Len(a) /\ 0 + x <= Len(b) /\ 0 \in Nat
    BY <1>1, <1>3
  <2>2. Slice(a, 0, 0 + x) = Slice(b, 0, 0 + x)
    BY <1>1, <1>3, <2>1, SlidesEqual
  <2> QED
    BY <1>4, <2>1, <2>2 DEF Goes
<1>7. collect = TRUE /\ Whole < Limit => Written(script', q)
  <2> SUFFICES ASSUME collect = TRUE, Whole < Limit PROVE Written(script', q)
    OBVIOUS
  <2>1. script = <<>> /\ x \in Nat /\ 0 \in Nat
    BY <1>1, <1>2, <1>3 DEF Scripted
  <2> HIDE DEF p
  <2>2. Written(Edit(<<>>, "match", 0, x), q)
    BY <1>3, <1>p, <1>4, <1>5, <1>6, <2>1, EditWrites
  <2> QED
    BY <1>1, <2>1, <2>2
<1>8. Does(rest, q, Corner)
  <2>1. Simple(Slice(a, x, Len(a)), Slice(b, x, Len(b)))
    BY <1>1, <1>3, RestSimple
  <2>2. x + (Len(a) - x) = Len(a) /\ x + (Len(b) - x) = Len(b) /\ 0 + Whole = Whole
    BY <1>1, <1>3
  <2> QED
    BY <1>1, <1>4, <2>1, <2>2 DEF Does, Corner
<1>9. Chain(<<rest>>, q)
  <2>1. Corner \in Point /\ Chain(<<>>, Corner) /\ <<>> \in Seq(Box)
    BY <1>3, ChainEmpty
  <2>2. Chain(<<rest>> \o <<>>, q)
    BY <1>1, <1>4, <1>8, <2>1, ChainMore
  <2>3. <<rest>> \o <<>> = <<rest>>
    BY <1>1, ConcatEmptySeq
  <2> QED
    BY <2>2, <2>3
<1>10. collect = TRUE /\ Whole < Limit => ScriptTo(q)'
  <2>1. ~Searching' /\ pc' # "done"
    BY <1>2 DEF Searching
  <2>2. /\ \A s : Written(s, q)' <=> Written(s, q)
        /\ \A ts : Chain(ts, q)' <=> Chain(ts, q)
    BY <1>2, PathStays
  <2>3. Chain(work', q)
    BY <1>1, <1>9
  <2> QED
    BY <1>7, <2>1, <2>2, <2>3 DEF ScriptTo
<1> QED
  BY <1>2, <1>4, <1>10, ScriptedNext

(* The pending call or match at the head of work takes its edits. *)
LEMMA HeadScripts ==
  ASSUME DiffInv, Scripted, pc = "ses", work # <<>>, collect = TRUE, Whole < Limit
  PROVE  \E p, q \in Point : /\ Written(script, p)
                             /\ Does(Head(work), p, q) /\ Chain(Tail(work), q)
<1>1. PICK p \in Point : ScriptTo(p)
  BY DEF Scripted
<1>2. Written(script, p) /\ Chain(work, p)
  BY <1>1 DEF ScriptTo, Searching
<1>3. work \in Seq(Box)
  BY DEF DiffInv, Tasked
<1>4. \E q \in Point : Does(Head(work), p, q) /\ Chain(Tail(work), q)
  BY <1>2, <1>3, ChainHead
<1> QED
  BY <1>2, <1>4

LEMMA EmptyScripts ==
  ASSUME DiffInv, Scripted, SesEmpty
  PROVE  Scripted'
<1> DEFINE f == Head(work)
<1>1. /\ pc = "ses" /\ work # <<>> /\ f.call = "ses" /\ (f.n = 0 \/ f.m = 0)
      /\ script' = IF f.n = 0 THEN Edit(script, "insert", f.boff, f.m)
                              ELSE Edit(script, "delete", f.aoff, f.n)
      /\ work' = Tail(work) /\ UNCHANGED <<input, pc>>
  BY DEF SesEmpty
<1>2. Tasked /\ f \in Box /\ f.n \in Nat /\ f.m \in Nat /\ f.aoff \in Nat /\ f.boff \in Nat
  BY <1>1, HeadTailProperties DEF DiffInv, Tasked, Box
<1>3. ASSUME collect = TRUE, Whole < Limit
      PROVE  \E q \in Point : ScriptTo(q)'
  <2>1. PICK p, q \in Point : /\ Written(script, p) /\ Does(f, p, q) /\ Chain(Tail(work), q)
    BY <1>1, <1>3, HeadScripts
  <2> HIDE DEF f
  <2>2. /\ f.aoff = p.x /\ q.x = p.x + f.n
        /\ f.boff = p.y /\ q.y = p.y + f.m /\ q.c = p.c + CallDistance(f)
    BY <1>1, <2>1 DEF Does
  <2>3. p.x \in Nat /\ p.y \in Nat /\ p.c \in Nat
    BY DEF Point
  <2>4. CASE f.n = 0
    <3>1. q.x = p.x /\ q.c = p.c + f.m
      BY <1>2, <2>2, <2>3, <2>4, NothingLeft
    <3>2. Goes([op |-> "insert", off |-> f.boff, len |-> f.m], p, q)
      BY <2>2, <3>1 DEF Goes
    <3>3. Written(Edit(script, "insert", f.boff, f.m), q)
      BY <1>2, <1>3, <2>1, <3>2, EditWrites
    <3>4. Written(script', q)
      BY <1>1, <2>4, <3>3
    <3> QED
      BY <1>1, <2>1, <3>4, PathStays DEF ScriptTo, Searching
  <2>5. CASE f.n # 0
    <3>1. f.m = 0
      BY <1>1, <2>5
    <3>2. q.y = p.y /\ q.c = p.c + f.n
      BY <1>2, <2>2, <2>3, <3>1, NothingLeft
    <3>3. Goes([op |-> "delete", off |-> f.aoff, len |-> f.n], p, q)
      BY <2>2, <3>2 DEF Goes
    <3>4. Written(Edit(script, "delete", f.aoff, f.n), q)
      BY <1>2, <1>3, <2>1, <3>3, EditWrites
    <3>5. Written(script', q)
      BY <1>1, <2>5, <3>4
    <3> QED
      BY <1>1, <2>1, <3>5, PathStays DEF ScriptTo, Searching
  <2> QED
    BY <2>4, <2>5
<1> QED
  BY <1>1, <1>3, PathStays DEF Scripted

LEMMA MatchScripts ==
  ASSUME DiffInv, Scripted, MiddleMatch
  PROVE  Scripted'
<1> DEFINE f == Head(work)
<1>1. /\ pc = "ses" /\ work # <<>> /\ f.call = "match"
      /\ script' = Edit(script, "match", f.aoff, f.n)
      /\ work' = Tail(work) /\ UNCHANGED <<input, pc>>
  BY DEF MiddleMatch
<1>2. Tasked /\ f \in Box /\ f.n \in Nat /\ f.aoff \in Nat
  BY <1>1, HeadTailProperties DEF DiffInv, Tasked, Box
<1>3. ASSUME collect = TRUE, Whole < Limit
      PROVE  \E q \in Point : ScriptTo(q)'
  <2>1. PICK p, q \in Point : /\ Written(script, p) /\ Does(f, p, q) /\ Chain(Tail(work), q)
    BY <1>1, <1>3, HeadScripts
  <2> HIDE DEF f
  <2>2. Goes([op |-> "match", off |-> f.aoff, len |-> f.n], p, q)
    BY <1>1, <2>1 DEF Does, Goes
  <2>3. Written(Edit(script, "match", f.aoff, f.n), q)
    BY <1>2, <1>3, <2>1, <2>2, EditWrites
  <2>4. Written(script', q)
    BY <1>1, <2>3
  <2> QED
    BY <1>1, <2>1, <2>4, PathStays DEF ScriptTo, Searching
<1> QED
  BY <1>1, <1>3, PathStays DEF Scripted

LEMMA StartScripts ==
  ASSUME DiffInv, Scripted, SearchStart
  PROVE  Scripted'
<1> DEFINE f == Head(work)
<1>1. /\ pc = "ses" /\ work # <<>> /\ f.call = "ses" /\ f.n > 0 /\ f.m > 0
      /\ pc' = "depth" /\ frame' = f /\ work' = Tail(work) /\ UNCHANGED <<input, script>>
  BY DEF SearchStart
<1>2. ASSUME collect = TRUE, Whole < Limit
      PROVE  \E q \in Point : ScriptTo(q)'
  <2>1. PICK p, q \in Point : /\ Written(script, p) /\ Does(f, p, q) /\ Chain(Tail(work), q)
    BY <1>1, <1>2, HeadScripts
  <2> HIDE DEF f
  <2>3. /\ \A s : Written(s, p)' <=> Written(s, p)
        /\ \A ts : Chain(ts, q)' <=> Chain(ts, q)
        /\ \A t : Does(t, p, q)' <=> Does(t, p, q)
        /\ Point' = Point
    BY <1>1, PathStays
  <2> QED
    BY <1>1, <2>1, <2>3 DEF ScriptTo, Searching
<1> QED
  BY <1>1, <1>2, PathStays DEF Scripted

(* Nothing is written while a search goes on, or when there is nothing     *)
(* left to do.                                                             *)
LEMMA SearchScripts ==
  ASSUME Scripted, UNCHANGED <<input, work, script>>,
         \/ pc = pc' /\ UNCHANGED frame
         \/ Finish
         \/ Searching /\ Searching' /\ UNCHANGED frame
  PROVE  Scripted'
<1>1. UNCHANGED input
  OBVIOUS
<1>2. CASE pc = "prefix"
  <2>1. pc' = "prefix"
    BY <1>2 DEF Finish, Searching
  <2> QED
    BY <1>1, <1>2, <2>1, PathStays DEF Scripted
<1>3. CASE pc # "prefix"
  <2>1. pc' # "prefix"
    BY <1>3 DEF Finish, Searching
  <2>2. ASSUME NEW p \in Point, ScriptTo(p) PROVE ScriptTo(p)'
    <3>1. /\ \A s : Written(s, p)' <=> Written(s, p)
          /\ \A ts, q : Chain(ts, q)' <=> Chain(ts, q)
          /\ \A t, q : Does(t, p, q)' <=> Does(t, p, q)
          /\ Point' = Point
      BY <1>1, PathStays
    <3>2. Written(script, p)'
      BY <2>2, <3>1 DEF ScriptTo
    <3>3. CASE Finish
      <4>1. pc = "ses" /\ work = <<>> /\ pc' = "done" /\ ~Searching /\ ~Searching'
        BY <3>3 DEF Finish, Searching
      <4> QED
        BY <2>2, <3>1, <3>2, <4>1 DEF ScriptTo
    <3>4. CASE pc = pc' /\ UNCHANGED frame
      <4>1. Searching' <=> Searching
        BY <3>4 DEF Searching
      <4> QED
        BY <2>2, <3>1, <3>2, <3>4, <4>1 DEF ScriptTo
    <3>5. CASE Searching /\ Searching' /\ UNCHANGED frame
      <4>1. pc' # "done"
        BY <3>5 DEF Searching
      <4> QED
        BY <2>2, <3>1, <3>2, <3>5, <4>1 DEF ScriptTo
    <3> QED
      BY <3>3, <3>4, <3>5
  <2> QED
    BY <1>1, <1>3, <2>1, <2>2, PathStays DEF Scripted
<1> QED
  BY <1>2, <1>3

LEMMA PartsOfParts ==
  ASSUME Tasked, NEW f \in Box, NEW x \in 0 .. f.n, NEW u \in 0 .. f.n, x <= u,
         NEW y \in 0 .. f.m, NEW v \in 0 .. f.m, y <= v
  PROVE  /\ Slice(a, f.aoff + x, f.aoff + u) = Slice(PartA(f), x, u)
         /\ Slice(b, f.boff + y, f.boff + v) = Slice(PartB(f), y, v)
BY SubIs DEF Slice

(* A search below the limit of a whole that is too is never given up: its  *)
(* call is a part of the path.                                             *)
LEMMA SnakeScripts ==
  ASSUME DiffInv, Found, Scripted, pc = "snake", collect = TRUE, Whole < Limit
  PROVE  /\ dd < Limit /\ frame.n > 0 /\ frame.m > 0
         /\ \E p, q \in Point :
              /\ Written(script, p) /\ Chain(work, q)
              /\ frame.aoff = p.x /\ q.x = p.x + frame.n
              /\ frame.boff = p.y /\ q.y = p.y + frame.m /\ q.c = p.c + dd
              /\ CallDistance(frame) = dd /\ Simple(PartA(frame), PartB(frame))
<1>1. PICK p \in Point : ScriptTo(p)
  BY DEF Scripted
<1>2. /\ Written(script, p)
      /\ frame.call = "ses" /\ frame.n > 0 /\ frame.m > 0
      /\ \E q \in Point : Does(frame, p, q) /\ Chain(work, q)
  BY <1>1 DEF ScriptTo, Searching
<1>3. PICK q \in Point : Does(frame, p, q) /\ Chain(work, q)
  BY <1>2
<1>4. /\ frame.aoff = p.x /\ q.x = p.x + frame.n
      /\ frame.boff = p.y /\ q.y = p.y + frame.m /\ q.c = p.c + CallDistance(frame)
      /\ Simple(PartA(frame), PartB(frame))
  BY <1>2, <1>3 DEF Does
<1>5. Tasked /\ frame \in Box /\ Whole \in Nat /\ Limit \in Nat
  <2>1. Tasked
    BY DEF DiffInv
  <2> QED
    BY <2>1, WholeIs DEF Tasked
<1>6. CallDistance(frame) \in Nat /\ CallDistance(frame) = Distance
  BY <1>5, CallDistanceIs DEF CallDistance, Distance
<1>7. p.c \in Nat /\ q.c \in Nat /\ q.c <= Whole
  BY <1>5 DEF Point
<1>8. dd < Limit /\ CallDistance(frame) = dd
  <2>1. dd \in Nat /\ IF dd < Limit THEN Distance = dd ELSE Distance >= Limit
    BY DEF Found, FoundSnake
  <2>2. Distance < Limit
    BY <1>4, <1>5, <1>6, <1>7
  <2> QED
    BY <1>5, <1>6, <2>1, <2>2
<1> QED
  BY <1>2, <1>3, <1>4, <1>8

(* Tasks are put before others one at a time. *)
LEMMA ChainThree ==
  ASSUME NEW E, NEW ts \in Seq(E), NEW t1 \in E, NEW t2 \in E, NEW t3 \in E,
         NEW p1 \in Point, NEW p2 \in Point, NEW p3 \in Point, NEW p4 \in Point,
         Does(t1, p1, p2), Does(t2, p2, p3), Does(t3, p3, p4), Chain(ts, p4)
  PROVE  Chain(<<t1, t2, t3>> \o ts, p1)
<1> DEFINE u1 == <<t1>>
           u2 == <<t2>>
           u3 == <<t3>>
<1>1. /\ u1 \in Seq(E) /\ u2 \in Seq(E) /\ u3 \in Seq(E)
      /\ u1 \o u2 \in Seq(E) /\ (u1 \o u2) \o u3 = <<t1, t2, t3>>
  <2>1. /\ u1 \in Seq(E) /\ u2 \in Seq(E) /\ u3 \in Seq(E)
        /\ Len(u1) = 1 /\ Len(u2) = 1 /\ Len(u3) = 1
        /\ u1[1] = t1 /\ u2[1] = t2 /\ u3[1] = t3
    OBVIOUS
  <2> DEFINE w == u1 \o u2
             s == w \o u3
             t == <<t1, t2, t3>>
  <2>2. t \in Seq(E) /\ Len(t) = 3 /\ t[1] = t1 /\ t[2] = t2 /\ t[3] = t3
    OBVIOUS
  <2> HIDE DEF u1, u2, u3, t
  <2>3. w \in Seq(E) /\ Len(w) = 2 /\ w[1] = t1 /\ w[2] = t2
    <3>1. /\ w \in Seq(E) /\ Len(w) = Len(u1) + Len(u2)
          /\ \A i \in 1 .. Len(u1) + Len(u2) :
               w[i] = IF i <= Len(u1) THEN u1[i] ELSE u2[i - Len(u1)]
      BY <2>1, ConcatProperties
    <3>2. 1 + 1 = 2 /\ 1 \in 1 .. 2 /\ 2 \in 1 .. 2 /\ 1 <= 1 /\ ~ (2 <= 1) /\ 2 - 1 = 1
      OBVIOUS
    <3> HIDE DEF w
    <3> QED
      BY <2>1, <3>1, <3>2
  <2> HIDE DEF w
  <2>4. s \in Seq(E) /\ Len(s) = 3 /\ s[1] = t1 /\ s[2] = t2 /\ s[3] = t3
    <3>1. /\ s \in Seq(E) /\ Len(s) = Len(w) + Len(u3)
          /\ \A i \in 1 .. Len(w) + Len(u3) :
               s[i] = IF i <= Len(w) THEN w[i] ELSE u3[i - Len(w)]
      BY <2>1, <2>3, ConcatProperties
    <3>2. /\ 2 + 1 = 3 /\ 1 \in 1 .. 3 /\ 2 \in 1 .. 3 /\ 3 \in 1 .. 3
          /\ 1 <= 2 /\ 2 <= 2 /\ ~ (3 <= 2) /\ 3 - 2 = 1
      OBVIOUS
    <3> HIDE DEF s
    <3> QED
      BY <2>1, <2>3, <3>1, <3>2
  <2> HIDE DEF s
  <2>5. \A i \in 1 .. 3 : i = 1 \/ i = 2 \/ i = 3
    OBVIOUS
  <2>6. s = t
    BY <2>2, <2>4, <2>5, SeqEqual
  <2> QED
    BY <2>1, <2>3, <2>6 DEF s, w, t
<1>2. Chain(u3 \o ts, p3) /\ u3 \o ts \in Seq(E)
  BY ChainMore
<1> DEFINE s3 == u3 \o ts
<1>3. Chain(u2 \o s3, p2) /\ u2 \o s3 \in Seq(E)
  <2> HIDE DEF s3
  <2> QED
    BY <1>2, ChainMore DEF s3
<1> DEFINE s2 == u2 \o s3
<1>4. Chain(u1 \o s2, p1)
  <2> HIDE DEF s2
  <2> QED
    BY <1>3, ChainMore DEF s2
<1> HIDE DEF u1, u2, u3
<1>5. ((u1 \o u2) \o u3) \o ts = (u1 \o u2) \o s3
  <2> DEFINE w == u1 \o u2
  <2>1. w \in Seq(E) /\ u3 \in Seq(E)
    BY <1>1
  <2> HIDE DEF w
  <2>2. (w \o u3) \o ts = w \o (u3 \o ts)
    BY <2>1, ConcatAssociative
  <2> QED
    BY <2>2 DEF w
<1>6. (u1 \o u2) \o s3 = u1 \o s2
  <2>1. u1 \in Seq(E) /\ u2 \in Seq(E) /\ s3 \in Seq(E)
    BY <1>1, <1>2
  <2> HIDE DEF s3
  <2>2. (u1 \o u2) \o s3 = u1 \o (u2 \o s3)
    BY <2>1, ConcatAssociative
  <2> QED
    BY <2>2
<1> QED
  BY <1>1, <1>4, <1>5, <1>6

LEMMA SplitScripts ==
  ASSUME DiffInv, Found, SnakeEnds, Scripted, SnakeSplit
  PROVE  Scripted'
<1> DEFINE f == frame
           x == ms.x
           y == ms.y
           u == ms.u
           v == ms.v
           A == PartA(f)
           B == PartB(f)
           before == Ses(f.aoff, x, f.boff, y)
           between == Match(f.aoff + x, u - x)
           after == Ses(f.aoff + u, f.n - u, f.boff + v, f.m - v)
           D == Dist(A, B, x, y)
           R == Back(A, B, u, v)
<1>1. /\ pc = "snake" /\ dd < Limit /\ collect /\ dd > 1
      /\ work' = Halves(f) \o work
      /\ pc' = "ses" /\ UNCHANGED <<input, script>>
  BY DEF SnakeSplit
<1>2. /\ Tasked /\ f \in Box /\ f.n \in Nat /\ f.m \in Nat /\ f.aoff \in Nat /\ f.boff \in Nat
      /\ work \in Seq(Box) /\ Len(a) \in Nat /\ Len(b) \in Nat /\ Whole \in Nat
      /\ A \in Seq(Symbols) /\ B \in Seq(Symbols) /\ Len(A) = f.n /\ Len(B) = f.m
  <2>1. Tasked
    BY DEF DiffInv
  <2>2. f \in Box /\ work \in Seq(Box) /\ Len(a) \in Nat /\ Len(b) \in Nat
    BY <2>1, LenProperties DEF Tasked
  <2> QED
    BY <2>1, <2>2, WholeIs, PartsAre
<1>3. /\ x \in 0 .. f.n /\ u \in 0 .. f.n /\ x <= u /\ y \in 0 .. f.m /\ v \in 0 .. f.m /\ y <= v
      /\ ScriptDistance(Slice(A, 0, x), Slice(B, 0, y)) = D
      /\ ScriptDistance(Slice(A, u, f.n), Slice(B, v, f.m)) = R
      /\ D \in Nat /\ R \in Nat /\ D + R = dd
  BY <1>1, SidesAre DEF Sides
<1>4. /\ Simple(Slice(A, 0, x), Slice(B, 0, y))
      /\ Simple(Slice(A, u, f.n), Slice(B, v, f.m))
  BY <1>1 DEF SnakeEnds
<1>5. Slice(A, x, u) = Slice(B, y, v)
  BY <1>1 DEF Found, FoundSnake, SnakeCuts
<1>6. /\ Halves(f) = <<before, between, after>>
      /\ before \in Box /\ between \in Box /\ after \in Box
  BY <1>1, <1>2, HalvesAre DEF DiffInv, AtSnake
<1>7. /\ before.call = "ses" /\ before.aoff = f.aoff /\ before.n = x
      /\ before.boff = f.boff /\ before.m = y
      /\ between.call = "match" /\ between.aoff = f.aoff + x /\ between.n = u - x
      /\ after.call = "ses" /\ after.aoff = f.aoff + u /\ after.n = f.n - u
      /\ after.boff = f.boff + v /\ after.m = f.m - v
  BY DEF Ses, Match
<1> HIDE DEF f, x, y, u, v, A, B, before, between, after, D, R
<1>i. /\ x \in Nat /\ u \in Nat /\ x <= u /\ u <= f.n
      /\ y \in Nat /\ v \in Nat /\ y <= v /\ v <= f.m
  BY <1>2, <1>3
<1>n. f.n \in Nat /\ f.m \in Nat /\ f.aoff \in Nat /\ f.boff \in Nat
  BY <1>2
<1>8. /\ PartA(before) = Slice(A, 0, x) /\ PartB(before) = Slice(B, 0, y)
      /\ CallDistance(before) = D
  <2>1. /\ 0 \in 0 .. f.n /\ 0 <= x /\ 0 \in 0 .. f.m /\ 0 <= y
        /\ f.aoff + 0 = f.aoff /\ f.boff + 0 = f.boff
    BY <1>2, <1>3
  <2>2. /\ Slice(a, f.aoff + 0, f.aoff + x) = Slice(PartA(f), 0, x)
        /\ Slice(b, f.boff + 0, f.boff + y) = Slice(PartB(f), 0, y)
    BY <1>2, <1>3, <2>1, PartsOfParts
  <2>3. PartA(before) = Slice(A, 0, x) /\ PartB(before) = Slice(B, 0, y)
    BY <1>7, <2>1, <2>2 DEF PartA, PartB, A, B
  <2> QED
    BY <1>3, <2>3 DEF CallDistance
<1>9. /\ PartA(after) = Slice(A, u, f.n) /\ PartB(after) = Slice(B, v, f.m)
      /\ CallDistance(after) = R
  <2>0. /\ (f.aoff + u) + (f.n - u) = f.aoff + f.n
        /\ (f.boff + v) + (f.m - v) = f.boff + f.m
    BY <1>n, <1>i
  <2>1. /\ f.n \in 0 .. f.n /\ u <= f.n /\ f.m \in 0 .. f.m /\ v <= f.m
        /\ (f.aoff + u) + (f.n - u) = f.aoff + f.n
        /\ (f.boff + v) + (f.m - v) = f.boff + f.m
    BY <1>n, <1>i, <2>0
  <2> DEFINE n == f.n
             m == f.m
  <2>2. n \in 0 .. f.n /\ u <= n /\ m \in 0 .. f.m /\ v <= m
    BY <2>1
  <2> HIDE DEF n, m
  <2>3. /\ Slice(a, f.aoff + u, f.aoff + n) = Slice(PartA(f), u, n)
        /\ Slice(b, f.boff + v, f.boff + m) = Slice(PartB(f), v, m)
    BY <1>2, <1>3, <2>2, PartsOfParts
  <2>4. PartA(after) = Slice(A, u, f.n) /\ PartB(after) = Slice(B, v, f.m)
    BY <1>7, <2>1, <2>3 DEF PartA, PartB, A, B, n, m
  <2> QED
    BY <1>3, <2>4 DEF CallDistance
<1>10. /\ Slice(a, f.aoff + x, f.aoff + u) = Slice(b, f.boff + y, f.boff + v)
       /\ u - x = v - y
  <2>1. /\ Slice(a, f.aoff + x, f.aoff + u) = Slice(A, x, u)
        /\ Slice(b, f.boff + y, f.boff + v) = Slice(B, y, v)
    BY <1>2, <1>3, PartsOfParts DEF A, B
  <2>2. Len(Slice(A, x, u)) = u - x
    <3>1. x \in 0 .. Len(A) /\ u \in 0 .. Len(A)
      BY <1>2, <1>3
    <3> QED
      BY <1>2, <1>3, <3>1, PartIs
  <2>3. Len(Slice(B, y, v)) = v - y
    <3>1. y \in 0 .. Len(B) /\ v \in 0 .. Len(B)
      BY <1>2, <1>3
    <3> QED
      BY <1>2, <1>3, <3>1, PartIs
  <2> QED
    BY <1>5, <2>1, <2>2, <2>3
<1>11. ASSUME collect = TRUE, Whole < Limit
       PROVE  \E p \in Point : ScriptTo(p)'
  <2>1. PICK p, q \in Point :
          /\ Written(script, p) /\ Chain(work, q)
          /\ f.aoff = p.x /\ q.x = p.x + f.n
          /\ f.boff = p.y /\ q.y = p.y + f.m /\ q.c = p.c + dd
    BY <1>1, <1>11, SnakeScripts DEF f
  <2>2. /\ p.x \in Nat /\ p.y \in Nat /\ p.c \in Nat
        /\ q.x <= Len(a) /\ q.y <= Len(b) /\ q.c <= Whole
    BY <1>2 DEF Point
  <2>b. /\ p.x + x \in Nat /\ p.x + u \in Nat /\ p.y + y \in Nat /\ p.y + v \in Nat
        /\ p.c + D \in Nat
    <3>1. \A i, j \in Nat : i + j \in Nat
      OBVIOUS
    <3>2. D \in Nat
      BY <1>3
    <3> QED
      BY <1>i, <2>2, <3>1, <3>2
  <2>a. /\ p.x + u <= Len(a) /\ p.y + v <= Len(b) /\ p.c + D <= Whole
        /\ p.x + x <= Len(a) /\ p.y + y <= Len(b)
    <3>1. p.x + u <= Len(a) /\ p.x + x <= Len(a)
      <4>1. q.x = p.x + f.n /\ p.x \in Nat /\ q.x <= Len(a) /\ Len(a) \in Nat
        BY <1>2, <2>1, <2>2
      <4> QED
        BY <1>n, <1>i, <4>1
    <3>2. p.y + v <= Len(b) /\ p.y + y <= Len(b)
      <4>1. q.y = p.y + f.m /\ p.y \in Nat /\ q.y <= Len(b) /\ Len(b) \in Nat
        BY <1>2, <2>1, <2>2
      <4> QED
        BY <1>n, <1>i, <4>1
    <3>3. p.c + D <= Whole
      <4>1. q.c = p.c + dd /\ p.c \in Nat /\ q.c <= Whole /\ dd = D + R
        BY <1>3, <2>1, <2>2
      <4> QED
        BY <1>2, <1>3, <4>1
    <3> QED
      BY <3>1, <3>2, <3>3
  <2> DEFINE p1 == [x |-> p.x + x, y |-> p.y + y, c |-> p.c + D]
             p2 == [x |-> p.x + u, y |-> p.y + v, c |-> p.c + D]
  <2>3. p1 \in Point
    <3>1. p.x + x \in 0 .. Len(a) /\ p.y + y \in 0 .. Len(b) /\ p.c + D \in 0 .. Whole
      BY <1>2, <2>a, <2>b
    <3> QED
      BY <3>1 DEF Point
  <2>4. p2 \in Point
    <3>1. p.x + u \in 0 .. Len(a) /\ p.y + v \in 0 .. Len(b) /\ p.c + D \in 0 .. Whole
      BY <1>2, <2>a, <2>b
    <3> QED
      BY <3>1 DEF Point
  <2>5. /\ p1.x = p.x + x /\ p1.y = p.y + y /\ p1.c = p.c + D
        /\ p2.x = p.x + u /\ p2.y = p.y + v /\ p2.c = p.c + D
    OBVIOUS
  <2> HIDE DEF p1, p2
  <2>6. Does(before, p, p1)
    BY <1>4, <1>7, <1>8, <2>1, <2>5 DEF Does
  <2>7. Does(between, p1, p2)
    <3>1. p2.x = p1.x + (u - x) /\ p2.y = p1.y + (u - x) /\ p2.c = p1.c
      <4>1. p2.x = p1.x + (u - x)
        BY <1>i, <2>2, <2>5
      <4>2. p2.y = p1.y + (v - y)
        BY <1>i, <2>2, <2>5
      <4> QED
        BY <1>10, <2>5, <4>1, <4>2
    <3>2. Slice(a, p1.x, p2.x) = Slice(b, p1.y, p2.y) /\ f.aoff + x = p1.x
      BY <1>10, <2>1, <2>5
    <3> QED
      BY <1>7, <3>1, <3>2 DEF Does
  <2>8. Does(after, p2, q)
    <3>1. q.x = p2.x + (f.n - u) /\ q.y = p2.y + (f.m - v) /\ q.c = p2.c + R
      <4>1. q.x = p2.x + (f.n - u)
        <5>1. q.x = p.x + f.n
          BY <2>1
        <5> QED
          BY <1>n, <1>i, <2>2, <2>5, <5>1
      <4>2. q.y = p2.y + (f.m - v)
        <5>1. q.y = p.y + f.m
          BY <2>1
        <5> QED
          BY <1>n, <1>i, <2>2, <2>5, <5>1
      <4>3. q.c = p2.c + R
        BY <1>3, <2>1, <2>2, <2>5
      <4> QED
        BY <4>1, <4>2, <4>3
    <3>2. f.aoff + u = p2.x /\ f.boff + v = p2.y
      BY <2>1, <2>5
    <3> QED
      BY <1>4, <1>7, <1>9, <3>1, <3>2 DEF Does
  <2>9. Chain(<<before, between, after>> \o work, p)
    BY <1>2, <1>6, <2>1, <2>3, <2>4, <2>6, <2>7, <2>8, ChainThree
  <2>10. Chain(work', p)
    BY <1>1, <1>6, <2>9 DEF f
  <2>11. Written(script, p) /\ script' = script
    BY <1>1, <2>1
  <2> QED
    BY <1>1, <2>10, <2>11, PathStays DEF ScriptTo, Searching
<1> QED
  BY <1>1, <1>11, PathStays DEF Scripted

LEMMA ReturnScripts ==
  ASSUME DiffInv, Found, Scripted, SnakeReturn
  PROVE  Scripted'
<1>1. pc = "snake" /\ (dd >= Limit \/ ~collect) /\ pc' = "ses" /\ UNCHANGED input
  BY DEF SnakeReturn
<1>2. ASSUME collect = TRUE, Whole < Limit PROVE FALSE
  <2>1. dd < Limit
    BY <1>1, <1>2, SnakeScripts
  <2>2. dd \in Nat /\ Limit \in Nat
    BY <1>1, WholeIs DEF Found, FoundSnake, DiffInv
  <2> QED
    BY <1>1, <1>2, <2>1, <2>2
<1> QED
  BY <1>1, <1>2, PathStays DEF Scripted

(* Two edits take a path from p by way of q to r. *)
LEMMA EditsWrite ==
  ASSUME Tasked, collect = TRUE, NEW p \in Point, NEW q \in Point, NEW r \in Point, Written(script, p),
         NEW op1 \in {"match", "delete", "insert"}, NEW off1 \in Nat, NEW len1 \in Nat,
         NEW op2 \in {"match", "delete", "insert"}, NEW off2 \in Nat, NEW len2 \in Nat,
         Goes([op |-> op1, off |-> off1, len |-> len1], p, q),
         Goes([op |-> op2, off |-> off2, len |-> len2], q, r)
  PROVE  Written(Edit(Edit(script, op1, off1, len1), op2, off2, len2), r)
<1> DEFINE s == Edit(script, op1, off1, len1)
<1>1. Written(s, q)
  BY EditWrites
<1> HIDE DEF s
<1>2. Written(Edit(s, op2, off2, len2), r)
  BY <1>1, EditWrites
<1> QED
  BY <1>2 DEF s

(* The four base cases of line 247: which sequence is longer, and where    *)
(* its one more element is.                                                *)
LEMMA BaseWrites ==
  ASSUME DiffInv, Found, SnakeEnds, Scripted, SnakeBase, collect = TRUE, Whole < Limit
  PROVE  \E q \in Point : Written(script', q) /\ Chain(work, q)
<1> DEFINE f == frame
           n == f.n
           m == f.m
           A == PartA(f)
           B == PartB(f)
           longer == m > n
           len == IF longer THEN n ELSE m
           end == IF longer THEN f.boff + (m - 1) ELSE f.aoff + (n - 1)
           begin == IF longer THEN f.boff ELSE f.aoff
           op == IF longer THEN "insert" ELSE "delete"
           skip == IF longer THEN 0 ELSE 1
<1>1. /\ pc = "snake" /\ dd < Limit /\ dd <= 1
      /\ script' = IF ms.x = ms.u
                   THEN Edit(Edit(script, "match", f.aoff, len), op, end, 1)
                   ELSE Edit(Edit(script, op, begin, 1), "match", f.aoff + skip, len)
  BY DEF SnakeBase
<1>2. /\ Tasked /\ f \in Box /\ f.n \in Nat /\ f.m \in Nat /\ f.aoff \in Nat /\ f.boff \in Nat
      /\ Len(a) \in Nat /\ Len(b) \in Nat /\ Whole \in Nat
      /\ A \in Seq(Symbols) /\ B \in Seq(Symbols) /\ Len(A) = f.n /\ Len(B) = f.m
  <2>1. Tasked
    BY DEF DiffInv
  <2>2. f \in Box /\ Len(a) \in Nat /\ Len(b) \in Nat
    BY <2>1, LenProperties DEF Tasked
  <2> QED
    BY <2>1, <2>2, WholeIs, PartsAre
<1>3. /\ f.n > 0 /\ f.m > 0
      /\ \E p, q \in Point :
           /\ Written(script, p) /\ Chain(work, q)
           /\ f.aoff = p.x /\ q.x = p.x + f.n
           /\ f.boff = p.y /\ q.y = p.y + f.m /\ q.c = p.c + dd
           /\ CallDistance(f) = dd /\ Simple(PartA(f), PartB(f))
  BY <1>1, SnakeScripts
<1>4. PICK p, q \in Point :
        /\ Written(script, p) /\ Chain(work, q)
        /\ f.aoff = p.x /\ q.x = p.x + f.n
        /\ f.boff = p.y /\ q.y = p.y + f.m /\ q.c = p.c + dd
        /\ CallDistance(f) = dd /\ Simple(PartA(f), PartB(f))
  BY <1>3
<1>5. dd = 1
  <2>1. dd \in Nat /\ ScriptDistance(A, B) = dd
    BY <1>1, <1>4 DEF Found, FoundSnake, CallDistance
  <2>2. dd # 0
    BY <1>2, <1>3, <1>4, <2>1 DEF Simple
  <2> QED
    BY <1>1, <2>1, <2>2
<1>6. /\ ms.x = ms.u => EditAtEnd(A, B)
      /\ ms.x # ms.u => EditAtStart(A, B)
  <2>1. EditAtStart(A, B) \/ EditAtEnd(A, B)
    BY <1>2, <1>3, <1>4, <1>5 DEF Simple, CallDistance
  <2>2. ms.x = ms.u <=> EditAtEnd(A, B)
    BY <1>1, <1>5 DEF SnakeEnds
  <2> QED
    BY <2>1, <2>2
<1> HIDE DEF f, n, m, A, B
<1>7. n \in Nat /\ m \in Nat /\ n > 0 /\ m > 0 /\ Len(A) = n /\ Len(B) = m
  BY <1>2, <1>3 DEF n, m
<1>8. /\ p.x \in Nat /\ p.y \in Nat /\ p.c \in Nat /\ q.x \in Nat /\ q.y \in Nat /\ q.c \in Nat
      /\ q.x <= Len(a) /\ q.y <= Len(b) /\ q.c <= Whole
      /\ q.x = p.x + n /\ q.y = p.y + m /\ q.c = p.c + 1
  BY <1>2, <1>4, <1>5 DEF Point, n, m
<1>9. ASSUME NEW x \in 0 .. n, NEW u \in 0 .. n, x <= u, NEW y \in 0 .. m, NEW v \in 0 .. m, y <= v
      PROVE  /\ Slice(a, p.x + x, p.x + u) = Slice(A, x, u)
             /\ Slice(b, p.y + y, p.y + v) = Slice(B, y, v)
  <2>1. /\ Slice(a, f.aoff + x, f.aoff + u) = Slice(PartA(f), x, u)
        /\ Slice(b, f.boff + y, f.boff + v) = Slice(PartB(f), y, v)
    BY <1>2, <1>9, PartsOfParts DEF n, m
  <2> QED
    BY <1>4, <2>1 DEF A, B
<1>10. /\ 0 \in 0 .. n /\ 0 \in 0 .. m /\ n \in 0 .. n /\ m \in 0 .. m /\ 1 \in 0 .. n /\ 1 \in 0 .. m
       /\ 0 <= n /\ 0 <= m /\ 1 <= n /\ 1 <= m /\ p.x + 0 = p.x /\ p.y + 0 = p.y
  BY <1>7, <1>8
<1>11. Slice(A, 0, n) = A /\ Slice(B, 0, m) = B
  <2>1. n \in 0 .. Len(A) /\ SubSeq(A, 1, n) = A /\ m \in 0 .. Len(B) /\ SubSeq(B, 1, m) = B
    BY <1>2, <1>7, <1>10, FirstElements
  <2>2. SubSeq(A, 1, n) = Slice(A, 0, n)
    BY <1>2, <2>1, FirstPart
  <2>3. SubSeq(B, 1, m) = Slice(B, 0, m)
    BY <1>2, <2>1, FirstPart
  <2> QED
    BY <2>1, <2>2, <2>3
<1>12. ASSUME NEW i \in 0 .. n, NEW j \in 0 .. m, NEW c \in 0 .. 1
       PROVE  \E r \in Point : r.x = p.x + i /\ r.y = p.y + j /\ r.c = p.c + c
  <2> DEFINE r == [x |-> p.x + i, y |-> p.y + j, c |-> p.c + c]
  <2>1. p.x + i \in 0 .. Len(a)
    BY SMTT(30), <1>2, <1>7, <1>8
  <2>2. p.y + j \in 0 .. Len(b)
    BY SMTT(30), <1>2, <1>7, <1>8
  <2>3. p.c + c \in 0 .. Whole
    BY <1>2, <1>8
  <2>4. r \in Point
    BY <2>1, <2>2, <2>3 DEF Point
  <2>5. r.x = p.x + i /\ r.y = p.y + j /\ r.c = p.c + c
    OBVIOUS
  <2> HIDE DEF r
  <2> QED
    BY <2>4, <2>5
<1>13. CASE ms.x = ms.u /\ longer
  <2>1. m = n + 1 /\ Slice(B, 0, n) = A
    BY <1>6, <1>7, <1>13 DEF EditAtEnd
  <2>2. n \in 0 .. m /\ 0 \in 0 .. 1
    BY <1>7, <2>1
  <2>3. PICK r \in Point : r.x = p.x + n /\ r.y = p.y + n /\ r.c = p.c + 0
    BY <1>10, <1>12, <2>2
  <2>4. Slice(a, p.x, r.x) = Slice(b, p.y, r.y)
    <3>1. /\ Slice(a, p.x + 0, p.x + n) = Slice(A, 0, n)
          /\ Slice(b, p.y + 0, p.y + n) = Slice(B, 0, n)
      BY <1>9, <1>10, <2>2
    <3> QED
      BY <1>10, <1>11, <2>1, <2>3, <3>1
  <2>5. Goes([op |-> "match", off |-> p.x, len |-> n], p, r)
    BY <1>8, <2>3, <2>4 DEF Goes
  <2>6. Goes([op |-> "insert", off |-> r.y, len |-> 1], r, q)
    <3>1. q.x = r.x
      BY <1>7, <1>8, <2>1, <2>3
    <3>2. q.y = r.y + 1
      BY <1>7, <1>8, <2>1, <2>3
    <3>3. q.c = r.c + 1
      BY <1>7, <1>8, <2>1, <2>3
    <3> QED
      BY <3>1, <3>2, <3>3 DEF Goes
  <2>7. r.y \in Nat /\ f.aoff = p.x /\ f.boff + (m - 1) = r.y
    BY <1>4, <1>7, <1>8, <2>1, <2>3
  <2>8. Written(Edit(Edit(script, "match", p.x, n), "insert", r.y, 1), q)
    BY <1>2, <1>4, <1>7, <1>8, <2>5, <2>6, <2>7, EditsWrite
  <2>9. script' = Edit(Edit(script, "match", p.x, n), "insert", r.y, 1)
    BY <1>1, <1>13, <2>7
  <2> QED
    BY <1>4, <2>8, <2>9
<1>14. CASE ms.x = ms.u /\ ~longer
  <2>1. n = m + 1 /\ Slice(A, 0, m) = B
    BY <1>6, <1>7, <1>14 DEF EditAtEnd
  <2>2. m \in 0 .. n /\ 0 \in 0 .. 1
    BY <1>7, <2>1
  <2>3. PICK r \in Point : r.x = p.x + m /\ r.y = p.y + m /\ r.c = p.c + 0
    BY <1>10, <1>12, <2>2
  <2>4. Slice(a, p.x, r.x) = Slice(b, p.y, r.y)
    <3>1. /\ Slice(a, p.x + 0, p.x + m) = Slice(A, 0, m)
          /\ Slice(b, p.y + 0, p.y + m) = Slice(B, 0, m)
      BY <1>9, <1>10, <2>2
    <3> QED
      BY <1>10, <1>11, <2>1, <2>3, <3>1
  <2>5. Goes([op |-> "match", off |-> p.x, len |-> m], p, r)
    BY <1>8, <2>3, <2>4 DEF Goes
  <2>6. Goes([op |-> "delete", off |-> r.x, len |-> 1], r, q)
    <3>1. q.y = r.y
      BY <1>7, <1>8, <2>1, <2>3
    <3>2. q.x = r.x + 1
      BY <1>7, <1>8, <2>1, <2>3
    <3>3. q.c = r.c + 1
      BY <1>7, <1>8, <2>1, <2>3
    <3> QED
      BY <3>1, <3>2, <3>3 DEF Goes
  <2>7. r.x \in Nat /\ f.aoff = p.x /\ f.aoff + (n - 1) = r.x
    BY <1>4, <1>7, <1>8, <2>1, <2>3
  <2>8. Written(Edit(Edit(script, "match", p.x, m), "delete", r.x, 1), q)
    BY <1>2, <1>4, <1>7, <1>8, <2>5, <2>6, <2>7, EditsWrite
  <2>9. script' = Edit(Edit(script, "match", p.x, m), "delete", r.x, 1)
    BY <1>1, <1>14, <2>7
  <2> QED
    BY <1>4, <2>8, <2>9
<1>15. CASE ms.x # ms.u /\ longer
  <2>1. m = n + 1 /\ Slice(B, 1, m) = A
    BY <1>6, <1>7, <1>15 DEF EditAtStart
  <2>2. 1 \in 0 .. 1
    OBVIOUS
  <2>3. PICK r \in Point : r.x = p.x + 0 /\ r.y = p.y + 1 /\ r.c = p.c + 1
    BY <1>10, <1>12, <2>2
  <2>4. Slice(a, r.x, q.x) = Slice(b, r.y, q.y)
    <3>1. /\ Slice(a, p.x + 0, p.x + n) = Slice(A, 0, n)
          /\ Slice(b, p.y + 1, p.y + m) = Slice(B, 1, m)
      BY <1>9, <1>10
    <3> QED
      BY <1>8, <1>11, <2>1, <2>3, <3>1
  <2>5. Goes([op |-> "insert", off |-> p.y, len |-> 1], p, r)
    BY <1>10, <2>3 DEF Goes
  <2>6. Goes([op |-> "match", off |-> p.x, len |-> n], r, q)
    <3>1. q.x = r.x + n /\ q.y = r.y + n /\ q.c = r.c /\ r.x = p.x
      BY <1>7, <1>8, <2>1, <2>3
    <3> QED
      BY <2>4, <3>1 DEF Goes
  <2>7. Written(Edit(Edit(script, "insert", p.y, 1), "match", p.x, n), q)
    BY <1>2, <1>4, <1>7, <1>8, <2>5, <2>6, EditsWrite
  <2>8. script' = Edit(Edit(script, "insert", p.y, 1), "match", p.x, n)
    BY <1>1, <1>4, <1>10, <1>15
  <2> QED
    BY <1>4, <2>7, <2>8
<1>16. CASE ms.x # ms.u /\ ~longer
  <2>1. n = m + 1 /\ Slice(A, 1, n) = B
    BY <1>6, <1>7, <1>16 DEF EditAtStart
  <2>2. 1 \in 0 .. 1
    OBVIOUS
  <2>3. PICK r \in Point : r.x = p.x + 1 /\ r.y = p.y + 0 /\ r.c = p.c + 1
    BY <1>10, <1>12, <2>2
  <2>4. Slice(a, r.x, q.x) = Slice(b, r.y, q.y)
    <3>1. /\ Slice(a, p.x + 1, p.x + n) = Slice(A, 1, n)
          /\ Slice(b, p.y + 0, p.y + m) = Slice(B, 0, m)
      BY <1>9, <1>10
    <3> QED
      BY <1>8, <1>11, <2>1, <2>3, <3>1
  <2>5. Goes([op |-> "delete", off |-> p.x, len |-> 1], p, r)
    BY <1>10, <2>3 DEF Goes
  <2>6. Goes([op |-> "match", off |-> p.x + 1, len |-> m], r, q)
    <3>1. q.x = r.x + m /\ q.y = r.y + m /\ q.c = r.c /\ r.x = p.x + 1
      BY <1>7, <1>8, <2>1, <2>3
    <3> QED
      BY <2>4, <3>1 DEF Goes
  <2>7. Written(Edit(Edit(script, "delete", p.x, 1), "match", p.x + 1, m), q)
    <3>1. p.x + 1 \in Nat
      BY <1>8
    <3> QED
      BY <1>2, <1>4, <1>7, <1>8, <2>5, <2>6, <3>1, EditsWrite
  <2>8. script' = Edit(Edit(script, "delete", p.x, 1), "match", p.x + 1, m)
    BY <1>1, <1>4, <1>10, <1>16
  <2> QED
    BY <1>4, <2>7, <2>8
<1> QED
  BY <1>13, <1>14, <1>15, <1>16

LEMMA BaseScripts ==
  ASSUME DiffInv, Found, SnakeEnds, Scripted, SnakeBase
  PROVE  Scripted'
<1>1. pc' = "ses" /\ UNCHANGED <<input, work>>
  BY DEF SnakeBase, search
<1>2. ASSUME collect = TRUE, Whole < Limit PROVE \E q \in Point : ScriptTo(q)'
  <2>1. PICK q \in Point : Written(script', q) /\ Chain(work, q)
    BY <1>2, BaseWrites
  <2> QED
    BY <1>1, <2>1, PathStays DEF ScriptTo, Searching
<1> QED
  BY <1>1, <1>2, PathStays DEF Scripted

LEMMA ScriptedStep ==
  ASSUME DiffInv, Found, SnakeEnds, Scripted, pc # "error", pc' # "error", [Next]_vars
  PROVE  Scripted'
<1>1. CASE UNCHANGED vars
  BY <1>1, SearchScripts DEF vars, search
<1>2. CASE Finish
  BY <1>2, SearchScripts DEF Finish
<1>3. CASE Depth \/ Forward \/ Backward
  <2>1. Searching /\ Searching' /\ UNCHANGED <<input, work, script, frame>>
    BY <1>3 DEF Depth, Forward, Backward, NextDiagonal, Searching
  <2> QED
    BY <2>1, SearchScripts
<1> QED
  BY <1>1, <1>2, <1>3, PrefixScripts, EmptyScripts, MatchScripts, StartScripts,
     ReturnScripts, SplitScripts, BaseScripts DEF Next

LEMMA ScriptedInit == Init => SnakeEnds /\ Scripted
BY DEF Init, SnakeEnds, Scripted

LEMMA ScriptedTransforms ==
  ASSUME DiffInv, Answered, Scripted
  PROVE  ScriptTransforms
<1> SUFFICES ASSUME pc = "done", collect, ret < Limit
             PROVE  LET r == Apply(script)
                    IN  r.ok /\ r.at = Len(a) /\ r.out = b /\ r.cost = ScriptDistance(a, b)
  BY DEF ScriptTransforms
<1>1. Tasked /\ Whole \in Nat /\ Limit \in Nat
  BY WholeIs DEF DiffInv
<1>2. Whole < Limit
  <2>1. Answers(ret)
    BY DEF Answered, Outermost
  <2>2. ret \in Nat /\ (~ (Whole < Limit) => ret >= Limit)
    BY <2>1 DEF Answers
  <2>3. Whole < Limit => ret = Whole
    BY <2>1 DEF Answers
  <2> QED
    BY <1>1, <2>2
<1>3. collect = TRUE
  BY DEF Scripted
<1>4. PICK p \in Point : ScriptTo(p)
  BY <1>2, <1>3 DEF Scripted
<1>5. Apply(script) = At(p) /\ p = Corner
  <2>1. Written(script, p) /\ Chain(work, p) /\ work = <<>>
    BY <1>4 DEF ScriptTo, Searching
  <2> QED
    BY <2>1, ChainNothing DEF Written
<1>6. Slice(b, 0, Len(b)) = b
  <2>1. b \in Seq(Symbols) /\ Len(b) \in 0 .. Len(b)
    BY <1>1, LenProperties DEF Tasked
  <2>2. SubSeq(b, 1, Len(b)) = b
    BY <2>1, FirstElements
  <2>3. SubSeq(b, 1, Len(b)) = Slice(b, 0, Len(b))
    BY <2>1, FirstPart
  <2> QED
    BY <2>2, <2>3
<1> QED
  BY <1>5, <1>6 DEF At, Corner, Whole

LEMMA AlwaysScripted ==
  Spec => [](DiffInv /\ Found /\ Answered /\ pc # "error" /\ SnakeEnds /\ Scripted)
<1> DEFINE I == DiffInv /\ Found /\ Answered /\ pc # "error" /\ SnakeEnds /\ Scripted
<1>1. Init => I
  BY DiffInit, FoundInit, ScriptedInit
<1>2. I /\ [Next]_vars => I'
  <2> SUFFICES ASSUME I, [Next]_vars PROVE I'
    OBVIOUS
  <2>1. (DiffInv /\ Found /\ Answered /\ pc # "error")'
    BY FoundKeeps
  <2>2. SnakeEnds'
    BY <2>1, EndsStep
  <2>3. Scripted'
    BY <2>1, ScriptedStep
  <2> QED
    BY <2>1, <2>2, <2>3
<1> QED
  BY <1>1, <1>2, PTL DEF Spec

(* Every search the recursion makes, for sequences of any length and any   *)
(* limit: its box and those of the calls and matches to come lie in the    *)
(* two sequences, no comparison of line 123 or 157 leaves them, and no     *)
(* entry of the shared table is read that this search has not stored.      *)
THEOREM SearchIsSafe == Spec => []SearchSafe
<1>1. Init => DiffInv
  BY DiffInit
<1>2. DiffInv /\ [Next]_vars => DiffInv'
  BY DiffStep
<1>3. DiffInv => SearchSafe
  BY DiffSafe
<1> QED
  BY <1>1, <1>2, <1>3, PTL DEF Spec

(* _find_middle_snake, for every pair of sequences and every limit: below  *)
(* the limit, the number of edits it returns is the distance of the two    *)
(* ranges of the call, and its snake lies in the box and joins two smaller *)
(* problems whose distances add up to that number.                         *)
THEOREM SnakeIsOptimal == Spec => []SnakeOptimal
BY Always, FoundOptimal, PTL

(* diff returns the distance of the two sequences when that is below the   *)
(* limit, and something not below the limit otherwise, although only the   *)
(* outermost search decides it and the ones below reuse its table.         *)
THEOREM DistanceIsCorrect == Spec => []DistanceCorrect
BY Always, AnsweredCorrect, PTL

(* The loop of line 98 is never left with EFAULT (line 173): the middle    *)
(* is deep enough for the two searches to meet, whatever the parity of the *)
(* lengths' difference.                                                    *)
THEOREM SearchNeverFails == Spec => [](pc # "error")
BY Always, PTL

(* The edit script, for every pair of sequences with a distance below the  *)
(* limit: applied to a it gives b, its offsets name the elements it means, *)
(* and it has as many edits as the distance.  The recursion of _ses splits *)
(* at each middle snake and the base case of line 247 puts its one edit    *)
(* before or after the match, whichever it is.                             *)
THEOREM ScriptIsShortest == Spec => []ScriptTransforms
<1>1. DiffInv /\ Found /\ Answered /\ pc # "error" /\ SnakeEnds /\ Scripted => ScriptTransforms
  BY ScriptedTransforms
<1> QED
  BY <1>1, AlwaysScripted, PTL
=============================================================================
