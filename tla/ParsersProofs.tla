----------------------------- MODULE ParsersProofs -----------------------------
(***************************************************************************)
(* The parsers.  First path.c, behind it csv.c, and cfg.c at the end.      *)
(*                                                                         *)
(* path.c, for paths of any length and room of any size: what is written   *)
(* while the path is read is, at every character, the names kept so far    *)
(* with the component begun behind them, so that in the end it is the      *)
(* canonical path.                                                         *)
(***************************************************************************)
EXTENDS Parsers, Lemmas, SequenceTheorems

(* A recursive function with one step after the other exists. *)
LEMMA StepsExist ==
  ASSUME NEW S, NEW a \in S, NEW n \in Nat, NEW F \in [1 .. n -> [S -> S]]
  PROVE  \E g \in [0 .. n -> S] : g[0] = a /\ \A k \in 1 .. n : g[k] = F[k][g[k - 1]]
<1> DEFINE Is(m, g) == g \in [0 .. m -> S] /\ g[0] = a /\ \A k \in 1 .. m : g[k] = F[k][g[k - 1]]
           T == {m \in Nat : m <= n => \E g : Is(m, g)}
<1>1. 0 \in T
  <2>1. Is(0, [k \in 0 .. 0 |-> a])
    OBVIOUS
  <2> QED
    BY <2>1
<1>2. \A m \in Nat : m \in T => m + 1 \in T
  <2> SUFFICES ASSUME NEW m \in Nat, m \in T, m + 1 <= n PROVE \E g : Is(m + 1, g)
    OBVIOUS
  <2>1. PICK g : Is(m, g)
    OBVIOUS
  <2> DEFINE v == F[m + 1][g[m]]
             h == [k \in 0 .. m + 1 |-> IF k = m + 1 THEN v ELSE g[k]]
  <2>2. g[m] \in S /\ v \in S
    <3>1. m \in 0 .. m /\ m + 1 \in 1 .. n
      OBVIOUS
    <3>2. g[m] \in S
      BY <2>1, <3>1
    <3>3. F[m + 1] \in [S -> S]
      BY <3>1
    <3> QED
      BY <3>2, <3>3
  <2> HIDE DEF v
  <2>3. h \in [0 .. m + 1 -> S]
    BY <2>1, <2>2
  <2>4. h[0] = a /\ h[m + 1] = v /\ \A k \in 0 .. m : h[k] = g[k]
    BY <2>1
  <2> HIDE DEF h
  <2>5. \A k \in 1 .. m + 1 : h[k] = F[k][h[k - 1]]
    <3> SUFFICES ASSUME NEW k \in 1 .. m + 1 PROVE h[k] = F[k][h[k - 1]]
      OBVIOUS
    <3>1. CASE k = m + 1
      <4>1. h[k - 1] = g[m]
        BY <2>4, <3>1
      <4> QED
        BY <2>4, <3>1, <4>1 DEF v
    <3>2. CASE k # m + 1
      <4>1. k \in 1 .. m /\ k \in 0 .. m /\ k - 1 \in 0 .. m
        BY <3>2
      <4>2. h[k] = g[k] /\ h[k - 1] = g[k - 1] /\ g[k] = F[k][g[k - 1]]
        BY <2>1, <2>4, <4>1
      <4> QED
        BY <4>2
    <3> QED
      BY <3>1, <3>2
  <2> QED
    BY <2>3, <2>4, <2>5
<1>3. n \in T
  <2> HIDE DEF T
  <2> QED
    BY <1>1, <1>2, Induction
<1>4. PICK g : Is(n, g)
  BY <1>3
<1> QED
  BY <1>4

Byte == {"/", ".", "n", "0"}
Name == {c \in Seq(Byte) : c \notin Path!Passing /\ \A i \in 1 .. Len(c) : c[i] # "/"}
Part == {c \in Seq(Byte) : \A i \in 1 .. Len(c) : c[i] # "/"}

LEMMA WalkedType ==
  ASSUME NEW names \in Seq(Name), NEW c \in Part
  PROVE  Path!Walked(names, c) \in Seq(Name)
<1>1. CASE c \in {<<>>, <<".">>}
  BY <1>1 DEF Path!Walked, Path!Dot
<1>2. CASE c = <<".", ".">>
  <2>1. c \notin {<<>>, <<".">>}
    BY <1>2
  <2>2. names # <<>> => Path!Front(names) \in Seq(Name)
    <3> SUFFICES ASSUME names # <<>> PROVE Path!Front(names) \in Seq(Name)
      OBVIOUS
    <3>1. \A i \in 1 .. Len(names) - 1 : names[i] \in Name
      BY ElementOfSeq, LenProperties
    <3> QED
      BY <3>1, LenProperties, SubSeqProperties DEF Path!Front
  <2>3. Path!Walked(names, c) = IF names = <<>> THEN names ELSE Path!Front(names)
    BY <1>2, <2>1, Zenon DEF Path!Walked, Path!Dot, Path!Front
  <2> QED
    BY <2>2, <2>3
<1>3. CASE c \notin {<<>>, <<".">>} /\ c # <<".", ".">>
  <2>1. c \in Name
    BY <1>3 DEF Name, Part, Path!Passing, Path!Dot
  <2>2. Path!Walked(names, c) = Append(names, c)
    BY <1>3 DEF Path!Walked, Path!Dot
  <2> QED
    BY <2>1, <2>2, AppendProperties
<1> QED
  BY <1>1, <1>2, <1>3

LEMMA PartGrows ==
  ASSUME NEW c \in Part, NEW b \in Byte, b # "/"
  PROVE  Append(c, b) \in Part
<1>1. Append(c, b) \in Seq(Byte) /\ Len(Append(c, b)) = Len(c) + 1 /\ Len(c) \in Nat
      /\ (\A i \in 1 .. Len(c) : Append(c, b)[i] = c[i]) /\ Append(c, b)[Len(c) + 1] = b
  BY AppendProperties, LenProperties DEF Part
<1>2. ASSUME NEW i \in 1 .. Len(c) + 1 PROVE Append(c, b)[i] # "/"
  <2>1. i \in 1 .. Len(c) \/ i = Len(c) + 1
    BY <1>1
  <2> QED
    BY <1>1, <2>1 DEF Part
<1> QED
  BY <1>1, <1>2 DEF Part

LEMMA WalkIs ==
  ASSUME NEW p \in Seq(Byte)
  PROVE  /\ Path!Walk(p)[0] = [names |-> <<>>, part |-> <<>>]
         /\ \A k \in 0 .. Len(p) : Path!Walk(p)[k] \in [names : Seq(Name), part : Part]
         /\ \A k \in 1 .. Len(p) : Path!Walk(p)[k] =
              IF p[k] = "/" THEN [names |-> Path!Walked(Path!Walk(p)[k - 1].names, Path!Walk(p)[k - 1].part), part |-> <<>>]
              ELSE [names |-> Path!Walk(p)[k - 1].names, part |-> Append(Path!Walk(p)[k - 1].part, p[k])]
<1> DEFINE S == [names : Seq(Name), part : Part]
           n == Len(p)
           a == [names |-> <<>>, part |-> <<>>]
           E(k, v) == IF p[k] = "/" THEN [names |-> Path!Walked(v.names, v.part), part |-> <<>>]
                      ELSE [names |-> v.names, part |-> Append(v.part, p[k])]
           F == [k \in 1 .. n |-> [v \in S |-> E(k, v)]]
<1>1. n \in Nat
  BY LenProperties
<1>0. <<>> \in Part
  BY EmptySeq DEF Part
<1>2. a \in S
  BY <1>0, EmptySeq
<1>3. ASSUME NEW k \in 1 .. n, NEW v \in S PROVE E(k, v) \in S
  <2>1. v.names \in Seq(Name) /\ v.part \in Part /\ p[k] \in Byte
    BY ElementOfSeq
  <2>2. Path!Walked(v.names, v.part) \in Seq(Name)
    BY <2>1, WalkedType
  <2>3. p[k] # "/" => Append(v.part, p[k]) \in Part
    BY <2>1, PartGrows
  <2> QED
    BY <1>0, <2>1, <2>2, <2>3
<1> HIDE DEF S, a, n
<1>4. F \in [1 .. n -> [S -> S]]
  <2> HIDE DEF E
  <2> QED
    BY <1>3
<1>5. \A k \in 1 .. n : \A v \in S : F[k][v] = E(k, v)
  <2> HIDE DEF E
  <2> QED
    OBVIOUS
<1> HIDE DEF F
<1>6. PICK g \in [0 .. n -> S] : g[0] = a /\ \A k \in 1 .. n : g[k] = F[k][g[k - 1]]
  BY <1>1, <1>2, <1>4, StepsExist
<1>7. \A k \in 1 .. n : g[k] = E(k, g[k - 1])
  <2> HIDE DEF E
  <2> SUFFICES ASSUME NEW k \in 1 .. n PROVE g[k] = E(k, g[k - 1])
    OBVIOUS
  <2>1. k - 1 \in 0 .. n
    BY <1>1
  <2>2. g[k - 1] \in S
    BY <2>1
  <2> QED
    BY <1>5, <1>6, <2>2
<1> DEFINE R(w) == [k \in 0 .. n |-> IF k = 0 THEN a ELSE E(k, w[k - 1])]
<1>8. g = R(g)
  <2> HIDE DEF E
  <2>1. \A k \in 0 .. n : g[k] = IF k = 0 THEN a ELSE E(k, g[k - 1])
    BY <1>1, <1>6, <1>7
  <2> QED
    BY <2>1
<1>9. Path!Walk(p) = CHOOSE w : w = R(w)
  BY Zenon DEF Path!Walk, Path!Sep, n, a
<1> DEFINE w == Path!Walk(p)
<1>10. w = R(w)
  <2> HIDE DEF R
  <2> QED
    BY <1>8, <1>9
<1> HIDE DEF w
<1>11. /\ w[0] = a
       /\ \A k \in 1 .. n : w[k] = E(k, w[k - 1])
  <2> HIDE DEF E
  <2> QED
    BY <1>1, <1>10
<1>12. \A k \in 0 .. n : w[k] \in S
  <2> HIDE DEF E
  <2> DEFINE T == {k \in Nat : k <= n => w[k] \in S}
  <2>1. 0 \in T
    BY <1>2, <1>11
  <2>2. \A k \in Nat : k \in T => k + 1 \in T
    <3> SUFFICES ASSUME NEW k \in Nat, k \in T, k + 1 <= n PROVE w[k + 1] \in S
      OBVIOUS
    <3>1. k + 1 \in 1 .. n /\ (k + 1) - 1 = k /\ w[k] \in S
      BY <1>1
    <3> QED
      BY <1>3, <1>11, <3>1
  <2> HIDE DEF T
  <2>3. Nat \subseteq T
    BY <2>1, <2>2, Induction
  <2> QED
    BY <1>1, <2>3 DEF T
<1> QED
  BY <1>11, <1>12 DEF w, S, n, a

-----------------------------------------------------------------------------
(* The names joined by separators, and the last of them taken away.        *)

LEMMA BodyStep ==
  ASSUME NEW names \in Seq(Name)
  PROVE  \E u \in [0 .. Len(names) -> Seq(Byte)] :
           /\ Path!Body(names) = u[Len(names)] /\ u[0] = <<>>
           /\ \A k \in 1 .. Len(names) : u[k] = (u[k - 1] \o names[k]) \o <<"/">>
<1> DEFINE S == Seq(Byte)
           n == Len(names)
           E(k, v) == (v \o names[k]) \o <<"/">>
           F == [k \in 1 .. n |-> [v \in S |-> E(k, v)]]
<1>1. n \in Nat
  BY LenProperties
<1>2. <<>> \in S
  BY EmptySeq
<1>3. ASSUME NEW k \in 1 .. n, NEW v \in S PROVE E(k, v) \in S
  <2>1. names[k] \in Seq(Byte)
    BY ElementOfSeq DEF Name
  <2>2. v \o names[k] \in Seq(Byte)
    BY <2>1, ConcatProperties
  <2>3. <<"/">> \in Seq(Byte)
    BY DEF Byte
  <2> DEFINE r == v \o names[k]
  <2>4. r \in Seq(Byte)
    BY <2>2
  <2> HIDE DEF r
  <2>5. r \o <<"/">> \in Seq(Byte)
    BY <2>3, <2>4, ConcatProperties
  <2> QED
    BY <2>5 DEF r
<1> HIDE DEF S, n
<1>4. F \in [1 .. n -> [S -> S]]
  <2> HIDE DEF E
  <2> QED
    BY <1>3
<1>5. \A k \in 1 .. n : \A v \in S : F[k][v] = E(k, v)
  <2> HIDE DEF E
  <2> QED
    OBVIOUS
<1> HIDE DEF F
<1> DEFINE a == <<>>
<1>a. a \in S
  BY <1>2
<1> HIDE DEF a
<1>6. PICK g \in [0 .. n -> S] : g[0] = a /\ \A k \in 1 .. n : g[k] = F[k][g[k - 1]]
  BY <1>1, <1>a, <1>4, StepsExist
<1> USE DEF a
<1>7. \A k \in 1 .. n : g[k] = E(k, g[k - 1])
  <2> HIDE DEF E
  <2> SUFFICES ASSUME NEW k \in 1 .. n PROVE g[k] = E(k, g[k - 1])
    OBVIOUS
  <2>1. k - 1 \in 0 .. n
    BY <1>1
  <2>2. g[k - 1] \in S
    BY <2>1
  <2> QED
    BY <1>5, <1>6, <2>2
<1> DEFINE R(w) == [k \in 0 .. n |-> IF k = 0 THEN <<>> ELSE E(k, w[k - 1])]
           u == CHOOSE w : w = R(w)
<1>8. g = R(g)
  <2> HIDE DEF E
  <2>1. \A k \in 0 .. n : g[k] = IF k = 0 THEN <<>> ELSE E(k, g[k - 1])
    BY <1>1, <1>6, <1>7
  <2> QED
    BY <2>1
<1>9. Path!Body(names) = u[n]
  BY Zenon DEF Path!Body, Path!Sep, n
<1>10. u = R(u)
  <2> HIDE DEF R
  <2> QED
    BY <1>8
<1> HIDE DEF u
<1>11. u[0] = <<>> /\ \A k \in 1 .. n : u[k] = E(k, u[k - 1])
  <2> HIDE DEF E
  <2> QED
    BY <1>1, <1>10
<1>12. \A k \in 0 .. n : u[k] \in S
  <2> HIDE DEF E
  <2> DEFINE T == {k \in Nat : k <= n => u[k] \in S}
  <2>1. 0 \in T
    BY <1>2, <1>11
  <2>2. \A k \in Nat : k \in T => k + 1 \in T
    <3> SUFFICES ASSUME NEW k \in Nat, k \in T, k + 1 <= n PROVE u[k + 1] \in S
      OBVIOUS
    <3>1. k + 1 \in 1 .. n /\ (k + 1) - 1 = k /\ u[k] \in S
      BY <1>1
    <3> QED
      BY <1>3, <1>11, <3>1
  <2> HIDE DEF T
  <2>3. Nat \subseteq T
    BY <2>1, <2>2, Induction
  <2> QED
    BY <1>1, <2>3 DEF T
<1>13. u \in [0 .. n -> S]
  <2> HIDE DEF E
  <2> QED
    BY <1>10, <1>12
<1> QED
  BY <1>9, <1>11, <1>13 DEF S, n

LEMMA BodyIs ==
  /\ Path!Body(<<>>) = <<>>
  /\ \A names \in Seq(Name) : Path!Body(names) \in Seq(Byte)
  /\ \A names \in Seq(Name), c \in Name :
       Path!Body(Append(names, c)) = (Path!Body(names) \o c) \o <<"/">>
<1>1. Path!Body(<<>>) = <<>>
  BY EmptySeq, BodyStep
<1>2. ASSUME NEW names \in Seq(Name) PROVE Path!Body(names) \in Seq(Byte)
  <2>1. Len(names) \in 0 .. Len(names)
    BY LenProperties
  <2>2. PICK u \in [0 .. Len(names) -> Seq(Byte)] : Path!Body(names) = u[Len(names)]
    BY BodyStep
  <2> QED
    BY <2>1, <2>2
<1>3. ASSUME NEW names \in Seq(Name), NEW c \in Name
      PROVE  Path!Body(Append(names, c)) = (Path!Body(names) \o c) \o <<"/">>
  <2> DEFINE m == Append(names, c)
             n == Len(names)
  <2>1. m \in Seq(Name) /\ Len(m) = n + 1 /\ n \in Nat /\ m[n + 1] = c
        /\ \A k \in 1 .. n : m[k] = names[k]
    BY AppendProperties, LenProperties
  <2> HIDE DEF m
  <2>2. PICK u \in [0 .. n -> Seq(Byte)] :
           /\ Path!Body(names) = u[n] /\ u[0] = <<>>
           /\ \A k \in 1 .. n : u[k] = (u[k - 1] \o names[k]) \o <<"/">>
    BY BodyStep
  <2>3. PICK v \in [0 .. n + 1 -> Seq(Byte)] :
           /\ Path!Body(m) = v[n + 1] /\ v[0] = <<>>
           /\ \A k \in 1 .. n + 1 : v[k] = (v[k - 1] \o m[k]) \o <<"/">>
    BY <2>1, BodyStep
  <2> HIDE DEF n
  <2> DEFINE T == {k \in Nat : k <= n => v[k] = u[k]}
  <2>4. 0 \in T
    BY <2>2, <2>3
  <2>5. \A k \in Nat : k \in T => k + 1 \in T
    <3> SUFFICES ASSUME NEW k \in Nat, k \in T, k + 1 <= n PROVE v[k + 1] = u[k + 1]
      OBVIOUS
    <3>1. n \in Nat
      BY <2>1
    <3>2. k <= n /\ (k + 1) - 1 = k /\ k + 1 \in 1 .. n /\ k + 1 \in 1 .. n + 1
      <4> HIDE DEF T
      <4> QED
        BY <3>1
    <3>3. v[k] = u[k]
      BY <3>2, Zenon
    <3>4. v[k + 1] = (v[k] \o m[k + 1]) \o <<"/">> /\ u[k + 1] = (u[k] \o names[k + 1]) \o <<"/">>
      BY <2>2, <2>3, <3>1, <3>2, <3>3
    <3> QED
      BY <2>1, <3>1, <3>2, <3>3, <3>4
  <2> HIDE DEF T
  <2>6. Nat \subseteq T
    BY <2>4, <2>5, Induction
  <2>7. v[n] = u[n]
    BY <2>1, <2>6 DEF T
  <2>8. v[n + 1] = (v[n] \o m[n + 1]) \o <<"/">>
    <3>1. n + 1 \in 1 .. n + 1 /\ (n + 1) - 1 = n
      BY <2>1
    <3> QED
      BY <2>3, <3>1
  <2> QED
    BY <2>1, <2>2, <2>3, <2>7, <2>8 DEF m
<1> QED
  BY <1>1, <1>2, <1>3

(* A string that is empty or ends in a separator. *)
Opened == {a \in Seq(Byte) : a # <<>> => a[Len(a)] = "/"}

LEMMA EndsInSep ==
  ASSUME NEW a \in Seq(Byte), NEW c \in Seq(Byte)
  PROVE  /\ (a \o c) \o <<"/">> \in Opened
         /\ Len((a \o c) \o <<"/">>) = Len(a) + Len(c) + 1
         /\ \A i \in 1 .. Len(a) + Len(c) + 1 : ((a \o c) \o <<"/">>)[i] =
              IF i <= Len(a) THEN a[i] ELSE IF i <= Len(a) + Len(c) THEN c[i - Len(a)] ELSE "/"
         /\ Len(a) \in Nat /\ Len(c) \in Nat
<1>1. <<"/">> \in Seq(Byte) /\ Len(<<"/">>) = 1 /\ <<"/">>[1] = "/"
  BY DEF Byte
<1> DEFINE r == a \o c
           s == <<"/">>
<1>2. r \in Seq(Byte) /\ Len(r) = Len(a) + Len(c) /\ Len(a) \in Nat /\ Len(c) \in Nat
      /\ \A i \in 1 .. Len(a) + Len(c) : r[i] = IF i <= Len(a) THEN a[i] ELSE c[i - Len(a)]
  BY ConcatProperties, LenProperties
<1>0. s \in Seq(Byte) /\ Len(s) = 1 /\ s[1] = "/"
  BY <1>1
<1> HIDE DEF r, s
<1> DEFINE d == r \o s
<1>3. d \in Seq(Byte) /\ Len(d) = Len(r) + 1
      /\ \A i \in 1 .. Len(r) + 1 : d[i] = IF i <= Len(r) THEN r[i] ELSE s[i - Len(r)]
  <2>0. r \in Seq(Byte) /\ s \in Seq(Byte)
    BY <1>0, <1>2
  <2>1. d \in Seq(Byte) /\ Len(d) = Len(r) + Len(s)
        /\ \A i \in 1 .. Len(r) + Len(s) : d[i] = IF i <= Len(r) THEN r[i] ELSE s[i - Len(r)]
    BY <2>0, ConcatProperties
  <2> HIDE DEF d
  <2> QED
    BY <1>0, <2>1
<1> HIDE DEF d
<1>4. ASSUME NEW i \in 1 .. Len(a) + Len(c) + 1
      PROVE  d[i] = IF i <= Len(a) THEN a[i] ELSE IF i <= Len(a) + Len(c) THEN c[i - Len(a)] ELSE "/"
  <2>0. d[i] = IF i <= Len(r) THEN r[i] ELSE s[i - Len(r)]
    BY <1>2, <1>3
  <2>1. CASE i <= Len(a) + Len(c)
    <3>1. i \in 1 .. Len(a) + Len(c)
      BY <1>2, <2>1
    <3> QED
      BY <1>2, <2>0, <2>1, <3>1
  <2>2. CASE ~ (i <= Len(a) + Len(c))
    <3>0. Len(r) = Len(a) + Len(c) /\ Len(a) \in Nat /\ Len(c) \in Nat
      BY <1>2
    <3>1. i - Len(r) = 1 /\ ~ (i <= Len(r)) /\ ~ (i <= Len(a))
      BY <2>2, <3>0
    <3> QED
      BY <1>0, <2>0, <2>2, <3>1
  <2> QED
    BY <2>1, <2>2
<1>5. d[Len(d)] = "/"
  BY <1>2, <1>3, <1>4
<1>6. d \in Opened
  BY <1>3, <1>5 DEF Opened
<1> QED
  BY <1>2, <1>3, <1>4, <1>6 DEF d, r, s

LEMMA ParentIs ==
  ASSUME NEW a \in Opened, NEW c \in Name
  PROVE  Path!Parent((a \o c) \o <<"/">>) = a
<1> DEFINE d == (a \o c) \o <<"/">>
           n == Len(a)
           cut == {k \in 0 .. Len(d) - 1 : k = 0 \/ d[k] = "/"}
<1>1. a \in Seq(Byte) /\ c \in Seq(Byte)
  BY DEF Opened, Name
<1>2. d \in Seq(Byte) /\ Len(d) = n + Len(c) + 1 /\ n \in Nat /\ Len(c) \in Nat
      /\ \A i \in 1 .. n + Len(c) + 1 : d[i] = IF i <= n THEN a[i] ELSE IF i <= n + Len(c) THEN c[i - n] ELSE "/"
  BY <1>1, EndsInSep DEF Opened
<1>3. Len(c) >= 1 /\ \A i \in 1 .. Len(c) : c[i] # "/"
  <2>1. c # <<>>
    BY DEF Name, Path!Passing
  <2>2. Len(c) # 0
    BY <1>1, <2>1, EmptySeq
  <2> QED
    BY <1>2, <2>2 DEF Name
<1>4. n > 0 => a[n] = "/"
  <2>1. n > 0 => a # <<>>
    BY EmptySeq
  <2> QED
    BY <2>1 DEF Opened
<1> HIDE DEF d, n
<1>5. n \in cut
  BY <1>2, <1>3, <1>4
<1>6. \A k \in cut : n >= k
  <2> SUFFICES ASSUME NEW k \in cut, k > n PROVE FALSE
    BY <1>2
  <2>1. k \in 1 .. n + Len(c) /\ k - n \in 1 .. Len(c) /\ ~ (k <= n) /\ k # 0 /\ k \in 1 .. n + Len(c) + 1
    BY <1>2
  <2>2. d[k] = c[k - n] /\ d[k] = "/"
    BY <1>2, <2>1
  <2> QED
    BY <1>3, <2>1, <2>2
<1> DEFINE top == CHOOSE k \in cut : \A j \in cut : k >= j
<1>7. cut \subseteq Nat
  BY <1>2
<1>8. top = n
  <2> HIDE DEF cut
  <2>1. top \in cut /\ \A j \in cut : top >= j
    BY <1>5, <1>6
  <2> HIDE DEF top
  <2>2. top >= n /\ n >= top /\ top \in Nat /\ n \in Nat
    BY <1>5, <1>6, <1>7, <2>1
  <2> QED
    BY <2>2
<1>9. ~ (Len(d) <= 1)
  BY <1>2, <1>3
<1>10. Path!Parent(d) = SubSeq(d, 1, top)
  BY <1>9, Zenon DEF Path!Parent, Path!Sep
<1>11. SubSeq(d, 1, n) = a
  <2>1. \A i \in 1 .. n : d[i] \in Byte /\ d[i] = a[i]
    <3> SUFFICES ASSUME NEW i \in 1 .. n PROVE d[i] \in Byte /\ d[i] = a[i]
      OBVIOUS
    <3>1. i \in 1 .. n + Len(c) + 1 /\ i <= n
      BY <1>2
    <3>2. a[i] \in Byte
      BY <1>1, ElementOfSeq DEF n
    <3> QED
      BY <1>2, <3>1, <3>2
  <2>2. SubSeq(d, 1, n) \in Seq(Byte) /\ Len(SubSeq(d, 1, n)) = n
        /\ \A i \in 1 .. n : SubSeq(d, 1, n)[i] = a[i]
    <3>1. SubSeq(d, 1, n) \in Seq(Byte) /\ Len(SubSeq(d, 1, n)) = (IF 1 <= n THEN n - 1 + 1 ELSE 0)
          /\ \A i \in 1 .. (n - 1 + 1) : SubSeq(d, 1, n)[i] = d[1 + i - 1]
      BY <1>2, <2>1, SubSeqProperties
    <3>2. \A i \in 1 .. n : i \in 1 .. (n - 1 + 1) /\ 1 + i - 1 = i
      BY <1>2
    <3>3. Len(SubSeq(d, 1, n)) = n
      BY <1>2, <3>1
    <3> QED
      BY <2>1, <3>1, <3>2, <3>3
  <2> QED
    BY <1>1, <2>2, SeqEqual DEF n
<1> QED
  BY <1>8, <1>10, <1>11 DEF d

Out(p, names) == Path!Lead(p) \o Path!Body(names)

LEMMA LeadIs ==
  ASSUME NEW p \in Seq(Byte)
  PROVE  /\ Path!Lead(p) \in Opened /\ Path!Lead(p) \in Seq(Byte)
         /\ Path!Lead(p) = <<>> \/ Path!Lead(p) = <<"/">>
<1>1. <<>> \in Seq(Byte) /\ <<"/">> \in Seq(Byte) /\ Len(<<"/">>) = 1 /\ <<"/">>[1] = "/"
  BY EmptySeq DEF Byte
<1>2. Path!Lead(p) = <<>> \/ Path!Lead(p) = <<"/">>
  BY Zenon DEF Path!Lead, Path!Sep
<1>3. <<>> \in Opened /\ <<"/">> \in Opened
  BY <1>1 DEF Opened
<1> QED
  BY <1>1, <1>2, <1>3

LEMMA JoinFirst ==
  ASSUME NEW a \in Seq(Byte), NEW b \in Seq(Byte), NEW c \in Seq(Byte), NEW d \in Seq(Byte)
  PROVE  a \o ((b \o c) \o d) = ((a \o b) \o c) \o d
<1>0. ASSUME NEW E, NEW r \in Seq(E), NEW s \in Seq(E), NEW u \in Seq(E)
      PROVE  (r \o s) \o u = r \o (s \o u)
  BY ConcatAssociative
<1>1. b \o c \in Seq(Byte)
  BY ConcatProperties
<1>2. (a \o (b \o c)) \o d = a \o ((b \o c) \o d)
  BY <1>0, <1>1
<1>3. (a \o b) \o c = a \o (b \o c)
  BY <1>0
<1> QED
  BY <1>2, <1>3

LEMMA OutIs ==
  ASSUME NEW p \in Seq(Byte), NEW names \in Seq(Name)
  PROVE  /\ Out(p, names) \in Seq(Byte) /\ Out(p, names) \in Opened
         /\ Out(p, <<>>) = Path!Lead(p)
         /\ \A c \in Name : Out(p, Append(names, c)) = (Out(p, names) \o c) \o <<"/">>
<1> DEFINE l == Path!Lead(p)
<1>0. <<"/">> \in Seq(Byte)
  BY DEF Byte
<1>1. l \in Seq(Byte) /\ l \in Opened
  BY LeadIs
<1> HIDE DEF l
<1>2. ASSUME NEW m \in Seq(Name) PROVE l \o Path!Body(m) \in Seq(Byte)
  BY <1>1, BodyIs, ConcatProperties
<1>3. l \o Path!Body(<<>>) = l
  <2>1. Path!Body(<<>>) = <<>>
    BY BodyIs
  <2> QED
    BY <1>1, <2>1, ConcatEmptySeq
<1>4. ASSUME NEW m \in Seq(Name), NEW c \in Name
      PROVE  l \o Path!Body(Append(m, c)) = ((l \o Path!Body(m)) \o c) \o <<"/">>
  <2>1. c \in Seq(Byte) /\ Path!Body(m) \in Seq(Byte) /\ Path!Body(Append(m, c)) = (Path!Body(m) \o c) \o <<"/">>
    BY BodyIs DEF Name
  <2> QED
    BY <1>0, <1>1, <2>1, JoinFirst
<1>5. l \o Path!Body(names) \in Opened
  <2>1. CASE names = <<>>
    BY <1>1, <1>3, <2>1
  <2>2. CASE names # <<>>
    <3>1. PICK m \in Seq(Name), c \in Name : names = Append(m, c)
      BY <2>2, SequenceEmptyOrAppend
    <3>2. l \o Path!Body(m) \in Seq(Byte) /\ c \in Seq(Byte)
      BY <1>2 DEF Name
    <3>3. ((l \o Path!Body(m)) \o c) \o <<"/">> \in Opened
      BY <3>2, EndsInSep
    <3> QED
      BY <1>4, <3>1, <3>3
  <2> QED
    BY <2>1, <2>2
<1> QED
  BY <1>2, <1>3, <1>4, <1>5 DEF Out, l

LEMMA WalkedIs ==
  ASSUME NEW names \in Seq(Name), NEW c \in Part
  PROVE  /\ c = <<>> \/ c = <<".">> => Path!Walked(names, c) = names
         /\ c = <<".", ".">> => Path!Walked(names, c) = IF names = <<>> THEN names ELSE Path!Front(names)
         /\ c \notin Path!Passing => Path!Walked(names, c) = Append(names, c) /\ c \in Name
<1>1. CASE c = <<>> \/ c = <<".">>
  <2>0. c \in {<<>>, <<".">>}
    BY <1>1
  <2>1. Path!Walked(names, c) = names
    BY <2>0 DEF Path!Walked, Path!Dot
  <2>2. c # <<".", ".">>
    <3>1. <<".", ".">> # <<>> /\ <<".", ".">> # <<".">>
      OBVIOUS
    <3> QED
      BY <1>1, <3>1
  <2>3. c \in Path!Passing
    BY <1>1, Zenon DEF Path!Passing, Path!Dot
  <2> QED
    BY <2>1, <2>2, <2>3
<1>2. CASE c = <<".", ".">>
  <2>1. c \notin {<<>>, <<".">>}
    BY <1>2
  <2>2. Path!Walked(names, c) = IF names = <<>> THEN names ELSE Path!Front(names)
    BY <1>2, <2>1 DEF Path!Walked, Path!Dot, Path!Front
  <2>3. c \in Path!Passing
    BY <1>2, Zenon DEF Path!Passing, Path!Dot
  <2>4. ~ (c = <<>> \/ c = <<".">>)
    BY <2>1
  <2> QED
    BY <2>2, <2>3, <2>4
<1>3. CASE c \notin {<<>>, <<".">>} /\ c # <<".", ".">>
  <2>1. c \in Name
    BY <1>3 DEF Name, Part, Path!Passing, Path!Dot
  <2>2. Path!Walked(names, c) = Append(names, c)
    BY <1>3 DEF Path!Walked, Path!Dot
  <2> QED
    BY <1>3, <2>1, <2>2
<1> QED
  BY <1>1, <1>2, <1>3

LEMMA FrontIs ==
  ASSUME NEW E, NEW s \in Seq(E), NEW e \in E
  PROVE  Path!Front(Append(s, e)) = s /\ Path!Last(Append(s, e)) = e
<1> DEFINE r == Append(s, e)
<1>1. r \in Seq(E) /\ Len(r) = Len(s) + 1 /\ (\A i \in 1 .. Len(s) : r[i] = s[i]) /\ r[Len(s) + 1] = e /\ Len(s) \in Nat
  BY AppendProperties, LenProperties
<1>2. \A i \in 1 .. Len(s) : s[i] \in E
  BY ElementOfSeq
<1> HIDE DEF r
<1>3. SubSeq(r, 1, Len(s)) = s
  <2> DEFINE n == Len(s)
             q == SubSeq(r, 1, n)
  <2>1. n \in Nat /\ \A i \in 1 .. n : r[i] \in E
    BY <1>1, <1>2
  <2> HIDE DEF n
  <2>2. q \in Seq(E) /\ Len(q) = (IF 1 <= n THEN n - 1 + 1 ELSE 0)
        /\ \A i \in 1 .. (n - 1 + 1) : q[i] = r[1 + i - 1]
    BY <2>1, SubSeqProperties
  <2> HIDE DEF q
  <2>3. Len(q) = n
    BY <2>1, <2>2
  <2>4. \A i \in 1 .. n : q[i] = s[i]
    <3>1. \A i \in 1 .. n : i \in 1 .. (n - 1 + 1) /\ 1 + i - 1 = i
      BY <2>1
    <3> QED
      BY <1>1, <2>2, <3>1 DEF n
  <2>5. q = s
    BY <2>2, <2>3, <2>4, SeqEqual DEF n
  <2> QED
    BY <2>5 DEF q, n
<1>4. Len(r) - 1 = Len(s)
  BY <1>1
<1> QED
  BY <1>1, <1>3, <1>4 DEF r, Path!Front, Path!Last

LEMMA ParentOut ==
  ASSUME NEW p \in Seq(Byte), NEW names \in Seq(Name)
  PROVE  /\ Path!Parent(Out(p, names)) = Out(p, Path!Walked(names, <<".", ".">>))
         /\ Path!Parent(Out(p, names)) \in Seq(Byte)
         /\ Len(Path!Parent(Out(p, names))) <= Len(Out(p, names))
<1>0. <<".", ".">> \in Part
  BY DEF Part, Byte
<1>1. Path!Walked(names, <<".", ".">>) = IF names = <<>> THEN names ELSE Path!Front(names)
  BY <1>0, WalkedIs
<1>2. CASE names = <<>>
  <2>1. Out(p, names) = Path!Lead(p) /\ (Path!Lead(p) = <<>> \/ Path!Lead(p) = <<"/">>)
    BY <1>2, OutIs, LeadIs
  <2>2. Len(Path!Lead(p)) <= 1
    <3>1. Len(<<>>) = 0 /\ Len(<<"/">>) = 1
      OBVIOUS
    <3>2. CASE Path!Lead(p) = <<>>
      BY <3>1, <3>2
    <3>3. CASE Path!Lead(p) = <<"/">>
      BY <3>1, <3>3
    <3> QED
      BY <2>1, <3>2, <3>3
  <2> DEFINE l == Path!Lead(p)
  <2>3. Path!Parent(l) = l
    <3> HIDE DEF l
    <3>1. Len(l) <= 1
      BY <2>2 DEF l
    <3> QED
      BY <3>1, Zenon DEF Path!Parent
  <2>4. Out(p, names) \in Seq(Byte) /\ Len(Out(p, names)) \in Nat
    BY OutIs, LenProperties
  <2>5. Path!Parent(Out(p, names)) = Out(p, names)
    BY <2>1, <2>3
  <2> QED
    BY <1>1, <1>2, <2>4, <2>5
<1>3. CASE names # <<>>
  <2>1. PICK m \in Seq(Name), c \in Name : names = Append(m, c)
    BY <1>3, SequenceEmptyOrAppend
  <2>2. Path!Front(names) = m
    BY <2>1, FrontIs
  <2>3. Out(p, names) = (Out(p, m) \o c) \o <<"/">> /\ Out(p, m) \in Opened
    BY <2>1, OutIs
  <2>4. Path!Parent((Out(p, m) \o c) \o <<"/">>) = Out(p, m)
    BY <2>3, ParentIs
  <2>5. /\ Len((Out(p, m) \o c) \o <<"/">>) = Len(Out(p, m)) + Len(c) + 1
        /\ Len(Out(p, m)) \in Nat /\ Len(c) \in Nat /\ Out(p, m) \in Seq(Byte)
    <3>1. Out(p, m) \in Seq(Byte) /\ c \in Seq(Byte)
      BY OutIs DEF Name
    <3> QED
      BY <3>1, EndsInSep
  <2>6. Path!Parent(Out(p, names)) = Out(p, m) /\ Len(Out(p, names)) = Len(Out(p, m)) + Len(c) + 1
    BY <2>3, <2>4, <2>5
  <2>7. Path!Walked(names, <<".", ".">>) = m
    BY <1>1, <1>3, <2>2
  <2> QED
    BY <2>5, <2>6, <2>7
<1> QED
  BY <1>2, <1>3

-----------------------------------------------------------------------------
(* What has been written, character by character.                          *)

(* What is written when k characters of the path p are read, in state s:   *)
(* the names kept so far, with the component begun behind them once it is  *)
(* known not to be an empty one.                                           *)
Begun(c, s) == \/ s = "dot1" /\ c = <<".">>
               \/ s = "dot2" /\ c = <<".", ".">>
               \/ s = "normal" /\ c \notin Path!Passing
Shape(p, k, d, s) ==
  LET w == Path!Walk(p)[k]
  IN \/ s = "start" /\ k = 0 /\ d = <<>>
     \/ /\ s = "separator" /\ w.part \in Path!Passing
        /\ d = Out(p, Path!Walked(w.names, w.part))
        /\ w.part # <<>> => k = Len(p) \/ p[k + 1] = "/"
     \/ Begun(w.part, s) /\ d = Out(p, w.names) \o w.part

LEMMA Parts ==
  /\ <<>> \in Part /\ <<".">> \in Part /\ <<".", ".">> \in Part
  /\ Path!Passing = {<<>>, <<".">>, <<".", ".">>}
  /\ <<>> # <<".">> /\ <<>> # <<".", ".">> /\ <<".">> # <<".", ".">>
  BY DEF Part, Byte, Path!Passing, Path!Dot

LEMMA Literals ==
  ASSUME NEW b
  PROVE  Append(<<>>, b) = <<b>> /\ Append(<<".">>, b) = <<".", b>> /\ Append(<<".", ".">>, b) = <<".", ".", b>>
<1> DEFINE E == {".", b}
           s == <<".">>
           u == <<".", ".">>
           v == <<".", b>>
           w == <<".", ".", b>>
<1>1. s \in Seq(E) /\ u \in Seq(E) /\ v \in Seq(E) /\ w \in Seq(E) /\ b \in E
  OBVIOUS
<1>2. Len(s) = 1 /\ Len(u) = 2 /\ Len(v) = 2 /\ Len(w) = 3
      /\ s[1] = "." /\ u[1] = "." /\ u[2] = "." /\ v[1] = "." /\ v[2] = b
      /\ w[1] = "." /\ w[2] = "." /\ w[3] = b
  OBVIOUS
<1> HIDE DEF E, s, u, v, w
<1>3. Append(s, b) = v
  <2> DEFINE r == Append(s, b)
  <2>1. r \in Seq(E) /\ Len(r) = Len(s) + 1 /\ (\A i \in 1 .. Len(s) : r[i] = s[i]) /\ r[Len(s) + 1] = b
    BY <1>1, AppendProperties
  <2> HIDE DEF r
  <2>2. Len(r) = 2 /\ r[1] = "." /\ r[2] = b
    BY <1>2, <2>1
  <2>3. Len(r) = Len(v) /\ \A i \in 1 .. Len(r) : r[i] = v[i]
    BY <1>2, <2>2
  <2>4. r = v
    BY <1>1, <2>1, <2>3, SeqEqual
  <2> QED
    BY <2>4 DEF r
<1>4. Append(u, b) = w
  <2> DEFINE r == Append(u, b)
  <2>1. r \in Seq(E) /\ Len(r) = Len(u) + 1 /\ (\A i \in 1 .. Len(u) : r[i] = u[i]) /\ r[Len(u) + 1] = b
    BY <1>1, AppendProperties
  <2> HIDE DEF r
  <2>2. Len(r) = 3 /\ r[1] = "." /\ r[2] = "." /\ r[3] = b
    BY <1>2, <2>1
  <2>3. Len(r) = Len(w) /\ \A i \in 1 .. Len(r) : r[i] = w[i]
    BY <1>2, <2>2
  <2>4. r = w
    BY <1>1, <2>1, <2>3, SeqEqual
  <2> QED
    BY <2>4 DEF r
<1> QED
  BY <1>3, <1>4 DEF s, u, v, w

LEMMA Begins ==
  ASSUME NEW c \in Part, NEW b \in {".", "n"}
  PROVE  /\ c = <<>> => Begun(Append(c, b), IF b = "." THEN "dot1" ELSE "normal")
         /\ c = <<".">> => Begun(Append(c, b), IF b = "." THEN "dot2" ELSE "normal")
         /\ c = <<".", ".">> \/ c \notin Path!Passing => Begun(Append(c, b), "normal")
<1>1. CASE c = <<>>
  <2>1. Append(c, b) = <<b>>
    BY <1>1
  <2>2. b = "n" => <<b>> \notin Path!Passing
    BY Parts
  <2>3. c \in Path!Passing /\ c # <<".">> /\ c # <<".", ".">>
    BY <1>1, Parts
  <2> QED
    BY <2>1, <2>2, <2>3 DEF Begun
<1>2. CASE c = <<".">>
  <2>1. Append(c, b) = <<".", b>>
    BY <1>2, Literals
  <2>2. b = "n" => <<".", b>> \notin Path!Passing
    BY Parts
  <2>3. c \in Path!Passing /\ c # <<>> /\ c # <<".", ".">>
    BY <1>2, Parts
  <2> QED
    BY <2>1, <2>2, <2>3 DEF Begun
<1>3. CASE c = <<".", ".">>
  <2>1. Append(c, b) = <<".", ".", b>>
    BY <1>3, Literals
  <2>2. <<".", ".", b>> \notin Path!Passing
    BY Parts
  <2>3. c # <<>> /\ c # <<".">>
    BY <1>3, Parts
  <2> QED
    BY <2>1, <2>2, <2>3 DEF Begun
<1>4. CASE c \notin Path!Passing
  <2>0. c \in Seq(Byte) /\ b \in Byte /\ <<>> \in Seq(Byte) /\ <<".">> \in Seq(Byte) /\ "." \in Byte
    BY DEF Part, Byte
  <2>1. Append(c, b) # <<>>
    BY <2>0, AppendProperties
  <2>2. Append(c, b) # <<".">>
    <3>1. <<".">> = Append(<<>>, ".") /\ c # <<>>
      BY <1>4, Parts
    <3> QED
      BY <2>0, <3>1, AppendInjective
  <2>3. Append(c, b) # <<".", ".">>
    <3>1. <<".", ".">> = Append(<<".">>, ".") /\ c # <<".">>
      BY <1>4, Parts, Literals
    <3>2. Append(c, b) = Append(<<".">>, ".") => c = <<".">>
      BY <2>0, AppendInjective
    <3> QED
      BY <3>1, <3>2
  <2>4. c # <<>> /\ c # <<".">>
    BY <1>4, Parts
  <2> QED
    BY <2>1, <2>2, <2>3, <2>4, Parts DEF Begun
<1> QED
  BY <1>1, <1>2, <1>3, <1>4, Parts

(* The next character, a separator or another. *)
LEMMA WalkNext ==
  ASSUME NEW p \in Seq(Byte), NEW k \in 0 .. Len(p)
  PROVE  LET w == Path!Walk(p)[k]
             v == Path!Walk(p)[k + 1]
         IN /\ w.names \in Seq(Name) /\ w.part \in Part
            /\ k < Len(p) /\ p[k + 1] = "/"
                 => v.names = Path!Walked(w.names, w.part) /\ v.part = <<>>
            /\ k < Len(p) /\ p[k + 1] # "/"
                 => v.names = w.names /\ v.part = Append(w.part, p[k + 1])
<1>1. Len(p) \in Nat
  BY LenProperties
<1>2. Path!Walk(p)[k] \in [names : Seq(Name), part : Part]
  BY WalkIs
<1>3. ASSUME k < Len(p)
      PROVE  Path!Walk(p)[k + 1] =
              IF p[k + 1] = "/" THEN [names |-> Path!Walked(Path!Walk(p)[k].names, Path!Walk(p)[k].part), part |-> <<>>]
              ELSE [names |-> Path!Walk(p)[k].names, part |-> Append(Path!Walk(p)[k].part, p[k + 1])]
  <2>1. k + 1 \in 1 .. Len(p) /\ (k + 1) - 1 = k
    BY <1>1, <1>3
  <2> DEFINE w == Path!Walk(p)
  <2>2. \A i \in 1 .. Len(p) : w[i] =
              IF p[i] = "/" THEN [names |-> Path!Walked(w[i - 1].names, w[i - 1].part), part |-> <<>>]
              ELSE [names |-> w[i - 1].names, part |-> Append(w[i - 1].part, p[i])]
    BY WalkIs
  <2> HIDE DEF w
  <2>3. w[k + 1] =
              IF p[k + 1] = "/" THEN [names |-> Path!Walked(w[(k + 1) - 1].names, w[(k + 1) - 1].part), part |-> <<>>]
              ELSE [names |-> w[(k + 1) - 1].names, part |-> Append(w[(k + 1) - 1].part, p[k + 1])]
    BY <2>1, <2>2
  <2>4. w[k + 1] =
              IF p[k + 1] = "/" THEN [names |-> Path!Walked(w[k].names, w[k].part), part |-> <<>>]
              ELSE [names |-> w[k].names, part |-> Append(w[k].part, p[k + 1])]
    BY <2>1, <2>3
  <2> QED
    BY <2>4 DEF w
<1> DEFINE w == Path!Walk(p)[k]
           v == Path!Walk(p)[k + 1]
<1>4. w.names \in Seq(Name) /\ w.part \in Part
  BY <1>2
<1>5. k < Len(p) => v = IF p[k + 1] = "/" THEN [names |-> Path!Walked(w.names, w.part), part |-> <<>>]
                        ELSE [names |-> w.names, part |-> Append(w.part, p[k + 1])]
  BY <1>3
<1> HIDE DEF w, v
<1>6. k < Len(p) /\ p[k + 1] = "/" => v.names = Path!Walked(w.names, w.part) /\ v.part = <<>>
  BY <1>5
<1>7. k < Len(p) /\ p[k + 1] # "/" => v.names = w.names /\ v.part = Append(w.part, p[k + 1])
  BY <1>5
<1> QED
  BY <1>4, <1>6, <1>7 DEF w, v

LEMMA ShapeOpen ==
  ASSUME NEW p \in Seq(Byte), NEW d, Shape(p, 0, d, "start"), p = <<>> \/ p[1] # "/"
  PROVE  Shape(p, 0, d, "separator")
<1>1. d = <<>>
  BY DEF Shape, Begun
<1>2. Path!Walk(p)[0] = [names |-> <<>>, part |-> <<>>]
  BY WalkIs
<1>3. Path!Lead(p) = <<>>
  BY Zenon DEF Path!Lead, Path!Sep
<1>4. <<>> \in Seq(Name) /\ <<>> \in Part
  BY EmptySeq, Parts
<1>5. Out(p, <<>>) = <<>>
  BY <1>3, <1>4, OutIs
<1>6. Path!Walked(<<>>, <<>>) = <<>>
  BY <1>4, WalkedIs
<1> DEFINE w == Path!Walk(p)[0]
<1>7. w.names = <<>> /\ w.part = <<>>
  BY <1>2
<1> HIDE DEF w
<1>8. w.part \in Path!Passing /\ d = Out(p, Path!Walked(w.names, w.part))
  BY <1>1, <1>5, <1>6, <1>7, Parts
<1> QED
  BY <1>7, <1>8 DEF Shape, w

LEMMA ShapeRoot ==
  ASSUME NEW p \in Seq(Byte), NEW d, Shape(p, 0, d, "start"), 0 < Len(p), p[1] = "/"
  PROVE  Shape(p, 1, Append(d, "/"), "separator")
<1>1. d = <<>>
  BY DEF Shape, Begun
<1> DEFINE w == Path!Walk(p)[0]
           v == Path!Walk(p)[1]
<1>2. w = [names |-> <<>>, part |-> <<>>]
  BY WalkIs
<1>3. p # <<>>
  BY EmptySeq
<1>4. Path!Lead(p) = <<"/">>
  BY <1>3, Zenon DEF Path!Lead, Path!Sep
<1>5. <<>> \in Seq(Name) /\ <<>> \in Part
  BY EmptySeq, Parts
<1>6. Out(p, <<>>) = <<"/">>
  BY <1>4, <1>5, OutIs
<1>7. Path!Walked(<<>>, <<>>) = <<>>
  BY <1>5, WalkedIs
<1>8. v.names = Path!Walked(w.names, w.part) /\ v.part = <<>>
  <2>1. 0 \in 0 .. Len(p) /\ 0 + 1 = 1
    BY LenProperties
  <2>2. 0 < Len(p) /\ p[0 + 1] = "/" =>
          Path!Walk(p)[0 + 1].names = Path!Walked(w.names, w.part) /\ Path!Walk(p)[0 + 1].part = <<>>
    BY <2>1, WalkNext, Zenon
  <2> QED
    BY <2>1, <2>2
<1> HIDE DEF w, v
<1>9. v.names = <<>> /\ v.part = <<>>
  BY <1>2, <1>7, <1>8
<1>10. Append(d, "/") = <<"/">>
  BY <1>1
<1>11. v.part \in Path!Passing /\ Append(d, "/") = Out(p, Path!Walked(v.names, v.part))
  BY <1>6, <1>7, <1>9, <1>10, Parts
<1> QED
  BY <1>9, <1>11 DEF Shape, v

LEMMA ShapeSkip ==
  ASSUME NEW p \in Seq(Byte), NEW k \in 0 .. Len(p), NEW d, Shape(p, k, d, "separator"),
         k < Len(p), p[k + 1] = "/"
  PROVE  Shape(p, k + 1, d, "separator")
<1> DEFINE w == Path!Walk(p)[k]
           v == Path!Walk(p)[k + 1]
<1>1. w.part \in Path!Passing /\ d = Out(p, Path!Walked(w.names, w.part))
  BY DEF Shape, Begun
<1>2. w.names \in Seq(Name) /\ w.part \in Part /\ v.names = Path!Walked(w.names, w.part) /\ v.part = <<>>
  BY WalkNext, Zenon
<1> HIDE DEF w, v
<1>3. v.names \in Seq(Name) /\ Path!Walked(v.names, v.part) = v.names
  BY <1>2, WalkedType, WalkedIs, Parts
<1> QED
  BY <1>1, <1>2, <1>3, Parts DEF Shape, v

LEMMA ShapeBegins ==
  ASSUME NEW p \in Seq(Byte), NEW k \in 0 .. Len(p), NEW d, Shape(p, k, d, "separator"),
         k < Len(p), p[k + 1] \in {".", "n"}
  PROVE  Shape(p, k + 1, Append(d, p[k + 1]), IF p[k + 1] = "." THEN "dot1" ELSE "normal")
<1> DEFINE w == Path!Walk(p)[k]
           v == Path!Walk(p)[k + 1]
           b == p[k + 1]
<1>0. b \in {".", "n"} /\ b # "/" /\ b \in Byte
  BY DEF Byte
<1>1. d = Out(p, Path!Walked(w.names, w.part)) /\ w.part = <<>>
  <2>1. Len(p) \in Nat /\ k # Len(p)
    BY LenProperties
  <2> QED
    BY <1>0, <2>1 DEF Shape, Begun
<1>2. w.names \in Seq(Name) /\ w.part \in Part /\ v.names = w.names /\ v.part = Append(w.part, b)
  BY <1>0, WalkNext, Zenon
<1> HIDE DEF w, v, b
<1>3. d = Out(p, w.names) /\ d \in Seq(Byte)
  BY <1>1, <1>2, WalkedIs, OutIs
<1>4. Append(d, b) = d \o <<b>> /\ Append(w.part, b) = <<b>>
  BY <1>0, <1>1, <1>3, AppendIsConcat
<1>5. Begun(v.part, IF b = "." THEN "dot1" ELSE "normal")
  BY <1>0, <1>1, <1>2, Begins
<1>6. Append(d, b) = Out(p, v.names) \o v.part
  BY <1>1, <1>2, <1>3, <1>4
<1> QED
  BY <1>5, <1>6 DEF Shape, v, b

LEMMA ShapeGrows ==
  ASSUME NEW p \in Seq(Byte), NEW k \in 0 .. Len(p), NEW d, NEW s \in {"dot1", "dot2", "normal"},
         Shape(p, k, d, s), k < Len(p), p[k + 1] \in {".", "n"}
  PROVE  Shape(p, k + 1, Append(d, p[k + 1]), IF s = "dot1" /\ p[k + 1] = "." THEN "dot2" ELSE "normal")
<1> DEFINE w == Path!Walk(p)[k]
           v == Path!Walk(p)[k + 1]
           b == p[k + 1]
           r == IF s = "dot1" /\ b = "." THEN "dot2" ELSE "normal"
<1>0. b \in {".", "n"} /\ b # "/" /\ b \in Byte
  BY DEF Byte
<1>1. d = Out(p, w.names) \o w.part /\ Begun(w.part, s)
  BY DEF Shape
<1>2. w.names \in Seq(Name) /\ w.part \in Part /\ v.names = w.names /\ v.part = Append(w.part, b)
  BY <1>0, WalkNext, Zenon
<1> HIDE DEF w, v, b
<1>3. Begun(v.part, r)
  <2>1. CASE s = "dot1"
    <3>1. w.part = <<".">>
      BY <1>1, <2>1 DEF Begun
    <3>2. Begun(Append(w.part, b), IF b = "." THEN "dot2" ELSE "normal")
      BY <1>0, <1>2, <3>1, Begins
    <3> QED
      BY <1>2, <2>1, <3>2
  <2>2. CASE s = "dot2" \/ s = "normal"
    <3>1. w.part = <<".", ".">> \/ w.part \notin Path!Passing
      BY <1>1, <2>2 DEF Begun
    <3>2. Begun(Append(w.part, b), "normal")
      BY <1>0, <1>2, <3>1, Begins
    <3> QED
      BY <1>2, <2>2, <3>2
  <2> QED
    BY <2>1, <2>2
<1>4. Append(d, b) = Out(p, v.names) \o v.part
  <2>1. Out(p, w.names) \in Seq(Byte) /\ w.part \in Seq(Byte)
    BY <1>2, OutIs DEF Part
  <2> DEFINE o == Out(p, w.names)
             c == w.part
  <2>2. o \o Append(c, b) = Append(o \o c, b)
    <3> HIDE DEF o, c
    <3>1. o \in Seq(Byte) /\ c \in Seq(Byte) /\ b \in Byte
      BY <1>0, <2>1 DEF o, c
    <3> QED
      BY <3>1, ConcatAppend
  <2> QED
    BY <1>1, <1>2, <2>2
<1> QED
  BY <1>3, <1>4 DEF Shape, v, b

LEMMA ShapeCloses ==
  ASSUME NEW p \in Seq(Byte), NEW k \in 0 .. Len(p), NEW d, Shape(p, k, d, "normal"),
         k < Len(p), p[k + 1] = "/"
  PROVE  Shape(p, k + 1, Append(d, "/"), "separator")
<1> DEFINE w == Path!Walk(p)[k]
           v == Path!Walk(p)[k + 1]
<1>1. d = Out(p, w.names) \o w.part /\ w.part \notin Path!Passing
  BY DEF Shape, Begun
<1>2. w.names \in Seq(Name) /\ w.part \in Part /\ v.names = Path!Walked(w.names, w.part) /\ v.part = <<>>
  BY WalkNext, Zenon
<1> HIDE DEF w, v
<1>3. v.names = Append(w.names, w.part) /\ w.part \in Name /\ v.names \in Seq(Name)
  BY <1>1, <1>2, WalkedIs, WalkedType
<1>4. Out(p, v.names) = (Out(p, w.names) \o w.part) \o <<"/">>
  BY <1>2, <1>3, OutIs
<1>5. d \in Seq(Byte)
  <2>1. Out(p, w.names) \in Seq(Byte) /\ w.part \in Seq(Byte)
    BY <1>2, OutIs DEF Part
  <2> QED
    BY <1>1, <2>1, ConcatProperties
<1>6. Append(d, "/") = Out(p, v.names)
  <2>1. "/" \in Byte
    BY DEF Byte
  <2>2. Append(d, "/") = d \o <<"/">>
    BY <1>5, <2>1, AppendIsConcat
  <2> QED
    BY <1>1, <1>4, <2>2
<1>7. Path!Walked(v.names, v.part) = v.names
  BY <1>2, <1>3, WalkedIs, Parts
<1> QED
  BY <1>2, <1>6, <1>7, Parts DEF Shape, v

(* What "." and ".." leave behind once the component is known to end. *)
LEMMA ShapeDot ==
  ASSUME NEW p \in Seq(Byte), NEW k \in 0 .. Len(p), NEW d, Shape(p, k, d, "dot1"),
         k = Len(p) \/ p[k + 1] = "/"
  PROVE  /\ Shape(p, k, Path!Front(d), "separator")
         /\ Path!Front(d) \in Seq(Byte) /\ Len(Path!Front(d)) <= Len(d)
<1> DEFINE w == Path!Walk(p)[k]
<1>1. d = Out(p, w.names) \o w.part /\ w.part = <<".">>
  BY DEF Shape, Begun
<1>2. w.names \in Seq(Name) /\ w.part \in Part
  BY WalkNext, Zenon
<1> HIDE DEF w
<1>3. Out(p, w.names) \in Seq(Byte) /\ Path!Walked(w.names, w.part) = w.names /\ "." \in Byte
  BY <1>1, <1>2, OutIs, WalkedIs DEF Byte
<1>4. d = Append(Out(p, w.names), ".")
  BY <1>1, <1>3, AppendIsConcat
<1>5. Path!Front(d) = Out(p, w.names)
  BY <1>3, <1>4, FrontIs
<1>6. Len(d) = Len(Out(p, w.names)) + 1 /\ Len(Out(p, w.names)) \in Nat
  BY <1>3, <1>4, AppendProperties, LenProperties
<1>7. Shape(p, k, Path!Front(d), "separator")
  BY <1>1, <1>3, <1>5, Parts DEF Shape, w
<1> QED
  BY <1>3, <1>5, <1>6, <1>7

LEMMA ShapeParent ==
  ASSUME NEW p \in Seq(Byte), NEW k \in 0 .. Len(p), NEW d, Shape(p, k, d, "dot2"),
         k = Len(p) \/ p[k + 1] = "/"
  PROVE  /\ Shape(p, k, Path!Parent(SubSeq(d, 1, Len(d) - 2)), "separator")
         /\ Path!Parent(SubSeq(d, 1, Len(d) - 2)) \in Seq(Byte)
         /\ Len(Path!Parent(SubSeq(d, 1, Len(d) - 2))) <= Len(d)
<1> DEFINE w == Path!Walk(p)[k]
           o == Out(p, w.names)
<1>1. d = o \o w.part /\ w.part = <<".", ".">>
  BY DEF Shape, Begun
<1>2. w.names \in Seq(Name) /\ w.part \in Part
  BY WalkNext, Zenon
<1>3. o \in Seq(Byte)
  BY <1>2, OutIs
<1>4. /\ Path!Parent(o) = Out(p, Path!Walked(w.names, w.part))
      /\ Path!Parent(o) \in Seq(Byte) /\ Len(Path!Parent(o)) <= Len(o)
  BY <1>1, <1>2, ParentOut
<1> HIDE DEF w, o
<1>5. SubSeq(d, 1, Len(d) - 2) = o /\ Len(d) = Len(o) + 2 /\ Len(o) \in Nat
  <2>1. Len(d) = Len(o) + 2 /\ (\A i \in 1 .. Len(o) : d[i] = o[i]) /\ Len(o) \in Nat
    <3> DEFINE x == <<".", ".">>
    <3>1. x \in Seq(Byte) /\ Len(x) = 2
      BY DEF Byte
    <3> HIDE DEF x
    <3>2. Len(o \o x) = Len(o) + Len(x) /\ Len(o) \in Nat
          /\ \A i \in 1 .. Len(o) + Len(x) : (o \o x)[i] = IF i <= Len(o) THEN o[i] ELSE x[i - Len(o)]
      BY <1>3, <3>1, ConcatProperties, LenProperties
    <3>3. \A i \in 1 .. Len(o) : i \in 1 .. Len(o) + Len(x) /\ i <= Len(o)
      BY <3>1, <3>2
    <3>4. d = o \o x
      BY <1>1 DEF x
    <3> QED
      BY <3>1, <3>2, <3>3, <3>4
  <2> DEFINE n == Len(o)
             q == SubSeq(d, 1, n)
  <2>2. n \in Nat /\ \A i \in 1 .. n : d[i] \in Byte /\ d[i] = o[i]
    BY <1>3, <2>1, ElementOfSeq
  <2> HIDE DEF n
  <2>3. q \in Seq(Byte) /\ Len(q) = (IF 1 <= n THEN n - 1 + 1 ELSE 0)
        /\ \A i \in 1 .. (n - 1 + 1) : q[i] = d[1 + i - 1]
    BY <2>2, SubSeqProperties
  <2> HIDE DEF q
  <2>4. Len(q) = n
    BY <2>2, <2>3
  <2>5. \A i \in 1 .. n : q[i] = o[i]
    <3>1. \A i \in 1 .. n : i \in 1 .. (n - 1 + 1) /\ 1 + i - 1 = i
      BY <2>2
    <3> QED
      BY <2>2, <2>3, <3>1
  <2>6. q = o
    BY <1>3, <2>3, <2>4, <2>5, SeqEqual DEF n
  <2>7. Len(d) - 2 = n
    BY <2>1 DEF n
  <2> QED
    BY <2>1, <2>6, <2>7 DEF q
<1>6. Len(Path!Parent(o)) <= Len(d)
  BY <1>4, <1>5, LenProperties
<1>7. Shape(p, k, Path!Parent(o), "separator")
  BY <1>1, <1>4, Parts DEF Shape, w
<1> QED
  BY <1>4, <1>5, <1>6, <1>7

(* At the end of the path the shape is the canonical path. *)
LEMMA ShapeEnds ==
  ASSUME NEW p \in Seq(Byte), NEW d, NEW s \in {"separator", "normal"}, Shape(p, Len(p), d, s)
  PROVE  d = Path!Joined(p)
<1> DEFINE w == Path!Walk(p)[Len(p)]
<1>1. CASE s = "separator"
  <2>1. w.part \in Path!Passing /\ d = Out(p, Path!Walked(w.names, w.part))
    BY <1>1 DEF Shape, Begun
  <2> QED
    BY <2>1, Zenon DEF Path!Joined, Out
<1>2. CASE s = "normal"
  <2>1. w.part \notin Path!Passing /\ d = Out(p, w.names) \o w.part
    BY <1>2 DEF Shape, Begun
  <2> QED
    BY <2>1, Zenon DEF Path!Joined, Out
<1> QED
  BY <1>1, <1>2

-----------------------------------------------------------------------------
(* The invariant.                                                          *)

PathText == IF src # <<>> /\ src[Len(src)] = "0" THEN SubSeq(src, 1, Len(src) - 1) ELSE src
Ended == src # <<>> /\ src[Len(src)] = "0"

PathInv ==
  /\ src \in Seq(Byte) /\ \A i \in 1 .. Len(src) - 1 : src[i] # "0"
  /\ dlim \in Nat /\ si \in 0 .. Len(PathText)
  /\ dst \in Seq(Byte) /\ Len(dst) <= si /\ Len(dst) <= dlim
  /\ pstate = "idle" => pres = "returned"
  /\ pres = "running" => Shape(PathText, si, dst, pstate)
  /\ pres = "ERANGE" => Len(src) >= dlim \/ ~Ended
  /\ pstate # "idle" /\ pres = "returned" => Ended /\ dst = Path!Joined(PathText)

LEMMA TextIs ==
  ASSUME src \in Seq(Byte)
  PROVE  /\ PathText \in Seq(Byte) /\ Len(PathText) \in Nat /\ Len(src) \in Nat
         /\ Len(PathText) = IF Ended THEN Len(src) - 1 ELSE Len(src)
         /\ \A i \in 1 .. Len(PathText) : PathText[i] = src[i]
         /\ Ended => PathText = Path!Front(src) /\ src[Len(src)] = "0" /\ Path!Last(src) = src[Len(src)]
         /\ src = <<>> <=> Len(src) = 0
<1>1. Len(src) \in Nat /\ (src = <<>> <=> Len(src) = 0)
  BY LenProperties, EmptySeq
<1>2. CASE Ended
  <2> DEFINE n == Len(src) - 1
             q == SubSeq(src, 1, n)
  <2>1. n \in Nat /\ \A i \in 1 .. n : src[i] \in Byte
    BY <1>1, <1>2, ElementOfSeq DEF Ended
  <2>2. PathText = q
    BY <1>2 DEF Ended, PathText
  <2>0. n = Len(src) - 1
    OBVIOUS
  <2> HIDE DEF n
  <2>3. q \in Seq(Byte) /\ Len(q) = (IF 1 <= n THEN n - 1 + 1 ELSE 0)
        /\ \A i \in 1 .. (n - 1 + 1) : q[i] = src[1 + i - 1]
    BY <2>1, SubSeqProperties
  <2>4. q = Path!Front(src)
    BY <2>0 DEF Path!Front
  <2> HIDE DEF q
  <2>5. Len(q) = n
    BY <2>1, <2>3
  <2>6. \A i \in 1 .. n : q[i] = src[i]
    <3>1. \A i \in 1 .. n : i \in 1 .. (n - 1 + 1) /\ 1 + i - 1 = i
      BY <2>1
    <3> QED
      BY <2>1, <2>3, <3>1
  <2> QED
    BY <1>1, <1>2, <2>0, <2>1, <2>2, <2>3, <2>4, <2>5, <2>6 DEF Ended, Path!Last
<1>3. CASE ~Ended
  BY <1>1, <1>3 DEF Ended, PathText
<1> QED
  BY <1>2, <1>3

(* The character read is the Nul behind the text or the next one of it. *)
LEMMA Reading ==
  ASSUME PathInv, ~(si >= Len(src))
  PROVE  /\ src[si + 1] \in Byte
         /\ src[si + 1] = "0" => si = Len(PathText) /\ Ended
         /\ src[si + 1] # "0" => si < Len(PathText) /\ PathText[si + 1] = src[si + 1]
<1>1. /\ PathText \in Seq(Byte) /\ Len(PathText) \in Nat /\ Len(src) \in Nat
      /\ Len(PathText) = IF Ended THEN Len(src) - 1 ELSE Len(src)
      /\ \A i \in 1 .. Len(PathText) : PathText[i] = src[i]
  BY TextIs DEF PathInv
<1>2. si \in 0 .. Len(PathText) /\ \A i \in 1 .. Len(src) - 1 : src[i] # "0"
  BY DEF PathInv
<1>3. si + 1 \in 1 .. Len(src)
  BY <1>1, <1>2
<1>4. src[si + 1] \in Byte
  BY <1>3, ElementOfSeq DEF PathInv
<1>5. ASSUME src[si + 1] = "0" PROVE si = Len(PathText) /\ Ended
  <2>1. si + 1 = Len(src)
    BY <1>1, <1>2, <1>3, <1>5
  <2>2. src # <<>>
    BY <1>1, <1>3, TextIs DEF PathInv
  <2>3. Ended
    BY <1>5, <2>1, <2>2 DEF Ended
  <2> QED
    BY <1>1, <1>2, <2>1, <2>3
<1>6. ASSUME src[si + 1] # "0" PROVE si < Len(PathText) /\ PathText[si + 1] = src[si + 1]
  <2>1. si < Len(PathText)
    <3>1. CASE Ended
      <4>1. si + 1 # Len(src)
        BY <1>6, <3>1 DEF Ended
      <4> QED
        BY <1>1, <1>2, <1>3, <3>1, <4>1
    <3>2. CASE ~Ended
      BY <1>1, <1>2, <1>3, <3>2
    <3> QED
      BY <3>1, <3>2
  <2>2. si + 1 \in 1 .. Len(PathText)
    BY <1>1, <1>2, <2>1
  <2> QED
    BY <1>1, <2>1, <2>2
<1> QED
  BY <1>4, <1>5, <1>6

Keeps == src' = src /\ dlim' = dlim

LEMMA PathMoves ==
  ASSUME PathInv, Keeps, pres' = "running", pstate' # "idle", si' \in 0 .. Len(PathText),
         dst' \in Seq(Byte), Len(dst') <= si', Len(dst') <= dlim,
         Shape(PathText, si', dst', pstate')
  PROVE  PathInv'
<1>1. PathText' = PathText /\ (Ended' <=> Ended)
  BY DEF Keeps, PathText, Ended
<1>2. (src \in Seq(Byte))' /\ (\A i \in 1 .. Len(src) - 1 : src[i] # "0")' /\ dlim' \in Nat
  BY DEF PathInv, Keeps
<1>3. Len(dst') <= dlim'
  BY DEF Keeps
<1>4. Shape(PathText', si', dst', pstate')
  BY <1>1
<1>5. si' \in 0 .. Len(PathText')
  BY <1>1
<1>6. pres' # "ERANGE" /\ pres' # "returned"
  OBVIOUS
<1> QED
  BY <1>2, <1>3, <1>4, <1>5, <1>6, Zenon DEF PathInv

LEMMA PathReturns ==
  ASSUME PathInv, Keeps, pres' = "returned", si' = si, dst' \in Seq(Byte), Len(dst') <= Len(dst),
         Ended, dst' = Path!Joined(PathText)
  PROVE  PathInv'
<1>1. PathText' = PathText /\ Ended'
  BY DEF Keeps, PathText, Ended
<1>2. (src \in Seq(Byte))' /\ (\A i \in 1 .. Len(src) - 1 : src[i] # "0")' /\ dlim' \in Nat
  BY DEF PathInv, Keeps
<1>3. Len(dst') <= dlim' /\ Len(dst') <= si' /\ si' \in 0 .. Len(PathText')
  <2>1. Len(dst) <= dlim /\ Len(dst) <= si /\ si \in 0 .. Len(PathText) /\ dst \in Seq(Byte) /\ dlim \in Nat
    BY DEF PathInv
  <2>2. Len(dst) \in Nat /\ Len(dst') \in Nat /\ si \in Nat
    BY <2>1, LenProperties
  <2> QED
    BY <1>1, <2>1, <2>2 DEF Keeps
<1>4. dst' = Path!Joined(PathText')
  BY <1>1
<1>5. pres' # "ERANGE" /\ pres' # "running"
  OBVIOUS
<1> QED
  BY <1>1, <1>2, <1>3, <1>4, <1>5, Zenon DEF PathInv

LEMMA PathCopies ==
  ASSUME PathInv, Keeps, pres' = pres, pres = "running", ~(si >= Len(src) \/ Len(dst) >= dlim),
         NEW c \in Byte, dst' = Append(dst, c), si' = si + 1, si < Len(PathText), pstate' # "idle",
         Shape(PathText, si + 1, Append(dst, c), pstate')
  PROVE  PathInv'
<1>1. dst \in Seq(Byte) /\ Len(dst) <= si /\ si \in 0 .. Len(PathText) /\ dlim \in Nat
  BY DEF PathInv
<1>2. Len(PathText) \in Nat /\ Len(dst) \in Nat
  BY <1>1, TextIs, LenProperties DEF PathInv
<1>3. dst' \in Seq(Byte) /\ Len(dst') = Len(dst) + 1
  BY <1>1, AppendProperties
<1>4. si' \in 0 .. Len(PathText) /\ Len(dst') <= si' /\ Len(dst') <= dlim
  BY <1>1, <1>2, <1>3
<1>5. Shape(PathText, si', dst', pstate') /\ pres' = "running"
  OBVIOUS
<1> QED
  BY <1>3, <1>4, <1>5, PathMoves

-----------------------------------------------------------------------------
(* Every step keeps it.                                                    *)

(* The characters of path.c. *)
LEMMA PathBytes == Path!Sep = "/" /\ Path!Dot = "." /\ Path!Letter = "n" /\ Path!Nul = "0"
                   /\ Path!Running = "running" /\ Path!Returned = "returned" /\ Path!OutOfRange = "ERANGE"
  BY DEF Path!Sep, Path!Dot, Path!Letter, Path!Nul, Path!Running, Path!Returned, Path!OutOfRange

(* What is known in the loop, whatever the state. *)
Turn(s) ==
  /\ pstate = s /\ pres = "running" /\ ~(si >= Len(src) \/ Len(dst) >= dlim)
  /\ PathText \in Seq(Byte) /\ si \in 0 .. Len(PathText) /\ dst \in Seq(Byte)
  /\ Len(dst) <= si /\ Len(dst) <= dlim
  /\ Shape(PathText, si, dst, s)
  /\ src[si + 1] \in Byte
  /\ src[si + 1] = "0" => si = Len(PathText) /\ Ended
  /\ src[si + 1] # "0" => si < Len(PathText) /\ PathText[si + 1] = src[si + 1]

LEMMA LoopTurn ==
  ASSUME PathInv, NEW s, Path!Loop(s)
  PROVE  Turn(s)
<1>1. pstate = s /\ pres = "running" /\ ~(si >= Len(src) \/ Len(dst) >= dlim)
  BY PathBytes DEF Path!Loop, Path!AtEnd
<1>2. PathText \in Seq(Byte)
  BY TextIs DEF PathInv
<1>3. /\ src[si + 1] \in Byte
      /\ src[si + 1] = "0" => si = Len(PathText) /\ Ended
      /\ src[si + 1] # "0" => si < Len(PathText) /\ PathText[si + 1] = src[si + 1]
  BY <1>1, Reading
<1>4. Shape(PathText, si, dst, s) /\ si \in 0 .. Len(PathText) /\ dst \in Seq(Byte)
      /\ Len(dst) <= si /\ Len(dst) <= dlim
  BY <1>1, Zenon DEF PathInv
<1> QED
  BY <1>1, <1>2, <1>3, <1>4 DEF Turn

LEMMA CopyIs ==
  ASSUME NEW c, NEW s, Path!Copy(c, s)
  PROVE  Keeps /\ pres' = pres /\ dst' = Append(dst, c) /\ si' = si + 1 /\ pstate' = s
  BY DEF Path!Copy, Path!Stay, Keeps

LEMMA SeparateKeeps ==
  ASSUME PathInv, pstate = "start" \/ pstate = "separator", Turn(pstate), Path!Separate,
         Shape(PathText, si, dst, "separator")
  PROVE  PathInv'
<1> DEFINE c == src[si + 1]
<1>t. /\ pres = "running" /\ PathText \in Seq(Byte) /\ si \in 0 .. Len(PathText) /\ dst \in Seq(Byte)
      /\ ~(si >= Len(src) \/ Len(dst) >= dlim) /\ Len(dst) <= si /\ Len(dst) <= dlim
      /\ c \in Byte /\ (c = "0" => si = Len(PathText) /\ Ended)
      /\ (c # "0" => si < Len(PathText) /\ PathText[si + 1] = c)
  BY DEF Turn
<1>1. CASE c = "0" /\ Path!Return(dst)
  <2>1. Keeps /\ pres' = "returned" /\ si' = si /\ dst' = dst
    BY <1>1, PathBytes DEF Path!Return, Keeps
  <2>2. dst = Path!Joined(PathText)
    <3>1. Shape(PathText, Len(PathText), dst, "separator")
      BY <1>t, <1>1
    <3> QED
      BY <1>t, <3>1, ShapeEnds
  <2>3. Len(dst') <= Len(dst)
    BY <1>t, <2>1, LenProperties
  <2> QED
    BY <1>t, <1>1, <2>1, <2>2, <2>3, PathReturns
<1>2. CASE c = "/" /\ si' = si + 1 /\ pstate' = "separator" /\ dst' = dst /\ Path!Stay
  <2>1. Keeps /\ pres' = "running"
    BY <1>t, <1>2 DEF Path!Stay, Keeps
  <2>2. Shape(PathText, si + 1, dst, "separator")
    BY <1>t, <1>2, ShapeSkip
  <2>3. si' \in 0 .. Len(PathText) /\ Len(dst') <= si'
    <3>1. Len(PathText) \in Nat /\ Len(dst) \in Nat
      BY <1>t, LenProperties
    <3> QED
      BY <1>t, <1>2, <3>1
  <2> QED
    BY <1>t, <1>2, <2>1, <2>2, <2>3, PathMoves
<1>3. ASSUME c \in {".", "n"}, Path!Copy(c, IF c = "." THEN "dot1" ELSE "normal") PROVE PathInv'
  <2>1. Keeps /\ pres' = pres /\ dst' = Append(dst, c) /\ si' = si + 1 /\ pstate' = IF c = "." THEN "dot1" ELSE "normal"
    BY <1>3, CopyIs
  <2>2. Shape(PathText, si + 1, Append(dst, c), IF c = "." THEN "dot1" ELSE "normal")
    BY <1>t, <1>3, ShapeBegins
  <2>3. pstate' # "idle" /\ Shape(PathText, si + 1, Append(dst, c), pstate')
    BY <2>1, <2>2
  <2> HIDE DEF c
  <2> QED
    BY <1>t, <1>3, <2>1, <2>3, PathCopies
<1>4. \/ c = "0" /\ Path!Return(dst)
      \/ c = "/" /\ si' = si + 1 /\ pstate' = "separator" /\ dst' = dst /\ Path!Stay
      \/ c = "." /\ Path!Copy(c, "dot1")
      \/ c = "n" /\ Path!Copy(c, "normal")
  BY PathBytes, Zenon DEF Path!Separate, Path!ch
<1>5. CASE c = "." /\ Path!Copy(c, "dot1")
  BY <1>3, <1>5
<1>6. CASE c = "n" /\ Path!Copy(c, "normal")
  BY <1>3, <1>6
<1> QED
  BY <1>1, <1>2, <1>4, <1>5, <1>6

LEMMA StartKeeps == ASSUME PathInv, Path!Start PROVE PathInv'
<1> DEFINE c == src[si + 1]
<1>0. Turn("start") /\ pstate = "start"
  BY LoopTurn DEF Path!Start, Turn
<1>t. /\ pres = "running" /\ PathText \in Seq(Byte) /\ si \in 0 .. Len(PathText) /\ dst \in Seq(Byte)
      /\ ~(si >= Len(src) \/ Len(dst) >= dlim) /\ Shape(PathText, si, dst, "start")
      /\ c \in Byte /\ (c = "0" => si = Len(PathText) /\ Ended)
      /\ (c # "0" => si < Len(PathText) /\ PathText[si + 1] = c)
  BY <1>0 DEF Turn
<1>1. si = 0
  BY <1>t DEF Shape, Begun
<1>2. CASE c = "/"
  <2>1. Path!Copy("/", "separator")
    BY <1>2, PathBytes, Zenon DEF Path!Start, Path!ch
  <2>2. Keeps /\ pres' = pres /\ dst' = Append(dst, "/") /\ si' = si + 1 /\ pstate' = "separator"
    BY <2>1, CopyIs
  <2>3. Shape(PathText, si + 1, Append(dst, "/"), "separator")
    <3>1. 0 < Len(PathText) /\ PathText[1] = "/" /\ Shape(PathText, 0, dst, "start") /\ 0 + 1 = 1
      BY <1>t, <1>1, <1>2
    <3>2. Shape(PathText, 1, Append(dst, "/"), "separator")
      BY <1>t, <3>1, ShapeRoot
    <3> QED
      BY <1>1, <3>1, <3>2
  <2>4. pstate' # "idle" /\ "/" \in Byte /\ Shape(PathText, si + 1, Append(dst, "/"), pstate')
    BY <2>2, <2>3 DEF Byte
  <2> QED
    BY <1>t, <1>2, <2>2, <2>4, PathCopies
<1>3. CASE c # "/"
  <2>1. Path!Separate
    BY <1>3, PathBytes, Zenon DEF Path!Start, Path!ch
  <2>2. Shape(PathText, si, dst, "separator")
    <3>1. PathText = <<>> \/ PathText[1] # "/"
      <4>1. CASE c = "0"
        <5>1. Len(PathText) = 0
          BY <1>t, <1>1, <4>1
        <5> QED
          BY <1>t, <5>1, EmptySeq
      <4>2. CASE c # "0"
        BY <1>t, <1>1, <1>3, <4>2
      <4> QED
        BY <4>1, <4>2
    <3>2. Shape(PathText, 0, dst, "separator")
      BY <1>t, <1>1, <3>1, ShapeOpen
    <3> QED
      BY <1>1, <3>2
  <2> QED
    BY <1>0, <2>1, <2>2, SeparateKeeps
<1> QED
  BY <1>2, <1>3

LEMMA SeparatorKeeps == ASSUME PathInv, Path!Separator PROVE PathInv'
<1>1. Turn("separator") /\ pstate = "separator" /\ Path!Separate
  BY LoopTurn DEF Path!Separator, Turn
<1>2. Shape(PathText, si, dst, "separator")
  BY <1>1 DEF Turn
<1> QED
  BY <1>1, <1>2, SeparateKeeps

(* A component that has begun goes on with "." or a letter. *)
LEMMA GrowKeeps ==
  ASSUME PathInv, NEW s \in {"dot1", "dot2", "normal"}, Turn(s), src[si + 1] \in {".", "n"},
         Path!Copy(src[si + 1], IF s = "dot1" /\ src[si + 1] = "." THEN "dot2" ELSE "normal")
  PROVE  PathInv'
<1> DEFINE c == src[si + 1]
           r == IF s = "dot1" /\ c = "." THEN "dot2" ELSE "normal"
<1>t. /\ pres = "running" /\ PathText \in Seq(Byte) /\ si \in 0 .. Len(PathText) /\ dst \in Seq(Byte)
      /\ ~(si >= Len(src) \/ Len(dst) >= dlim) /\ Shape(PathText, si, dst, s)
      /\ c \in Byte /\ si < Len(PathText) /\ PathText[si + 1] = c /\ c \in {".", "n"}
  BY DEF Turn
<1>1. Keeps /\ pres' = pres /\ dst' = Append(dst, c) /\ si' = si + 1 /\ pstate' = r
  BY CopyIs
<1>2. Shape(PathText, si + 1, Append(dst, c), r)
  BY <1>t, ShapeGrows
<1>3. pstate' # "idle" /\ Shape(PathText, si + 1, Append(dst, c), pstate')
  BY <1>1, <1>2
<1> HIDE DEF c, r
<1> QED
  BY <1>t, <1>1, <1>3, PathCopies

LEMMA NormalKeeps == ASSUME PathInv, Path!Normal PROVE PathInv'
<1> DEFINE c == src[si + 1]
<1>0. Turn("normal")
  BY LoopTurn DEF Path!Normal
<1>t. /\ pres = "running" /\ PathText \in Seq(Byte) /\ si \in 0 .. Len(PathText) /\ dst \in Seq(Byte)
      /\ ~(si >= Len(src) \/ Len(dst) >= dlim) /\ Shape(PathText, si, dst, "normal")
      /\ c \in Byte /\ (c = "0" => si = Len(PathText) /\ Ended)
      /\ (c # "0" => si < Len(PathText) /\ PathText[si + 1] = c)
  BY <1>0 DEF Turn
<1>1. \/ c = "0" /\ Path!Return(dst)
      \/ c = "/" /\ Path!Copy("/", "separator")
      \/ c \in {".", "n"} /\ Path!Copy(c, "normal")
  BY PathBytes, Zenon DEF Path!Normal, Path!ch
<1>2. CASE c = "0" /\ Path!Return(dst)
  <2>1. Keeps /\ pres' = "returned" /\ si' = si /\ dst' = dst
    BY <1>2, PathBytes DEF Path!Return, Keeps
  <2>2. dst = Path!Joined(PathText)
    <3>1. Shape(PathText, Len(PathText), dst, "normal")
      BY <1>t, <1>2
    <3> QED
      BY <1>t, <3>1, ShapeEnds
  <2>3. Len(dst') <= Len(dst)
    BY <1>t, <2>1, LenProperties
  <2> QED
    BY <1>t, <1>2, <2>1, <2>2, <2>3, PathReturns
<1>3. CASE c = "/" /\ Path!Copy("/", "separator")
  <2>1. Keeps /\ pres' = pres /\ dst' = Append(dst, "/") /\ si' = si + 1 /\ pstate' = "separator"
    BY <1>3, CopyIs
  <2>2. Shape(PathText, si + 1, Append(dst, "/"), "separator")
    BY <1>t, <1>3, ShapeCloses
  <2>3. pstate' # "idle" /\ "/" \in Byte /\ Shape(PathText, si + 1, Append(dst, "/"), pstate')
    BY <2>1, <2>2 DEF Byte
  <2> QED
    BY <1>t, <1>3, <2>1, <2>3, PathCopies
<1>4. CASE c \in {".", "n"} /\ Path!Copy(c, "normal")
  BY <1>0, <1>4, GrowKeeps
<1> QED
  BY <1>1, <1>2, <1>3, <1>4

(* A "." or ".." that ends is taken back. *)
LEMMA TakenBack ==
  ASSUME PathInv, Turn(pstate), Path!Stay, si' = si, pstate' = "separator",
         dst' \in Seq(Byte), Len(dst') <= Len(dst), Shape(PathText, si, dst', "separator")
  PROVE  PathInv'
<1>1. /\ pres = "running" /\ si \in 0 .. Len(PathText) /\ dst \in Seq(Byte)
      /\ Len(dst) <= si /\ Len(dst) <= dlim
  BY DEF Turn
<1>2. Keeps /\ pres' = "running"
  BY <1>1 DEF Path!Stay, Keeps
<1>3. Len(dst') <= si' /\ Len(dst') <= dlim
  <2>1. Len(dst) \in Nat /\ Len(dst') \in Nat /\ dlim \in Nat
    BY <1>1, LenProperties DEF PathInv
  <2> QED
    BY <1>1, <2>1
<1> QED
  BY <1>1, <1>2, <1>3, PathMoves

LEMMA Dot1Keeps == ASSUME PathInv, Path!Dot1 PROVE PathInv'
<1> DEFINE c == src[si + 1]
<1>0. Turn("dot1") /\ pstate = "dot1"
  BY LoopTurn DEF Path!Dot1, Turn
<1>t. /\ pres = "running" /\ PathText \in Seq(Byte) /\ si \in 0 .. Len(PathText) /\ dst \in Seq(Byte)
      /\ Shape(PathText, si, dst, "dot1")
      /\ c \in Byte /\ (c = "0" => si = Len(PathText) /\ Ended)
      /\ (c # "0" => si < Len(PathText) /\ PathText[si + 1] = c)
  BY <1>0 DEF Turn
<1>1. \/ c = "0" /\ Path!Return(Path!Front(dst))
      \/ c = "/" /\ dst' = Path!Front(dst) /\ pstate' = "separator" /\ si' = si /\ Path!Stay
      \/ c = "." /\ Path!Copy(c, "dot2")
      \/ c = "n" /\ Path!Copy(c, "normal")
  BY PathBytes, Zenon DEF Path!Dot1, Path!ch
<1>2. ASSUME c = "0" \/ c = "/"
      PROVE  /\ Shape(PathText, si, Path!Front(dst), "separator")
             /\ Path!Front(dst) \in Seq(Byte) /\ Len(Path!Front(dst)) <= Len(dst)
  <2>1. si = Len(PathText) \/ PathText[si + 1] = "/"
    BY <1>t, <1>2
  <2> QED
    BY <1>t, <2>1, ShapeDot
<1>3. CASE c = "0" /\ Path!Return(Path!Front(dst))
  <2>1. Keeps /\ pres' = "returned" /\ si' = si /\ dst' = Path!Front(dst)
    BY <1>3, PathBytes DEF Path!Return, Keeps
  <2> DEFINE f == Path!Front(dst)
  <2>2. Shape(PathText, si, f, "separator") /\ f \in Seq(Byte) /\ Len(f) <= Len(dst) /\ dst' = f
    BY <1>2, <1>3, <2>1
  <2> HIDE DEF f
  <2>3. f = Path!Joined(PathText)
    <3>1. Shape(PathText, Len(PathText), f, "separator")
      BY <1>t, <1>3, <2>2
    <3> QED
      BY <1>t, <3>1, ShapeEnds
  <2> QED
    BY <1>t, <1>3, <2>1, <2>2, <2>3, PathReturns
<1>4. CASE c = "/" /\ dst' = Path!Front(dst) /\ pstate' = "separator" /\ si' = si /\ Path!Stay
  <2>1. dst' \in Seq(Byte) /\ Len(dst') <= Len(dst) /\ Shape(PathText, si, dst', "separator")
    BY <1>2, <1>4
  <2> QED
    BY <1>0, <1>4, <2>1, TakenBack
<1>5. CASE c = "." /\ Path!Copy(c, "dot2")
  BY <1>0, <1>5, GrowKeeps
<1>6. CASE c = "n" /\ Path!Copy(c, "normal")
  BY <1>0, <1>6, GrowKeeps
<1> QED
  BY <1>1, <1>3, <1>4, <1>5, <1>6

LEMMA Dot2Keeps == ASSUME PathInv, Path!Dot2 PROVE PathInv'
<1> DEFINE c == src[si + 1]
           d == Path!Parent(SubSeq(dst, 1, Len(dst) - 2))
<1>0. Turn("dot2") /\ pstate = "dot2"
  BY LoopTurn DEF Path!Dot2, Turn
<1>t. /\ PathText \in Seq(Byte) /\ si \in 0 .. Len(PathText)
      /\ Shape(PathText, si, dst, "dot2")
      /\ c \in Byte /\ (c = "0" => si = Len(PathText) /\ Ended)
      /\ (c # "0" => si < Len(PathText) /\ PathText[si + 1] = c)
  BY <1>0 DEF Turn
<1>1. \/ c \in {"0", "/"} /\ dst' = d /\ pstate' = "separator" /\ si' = si /\ Path!Stay
      \/ c \in {".", "n"} /\ Path!Copy(c, "normal")
  BY PathBytes, Zenon DEF Path!Dot2, Path!ch
<1>2. CASE c \in {"0", "/"} /\ dst' = d /\ pstate' = "separator" /\ si' = si /\ Path!Stay
  <2>1. si = Len(PathText) \/ PathText[si + 1] = "/"
    BY <1>t, <1>2
  <2>2. Shape(PathText, si, d, "separator") /\ d \in Seq(Byte) /\ Len(d) <= Len(dst)
    BY <1>t, <2>1, ShapeParent
  <2> HIDE DEF d
  <2> QED
    BY <1>0, <1>2, <2>2, TakenBack
<1>3. CASE c \in {".", "n"} /\ Path!Copy(c, "normal")
  BY <1>0, <1>3, GrowKeeps
<1> QED
  BY <1>1, <1>2, <1>3

(* Nothing of a path has been read yet, or none is being read. *)
Fresh ==
  /\ src \in Seq(Byte) /\ \A i \in 1 .. Len(src) - 1 : src[i] # "0"
  /\ dlim \in Nat /\ si = 0 /\ dst = <<>>
  /\ \/ pstate = "idle" /\ pres = "returned"
     \/ pstate = "start" /\ pres = "running"

LEMMA Unread == Fresh => PathInv
<1> SUFFICES ASSUME Fresh PROVE PathInv
  OBVIOUS
<1>1. 0 \in 0 .. Len(PathText) /\ <<>> \in Seq(Byte) /\ Len(<<>>) = 0
  BY TextIs, EmptySeq DEF Fresh
<1>2. pres = "running" => Shape(PathText, si, dst, pstate)
  BY DEF Shape, Fresh
<1> QED
  BY <1>1, <1>2 DEF PathInv, Fresh

LEMMA PathInit == ASSUME Path!Init PROVE PathInv
<1>1. src \in Seq(Byte) /\ Len(src) = 0 /\ dlim = 0 /\ si = 0 /\ dst = <<>> /\ pstate = "idle" /\ pres = "returned"
  BY EmptySeq, PathBytes DEF Path!Init
<1> QED
  BY <1>1, Unread DEF Fresh

(* A path of the model, with its Nul or without. *)
LEMMA PathIs ==
  ASSUME NEW p \in Path!Path
  PROVE  /\ p \in Seq(Byte) /\ \A i \in 1 .. Len(p) : p[i] # "0"
         /\ Append(p, "0") \in Seq(Byte)
         /\ \A i \in 1 .. Len(Append(p, "0")) - 1 : Append(p, "0")[i] # "0"
<1>1. PICK m \in 0 .. PathLen : p \in [1 .. m -> {"/", ".", "n"}]
  BY PathBytes DEF Path!Path, Path!SeqOf
<1>2. m \in Nat
  BY PathAssumption
<1>3. p \in Seq(Byte) /\ Len(p) = m
  <2>1. p \in [1 .. m -> Byte]
    BY <1>1 DEF Byte
  <2> QED
    BY <1>2, <2>1
<1>4. \A i \in 1 .. Len(p) : p[i] # "0"
  BY <1>1, <1>3
<1> DEFINE r == Append(p, "0")
<1>5. r \in Seq(Byte) /\ Len(r) = Len(p) + 1 /\ \A i \in 1 .. Len(p) : r[i] = p[i]
  <2>1. "0" \in Byte
    BY DEF Byte
  <2> QED
    BY <1>3, <2>1, AppendProperties
<1> HIDE DEF r
<1>6. Len(r) - 1 = Len(p)
  BY <1>2, <1>3, <1>5
<1>7. \A i \in 1 .. Len(r) - 1 : r[i] # "0"
  BY <1>4, <1>5, <1>6
<1> QED
  BY <1>3, <1>4, <1>5, <1>7 DEF r

LEMMA CallKeeps == ASSUME Path!Call PROVE PathInv'
<1>1. PICK p \in Path!Path, ended \in BOOLEAN, r \in Room :
        src' = (IF ended THEN Append(p, "0") ELSE p) /\ dlim' = r
  BY PathBytes DEF Path!Call
<1>2. src' \in Seq(Byte) /\ \A i \in 1 .. Len(src') - 1 : src'[i] # "0"
  <2>1. CASE ended
    BY <1>1, <2>1, PathIs
  <2>2. CASE ~ended
    <3>1. src' = p /\ p \in Seq(Byte) /\ Len(p) \in Nat /\ \A i \in 1 .. Len(p) : p[i] # "0"
      BY <1>1, <2>2, PathIs, LenProperties
    <3>2. \A i \in 1 .. Len(p) - 1 : i \in 1 .. Len(p)
      BY <3>1
    <3> QED
      BY <3>1, <3>2
  <2> QED
    BY <2>1, <2>2
<1>3. dlim' \in Nat
  BY <1>1, PathAssumption
<1>4. si' = 0 /\ dst' = <<>> /\ pstate' = "start" /\ pres' = "running"
  BY PathBytes DEF Path!Call
<1>5. Fresh'
  BY <1>2, <1>3, <1>4 DEF Fresh
<1> QED
  BY <1>5, Unread, PTL

LEMMA DoneKeeps == ASSUME Path!Done PROVE PathInv'
<1>1. src' \in Seq(Byte) /\ Len(src') = 0 /\ dlim' = 0 /\ si' = 0 /\ dst' = <<>> /\ pstate' = "idle" /\ pres' = "returned"
  BY EmptySeq, PathBytes DEF Path!Done
<1>2. Fresh'
  BY <1>1 DEF Fresh
<1> QED
  BY <1>2, Unread, PTL

(* ERANGE: no room is left, or no Nul where the path ends. *)
LEMMA RangeErrorKeeps == ASSUME PathInv, Path!RangeError PROVE PathInv'
<1>1. /\ src' = src /\ si' = si /\ dst' = dst /\ dlim' = dlim /\ pstate' = pstate
      /\ pres' = "ERANGE" /\ pstate # "idle"
      /\ si >= Len(src) \/ Len(dst) >= dlim
  BY PathBytes DEF Path!RangeError, Path!AtEnd
<1>2. PathText' = PathText /\ (Ended' <=> Ended)
  BY <1>1 DEF PathText, Ended
<1>3. Len(src) >= dlim \/ ~Ended
  <2>1. /\ Len(PathText) \in Nat /\ Len(src) \in Nat
        /\ Len(PathText) = IF Ended THEN Len(src) - 1 ELSE Len(src)
    BY TextIs DEF PathInv
  <2>2. dlim \in Nat /\ si \in 0 .. Len(PathText) /\ Len(dst) <= si /\ Len(dst) \in Nat
    BY LenProperties DEF PathInv
  <2> QED
    BY <1>1, <2>1, <2>2
<1>4. Len(src') >= dlim' \/ ~Ended'
  BY <1>1, <1>2, <1>3
<1>5. /\ src' \in Seq(Byte) /\ \A i \in 1 .. Len(src') - 1 : src'[i] # "0"
      /\ dlim' \in Nat /\ si' \in 0 .. Len(PathText')
      /\ dst' \in Seq(Byte) /\ Len(dst') <= si' /\ Len(dst') <= dlim'
  BY <1>1, <1>2 DEF PathInv
<1>6. pres' # "running" /\ pres' # "returned" /\ pstate' # "idle"
  BY <1>1
<1> QED
  BY <1>4, <1>5, <1>6, Zenon DEF PathInv

LEMMA PathSame == ASSUME PathInv, UNCHANGED Path!pathVars PROVE PathInv'
<1>1. /\ src' = src /\ si' = si /\ dst' = dst /\ dlim' = dlim /\ pstate' = pstate /\ pres' = pres
  BY DEF Path!pathVars
<1>2. PathText' = PathText /\ (Ended' <=> Ended)
  BY <1>1 DEF PathText, Ended
<1>3. Shape(PathText', si', dst', pstate') <=> Shape(PathText, si, dst, pstate)
  BY <1>1, <1>2
<1>4. Path!Joined(PathText') = Path!Joined(PathText)
  BY <1>2
<1>5. /\ src' \in Seq(Byte) /\ \A i \in 1 .. Len(src') - 1 : src'[i] # "0"
      /\ dlim' \in Nat /\ si' \in 0 .. Len(PathText')
      /\ dst' \in Seq(Byte) /\ Len(dst') <= si' /\ Len(dst') <= dlim'
  BY <1>1, <1>2 DEF PathInv
<1>6. /\ pstate' = "idle" => pres' = "returned"
      /\ pres' = "running" => Shape(PathText', si', dst', pstate')
      /\ pres' = "ERANGE" => Len(src') >= dlim' \/ ~Ended'
      /\ pstate' # "idle" /\ pres' = "returned" => Ended' /\ dst' = Path!Joined(PathText')
  BY <1>1, <1>2, <1>3, <1>4 DEF PathInv
<1> QED
  BY <1>5, <1>6, Zenon DEF PathInv

LEMMA PathStep == ASSUME PathInv, Path!Next \/ UNCHANGED Path!pathVars PROVE PathInv'
<1>1. CASE Path!Call
  BY <1>1, CallKeeps
<1>2. CASE Path!Start
  BY <1>2, StartKeeps
<1>3. CASE Path!Separator
  BY <1>3, SeparatorKeeps
<1>4. CASE Path!Normal
  BY <1>4, NormalKeeps
<1>5. CASE Path!Dot1
  BY <1>5, Dot1Keeps
<1>6. CASE Path!Dot2
  BY <1>6, Dot2Keeps
<1>7. CASE Path!RangeError
  BY <1>7, RangeErrorKeeps
<1>8. CASE Path!Done
  BY <1>8, DoneKeeps
<1>9. CASE UNCHANGED Path!pathVars
  BY <1>9, PathSame
<1> QED
  BY <1>1, <1>2, <1>3, <1>4, <1>5, <1>6, <1>7, <1>8, <1>9, Zenon DEF Path!Next

LEMMA PathInvCanonical == ASSUME PathInv PROVE Path!Canonical
<1>1. Len(dst) <= dlim /\ src \in Seq(Byte)
  BY DEF PathInv
<1>2. Ended => PathText = Path!Front(src) /\ Path!Last(src) = "0"
  BY <1>1, TextIs
<1>3. pstate # "idle" /\ pres = "returned" => Path!Last(src) = "0" /\ dst = Path!Joined(Path!Front(src))
  BY <1>2 DEF PathInv
<1>4. pres = "ERANGE" => Len(src) >= dlim \/ src = <<>> \/ Path!Last(src) # "0"
  <2>1. ~Ended => src = <<>> \/ Path!Last(src) # "0"
    BY DEF Ended, Path!Last
  <2> QED
    BY <2>1 DEF PathInv
<1> QED
  BY <1>1, <1>3, <1>4, PathBytes, Zenon DEF Path!Canonical

(* path.c: whatever the path and the room, path_canon returns the          *)
(* canonical path, ".." and all, fails only where the Nul or room is       *)
(* missing, and writes nothing beyond the room.                            *)
THEOREM PathIsCanonical == Spec => []PathCanonical
<1>1. Init => PathInv
  BY PathInit DEF Init
<1>2. PathInv /\ [Next]_vars => PathInv'
  <2> SUFFICES ASSUME PathInv, [Next]_vars PROVE PathInv'
    OBVIOUS
  <2>1. Path!Next \/ UNCHANGED Path!pathVars
    BY Zenon DEF Next, vars, pathVars, Path!pathVars
  <2> QED
    BY <2>1, PathStep
<1>3. PathInv => PathCanonical
  BY PathInvCanonical DEF PathCanonical
<1> QED
  BY <1>1, <1>2, <1>3, PTL DEF Spec

-----------------------------------------------------------------------------
(***************************************************************************)
(* csv.c, for texts of any length, buffers and rows of any size: at every  *)
(* character row holds what the fields read so far decode to, and elem,    *)
(* with the state, what was read of the one that is being read.            *)
(***************************************************************************)
Kind == {",", "q", "s", "n", "x"}

LEMMA CsvBytes == CsvParser!Comma = "," /\ CsvParser!Quote = "q" /\ CsvParser!Space = "s"
                  /\ CsvParser!Newline = "n" /\ CsvParser!Plain = "x"
                  /\ \A c : CsvParser!EndsField(c) <=> c \in {",", "n"}
  BY DEF CsvParser!Comma, CsvParser!Quote, CsvParser!Space, CsvParser!Newline, CsvParser!Plain, CsvParser!EndsField

Halves == [run : {"even", "odd", "bad"}, out : Seq(Kind)]

LEMMA HalveIs ==
  ASSUME NEW h \in Halves, NEW c \in Kind
  PROVE  /\ CsvParser!Halve(h, c) \in Halves
         /\ h.run = "even" /\ c = "q" => CsvParser!Halve(h, c) = [run |-> "odd", out |-> h.out]
         /\ h.run = "odd" /\ c # "q" => CsvParser!Halve(h, c).run = "bad"
         /\ h.run = "bad" => CsvParser!Halve(h, c).run = "bad"
         /\ (h.run = "even" /\ c # "q") \/ (h.run = "odd" /\ c = "q")
              => CsvParser!Halve(h, c) = [run |-> "even", out |-> Append(h.out, c)]
<1>1. Append(h.out, c) \in Seq(Kind) /\ h.out \in Seq(Kind) /\ h.run \in {"even", "odd", "bad"}
  BY AppendProperties DEF Halves
<1>2. CASE h.run = "even" /\ c = "q"
  <2>1. CsvParser!Halve(h, c) = [run |-> "odd", out |-> h.out]
    BY <1>2, CsvBytes DEF CsvParser!Halve
  <2> QED
    BY <1>1, <1>2, <2>1 DEF Halves
<1>3. CASE h.run = "odd" /\ c # "q"
  <2>1. CsvParser!Halve(h, c) = [run |-> "bad", out |-> h.out]
    BY <1>3, CsvBytes DEF CsvParser!Halve
  <2> QED
    BY <1>1, <1>3, <2>1 DEF Halves
<1>4. CASE h.run = "bad"
  <2>1. CsvParser!Halve(h, c) = h
    BY <1>4, CsvBytes DEF CsvParser!Halve
  <2> QED
    BY <1>1, <1>4, <2>1 DEF Halves
<1>5. CASE (h.run = "even" /\ c # "q") \/ (h.run = "odd" /\ c = "q")
  <2>1. CsvParser!Halve(h, c) = [run |-> "even", out |-> Append(h.out, c)]
    BY <1>5, CsvBytes DEF CsvParser!Halve
  <2> QED
    BY <1>1, <1>5, <2>1 DEF Halves
<1> QED
  BY <1>1, <1>2, <1>3, <1>4, <1>5

LEMMA HalvedStep ==
  ASSUME NEW r \in Seq(Kind)
  PROVE  \E u \in [0 .. Len(r) -> Halves] :
           /\ CsvParser!Halved(r) = u[Len(r)] /\ u[0] = [run |-> "even", out |-> <<>>]
           /\ \A k \in 1 .. Len(r) : u[k] = CsvParser!Halve(u[k - 1], r[k])
<1> DEFINE S == Halves
           n == Len(r)
           a == [run |-> "even", out |-> <<>>]
           E(k, v) == CsvParser!Halve(v, r[k])
           F == [k \in 1 .. n |-> [v \in S |-> E(k, v)]]
<1>1. n \in Nat
  BY LenProperties
<1>2. a \in S
  BY EmptySeq DEF Halves
<1>3. ASSUME NEW k \in 1 .. n, NEW v \in S PROVE E(k, v) \in S
  BY ElementOfSeq, HalveIs
<1> HIDE DEF S, n, a
<1>4. F \in [1 .. n -> [S -> S]]
  <2> HIDE DEF E
  <2> QED
    BY <1>3
<1>5. \A k \in 1 .. n : \A v \in S : F[k][v] = E(k, v)
  <2> HIDE DEF E
  <2> QED
    OBVIOUS
<1> HIDE DEF F
<1>6. PICK g \in [0 .. n -> S] : g[0] = a /\ \A k \in 1 .. n : g[k] = F[k][g[k - 1]]
  BY <1>1, <1>2, <1>4, StepsExist
<1>7. \A k \in 1 .. n : g[k] = E(k, g[k - 1])
  <2> HIDE DEF E
  <2> SUFFICES ASSUME NEW k \in 1 .. n PROVE g[k] = E(k, g[k - 1])
    OBVIOUS
  <2>1. k - 1 \in 0 .. n
    BY <1>1
  <2>2. g[k - 1] \in S
    BY <2>1
  <2> QED
    BY <1>5, <1>6, <2>2
<1> DEFINE R(w) == [k \in 0 .. n |-> IF k = 0 THEN a ELSE E(k, w[k - 1])]
           u == CHOOSE w : w = R(w)
<1>8. g = R(g)
  <2> HIDE DEF E
  <2>1. \A k \in 0 .. n : g[k] = IF k = 0 THEN a ELSE E(k, g[k - 1])
    BY <1>1, <1>6, <1>7
  <2> QED
    BY <2>1
<1>9. CsvParser!Halved(r) = u[n]
  BY Zenon DEF CsvParser!Halved, n, a
<1>10. u = R(u)
  <2> HIDE DEF R
  <2> QED
    BY <1>8
<1> HIDE DEF u
<1>11. u[0] = a /\ \A k \in 1 .. n : u[k] = E(k, u[k - 1])
  <2> HIDE DEF E
  <2> QED
    BY <1>1, <1>10
<1>12. \A k \in 0 .. n : u[k] \in S
  <2> HIDE DEF E
  <2> DEFINE T == {k \in Nat : k <= n => u[k] \in S}
  <2>1. 0 \in T
    BY <1>2, <1>11
  <2>2. \A k \in Nat : k \in T => k + 1 \in T
    <3> SUFFICES ASSUME NEW k \in Nat, k \in T, k + 1 <= n PROVE u[k + 1] \in S
      OBVIOUS
    <3>1. k + 1 \in 1 .. n /\ (k + 1) - 1 = k /\ u[k] \in S
      BY <1>1
    <3> QED
      BY <1>3, <1>11, <3>1
  <2> HIDE DEF T
  <2>3. Nat \subseteq T
    BY <2>1, <2>2, Induction
  <2> QED
    BY <1>1, <2>3 DEF T
<1>13. u \in [0 .. n -> S]
  <2> HIDE DEF E
  <2> QED
    BY <1>10, <1>12
<1> QED
  BY <1>9, <1>11, <1>13 DEF S, n, a

LEMMA HalvedIs ==
  /\ CsvParser!Halved(<<>>) = [run |-> "even", out |-> <<>>]
  /\ \A r \in Seq(Kind) : CsvParser!Halved(r) \in Halves
  /\ \A r \in Seq(Kind), c \in Kind :
       CsvParser!Halved(Append(r, c)) = CsvParser!Halve(CsvParser!Halved(r), c)
<1>1. CsvParser!Halved(<<>>) = [run |-> "even", out |-> <<>>]
  BY EmptySeq, HalvedStep
<1>2. ASSUME NEW r \in Seq(Kind) PROVE CsvParser!Halved(r) \in Halves
  <2>1. Len(r) \in 0 .. Len(r)
    BY LenProperties
  <2>2. PICK u \in [0 .. Len(r) -> Halves] : CsvParser!Halved(r) = u[Len(r)]
    BY HalvedStep
  <2> QED
    BY <2>1, <2>2
<1>3. ASSUME NEW r \in Seq(Kind), NEW c \in Kind
      PROVE  CsvParser!Halved(Append(r, c)) = CsvParser!Halve(CsvParser!Halved(r), c)
  <2> DEFINE m == Append(r, c)
             n == Len(r)
  <2>1. m \in Seq(Kind) /\ Len(m) = n + 1 /\ n \in Nat /\ m[n + 1] = c
        /\ \A k \in 1 .. n : m[k] = r[k]
    BY AppendProperties, LenProperties
  <2> HIDE DEF m
  <2>2. PICK u \in [0 .. n -> Halves] :
           /\ CsvParser!Halved(r) = u[n] /\ u[0] = [run |-> "even", out |-> <<>>]
           /\ \A k \in 1 .. n : u[k] = CsvParser!Halve(u[k - 1], r[k])
    BY HalvedStep
  <2>3. PICK v \in [0 .. n + 1 -> Halves] :
           /\ CsvParser!Halved(m) = v[n + 1] /\ v[0] = [run |-> "even", out |-> <<>>]
           /\ \A k \in 1 .. n + 1 : v[k] = CsvParser!Halve(v[k - 1], m[k])
    BY <2>1, HalvedStep
  <2> HIDE DEF n
  <2> DEFINE T == {k \in Nat : k <= n => v[k] = u[k]}
  <2>4. 0 \in T
    BY <2>2, <2>3
  <2>5. \A k \in Nat : k \in T => k + 1 \in T
    <3> SUFFICES ASSUME NEW k \in Nat, k \in T, k + 1 <= n PROVE v[k + 1] = u[k + 1]
      OBVIOUS
    <3>1. n \in Nat
      BY <2>1
    <3>2. k <= n /\ (k + 1) - 1 = k /\ k + 1 \in 1 .. n /\ k + 1 \in 1 .. n + 1
      <4> HIDE DEF T
      <4> QED
        BY <3>1
    <3>3. v[k] = u[k]
      BY <3>2, Zenon
    <3>4. v[k + 1] = CsvParser!Halve(v[k], m[k + 1]) /\ u[k + 1] = CsvParser!Halve(u[k], r[k + 1])
      BY <2>2, <2>3, <3>1, <3>2, <3>3
    <3> QED
      BY <2>1, <3>1, <3>2, <3>3, <3>4
  <2> HIDE DEF T
  <2>6. Nat \subseteq T
    BY <2>4, <2>5, Induction
  <2>7. v[n] = u[n]
    BY <2>1, <2>6 DEF T
  <2>8. v[n + 1] = CsvParser!Halve(v[n], m[n + 1])
    <3>1. n + 1 \in 1 .. n + 1 /\ (n + 1) - 1 = n
      BY <2>1
    <3> QED
      BY <2>3, <3>1
  <2> QED
    BY <2>1, <2>2, <2>3, <2>7, <2>8 DEF m
<1> QED
  BY <1>1, <1>2, <1>3

(* A pair that is broken stays broken. *)
LEMMA StaysBad ==
  ASSUME NEW g \in Seq(Kind), NEW m \in 0 .. Len(g), CsvParser!Halved(SubSeq(g, 1, m)).run = "bad"
  PROVE  CsvParser!Halved(g).run = "bad"
<1>1. /\ Len(g) \in Nat /\ SubSeq(g, 1, Len(g)) = g
      /\ \A i \in 0 .. Len(g) : SubSeq(g, 1, i) \in Seq(Kind)
      /\ \A i \in 1 .. Len(g) : g[i] \in Kind /\ SubSeq(g, 1, i) = Append(SubSeq(g, 1, i - 1), g[i])
  BY FirstElements
<1> DEFINE b(i) == CsvParser!Halved(SubSeq(g, 1, i)).run = "bad"
           T == {k \in Nat : m + k <= Len(g) => b(m + k)}
<1>2. 0 \in T
  BY <1>1
<1>3. \A k \in Nat : k \in T => k + 1 \in T
  <2> SUFFICES ASSUME NEW k \in Nat, k \in T, m + (k + 1) <= Len(g) PROVE b(m + (k + 1))
    OBVIOUS
  <2> DEFINE i == m + (k + 1)
  <2>1. i \in 1 .. Len(g) /\ i - 1 = m + k /\ i - 1 \in 0 .. Len(g) /\ m + k <= Len(g)
    BY <1>1
  <2>2. b(i - 1)
    BY <2>1
  <2> HIDE DEF i, T
  <2>3. SubSeq(g, 1, i) = Append(SubSeq(g, 1, i - 1), g[i]) /\ SubSeq(g, 1, i - 1) \in Seq(Kind) /\ g[i] \in Kind
    BY <1>1, <2>1
  <2> DEFINE r == SubSeq(g, 1, i - 1)
             c == g[i]
  <2>4. CsvParser!Halved(r) \in Halves /\ CsvParser!Halved(Append(r, c)) = CsvParser!Halve(CsvParser!Halved(r), c)
        /\ CsvParser!Halved(r).run = "bad" /\ c \in Kind
    BY <2>2, <2>3, HalvedIs
  <2> HIDE DEF r, c
  <2>5. CsvParser!Halve(CsvParser!Halved(r), c).run = "bad"
    BY <2>4, HalveIs
  <2>6. CsvParser!Halved(Append(r, c)).run = "bad"
    BY <2>4, <2>5
  <2>7. b(i)
    BY <2>3, <2>6 DEF r, c
  <2> QED
    BY <2>7 DEF i
<1>4. Nat \subseteq T
  <2> HIDE DEF T
  <2> QED
    BY <1>2, <1>3, Induction
<1>5. Len(g) - m \in Nat /\ m + (Len(g) - m) = Len(g)
  BY <1>1
<1>6. b(Len(g))
  <2>1. Len(g) - m \in T
    BY <1>4, <1>5
  <2>2. m + (Len(g) - m) <= Len(g)
    BY <1>1, <1>5
  <2> HIDE DEF b
  <2>3. b(m + (Len(g) - m))
    BY <2>1, <2>2
  <2> QED
    BY <1>5, <2>3
<1> QED
  BY <1>1, <1>6

(* Parts of sequences that agree, and a part with one element more. *)
LEMMA PartSame ==
  ASSUME NEW E, NEW s \in Seq(E), NEW r \in Seq(E), NEW lo \in Nat, NEW hi \in Nat, lo <= hi,
         hi <= Len(s), hi <= Len(r), \A j \in 1 .. hi : s[j] = r[j]
  PROVE  Slice(s, lo, hi) = Slice(r, lo, hi)
<1>1. Len(s) \in Nat /\ Len(r) \in Nat
  BY LenProperties
<1>2. lo \in 0 .. Len(s) /\ hi \in 0 .. Len(s) /\ lo \in 0 .. Len(r) /\ hi \in 0 .. Len(r)
  BY <1>1
<1>3. Slice(s, lo, hi) \in Seq(E) /\ Len(Slice(s, lo, hi)) = hi - lo
      /\ \A k \in 1 .. hi - lo : Slice(s, lo, hi)[k] = s[lo + k]
  BY <1>2, PartIs
<1>4. Slice(r, lo, hi) \in Seq(E) /\ Len(Slice(r, lo, hi)) = hi - lo
      /\ \A k \in 1 .. hi - lo : Slice(r, lo, hi)[k] = r[lo + k]
  BY <1>2, PartIs
<1>5. \A k \in 1 .. hi - lo : lo + k \in 1 .. hi
  OBVIOUS
<1>6. \A k \in 1 .. Len(Slice(s, lo, hi)) : Slice(s, lo, hi)[k] = Slice(r, lo, hi)[k]
  BY <1>3, <1>4, <1>5
<1> QED
  BY <1>3, <1>4, <1>6, SeqEqual

LEMMA PartNext ==
  ASSUME NEW E, NEW s \in Seq(E), NEW lo \in Nat, NEW hi \in Nat, lo <= hi, hi < Len(s)
  PROVE  /\ Slice(s, lo, hi) \in Seq(E) /\ s[hi + 1] \in E
         /\ Slice(s, lo, hi + 1) = Append(Slice(s, lo, hi), s[hi + 1])
<1>1. Len(s) \in Nat
  BY LenProperties
<1>2. lo \in 0 .. Len(s) /\ hi \in 0 .. Len(s) /\ hi + 1 \in 0 .. Len(s) /\ lo <= hi + 1 /\ hi + 1 \in 1 .. Len(s)
  BY <1>1
<1>3. Slice(s, lo, hi) \in Seq(E) /\ Len(Slice(s, lo, hi)) = hi - lo
      /\ \A k \in 1 .. hi - lo : Slice(s, lo, hi)[k] = s[lo + k]
  BY <1>2, PartIs
<1>4. Slice(s, lo, hi + 1) \in Seq(E) /\ Len(Slice(s, lo, hi + 1)) = (hi + 1) - lo
      /\ \A k \in 1 .. (hi + 1) - lo : Slice(s, lo, hi + 1)[k] = s[lo + k]
  BY <1>2, PartIs
<1>5. s[hi + 1] \in E
  BY <1>2, ElementOfSeq
<1> DEFINE a == Slice(s, lo, hi)
           b == Slice(s, lo, hi + 1)
           c == s[hi + 1]
<1>6. Append(a, c) \in Seq(E) /\ Len(Append(a, c)) = Len(a) + 1 /\ Append(a, c)[Len(a) + 1] = c
      /\ \A k \in 1 .. Len(a) : Append(a, c)[k] = a[k]
  BY <1>3, <1>5, AppendProperties
<1>7. \A k \in 1 .. (hi + 1) - lo : b[k] = Append(a, c)[k]
  <2> SUFFICES ASSUME NEW k \in 1 .. (hi + 1) - lo PROVE b[k] = Append(a, c)[k]
    OBVIOUS
  <2>1. b[k] = s[lo + k]
    BY <1>4
  <2>2. CASE k \in 1 .. hi - lo
    <3> HIDE DEF a, b
    <3> QED
      BY <1>3, <1>6, <2>1, <2>2 DEF a
  <2>3. CASE k = (hi + 1) - lo
    <3>1. lo + k = hi + 1 /\ k = Len(a) + 1
      BY <1>3, <2>3
    <3> HIDE DEF a, b
    <3> QED
      BY <1>6, <2>1, <3>1
  <2>4. k \in 1 .. hi - lo \/ k = (hi + 1) - lo
    OBVIOUS
  <2> QED
    BY <2>2, <2>3, <2>4, Zenon
<1>8. Len(b) = Len(Append(a, c))
  BY <1>3, <1>4, <1>6
<1>9. \A k \in 1 .. Len(b) : b[k] = Append(a, c)[k]
  BY <1>4, <1>7
<1> HIDE DEF a, b, c
<1>10. b = Append(a, c)
  BY <1>4, <1>6, <1>8, <1>9, SeqEqual DEF b
<1> QED
  BY <1>3, <1>5, <1>10 DEF a, b, c

(* The part behind an element, when one more is read. *)
LEMMA PartGrown ==
  ASSUME NEW E, NEW p \in Seq(E), NEW c \in E
  PROVE  /\ Append(p, c) \in Seq(E) /\ Len(Append(p, c)) = Len(p) + 1 /\ Len(p) \in Nat
         /\ \A j \in 1 .. Len(p) : Append(p, c)[j] = p[j]
         /\ Append(p, c)[Len(p) + 1] = c
         /\ \A lo \in 0 .. Len(p) : /\ Slice(p, lo, Len(p)) \in Seq(E)
                                    /\ Slice(Append(p, c), lo, Len(p) + 1) = Append(Slice(p, lo, Len(p)), c)
         /\ \A lo \in 0 .. Len(p) : \A hi \in lo .. Len(p) : Slice(Append(p, c), lo, hi) = Slice(p, lo, hi)
         /\ Slice(Append(p, c), Len(p) + 1, Len(p) + 1) = <<>>
<1> DEFINE r == Append(p, c)
           n == Len(p)
<1>1. r \in Seq(E) /\ Len(r) = n + 1 /\ n \in Nat /\ r[n + 1] = c /\ \A j \in 1 .. n : r[j] = p[j]
  BY AppendProperties, LenProperties
<1> HIDE DEF r
<1>2. ASSUME NEW lo \in 0 .. n, NEW hi \in lo .. n PROVE Slice(r, lo, hi) = Slice(p, lo, hi)
  <2>1. lo \in Nat /\ hi \in Nat /\ lo <= hi /\ hi <= Len(r) /\ hi <= Len(p) /\ \A j \in 1 .. hi : r[j] = p[j]
    BY <1>1
  <2> HIDE DEF n
  <2> QED
    BY <1>1, <2>1, PartSame
<1>3. ASSUME NEW lo \in 0 .. n
      PROVE  Slice(p, lo, n) \in Seq(E) /\ Slice(r, lo, n + 1) = Append(Slice(p, lo, n), c)
  <2>1. lo \in Nat /\ n \in Nat /\ lo <= n /\ n < Len(r) /\ n \in lo .. n
    BY <1>1
  <2>2. Slice(r, lo, n) \in Seq(E) /\ Slice(r, lo, n + 1) = Append(Slice(r, lo, n), r[n + 1])
    BY <1>1, <2>1, PartNext
  <2>3. Slice(r, lo, n) = Slice(p, lo, n)
    BY <1>2, <2>1
  <2> QED
    BY <1>1, <2>2, <2>3
<1>4. Slice(r, n + 1, n + 1) = <<>>
  <2> DEFINE m == n + 1
  <2>1. m \in 0 .. Len(r) /\ m <= m /\ m - m = 0
    BY <1>1
  <2> HIDE DEF m
  <2>2. Slice(r, m, m) \in Seq(E) /\ Len(Slice(r, m, m)) = m - m
    BY <1>1, <2>1, PartIs
  <2> QED
    BY <2>1, <2>2, EmptySeq DEF m
<1> QED
  BY <1>1, <1>2, <1>3, <1>4 DEF r, n

(* What the halves of a part grow by. *)
LEMMA HalvedEven ==
  ASSUME NEW r \in Seq(Kind), NEW c \in Kind, NEW e \in Seq(Kind),
         CsvParser!Halved(r) = [run |-> "even", out |-> e]
  PROVE  CsvParser!Halved(Append(r, c)) = IF c = "q" THEN [run |-> "odd", out |-> e] ELSE [run |-> "even", out |-> Append(e, c)]
<1> DEFINE h == CsvParser!Halved(r)
<1>1. h \in Halves /\ CsvParser!Halved(Append(r, c)) = CsvParser!Halve(h, c) /\ h.run = "even" /\ h.out = e
  BY HalvedIs
<1> HIDE DEF h
<1> QED
  BY <1>1, HalveIs

LEMMA HalvedOdd ==
  ASSUME NEW r \in Seq(Kind), NEW c \in Kind, NEW e \in Seq(Kind),
         CsvParser!Halved(r) = [run |-> "odd", out |-> e]
  PROVE  IF c = "q" THEN CsvParser!Halved(Append(r, c)) = [run |-> "even", out |-> Append(e, c)]
                    ELSE CsvParser!Halved(Append(r, c)).run = "bad"
<1> DEFINE h == CsvParser!Halved(r)
<1>1. h \in Halves /\ CsvParser!Halved(Append(r, c)) = CsvParser!Halve(h, c) /\ h.run = "odd" /\ h.out = e
  BY HalvedIs
<1> HIDE DEF h
<1> QED
  BY <1>1, HalveIs

(* Before the quote that opened a pair everything was paired. *)
LEMMA HalvedOpened ==
  ASSUME NEW r \in Seq(Kind), NEW e \in Seq(Kind),
         CsvParser!Halved(Append(r, "q")) = [run |-> "odd", out |-> e]
  PROVE  CsvParser!Halved(r) = [run |-> "even", out |-> e]
<1> DEFINE h == CsvParser!Halved(r)
<1>1. "q" \in Kind
  BY DEF Kind
<1>2. h \in Halves /\ CsvParser!Halve(h, "q") = [run |-> "odd", out |-> e]
  BY <1>1, HalvedIs
<1> HIDE DEF h
<1>3. h.run = "even"
  <2>1. h.run \in {"even", "odd", "bad"}
    BY <1>2 DEF Halves
  <2>2. CsvParser!Halve(h, "q").run = "odd"
    BY <1>2
  <2>3. h.run # "bad"
    BY <1>1, <1>2, <2>2, HalveIs
  <2>4. h.run # "odd"
    <3> SUFFICES ASSUME h.run = "odd" PROVE FALSE
      OBVIOUS
    <3>1. CsvParser!Halve(h, "q") = [run |-> "even", out |-> Append(h.out, "q")]
      BY <1>1, <1>2, HalveIs
    <3> QED
      BY <2>2, <3>1
  <2> QED
    BY <2>1, <2>3, <2>4
<1>4. CsvParser!Halve(h, "q") = [run |-> "odd", out |-> h.out]
  BY <1>1, <1>2, <1>3, HalveIs
<1>5. h.out = e
  BY <1>2, <1>4
<1>6. h = [run |-> "even", out |-> e]
  BY <1>2, <1>3, <1>5 DEF Halves
<1> QED
  BY <1>6 DEF h

LEMMA PartStaysBad ==
  ASSUME NEW s \in Seq(Kind), NEW lo \in Nat, NEW m \in Nat, NEW hi \in Nat, lo <= m, m <= hi, hi <= Len(s),
         CsvParser!Halved(Slice(s, lo, m)).run = "bad"
  PROVE  CsvParser!Halved(Slice(s, lo, hi)).run = "bad"
<1>1. Len(s) \in Nat
  BY LenProperties
<1>2. lo \in 0 .. Len(s) /\ hi \in 0 .. Len(s) /\ lo <= hi
  BY <1>1
<1> DEFINE g == Slice(s, lo, hi)
           k == m - lo
<1>3. g \in Seq(Kind) /\ Len(g) = hi - lo
  BY <1>2, PartIs
<1>4. 0 \in 0 .. hi - lo /\ k \in 0 .. hi - lo /\ 0 <= k /\ lo + 0 = lo /\ lo + k = m /\ k \in 0 .. Len(g)
  BY <1>3
<1> HIDE DEF k
<1>5. Slice(g, 0, k) = Slice(s, lo, m)
  <2>1. Slice(Slice(s, lo, hi), 0, k) = Slice(s, lo + 0, lo + k)
    BY <1>2, <1>4, PartOfPart
  <2> QED
    BY <1>4, <2>1
<1> HIDE DEF g
<1>6. SubSeq(g, 1, k) = Slice(g, 0, k)
  BY <1>3, <1>4, FirstPart
<1> QED
  BY <1>3, <1>4, <1>5, <1>6, StaysBad DEF g

(* The first and the last that is no space. *)
LEMMA FirstInkIs ==
  ASSUME NEW s, NEW i \in 1 .. Len(s), Len(s) \in Nat, s[i] # "s", \A j \in 1 .. i - 1 : s[j] = "s"
  PROVE  CsvParser!FirstInk(s) = i /\ ~CsvParser!Blank(s)
<1> DEFINE P(k) == k \in 1 .. Len(s) /\ s[k] # "s" /\ \A j \in 1 .. k - 1 : s[j] = "s"
           f == CHOOSE k \in 1 .. Len(s) : s[k] # "s" /\ \A j \in 1 .. k - 1 : s[j] = "s"
<1>1. P(f)
  OBVIOUS
<1>2. f = i
  <2>1. f \in Nat /\ i \in Nat
    BY <1>1
  <2>2. ~(f < i)
    BY <1>1, <2>1
  <2>3. ~(i < f)
    BY <1>1, <2>1
  <2> QED
    BY <2>1, <2>2, <2>3
<1>3. CsvParser!FirstInk(s) = f
  BY CsvBytes DEF CsvParser!FirstInk
<1>4. ~CsvParser!Blank(s)
  BY CsvBytes DEF CsvParser!Blank
<1> QED
  BY <1>2, <1>3, <1>4

LEMMA LastInkIs ==
  ASSUME NEW s, NEW i \in 1 .. Len(s), Len(s) \in Nat, s[i] # "s"
  PROVE  /\ CsvParser!LastInk(s) \in i .. Len(s) /\ s[CsvParser!LastInk(s)] # "s"
         /\ (\A j \in i + 1 .. Len(s) : s[j] = "s") => CsvParser!LastInk(s) = i
<1> DEFINE P(k) == k \in 1 .. Len(s) /\ s[k] # "s" /\ \A j \in k + 1 .. Len(s) : s[j] = "s"
           f == CHOOSE k \in 1 .. Len(s) : s[k] # "s" /\ \A j \in k + 1 .. Len(s) : s[j] = "s"
           I == {k \in 1 .. Len(s) : s[k] # "s"}
<1>1. Max(I) \in I /\ \A y \in I : y <= Max(I)
  <2>1. I \in SUBSET Nat /\ I # {} /\ \A x \in I : x <= Len(s)
    OBVIOUS
  <2> HIDE DEF I
  <2> QED
    BY <2>1, MaxIsMost
<1>2. P(Max(I))
  <2> DEFINE m == Max(I)
  <2>1. m \in 1 .. Len(s) /\ s[m] # "s" /\ \A y \in I : y <= m
    BY <1>1
  <2> HIDE DEF m
  <2>2. \A j \in m + 1 .. Len(s) : j \notin I /\ j \in 1 .. Len(s)
    BY <2>1
  <2> QED
    BY <2>1, <2>2 DEF m
<1>3. P(f)
  BY <1>2
<1> HIDE DEF f
<1>4. f \in i .. Len(s)
  BY <1>3
<1>5. (\A j \in i + 1 .. Len(s) : s[j] = "s") => f = i
  BY <1>3, <1>4
<1>6. CsvParser!LastInk(s) = f
  BY CsvBytes DEF CsvParser!LastInk, f
<1> QED
  BY <1>3, <1>4, <1>5, <1>6

(* What was read of a field, and what elem and t are then: only spaces; an *)
(* element that is not quoted; a quoted one before and behind the quote    *)
(* that may be its last.                                                   *)
Spaces(p, lo, hi) == \A j \in lo .. hi : p[j] = "s"
Starts(p, i) == i \in 1 .. Len(p) /\ p[i] # "s" /\ Spaces(p, 1, i - 1)
Wide(p, tr, e, n) == Spaces(p, 1, Len(p)) /\ IF tr THEN e = <<>> /\ n = 0 ELSE e = p /\ n = Len(p)
Bare(p, q, tr, e, n) ==
  \E i \in 1 .. Len(p) :
    /\ Starts(p, i) /\ (q => \A j \in 1 .. Len(p) : p[j] # "q")
    /\ IF tr THEN /\ e = Slice(p, i - 1, Len(p))
                  /\ \E l \in i .. Len(p) : p[l] # "s" /\ Spaces(p, l + 1, Len(p)) /\ n = (l - i) + 1
       ELSE e = p /\ n = Len(p)
Within(p, q, e) ==
  q /\ \E i \in 1 .. Len(p) : /\ Starts(p, i) /\ p[i] = "q"
                              /\ CsvParser!Halved(Slice(p, i, Len(p))) = [run |-> "even", out |-> e]
Closed(p, q, e, shut) ==
  q /\ \E i \in 1 .. Len(p) : \E l \in i + 1 .. Len(p) :
         /\ Starts(p, i) /\ p[i] = "q" /\ p[l] = "q" /\ Spaces(p, l + 1, Len(p)) /\ (shut <=> l = Len(p))
         /\ CsvParser!Halved(Slice(p, i, l)) = [run |-> "odd", out |-> e]

LEMMA SpacesGrow ==
  ASSUME NEW p \in Seq(Kind), NEW c \in Kind
  PROVE  /\ \A i : Starts(p, i) => Starts(Append(p, c), i)
         /\ \A lo \in Nat \ {0} : c = "s" /\ Spaces(p, lo, Len(p)) => Spaces(Append(p, c), lo, Len(p) + 1)
         /\ c # "s" /\ Spaces(p, 1, Len(p)) => Starts(Append(p, c), Len(p) + 1)
         /\ Spaces(Append(p, c), Len(p) + 2, Len(p) + 1)
<1> DEFINE r == Append(p, c)
           n == Len(p)
<1>1. Len(r) = n + 1 /\ n \in Nat /\ r[n + 1] = c /\ \A j \in 1 .. n : r[j] = p[j]
  BY PartGrown
<1> HIDE DEF r, n
<1>2. ASSUME NEW i, Starts(p, i) PROVE Starts(r, i)
  <2>1. i \in 1 .. n /\ p[i] # "s" /\ \A j \in 1 .. i - 1 : p[j] = "s"
    BY <1>2 DEF Starts, Spaces, n
  <2>2. i \in 1 .. n + 1 /\ \A j \in 1 .. i - 1 : j \in 1 .. n
    BY <1>1, <2>1
  <2> QED
    BY <1>1, <2>1, <2>2 DEF Starts, Spaces
<1>3. ASSUME NEW lo \in Nat \ {0}, c = "s", Spaces(p, lo, n) PROVE Spaces(r, lo, n + 1)
  <2>1. \A j \in lo .. n + 1 : j = n + 1 \/ (j \in lo .. n /\ j \in 1 .. n)
    BY <1>1
  <2> QED
    BY <1>1, <1>3, <2>1 DEF Spaces
<1>4. ASSUME c # "s", Spaces(p, 1, n) PROVE Starts(r, n + 1)
  <2>1. n + 1 \in 1 .. n + 1 /\ (n + 1) - 1 = n
    BY <1>1
  <2> QED
    BY <1>1, <1>4, <2>1 DEF Starts, Spaces
<1>5. Spaces(r, n + 2, n + 1)
  BY <1>1 DEF Spaces
<1> QED
  BY <1>2, <1>3, <1>4, <1>5 DEF r, n

LEMMA WideEmpty == ASSUME NEW tr \in BOOLEAN PROVE Wide(<<>>, tr, <<>>, 0)
BY EmptySeq DEF Wide, Spaces

LEMMA WideSpace ==
  ASSUME NEW p \in Seq(Kind), NEW tr \in BOOLEAN, NEW e, NEW n, Wide(p, tr, e, n)
  PROVE  IF tr THEN Wide(Append(p, "s"), tr, e, n) ELSE Wide(Append(p, "s"), tr, Append(e, "s"), Len(e) + 1)
<1>1. "s" \in Kind /\ 1 \in Nat \ {0}
  <2>1. "s" \in Kind
    BY DEF Kind
  <2> QED
    BY <2>1
<1>2. Spaces(Append(p, "s"), 1, Len(p) + 1) /\ Len(Append(p, "s")) = Len(p) + 1
  BY <1>1, SpacesGrow, PartGrown DEF Wide
<1> QED
  BY <1>2 DEF Wide

LEMMA WideQuote ==
  ASSUME NEW p \in Seq(Kind), NEW tr \in BOOLEAN, NEW e, NEW n, Wide(p, tr, e, n)
  PROVE  Within(Append(p, "q"), TRUE, <<>>)
<1> DEFINE r == Append(p, "q")
           m == Len(p) + 1
<1>1. "q" \in Kind
  BY DEF Kind
<1>2. Starts(r, m)
  BY <1>1, SpacesGrow DEF Wide
<1>3. Len(r) = m /\ r[m] = "q" /\ Slice(r, m, m) = <<>> /\ m \in 1 .. m
  BY <1>1, PartGrown
<1> HIDE DEF r, m
<1> QED
  BY <1>2, <1>3, HalvedIs DEF Within, r

LEMMA WideBegins ==
  ASSUME NEW p \in Seq(Kind), NEW q \in BOOLEAN, NEW tr \in BOOLEAN, NEW e, NEW n, Wide(p, tr, e, n),
         NEW c \in Kind, c # "s", ~(q /\ c = "q")
  PROVE  Bare(Append(p, c), q, tr, Append(e, c), Len(e) + 1)
<1> DEFINE r == Append(p, c)
           m == Len(p)
<1>1. Starts(r, m + 1) /\ Spaces(p, 1, m)
  BY SpacesGrow DEF Wide
<1>2. /\ r \in Seq(Kind) /\ Len(r) = m + 1 /\ m \in Nat /\ r[m + 1] = c /\ \A j \in 1 .. m : r[j] = p[j]
  BY PartGrown
<1>3. Slice(r, m, m + 1) = <<c>> /\ Append(<<>>, c) = <<c>>
  <2>1. m \in 0 .. m /\ Slice(r, m, m + 1) = Append(Slice(p, m, m), c)
    BY <1>2, PartGrown
  <2>2. Slice(p, m, m) = <<>>
    <3>1. m \in 0 .. Len(p) /\ m <= m /\ m - m = 0
      BY <1>2
    <3> HIDE DEF m
    <3>2. Slice(p, m, m) \in Seq(Kind) /\ Len(Slice(p, m, m)) = m - m
      BY <3>1, PartIs
    <3> QED
      BY <3>1, <3>2, EmptySeq
  <2> QED
    BY <2>1, <2>2, Literals
<1>4. Spaces(r, m + 2, m + 1)
  BY SpacesGrow
<1> HIDE DEF r, m
<1>5. q => \A j \in 1 .. m + 1 : r[j] # "q"
  <2> SUFFICES ASSUME q, NEW j \in 1 .. m + 1 PROVE r[j] # "q"
    OBVIOUS
  <2>1. j \in 1 .. m \/ j = m + 1
    BY <1>2
  <2> QED
    BY <1>1, <1>2, <2>1 DEF Spaces
<1>6. m + 1 \in 1 .. m + 1 /\ m + 1 \in m + 1 .. m + 1 /\ (m + 1) - 1 = m /\ ((m + 1) - (m + 1)) + 1 = 1
      /\ (m + 1) + 1 = m + 2
  BY <1>2
<1>7. CASE tr
  <2>1. e = <<>> /\ n = 0 /\ Len(e) = 0
    BY <1>7, EmptySeq DEF Wide
  <2>2. Append(e, c) = Slice(r, (m + 1) - 1, m + 1)
    BY <1>3, <1>6, <2>1
  <2>3. \E l \in m + 1 .. m + 1 : r[l] # "s" /\ Spaces(r, l + 1, m + 1) /\ Len(e) + 1 = (l - (m + 1)) + 1
    BY <1>2, <1>4, <1>6, <2>1
  <2>4. Bare(r, q, tr, Append(e, c), Len(e) + 1)
    BY <1>1, <1>2, <1>5, <1>6, <1>7, <2>2, <2>3 DEF Bare
  <2> QED
    BY <2>4 DEF r
<1>8. CASE ~tr
  <2>1. e = p
    BY <1>8 DEF Wide
  <2>2. Append(e, c) = r /\ Len(e) + 1 = m + 1
    BY <2>1 DEF r, m
  <2>3. Bare(r, q, tr, Append(e, c), Len(e) + 1)
    BY <1>1, <1>2, <1>5, <1>6, <1>8, <2>2 DEF Bare
  <2> QED
    BY <2>3 DEF r
<1> QED
  BY <1>7, <1>8

LEMMA BareGrows ==
  ASSUME NEW p \in Seq(Kind), NEW q \in BOOLEAN, NEW tr \in BOOLEAN, NEW e, NEW n, Bare(p, q, tr, e, n),
         NEW c \in Kind, ~(q /\ c = "q")
  PROVE  Bare(Append(p, c), q, tr, Append(e, c), IF ~tr \/ c # "s" THEN Len(e) + 1 ELSE n)
<1> DEFINE r == Append(p, c)
           m == Len(p)
<1>1. /\ r \in Seq(Kind) /\ Len(r) = m + 1 /\ m \in Nat /\ r[m + 1] = c /\ \A j \in 1 .. m : r[j] = p[j]
  BY PartGrown
<1>2. PICK i \in 1 .. m :
    /\ Starts(p, i) /\ (q => \A j \in 1 .. m : p[j] # "q")
    /\ IF tr THEN /\ e = Slice(p, i - 1, m)
                  /\ \E l \in i .. m : p[l] # "s" /\ Spaces(p, l + 1, m) /\ n = (l - i) + 1
       ELSE e = p /\ n = m
  BY DEF Bare
<1>3. Starts(r, i)
  BY <1>2, SpacesGrow
<1>4. Spaces(r, m + 2, m + 1) /\ \A lo \in Nat \ {0} : c = "s" /\ Spaces(p, lo, m) => Spaces(r, lo, m + 1)
  BY SpacesGrow
<1>5. i - 1 \in 0 .. m
  BY <1>1
<1>6. Slice(r, i - 1, m + 1) = Append(Slice(p, i - 1, m), c)
  BY <1>5, PartGrown
<1>7. Len(Slice(p, i - 1, m)) = (m - i) + 1
  <2> DEFINE lo == i - 1
  <2>1. m \in 0 .. Len(p) /\ lo \in 0 .. Len(p) /\ lo <= m /\ m - lo = (m - i) + 1
    BY <1>1
  <2> HIDE DEF lo, m
  <2>2. Len(Slice(p, lo, m)) = m - lo
    BY <2>1, PartIs
  <2> QED
    BY <2>1, <2>2 DEF lo
<1> DEFINE N == IF ~tr \/ c # "s" THEN Len(e) + 1 ELSE n
<1>8. q => \A j \in 1 .. m + 1 : r[j] # "q"
  <2> HIDE DEF r, m
  <2> SUFFICES ASSUME q, NEW j \in 1 .. m + 1 PROVE r[j] # "q"
    OBVIOUS
  <2>1. j \in 1 .. m \/ j = m + 1
    BY <1>1
  <2> QED
    BY <1>1, <1>2, <2>1
<1>9. tr => \E l \in i .. m + 1 : r[l] # "s" /\ Spaces(r, l + 1, m + 1) /\ N = (l - i) + 1
  <2> HIDE DEF r, m
  <2>1. CASE tr /\ c # "s"
    <3>1. m + 1 \in i .. m + 1 /\ (m + 1) + 1 = m + 2 /\ ((m + 1) - i) + 1 = ((m - i) + 1) + 1
      BY <1>1
    <3>2. N = ((m - i) + 1) + 1
      BY <1>2, <1>7, <2>1
    <3> HIDE DEF N
    <3> QED
      BY <1>1, <1>4, <2>1, <3>1, <3>2
  <2>2. CASE tr /\ c = "s"
    <3>1. PICK l \in i .. m : p[l] # "s" /\ Spaces(p, l + 1, m) /\ n = (l - i) + 1
      BY <1>2, <2>2
    <3>2. l + 1 \in Nat \ {0} /\ l \in i .. m + 1 /\ l \in 1 .. m
      BY <1>1
    <3>3. N = n
      BY <2>2
    <3> HIDE DEF N
    <3> QED
      BY <1>1, <1>4, <2>2, <3>1, <3>2, <3>3
  <2> QED
    BY <2>1, <2>2
<1>10. ~tr => Append(e, c) = r /\ N = m + 1
  BY <1>2
<1>11. tr => Append(e, c) = Slice(r, i - 1, m + 1)
  BY <1>2, <1>6
<1>12. i \in 1 .. m + 1
  BY <1>1
<1> HIDE DEF r, m, N
<1>13. Bare(r, q, tr, Append(e, c), N)
  BY <1>1, <1>3, <1>8, <1>9, <1>10, <1>11, <1>12 DEF Bare
<1> QED
  BY <1>13 DEF r, N

LEMMA WithinGrows ==
  ASSUME NEW p \in Seq(Kind), NEW q \in BOOLEAN, NEW e \in Seq(Kind), Within(p, q, e), NEW c \in Kind
  PROVE  IF c = "q" THEN Closed(Append(p, c), q, e, TRUE) ELSE Within(Append(p, c), q, Append(e, c))
<1> DEFINE r == Append(p, c)
           m == Len(p)
<1>1. /\ r \in Seq(Kind) /\ Len(r) = m + 1 /\ m \in Nat /\ r[m + 1] = c /\ \A j \in 1 .. m : r[j] = p[j]
  BY PartGrown
<1>2. q
  BY DEF Within
<1>3. PICK i \in 1 .. m : /\ Starts(p, i) /\ p[i] = "q"
                          /\ CsvParser!Halved(Slice(p, i, m)) = [run |-> "even", out |-> e]
  BY DEF Within
<1>4. Starts(r, i)
  BY <1>3, SpacesGrow
<1>5. i \in 0 .. m /\ i \in 1 .. m + 1 /\ m + 1 \in i + 1 .. m + 1 /\ (m + 1) + 1 = m + 2
  BY <1>1
<1>6. Slice(p, i, m) \in Seq(Kind) /\ Slice(r, i, m + 1) = Append(Slice(p, i, m), c)
  <2>1. \A lo \in 0 .. m : /\ Slice(p, lo, m) \in Seq(Kind)
                           /\ Slice(r, lo, m + 1) = Append(Slice(p, lo, m), c)
    BY PartGrown
  <2> HIDE DEF m, r
  <2> QED
    BY <1>5, <2>1
<1>7. Spaces(r, m + 2, m + 1)
  BY SpacesGrow
<1>8. CsvParser!Halved(Slice(r, i, m + 1)) = IF c = "q" THEN [run |-> "odd", out |-> e] ELSE [run |-> "even", out |-> Append(e, c)]
  <2> DEFINE d == Slice(p, i, m)
  <2>1. d \in Seq(Kind) /\ CsvParser!Halved(d) = [run |-> "even", out |-> e]
    BY <1>3, <1>6
  <2> HIDE DEF d
  <2>2. CsvParser!Halved(Append(d, c)) = IF c = "q" THEN [run |-> "odd", out |-> e] ELSE [run |-> "even", out |-> Append(e, c)]
    BY <2>1, HalvedEven
  <2> QED
    BY <1>6, <2>2 DEF d
<1>9. r[i] = "q"
  BY <1>1, <1>3
<1> HIDE DEF r, m
<1>10. c = "q" => Closed(r, q, e, TRUE)
  BY <1>1, <1>2, <1>4, <1>5, <1>7, <1>8, <1>9 DEF Closed
<1>11. c # "q" => Within(r, q, Append(e, c))
  BY <1>1, <1>2, <1>4, <1>5, <1>8, <1>9 DEF Within
<1> QED
  BY <1>10, <1>11 DEF r

(* The second of two quotes, and a space behind the last. *)
LEMMA ClosedGrows ==
  ASSUME NEW p \in Seq(Kind), NEW q \in BOOLEAN, NEW e \in Seq(Kind), NEW shut \in BOOLEAN, Closed(p, q, e, shut)
  PROVE  /\ Closed(Append(p, "s"), q, e, FALSE)
         /\ shut => Within(Append(p, "q"), q, Append(e, "q"))
<1> DEFINE m == Len(p)
<1>1. q
  BY DEF Closed
<1>2. PICK i \in 1 .. m : \E l \in i + 1 .. m :
         /\ Starts(p, i) /\ p[i] = "q" /\ p[l] = "q" /\ Spaces(p, l + 1, m) /\ (shut <=> l = m)
         /\ CsvParser!Halved(Slice(p, i, l)) = [run |-> "odd", out |-> e]
  BY DEF Closed
<1>3. PICK l \in i + 1 .. m :
         /\ Starts(p, i) /\ p[i] = "q" /\ p[l] = "q" /\ Spaces(p, l + 1, m) /\ (shut <=> l = m)
         /\ CsvParser!Halved(Slice(p, i, l)) = [run |-> "odd", out |-> e]
  BY <1>2
<1>4. "s" \in Kind /\ "q" \in Kind /\ m \in Nat
  BY LenProperties DEF Kind
<1>5. i \in 0 .. m /\ i \in 1 .. m + 1 /\ l \in i + 1 .. m + 1 /\ l \in i .. m /\ l + 1 \in Nat \ {0} /\ l # m + 1
      /\ l \in 1 .. m
  BY <1>4
<1>6. Closed(Append(p, "s"), q, e, FALSE)
  <2> DEFINE r == Append(p, "s")
  <2>1. /\ r \in Seq(Kind) /\ Len(r) = m + 1 /\ \A j \in 1 .. m : r[j] = p[j]
    BY <1>4, PartGrown
  <2>2. Starts(r, i) /\ Spaces(r, l + 1, m + 1)
    BY <1>3, <1>4, <1>5, SpacesGrow
  <2>3. Slice(r, i, l) = Slice(p, i, l)
    <3>1. i \in 0 .. Len(p) /\ l \in i .. Len(p)
      BY <1>5
    <3>2. \A lo \in 0 .. Len(p) : \A hi \in lo .. Len(p) : Slice(Append(p, "s"), lo, hi) = Slice(p, lo, hi)
      BY <1>4, PartGrown, Zenon
    <3> QED
      BY <3>1, <3>2, Zenon
  <2> HIDE DEF r, m
  <2>4. Closed(r, q, e, FALSE)
    BY <1>1, <1>3, <1>5, <2>1, <2>2, <2>3 DEF Closed
  <2> QED
    BY <2>4 DEF r
<1>7. ASSUME shut PROVE Within(Append(p, "q"), q, Append(e, "q"))
  <2> DEFINE r == Append(p, "q")
  <2>1. /\ r \in Seq(Kind) /\ Len(r) = m + 1 /\ \A j \in 1 .. m : r[j] = p[j]
    BY <1>4, PartGrown
  <2>2. Starts(r, i)
    BY <1>3, <1>4, SpacesGrow
  <2>3. Slice(p, i, m) \in Seq(Kind) /\ Slice(r, i, m + 1) = Append(Slice(p, i, m), "q")
    BY <1>4, <1>5, PartGrown
  <2>4. CsvParser!Halved(Slice(r, i, m + 1)) = [run |-> "even", out |-> Append(e, "q")]
    <3> DEFINE d == Slice(p, i, m)
    <3>1. d \in Seq(Kind) /\ CsvParser!Halved(d) = [run |-> "odd", out |-> e]
      BY <1>3, <1>7, <2>3
    <3> HIDE DEF d
    <3>2. CsvParser!Halved(Append(d, "q")) = [run |-> "even", out |-> Append(e, "q")]
      BY <1>4, <3>1, HalvedOdd
    <3> QED
      BY <2>3, <3>2 DEF d
  <2> HIDE DEF r, m
  <2>5. Within(r, q, Append(e, "q"))
    BY <1>1, <1>3, <1>5, <2>1, <2>2, <2>4 DEF Within
  <2> QED
    BY <2>5 DEF r
<1> QED
  BY <1>6, <1>7

(* A field that ends here is legal, and what was collected is what comes   *)
(* of it.                                                                  *)
LEMMA WideEnds ==
  ASSUME NEW p \in Seq(Kind), NEW q \in BOOLEAN, NEW tr \in BOOLEAN, NEW e, NEW n, Wide(p, tr, e, n)
  PROVE  CsvParser!LegalField(p, q) /\ CsvParser!Decoded(p, q, tr) = SubSeq(e, 1, n)
<1>1. CsvParser!Blank(p)
  BY CsvBytes DEF Wide, Spaces, CsvParser!Blank
<1>2. ~CsvParser!Quoted(p, q)
  BY <1>1 DEF CsvParser!Quoted
<1>3. CsvParser!LegalField(p, q)
  <2>1. \A j \in 1 .. Len(p) : p[j] # "q"
    BY DEF Wide, Spaces
  <2> QED
    BY <1>2, <2>1, CsvBytes DEF CsvParser!LegalField
<1>4. CASE tr
  <2>1. CsvParser!Decoded(p, q, tr) = <<>>
    BY <1>1, <1>2, <1>4 DEF CsvParser!Decoded, CsvParser!Trimmed
  <2>2. SubSeq(e, 1, n) = <<>>
    <3>1. <<>> \in Seq(Kind) /\ e = <<>> /\ n = 0
      BY <1>4, EmptySeq DEF Wide
    <3> QED
      BY <3>1, FirstElements
  <2> QED
    BY <1>3, <2>1, <2>2
<1>5. CASE ~tr
  <2>1. CsvParser!Decoded(p, q, tr) = p
    BY <1>2, <1>5 DEF CsvParser!Decoded
  <2>2. SubSeq(e, 1, n) = p
    BY <1>5, FirstElements DEF Wide
  <2> QED
    BY <1>3, <2>1, <2>2
<1> QED
  BY <1>4, <1>5

LEMMA BareEnds ==
  ASSUME NEW p \in Seq(Kind), NEW q \in BOOLEAN, NEW tr \in BOOLEAN, NEW e, NEW n, Bare(p, q, tr, e, n)
  PROVE  CsvParser!LegalField(p, q) /\ CsvParser!Decoded(p, q, tr) = SubSeq(e, 1, n)
<1> DEFINE m == Len(p)
<1>1. m \in Nat
  BY LenProperties
<1>2. PICK i \in 1 .. m :
    /\ Starts(p, i) /\ (q => \A j \in 1 .. m : p[j] # "q")
    /\ IF tr THEN /\ e = Slice(p, i - 1, m)
                  /\ \E l \in i .. m : p[l] # "s" /\ Spaces(p, l + 1, m) /\ n = (l - i) + 1
       ELSE e = p /\ n = m
  BY DEF Bare
<1>3. CsvParser!FirstInk(p) = i /\ ~CsvParser!Blank(p)
  <2>1. i \in 1 .. Len(p) /\ Len(p) \in Nat /\ p[i] # "s" /\ \A j \in 1 .. i - 1 : p[j] = "s"
    BY <1>1, <1>2 DEF Starts, Spaces
  <2> QED
    BY <2>1, FirstInkIs
<1>4. ~CsvParser!Quoted(p, q)
  <2>1. q => p[i] # "q"
    BY <1>2
  <2> QED
    BY <1>3, <2>1, CsvBytes DEF CsvParser!Quoted
<1>5. CsvParser!LegalField(p, q)
  BY <1>2, <1>4, CsvBytes DEF CsvParser!LegalField
<1>6. CASE tr
  <2>1. PICK l \in i .. m : p[l] # "s" /\ Spaces(p, l + 1, m) /\ n = (l - i) + 1
    BY <1>2, <1>6
  <2>2. l \in 1 .. Len(p)
    BY <1>1
  <2>3. CsvParser!LastInk(p) = l
    BY <1>1, <2>1, <2>2, LastInkIs DEF Spaces
  <2>4. CsvParser!Decoded(p, q, tr) = SubSeq(p, i, l)
    BY <1>3, <1>4, <1>6, <2>3 DEF CsvParser!Decoded, CsvParser!Trimmed
  <2> DEFINE lo == i - 1
  <2>5. /\ lo \in 0 .. Len(p) /\ m \in 0 .. Len(p) /\ lo <= m /\ n \in 0 .. m - lo /\ 0 \in 0 .. m - lo
        /\ 0 <= n /\ lo + 0 = lo /\ lo + n = l /\ lo + 1 = i
    BY <1>1, <2>1
  <2>6. e = Slice(p, lo, m)
    BY <1>2, <1>6
  <2> HIDE DEF lo, m
  <2>7. e \in Seq(Kind) /\ Len(e) = m - lo
    BY <2>5, <2>6, PartIs
  <2>8. SubSeq(e, 1, n) = Slice(e, 0, n)
    BY <2>5, <2>7, FirstPart
  <2>9. Slice(e, 0, n) = Slice(p, lo, l)
    <3>1. Slice(Slice(p, lo, m), 0, n) = Slice(p, lo + 0, lo + n)
      BY <2>5, PartOfPart
    <3> QED
      BY <2>5, <2>6, <3>1
  <2>10. Slice(p, lo, l) = SubSeq(p, i, l)
    BY <2>5 DEF Slice
  <2> QED
    BY <1>5, <2>4, <2>8, <2>9, <2>10
<1>7. CASE ~tr
  <2>1. CsvParser!Decoded(p, q, tr) = p
    BY <1>4, <1>7 DEF CsvParser!Decoded
  <2>2. SubSeq(e, 1, n) = p
    BY <1>2, <1>7, FirstElements
  <2> QED
    BY <1>5, <2>1, <2>2
<1> QED
  BY <1>6, <1>7

LEMMA ClosedEnds ==
  ASSUME NEW p \in Seq(Kind), NEW q \in BOOLEAN, NEW tr \in BOOLEAN, NEW e \in Seq(Kind),
         NEW shut \in BOOLEAN, Closed(p, q, e, shut)
  PROVE  CsvParser!LegalField(p, q) /\ CsvParser!Decoded(p, q, tr) = SubSeq(e, 1, Len(e))
<1> DEFINE m == Len(p)
<1>1. m \in Nat /\ q
  BY LenProperties DEF Closed
<1>2. PICK i \in 1 .. m : \E l \in i + 1 .. m :
         /\ Starts(p, i) /\ p[i] = "q" /\ p[l] = "q" /\ Spaces(p, l + 1, m)
         /\ CsvParser!Halved(Slice(p, i, l)) = [run |-> "odd", out |-> e]
  BY DEF Closed
<1>3. PICK l \in i + 1 .. m :
         /\ Starts(p, i) /\ p[i] = "q" /\ p[l] = "q" /\ Spaces(p, l + 1, m)
         /\ CsvParser!Halved(Slice(p, i, l)) = [run |-> "odd", out |-> e]
  BY <1>2
<1>4. l \in 1 .. Len(p) /\ i < l /\ l - 1 \in Nat /\ i <= l - 1 /\ l - 1 < Len(p) /\ (l - 1) + 1 = l /\ i \in Nat
  BY <1>1
<1>5. CsvParser!FirstInk(p) = i /\ ~CsvParser!Blank(p)
  <2>1. i \in 1 .. Len(p) /\ Len(p) \in Nat /\ p[i] # "s" /\ \A j \in 1 .. i - 1 : p[j] = "s"
    BY <1>1, <1>3 DEF Starts, Spaces
  <2> QED
    BY <2>1, FirstInkIs
<1>6. CsvParser!LastInk(p) = l
  <2>1. p[l] # "s" /\ \A j \in l + 1 .. Len(p) : p[j] = "s"
    BY <1>3 DEF Spaces
  <2> QED
    BY <1>1, <1>4, <2>1, LastInkIs
<1>7. CsvParser!Quoted(p, q)
  BY <1>1, <1>3, <1>5, CsvBytes DEF CsvParser!Quoted
<1> DEFINE k == l - 1
           d == Slice(p, i, k)
<1>8. CsvParser!Inside(p) = d
  BY <1>5, <1>6 DEF CsvParser!Inside, Slice
<1>9. d \in Seq(Kind) /\ Slice(p, i, l) = Append(d, "q")
  <2>1. k \in Nat /\ i <= k /\ k < Len(p) /\ k + 1 = l /\ p[l] = "q"
    BY <1>3, <1>4
  <2> HIDE DEF k
  <2>2. Slice(p, i, k) \in Seq(Kind) /\ Slice(p, i, k + 1) = Append(Slice(p, i, k), p[k + 1])
    BY <1>4, <2>1, PartNext
  <2> QED
    BY <2>1, <2>2
<1> HIDE DEF d
<1>10. CsvParser!Halved(d) = [run |-> "even", out |-> e]
  <2>1. CsvParser!Halved(Append(d, "q")) = [run |-> "odd", out |-> e]
    BY <1>3, <1>9
  <2> QED
    BY <1>9, <2>1, HalvedOpened
<1>11. CsvParser!LegalField(p, q)
  <2>1. CsvParser!LastInk(p) > CsvParser!FirstInk(p)
    BY <1>4, <1>5, <1>6
  <2>2. p[CsvParser!LastInk(p)] = CsvParser!Quote
    BY <1>3, <1>6, CsvBytes
  <2>3. CsvParser!Halved(CsvParser!Inside(p)).run = "even"
    BY <1>8, <1>10
  <2> QED
    BY <1>7, <2>1, <2>2, <2>3, Zenon DEF CsvParser!LegalField
<1>12. CsvParser!Decoded(p, q, tr) = e
  BY <1>7, <1>8, <1>10 DEF CsvParser!Decoded
<1> QED
  BY <1>11, <1>12, FirstElements

(* A field that goes on with what cannot follow is not legal, however it   *)
(* ends.                                                                   *)
LEMMA StartsSame ==
  ASSUME NEW p \in Seq(Kind), NEW f \in Seq(Kind), Len(p) < Len(f), \A j \in 1 .. Len(p) : f[j] = p[j],
         NEW i, Starts(p, i)
  PROVE  CsvParser!FirstInk(f) = i /\ ~CsvParser!Blank(f) /\ i \in 1 .. Len(p)
<1>1. Len(p) \in Nat /\ Len(f) \in Nat
  BY LenProperties
<1>2. i \in 1 .. Len(p) /\ p[i] # "s" /\ \A j \in 1 .. i - 1 : p[j] = "s"
  BY DEF Starts, Spaces
<1>3. i \in 1 .. Len(f) /\ f[i] # "s" /\ \A j \in 1 .. i - 1 : f[j] = "s"
  <2>1. \A j \in 1 .. i - 1 : j \in 1 .. Len(p)
    BY <1>1, <1>2
  <2> QED
    BY <1>1, <1>2, <2>1
<1> QED
  BY <1>1, <1>2, <1>3, FirstInkIs

LEMMA BareBreaks ==
  ASSUME NEW p \in Seq(Kind), NEW tr \in BOOLEAN, NEW e, NEW n, Bare(p, TRUE, tr, e, n),
         NEW f \in Seq(Kind), Len(p) < Len(f), \A j \in 1 .. Len(p) : f[j] = p[j], f[Len(p) + 1] = "q"
  PROVE  ~CsvParser!LegalField(f, TRUE)
<1>1. Len(p) \in Nat /\ Len(f) \in Nat
  BY LenProperties
<1>2. PICK i \in 1 .. Len(p) : Starts(p, i) /\ \A j \in 1 .. Len(p) : p[j] # "q"
  BY DEF Bare
<1>3. CsvParser!FirstInk(f) = i /\ ~CsvParser!Blank(f) /\ f[i] # "q"
  BY <1>2, StartsSame
<1>4. ~CsvParser!Quoted(f, TRUE)
  BY <1>3, CsvBytes DEF CsvParser!Quoted
<1>5. Len(p) + 1 \in 1 .. Len(f)
  BY <1>1
<1> QED
  BY <1>4, <1>5, CsvBytes DEF CsvParser!LegalField

LEMMA ClosedBreaks ==
  ASSUME NEW p \in Seq(Kind), NEW e \in Seq(Kind), NEW shut \in BOOLEAN, Closed(p, TRUE, e, shut),
         NEW f \in Seq(Kind), Len(p) < Len(f), \A j \in 1 .. Len(p) : f[j] = p[j],
         f[Len(p) + 1] # "s", ~(shut /\ f[Len(p) + 1] = "q")
  PROVE  ~CsvParser!LegalField(f, TRUE)
<1> DEFINE m == Len(p)
           c == f[m + 1]
<1>1. m \in Nat /\ Len(f) \in Nat
  BY LenProperties
<1>2. PICK i \in 1 .. m : \E l \in i + 1 .. m :
         /\ Starts(p, i) /\ p[i] = "q" /\ p[l] = "q" /\ Spaces(p, l + 1, m) /\ (shut <=> l = m)
         /\ CsvParser!Halved(Slice(p, i, l)) = [run |-> "odd", out |-> e]
  BY DEF Closed
<1>3. PICK l \in i + 1 .. m :
         /\ Starts(p, i) /\ p[i] = "q" /\ p[l] = "q" /\ Spaces(p, l + 1, m) /\ (shut <=> l = m)
         /\ CsvParser!Halved(Slice(p, i, l)) = [run |-> "odd", out |-> e]
  BY <1>2
<1>4. CsvParser!FirstInk(f) = i /\ ~CsvParser!Blank(f) /\ f[i] = "q"
  BY <1>3, StartsSame
<1>5. CsvParser!Quoted(f, TRUE)
  BY <1>4, CsvBytes DEF CsvParser!Quoted
<1> DEFINE L == CsvParser!LastInk(f)
<1>6. L \in m + 1 .. Len(f)
  <2>1. m + 1 \in 1 .. Len(f) /\ f[m + 1] # "s"
    BY <1>1
  <2> QED
    BY <1>1, <2>1, LastInkIs
<1>7. CsvParser!Inside(f) = Slice(f, i, L - 1)
  BY <1>4 DEF CsvParser!Inside, Slice
<1> HIDE DEF L
<1>8. SUFFICES ASSUME f[L] = "q", CsvParser!Halved(Slice(f, i, L - 1)).run = "even" PROVE FALSE
  BY <1>5, <1>7, CsvBytes DEF CsvParser!LegalField, L
(* what follows the quote at l breaks the pair it opened *)
<1>9. l + 1 <= L - 1
  <2>1. CASE l = m
    <3>1. c # "q"
      BY <1>3, <2>1
    <3>2. L # m + 1
      BY <1>8, <3>1
    <3> QED
      BY <1>1, <1>6, <2>1, <3>2
  <2>2. CASE l # m
    BY <1>1, <1>6, <2>2
  <2> QED
    BY <2>1, <2>2
<1>10. f[l + 1] # "q"
  <2>1. CASE l = m
    BY <1>3, <2>1
  <2>2. CASE l # m
    <3>1. l + 1 \in l + 1 .. m /\ l + 1 \in 1 .. m
      BY <1>1, <2>2
    <3>2. p[l + 1] = "s"
      BY <1>3, <3>1 DEF Spaces
    <3> QED
      BY <3>1, <3>2
  <2> QED
    BY <2>1, <2>2
<1>11. i \in Nat /\ l \in Nat /\ i <= l /\ l < Len(f) /\ l <= Len(p) /\ l <= Len(f)
       /\ (\A j \in 1 .. l : p[j] = f[j]) /\ l + 1 \in Nat /\ L - 1 \in Nat /\ i <= l + 1 /\ L - 1 <= Len(f)
  BY <1>1, <1>6
<1> DEFINE d == Slice(f, i, l)
<1>12. Slice(p, i, l) = d
  BY <1>11, PartSame
<1>13. d \in Seq(Kind) /\ f[l + 1] \in Kind /\ Slice(f, i, l + 1) = Append(d, f[l + 1])
  BY <1>11, PartNext
<1>14. CsvParser!Halved(Append(d, f[l + 1])).run = "bad"
  <2>1. CsvParser!Halved(d) = [run |-> "odd", out |-> e]
    BY <1>3, <1>12
  <2> HIDE DEF d
  <2> QED
    BY <1>10, <1>13, <2>1, HalvedOdd
<1> DEFINE lo == i
           mi == l + 1
           hi == L - 1
<1>15. CsvParser!Halved(Slice(f, lo, mi)).run = "bad" /\ lo \in Nat /\ mi \in Nat /\ hi \in Nat
       /\ lo <= mi /\ mi <= hi /\ hi <= Len(f)
  BY <1>9, <1>11, <1>13, <1>14
<1>16. CsvParser!Halved(Slice(f, lo, hi)).run = "even"
  BY <1>8
<1> HIDE DEF lo, mi, hi, d
<1>17. CsvParser!Halved(Slice(f, lo, hi)).run = "bad"
  BY <1>15, PartStaysBad
<1> QED
  BY <1>16, <1>17

(* Which characters of a text end a field, as it is read. *)
CutTo(z, q, n) == {k \in CsvParser!Cut(z, q) : k <= n}
LastCut(z, q, n, b) == /\ b \in 0 .. n /\ (b = 0 \/ b \in CsvParser!Cut(z, q))
                       /\ \A k \in CsvParser!Cut(z, q) : k <= n => k <= b
(* The fields that were read are legal, and row holds what comes of them. *)
Taken(z, q, tr, n, rw) ==
  /\ rw \in Seq(Seq(Kind)) /\ Len(rw) = Cardinality(CutTo(z, q, n))
  /\ \A k \in CutTo(z, q, n) :
       /\ CsvParser!LegalField(CsvParser!Field(z, q, k), q)
       /\ rw[CsvParser!Place(z, q, k)] = CsvParser!Decoded(CsvParser!Field(z, q, k), q, tr)

LEMMA CsvCounts == \A S : CsvParser!Cardinality(S) = Cardinality(S)
BY Zenon DEF CsvParser!Cardinality, Cardinality

LEMMA CutIs ==
  ASSUME NEW z \in Seq(Kind), NEW q \in BOOLEAN
  PROVE  /\ CsvParser!Cut(z, q) \in SUBSET (1 .. Len(z)) /\ Len(z) \in Nat
         /\ CsvParser!Cut(z, q) \in SUBSET Nat
         /\ \A k \in 1 .. Len(z) : k \in CsvParser!Cut(z, q) <=> z[k] \in {",", "n"} /\ CsvParser!Outside(z, q, k)
         /\ IsFiniteSet(CsvParser!Cut(z, q))
         /\ \A n : IsFiniteSet(CutTo(z, q, n)) /\ Cardinality(CutTo(z, q, n)) \in Nat
<1>1. Len(z) \in Nat
  BY LenProperties
<1>2. CsvParser!Cut(z, q) = {k \in 1 .. Len(z) : z[k] \in {",", "n"} /\ CsvParser!Outside(z, q, k)}
  BY CsvBytes DEF CsvParser!Cut
<1> DEFINE C == CsvParser!Cut(z, q)
<1>3. C \in SUBSET (1 .. Len(z))
  BY <1>2
<1>4. IsFiniteSet(C)
  <2>1. 1 \in Int /\ Len(z) \in Int
    BY <1>1
  <2>2. IsFiniteSet(1 .. Len(z))
    BY <2>1, FS_Interval
  <2> HIDE DEF C
  <2> QED
    BY <1>3, <2>2, FS_Subset
<1>5. ASSUME NEW n PROVE IsFiniteSet(CutTo(z, q, n)) /\ Cardinality(CutTo(z, q, n)) \in Nat
  <2>1. CutTo(z, q, n) \in SUBSET C
    BY DEF CutTo
  <2> HIDE DEF C
  <2> QED
    BY <1>4, <2>1, FS_Subset, FS_CardinalityType
<1>6. C \in SUBSET Nat
  BY <1>1, <1>3
<1> QED
  BY <1>1, <1>2, <1>3, <1>4, <1>5, <1>6

LEMMA OutsideIs ==
  ASSUME NEW z \in Seq(Kind), NEW q \in BOOLEAN
  PROVE  /\ CsvParser!Outside(z, q, 1)
         /\ \A k \in 1 .. Len(z) : CsvParser!Outside(z, q, k + 1)
               <=> IF q /\ z[k] = "q" THEN ~CsvParser!Outside(z, q, k) ELSE CsvParser!Outside(z, q, k)
<1> DEFINE Q(k) == {i \in 1 .. k - 1 : z[i] = "q"}
<1>1. \A k : CsvParser!Outside(z, q, k) <=> (q => Cardinality(Q(k)) % 2 = 0)
  BY CsvCounts, Zenon DEF CsvParser!Outside, CsvParser!Quote
<1>2. CsvParser!Outside(z, q, 1)
  <2>1. Q(1) = {}
    OBVIOUS
  <2>2. Cardinality(Q(1)) = 0
    BY <2>1, FS_EmptySet
  <2>3. 0 % 2 = 0
    OBVIOUS
  <2> QED
    BY <1>1, <2>2, <2>3
<1>3. ASSUME NEW k \in 1 .. Len(z)
      PROVE  CsvParser!Outside(z, q, k + 1)
               <=> IF q /\ z[k] = "q" THEN ~CsvParser!Outside(z, q, k) ELSE CsvParser!Outside(z, q, k)
  <2>1. k \in Nat /\ k # 0 /\ Len(z) \in Nat
    BY LenProperties
  <2>2. IsFiniteSet(Q(k)) /\ Cardinality(Q(k)) \in Nat
    <3>1. 1 \in Int /\ k - 1 \in Int /\ Q(k) \in SUBSET (1 .. k - 1)
      BY <2>1
    <3> DEFINE m == k - 1
               S == Q(k)
    <3>2. IsFiniteSet(1 .. m)
      BY <3>1, FS_Interval
    <3>3. S \in SUBSET (1 .. m)
      BY <3>1
    <3> HIDE DEF m, S
    <3>4. IsFiniteSet(S)
      BY <3>2, <3>3, FS_Subset
    <3> QED
      BY <3>4, FS_CardinalityType DEF S
  <2>3. Q(k + 1) = IF z[k] = "q" THEN Q(k) \cup {k} ELSE Q(k)
    BY <2>1
  <2>4. k \notin Q(k)
    BY <2>1
  <2> DEFINE a == Cardinality(Q(k))
             c == Cardinality(Q(k + 1))
  <2>5. c = IF z[k] = "q" THEN a + 1 ELSE a
    BY <2>2, <2>3, <2>4, FS_AddElement
  <2>6. (CsvParser!Outside(z, q, k + 1) <=> (q => c % 2 = 0)) /\ (CsvParser!Outside(z, q, k) <=> (q => a % 2 = 0))
    BY <1>1
  <2>7. a \in Nat
    BY <2>2
  <2> HIDE DEF a, c
  <2>8. (a + 1) % 2 = 0 <=> ~(a % 2 = 0)
    BY <2>7
  <2>9. CASE z[k] = "q"
    BY <2>5, <2>6, <2>8, <2>9, Zenon
  <2>10. CASE z[k] # "q"
    BY <2>5, <2>6, <2>10, Zenon
  <2> QED
    BY <2>9, <2>10
<1> QED
  BY <1>2, <1>3

LEMMA LastCutNext ==
  ASSUME NEW z \in Seq(Kind), NEW q \in BOOLEAN, NEW n \in Nat, NEW b, LastCut(z, q, n, b)
  PROVE  /\ n + 1 \notin CsvParser!Cut(z, q) => LastCut(z, q, n + 1, b)
         /\ n + 1 \in CsvParser!Cut(z, q) => LastCut(z, q, n + 1, n + 1)
<1>1. CsvParser!Cut(z, q) \in SUBSET Nat
  BY CutIs
<1> DEFINE C == CsvParser!Cut(z, q)
<1> HIDE DEF C
<1>2. b \in 0 .. n /\ (b = 0 \/ b \in C) /\ \A k \in C : k <= n => k <= b
  BY DEF LastCut, C
<1>3. C \in SUBSET Nat
  BY <1>1 DEF C
<1>4. b \in 0 .. n + 1 /\ n + 1 \in 0 .. n + 1
  BY <1>2
<1>5. n + 1 \notin C => \A k \in C : k <= n + 1 => k <= b
  <2> SUFFICES ASSUME n + 1 \notin C, NEW k \in C, k <= n + 1 PROVE k <= b
    OBVIOUS
  <2>1. k # n + 1 /\ k \in Nat
    BY <1>3
  <2>2. k <= n
    BY <2>1
  <2> QED
    BY <1>2, <2>2
<1> QED
  BY <1>2, <1>4, <1>5 DEF LastCut, C

(* The field that ends at k, when b is the cut before it. *)
LEMMA FieldIs ==
  ASSUME NEW z \in Seq(Kind), NEW q \in BOOLEAN, NEW k \in Nat \ {0}, NEW b, LastCut(z, q, k - 1, b)
  PROVE  CsvParser!Field(z, q, k) = Slice(z, b, k - 1)
<1> DEFINE C == CsvParser!Cut(z, q)
           P(j) == j \in C \cup {0} /\ j < k /\ \A i \in C : i < k => i <= j
           f == CHOOSE j \in C \cup {0} : j < k /\ \A i \in C : i < k => i <= j
<1>1. C \in SUBSET Nat
  BY Zenon, CutIs
<1>2. CsvParser!Before(z, q, k) = f
  BY DEF CsvParser!Before
<1> HIDE DEF C
<1>3. b \in 0 .. k - 1 /\ (b = 0 \/ b \in C) /\ \A i \in C : i <= k - 1 => i <= b
  BY DEF LastCut, C
<1>4. P(b)
  <2>1. \A i \in C : i < k => i <= k - 1
    BY <1>1
  <2> QED
    BY <1>3, <2>1
<1>5. P(f)
  BY <1>4
<1> HIDE DEF f
<1>6. f = b
  <2>1. f \in Nat /\ b \in Nat
    BY <1>1, <1>3, <1>5
  <2>2. f <= b
    BY <1>4, <1>5, <2>1
  <2>3. b <= f
    BY <1>4, <1>5, <2>1
  <2> QED
    BY <2>1, <2>2, <2>3
<1> QED
  BY <1>2, <1>6 DEF CsvParser!Field, Slice

LEMMA PlaceIs ==
  ASSUME NEW z \in Seq(Kind), NEW q \in BOOLEAN, NEW n \in Nat, NEW k \in CutTo(z, q, n)
  PROVE  /\ CsvParser!Place(z, q, k) = Cardinality(CutTo(z, q, k))
         /\ CsvParser!Place(z, q, k) \in 1 .. Cardinality(CutTo(z, q, n))
<1> DEFINE C == CsvParser!Cut(z, q)
<1>1. C \in SUBSET Nat /\ IsFiniteSet(CutTo(z, q, k)) /\ IsFiniteSet(CutTo(z, q, n))
      /\ Cardinality(CutTo(z, q, k)) \in Nat /\ Cardinality(CutTo(z, q, n)) \in Nat
  BY Zenon, CutIs
<1>2. k \in C /\ k <= n
  BY DEF CutTo
<1>3. CsvParser!Place(z, q, k) = Cardinality(CutTo(z, q, k))
  <2>1. C \cup {k} = C
    BY <1>2
  <2>2. CsvParser!Place(z, q, k) = Cardinality({j \in C \cup {k} : j <= k})
    BY CsvCounts, Zenon DEF CsvParser!Place
  <2> QED
    BY <2>1, <2>2 DEF CutTo
<1>4. CutTo(z, q, k) \in SUBSET CutTo(z, q, n)
  <2>1. \A j \in C : j <= k => j <= n
    BY <1>1, <1>2
  <2> QED
    BY <2>1 DEF CutTo
<1>5. Cardinality(CutTo(z, q, k)) <= Cardinality(CutTo(z, q, n))
  <2> DEFINE A == CutTo(z, q, k)
             B == CutTo(z, q, n)
  <2>1. IsFiniteSet(B) /\ A \in SUBSET B
    BY <1>1, <1>4
  <2> HIDE DEF A, B
  <2>2. Cardinality(A) <= Cardinality(B)
    BY <2>1, FS_Subset
  <2> QED
    BY <2>2 DEF A, B
<1>6. Cardinality(CutTo(z, q, k)) # 0
  <2>1. k \in CutTo(z, q, k)
    BY <1>1, <1>2 DEF CutTo
  <2> QED
    BY <1>1, <2>1, FS_EmptySet
<1> QED
  BY <1>1, <1>3, <1>5, <1>6

LEMMA CutToNext ==
  ASSUME NEW z \in Seq(Kind), NEW q \in BOOLEAN, NEW n \in Nat
  PROVE  /\ n + 1 \notin CsvParser!Cut(z, q) => CutTo(z, q, n + 1) = CutTo(z, q, n)
         /\ n + 1 \in CsvParser!Cut(z, q)
              => /\ CutTo(z, q, n + 1) = CutTo(z, q, n) \cup {n + 1}
                 /\ Cardinality(CutTo(z, q, n + 1)) = Cardinality(CutTo(z, q, n)) + 1
<1> DEFINE C == CsvParser!Cut(z, q)
<1>1. C \in SUBSET Nat /\ IsFiniteSet(CutTo(z, q, n))
  BY Zenon, CutIs
<1> HIDE DEF C
<1>2. \A k \in C : k <= n + 1 <=> k <= n \/ k = n + 1
  BY <1>1
<1>3. n + 1 \notin CutTo(z, q, n)
  BY DEF CutTo
<1>4. n + 1 \notin C => CutTo(z, q, n + 1) = CutTo(z, q, n)
  <2> SUFFICES ASSUME n + 1 \notin C PROVE CutTo(z, q, n + 1) = CutTo(z, q, n)
    OBVIOUS
  <2>1. \A k \in C : k <= n + 1 <=> k <= n
    BY <1>2
  <2> QED
    BY <2>1 DEF CutTo, C
<1>5. n + 1 \in C => CutTo(z, q, n + 1) = CutTo(z, q, n) \cup {n + 1}
  BY <1>2 DEF CutTo, C
<1>6. n + 1 \in C => Cardinality(CutTo(z, q, n + 1)) = Cardinality(CutTo(z, q, n)) + 1
  <2> DEFINE A == CutTo(z, q, n)
  <2>1. Cardinality(A \cup {n + 1}) = IF n + 1 \in A THEN Cardinality(A) ELSE Cardinality(A) + 1
    <3> HIDE DEF A
    <3> QED
      BY <1>1, FS_AddElement DEF A
  <2> QED
    BY <1>3, <1>5, <2>1
<1> QED
  BY <1>4, <1>5, <1>6 DEF C

LEMMA TakenStays ==
  ASSUME NEW z \in Seq(Kind), NEW q \in BOOLEAN, NEW tr \in BOOLEAN, NEW n \in Nat, NEW rw, Taken(z, q, tr, n, rw),
         n + 1 \notin CsvParser!Cut(z, q)
  PROVE  Taken(z, q, tr, n + 1, rw)
BY CutToNext DEF Taken

LEMMA TakenNext ==
  ASSUME NEW z \in Seq(Kind), NEW q \in BOOLEAN, NEW tr \in BOOLEAN, NEW n \in Nat, NEW rw, Taken(z, q, tr, n, rw),
         n + 1 \in CsvParser!Cut(z, q), NEW b, LastCut(z, q, n, b), NEW x \in Seq(Kind),
         CsvParser!LegalField(Slice(z, b, n), q), CsvParser!Decoded(Slice(z, b, n), q, tr) = x
  PROVE  Taken(z, q, tr, n + 1, Append(rw, x))
<1> DEFINE m == n + 1
           w == Append(rw, x)
<1>1. rw \in Seq(Seq(Kind)) /\ Len(rw) = Cardinality(CutTo(z, q, n)) /\ Len(rw) \in Nat
  BY LenProperties DEF Taken
<1>2. w \in Seq(Seq(Kind)) /\ Len(w) = Len(rw) + 1 /\ w[Len(rw) + 1] = x /\ \A i \in 1 .. Len(rw) : w[i] = rw[i]
  BY <1>1, AppendProperties
<1>3. CutTo(z, q, m) = CutTo(z, q, n) \cup {m} /\ Cardinality(CutTo(z, q, m)) = Cardinality(CutTo(z, q, n)) + 1
  BY CutToNext
<1>4. m \in Nat \ {0} /\ m - 1 = n
  OBVIOUS
<1>5. CsvParser!Field(z, q, m) = Slice(z, b, n)
  BY <1>4, FieldIs
<1>6. CsvParser!Place(z, q, m) = Len(rw) + 1
  <2>1. m \in CutTo(z, q, m)
    BY <1>3
  <2> HIDE DEF m
  <2>2. CsvParser!Place(z, q, m) = Cardinality(CutTo(z, q, m))
    BY <1>4, <2>1, PlaceIs
  <2> QED
    BY <1>1, <1>3, <2>2
<1> HIDE DEF w, m
<1>7. ASSUME NEW k \in CutTo(z, q, m)
      PROVE  /\ CsvParser!LegalField(CsvParser!Field(z, q, k), q)
             /\ w[CsvParser!Place(z, q, k)] = CsvParser!Decoded(CsvParser!Field(z, q, k), q, tr)
  <2>1. CASE k = m
    BY <1>2, <1>5, <1>6, <2>1
  <2>2. CASE k # m
    <3>1. k \in CutTo(z, q, n)
      BY <1>3, <2>2
    <3>2. CsvParser!Place(z, q, k) \in 1 .. Len(rw)
      BY <1>1, <3>1, PlaceIs
    <3>3. /\ CsvParser!LegalField(CsvParser!Field(z, q, k), q)
          /\ rw[CsvParser!Place(z, q, k)] = CsvParser!Decoded(CsvParser!Field(z, q, k), q, tr)
      BY <3>1 DEF Taken
    <3> QED
      BY <1>2, <3>2, <3>3
  <2> QED
    BY <2>1, <2>2
<1>8. Len(w) = Cardinality(CutTo(z, q, m))
  BY <1>1, <1>2, <1>3
<1> QED
  BY <1>2, <1>7, <1>8 DEF Taken, m, w

LEMMA RowEndIs ==
  ASSUME NEW z \in Seq(Kind), NEW q \in BOOLEAN
  PROVE  /\ CsvParser!RowEnd(z, q) \in 1 .. Len(z) + 1
         /\ CsvParser!RowEnd(z, q) # Len(z) + 1
              => CsvParser!RowEnd(z, q) \in CsvParser!Cut(z, q) /\ z[CsvParser!RowEnd(z, q)] = "n"
         /\ \A k \in CsvParser!Cut(z, q) : z[k] = "n" => CsvParser!RowEnd(z, q) <= k
<1> DEFINE C == CsvParser!Cut(z, q)
           N == {k \in C : z[k] = "n"}
           R == CsvParser!RowEnd(z, q)
           f == CHOOSE k \in N : \A j \in N : k <= j
<1>1. Len(z) \in Nat /\ C \in SUBSET (1 .. Len(z)) /\ C \in SUBSET Nat
  BY Zenon, CutIs
<1>2. R = IF N = {} THEN Len(z) + 1 ELSE f
  BY Zenon DEF CsvParser!RowEnd, CsvParser!Newline
<1> HIDE DEF C, R
<1>3. ASSUME N # {} PROVE f \in N /\ \A j \in N : f <= j
  <2>1. N \in SUBSET Nat
    BY <1>1
  <2> HIDE DEF N
  <2>2. Min(N) \in N /\ \A j \in N : Min(N) <= j
    BY <1>3, <2>1, MinIsLeast
  <2> QED
    BY <2>2
<1>4. CASE N = {}
  <2>1. R = Len(z) + 1
    BY <1>2, <1>4
  <2>2. \A k \in C : z[k] # "n"
    BY <1>4
  <2> QED
    BY <1>1, <2>1, <2>2 DEF R, C
<1>5. CASE N # {}
  <2>1. R = f
    BY <1>2, <1>5
  <2> HIDE DEF f
  <2>2. R \in C /\ z[R] = "n" /\ \A j \in C : z[j] = "n" => R <= j
    BY <1>3, <1>5, <2>1
  <2>3. R \in 1 .. Len(z) + 1
    BY <1>1, <2>2
  <2> QED
    BY <2>2, <2>3 DEF R, C
<1> QED
  BY <1>4, <1>5

(* The whole row is read when its newline is. *)
LEMMA RowRead ==
  ASSUME NEW z \in Seq(Kind), NEW q \in BOOLEAN, CsvParser!RowEnd(z, q) # Len(z) + 1
  PROVE  CsvParser!FieldEnds(z, q) = CutTo(z, q, CsvParser!RowEnd(z, q))
<1> DEFINE C == CsvParser!Cut(z, q)
           R == CsvParser!RowEnd(z, q)
<1>1. C \in SUBSET Nat /\ R \in C
  BY Zenon, CutIs, RowEndIs
<1>2. CsvParser!FieldEnds(z, q) = {k \in C : k < R} \cup {R}
  BY DEF CsvParser!FieldEnds
<1> HIDE DEF C, R
<1>3. {k \in C : k < R} \cup {R} = {k \in C : k <= R}
  <2>1. \A k \in C : k <= R <=> k < R \/ k = R
    BY <1>1
  <2> QED
    BY <1>1, <2>1, Zenon
<1> QED
  BY <1>2, <1>3 DEF CutTo, C, R

(* In a whole row something ends the field that is being read, and what    *)
(* was read of it is how it begins.                                        *)
LEMMA FieldGoesOn ==
  ASSUME NEW z \in Seq(Kind), NEW q \in BOOLEAN, NEW n \in 0 .. Len(z), n < Len(z), NEW b, LastCut(z, q, n, b),
         \A k \in CutTo(z, q, n) : z[k] # "n", CsvParser!RowEnd(z, q) # Len(z) + 1,
         n + 1 \notin CsvParser!Cut(z, q)
  PROVE  \E k \in CsvParser!FieldEnds(z, q) :
           /\ CsvParser!Field(z, q, k) \in Seq(Kind) /\ Len(Slice(z, b, n)) < Len(CsvParser!Field(z, q, k))
           /\ \A j \in 1 .. Len(Slice(z, b, n)) : CsvParser!Field(z, q, k)[j] = Slice(z, b, n)[j]
           /\ CsvParser!Field(z, q, k)[Len(Slice(z, b, n)) + 1] = z[n + 1]
<1> DEFINE C == CsvParser!Cut(z, q)
           R == CsvParser!RowEnd(z, q)
           A == {k \in C : k > n}
           k == Min(A)
<1>1. Len(z) \in Nat /\ C \in SUBSET (1 .. Len(z)) /\ C \in SUBSET Nat /\ R \in C /\ z[R] = "n" /\ n \in Nat
  <2>1. Len(z) \in Nat /\ C \in SUBSET (1 .. Len(z)) /\ C \in SUBSET Nat
    BY Zenon, CutIs
  <2>2. R \in C /\ z[R] = "n"
    BY Zenon, RowEndIs
  <2> QED
    BY <2>1, <2>2
<1>2. ~(R <= n)
  BY <1>1 DEF CutTo
<1>3. b \in 0 .. n /\ (b = 0 \/ b \in C) /\ \A i \in C : i <= n => i <= b
  BY DEF LastCut
<1>4. CsvParser!FieldEnds(z, q) = {i \in C : i <= R}
  BY RowRead DEF CutTo
<1>5. n + 1 \notin C
  OBVIOUS
<1> HIDE DEF C, R
<1>6. k \in A /\ \A y \in A : k <= y
  <2>1. R \in A
    BY <1>1, <1>2
  <2>2. A \in SUBSET Nat /\ A # {}
    BY <1>1, <2>1
  <2> HIDE DEF A
  <2> QED
    BY <2>2, MinIsLeast
<1>7. k \in C /\ k > n /\ k <= R /\ \A i \in C : i > n => k <= i
  BY <1>1, <1>2, <1>6
<1> HIDE DEF k, A
<1>8. k \in Nat \ {0} /\ k - 1 \in 0 .. Len(z) /\ n + 1 <= k - 1
  BY <1>1, <1>5, <1>7
<1>9. LastCut(z, q, k - 1, b)
  <2>1. \A i \in C : i <= k - 1 => i <= n
    <3> SUFFICES ASSUME NEW i \in C, i <= k - 1, i > n PROVE FALSE
      BY <1>1
    <3> QED
      BY <1>1, <1>7, <1>8
  <2>2. b \in 0 .. k - 1
    BY <1>1, <1>3, <1>8
  <2> QED
    BY <1>3, <2>1, <2>2 DEF LastCut, C
<1>10. CsvParser!Field(z, q, k) = Slice(z, b, k - 1)
  BY <1>8, <1>9, FieldIs
<1> DEFINE p == Slice(z, b, n)
           h == k - 1
           f == Slice(z, b, h)
<1>11. b \in 0 .. Len(z) /\ n \in 0 .. Len(z) /\ h \in 0 .. Len(z) /\ b <= n /\ b <= h /\ n + 1 <= h
       /\ b \in Nat /\ n \in Nat /\ h \in Nat
  BY <1>1, <1>3, <1>8
<1> HIDE DEF h
<1>12. Len(p) = n - b /\ \A j \in 1 .. n - b : p[j] = z[b + j]
  BY <1>11, PartIs
<1>13. f \in Seq(Kind) /\ Len(f) = h - b /\ \A j \in 1 .. h - b : f[j] = z[b + j]
  BY <1>11, PartIs
<1> HIDE DEF f, p
<1>14. Len(p) < Len(f) /\ Len(p) + 1 \in 1 .. h - b /\ b + (Len(p) + 1) = n + 1 /\ \A j \in 1 .. Len(p) : j \in 1 .. h - b
  BY <1>11, <1>12, <1>13
<1>15. (\A j \in 1 .. Len(p) : f[j] = p[j]) /\ f[Len(p) + 1] = z[n + 1]
  BY <1>12, <1>13, <1>14
<1>16. k \in CsvParser!FieldEnds(z, q)
  BY <1>4, <1>7
<1>17. CsvParser!Field(z, q, k) = f
  BY <1>10 DEF f, h
<1> QED
  BY <1>13, <1>14, <1>15, <1>16, <1>17 DEF p

Collected(p, q, tr, st, inq, e, n) ==
  \/ st = "start" /\ ~inq /\ Wide(p, tr, e, n)
  \/ st = "collect" /\ ~inq /\ Bare(p, q, tr, e, n)
  \/ st = "collect" /\ inq /\ Within(p, q, e)
  \/ st \in {"end_quote", "tailspace"} /\ inq /\ Closed(p, q, e, st = "end_quote")
Unfinished(z, q, n, r) == r > 0 => \A k \in CutTo(z, q, n) : z[k] # "n"
(* n characters of the text z are read. *)
RowReading(z, q, tr, n, st, inq, e, k, rw, r) ==
  /\ \E b \in 0 .. n : LastCut(z, q, n, b) /\ Collected(Slice(z, b, n), q, tr, st, inq, e, k)
  /\ Taken(z, q, tr, n, rw) /\ Unfinished(z, q, n, r)
  /\ CsvParser!Outside(z, q, n + 1) <=> ~(inq /\ st = "collect")

LEMMA ReadOn ==
  ASSUME NEW z \in Seq(Kind), NEW q \in BOOLEAN, NEW tr \in BOOLEAN, NEW n \in Nat, n < Len(z),
         NEW b \in 0 .. n, LastCut(z, q, n, b), n + 1 \notin CsvParser!Cut(z, q),
         NEW st, NEW inq, NEW e, NEW k, NEW rw, NEW r,
         Taken(z, q, tr, n, rw), Unfinished(z, q, n, r),
         Collected(Append(Slice(z, b, n), z[n + 1]), q, tr, st, inq, e, k),
         CsvParser!Outside(z, q, n + 2) <=> ~(inq /\ st = "collect")
  PROVE  RowReading(z, q, tr, n + 1, st, inq, e, k, rw, r)
<1>1. LastCut(z, q, n + 1, b)
  BY LastCutNext
<1>2. Slice(z, b, n + 1) = Append(Slice(z, b, n), z[n + 1])
  <2>1. b \in Nat /\ b <= n
    OBVIOUS
  <2> QED
    BY <2>1, PartNext
<1>3. Taken(z, q, tr, n + 1, rw)
  BY TakenStays
<1>4. Unfinished(z, q, n + 1, r)
  <2>1. CutTo(z, q, n + 1) = CutTo(z, q, n)
    BY CutToNext
  <2> QED
    BY <2>1 DEF Unfinished
<1>5. b \in 0 .. n + 1 /\ (n + 1) + 1 = n + 2
  OBVIOUS
<1> QED
  BY <1>1, <1>2, <1>3, <1>4, <1>5 DEF RowReading

LEMMA ReadCut ==
  ASSUME NEW z \in Seq(Kind), NEW q \in BOOLEAN, NEW tr \in BOOLEAN, NEW n \in Nat, n < Len(z),
         NEW b \in 0 .. n, LastCut(z, q, n, b), n + 1 \in CsvParser!Cut(z, q),
         NEW rw, Taken(z, q, tr, n, rw), NEW r \in Nat \ {0}, Unfinished(z, q, n, r), NEW x \in Seq(Kind),
         CsvParser!LegalField(Slice(z, b, n), q), CsvParser!Decoded(Slice(z, b, n), q, tr) = x
  PROVE  RowReading(z, q, tr, n + 1, "start", FALSE, <<>>, 0, Append(rw, x), IF z[n + 1] = "n" THEN 0 ELSE r - 1)
<1> DEFINE m == n + 1
<1>1. LastCut(z, q, m, m)
  BY LastCutNext
<1>2. Taken(z, q, tr, m, Append(rw, x))
  BY TakenNext
<1>3. m \in 0 .. Len(z) /\ m \in 1 .. Len(z) /\ m \in 0 .. m /\ m <= m /\ m - m = 0
  BY LenProperties
<1>4. z[m] \in {",", "n"} /\ CsvParser!Outside(z, q, m)
  <2> HIDE DEF m
  <2> QED
    BY <1>3, CutIs DEF m
<1>5. CsvParser!Outside(z, q, m + 1)
  <2> HIDE DEF m
  <2>1. z[m] # "q"
    BY <1>4
  <2> QED
    BY <1>3, <1>4, <2>1, OutsideIs
<1>6. Unfinished(z, q, m, IF z[m] = "n" THEN 0 ELSE r - 1)
  <2>1. CutTo(z, q, m) = CutTo(z, q, n) \cup {m}
    BY CutToNext
  <2>2. \A k \in CutTo(z, q, n) : z[k] # "n"
    BY DEF Unfinished
  <2> QED
    BY <2>1, <2>2 DEF Unfinished
<1> HIDE DEF m
<1>7. Slice(z, m, m) = <<>>
  <2>1. Slice(z, m, m) \in Seq(Kind) /\ Len(Slice(z, m, m)) = m - m
    BY <1>3, PartIs
  <2> QED
    BY <1>3, <2>1, EmptySeq
<1>8. Collected(Slice(z, m, m), q, tr, "start", FALSE, <<>>, 0)
  BY <1>7, WideEmpty DEF Collected
<1>9. RowReading(z, q, tr, m, "start", FALSE, <<>>, 0, Append(rw, x), IF z[m] = "n" THEN 0 ELSE r - 1)
  BY <1>1, <1>2, <1>3, <1>5, <1>6, <1>8 DEF RowReading
<1> QED
  BY <1>9 DEF m

LEMMA ReadNothing ==
  ASSUME NEW z \in Seq(Kind), NEW q \in BOOLEAN, NEW tr \in BOOLEAN, NEW r
  PROVE  RowReading(z, q, tr, 0, "start", FALSE, <<>>, 0, <<>>, r)
<1>1. CutTo(z, q, 0) = {} /\ LastCut(z, q, 0, 0)
  <2>1. \A k \in CsvParser!Cut(z, q) : ~(k <= 0)
    <3>1. CsvParser!Cut(z, q) \in SUBSET (1 .. Len(z)) /\ Len(z) \in Nat
      BY CutIs
    <3> QED
      BY <3>1
  <2> QED
    BY <2>1 DEF CutTo, LastCut
<1>2. Taken(z, q, tr, 0, <<>>) /\ Unfinished(z, q, 0, r)
  BY <1>1, FS_EmptySet, EmptySeq DEF Taken, Unfinished
<1>3. Slice(z, 0, 0) = <<>>
  <2>1. 0 + 1 = 1
    OBVIOUS
  <2> QED
    BY <2>1, FirstElements DEF Slice
<1>4. Collected(Slice(z, 0, 0), q, tr, "start", FALSE, <<>>, 0)
  BY <1>3, WideEmpty DEF Collected
<1>5. CsvParser!Outside(z, q, 0 + 1)
  <2>1. 0 + 1 = 1
    OBVIOUS
  <2> QED
    BY <2>1, OutsideIs
<1>6. 0 \in 0 .. 0
  OBVIOUS
<1> QED
  BY <1>1, <1>2, <1>4, <1>5, <1>6 DEF RowReading

-----------------------------------------------------------------------------
(* Between two characters of the row, and when it is read. *)
CsvFresh == /\ text = <<>> /\ count = 0 /\ trim = FALSE /\ quotes = FALSE /\ inquotes = FALSE
            /\ base = 0 /\ elem = <<>> /\ t = 0 /\ row = <<>> /\ rn = 0 /\ bn = 0 /\ rn0 = 0 /\ bn0 = 0 /\ cres = "none"
CsvType == /\ text \in Seq(Kind) /\ trim \in BOOLEAN /\ quotes \in BOOLEAN /\ inquotes \in BOOLEAN
           /\ count \in 0 .. Len(text) /\ elem \in Seq(Kind) /\ t \in Nat /\ t <= Len(elem)
           /\ rn \in Nat /\ bn \in Nat
(* Of buf, what is behind base and the element is left; and a character    *)
(* takes a byte of it at most.                                             *)
CsvRoom == /\ base \in Nat /\ rn0 \in Nat /\ bn0 \in Nat
           /\ base + Len(elem) + bn <= bn0 /\ bn0 <= bn + count
(* Of the r0 places of row[], r are left: none behind a newline. *)
Placed(z, q, n, rw, r, r0) ==
  /\ Len(rw) <= r0 /\ (r > 0 => Len(rw) + r = r0)
  /\ r = 0 => (n = 0 /\ r0 = 0) \/ (n \in CsvParser!Cut(z, q) /\ (z[n] = "n" \/ Len(rw) = r0))
  /\ \A k \in CutTo(z, q, n) : z[k] = "n" => k = n
Refused(z, q) ==
  CsvParser!RowEnd(z, q) <= Len(z)
    => \E k \in CsvParser!FieldEnds(z, q) : ~CsvParser!LegalField(CsvParser!Field(z, q, k), q)
CsvInv == /\ CsvType /\ CsvRoom
          /\ cstate = "idle" => CsvFresh
          /\ cres = "running" => /\ RowReading(text, quotes, trim, count, cstate, inquotes, elem, t, row, rn)
                                 /\ Placed(text, quotes, count, row, rn, rn0)
          /\ cres = "ok" => CsvParser!RowSplit
          /\ cres = "EILSEQ" => Refused(text, quotes)
          /\ cres = "E2BIG" => bn0 <= count

LEMMA CsvMoves ==
  ASSUME CsvInv, text' = text, trim' = trim, quotes' = quotes, cres' = "running", count' = count + 1,
         count < Len(text), cstate' # "idle", inquotes' \in BOOLEAN, elem' \in Seq(Kind), t' \in Nat,
         t' <= Len(elem'), rn' \in Nat, bn' \in Nat, rn0' = rn0, bn0' = bn0, base' \in Nat,
         base' + Len(elem') + bn' <= bn0, bn0 <= bn' + (count + 1),
         RowReading(text, quotes, trim, count + 1, cstate', inquotes', elem', t', row', rn'),
         Placed(text, quotes, count + 1, row', rn', rn0)
  PROVE  CsvInv'
<1>1. count' \in 0 .. Len(text')
  BY LenProperties DEF CsvInv, CsvType
<1>2. CsvType'
  BY <1>1 DEF CsvInv, CsvType
<1>3. /\ RowReading(text', quotes', trim', count', cstate', inquotes', elem', t', row', rn')
      /\ Placed(text', quotes', count', row', rn', rn0')
  OBVIOUS
<1>4. cres' # "ok" /\ cres' # "EILSEQ" /\ cres' # "E2BIG"
  OBVIOUS
<1>5. CsvRoom'
  BY DEF CsvInv, CsvRoom
<1> QED
  BY <1>2, <1>3, <1>4, <1>5, Zenon DEF CsvInv

CsvTurn == /\ cres = "running" /\ rn > 0 /\ bn > 0 /\ count < Len(text)
LEMMA CsvLoop ==
  ASSUME CsvInv, NEW s, CsvParser!Loop(s)
  PROVE  CsvTurn /\ cstate = s
BY DEF CsvParser!Loop, CsvParser!More, CsvTurn

(* What is known when a character is read. *)
LEMMA CsvTurnIs ==
  ASSUME CsvInv, CsvTurn
  PROVE  /\ CsvType /\ rn \in Nat \ {0} /\ bn - 1 \in Nat /\ count \in Nat /\ count < Len(text) /\ cres = "running"
         /\ CsvParser!ch = text[count + 1] /\ CsvParser!ch \in Kind
         /\ count + 1 \in 1 .. Len(text)
         /\ Taken(text, quotes, trim, count, row) /\ Unfinished(text, quotes, count, rn)
         /\ CsvParser!Outside(text, quotes, count + 1) <=> ~(inquotes /\ cstate = "collect")
         /\ CsvParser!Outside(text, quotes, count + 2)
              <=> IF quotes /\ CsvParser!ch = "q" THEN inquotes /\ cstate = "collect" ELSE ~(inquotes /\ cstate = "collect")
         /\ count + 1 \in CsvParser!Cut(text, quotes)
              <=> CsvParser!EndsField(CsvParser!ch) /\ ~(inquotes /\ cstate = "collect")
         /\ \E b \in 0 .. count : /\ LastCut(text, quotes, count, b) /\ Slice(text, b, count) \in Seq(Kind)
                                  /\ Collected(Slice(text, b, count), quotes, trim, cstate, inquotes, elem, t)
         /\ CsvRoom /\ Placed(text, quotes, count, row, rn, rn0)
<1>1. CsvType /\ RowReading(text, quotes, trim, count, cstate, inquotes, elem, t, row, rn) /\ cres = "running"
  BY DEF CsvInv, CsvTurn
<1>2. rn \in Nat \ {0} /\ bn - 1 \in Nat /\ count \in Nat /\ count < Len(text) /\ Len(text) \in Nat
  BY LenProperties DEF CsvInv, CsvTurn, CsvType
<1>3. count + 1 \in 1 .. Len(text) /\ (count + 1) + 1 = count + 2
  BY <1>2
<1>4. text \in Seq(Kind) /\ quotes \in BOOLEAN
  BY <1>1 DEF CsvType
<1>5. CsvParser!ch = text[count + 1] /\ CsvParser!ch \in Kind
  BY <1>3, <1>4, ElementOfSeq DEF CsvParser!ch
<1>6. Taken(text, quotes, trim, count, row) /\ Unfinished(text, quotes, count, rn)
      /\ (CsvParser!Outside(text, quotes, count + 1) <=> ~(inquotes /\ cstate = "collect"))
  BY <1>1 DEF RowReading
<1>7. CsvParser!Outside(text, quotes, count + 2)
              <=> IF quotes /\ CsvParser!ch = "q" THEN inquotes /\ cstate = "collect" ELSE ~(inquotes /\ cstate = "collect")
  <2>1. CsvParser!Outside(text, quotes, (count + 1) + 1)
          <=> IF quotes /\ text[count + 1] = "q" THEN ~CsvParser!Outside(text, quotes, count + 1)
              ELSE CsvParser!Outside(text, quotes, count + 1)
    BY <1>3, <1>4, OutsideIs
  <2> QED
    BY <1>3, <1>5, <1>6, <2>1
<1>8. count + 1 \in CsvParser!Cut(text, quotes)
              <=> CsvParser!EndsField(CsvParser!ch) /\ ~(inquotes /\ cstate = "collect")
  BY <1>3, <1>4, <1>5, <1>6, CutIs, CsvBytes
<1>9. PICK b \in 0 .. count : /\ LastCut(text, quotes, count, b)
                              /\ Collected(Slice(text, b, count), quotes, trim, cstate, inquotes, elem, t)
  BY <1>1 DEF RowReading
<1>10. Slice(text, b, count) \in Seq(Kind)
  <2>1. b \in Nat /\ b <= count
    BY <1>2
  <2> QED
    BY <1>2, <1>4, <2>1, PartNext
<1>11. CsvRoom /\ Placed(text, quotes, count, row, rn, rn0)
  BY DEF CsvInv, CsvTurn
<1> QED
  BY <1>1, <1>2, <1>3, <1>5, <1>6, <1>7, <1>8, <1>9, <1>10, <1>11

(* A character that ends no field. *)
LEMMA CsvReads ==
  ASSUME CsvInv, CsvTurn, NEW b \in 0 .. count, LastCut(text, quotes, count, b),
         ~(CsvParser!EndsField(CsvParser!ch) /\ ~(inquotes /\ cstate = "collect")),
         CsvParser!Read, row' = row, rn' = rn, bn' = bn \/ bn' = bn - 1, base' = base, Len(elem') + bn' <= Len(elem) + bn,
         cstate' # "idle", inquotes' \in BOOLEAN,
         elem' \in Seq(Kind), t' \in Nat, t' <= Len(elem'),
         Collected(Append(Slice(text, b, count), CsvParser!ch), quotes, trim, cstate', inquotes', elem', t'),
         (inquotes' /\ cstate' = "collect")
           <=> IF quotes /\ CsvParser!ch = "q" THEN ~(inquotes /\ cstate = "collect") ELSE inquotes /\ cstate = "collect"
  PROVE  CsvInv'
<1>1. /\ CsvType /\ rn \in Nat \ {0} /\ bn - 1 \in Nat /\ count \in Nat /\ count < Len(text) /\ cres = "running"
      /\ CsvParser!ch = text[count + 1]
      /\ Taken(text, quotes, trim, count, row) /\ Unfinished(text, quotes, count, rn)
  BY CsvTurnIs
<1>2. CsvParser!Outside(text, quotes, count + 2)
        <=> IF quotes /\ CsvParser!ch = "q" THEN inquotes /\ cstate = "collect" ELSE ~(inquotes /\ cstate = "collect")
  BY CsvTurnIs
<1>3. count + 1 \notin CsvParser!Cut(text, quotes)
  BY CsvTurnIs
<1>4. count' = count + 1 /\ text' = text /\ trim' = trim /\ quotes' = quotes /\ cres' = "running"
  BY <1>1 DEF CsvParser!Read
<1>5. text \in Seq(Kind) /\ quotes \in BOOLEAN /\ trim \in BOOLEAN /\ bn \in Nat
  BY <1>1 DEF CsvType
<1>6. CsvParser!Outside(text, quotes, count + 2) <=> ~(inquotes' /\ cstate' = "collect")
  BY <1>2
<1>7. ASSUME NEW st, NEW inq, NEW e, NEW k, st = cstate', inq = inquotes', e = elem', k = t'
      PROVE  RowReading(text, quotes, trim, count + 1, st, inq, e, k, row, rn)
  BY <1>1, <1>3, <1>5, <1>6, <1>7, ReadOn
<1>8. RowReading(text, quotes, trim, count + 1, cstate', inquotes', elem', t', row', rn')
  BY <1>7
<1>9. rn' \in Nat /\ bn' \in Nat
  BY <1>1, <1>5
<1>10. CsvRoom /\ Placed(text, quotes, count, row, rn, rn0)
  BY CsvTurnIs
<1>11. /\ rn0' = rn0 /\ bn0' = bn0 /\ base' \in Nat
       /\ base' + Len(elem') + bn' <= bn0 /\ bn0 <= bn' + (count + 1)
  <2>1. rn0' = rn0 /\ bn0' = bn0 /\ base' \in Nat
    BY <1>10 DEF CsvParser!Read, CsvRoom
  <2>2. Len(elem') \in Nat /\ Len(elem) \in Nat
    BY <1>1, LenProperties DEF CsvType
  <2>3. base \in Nat /\ bn0 \in Nat /\ base + Len(elem) + bn <= bn0 /\ bn0 <= bn + count
    BY <1>10 DEF CsvRoom
  <2>4. bn \in Nat /\ count \in Nat /\ bn' \in Nat /\ (bn' = bn \/ bn' = bn - 1) /\ base' = base
        /\ Len(elem') + bn' <= Len(elem) + bn
    BY <1>1, <1>5, <1>9
  <2>5. ASSUME NEW l \in Nat, NEW b1 \in Nat, l = Len(elem'), b1 = bn'
        PROVE  base + l + b1 <= bn0 /\ bn0 <= b1 + (count + 1)
    <3>1. l + b1 <= Len(elem) + bn /\ (b1 = bn \/ b1 = bn - 1)
      BY <2>4, <2>5
    <3> QED
      BY <2>2, <2>3, <2>4, <3>1
  <2> QED
    BY <2>1, <2>2, <2>4, <2>5, Zenon
<1>12. Placed(text, quotes, count + 1, row', rn', rn0)
  <2>1. CutTo(text, quotes, count + 1) = CutTo(text, quotes, count)
    BY <1>1, <1>3, <1>5, CutToNext
  <2>2. rn > 0 /\ \A k \in CutTo(text, quotes, count) : text[k] # "n"
    BY <1>1 DEF Unfinished
  <2> QED
    BY <1>10, <2>1, <2>2 DEF Placed
<1> QED
  BY <1>1, <1>4, <1>8, <1>9, <1>11, <1>12, CsvMoves

(* A character that ends one. *)
LEMMA CsvFinishes ==
  ASSUME CsvInv, CsvTurn, NEW b \in 0 .. count, LastCut(text, quotes, count, b),
         CsvParser!EndsField(CsvParser!ch), ~(inquotes /\ cstate = "collect"),
         NEW l \in 0 .. Len(elem), CsvParser!Finish(l), CsvParser!LegalField(Slice(text, b, count), quotes),
         CsvParser!Decoded(Slice(text, b, count), quotes, trim) = SubSeq(elem, 1, l)
  PROVE  CsvInv'
<1>1. /\ CsvType /\ rn \in Nat \ {0} /\ bn - 1 \in Nat /\ count \in Nat /\ count < Len(text) /\ cres = "running"
      /\ CsvParser!ch = text[count + 1]
      /\ Taken(text, quotes, trim, count, row) /\ Unfinished(text, quotes, count, rn)
  BY CsvTurnIs
<1>2. count + 1 \in CsvParser!Cut(text, quotes)
  BY CsvTurnIs
<1> DEFINE x == SubSeq(elem, 1, l)
<1>3. /\ row' = Append(row, x) /\ rn' = (IF text[count + 1] = "n" THEN 0 ELSE rn - 1)
      /\ bn' = bn - 1 /\ base' = base + l + 1 /\ rn0' = rn0 /\ bn0' = bn0
      /\ elem' = <<>> /\ t' = 0 /\ cstate' = "start" /\ inquotes' = FALSE
      /\ count' = count + 1 /\ text' = text /\ trim' = trim /\ quotes' = quotes /\ cres' = "running"
  BY <1>1, CsvBytes DEF CsvParser!Finish, CsvParser!Read
<1>4. text \in Seq(Kind) /\ quotes \in BOOLEAN /\ trim \in BOOLEAN /\ elem \in Seq(Kind)
  BY <1>1 DEF CsvType
<1>5. x \in Seq(Kind)
  BY <1>4, FirstElements
<1> HIDE DEF x
<1>6. RowReading(text, quotes, trim, count + 1, "start", FALSE, <<>>, 0, Append(row, x), IF text[count + 1] = "n" THEN 0 ELSE rn - 1)
  BY <1>1, <1>2, <1>4, <1>5, ReadCut DEF x
<1>7. RowReading(text, quotes, trim, count + 1, cstate', inquotes', elem', t', row', rn')
  BY <1>3, <1>6
<1>8. /\ rn' \in Nat /\ bn' \in Nat /\ t' \in Nat /\ inquotes' \in BOOLEAN /\ cstate' # "idle"
      /\ elem' \in Seq(Kind) /\ t' <= Len(elem')
  <2>1. rn' \in Nat /\ bn' \in Nat
    BY <1>1, <1>3
  <2>2. inquotes' \in BOOLEAN /\ cstate' # "idle"
    BY <1>3
  <2>3. elem' \in Seq(Kind) /\ Len(elem') = 0 /\ t' = 0
    BY <1>3, EmptySeq
  <2> QED
    BY <2>1, <2>2, <2>3
<1>9. CsvRoom /\ Placed(text, quotes, count, row, rn, rn0)
  BY CsvTurnIs
<1>10. base' \in Nat /\ base' + Len(elem') + bn' <= bn0 /\ bn0 <= bn' + (count + 1)
  <2>1. Len(elem) \in Nat /\ Len(elem') = 0
    BY <1>3, <1>4, LenProperties, EmptySeq
  <2>2. base \in Nat /\ bn0 \in Nat /\ base + Len(elem) + bn <= bn0 /\ bn0 <= bn + count
    BY <1>9 DEF CsvRoom
  <2>3. bn \in Nat /\ count \in Nat /\ bn' = bn - 1 /\ base' = base + l + 1 /\ l \in Nat /\ l <= Len(elem)
    BY <1>1, <1>3, <2>1 DEF CsvType
  <2> QED
    BY <2>1, <2>2, <2>3
<1>11. Placed(text, quotes, count + 1, row', rn', rn0)
  <2>1. CutTo(text, quotes, count + 1) = CutTo(text, quotes, count) \cup {count + 1}
    BY <1>1, <1>2, <1>4, CutToNext
  <2>2. \A k \in CutTo(text, quotes, count) : text[k] # "n"
    BY <1>1 DEF Unfinished
  <2>3. Len(row') = Len(row) + 1 /\ Len(row) \in Nat
    <3>1. row \in Seq(Seq(Kind))
      BY <1>1 DEF Taken
    <3> QED
      BY <1>3, <1>5, <3>1, AppendProperties, LenProperties
  <2>4. Len(row) + rn = rn0 /\ rn0 \in Nat
    BY <1>1, <1>9 DEF Placed, CsvRoom
  <2>5. rn \in Nat \ {0} /\ rn' = (IF text[count + 1] = "n" THEN 0 ELSE rn - 1)
    BY <1>1, <1>3
  <2>6. Len(row') <= rn0 /\ (rn' > 0 => Len(row') + rn' = rn0)
    BY <2>3, <2>4, <2>5
  <2>7. rn' = 0 => text[count + 1] = "n" \/ Len(row') = rn0
    BY <2>3, <2>4, <2>5
  <2> QED
    BY <1>2, <2>1, <2>2, <2>6, <2>7 DEF Placed
<1> QED
  BY <1>1, <1>3, <1>7, <1>8, <1>10, <1>11, CsvMoves

(* A character that cannot follow. *)
LEMMA CsvFails ==
  ASSUME CsvInv, CsvTurn, NEW b \in 0 .. count, LastCut(text, quotes, count, b),
         ~(CsvParser!EndsField(CsvParser!ch) /\ ~(inquotes /\ cstate = "collect")),
         CsvParser!Fail("EILSEQ"), cstate # "idle",
         \A f \in Seq(Kind) : /\ Len(Slice(text, b, count)) < Len(f)
                              /\ \A j \in 1 .. Len(Slice(text, b, count)) : f[j] = Slice(text, b, count)[j]
                              /\ f[Len(Slice(text, b, count)) + 1] = CsvParser!ch
                              => ~CsvParser!LegalField(f, quotes)
  PROVE  CsvInv'
<1>1. /\ CsvType /\ rn \in Nat \ {0} /\ count \in Nat /\ count < Len(text)
      /\ CsvParser!ch = text[count + 1] /\ Unfinished(text, quotes, count, rn)
  BY CsvTurnIs
<1>2. count + 1 \notin CsvParser!Cut(text, quotes)
  BY CsvTurnIs
<1>3. text \in Seq(Kind) /\ quotes \in BOOLEAN /\ count \in 0 .. Len(text) /\ Len(text) \in Nat
  BY <1>1, LenProperties DEF CsvType
<1>4. Refused(text, quotes)
  <2> SUFFICES ASSUME CsvParser!RowEnd(text, quotes) <= Len(text)
               PROVE  \E k \in CsvParser!FieldEnds(text, quotes) : ~CsvParser!LegalField(CsvParser!Field(text, quotes, k), quotes)
    BY DEF Refused
  <2>1. CsvParser!RowEnd(text, quotes) # Len(text) + 1
    BY <1>3
  <2>2. \A k \in CutTo(text, quotes, count) : text[k] # "n"
    BY <1>1 DEF Unfinished
  <2>3. PICK k \in CsvParser!FieldEnds(text, quotes) :
           /\ CsvParser!Field(text, quotes, k) \in Seq(Kind) /\ Len(Slice(text, b, count)) < Len(CsvParser!Field(text, quotes, k))
           /\ \A j \in 1 .. Len(Slice(text, b, count)) : CsvParser!Field(text, quotes, k)[j] = Slice(text, b, count)[j]
           /\ CsvParser!Field(text, quotes, k)[Len(Slice(text, b, count)) + 1] = text[count + 1]
    BY <1>1, <1>2, <1>3, <2>1, <2>2, FieldGoesOn
  <2> QED
    BY <1>1, <2>3
<1>5. /\ cres' = "EILSEQ" /\ text' = text /\ count' = count /\ trim' = trim /\ quotes' = quotes /\ cstate' = cstate
      /\ inquotes' = inquotes /\ elem' = elem /\ t' = t /\ row' = row /\ rn' = rn /\ bn' = bn
      /\ base' = base /\ rn0' = rn0 /\ bn0' = bn0
  BY DEF CsvParser!Fail
<1>6. CsvType' /\ CsvRoom'
  BY <1>1, <1>5 DEF CsvType, CsvInv, CsvRoom
<1>7. Refused(text', quotes')
  BY <1>4, <1>5
<1>8. cstate' # "idle" /\ cres' # "running" /\ cres' # "ok" /\ cres' # "E2BIG"
  BY <1>5
<1> QED
  BY <1>6, <1>7, <1>8, Zenon DEF CsvInv

LEMMA CsvPuts ==
  ASSUME CsvType, NEW c \in Kind, CsvParser!Put(c)
  PROVE  /\ elem' = Append(elem, c) /\ elem' \in Seq(Kind) /\ Len(elem') = Len(elem) + 1 /\ Len(elem) \in Nat
         /\ bn' = bn - 1 /\ Len(elem') + bn' <= Len(elem) + bn
BY AppendProperties, LenProperties DEF CsvType, CsvParser!Put

(* ST_START: a space before the element, or the quote that begins it. *)
LEMMA StartSpace ==
  ASSUME CsvInv, CsvTurn, cstate = "start", CsvParser!ch = "s",
         IF trim THEN UNCHANGED <<elem, t, bn>> ELSE CsvParser!Put(CsvParser!ch) /\ t' = Len(elem) + 1,
         CsvParser!Read, UNCHANGED <<cstate, inquotes, base, row, rn>>
  PROVE  CsvInv'
<1>1. CsvType /\ CsvParser!ch \in Kind
  BY CsvTurnIs
<1>2. PICK b \in 0 .. count : /\ LastCut(text, quotes, count, b) /\ Slice(text, b, count) \in Seq(Kind)
                              /\ Collected(Slice(text, b, count), quotes, trim, cstate, inquotes, elem, t)
  BY CsvTurnIs
<1> DEFINE p == Slice(text, b, count)
<1>3. Wide(p, trim, elem, t) /\ ~inquotes /\ p \in Seq(Kind) /\ trim \in BOOLEAN
  BY <1>1, <1>2 DEF Collected, CsvType
<1> HIDE DEF p
<1>4. /\ elem' \in Seq(Kind) /\ t' \in Nat /\ t' <= Len(elem') /\ (bn' = bn \/ bn' = bn - 1)
      /\ Len(elem') + bn' <= Len(elem) + bn
      /\ IF trim THEN elem' = elem /\ t' = t ELSE elem' = Append(elem, "s") /\ t' = Len(elem) + 1
  <2>0. Len(elem) \in Nat /\ bn \in Nat
    BY <1>1, LenProperties DEF CsvType
  <2>1. CASE trim
    BY <1>1, <2>0, <2>1 DEF CsvType
  <2>2. CASE ~trim
    <3>1. CsvParser!Put(CsvParser!ch) /\ t' = Len(elem) + 1
      BY <2>2
    <3>2. /\ elem' = Append(elem, "s") /\ elem' \in Seq(Kind) /\ Len(elem') = Len(elem) + 1 /\ Len(elem) \in Nat
          /\ bn' = bn - 1
      BY <1>1, <3>1, CsvPuts
    <3> QED
      BY <2>0, <2>2, <3>1, <3>2
  <2> QED
    BY <2>1, <2>2
<1>5. Wide(Append(p, "s"), trim, elem', t')
  <2>1. IF trim THEN Wide(Append(p, "s"), trim, elem, t) ELSE Wide(Append(p, "s"), trim, Append(elem, "s"), Len(elem) + 1)
    BY <1>3, WideSpace
  <2> QED
    BY <1>4, <2>1
<1>6. Collected(Append(p, CsvParser!ch), quotes, trim, cstate', inquotes', elem', t')
  BY <1>3, <1>5 DEF Collected
<1>7. ~CsvParser!EndsField(CsvParser!ch)
  BY CsvBytes
<1>8. row' = row /\ rn' = rn /\ base' = base /\ cstate' = "start" /\ inquotes' = inquotes /\ inquotes' \in BOOLEAN
  BY <1>1 DEF CsvType
<1> QED
  BY <1>2, <1>4, <1>6, <1>7, <1>8, CsvReads DEF p

LEMMA StartQuote ==
  ASSUME CsvInv, CsvTurn, cstate = "start", quotes, CsvParser!ch = "q",
         elem' = <<>>, t' = 0, cstate' = "collect", inquotes' = TRUE, CsvParser!Read, UNCHANGED <<base, row, rn, bn>>
  PROVE  CsvInv'
<1>1. CsvType
  BY CsvTurnIs
<1>2. PICK b \in 0 .. count : /\ LastCut(text, quotes, count, b) /\ Slice(text, b, count) \in Seq(Kind)
                              /\ Collected(Slice(text, b, count), quotes, trim, cstate, inquotes, elem, t)
  BY CsvTurnIs
<1> DEFINE p == Slice(text, b, count)
<1>3. Wide(p, trim, elem, t) /\ ~inquotes /\ p \in Seq(Kind) /\ trim \in BOOLEAN
  BY <1>1, <1>2 DEF Collected, CsvType
<1> HIDE DEF p
<1>4. Within(Append(p, "q"), quotes, elem')
  <2>1. Within(Append(p, "q"), TRUE, <<>>)
    BY <1>3, WideQuote
  <2> QED
    BY <2>1 DEF Within
<1>5. Collected(Append(p, CsvParser!ch), quotes, trim, cstate', inquotes', elem', t')
  BY <1>4 DEF Collected
<1>6. ~CsvParser!EndsField(CsvParser!ch)
  BY CsvBytes
<1>7. elem' \in Seq(Kind) /\ t' \in Nat /\ t' <= Len(elem') /\ cstate' # "idle" /\ inquotes' \in BOOLEAN
      /\ Len(elem') = 0
  BY EmptySeq
<1>8. row' = row /\ rn' = rn /\ bn' = bn /\ base' = base /\ Len(elem') + bn' <= Len(elem) + bn
  <2>1. Len(elem) \in Nat /\ bn \in Nat
    BY <1>1, LenProperties DEF CsvType
  <2> QED
    BY <1>7, <2>1
<1>9. (inquotes' /\ cstate' = "collect")
        <=> IF quotes /\ CsvParser!ch = "q" THEN ~(inquotes /\ cstate = "collect") ELSE inquotes /\ cstate = "collect"
  BY <1>3
<1> QED
  BY <1>2, <1>5, <1>6, <1>7, <1>8, <1>9, CsvReads DEF p

(* ST_COLLECT: a character of the element, *)
LEMMA CollectPut ==
  ASSUME CsvInv, CsvTurn, cstate = "start" \/ cstate = "collect",
         cstate = "start" => CsvParser!ch # "s" /\ ~(quotes /\ CsvParser!ch = "q"),
         IF inquotes THEN CsvParser!ch # CsvParser!Quote
         ELSE ~CsvParser!EndsField(CsvParser!ch) /\ ~(quotes /\ CsvParser!ch = CsvParser!Quote),
         CsvParser!Put(CsvParser!ch),
         t' = IF ~trim \/ ~CsvParser!isspace(CsvParser!ch) THEN Len(elem) + 1 ELSE t,
         cstate' = "collect", CsvParser!Read, UNCHANGED <<inquotes, base, row, rn>>
  PROVE  CsvInv'
<1>1. CsvType /\ CsvParser!ch \in Kind
  BY CsvTurnIs
<1>2. PICK b \in 0 .. count : /\ LastCut(text, quotes, count, b) /\ Slice(text, b, count) \in Seq(Kind)
                              /\ Collected(Slice(text, b, count), quotes, trim, cstate, inquotes, elem, t)
  BY CsvTurnIs
<1> DEFINE p == Slice(text, b, count)
           c == CsvParser!ch
<1>3. /\ elem' = Append(elem, c) /\ elem' \in Seq(Kind) /\ Len(elem') = Len(elem) + 1 /\ Len(elem) \in Nat
      /\ bn' = bn - 1 /\ Len(elem') + bn' <= Len(elem) + bn
  BY <1>1, CsvPuts
<1>4. elem \in Seq(Kind) /\ t \in Nat /\ t <= Len(elem) /\ quotes \in BOOLEAN /\ trim \in BOOLEAN /\ inquotes \in BOOLEAN
  BY <1>1 DEF CsvType
<1>5. t' \in Nat /\ t' <= Len(elem')
  BY <1>3, <1>4
<1>6. CsvParser!isspace(c) <=> c \in {"s", "n"}
  BY CsvBytes DEF CsvParser!isspace
<1>7. p \in Seq(Kind) /\ Collected(p, quotes, trim, cstate, inquotes, elem, t) /\ c \in Kind
  BY <1>1, <1>2
<1>8. IF inquotes THEN c # "q" ELSE c \notin {",", "n"} /\ ~(quotes /\ c = "q")
  BY CsvBytes
<1> HIDE DEF p, c
<1>9. Collected(Append(p, c), quotes, trim, "collect", inquotes, elem', t')
  <2>1. CASE inquotes
    <3>1. Within(p, quotes, elem)
      <4>1. cstate # "end_quote" /\ cstate # "tailspace"
        OBVIOUS
      <4> QED
        BY <1>7, <2>1, <4>1 DEF Collected
    <3>2. Within(Append(p, c), quotes, Append(elem, c))
      BY <1>4, <1>7, <1>8, <2>1, <3>1, WithinGrows
    <3> QED
      BY <1>3, <2>1, <3>2 DEF Collected
  <2>2. CASE ~inquotes
    <3>1. t' = IF ~trim \/ c # "s" THEN Len(elem) + 1 ELSE t
      BY <1>6, <1>8, <2>2 DEF c
    <3>2. Bare(Append(p, c), quotes, trim, Append(elem, c), t')
      <4>1. CASE cstate = "start"
        <5>1. Wide(p, trim, elem, t)
          BY <1>7, <4>1 DEF Collected
        <5>2. c # "s" /\ ~(quotes /\ c = "q")
          BY <4>1 DEF c
        <5>3. Bare(Append(p, c), quotes, trim, Append(elem, c), Len(elem) + 1)
          BY <1>4, <1>7, <5>1, <5>2, WideBegins
        <5> QED
          BY <3>1, <5>2, <5>3
      <4>2. CASE cstate = "collect"
        <5>1. Bare(p, quotes, trim, elem, t)
          BY <1>7, <2>2, <4>2 DEF Collected
        <5>2. Bare(Append(p, c), quotes, trim, Append(elem, c), IF ~trim \/ c # "s" THEN Len(elem) + 1 ELSE t)
          BY <1>4, <1>7, <1>8, <2>2, <5>1, BareGrows
        <5> QED
          BY <3>1, <5>2
      <4> QED
        BY <4>1, <4>2
    <3> QED
      BY <1>3, <2>2, <3>2 DEF Collected
  <2> QED
    BY <2>1, <2>2
<1>10. ~(CsvParser!EndsField(c) /\ ~(inquotes /\ cstate = "collect"))
  <2>1. inquotes => cstate = "collect"
    BY <1>7 DEF Collected
  <2> QED
    BY <1>8, <2>1, CsvBytes
<1>11. (inquotes /\ "collect" = "collect")
        <=> IF quotes /\ c = "q" THEN ~(inquotes /\ cstate = "collect") ELSE inquotes /\ cstate = "collect"
  <2>1. inquotes => cstate = "collect"
    BY <1>7 DEF Collected
  <2> QED
    BY <1>8, <2>1
<1>12. row' = row /\ rn' = rn /\ base' = base /\ inquotes' = inquotes /\ cstate' = "collect"
  OBVIOUS
<1> QED
  BY <1>2, <1>3, <1>4, <1>5, <1>9, <1>10, <1>11, <1>12, CsvReads DEF p, c

(* the quote that may be its last, *)
LEMMA CollectQuote ==
  ASSUME CsvInv, CsvTurn, cstate = "collect", inquotes, CsvParser!ch = CsvParser!Quote,
         cstate' = "end_quote", CsvParser!Read, UNCHANGED <<inquotes, base, elem, t, row, rn, bn>>
  PROVE  CsvInv'
<1>1. CsvType /\ CsvParser!ch \in Kind /\ CsvParser!ch = "q"
  BY CsvTurnIs, CsvBytes
<1>2. PICK b \in 0 .. count : /\ LastCut(text, quotes, count, b) /\ Slice(text, b, count) \in Seq(Kind)
                              /\ Collected(Slice(text, b, count), quotes, trim, cstate, inquotes, elem, t)
  BY CsvTurnIs
<1> DEFINE p == Slice(text, b, count)
<1>3. Within(p, quotes, elem) /\ p \in Seq(Kind) /\ quotes
  BY <1>2 DEF Collected, Within
<1>4. elem \in Seq(Kind) /\ t \in Nat /\ t <= Len(elem) /\ quotes \in BOOLEAN /\ inquotes \in BOOLEAN
  BY <1>1 DEF CsvType
<1> HIDE DEF p
<1>5. Closed(Append(p, "q"), quotes, elem, TRUE)
  BY <1>1, <1>3, <1>4, WithinGrows
<1>6. Collected(Append(p, CsvParser!ch), quotes, trim, "end_quote", inquotes, elem, t)
  BY <1>1, <1>5 DEF Collected
<1>7. ~CsvParser!EndsField(CsvParser!ch)
  BY <1>1, CsvBytes
<1>8. /\ row' = row /\ rn' = rn /\ inquotes' = inquotes /\ cstate' = "end_quote" /\ elem' = elem /\ t' = t /\ bn' = bn
      /\ base' = base /\ Len(elem') + bn' <= Len(elem) + bn
  <2>1. Len(elem) \in Nat /\ bn \in Nat
    BY <1>1, LenProperties DEF CsvType
  <2> QED
    BY <2>1
<1>9. (inquotes' /\ cstate' = "collect")
        <=> IF quotes /\ CsvParser!ch = "q" THEN ~(inquotes /\ cstate = "collect") ELSE inquotes /\ cstate = "collect"
  BY <1>1, <1>3, <1>8
<1> QED
  BY <1>2, <1>4, <1>6, <1>7, <1>8, <1>9, CsvReads DEF p

(* what ends it, *)
LEMMA CollectFinish ==
  ASSUME CsvInv, CsvTurn, cstate = "start" \/ cstate = "collect", ~inquotes,
         CsvParser!EndsField(CsvParser!ch), CsvParser!Finish(t)
  PROVE  CsvInv'
<1>1. CsvType
  BY CsvTurnIs
<1>2. PICK b \in 0 .. count : /\ LastCut(text, quotes, count, b) /\ Slice(text, b, count) \in Seq(Kind)
                              /\ Collected(Slice(text, b, count), quotes, trim, cstate, inquotes, elem, t)
  BY CsvTurnIs
<1> DEFINE p == Slice(text, b, count)
<1>3. (Wide(p, trim, elem, t) \/ Bare(p, quotes, trim, elem, t)) /\ p \in Seq(Kind)
  BY <1>2 DEF Collected
<1>4. quotes \in BOOLEAN /\ trim \in BOOLEAN /\ t \in 0 .. Len(elem)
  BY <1>1, LenProperties DEF CsvType
<1> HIDE DEF p
<1>5. CsvParser!LegalField(p, quotes) /\ CsvParser!Decoded(p, quotes, trim) = SubSeq(elem, 1, t)
  BY <1>3, <1>4, WideEnds, BareEnds
<1> QED
  BY <1>2, <1>4, <1>5, CsvFinishes DEF p

(* and a quote within it. *)
LEMMA CollectFail ==
  ASSUME CsvInv, CsvTurn, cstate = "collect", ~inquotes, quotes, CsvParser!ch = CsvParser!Quote, CsvParser!Fail("EILSEQ")
  PROVE  CsvInv'
<1>1. CsvType /\ CsvParser!ch = "q"
  BY CsvTurnIs, CsvBytes
<1>2. PICK b \in 0 .. count : /\ LastCut(text, quotes, count, b) /\ Slice(text, b, count) \in Seq(Kind)
                              /\ Collected(Slice(text, b, count), quotes, trim, cstate, inquotes, elem, t)
  BY CsvTurnIs
<1> DEFINE p == Slice(text, b, count)
<1>3. Bare(p, quotes, trim, elem, t) /\ p \in Seq(Kind) /\ trim \in BOOLEAN
  BY <1>1, <1>2 DEF Collected, CsvType
<1>4. quotes = TRUE
  BY <1>1 DEF CsvType
<1> HIDE DEF p
<1>5. ASSUME NEW f \in Seq(Kind), Len(p) < Len(f), \A j \in 1 .. Len(p) : f[j] = p[j], f[Len(p) + 1] = CsvParser!ch
      PROVE  ~CsvParser!LegalField(f, quotes)
  BY <1>1, <1>3, <1>4, <1>5, BareBreaks
<1>6. ~CsvParser!EndsField(CsvParser!ch)
  BY <1>1, CsvBytes
<1> QED
  BY <1>2, <1>5, <1>6, CsvFails DEF p

LEMMA CollectKeeps ==
  ASSUME CsvInv, CsvTurn, cstate = "start" \/ cstate = "collect",
         cstate = "start" => CsvParser!ch # "s" /\ ~(quotes /\ CsvParser!ch = "q"), CsvParser!Collect
  PROVE  CsvInv'
<1>1. cstate = "start" => ~inquotes
  <2>1. PICK b \in 0 .. count : Collected(Slice(text, b, count), quotes, trim, cstate, inquotes, elem, t)
    BY CsvTurnIs
  <2> QED
    BY <2>1 DEF Collected
<1>2. CASE /\ inquotes /\ CsvParser!ch = CsvParser!Quote
           /\ cstate' = "end_quote" /\ CsvParser!Read /\ UNCHANGED <<inquotes, base, elem, t, row, rn, bn>>
  BY <1>1, <1>2, CollectQuote
<1>3. CASE ~inquotes /\ CsvParser!EndsField(CsvParser!ch) /\ CsvParser!Finish(t)
  BY <1>3, CollectFinish
<1>4. CASE ~inquotes /\ quotes /\ CsvParser!ch = CsvParser!Quote /\ CsvParser!Fail("EILSEQ")
  <2>1. cstate = "collect"
    BY <1>4, CsvBytes
  <2> QED
    BY <1>4, <2>1, CollectFail
<1>5. CASE /\ IF inquotes THEN CsvParser!ch # CsvParser!Quote
              ELSE ~CsvParser!EndsField(CsvParser!ch) /\ ~(quotes /\ CsvParser!ch = CsvParser!Quote)
           /\ CsvParser!Put(CsvParser!ch)
           /\ t' = IF ~trim \/ ~CsvParser!isspace(CsvParser!ch) THEN Len(elem) + 1 ELSE t
           /\ cstate' = "collect" /\ CsvParser!Read /\ UNCHANGED <<inquotes, base, row, rn>>
  BY <1>5, CollectPut
<1> QED
  BY <1>2, <1>3, <1>4, <1>5, Zenon DEF CsvParser!Collect

LEMMA StartElemKeeps == ASSUME CsvInv, CsvParser!StartElem PROVE CsvInv'
<1>1. CsvTurn /\ cstate = "start"
  BY CsvLoop DEF CsvParser!StartElem
<1>2. CASE /\ CsvParser!ch = CsvParser!Space
           /\ IF trim THEN UNCHANGED <<elem, t, bn>> ELSE CsvParser!Put(CsvParser!ch) /\ t' = Len(elem) + 1
           /\ CsvParser!Read /\ UNCHANGED <<cstate, inquotes, base, row, rn>>
  <2>1. CsvParser!ch = "s"
    BY <1>2, CsvBytes
  <2> QED
    BY <1>1, <1>2, <2>1, StartSpace
<1>3. CASE /\ quotes /\ CsvParser!ch = CsvParser!Quote
           /\ elem' = <<>> /\ t' = 0 /\ cstate' = "collect" /\ inquotes' = TRUE
           /\ CsvParser!Read /\ UNCHANGED <<base, row, rn, bn>>
  <2>1. CsvParser!ch = "q"
    BY <1>3, CsvBytes
  <2> QED
    BY <1>1, <1>3, <2>1, StartQuote
<1>4. CASE CsvParser!ch # CsvParser!Space /\ ~(quotes /\ CsvParser!ch = CsvParser!Quote) /\ CsvParser!Collect
  <2>1. CsvParser!ch # "s" /\ ~(quotes /\ CsvParser!ch = "q")
    BY <1>4, CsvBytes
  <2> QED
    BY <1>1, <1>4, <2>1, CollectKeeps
<1> QED
  BY <1>2, <1>3, <1>4, Zenon DEF CsvParser!StartElem

LEMMA CollectElemKeeps == ASSUME CsvInv, CsvParser!CollectElem PROVE CsvInv'
<1>1. CsvTurn /\ cstate = "collect" /\ CsvParser!Collect
  BY CsvLoop DEF CsvParser!CollectElem
<1>2. cstate # "start"
  BY <1>1
<1> QED
  BY <1>1, <1>2, CollectKeeps

(* ST_END_QUOTE and ST_TAILSPACE. *)
LEMMA EndQuoteKeeps == ASSUME CsvInv, CsvParser!EndQuote PROVE CsvInv'
<1>1. CsvTurn /\ cstate \in {"end_quote", "tailspace"}
  BY CsvLoop DEF CsvParser!EndQuote
<1>2. CsvType /\ CsvParser!ch \in Kind
  BY <1>1, CsvTurnIs
<1>3. PICK b \in 0 .. count : /\ LastCut(text, quotes, count, b) /\ Slice(text, b, count) \in Seq(Kind)
                              /\ Collected(Slice(text, b, count), quotes, trim, cstate, inquotes, elem, t)
  BY <1>1, CsvTurnIs
<1> DEFINE p == Slice(text, b, count)
           c == CsvParser!ch
<1>4. p \in Seq(Kind) /\ inquotes /\ Closed(p, quotes, elem, cstate = "end_quote")
  BY <1>1, <1>3 DEF Collected
<1>5. elem \in Seq(Kind) /\ t \in Nat /\ t <= Len(elem) /\ Len(elem) \in Nat
      /\ quotes \in BOOLEAN /\ trim \in BOOLEAN /\ inquotes \in BOOLEAN
  BY <1>2, LenProperties DEF CsvType
<1>6. quotes = TRUE /\ cstate # "collect" /\ (cstate = "end_quote") \in BOOLEAN
  BY <1>1, <1>4, <1>5 DEF Closed
<1>7. CASE CsvParser!EndsField(c) /\ CsvParser!Finish(Len(elem))
  <2> HIDE DEF p
  <2>1. CsvParser!LegalField(p, quotes) /\ CsvParser!Decoded(p, quotes, trim) = SubSeq(elem, 1, Len(elem))
    BY <1>4, <1>5, <1>6, ClosedEnds
  <2>2. Len(elem) \in 0 .. Len(elem)
    BY <1>5
  <2> QED
    BY <1>1, <1>3, <1>6, <1>7, <2>1, <2>2, CsvFinishes DEF p
<1>8. CASE /\ CsvParser!Unescape
           /\ CsvParser!Put(CsvParser!Quote) /\ t' = Len(elem) + 1 /\ cstate' = "collect"
           /\ CsvParser!Read /\ UNCHANGED <<inquotes, base, row, rn>>
  <2>1. c = "q" /\ cstate = "end_quote" /\ CsvParser!Put("q") /\ "q" \in Kind
    BY <1>1, <1>2, <1>8, CsvBytes DEF CsvParser!Unescape
  <2>2. /\ elem' = Append(elem, "q") /\ elem' \in Seq(Kind) /\ Len(elem') = Len(elem) + 1 /\ bn' = bn - 1
        /\ Len(elem') + bn' <= Len(elem) + bn
    BY <1>2, <2>1, CsvPuts
  <2> HIDE DEF p, c
  <2>3. Within(Append(p, "q"), quotes, elem')
    BY <1>4, <1>5, <1>6, <2>1, <2>2, ClosedGrows
  <2>4. Collected(Append(p, c), quotes, trim, "collect", inquotes, elem', t')
    BY <1>4, <2>1, <2>3 DEF Collected
  <2>5. ~CsvParser!EndsField(c)
    BY <2>1, CsvBytes
  <2>6. /\ row' = row /\ rn' = rn /\ base' = base /\ inquotes' = inquotes /\ cstate' = "collect" /\ CsvParser!Read
        /\ t' \in Nat /\ t' <= Len(elem')
    BY <1>5, <1>8, <2>2
  <2>7. (inquotes' /\ cstate' = "collect")
          <=> IF quotes /\ c = "q" THEN ~(inquotes /\ cstate = "collect") ELSE inquotes /\ cstate = "collect"
    BY <1>4, <1>6, <2>1, <2>6
  <2> QED
    BY <1>1, <1>3, <1>5, <2>2, <2>4, <2>5, <2>6, <2>7, CsvReads DEF p, c
<1>9. CASE /\ c = CsvParser!Space
           /\ cstate' = "tailspace" /\ CsvParser!Read /\ UNCHANGED <<inquotes, base, elem, t, row, rn, bn>>
  <2>1. c = "s"
    BY <1>9, CsvBytes
  <2> HIDE DEF p, c
  <2>2. Closed(Append(p, "s"), quotes, elem, FALSE)
    BY <1>4, <1>5, <1>6, ClosedGrows
  <2>3. Collected(Append(p, c), quotes, trim, "tailspace", inquotes, elem, t)
    BY <1>4, <2>1, <2>2 DEF Collected
  <2>4. ~CsvParser!EndsField(c)
    BY <2>1, CsvBytes
  <2>5. /\ row' = row /\ rn' = rn /\ inquotes' = inquotes /\ cstate' = "tailspace" /\ CsvParser!Read
        /\ elem' = elem /\ t' = t /\ bn' = bn /\ base' = base /\ Len(elem') + bn' <= Len(elem) + bn
    <3>1. bn \in Nat
      BY <1>2 DEF CsvType
    <3> QED
      BY <1>5, <1>9, <3>1
  <2>6. (inquotes' /\ cstate' = "collect")
          <=> IF quotes /\ c = "q" THEN ~(inquotes /\ cstate = "collect") ELSE inquotes /\ cstate = "collect"
    BY <1>6, <2>1, <2>5
  <2> QED
    BY <1>1, <1>3, <1>5, <2>3, <2>4, <2>5, <2>6, CsvReads DEF p, c
<1>10. CASE ~CsvParser!EndsField(c) /\ ~CsvParser!Unescape /\ c # CsvParser!Space /\ CsvParser!Fail("EILSEQ")
  <2>1. c # "s" /\ ~(cstate = "end_quote" /\ c = "q")
    BY <1>1, <1>6, <1>10, CsvBytes DEF CsvParser!Unescape
  <2> HIDE DEF p
  <2>2. ASSUME NEW f \in Seq(Kind), Len(p) < Len(f), \A j \in 1 .. Len(p) : f[j] = p[j], f[Len(p) + 1] = c
        PROVE  ~CsvParser!LegalField(f, quotes)
    <3> HIDE DEF c
    <3> QED
      BY <1>4, <1>5, <1>6, <2>1, <2>2, ClosedBreaks
  <2>3. cstate # "idle"
    BY <1>1
  <2> QED
    BY <1>1, <1>3, <1>10, <2>2, <2>3, CsvFails DEF p
<1> QED
  BY <1>7, <1>8, <1>9, <1>10, Zenon DEF CsvParser!EndQuote

(* What RowSplit says, and why it holds at the end of the text and where a *)
(* newline, or the last place of row[], was met.                           *)
Split(z, q, tr, n, rw, r0) ==
  LET ends == {k \in CsvParser!FieldEnds(z, q) : k <= n}
      fields == CsvParser!Cardinality(ends)
  IN /\ \/ n = IF CsvParser!RowEnd(z, q) <= Len(z) THEN CsvParser!RowEnd(z, q) ELSE Len(z)
        \/ fields = r0 /\ n \in ends \cup {0}
     /\ Len(rw) = IF fields < r0 /\ ~(CsvParser!RowEnd(z, q) <= Len(z)) THEN fields + 1 ELSE fields
     /\ Len(rw) <= r0
     /\ \A k \in ends :
          /\ CsvParser!LegalField(CsvParser!Field(z, q, k), q)
          /\ rw[CsvParser!Place(z, q, k)] = CsvParser!Decoded(CsvParser!Field(z, q, k), q, tr)

LEMMA EndsRead ==
  ASSUME NEW z \in Seq(Kind), NEW q \in BOOLEAN, NEW n \in 0 .. Len(z),
         \A k \in CutTo(z, q, n) : z[k] = "n" => k = n
  PROVE  {k \in CsvParser!FieldEnds(z, q) : k <= n} = CutTo(z, q, n)
<1> DEFINE C == CsvParser!Cut(z, q)
           R == CsvParser!RowEnd(z, q)
<1>1. Len(z) \in Nat /\ C \in SUBSET (1 .. Len(z)) /\ C \in SUBSET Nat
  BY Zenon, CutIs
<1>2. /\ R \in 1 .. Len(z) + 1 /\ (R # Len(z) + 1 => R \in C /\ z[R] = "n")
  BY Zenon, RowEndIs
<1>3. CsvParser!FieldEnds(z, q) = {k \in C : k < R} \cup {R}
  BY DEF CsvParser!FieldEnds
<1>4. CutTo(z, q, n) = {k \in C : k <= n}
  BY DEF CutTo
<1> HIDE DEF C, R
<1>5. R <= n => R \in C /\ R = n
  <2>1. ASSUME R <= n PROVE R \in C /\ R = n
    <3>1. R \in C /\ z[R] = "n"
      BY <1>1, <1>2, <2>1
    <3>2. R \in CutTo(z, q, n)
      BY <1>4, <2>1, <3>1
    <3> QED
      BY <3>1, <3>2
  <2> QED
    BY <2>1
<1>6. ASSUME NEW k PROVE k \in {i \in {j \in C : j < R} \cup {R} : i <= n} <=> k \in {i \in C : i <= n}
  <2>1. CASE k = R
    BY <1>5, <2>1
  <2>2. CASE k # R
    <3>1. k \in C /\ k <= n => k < R
      BY <1>1, <1>2, <1>5, <2>2
    <3> QED
      BY <2>2, <3>1
  <2> QED
    BY <2>1, <2>2
<1> QED
  BY <1>3, <1>4, <1>6, Zenon

LEMMA SplitShort ==
  ASSUME NEW z \in Seq(Kind), NEW q \in BOOLEAN, NEW tr \in BOOLEAN, NEW n \in 0 .. Len(z), n = Len(z),
         NEW rw, Taken(z, q, tr, n, rw), NEW r \in Nat, r > 0, Unfinished(z, q, n, r),
         NEW r0 \in Nat, Len(rw) + r = r0, NEW x \in Seq(Kind)
  PROVE  Split(z, q, tr, n, Append(rw, x), r0)
<1> DEFINE A == CutTo(z, q, n)
           R == CsvParser!RowEnd(z, q)
           w == Append(rw, x)
<1>1. \A k \in A : z[k] # "n"
  BY DEF Unfinished
<1>2. {k \in CsvParser!FieldEnds(z, q) : k <= n} = A
  BY <1>1, EndsRead
<1>3. Len(z) \in Nat /\ ~(R <= Len(z))
  <2>1. Len(z) \in Nat /\ CsvParser!Cut(z, q) \in SUBSET (1 .. Len(z))
    BY CutIs
  <2>2. R # Len(z) + 1 => R \in CsvParser!Cut(z, q) /\ z[R] = "n"
    BY RowEndIs
  <2> HIDE DEF R
  <2>3. ASSUME R <= Len(z) PROVE FALSE
    <3>1. R \in CsvParser!Cut(z, q) /\ z[R] = "n"
      BY <2>1, <2>2, <2>3
    <3>2. R \in A
      BY <2>3, <3>1 DEF CutTo
    <3> QED
      BY <1>1, <3>1, <3>2
  <2> QED
    BY <2>1, <2>3
<1>4. /\ rw \in Seq(Seq(Kind)) /\ Len(rw) = Cardinality(A) /\ Len(rw) \in Nat
      /\ \A k \in A : /\ CsvParser!LegalField(CsvParser!Field(z, q, k), q)
                       /\ rw[CsvParser!Place(z, q, k)] = CsvParser!Decoded(CsvParser!Field(z, q, k), q, tr)
  BY LenProperties DEF Taken
<1>5. Len(w) = Len(rw) + 1 /\ \A i \in 1 .. Len(rw) : w[i] = rw[i]
  BY <1>4, AppendProperties
<1>6. \A k \in A : CsvParser!Place(z, q, k) \in 1 .. Len(rw)
  BY <1>4, PlaceIs
<1>7. CsvParser!Cardinality(A) = Len(rw)
  BY <1>4, CsvCounts
<1> HIDE DEF A, R, w
<1>8. \A k \in A : /\ CsvParser!LegalField(CsvParser!Field(z, q, k), q)
                   /\ w[CsvParser!Place(z, q, k)] = CsvParser!Decoded(CsvParser!Field(z, q, k), q, tr)
  BY <1>4, <1>5, <1>6
<1>9. Len(rw) < r0 /\ Len(w) <= r0
  BY <1>4, <1>5
<1> QED
  BY <1>2, <1>3, <1>5, <1>7, <1>8, <1>9 DEF Split, A, R, w

LEMMA SplitFull ==
  ASSUME NEW z \in Seq(Kind), NEW q \in BOOLEAN, NEW tr \in BOOLEAN, NEW n \in 0 .. Len(z),
         NEW rw, Taken(z, q, tr, n, rw), NEW r, r = 0, NEW r0 \in Nat, Placed(z, q, n, rw, r, r0)
  PROVE  Split(z, q, tr, n, rw, r0)
<1> DEFINE A == CutTo(z, q, n)
           R == CsvParser!RowEnd(z, q)
<1>1. \A k \in A : z[k] = "n" => k = n
  BY DEF Placed
<1>2. {k \in CsvParser!FieldEnds(z, q) : k <= n} = A
  BY <1>1, EndsRead
<1>3. /\ rw \in Seq(Seq(Kind)) /\ Len(rw) = Cardinality(A) /\ Len(rw) \in Nat
      /\ \A k \in A : /\ CsvParser!LegalField(CsvParser!Field(z, q, k), q)
                       /\ rw[CsvParser!Place(z, q, k)] = CsvParser!Decoded(CsvParser!Field(z, q, k), q, tr)
  BY LenProperties DEF Taken
<1>4. CsvParser!Cardinality(A) = Len(rw)
  BY <1>3, CsvCounts
<1>5. Len(rw) <= r0
  BY DEF Placed
<1>6. \/ n = R /\ R <= Len(z)
      \/ Len(rw) = r0 /\ n \in A \cup {0}
  <2>1. Len(z) \in Nat /\ CsvParser!Cut(z, q) \in SUBSET (1 .. Len(z)) /\ n \in Nat
    <3>1. Len(z) \in Nat /\ CsvParser!Cut(z, q) \in SUBSET (1 .. Len(z))
      BY CutIs
    <3> QED
      BY <3>1
  <2>2. CASE n = 0 /\ r0 = 0
    BY <1>3, <1>5, <2>2
  <2>3. CASE n \in CsvParser!Cut(z, q)
    <3>1. n \in A
      BY <2>1, <2>3 DEF CutTo
    <3>2. CASE z[n] = "n"
      <4>1. R <= n /\ R \in 1 .. Len(z) + 1 /\ (R # Len(z) + 1 => R \in CsvParser!Cut(z, q) /\ z[R] = "n")
        BY <2>3, <3>2, RowEndIs
      <4> HIDE DEF R
      <4>2. R \in A /\ z[R] = "n"
        BY <2>1, <4>1 DEF CutTo
      <4> HIDE DEF A
      <4> QED
        BY <1>1, <2>1, <4>1, <4>2
    <3> QED
      BY <2>3, <3>1, <3>2 DEF Placed
  <2> QED
    BY <2>2, <2>3 DEF Placed
<1>7. Len(rw) = IF Len(rw) < r0 /\ ~(R <= Len(z)) THEN Len(rw) + 1 ELSE Len(rw)
  <2>1. (R <= Len(z)) \in BOOLEAN
    OBVIOUS
  <2> HIDE DEF R, A
  <2> QED
    BY <1>3, <1>6
<1> HIDE DEF A, R
<1> QED
  BY <1>2, <1>3, <1>4, <1>5, <1>6, <1>7 DEF Split, A, R

LEMMA StopKeeps == ASSUME CsvInv, CsvParser!Stop PROVE CsvInv'
<1>1. /\ cstate # "idle" /\ cres = "running" /\ ~CsvParser!More
      /\ cres' = IF bn = 0 THEN "E2BIG"
                 ELSE IF rn > 0 /\ inquotes /\ cstate # "end_quote" THEN "EILSEQ" ELSE "ok"
      /\ row' = IF cres' = "ok" /\ rn > 0 THEN Append(row, SubSeq(elem, 1, t)) ELSE row
  BY DEF CsvParser!Stop
<1>2. /\ text' = text /\ count' = count /\ trim' = trim /\ quotes' = quotes /\ cstate' = cstate
      /\ inquotes' = inquotes /\ elem' = elem /\ t' = t /\ rn' = rn /\ bn' = bn
      /\ base' = base /\ rn0' = rn0 /\ bn0' = bn0
  BY DEF CsvParser!Stop
<1>3. /\ CsvType /\ RowReading(text, quotes, trim, count, cstate, inquotes, elem, t, row, rn)
      /\ CsvRoom /\ Placed(text, quotes, count, row, rn, rn0)
  BY <1>1 DEF CsvInv
<1>4. CsvType' /\ CsvRoom'
  BY <1>2, <1>3 DEF CsvType, CsvRoom
<1>5. cres' # "running" /\ cstate' # "idle"
  BY <1>1, <1>2
<1>6. cres' = "ok" => CsvParser!RowSplit'
  <2> SUFFICES ASSUME cres' = "ok" PROVE Split(text, quotes, trim, count, row', rn0)
    BY <1>2, Zenon DEF CsvParser!RowSplit, CsvParser!WholeRow, Split
  <2>1. bn # 0 /\ row' = IF rn > 0 THEN Append(row, SubSeq(elem, 1, t)) ELSE row
    BY <1>1
  <2>2. /\ text \in Seq(Kind) /\ quotes \in BOOLEAN /\ trim \in BOOLEAN /\ rn \in Nat /\ bn \in Nat /\ count \in 0 .. Len(text)
        /\ Len(text) \in Nat /\ rn0 \in Nat
    BY <1>3, LenProperties DEF CsvType, CsvRoom
  <2>3. Taken(text, quotes, trim, count, row) /\ Unfinished(text, quotes, count, rn)
    BY <1>3 DEF RowReading
  <2>4. CASE rn > 0
    <3>1. count = Len(text)
      BY <1>1, <2>1, <2>2, <2>4 DEF CsvParser!More
    <3>2. SubSeq(elem, 1, t) \in Seq(Kind)
      BY <1>3, FirstElements DEF CsvType
    <3>3. Len(row) + rn = rn0
      BY <1>3, <2>4 DEF Placed
    <3> DEFINE x == SubSeq(elem, 1, t)
    <3>4. row' = Append(row, x) /\ x \in Seq(Kind)
      BY <2>1, <2>4, <3>2
    <3> HIDE DEF x
    <3>5. Split(text, quotes, trim, count, Append(row, x), rn0)
      BY <1>3, <2>2, <2>3, <2>4, <3>1, <3>3, <3>4, SplitShort
    <3> QED
      BY <3>4, <3>5
  <2>5. CASE rn = 0
    <3>1. row' = row
      BY <2>1, <2>5
    <3> QED
      BY <1>3, <2>2, <2>3, <2>5, <3>1, SplitFull
  <2> QED
    BY <2>2, <2>4, <2>5
<1>7. cres' = "EILSEQ" => Refused(text', quotes')
  <2> SUFFICES ASSUME cres' = "EILSEQ", CsvParser!RowEnd(text, quotes) <= Len(text) PROVE FALSE
    BY <1>2 DEF Refused
  <2>1. rn > 0 /\ bn # 0
    BY <1>1
  <2>2. /\ text \in Seq(Kind) /\ quotes \in BOOLEAN /\ rn \in Nat /\ bn \in Nat /\ count \in 0 .. Len(text)
        /\ Len(text) \in Nat
    BY <1>3, LenProperties DEF CsvType
  <2>3. count = Len(text)
    BY <1>1, <2>1, <2>2 DEF CsvParser!More
  <2> DEFINE R == CsvParser!RowEnd(text, quotes)
  <2>4. R # Len(text) + 1
    BY <2>2
  <2>5. R \in CsvParser!Cut(text, quotes) /\ text[R] = "n"
    BY <2>2, <2>4, RowEndIs
  <2>6. R \in CutTo(text, quotes, count)
    BY <2>3, <2>5 DEF CutTo
  <2> QED
    BY <1>3, <2>1, <2>5, <2>6 DEF RowReading, Unfinished
<1>8. cres' = "E2BIG" => bn0' <= count'
  <2> SUFFICES ASSUME bn = 0 PROVE bn0 <= count
    BY <1>1, <1>2
  <2> QED
    BY <1>3 DEF CsvRoom, CsvType
<1> QED
  BY <1>4, <1>5, <1>6, <1>7, <1>8, Zenon DEF CsvInv

LEMMA CsvUnread == CsvFresh => CsvInv
<1> SUFFICES ASSUME CsvFresh PROVE CsvInv
  OBVIOUS
<1>1. <<>> \in Seq(Kind) /\ Len(<<>>) = 0
  BY EmptySeq
<1>2. CsvType
  <2>1. text \in Seq(Kind) /\ elem \in Seq(Kind) /\ Len(text) = 0 /\ Len(elem) = 0
    BY <1>1 DEF CsvFresh
  <2>2. count \in 0 .. Len(text) /\ t \in Nat /\ t <= Len(elem) /\ rn \in Nat /\ bn \in Nat
    BY <2>1 DEF CsvFresh
  <2>3. trim \in BOOLEAN /\ quotes \in BOOLEAN /\ inquotes \in BOOLEAN
    BY DEF CsvFresh
  <2> QED
    BY <2>1, <2>2, <2>3 DEF CsvType
<1>3. cres # "running" /\ cres # "ok" /\ cres # "EILSEQ" /\ cres # "E2BIG"
  BY DEF CsvFresh
<1>4. CsvRoom
  BY <1>1 DEF CsvFresh, CsvRoom
<1> QED
  BY <1>2, <1>3, <1>4, Zenon DEF CsvInv

LEMMA CsvInit == ASSUME CsvParser!Init PROVE CsvInv
BY CsvUnread DEF CsvParser!Init, CsvFresh

LEMMA CsvDoneKeeps == ASSUME CsvParser!Done PROVE CsvInv'
<1>1. CsvFresh'
  BY DEF CsvParser!Done, CsvFresh
<1> QED
  BY <1>1, CsvUnread, PTL

LEMMA NothingPlaced ==
  ASSUME NEW z \in Seq(Kind), NEW q \in BOOLEAN, NEW r \in Nat
  PROVE  Placed(z, q, 0, <<>>, r, r)
<1>1. CutTo(z, q, 0) = {}
  <2>1. CsvParser!Cut(z, q) \in SUBSET (1 .. Len(z)) /\ Len(z) \in Nat
    BY CutIs
  <2>2. \A k \in CsvParser!Cut(z, q) : ~(k <= 0)
    BY <2>1
  <2> QED
    BY <2>2 DEF CutTo
<1>2. Len(<<>>) = 0
  BY EmptySeq
<1> QED
  BY <1>1, <1>2 DEF Placed

LEMMA CsvCallKeeps == ASSUME CsvInv, CsvParser!Call PROVE CsvInv'
<1>1. /\ cstate = "idle" /\ text' \in CsvParser!SeqOf(Kind, LineLen)
      /\ trim' \in BOOLEAN /\ quotes' \in BOOLEAN /\ rn' \in Columns /\ bn' \in BufSize
      /\ rn0' = rn' /\ bn0' = bn' /\ cstate' = "start" /\ cres' = "running"
      /\ count' = count /\ inquotes' = inquotes /\ base' = base /\ elem' = elem /\ t' = t /\ row' = row
  <2>1. {CsvParser!Comma, CsvParser!Quote, CsvParser!Space, CsvParser!Newline, CsvParser!Plain} = Kind
    BY CsvBytes DEF Kind
  <2> QED
    BY <2>1 DEF CsvParser!Call
<1>2. count' = 0 /\ inquotes' = FALSE /\ base' = 0 /\ elem' = <<>> /\ t' = 0 /\ row' = <<>>
  BY <1>1 DEF CsvInv, CsvFresh
<1>3. text' \in Seq(Kind)
  <2>1. PICK m \in 0 .. LineLen : text' \in [1 .. m -> Kind]
    BY <1>1 DEF CsvParser!SeqOf
  <2>2. m \in Nat
    BY CsvAssumption
  <2> QED
    BY <2>1, <2>2
<1>4. CsvType'
  <2>1. rn' \in Nat /\ bn' \in Nat
    BY <1>1, CsvAssumption
  <2>2. elem' \in Seq(Kind) /\ Len(elem') = 0 /\ t' \in Nat /\ t' <= Len(elem')
    BY <1>2, EmptySeq
  <2>3. count' \in 0 .. Len(text')
    <3>1. Len(text') \in Nat
      BY <1>3, LenProperties
    <3> QED
      BY <1>2, <3>1
  <2>4. inquotes' \in BOOLEAN
    BY <1>2
  <2> QED
    BY <1>1, <1>3, <2>1, <2>2, <2>3, <2>4 DEF CsvType
<1>5. RowReading(text', quotes', trim', 0, "start", FALSE, <<>>, 0, <<>>, rn')
  BY <1>1, <1>3, ReadNothing
<1>6. RowReading(text', quotes', trim', count', cstate', inquotes', elem', t', row', rn')
  BY <1>1, <1>2, <1>5
<1>7. cres' # "ok" /\ cres' # "EILSEQ" /\ cres' # "E2BIG" /\ cstate' # "idle"
  BY <1>1
<1>8. CsvRoom'
  <2>1. rn' \in Nat /\ bn' \in Nat /\ Len(elem') = 0
    BY <1>1, <1>2, CsvAssumption, EmptySeq
  <2>2. rn0' = rn' /\ bn0' = bn' /\ base' = 0 /\ count' = 0
    BY <1>1, <1>2
  <2>3. \A b1 \in Nat : 0 + 0 + b1 <= b1 /\ b1 <= b1 + 0
    OBVIOUS
  <2>4. 0 \in Nat
    OBVIOUS
  <2> QED
    BY <2>1, <2>2, <2>3, <2>4, Zenon DEF CsvRoom
<1>9. Placed(text', quotes', count', row', rn', rn0')
  <2>1. Placed(text', quotes', 0, <<>>, rn', rn')
    BY <1>1, <1>3, CsvAssumption, NothingPlaced
  <2> QED
    BY <1>1, <1>2, <2>1
<1> QED
  BY <1>4, <1>6, <1>7, <1>8, <1>9, Zenon DEF CsvInv

LEMMA CsvSame == ASSUME CsvInv, UNCHANGED CsvParser!csvVars PROVE CsvInv'
<1>1. /\ text' = text /\ count' = count /\ trim' = trim /\ quotes' = quotes /\ cstate' = cstate
      /\ inquotes' = inquotes /\ elem' = elem /\ t' = t /\ row' = row /\ rn' = rn /\ bn' = bn /\ cres' = cres
      /\ base' = base /\ rn0' = rn0 /\ bn0' = bn0
  BY DEF CsvParser!csvVars
<1>2. CsvType' /\ CsvRoom' /\ (cstate' = "idle" => CsvFresh')
  BY <1>1 DEF CsvInv, CsvType, CsvRoom, CsvFresh
<1>3. /\ cres' = "running" => /\ RowReading(text', quotes', trim', count', cstate', inquotes', elem', t', row', rn')
                              /\ Placed(text', quotes', count', row', rn', rn0')
      /\ cres' = "EILSEQ" => Refused(text', quotes')
      /\ cres' = "E2BIG" => bn0' <= count'
  BY <1>1 DEF CsvInv
<1>4. CsvParser!RowSplit' <=> CsvParser!RowSplit
  BY <1>1, Zenon DEF CsvParser!RowSplit, CsvParser!WholeRow
<1>5. cres' = "ok" => CsvParser!RowSplit'
  BY <1>1, <1>4 DEF CsvInv
<1> QED
  BY <1>2, <1>3, <1>5, Zenon DEF CsvInv

LEMMA CsvStep == ASSUME CsvInv, CsvParser!Next \/ UNCHANGED CsvParser!csvVars PROVE CsvInv'
<1>1. CASE CsvParser!Call
  BY <1>1, CsvCallKeeps
<1>2. CASE CsvParser!StartElem
  BY <1>2, StartElemKeeps
<1>3. CASE CsvParser!CollectElem
  BY <1>3, CollectElemKeeps
<1>4. CASE CsvParser!EndQuote
  BY <1>4, EndQuoteKeeps
<1>5. CASE CsvParser!Stop
  BY <1>5, StopKeeps
<1>6. CASE CsvParser!Done
  BY <1>6, CsvDoneKeeps
<1>7. CASE UNCHANGED CsvParser!csvVars
  BY <1>7, CsvSame
<1> QED
  BY <1>1, <1>2, <1>3, <1>4, <1>5, <1>6, <1>7, Zenon DEF CsvParser!Next

LEMMA CsvInvCorrect == ASSUME CsvInv PROVE CsvParser!RowCorrect
<1>1. bn >= 0 /\ t <= Len(elem) /\ base + Len(elem) + bn <= bn0
  BY DEF CsvInv, CsvType, CsvRoom
<1>2. cres = "EILSEQ" /\ CsvParser!WholeRow
        => \E k \in CsvParser!FieldEnds(text, quotes) : ~CsvParser!LegalField(CsvParser!Field(text, quotes, k), quotes)
  BY DEF CsvInv, Refused, CsvParser!WholeRow
<1>3. (cres = "ok" => CsvParser!RowSplit) /\ (cres = "E2BIG" => bn0 <= count)
  BY DEF CsvInv
<1> QED
  BY <1>1, <1>2, <1>3, Zenon DEF CsvParser!RowCorrect

(* csv.c: whatever the text, the buffer and the row, a csv_parse_str that  *)
(* succeeds has split the whole row, or as many of its fields as row[] has *)
(* places, into legal fields and decoded each; one that refuses a whole    *)
(* row has found a field that is not legal or a buffer no larger than the  *)
(* text it read; and no element is written beyond the buffer or the row.   *)
THEOREM CsvIsCorrect == Spec => []CsvRow
<1>1. Init => CsvInv
  BY CsvInit DEF Init
<1>2. CsvInv /\ [Next]_vars => CsvInv'
  <2> SUFFICES ASSUME CsvInv, [Next]_vars PROVE CsvInv'
    OBVIOUS
  <2>1. CsvParser!Next \/ UNCHANGED CsvParser!csvVars
    BY Zenon DEF Next, vars, csvVars, CsvParser!csvVars
  <2> QED
    BY <2>1, CsvStep
<1>3. CsvInv => CsvRow
  BY CsvInvCorrect DEF CsvRow
<1> QED
  BY <1>1, <1>2, <1>3, PTL DEF Spec

-----------------------------------------------------------------------------
(* cfg.c, for texts, environments and query strings of any length: the     *)
(* list holds comments and entries only, and a file that was stored is     *)
(* read back as the lines it was written from, but for what readline cuts  *)
(* from a comment.                                                         *)

(* The first place of a character, and a line without the spaces before it. *)
LEMMA UpToIs ==
  ASSUME NEW E, NEW s \in Seq(E), NEW c
  PROVE  /\ Cfg!UpTo(c, s) \in 1 .. Len(s) + 1 /\ Len(s) \in Nat
         /\ Cfg!UpTo(c, s) <= Len(s) => s[Cfg!UpTo(c, s)] = c
         /\ \A i \in 1 .. Len(s) : i < Cfg!UpTo(c, s) => s[i] # c
<1> DEFINE at == {i \in 1 .. Len(s) : s[i] = c}
<1>1. Len(s) \in Nat /\ at \subseteq Nat
  BY LenProperties
<1>2. CASE at = {}
  <2>1. Cfg!UpTo(c, s) = Len(s) + 1
    BY <1>2 DEF Cfg!UpTo
  <2> QED
    BY <1>1, <1>2, <2>1
<1>3. CASE at # {}
  <2>1. \E i \in at : \A j \in at : i <= j
    BY <1>1, <1>3, MinIsLeast
  <2>2. Cfg!UpTo(c, s) = CHOOSE i \in at : \A j \in at : i <= j
    BY <1>3 DEF Cfg!UpTo
  <2> DEFINE u == Cfg!UpTo(c, s)
  <2>3. u \in at /\ \A j \in at : u <= j
    BY <2>1, <2>2
  <2> HIDE DEF u
  <2>4. u \in 1 .. Len(s) + 1 /\ (u <= Len(s) => s[u] = c) /\ \A i \in 1 .. Len(s) : i < u => s[i] # c
    BY <1>1, <2>3
  <2> QED
    BY <1>1, <2>4 DEF u
<1> QED
  BY <1>2, <1>3

Inked(s, k) == s[k] # Cfg!Space /\ \A j \in 1 .. k - 1 : s[j] = Cfg!Space
LEMMA StrippedIs ==
  ASSUME NEW E, NEW s \in Seq(E)
  PROVE  /\ Cfg!Stripped(s) \in Seq(E)
         /\ (\A i \in 1 .. Len(s) : s[i] = Cfg!Space) => Cfg!Stripped(s) = <<>>
         /\ (\E i \in 1 .. Len(s) : s[i] # Cfg!Space)
              => \E k \in 1 .. Len(s) :
                   /\ Inked(s, k)
                   /\ Len(Cfg!Stripped(s)) = (Len(s) - k) + 1
                   /\ \A i \in 1 .. (Len(s) - k) + 1 : Cfg!Stripped(s)[i] = s[(k + i) - 1]
<1> DEFINE ink == {i \in 1 .. Len(s) : s[i] # Cfg!Space}
<1>1. Len(s) \in Nat /\ ink \subseteq Nat
  BY LenProperties
<1>2. CASE ink = {}
  <2>1. Cfg!Stripped(s) = <<>>
    BY <1>2 DEF Cfg!Stripped
  <2>2. ~\E i \in 1 .. Len(s) : s[i] # Cfg!Space
    BY <1>2
  <2>3. <<>> \in Seq(E)
    OBVIOUS
  <2> QED
    BY <2>1, <2>2, <2>3
<1>3. CASE ink # {}
  <2> DEFINE k == CHOOSE i \in ink : \A j \in ink : i <= j
  <2>1. \E i \in ink : \A j \in ink : i <= j
    BY <1>1, <1>3, MinIsLeast
  <2>2. Cfg!Stripped(s) = SubSeq(s, k, Len(s))
    BY <1>3 DEF Cfg!Stripped
  <2>3. k \in ink /\ \A j \in ink : k <= j
    BY <2>1
  <2> HIDE DEF k
  <2>4. k \in 1 .. Len(s) /\ Inked(s, k) /\ ~\A i \in 1 .. Len(s) : s[i] = Cfg!Space
    BY <1>1, <2>3 DEF Inked
  <2>5. /\ SubSeq(s, k, Len(s)) \in Seq(E)
        /\ Len(SubSeq(s, k, Len(s))) = (Len(s) - k) + 1
        /\ \A i \in 1 .. (Len(s) - k) + 1 : SubSeq(s, k, Len(s))[i] = s[(k + i) - 1]
    BY <1>1, <2>4, SubSeqProperties
  <2> QED
    BY <2>2, <2>4, <2>5
<1> QED
  BY <1>2, <1>3

(* A line that is neither comment nor entry is not loaded; one that is an  *)
(* entry has a name, and a '=' behind it and spaces only.                  *)
Line == {s \in Seq(Cfg!Character) : Cfg!Valid(s)}
LEMMA EntryIs ==
  ASSUME NEW s \in Line, ~Cfg!Comment(s)
  PROVE  /\ Cfg!Stripped(s) \in Seq(Cfg!Character)
         /\ \E e \in 2 .. Len(Cfg!Stripped(s)) : \E m \in 1 .. e - 1 :
              /\ Cfg!Stripped(s)[e] = Cfg!Equal
              /\ \A i \in 1 .. m : Cfg!Stripped(s)[i] # Cfg!Space /\ (i > 1 => Cfg!Stripped(s)[i] # Cfg!Equal)
              /\ \A i \in m + 1 .. e - 1 : Cfg!Stripped(s)[i] = Cfg!Space
<1>1. s \in Seq(Cfg!Character) /\ Cfg!Entry(s)
  BY DEF Line, Cfg!Valid
<1>2. Cfg!Stripped(s) \in Seq(Cfg!Character) /\ Len(Cfg!Stripped(s)) \in Nat
  BY <1>1, StrippedIs, LenProperties
<1>3. PICK e \in 2 .. Len(Cfg!Stripped(s)), m \in 1 .. Len(Cfg!Stripped(s)) :
              /\ m < e /\ Cfg!Stripped(s)[e] = Cfg!Equal
              /\ \A i \in 1 .. m : Cfg!Stripped(s)[i] # Cfg!Space /\ (i > 1 => Cfg!Stripped(s)[i] # Cfg!Equal)
              /\ \A i \in m + 1 .. e - 1 : Cfg!Stripped(s)[i] = Cfg!Space
  BY <1>1 DEF Cfg!Entry
<1>4. m \in 1 .. e - 1
  BY <1>2, <1>3
<1> QED
  BY <1>2, <1>3, <1>4

(* A lookup ends inside its line. *)
LEMMA LookupEnds ==
  ASSUME NEW s \in Line, NEW l \in Line, ~Cfg!Comment(s), Cfg!Named(l, Cfg!Name(s)), Cfg!Name(s) # <<>>
  PROVE  LET a == Cfg!After(l, Cfg!Name(s))
         IN a \in Seq(Cfg!Character) /\ Cfg!UpTo(Cfg!Equal, a) <= Len(a)
<1> DEFINE p == Cfg!Stripped(s)
           q == Cfg!Stripped(l)
           n == Cfg!Name(s)
           a == Cfg!After(l, n)
           u == IF Cfg!UpTo(Cfg!Space, p) < Cfg!UpTo(Cfg!Equal, p) THEN Cfg!UpTo(Cfg!Space, p) ELSE Cfg!UpTo(Cfg!Equal, p)
<1>1. p \in Seq(Cfg!Character) /\ q \in Seq(Cfg!Character) /\ Len(p) \in Nat /\ Len(q) \in Nat
  BY StrippedIs, LenProperties DEF Line
<1>2. u - 1 \in 0 .. Len(p) /\ \A i \in 1 .. u - 1 : p[i] # Cfg!Equal
  <2>1. /\ Cfg!UpTo(Cfg!Space, p) \in 1 .. Len(p) + 1 /\ Cfg!UpTo(Cfg!Equal, p) \in 1 .. Len(p) + 1
        /\ \A i \in 1 .. Len(p) : i < Cfg!UpTo(Cfg!Equal, p) => p[i] # Cfg!Equal
    BY <1>1, UpToIs
  <2> HIDE DEF p
  <2> QED
    BY <1>1, <2>1
<1>3. n = SubSeq(p, 1, u - 1)
  BY DEF Cfg!Name
<1>4. n \in Seq(Cfg!Character) /\ Len(n) \in Nat /\ \A i \in 1 .. Len(n) : n[i] # Cfg!Equal
  <2> HIDE DEF p, u, n
  <2>1. n \in Seq(Cfg!Character) /\ Len(n) = u - 1 /\ \A i \in 1 .. u - 1 : n[i] = p[i]
    BY <1>1, <1>2, <1>3, FirstPart
  <2> QED
    BY <1>1, <1>2, <2>1
<1>5. PICK e \in 2 .. Len(q) : q[e] = Cfg!Equal
  <2>1. ~Cfg!Comment(l)
    BY DEF Cfg!Named
  <2> QED
    BY <2>1, EntryIs
<1>6. Len(n) < Len(q) /\ \A i \in 1 .. Len(n) : q[i] = n[i]
  <2>1. Cfg!IsPrefix(n, q) /\ Len(q) > Len(n)
    BY DEF Cfg!Named
  <2> HIDE DEF n, q
  <2>2. Len(n) \in 0 .. Len(q) /\ Len(n) \in 0 .. Len(n)
    BY <1>1, <1>4, <2>1
  <2>3. SubSeq(n, 1, Len(n)) = SubSeq(q, 1, Len(n))
    BY <2>1 DEF Cfg!IsPrefix
  <2>4. \A k \in 1 .. Len(n) : SubSeq(n, 1, Len(n))[k] = n[k] /\ SubSeq(q, 1, Len(n))[k] = q[k]
    BY <1>1, <1>4, <2>2, FirstPart
  <2> QED
    BY <1>1, <1>4, <2>1, <2>3, <2>4
<1>7. e > Len(n)
  <2> HIDE DEF n, q
  <2> QED
    BY <1>1, <1>4, <1>5, <1>6
<1>8. /\ a \in Seq(Cfg!Character) /\ Len(a) = Len(q) - Len(n)
      /\ \A i \in 1 .. Len(q) - Len(n) : a[i] = q[Len(n) + i]
  <2>1. a = Slice(q, Len(n), Len(q))
    BY DEF Cfg!After, Slice
  <2> HIDE DEF a, n, q
  <2>2. Len(n) \in 0 .. Len(q) /\ Len(q) \in 0 .. Len(q) /\ Len(n) <= Len(q)
    BY <1>1, <1>4, <1>6
  <2> QED
    BY <1>1, <2>1, <2>2, PartIs
<1>9. Cfg!UpTo(Cfg!Equal, a) <= Len(a)
  <2> HIDE DEF a, n, q
  <2>1. e - Len(n) \in 1 .. Len(a) /\ a[e - Len(n)] = Cfg!Equal
    BY <1>1, <1>4, <1>5, <1>7, <1>8
  <2>2. /\ Cfg!UpTo(Cfg!Equal, a) \in 1 .. Len(a) + 1
        /\ \A i \in 1 .. Len(a) : i < Cfg!UpTo(Cfg!Equal, a) => a[i] # Cfg!Equal
    BY <1>8, UpToIs
  <2> QED
    BY <1>1, <1>4, <1>8, <2>1, <2>2
<1> QED
  BY <1>8, <1>9

LEMMA LookupsHold ==
  ASSUME lines \in Seq(Line)
  PROVE  Cfg!Lookups
<1> SUFFICES ASSUME NEW n \in Cfg!Names \ {<<>>} PROVE Cfg!Get(lines, n) \notin {<<Cfg!Beyond>>, <<Cfg!None>>}
  BY DEF Cfg!Lookups
<1>1. PICK i \in 1 .. Len(lines) : ~Cfg!Comment(lines[i]) /\ n = Cfg!Name(lines[i])
  BY DEF Cfg!Names
<1>2. Len(lines) \in Nat /\ \A j \in 1 .. Len(lines) : lines[j] \in Line
  BY LenProperties, ElementOfSeq
<1> DEFINE hits == {j \in 1 .. Len(lines) : Cfg!Named(lines[j], n)}
           k == CHOOSE j \in hits : \A m \in hits : j <= m
           l == Cfg!After(lines[k], n)
<1>3. i \in hits
  <2> DEFINE p == Cfg!Stripped(lines[i])
             a == Cfg!UpTo(Cfg!Space, p)
             b == Cfg!UpTo(Cfg!Equal, p)
             u == IF a < b THEN a ELSE b
  <2>1. lines[i] \in Line
    BY <1>2
  <2>2. p \in Seq(Cfg!Character) /\ Len(p) \in Nat
    BY <2>1, <1>1, EntryIs, LenProperties
  <2>3. PICK e \in 2 .. Len(p) : p[e] = Cfg!Equal
    BY <2>1, <1>1, EntryIs
  <2>4. n = SubSeq(p, 1, u - 1)
    BY <1>1 DEF Cfg!Name
  <2>5. /\ a \in 1 .. Len(p) + 1 /\ (a <= Len(p) => p[a] = Cfg!Space)
        /\ b \in 1 .. Len(p) + 1 /\ (b <= Len(p) => p[b] = Cfg!Equal)
        /\ \A j \in 1 .. Len(p) : j < b => p[j] # Cfg!Equal
    BY <2>2, UpToIs
  <2> HIDE DEF p, a, b
  <2>6. u \in 1 .. Len(p) /\ p[u] \in {Cfg!Space, Cfg!Equal} /\ u - 1 \in 0 .. Len(p) /\ (u - 1) + 1 = u
    BY <2>2, <2>3, <2>5
  <2>7. Len(n) = u - 1 /\ n \in Seq(Cfg!Character)
    BY <2>2, <2>4, <2>6, FirstPart
  <2> HIDE DEF u
  <2>8. SubSeq(n, 1, Len(n)) = n
    BY <2>7, FirstElements
  <2>9. Cfg!IsPrefix(n, p)
    BY <2>2, <2>4, <2>6, <2>7, <2>8 DEF Cfg!IsPrefix
  <2>10. Len(p) > Len(n) /\ p[Len(n) + 1] \in {Cfg!Space, Cfg!Equal}
    BY <2>2, <2>6, <2>7
  <2> QED
    BY <1>1, <2>9, <2>10 DEF Cfg!Named, p
<1>4. k \in hits
  <2>1. hits \subseteq Nat
    BY <1>2
  <2>2. \E j \in hits : \A m \in hits : j <= m
    BY <1>3, <2>1, MinIsLeast
  <2> QED
    BY <2>2
<1>5. l \in Seq(Cfg!Character) /\ Cfg!UpTo(Cfg!Equal, l) <= Len(l)
  <2>1. lines[i] \in Line /\ lines[k] \in Line /\ Cfg!Named(lines[k], n)
    BY <1>2, <1>4
  <2> QED
    BY <1>1, <2>1, LookupEnds
<1> DEFINE v == SubSeq(l, Cfg!UpTo(Cfg!Equal, l) + 1, Len(l))
<1>6. Cfg!Get(lines, n) = v
  <2>1. hits # {}
    BY <1>3
  <2>2. ~(Cfg!UpTo(Cfg!Equal, l) > Len(l))
    <3> HIDE DEF l
    <3>1. Len(l) \in Nat /\ Cfg!UpTo(Cfg!Equal, l) \in 1 .. Len(l) + 1
      BY <1>5, UpToIs
    <3> QED
      BY <1>5, <3>1
  <2> QED
    BY <2>1, <2>2 DEF Cfg!Get
<1> HIDE DEF l
<1>7. v \in Seq(Cfg!Character)
  <2>1. Len(l) \in Nat /\ Cfg!UpTo(Cfg!Equal, l) \in 1 .. Len(l) + 1
    BY <1>5, UpToIs
  <2> DEFINE u == Cfg!UpTo(Cfg!Equal, l)
  <2>2. u \in 0 .. Len(l) /\ Len(l) \in 0 .. Len(l) /\ u <= Len(l)
    BY <1>5, <2>1
  <2>3. v = Slice(l, u, Len(l))
    BY DEF Slice
  <2> HIDE DEF u, v
  <2>4. Slice(l, u, Len(l)) \in Seq(Cfg!Character)
    BY <1>5, <2>2, PartIs
  <2> QED
    BY <2>3, <2>4
<1>8. \A c \in Cfg!Character : c # Cfg!Beyond /\ c # Cfg!None
  BY DEF Cfg!Character, Cfg!Beyond, Cfg!None, Cfg!Letter, Cfg!Equal, Cfg!Space, Cfg!Hash, Cfg!Escape, Cfg!Newline, Cfg!Amp
<1>9. \A x : v = <<x>> => x \in Cfg!Character
  <2> SUFFICES ASSUME NEW x, v = <<x>> PROVE x \in Cfg!Character
    OBVIOUS
  <2> HIDE DEF v
  <2>1. Len(v) = 1 /\ v[1] = x
    OBVIOUS
  <2> QED
    BY <1>7, <2>1, ElementOfSeq
<1> QED
  BY <1>6, <1>8, <1>9

(* One character in readline, state by state. *)
Seen(acc) == [acc EXCEPT !.n = @ + 1]
Plainly(acc, c) == [acc EXCEPT !.buf = Append(@, c), !.n = @ + 1]
Ink(acc) == Len(acc.buf) + 1
LEMMA CharLetters ==
  /\ Cfg!Escape # Cfg!Newline /\ Cfg!Escape # Cfg!Equal /\ Cfg!Escape # Cfg!Space
  /\ Cfg!Newline # Cfg!Equal /\ Cfg!Newline # Cfg!Space /\ Cfg!Equal # Cfg!Space /\ Cfg!Hash # Cfg!Space
  /\ Cfg!Newline \in Cfg!Character /\ Cfg!Letter \in Cfg!Character /\ Cfg!Equal \in Cfg!Character
BY DEF Cfg!Character, Cfg!Letter, Cfg!Equal, Cfg!Space, Cfg!Hash, Cfg!Escape, Cfg!Newline, Cfg!Amp
LEMMA CharIs ==
  ASSUME NEW acc, NEW c
  PROVE  /\ acc.st = "done" => Cfg!Char(acc, c) = acc
         /\ acc.st = "first" => Cfg!Char(acc, c) = IF c = Cfg!Newline THEN [Seen(acc) EXCEPT !.st = "done"]
                                                   ELSE [Plainly(acc, c) EXCEPT !.st = "text"]
         /\ acc.st = "equal" /\ c = Cfg!Space => Cfg!Char(acc, c) = Seen(acc)
         /\ acc.st = "escape" =>
              Cfg!Char(acc, c) = IF c = Cfg!Newline THEN [Seen(acc) EXCEPT !.st = "equal", !.end = Ink(acc)]
                                 ELSE IF c \in {Cfg!Escape, Cfg!Space} THEN [Plainly(acc, c) EXCEPT !.st = "text", !.end = Ink(acc)]
                                 ELSE [Seen(acc) EXCEPT !.st = "text", !.end = Ink(acc)]
         /\ acc.st \in {"text", "equal"} /\ (acc.st = "equal" => c # Cfg!Space) =>
              /\ c = Cfg!Escape => Cfg!Char(acc, c) = [Seen(acc) EXCEPT !.st = "escape"]
              /\ c = Cfg!Newline => Cfg!Char(acc, c) = [Seen(acc) EXCEPT !.st = "done", !.buf = Cfg!Close(acc)]
              /\ c = Cfg!Equal => Cfg!Char(acc, c) = [Plainly(acc, c) EXCEPT !.st = "equal"]
              /\ c = Cfg!Space => Cfg!Char(acc, c) = [Plainly(acc, c) EXCEPT !.st = "text"]
              /\ c \notin {Cfg!Escape, Cfg!Newline, Cfg!Equal, Cfg!Space}
                   => Cfg!Char(acc, c) = [Plainly(acc, c) EXCEPT !.st = "text", !.end = Ink(acc)]
<1>1. CASE acc.st = "done"
  BY <1>1 DEF Cfg!Char
<1>2. CASE acc.st = "first"
  BY <1>2 DEF Cfg!Char, Seen, Plainly
<1>3. CASE acc.st = "equal" /\ c = Cfg!Space
  BY <1>3 DEF Cfg!Char, Seen
<1>4. CASE acc.st = "escape"
  BY <1>4 DEF Cfg!Char, Seen, Plainly, Ink
<1>5. CASE acc.st \in {"text", "equal"} /\ (acc.st = "equal" => c # Cfg!Space)
  BY <1>5, CharLetters DEF Cfg!Char, Seen, Plainly, Ink
<1> QED
  BY <1>1, <1>2, <1>3, <1>4, <1>5

Accumulator == [buf : Seq(Cfg!Character), end : Nat, st : {"first", "text", "equal", "escape", "done"},
                n : Nat, left : Seq(Cfg!Character)]
LEMMA CharType ==
  ASSUME NEW acc \in Accumulator, NEW c \in Cfg!Character
  PROVE  Cfg!Char(acc, c) \in Accumulator
<1>1. Len(acc.buf) \in Nat /\ Ink(acc) \in Nat /\ acc.end \in Nat /\ acc.buf \in Seq(Cfg!Character) /\ acc.left \in Seq(Cfg!Character)
  BY LenProperties DEF Accumulator, Ink
<1>2. Seen(acc) \in Accumulator /\ Seen(acc).st = acc.st
  BY DEF Seen, Accumulator
<1>3. Plainly(acc, c) \in Accumulator
  <2>1. Append(acc.buf, c) \in Seq(Cfg!Character) /\ acc.n + 1 \in Nat
    BY AppendProperties DEF Accumulator
  <2> QED
    BY <2>1 DEF Plainly, Accumulator
<1>4. Cfg!Close(acc) \in Seq(Cfg!Character)
  <2>1. CASE acc.end <= Len(acc.buf)
    <3>1. acc.end \in 0 .. Len(acc.buf)
      BY <1>1, <2>1
    <3> QED
      BY <1>1, <2>1, <3>1, FirstPart DEF Cfg!Close
  <2>2. CASE ~(acc.end <= Len(acc.buf))
    BY <1>1, <2>2, ConcatProperties DEF Cfg!Close
  <2> QED
    BY <2>1, <2>2
<1>5. \A a \in Accumulator : \A x \in {"first", "text", "equal", "escape", "done"} :
        /\ [a EXCEPT !.st = x] \in Accumulator
        /\ \A e \in Nat : [a EXCEPT !.st = x, !.end = e] \in Accumulator
        /\ \A b \in Seq(Cfg!Character) : [a EXCEPT !.st = x, !.buf = b] \in Accumulator
  BY DEF Accumulator
<1>6. acc.st \in {"first", "text", "equal", "escape", "done"}
  BY DEF Accumulator
<1>7. /\ acc.st = "done" => Cfg!Char(acc, c) = acc
      /\ acc.st = "equal" /\ c = Cfg!Space => Cfg!Char(acc, c) = Seen(acc)
  BY CharIs
<1>8. acc.st = "first" => Cfg!Char(acc, c) \in Accumulator
  <2>1. acc.st = "first" => Cfg!Char(acc, c) = IF c = Cfg!Newline THEN [Seen(acc) EXCEPT !.st = "done"]
                                               ELSE [Plainly(acc, c) EXCEPT !.st = "text"]
    BY CharIs
  <2>2. [Seen(acc) EXCEPT !.st = "done"] \in Accumulator /\ [Plainly(acc, c) EXCEPT !.st = "text"] \in Accumulator
    BY <1>2, <1>3, <1>5
  <2> QED
    BY <2>1, <2>2
<1>9. acc.st = "escape" => Cfg!Char(acc, c) \in Accumulator
  <2>1. acc.st = "escape" =>
          Cfg!Char(acc, c) = IF c = Cfg!Newline THEN [Seen(acc) EXCEPT !.st = "equal", !.end = Ink(acc)]
                             ELSE IF c \in {Cfg!Escape, Cfg!Space} THEN [Plainly(acc, c) EXCEPT !.st = "text", !.end = Ink(acc)]
                             ELSE [Seen(acc) EXCEPT !.st = "text", !.end = Ink(acc)]
    BY CharIs
  <2>2. /\ [Seen(acc) EXCEPT !.st = "equal", !.end = Ink(acc)] \in Accumulator
        /\ [Plainly(acc, c) EXCEPT !.st = "text", !.end = Ink(acc)] \in Accumulator
        /\ [Seen(acc) EXCEPT !.st = "text", !.end = Ink(acc)] \in Accumulator
    BY <1>1, <1>2, <1>3, <1>5
  <2> QED
    BY <2>1, <2>2
<1>10. acc.st \in {"text", "equal"} /\ (acc.st = "equal" => c # Cfg!Space) => Cfg!Char(acc, c) \in Accumulator
  <2> SUFFICES ASSUME acc.st \in {"text", "equal"}, acc.st = "equal" => c # Cfg!Space
               PROVE  Cfg!Char(acc, c) \in Accumulator
    OBVIOUS
  <2>1. /\ c = Cfg!Escape => Cfg!Char(acc, c) = [Seen(acc) EXCEPT !.st = "escape"]
        /\ c = Cfg!Newline => Cfg!Char(acc, c) = [Seen(acc) EXCEPT !.st = "done", !.buf = Cfg!Close(acc)]
        /\ c = Cfg!Equal => Cfg!Char(acc, c) = [Plainly(acc, c) EXCEPT !.st = "equal"]
        /\ c = Cfg!Space => Cfg!Char(acc, c) = [Plainly(acc, c) EXCEPT !.st = "text"]
        /\ c \notin {Cfg!Escape, Cfg!Newline, Cfg!Equal, Cfg!Space}
             => Cfg!Char(acc, c) = [Plainly(acc, c) EXCEPT !.st = "text", !.end = Ink(acc)]
    BY CharIs
  <2>2. /\ [Seen(acc) EXCEPT !.st = "escape"] \in Accumulator
        /\ [Seen(acc) EXCEPT !.st = "done", !.buf = Cfg!Close(acc)] \in Accumulator
        /\ [Plainly(acc, c) EXCEPT !.st = "equal"] \in Accumulator
        /\ [Plainly(acc, c) EXCEPT !.st = "text"] \in Accumulator
        /\ [Plainly(acc, c) EXCEPT !.st = "text", !.end = Ink(acc)] \in Accumulator
    BY <1>1, <1>2, <1>3, <1>4, <1>5
  <2> QED
    BY <2>1, <2>2
<1> QED
  BY <1>2, <1>6, <1>7, <1>8, <1>9, <1>10

(* readline as a function of how many characters are read *)
Begin(left) == [buf |-> <<>>, end |-> 0, st |-> "first", n |-> 0, left |-> left]
LEMMA LeftType ==
  ASSUME NEW left \in Cfg!Left
  PROVE  left \in Seq(Cfg!Character)
<1>1. left = <<>> \/ \E c \in Cfg!Character : left = <<c>>
  BY CharLetters DEF Cfg!Left
<1>2. \A c \in Cfg!Character : <<c>> \in Seq(Cfg!Character)
  OBVIOUS
<1>3. <<>> \in Seq(Cfg!Character)
  OBVIOUS
<1> QED
  BY <1>1, <1>2, <1>3
LEMMA ReadIs ==
  ASSUME NEW s \in Seq(Cfg!Character), NEW left \in Cfg!Left
  PROVE  \E f \in [0 .. Len(s) -> Accumulator] :
           /\ f[0] = Begin(left) /\ \A i \in 1 .. Len(s) : f[i] = Cfg!Char(f[i - 1], s[i])
           /\ Cfg!ReadLine(s, left) = f[Len(s)]
<1> DEFINE Is(f) == f = [i \in 0 .. Len(s) |-> IF i = 0 THEN Begin(left) ELSE Cfg!Char(f[i - 1], s[i])]
           r == CHOOSE f : Is(f)
           F == [i \in 1 .. Len(s) |-> [a \in Accumulator |-> Cfg!Char(a, s[i])]]
<1>1. Len(s) \in Nat /\ \A i \in 1 .. Len(s) : s[i] \in Cfg!Character
  BY LenProperties, ElementOfSeq
<1>2. Begin(left) \in Accumulator
  BY LeftType DEF Begin, Accumulator
<1>3. F \in [1 .. Len(s) -> [Accumulator -> Accumulator]]
  BY <1>1, CharType
<1>4. PICK g \in [0 .. Len(s) -> Accumulator] : g[0] = Begin(left) /\ \A i \in 1 .. Len(s) : g[i] = F[i][g[i - 1]]
  <2> DEFINE a0 == Begin(left)
             N == Len(s)
             S == Accumulator
  <2>a. N \in Nat
    BY <1>1
  <2>b. a0 \in S
    BY <1>2
  <2>c. F \in [1 .. N -> [S -> S]]
    BY <1>3
  <2> HIDE DEF F, a0, N, S
  <2>1. \E h \in [0 .. N -> S] : h[0] = a0 /\ \A k \in 1 .. N : h[k] = F[k][h[k - 1]]
    BY <2>a, <2>b, <2>c, StepsExist
  <2>2. \E h \in [0 .. N -> Accumulator] : h[0] = a0 /\ \A k \in 1 .. N : h[k] = F[k][h[k - 1]]
    BY <2>1 DEF S
  <2> QED
    BY <2>2 DEF a0, N
<1>5. \A i \in 1 .. Len(s) : i \in 0 .. Len(s) /\ i - 1 \in 0 .. Len(s) /\ g[i] = Cfg!Char(g[i - 1], s[i])
  <2> SUFFICES ASSUME NEW i \in 1 .. Len(s)
               PROVE  i \in 0 .. Len(s) /\ i - 1 \in 0 .. Len(s) /\ g[i] = Cfg!Char(g[i - 1], s[i])
    OBVIOUS
  <2>1. i \in 0 .. Len(s) /\ i - 1 \in 0 .. Len(s)
    BY <1>1
  <2>2. g[i - 1] \in Accumulator
    BY <1>4, <2>1
  <2> QED
    BY <1>4, <2>1, <2>2
<1>6. Is(g)
  <2> DEFINE h == [i \in 0 .. Len(s) |-> IF i = 0 THEN Begin(left) ELSE Cfg!Char(g[i - 1], s[i])]
  <2>1. \A i \in 0 .. Len(s) : g[i] = h[i]
    BY <1>1, <1>4, <1>5
  <2>2. DOMAIN g = 0 .. Len(s) /\ DOMAIN h = 0 .. Len(s)
    BY <1>4
  <2> QED
    BY <1>4, <2>1, <2>2
<1>7. Is(r)
  BY <1>6
<1>8. Cfg!ReadLine(s, left) = r[Len(s)]
  BY DEF Cfg!ReadLine, Begin
<1> HIDE DEF r
<1>9. r[0] = Begin(left) /\ \A i \in 1 .. Len(s) : r[i] = Cfg!Char(r[i - 1], s[i])
  <2>1. 0 \in 0 .. Len(s) /\ \A i \in 1 .. Len(s) : i \in 0 .. Len(s) /\ i # 0
    BY <1>1
  <2> QED
    BY <1>7, <2>1
<1>10. r \in [0 .. Len(s) -> Accumulator]
  <2>1. \A n \in Nat : n <= Len(s) => r[n] \in Accumulator
    <3> DEFINE T == {n \in Nat : n <= Len(s) => r[n] \in Accumulator}
    <3>1. 0 \in T
      BY <1>2, <1>9
    <3>2. \A n \in Nat : n \in T => n + 1 \in T
      <4> SUFFICES ASSUME NEW n \in Nat, n \in T, n + 1 <= Len(s) PROVE r[n + 1] \in Accumulator
        OBVIOUS
      <4>1. n + 1 \in 1 .. Len(s) /\ (n + 1) - 1 = n /\ n <= Len(s)
        BY <1>1
      <4>2. r[n + 1] = Cfg!Char(r[n], s[n + 1])
        BY <1>9, <4>1
      <4> QED
        BY <1>1, <4>1, <4>2, CharType
    <3> HIDE DEF T
    <3>3. Nat \subseteq T
      BY <3>1, <3>2, Induction
    <3> QED
      BY <3>3 DEF T
  <2> QED
    BY <1>1, <1>7, <2>1
<1> QED
  BY <1>8, <1>9, <1>10

(* A text is added line by line behind what there is. *)
LEMMA RestType ==
  ASSUME NEW E, NEW s \in Seq(E), NEW n \in Nat
  PROVE  SubSeq(s, n + 1, Len(s)) \in Seq(E)
<1>1. Len(s) \in Nat
  BY LenProperties
<1>2. CASE n <= Len(s)
  <2>1. n \in 0 .. Len(s) /\ Len(s) \in 0 .. Len(s)
    BY <1>1, <1>2
  <2>2. Slice(s, n, Len(s)) \in Seq(E)
    BY <1>2, <2>1, PartIs
  <2> QED
    BY <2>2 DEF Slice
<1>3. CASE ~(n <= Len(s))
  <2> DEFINE m == n + 1
             k == Len(s)
  <2>1. m \in Int /\ k \in Int /\ m > k
    BY <1>1, <1>3
  <2> HIDE DEF m, k
  <2>2. SubSeq(s, m, k) = <<>>
    BY <2>1
  <2>3. <<>> \in Seq(E)
    OBVIOUS
  <2> QED
    BY <2>2, <2>3 DEF m, k
<1> QED
  BY <1>2, <1>3

LEMMA PrefixIs ==
  ASSUME NEW E, NEW s \in Seq(E), NEW v \in Seq(E)
  PROVE  Cfg!IsPrefix(s, v) <=> Len(s) <= Len(v) /\ \A i \in 1 .. Len(s) : s[i] = v[i]
<1>1. Len(s) \in Nat /\ Len(v) \in Nat
  BY LenProperties
<1>2. ASSUME Len(s) <= Len(v)
      PROVE  SubSeq(s, 1, Len(s)) = SubSeq(v, 1, Len(s)) <=> \A i \in 1 .. Len(s) : s[i] = v[i]
  <2>1. Len(s) \in 0 .. Len(s) /\ Len(s) \in 0 .. Len(v)
    BY <1>1, <1>2
  <2>2. /\ SubSeq(s, 1, Len(s)) \in Seq(E) /\ Len(SubSeq(s, 1, Len(s))) = Len(s)
        /\ \A k \in 1 .. Len(s) : SubSeq(s, 1, Len(s))[k] = s[k]
    BY <2>1, FirstPart
  <2>3. /\ SubSeq(v, 1, Len(s)) \in Seq(E) /\ Len(SubSeq(v, 1, Len(s))) = Len(s)
        /\ \A k \in 1 .. Len(s) : SubSeq(v, 1, Len(s))[k] = v[k]
    BY <2>1, FirstPart
  <2> DEFINE a == SubSeq(s, 1, Len(s))
             b == SubSeq(v, 1, Len(s))
  <2>4. a = b <=> \A k \in 1 .. Len(s) : a[k] = b[k]
    <3>1. a \in Seq(E) /\ b \in Seq(E) /\ Len(a) = Len(s) /\ Len(b) = Len(s)
      BY <2>2, <2>3
    <3> HIDE DEF a, b
    <3>2. (\A k \in 1 .. Len(s) : a[k] = b[k]) => a = b
      BY <3>1, SeqEqual
    <3> QED
      BY <3>2
  <2>5. \A k \in 1 .. Len(s) : a[k] = s[k] /\ b[k] = v[k]
    BY <2>2, <2>3
  <2> HIDE DEF a, b
  <2>6. a = b <=> \A i \in 1 .. Len(s) : s[i] = v[i]
    BY <2>4, <2>5
  <2> QED
    BY <2>6 DEF a, b
<1> QED
  BY <1>2 DEF Cfg!IsPrefix

LEMMA PrefixGrows ==
  ASSUME NEW E, NEW s \in Seq(E), NEW v \in Seq(E), NEW e \in E, Cfg!IsPrefix(s, v)
  PROVE  Append(v, e) \in Seq(E) /\ Cfg!IsPrefix(s, Append(v, e))
<1>1. Append(v, e) \in Seq(E) /\ Len(Append(v, e)) = Len(v) + 1 /\ \A i \in 1 .. Len(v) : Append(v, e)[i] = v[i]
  BY AppendProperties
<1>2. Len(s) \in Nat /\ Len(v) \in Nat /\ Len(s) <= Len(v) /\ \A i \in 1 .. Len(s) : s[i] = v[i]
  BY LenProperties, PrefixIs
<1> DEFINE u == Append(v, e)
<1>3. u \in Seq(E) /\ Len(s) <= Len(u) /\ \A i \in 1 .. Len(s) : s[i] = u[i]
  BY <1>1, <1>2
<1> HIDE DEF u
<1>4. Cfg!IsPrefix(s, u)
  BY <1>3, PrefixIs
<1> QED
  BY <1>3, <1>4 DEF u

Source == Cfg!Left \cup {Cfg!FromString}
NextLine(r, from) == IF from = Cfg!FromString THEN Cfg!StrLine(r) ELSE Cfg!FileLine(r, from)
LineStep(g, from) ==
  IF ~g.ok \/ g.rest = <<>> THEN g
  ELSE IF ~Cfg!Valid(NextLine(g.rest, from).line) THEN [g EXCEPT !.ok = FALSE]
  ELSE [ls |-> Append(g.ls, NextLine(g.rest, from).line),
        rest |-> SubSeq(g.rest, NextLine(g.rest, from).n + 1, Len(g.rest)), ok |-> TRUE]
PairLine(r) == SubSeq(r, 1, Cfg!UpTo(Cfg!Amp, r) - 1)
PairStep(g) ==
  IF ~g.ok \/ g.rest = <<>> THEN g
  ELSE IF ~(Cfg!Pair(PairLine(g.rest)) /\ Cfg!Valid(PairLine(g.rest))) THEN [g EXCEPT !.ok = FALSE]
  ELSE [ls |-> Append(g.ls, PairLine(g.rest)), ok |-> TRUE,
        rest |-> SubSeq(g.rest, Cfg!UpTo(Cfg!Amp, g.rest) + 1, Len(g.rest))]
Progress(ls) == {g \in [ls : Seq(Line), rest : Seq(Cfg!Character), ok : BOOLEAN] : Cfg!IsPrefix(ls, g.ls)}

LEMMA NextLineType ==
  ASSUME NEW r \in Seq(Cfg!Character), NEW from \in Source
  PROVE  NextLine(r, from).line \in Seq(Cfg!Character) /\ NextLine(r, from).n \in Nat
<1>1. CASE from = Cfg!FromString
  <2> DEFINE u == Cfg!UpTo(Cfg!Newline, r)
  <2>1. u \in 1 .. Len(r) + 1 /\ Len(r) \in Nat
    BY UpToIs
  <2> HIDE DEF u
  <2>2. u - 1 \in 0 .. Len(r) /\ u \in Nat
    BY <2>1
  <2>3. SubSeq(r, 1, u - 1) \in Seq(Cfg!Character)
    BY <2>2, FirstPart
  <2>4. NextLine(r, from) = [line |-> SubSeq(r, 1, u - 1), n |-> u]
    BY <1>1 DEF NextLine, Cfg!StrLine, u
  <2> QED
    BY <2>2, <2>3, <2>4
<1>2. CASE from # Cfg!FromString
  <2>1. from \in Cfg!Left
    BY <1>2 DEF Source
  <2>2. PICK f \in [0 .. Len(r) -> Accumulator] : Cfg!ReadLine(r, from) = f[Len(r)]
    BY <2>1, ReadIs
  <2>3. Len(r) \in 0 .. Len(r)
    BY LenProperties
  <2>4. Cfg!ReadLine(r, from) \in Accumulator
    BY <2>2, <2>3
  <2>5. NextLine(r, from) = [line |-> Cfg!ReadLine(r, from).buf, n |-> Cfg!ReadLine(r, from).n]
    BY <1>2 DEF NextLine, Cfg!FileLine
  <2>6. Cfg!ReadLine(r, from).buf \in Seq(Cfg!Character) /\ Cfg!ReadLine(r, from).n \in Nat
    BY <2>4 DEF Accumulator
  <2> QED
    BY <2>5, <2>6
<1> QED
  BY <1>1, <1>2

LEMMA GrownBy ==
  ASSUME NEW ls \in Seq(Line), NEW g \in Progress(ls), NEW l \in Line, NEW n \in Nat, NEW h,
         h = [ls |-> Append(g.ls, l), rest |-> SubSeq(g.rest, n + 1, Len(g.rest)), ok |-> TRUE]
  PROVE  h \in Progress(ls)
<1>1. g.ls \in Seq(Line) /\ g.rest \in Seq(Cfg!Character) /\ Cfg!IsPrefix(ls, g.ls)
  BY DEF Progress
<1>2. Append(g.ls, l) \in Seq(Line) /\ Cfg!IsPrefix(ls, Append(g.ls, l))
  BY <1>1, PrefixGrows
<1>3. SubSeq(g.rest, n + 1, Len(g.rest)) \in Seq(Cfg!Character)
  BY <1>1, RestType
<1>4. h.ls = Append(g.ls, l)
  OBVIOUS
<1>5. h \in [ls : Seq(Line), rest : Seq(Cfg!Character), ok : BOOLEAN]
  BY <1>2, <1>3
<1>6. Cfg!IsPrefix(ls, h.ls)
  BY <1>2, <1>4
<1> QED
  BY <1>5, <1>6 DEF Progress

LEMMA StoppedAt ==
  ASSUME NEW ls, NEW g \in Progress(ls)
  PROVE  [g EXCEPT !.ok = FALSE] \in Progress(ls)
<1>1. [g EXCEPT !.ok = FALSE] \in [ls : Seq(Line), rest : Seq(Cfg!Character), ok : BOOLEAN] /\ [g EXCEPT !.ok = FALSE].ls = g.ls
  BY DEF Progress
<1>2. Cfg!IsPrefix(ls, g.ls)
  BY DEF Progress
<1> QED
  BY <1>1, <1>2 DEF Progress

LEMMA LineStepType ==
  ASSUME NEW ls \in Seq(Line), NEW g \in Progress(ls), NEW from \in Source
  PROVE  LineStep(g, from) \in Progress(ls)
<1> DEFINE l == NextLine(g.rest, from).line
           n == NextLine(g.rest, from).n
           h == [ls |-> Append(g.ls, l), rest |-> SubSeq(g.rest, n + 1, Len(g.rest)), ok |-> TRUE]
<1>1. g.rest \in Seq(Cfg!Character)
  BY DEF Progress
<1>2. l \in Seq(Cfg!Character) /\ n \in Nat
  BY <1>1, NextLineType
<1>3. [g EXCEPT !.ok = FALSE] \in Progress(ls)
  BY StoppedAt
<1>4. Cfg!Valid(l) => h \in Progress(ls)
  <2> SUFFICES ASSUME Cfg!Valid(l) PROVE h \in Progress(ls)
    OBVIOUS
  <2>1. l \in Line
    BY <1>2 DEF Line
  <2> DEFINE k == h
  <2>2. k = [ls |-> Append(g.ls, l), rest |-> SubSeq(g.rest, n + 1, Len(g.rest)), ok |-> TRUE]
    OBVIOUS
  <2> HIDE DEF k, l, n
  <2>3. k \in Progress(ls)
    BY <1>2, <2>1, <2>2, GrownBy
  <2> QED
    BY <2>3 DEF k
<1>5. LineStep(g, from) = IF ~g.ok \/ g.rest = <<>> THEN g
                          ELSE IF ~Cfg!Valid(l) THEN [g EXCEPT !.ok = FALSE] ELSE h
  BY DEF LineStep
<1> HIDE DEF l, h
<1> QED
  BY <1>3, <1>4, <1>5

LEMMA PairStepType ==
  ASSUME NEW ls \in Seq(Line), NEW g \in Progress(ls)
  PROVE  PairStep(g) \in Progress(ls)
<1> DEFINE l == PairLine(g.rest)
           n == Cfg!UpTo(Cfg!Amp, g.rest)
           h == [ls |-> Append(g.ls, l), rest |-> SubSeq(g.rest, n + 1, Len(g.rest)), ok |-> TRUE]
<1>1. g.rest \in Seq(Cfg!Character)
  BY DEF Progress
<1>2. l \in Seq(Cfg!Character) /\ n \in Nat
  <2>1. n \in 1 .. Len(g.rest) + 1 /\ Len(g.rest) \in Nat
    BY <1>1, UpToIs
  <2>2. l = SubSeq(g.rest, 1, n - 1)
    BY DEF PairLine
  <2> HIDE DEF n, l
  <2>3. n - 1 \in 0 .. Len(g.rest) /\ n \in Nat
    BY <2>1
  <2> QED
    BY <1>1, <2>2, <2>3, FirstPart
<1>3. [g EXCEPT !.ok = FALSE] \in Progress(ls)
  BY StoppedAt
<1>4. Cfg!Valid(l) => h \in Progress(ls)
  <2> SUFFICES ASSUME Cfg!Valid(l) PROVE h \in Progress(ls)
    OBVIOUS
  <2>1. l \in Line
    BY <1>2 DEF Line
  <2> DEFINE k == h
  <2>2. k = [ls |-> Append(g.ls, l), rest |-> SubSeq(g.rest, n + 1, Len(g.rest)), ok |-> TRUE]
    OBVIOUS
  <2> HIDE DEF k, l, n
  <2>3. k \in Progress(ls)
    BY <1>2, <2>1, <2>2, GrownBy
  <2> QED
    BY <2>3 DEF k
<1>5. PairStep(g) = IF ~g.ok \/ g.rest = <<>> THEN g
                    ELSE IF ~(Cfg!Pair(l) /\ Cfg!Valid(l)) THEN [g EXCEPT !.ok = FALSE] ELSE h
  BY DEF PairStep
<1> HIDE DEF l, h
<1> QED
  BY <1>3, <1>4, <1>5

Loadable(ls, s, from) == ls \in Seq(Line) /\ s \in Seq(Cfg!Character) /\ from \in Source

LEMMA AddIs ==
  ASSUME NEW ls, NEW s, NEW from, Loadable(ls, s, from)
  PROVE  \E f \in [0 .. Len(s) + 1 -> Progress(ls)] :
           /\ f[0] = [ls |-> ls, rest |-> s, ok |-> TRUE]
           /\ \A i \in 1 .. Len(s) + 1 : f[i] = LineStep(f[i - 1], from)
           /\ Cfg!AddLines(ls, s, from) = f[Len(s) + 1]
<1> DEFINE n == Len(s) + 1
           a == [ls |-> ls, rest |-> s, ok |-> TRUE]
           S == Progress(ls)
           Is(f) == f = [i \in 0 .. n |-> IF i = 0 THEN a ELSE LineStep(f[i - 1], from)]
           r == CHOOSE f : Is(f)
           F == [i \in 1 .. n |-> [g \in S |-> LineStep(g, from)]]
<1>0. ls \in Seq(Line) /\ s \in Seq(Cfg!Character) /\ from \in Source
  BY DEF Loadable
<1>1. n \in Nat
  BY <1>0, LenProperties
<1>2. a \in S
  <2>1. Cfg!IsPrefix(ls, ls)
    <3>1. Len(ls) \in Nat
      BY <1>0, LenProperties
    <3> QED
      BY <3>1 DEF Cfg!IsPrefix
  <2>2. a \in [ls : Seq(Line), rest : Seq(Cfg!Character), ok : BOOLEAN] /\ a.ls = ls
    BY <1>0
  <2> HIDE DEF a
  <2> QED
    BY <2>1, <2>2 DEF Progress
<1>a. \A g \in S : LineStep(g, from) \in S
  BY <1>0, LineStepType
<1> HIDE DEF S
<1>3. F \in [1 .. n -> [S -> S]]
  BY <1>a
<1>b. \A i \in 1 .. n : \A g \in S : F[i][g] = LineStep(g, from)
  OBVIOUS
<1>8. Cfg!AddLines(ls, s, from) = r[n]
  BY DEF Cfg!AddLines, LineStep, NextLine
<1> HIDE DEF F, a, n, r, Is
<1>4. PICK g \in [0 .. n -> S] : g[0] = a /\ \A i \in 1 .. n : g[i] = F[i][g[i - 1]]
  BY <1>1, <1>2, <1>3, StepsExist
<1>5. \A i \in 1 .. n : i \in 0 .. n /\ i - 1 \in 0 .. n /\ g[i] = LineStep(g[i - 1], from)
  <2> SUFFICES ASSUME NEW i \in 1 .. n
               PROVE  i \in 0 .. n /\ i - 1 \in 0 .. n /\ g[i] = LineStep(g[i - 1], from)
    OBVIOUS
  <2>1. i \in 0 .. n /\ i - 1 \in 0 .. n
    BY <1>1
  <2>2. g[i - 1] \in S
    BY <1>4, <2>1
  <2> QED
    BY <1>4, <1>b, <2>1, <2>2
<1>6. Is(g)
  <2> DEFINE h == [i \in 0 .. n |-> IF i = 0 THEN a ELSE LineStep(g[i - 1], from)]
  <2>1. \A i \in 0 .. n : g[i] = h[i]
    <3> SUFFICES ASSUME NEW i \in 0 .. n PROVE g[i] = h[i]
      OBVIOUS
    <3>1. CASE i = 0
      BY <1>4, <3>1
    <3>2. CASE i # 0
      <4>1. i \in 1 .. n
        BY <1>1, <3>2
      <4> QED
        BY <1>5, <3>2, <4>1
    <3> QED
      BY <3>1, <3>2
  <2>2. DOMAIN g = 0 .. n /\ DOMAIN h = 0 .. n
    BY <1>4
  <2> QED
    BY <1>4, <2>1, <2>2 DEF Is
<1>7. Is(r)
  BY <1>6 DEF r
<1>9. r[0] = a /\ \A i \in 1 .. n : r[i] = LineStep(r[i - 1], from)
  <2>1. 0 \in 0 .. n /\ \A i \in 1 .. n : i \in 0 .. n /\ i # 0
    BY <1>1
  <2> QED
    BY <1>7, <2>1 DEF Is
<1>10. r \in [0 .. n -> S]
  <2>1. \A m \in Nat : m <= n => r[m] \in S
    <3> DEFINE T == {m \in Nat : m <= n => r[m] \in S}
    <3>1. 0 \in T
      BY <1>2, <1>9
    <3>2. \A m \in Nat : m \in T => m + 1 \in T
      <4> SUFFICES ASSUME NEW m \in Nat, m \in T, m + 1 <= n PROVE r[m + 1] \in S
        OBVIOUS
      <4>1. m + 1 \in 1 .. n /\ (m + 1) - 1 = m /\ m <= n
        BY <1>1
      <4>2. r[m + 1] = LineStep(r[m], from)
        BY <1>9, <4>1
      <4> QED
        BY <1>a, <4>1, <4>2
    <3> HIDE DEF T
    <3>3. Nat \subseteq T
      BY <3>1, <3>2, Induction
    <3> QED
      BY <3>3 DEF T
  <2> QED
    BY <1>1, <1>7, <2>1 DEF Is
<1> QED
  BY <1>8, <1>9, <1>10 DEF n, a, S

LEMMA PairsAre ==
  ASSUME NEW ls, NEW s, Loadable(ls, s, Cfg!FromString)
  PROVE  \E f \in [0 .. Len(s) + 1 -> Progress(ls)] :
           /\ f[0] = [ls |-> ls, rest |-> s, ok |-> TRUE]
           /\ \A i \in 1 .. Len(s) + 1 : f[i] = PairStep(f[i - 1])
           /\ Cfg!AddPairs(ls, s) = f[Len(s) + 1]
<1> DEFINE n == Len(s) + 1
           a == [ls |-> ls, rest |-> s, ok |-> TRUE]
           S == Progress(ls)
           Is(f) == f = [i \in 0 .. n |-> IF i = 0 THEN a ELSE PairStep(f[i - 1])]
           r == CHOOSE f : Is(f)
           F == [i \in 1 .. n |-> [g \in S |-> PairStep(g)]]
<1>0. ls \in Seq(Line) /\ s \in Seq(Cfg!Character)
  BY DEF Loadable
<1>1. n \in Nat
  BY <1>0, LenProperties
<1>2. a \in S
  <2>1. Cfg!IsPrefix(ls, ls)
    <3>1. Len(ls) \in Nat
      BY <1>0, LenProperties
    <3> QED
      BY <3>1 DEF Cfg!IsPrefix
  <2>2. a \in [ls : Seq(Line), rest : Seq(Cfg!Character), ok : BOOLEAN] /\ a.ls = ls
    BY <1>0
  <2> HIDE DEF a
  <2> QED
    BY <2>1, <2>2 DEF Progress
<1>a. \A g \in S : PairStep(g) \in S
  BY <1>0, PairStepType
<1> HIDE DEF S
<1>3. F \in [1 .. n -> [S -> S]]
  BY <1>a
<1>b. \A i \in 1 .. n : \A g \in S : F[i][g] = PairStep(g)
  OBVIOUS
<1>8. Cfg!AddPairs(ls, s) = r[n]
  BY DEF Cfg!AddPairs, PairStep, PairLine
<1> HIDE DEF F, a, n, r, Is
<1>4. PICK g \in [0 .. n -> S] : g[0] = a /\ \A i \in 1 .. n : g[i] = F[i][g[i - 1]]
  BY <1>1, <1>2, <1>3, StepsExist
<1>5. \A i \in 1 .. n : i \in 0 .. n /\ i - 1 \in 0 .. n /\ g[i] = PairStep(g[i - 1])
  <2> SUFFICES ASSUME NEW i \in 1 .. n
               PROVE  i \in 0 .. n /\ i - 1 \in 0 .. n /\ g[i] = PairStep(g[i - 1])
    OBVIOUS
  <2>1. i \in 0 .. n /\ i - 1 \in 0 .. n
    BY <1>1
  <2>2. g[i - 1] \in S
    BY <1>4, <2>1
  <2> QED
    BY <1>4, <1>b, <2>1, <2>2
<1>6. Is(g)
  <2> DEFINE h == [i \in 0 .. n |-> IF i = 0 THEN a ELSE PairStep(g[i - 1])]
  <2>1. \A i \in 0 .. n : g[i] = h[i]
    <3> SUFFICES ASSUME NEW i \in 0 .. n PROVE g[i] = h[i]
      OBVIOUS
    <3>1. CASE i = 0
      BY <1>4, <3>1
    <3>2. CASE i # 0
      <4>1. i \in 1 .. n
        BY <1>1, <3>2
      <4> QED
        BY <1>5, <3>2, <4>1
    <3> QED
      BY <3>1, <3>2
  <2>2. DOMAIN g = 0 .. n /\ DOMAIN h = 0 .. n
    BY <1>4
  <2> QED
    BY <1>4, <2>1, <2>2 DEF Is
<1>7. Is(r)
  BY <1>6 DEF r
<1>9. r[0] = a /\ \A i \in 1 .. n : r[i] = PairStep(r[i - 1])
  <2>1. 0 \in 0 .. n /\ \A i \in 1 .. n : i \in 0 .. n /\ i # 0
    BY <1>1
  <2> QED
    BY <1>7, <2>1 DEF Is
<1>10. r \in [0 .. n -> S]
  <2>1. \A m \in Nat : m <= n => r[m] \in S
    <3> DEFINE T == {m \in Nat : m <= n => r[m] \in S}
    <3>1. 0 \in T
      BY <1>2, <1>9
    <3>2. \A m \in Nat : m \in T => m + 1 \in T
      <4> SUFFICES ASSUME NEW m \in Nat, m \in T, m + 1 <= n PROVE r[m + 1] \in S
        OBVIOUS
      <4>1. m + 1 \in 1 .. n /\ (m + 1) - 1 = m /\ m <= n
        BY <1>1
      <4>2. r[m + 1] = PairStep(r[m])
        BY <1>9, <4>1
      <4> QED
        BY <1>a, <4>1, <4>2
    <3> HIDE DEF T
    <3>3. Nat \subseteq T
      BY <3>1, <3>2, Induction
    <3> QED
      BY <3>3 DEF T
  <2> QED
    BY <1>1, <1>7, <2>1 DEF Is
<1> QED
  BY <1>8, <1>9, <1>10 DEF n, a, S

(* What a line that cfg_store wrote is read as: itself up to e, and what   *)
(* is behind e but for the first character is spaces and '='s.             *)
Unescaped(s) == /\ \A i \in 1 .. Len(s) : s[i] \notin {Cfg!Escape, Cfg!Newline}
                /\ \A i \in 1 .. Len(s) - 1 : s[i] = Cfg!Equal => s[i + 1] # Cfg!Space
Blanks(s, lo, hi) == \A j \in 2 .. hi : j > lo => s[j] \in {Cfg!Space, Cfg!Equal}
ReadTo(s, i, a) == /\ a.n = i /\ a.buf = SubSeq(s, 1, i) /\ a.st \in {"text", "equal"}
                   /\ a.st = "equal" => s[i] = Cfg!Equal
                   /\ a.end \in 0 .. i /\ Blanks(s, a.end, i)
LEMMA ReadFields ==
  ASSUME NEW a \in Accumulator, NEW c \in Cfg!Character
  PROVE  /\ \A x : /\ [Plainly(a, c) EXCEPT !.st = x].buf = Append(a.buf, c)
                   /\ [Plainly(a, c) EXCEPT !.st = x].n = a.n + 1
                   /\ [Plainly(a, c) EXCEPT !.st = x].st = x
                   /\ [Plainly(a, c) EXCEPT !.st = x].end = a.end
         /\ \A x, e : /\ [Plainly(a, c) EXCEPT !.st = x, !.end = e].buf = Append(a.buf, c)
                      /\ [Plainly(a, c) EXCEPT !.st = x, !.end = e].n = a.n + 1
                      /\ [Plainly(a, c) EXCEPT !.st = x, !.end = e].st = x
                      /\ [Plainly(a, c) EXCEPT !.st = x, !.end = e].end = e
         /\ \A x : [Seen(a) EXCEPT !.st = x].n = a.n + 1 /\ [Seen(a) EXCEPT !.st = x].buf = a.buf
                   /\ [Seen(a) EXCEPT !.st = x].st = x
         /\ \A x, b : [Seen(a) EXCEPT !.st = x, !.buf = b].n = a.n + 1 /\ [Seen(a) EXCEPT !.st = x, !.buf = b].buf = b
                      /\ [Seen(a) EXCEPT !.st = x, !.buf = b].st = x
BY DEF Accumulator, Plainly, Seen

LEMMA ReadStarts ==
  ASSUME NEW s \in Seq(Cfg!Character), Len(s) # 0, Unescaped(s), NEW left \in Cfg!Left
  PROVE  ReadTo(s, 1, Cfg!Char(Begin(left), s[1]))
<1> DEFINE a == Begin(left)
           c == s[1]
<1>1. Len(s) \in Nat /\ 1 \in 1 .. Len(s)
  BY LenProperties
<1>2. c \in Cfg!Character /\ c # Cfg!Newline
  BY <1>1, ElementOfSeq DEF Unescaped
<1>3. a \in Accumulator /\ a.st = "first" /\ a.n = 0 /\ a.end = 0 /\ a.buf = <<>>
  BY LeftType DEF Begin, Accumulator
<1>4. SubSeq(s, 1, 1) = Append(SubSeq(s, 1, 0), c) /\ SubSeq(s, 1, 0) = <<>>
  BY <1>1, FirstElements
<1> HIDE DEF a, c
<1>5. Cfg!Char(a, c) = [Plainly(a, c) EXCEPT !.st = "text"]
  BY <1>2, <1>3, CharIs
<1> DEFINE b == Cfg!Char(a, c)
<1>6. b.buf = Append(a.buf, c) /\ b.n = a.n + 1 /\ b.st = "text" /\ b.end = a.end
  BY <1>2, <1>3, <1>5, ReadFields
<1> HIDE DEF b
<1>7. b.n = 1 /\ b.buf = SubSeq(s, 1, 1) /\ b.st = "text" /\ b.end = 0
  BY <1>3, <1>4, <1>6
<1>8. ReadTo(s, 1, b)
  BY <1>7 DEF ReadTo, Blanks
<1> QED
  BY <1>8 DEF a, b, c

LEMMA ReadGoesOn ==
  ASSUME NEW s \in Seq(Cfg!Character), Unescaped(s), NEW i \in 1 .. Len(s), i + 1 <= Len(s),
         NEW a \in Accumulator, ReadTo(s, i, a)
  PROVE  ReadTo(s, i + 1, Cfg!Char(a, s[i + 1]))
<1> DEFINE c == s[i + 1]
           b == Cfg!Char(a, c)
<1>1. Len(s) \in Nat /\ i \in Nat /\ i + 1 \in 1 .. Len(s) /\ i \in 1 .. Len(s) - 1
  BY LenProperties
<1>2. c \in Cfg!Character /\ c \notin {Cfg!Newline, Cfg!Escape} /\ (s[i] = Cfg!Equal => c # Cfg!Space)
  BY <1>1, ElementOfSeq DEF Unescaped
<1>3. SubSeq(s, 1, i + 1) = Append(SubSeq(s, 1, i), c) /\ Len(SubSeq(s, 1, i)) = i
  <2>1. /\ \A j \in 1 .. Len(s) : SubSeq(s, 1, j) = Append(SubSeq(s, 1, j - 1), s[j])
        /\ \A j \in 0 .. Len(s) : Len(SubSeq(s, 1, j)) = j
    BY FirstElements
  <2>2. (i + 1) - 1 = i /\ i \in 0 .. Len(s)
    BY <1>1
  <2>3. SubSeq(s, 1, i + 1) = Append(SubSeq(s, 1, (i + 1) - 1), s[i + 1])
    BY <1>1, <2>1
  <2> QED
    BY <2>1, <2>2, <2>3
<1>4. /\ a.n = i /\ a.buf = SubSeq(s, 1, i) /\ a.st \in {"text", "equal"} /\ (a.st = "equal" => c # Cfg!Space)
      /\ a.end \in 0 .. i /\ Blanks(s, a.end, i)
  BY <1>2 DEF ReadTo
<1>5. Ink(a) = i + 1
  BY <1>3, <1>4 DEF Ink
<1> HIDE DEF c
<1>6. /\ c = Cfg!Equal => b = [Plainly(a, c) EXCEPT !.st = "equal"]
      /\ c = Cfg!Space => b = [Plainly(a, c) EXCEPT !.st = "text"]
      /\ c \notin {Cfg!Equal, Cfg!Space} => b = [Plainly(a, c) EXCEPT !.st = "text", !.end = i + 1]
  <2>1. a.st \in {"text", "equal"} /\ (a.st = "equal" => c # Cfg!Space) =>
              /\ c = Cfg!Equal => b = [Plainly(a, c) EXCEPT !.st = "equal"]
              /\ c = Cfg!Space => b = [Plainly(a, c) EXCEPT !.st = "text"]
              /\ c \notin {Cfg!Escape, Cfg!Newline, Cfg!Equal, Cfg!Space}
                   => b = [Plainly(a, c) EXCEPT !.st = "text", !.end = Ink(a)]
    BY CharIs
  <2>2. c \notin {Cfg!Equal, Cfg!Space} => b = [Plainly(a, c) EXCEPT !.st = "text", !.end = Ink(a)]
    BY <1>2, <1>4, <2>1
  <2> QED
    BY <1>4, <1>5, <2>1, <2>2
<1>f. /\ \A x : /\ [Plainly(a, c) EXCEPT !.st = x].buf = Append(a.buf, c)
                /\ [Plainly(a, c) EXCEPT !.st = x].n = a.n + 1
                /\ [Plainly(a, c) EXCEPT !.st = x].st = x
                /\ [Plainly(a, c) EXCEPT !.st = x].end = a.end
      /\ \A x, e : /\ [Plainly(a, c) EXCEPT !.st = x, !.end = e].buf = Append(a.buf, c)
                   /\ [Plainly(a, c) EXCEPT !.st = x, !.end = e].n = a.n + 1
                   /\ [Plainly(a, c) EXCEPT !.st = x, !.end = e].st = x
                   /\ [Plainly(a, c) EXCEPT !.st = x, !.end = e].end = e
  BY <1>2, ReadFields
<1> HIDE DEF b
<1>7. /\ b.buf = Append(a.buf, c) /\ b.n = a.n + 1 /\ b.st \in {"text", "equal"} /\ (b.st = "equal" => c = Cfg!Equal)
      /\ \/ b.end = i + 1
         \/ c \in {Cfg!Space, Cfg!Equal} /\ b.end = a.end
  <2>1. CASE c = Cfg!Equal
    BY <1>2, <1>6, <2>1, <1>f
  <2>2. CASE c = Cfg!Space
    <3> DEFINE d == [Plainly(a, c) EXCEPT !.st = "text"]
    <3>1. d.buf = Append(a.buf, c) /\ d.n = a.n + 1 /\ d.st = "text" /\ d.end = a.end
      BY <1>f
    <3>2. b = d
      BY <1>6, <2>2
    <3> HIDE DEF d
    <3> QED
      BY <2>2, <3>1, <3>2
  <2>3. CASE c \notin {Cfg!Equal, Cfg!Space}
    <3> DEFINE d == [Plainly(a, c) EXCEPT !.st = "text", !.end = i + 1]
    <3>1. d.buf = Append(a.buf, c) /\ d.n = a.n + 1 /\ d.st = "text" /\ d.end = i + 1
      BY <1>f
    <3>2. b = d
      BY <1>6, <2>3
    <3> HIDE DEF d
    <3> QED
      BY <2>3, <3>1, <3>2
  <2> QED
    BY <2>1, <2>2, <2>3
<1>8. b.end \in 0 .. i + 1
  BY <1>1, <1>4, <1>7
<1>9. Blanks(s, b.end, i + 1)
  <2> SUFFICES ASSUME NEW j \in 2 .. i + 1, j > b.end PROVE s[j] \in {Cfg!Space, Cfg!Equal}
    BY DEF Blanks
  <2>1. CASE j = i + 1
    <3>1. c \in {Cfg!Space, Cfg!Equal}
      BY <1>1, <1>7, <1>8, <2>1
    <3> QED
      BY <2>1, <3>1 DEF c
  <2>2. CASE j # i + 1
    <3>1. j \in 2 .. i /\ j > a.end
      BY <1>1, <1>4, <1>7, <1>8, <2>2
    <3> QED
      BY <1>4, <3>1 DEF Blanks
  <2> QED
    BY <2>1, <2>2
<1>10. b.n = i + 1 /\ b.buf = SubSeq(s, 1, i + 1)
  BY <1>3, <1>4, <1>7
<1>11. ReadTo(s, i + 1, b)
  BY <1>7, <1>8, <1>9, <1>10 DEF ReadTo
<1> QED
  BY <1>11 DEF b, c

LEMMA ReadBack ==
  ASSUME NEW s \in Seq(Cfg!Character), Unescaped(s), NEW left \in Cfg!Left,
         NEW z \in Seq(Cfg!Character), Len(z) >= Len(s) + 1, z[Len(s) + 1] = Cfg!Newline,
         \A i \in 1 .. Len(s) : z[i] = s[i]
  PROVE  /\ Cfg!ReadLine(z, left).n = Len(s) + 1
         /\ \E e \in 0 .. Len(s) : Cfg!ReadLine(z, left).buf = SubSeq(s, 1, e) /\ Blanks(s, e, Len(s))
<1> DEFINE n == Len(s)
           m == Len(z)
           Read(r) == r.n = n + 1 /\ r.st = "done" /\ \E e \in 0 .. n : r.buf = SubSeq(s, 1, e) /\ Blanks(s, e, n)
<1>1. n \in Nat /\ m \in Nat /\ n + 1 <= m
  BY LenProperties
<1>2. PICK f \in [0 .. m -> Accumulator] :
        /\ f[0] = Begin(left) /\ \A i \in 1 .. m : f[i] = Cfg!Char(f[i - 1], z[i])
        /\ Cfg!ReadLine(z, left) = f[m]
  BY ReadIs
<1>3. SubSeq(s, 1, 0) = <<>> /\ SubSeq(s, 1, n) = s /\ \A i \in 0 .. n : Len(SubSeq(s, 1, i)) = i
  BY FirstElements
<1> HIDE DEF n, m
<1>4. n # 0 => \A k \in Nat : k \in 1 .. n => ReadTo(s, k, f[k])
  <2> SUFFICES ASSUME n # 0 PROVE \A k \in Nat : k \in 1 .. n => ReadTo(s, k, f[k])
    OBVIOUS
  <2> DEFINE T == {k \in Nat : k \in 1 .. n => ReadTo(s, k, f[k])}
  <2>1. 0 \in T
    BY <1>1
  <2>2. \A k \in Nat : k \in T => k + 1 \in T
    <3> SUFFICES ASSUME NEW k \in Nat, k \in T, k + 1 \in 1 .. n PROVE ReadTo(s, k + 1, f[k + 1])
      OBVIOUS
    <3>1. k + 1 \in 1 .. m /\ (k + 1) - 1 = k /\ k \in 0 .. m
      BY <1>1
    <3>2. f[k + 1] = Cfg!Char(f[k], z[k + 1]) /\ f[k] \in Accumulator
      BY <1>2, <3>1
    <3>3. z[k + 1] = s[k + 1]
      BY DEF n
    <3>4. CASE k = 0
      <4>1. s[1] = z[1] /\ f[1] = Cfg!Char(Begin(left), s[1])
        BY <1>2, <3>2, <3>3, <3>4
      <4>2. ReadTo(s, 1, f[1])
        BY <4>1, ReadStarts DEF n
      <4> QED
        BY <3>4, <4>2
    <3>5. CASE k # 0
      <4>1. k \in 1 .. n /\ k + 1 <= n
        BY <1>1, <3>5
      <4>2. ReadTo(s, k, f[k])
        BY <4>1
      <4>3. ReadTo(s, k + 1, Cfg!Char(f[k], s[k + 1]))
        BY <3>2, <4>1, <4>2, ReadGoesOn DEF n
      <4> QED
        BY <3>2, <3>3, <4>3
    <3> QED
      BY <3>4, <3>5
  <2> HIDE DEF T
  <2>3. Nat \subseteq T
    BY <2>1, <2>2, Induction
  <2> QED
    BY <2>3 DEF T
<1>5. Read(f[n + 1])
  <2> DEFINE a == f[n]
             b == f[n + 1]
             c == Cfg!Newline
  <2>1. n + 1 \in 1 .. m /\ (n + 1) - 1 = n /\ n \in 0 .. m
    BY <1>1
  <2>2. b = Cfg!Char(a, c) /\ a \in Accumulator
    <3>1. z[n + 1] = c
      BY DEF n
    <3> QED
      BY <1>2, <2>1, <3>1
  <2>3. c \in Cfg!Character
    BY CharLetters
  <2>4. CASE n = 0
    <3>1. a = Begin(left)
      BY <1>2, <2>4
    <3>2. a.st = "first" /\ a.n = 0 /\ a.buf = <<>>
      BY <3>1 DEF Begin
    <3> HIDE DEF a, b
    <3>3. b = [Seen(a) EXCEPT !.st = "done"]
      BY <2>2, <3>2, CharIs
    <3>4. b.n = a.n + 1 /\ b.buf = a.buf /\ b.st = "done"
      BY <2>2, <2>3, <3>3, ReadFields
    <3>5. b.n = n + 1 /\ b.buf = SubSeq(s, 1, 0) /\ 0 \in 0 .. n /\ Blanks(s, 0, n)
      BY <1>3, <2>4, <3>2, <3>4 DEF Blanks
    <3>6. Read(b)
      BY <3>4, <3>5
    <3> QED
      BY <3>6 DEF b
  <2>5. CASE n # 0
    <3>1. ReadTo(s, n, a)
      BY <1>1, <1>4, <2>5
    <3> HIDE DEF a, b
    <3>2. a.st \in {"text", "equal"} /\ a.n = n /\ a.end \in 0 .. n /\ a.buf = SubSeq(s, 1, n) /\ Blanks(s, a.end, n)
      BY <3>1 DEF ReadTo
    <3>3. b = [Seen(a) EXCEPT !.st = "done", !.buf = Cfg!Close(a)]
      BY <2>2, <3>2, CharIs, CharLetters
    <3>4. b.n = a.n + 1 /\ b.buf = Cfg!Close(a) /\ b.st = "done"
      BY <2>2, <2>3, <3>3, ReadFields
    <3>5. a.buf = s /\ Len(a.buf) = n /\ a.end <= n
      BY <1>1, <1>3, <3>2 DEF n
    <3>6. Cfg!Close(a) = SubSeq(s, 1, a.end)
      BY <3>5 DEF Cfg!Close
    <3>7. Read(b)
      BY <3>2, <3>4, <3>6
    <3> QED
      BY <3>7 DEF b
  <2> QED
    BY <2>4, <2>5
<1>6. \A k \in Nat : k \in n + 1 .. m => f[k] = f[n + 1]
  <2> DEFINE T == {k \in Nat : k \in n + 1 .. m => f[k] = f[n + 1]}
  <2>1. 0 \in T
    BY <1>1
  <2>2. \A k \in Nat : k \in T => k + 1 \in T
    <3> SUFFICES ASSUME NEW k \in Nat, k \in T, k + 1 \in n + 1 .. m, k + 1 # n + 1 PROVE f[k + 1] = f[n + 1]
      OBVIOUS
    <3>1. k + 1 \in 1 .. m /\ (k + 1) - 1 = k /\ k \in n + 1 .. m
      BY <1>1
    <3>2. f[k + 1] = Cfg!Char(f[k], z[k + 1])
      BY <1>2, <3>1
    <3>3. f[k] = f[n + 1] /\ f[k].st = "done"
      BY <1>5, <3>1
    <3> QED
      BY <3>2, <3>3, CharIs
  <2> HIDE DEF T
  <2>3. Nat \subseteq T
    BY <2>1, <2>2, Induction
  <2> QED
    BY <2>3 DEF T
<1>7. f[m] = f[n + 1]
  BY <1>1, <1>6
<1>8. Read(Cfg!ReadLine(z, left))
  BY <1>2, <1>5, <1>7
<1> QED
  BY <1>8 DEF n

(* A line is read back as itself, and a comment as a comment.              *)
LEMMA CommentPart ==
  ASSUME NEW s \in Seq(Cfg!Character), Cfg!Comment(s), NEW e \in 0 .. Len(s)
  PROVE  Cfg!Comment(SubSeq(s, 1, e))
<1> DEFINE u == SubSeq(s, 1, e)
<1>1. Len(s) \in Nat /\ e \in Nat /\ e <= Len(s)
  BY LenProperties
<1>2. u \in Seq(Cfg!Character) /\ Len(u) = e /\ \A k \in 1 .. e : u[k] = s[k]
  BY FirstPart
<1> HIDE DEF u
<1>3. CASE \A i \in 1 .. Len(u) : u[i] = Cfg!Space
  <2>1. Cfg!Stripped(u) = <<>>
    BY <1>2, <1>3, StrippedIs
  <2> QED
    BY <2>1 DEF Cfg!Comment, u
<1>4. CASE \E i \in 1 .. Len(u) : u[i] # Cfg!Space
  <2>0. (\E i \in 1 .. Len(u) : u[i] # Cfg!Space)
          => \E k \in 1 .. Len(u) : /\ Inked(u, k) /\ Len(Cfg!Stripped(u)) = (Len(u) - k) + 1
                                    /\ \A i \in 1 .. (Len(u) - k) + 1 : Cfg!Stripped(u)[i] = u[(k + i) - 1]
    <3>1. u \in Seq(Cfg!Character)
      BY <1>2
    <3> QED
      BY <3>1, StrippedIs
  <2>1. PICK k \in 1 .. Len(u) : /\ Inked(u, k) /\ Len(Cfg!Stripped(u)) = (Len(u) - k) + 1
                                 /\ \A i \in 1 .. (Len(u) - k) + 1 : Cfg!Stripped(u)[i] = u[(k + i) - 1]
    BY <1>4, <2>0
  <2>2. k \in 1 .. Len(s) /\ u[k] = s[k] /\ \A j \in 1 .. k - 1 : u[j] = s[j]
    BY <1>1, <1>2
  <2>3. Inked(s, k)
    BY <2>1, <2>2 DEF Inked
  <2>4. \E i \in 1 .. Len(s) : s[i] # Cfg!Space
    BY <2>2, <2>3 DEF Inked
  <2>5. PICK l \in 1 .. Len(s) : /\ Inked(s, l) /\ Len(Cfg!Stripped(s)) = (Len(s) - l) + 1
                                 /\ \A i \in 1 .. (Len(s) - l) + 1 : Cfg!Stripped(s)[i] = s[(l + i) - 1]
    BY <2>4, StrippedIs
  <2>6. k = l
    BY <1>1, <2>2, <2>3, <2>5 DEF Inked
  <2>7. 1 \in 1 .. (Len(s) - l) + 1 /\ 1 \in 1 .. (Len(u) - k) + 1 /\ (l + 1) - 1 = l /\ (k + 1) - 1 = k
    BY <1>1, <1>2, <2>1, <2>5
  <2>8. Cfg!Stripped(s)[1] = s[l] /\ Cfg!Stripped(u)[1] = u[k] /\ Len(Cfg!Stripped(s)) # 0
    <3>1. Cfg!Stripped(s)[1] = s[(l + 1) - 1] /\ Cfg!Stripped(u)[1] = u[(k + 1) - 1]
      BY <2>1, <2>5, <2>7
    <3> QED
      BY <1>1, <2>5, <2>7, <3>1
  <2>9. Cfg!Stripped(s) # <<>>
    BY <2>8
  <2>10. Cfg!Stripped(s)[1] = Cfg!Hash
    BY <2>9 DEF Cfg!Comment
  <2>11. Cfg!Stripped(u)[1] = Cfg!Hash
    BY <2>2, <2>6, <2>8, <2>10
  <2> QED
    BY <2>11 DEF Cfg!Comment, u
<1> QED
  BY <1>3, <1>4

Alike(s, l) == IF Cfg!Comment(s) THEN Cfg!Comment(l) ELSE l = s
LEMMA PlainIsUnescaped ==
  ASSUME NEW s \in Line, Cfg!Plain(s)
  PROVE  Unescaped(s)
<1>1. Len(s) \in Nat
  BY LenProperties DEF Line
<1>2. CASE Cfg!Comment(s)
  <2>1. \A i \in 1 .. Len(s) : s[i] \notin {Cfg!Escape, Cfg!Equal, Cfg!Newline}
    BY <1>2 DEF Cfg!Plain
  <2> QED
    BY <1>1, <2>1 DEF Unescaped
<1>3. CASE ~Cfg!Comment(s)
  BY <1>3 DEF Cfg!Plain, Unescaped
<1> QED
  BY <1>2, <1>3

LEMMA EntryLength ==
  ASSUME NEW s \in Line, ~Cfg!Comment(s)
  PROVE  Len(s) \in Nat /\ Len(s) >= 2
<1>1. s \in Seq(Cfg!Character) /\ Len(s) \in Nat
  BY LenProperties DEF Line
<1>2. Cfg!Stripped(s) # <<>>
  BY DEF Cfg!Comment
<1>3. PICK k \in 1 .. Len(s) : Len(Cfg!Stripped(s)) = (Len(s) - k) + 1
  BY <1>1, <1>2, StrippedIs
<1>4. PICK e \in 2 .. Len(Cfg!Stripped(s)) : TRUE
  BY EntryIs
<1> QED
  BY <1>1, <1>3, <1>4

LEMMA LineBack ==
  ASSUME NEW s \in Line, Cfg!Plain(s), NEW left \in Cfg!Left,
         NEW z \in Seq(Cfg!Character), Len(z) >= Len(s) + 1, z[Len(s) + 1] = Cfg!Newline,
         \A i \in 1 .. Len(s) : z[i] = s[i]
  PROVE  /\ NextLine(z, left).n = Len(s) + 1
         /\ NextLine(z, left).line \in Line /\ Alike(s, NextLine(z, left).line)
<1> DEFINE r == Cfg!ReadLine(z, left)
           l == NextLine(z, left).line
<1>1. s \in Seq(Cfg!Character) /\ Len(s) \in Nat /\ Unescaped(s)
  BY LenProperties, PlainIsUnescaped DEF Line
<1>2. /\ r.n = Len(s) + 1
      /\ \E e \in 0 .. Len(s) : r.buf = SubSeq(s, 1, e) /\ Blanks(s, e, Len(s))
  BY <1>1, ReadBack
<1>3. PICK e \in 0 .. Len(s) : r.buf = SubSeq(s, 1, e) /\ Blanks(s, e, Len(s))
  BY <1>2
<1>4. left # Cfg!FromString
  <2>1. \A c : <<c>> = <<"string">> => c = "string"
    OBVIOUS
  <2>2. <<>> # <<"string">>
    OBVIOUS
  <2>3. Cfg!Letter # "string" /\ Cfg!Equal # "string"
    BY DEF Cfg!Letter, Cfg!Equal
  <2>4. left = <<>> \/ left = <<Cfg!Letter>> \/ left = <<Cfg!Equal>>
    BY DEF Cfg!Left
  <2> QED
    BY <2>1, <2>2, <2>3, <2>4 DEF Cfg!FromString
<1>5. NextLine(z, left) = [line |-> r.buf, n |-> r.n]
  BY <1>4 DEF NextLine, Cfg!FileLine
<1>6. l = SubSeq(s, 1, e) /\ NextLine(z, left).n = Len(s) + 1
  BY <1>2, <1>3, <1>5
<1>7. l \in Seq(Cfg!Character)
  BY <1>1, <1>6, FirstPart
<1> HIDE DEF l, r
<1>8. CASE Cfg!Comment(s)
  <2>1. Cfg!Comment(l)
    BY <1>1, <1>6, <1>8, CommentPart
  <2> QED
    BY <1>6, <1>7, <1>8, <2>1 DEF Line, Cfg!Valid, Alike, l
<1>9. CASE ~Cfg!Comment(s)
  <2>1. Len(s) >= 2
    BY <1>9, EntryLength
  <2>2. s[Len(s)] \notin {Cfg!Equal, Cfg!Space}
    BY <1>9 DEF Cfg!Plain
  <2>3. e = Len(s)
    <3>1. Len(s) \in 2 .. Len(s)
      BY <1>1, <2>1
    <3>2. Len(s) > e => s[Len(s)] \in {Cfg!Space, Cfg!Equal}
      BY <1>3, <3>1 DEF Blanks
    <3> QED
      BY <1>1, <2>2, <3>2
  <2>4. l = s
    BY <1>1, <1>6, <2>3, FirstElements
  <2> QED
    BY <1>6, <1>9, <2>4 DEF Alike, l
<1> QED
  BY <1>8, <1>9

(* The file, from each line on. *)
LEMMA WrittenIs ==
  ASSUME NEW ls, ls \in Seq(Line)
  PROVE  \E f \in [1 .. Len(ls) + 1 -> Seq(Cfg!Character)] :
           /\ f[Len(ls) + 1] = <<>>
           /\ \A i \in 1 .. Len(ls) : f[i] = ls[i] \o <<Cfg!Newline>> \o f[i + 1]
           /\ Cfg!Written(ls) = f[1]
<1> DEFINE n == Len(ls)
           S == Seq(Cfg!Character)
           E(i, z) == ls[i] \o <<Cfg!Newline>> \o z
           F == [k \in 1 .. n |-> [z \in S |-> E((n + 1) - k, z)]]
           a == <<>>
           Is(f) == f = [i \in 1 .. n + 1 |-> IF i > n THEN <<>> ELSE E(i, f[i + 1])]
           r == CHOOSE f : Is(f)
<1>1. n \in Nat /\ \A i \in 1 .. n : ls[i] \in S
  BY LenProperties, ElementOfSeq DEF Line
<1>2. \A i \in 1 .. n : \A z \in S : E(i, z) \in S
  <2> SUFFICES ASSUME NEW i \in 1 .. n, NEW z \in S PROVE E(i, z) \in S
    OBVIOUS
  <2>1. ls[i] \in S /\ <<Cfg!Newline>> \in S
    BY <1>1, CharLetters
  <2>2. ls[i] \o <<Cfg!Newline>> \in S
    BY <2>1, ConcatProperties
  <2> QED
    BY <2>2, ConcatProperties
<1>3. a \in S
  OBVIOUS
<1>4. Cfg!Written(ls) = r[1]
  BY DEF Cfg!Written
<1> HIDE DEF n, S, E, a, r
<1>5. F \in [1 .. n -> [S -> S]]
  <2>1. \A k \in 1 .. n : (n + 1) - k \in 1 .. n
    BY <1>1
  <2> QED
    BY <1>2, <2>1
<1>6. \A k \in 1 .. n : \A z \in S : F[k][z] = E((n + 1) - k, z)
  OBVIOUS
<1> HIDE DEF F, Is
<1>7. n \in Nat
  BY <1>1
<1>8. PICK g \in [0 .. n -> S] : g[0] = a /\ \A k \in 1 .. n : g[k] = F[k][g[k - 1]]
  BY <1>3, <1>5, <1>7, StepsExist
<1> DEFINE f == [i \in 1 .. n + 1 |-> g[(n + 1) - i]]
<1>9. f \in [1 .. n + 1 -> S]
  BY <1>7, <1>8
<1>10. f[n + 1] = a
  <2>1. n + 1 \in 1 .. n + 1 /\ (n + 1) - (n + 1) = 0
    BY <1>7
  <2> QED
    BY <1>8, <2>1
<1>11. \A i \in 1 .. n : f[i] = E(i, f[i + 1])
  <2> SUFFICES ASSUME NEW i \in 1 .. n PROVE f[i] = E(i, f[i + 1])
    OBVIOUS
  <2> DEFINE k == (n + 1) - i
  <2>1. i \in 1 .. n + 1 /\ i + 1 \in 1 .. n + 1 /\ k \in 1 .. n /\ k - 1 \in 0 .. n /\ (n + 1) - (i + 1) = k - 1 /\ (n + 1) - k = i
    BY <1>7
  <2>2. f[i] = g[k] /\ f[i + 1] = g[k - 1]
    BY <2>1
  <2> HIDE DEF f, k
  <2>3. g[k] = F[k][g[k - 1]] /\ g[k - 1] \in S
    BY <1>8, <2>1
  <2>4. g[k] = E((n + 1) - k, g[k - 1])
    BY <1>6, <2>1, <2>3
  <2> QED
    BY <2>1, <2>2, <2>4
<1> HIDE DEF f
<1>12. Is(f)
  <2> DEFINE h == [i \in 1 .. n + 1 |-> IF i > n THEN <<>> ELSE E(i, f[i + 1])]
  <2>1. \A i \in 1 .. n + 1 : f[i] = h[i]
    <3> SUFFICES ASSUME NEW i \in 1 .. n + 1 PROVE f[i] = h[i]
      OBVIOUS
    <3>1. CASE i > n
      <4>1. i = n + 1
        BY <1>7, <3>1
      <4> QED
        BY <1>10, <3>1, <4>1 DEF a
    <3>2. CASE ~(i > n)
      <4>1. i \in 1 .. n
        BY <1>7, <3>2
      <4> QED
        BY <1>11, <3>2, <4>1
    <3> QED
      BY <3>1, <3>2
  <2>2. DOMAIN f = 1 .. n + 1 /\ DOMAIN h = 1 .. n + 1
    BY <1>9
  <2>3. f = h
    BY <1>9, <2>1, <2>2
  <2> QED
    BY <2>3 DEF Is
<1>13. Is(r)
  BY <1>12 DEF r
<1>14. r[n + 1] = <<>> /\ \A i \in 1 .. n : r[i] = E(i, r[i + 1])
  <2>1. n + 1 \in 1 .. n + 1 /\ n + 1 > n /\ \A i \in 1 .. n : i \in 1 .. n + 1 /\ ~(i > n)
    BY <1>7
  <2> QED
    BY <1>13, <2>1 DEF Is
<1>15. r \in [1 .. n + 1 -> S]
  <2> DEFINE T == {m \in Nat : m <= n => r[(n + 1) - m] \in S}
  <2>1. 0 \in T
    <3>1. (n + 1) - 0 = n + 1
      BY <1>7
    <3> QED
      BY <1>3, <1>14, <3>1 DEF a
  <2>2. \A m \in Nat : m \in T => m + 1 \in T
    <3> SUFFICES ASSUME NEW m \in Nat, m \in T, m + 1 <= n PROVE r[(n + 1) - (m + 1)] \in S
      OBVIOUS
    <3>1. (n + 1) - (m + 1) \in 1 .. n /\ ((n + 1) - (m + 1)) + 1 = (n + 1) - m /\ m <= n
      BY <1>7
    <3>2. r[(n + 1) - m] \in S
      BY <3>1
    <3> DEFINE j == (n + 1) - (m + 1)
    <3>3. r[j] = E(j, r[j + 1]) /\ r[j + 1] \in S
      BY <1>14, <3>1, <3>2
    <3> QED
      BY <1>2, <3>1, <3>3
  <2> HIDE DEF T
  <2>3. Nat \subseteq T
    BY <2>1, <2>2, Induction
  <2>4. \A i \in 1 .. n + 1 : r[i] \in S
    <3> SUFFICES ASSUME NEW i \in 1 .. n + 1 PROVE r[i] \in S
      OBVIOUS
    <3>1. (n + 1) - i \in Nat /\ (n + 1) - i <= n /\ (n + 1) - ((n + 1) - i) = i
      BY <1>7
    <3>2. (n + 1) - i \in T
      BY <2>3, <3>1
    <3> DEFINE m == (n + 1) - i
    <3>3. m \in T /\ m <= n /\ (n + 1) - m = i
      BY <3>1, <3>2
    <3> HIDE DEF m
    <3>4. r[(n + 1) - m] \in S
      BY <3>3 DEF T
    <3> QED
      BY <3>3, <3>4
  <2> QED
    BY <1>13, <2>4 DEF Is
<1>16. \A i \in 1 .. n : r[i] = ls[i] \o <<Cfg!Newline>> \o r[i + 1]
  BY <1>14 DEF E
<1> QED
  BY <1>4, <1>14, <1>15, <1>16 DEF n, S

LEMMA ConcatLine ==
  ASSUME NEW E, NEW s \in Seq(E), NEW e \in E, NEW v \in Seq(E), NEW z, z = s \o <<e>> \o v
  PROVE  /\ z \in Seq(E) /\ Len(z) = (Len(s) + 1) + Len(v) /\ z[Len(s) + 1] = e
         /\ \A i \in 1 .. Len(s) : z[i] = s[i]
         /\ SubSeq(z, (Len(s) + 1) + 1, Len(z)) = v
<1> DEFINE u == s \o <<e>>
<1>1. Len(s) \in Nat /\ Len(v) \in Nat /\ <<e>> \in Seq(E) /\ Len(<<e>>) = 1 /\ <<e>>[1] = e
  BY LenProperties
<1>2. /\ u \in Seq(E) /\ Len(u) = Len(s) + 1
      /\ \A i \in 1 .. Len(s) + 1 : u[i] = IF i <= Len(s) THEN s[i] ELSE <<e>>[i - Len(s)]
  BY <1>1, ConcatProperties
<1>3. u[Len(s) + 1] = e /\ \A i \in 1 .. Len(s) : u[i] = s[i]
  <2>1. Len(s) + 1 \in 1 .. Len(s) + 1 /\ ~(Len(s) + 1 <= Len(s)) /\ (Len(s) + 1) - Len(s) = 1
    BY <1>1
  <2>2. \A i \in 1 .. Len(s) : i \in 1 .. Len(s) + 1 /\ i <= Len(s)
    BY <1>1
  <2> HIDE DEF u
  <2> QED
    BY <1>1, <1>2, <2>1, <2>2
<1> HIDE DEF u
<1>4. z = u \o v
  BY DEF u
<1>5. /\ z \in Seq(E) /\ Len(z) = Len(u) + Len(v)
      /\ \A i \in 1 .. Len(u) + Len(v) : z[i] = IF i <= Len(u) THEN u[i] ELSE v[i - Len(u)]
  BY <1>2, <1>4, ConcatProperties
<1>6. \A i \in 1 .. Len(s) + 1 : z[i] = u[i]
  BY <1>1, <1>2, <1>5
<1>7. z[Len(s) + 1] = e /\ \A i \in 1 .. Len(s) : z[i] = s[i]
  BY <1>1, <1>3, <1>6
<1>8. Slice(z, Len(u), Len(z)) = v
  <2>1. \A a, b \in Seq(E) : Slice(a \o b, Len(a), Len(a \o b)) = b
    BY PartOfConcat
  <2> QED
    BY <1>2, <1>4, <2>1
<1>9. SubSeq(z, (Len(s) + 1) + 1, Len(z)) = v
  BY <1>2, <1>8 DEF Slice
<1> QED
  BY <1>2, <1>5, <1>7, <1>9

LEMMA WrittenLength ==
  ASSUME NEW ls, ls \in Seq(Line), NEW f, f \in [1 .. Len(ls) + 1 -> Seq(Cfg!Character)],
         \A i \in 1 .. Len(ls) : f[i] = ls[i] \o <<Cfg!Newline>> \o f[i + 1]
  PROVE  Len(ls) <= Len(f[1])
<1> DEFINE n == Len(ls)
           T == {k \in Nat : k <= n => Len(f[(n + 1) - k]) >= k}
<1>1. n \in Nat /\ \A i \in 1 .. n : ls[i] \in Seq(Cfg!Character)
  BY LenProperties, ElementOfSeq DEF Line
<1>a. \A i \in 1 .. n + 1 : f[i] \in Seq(Cfg!Character) /\ Len(f[i]) \in Nat
  BY LenProperties
<1>2. 0 \in T
  <2>1. (n + 1) - 0 \in 1 .. n + 1
    BY <1>1
  <2> QED
    BY <1>a, <2>1
<1>3. \A k \in Nat : k \in T => k + 1 \in T
  <2> SUFFICES ASSUME NEW k \in Nat, k \in T, k + 1 <= n PROVE Len(f[(n + 1) - (k + 1)]) >= k + 1
    OBVIOUS
  <2> DEFINE i == (n + 1) - (k + 1)
  <2>1. i \in 1 .. n /\ i \in 1 .. n + 1 /\ i + 1 \in 1 .. n + 1 /\ i + 1 = (n + 1) - k
    BY <1>1
  <2>2. Len(f[i + 1]) >= k
    BY <1>1, <2>1
  <2>3. f[i] = ls[i] \o <<Cfg!Newline>> \o f[i + 1]
    BY <2>1
  <2> HIDE DEF i, n
  <2>4. Len(f[i]) = (Len(ls[i]) + 1) + Len(f[i + 1])
    BY <1>1, <1>a, <2>1, <2>3, ConcatLine, CharLetters
  <2>5. Len(ls[i]) \in Nat /\ Len(f[i + 1]) \in Nat
    BY <1>1, <1>a, <2>1, LenProperties
  <2>6. Len(f[i]) >= k + 1
    <3> DEFINE p == Len(ls[i])
               q == Len(f[i + 1])
               x == Len(f[i])
    <3>1. x = (p + 1) + q /\ p \in Nat /\ q \in Nat /\ q >= k
      BY <2>2, <2>4, <2>5
    <3> HIDE DEF p, q, x
    <3>2. x >= k + 1
      BY <3>1
    <3> QED
      BY <3>2 DEF x
  <2> QED
    BY <2>6 DEF i
<1> HIDE DEF T
<1>4. Nat \subseteq T
  BY <1>2, <1>3, Induction
<1>5. n \in T /\ (n + 1) - n = 1
  BY <1>1, <1>4
<1> QED
  BY <1>1, <1>5 DEF T

LEMMA AddsBack ==
  ASSUME NEW ls, ls \in Seq(Line), \A i \in 1 .. Len(ls) : Cfg!Plain(ls[i]), NEW left, left \in Cfg!Left,
         NEW a, a = Cfg!AddLines(<<>>, Cfg!Written(ls), left)
  PROVE  a.ok /\ Len(a.ls) = Len(ls) /\ \A i \in 1 .. Len(ls) : Alike(ls[i], a.ls[i])
<1> DEFINE n == Len(ls)
           s == Cfg!Written(ls)
           m == Len(s) + 1
<1>1. PICK w \in [1 .. n + 1 -> Seq(Cfg!Character)] :
        /\ w[n + 1] = <<>> /\ s = w[1]
        /\ \A i \in 1 .. n : w[i] = ls[i] \o <<Cfg!Newline>> \o w[i + 1]
  BY WrittenIs
<1>2. n \in Nat /\ \A i \in 1 .. n : ls[i] \in Line /\ ls[i] \in Seq(Cfg!Character) /\ Len(ls[i]) \in Nat
  BY LenProperties, ElementOfSeq DEF Line
<1>3. s \in Seq(Cfg!Character) /\ Len(s) \in Nat /\ n <= Len(s)
  <2>1. s \in Seq(Cfg!Character)
    <3>1. 1 \in 1 .. n + 1
      BY <1>2
    <3> QED
      BY <1>1, <3>1
  <2>2. n <= Len(w[1])
    BY <1>1, WrittenLength
  <2> QED
    BY <1>1, <2>1, <2>2, LenProperties
<1>4. Loadable(<<>>, s, left)
  <2>1. <<>> \in Seq(Line)
    OBVIOUS
  <2> QED
    BY <1>3, <2>1 DEF Loadable, Source
<1> HIDE DEF s
<1>5. PICK f \in [0 .. m -> Progress(<<>>)] :
        /\ f[0] = [ls |-> <<>>, rest |-> s, ok |-> TRUE]
        /\ \A i \in 1 .. m : f[i] = LineStep(f[i - 1], left)
        /\ Cfg!AddLines(<<>>, s, left) = f[m]
  BY <1>4, AddIs
<1> DEFINE Added(i, g) == /\ g.ok /\ g.rest = w[i + 1] /\ Len(g.ls) = i
                          /\ \A j \in 1 .. i : Alike(ls[j], g.ls[j])
<1>a. m \in Nat /\ n <= m
  BY <1>2, <1>3
<1> HIDE DEF n, m
<1>6. \A i \in Nat : i <= n => Added(i, f[i])
  <2> DEFINE T == {i \in Nat : i <= n => Added(i, f[i])}
  <2>1. 0 \in T
    <3>1. f[0].ok /\ f[0].rest = w[0 + 1] /\ Len(f[0].ls) = 0
      BY <1>1, <1>5
    <3> QED
      BY <3>1
  <2>2. \A i \in Nat : i \in T => i + 1 \in T
    <3> SUFFICES ASSUME NEW i \in Nat, Added(i, f[i]), i + 1 <= n PROVE Added(i + 1, f[i + 1])
      BY <1>2
    <3> DEFINE g == f[i]
               l == ls[i + 1]
               z == w[i + 1]
               u == w[(i + 1) + 1]
    <3>1. i + 1 \in 1 .. n /\ i + 1 \in 1 .. m /\ (i + 1) - 1 = i /\ i \in 0 .. m /\ (i + 1) + 1 \in 1 .. n + 1 /\ i + 1 \in 1 .. n + 1
      BY <1>2, <1>a
    <3>2. g \in Progress(<<>>) /\ f[i + 1] = LineStep(g, left)
      BY <1>5, <3>1
    <3>3. g.ok /\ g.rest = z /\ Len(g.ls) = i /\ \A j \in 1 .. i : Alike(ls[j], g.ls[j])
      OBVIOUS
    <3>4. l \in Line /\ l \in Seq(Cfg!Character) /\ Len(l) \in Nat /\ Cfg!Plain(l)
      BY <1>2, <3>1 DEF n
    <3>5. u \in Seq(Cfg!Character) /\ Len(u) \in Nat
      BY <1>1, <3>1, LenProperties
    <3>6. z = l \o <<Cfg!Newline>> \o u
      BY <1>1, <3>1
    <3>7. g.ls \in Seq(Line)
      BY <3>2 DEF Progress
    <3> HIDE DEF g, l, z, u, Added
    <3>8. /\ z \in Seq(Cfg!Character) /\ Len(z) = (Len(l) + 1) + Len(u) /\ z[Len(l) + 1] = Cfg!Newline
          /\ \A k \in 1 .. Len(l) : z[k] = l[k]
          /\ SubSeq(z, (Len(l) + 1) + 1, Len(z)) = u
      BY <3>4, <3>5, <3>6, ConcatLine, CharLetters
    <3>9. Len(z) >= Len(l) + 1 /\ z # <<>>
      <4>1. Len(z) >= Len(l) + 1 /\ Len(z) # 0
        BY <3>4, <3>5, <3>8
      <4> QED
        BY <4>1
    <3> DEFINE x == NextLine(z, left)
    <3>10. x.n = Len(l) + 1 /\ x.line \in Line /\ Alike(l, x.line)
      BY <3>4, <3>8, <3>9, LineBack
    <3>11. Cfg!Valid(x.line)
      BY <3>10 DEF Line
    <3> HIDE DEF x
    <3>12. f[i + 1] = [ls |-> Append(g.ls, x.line), rest |-> u, ok |-> TRUE]
      <4>1. LineStep(g, left) = [ls |-> Append(g.ls, x.line), rest |-> SubSeq(z, x.n + 1, Len(z)), ok |-> TRUE]
        BY <3>3, <3>9, <3>11 DEF LineStep, x
      <4> QED
        BY <3>2, <3>8, <3>10, <4>1
    <3>13. Len(Append(g.ls, x.line)) = i + 1 /\ \A j \in 1 .. i : Append(g.ls, x.line)[j] = g.ls[j]
      BY <3>3, <3>7, <3>10, AppendProperties
    <3>14. Append(g.ls, x.line)[i + 1] = x.line
      BY <3>3, <3>7, <3>10, AppendProperties
    <3>15. \A j \in 1 .. i + 1 : Alike(ls[j], Append(g.ls, x.line)[j])
      <4> SUFFICES ASSUME NEW j \in 1 .. i + 1 PROVE Alike(ls[j], Append(g.ls, x.line)[j])
        OBVIOUS
      <4>1. CASE j = i + 1
        BY <3>10, <3>14, <4>1 DEF l
      <4>2. CASE j # i + 1
        <5>1. j \in 1 .. i
          BY <4>2
        <5> QED
          BY <3>3, <3>13, <5>1
      <4> QED
        BY <4>1, <4>2
    <3>16. f[i + 1].ok /\ f[i + 1].rest = u /\ f[i + 1].ls = Append(g.ls, x.line)
      BY <3>12
    <3> QED
      BY <3>13, <3>15, <3>16 DEF Added, u
  <2> HIDE DEF T
  <2>3. Nat \subseteq T
    BY <2>1, <2>2, Induction
  <2> QED
    BY <2>3 DEF T
<1>7. Added(n, f[n])
  BY <1>2, <1>6
<1>8. \A i \in Nat : i \in n .. m => f[i] = f[n]
  <2> DEFINE T == {i \in Nat : i \in n .. m => f[i] = f[n]}
  <2>1. 0 \in T
    BY <1>2
  <2>2. \A i \in Nat : i \in T => i + 1 \in T
    <3> SUFFICES ASSUME NEW i \in Nat, i \in T, i + 1 \in n .. m, i + 1 # n PROVE f[i + 1] = f[n]
      OBVIOUS
    <3>1. i + 1 \in 1 .. m /\ (i + 1) - 1 = i /\ i \in n .. m
      BY <1>2, <1>a
    <3>2. f[i + 1] = LineStep(f[n], left)
      BY <1>5, <3>1
    <3>3. f[n].rest = <<>>
      BY <1>1, <1>7
    <3> QED
      BY <3>2, <3>3 DEF LineStep
  <2> HIDE DEF T
  <2>3. Nat \subseteq T
    BY <2>1, <2>2, Induction
  <2> QED
    BY <2>3 DEF T
<1>9. a = f[n]
  BY <1>5, <1>8, <1>a, <1>2 DEF s
<1> QED
  BY <1>7, <1>9 DEF n

-----------------------------------------------------------------------------
(* What holds of a cfg: its lines are comments and entries; and if a file  *)
(* was stored and is unchanged since, it has those lines, and a load on    *)
(* nothing has them back.                                                  *)
CfgType == lines \in Seq(Line) /\ file \in Seq(Cfg!Character) /\ stored \in Seq(Line)
AllPlain == \A i \in 1 .. Len(stored) : Cfg!Plain(stored[i])
CfgKept == stored # <<>> =>
             /\ file = Cfg!Written(stored)
             /\ done.op = "clear" => lines = <<>>
             /\ done.op = "file" /\ AllPlain =>
                  done.ok /\ Len(lines) = Len(stored) /\ \A i \in 1 .. Len(stored) : Alike(stored[i], lines[i])
CfgInv == which = "cfg" => CfgType /\ CfgKept
CfgKeeps == CfgType' /\ CfgKept' /\ Cfg!Whole

LEMMA LoadedIs ==
  ASSUME lines \in Seq(Line), NEW a \in Progress(lines)
  PROVE  /\ a.ls \in Seq(Line) /\ Cfg!Loaded(a) \in Seq(Line) /\ a.ok \in BOOLEAN
         /\ a.ok => Cfg!Loaded(a) = a.ls /\ Cfg!IsPrefix(lines, Cfg!Loaded(a))
         /\ ~a.ok => Cfg!Loaded(a) = <<>>
<1>1. a.ls \in Seq(Line) /\ Cfg!IsPrefix(lines, a.ls) /\ a.ok \in BOOLEAN
  BY DEF Progress
<1>2. <<>> \in Seq(Line)
  OBVIOUS
<1> QED
  BY <1>1, <1>2 DEF Cfg!Loaded

LEMMA NoLines == <<>> \in Seq(Line) /\ Cfg!IsPrefix(<<>>, <<>>)
BY DEF Cfg!IsPrefix

LEMMA AddedType ==
  ASSUME NEW ls, NEW s, NEW from, Loadable(ls, s, from)
  PROVE  Cfg!AddLines(ls, s, from) \in Progress(ls)
<1>1. PICK f \in [0 .. Len(s) + 1 -> Progress(ls)] :
        /\ f[0] = [ls |-> ls, rest |-> s, ok |-> TRUE]
        /\ \A i \in 1 .. Len(s) + 1 : f[i] = LineStep(f[i - 1], from)
        /\ Cfg!AddLines(ls, s, from) = f[Len(s) + 1]
  BY AddIs
<1>2. Len(s) + 1 \in 0 .. Len(s) + 1
  BY LenProperties DEF Loadable
<1> QED
  BY <1>1, <1>2

LEMMA PairsType ==
  ASSUME NEW ls, NEW s, Loadable(ls, s, Cfg!FromString)
  PROVE  Cfg!AddPairs(ls, s) \in Progress(ls)
<1>1. PICK f \in [0 .. Len(s) + 1 -> Progress(ls)] : Cfg!AddPairs(ls, s) = f[Len(s) + 1]
  BY PairsAre
<1>2. Len(s) + 1 \in 0 .. Len(s) + 1
  BY LenProperties DEF Loadable
<1> QED
  BY <1>1, <1>2

LEMMA TextType ==
  ASSUME NEW s \in Cfg!Text
  PROVE  s \in Seq(Cfg!Character)
<1>1. PICK m \in 0 .. TextLen : s \in [1 .. m -> {Cfg!Letter, Cfg!Equal, Cfg!Space, Cfg!Hash, Cfg!Escape, Cfg!Newline}]
  BY DEF Cfg!Text, Cfg!SeqOf
<1>2. m \in Nat
  BY CfgAssumption
<1>3. s \in [1 .. m -> Cfg!Character]
  BY <1>1 DEF Cfg!Character
<1> QED
  BY <1>2, <1>3

LEMMA WrittenType ==
  ASSUME NEW ls, ls \in Seq(Line)
  PROVE  Cfg!Written(ls) \in Seq(Cfg!Character)
<1>1. PICK f \in [1 .. Len(ls) + 1 -> Seq(Cfg!Character)] : Cfg!Written(ls) = f[1]
  BY WrittenIs
<1>2. 1 \in 1 .. Len(ls) + 1
  BY LenProperties
<1> QED
  BY <1>1, <1>2

LEMMA LoadStrKeeps ==
  ASSUME CfgType, CfgKept, Cfg!LoadStr
  PROVE  CfgKeeps
<1>1. PICK s \in Cfg!Texts : /\ lines' = Cfg!Loaded(Cfg!AddLines(lines, s, Cfg!FromString))
                             /\ done' = [op |-> "str", ok |-> Cfg!AddLines(lines, s, Cfg!FromString).ok]
                             /\ stored' = <<>> /\ file' = file
  BY DEF Cfg!LoadStr, Cfg!Did, Cfg!Nothing
<1> DEFINE a == Cfg!AddLines(lines, s, Cfg!FromString)
<1>2. s \in Seq(Cfg!Character)
  BY TextType, CfgAssumption DEF Cfg!Texts
<1>3. a \in Progress(lines)
  BY <1>2, AddedType DEF Loadable, Source, CfgType
<1>4. lines' = Cfg!Loaded(a) /\ done'.op = "str" /\ done'.ok = a.ok
  BY <1>1
<1> HIDE DEF a
<1>5. CfgType' /\ CfgKept'
  BY <1>1, <1>3, <1>4, LoadedIs, NoLines DEF CfgType, CfgKept
<1>6. Cfg!Whole
  BY <1>3, <1>4, LoadedIs DEF CfgType, Cfg!Whole
<1> QED
  BY <1>5, <1>6 DEF CfgKeeps

LEMMA LoadKeeps ==
  ASSUME CfgType, CfgKept, Cfg!Load
  PROVE  CfgKeeps
<1>1. PICK left \in Cfg!Left : /\ lines' = Cfg!Loaded(Cfg!AddLines(lines, file, left))
                               /\ done' = [op |-> "file", ok |-> Cfg!AddLines(lines, file, left).ok]
                               /\ stored' = (IF done.op = "clear" THEN stored ELSE <<>>) /\ file' = file
  BY DEF Cfg!Load, Cfg!Did, Cfg!Nothing
<1> DEFINE a == Cfg!AddLines(lines, file, left)
<1>2. a \in Progress(lines)
  BY AddedType DEF Loadable, Source, CfgType
<1>3. lines' = Cfg!Loaded(a) /\ done'.op = "file" /\ done'.ok = a.ok
  BY <1>1
<1>4. ASSUME stored' # <<>> PROVE /\ file' = Cfg!Written(stored')
                                  /\ AllPlain' => /\ a.ok /\ Len(a.ls) = Len(stored')
                                                  /\ \A i \in 1 .. Len(stored') : Alike(stored'[i], a.ls[i])
  <2>1. stored' = stored /\ done.op = "clear"
    BY <1>1, <1>4
  <2>2. file = Cfg!Written(stored) /\ lines = <<>>
    BY <1>4, <2>1 DEF CfgKept
  <2>3. AllPlain => a.ok /\ Len(a.ls) = Len(stored) /\ \A i \in 1 .. Len(stored) : Alike(stored[i], a.ls[i])
    <3> SUFFICES ASSUME AllPlain
                 PROVE  a.ok /\ Len(a.ls) = Len(stored) /\ \A i \in 1 .. Len(stored) : Alike(stored[i], a.ls[i])
      OBVIOUS
    <3>1. a = Cfg!AddLines(<<>>, Cfg!Written(stored), left)
      BY <2>2
    <3>2. stored \in Seq(Line) /\ \A i \in 1 .. Len(stored) : Cfg!Plain(stored[i])
      BY DEF CfgType, AllPlain
    <3> HIDE DEF a
    <3> QED
      BY <3>1, <3>2, AddsBack
  <2>4. AllPlain' = AllPlain
    BY <2>1 DEF AllPlain
  <2> QED
    BY <1>1, <2>1, <2>2, <2>3, <2>4
<1> HIDE DEF a
<1>5. CfgType'
  BY <1>1, <1>2, <1>3, LoadedIs, NoLines DEF CfgType
<1>6. Cfg!Whole
  BY <1>2, <1>3, LoadedIs DEF CfgType, Cfg!Whole
<1>7. a.ok => lines' = a.ls
  BY <1>2, <1>3, LoadedIs DEF CfgType
<1>8. CfgKept'
  BY <1>3, <1>4, <1>7 DEF CfgKept
<1> QED
  BY <1>5, <1>6, <1>8 DEF CfgKeeps

LEMMA LoadEnvKeeps ==
  ASSUME CfgType, CfgKept, Cfg!LoadEnv
  PROVE  CfgKeeps
<1>1. PICK env \in Environ :
        /\ lines' = IF \A i \in 1 .. Len(env) : Cfg!Valid(env[i]) THEN lines \o env ELSE <<>>
        /\ done' = [op |-> "env", ok |-> \A i \in 1 .. Len(env) : Cfg!Valid(env[i])]
        /\ stored' = <<>> /\ file' = file
  BY DEF Cfg!LoadEnv, Cfg!Did, Cfg!Nothing
<1> DEFINE ok == \A i \in 1 .. Len(env) : Cfg!Valid(env[i])
<1>2. env \in Seq(Seq(Cfg!Character))
  BY CfgAssumption
<1>3. ok => lines \o env \in Seq(Line) /\ Cfg!IsPrefix(lines, lines \o env)
  <2> SUFFICES ASSUME ok PROVE lines \o env \in Seq(Line) /\ Cfg!IsPrefix(lines, lines \o env)
    OBVIOUS
  <2>1. Len(env) \in Nat /\ \A i \in 1 .. Len(env) : env[i] \in Line
    BY <1>2, LenProperties, ElementOfSeq DEF Line
  <2>2. env \in Seq(Line)
    <3>1. env \in [1 .. Len(env) -> Line]
      BY <1>2, <2>1
    <3> QED
      BY <2>1, <3>1
  <2> DEFINE u == lines \o env
  <2>3. /\ u \in Seq(Line) /\ Len(u) = Len(lines) + Len(env)
        /\ \A i \in 1 .. Len(lines) + Len(env) : u[i] = IF i <= Len(lines) THEN lines[i] ELSE env[i - Len(lines)]
    BY <2>2, ConcatProperties DEF CfgType
  <2>4. Len(lines) \in Nat /\ lines \in Seq(Line)
    BY LenProperties DEF CfgType
  <2> HIDE DEF u
  <2>5. Len(lines) <= Len(u) /\ \A i \in 1 .. Len(lines) : lines[i] = u[i]
    BY <2>1, <2>3, <2>4
  <2>6. Cfg!IsPrefix(lines, u)
    BY <2>3, <2>4, <2>5, PrefixIs
  <2> QED
    BY <2>3, <2>6 DEF u
<1>4. lines' = (IF ok THEN lines \o env ELSE <<>>) /\ done'.op = "env" /\ done'.ok = ok
  BY <1>1
<1> HIDE DEF ok
<1>5. CfgType' /\ CfgKept'
  BY <1>1, <1>3, <1>4, NoLines DEF CfgType, CfgKept
<1>6. Cfg!Whole
  BY <1>3, <1>4 DEF Cfg!Whole
<1> QED
  BY <1>5, <1>6 DEF CfgKeeps

LEMMA LoadQueryKeeps ==
  ASSUME CfgType, CfgKept, Cfg!LoadQuery
  PROVE  CfgKeeps
<1>1. PICK q \in Query : /\ lines' = Cfg!AddPairs(lines, q).ls
                         /\ done' = [op |-> "cgi", ok |-> Cfg!AddPairs(lines, q).ok]
                         /\ stored' = <<>> /\ file' = file
  BY DEF Cfg!LoadQuery, Cfg!Did, Cfg!Nothing
<1>2. Cfg!AddPairs(lines, q) \in Progress(lines)
  BY PairsType, CfgAssumption DEF Loadable, Source, CfgType
<1>3. lines' \in Seq(Line) /\ done'.op = "cgi"
  BY <1>1, <1>2, LoadedIs DEF CfgType
<1>4. CfgType' /\ CfgKept'
  BY <1>1, <1>3, NoLines DEF CfgType, CfgKept
<1>5. Cfg!Whole
  BY <1>3 DEF Cfg!Whole
<1> QED
  BY <1>4, <1>5 DEF CfgKeeps

LEMMA OthersKeep ==
  ASSUME CfgType, CfgKept, Cfg!LoadFails \/ Cfg!Edit \/ Cfg!Store \/ Cfg!StoreFails \/ Cfg!Clear
  PROVE  CfgKeeps
<1>1. CASE Cfg!LoadFails
  BY <1>1, NoLines DEF Cfg!LoadFails, Cfg!Did, Cfg!Nothing, CfgKeeps, CfgType, CfgKept, Cfg!Whole
<1>2. CASE Cfg!Edit
  <2>1. lines = <<>> /\ lines' = <<>> /\ done' = done /\ stored' = <<>> /\ file' \in Seq(Cfg!Character)
    BY <1>2, TextType DEF Cfg!Edit, Cfg!Nothing
  <2> QED
    BY <2>1, NoLines DEF CfgKeeps, CfgType, CfgKept, Cfg!Whole
<1>3. CASE Cfg!Store
  <2>1. file' = Cfg!Written(lines) /\ done' = [op |-> "store", ok |-> TRUE] /\ stored' = lines /\ lines' = lines
    BY <1>3 DEF Cfg!Store, Cfg!Did
  <2>2. file' \in Seq(Cfg!Character) /\ done'.op = "store"
    BY <2>1, WrittenType DEF CfgType
  <2> QED
    BY <2>1, <2>2 DEF CfgKeeps, CfgType, CfgKept, Cfg!Whole
<1>4. CASE Cfg!StoreFails
  <2>1. PICK k \in 0 .. Len(Cfg!Written(lines)) - 1, ok \in BOOLEAN :
          file' = SubSeq(Cfg!Written(lines), 1, k) /\ done' = [op |-> "store", ok |-> ok] /\ stored' = <<>> /\ lines' = lines
    BY <1>4 DEF Cfg!StoreFails, Cfg!Did, Cfg!Nothing
  <2> DEFINE z == Cfg!Written(lines)
  <2>2. z \in Seq(Cfg!Character) /\ Len(z) \in Nat
    BY WrittenType, LenProperties DEF CfgType
  <2>3. file' \in Seq(Cfg!Character)
    <3> HIDE DEF z
    <3>1. k \in 0 .. Len(z)
      BY <2>1, <2>2 DEF z
    <3>2. SubSeq(z, 1, k) \in Seq(Cfg!Character)
      BY <2>2, <3>1, FirstPart
    <3> QED
      BY <2>1, <3>2 DEF z
  <2>4. done'.op = "store"
    BY <2>1
  <2> QED
    BY <2>1, <2>3, <2>4, NoLines DEF CfgKeeps, CfgType, CfgKept, Cfg!Whole
<1>5. CASE Cfg!Clear
  <2>1. lines' = <<>> /\ done' = [op |-> "clear", ok |-> TRUE] /\ file' = file /\ stored' = stored
    BY <1>5 DEF Cfg!Clear, Cfg!Did
  <2>2. done'.op = "clear"
    BY <2>1
  <2> QED
    BY <2>1, <2>2, NoLines DEF CfgKeeps, CfgType, CfgKept, Cfg!Whole
<1> QED
  BY <1>1, <1>2, <1>3, <1>4, <1>5

LEMMA CfgInit ==
  ASSUME Init
  PROVE  CfgInv
<1>1. <<>> \in Seq(Cfg!Character) /\ <<>> \in Seq(Line)
  OBVIOUS
<1> QED
  BY <1>1 DEF Init, Cfg!Init, Cfg!Nothing, CfgInv, CfgType, CfgKept

LEMMA CfgStep ==
  ASSUME CfgInv, [Next]_vars
  PROVE  CfgInv' /\ ((which = "cfg" => Cfg!Whole) \/ vars' = vars)
<1>1. CASE Next
  <2>1. CASE which # "cfg"
    <3>1. which' = which
      BY <1>1 DEF Next
    <3>2. CfgInv'
      BY <2>1, <3>1 DEF CfgInv
    <3> QED
      BY <2>1, <3>2, Zenon
  <2>2. CASE which = "cfg"
    <3>1. which' = which /\ Cfg!Next
      BY <1>1, <2>2 DEF Next
    <3>2. CfgType /\ CfgKept
      BY <2>2 DEF CfgInv
    <3>3. CfgKeeps
      BY <3>1, <3>2, LoadStrKeeps, LoadKeeps, LoadEnvKeeps, LoadQueryKeeps, OthersKeep DEF Cfg!Next
    <3>4. CfgType' /\ CfgKept' /\ Cfg!Whole
      BY <3>3 DEF CfgKeeps
    <3>5. CfgInv'
      BY <3>4 DEF CfgInv
    <3> QED
      BY <3>4, <3>5, Zenon
  <2> QED
    BY <2>1, <2>2
<1>2. CASE vars' = vars
  <2>1. which' = which /\ lines' = lines /\ file' = file /\ done' = done /\ stored' = stored
    BY <1>2 DEF vars, cfgVars
  <2>2. CfgType' = CfgType /\ CfgKept' = CfgKept
    BY <2>1 DEF CfgType, CfgKept, AllPlain
  <2> QED
    BY <1>2, <2>1, <2>2 DEF CfgInv
<1> QED
  BY <1>1, <1>2

(* Lines that are alike are looked up alike. *)
LEMMA AlikeGets ==
  ASSUME NEW ls, NEW st, Len(ls) = Len(st), \A i \in 1 .. Len(st) : Alike(st[i], ls[i]),
         st \in Seq(Line), NEW n
  PROVE  Cfg!Get(ls, n) = Cfg!Get(st, n)
<1> DEFINE hits(x) == {i \in 1 .. Len(x) : Cfg!Named(x[i], n)}
           k == CHOOSE i \in hits(st) : \A j \in hits(st) : i <= j
<1>1. \A i \in 1 .. Len(st) : Cfg!Named(ls[i], n) <=> Cfg!Named(st[i], n)
  BY DEF Alike, Cfg!Named
<1>2. hits(ls) = hits(st)
  BY <1>1
<1>3. hits(st) # {} => ls[k] = st[k]
  <2> SUFFICES ASSUME hits(st) # {} PROVE ls[k] = st[k]
    OBVIOUS
  <2>1. Len(st) \in Nat
    BY LenProperties
  <2>2. hits(st) \subseteq Nat
    BY <2>1
  <2>3. \E i \in hits(st) : \A j \in hits(st) : i <= j
    BY <2>2, MinIsLeast
  <2>4. k \in hits(st)
    BY <2>3
  <2>5. k \in 1 .. Len(st) /\ ~Cfg!Comment(st[k])
    BY <2>4 DEF Cfg!Named
  <2> QED
    BY <2>5 DEF Alike
<1>4. Cfg!Get(st, n) = IF hits(st) = {} THEN <<Cfg!None>>
                       ELSE IF Cfg!UpTo(Cfg!Equal, Cfg!After(st[k], n)) > Len(Cfg!After(st[k], n)) THEN <<Cfg!Beyond>>
                       ELSE SubSeq(Cfg!After(st[k], n), Cfg!UpTo(Cfg!Equal, Cfg!After(st[k], n)) + 1, Len(Cfg!After(st[k], n)))
  BY DEF Cfg!Get
<1> DEFINE h == CHOOSE i \in hits(ls) : \A j \in hits(ls) : i <= j
<1>5. Cfg!Get(ls, n) = IF hits(ls) = {} THEN <<Cfg!None>>
                       ELSE IF Cfg!UpTo(Cfg!Equal, Cfg!After(ls[h], n)) > Len(Cfg!After(ls[h], n)) THEN <<Cfg!Beyond>>
                       ELSE SubSeq(Cfg!After(ls[h], n), Cfg!UpTo(Cfg!Equal, Cfg!After(ls[h], n)) + 1, Len(Cfg!After(ls[h], n)))
  BY DEF Cfg!Get
<1>6. h = k
  BY <1>2
<1> HIDE DEF h, k, hits
<1> QED
  BY <1>2, <1>3, <1>4, <1>5, <1>6

LEMMA CfgInvHolds ==
  ASSUME CfgInv, which = "cfg"
  PROVE  Cfg!Lookups /\ Cfg!Reload
<1>1. CfgType /\ CfgKept
  BY DEF CfgInv
<1>2. Cfg!Lookups
  BY <1>1, LookupsHold DEF CfgType
<1>3. ASSUME done.op = "file", stored # <<>>, AllPlain
      PROVE  done.ok /\ \A i \in 1 .. Len(stored) : Cfg!Get(lines, Cfg!Name(stored[i])) = Cfg!Get(stored, Cfg!Name(stored[i]))
  <2>1. done.ok /\ Len(lines) = Len(stored) /\ \A i \in 1 .. Len(stored) : Alike(stored[i], lines[i])
    BY <1>1, <1>3 DEF CfgKept
  <2>2. \A n : Cfg!Get(lines, n) = Cfg!Get(stored, n)
    BY <1>1, <2>1, AlikeGets DEF CfgType
  <2> QED
    BY <2>1, <2>2
<1>4. Cfg!Reload
  BY <1>3 DEF Cfg!Reload, Cfg!Nothing, AllPlain
<1> QED
  BY <1>2, <1>4

(* cfg.c: for all texts, environments and query strings, no lookup runs    *)
(* past its line, a load is all or nothing, and what was stored is loaded  *)
(* again as it was.                                                        *)
THEOREM CfgIsSound == Spec => CfgSound
<1>1. Init => CfgInv
  BY CfgInit
<1>2. CfgInv /\ [Next]_vars => CfgInv'
  BY CfgStep
<1>3. CfgInv => (which = "cfg" => Cfg!Lookups /\ Cfg!Reload)
  BY CfgInvHolds
<1>4. CfgInv /\ [Next]_vars => [which = "cfg" => Cfg!Whole]_vars
  BY CfgStep
<1> QED
  BY <1>1, <1>2, <1>3, <1>4, PTL DEF Spec, CfgSound
=============================================================================
