------------------------------- MODULE Pylcs -------------------------------
(***************************************************************************)
(* main.cpp: the functions the Python module exports, called with a string *)
(* and a list of strings.  A string is a sequence of bytes; of a byte only *)
(* its identity matters, and whether it continues a UTF-8 character.       *)
(***************************************************************************)
EXTENDS Hirschberg, SeqRef

CONSTANTS
  Starts,     \* bytes b with (b & 0xc0) # 0x80: ASCII and first bytes
  Conts,      \* the continuation bytes
  Leads,      \* the first bytes of a character of two bytes
  MaxLen,     \* bound: bytes of a string
  MaxList,    \* bound: strings of a list
  MaxItem     \* bound: bytes of a string in a list of more than one

ASSUME PylcsAssumption ==
  /\ Starts \cap Conts = {} /\ Leads \subseteq Starts
  /\ MaxLen \in Nat /\ MaxList \in Nat /\ MaxItem \in 0 .. MaxLen

VARIABLES
  fn,         \* the exported function called
  str1, str_list,
  ls          \* its results so far

vars == <<fn, str1, str_list, ls>>

Strings == BoundedSeq(Starts \cup Conts, MaxLen)
Lists   == BoundedSeq(Strings, 1)
             \cup BoundedSeq(BoundedSeq(Starts \cup Conts, MaxItem), MaxList)

(* utf8_split: a piece ends where the next byte is no continuation byte *)
utf8_split(str) ==
  LET done[right \in 0 .. Len(str)] ==
        IF right = 0 THEN [split |-> <<>>, left |-> 0]
        ELSE LET so_far == done[right - 1]
             IN IF right = Len(str) \/ str[right + 1] \notin Conts
                THEN [split |-> Append(so_far.split, SubSeq(str, so_far.left + 1, right)), left |-> right]
                ELSE so_far
  IN done[Len(str)].split

(* The tables of the three dynamic programs, over pieces s1 and s2, cell by *)
(* cell.                                                                   *)
Cells(s1, s2) == (0 .. Len(s1)) \X (0 .. Len(s2))

\* mutants: a subsequence may not leave out an element of s2; the edits of the
\* first row and column are not counted
LcsTable_NoSkip(s1, s2) ==
  LET dp[c \in Cells(s1, s2)] ==
        LET i == c[1]
            j == c[2]
        IN IF i = 0 \/ j = 0 THEN 0
           ELSE IF s1[i] = s2[j] THEN dp[<<i - 1, j - 1>>] + 1 ELSE dp[<<i - 1, j>>]
  IN dp
EditTable_ZeroEdge(s1, s2) ==
  LET dp[c \in Cells(s1, s2)] ==
        LET i == c[1]
            j == c[2]
        IN IF i = 0 \/ j = 0 THEN 0
           ELSE IF s1[i] = s2[j] THEN dp[<<i - 1, j - 1>>]
           ELSE 1 + Min({dp[<<i, j - 1>>], dp[<<i - 1, j>>], dp[<<i - 1, j - 1>>]})
  IN dp

LcsTable(s1, s2) ==
  LET dp[c \in Cells(s1, s2)] ==
        LET i == c[1]
            j == c[2]
        IN IF i = 0 \/ j = 0 THEN 0
           ELSE IF s1[i] = s2[j] THEN dp[<<i - 1, j - 1>>] + 1
           ELSE Larger(dp[<<i - 1, j>>], dp[<<i, j - 1>>])
  IN dp

Lcs2Table(s1, s2) ==
  LET dp[c \in Cells(s1, s2)] ==
        LET i == c[1]
            j == c[2]
        IN IF i = 0 \/ j = 0 THEN 0
           ELSE IF s1[i] = s2[j] THEN dp[<<i - 1, j - 1>>] + 1 ELSE 0
  IN dp

EditTable(s1, s2) ==
  LET dp[c \in Cells(s1, s2)] ==
        LET i == c[1]
            j == c[2]
        IN IF i = 0 THEN j
           ELSE IF j = 0 THEN i
           ELSE IF s1[i] = s2[j] THEN dp[<<i - 1, j - 1>>]
           ELSE 1 + Min({dp[<<i, j - 1>>], dp[<<i - 1, j>>], dp[<<i - 1, j - 1>>]})
  IN dp

Corner(table, s1, s2) == table[<<Len(s1), Len(s2)>>]

lcs_length_(s1, s2) ==
  IF s1 = <<>> \/ s2 = <<>> THEN 0
  ELSE Corner(LcsTable(utf8_split(s1), utf8_split(s2)), utf8_split(s1), utf8_split(s2))

\* mutant: the bytes are compared, not the characters
lcs_matrix_Bytes(s1, s2) ==
  IF s1 = <<>> \/ s2 = <<>> THEN <<>> ELSE LcsTable(s1, s2)

(* the whole table, or an empty one *)
lcs_matrix_(s1, s2) ==
  IF s1 = <<>> \/ s2 = <<>> THEN <<>>
  ELSE LcsTable(utf8_split(s1), utf8_split(s2))

lcs2_length_(s1, s2) ==
  IF s1 = <<>> \/ s2 = <<>> THEN 0
  ELSE LET dp == Lcs2Table(utf8_split(s1), utf8_split(s2))
       IN Max({dp[c] : c \in DOMAIN dp})

levenshtein_distance(s1, s2) ==
  IF s1 = <<>> \/ s2 = <<>> THEN 0
  ELSE Corner(EditTable(utf8_split(s1), utf8_split(s2)), utf8_split(s1), utf8_split(s2))

(* lcs_string works on the bytes, not on the pieces *)
lcs_string(s1, s2) == lcs3(s1, s2)

Fns == {"lcs", "lcs2", "levenshtein", "lcs_matrix", "lcs_string"}

Result(f, s, t) == CASE f = "lcs"         -> lcs_length_(s, t)
                     [] f = "lcs2"        -> lcs2_length_(s, t)
                     [] f = "levenshtein" -> levenshtein_distance(s, t)
                     [] f = "lcs_matrix"  -> lcs_matrix_(s, t)
                     [] f = "lcs_string"  -> lcs_string(s, t)

Init == /\ fn \in Fns
        /\ str1 \in Strings
        /\ str_list \in Lists
        /\ ls = <<>>

\* mutant: a string of the list is compared twice
Compare_First == /\ Len(ls) < Len(str_list)
                 /\ ls' = Append(ls, Result(fn, str1, str_list[1]))
                 /\ UNCHANGED <<fn, str1, str_list>>

(* One turn of the loop of a ..._of_list function (line 316, 327, 368); a  *)
(* function that takes two strings is the loop over a list of one.         *)
Compare == /\ Len(ls) < Len(str_list)
           /\ ls' = Append(ls, Result(fn, str1, str_list[Len(ls) + 1]))
           /\ UNCHANGED <<fn, str1, str_list>>

Next == Compare

Spec == Init /\ [][Next]_vars

----------------------------------------------------------------------------
(* Properties.  SeqRef is the reference; Chars are the characters of a     *)
(* string: each starts at the first byte or at one that continues nothing. *)

StartsOf(s) == {i \in DOMAIN s : i = 1 \/ s[i] \in Starts}
Chars(s) ==
  LET from == StartsOf(s)
      count == Cardinality(from)
  IN [i \in 1 .. count |->
        SubSeq(s, Nth(from, i), IF i < count THEN Nth(from, i + 1) - 1 ELSE Len(s))]

Results(f) == IF fn = f THEN DOMAIN ls ELSE {}

(* lcs returns the length, in characters, of a longest common subsequence. *)
LcsCorrect ==
  \A i \in Results("lcs") : ls[i] = LcsLength(Chars(str1), Chars(str_list[i]))

(* lcs2 returns the length, in characters, of a longest common substring. *)
Lcs2Correct ==
  \A i \in Results("lcs2") : ls[i] = Lcs2Length(Chars(str1), Chars(str_list[i]))

(* levenshtein_distance returns the Levenshtein distance of two strings    *)
(* neither of which is empty.                                              *)
LevenshteinNonEmpty ==
  \A i \in Results("levenshtein") :
    str1 # <<>> /\ str_list[i] # <<>>
      => ls[i] = EditDistance(Chars(str1), Chars(str_list[i]))

(* Each entry of lcs_matrix is the answer for two prefixes. *)
MatrixCorrect ==
  \A i \in Results("lcs_matrix") :
    LET a == Chars(str1)
        b == Chars(str_list[i])
    IN a # <<>> /\ b # <<>> =>
         /\ DOMAIN ls[i] = (0 .. Len(a)) \X (0 .. Len(b))
         /\ \A c \in DOMAIN ls[i] :
              ls[i][c] = LcsLength(SubSeq(a, 1, c[1]), SubSeq(b, 1, c[2]))

(* lcs_string returns a longest common subsequence of the two byte strings *)
(* and the positions of str1 it is made of.                                *)
LcsStringCorrect ==
  \A i \in Results("lcs_string") :
    LET text == ls[i].text
    IN /\ text \in Subsequences(str1) \cap Subsequences(str_list[i])
       /\ Len(text) = LcsLength(str1, str_list[i])
       /\ text = set_lcs(str1, ls[i].members)
=============================================================================
