--------------------------------- MODULE Csv ---------------------------------
(***************************************************************************)
(* csv.c: one row of comma separated values, a character at a time.        *)
(* csv_parse_wcs is the same program on wide characters, and csv_row_fread *)
(* only reads its characters elsewhere.                                    *)
(***************************************************************************)
EXTENDS Integers, Sequences, SequencesExt, FiniteSets

CONSTANTS
  LineLen,    \* bound: the length of the text
  BufSize,    \* the sizes of the buffer
  Columns     \* the lengths of row[]

VARIABLES
  text, count,      \* the text, and how much of it is read
  trim, quotes,     \* CSV_TRIM, CSV_QUOTES
  cstate, inquotes,
  base, elem, t,    \* buf, from where the caller's begins; buf[0 .. j-1]; t
  row,              \* the elements finished
  rn, bn,
  rn0, bn0,         \* history: rn and bn of the call
  cres

csvVars == <<text, count, trim, quotes, cstate, inquotes, base, elem, t, row, rn, bn, rn0, bn0, cres>>

Comma == ","
Quote == "q"
Space == "s"
Newline == "n"
Plain == "x"
isspace(c) == c \in {Space, Newline}
EndsField(c) == c \in {Comma, Newline}

Init == /\ text = <<>> /\ count = 0 /\ trim = FALSE /\ quotes = FALSE
        /\ cstate = "idle" /\ inquotes = FALSE /\ base = 0 /\ elem = <<>> /\ t = 0
        /\ row = <<>> /\ rn = 0 /\ bn = 0 /\ rn0 = 0 /\ bn0 = 0 /\ cres = "none"

Call == /\ cstate = "idle"
        /\ text' \in SeqOf({Comma, Quote, Space, Newline, Plain}, LineLen)
        /\ trim' \in BOOLEAN /\ quotes' \in BOOLEAN /\ rn' \in Columns /\ bn' \in BufSize
        /\ rn0' = rn' /\ bn0' = bn' /\ cstate' = "start" /\ cres' = "running"
        /\ UNCHANGED <<count, inquotes, base, elem, t, row>>

\* mutant: the last byte of the buffer is taken to be no room
More_Short == rn > 0 /\ bn > 1 /\ count < Len(text)
More == rn > 0 /\ bn > 0 /\ count < Len(text)
ch == text[count + 1]
Loop(s) == cres = "running" /\ cstate = s /\ More
Read == count' = count + 1 /\ UNCHANGED <<text, trim, quotes, rn0, bn0, cres>>

(* buf[j++] = c; bn-- *)
Put(c) == elem' = Append(elem, c) /\ bn' = bn - 1
(* the element, cut to its first len characters, is finished *)
Finish(len) == /\ row' = Append(row, SubSeq(elem, 1, len))
               /\ rn' = IF ch = Newline THEN 0 ELSE rn - 1
               /\ bn' = bn - 1 /\ base' = base + len + 1 /\ elem' = <<>> /\ t' = 0
               /\ cstate' = "start" /\ inquotes' = FALSE /\ Read
Fail(e) == cres' = e /\ UNCHANGED <<text, count, trim, quotes, cstate, inquotes, base, elem, t, row, rn, bn, rn0, bn0>>

(* ST_COLLECT, also where ST_START falls through to it *)
Collect ==
  \/ /\ inquotes /\ ch = Quote
     /\ cstate' = "end_quote" /\ Read /\ UNCHANGED <<inquotes, base, elem, t, row, rn, bn>>
  \/ /\ ~inquotes /\ EndsField(ch) /\ Finish(t)
  \/ /\ ~inquotes /\ quotes /\ ch = Quote /\ Fail("EILSEQ")
  \/ /\ IF inquotes THEN ch # Quote ELSE ~EndsField(ch) /\ ~(quotes /\ ch = Quote)
     /\ Put(ch) /\ t' = IF ~trim \/ ~isspace(ch) THEN Len(elem) + 1 ELSE t
     /\ cstate' = "collect" /\ Read /\ UNCHANGED <<inquotes, base, row, rn>>

StartElem ==
  /\ Loop("start")
  /\ \/ /\ ch = Space
        /\ IF trim THEN UNCHANGED <<elem, t, bn>> ELSE Put(ch) /\ t' = Len(elem) + 1
        /\ Read /\ UNCHANGED <<cstate, inquotes, base, row, rn>>
     \/ /\ quotes /\ ch = Quote
        /\ elem' = <<>> /\ t' = 0 /\ cstate' = "collect" /\ inquotes' = TRUE
        /\ Read /\ UNCHANGED <<base, row, rn, bn>>
     \/ /\ ch # Space /\ ~(quotes /\ ch = Quote) /\ Collect
CollectElem == Loop("collect") /\ Collect

\* mutant: the second of two quotes ends the element
Unescape_Never == FALSE
Unescape == quotes /\ ch = Quote /\ cstate # "tailspace"
EndQuote ==
  /\ Loop("end_quote") \/ Loop("tailspace")
  /\ \/ EndsField(ch) /\ Finish(Len(elem))
     \/ /\ Unescape
        /\ Put(Quote) /\ t' = Len(elem) + 1 /\ cstate' = "collect"
        /\ Read /\ UNCHANGED <<inquotes, base, row, rn>>
     \/ /\ ch = Space
        /\ cstate' = "tailspace" /\ Read /\ UNCHANGED <<inquotes, base, elem, t, row, rn, bn>>
     \/ /\ ~EndsField(ch) /\ ~Unescape /\ ch # Space /\ Fail("EILSEQ")

(* line 181-200: the text, the row or the buffer has come to its end *)
Stop ==
  /\ cstate # "idle" /\ cres = "running" /\ ~More
  /\ cres' = IF bn = 0 THEN "E2BIG"
             ELSE IF rn > 0 /\ inquotes /\ cstate # "end_quote" THEN "EILSEQ" ELSE "ok"
  /\ row' = IF cres' = "ok" /\ rn > 0 THEN Append(row, SubSeq(elem, 1, t)) ELSE row
  /\ UNCHANGED <<text, count, trim, quotes, cstate, inquotes, base, elem, t, rn, bn, rn0, bn0>>

Done == /\ cstate # "idle" /\ cres # "running"
        /\ text' = <<>> /\ count' = 0 /\ trim' = FALSE /\ quotes' = FALSE
        /\ cstate' = "idle" /\ inquotes' = FALSE /\ base' = 0 /\ elem' = <<>> /\ t' = 0
        /\ row' = <<>> /\ rn' = 0 /\ bn' = 0 /\ rn0' = 0 /\ bn0' = 0 /\ cres' = "none"

Next == Call \/ StartElem \/ CollectElem \/ EndQuote \/ Stop \/ Done

-----------------------------------------------------------------------------
(* What a row is, read as a whole, with CSV_QUOTES (q) and CSV_TRIM (tr)   *)
(* or without: between an odd and an even quote a comma or newline belongs *)
(* to the element.                                                         *)
Outside(s, q, k) == q => Cardinality({i \in 1 .. k - 1 : s[i] = Quote}) % 2 = 0
Cut(s, q) == {k \in 1 .. Len(s) : EndsField(s[k]) /\ Outside(s, q, k)}
RowEnd(s, q) == LET ends == {k \in Cut(s, q) : s[k] = Newline}
                IN IF ends = {} THEN Len(s) + 1 ELSE CHOOSE k \in ends : \A j \in ends : k <= j
(* where the fields of the row end, and the one that ends before k *)
FieldEnds(s, q) == {k \in Cut(s, q) : k < RowEnd(s, q)} \cup {RowEnd(s, q)}
Before(s, q, k) == CHOOSE j \in Cut(s, q) \cup {0} : j < k /\ \A i \in Cut(s, q) : i < k => i <= j
Field(s, q, k) == SubSeq(s, Before(s, q, k) + 1, k - 1)
Place(s, q, k) == Cardinality({j \in Cut(s, q) \cup {k} : j <= k})

Blank(s) == \A i \in 1 .. Len(s) : s[i] = Space
FirstInk(s) == CHOOSE i \in 1 .. Len(s) : s[i] # Space /\ \A j \in 1 .. i - 1 : s[j] = Space
LastInk(s) == CHOOSE i \in 1 .. Len(s) : s[i] # Space /\ \A j \in i + 1 .. Len(s) : s[j] = Space
Trimmed(s) == IF Blank(s) THEN <<>> ELSE SubSeq(s, FirstInk(s), LastInk(s))
Quoted(s, q) == q /\ ~Blank(s) /\ s[FirstInk(s)] = Quote
Inside(s) == SubSeq(s, FirstInk(s) + 1, LastInk(s) - 1)
(* what comes of it, character by character: a quote opens a pair, which   *)
(* only another one may close, and of the two one is kept                  *)
Halve(h, c) ==
  CASE h.run = "even" /\ c = Quote -> [run |-> "odd", out |-> h.out]
    [] h.run = "odd" /\ c # Quote -> [run |-> "bad", out |-> h.out]
    [] h.run = "bad" -> h
    [] OTHER -> [run |-> "even", out |-> Append(h.out, c)]
Halved(s) ==
  LET h[n \in 0 .. Len(s)] ==
        IF n = 0 THEN [run |-> "even", out |-> <<>>] ELSE Halve(h[n - 1], s[n])
  IN h[Len(s)]
LegalField(s, q) ==
  IF Quoted(s, q)
  THEN LastInk(s) > FirstInk(s) /\ s[LastInk(s)] = Quote /\ Halved(Inside(s)).run = "even"
  ELSE q => \A i \in 1 .. Len(s) : s[i] # Quote
Decoded(s, q, tr) ==
  IF Quoted(s, q) THEN Halved(Inside(s)).out ELSE IF tr THEN Trimmed(s) ELSE s

WholeRow == RowEnd(text, quotes) <= Len(text)
(* All of the row was read, or as many of its fields as row has places;    *)
(* each of them is legal, and row holds what it decodes to.  What is left  *)
(* of a text without a newline is one more element: where it ends in a     *)
(* space within or behind quotes it is cut, or the text is refused.        *)
RowSplit ==
  LET ends == {k \in FieldEnds(text, quotes) : k <= count}
      fields == Cardinality(ends)
  IN /\ \/ count = IF WholeRow THEN RowEnd(text, quotes) ELSE Len(text)
        \/ fields = rn0 /\ count \in ends \cup {0}
     /\ Len(row) = IF fields < rn0 /\ ~WholeRow THEN fields + 1 ELSE fields
     /\ Len(row) <= rn0
     /\ \A k \in ends :
          /\ LegalField(Field(text, quotes, k), quotes)
          /\ row[Place(text, quotes, k)] = Decoded(Field(text, quotes, k), quotes, trim)
(* A call that succeeds has split the row; one that fails has met a field  *)
(* that is not legal, or was given a buffer no larger than what it read of *)
(* the text.  Such a buffer may hold the elements all the same: spaces     *)
(* that are trimmed take their bytes, and a row that fills the buffer to   *)
(* its last byte is refused (line 184).  No element, nor the byte behind   *)
(* it, is written beyond buf.                                              *)
RowCorrect ==
  /\ bn >= 0 /\ t <= Len(elem) /\ base + Len(elem) + bn <= bn0
  /\ cres = "ok" => RowSplit
  /\ cres = "EILSEQ" /\ WholeRow
       => \E k \in FieldEnds(text, quotes) : ~LegalField(Field(text, quotes, k), quotes)
  /\ cres = "E2BIG" => bn0 <= count
=============================================================================
