---------------------------------- MODULE Cfg ----------------------------------
(***************************************************************************)
(* cfg.c: properties, kept as the lines they were read from, in the build  *)
(* of char.  A letter is also an escape that stands for nothing; \u, which *)
(* always fails (line 168), and \t, \n and \r are left out.                *)
(***************************************************************************)
EXTENDS Integers, Sequences, SequencesExt, FiniteSets

CONSTANTS
  TextLen,    \* bound: the length of a first text
  More,       \* the texts loaded on top of others
  Environ,    \* environments: sequences of strings
  Query       \* CGI query strings

VARIABLES
  lines,      \* cfg->list
  file,       \* the file's characters
  done,       \* the last operation and its success: [op, ok]
  stored      \* the lines cfg_store last wrote, if cfg_load read them since

cfgVars == <<lines, file, done, stored>>

Letter == "k"
Equal == "="
Space == " "
Hash == "#"
Escape == "b"
Newline == "n"
Amp == "&"
Character == {Letter, Equal, Space, Hash, Escape, Newline, Amp}
Nothing == <<>>

Init == lines = <<>> /\ file = <<>> /\ stored = Nothing
        /\ done = [op |-> "none", ok |-> TRUE]

Text == SeqOf({Letter, Equal, Space, Hash, Escape, Newline}, TextLen)
Texts == IF lines = <<>> /\ file = <<>> THEN Text ELSE More     \* bound

(* one character in readline.  end does not count a '=', and counts one    *)
(* too many after an escape that stands for nothing: buf is then cut       *)
(* behind a character it was never given, left, which may be its end.      *)
Left == {<<>>, <<Letter>>, <<Equal>>}
\* mutant: end is counted from zero
Close_Short(acc) == SubSeq(acc.buf, 1, acc.end - 1)
Close(acc) == IF acc.end <= Len(acc.buf) THEN SubSeq(acc.buf, 1, acc.end) ELSE acc.buf \o acc.left
Char(acc, c) ==
  LET plain == [acc EXCEPT !.buf = Append(@, c), !.n = @ + 1]
      seen == [acc EXCEPT !.n = @ + 1]
  IN CASE acc.st = "done" -> acc
       [] acc.st = "first" -> IF c = Newline THEN [seen EXCEPT !.st = "done"] ELSE [plain EXCEPT !.st = "text"]
       [] acc.st = "equal" /\ c = Space -> seen
       [] acc.st = "escape" ->
            IF c = Newline THEN [seen EXCEPT !.st = "equal", !.end = Len(acc.buf) + 1]
            ELSE IF c \in {Escape, Space} THEN [plain EXCEPT !.st = "text", !.end = Len(acc.buf) + 1]
            ELSE [seen EXCEPT !.st = "text", !.end = Len(acc.buf) + 1]
       [] OTHER ->
            CASE c = Escape -> [seen EXCEPT !.st = "escape"]
              [] c = Newline -> [seen EXCEPT !.st = "done", !.buf = Close(acc)]
              [] c = Equal -> [plain EXCEPT !.st = "equal"]
              [] c = Space -> [plain EXCEPT !.st = "text"]
              [] OTHER -> [plain EXCEPT !.st = "text", !.end = Len(acc.buf) + 1]
(* readline: the line, and how many characters it took; at the end of the  *)
(* file the line is not cut at end                                         *)
ReadLine(s, left) ==
  LET read[i \in 0 .. Len(s)] ==
        IF i = 0 THEN [buf |-> <<>>, end |-> 0, st |-> "first", n |-> 0, left |-> left]
        ELSE Char(read[i - 1], s[i])
  IN read[Len(s)]

(* validateline *)
Stripped(s) == LET ink == {i \in 1 .. Len(s) : s[i] # Space}
               IN IF ink = {} THEN <<>> ELSE SubSeq(s, CHOOSE i \in ink : \A j \in ink : i <= j, Len(s))
Comment(s) == Stripped(s) = <<>> \/ Stripped(s)[1] = Hash
\* mutant: the '=' is not asked for
Entry_Any(s) == Stripped(s) # <<>>
Entry(s) == LET p == Stripped(s)
            IN \E e \in 2 .. Len(p), m \in 1 .. Len(p) :
                 /\ m < e /\ p[e] = Equal
                 /\ \A i \in 1 .. m : p[i] # Space /\ (i > 1 => p[i] # Equal)
                 /\ \A i \in m + 1 .. e - 1 : p[i] = Space
Valid(s) == Comment(s) \/ Entry(s)

UpTo(c, s) == LET at == {i \in 1 .. Len(s) : s[i] = c}
              IN IF at = {} THEN Len(s) + 1 ELSE CHOOSE i \in at : \A j \in at : i <= j
StrLine(s) == [line |-> SubSeq(s, 1, UpTo(Newline, s) - 1), n |-> UpTo(Newline, s)]
FileLine(s, left) == LET r == ReadLine(s, left) IN [line |-> r.buf, n |-> r.n]
FromString == <<"string">>

(* add the lines of a text one by one, from a string, or from a file with  *)
(* left beyond a line: a line that is not valid ends it                    *)
AddLines(ls, s, from) ==
  LET go[i \in 0 .. Len(s) + 1] ==
        IF i = 0 THEN [ls |-> ls, rest |-> s, ok |-> TRUE]
        ELSE LET g == go[i - 1]
                 l == IF from = FromString THEN StrLine(g.rest) ELSE FileLine(g.rest, from)
             IN IF ~g.ok \/ g.rest = <<>> THEN g
                ELSE IF ~Valid(l.line) THEN [g EXCEPT !.ok = FALSE]
                ELSE [ls |-> Append(g.ls, l.line), rest |-> SubSeq(g.rest, l.n + 1, Len(g.rest)), ok |-> TRUE]
  IN go[Len(s) + 1]

(* a load that fails clears the list, what was in it before included *)
\* mutant: the lines before the bad one stay
Loaded_Kept(a) == a.ls
Loaded(a) == IF a.ok THEN a.ls ELSE <<>>
Did(op, ok) == done' = [op |-> op, ok |-> ok]

(* cfg_load_str and cfg_load *)
LoadStr == \E s \in Texts :
             LET a == AddLines(lines, s, FromString)
             IN lines' = Loaded(a) /\ Did("str", a.ok) /\ stored' = Nothing /\ UNCHANGED file
Load == \E left \in Left :
          LET a == AddLines(lines, file, left)
          IN /\ file # <<>>
             /\ lines' = Loaded(a) /\ Did("file", a.ok)
             /\ stored' = IF done.op = "clear" THEN stored ELSE Nothing
             /\ UNCHANGED file
(* the file cannot be opened or read, or a string not be allocated: what   *)
(* was added stays                                                         *)
LoadFails == Did("none", FALSE) /\ stored' = Nothing /\ UNCHANGED <<lines, file>>
(* somebody writes the file *)
Edit == /\ lines = <<>> /\ file = <<>>
        /\ file' \in Text /\ stored' = Nothing /\ UNCHANGED <<lines, done>>

(* cfg_load_env *)
LoadEnv == \E env \in Environ :
             LET ok == \A i \in 1 .. Len(env) : Valid(env[i])
             IN /\ lines' = IF ok THEN lines \o env ELSE <<>>
                /\ Did("env", ok) /\ stored' = Nothing /\ UNCHANGED file

(* cfg_load_cgi_query_string: pairs of one '=' with a name before it; what *)
(* comes before a bad one is kept                                          *)
Pair(s) == LET e == UpTo(Equal, s) IN e > 1 /\ e <= Len(s) /\ \A i \in e + 1 .. Len(s) : s[i] # Equal
AddPairs(ls, q) ==
  LET go[i \in 0 .. Len(q) + 1] ==
        IF i = 0 THEN [ls |-> ls, rest |-> q, ok |-> TRUE]
        ELSE LET g == go[i - 1]
                 s == SubSeq(g.rest, 1, UpTo(Amp, g.rest) - 1)
             IN IF ~g.ok \/ g.rest = <<>> THEN g
                ELSE IF ~(Pair(s) /\ Valid(s)) THEN [g EXCEPT !.ok = FALSE]
                ELSE [ls |-> Append(g.ls, s), ok |-> TRUE,
                      rest |-> SubSeq(g.rest, UpTo(Amp, g.rest) + 1, Len(g.rest))]
  IN go[Len(q) + 1]
LoadQuery == \E q \in Query :
               LET a == AddPairs(lines, q)
               IN lines' = a.ls /\ Did("cgi", a.ok) /\ stored' = Nothing /\ UNCHANGED file

(* cfg_store with cfg_fwrite: lines are written as they are.  The file is  *)
(* truncated first, and one that could not be written to its end is only   *)
(* noticed where fputs says so, not at fclose.                             *)
Written(ls) == LET from[i \in 1 .. Len(ls) + 1] ==
                     IF i > Len(ls) THEN <<>> ELSE ls[i] \o <<Newline>> \o from[i + 1]
               IN from[1]
Store == file' = Written(lines) /\ Did("store", TRUE) /\ stored' = lines /\ UNCHANGED lines
StoreFails == /\ file = <<>>     \* bound
              /\ \E k \in 0 .. Len(Written(lines)) - 1, ok \in BOOLEAN :
                   file' = SubSeq(Written(lines), 1, k) /\ Did("store", ok) /\ stored' = Nothing /\ UNCHANGED lines
(* cfg_clear *)
Clear == lines' = <<>> /\ Did("clear", TRUE) /\ UNCHANGED <<file, stored>>

MaxLines == 2     \* bound
Next == \/ (LoadStr \/ Load \/ LoadEnv \/ LoadQuery) /\ Len(lines') <= MaxLines
        \/ LoadFails \/ Edit \/ Store \/ StoreFails \/ Clear

-----------------------------------------------------------------------------
(* cfg_get_str: the first line with that name.  It looks for the '='       *)
(* without regard for the end of the line: Runs is TRUE where there is one *)
Named(s, name) == LET p == Stripped(s)
                  IN ~Comment(s) /\ IsPrefix(name, p) /\ Len(p) > Len(name) /\ p[Len(name) + 1] \in {Space, Equal}
After(s, name) == LET p == Stripped(s) IN SubSeq(p, Len(name) + 1, Len(p))
None == "none"
Beyond == "beyond"
Get(ls, name) ==
  LET hits == {i \in 1 .. Len(ls) : Named(ls[i], name)}
      l == After(ls[CHOOSE i \in hits : \A j \in hits : i <= j], name)
  IN IF hits = {} THEN <<None>>
     ELSE IF UpTo(Equal, l) > Len(l) THEN <<Beyond>> ELSE SubSeq(l, UpTo(Equal, l) + 1, Len(l))
(* cfg_iterate, cfg_next: the names, up to a space or a '=' *)
Name(s) == LET p == Stripped(s) IN SubSeq(p, 1, (IF UpTo(Space, p) < UpTo(Equal, p) THEN UpTo(Space, p) ELSE UpTo(Equal, p)) - 1)
Names == {Name(lines[i]) : i \in {j \in 1 .. Len(lines) : ~Comment(lines[j])}}

(* No lookup runs past the end of its line, whatever was loaded, refused   *)
(* or read back from a file cut short; and a load from a string, the       *)
(* environment or a file leaves all its lines behind those before, or none *)
(* at all.                                                                 *)
Lookups == \A n \in Names \ {<<>>} : Get(lines, n) \notin {<<Beyond>>, <<None>>}
Whole == done'.op \in {"str", "env", "file"} => IF done'.ok THEN IsPrefix(lines, lines') ELSE lines' = <<>>

(* A cfg stored and loaded again has the same values: unless one is empty, *)
(* holds a backslash, has a space behind a '=' or at its end, or a name is *)
(* the '=' itself, which are read back as something else.                  *)
Plain(s) == \/ Comment(s) /\ \A i \in 1 .. Len(s) : s[i] \notin {Escape, Equal, Newline}
            \/ /\ ~Comment(s) /\ s[Len(s)] \notin {Equal, Space}
               /\ Stripped(s)[1] # Equal
               /\ \A i \in 1 .. Len(s) : s[i] \notin {Escape, Newline}
               /\ \A i \in 1 .. Len(s) - 1 : s[i] = Equal => s[i + 1] # Space
Reload == done.op = "file" /\ stored # Nothing /\ (\A i \in 1 .. Len(stored) : Plain(stored[i]))
            => done.ok /\ \A i \in 1 .. Len(stored) : Get(lines, Name(stored[i])) = Get(stored, Name(stored[i]))
=============================================================================
