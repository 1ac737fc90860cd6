------------------------------ MODULE PathCanon ------------------------------
(***************************************************************************)
(* path.c: path_canon copies a path and drops its empty, "." and ".."      *)
(* components as it goes, one character each time round the loop.          *)
(***************************************************************************)
EXTENDS Integers, Sequences, SequencesExt

CONSTANTS
  PathLen,    \* bound: the length of a path
  Room        \* the sizes of the destination

VARIABLES
  src, si,    \* the path (the Nul may be missing), and how much is consumed
  dst, dlim,
  pstate, pres

pathVars == <<src, si, dst, dlim, pstate, pres>>

Sep == "/"
Dot == "."
Nul == "0"
Letter == "n"
Running == "running"
OutOfRange == "ERANGE"
Returned == "returned"

Path == SeqOf({Sep, Dot, Letter}, PathLen)

Init == src = <<>> /\ si = 0 /\ dst = <<>> /\ dlim = 0 /\ pstate = "idle" /\ pres = Returned

Call == /\ pstate = "idle"
        /\ \E p \in Path, ended \in BOOLEAN, r \in Room :
             /\ src' = IF ended THEN Append(p, Nul) ELSE p
             /\ dlim' = r
        /\ si' = 0 /\ dst' = <<>> /\ pstate' = "start" /\ pres' = Running

ch == src[si + 1]
AtEnd == si >= Len(src) \/ Len(dst) >= dlim
Loop(s) == pstate = s /\ pres = Running /\ ~AtEnd
Stay == UNCHANGED <<src, dlim, pres>>
Copy(c, s) == dst' = Append(dst, c) /\ si' = si + 1 /\ pstate' = s /\ Stay
Return(d) == dst' = d /\ pres' = Returned /\ UNCHANGED <<src, si, dlim, pstate>>

(* what ST_SEPARATOR does, where ST_START falls through to it *)
Separate == \/ ch = Nul /\ Return(dst)
            \/ ch = Sep /\ si' = si + 1 /\ pstate' = "separator" /\ UNCHANGED dst /\ Stay
            \/ ch = Dot /\ Copy(ch, "dot1")
            \/ ch = Letter /\ Copy(ch, "normal")
Start == Loop("start") /\ IF ch = Sep THEN Copy(Sep, "separator") ELSE Separate
Separator == Loop("separator") /\ Separate

Normal == /\ Loop("normal")
          /\ \/ ch = Nul /\ Return(dst)
             \/ ch = Sep /\ Copy(Sep, "separator")
             \/ ch \in {Dot, Letter} /\ Copy(ch, "normal")

Dot1 == /\ Loop("dot1")
        /\ \/ ch = Nul /\ Return(Front(dst))
           \/ ch = Sep /\ dst' = Front(dst) /\ pstate' = "separator" /\ UNCHANGED si /\ Stay
           \/ ch = Dot /\ Copy(ch, "dot2")
           \/ ch = Letter /\ Copy(ch, "normal")

(* line 97-107: the ".." and the component before it go *)
\* mutant: the root's separator goes too
Parent_Root(d) == SubSeq(d, 1, LET cut == {k \in 0 .. Len(d) - 1 : k = 0 \/ d[k] = Sep}
                               IN IF d = <<>> THEN 0 ELSE CHOOSE k \in cut : \A j \in cut : k >= j)
Parent(d) == IF Len(d) <= 1 THEN d
             ELSE SubSeq(d, 1, LET cut == {k \in 0 .. Len(d) - 1 : k = 0 \/ d[k] = Sep}
                               IN CHOOSE k \in cut : \A j \in cut : k >= j)
Dot2 == /\ Loop("dot2")
        /\ \/ /\ ch \in {Nul, Sep}
              /\ dst' = Parent(SubSeq(dst, 1, Len(dst) - 2))
              /\ pstate' = "separator" /\ UNCHANGED si /\ Stay
           \/ ch \in {Dot, Letter} /\ Copy(ch, "normal")

RangeError == /\ pstate # "idle" /\ pres = Running /\ AtEnd
              /\ pres' = OutOfRange /\ UNCHANGED <<src, si, dst, dlim, pstate>>
Done == pstate # "idle" /\ pres # Running
        /\ src' = <<>> /\ si' = 0 /\ dst' = <<>> /\ dlim' = 0 /\ pstate' = "idle" /\ pres' = Returned

Next == Call \/ Start \/ Separator \/ Normal \/ Dot1 \/ Dot2 \/ RangeError \/ Done

(* What the components of a path come to, one after the other: "" and "."  *)
(* nothing, ".." takes the one before it, if there is one, away.           *)
Passing == {<<>>, <<Dot>>, <<Dot, Dot>>}
Walked(names, c) ==
  CASE c \in {<<>>, <<Dot>>} -> names
    [] c = <<Dot, Dot>> -> IF names = <<>> THEN names ELSE Front(names)
    [] OTHER -> Append(names, c)
(* the names after k characters, and the component begun *)
Walk(p) ==
  LET w[k \in 0 .. Len(p)] ==
        IF k = 0 THEN [names |-> <<>>, part |-> <<>>]
        ELSE IF p[k] = Sep THEN [names |-> Walked(w[k - 1].names, w[k - 1].part), part |-> <<>>]
        ELSE [names |-> w[k - 1].names, part |-> Append(w[k - 1].part, p[k])]
  IN w
(* names joined by separators, behind the first one of an absolute path;   *)
(* a path that does not end in a name ends in a separator                  *)
Body(names) ==
  LET upTo[n \in 0 .. Len(names)] == IF n = 0 THEN <<>> ELSE upTo[n - 1] \o names[n] \o <<Sep>>
  IN upTo[Len(names)]
Lead(p) == IF p # <<>> /\ p[1] = Sep THEN <<Sep>> ELSE <<>>
Joined(p) ==
  LET w == Walk(p)[Len(p)]
  IN IF w.part \in Passing THEN Lead(p) \o Body(Walked(w.names, w.part))
     ELSE Lead(p) \o Body(w.names) \o w.part

(* path_canon returns the canonical path, and fails only where the Nul or  *)
(* room is missing; it never writes outside of the destination.            *)
Canonical == /\ Len(dst) <= dlim
             /\ pstate # "idle" /\ pres = Returned
                  => Last(src) = Nul /\ dst = Joined(Front(src))
             /\ pres = OutOfRange => Len(src) >= dlim \/ src = <<>> \/ Last(src) # Nul
=============================================================================
