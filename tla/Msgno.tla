-------------------------------- MODULE Msgno --------------------------------
(***************************************************************************)
(* msgno.c: modules register lists of messages; each entry is given a code *)
(* whose upper half is the place of its list in list_tbl.  Entries are     *)
(* numbered in the memory of the caller.                                   *)
(***************************************************************************)
EXTENDS Integers, Sequences, FiniteSets

CONSTANTS
  MsgList,    \* the lists: each a sequence of the codes it asks for, 0 for the next
  NumLists,   \* MSGNO_NUM_LISTS: 16 in the code
  CodeHigh    \* 2 ^ 16

VARIABLES
  codes,      \* for each list the codes in its entries now
  tbl,        \* list_tbl from index 1: [list, num]
  nextIdx,    \* next_tbl_idx
  broken      \* a list was refused with some of its entries numbered

msgVars == <<codes, tbl, nextIdx, broken>>

NoList == "none"
Slots == 1 .. NumLists - 1

Init == /\ codes = MsgList /\ nextIdx = 1 /\ broken = FALSE
        /\ tbl = [i \in Slots |-> [list |-> NoList, num |-> 0]]

Known(l) == \E i \in Slots : tbl[i].list = l
hi == (nextIdx + 1) * CodeHigh

(* line 83-104: the entries, one after the other, until one is refused     *)
\* mutant: a fixed code does not move the number of the next entry
Follow_Same(want, no) == no
Follow(want, no) == want + 1
Numbered(l) ==
  LET old == codes[l]
      go[i \in 0 .. Len(old)] ==
        IF i = 0 THEN [no |-> 0, at |-> 0, out |-> old, ok |-> TRUE]
        ELSE LET g == go[i - 1]
             IN CASE ~g.ok -> g
                  [] g.ok /\ old[i] = 0 ->
                       [no |-> g.no + 1, at |-> i, out |-> [g.out EXCEPT ![i] = hi + g.no], ok |-> TRUE]
                  [] g.ok /\ old[i] # 0 /\ old[i] < CodeHigh /\ old[i] >= g.no ->
                       [no |-> Follow(old[i], g.no), at |-> i, out |-> [g.out EXCEPT ![i] = hi + old[i]], ok |-> TRUE]
                  [] OTHER -> [g EXCEPT !.ok = FALSE]
  IN go[Len(old)]

(* msgno_add_codes.  A refused list leaves its count in the table.         *)
Add(l) == LET n == Numbered(l)
          IN /\ ~Known(l) /\ nextIdx < NumLists
             /\ codes' = [codes EXCEPT ![l] = n.out]
             /\ tbl' = [tbl EXCEPT ![nextIdx] = [list |-> IF n.ok THEN l ELSE NoList, num |-> @.num + n.at]]
             /\ nextIdx' = IF n.ok THEN nextIdx + 1 ELSE nextIdx
             /\ broken' = (broken \/ (~n.ok /\ n.at > 0))
AddAgain(l) == Known(l) /\ UNCHANGED msgVars
AddTooMany == nextIdx = NumLists /\ UNCHANGED msgVars

(* msgno_msg: the list and place of the message found, or why there is     *)
(* none; a count too high makes the search leave the list                  *)
NotFound == <<"none", 0>>
Wild == <<"wild", 0>>
Lookup(code) ==
  LET i == code \div CodeHigh
      e == tbl[i - 1]
      hits == {k \in 1 .. Len(codes[e.list]) : k <= e.num /\ codes[e.list][k] = code}
  IN IF i >= NumLists \/ i < 2 THEN NotFound
     ELSE IF e.list = NoList THEN (IF e.num = 0 THEN NotFound ELSE Wild)
     ELSE IF hits # {} THEN <<e.list, CHOOSE k \in hits : \A j \in hits : k <= j>>
     ELSE IF e.num > Len(codes[e.list]) THEN Wild ELSE NotFound

Next == \/ \E l \in DOMAIN MsgList : Add(l) \/ AddAgain(l)
        \/ AddTooMany

(* The codes of the lists in the table differ, and each leads to its own   *)
(* message but those of the last list the table takes, whose number        *)
(* msgno_msg refuses; a search leaves its list only after another list was *)
(* refused half way.                                                       *)
Taken == {i \in Slots : tbl[i].list # NoList}
Entry == UNION {{<<tbl[i].list, k>> : k \in DOMAIN codes[tbl[i].list]} : i \in Taken}
Unique == /\ \A d, e \in Entry : codes[d[1]][d[2]] = codes[e[1]][e[2]] => d = e
          /\ \A i \in Taken : \A k \in DOMAIN codes[tbl[i].list] :
               Lookup(codes[tbl[i].list][k]) = IF i < NumLists - 1 THEN <<tbl[i].list, k>> ELSE NotFound
          /\ ~broken => \A i \in Taken : tbl[i].num = Len(codes[tbl[i].list])
=============================================================================
