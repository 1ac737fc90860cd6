------------------------------- MODULE Domnode -------------------------------
(***************************************************************************)
(* domnode.c: an XML document is read by expat's callbacks into a tree of  *)
(* domnodes and written back.  A document is the sequence of the events    *)
(* expat makes of it; "bad" stands for whatever it refuses.  A string is   *)
(* "unfit" for a domnode if it is empty or has 255 characters or more.     *)
(***************************************************************************)
EXTENDS Integers, Sequences, FiniteSets, SequencesExt, Folds

CONSTANTS
  MaxEvents,  \* bound: the events of a document
  StackMax    \* 500: how many elements domnode_fread can have open, and the dummy

VARIABLES
  doc,        \* the file
  tree,       \* the client's domnode: its nodes in the order of the document
  failed,     \* errno is not 0
  domres      \* the last operation and how it ended: <<op, ok>>

domVars == <<doc, tree, failed, domres>>

Event(t, as, v) == [tag |-> t, attrs |-> as, value |-> v]
Attrs == {<<>>, <<<<"a", "unfit">>, <<"b", "plain">>>>}
Events == {Event("start", as, v) : as \in Attrs, v \in {"plain", "unfit"}}
          \cup {Event("#text", <<>>, v) : v \in {"plain", "blank", "markup", "unfit"}}
          \cup {Event("#comment", <<>>, v) : v \in {"plain", "empty"}}
          \cup {Event("end", <<>>, ""), Event("bad", <<>>, "")}

(* what is well formed, so far *)
Count(f, k, t) == Cardinality({i \in 1 .. k : f[i].tag = t})
Depth(f, k) == Count(f, k, "start") - Count(f, k, "end")
MayFollow(f, e) == /\ Count(f, Len(f), "bad") = 0
                   /\ e.tag \in {"#text", "end"} => Depth(f, Len(f)) > 0
                   /\ e.tag = "start" => Depth(f, Len(f)) > 0 \/ Count(f, Len(f), "start") = 0
WellFormed(f) == Count(f, Len(f), "bad") = 0 /\ Depth(f, Len(f)) = 0 /\ Count(f, Len(f), "start") > 0

Node(t, as, v, p) == [tag |-> t, attrs |-> as, value |-> v, parent |-> p]
Init == /\ doc = <<>> /\ failed = FALSE /\ domres = <<"none", TRUE>>
        /\ tree = <<Node("start", <<>>, "plain", 0)>>

(***************************************************************************)
(* domnode_fread.  ud: the nodes made, the stack of those that are open,   *)
(* the dummy node 0 at its bottom, and ud->err; e0: errno is not 0.        *)
(***************************************************************************)
Peek(ud) == Last(ud.stk)
With(ud, e, as) == [ud EXCEPT !.node = Append(@, Node(e.tag, as, e.value, Peek(ud)))]

(* start_fn: an unfit string makes domnode_new fail, which leaves errno as *)
(* it is; the element is then not pushed                                   *)
Start(ud, e, e0) ==
  LET unfit == {i \in 1 .. Len(e.attrs) : e.attrs[i][2] = "unfit"}
      made == SubSeq(e.attrs, 1, (IF unfit = {} THEN Len(e.attrs) ELSE CHOOSE i \in unfit : \A j \in unfit : i <= j)
                                 - (IF unfit = {} THEN 0 ELSE 1))
  IN CASE ud.err -> ud
       [] ~ud.err /\ ud.stk = <<>> -> [ud EXCEPT !.err = TRUE]
       [] ~ud.err /\ ud.stk # <<>> /\ e.value = "unfit" -> [ud EXCEPT !.err = e0]
       [] ~ud.err /\ ud.stk # <<>> /\ e.value # "unfit" ->
            IF unfit # {} THEN [With(ud, e, made) EXCEPT !.err = e0]
            ELSE IF Len(ud.stk) = StackMax THEN [With(ud, e, made) EXCEPT !.err = TRUE]
            ELSE [With(ud, e, made) EXCEPT !.stk = Append(@, Len(ud.node) + 1)]
(* end_fn: pops, whatever start_fn did *)
\* mutant: elements are never closed
End_Never(ud) == ud
End(ud) == IF ud.stk = <<>> THEN ud ELSE [ud EXCEPT !.stk = Front(@)]
(* chardata_fn and comment_fn with _data_fn *)
Data(ud, e, e0) ==
  CASE ud.err \/ e.value = "blank" -> ud
    [] ~ud.err /\ (e.value = "empty" \/ (ud.stk = <<>> /\ e.value # "blank")) -> [ud EXCEPT !.err = TRUE]
    [] ~ud.err /\ ud.stk # <<>> /\ e.value = "unfit" -> [ud EXCEPT !.err = e0]
    [] OTHER -> With(ud, e, <<>>)
Handled(f, e0) ==
  FoldLeft(LAMBDA ud, e : CASE e.tag = "start" -> Start(ud, e, e0)
                            [] e.tag = "end" -> End(ud)
                            [] e.tag = "bad" -> ud
                            [] OTHER -> Data(ud, e, e0),
           [node |-> <<>>, stk |-> <<0>>, err |-> FALSE], f)

(* The first child of the dummy node becomes the client's, after a failure *)
(* too; its value is dropped and the others are destroyed.                 *)
Below(node, root) == LET in[i \in 1 .. Len(node)] == i = root \/ (node[i].parent # 0 /\ in[node[i].parent])
                     IN {i \in 1 .. Len(node) : in[i]}
Adopted(node) ==
  LET ids == Below(node, 1)
      rank(i) == Cardinality({j \in ids : j <= i})
      id(r) == CHOOSE i \in ids : rank(i) = r
  IN [r \in 1 .. Cardinality(ids) |->
        [node[id(r)] EXCEPT !.parent = IF r = 1 THEN 0 ELSE rank(@),
                            !.value = IF r = 1 /\ node[1].tag # "start" THEN "lost" ELSE @]]
Fread(f, e0, old) == LET ud == Handled(f, e0)
                     IN [tree |-> IF ud.node = <<>> THEN old ELSE Adopted(ud.node),
                         ok |-> WellFormed(f) /\ ~ud.err]

(* domnode_load *)
Load == LET r == Fread(doc, failed, tree)
        IN tree' = r.tree /\ domres' = <<"load", r.ok>> /\ failed' = (failed \/ ~r.ok) /\ UNCHANGED doc
(* it cannot be opened or read *)
LoadFails == domres' = <<"open", FALSE>> /\ failed' = TRUE /\ UNCHANGED <<doc, tree>>

(***************************************************************************)
(* domnode_store.  Text and values are written as they are, and nothing    *)
(* after the first line if errno is not 0.                                 *)
(***************************************************************************)
Level(t) == LET l[i \in 1 .. Len(t)] == IF t[i].parent = 0 THEN 1 ELSE l[t[i].parent] + 1 IN l
\* mutant: an element is closed where it is opened
Ends_None(t, i) == IF t[i].tag = "start" THEN 1 ELSE 0
Ends(t, i) == LET next == IF i = Len(t) THEN 1 ELSE Level(t)[i + 1]
              IN Level(t)[i] - next + (IF t[i].tag = "start" THEN 1 ELSE 0)
Spoilt(n) == n.value = "markup" \/ \E i \in 1 .. Len(n.attrs) : n.attrs[i][2] = "markup"
                                \/ \E j \in 1 .. i - 1 : n.attrs[i][1] = n.attrs[j][1]
Written(t) ==
  LET upTo[i \in 0 .. Len(t)] ==
        IF i = 0 THEN <<>>
        ELSE upTo[i - 1] \o (IF Spoilt(t[i]) THEN <<Event("bad", <<>>, "")>>
                             ELSE <<Event(t[i].tag, t[i].attrs, t[i].value)>>
                                    \o [k \in 1 .. Ends(t, i) |-> Event("end", <<>>, "")])
  IN upTo[Len(t)]
Store == IF failed THEN doc' = <<>> /\ domres' = <<"store", FALSE>> /\ UNCHANGED <<tree, failed>>
         ELSE IF tree[1].tag # "start"     \* the value of the root is NULL
         THEN doc' = <<>> /\ domres' = <<"crash", FALSE>> /\ UNCHANGED <<tree, failed>>
         ELSE doc' = Written(tree) /\ domres' = <<"store", TRUE>> /\ UNCHANGED <<tree, failed>>

(* domnode_attrs_put and domnode_attrs_remove *)
Named(name) == {i \in 1 .. Len(tree[1].attrs) : tree[1].attrs[i][1] = name}
\* mutant: the attribute that had the name stays
SetAttr_Add(name, v) == Append(tree[1].attrs, <<name, v>>)
SetAttr(name, v) == IF Named(name) = {} THEN Append(tree[1].attrs, <<name, v>>)
                    ELSE [i \in 1 .. Len(tree[1].attrs) |-> IF i \in Named(name) THEN <<name, v>> ELSE tree[1].attrs[i]]
Change(as) == /\ Len(doc) <= 2      \* bound
              /\ tree[1].tag = "start" /\ tree' = [tree EXCEPT ![1].attrs = as]
              /\ domres' = <<"change", TRUE>> /\ UNCHANGED <<doc, failed>>
Put(name, v) == Change(SetAttr(name, v))
Drop(name) == Change(SelectSeq(tree[1].attrs, LAMBDA a : a[1] # name))

(* somebody writes the file; any other call of the program sets errno, or  *)
(* it is cleared                                                           *)
Edit(e) == /\ domres[1] = "none" /\ Len(doc) < MaxEvents /\ MayFollow(doc, e)
           /\ doc' = Append(doc, e) /\ UNCHANGED <<tree, failed, domres>>
Errno == domres[1] \in {"none", "load"} /\ failed' = ~failed /\ UNCHANGED <<doc, tree, domres>>

Next == /\ domres[1] # "crash"
        /\ \/ Load \/ LoadFails \/ Store \/ Errno
           \/ \E e \in Events : Edit(e)
           \/ \E name \in {"a", "b"}, v \in {"plain", "markup"} : Put(name, v)
           \/ Drop("a")

-----------------------------------------------------------------------------
(* what a document means: its nodes, text of blanks among them, each under *)
(* the last element before it that is still open                           *)
Parent(f, k) == LET open == {j \in 1 .. k - 1 : f[j].tag = "start" /\ Depth(f, j) = Depth(f, k - 1)}
                IN IF Depth(f, k - 1) = 0 THEN 0 ELSE CHOOSE j \in open : \A i \in open : i <= j
Content(f) == {k \in 1 .. Len(f) : f[k].tag # "end" /\ (f[k].tag # "start" => Depth(f, k) > 0)}
Meaning(f) ==
  LET rank(k) == Cardinality({j \in Content(f) : j <= k})
      id(r) == CHOOSE k \in Content(f) : rank(k) = r
  IN [r \in 1 .. Cardinality(Content(f)) |->
        LET k == id(r) IN Node(f[k].tag, f[k].attrs, f[k].value, IF r = 1 THEN 0 ELSE rank(Parent(f, k)))]
Fit(f) == \A k \in 1 .. Len(f) : f[k].value # "unfit" /\ \A i \in 1 .. Len(f[k].attrs) : f[k].attrs[i][2] # "unfit"
CommentFirst(f) == f # <<>> /\ f[1].tag = "#comment"
Inked(f) == SelectSeq(f, LAMBDA e : e.value # "blank")
Deep(f) == \E k \in 1 .. Len(f) : Depth(f, k) >= StackMax

(* A load that succeeds has read the whole document without the text that  *)
(* is blank (line 362-369 drop it), unless the document has a string that  *)
(* does not fit or a comment before the root; and one that fails has a     *)
(* reason in the document, or errno was already set.                       *)
Loads == domres[1] = "load" =>
           /\ domres[2] /\ Fit(doc) /\ ~CommentFirst(doc) => tree = Meaning(Inked(doc))
           /\ ~domres[2] => \/ ~WellFormed(doc) \/ ~Fit(doc) \/ Deep(doc)
                            \/ \E k \in 1 .. Len(doc) : doc[k].value = "empty"
(* A tree that was stored is read back, unless it holds markup or is       *)
(* deeper than the stack: whatever was loaded or failed to load before,    *)
(* and whatever attributes were put.                                       *)
Marked(n) == n.value = "markup" \/ \E i \in 1 .. Len(n.attrs) : n.attrs[i][2] = "markup"
Stores == domres = <<"store", TRUE>> =>
            LET r == Fread(doc, failed, <<>>)
            IN (\A i \in 1 .. Len(tree) : ~Marked(tree[i])) /\ ~Deep(doc) => r.ok /\ r.tree = tree
Faithful == Loads /\ Stores
=============================================================================
