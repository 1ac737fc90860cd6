-------------------------------- MODULE Parsers --------------------------------
(***************************************************************************)
(* The parsers of libmba and what they fill: each is a sequential          *)
(* component of its own, and a behaviour exercises the one that which      *)
(* names.                                                                  *)
(***************************************************************************)
EXTENDS Integers, Sequences

CONSTANTS
  PathLen, Room,                                                    \* PathCanon
  LineLen, BufSize, Columns,                                        \* Csv
  Number, Operator, ExprLen, ReuseLen, MaxLeft, Word,               \* Eval
  BitOr(_, _), BitAnd(_, _), BitXor(_, _),
  TextLen, Extra, Environ, Query,                                   \* Cfg
  MaxEvents, StackMax                                               \* Domnode

ASSUME PathAssumption == PathLen \in Nat /\ Room \subseteq Nat
ASSUME CsvAssumption == LineLen \in Nat /\ BufSize \subseteq Nat /\ Columns \subseteq Nat

VARIABLES
  which,
  src, si, dst, dlim, pstate, pres,                                                \* PathCanon
  text, count, trim, quotes, cstate, inquotes, base, elem, t, row, rn, bn, rn0, bn0, cres,         \* Csv
  expr, toki, opstk, valstk, ops0, vals0, eres, result,                            \* Eval
  lines, file, done, stored,                                                       \* Cfg
  doc, tree, failed, domres                                                        \* Domnode

pathVars == <<src, si, dst, dlim, pstate, pres>>
csvVars == <<text, count, trim, quotes, cstate, inquotes, base, elem, t, row, rn, bn, rn0, bn0, cres>>
evalVars == <<expr, toki, opstk, valstk, ops0, vals0, eres, result>>
cfgVars == <<lines, file, done, stored>>
domVars == <<doc, tree, failed, domres>>
vars == <<which, pathVars, csvVars, evalVars, cfgVars, domVars>>

Path == INSTANCE PathCanon
CsvParser == INSTANCE Csv
Eval == INSTANCE Eval
Cfg == INSTANCE Cfg WITH More <- Extra
Domnode == INSTANCE Domnode

ASSUME CfgAssumption ==
  /\ TextLen \in Nat /\ Extra \subseteq Seq(Cfg!Character) /\ Query \subseteq Seq(Cfg!Character)
  /\ Environ \subseteq Seq(Seq(Cfg!Character))

Init == /\ which \in {"path", "csv", "eval", "cfg", "dom"}
        /\ Path!Init /\ CsvParser!Init /\ Eval!Init /\ Cfg!Init /\ Domnode!Init
Next ==
  /\ UNCHANGED which
  /\ \/ which = "path" /\ Path!Next /\ UNCHANGED <<csvVars, evalVars, cfgVars, domVars>>
     \/ which = "csv" /\ CsvParser!Next /\ UNCHANGED <<pathVars, evalVars, cfgVars, domVars>>
     \/ which = "eval" /\ Eval!Next /\ UNCHANGED <<pathVars, csvVars, cfgVars, domVars>>
     \/ which = "cfg" /\ Cfg!Next /\ UNCHANGED <<pathVars, csvVars, evalVars, domVars>>
     \/ which = "dom" /\ Domnode!Next /\ UNCHANGED <<pathVars, csvVars, evalVars, cfgVars>>
Spec == Init /\ [][Next]_vars

(* path.c: path_canon returns the canonical path, and fails only where the *)
(* terminator or room is missing; it writes nothing beyond the room.       *)
PathCanonical == which = "path" => Path!Canonical

(* csv.c: a call that succeeds has split the row, or as many of its fields *)
(* as row[] has places, and decoded them, with and without quotes and      *)
(* trimming; a whole row is refused only if it is not legal or the buffer  *)
(* is no larger than its text; no element is written beyond the buffer or  *)
(* the row.                                                                *)
CsvRow == which = "csv" => CsvParser!RowCorrect

(* eval.c: an expression that means something is evaluated to its meaning, *)
(* by precedence and from the left, and leaves the object as it was,       *)
(* unless an earlier call failed with operators on the stack; parentheses  *)
(* that do not match are never accepted.                                   *)
EvalCorrect == which = "eval" => Eval!Correct

(* docs/xml/eval.xml:83, "The eval_new function can be used repeatedly to  *)
(* evaluate any number of expressions": an expression that means something *)
(* is evaluated to its meaning whatever was evaluated before it.           *)
EvalReusable == which = "eval" => Eval!Reusable

(* cfg.c: no lookup of a name that cfg_next lists runs beyond its line,    *)
(* whatever was loaded; a load adds all its lines or clears them all; and  *)
(* properties that were stored and loaded again have the values they had,  *)
(* but for those cfg_store writes as something else.                       *)
CfgSound == /\ [](which = "cfg" => Cfg!Lookups /\ Cfg!Reload)
            /\ [][which = "cfg" => Cfg!Whole]_vars

(* domnode.c: a document is loaded as the tree it means, without its blank *)
(* text, or not at all, but for strings that do not fit and a comment      *)
(* before the root, and a tree that was stored is loaded as itself, but    *)
(* for markup in its text.                                                 *)
DomTree == which = "dom" => Domnode!Faithful
=============================================================================
