--------------------------------- MODULE Eval ---------------------------------
(***************************************************************************)
(* eval.c: infix expressions of unsigned numbers, evaluated with a stack   *)
(* of operators and one of values, which a struct eval keeps from call to  *)
(* call, with all that a call leaves on them.  The expression is a         *)
(* sequence of tokens.                                                     *)
(***************************************************************************)
EXTENDS Integers, Sequences, FiniteSets, SequencesExt, TLC

CONSTANTS
  Number,     \* the numbers that occur
  Operator,   \* the operators that occur, of | & ^ + - * /
  ExprLen,    \* bound: how many tokens an expression has
  ReuseLen,   \* bound: the same where something is left on a stack
  MaxLeft,    \* bound: how many tokens are left on the two stacks
  Word,       \* 2 ^ w, w the width of unsigned long
  BitOr(_, _), BitAnd(_, _), BitXor(_, _)     \* of C

VARIABLES
  expr, toki,     \* the tokens, and how many of them are read
  opstk, valstk,  \* eval->opstk and eval->stk
  ops0, vals0,    \* what was left on them when the call began
  eres, result

evalVars == <<expr, toki, opstk, valstk, ops0, vals0, eres, result>>

Bottom == "e"     \* TOK_TYPE_EMPTY: the bottom of opstk and the end of the text
Symbol == "?"     \* a name that symlook does not know; blanks at the end are one
IsNumber(tok) == tok \notin {Bottom, Symbol, "(", ")", "|", "&", "^", "+", "-", "*", "/"}
Token == {ToString(n) : n \in Number} \cup Operator \cup {Symbol, "(", ")"}
Value(tok) == CHOOSE n \in Number : ToString(n) = tok

Init == /\ expr = <<>> /\ toki = 0 /\ opstk = <<Bottom>> /\ valstk = <<>>
        /\ ops0 = opstk /\ vals0 = valstk /\ eres = "idle" /\ result = 0

(* eval_expression *)
Call == /\ eres = "idle"
        /\ expr' \in SeqOf(Token, IF Len(ops0) + Len(vals0) = 1 THEN ExprLen ELSE ReuseLen) \ {<<>>}
        /\ eres' = "running" /\ toki' = 0 /\ UNCHANGED <<opstk, valstk, ops0, vals0, result>>

tok == IF toki < Len(expr) THEN expr[toki + 1] ELSE Bottom
op == Last(opstk)

(* trans_matrix *)
Level(o) == IF o \in {"|", "&", "^"} THEN 1 ELSE IF o \in {"+", "-"} THEN 2 ELSE 3
\* mutant: an operator binds to the right
First_Right(o, then) == Level(then) < Level(o)
First(o, then) == Level(then) <= Level(o)
Operators == {"|", "&", "^", "+", "-", "*", "/"}
Pops == op \in Operators /\ (tok \in {Bottom, ")"} \/ (tok \in Operators /\ First(op, tok)))
Pushes == tok = "(" \/ (tok \in Operators /\ ~Pops)

(* the next token, next_tok; the end of the text is the last one *)
Advance == toki' = toki + 1
Kept == UNCHANGED <<expr, ops0, vals0>>
Fail(r) == eres' = r /\ Kept /\ UNCHANGED <<toki, opstk, valstk, result>>
Running == eres = "running"

Output == /\ Running /\ IsNumber(tok)
          /\ valstk' = Append(valstk, Value(tok)) /\ Advance
          /\ Kept /\ UNCHANGED <<opstk, eres, result>>
Lookup == Running /\ tok = Symbol /\ Fail("error")
Push == /\ Running /\ Pushes
        /\ opstk' = Append(opstk, tok) /\ Advance /\ Kept /\ UNCHANGED <<valstk, eres, result>>
Pren == /\ Running /\ tok = ")" /\ op = "("
        /\ opstk' = Front(opstk) /\ Advance /\ Kept /\ UNCHANGED <<valstk, eres, result>>
Unbalanced == /\ Running /\ \/ tok = ")" /\ op = Bottom
                            \/ tok = Bottom /\ op = "("
              /\ Fail("error")

Apply(o, a, b) == CASE o = "|" -> BitOr(a, b)
                    [] o = "&" -> BitAnd(a, b)
                    [] o = "^" -> BitXor(a, b)
                    [] o = "+" -> (a + b) % Word
                    [] o = "-" -> (a - b) % Word
                    [] o = "*" -> (a * b) % Word
                    [] o = "/" -> a \div b

(* pop: the operands are not counted, a missing one is a NULL pointer, and *)
(* a zero divisor is not refused                                           *)
Pop == /\ Running /\ Pops
       /\ LET p2 == Last(valstk)
              p1 == Last(Front(valstk))
          IN IF Len(valstk) < 2 \/ (op = "/" /\ p2 = 0) THEN Fail("crash")
             ELSE /\ valstk' = Append(Front(Front(valstk)), Apply(op, p1, p2))
                  /\ opstk' = Front(opstk)
                  /\ Kept /\ UNCHANGED <<toki, eres, result>>

Return == /\ Running /\ tok = Bottom /\ op = Bottom
          /\ result' = IF valstk = <<>> THEN 0 ELSE Last(valstk)
          /\ valstk' = IF valstk = <<>> THEN <<>> ELSE Front(valstk)
          /\ eres' = "ok" /\ Kept /\ UNCHANGED <<toki, opstk>>

(* the object is used again, after an error too, with its stacks as they   *)
(* are, or deleted and made again (eval_del, eval_new)                     *)
Again == /\ eres \in {"ok", "error"} /\ Len(opstk) + Len(valstk) <= MaxLeft + 1
         /\ ops0' = opstk /\ vals0' = valstk /\ UNCHANGED <<opstk, valstk>>
         /\ eres' = "idle" /\ expr' = <<>> /\ toki' = 0 /\ result' = 0
Renew == /\ eres \notin {"idle", "running"}
         /\ opstk' = <<Bottom>> /\ valstk' = <<>> /\ ops0' = opstk' /\ vals0' = valstk'
         /\ eres' = "idle" /\ expr' = <<>> /\ toki' = 0 /\ result' = 0

Next == Call \/ Output \/ Lookup \/ Push \/ Pren \/ Unbalanced \/ Pop \/ Return \/ Again \/ Renew

-----------------------------------------------------------------------------
(* What an expression means: of[i][n], the value of the n tokens from i on *)
(* as a number, a parenthesis, or two expressions around the last operator *)
(* of the lowest precedence outside parentheses; Bad if they are none of   *)
(* these, Zero if something is divided by zero.                            *)
Bad == -1
Zero == -2
Precedence(o) == CASE o \in {"|", "&", "^"} -> 1 [] o \in {"+", "-"} -> 2 [] o \in {"*", "/"} -> 3
Depth(s, k) == Cardinality({i \in 1 .. k : s[i] = "("}) - Cardinality({i \in 1 .. k : s[i] = ")"})
Splits(s, i, n) == {k \in i .. i + n - 1 : s[k] \in Operators /\ Depth(s, k) = Depth(s, i - 1)}
Split(s, i, n) == CHOOSE k \in Splits(s, i, n) :
                    \A j \in Splits(s, i, n) :
                      \/ Precedence(s[k]) < Precedence(s[j])
                      \/ Precedence(s[k]) = Precedence(s[j]) /\ j <= k
Meaning(s) ==
  LET of[n \in 0 .. Len(s)] ==
        [i \in 1 .. Len(s) + 1 - n |->
           IF n = 0 THEN Bad
           ELSE IF n = 1 THEN IF IsNumber(s[i]) THEN Value(s[i]) ELSE Bad
           ELSE IF Splits(s, i, n) = {}
                THEN IF n > 2 /\ s[i] = "(" /\ s[i + n - 1] = ")" THEN of[n - 2][i + 1] ELSE Bad
           ELSE LET k == Split(s, i, n)
                    a == of[k - i][i]
                    b == of[i + n - 1 - k][k + 1]
                IN IF a = Bad \/ b = Bad THEN Bad
                   ELSE IF a = Zero \/ b = Zero \/ (s[k] = "/" /\ b = 0) THEN Zero
                   ELSE Apply(s[k], a, b)]
  IN of[Len(s)][1]
Balanced(s) == /\ Depth(s, Len(s)) = 0
               /\ \A k \in 1 .. Len(s) : Depth(s, k) >= 0

(* In a call that finds no operator left, an expression that means         *)
(* something is evaluated to its meaning and both stacks are as they were, *)
(* whatever values are left, and nothing legal crashes but a division by   *)
(* zero.  In every call parentheses that do not match, those left open     *)
(* before it included, are never accepted.                                 *)
Evaluated == Meaning(expr) >= 0 =>
               eres = "ok" /\ result = Meaning(expr) /\ opstk = ops0 /\ valstk = vals0
Correct == eres \notin {"idle", "running"} =>
             /\ ops0 = <<Bottom>> => Evaluated
             /\ eres = "ok" => Balanced(Tail(ops0) \o expr)

(* The same of every call, whatever an earlier one has left. *)
Reusable == eres \notin {"idle", "running"} => Evaluated
=============================================================================
