------------------------------- MODULE MCParsers -------------------------------
(***************************************************************************)
(* Parsers.tla for TLC: paths of seven characters with and without room    *)
(* for them, rows of five, expressions of five tokens on two bits, texts   *)
(* of four characters, documents of five events.                           *)
(***************************************************************************)
EXTENDS Parsers, Bitwise

MCOr(a, b) == a | b
MCAnd(a, b) == a & b
MCXor(a, b) == a ^^ b
MCExtra == {<<"k", "=", "k">>, <<"k", "n">>}
MCEnviron == {<<<<"k", "=">>>>, <<<<"k", "=">>, <<"k">>>>, <<<<"#", "n", "k", "k">>>>}
MCQuery == {<<"k", "=", "k">>, <<"k", "=", "&", "=">>}
=============================================================================
