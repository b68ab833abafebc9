--------------------------- MODULE SimpleArithmetic ---------------------------
(***************************************************************************)
(* Multiplication with a triple (viff/simplearithmetic.py), for the two     *)
(* runtimes that have the mixin: they differ in what a share is and bring   *)
(* their own addition, subtraction of a public number and multiplication    *)
(* by one.                                                                  *)
(***************************************************************************)
EXTENDS Fields

\* multiply in _basic_multiplication, at one player: d and e are the opened
\* x - a and y - b, and the result is e[x] + (d[y] - [de] + [c]).
BasicMultiplication(f, plus(_, _), minus_public(_, _), times(_, _), x, y, c, d, e) ==
    plus(times(x, e), plus(minus_public(times(y, d), Mul(f, d, e)), c))
==============================================================================
