--------------------------- MODULE MCPassiveRuntime ---------------------------
(***************************************************************************)
(* Four players, threshold 1, over GF(5).  The number x of player 1 is      *)
(* multiplied with 2x + 4; a linear combination of the two is multiplied    *)
(* with x again, without resharing, and opened to player 4 with threshold   *)
(* 2t, which is how prss_share_random opens the square of a random number.  *)
(* Garbled are the pieces of player 3 for mul, so that the operand of the   *)
(* open fails at the others; the share of player 1, so that at the others   *)
(* the operands of mul never come; one of the shares that are opened, or    *)
(* two of them.                                                             *)
(***************************************************************************)
EXTENDS PassiveRuntime

MCCode == <<ShamirShare(1),
            MulConstant(1, 2),
            AddConstant(2, 4),
            MulShares(1, 3),
            LinComb(<<1, 2>>, <<1, 4>>),
            Times(5, 1),
            Open(6, {4}, 2)>>

MCInputs == {[p \in Players |-> 3]}

MCCoefficients == {[p \in Players |-> [k \in Ops |-> <<(p * p * p + k) % 5>>]]}

MCGarbledSets == {{}, {<<3, 4>>}, {<<1, 1>>}, {<<3, 7>>}, {<<2, 7>>, <<3, 7>>}}
==============================================================================
