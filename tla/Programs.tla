------------------------------- MODULE Programs -------------------------------
(***************************************************************************)
(* Straight-line programs for a runtime: sequences of operations on shares, *)
(* each named by its position, with the positions of its operands in of.    *)
(*   shamir_share  the input of player by                                   *)
(*   local         a linear combination of shares                           *)
(*   public        a share times a number, and a number added               *)
(*   times         the product of two shares of a player with each other,   *)
(*                 without resharing: a sharing of degree 2t                *)
(*   mul           the product, reshared with degree t                      *)
(*   open          the value is made known to the players in to             *)
(* and what they compute on plain numbers.                                  *)
(***************************************************************************)
EXTENDS Fields

ShamirShare(player) == [do |-> "shamir_share", by |-> player]
\* add and sub of shares are linear combinations, too.
LinComb(coefficients, shares) ==
    [do |-> "local", of |-> shares, coef |-> coefficients, const |-> 0]
\* add and mul with a number that everybody knows
AddConstant(a, c) == [do |-> "public", of |-> <<a>>, coef |-> <<1>>, const |-> c]
MulConstant(a, c) == [do |-> "public", of |-> <<a>>, coef |-> <<c>>, const |-> 0]
Times(a, b) == [do |-> "times", of |-> <<a, b>>]
MulShares(a, b) == [do |-> "mul", of |-> <<a, b>>]
Open(a, receivers, threshold) ==
    [do |-> "open", of |-> <<a>>, to |-> receivers, threshold |-> threshold]

Operation ==
    [do : {"shamir_share"}, by : Nat]
        \cup [do : {"local"}, of : Seq(Nat), coef : Seq(Int), const : Int]
        \cup [do : {"public"}, of : [1 .. 1 -> Nat], coef : [1 .. 1 -> Int], const : Int]
        \cup [do : {"times", "mul"}, of : [1 .. 2 -> Nat]]
        \cup [do : {"open"}, of : [1 .. 1 -> Nat], to : SUBSET Nat, threshold : Nat]

\* An operand is the sharing that an earlier operation made.
IsProgram(code) ==
    /\ code \in Seq(Operation)
    /\ \A k \in DOMAIN code :
          /\ code[k].do # "shamir_share" =>
                \A i \in DOMAIN code[k].of :
                   code[k].of[i] \in 1 .. k - 1 /\ code[code[k].of[i]].do # "open"
          /\ code[k].do = "local" =>
                Len(code[k].of) > 0 /\ Len(code[k].coef) = Len(code[k].of)

\* The linear combination that such an operation makes of its operands.
Combination(f, operation, operands) ==
    FieldSum(f, [i \in DOMAIN operands |->
                    Mul(f, ToField(f, operation.coef[i]), operands[i])]
                \o <<ToField(f, operation.const)>>)

\* The numbers that the operations of code stand for, given the inputs.
Values(f, code, input) ==
    LET value(operation, before) ==
            LET operands == [i \in DOMAIN operation.of |-> before[operation.of[i]]]
            IN  CASE operation.do = "shamir_share" -> input[operation.by]
                  [] operation.do \in {"local", "public"} ->
                        Combination(f, operation, operands)
                  [] operation.do \in {"times", "mul"} ->
                        Mul(f, operands[1], operands[2])
                  [] operation.do = "open" -> operands[1]
        upTo[k \in 0 .. Len(code)] ==
            IF k = 0 THEN <<>>
            ELSE LET before == upTo[k - 1]
                 IN  Append(before, value(code[k], before))
    IN  upTo[Len(code)]
==============================================================================
