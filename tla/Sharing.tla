------------------------------- MODULE Sharing -------------------------------
(***************************************************************************)
(* Shamir's secret sharing (viff/shamir.py), pseudo-random secret sharing   *)
(* (viff/prss.py), the keys it needs (viff/config.py) and the sharings that *)
(* viff/passive.py makes from it.  There are n players, 1 .. n, and f is a  *)
(* field of module Fields.  Shares are a function from points, which are    *)
(* the ids of players, to elements of f.                                    *)
(*                                                                          *)
(* A pseudo-random function is a function of its key and its argument; in   *)
(* one call the argument is the program counter, which all players agree    *)
(* on (module ProgramCounters), so prf[s] here is the value that the key of *)
(* the subset s gives for it.                                               *)
(***************************************************************************)
EXTENDS Fields, FiniteSets, Folds, FiniteSetsExt

SumOver(f, S, term(_)) ==
    MapThenFoldSet(LAMBDA a, b : Add(f, a, b), 0, term,
                   LAMBDA s : CHOOSE x \in s : TRUE, S)
ProductOver(f, S, term(_)) ==
    MapThenFoldSet(LAMBDA a, b : Mul(f, a, b), 1, term,
                   LAMBDA s : CHOOSE x \in s : TRUE, S)

-----------------------------------------------------------------------------
\* shamir.py

\* share(secret, Len(random), n): the polynomial with these coefficients, at
\* the points of the players, by Horner's rule.
Share(f, n, secret, random) ==
    LET coef == <<secret>> \o random
        value(i) ==
            LET from[j \in 1 .. Len(coef)] ==
                    IF j = Len(coef) THEN coef[j]
                    ELSE Add(f, coef[j], Mul(f, from[j + 1], i))
            IN  from[1]
    IN  [i \in 1 .. n |-> value(i)]

RecombinationVector(f, xs, x_recomb) ==
    [i \in xs |-> ProductOver(f, xs \ {i},
                      LAMBDA k : Div(f, Sub(f, k, x_recomb), Sub(f, k, i)))]

\* With less than two points the code has no factors to multiply and fails.
CanRecombine(xs) == Cardinality(xs) >= 2

RecombineAt(f, shares, x_recomb) ==
    LET vector == RecombinationVector(f, DOMAIN shares, x_recomb)
    IN  SumOver(f, DOMAIN shares, LAMBDA i : Mul(f, shares[i], vector[i]))

Recombine(f, shares) == RecombineAt(f, shares, 0)

First(k, shares) == [i \in 1 .. k |-> shares[i]]

VerifySharing(f, shares, degree) ==
    \A i \in degree + 1 .. Cardinality(DOMAIN shares) :
        RecombineAt(f, First(degree + 1, shares), i) = shares[i]

-----------------------------------------------------------------------------
\* prss.py and config.py

GenerateSubsets(S, size) == {s \in SUBSET S : Cardinality(s) = size}

\* The subsets that have a key, in a configuration for n players, threshold t.
MaxUnqualifiedSubsets(n, t) == GenerateSubsets(1 .. n, n - t)

\* The subsets whose keys generate_configs gives to a player: for sharings of
\* numbers that nobody knows, and for those that dealer knows.
PrssKeys(n, t, player) == {s \in MaxUnqualifiedSubsets(n, t) : player \in s}
PrssDealerKeys(n, t, player, dealer) ==
    {s \in MaxUnqualifiedSubsets(n, t) : player \in s \cup {dealer}}

RandomReplicatedSharing(j, prf) == [s \in {u \in DOMAIN prf : j \in u} |-> prf[s]]

\* The polynomial that is 1 at 0 and 0 at the players outside s, at point j.
InterpolationAt(f, n, j, s) ==
    RecombineAt(f, [x \in {0} \cup ((1 .. n) \ s) |-> IF x = 0 THEN 1 ELSE 0], j)

ConvertReplicatedShamir(f, n, j, rep_shares) ==
    SumOver(f, DOMAIN rep_shares,
            LAMBDA s : Mul(f, ToField(f, rep_shares[s]), InterpolationAt(f, n, j, s)))

Prss(f, n, j, prf) ==
    ConvertReplicatedShamir(f, n, j, RandomReplicatedSharing(j, prf))

\* PRF: the number that it makes of the bytes of digest, and what it returns if
\* digests are those of an input that grows as long as the number is too big.
PrfBits(max) == IF max = 1 THEN 1 ELSE BitLength(max)

PrfNumber(digest, max) ==
    LET bits == PrfBits(max)
        upTo[i \in 0 .. (bits + 7) \div 8] ==
            IF i = 0 THEN 0 ELSE upTo[i - 1] * 256 + digest[i]
    IN  upTo[(bits + 7) \div 8] \div 2^((- bits) % 8)

PrfValue(digests, max) ==
    LET small(i) == PrfNumber(digests[i], max) < max
    IN  PrfNumber(digests[CHOOSE i \in DOMAIN digests :
                              small(i) /\ \A j \in 1 .. i - 1 : ~ small(j)], max)

\* Number i, from 1, of those packed into result with the given modulus.
Digit(result, modulus, i) ==
    LET rest[k \in Nat] == IF k = 0 THEN result ELSE rest[k - 1] \div modulus
    IN  rest[i - 1] % modulus

PrssMulti(f, n, j, prf, modulus, quantity) ==
    LET results == RandomReplicatedSharing(j, prf)
    IN  [i \in 1 .. quantity |->
            ConvertReplicatedShamir(f, n, j,
                [s \in DOMAIN results |-> Digit(results[s], modulus, i)])]

\* Mutant: the bits are shared over the field of the numbers.
PrssLsbInOneField(f, n, j, prf) ==
    LET rep_shares == RandomReplicatedSharing(j, prf)
    IN  <<ConvertReplicatedShamir(f, n, j, rep_shares),
          ConvertReplicatedShamir(f, n, j, [s \in DOMAIN rep_shares |->
                                               rep_shares[s] % 2])>>

PrssLsb(f, n, j, prf) ==
    LET rep_shares == RandomReplicatedSharing(j, prf)
    IN  <<ConvertReplicatedShamir(f, n, j, rep_shares),
          ConvertReplicatedShamir(GF256, n, j, [s \in DOMAIN rep_shares |->
                                                   rep_shares[s] % 2])>>

\* Here prf[s] has t numbers, the values for arguments 0 .. t - 1.
PrssZero(f, n, t, j, prf, quantity) ==
    LET rep_shares == RandomReplicatedSharing(j, prf)
        term(s, k) ==
            SumOver(f, 1 .. t, LAMBDA i :
                Mul(f, ToField(f, Digit(rep_shares[s][i], f, k)),
                    Mul(f, InterpolationAt(f, n, j, s), Pow(f, j, i))))
    IN  [k \in 1 .. quantity |->
            SumOver(f, DOMAIN rep_shares, LAMBDA s : term(s, k))]

-----------------------------------------------------------------------------
\* The sharings of passive.py, as functions of player j.

\* What the inputter of prss_share sends to everybody.
Correction(f, n, t, prf, element) ==
    Sub(f, element, Recombine(f, [player \in 1 .. t + 1 |->
                                     Prss(f, n, player, prf)]))

PrssShare(f, n, t, j, prf, element) ==
    Add(f, Prss(f, n, j, prf), Correction(f, n, t, prf, element))

\* finish of prss_share_random with binary=True: square is the opened square of
\* the number and not 0.
BinaryShare(f, share, square) ==
    Div(f, Add(f, Div(f, share, Sqrt(f, square)), 1), 2)

PrssDoubleShare(f, n, t, j, prf, zero_prf, quantity) ==
    LET r_t == PrssMulti(f, n, j, prf, f, quantity)
        z_2t == PrssZero(f, n, t, j, zero_prf, quantity)
    IN  <<r_t, [i \in 1 .. quantity |-> Add(f, r_t[i], z_2t[i])]>>

\* prss_share_bit_double: b_p is a share of a bit over f, and opened the sum of
\* that bit and the random number; the result is a share of the bit over GF256.
BitDouble(f, n, j, prf, opened) ==
    Add256(ToField(GF256, opened % 2), PrssLsb(f, n, j, prf)[2])
==============================================================================
