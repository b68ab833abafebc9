------------------------------- MODULE Orlandi -------------------------------
(***************************************************************************)
(* The Orlandi runtime (viff/orlandi.py): additive sharings with            *)
(* commitments, and triples made with an encryption and tested.             *)
(*                                                                          *)
(* A share is a record of a number x, a pair rho of random numbers and a    *)
(* commitment C; a sharing is a function from the players 1 .. n to shares. *)
(* The module commitment is not in the repository: a commitment is what it  *)
(* commits to, and it is multiplied, divided and exponentiated accordingly. *)
(* An encryption is its plaintext modulo N with its randomness.             *)
(***************************************************************************)
EXTENDS SimpleArithmetic, FiniteSets, FiniteSetsExt

Commit(f, x, rho1, rho2) == <<x % f, rho1 % f, rho2 % f>>
TimesC(f, C, D) == [i \in 1 .. 3 |-> Add(f, C[i], D[i])]
OverC(f, C, D) == [i \in 1 .. 3 |-> Sub(f, C[i], D[i])]
PowerC(f, C, k) == [i \in 1 .. 3 |-> Mul(f, C[i], k % f)]

ProductC(f, Cs) ==
    LET upTo[i \in 0 .. Len(Cs)] ==
            IF i = 0 THEN Commit(f, 0, 0, 0) ELSE TimesC(f, upTo[i - 1], Cs[i])
    IN  upTo[Len(Cs)]

OrlandiShare(x, rho1, rho2, C) == [x |-> x, rho |-> <<rho1, rho2>>, C |-> C]

-----------------------------------------------------------------------------
\* Arithmetic of the shares of one player.

Combine(op(_, _), opC(_, _), x, y) ==
    OrlandiShare(op(x.x, y.x), op(x.rho[1], y.rho[1]), op(x.rho[2], y.rho[2]),
                 opC(x.C, y.C))

Plus(f, x, y) ==
    Combine(LAMBDA a, b : Add(f, a, b), LAMBDA C, D : TimesC(f, C, D), x, y)

Minus(f, x, y) ==
    Combine(LAMBDA a, b : Sub(f, a, b), LAMBDA C, D : OverC(f, C, D), x, y)

ConstantMultiply(f, x, c) ==
    OrlandiShare(Mul(f, x.x, c), Mul(f, x.rho[1], c), Mul(f, x.rho[2], c),
                 PowerC(f, x.C, c))

\* _convert_public_to_share, for player i
ConvertPublic(f, i, c) ==
    OrlandiShare(IF i = 1 THEN c ELSE 0, 0, 0, Commit(f, c, 0, 0))

PlusPublic(f, i, x, c) == Plus(f, x, ConvertPublic(f, i, c))
MinusPublicRight(f, i, x, c) == Minus(f, x, ConvertPublic(f, i, c))
MinusPublicLeft(f, i, x, c) == PlusPublic(f, i, ConstantMultiply(f, x, Neg(f, 1)), c)

-----------------------------------------------------------------------------
\* Sharing and opening.

\* secret_share: xs are the first n - 1 shares, rhos the random pairs.
SecretShare(f, n, number, xs, rhos) ==
    LET last == Sub(f, number, FieldSum(f, xs))
        rho(k) == FieldSum(f, [i \in 1 .. n |-> rhos[i][k]])
        C == Commit(f, number, rho(1), rho(2))
    IN  [i \in 1 .. n |->
            OrlandiShare(IF i = n THEN last ELSE xs[i], rhos[i][1], rhos[i][2], C)]

\* random_share: random[i] are the number and the pair that player i draws.
RandomShare(f, n, random) ==
    LET Cr == ProductC(f, [i \in 1 .. n |->
                              Commit(f, random[i][1], random[i][2], random[i][3])])
    IN  [i \in 1 .. n |-> OrlandiShare(random[i][1], random[i][2], random[i][3], Cr)]

\* An OrlandiException.
WrongCommitment == -1

\* open: everybody broadcasts its share, and a player
\* compares with the commitment C of its own.
RecombineValue(f, X, C) ==
    LET sum(part(_)) == FieldSum(f, [i \in DOMAIN X |-> part(X[i])])
        x == sum(LAMBDA s : s.x)
    IN  IF Commit(f, x, sum(LAMBDA s : s.rho[1]), sum(LAMBDA s : s.rho[2])) = C
        THEN x ELSE WrongCommitment

Open(f, X, me) == RecombineValue(f, X, X[me].C)

\* open_multiple_values and open_two_values fail if one of the values does, and
\* then nothing comes of the others.
Failed == <<>>

OpenMultiple(f, Xs, me) ==
    LET values == [i \in DOMAIN Xs |-> Open(f, Xs[i], me)]
    IN  IF \E i \in DOMAIN Xs : values[i] = WrongCommitment THEN Failed ELSE values

OpenTwo(f, X, Y, me) == OpenMultiple(f, <<X, Y>>, me)

\* shift, the input of x with the random sharing R: the difference is broadcast.
Shift(f, R, inputter, x) ==
    LET delta == Sub(f, Open(f, R, inputter), x)
    IN  [i \in DOMAIN R |-> MinusPublicRight(f, i, R[i], delta)]

-----------------------------------------------------------------------------
\* Multiplication.

Difference(f, X, Y) == [i \in DOMAIN X |-> Minus(f, X[i], Y[i])]

MultOpened(f, X, Y, c, de) ==
    IF de = Failed THEN Failed
    ELSE [i \in DOMAIN X |->
            BasicMultiplication(f, LAMBDA a, b : Plus(f, a, b),
                LAMBDA a, k : MinusPublicRight(f, i, a, k),
                LAMBDA a, k : ConstantMultiply(f, a, k),
                X[i], Y[i], c[i], de[1], de[2])]

Mult(f, X, Y, triple) ==
    MultOpened(f, X, Y, triple.c,
               OpenTwo(f, Difference(f, X, triple.a), Difference(f, Y, triple.b), 1))

\* compute_delta: the divisions of these integers leave no remainder.
ComputeDelta(d) ==
    LET product(S, term(_)) == MapThenFoldSet(LAMBDA a, b : a * b, 1, term,
                                   LAMBDA s : CHOOSE x \in s : TRUE, S)
        others(j) == 1 .. 2 * d + 1 \ {j}
    IN  [j \in 1 .. 2 * d + 1 |->
            LET pt == product(others(j), LAMBDA k : k)
                pn == product(others(j), LAMBDA k : k - j)
            IN  IF pn < 0 THEN - (pt \div (- pn)) ELSE pt \div pn]

\* The sum of ls[i] * j^i, for one player.
SumPoly(f, j, ls) ==
    FoldFunction(LAMBDA a, b : Plus(f, a, b), OrlandiShare(0, 0, 0, Commit(f, 0, 0, 0)),
                 [k \in DOMAIN ls |-> ConstantMultiply(f, ls[k], (j^k) % f)])

\* The sharing of the value at j of a polynomial, by its coefficients.
Polynomial(f, Z, hs, j) ==
    [i \in DOMAIN Z |-> Plus(f, Z[i], SumPoly(f, j, [k \in DOMAIN hs |-> hs[k][i]]))]

PlusMultiple(f, Z, H, c) ==
    [i \in DOMAIN Z |-> Plus(f, Z[i], ConstantMultiply(f, H[i], c))]

\* leak_tolerant_mul, with Len(M) triples, an odd number; fs and gs are half as
\* many random sharings each.
LeakTolerantMul(f, X, Y, fs, gs, M) ==
    LET upTo[j \in 0 .. Len(M)] ==
            IF j = 0 THEN [i \in DOMAIN X |-> ConvertPublic(f, i, 0)]
            ELSE PlusMultiple(f, upTo[j - 1],
                     Mult(f, Polynomial(f, X, fs, j), Polynomial(f, Y, gs, j), M[j]),
                     ComputeDelta((Len(M) - 1) \div 2)[j] % f)
    IN  upTo[Len(M)]

-----------------------------------------------------------------------------
\* triple_gen.  random[i] has what player i draws: a, b and t (a number and a
\* pair each, of t only the pair), alpha_randomness and d, a number for each
\* player.  The external encryption is homomorphic.

Encrypt(N, m, r) == <<m % N, r % N>>

PowerMod[x \in Nat, k \in Nat, N \in Nat] ==
    IF k = 0 THEN 1 % N ELSE (x * PowerMod[x, k - 1, N]) % N

\* fixed_base.calc: alpha^b Enc(1; 1)^d
Gamma(N, alpha, b, d) == <<(alpha[1] * b + d) % N, PowerMod[alpha[2], b, N]>>

Alphas(N, random) ==
    [i \in DOMAIN random |-> Encrypt(N, random[i].a[1], random[i].alpha_randomness)]

\* gamma_ij, from player j to player i
GammasOf(N, random, i) ==
    [j \in DOMAIN random |->
        Gamma(N, Alphas(N, random)[i], random[j].b[1], random[j].d[i])]

TripleGen(f, N, random) ==
    LET n == Len(random)
        c(i) == Sub(f, FieldSum(f, [j \in 1 .. n |-> GammasOf(N, random, i)[j][1] % f]),
                       FieldSum(f, [j \in 1 .. n |-> random[i].d[j] % f]))
    IN  [a |-> RandomShare(f, n, [i \in 1 .. n |-> random[i].a]),
         b |-> RandomShare(f, n, [i \in 1 .. n |-> random[i].b]),
         c |-> RandomShare(f, n, [i \in 1 .. n |->
                                     <<c(i), random[i].t[1], random[i].t[2]>>])]

\* triple_test: the first triple, if it agrees with the second.
Consistent(f, t1, t2, r) ==
    LET times(X, k) == [i \in DOMAIN X |-> ConstantMultiply(f, X[i], k)]
        agrees(product) ==
            /\ product # Failed
            /\ Open(f, Difference(f, t1.c, product), 1) = 0
    IN  agrees(Mult(f, t1.a, t1.b, [a |-> times(t2.a, r), b |-> times(t2.b, r),
                                    c |-> times(t2.c, Mul(f, r, r))]))

\* check in random_triple, for player me: ais, bis and cis are the shares that
\* have come, dijs[j] what player j has used for it.  The commitment that is
\* compared is the one that came with the last share.
Check(f, N, me, ais, bis, cis, alpha_randomness, dijs, alphas, gammas) ==
    LET n == Len(ais)
        value(X) == RecombineValue(f, X, X[n].C)
    IN  /\ \A i \in 1 .. n : alphas[i] = Encrypt(N, ais[i].x, alpha_randomness[i])
        /\ WrongCommitment \notin {value(ais), value(bis), value(cis)}
        /\ Mul(f, value(ais), value(bis)) = value(cis)
        /\ \A j \in 1 .. n :
              /\ dijs[j] < f^3
              /\ Gamma(N, alphas[me], bis[j].x, dijs[j]) = gammas[j]

-----------------------------------------------------------------------------
\* random_triple, steps 3 and 6.  The players draw v, the same one for all.

\* coin_flip: the first candidate is tested or comes again later.
CoinFlip(f, v, ls, test_set) ==
    IF f \div 2 > v
    THEN [ls |-> Tail(ls), test_set |-> Append(test_set, ls[1])]
    ELSE [ls |-> Append(Tail(ls), ls[1]), test_set |-> test_set]

\* put_in_set: nothing happens if the drawn subset is full.
PutInSet(v, size, M, subsets) ==
    LET s == (v % Len(subsets)) + 1
    IN  IF size > Len(subsets[s])
        THEN [M |-> Tail(M), subsets |-> [subsets EXCEPT ![s] = Append(@, M[1])]]
        ELSE [M |-> M, subsets |-> subsets]

\* step7, with a subset M: the triple if c + r opens.
Checked(f, a, b, r, c) ==
    IF Open(f, [i \in DOMAIN c |-> Plus(f, c[i], r[i])], 1) = WrongCommitment
    THEN Failed ELSE [a |-> a, b |-> b, c |-> c]

NewTriple(f, a, b, r, fs, gs, M) ==
    Checked(f, a, b, r, LeakTolerantMul(f, a, b, fs, gs, M))
==============================================================================
