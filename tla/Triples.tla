------------------------------- MODULE Triples -------------------------------
(***************************************************************************)
(* Multiplication triples (viff/active.py): n players with threshold t      *)
(* share random numbers, mix the sharings with a hyper-invertible matrix    *)
(* and look whether they have the right degree, or take pseudo-random       *)
(* sharings; and multiply shares with a triple.                             *)
(*                                                                          *)
(* A sharing is a function from the players to what they have got of it;    *)
(* sharings[dealer] is what dealer dealt in shamir_share, which need not be *)
(* a sharing of any degree if the dealer is faulty.                         *)
(***************************************************************************)
EXTENDS Sharing, Matrices

\* An exception: no triples.
Refused == <<>>

\* _share_single, for player j.  The matrix is made for the first field that is
\* asked for and kept; its product with shares of another field fails.
ShareSingle(f, cached, n, sharings, j) ==
    IF cached # f THEN Refused
    ELSE LET svec == [dealer \in 1 .. n |-> sharings[dealer][j]]
         IN  Transpose(MulMatrix(f, Hyper(n, f), Transpose(<<svec>>)))[1]

\* _verify_single: what player j > T sees are all shares of one of the sharings
\* that were mixed, its own.
VerifySingle(f, T, sharings, degree, j) ==
    j > T => VerifySharing(f, sharings[j], degree)

\* Mutant: only the degrees are looked at.
VerifyDegrees(f, T, sharings1, sharings2, d1, d2, j) ==
    VerifySingle(f, T, sharings1, d1, j) /\ VerifySingle(f, T, sharings2, d2, j)

VerifyDouble(f, T, sharings1, sharings2, d1, d2, j) ==
    /\ VerifySingle(f, T, sharings1, d1, j)
    /\ VerifySingle(f, T, sharings2, d2, j)
    /\ j > T => Recombine(f, First(d1 + 1, sharings1[j]))
                    = Recombine(f, First(d2 + 1, sharings2[j]))

SingleShareRandom(f, cached, n, T, sharings, degree, j) ==
    LET rvec == ShareSingle(f, cached, n, sharings, j)
    IN  IF rvec = Refused \/ ~ VerifySingle(f, T, sharings, degree, j)
        THEN Refused
        ELSE First(T, rvec)

DoubleShareRandom(f, cached, n, T, sharings1, sharings2, d1, d2, j) ==
    LET rvec1 == ShareSingle(f, cached, n, sharings1, j)
        rvec2 == ShareSingle(f, cached, n, sharings2, j)
    IN  IF \/ rvec1 = Refused \/ rvec2 = Refused
           \/ ~ VerifyDouble(f, T, sharings1, sharings2, d1, d2, j)
        THEN Refused
        ELSE <<First(T, rvec1), First(T, rvec2)>>

-----------------------------------------------------------------------------
\* open, when the shares of the first threshold + 1 players come first
Opened(f, sharing, threshold) == Recombine(f, First(threshold + 1, sharing))

\* The sharing of c in make_triple, and in the loop of TriplesPRSSMixin.
TripleProduct(f, t, a_t, b_t, r_t, r_2t) ==
    LET d_2t == [j \in DOMAIN a_t |-> Sub(f, Mul(f, a_t[j], b_t[j]), r_2t[j])]
        d == Opened(f, d_2t, 2 * t)
    IN  [j \in DOMAIN a_t |-> Add(f, r_t[j], d)]

\* Triple i of generate_triples by matrices, if nobody refuses: a and b are the
\* mixed sharings of degree t, r those of degree t and 2t.
HyperTriple(f, t, a, b, r, i) ==
    LET row(vectors) == [j \in DOMAIN vectors |-> vectors[j][i]]
        of(vectors, k) == [j \in DOMAIN vectors |-> vectors[j][k][i]]
    IN  <<row(a), row(b), TripleProduct(f, t, row(a), row(b), of(r, 1), of(r, 2))>>

\* How many triples fit into the 160 bits of a pseudo-random function.
PrssQuantity(f, quantity) ==
    LET fit == 160 \div BitLength(f)
    IN  Min({quantity, IF fit < 1 THEN 1 ELSE fit})

\* BasicActiveRuntime.mul
MulByTriple(f, t, x, y, triple) ==
    LET a == triple[1]  b == triple[2]  c == triple[3]
        d == Opened(f, [j \in DOMAIN x |-> Sub(f, x[j], a[j])], t)
        e == Opened(f, [j \in DOMAIN y |-> Sub(f, y[j], b[j])], t)
    IN  [j \in DOMAIN x |-> FieldSum(f, <<Mul(f, d, e), Mul(f, d, b[j]),
                                          Mul(f, e, a[j]), c[j]>>)]
==============================================================================
