---------------------------- MODULE BedozaTriples ----------------------------
(***************************************************************************)
(* How the BeDOZa runtime gets its sharings and triples (viff/bedoza:       *)
(* share_generators.py, bedoza_triple.py, add_macs.py, share.py).           *)
(*                                                                          *)
(* A partial share is the numbers of the players, each known to the others  *)
(* as an encryption under its owner's key.  Module Paillier shows what the  *)
(* cipher does; here an encryption is its plaintext, a number modulo M, and *)
(* decryption gives the representative nearest to 0.                        *)
(***************************************************************************)
EXTENDS Bedoza

Decrypted(M, c) == IF c % M <= (M - 1) \div 2 THEN c % M ELSE (c % M) - M

\* generate_share: r[i] is the list of random numbers of player i, which it draws
\* for itself; player 1 uses all of its own, the others one of theirs.
GenerateShare(value, r) ==
    [p \in Players |-> IF p = 1 THEN Sub(Field, value[1], FieldSum(Field, r[1]))
                       ELSE r[p][p - 1]]

\* _mul, of the number a of one player and b of another: the second decrypts
\* a b + u, and the first has -u.
MulPair(M, a, b, u) == <<(- u) % Field, Decrypted(M, a * b + u) % Field>>

\* _full_mul: u[i][j] is drawn by player i for its product with player j.
FullMul(M, a, b, u) ==
    [p \in Players |->
        Add(Field,
            FieldSum(Field, [j \in Players |-> MulPair(M, a[p], b[j], u[p][j])[1]]),
            FieldSum(Field, [i \in Players |-> MulPair(M, a[i], b[p], u[i][p])[2]]))]

\* add_macs: player p draws beta[p][q], of either sign, for the number of q.
AddMacs(M, values, beta) ==
    [q \in Players |->
        [value |-> values[q],
         keys |-> [p \in Players |-> beta[q][p] % Field],
         macs |-> [p \in Players |->
             Decrypted(M, Alpha[p] * values[q] + beta[p][q]) % Field]]]

\* The relation of numbers, MACs and keys.
Valid(X) ==
    \A p, q \in Players : X[q].macs[p] = MAC(Alpha[p], X[p].keys[q], X[q].value)

\* open, when nothing happens in between.
Opened(X) ==
    IF Valid(X) THEN FieldSum(Field, [q \in Players |-> X[q].value]) ELSE Wrong

MulByTriple(X, Y, triple) ==
    LET less(A, B) == [p \in Players |-> MinusContents(A[p], B[p])]
        d == Opened(less(X, triple.a))
        e == Opened(less(Y, triple.b))
    IN  [p \in Players |->
            BasicMultiplication(Field, PlusContents,
                LAMBDA x, c : AddPublic(p, x, Neg(Field, c)), CMulContents,
                X[p], Y[p], triple.c[p], d, e)]

\* _generate_triple_candidates, from the sharings a and b
Candidate(M, a, b, u, betas) ==
    [a |-> AddMacs(M, a, betas[1]), b |-> AddMacs(M, b, betas[2]),
     c |-> AddMacs(M, FullMul(M, a, b, u), betas[3])]

\* _verify_triple_candidates: t1 against t2, which is used up.
Consistent(t1, t2, r) ==
    LET scaled(X, c) == [p \in Players |-> CMulContents(X[p], c)]
        product == MulByTriple(t1.a, t1.b,
                       [a |-> scaled(t2.a, r), b |-> scaled(t2.b, r),
                        c |-> scaled(t2.c, Mul(Field, r, r))])
    IN  Opened([p \in Players |-> MinusContents(t1.c[p], product[p])]) = 0
==============================================================================
