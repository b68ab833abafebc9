----------------------------- MODULE MCProtocols -----------------------------
(***************************************************************************)
(* The arithmetic of VIFF and the protocols built on it, on small           *)
(* instances.  A behaviour is one job: an operation of a field, a sharing,  *)
(* the making of triples, a comparison, an encryption, ..., whose inputs    *)
(* and random numbers are chosen when it starts, and which goes on in as    *)
(* many steps as the players take; or a program of the BeDOZa runtime, or   *)
(* two runs of a program with a pool of preprocessed data.                  *)
(***************************************************************************)
EXTENDS Rijndael, Sharing, ProgramRuns, SequencesExt

M == INSTANCE Matrices
T == INSTANCE Triples
G == INSTANCE Montgomery
O == INSTANCE Orlandi
Y == INSTANCE Paillier
BT == INSTANCE BedozaTriples

CONSTANT Idle

VARIABLE job

\* Three generators, one of which returns two items at once.
MCCalls == <<"triple", "chain", "triple", "other field", "triple", "chain">>
MCMostAtOnce == [k \in Range(MCCalls) |-> IF k = "triple" THEN 2 ELSE 1]

\* A job that is done at once has an input and an output.
Do(kind, in, out) ==
    /\ job = Idle
    /\ job' = [kind |-> kind, in |-> in, out |-> out]

Done(kind) == job # Idle /\ job.kind = kind

-----------------------------------------------------------------------------
\* Fields, matrices and exponentiation.

MultiplyBytes ==
    \E x \in Byte, y \in {1, 2, 3, 27, 128, 255} :
        Do("bytes", <<x, y>>, <<Mul256(x, y), IF x = 0 THEN 0 ELSE Div(GF256, y, x)>>)

InvertNumbers ==
    \E bound \in {3, 4, 20, 30}, blum \in BOOLEAN :
        LET p == FindPrime(bound, blum) IN
        \E x \in 1 .. p - 1 :
            Do("number", [p |-> p, x |-> x, blum |-> blum],
               [inverse |-> Inv(p, x), root |-> Sqrt(p, Mul(p, x, x)),
                bits |-> Split(p, x), signed |-> Signed(p, x)])

Exponentiate ==
    \E n \in {15, 45, 61}, x \in 1 .. 5, a \in {2, 7, 14} :
        LET r == G!CalcR(n) IN
        Do("power", <<n, x, a>>, G!MontgomeryExponentiation(a, x, n, G!CalcNp(n, r), r))

\* An arbitrary matrix.
Mixed(f, n, k) == [i \in 1 .. n |-> [j \in 1 .. n |-> (k * i * i + 3 * j * i + j * j * j) % f]]

MultiplyMatrices ==
    \E f \in {7, 31}, n \in 2 .. 4, k \in 1 .. 3, l \in 2 .. 3 :
        LET A1 == Mixed(f, n, k)
            B1 == Mixed(f, n, l)
            AB == M!MulMatrix(f, A1, B1)
            Ones == [i \in 1 .. n |-> [j \in 1 .. n |-> 1]]
        IN  Do("matrices", <<f, n, k, l>>,
               [dets |-> <<M!Determinant(f, A1), M!Determinant(f, B1),
                           M!Determinant(f, AB)>>,
                transposed |-> <<M!Transpose(AB),
                    M!MulMatrix(f, M!Transpose(B1), M!Transpose(A1))>>,
               shifted |-> <<M!MulMatrix(f, M!AddElement(f, A1, k), B1),
                    M!AddMatrix(f, AB, M!Scale(f, M!MulMatrix(f, Ones, B1), k))>>])

\* The square submatrices of the matrix that mixes the sharings.
InOrder(S) == [i \in 1 .. Cardinality(S) |->
                  CHOOSE x \in S : Cardinality({y \in S : y < x}) = i - 1]

SquareSubmatrices(A1) ==
    {[i \in 1 .. Cardinality(r) |-> [j \in 1 .. Cardinality(r) |->
         A1[InOrder(r)[i]][InOrder(c)[j]]]] :
        <<r, c>> \in {<<u, v>> \in (SUBSET DOMAIN A1) \X (SUBSET DOMAIN A1) :
                         u # {} /\ Cardinality(u) = Cardinality(v)}}

MakeHyper ==
    \E nf \in {<<2, 7>>, <<3, 47>>, <<4, 11>>} :
        Do("hyper", nf,
           {M!Determinant(nf[2], B1) : B1 \in SquareSubmatrices(M!Hyper(nf[1], nf[2]))})

\* The product of two polynomials over GF(2), modulo x^8 + x^4 + x^3 + x + 1.
ProductOfPolynomials(x, y) ==
    LET product[i \in 0 .. 8] ==
            IF i = 0 THEN 0
            ELSE LET twice == 2 * product[i - 1]
                     reduced == IF twice >= 256 THEN BitXor[twice, 283] ELSE twice
                 IN  IF Bit(y, 8 - i) = 1 THEN BitXor[reduced, x] ELSE reduced
    IN  product[8]

\* The tables of field.py are those of the field of polynomials modulo
\* x^8 + x^4 + x^3 + x + 1; inverses and roots are what they are called; bits and
\* signed numbers stand for the element; determinants of matrix.py multiply, and
\* no square submatrix of hyper is singular; and the exponentiation of
\* montgomery_exponentiation.py is that of the integers modulo n.
FieldsRight ==
    /\ Done("bytes") =>
           /\ job.out[1] = ProductOfPolynomials(job.in[1], job.in[2])
           /\ job.in[1] # 0 =>
                  ProductOfPolynomials(job.in[1], job.out[2]) = job.in[2]
    /\ Done("number") =>
           LET p == job.in.p  x == job.in.x  out == job.out IN
           /\ (x * out.inverse) % p = 1
           /\ job.in.blum => out.root \in {x, p - x}
           /\ FromBits(p, out.bits) = x
           /\ out.signed % p = x /\ 2 * out.signed < p /\ -2 * out.signed < p
    /\ Done("power") => job.out = Pow(job.in[1], job.in[3], job.in[2])
    /\ Done("matrices") =>
           /\ job.out.dets[3] = Mul(job.in[1], job.out.dets[1], job.out.dets[2])
           /\ job.out.transposed[1] = job.out.transposed[2]
           /\ job.out.shifted[1] = job.out.shifted[2]
    /\ Done("hyper") => 0 \notin job.out
-----------------------------------------------------------------------------
\* Sharings.

\* The number that the shares of the players in S give.
Secret(f, sharing, S) == Recombine(f, [i \in S |-> sharing[i]])

Points(n, size) == {S \in SUBSET (1 .. n) : Cardinality(S) >= size}

ShareNumber ==
    \E f \in {5, GF256}, t \in {1, 2}, secret \in {0, 3}, c \in {0, 1, 4} :
        LET random == [i \in 1 .. t |-> (c * i * i + i) % 5]
            sharing == Share(f, 4, secret, random)
            other == [sharing EXCEPT ![4] = Add(f, @, 1)]
        IN  Do("share", <<f, t, secret>>,
               [secrets |-> {Secret(f, sharing, S) : S \in Points(4, t + 1)},
                verified |-> <<VerifySharing(f, sharing, t), VerifySharing(f, other, t)>>])

\* All sharings of a secret, as the t players 1 .. t see them.
Views(f, n, t, secret) ==
    {First(t, Share(f, n, secret, random)) : random \in [1 .. t -> Elements(f)]}

HideNumber ==
    \E f \in {3, 5}, t \in {1, 2} :
        Do("hide", <<f, t>>, {Views(f, t + 1, t, secret) : secret \in Elements(f)})

\* What the key of each set gives, differently for each k, and below bound.
Prf(n, t, k, bound) ==
    [s \in MaxUnqualifiedSubsets(n, t) |->
        (k * MapThenSumSet(LAMBDA i : i * i, s) + k) % bound]

\* What a player takes from it: the keys it has.
OfPlayer(n, t, prf, j) == [s \in PrssKeys(n, t, j) |-> prf[s]]

SharePseudoRandomly ==
    \E f \in {7, 31, GF256}, nt \in {<<3, 1>>, <<4, 1>>}, k \in 1 .. 4 :
        LET n == nt[1]
            t == nt[2]
            prf == Prf(n, t, k, 100)
            multi == [j \in 1 .. n |-> PrssMulti(f, n, j, OfPlayer(n, t, prf, j), f, 2)]
            digits(i) == {Digit(prf[s], f, i) : s \in DOMAIN prf}
            zero_prf == [s \in DOMAIN prf |-> [i \in 1 .. t |-> prf[s] + 3 * i]]
            double == [j \in 1 .. n |->
                          PrssDoubleShare(f, n, t, j, prf, zero_prf, 1)]
            dealt == [j \in 1 .. n |-> PrssShare(f, n, t, j, prf, 2)]
            all(sharing) == {Secret(f, sharing, S) : S \in Points(n, t + 1)}
        IN  Do("prss", <<f, n, t>>,
               [random |-> all([j \in 1 .. n |-> Prss(f, n, j, OfPlayer(n, t, prf, j))]),
                sum |-> SumOver(f, DOMAIN prf, LAMBDA s : ToField(f, prf[s])),
                multi |-> [i \in 1 .. 2 |-> all([j \in 1 .. n |-> multi[j][i]])],
                sums |-> [i \in 1 .. 2 |->
                             SumOver(f, DOMAIN prf, LAMBDA s : Digit(prf[s], f, i))],
                double |-> {Secret(f, [j \in 1 .. n |-> double[j][1][1]], 1 .. t + 1),
                            Secret(f, [j \in 1 .. n |-> double[j][2][1]], 1 .. 2 * t + 1)},
                dealt |-> all(dealt)])

\* Digests of one or two bytes; the second byte does not matter below 256.
CallPrf ==
    \/ \E max \in {1, 2, 7, 100, 256} :
          LET number(b) == PrfNumber(<<b, 0>>, max) IN
          Do("prf", max, {Cardinality({b \in Byte : number(b) = x}) : x \in 0 .. max - 1})
    \/ \E max \in {7, 100, 300}, b \in {129, 190, 255}, c \in {0, 255} :
          Do("prf value", max, PrfValue(<<<<b, c>>, <<b - 128, c>>, <<c, b>>, <<0, c>>>>, max))

ShareBits ==
    \E k \in 1 .. 6, bit \in {0, 1} :
        LET prf == Prf(3, 1, k, 10)
            lsb == [j \in 1 .. 3 |-> PrssLsb(31, 3, j, prf)]
            number == Secret(31, [j \in 1 .. 3 |-> lsb[j][1]], 1 .. 3)
        IN  Do("bits", bit,
               {Secret(GF256, [j \in 1 .. 3 |->
                                  BitDouble(31, 3, j, prf, Add(31, number, bit))], S) :
                   S \in Points(3, 2)})

DrawBinary ==
    \E f \in {7, 23}, r \in {2, 5} :
        Do("binary", f, BinaryShare(f, r, Mul(f, r, r)))

\* The keys that generate_configs gives to players who come together.
GiveKeys ==
    \E n \in 3 .. 5, t \in 1 .. 2, dealer \in 1 .. 3 :
        /\ 2 * t < n
        /\ Do("keys", <<n, t>>,
              [missing |-> {S \in SUBSET (1 .. n) :
                               UNION {PrssKeys(n, t, j) : j \in S}
                                   # MaxUnqualifiedSubsets(n, t)},
               dealer |-> PrssDealerKeys(n, t, dealer, dealer)
                              = MaxUnqualifiedSubsets(n, t)])

\* A sharing gives its number to every t + 1 players and fits every number for
\* any t (shamir.py); a sharing of another degree is noticed.  Pseudo-random
\* functions favour no number and pseudo-random sharings (prss.py) are of what the
\* players' keys add up to, those of one
\* number with degrees t and 2t agree, bits are shared over both fields, and t
\* players lack one of the keys of generate_configs (config.py).
SharingsRight ==
    /\ Done("share") =>
           /\ job.out.secrets = {job.in[3]}
           /\ job.out.verified = <<TRUE, FALSE>>
    /\ Done("hide") => Cardinality(job.out) = 1
    /\ Done("prss") =>
           /\ job.out.random = {job.out.sum}
           /\ \A i \in 1 .. 2 : job.out.multi[i] = {job.out.sums[i]}
           /\ job.out.double = {job.out.sums[1]}
           /\ job.out.dealt = {2}
    /\ Done("prf") => Cardinality(job.out) = 1
    /\ Done("prf value") => job.out \in 0 .. job.in - 1
    /\ Done("bits") => job.out = {job.in}
    /\ Done("binary") => job.out \in {0, 1}
    /\ Done("keys") =>
           /\ job.out.missing = {S \in SUBSET (1 .. job.in[1]) :
                                    Cardinality(S) <= job.in[2]}
           /\ job.out.dealer

-----------------------------------------------------------------------------
\* Triples of the active runtime: four players, threshold 1, T = 2.

P11 == 11

\* The sharings of all dealers; what player bad gets of that of dealer wrong is one
\* more than it should be.
Dealt(k, degree, wrong, bad) ==
    [dealer \in 1 .. 4 |->
        LET fair == Share(P11, 4, (k * dealer + dealer * dealer) % P11,
                          [i \in 1 .. degree |-> (k + i * dealer) % P11])
        IN  IF dealer = wrong THEN [fair EXCEPT ![bad] = Add(P11, @, 1)] ELSE fair]

Fair(k, degree) == Dealt(k, degree, 0, 1)

\* The same numbers shared with degree 2t, except that dealer wrong shares another
\* number the second time.
Double(k, wrong) ==
    <<Fair(k, 1),
      [dealer \in 1 .. 4 |-> Fair(IF dealer = wrong THEN k + 1 ELSE k, 2)[dealer]]>>

MakeTriples ==
    \E k \in 1 .. 3 :
        LET mixed(sharings) ==
                [j \in 1 .. 4 |-> T!SingleShareRandom(P11, P11, 4, 2, sharings, 1, j)]
            r == [j \in 1 .. 4 |-> T!DoubleShareRandom(P11, P11, 4, 2,
                                       Fair(k, 1), Fair(k, 2), 1, 2, j)]
            triple(i) == T!HyperTriple(P11, 1, mixed(Fair(k, 1)),
                                       mixed(Fair(k + 1, 1)), r, i)
            x == Share(P11, 4, 7, <<k>>)
            y == Share(P11, 4, 9, <<k + 2>>)
            secret(sharing) == {Secret(P11, sharing, S) : S \in Points(4, 2)}
            \* two triples by prss_share_random_multi and prss_double_share
            prf(i) == Prf(4, 1, k + i, 1000)
            zero_prf == [s \in DOMAIN prf(1) |-> [i \in 1 .. 1 |-> prf(3)[s]]]
            random(i) == [j \in 1 .. 4 |-> PrssMulti(P11, 4, j, prf(i), P11,
                                               T!PrssQuantity(P11, 2))]
            double == [j \in 1 .. 4 |->
                          PrssDoubleShare(P11, 4, 1, j, prf(3), zero_prf, 1)]
            ab == <<[j \in 1 .. 4 |-> random(1)[j][2]], [j \in 1 .. 4 |-> random(2)[j][2]]>>
        IN  Do("triples", k,
               [abc |-> [i \in 1 .. 2 |-> [e \in 1 .. 3 |-> secret(triple(i)[e])]]
                           \o <<<<secret(ab[1]), secret(ab[2]),
                                  secret(T!TripleProduct(P11, 1, ab[1], ab[2],
                                      [j \in 1 .. 4 |-> double[j][1][1]],
                                      [j \in 1 .. 4 |-> double[j][2][1]]))>>>>,
                xy |-> secret(T!MulByTriple(P11, 1, x, y, triple(1)))])

\* A dealer, or nobody, has not dealt well: what single_share_random,
\* double_share_random, and single_share_random for a second field, return at each
\* player.
MixSharings ==
    \E k \in 1 .. 2, wrong \in 0 .. 4, bad \in 1 .. 4 :
        LET dealt == Dealt(k, 1, wrong, bad)
            double == Double(k, wrong)
        IN  Do("mixed", wrong,
               [single |-> [j \in 1 .. 4 |-> T!SingleShareRandom(P11, P11, 4, 2, dealt, 1, j)],
                double |-> [j \in 1 .. 4 |-> T!DoubleShareRandom(P11, P11, 4, 2,
                                double[1], double[2], 1, 2, j)],
                second_field |-> [j \in 1 .. 4 |-> T!SingleShareRandom(P11, 13, 4, 2,
                                      Fair(k, 1), 1, j)]])

\* Triples of the Orlandi runtime: three players over GF(5); the plaintexts of the
\* encryption are numbers modulo Big, or modulo too small a number.
Big == 5003

Drawn(k) ==
    [i \in 1 .. 3 |->
        [a |-> <<(k + i) % 5, (3 * k + i) % 5, i>>, b |-> <<(k * i + 2) % 5, i, (i + k) % 5>>,
         t |-> <<(k + 1) % 5, i>>, alpha_randomness |-> 5 + i,
         d |-> [j \in 1 .. 3 |-> (97 * k * i + j * 31) % 125]]]

OTriple(k) == O!TripleGen(5, Big, Drawn(k))
ORandom(k) == O!RandomShare(5, 3, [i \in 1 .. 3 |-> <<(k * i + 3) % 5, (k + 2 * i) % 5, i>>])

\* The sharing of one more.
Shifted(X) == [i \in DOMAIN X |-> O!PlusPublic(5, i, X[i], 1)]

OProduct(k, d, x, y) ==
    O!NewTriple(5, x, y, ORandom(k + 2), [i \in 1 .. d |-> ORandom(i + 1)],
                [i \in 1 .. d |-> ORandom(i + 2)], [j \in 1 .. 2 * d + 1 |-> OTriple(j)])

\* What the sharings of a triple, of a sum and of product of x are of.
OResult(t, x, product, z) ==
    [abc |-> <<O!Open(5, t.a, 1), O!Open(5, t.b, 2), O!Open(5, t.c, 3)>>,
     sum |-> O!Open(5, [i \in 1 .. 3 |->
                 O!Plus(5, t.a[i], O!MinusPublicLeft(5, i, t.a[i], 3))], 1),
     product |-> <<O!Open(5, x, 1), O!Open(5, product.c, 1)>>, z |-> O!Open(5, z, 2)]

MultiplyOrlandi ==
    \E k \in 1 .. 4, d \in 0 .. 2 :
        Do("orlandi", k,
           OResult(OTriple(k), ORandom(k),
                   OProduct(k, d, ORandom(k), O!Shift(5, ORandom(k + 1), 2, 3)),
                   O!SecretShare(5, 3, 4, <<k, 2>>, <<<<1, k>>, <<2, 2>>, <<0, 3>>>>)))

\* What is wrong with a triple that is tested: nothing, a product, a share, the
\* d of a player, the randomness of its encryption.
TestOrlandi ==
    \E k \in 1 .. 3, wrong \in {"nothing", "product", "share", "d", "alpha"}, me \in {1, 3} :
        LET t == OTriple(k)
            bad == CASE wrong = "product" -> [t EXCEPT !.c = Shifted(@)]
                     [] wrong = "share" -> [t EXCEPT !.a[2].x = Add(5, @, 1)]
                     [] OTHER -> t
            sent == [i \in 1 .. 3 |->
                        IF wrong = "d" /\ i = 2
                        THEN [Drawn(k)[i] EXCEPT !.d = [j \in 1 .. 3 |-> @[j] + 1]]
                        ELSE Drawn(k)[i]]
        IN  Do("tested", wrong,
               [check |-> O!Check(5, Big, me, bad.a, bad.b, bad.c,
                    [i \in 1 .. 3 |-> Drawn(k)[i].alpha_randomness
                                         + (IF wrong = "alpha" /\ i = 2 THEN 1 ELSE 0)],
                    [i \in 1 .. 3 |-> sent[i].d[me]],
                    O!Alphas(Big, Drawn(k)), O!GammasOf(Big, Drawn(k), me)),
                consistent |-> {r \in 0 .. 4 : O!Consistent(5, bad, OTriple(k + 1), r)}])

\* random_triple for so many triples, with so many candidates for each and
\* lambda = 1: half of the candidates are tested.
StartTest ==
    \E quantity \in 1 .. 3, size \in {1, 3} :
        /\ quantity * size <= 3
        /\ Do("test set", <<quantity, size>>,
              [ls |-> [i \in 1 .. 2 * quantity * size |-> i], test_set |-> <<>>])

FlipCoin ==
    /\ Done("test set")
    /\ Len(job.out.test_set) < job.in[1] * job.in[2]
    /\ \E v \in {1, 3} :
          job' = [job EXCEPT !.out = O!CoinFlip(5, v, @.ls, @.test_set)]

StartPartition ==
    /\ Done("test set")
    /\ Len(job.out.test_set) = job.in[1] * job.in[2]
    /\ job' = [kind |-> "subsets", in |-> job.in, tested |-> job.out.test_set,
               out |-> [M |-> job.out.ls, subsets |-> [i \in 1 .. job.in[1] |-> <<>>]]]

PutInSet ==
    /\ Done("subsets")
    /\ job.out.M # <<>>
    /\ \E v \in 0 .. 2 :
          job' = [job EXCEPT !.out = O!PutInSet(v, job.in[2], @.M, @.subsets)]

\* Every candidate is at one place of one of these lists.
EachOnce(lists) ==
    LET all == FlattenSeq(lists)
        candidates == 1 .. 2 * job.in[1] * job.in[2]
    IN  Len(all) = Cardinality(candidates) /\ ToSet(all) = candidates

\* Triples of the BeDOZa runtime.
BShare(k) == BT!GenerateShare(<<k % 5, 0, 0>>, <<<<1, k % 5>>, <<2, 3>>, <<4, k % 5>>>>)
BMask(k) == [i \in 1 .. 3 |-> [j \in 1 .. 3 |-> (37 * i * k + 11 * j) % 200]]
BKey(k) == [i \in 1 .. 3 |-> [j \in 1 .. 3 |-> ((37 * i * k + 11 * j) % 200) - 100]]
BTriple(k, big) ==
    BT!Candidate(big, BShare(k), BShare(k + 1), BMask(k), <<BKey(k), BKey(k + 1), BKey(k + 2)>>)
BWrong(t) == [t EXCEPT !.c = [p \in 1 .. 3 |-> AddPublic(p, @[p], 1)]]

MakeBedozaTriple ==
    \E k \in 1 .. 6, wrong1, wrong2 \in BOOLEAN :
        LET t1 == BTriple(k, Big)
            t2 == BTriple(k + 1, Big)
            fair == <<BT!Opened(t1.a), BT!Opened(t1.b), BT!Opened(t1.c)>>
        IN  Do("bedoza", <<wrong1, wrong2>>,
               [abc |-> fair,
                product |-> BT!Opened(BT!MulByTriple(t1.a, t2.a, t1)),
                factors |-> <<fair[1], BT!Opened(t2.a)>>,
                passes |-> {r \in 0 .. 4 : BT!Consistent(
                    IF wrong1 THEN BWrong(t1) ELSE t1, IF wrong2 THEN BWrong(t2) ELSE t2, r)}])

\* Triples are triples: c = a b, and a product made with one is the product of its
\* factors, in each of the three runtimes.  A player that gets to see the shares of a
\* sharing throws an exception if they are of the wrong degree or the wrong number
\* (_verify_single and _verify_double of active.py), and so does everybody if shares of
\* another field meet the matrix that is kept; a candidate that is wrong passes the
\* test for at most two r (bedoza_triple.py), or none if the other is right; the
\* players who open a tested triple find out what is wrong (orlandi.py); and of the
\* candidates each is tested or put into one set.
TriplesRight ==
    /\ Done("triples") =>
           /\ \A i \in 1 .. 3 : \E a, b \in Elements(P11) :
                  job.out.abc[i] = <<{a}, {b}, {Mul(P11, a, b)}>>
           /\ job.out.xy = {Mul(P11, 7, 9)}
    /\ Done("mixed") =>
           \A j \in 1 .. 4 :
              /\ j = job.in /\ j > 2 =>
                     job.out.single[j] = T!Refused /\ job.out.double[j] = T!Refused
              /\ job.in = 0 =>
                     job.out.single[j] # T!Refused /\ job.out.double[j] # T!Refused
              /\ job.out.second_field[j] = T!Refused
    /\ Done("orlandi") =>
           /\ job.out.abc[3] = Mul(5, job.out.abc[1], job.out.abc[2])
           /\ job.out.product[2] = Mul(5, job.out.product[1], 3)
           /\ job.out.z = 4 /\ job.out.sum = 3
    /\ Done("tested") =>
           /\ job.out.check <=> job.in = "nothing"
           /\ job.out.consistent =
                  IF job.in \in {"product", "share"} THEN {} ELSE 0 .. 4
    /\ Done("test set") => EachOnce(<<job.out.ls, job.out.test_set>>)
    /\ Done("subsets") =>
           /\ EachOnce(<<job.tested, job.out.M>> \o job.out.subsets)
           /\ job.out.M = <<>> =>
                  \A i \in 1 .. job.in[1] : Len(job.out.subsets[i]) = job.in[2]
    /\ Done("bedoza") =>
           LET passes == job.out.passes IN
           /\ job.out.abc[3] = Mul(5, job.out.abc[1], job.out.abc[2])
           /\ job.out.product = Mul(5, job.out.factors[1], job.out.factors[2])
           /\ CASE job.in = <<FALSE, FALSE>> -> passes = 0 .. 4
                [] job.in = <<TRUE, FALSE>> -> passes = {}
                [] job.in = <<FALSE, TRUE>> -> passes = {0}
                [] OTHER -> Cardinality(passes) <= 2

\* All sets of degree + 1 players have shares of the same number.
Correct(f, sharing, degree) ==
    Cardinality({Secret(f, sharing, S) :
                    S \in {H \in SUBSET DOMAIN sharing : Cardinality(H) = degree + 1}}) = 1

\* What the docstrings of single_share_random and double_share_random (active.py)
\* guarantee: the T sharings that the honest players are left with, if none of them
\* has thrown an exception, are correct, those of a pair sharings of one number.
ReturnedSharingsCorrect ==
    Done("mixed") =>
        LET honest == (1 .. 4) \ {job.in}
            all(returned) == \A j \in honest : returned[j] # T!Refused
            single(i) == [j \in honest |-> job.out.single[j][i]]
            double(d, i) == [j \in honest |-> job.out.double[j][d][i]]
        IN  /\ all(job.out.single) => \A i \in 1 .. 2 : Correct(P11, single(i), 1)
            /\ all(job.out.double) => \A i \in 1 .. 2 :
                   Secret(P11, double(1, i), honest) = Secret(P11, double(2, i), honest)

-----------------------------------------------------------------------------
\* Comparison and equality, of numbers of three bits.

Bits(x, length) == [i \in 1 .. length |-> (x \div 2^(i - 1)) % 2]

\* There is no mask here; 1 stands for none.
CompareToft05 ==
    \E a, b \in 0 .. 7, r \in {0, 3, 9, 14} :
        /\ FieldSuits05(3, 59, 3, 1)
        /\ Do("compared", [a |-> a, b |-> b, mask |-> 1],
              GreaterThanEqual05(59, 3, 1, a, b, Bits(r, 4)))

CompareToft07 ==
    \E g \in {103, 19}, a, b \in 0 .. 7, r \in {0, 13, 22, 31}, s_bit \in {0, 1},
       mask \in {0, 1, 17} :
        /\ FieldsSuit07(103, g, 3, 1)
        /\ Do("compared", [a |-> a, b |-> b, mask |-> mask],
              GreaterThanEqual07(103, g, 3, 1, a, b, Bits(r, 5), s_bit, mask))

\* The bits of three players as masks, or numbers that do not exceed the field.
ConvertBits ==
    \E bit, b1, b2, b3 \in {0, 1} :
        LET most == 2^MaskLength(7, 1) - 1 IN
        Do("converted", bit,
           {ConvertBitShare05(59, GF256, bit, <<b1, b2, b3>>),
            ConvertBitShare07(59, 7, bit, <<most * b1, 3 * b2 + 4, most * b3>>)})

\* Each number of r, each of rp and each bit, over GF(7).
Draw(d) == [bit |-> d % 2, r |-> (d \div 2) % 7, rp |-> (d \div 14) % 7]
Again == <<[bit |-> 1, r |-> 0, rp |-> 1]>>

TestEquality ==
    \E x \in 0 .. 6 :
        LET draws == {d \in 0 .. 97 : ~ StartsOver(7, Sub(7, x, 3), Draw(d))}
            one(d) == Equal(7, x, 3, <<<<Draw(d)>>>>)
        IN  Do("equality", x,
               [tests |-> Cardinality(draws),
                ones |-> Cardinality({d \in draws : one(d) = 1}),
                again |-> {Equal(7, x, 3, <<<<Draw(d)>> \o Again>>) :
                              d \in (0 .. 97) \ draws}])

-----------------------------------------------------------------------------
\* Rijndael.

Chains == {ShortestSequentialChain, ShortestChainWithLeastRounds, ChainWithLeastRounds}

InvertBytes ==
    \E x \in Byte, k \in {3, 90, 201} :
        Do("inverse", x,
           {InvertByMasking(x, Bits(k, 8), k), InvertByMaskedExponentiation(x, k),
            InvertOnline(x, Bits(k, 8))}
               \cup {InvertByExponentiation(chain, x) : chain \in Chains})

MCRandom == [bits |-> Bits(173, 8), r |-> 29]

UpFromZero(n) == [i \in 1 .. n |-> i - 1]
Clear == [i \in 1 .. 16 |-> 17 * (i - 1)]

\* Test vectors: two of FIPS-197 for blocks of 128 bits, one for blocks of 256.
Known ==
    {[key |-> UpFromZero(16), clear |-> Clear,
      cipher |-> <<105, 196, 224, 216, 106, 123, 4, 48, 216, 205, 183, 128, 112, 180,
                   197, 90>>],
     [key |-> UpFromZero(32), clear |-> Clear,
      cipher |-> <<142, 162, 183, 202, 81, 103, 69, 191, 234, 252, 73, 144, 75, 73,
                   96, 137>>],
     [key |-> UpFromZero(16), clear |-> [i \in 1 .. 32 |-> 17 * ((i - 1) % 16)],
      cipher |-> <<235, 155, 6, 159, 67, 149, 187, 119, 188, 3, 53, 80, 235, 67, 224,
                   18, 113, 79, 61, 164, 157, 208, 38, 195, 179, 12, 76, 88, 92, 73,
                   193, 205>>]}

Encrypt ==
    \E known \in Known :
        Do("encryption", known, Begin(known.clear, known.key, MCRandom))

EncryptRound ==
    /\ Done("encryption")
    /\ ~ Finished(job.out)
    /\ job' = [job EXCEPT !.out = Round(@, MCRandom)]

-----------------------------------------------------------------------------
\* Two players with Paillier keys: the product of numbers modulo 3 with n = 35,
\* and the cipher with signed numbers.

MCKeys == Y!Keys(5, 7, 2 .. 4)

MultiplyPaillier ==
    \E key \in MCKeys, a, b, c, d \in 0 .. 2, r \in {0, 7, 19}, hash \in {0, 1} :
        /\ Y!KeysSuit(3, 1, key.n)
        /\ Do("paillier", hash,
              LET xy == Y!MulShares(3, key, Y!PlayersShare(3, a, c), Y!PlayersShare(3, b, d),
                                    r, 2, hash)
              IN  IF xy = Y!Blocked THEN xy ELSE <<Y!OpenShare(3, xy), Mul(3, a, b)>>)

EncryptSigned ==
    \E key \in MCKeys, r \in {1, 2, 3} : \E x \in -key.n .. key.n :
        /\ Y!InRange(x, key.n)
        /\ Do("signed", x, Y!SignedDecrypt(Y!SignedEncrypt(x, r, key), key))

\* A proof with the challenge e for the plaintexts x of encryptions, when the
\* prover says that they are these or others; k = 2 and the generator is n + 1.
ProofKey == [n |-> 77, g |-> 78, lm |-> 30]

ProvePlaintexts ==
    \E byte \in {0, 64, 128, 255}, x \in [1 .. 2 -> {-4, 0, 3}], told \in {0, 1},
       u \in {<<1, -8, 3>>, <<16, -16, 16>>, <<60, 1, 3>>}, v1 \in {1, 7} :
        LET nsq == ProofKey.n * ProofKey.n
            e == Y!ExtractBits(<<byte>>, 2)
            r == <<2, 3>>
            v == <<v1, 4, 2>>
            c == [i \in 1 .. 2 |-> Y!SignedEncrypt(x[i], r[i], ProofKey)]
            d == [j \in 1 .. 3 |-> Y!SignedEncrypt(u[j], v[j], ProofKey)]
            ZZ == Y!Z(e, [i \in 1 .. 2 |-> x[i] + told], u)
            WW == Y!W(e, r, v, nsq)
            satisfied == Y!Satisfied(e, c, d, ZZ, WW, 2, ProofKey)
        IN  Do("proof", [e |-> e, told |-> told, u |-> u, v1 |-> v1],
               [satisfied |-> satisfied,
                verdict |-> Y!VerifyProof(ZZ, WW, satisfied, ProofKey)])

\* The protocols compute what they are for: comparison with a mask other than 0
\* (comparison.py), conversion of bits, equality, which a test bit fails to
\* refute for half of the draws (equality.py), inversion and encryption (aes.py), the
\* product of two players if player 1 plays P1 and nothing otherwise
\* (paillier.py), decryption (modified_paillier.py).  A prover that knows the
\* plaintexts and has no u that is too large satisfies the conditions of its proof
\* (zero_knowledge.py) and is believed; one that does not know them and is asked for
\* one does not satisfy them; and numbers that cannot be encrypted end the proof.
ProtocolsCompute ==
    /\ Done("compared") =>
           LET in == job.in IN
           in.mask # 0 => job.out = (IF in.a >= in.b THEN 1 ELSE 0)
    /\ Done("converted") => job.out = {job.in}
    /\ Done("equality") =>
           /\ job.out.ones = job.out.tests \div (IF job.in = 3 THEN 1 ELSE 2)
           /\ job.out.again = {1}
    /\ Done("inverse") => job.out = {IF job.in = 0 THEN 0 ELSE Inv256(job.in)}
    /\ Done("encryption") /\ Finished(job.out) => Result(job.out) = job.in.cipher
    /\ Done("paillier") =>
           IF job.in = 1 THEN job.out[1] = job.out[2] ELSE job.out = Y!Blocked
    /\ Done("signed") => job.out = job.in
    /\ Done("proof") =>
           LET in == job.in
               honest == in.told = 0 \/ in.e = <<0, 0>>
               encryptable == in.u[1] # 60 /\ in.v1 = 1
           IN  /\ job.out.satisfied => honest
               /\ honest /\ in.u[1] = 1 /\ encryptable =>
                      job.out.satisfied /\ job.out.verdict = "True"
               /\ ~ encryptable => job.out.verdict = "exception"

-----------------------------------------------------------------------------
\* The program of the BeDOZa runtime: a share is opened and then changed in
\* place, and two shares are opened at once.
MCCode ==
    <<PlusOf(1, 2), OpenOf(<<3>>, Players), PlusPublicOf(3, 2), CMulOf(3, 3),
      MinusPublicLeftOf(6, 4), MinusPublicRightOf(7, 1), MinusOf(2, 7),
      OpenMultipleOf(<<5, 9>>)>>
MCAlpha == <<2, 3, 1>>
MCStartValue == <<<<1, 4, 3>>, <<2, 0, 4>>>>
MCStartKey == [o \in 1 .. 2 |-> [p \in 1 .. 3 |-> [q \in 1 .. 3 |->
                  (o * p + 2 * q * p) % 5]]]
MCGarbledSets ==
    {{}, {<<1, 3, 8, 1>>}, {<<2, 3, 8, 2>>, <<1, 2, 2, 1>>}}

-----------------------------------------------------------------------------
AnyJob ==
    \/ MultiplyBytes \/ InvertNumbers \/ Exponentiate \/ MultiplyMatrices
    \/ MakeHyper
    \/ ShareNumber \/ HideNumber \/ CallPrf \/ SharePseudoRandomly \/ ShareBits \/ DrawBinary
    \/ GiveKeys
    \/ MakeTriples \/ MixSharings \/ MultiplyOrlandi \/ TestOrlandi
    \/ StartTest \/ FlipCoin \/ StartPartition \/ PutInSet \/ MakeBedozaTriple
    \/ CompareToft05 \/ CompareToft07 \/ ConvertBits \/ TestEquality
    \/ InvertBytes \/ Encrypt \/ EncryptRound
    \/ MultiplyPaillier \/ EncryptSigned \/ ProvePlaintexts

ProtocolsInit == Init /\ Pool!Init /\ job = Idle

\* A behaviour is one of the three: a job, a program or two runs with a pool.
ProtocolsNext ==
    \/ /\ Init /\ garbled = {} /\ Pool!Init
       /\ AnyJob
       /\ UNCHANGED <<vars, poolVars>>
    \/ /\ job = Idle /\ Pool!Init
       /\ Next
       /\ UNCHANGED <<job, poolVars>>
    \/ /\ job = Idle /\ Init /\ garbled = {}
       /\ Pool!Next
       /\ UNCHANGED <<job, vars>>

ProtocolsSpec == ProtocolsInit /\ [][ProtocolsNext]_<<job, vars, poolVars>>
==============================================================================
