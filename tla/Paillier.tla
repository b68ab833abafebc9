------------------------------- MODULE Paillier -------------------------------
(***************************************************************************)
(* The Paillier cryptosystem and the runtime of two players                 *)
(* (viff/paillier.py), and the system with signed plaintexts of the BeDOZa  *)
(* runtime (viff/bedoza/modified_paillier.py) with its proofs of knowledge  *)
(* (viff/bedoza/zero_knowledge.py).  The numbers are real, with small       *)
(* moduli: a key is a record of n = p * q, g and lm.                        *)
(***************************************************************************)
EXTENDS Fields, FiniteSets

PowMod(x, k, modulus) ==
    LET power[i \in Nat] ==
            IF i = 0 THEN 1
            ELSE LET half == power[i \div 2]
                     square == (half * half) % modulus
                 IN  IF i % 2 = 0 THEN square ELSE (square * x) % modulus
    IN  power[k]

Gcd[a \in Nat, b \in Nat] == IF b = 0 THEN a ELSE Gcd[b, a % b]
Lcm(a, b) == (a * b) \div Gcd[a, b]

L(u, n) == (u - 1) \div n

\* generate_keys, for p # q: the generators that the loop accepts, of candidates
\* that are prime to n.
Keys(p, q, candidates) ==
    LET n == p * q
        lm == Lcm(p - 1, q - 1)
    IN  {[n |-> n, g |-> g, lm |-> lm] : g \in
            {h \in candidates : Gcd[L(PowMod(h, lm, n * n), n), n] = 1}}

EncryptR(m, r, key) ==
    LET nsq == key.n * key.n
    IN  (PowMod(key.g, m, nsq) * PowMod(r, key.n, nsq)) % nsq

Decrypt(c, key) ==
    LET nsq == key.n * key.n
        numer == L(PowMod(c, key.lm, nsq), key.n)
        denom == L(PowMod(key.g, key.lm, nsq), key.n)
    IN  (numer * InvP(key.n, denom)) % key.n

-----------------------------------------------------------------------------
\* PaillierRuntime.  A sharing is the pair of the players' numbers.

PlayersShare(f, number, a) == <<a, Sub(f, number, a)>>

OpenShare(f, x) == Add(f, x[1], x[2])

AddShares(f, x, y) == <<Add(f, x[1], y[1]), Add(f, x[2], y[2])>>

\* The assertion of mul.
KeysSuit(f, k, n) == f * f + 2^k < n

\* Player id plays the role of P1 if the hash of its program counter says so.
PlaysP1(hash, id) == hash % 2 = id

\* Each of the two waits for the other if both play P2.
Blocked == <<>>

\* finish_mul at player 1 as P1 with its key and at player 2 as P2, who draws
\* r from 0 to 2 * f^2 + 2^k; s is the randomness of the encryptions.
MulAsP1AndP2(f, key, x, y, r, s) ==
    LET nsq == key.n * key.n
        enc_a1_b2 == PowMod(EncryptR(x[1], s, key), y[2], nsq)
        enc_b1_a2 == PowMod(EncryptR(y[1], s, key), x[2], nsq)
        both == (enc_a1_b2 * enc_b1_a2) % nsq
        c == Decrypt((both * EncryptR(r, s, key)) % nsq, key)
    IN  <<(c + x[1] * y[1]) % f, (x[2] * y[2] - r) % f>>

MulShares(f, key, x, y, r, s, hash) ==
    IF PlaysP1(hash, 1) THEN MulAsP1AndP2(f, key, x, y, r, s) ELSE Blocked

-----------------------------------------------------------------------------
\* ModifiedPaillier: plaintexts from -(n - 1) / 2 to (n - 1) / 2.

InRange(x, n) == 2 * x <= n - 1 /\ -2 * x <= n - 1

ToUnsigned(x, n) == IF x >= 0 THEN x ELSE n + x
ToSigned(y, n) == IF y <= (n - 1) \div 2 THEN y ELSE y - n

SignedEncrypt(x, r, key) == EncryptR(ToUnsigned(x, key.n), r, key)
SignedDecrypt(c, key) == ToSigned(Decrypt(c, key), key.n)

\* _extract_bits: the challenge, from the bytes of a hash.
ExtractBits(bytes, no_of_bits) ==
    [i \in 1 .. no_of_bits |->
        (bytes[((i - 1) \div 8) + 1] \div 2^(7 - ((i - 1) % 8))) % 2]

\* ZKProof: that the prover knows the plaintexts of s encryptions.  Column i of
\* the matrix E has the challenge e from row i on.
E(e, row, col) == IF row >= col /\ row < col + Len(e) THEN e[row - col + 1] ELSE 0

Rows(e) == 1 .. 2 * Len(e) - 1

\* x E + u and, multiplied, r^E v
Z(e, x, u) ==
    [j \in Rows(e) |->
        LET upTo[i \in 0 .. Len(e)] ==
                IF i = 0 THEN u[j] ELSE upTo[i - 1] + x[i] * E(e, j, i)
        IN  upTo[Len(e)]]

W(e, r, v, modulus) ==
    [j \in Rows(e) |->
        LET upTo[i \in 0 .. Len(e)] ==
                IF i = 0 THEN v[j] % modulus
                ELSE IF E(e, j, i) = 1 THEN (upTo[i - 1] * r[i]) % modulus
                ELSE upTo[i - 1]
        IN  upTo[Len(e)]]

\* The two conditions that _verify_proof looks at: S = T and the size of Z.
Satisfied(e, c, d, ZZ, WW, k, key) ==
    LET nsq == key.n * key.n
        S == W(e, c, d, nsq)
    IN  \A j \in Rows(e) :
            /\ S[j] = SignedEncrypt(ZZ[j], WW[j], key)
            /\ ZZ[j] <= 2^(2 * k) /\ - ZZ[j] <= 2^(2 * k)

\* The assertion of encrypt_r on the plaintext, and its condition on a random
\* element that it is given.
CanEncrypt(value, random_elm, key) ==
    InRange(value, key.n) /\ Gcd[random_elm, key.n] = 1

\* _verify_proof at a verifier: it encrypts all of Z with W as the random elements,
\* which may raise an exception, and looks whether the conditions are satisfied; but
\* what it does if they are not is still to be written.
VerifyProof(ZZ, WW, satisfied, key) ==
    IF \E j \in DOMAIN ZZ : ~ CanEncrypt(ZZ[j], WW[j], key) THEN "exception"
    ELSE "True"
==============================================================================
