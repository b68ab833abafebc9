------------------------------- MODULE Rijndael -------------------------------
(***************************************************************************)
(* Rijndael over shared bytes (viff/aes.py), as a computation on the bytes  *)
(* themselves.  A state is four rows of n_b bytes, a key a sequence of      *)
(* columns of four bytes.  Random shares are arguments.                     *)
(***************************************************************************)
EXTENDS Comparison

Byte == Elements(GF256)

\* bit_decompose
Unmasked(c, r_bits) == [i \in 1 .. 8 |-> Add256(Bit(c, i - 1), r_bits[i])]
BitDecompose(share, r_bits) == Unmasked(Add256(share, FromBits(GF256, r_bits)), r_bits)

\* invert_by_masking: r is the first random number that gives an opened value
\* other than 0.
IsZero(bits) == QueueProduct(GF256, [i \in 1 .. 8 |-> Add256(1, bits[i])])
InvertOr(byte, b, r) == Add256(Mul256(Inv256(Mul256(Add256(byte, b), r)), r), b)
InvertByMasking(byte, r_bits, r) == InvertOr(byte, IsZero(BitDecompose(byte, r_bits)), r)

\* powerchain of the passive runtime: the powers 1, 2, 4, ..., 2^max.
PowerChain(byte, max) == [i \in 0 .. max |-> Pow256[byte, 2^i]]

\* invert_by_masked_exponentiation: r is the random number of prss_powerchain.
InvertByMaskedExponentiation(byte, r) ==
    LET masked == PowerChain(Add256(byte, r), 7)
    IN  QueueProduct(GF256, [i \in 1 .. 7 |-> Add256(masked[i], PowerChain(r, 7)[i])])

\* invert_by_masked_exponentiation_online
PowersOfTwo == [i \in 0 .. 7 |-> [j \in 1 .. 8 |-> Pow256[2^(j - 1), 2^i]]]

InvertBits(bits) ==
    QueueProduct(GF256, [i \in 1 .. 7 |->
        FieldSum(GF256, [j \in 1 .. 8 |-> Mul256(PowersOfTwo[i][j], bits[j])])])
InvertOnline(byte, r_bits) == InvertBits(BitDecompose(byte, r_bits))

\* Addition chains to 254, as pairs of positions that are multiplied; the byte
\* is at position 1.
ShortestSequentialChain ==
    <<<<1, 1>>, <<2, 1>>, <<3, 3>>, <<4, 4>>, <<5, 3>>, <<6, 6>>, <<7, 7>>,
      <<8, 3>>, <<9, 9>>, <<10, 10>>, <<11, 2>>>>
ShortestChainWithLeastRounds ==
    <<<<1, 1>>, <<2, 2>>, <<3, 3>>, <<4, 1>>, <<5, 5>>, <<6, 1>>, <<6, 6>>,
      <<8, 7>>, <<8, 8>>, <<10, 9>>, <<11, 11>>>>
ChainWithLeastRounds ==
    <<<<1, 1>>, <<2, 1>>, <<2, 2>>, <<4, 3>>, <<4, 4>>, <<6, 5>>, <<6, 6>>,
      <<8, 7>>, <<8, 8>>, <<10, 9>>, <<10, 10>>, <<12, 11>>, <<13, 13>>>>

WithProduct(bytes, link) == Append(bytes, Mul256(bytes[link[1]], bytes[link[2]]))

InvertByExponentiation(chain, byte) ==
    LET bytes[i \in 0 .. Len(chain)] ==
            IF i = 0 THEN <<byte>> ELSE WithProduct(bytes[i - 1], chain[i])
    IN  bytes[Len(chain)][Len(chain) + 1]

-----------------------------------------------------------------------------
\* The rows of the matrix of byte_sub, row i scaled by 2^i.
A == LET rotated(i) == [j \in 1 .. 8 |-> IF (i - j) % 8 \in {0, 1, 2, 3, 4} THEN 1 ELSE 0]
     IN  [i \in 1 .. 8 |-> [j \in 1 .. 8 |-> rotated(i)[j] * 2^(i - 1)]]

\* A applied to bits, and 99 added.
Affine(bits) ==
    Add256(99, FieldSum(GF256, [k \in 1 .. 64 |->
        Mul256(A[((k - 1) \div 8) + 1][((k - 1) % 8) + 1], bits[((k - 1) % 8) + 1])]))

SubByte(byte, random) ==
    Affine(BitDecompose(InvertByMasking(byte, random.bits, random.r), random.bits))

ByteSub(state, random) ==
    [i \in 1 .. 4 |-> [j \in DOMAIN state[i] |-> SubByte(state[i][j], random)]]

Offsets(n_b) == IF n_b \in {4, 6} THEN <<0, 1, 2, 3>> ELSE <<0, 1, 3, 4>>

ShiftRow(n_b, state) ==
    [i \in 1 .. 4 |-> [j \in 1 .. n_b |->
        state[i][((j - 1 + Offsets(n_b)[i]) % n_b) + 1]]]

C == <<<<2, 3, 1, 1>>, <<1, 2, 3, 1>>, <<1, 1, 2, 3>>, <<3, 1, 1, 2>>>>

MixColumn(state) ==
    [i \in 1 .. 4 |-> [j \in DOMAIN state[i] |->
        FieldSum(GF256, [k \in 1 .. 4 |-> Mul256(C[i][k], state[k][j])])]]

\* round_key is a sequence of columns.
AddRoundKey(state, round_key) ==
    [i \in 1 .. 4 |-> [j \in DOMAIN state[i] |-> Add256(state[i][j], round_key[j][i])]]

\* temp, for word i, counted from 0; last is word i - 1.
RotWord(w) == Append(Tail(w), w[1])
SubWord(w, random) == [j \in 1 .. 4 |-> SubByte(w[j], random)]

Temp(n_k, i, last, random) ==
    IF i % n_k = 0
    THEN [SubWord(RotWord(last), random) EXCEPT
             ![1] = Add256(@, Pow256[2, (i \div n_k) - 1])]
    ELSE IF n_k > 6 /\ i % n_k = 4 THEN SubWord(last, random) ELSE last

AddWords(v, w) == [j \in 1 .. 4 |-> Add256(v[j], w[j])]

WithWord(n_k, words, random) ==
    Append(words, AddWords(words[Len(words) + 1 - n_k],
                           Temp(n_k, Len(words), words[Len(words)], random)))

KeyExpansion(n_k, n_b, key, new_length, random) ==
    LET upTo[i \in Nat] ==
            IF i = Len(key) THEN key ELSE WithWord(n_k, upTo[i - 1], random)
    IN  upTo[IF n_b * (new_length + 1) > Len(key) THEN n_b * (new_length + 1)
             ELSE Len(key)]

\* encrypt, of sequences of bytes: round(None, state, 1) is called with what
\* Begin makes, and each round calls for the next when its shares have come.
Rounds(e) == (IF e.n_k > e.n_b THEN e.n_k ELSE e.n_b) + 6

RoundKey(e, expanded, i) == SubSeq(expanded, i * e.n_b + 1, (i + 1) * e.n_b)

Columns(n, bytes) == [i \in 1 .. n |-> SubSeq(bytes, 4 * i - 3, 4 * i)]

\* What is there before the first round, with the key that is expanded so far.
Started(n_b, n_k, cleartext, expanded) ==
    [n_b |-> n_b, n_k |-> n_k, round |-> 1, expanded |-> expanded,
     state |-> AddRoundKey(
         [i \in 1 .. 4 |-> [j \in 1 .. n_b |-> cleartext[4 * (j - 1) + i]]],
         SubSeq(expanded, 1, n_b))]

Begin(cleartext, key, random) ==
    LET n_b == Len(cleartext) \div 4
        n_k == Len(key) \div 4
    IN  Started(n_b, n_k, cleartext,
                KeyExpansion(n_k, n_b, Columns(n_k, key), 0, random))

\* round and final_round, which does not mix the columns
MixedUnlessLast(e, shifted) == IF e.round < Rounds(e) THEN MixColumn(shifted) ELSE shifted

AfterRound(e, expanded, random) ==
    [e EXCEPT !.round = @ + 1, !.expanded = expanded,
              !.state = AddRoundKey(MixedUnlessLast(e, ShiftRow(e.n_b, ByteSub(@, random))),
                                    RoundKey(e, expanded, e.round))]

Round(e, random) ==
    AfterRound(e, KeyExpansion(e.n_k, e.n_b, e.expanded, e.round, random), random)

Finished(e) == e.round > Rounds(e)

Result(e) ==
    [k \in 1 .. 4 * e.n_b |-> e.state[((k - 1) % 4) + 1][((k - 1) \div 4) + 1]]
==============================================================================
