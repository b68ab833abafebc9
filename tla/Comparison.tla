------------------------------ MODULE Comparison ------------------------------
(***************************************************************************)
(* The comparison of shared numbers (viff/comparison.py) and the test of    *)
(* their equality (viff/equality.py), as computations on the numbers        *)
(* themselves: that a runtime computes with shares what a program says on   *)
(* numbers is the matter of module PassiveRuntime.  Random shares are       *)
(* arguments.  Below, l and k are the options bit_length and                *)
(* security_parameter.                                                      *)
(***************************************************************************)
EXTENDS Fields

\* while len(v) > 1: v.append(v.pop(0) * v.pop(0))
QueueProduct(f, v) ==
    LET product[q \in Seq(Elements(f)) \ {<<>>}] ==
            IF Len(q) = 1 THEN q[1]
            ELSE product[Append(SubSeq(q, 3, Len(q)), Mul(f, q[1], q[2]))]
    IN  product[v]

\* Runtime.xor: of bits, as numbers of a prime field.
XorBits(f, a, b) ==
    IF f = GF256 THEN Add256(a, b)
    ELSE Sub(f, Add(f, a, b), Mul(f, 2, Mul(f, a, b)))

FromBits(f, bits) ==
    FieldSum(f, [i \in DOMAIN bits |-> Mul(f, ToField(f, TwoTo[i - 1]), bits[i])])

-----------------------------------------------------------------------------
\* ComparisonToft05Mixin

\* convert_bit_share: bits are the random bits of the players.
XorAll(f, start, bits) == FoldFunction(LAMBDA a, b : XorBits(f, b, a), start, bits)

ConvertBitShare05(f, dst_field, share, bits) ==
    XorAll(dst_field, ToField(dst_field, XorAll(f, share, bits)), bits)

\* Mutant: the operands are in the wrong order.
DiamondReversed(a, b) ==
    <<Mul256(a[1], b[1]), Add256(Mul256(a[1], Add256(a[2], b[2])), a[2])>>

Diamond(a, b) ==
    <<Mul256(a[1], b[1]), Add256(Mul256(b[1], Add256(a[2], b[2])), b[2])>>

\* Neighbours are combined, in order, until one is left.
DiamondReduce[v \in Seq(Elements(GF256) \X Elements(GF256))] ==
    IF Len(v) = 1 THEN v[1]
    ELSE DiamondReduce[[i \in 1 .. (Len(v) + 1) \div 2 |->
                            IF 2 * i > Len(v) THEN v[2 * i - 1]
                            ELSE Diamond(v[2 * i - 1], v[2 * i])]]

\* The assertions on the field and on the number n of players.
FieldSuits05(n, f, l, k) == TwoTo[l + 1] + TwoTo[l + k + 1] < f /\ n + 2 < TwoTo[l]

\* r_bits are the l + k bits of decomposed_random_sharing.
GreaterThanEqual05(f, l, k, share_a, share_b, r_bits) ==
    LET a == Add(f, Sub(f, share_a, share_b), TwoTo[l])
        T == Add(f, Sub(f, TwoTo[l + k + 1], FromBits(f, r_bits)), a)
        vec == <<<<0, 0>>>> \o [i \in 1 .. l |->
                   <<Add256(r_bits[i], Bit(T, i - 1)), Bit(T, i - 1)>>]
    IN  Add256(Bit(T, l), Add256(r_bits[l + 1], DiamondReduce[vec][2]))

-----------------------------------------------------------------------------
\* ComparisonToft07Mixin

\* convert_bit_share: the masks are numbers of k bits more than dst_field has.
MaskLength(dst_field, k) == k + BitLength(dst_field)

ConvertBitShare07(f, dst_field, share, masks) ==
    LET sum(g) == FieldSum(g, [i \in DOMAIN masks |-> ToField(g, masks[i])])
        tmp == Add(f, sum(f), share)
    IN  Sub(dst_field, ToField(dst_field, tmp), sum(dst_field))

FieldsSuit07(f, smallField, l, k) ==
    f > TwoTo[l + 3] + TwoTo[l + 1 + k] /\ smallField > 3 + 3 * (l + 1)

\* greater_than_equal_preproc, _online and _finish_greater_than_equal.  r_bits
\* are l + 1 + k bits; those that are needed in smallField and s_bit are
\* converted to it without error (ConvertBitShare07).
GreaterThanEqual07(f, smallField, l, k, share_a, share_b, r_bits, s_bit, mask) ==
    LET len == l + 1
        g == smallField
        low == SubSeq(r_bits, 1, len)
        z == Add(f, Sub(f, Add(f, Mul(f, 2, share_a), 1), Mul(f, 2, share_b)), TwoTo[len])
        c == Add(f, FromBits(f, r_bits), z)
        c_bits == [i \in 1 .. len |-> Bit(c, i - 1)]
        sumXORs[i \in 1 .. len] ==
            IF i = len THEN 0
            ELSE Add(g, sumXORs[i + 1], XorBits(g, low[i + 1], c_bits[i + 1]))
        s_sign == Sub(g, 1, Mul(g, 2, s_bit))
        E == [i \in 1 .. len |->
                 Add(g, Add(g, s_sign, Sub(g, low[i], c_bits[i])),
                        Mul(g, 3, sumXORs[i]))]
        non_zero == IF QueueProduct(g, Append(E, mask)) = 0 THEN 0 ELSE 1
        UF == XorBits(f, non_zero, s_bit)
        result == Add(f, Sub(f, c % TwoTo[len], FromBits(f, low)), Mul(f, UF, TwoTo[len]))
    IN  Mul(f, Sub(f, z, result), Inv(f, ToField(f, TwoTo[len])))

-----------------------------------------------------------------------------
\* ProbabilisticEqualityMixin

Legendre(p, a) == Signed(p, PowP(p, a, (p - 1) \div 2))

\* gen_test_bit and finish, for a random bit and random r and rp: the symbol of
\* what is opened.
Symbol(p, a, bit, r, rp) ==
    Legendre(p, Add(p, Mul(p, a, r), Mul(p, (2 * bit - 1) % p, Mul(p, rp, rp))))

TestBit(p, a, bit, r, rp) ==
    LET b == 2 * bit - 1
        half == Inv(p, 2)
    IN  CASE Symbol(p, a, bit, r, rp) = 1 -> Mul(p, half, (b + 1) % p)
          [] Symbol(p, a, bit, r, rp) = -1 -> Mul(p, Neg(p, half), (b - 1) % p)

\* It starts over while c is 0; draws[i] is what it draws the i-th time, if it
\* gets so far.
StartsOver(p, a, draw) == Symbol(p, a, draw.bit, draw.r, draw.rp) = 0

GenTestBit(p, a, draws) ==
    LET last == CHOOSE i \in DOMAIN draws :
                   /\ ~ StartsOver(p, a, draws[i])
                   /\ \A j \in 1 .. i - 1 : StartsOver(p, a, draws[j])
    IN  TestBit(p, a, draws[last].bit, draws[last].r, draws[last].rp)

\* equal: tests[j] are the draws for the j-th of k test bits.
Equal(p, x, y, tests) ==
    QueueProduct(p, [j \in DOMAIN tests |-> GenTestBit(p, Sub(p, x, y), tests[j])])
==============================================================================
