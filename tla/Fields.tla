-------------------------------- MODULE Fields --------------------------------
(***************************************************************************)
(* The finite fields of viff/field.py.  A field is named by its modulus, as *)
(* GF(modulus) names it: 256 is GF(2^8), any other modulus a prime.  An     *)
(* element is the value the object holds, a number below the modulus.       *)
(***************************************************************************)
EXTENDS Integers, Sequences, Functions

GF256 == 256

Elements(f) == 0 .. f - 1

\* 2**k
TwoTo[k \in Nat] == IF k = 0 THEN 1 ELSE 2 * TwoTo[k - 1]

\* Bitwise exclusive-or of two naturals.
BitXor[x \in Nat, y \in Nat] ==
    IF x = 0 /\ y = 0 THEN 0
    ELSE 2 * BitXor[x \div 2, y \div 2] + ((x + y) % 2)

-----------------------------------------------------------------------------
\* GF(2^8): everything is looked up in tables made from the powers of 3.

NextPower(a) ==
    BitXor[IF a >= 128 THEN BitXor[(2 * a) % 256, 27] ELSE 2 * a, a]

WithNextPower(s) == Append(s, NextPower(s[Len(s)]))

PowersUpTo[c \in 0 .. 254] == IF c = 0 THEN <<1>> ELSE WithNextPower(PowersUpTo[c - 1])

\* exp_table[c] is Powers[c + 1].
Powers == PowersUpTo[254]

LogTable == [x \in 1 .. 255 |-> (CHOOSE c \in 1 .. 255 : Powers[c] = x) - 1]

\* Mutant: logarithms are added modulo the number of elements.
ProductModulo256(exp, log, x, y) ==
    IF x = 0 \/ y = 0 THEN 0 ELSE Append(exp, 1)[((log[x] + log[y]) % 256) + 1]

Product(exp, log, x, y) ==
    IF x = 0 \/ y = 0 THEN 0 ELSE exp[((log[x] + log[y]) % 255) + 1]

Products(exp, log) ==
    [x \in Elements(GF256) |-> [y \in Elements(GF256) |-> Product(exp, log, x, y)]]

MulTable == Products(Powers, LogTable)

InvTable == [x \in 1 .. 255 |-> Powers[((255 - LogTable[x]) % 255) + 1]]

AddTable == [x \in Elements(GF256) |-> [y \in Elements(GF256) |-> BitXor[x, y]]]

\* A list of Python with a negative index counts from its end.
TableIndex(x) == x % 256

Add256(x, y) == AddTable[x][TableIndex(y)]

Mul256(x, y) == MulTable[x][TableIndex(y)]

Inv256(x) == InvTable[x]

\* As many factors x as the loop multiplies, in another order.
Pow256[x \in Elements(GF256), exponent \in Nat] ==
    IF exponent = 0 THEN 1 ELSE IF exponent = 1 THEN x
    ELSE Mul256(Pow256[x, exponent \div 2], Pow256[x, exponent - (exponent \div 2)])

-----------------------------------------------------------------------------
\* GF(p)

\* The loop of extended_gcd: what it returns first, from the values <<a, b, x,
\* lastx>>.
ExtendedGcd[s \in Nat \X Nat \X Int \X Int] ==
    IF s[2] = 0 THEN s[4]
    ELSE ExtendedGcd[<<s[2], s[1] % s[2], s[4] - (s[1] \div s[2]) * s[3], s[3]>>]

InvP(p, a) == ExtendedGcd[<<a, p, 0, 1>>] % p

\* By squaring, as __pow__ does it.
Square(p, a) == (a * a) % p

PowP(p, a, exponent) ==
    LET power[e \in Nat] ==
            IF e = 0 THEN 1
            ELSE IF e % 2 = 1 THEN (power[e - 1] * a) % p
            ELSE Square(p, power[e \div 2])
    IN  power[exponent]

\* find_prime (viff/util.py): the next prime, or the next that is 3 modulo 4.
IsPrime(k) == k > 1 /\ \A d \in 2 .. k - 1 : k % d # 0

FindPrime(lower_bound, blum) ==
    LET prime[k \in Nat] ==
            IF IsPrime(k) /\ (blum => k % 4 = 3) THEN k ELSE prime[k + 1]
    IN  IF lower_bound < 0 THEN prime[2] ELSE prime[lower_bound]

-----------------------------------------------------------------------------
\* The operators of the elements, in either field.

ToField(f, k) == k % f

Add(f, a, b) == IF f = GF256 THEN Add256(a, b) ELSE (a + b) % f
Sub(f, a, b) == IF f = GF256 THEN Add256(a, b) ELSE (a - b) % f
Neg(f, a) == IF f = GF256 THEN a ELSE (0 - a) % f
Mul(f, a, b) == IF f = GF256 THEN Mul256(a, b) ELSE (a * b) % f
Inv(f, a) == IF f = GF256 THEN Inv256(a) ELSE InvP(f, a)
Div(f, a, b) == Mul(f, a, Inv(f, b))
Pow(f, a, exponent) ==
    IF f = GF256 THEN Pow256[a, exponent] ELSE PowP(f, a, exponent)

\* Square roots only exist in this form if f is a Blum prime.
Sqrt(f, a) == PowP(f, a, (f + 1) \div 4)

Bit(a, index) == (a \div TwoTo[index]) % 2

Signed(f, a) == IF a > (f - 1) \div 2 THEN a - f ELSE a

\* How many bits an element has: ceil(log(f, 2)).
BitLength(f) ==
    CHOOSE k \in 0 .. f : TwoTo[k] >= f /\ \A i \in 0 .. k - 1 : TwoTo[i] < f

Split(f, a) == [i \in 1 .. BitLength(f) |-> Bit(a, i - 1)]

\* The laws of a field, for the operators of the elements.
IsField(f) ==
    /\ {0, 1} \subseteq Elements(f)
    /\ \A a, b \in Elements(f) :
          /\ {Add(f, a, b), Sub(f, a, b), Mul(f, a, b)} \subseteq Elements(f)
          /\ Add(f, a, b) = Add(f, b, a) /\ Mul(f, a, b) = Mul(f, b, a)
          /\ Sub(f, Add(f, a, b), b) = a /\ Add(f, Sub(f, a, b), b) = a
    /\ \A a, b, c \in Elements(f) :
          /\ Add(f, Add(f, a, b), c) = Add(f, a, Add(f, b, c))
          /\ Mul(f, Mul(f, a, b), c) = Mul(f, a, Mul(f, b, c))
          /\ Mul(f, a, Add(f, b, c)) = Add(f, Mul(f, a, b), Mul(f, a, c))
    /\ \A a \in Elements(f) :
          /\ Add(f, a, 0) = a /\ Mul(f, a, 1) = a /\ Neg(f, a) = Sub(f, 0, a)
          /\ a # 0 => Inv(f, a) \in Elements(f) /\ Mul(f, a, Inv(f, a)) = 1

\* sum of Python over the elements of a sequence, and reduce(operator.mul, s)
FieldSum(f, s) == FoldFunction(LAMBDA a, b : Add(f, a, b), 0, s)
FieldProduct(f, s) == FoldFunction(LAMBDA a, b : Mul(f, a, b), 1, s)
==============================================================================
