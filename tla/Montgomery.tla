------------------------------ MODULE Montgomery ------------------------------
(***************************************************************************)
(* Exponentiation modulo an odd n (viff/montgomery_exponentiation.py).      *)
(***************************************************************************)
EXTENDS Integers

SizeInBits(a) == CHOOSE k \in 0 .. a : a < 2^k /\ \A i \in 0 .. k - 1 : 2^i <= a

\* calc_r: no other power of 2 is tried, since n is odd.
CalcR(n) == 2^(SizeInBits(n) + 1)

\* The loop of xgcd, from a, b, x and r; it returns the gcd and x.
XGcd[a \in Nat, b \in Nat, x \in Int, r \in Int] ==
    IF b = 0 THEN <<a, x>> ELSE XGcd[b, a % b, r, x - (a \div b) * r]

InverseMod(a, n) == XGcd[a, n, 1, 0][2] % n

CalcNp(n, r) == r - InverseMod(n, r)

\* t divided by r, modulo n
Reduce(t, n_prime, r, n) ==
    LET m == (t * n_prime) % r
        u == (t + m * n) \div r
    IN  IF u >= n THEN u - n ELSE u

MontgomeryProduct(a, b, n_prime, r, n) == Reduce(a * b, n_prime, r, n)

\* px runs through the powers of 2 from the highest in x down to 1.
MontgomeryExponentiation(a, x, n, n_prime, r) ==
    LET ah == (a * r) % n
        top == SizeInBits(x)
        xh[i \in 0 .. top] ==
            IF i = 0 THEN r % n
            ELSE LET square == MontgomeryProduct(xh[i - 1], xh[i - 1], n_prime, r, n)
                 IN  IF (x \div 2^(top - i)) % 2 = 1
                     THEN MontgomeryProduct(ah, square, n_prime, r, n)
                     ELSE square
    IN  Reduce(xh[top], n_prime, r, n)
==============================================================================
