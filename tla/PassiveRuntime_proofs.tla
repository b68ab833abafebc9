------------------------- MODULE PassiveRuntime_proofs -------------------------
(***************************************************************************)
(* The passive runtime computes what the program says.                      *)
(*                                                                          *)
(* The proof goes up from the operators of the model to its steps: the      *)
(* integers modulo a prime are a field; folds are sums and products; shares *)
(* are values of polynomials, which are given by their degree; any d + 1    *)
(* values of a polynomial of degree d recombine to its value at 0; the      *)
(* sharings that the players deal to each other in the course of a program  *)
(* are such polynomials; and whatever a player has got, at any time, is     *)
(* what was dealt to it.                                                    *)
(*                                                                          *)
(* The same facts about polynomials and about sums carry the results on     *)
(* what the other computations with shares give: what a sharing hides, the  *)
(* pseudo-random sharings, the multiplication triples of the active         *)
(* runtime; and, at the end, the comparison of numbers by their bits.       *)
(*                                                                          *)
(* What a recursive function computes is proved by induction over a set of  *)
(* naturals, in which the cases that hold are collected: LeastNat, Induct.  *)
(***************************************************************************)
EXTENDS PassiveRuntime, Triples, Comparison, FiniteSetTheorems, SequenceTheorems, WellFoundedInduction, TLAPS

------------------------------------------------------------------------------
\* Induction, for sets: the members of T are the cases that hold.

\* A set of naturals that is not empty has a least member.
LEMMA LeastNat ==
    ASSUME NEW T \in SUBSET Nat, T # {}
    PROVE  \E x \in T : \A y \in T : x <= y
<1> DEFINE R == {ss \in Nat \X Nat : ss[1] < ss[2]}
<1>1. IsWellFoundedOn(R, Nat)
  BY NatLessThanWellFounded, Zenon DEF OpToRel
<1>2. \E x \in T : \A y \in T : <<y, x>> \notin R
  BY <1>1, WFMin, Zenon
<1>3. PICK x \in T : \A y \in T : <<y, x>> \notin R
  BY <1>2
<1>4. \A y \in T : ~ (y < x)
  BY <1>3
<1> QED  BY <1>4

\* Induction: a set with 0 that is closed under + 1 has all naturals.
LEMMA Induct ==
    ASSUME NEW T, 0 \in T, \A m \in Nat : m \in T => m + 1 \in T
    PROVE  Nat \subseteq T
<1> SUFFICES ASSUME Nat \ T # {} PROVE FALSE
  OBVIOUS
<1>1. PICK x \in Nat \ T : \A y \in Nat \ T : x <= y
  BY LeastNat
<1>2. x # 0 /\ x - 1 \in Nat /\ x - 1 \in T
  BY <1>1
<1> QED  BY <1>2

\* A set of subsets of S that contains the empty one and grows by one element has
\* them all.
LEMMA SetInduct ==
    ASSUME NEW S, IsFiniteSet(S), NEW T, {} \in T,
           \A s \in SUBSET S : \A x \in S \ s : s \in T => s \cup {x} \in T
    PROVE  SUBSET S \subseteq T
<1> DEFINE U == {m \in Nat : \A s \in SUBSET S : Cardinality(s) = m => s \in T}
<1>1. 0 \in U
  <2> SUFFICES ASSUME NEW s \in SUBSET S, Cardinality(s) = 0 PROVE s \in T
    OBVIOUS
  <2>1. IsFiniteSet(s)
    BY FS_Subset
  <2>2. s = {}
    BY <2>1, FS_EmptySet
  <2> QED  BY <2>2
<1>2. \A m \in Nat : m \in U => m + 1 \in U
  <2> SUFFICES ASSUME NEW m \in Nat, m \in U,
                      NEW s \in SUBSET S, Cardinality(s) = m + 1
               PROVE  s \in T
    OBVIOUS
  <2>1. IsFiniteSet(s)
    BY FS_Subset
  <2>2. s # {}
    BY FS_EmptySet
  <2>3. PICK x \in s : TRUE
    BY <2>2
  <2>4. Cardinality(s \ {x}) = m /\ s \ {x} \in SUBSET S
    <3>1. Cardinality(s \ {x}) = Cardinality(s) - 1
      BY <2>1, FS_RemoveElement
    <3> QED  BY <3>1
  <2>5. s \ {x} \in T
    BY <2>4
  <2>6. (s \ {x}) \cup {x} = s /\ x \in S \ (s \ {x})
    OBVIOUS
  <2>7. (s \ {x}) \cup {x} \in T
    BY <2>4, <2>5, <2>6
  <2> QED  BY <2>6, <2>7
<1> HIDE DEF U
<1>3. Nat \subseteq U
  BY <1>1, <1>2, Induct
<1> SUFFICES ASSUME NEW s \in SUBSET S PROVE s \in T
  OBVIOUS
<1>4. IsFiniteSet(s)
  BY FS_Subset
<1>5. Cardinality(s) \in Nat
  BY <1>4, FS_CardinalityType
<1>6. Cardinality(s) \in U
  BY <1>3, <1>5
<1> QED  BY <1>6 DEF U

------------------------------------------------------------------------------
\* Arithmetic modulo a number.

\* Division with rest, by a modulus.
LEMMA Divided ==
    ASSUME NEW p \in Nat, p > 1, NEW x \in Int
    PROVE  /\ x \div p \in Int
           /\ x = p * (x \div p) + (x % p)
           /\ x % p \in 0 .. p - 1
OBVIOUS

\* Numbers that differ by a multiple of p have the same rest.
LEMMA Congruent ==
    ASSUME NEW p \in Nat, p > 1, NEW x \in Int, NEW y \in Int, NEW q \in Int,
           x = y + p * q
    PROVE  x % p = y % p
<1> DEFINE xr == x % p
           yr == y % p
           xq == x \div p
           yq == y \div p
           k == yq + q - xq
           d == xr - yr
<1>1. xq \in Int /\ x = p * xq + xr /\ xr \in 0 .. p - 1
  BY Divided
<1>2. yq \in Int /\ y = p * yq + yr /\ yr \in 0 .. p - 1
  BY Divided
<1> HIDE DEF xr, yr, xq, yq
<1>3. d = p * k
  BY <1>1, <1>2
<1>4. k \in Int /\ d < p /\ - p < d
  BY <1>1, <1>2
<1> HIDE DEF k, d
<1>5. k < 1
  BY <1>3, <1>4
<1>6. k > -1
  BY <1>3, <1>4
<1>7. k = 0
  BY <1>4, <1>5, <1>6
<1>8. d = 0
  BY <1>7, <1>3
<1> QED  BY <1>8, <1>1, <1>2 DEF d, xr, yr

\* Only the rest of an operand matters.
LEMMA RestsSuffice ==
    ASSUME NEW p \in Nat, p > 1, NEW x \in Int, NEW y \in Int
    PROVE  /\ ((x % p) * y) % p = (x * y) % p
           /\ (x * (y % p)) % p = (x * y) % p
           /\ ((x % p) + y) % p = (x + y) % p
           /\ (x + (y % p)) % p = (x + y) % p
<1>1. ASSUME NEW u \in Int, NEW v \in Int
      PROVE  /\ ((u % p) * v) % p = (u * v) % p
             /\ ((u % p) + v) % p = (u + v) % p
  <2> DEFINE ur == u % p
             uq == u \div p
  <2>1. uq \in Int /\ u = p * uq + ur /\ ur \in 0 .. p - 1
    BY Divided
  <2> HIDE DEF ur, uq
  <2>2. /\ ur * v \in Int /\ u * v \in Int /\ (- uq) * v \in Int /\ - uq \in Int
        /\ u + v \in Int /\ ur + v \in Int
    BY <2>1
  <2>3. ur * v = u * v + p * ((- uq) * v)
    BY <2>1
  <2>4. ur + v = u + v + p * (- uq)
    BY <2>1
  <2>5. (ur * v) % p = (u * v) % p
    BY <2>2, <2>3, Congruent
  <2>6. (ur + v) % p = (u + v) % p
    BY <2>2, <2>4, Congruent
  <2> QED  BY <2>5, <2>6 DEF ur
<1>2. x % p \in Int /\ y % p \in Int
  BY Divided
<1>3. ((y % p) * x) % p = (y * x) % p /\ ((y % p) + x) % p = (y + x) % p
  BY <1>1
<1>4. (y % p) * x = x * (y % p) /\ y * x = x * y /\ (y % p) + x = x + (y % p) /\ y + x = x + y
  BY <1>2
<1> QED  BY <1>1, <1>3, <1>4

------------------------------------------------------------------------------
\* The laws of the field.

PrimeField == Field \in Nat /\ IsPrime(Field) /\ Field # GF256

F == Elements(Field)

a (+) b == Add(Field, a, b)
a (-) b == Sub(Field, a, b)
a (.) b == Mul(Field, a, b)

\* What the operators of the elements are in a prime field.
LEMMA Operations ==
    ASSUME PrimeField
    PROVE  /\ Field \in Nat /\ Field > 1 /\ F = 0 .. Field - 1
           /\ \A a, b : /\ a (+) b = (a + b) % Field
                        /\ a (-) b = (a - b) % Field
                        /\ a (.) b = (a * b) % Field
BY DEF PrimeField, IsPrime, F, Elements, Add, Sub, Mul, (+), (-), (.)

\* Their results are elements.
LEMMA Closed ==
    ASSUME PrimeField, NEW a \in Int, NEW b \in Int
    PROVE  a (+) b \in F /\ a (-) b \in F /\ a (.) b \in F
<1> DEFINE s == a + b
           d == a - b
           x == a * b
<1>1. s \in Int /\ d \in Int /\ x \in Int
  OBVIOUS
<1>2. a (+) b = s % Field /\ a (-) b = d % Field /\ a (.) b = x % Field
  BY Operations
<1>3. Field \in Nat /\ Field > 1 /\ F = 0 .. Field - 1
  BY Operations
<1> HIDE DEF s, d, x
<1>4. s % Field \in 0 .. Field - 1 /\ d % Field \in 0 .. Field - 1 /\ x % Field \in 0 .. Field - 1
  BY <1>1, <1>3, Divided
<1> QED  BY <1>2, <1>3, <1>4

\* An element is its own rest.
LEMMA InF ==
    ASSUME PrimeField, NEW a \in F
    PROVE  a \in Int /\ a % Field = a /\ Field \in Nat /\ Field > 1
BY Operations

\* Sums and products do not depend on the order of two elements.
LEMMA AddCommutes ==
    ASSUME PrimeField, NEW a \in F, NEW b \in F
    PROVE  a (+) b = b (+) a /\ a (.) b = b (.) a
<1>1. a \in Int /\ b \in Int
  BY InF
<1>2. a + b = b + a /\ a * b = b * a
  BY <1>1
<1> QED  BY <1>2, Operations

\* A sum of three elements can be bracketed either way.
LEMMA AddAssociates ==
    ASSUME PrimeField, NEW a \in F, NEW b \in F, NEW c \in F
    PROVE  (a (+) b) (+) c = a (+) (b (+) c)
<1> DEFINE x == a + b
           y == b + c
<1>1. a \in Int /\ c \in Int /\ Field \in Nat /\ Field > 1 /\ x \in Int /\ y \in Int
  BY InF
<1>2. x + c = a + y
  BY InF
<1>3. (a (+) b) (+) c = ((x % Field) + c) % Field /\ a (+) (b (+) c) = (a + (y % Field)) % Field
  BY Operations
<1> HIDE DEF x, y
<1>4. ((x % Field) + c) % Field = (x + c) % Field
  BY <1>1, RestsSuffice
<1>5. (a + (y % Field)) % Field = (a + y) % Field
  BY <1>1, RestsSuffice
<1> QED  BY <1>2, <1>3, <1>4, <1>5

\* A product of three elements can be bracketed either way.
LEMMA MulAssociates ==
    ASSUME PrimeField, NEW a \in F, NEW b \in F, NEW c \in F
    PROVE  (a (.) b) (.) c = a (.) (b (.) c)
<1> DEFINE x == a * b
           y == b * c
<1>1. a \in Int /\ c \in Int /\ Field \in Nat /\ Field > 1 /\ x \in Int /\ y \in Int
  BY InF
<1>2. x * c = a * y
  BY InF
<1>3. (a (.) b) (.) c = ((x % Field) * c) % Field /\ a (.) (b (.) c) = (a * (y % Field)) % Field
  BY Operations
<1> HIDE DEF x, y
<1>4. ((x % Field) * c) % Field = (x * c) % Field
  BY <1>1, RestsSuffice
<1>5. (a * (y % Field)) % Field = (a * y) % Field
  BY <1>1, RestsSuffice
<1> QED  BY <1>2, <1>3, <1>4, <1>5

\* 0 and 1 are neutral, and a product with 0 is 0.
LEMMA Neutral ==
    ASSUME PrimeField, NEW a \in F
    PROVE  /\ 0 \in F /\ 1 \in F
           /\ a (+) 0 = a /\ 0 (+) a = a /\ a (-) 0 = a
           /\ a (.) 0 = 0 /\ 0 (.) a = 0
           /\ a (.) 1 = a /\ 1 (.) a = a
           /\ a (-) a = 0
<1>1. a \in Int /\ a % Field = a /\ Field \in Nat /\ Field > 1
  BY InF
<1>2. /\ a + 0 = a /\ 0 + a = a /\ a * 0 = 0 /\ 0 * a = 0 /\ a * 1 = a /\ 1 * a = a
      /\ a - a = 0 /\ a - 0 = a /\ 0 % Field = 0
  BY <1>1
<1> QED  BY <1>1, <1>2, Operations

\* A difference may be made from the rests.
LEMMA RestsOfDifference ==
    ASSUME NEW p \in Nat, p > 1, NEW x \in Int, NEW y \in Int
    PROVE  ((x % p) - (y % p)) % p = (x - y) % p
<1> DEFINE xq == x \div p
           yq == y \div p
           xr == x % p
           yr == y % p
<1>1. /\ xq \in Int /\ x = p * xq + xr /\ xr \in Int
      /\ yq \in Int /\ y = p * yq + yr /\ yr \in Int
  BY Divided
<1> DEFINE u == xr - yr
           v == x - y
           q == yq - xq
<1> HIDE DEF xq, yq, xr, yr
<1>2. u = v + p * q /\ q \in Int /\ u \in Int /\ v \in Int
  BY <1>1
<1> HIDE DEF u, v, q
<1>3. u % p = v % p
  BY <1>2, Congruent
<1> QED  BY <1>3 DEF u, v, xr, yr

\* Subtraction undoes addition.
LEMMA SubCancels ==
    ASSUME PrimeField, NEW a \in F, NEW b \in F
    PROVE  (a (-) b) (+) b = a /\ (a (+) b) (-) b = a
<1> DEFINE d == a - b
           s == a + b
<1>1. /\ a \in Int /\ b \in Int /\ Field \in Nat /\ Field > 1 /\ a % Field = a
      /\ b % Field = b /\ d \in Int /\ s \in Int
  BY InF
<1>2. d + b = a /\ s - b = a
  BY InF
<1>3. (a (-) b) (+) b = ((d % Field) + b) % Field /\ (a (+) b) (-) b = ((s % Field) - b) % Field
  BY Operations
<1> HIDE DEF d, s
<1>4. ((d % Field) + b) % Field = (d + b) % Field
  BY <1>1, RestsSuffice
<1>5. ((s % Field) - (b % Field)) % Field = (s - b) % Field
  BY <1>1, RestsOfDifference
<1> QED  BY <1>1, <1>2, <1>3, <1>4, <1>5

\* Products distribute over sums and differences.
LEMMA Distributes ==
    ASSUME PrimeField, NEW a \in F, NEW b \in F, NEW c \in F
    PROVE  /\ a (.) (b (+) c) = (a (.) b) (+) (a (.) c)
           /\ a (.) (b (-) c) = (a (.) b) (-) (a (.) c)
<1> DEFINE x == a * b
           y == a * c
           s == b + c
           d == b - c
<1>1. /\ a \in Int /\ b \in Int /\ c \in Int /\ Field \in Nat /\ Field > 1
      /\ x \in Int /\ y \in Int /\ s \in Int /\ d \in Int
  BY InF
<1>2. a * s = x + y /\ a * d = x - y
  BY <1>1
<1>3. /\ a (.) (b (+) c) = (a * (s % Field)) % Field
      /\ a (.) (b (-) c) = (a * (d % Field)) % Field
      /\ (a (.) b) (+) (a (.) c) = ((x % Field) + (y % Field)) % Field
      /\ (a (.) b) (-) (a (.) c) = ((x % Field) - (y % Field)) % Field
  BY Operations
<1> HIDE DEF x, y, s, d
<1>4. (a * (s % Field)) % Field = (a * s) % Field /\ (a * (d % Field)) % Field = (a * d) % Field
  BY <1>1, RestsSuffice
<1>5. ((x % Field) + (y % Field)) % Field = (x + y) % Field
  <2>1. x % Field \in Int
    BY <1>1, Divided
  <2>2. ((x % Field) + (y % Field)) % Field = ((x % Field) + y) % Field
    BY <2>1, <1>1, RestsSuffice
  <2> QED  BY <2>2, <1>1, RestsSuffice
<1>6. ((x % Field) - (y % Field)) % Field = (x - y) % Field
  BY <1>1, RestsOfDifference
<1> QED  BY <1>2, <1>3, <1>4, <1>5, <1>6

------------------------------------------------------------------------------
\* Recursive functions.  All those of the model call themselves at most once, with
\* an argument of smaller size.

Descends(D, size, pred) ==
    /\ size \in [D -> Nat]
    /\ pred \in [D -> D]
    /\ \A s \in D : size[s] # 0 => size[pred[s]] < size[s]

Solves(f, D, size, pred, base, step) ==
    f = [s \in D |-> IF size[s] = 0 THEN base[s] ELSE step[<<s, f[pred[s]]>>]]

Low(D, size, m) == {s \in D : size[s] <= m}

\* There is a function that a recursive definition describes.
LEMMA Recursion ==
    ASSUME NEW D, NEW V, NEW size, NEW pred, Descends(D, size, pred),
           NEW base \in [D -> V], NEW step \in [D \X V -> V]
    PROVE  \E f \in [D -> V] : Solves(f, D, size, pred, base, step)
<1> DEFINE L(m) == Low(D, size, m)
           P(f, m) == /\ f \in [L(m) -> V]
                      /\ \A s \in L(m) :
                            f[s] = IF size[s] = 0 THEN base[s] ELSE step[<<s, f[pred[s]]>>]
           T == {m \in Nat : \E f : P(f, m)}
           Best(m) == CHOOSE f : P(f, m)
           g == [s \in D |-> Best(size[s])[s]]
<1>1. \A s \in D : /\ size[s] \in Nat /\ pred[s] \in D
                   /\ size[s] # 0 => size[pred[s]] < size[s]
                   /\ base[s] \in V /\ \A v \in V : step[<<s, v>>] \in V
  BY DEF Descends
<1>2. \A m \in Nat : \A s \in D : s \in L(m) <=> size[s] <= m
  BY DEF Low
<1>3. 0 \in T
  <2> DEFINE f == [s \in L(0) |-> base[s]]
  <2>1. \A s \in L(0) : s \in D /\ size[s] = 0
    BY <1>1 DEF Low
  <2>2. P(f, 0)
    BY <1>1, <2>1
  <2> QED  BY <2>2
<1>4. \A m \in Nat : m \in T => m + 1 \in T
  <2> SUFFICES ASSUME NEW m \in Nat, m \in T PROVE m + 1 \in T
    OBVIOUS
  <2>1. PICK f : P(f, m)
    OBVIOUS
  <2> DEFINE h == [s \in L(m + 1) |-> IF s \in L(m) THEN f[s] ELSE step[<<s, f[pred[s]]>>]]
  <2>2. /\ \A s \in L(m) : s \in L(m + 1) /\ s \in D
        /\ \A s \in L(m + 1) : s \in D /\ size[s] <= m + 1
        /\ \A s \in L(m + 1) : size[s] # 0 => pred[s] \in L(m)
        /\ \A s \in L(m + 1) : s \notin L(m) => size[s] # 0
    <3>1. \A s \in L(m) : s \in D /\ size[s] <= m
      BY DEF Low
    <3>2. \A s \in L(m + 1) : s \in D /\ size[s] <= m + 1
      BY DEF Low
    <3>3. \A s \in D : size[s] <= m => s \in L(m) /\ s \in L(m + 1)
      BY <1>1 DEF Low
    <3> HIDE DEF L
    <3>4. \A s \in L(m + 1) : size[s] # 0 => pred[s] \in L(m)
      <4> TAKE s \in L(m + 1)
      <4> HAVE size[s] # 0
      <4>1. size[pred[s]] < size[s] /\ size[s] <= m + 1 /\ size[pred[s]] \in Nat /\ pred[s] \in D
            /\ size[s] \in Nat
        BY <1>1, <3>2
      <4> QED  BY <4>1, <3>3
    <3>5. \A s \in L(m + 1) : s \notin L(m) => size[s] # 0
      BY <3>2, <3>3
    <3> QED  BY <3>1, <3>2, <3>3, <3>4, <3>5
  <2>3. f \in [L(m) -> V]
        /\ \A s \in L(m) : f[s] = IF size[s] = 0 THEN base[s] ELSE step[<<s, f[pred[s]]>>]
    BY <2>1
  <2> HIDE DEF L
  <2>4. h \in [L(m + 1) -> V]
    BY <1>1, <2>2, <2>3
  <2>5. \A s \in L(m + 1) : h[s] = IF size[s] = 0 THEN base[s] ELSE step[<<s, h[pred[s]]>>]
    <3> TAKE s \in L(m + 1)
    <3>1. CASE size[s] = 0
      BY <3>1, <2>2, <2>3
    <3>2. CASE size[s] # 0
      BY <3>2, <2>2, <2>3
    <3> QED  BY <3>1, <3>2
  <2>6. P(h, m + 1)
    BY <2>4, <2>5
  <2> HIDE DEF P, h
  <2>7. m + 1 \in Nat /\ \E r : P(r, m + 1)
    BY <2>6
  <2> QED  BY <2>7
<1>5. \A m \in Nat : P(Best(m), m)
  <2>1. Nat \subseteq T
    <3> HIDE DEF T
    <3> QED  BY <1>3, <1>4, Induct
  <2> QED  BY <2>1
<1> HIDE DEF L, Best, T
\* Two of them agree where both are defined.
<1>6. ASSUME NEW i \in Nat, NEW j \in Nat, NEW s \in D, size[s] <= i, size[s] <= j
      PROVE  Best(i)[s] = Best(j)[s]
  <2> DEFINE U == {k \in Nat : \A x \in D : size[x] <= k /\ size[x] <= i /\ size[x] <= j
                                  => Best(i)[x] = Best(j)[x]}
  <2>1. ASSUME NEW x \in D, size[x] <= i, size[x] <= j
        PROVE  /\ Best(i)[x] = IF size[x] = 0 THEN base[x] ELSE step[<<x, Best(i)[pred[x]]>>]
               /\ Best(j)[x] = IF size[x] = 0 THEN base[x] ELSE step[<<x, Best(j)[pred[x]]>>]
    BY <1>2, <1>5, <2>1
  <2>2. 0 \in U
    <3> SUFFICES ASSUME NEW x \in D, size[x] <= 0, size[x] <= i, size[x] <= j
                 PROVE  Best(i)[x] = Best(j)[x]
      OBVIOUS
    <3>1. size[x] = 0
      BY <1>1
    <3> QED  BY <3>1, <2>1
  <2>3. \A k \in Nat : k \in U => k + 1 \in U
    <3> SUFFICES ASSUME NEW k \in Nat, k \in U,
                        NEW x \in D, size[x] <= k + 1, size[x] <= i, size[x] <= j
                 PROVE  Best(i)[x] = Best(j)[x]
      OBVIOUS
    <3>1. CASE size[x] = 0
      BY <3>1, <2>1
    <3>2. CASE size[x] # 0
      <4>1. /\ pred[x] \in D /\ size[pred[x]] \in Nat /\ size[x] \in Nat
            /\ size[pred[x]] < size[x]
        BY <3>2, <1>1
      <4>2. size[pred[x]] <= k /\ size[pred[x]] <= i /\ size[pred[x]] <= j
        BY <4>1
      <4>3. Best(i)[pred[x]] = Best(j)[pred[x]]
        BY <4>1, <4>2
      <4> QED  BY <3>2, <4>3, <2>1
    <3> QED  BY <3>1, <3>2
  <2> HIDE DEF U
  <2>4. size[s] \in U
    BY <2>2, <2>3, <1>1, Induct
  <2>5. size[s] <= size[s]
    BY <1>1
  <2> QED  BY <2>4, <2>5, <1>6 DEF U
<1>7. \A s \in D : g[s] = IF size[s] = 0 THEN base[s] ELSE step[<<s, g[pred[s]]>>]
  <2> TAKE s \in D
  <2>1. size[s] <= size[s] /\ size[s] \in Nat /\ s \in L(size[s])
    BY <1>1, <1>2
  <2>2. g[s] = IF size[s] = 0 THEN base[s] ELSE step[<<s, Best(size[s])[pred[s]]>>]
    BY <2>1, <1>5
  <2>3. CASE size[s] = 0
    BY <2>2, <2>3
  <2>4. CASE size[s] # 0
    <3>1. /\ pred[s] \in D /\ size[pred[s]] \in Nat /\ size[pred[s]] <= size[s]
          /\ size[pred[s]] <= size[pred[s]]
      BY <2>1, <2>4, <1>1
    <3>2. Best(size[s])[pred[s]] = Best(size[pred[s]])[pred[s]]
      BY <3>1, <2>1, <1>6
    <3>3. g[pred[s]] = Best(size[pred[s]])[pred[s]]
      BY <3>1
    <3> QED  BY <2>2, <2>4, <3>2, <3>3
  <2> QED  BY <2>3, <2>4
<1>8. g \in [D -> V]
  <2>1. \A s \in D : g[s] \in V
    <3> TAKE s \in D
    <3>1. s \in L(size[s]) /\ size[s] \in Nat
      BY <1>1, <1>2
    <3>2. Best(size[s]) \in [L(size[s]) -> V]
      BY <3>1, <1>5
    <3> QED  BY <3>1, <3>2
  <2> QED  BY <2>1
<1>9. g = [s \in D |-> IF size[s] = 0 THEN base[s] ELSE step[<<s, g[pred[s]]>>]]
  <2> DEFINE r == [s \in D |-> IF size[s] = 0 THEN base[s] ELSE step[<<s, g[pred[s]]>>]]
  <2>1. \A s \in D : g[s] = r[s]
    BY <1>7
  <2> QED  BY <2>1
<1> HIDE DEF g
<1>10. Solves(g, D, size, pred, base, step)
  BY <1>9 DEF Solves
<1> QED  BY <1>8, <1>10

------------------------------------------------------------------------------
\* Inverses: the loop of extended_gcd ends with the first coefficient of a greatest
\* common divisor.

Quads == Nat \X Nat \X Int \X Int

Shrunk(s) == <<s[2], s[1] % s[2], s[4] - (s[1] \div s[2]) * s[3], s[3]>>

\* The next values of the loop of extended_gcd are smaller.
LEMMA ShrunkIsSmaller ==
    ASSUME NEW s \in Quads, s[2] # 0
    PROVE  /\ Shrunk(s) \in Quads /\ Shrunk(s)[2] < s[2]
           /\ s[1] % s[2] \in Nat /\ s[1] \div s[2] \in Int
           /\ s[1] = s[2] * (s[1] \div s[2]) + (s[1] % s[2])
<1>1. s[1] \in Nat /\ s[2] \in Nat /\ s[3] \in Int /\ s[4] \in Int /\ s[2] > 0
  BY DEF Quads
<1> DEFINE a == s[1]
           b == s[2]
           q == a \div b
           r == a % b
<1> HIDE DEF a, b
<1>2. a \in Nat /\ b \in Nat /\ b > 0
  BY <1>1 DEF a, b
<1>3. q \in Int /\ a = b * q + r /\ r \in 0 .. b - 1
  BY <1>2, Divided
<1> HIDE DEF q, r
<1>4. Shrunk(s) = <<b, r, s[4] - q * s[3], s[3]>>
  BY DEF Shrunk, a, b, q, r
<1>5. q * s[3] \in Int
  BY <1>1, <1>3
<1>6. s[4] - q * s[3] \in Int /\ r \in Nat /\ r < b
  BY <1>1, <1>2, <1>3, <1>5
<1> QED  BY <1>1, <1>2, <1>3, <1>4, <1>6 DEF Quads, a, b, q, r

\* ExtendedGcd satisfies its recursive definition.
LEMMA GcdEquation ==
    /\ ExtendedGcd \in [Quads -> Int]
    /\ \A s \in Quads : ExtendedGcd[s] = IF s[2] = 0 THEN s[4] ELSE ExtendedGcd[Shrunk(s)]
<1> DEFINE size == [s \in Quads |-> s[2]]
           pred == [s \in Quads |-> IF s[2] = 0 THEN s ELSE Shrunk(s)]
           base == [s \in Quads |-> s[4]]
           step == [x \in Quads \X Int |-> x[2]]
<1>1. \A s \in Quads : s[2] \in Nat /\ s[4] \in Int
  BY DEF Quads
<1>2. Descends(Quads, size, pred)
  BY <1>1, ShrunkIsSmaller DEF Descends
<1>3. base \in [Quads -> Int] /\ step \in [Quads \X Int -> Int]
  BY <1>1
<1> HIDE DEF size, pred, base, step
<1>4. PICK g \in [Quads -> Int] : Solves(g, Quads, size, pred, base, step)
  BY <1>2, <1>3, Recursion
<1>5. \A f : Solves(f, Quads, size, pred, base, step) /\ f \in [Quads -> Int]
         => f = [s \in Quads |-> IF s[2] = 0 THEN s[4] ELSE f[Shrunk(s)]]
  <2> TAKE f
  <2> HAVE Solves(f, Quads, size, pred, base, step) /\ f \in [Quads -> Int]
  <2>1. f = [s \in Quads |-> IF size[s] = 0 THEN base[s] ELSE step[<<s, f[pred[s]]>>]]
    BY DEF Solves
  <2> DEFINE h == [s \in Quads |-> IF s[2] = 0 THEN s[4] ELSE f[Shrunk(s)]]
  <2>2. ASSUME NEW s \in Quads PROVE f[s] = h[s]
    <3>1. f[s] = IF size[s] = 0 THEN base[s] ELSE step[<<s, f[pred[s]]>>]
      BY <2>1
    <3>2. size[s] = s[2] /\ base[s] = s[4] /\ (s[2] # 0 => pred[s] = Shrunk(s) /\ Shrunk(s) \in Quads)
      BY ShrunkIsSmaller DEF size, base, pred
    <3>3. CASE s[2] = 0
      BY <3>1, <3>2, <3>3
    <3>4. CASE s[2] # 0
      BY <3>2, <3>4, <3>1 DEF step
    <3> QED  BY <3>3, <3>4
  <2>3. f = [s \in Quads |-> f[s]] /\ h = [s \in Quads |-> h[s]]
    OBVIOUS
  <2>4. [s \in Quads |-> f[s]] = [s \in Quads |-> h[s]]
    BY <2>2
  <2> QED  BY <2>3, <2>4
<1>6. g = [s \in Quads |-> IF s[2] = 0 THEN s[4] ELSE g[Shrunk(s)]]
  BY <1>4, <1>5
<1> DEFINE Is(f) == f = [s \in Nat \X Nat \X Int \X Int |->
                            IF s[2] = 0 THEN s[4]
                            ELSE f[<<s[2], s[1] % s[2], s[4] - (s[1] \div s[2]) * s[3], s[3]>>]]
<1>7. Is(g)
  BY <1>6 DEF Quads, Shrunk
<1>8. ExtendedGcd = CHOOSE f : Is(f)
  BY DEF ExtendedGcd
<1>9. Is(ExtendedGcd)
  <2> HIDE DEF Is
  <2> QED  BY <1>7, <1>8
<1>10. ExtendedGcd = [s \in Quads |-> IF s[2] = 0 THEN s[4] ELSE ExtendedGcd[Shrunk(s)]]
  BY <1>9 DEF Quads, Shrunk
<1>11. \A f : f = [s \in Quads |-> IF s[2] = 0 THEN s[4] ELSE f[Shrunk(s)]]
          => f = g
  <2> SUFFICES ASSUME NEW f, f = [s \in Quads |-> IF s[2] = 0 THEN s[4] ELSE f[Shrunk(s)]]
               PROVE  f = g
    OBVIOUS
  <2> DEFINE U == {k \in Nat : \A s \in Quads : s[2] <= k => f[s] = g[s]}
  <2>1. 0 \in U
    BY <1>1, <1>6
  <2>2. \A k \in Nat : k \in U => k + 1 \in U
    <3> SUFFICES ASSUME NEW k \in Nat, k \in U, NEW s \in Quads, s[2] <= k + 1
                 PROVE  f[s] = g[s]
      OBVIOUS
    <3>1. f[s] = (IF s[2] = 0 THEN s[4] ELSE f[Shrunk(s)]) /\ g[s] = (IF s[2] = 0 THEN s[4] ELSE g[Shrunk(s)])
      BY <1>6
    <3>2. s[2] # 0 => f[Shrunk(s)] = g[Shrunk(s)]
      <4> HAVE s[2] # 0
      <4>1. Shrunk(s) \in Quads /\ Shrunk(s)[2] < s[2] /\ s[2] \in Nat /\ Shrunk(s)[2] \in Nat
        BY <1>1, ShrunkIsSmaller
      <4>2. Shrunk(s)[2] <= k
        BY <4>1
      <4> QED  BY <4>1, <4>2
    <3> QED  BY <3>1, <3>2
  <2> HIDE DEF U
  <2>3. Nat \subseteq U
    BY <2>1, <2>2, Induct
  <2>4. ASSUME NEW s \in Quads PROVE f[s] = g[s]
    BY <2>3, <1>1 DEF U
  <2>5. f = [s \in Quads |-> f[s]] /\ g = [s \in Quads |-> g[s]]
    BY <1>6
  <2>6. [s \in Quads |-> f[s]] = [s \in Quads |-> g[s]]
    BY <2>4
  <2> QED  BY <2>5, <2>6
<1>12. ExtendedGcd = g
  BY <1>10, <1>11, Zenon
<1> QED  BY <1>4, <1>6, <1>12

\* s[1] and s[2] are s[4] and s[3] times a, modulo p.
Multiples(s, a, p) ==
    /\ \E k \in Int : s[1] = s[4] * a + p * k
    /\ \E k \in Int : s[2] = s[3] * a + p * k

\* g divides both numbers and is c times a.
GcdBy(g, c, s, a, p) ==
    /\ g \in Nat \ {0}
    /\ \E u \in Int : s[1] = g * u
    /\ \E u \in Int : s[2] = g * u
    /\ (c * a) % p = g % p

\* extended_gcd returns a number c such that c * a is the gcd modulo p.
LEMMA GcdResult ==
    ASSUME NEW p \in Nat, p > 1, NEW a \in Int, NEW s \in Quads, s[1] # 0,
           Multiples(s, a, p)
    PROVE  \E g : GcdBy(g, ExtendedGcd[s], s, a, p)
<1> DEFINE U == {k \in Nat : \A x \in Quads :
                    x[2] <= k /\ x[1] # 0 /\ Multiples(x, a, p)
                        => \E g : GcdBy(g, ExtendedGcd[x], x, a, p)}
<1>1. \A x \in Quads : x[1] \in Nat /\ x[2] \in Nat /\ x[3] \in Int /\ x[4] \in Int
  BY DEF Quads
<1>2. ASSUME NEW x \in Quads, x[2] = 0, x[1] # 0, Multiples(x, a, p)
      PROVE  \E g : GcdBy(g, ExtendedGcd[x], x, a, p)
  <2>1. ExtendedGcd[x] = x[4]
    BY <1>2, GcdEquation
  <2> DEFINE x1 == x[1]
             x4 == x[4]
  <2>2. x1 \in Nat \ {0} /\ x4 \in Int
    BY <1>1, <1>2
  <2>3. PICK k \in Int : x1 = x4 * a + p * k
    BY <1>2 DEF Multiples
  <2> HIDE DEF x1, x4
  <2> DEFINE y == x4 * a
  <2>4. y \in Int /\ x1 = y + p * k /\ x1 \in Int
    BY <2>2, <2>3
  <2> HIDE DEF y
  <2>5. x1 % p = y % p
    BY <2>4, Congruent
  <2>6. x1 = x1 * 1 /\ 0 = x1 * 0
    BY <2>2
  <2>7. GcdBy(x1, x4, x, a, p)
    BY <2>2, <2>5, <2>6, <1>2 DEF GcdBy, y, x1
  <2> QED  BY <2>1, <2>7 DEF x4
<1>3. 0 \in U
  BY <1>1, <1>2
<1>4. \A k \in Nat : k \in U => k + 1 \in U
  <2> SUFFICES ASSUME NEW k \in Nat, k \in U, NEW x \in Quads,
                      x[2] <= k + 1, x[1] # 0, Multiples(x, a, p)
               PROVE  \E g : GcdBy(g, ExtendedGcd[x], x, a, p)
    OBVIOUS
  <2>1. CASE x[2] = 0
    BY <2>1, <1>2
  <2>2. CASE x[2] # 0
    <3> DEFINE z == Shrunk(x)
               x1 == x[1]
               x2 == x[2]
               x3 == x[3]
               x4 == x[4]
               q == x1 \div x2
               r == x1 % x2
    <3>1. /\ z \in Quads /\ z[2] < x2 /\ r \in Nat /\ q \in Int /\ x1 = x2 * q + r
          /\ x1 \in Nat /\ x2 \in Nat /\ x3 \in Int /\ x4 \in Int /\ x2 # 0
          /\ z[2] \in Nat
      BY <2>2, <1>1, ShrunkIsSmaller
    <3>2. z[1] = x2 /\ z[2] = r /\ z[3] = x4 - q * x3 /\ z[4] = x3
      BY DEF Shrunk
    <3>3. PICK i \in Int, j \in Int : x1 = x4 * a + p * i /\ x2 = x3 * a + p * j
      BY DEF Multiples
    <3>4. ExtendedGcd[x] = ExtendedGcd[z]
      BY <2>2, GcdEquation
    <3>5. x[1] = x1 /\ x[2] = x2
      OBVIOUS
    <3> HIDE DEF z, x1, x2, x3, x4, q, r
    <3>6. r = (x4 - q * x3) * a + p * (i - q * j) /\ i - q * j \in Int
      BY <3>1, <3>3
    <3>7. Multiples(z, a, p)
      BY <3>2, <3>3, <3>6 DEF Multiples
    <3>8. z[2] <= k /\ z[1] # 0
      BY <3>1, <3>2, <3>5
    <3>9. PICK g : GcdBy(g, ExtendedGcd[z], z, a, p)
      BY <3>1, <3>7, <3>8
    <3>10. PICK u \in Int, v \in Int : x2 = g * u /\ r = g * v
      BY <3>9, <3>2 DEF GcdBy
    <3>11. g \in Nat \ {0} /\ u * q + v \in Int /\ x1 = g * (u * q + v)
      BY <3>9, <3>1, <3>10 DEF GcdBy
    <3>12. GcdBy(g, ExtendedGcd[x], x, a, p)
      BY <3>4, <3>5, <3>9, <3>10, <3>11 DEF GcdBy
    <3> QED  BY <3>12
  <2> QED  BY <2>1, <2>2
<1> HIDE DEF U
<1>5. s[2] \in U /\ s[2] <= s[2]
  BY <1>1, <1>3, <1>4, Induct
<1> QED  BY <1>5 DEF U

\* What Inv returns is the inverse.
LEMMA Inverses ==
    ASSUME PrimeField, NEW b \in F, b # 0
    PROVE  Inv(Field, b) \in F /\ b (.) Inv(Field, b) = 1
<1> DEFINE s == <<b, Field, 0, 1>>
           p == Field
           e == ExtendedGcd[s]
<1>1. b \in Int /\ b \in Nat \ {0} /\ b < p /\ p \in Nat /\ p > 1
  BY Operations
<1>2. s \in Quads /\ s[1] = b /\ s[2] = p /\ s[3] = 0 /\ s[4] = 1
  BY <1>1 DEF Quads
<1>3. Multiples(s, b, p)
  BY <1>1, <1>2 DEF Multiples
<1>4. e \in Int
  BY <1>2, GcdEquation
<1> HIDE DEF s
<1>5. PICK g : GcdBy(g, e, s, b, p)
  BY <1>1, <1>2, <1>3, GcdResult
<1>6. g \in Nat \ {0} /\ (e * b) % p = g % p
  BY <1>5 DEF GcdBy
<1>7. PICK u \in Int, v \in Int : b = g * u /\ p = g * v
  BY <1>2, <1>5 DEF GcdBy
<1>8. g <= b
  <2>1. u > 0
    BY <1>1, <1>6, <1>7
  <2> QED  BY <1>6, <1>7, <2>1
<1>9. g = 1
  <2> SUFFICES ASSUME g # 1 PROVE FALSE
    OBVIOUS
  <2>1. g \in 2 .. p - 1
    BY <1>1, <1>6, <1>8
  <2>2. p % g # 0
    BY <2>1 DEF PrimeField, IsPrime
  <2>3. p \in Int /\ 0 \in Int /\ p = 0 + g * v /\ g \in Nat /\ g > 1
    BY <1>1, <1>7, <2>1
  <2>4. p % g = 0 % g
    BY <2>3, Congruent
  <2>5. 0 % g = 0
    BY <2>3
  <2> QED  BY <2>2, <2>4, <2>5
<1>10. Inv(Field, b) = e % p
  BY DEF Inv, InvP, PrimeField, s
<1> HIDE DEF e
<1>11. e % p \in 0 .. p - 1
  BY <1>1, <1>4, Divided
<1>12. (b * (e % p)) % p = (b * e) % p /\ b * e = e * b
  <2> HIDE DEF p
  <2>1. (b * (e % p)) % p = (b * e) % p
    BY <1>1, <1>4, RestsSuffice
  <2> QED  BY <2>1, <1>1, <1>4
<1>13. 1 % p = 1
  BY <1>1
<1> QED  BY <1>6, <1>9, <1>10, <1>11, <1>12, <1>13, Operations

\* The laws hold for every prime: what module Bedoza assumes of the field of its
\* programs is true of every GF(p).
THEOREM PrimeFieldsAreFields ==
    ASSUME PrimeField
    PROVE  IsField(Field)
<1>1. {0, 1} \subseteq F
  BY Operations
<1>2. \A a, b \in F :
          /\ {a (+) b, a (-) b, a (.) b} \subseteq F
          /\ a (+) b = b (+) a /\ a (.) b = b (.) a
          /\ (a (+) b) (-) b = a /\ (a (-) b) (+) b = a
  <2> TAKE a, b \in F
  <2>1. a \in Int /\ b \in Int
    BY InF
  <2> QED  BY <2>1, Closed, AddCommutes, SubCancels
<1>3. \A a, b, c \in F :
          /\ (a (+) b) (+) c = a (+) (b (+) c)
          /\ (a (.) b) (.) c = a (.) (b (.) c)
          /\ a (.) (b (+) c) = (a (.) b) (+) (a (.) c)
  BY AddAssociates, MulAssociates, Distributes
<1>4. \A a \in F :
          /\ a (+) 0 = a /\ a (.) 1 = a /\ Neg(Field, a) = 0 (-) a
          /\ a # 0 => Inv(Field, a) \in F /\ a (.) Inv(Field, a) = 1
  <2> TAKE a \in F
  <2>1. Neg(Field, a) = 0 (-) a
    BY DEF Neg, (-), Sub, PrimeField
  <2> QED  BY <2>1, Neutral, Inverses
<1> QED  BY <1>1, <1>2, <1>3, <1>4, Zenon DEF IsField, F, (+), (-), (.)
------------------------------------------------------------------------------
\* Folds over finite sets, in whatever order CHOOSE takes the elements.

Some(s) == CHOOSE x \in s : TRUE

\* h has the folds of g over all subsets of S.
IsFold(h, S, g, op, base) ==
    /\ h \in [SUBSET S -> F]
    /\ \A s \in SUBSET S :
          h[s] = IF s = {} THEN base ELSE op[<<g[Some(s)], h[s \ {Some(s)}]>>]

\* What a fold takes out of a set is a member, and one less is left.
LEMMA SomeIsMember ==
    ASSUME NEW S, IsFiniteSet(S), NEW s \in SUBSET S, s # {}
    PROVE  /\ Some(s) \in s /\ Some(s) \in S /\ s \ {Some(s)} \in SUBSET S
           /\ Cardinality(s) \in Nat \ {0}
           /\ Cardinality(s \ {Some(s)}) = Cardinality(s) - 1
<1>1. Some(s) \in s
  BY DEF Some
<1>2. IsFiniteSet(s)
  BY FS_Subset
<1>3. Cardinality(s) \in Nat /\ Cardinality(s) # 0
  BY <1>2, FS_CardinalityType, FS_EmptySet
<1>4. Cardinality(s \ {Some(s)}) = Cardinality(s) - 1
  BY <1>1, <1>2, FS_RemoveElement
<1> QED  BY <1>1, <1>3, <1>4

\* A function on the subsets of S that folds them exists.
LEMMA FoldExists ==
    ASSUME NEW S, IsFiniteSet(S), NEW g \in [S -> F], NEW base \in F,
           NEW op \in [F \X F -> F]
    PROVE  \E h : IsFold(h, S, g, op, base)
<1> DEFINE D == SUBSET S
           size == [s \in D |-> Cardinality(s)]
           pred == [s \in D |-> s \ {Some(s)}]
           first == [s \in D |-> base]
           step == [x \in D \X F |-> IF x[1] = {} THEN base ELSE op[<<g[Some(x[1])], x[2]>>]]
<1>1. \A s \in D : /\ IsFiniteSet(s) /\ Cardinality(s) \in Nat
                   /\ Cardinality(s) = 0 <=> s = {}
  BY FS_Subset, FS_CardinalityType, FS_EmptySet
<1>2. Descends(D, size, pred)
  <2>1. size \in [D -> Nat] /\ pred \in [D -> D]
    BY <1>1
  <2>2. ASSUME NEW s \in D, size[s] # 0 PROVE size[pred[s]] < size[s]
    BY <2>2, <1>1, SomeIsMember
  <2> QED  BY <2>1, <2>2 DEF Descends
<1>3. first \in [D -> F] /\ step \in [D \X F -> F]
  <2>1. ASSUME NEW x \in D \X F PROVE step[x] \in F
    <3>1. CASE x[1] = {}
      BY <3>1
    <3>2. CASE x[1] # {}
      <4>1. x[1] \in SUBSET S /\ x[2] \in F
        OBVIOUS
      <4>2. Some(x[1]) \in S
        BY <3>2, <4>1, SomeIsMember
      <4>3. g[Some(x[1])] \in F
        BY <4>2
      <4> QED  BY <3>2, <4>1, <4>3
    <3> QED  BY <3>1, <3>2
  <2> QED  BY <2>1
<1> HIDE DEF D, size, pred, first, step
<1>4. PICK h \in [D -> F] : Solves(h, D, size, pred, first, step)
  BY <1>2, <1>3, Recursion
<1>5. h = [s \in D |-> IF size[s] = 0 THEN first[s] ELSE step[<<s, h[pred[s]]>>]]
  BY <1>4 DEF Solves
<1>6. ASSUME NEW s \in D
      PROVE  h[s] = IF s = {} THEN base ELSE op[<<g[Some(s)], h[s \ {Some(s)}]>>]
  <2>1. h[s] = IF size[s] = 0 THEN first[s] ELSE step[<<s, h[pred[s]]>>]
    BY <1>5
  <2>2. (size[s] = 0 <=> s = {}) /\ first[s] = base /\ pred[s] = s \ {Some(s)}
    BY <1>1 DEF size, first, pred, D
  <2>3. pred[s] \in D /\ h[pred[s]] \in F
    BY <2>2, <1>4 DEF D
  <2>4. step[<<s, h[pred[s]]>>] = IF s = {} THEN base ELSE op[<<g[Some(s)], h[pred[s]]>>]
    BY <2>3 DEF step
  <2> QED  BY <2>1, <2>2, <2>4
<1>7. IsFold(h, S, g, op, base)
  BY <1>4, <1>6 DEF IsFold, D
<1> QED  BY <1>7

\* Folds of the same are the same.
LEMMA FoldsAgree ==
    ASSUME NEW S, IsFiniteSet(S), NEW R, IsFiniteSet(R), NEW g, NEW k, NEW op, NEW base,
           NEW h, IsFold(h, S, g, op, base), NEW l, IsFold(l, R, k, op, base),
           NEW s \in SUBSET S, s \in SUBSET R, \A x \in s : g[x] = k[x]
    PROVE  h[s] = l[s]
<1> DEFINE U == {m \in Nat : \A u \in SUBSET s : Cardinality(u) = m => h[u] = l[u]}
<1>1. \A u \in SUBSET s : u \in SUBSET S /\ u \in SUBSET R /\ IsFiniteSet(u) /\ Cardinality(u) \in Nat
  BY FS_Subset, FS_CardinalityType
<1>2. \A u \in SUBSET s : /\ h[u] = IF u = {} THEN base ELSE op[<<g[Some(u)], h[u \ {Some(u)}]>>]
                          /\ l[u] = IF u = {} THEN base ELSE op[<<k[Some(u)], l[u \ {Some(u)}]>>]
  BY <1>1 DEF IsFold
<1>3. 0 \in U
  <2> SUFFICES ASSUME NEW u \in SUBSET s, Cardinality(u) = 0 PROVE h[u] = l[u]
    OBVIOUS
  <2>1. u = {}
    BY <1>1, FS_EmptySet
  <2> QED  BY <2>1, <1>2
<1>4. \A m \in Nat : m \in U => m + 1 \in U
  <2> SUFFICES ASSUME NEW m \in Nat, m \in U, NEW u \in SUBSET s, Cardinality(u) = m + 1
               PROVE  h[u] = l[u]
    OBVIOUS
  <2>1. CASE u = {}
    BY <2>1, <1>2
  <2>2. CASE u # {}
    <3>1. /\ Some(u) \in u /\ u \ {Some(u)} \in SUBSET s
          /\ Cardinality(u \ {Some(u)}) = Cardinality(u) - 1
      BY <2>2, <1>1, SomeIsMember
    <3>2. Cardinality(u \ {Some(u)}) = m
      BY <3>1
    <3>3. h[u \ {Some(u)}] = l[u \ {Some(u)}]
      BY <3>1, <3>2
    <3>4. g[Some(u)] = k[Some(u)]
      BY <3>1
    <3> QED  BY <3>3, <3>4, <2>2, <1>2
  <2> QED  BY <2>1, <2>2
<1> HIDE DEF U
<1>5. Cardinality(s) \in U
  BY <1>1, <1>3, <1>4, Induct
<1> QED  BY <1>5 DEF U

Commutative(op) ==
    /\ op \in [F \X F -> F]
    /\ \A a, b \in F : op[<<a, b>>] = op[<<b, a>>]
    /\ \A a, b, c \in F : op[<<op[<<a, b>>], c>>] = op[<<a, op[<<b, c>>]>>]

\* Any element may be taken first.
LEMMA FoldPeels ==
    ASSUME NEW S, IsFiniteSet(S), NEW g \in [S -> F], NEW op, Commutative(op), NEW base,
           NEW h, IsFold(h, S, g, op, base), NEW s \in SUBSET S, NEW a \in s
    PROVE  h[s] = op[<<g[a], h[s \ {a}]>>]
<1> DEFINE P(u) == \A b \in u : h[u] = op[<<g[b], h[u \ {b}]>>]
           U == {m \in Nat : \A u \in SUBSET S : Cardinality(u) = m => P(u)}
<1>1. \A u \in SUBSET S : IsFiniteSet(u) /\ Cardinality(u) \in Nat /\ h[u] \in F
  BY FS_Subset, FS_CardinalityType DEF IsFold
<1>2. 0 \in U
  <2> SUFFICES ASSUME NEW u \in SUBSET S, Cardinality(u) = 0, NEW b \in u PROVE FALSE
    OBVIOUS
  <2> QED  BY <1>1, FS_EmptySet
<1>3. ASSUME NEW m \in Nat, m \in U, NEW u \in SUBSET S, Cardinality(u) = m + 1
      PROVE  P(u)
  <2> SUFFICES ASSUME NEW b \in u PROVE h[u] = op[<<g[b], h[u \ {b}]>>]
    OBVIOUS
  <2>0. \A w \in SUBSET S : Cardinality(w) = m =>
           \A e \in w : h[w] = op[<<g[e], h[w \ {e}]>>]
    BY <1>3
  <2> DEFINE c == Some(u)
             v == u \ {b, c}
  <2>1. u # {}
    OBVIOUS
  <2>2. /\ c \in u /\ u \ {c} \in SUBSET S /\ Cardinality(u \ {c}) = Cardinality(u) - 1
    BY <2>1, SomeIsMember
  <2>3. h[u] = op[<<g[c], h[u \ {c}]>>]
    BY <2>1 DEF IsFold
  <2> HIDE DEF c
  <2>4. CASE b = c
    BY <2>3, <2>4
  <2>5. CASE b # c
    <3>1. Cardinality(u \ {b}) = Cardinality(u) - 1
      BY <1>1, FS_RemoveElement
    <3>2. Cardinality(u \ {b}) = m /\ Cardinality(u \ {c}) = m
      BY <2>2, <3>1, <1>3
    <3>3. /\ u \ {b} \in SUBSET S /\ v \in SUBSET S
          /\ c \in u \ {b} /\ b \in u \ {c}
          /\ (u \ {b}) \ {c} = v /\ (u \ {c}) \ {b} = v
      BY <2>2, <2>5
    <3>4. h[u \ {c}] = op[<<g[b], h[v]>>] /\ h[u \ {b}] = op[<<g[c], h[v]>>]
      <4> HIDE DEF v
      <4> QED  BY <3>2, <3>3, <2>2, <2>0
    <3>5. g[b] \in F /\ g[c] \in F /\ h[v] \in F
      BY <3>3, <2>2, <1>1
    <3> DEFINE x == g[b]
               y == g[c]
               z == h[v]
    <3> HIDE DEF x, y, z, v
    <3>6. op[<<y, op[<<x, z>>]>>] = op[<<x, op[<<y, z>>]>>]
      <4>1. x \in F /\ y \in F /\ z \in F
        BY <3>5 DEF x, y, z
      <4>2. op[<<op[<<y, x>>], z>>] = op[<<y, op[<<x, z>>]>>]
        BY <4>1 DEF Commutative
      <4>3. op[<<op[<<x, y>>], z>>] = op[<<x, op[<<y, z>>]>>]
        BY <4>1 DEF Commutative
      <4>4. op[<<y, x>>] = op[<<x, y>>]
        BY <4>1 DEF Commutative
      <4> QED  BY <4>2, <4>3, <4>4
    <3> QED  BY <2>3, <3>4, <3>6 DEF x, y, z
  <2> QED  BY <2>4, <2>5
<1>4. \A m \in Nat : m \in U => m + 1 \in U
  <2> HIDE DEF P
  <2> QED  BY <1>3
<1> HIDE DEF U
<1>5. Cardinality(s) \in U
  BY <1>1, <1>2, <1>4, Induct
<1> QED  BY <1>5 DEF U

\* The fold of g over S.
Fold(S, g, op, base) == (CHOOSE h : IsFold(h, S, g, op, base))[S]

\* Fold is what every such function gives.
LEMMA FoldIs ==
    ASSUME NEW S, IsFiniteSet(S), NEW g, \A i \in S : g[i] \in F, NEW base \in F,
           NEW op, Commutative(op)
    PROVE  /\ IsFold(CHOOSE h : IsFold(h, S, g, op, base), S, g, op, base)
           /\ \A h : IsFold(h, S, g, op, base) => h[S] = Fold(S, g, op, base)
<1> DEFINE r == [i \in S |-> g[i]]
<1>1. r \in [S -> F] /\ op \in [F \X F -> F]
  BY DEF Commutative
<1> HIDE DEF r
<1>2. PICK h : IsFold(h, S, r, op, base)
  BY <1>1, FoldExists
<1>3. IsFold(h, S, g, op, base)
  <2>1. \A s \in SUBSET S : s # {} => r[Some(s)] = g[Some(s)]
    BY SomeIsMember DEF r
  <2> QED  BY <1>2, <2>1 DEF IsFold
<1>4. IsFold(CHOOSE l : IsFold(l, S, g, op, base), S, g, op, base)
  BY <1>3
<1>5. ASSUME NEW l, IsFold(l, S, g, op, base) PROVE l[S] = Fold(S, g, op, base)
  BY <1>4, <1>5, FoldsAgree DEF Fold
<1> QED  BY <1>4, <1>5

\* A fold can take out any member first.
LEMMA FoldLaws ==
    ASSUME NEW S, IsFiniteSet(S), NEW g, \A i \in S : g[i] \in F, NEW base \in F,
           NEW op, Commutative(op)
    PROVE  /\ Fold(S, g, op, base) \in F
           /\ S = {} => Fold(S, g, op, base) = base
           /\ \A a \in S : Fold(S, g, op, base) = op[<<g[a], Fold(S \ {a}, g, op, base)>>]
<1> DEFINE h == CHOOSE h : IsFold(h, S, g, op, base)
<1>1. IsFold(h, S, g, op, base) /\ h[S] = Fold(S, g, op, base)
  BY FoldIs DEF Fold
<1> HIDE DEF h
<1>2. Fold(S, g, op, base) \in F /\ (S = {} => Fold(S, g, op, base) = base)
  BY <1>1 DEF IsFold
<1>3. ASSUME NEW a \in S
      PROVE  Fold(S, g, op, base) = op[<<g[a], Fold(S \ {a}, g, op, base)>>]
  <2> DEFINE r == [i \in S |-> g[i]]
             R == S \ {a}
  <2>1. r \in [S -> F]
    OBVIOUS
  <2>2. IsFold(h, S, r, op, base)
    <3>1. \A s \in SUBSET S : s # {} => r[Some(s)] = g[Some(s)]
      BY SomeIsMember
    <3> QED  BY <1>1, <3>1 DEF IsFold
  <2> HIDE DEF r
  <2>3. h[S] = op[<<r[a], h[R]>>]
    BY <2>1, <2>2, FoldPeels
  <2>4. IsFiniteSet(R) /\ R \in SUBSET S /\ \A i \in R : g[i] \in F
    BY FS_Subset
  <2>5. h[R] = Fold(R, g, op, base)
    <3> HIDE DEF R
    <3> DEFINE l == CHOOSE l : IsFold(l, R, g, op, base)
    <3>1. IsFold(l, R, g, op, base)
      BY <2>4, FoldIs
    <3> HIDE DEF l
    <3>2. h[R] = l[R]
      BY <2>4, <3>1, <1>1, FoldsAgree
    <3> QED  BY <3>2 DEF Fold, l
  <2> QED  BY <1>1, <2>3, <2>5 DEF r
<1> QED  BY <1>2, <1>3

\* A fold only depends on the terms.
LEMMA FoldCongruence ==
    ASSUME NEW S, IsFiniteSet(S), NEW g, \A i \in S : g[i] \in F, NEW base \in F,
           NEW op, Commutative(op), NEW k, \A i \in S : k[i] = g[i]
    PROVE  Fold(S, k, op, base) = Fold(S, g, op, base)
<1> DEFINE h == CHOOSE h : IsFold(h, S, g, op, base)
           l == CHOOSE l : IsFold(l, S, k, op, base)
<1>1. IsFold(h, S, g, op, base) /\ IsFold(l, S, k, op, base)
  BY FoldIs
<1> HIDE DEF h, l
<1>2. h[S] = l[S]
  BY <1>1, FoldsAgree
<1> QED  BY <1>2 DEF Fold, h, l

AddFn == [x \in F \X F |-> x[1] (+) x[2]]
MulFn == [x \in F \X F |-> x[1] (.) x[2]]

SumOf(S, g) == Fold(S, g, AddFn, 0)
ProductOf(S, g) == Fold(S, g, MulFn, 1)

\* Sums, differences and products of elements are elements.
LEMMA ClosedInF ==
    ASSUME PrimeField, NEW a \in F, NEW b \in F
    PROVE  a (+) b \in F /\ a (-) b \in F /\ a (.) b \in F
<1>1. a \in Int /\ b \in Int
  BY InF
<1> QED  BY <1>1, Closed

\* Sums and products can be folded in any order.
LEMMA TheyCommute ==
    ASSUME PrimeField
    PROVE  /\ Commutative(AddFn) /\ Commutative(MulFn) /\ 0 \in F /\ 1 \in F
           /\ \A a, b \in F : AddFn[<<a, b>>] = a (+) b /\ MulFn[<<a, b>>] = a (.) b
<1>1. \A a, b \in F : /\ <<a, b>> \in F \X F
                      /\ AddFn[<<a, b>>] = a (+) b /\ MulFn[<<a, b>>] = a (.) b
  BY DEF AddFn, MulFn
<1>2. \A a, b \in F : a (+) b \in F /\ a (.) b \in F
  BY ClosedInF
<1>3. AddFn \in [F \X F -> F] /\ MulFn \in [F \X F -> F]
  BY <1>2 DEF AddFn, MulFn
<1>4. 0 \in F /\ 1 \in F
  BY Operations
<1>5. Commutative(AddFn)
  BY <1>1, <1>2, <1>3, AddCommutes, AddAssociates DEF Commutative
<1>6. Commutative(MulFn)
  BY <1>1, <1>2, <1>3, AddCommutes, MulAssociates DEF Commutative
<1> QED  BY <1>1, <1>4, <1>5, <1>6

\* The sum over a set is any term plus the sum of the others.
LEMMA SumLaws ==
    ASSUME PrimeField, NEW S, IsFiniteSet(S), NEW g, \A i \in S : g[i] \in F
    PROVE  /\ SumOf(S, g) \in F
           /\ S = {} => SumOf(S, g) = 0
           /\ \A a \in S : SumOf(S, g) = g[a] (+) SumOf(S \ {a}, g) /\ SumOf(S \ {a}, g) \in F
<1>1. Commutative(AddFn) /\ 0 \in F
  BY TheyCommute
<1>2. /\ SumOf(S, g) \in F /\ (S = {} => SumOf(S, g) = 0)
      /\ \A a \in S : SumOf(S, g) = AddFn[<<g[a], SumOf(S \ {a}, g)>>]
  BY <1>1, FoldLaws DEF SumOf
<1>3. ASSUME NEW a \in S PROVE SumOf(S \ {a}, g) \in F
  <2>1. IsFiniteSet(S \ {a}) /\ \A i \in S \ {a} : g[i] \in F
    BY FS_Subset
  <2> HIDE DEF SumOf
  <2> QED  BY <1>1, <2>1, FoldLaws DEF SumOf
<1> QED  BY <1>2, <1>3, TheyCommute

\* The product over a set is any factor times the product of the others.
LEMMA ProductLaws ==
    ASSUME PrimeField, NEW S, IsFiniteSet(S), NEW g, \A i \in S : g[i] \in F
    PROVE  /\ ProductOf(S, g) \in F
           /\ S = {} => ProductOf(S, g) = 1
           /\ \A a \in S : /\ ProductOf(S, g) = g[a] (.) ProductOf(S \ {a}, g)
                           /\ ProductOf(S \ {a}, g) \in F
<1>1. Commutative(MulFn) /\ 1 \in F
  BY TheyCommute
<1>2. /\ ProductOf(S, g) \in F /\ (S = {} => ProductOf(S, g) = 1)
      /\ \A a \in S : ProductOf(S, g) = MulFn[<<g[a], ProductOf(S \ {a}, g)>>]
  BY <1>1, FoldLaws DEF ProductOf
<1>3. ASSUME NEW a \in S PROVE ProductOf(S \ {a}, g) \in F
  <2>1. IsFiniteSet(S \ {a}) /\ \A i \in S \ {a} : g[i] \in F
    BY FS_Subset
  <2> QED  BY <1>1, <2>1, FoldLaws DEF ProductOf
<1> QED  BY <1>2, <1>3, TheyCommute

\* A sum only depends on its terms.
LEMMA SumCongruence ==
    ASSUME PrimeField, NEW S, IsFiniteSet(S), NEW g, \A i \in S : g[i] \in F,
           NEW k, \A i \in S : k[i] = g[i]
    PROVE  SumOf(S, k) = SumOf(S, g)
BY TheyCommute, FoldCongruence DEF SumOf

\* A product only depends on its factors.
LEMMA ProductCongruence ==
    ASSUME PrimeField, NEW S, IsFiniteSet(S), NEW g, \A i \in S : g[i] \in F,
           NEW k, \A i \in S : k[i] = g[i]
    PROVE  ProductOf(S, k) = ProductOf(S, g)
BY TheyCommute, FoldCongruence DEF ProductOf

------------------------------------------------------------------------------
\* The sums and products of the model are such folds.


\* What a recursive definition of a sum gives.
IsSum(f, S, g) ==
    f = [s \in SUBSET S |-> IF s = {} THEN 0
                            ELSE Add(Field, g[Some(s)], f[s \ {Some(s)}])]

\* SumOver of module Sharing is SumOf.
LEMMA SumIsFold ==
    ASSUME PrimeField, NEW S, IsFiniteSet(S), NEW g, \A i \in S : g[i] \in F
    PROVE  /\ \E f : IsSum(f, S, g)
           /\ \A f : IsSum(f, S, g) => f[S] = SumOf(S, g)
<1>1. /\ Commutative(AddFn) /\ 0 \in F
      /\ \A a, b \in F : AddFn[<<a, b>>] = Add(Field, a, b)
  BY TheyCommute DEF (+)
<1>2. \A s \in SUBSET S : s # {} => Some(s) \in S /\ s \ {Some(s)} \in SUBSET S
  BY SomeIsMember
<1>3. \E f : IsSum(f, S, g)
  <2>1. PICK h : IsFold(h, S, g, AddFn, 0)
    BY <1>1, FoldIs
  <2> DEFINE r == [s \in SUBSET S |-> IF s = {} THEN 0
                                      ELSE Add(Field, g[Some(s)], h[s \ {Some(s)}])]
  <2>2. \A s \in SUBSET S : h[s] = r[s]
    <3> TAKE s \in SUBSET S
    <3>1. h[s] = IF s = {} THEN 0 ELSE AddFn[<<g[Some(s)], h[s \ {Some(s)}]>>]
      BY <2>1 DEF IsFold
    <3>2. s # {} => g[Some(s)] \in F /\ h[s \ {Some(s)}] \in F
      BY <1>2, <2>1 DEF IsFold
    <3> QED  BY <3>1, <3>2, <1>1
  <2>3. h = [s \in SUBSET S |-> h[s]]
    BY <2>1 DEF IsFold
  <2>4. [s \in SUBSET S |-> h[s]] = r
    BY <2>2
  <2>5. IsSum(h, S, g)
    BY <2>3, <2>4 DEF IsSum
  <2> QED  BY <2>5
<1>4. ASSUME NEW f, IsSum(f, S, g) PROVE f[S] = SumOf(S, g)
  <2> DEFINE h == CHOOSE h : IsFold(h, S, g, AddFn, 0)
  <2>1. IsFold(h, S, g, AddFn, 0) /\ SumOf(S, g) = h[S]
    BY <1>1, FoldIs DEF SumOf, Fold
  <2> HIDE DEF h
  <2> DEFINE U == {m \in Nat : \A u \in SUBSET S : Cardinality(u) = m => f[u] = h[u]}
  <2>2. \A u \in SUBSET S : IsFiniteSet(u) /\ Cardinality(u) \in Nat
    BY FS_Subset, FS_CardinalityType
  <2>3. \A u \in SUBSET S :
           f[u] = IF u = {} THEN 0 ELSE Add(Field, g[Some(u)], f[u \ {Some(u)}])
    BY <1>4 DEF IsSum
  <2>4. \A u \in SUBSET S :
           h[u] = IF u = {} THEN 0 ELSE Add(Field, g[Some(u)], h[u \ {Some(u)}])
    <3> TAKE u \in SUBSET S
    <3>1. h[u] = IF u = {} THEN 0 ELSE AddFn[<<g[Some(u)], h[u \ {Some(u)}]>>]
      BY <2>1 DEF IsFold
    <3>2. u # {} => g[Some(u)] \in F /\ h[u \ {Some(u)}] \in F
      BY <1>2, <2>1 DEF IsFold
    <3> QED  BY <3>1, <3>2, <1>1
  <2>5. 0 \in U
    <3> SUFFICES ASSUME NEW u \in SUBSET S, Cardinality(u) = 0 PROVE f[u] = h[u]
      OBVIOUS
    <3>1. u = {}
      BY <2>2, FS_EmptySet
    <3> QED  BY <3>1, <2>3, <2>4
  <2>6. \A m \in Nat : m \in U => m + 1 \in U
    <3> SUFFICES ASSUME NEW m \in Nat, m \in U, NEW u \in SUBSET S, Cardinality(u) = m + 1
                 PROVE  f[u] = h[u]
      OBVIOUS
    <3>1. CASE u = {}
      BY <3>1, <2>3, <2>4
    <3>2. CASE u # {}
      <4>1. u \ {Some(u)} \in SUBSET S /\ Cardinality(u \ {Some(u)}) = Cardinality(u) - 1
        BY <3>2, SomeIsMember
      <4>2. Cardinality(u \ {Some(u)}) = m
        BY <4>1
      <4>3. f[u \ {Some(u)}] = h[u \ {Some(u)}]
        BY <4>1, <4>2
      <4> QED  BY <4>3, <3>2, <2>3, <2>4
    <3> QED  BY <3>1, <3>2
  <2> HIDE DEF U
  <2>7. Cardinality(S) \in U
    BY <2>2, <2>5, <2>6, Induct
  <2> QED  BY <2>1, <2>7 DEF U
<1> QED  BY <1>3, <1>4

\* What a recursive definition of a product gives.
IsProduct(f, S, g) ==
    f = [s \in SUBSET S |-> IF s = {} THEN 1
                            ELSE Mul(Field, g[Some(s)], f[s \ {Some(s)}])]

\* ProductOver of module Sharing is ProductOf.
LEMMA ProductIsFold ==
    ASSUME PrimeField, NEW S, IsFiniteSet(S), NEW g, \A i \in S : g[i] \in F
    PROVE  /\ \E f : IsProduct(f, S, g)
           /\ \A f : IsProduct(f, S, g) => f[S] = ProductOf(S, g)
<1>1. /\ Commutative(MulFn) /\ 1 \in F
      /\ \A a, b \in F : MulFn[<<a, b>>] = Mul(Field, a, b)
  BY TheyCommute DEF (.)
<1>2. \A s \in SUBSET S : s # {} => Some(s) \in S /\ s \ {Some(s)} \in SUBSET S
  BY SomeIsMember
<1>3. \E f : IsProduct(f, S, g)
  <2>1. PICK h : IsFold(h, S, g, MulFn, 1)
    BY <1>1, FoldIs
  <2> DEFINE r == [s \in SUBSET S |-> IF s = {} THEN 1
                                      ELSE Mul(Field, g[Some(s)], h[s \ {Some(s)}])]
  <2>2. \A s \in SUBSET S : h[s] = r[s]
    <3> TAKE s \in SUBSET S
    <3>1. h[s] = IF s = {} THEN 1 ELSE MulFn[<<g[Some(s)], h[s \ {Some(s)}]>>]
      BY <2>1 DEF IsFold
    <3>2. s # {} => g[Some(s)] \in F /\ h[s \ {Some(s)}] \in F
      BY <1>2, <2>1 DEF IsFold
    <3> QED  BY <3>1, <3>2, <1>1
  <2>3. h = [s \in SUBSET S |-> h[s]]
    BY <2>1 DEF IsFold
  <2>4. [s \in SUBSET S |-> h[s]] = r
    BY <2>2
  <2>5. IsProduct(h, S, g)
    BY <2>3, <2>4 DEF IsProduct
  <2> QED  BY <2>5
<1>4. ASSUME NEW f, IsProduct(f, S, g) PROVE f[S] = ProductOf(S, g)
  <2> DEFINE h == CHOOSE h : IsFold(h, S, g, MulFn, 1)
  <2>1. IsFold(h, S, g, MulFn, 1) /\ ProductOf(S, g) = h[S]
    BY <1>1, FoldIs DEF ProductOf, Fold
  <2> HIDE DEF h
  <2> DEFINE U == {m \in Nat : \A u \in SUBSET S : Cardinality(u) = m => f[u] = h[u]}
  <2>2. \A u \in SUBSET S : IsFiniteSet(u) /\ Cardinality(u) \in Nat
    BY FS_Subset, FS_CardinalityType
  <2>3. \A u \in SUBSET S :
           f[u] = IF u = {} THEN 1 ELSE Mul(Field, g[Some(u)], f[u \ {Some(u)}])
    BY <1>4 DEF IsProduct
  <2>4. \A u \in SUBSET S :
           h[u] = IF u = {} THEN 1 ELSE Mul(Field, g[Some(u)], h[u \ {Some(u)}])
    <3> TAKE u \in SUBSET S
    <3>1. h[u] = IF u = {} THEN 1 ELSE MulFn[<<g[Some(u)], h[u \ {Some(u)}]>>]
      BY <2>1 DEF IsFold
    <3>2. u # {} => g[Some(u)] \in F /\ h[u \ {Some(u)}] \in F
      BY <1>2, <2>1 DEF IsFold
    <3> QED  BY <3>1, <3>2, <1>1
  <2>5. 0 \in U
    <3> SUFFICES ASSUME NEW u \in SUBSET S, Cardinality(u) = 0 PROVE f[u] = h[u]
      OBVIOUS
    <3>1. u = {}
      BY <2>2, FS_EmptySet
    <3> QED  BY <3>1, <2>3, <2>4
  <2>6. \A m \in Nat : m \in U => m + 1 \in U
    <3> SUFFICES ASSUME NEW m \in Nat, m \in U, NEW u \in SUBSET S, Cardinality(u) = m + 1
                 PROVE  f[u] = h[u]
      OBVIOUS
    <3>1. CASE u = {}
      BY <3>1, <2>3, <2>4
    <3>2. CASE u # {}
      <4>1. u \ {Some(u)} \in SUBSET S /\ Cardinality(u \ {Some(u)}) = Cardinality(u) - 1
        BY <3>2, SomeIsMember
      <4>2. Cardinality(u \ {Some(u)}) = m
        BY <4>1
      <4>3. f[u \ {Some(u)}] = h[u \ {Some(u)}]
        BY <4>1, <4>2
      <4> QED  BY <4>3, <3>2, <2>3, <2>4
    <3> QED  BY <3>1, <3>2
  <2> HIDE DEF U
  <2>7. Cardinality(S) \in U
    BY <2>2, <2>5, <2>6, Induct
  <2> QED  BY <2>1, <2>7 DEF U
<1> QED  BY <1>3, <1>4

\* FieldSum, a fold over a sequence, is SumOf.
LEMMA FieldSumIs ==
    ASSUME PrimeField, NEW g, IsFiniteSet(DOMAIN g), \A i \in DOMAIN g : g[i] \in F
    PROVE  FieldSum(Field, g) = SumOf(DOMAIN g, g)
<1> DEFINE S == DOMAIN g
           f == CHOOSE f : IsSum(f, S, g)
<1>1. FieldSum(Field, g) = f[S]
  <2> DEFINE iter[s \in SUBSET DOMAIN g] ==
                 IF s = {} THEN 0
                 ELSE LET x == CHOOSE x \in s : TRUE
                      IN  Add(Field, g[x], iter[s \ {x}])
  <2>1. FieldSum(Field, g) = iter[S]
    BY DEF FieldSum, FoldFunction, FoldFunctionOnSet, MapThenFoldSet
  <2>2. iter = f
    BY DEF IsSum, Some
  <2> QED  BY <2>1, <2>2
<1>2. IsSum(f, S, g)
  BY SumIsFold
<1> HIDE DEF f
<1> QED  BY <1>1, <1>2, SumIsFold

\* The terms of the sum that recombines shares.
Terms(shares) ==
    [i \in DOMAIN shares |-> shares[i] (.) Vector[DOMAIN shares][i]]

\* RecombineCached is a sum of shares times the members of the vector.
LEMMA RecombineIs ==
    ASSUME PrimeField, NEW shares, IsFiniteSet(DOMAIN shares),
           \A i \in DOMAIN shares : Terms(shares)[i] \in F
    PROVE  RecombineCached(shares) = SumOf(DOMAIN shares, Terms(shares))
<1> DEFINE S == DOMAIN shares
           P(f) == f = [s \in SUBSET S |->
                           IF s = {} THEN 0
                           ELSE LET x == CHOOSE x \in s : TRUE
                                IN  Add(Field, Mul(Field, shares[x], Vector[S][x]),
                                        f[s \ {x}])]
           f == CHOOSE f : P(f)
<1>1. RecombineCached(shares) = f[S]
  <2> DEFINE iter[s \in SUBSET S] ==
                 IF s = {} THEN 0
                 ELSE LET x == CHOOSE x \in s : TRUE
                      IN  Add(Field, Mul(Field, shares[x], Vector[S][x]), iter[s \ {x}])
  <2>1. RecombineCached(shares) = iter[S]
    BY DEF RecombineCached, SumOver, MapThenFoldSet
  <2>2. iter = f
    OBVIOUS
  <2> QED  BY <2>1, <2>2
<1>2. \A h : P(h) <=> IsSum(h, S, Terms(shares))
  <2> TAKE h
  <2> DEFINE l == [s \in SUBSET S |->
                      IF s = {} THEN 0
                      ELSE Add(Field, Mul(Field, shares[Some(s)], Vector[S][Some(s)]),
                               h[s \ {Some(s)}])]
             r == [s \in SUBSET S |->
                      IF s = {} THEN 0
                      ELSE Add(Field, Terms(shares)[Some(s)], h[s \ {Some(s)}])]
  <2>1. \A s \in SUBSET S : s # {} => Some(s) \in S
    BY SomeIsMember
  <2>2. \A s \in SUBSET S : s # {} =>
           Terms(shares)[Some(s)] = Mul(Field, shares[Some(s)], Vector[S][Some(s)])
    BY <2>1 DEF Terms, (.)
  <2>3. l = r
    BY <2>2
  <2>4. P(h) <=> h = l
    BY DEF Some
  <2>5. IsSum(h, S, Terms(shares)) <=> h = r
    BY DEF IsSum
  <2> HIDE DEF l, r, P
  <2> QED  BY <2>3, <2>4, <2>5
<1> HIDE DEF P
<1>3. \E h : P(h)
  BY <1>2, SumIsFold
<1>4. P(f)
  BY <1>3
<1> HIDE DEF f
<1> QED  BY <1>1, <1>2, <1>4, SumIsFold

\* The factors of entry i of a recombination vector.
Factors(xs, i) == [k \in xs \ {i} |-> k (.) Inv(Field, k (-) i)]

\* The players are points other than 0 at which a polynomial may have shares.
LEMMA PlayersFinite ==
    IsFiniteSet(Players)
<1>1. n \in Nat
  BY PassiveAssumption
<1> QED  BY <1>1, FS_Interval DEF Players

\* The ids of the players are elements, and not 0.
LEMMA PointsInF ==
    ASSUME PrimeField, NEW i \in Players
    PROVE  i \in F /\ i # 0
<1>1. n \in Nat /\ n < Field
  BY PassiveAssumption
<1> QED  BY <1>1, Operations DEF Players

\* Different elements have a difference that can be inverted.
LEMMA DifferenceIsNot0 ==
    ASSUME PrimeField, NEW a \in F, NEW b \in F, a # b
    PROVE  a (-) b \in F /\ a (-) b # 0
<1>1. a (-) b \in F
  BY ClosedInF
<1>2. ASSUME a (-) b = 0 PROVE FALSE
  BY <1>2, SubCancels, Neutral
<1> QED  BY <1>1, <1>2

\* The factors of the vector's members are elements.
LEMMA FactorsInF ==
    ASSUME PrimeField, NEW xs \in SUBSET Players, NEW i \in Players
    PROVE  /\ IsFiniteSet(xs \ {i})
           /\ \A k \in xs \ {i} : Factors(xs, i)[k] \in F
<1>1. IsFiniteSet(xs \ {i})
  BY PlayersFinite, FS_Subset
<1>2. ASSUME NEW k \in xs \ {i} PROVE Factors(xs, i)[k] \in F
  BY PointsInF, DifferenceIsNot0, Inverses, ClosedInF DEF Factors
<1> QED  BY <1>1, <1>2

\* A member of the recombination vector is the product of its factors.
LEMMA VectorIs ==
    ASSUME PrimeField, NEW xs \in SUBSET Players, NEW i \in xs
    PROVE  Vector[xs][i] = ProductOf(xs \ {i}, Factors(xs, i)) /\ Vector[xs][i] \in F
<1> DEFINE S == xs \ {i}
           P(f) == f = [s \in SUBSET S |->
                           IF s = {} THEN 1
                           ELSE LET x == CHOOSE x \in s : TRUE
                                IN  Mul(Field, Div(Field, Sub(Field, x, 0), Sub(Field, x, i)),
                                        f[s \ {x}])]
           f == CHOOSE f : P(f)
<1>1. Vector[xs][i] = f[S]
  <2> DEFINE iter[s \in SUBSET S] ==
                 IF s = {} THEN 1
                 ELSE LET x == CHOOSE x \in s : TRUE
                      IN  Mul(Field, Div(Field, Sub(Field, x, 0), Sub(Field, x, i)),
                              iter[s \ {x}])
  <2>1. Vector[xs] = RecombinationVector(Field, xs, 0)
    BY DEF Vector
  <2>2. RecombinationVector(Field, xs, 0)[i]
            = ProductOver(Field, xs \ {i},
                  LAMBDA k : Div(Field, Sub(Field, k, 0), Sub(Field, k, i)))
    BY DEF RecombinationVector
  <2>3. ProductOver(Field, xs \ {i},
            LAMBDA k : Div(Field, Sub(Field, k, 0), Sub(Field, k, i))) = iter[S]
    BY DEF ProductOver, MapThenFoldSet
  <2>4. iter = f
    OBVIOUS
  <2> QED  BY <2>1, <2>2, <2>3, <2>4
<1>2. \A k \in S : Factors(xs, i)[k] = Div(Field, Sub(Field, k, 0), Sub(Field, k, i))
  <2> TAKE k \in S
  <2>1. k (-) 0 = k
    BY PointsInF, Neutral
  <2> QED  BY <2>1 DEF Factors, Div, (.), (-)
<1>3. \A h : P(h) <=> IsProduct(h, S, Factors(xs, i))
  <2> TAKE h
  <2> DEFINE l == [s \in SUBSET S |->
                      IF s = {} THEN 1
                      ELSE Mul(Field, Div(Field, Sub(Field, Some(s), 0), Sub(Field, Some(s), i)),
                               h[s \ {Some(s)}])]
             r == [s \in SUBSET S |->
                      IF s = {} THEN 1
                      ELSE Mul(Field, Factors(xs, i)[Some(s)], h[s \ {Some(s)}])]
  <2>1. \A s \in SUBSET S : s # {} => Some(s) \in S
    BY SomeIsMember, FactorsInF
  <2>2. l = r
    BY <2>1, <1>2
  <2>3. P(h) <=> h = l
    BY DEF Some
  <2>4. IsProduct(h, S, Factors(xs, i)) <=> h = r
    BY DEF IsProduct
  <2> HIDE DEF l, r, P
  <2> QED  BY <2>2, <2>3, <2>4
<1> HIDE DEF P
<1>4. \E h : P(h)
  BY <1>3, ProductIsFold, FactorsInF
<1>5. P(f)
  BY <1>4
<1> HIDE DEF f
<1>6. f[S] = ProductOf(S, Factors(xs, i))
  BY <1>3, <1>5, ProductIsFold, FactorsInF
<1>7. ProductOf(S, Factors(xs, i)) \in F
  BY FactorsInF, ProductLaws
<1> QED  BY <1>1, <1>6, <1>7
------------------------------------------------------------------------------
\* More laws.

\* The middle two of four summands can be swapped.
LEMMA AddShuffle ==
    ASSUME PrimeField, NEW a \in F, NEW b \in F, NEW c \in F, NEW d \in F
    PROVE  (a (+) b) (+) (c (+) d) = (a (+) c) (+) (b (+) d)
<1>1. /\ b (+) (c (+) d) = (b (+) c) (+) d /\ b (+) c = c (+) b
      /\ (c (+) b) (+) d = c (+) (b (+) d)
  BY AddAssociates, AddCommutes
<1>2. c (+) d \in F /\ b (+) d \in F
  BY ClosedInF
<1>3. (a (+) b) (+) (c (+) d) = a (+) (b (+) (c (+) d))
  BY <1>2, AddAssociates
<1>4. (a (+) c) (+) (b (+) d) = a (+) (c (+) (b (+) d))
  BY <1>2, AddAssociates
<1> QED  BY <1>1, <1>3, <1>4

\* The middle two of four factors can be swapped.
LEMMA MulShuffle ==
    ASSUME PrimeField, NEW a \in F, NEW b \in F, NEW c \in F, NEW d \in F
    PROVE  (a (.) b) (.) (c (.) d) = (a (.) c) (.) (b (.) d)
<1>1. /\ b (.) (c (.) d) = (b (.) c) (.) d /\ b (.) c = c (.) b
      /\ (c (.) b) (.) d = c (.) (b (.) d)
  BY MulAssociates, AddCommutes
<1>2. c (.) d \in F /\ b (.) d \in F
  BY ClosedInF
<1>3. (a (.) b) (.) (c (.) d) = a (.) (b (.) (c (.) d))
  BY <1>2, MulAssociates
<1>4. (a (.) c) (.) (b (.) d) = a (.) (c (.) (b (.) d))
  BY <1>2, MulAssociates
<1> QED  BY <1>1, <1>3, <1>4

Minus1 == 0 (-) 1

\* Signs: differences as multiples of - 1.
LEMMA Minus ==
    ASSUME PrimeField, NEW a \in F, NEW b \in F
    PROVE  /\ Minus1 \in F /\ 0 (-) a \in F
           /\ 0 (-) a = Minus1 (.) a
           /\ a (-) b = Minus1 (.) (b (-) a)
           /\ (0 (-) b) (+) (b (-) a) = 0 (-) a
           /\ a (+) (0 (-) b) = a (-) b
<1>1. /\ a \in Int /\ b \in Int /\ a % Field = a /\ Field \in Nat /\ Field > 1
      /\ 0 \in F /\ 1 \in F
  BY InF, Neutral
<1>2. Minus1 \in F /\ 0 (-) a \in F /\ b (-) a \in F /\ a (-) b \in F
  BY <1>1, ClosedInF DEF Minus1
<1> DEFINE m == -1
           d == b - a
           na == 0 - a
           nb == 0 - b
           e == a - b
<1>3. m \in Int /\ d \in Int /\ na \in Int /\ nb \in Int /\ e \in Int
  BY <1>1
<1>4. m * a = na /\ m * d = e /\ nb + d = na /\ a + nb = e
  BY <1>1
<1>5. /\ Minus1 = m % Field /\ 0 (-) a = na % Field /\ 0 (-) b = nb % Field
      /\ b (-) a = d % Field /\ a (-) b = e % Field
  <2>1. 0 - 1 = m
    OBVIOUS
  <2> QED  BY <2>1, Operations DEF Minus1
<1> HIDE DEF m, d, na, nb, e
<1>6. Minus1 (.) a = na % Field
  <2>1. Minus1 (.) a = ((m % Field) * a) % Field
    BY <1>5, Operations
  <2>2. ((m % Field) * a) % Field = (m * a) % Field
    BY <1>1, <1>3, RestsSuffice
  <2> QED  BY <2>1, <2>2, <1>4
<1>7. Minus1 (.) (b (-) a) = e % Field
  <2>1. Minus1 (.) (b (-) a) = ((m % Field) * (d % Field)) % Field
    BY <1>5, Operations
  <2>2. d % Field \in Int
    BY <1>1, <1>3, Divided
  <2>3. ((m % Field) * (d % Field)) % Field = (m * (d % Field)) % Field
    BY <1>1, <1>3, <2>2, RestsSuffice
  <2>4. (m * (d % Field)) % Field = (m * d) % Field
    BY <1>1, <1>3, RestsSuffice
  <2> QED  BY <2>1, <2>3, <2>4, <1>4
<1>8. (0 (-) b) (+) (b (-) a) = na % Field
  <2>1. (0 (-) b) (+) (b (-) a) = ((nb % Field) + (d % Field)) % Field
    BY <1>5, Operations
  <2>2. d % Field \in Int
    BY <1>1, <1>3, Divided
  <2>3. ((nb % Field) + (d % Field)) % Field = (nb + (d % Field)) % Field
    BY <1>1, <1>3, <2>2, RestsSuffice
  <2>4. (nb + (d % Field)) % Field = (nb + d) % Field
    BY <1>1, <1>3, RestsSuffice
  <2> QED  BY <2>1, <2>3, <2>4, <1>4
<1>9. a (+) (0 (-) b) = e % Field
  <2>1. a (+) (0 (-) b) = (a + (nb % Field)) % Field
    BY <1>5, Operations
  <2>2. (a + (nb % Field)) % Field = (a + nb) % Field
    BY <1>1, <1>3, RestsSuffice
  <2> QED  BY <2>1, <2>2, <1>4
<1> QED  BY <1>2, <1>5, <1>6, <1>7, <1>8, <1>9

\* From the inverse: a factor that is not 0 cancels, and so does a summand.
LEMMA MulCancels ==
    ASSUME PrimeField, NEW a \in F, NEW b \in F, NEW c \in F, c # 0, c (.) a = c (.) b
    PROVE  a = b
<1> DEFINE i == Inv(Field, c)
<1>1. i \in F /\ c (.) i = 1
  BY Inverses
<1> HIDE DEF i
<1>2. i (.) c = 1
  BY <1>1, AddCommutes
<1>3. (i (.) c) (.) a = i (.) (c (.) a) /\ (i (.) c) (.) b = i (.) (c (.) b)
  BY <1>1, MulAssociates
<1> QED  BY <1>2, <1>3, Neutral

\* Equal sums with one summand in common have the other in common.
LEMMA AddCancels ==
    ASSUME PrimeField, NEW a \in F, NEW b \in F, NEW c \in F, c (+) a = c (+) b
    PROVE  a = b
<1>1. c (+) a = a (+) c /\ c (+) b = b (+) c
  BY AddCommutes
<1>2. (a (+) c) (-) c = a /\ (b (+) c) (-) c = b
  BY SubCancels
<1>3. (a (+) c) (-) c = (b (+) c) (-) c
  BY <1>1
<1> QED  BY <1>2, <1>3

\* Sums of sums and of multiples.
LEMMA SumAdds ==
    ASSUME PrimeField, NEW S, IsFiniteSet(S), NEW g, NEW h, NEW k,
           \A i \in S : g[i] \in F /\ h[i] \in F /\ k[i] = g[i] (+) h[i]
    PROVE  SumOf(S, k) = SumOf(S, g) (+) SumOf(S, h)
<1> DEFINE T == {s \in SUBSET S : SumOf(s, k) = SumOf(s, g) (+) SumOf(s, h)}
<1>1. \A s \in SUBSET S : /\ IsFiniteSet(s)
                          /\ \A i \in s : g[i] \in F /\ h[i] \in F /\ k[i] \in F
  BY FS_Subset, ClosedInF
<1>2. {} \in T
  <2>1. SumOf({}, k) = 0 /\ SumOf({}, g) = 0 /\ SumOf({}, h) = 0
    BY <1>1, SumLaws
  <2>2. 0 (+) 0 = 0
    BY Neutral, TheyCommute
  <2> QED  BY <2>1, <2>2
<1>3. ASSUME NEW s \in SUBSET S, NEW x \in S \ s, s \in T PROVE s \cup {x} \in T
  <2> DEFINE u == s \cup {x}
  <2>1. u \in SUBSET S /\ x \in u /\ u \ {x} = s
    OBVIOUS
  <2> HIDE DEF u
  <2>2. /\ SumOf(u, k) = k[x] (+) SumOf(s, k)
        /\ SumOf(u, g) = g[x] (+) SumOf(s, g) /\ SumOf(s, g) \in F
        /\ SumOf(u, h) = h[x] (+) SumOf(s, h) /\ SumOf(s, h) \in F
    BY <1>1, <2>1, SumLaws
  <2>3. SumOf(s, k) = SumOf(s, g) (+) SumOf(s, h)
    BY <1>3
  <2>4. (g[x] (+) h[x]) (+) (SumOf(s, g) (+) SumOf(s, h))
            = (g[x] (+) SumOf(s, g)) (+) (h[x] (+) SumOf(s, h))
    BY <2>2, <1>1, AddShuffle
  <2>5. SumOf(u, k) = SumOf(u, g) (+) SumOf(u, h)
    BY <2>2, <2>3, <2>4
  <2> QED  BY <2>1, <2>5 DEF u
<1> HIDE DEF T
<1>4. S \in T
  BY <1>2, <1>3, SetInduct
<1> QED  BY <1>4 DEF T

\* The sum of multiples is the multiple of the sum.
LEMMA SumScales ==
    ASSUME PrimeField, NEW S, IsFiniteSet(S), NEW g, NEW c \in F, NEW k,
           \A i \in S : g[i] \in F /\ k[i] = c (.) g[i]
    PROVE  SumOf(S, k) = c (.) SumOf(S, g)
<1> DEFINE T == {s \in SUBSET S : SumOf(s, k) = c (.) SumOf(s, g)}
<1>1. \A s \in SUBSET S : /\ IsFiniteSet(s)
                          /\ \A i \in s : g[i] \in F /\ k[i] \in F
  BY FS_Subset, ClosedInF
<1>2. {} \in T
  <2>1. SumOf({}, k) = 0 /\ SumOf({}, g) = 0
    BY <1>1, SumLaws
  <2>2. c (.) 0 = 0
    BY Neutral
  <2> QED  BY <2>1, <2>2
<1>3. ASSUME NEW s \in SUBSET S, NEW x \in S \ s, s \in T PROVE s \cup {x} \in T
  <2> DEFINE u == s \cup {x}
  <2>1. u \in SUBSET S /\ x \in u /\ u \ {x} = s
    OBVIOUS
  <2> HIDE DEF u
  <2>2. /\ SumOf(u, k) = k[x] (+) SumOf(s, k)
        /\ SumOf(u, g) = g[x] (+) SumOf(s, g) /\ SumOf(s, g) \in F
    BY <1>1, <2>1, SumLaws
  <2>3. SumOf(s, k) = c (.) SumOf(s, g)
    BY <1>3
  <2>4. c (.) (g[x] (+) SumOf(s, g)) = (c (.) g[x]) (+) (c (.) SumOf(s, g))
    BY <2>2, <1>1, Distributes
  <2>5. SumOf(u, k) = c (.) SumOf(u, g)
    BY <2>2, <2>3, <2>4
  <2> QED  BY <2>1, <2>5 DEF u
<1> HIDE DEF T
<1>4. S \in T
  BY <1>2, <1>3, SetInduct
<1> QED  BY <1>4 DEF T

------------------------------------------------------------------------------
\* Recombination at 0 with the vector of the players that are there.

Recombined(S, g) == SumOf(S, [i \in S |-> g[i] (.) Vector[S][i]])

\* What is recombined of elements is an element.
LEMMA RecombinedInF ==
    ASSUME PrimeField, NEW S \in SUBSET Players, NEW g, \A i \in S : g[i] \in F
    PROVE  /\ IsFiniteSet(S)
           /\ \A i \in S : Vector[S][i] \in F /\ g[i] (.) Vector[S][i] \in F
           /\ Recombined(S, g) \in F
<1>1. IsFiniteSet(S)
  BY PlayersFinite, FS_Subset
<1>2. \A i \in S : Vector[S][i] \in F
  BY VectorIs
<1>3. \A i \in S : g[i] (.) Vector[S][i] \in F
  BY <1>2, ClosedInF
<1> DEFINE k == [i \in S |-> g[i] (.) Vector[S][i]]
<1>4. \A i \in S : k[i] \in F
  BY <1>3
<1> HIDE DEF k
<1>5. SumOf(S, k) \in F
  BY <1>1, <1>4, SumLaws
<1> QED  BY <1>1, <1>2, <1>3, <1>5 DEF Recombined, k

\* RecombineCached of the shares g of the players S is Recombined.
LEMMA RecombineCachedIs ==
    ASSUME PrimeField, NEW S \in SUBSET Players, NEW g, \A i \in S : g[i] \in F
    PROVE  RecombineCached([i \in S |-> g[i]]) = Recombined(S, g)
<1> DEFINE shares == [i \in S |-> g[i]]
<1>1. DOMAIN shares = S /\ Terms(shares) = [i \in S |-> g[i] (.) Vector[S][i]]
  BY DEF Terms
<1>2. IsFiniteSet(S) /\ \A i \in S : Terms(shares)[i] \in F
  BY <1>1, RecombinedInF
<1> HIDE DEF shares
<1>3. RecombineCached(shares) = SumOf(S, Terms(shares))
  BY <1>1, <1>2, RecombineIs
<1> QED  BY <1>1, <1>3 DEF Recombined, shares

\* Recombination is linear: the sum of two sharings.
LEMMA RecombinedAdds ==
    ASSUME PrimeField, NEW S \in SUBSET Players, NEW g, NEW h, NEW k,
           \A i \in S : g[i] \in F /\ h[i] \in F /\ k[i] = g[i] (+) h[i]
    PROVE  Recombined(S, k) = Recombined(S, g) (+) Recombined(S, h)
<1> DEFINE kv == [i \in S |-> k[i] (.) Vector[S][i]]
           gv == [i \in S |-> g[i] (.) Vector[S][i]]
           hv == [i \in S |-> h[i] (.) Vector[S][i]]
<1>1. IsFiniteSet(S) /\ \A i \in S : Vector[S][i] \in F
  BY RecombinedInF
<1>2. \A i \in S : gv[i] \in F /\ hv[i] \in F
  BY <1>1, ClosedInF
<1>3. \A i \in S : kv[i] = gv[i] (+) hv[i]
  <2> TAKE i \in S
  <2> DEFINE v == Vector[S][i]
  <2>1. v \in F
    BY <1>1
  <2>2. kv[i] = (g[i] (+) h[i]) (.) v /\ gv[i] = g[i] (.) v /\ hv[i] = h[i] (.) v
    OBVIOUS
  <2>3. g[i] (+) h[i] \in F
    BY ClosedInF
  <2> HIDE DEF v, kv, gv, hv
  <2>4. /\ (g[i] (+) h[i]) (.) v = v (.) (g[i] (+) h[i])
        /\ v (.) g[i] = g[i] (.) v /\ v (.) h[i] = h[i] (.) v
    BY <2>1, <2>3, AddCommutes
  <2>5. v (.) (g[i] (+) h[i]) = (v (.) g[i]) (+) (v (.) h[i])
    BY <2>1, Distributes
  <2> QED  BY <2>2, <2>4, <2>5
<1> HIDE DEF kv, gv, hv
<1>4. SumOf(S, kv) = SumOf(S, gv) (+) SumOf(S, hv)
  BY <1>1, <1>2, <1>3, ClosedInF, SumAdds
<1> QED  BY <1>4 DEF Recombined, kv, gv, hv

\* Recombination is linear: a multiple of a sharing.
LEMMA RecombinedScales ==
    ASSUME PrimeField, NEW S \in SUBSET Players, NEW g, NEW c \in F, NEW k,
           \A i \in S : g[i] \in F /\ k[i] = c (.) g[i]
    PROVE  Recombined(S, k) = c (.) Recombined(S, g)
<1> DEFINE kv == [i \in S |-> k[i] (.) Vector[S][i]]
           gv == [i \in S |-> g[i] (.) Vector[S][i]]
<1>1. IsFiniteSet(S) /\ \A i \in S : Vector[S][i] \in F
  BY RecombinedInF
<1>2. \A i \in S : gv[i] \in F
  BY <1>1, ClosedInF
<1>3. \A i \in S : kv[i] = c (.) gv[i]
  BY <1>1, MulAssociates
<1> HIDE DEF kv, gv
<1>4. SumOf(S, kv) = c (.) SumOf(S, gv)
  BY <1>1, <1>2, <1>3, SumScales
<1> QED  BY <1>4 DEF Recombined, kv, gv

\* One player less: an entry of its vector has one factor less.
LEMMA VectorShrinks ==
    ASSUME PrimeField, NEW S \in SUBSET Players, NEW a \in S, NEW i \in S \ {a}
    PROVE  /\ Vector[S][i] = (a (.) Inv(Field, a (-) i)) (.) Vector[S \ {a}][i]
           /\ a (.) Inv(Field, a (-) i) \in F
           /\ Vector[S \ {a}][i] \in F
<1> DEFINE R == S \ {a}
<1>1. Vector[S][i] = ProductOf(S \ {i}, Factors(S, i))
  BY VectorIs
<1>2. Vector[R][i] = ProductOf(R \ {i}, Factors(R, i)) /\ Vector[R][i] \in F
  BY VectorIs
<1>3. IsFiniteSet(S \ {i}) /\ \A k \in S \ {i} : Factors(S, i)[k] \in F
  BY FactorsInF
<1>4. a \in S \ {i} /\ (S \ {i}) \ {a} = R \ {i}
  OBVIOUS
<1>5. /\ ProductOf(S \ {i}, Factors(S, i))
             = Factors(S, i)[a] (.) ProductOf(R \ {i}, Factors(S, i))
  BY <1>3, <1>4, ProductLaws
<1>6. ProductOf(R \ {i}, Factors(S, i)) = ProductOf(R \ {i}, Factors(R, i))
  <2>1. IsFiniteSet(R \ {i}) /\ \A k \in R \ {i} : Factors(R, i)[k] \in F
    BY FactorsInF
  <2>2. \A k \in R \ {i} : Factors(S, i)[k] = Factors(R, i)[k]
    BY DEF Factors
  <2> HIDE DEF R
  <2> QED  BY <2>1, <2>2, ProductCongruence
<1>7. Factors(S, i)[a] = a (.) Inv(Field, a (-) i)
  BY <1>4 DEF Factors
<1> QED  BY <1>1, <1>2, <1>3, <1>4, <1>5, <1>6, <1>7

\* A polynomial that is 0 at a needs no share of a.
LEMMA RecombinedShrinks ==
    ASSUME PrimeField, NEW S \in SUBSET Players, NEW a \in S, NEW g, NEW k,
           \A i \in S : g[i] \in F /\ k[i] = (i (-) a) (.) g[i]
    PROVE  Recombined(S, k) = (0 (-) a) (.) Recombined(S \ {a}, g)
<1> DEFINE R == S \ {a}
           kv == [i \in S |-> k[i] (.) Vector[S][i]]
           gv == [i \in R |-> g[i] (.) Vector[R][i]]
           z == 0 (-) a
<1>0. R \in SUBSET Players /\ \A i \in R : i \in S /\ g[i] \in F
  OBVIOUS
<1>1. \A i \in S : i \in F
  BY PointsInF
<1>2. a \in F /\ z \in F
  BY <1>1, Minus
<1>3. \A i \in S : k[i] \in F
  BY <1>1, ClosedInF
<1>4. IsFiniteSet(S) /\ \A i \in S : Vector[S][i] \in F /\ kv[i] \in F
  BY <1>3, RecombinedInF
<1>5. IsFiniteSet(R) /\ \A i \in R : Vector[R][i] \in F /\ gv[i] \in F
  BY <1>0, RecombinedInF
<1>6. kv[a] = 0
  BY <1>2, Neutral, <1>4
<1>7. \A i \in R : kv[i] = z (.) gv[i]
  <2> TAKE i \in R
  <2> DEFINE d == a (-) i
             e == i (-) a
             x == Inv(Field, d)
             v == Vector[R][i]
             y == g[i]
  <2>1. i \in F /\ i # a /\ i \in S
    BY <1>1
  <2>2. d \in F /\ d # 0 /\ e = Minus1 (.) d /\ Minus1 \in F /\ z = Minus1 (.) a
    BY <1>2, <2>1, DifferenceIsNot0, Minus
  <2>3. x \in F /\ d (.) x = 1
    BY <2>2, Inverses
  <2>4. Vector[S][i] = (a (.) x) (.) v /\ v \in F /\ y \in F
    BY <2>1, VectorShrinks
  <2>5. kv[i] = (e (.) y) (.) ((a (.) x) (.) v) /\ gv[i] = y (.) v
    BY <2>1, <2>4
  <2> HIDE DEF d, e, x, v, y, kv, gv
  <2>6. e \in F /\ a (.) x \in F /\ y (.) v \in F
    BY <1>2, <2>2, <2>3, <2>4, ClosedInF
  <2>7. (e (.) y) (.) ((a (.) x) (.) v) = (e (.) (a (.) x)) (.) (y (.) v)
    BY <2>4, <2>6, MulShuffle
  <2>8. (Minus1 (.) d) (.) (a (.) x) = (Minus1 (.) a) (.) (d (.) x)
    BY <1>2, <2>2, <2>3, MulShuffle
  <2>9. e (.) (a (.) x) = z
    BY <2>2, <2>3, <2>8, <1>2, Neutral
  <2> QED  BY <2>5, <2>7, <2>9
<1>8. SumOf(S, kv) = kv[a] (+) SumOf(R, kv) /\ SumOf(R, kv) \in F
  <2> HIDE DEF kv
  <2> QED  BY <1>4, SumLaws
<1>9. SumOf(R, kv) = z (.) SumOf(R, gv)
  <2> HIDE DEF kv, gv, z, R
  <2> QED  BY <1>2, <1>5, <1>7, SumScales
<1>10. SumOf(S, kv) = z (.) SumOf(R, gv)
  BY <1>6, <1>8, <1>9, Neutral
<1> HIDE DEF kv, gv, R
<1> QED  BY <1>10 DEF Recombined, kv, gv, R


\* The shares of the constant 1 are recombined to 1.
LEMMA OneRecombined ==
    ASSUME PrimeField, NEW R \in SUBSET Players, R # {}
    PROVE  Recombined(R, [i \in R |-> 1]) = 1
<1> DEFINE Holds(s) == s # {} => Recombined(s, [i \in s |-> 1]) = 1
           U == {m \in Nat : \A s \in SUBSET Players : Cardinality(s) = m => Holds(s)}
<1>1. \A s \in SUBSET Players : IsFiniteSet(s) /\ Cardinality(s) \in Nat
  BY PlayersFinite, FS_Subset, FS_CardinalityType
<1>2. 1 \in F /\ 0 \in F
  BY Operations
<1>3. ASSUME NEW a \in Players
      PROVE  Holds({a})
  <2> DEFINE S == {a}
             g == [i \in S |-> [j \in S |-> 1][i] (.) Vector[S][i]]
  <2>1. Vector[S][a] = ProductOf(S \ {a}, Factors(S, a)) /\ Vector[S][a] \in F
    BY VectorIs
  <2>2. S \ {a} = {} /\ IsFiniteSet(S \ {a}) /\ \A k \in S \ {a} : Factors(S, a)[k] \in F
    BY FactorsInF
  <2>3. Vector[S][a] = 1
    BY <2>1, <2>2, ProductLaws
  <2>4. g[a] = 1
    BY <2>3, <1>2, Neutral
  <2>5. IsFiniteSet(S) /\ a \in S /\ \A i \in S : g[i] \in F
    BY <1>1, <1>2, <2>4
  <2> HIDE DEF g
  <2>6. SumOf(S, g) = g[a] (+) SumOf(S \ {a}, g)
    BY <2>5, SumLaws
  <2>7. SumOf(S \ {a}, g) = 0
    BY <2>2, SumLaws
  <2>8. SumOf(S, g) = 1
    BY <2>4, <2>6, <2>7, <1>2, Neutral
  <2> QED  BY <2>8 DEF Recombined, g
<1>4. ASSUME NEW m \in Nat, m \in U,
             NEW S \in SUBSET Players, Cardinality(S) = m + 1
      PROVE  Holds(S)
  <2> SUFFICES ASSUME NEW a \in S, NEW b \in S, a # b
               PROVE  Recombined(S, [i \in S |-> 1]) = 1
    <3>1. ASSUME S # {}, \A a, b \in S : a = b
          PROVE  Holds(S)
      <4>1. PICK a \in S : TRUE
        BY <3>1
      <4>2. S = {a} /\ a \in Players
        BY <3>1, <4>1
      <4> HIDE DEF Holds
      <4> QED  BY <4>2, <1>3
    <3> QED  BY <3>1
  <2> DEFINE A == S \ {a}
             B == S \ {b}
             one == [i \in S |-> 1]
             ga == [i \in S |-> i (-) a]
             gb == [i \in S |-> i (-) b]
             c == b (-) a
             gc == [i \in S |-> c]
  <2>1. a \in F /\ b \in F /\ \A i \in S : i \in F
    BY PointsInF
  <2>2. c \in F /\ c # 0
    BY <2>1, DifferenceIsNot0
  <2>3. \A i \in S : /\ one[i] = 1 /\ one[i] \in F
                     /\ ga[i] = i (-) a /\ ga[i] \in F /\ gb[i] = i (-) b /\ gb[i] \in F
                     /\ gc[i] = c /\ gc[i] \in F
    BY <2>1, <2>2, <1>2, ClosedInF
  <2>4. Recombined(A, one) = 1 /\ Recombined(B, one) = 1
    <3>1. /\ A \in SUBSET Players /\ B \in SUBSET Players /\ b \in A /\ a \in B
          /\ IsFiniteSet(S)
      BY <1>1
    <3>2. Cardinality(A) = m /\ Cardinality(B) = m
      <4>1. Cardinality(A) = Cardinality(S) - 1 /\ Cardinality(B) = Cardinality(S) - 1
        BY <3>1, FS_RemoveElement
      <4> HIDE DEF A, B, U
      <4> QED  BY <4>1, <1>4
    <3>3. Holds(A) /\ Holds(B)
      BY <1>4, <3>1, <3>2
    <3>4. Recombined(A, [i \in A |-> 1]) = 1 /\ Recombined(B, [i \in B |-> 1]) = 1
      BY <3>1, <3>3
    <3>5. ASSUME NEW Q \in SUBSET S PROVE Recombined(Q, one) = Recombined(Q, [i \in Q |-> 1])
      BY DEF Recombined
    <3> QED  BY <3>1, <3>4, <3>5
  <2>5. Recombined(S, ga) = 0 (-) a /\ Recombined(S, gb) = 0 (-) b
    <3> DEFINE za == 0 (-) a
               zb == 0 (-) b
    <3>1. za \in F /\ zb \in F
      BY <2>1, Minus
    <3>2. \A i \in S : ga[i] = (i (-) a) (.) one[i] /\ gb[i] = (i (-) b) (.) one[i]
      <4> TAKE i \in S
      <4>1. i (-) a \in F /\ i (-) b \in F /\ one[i] = 1
        BY <2>3
      <4>2. (i (-) a) (.) 1 = i (-) a /\ (i (-) b) (.) 1 = i (-) b
        BY <4>1, Neutral
      <4> QED  BY <4>1, <4>2, <2>3
    <3> HIDE DEF ga, gb, one, A, B, za, zb
    <3>3. Recombined(S, ga) = (0 (-) a) (.) Recombined(S \ {a}, one)
      BY <2>3, <3>2, RecombinedShrinks
    <3>4. Recombined(S, gb) = (0 (-) b) (.) Recombined(S \ {b}, one)
      BY <2>3, <3>2, RecombinedShrinks
    <3>5. Recombined(S, ga) = za (.) 1 /\ Recombined(S, gb) = zb (.) 1
      BY <3>3, <3>4, <2>4 DEF A, B, za, zb
    <3> QED  BY <3>1, <3>5, Neutral DEF za, zb
  <2>6. Recombined(S, ga) = Recombined(S, gb) (+) Recombined(S, gc)
    <3>1. \A i \in S : ga[i] = gb[i] (+) gc[i]
      <4> TAKE i \in S
      <4>1. /\ Minus1 \in F /\ 0 (-) a \in F /\ 0 (-) b \in F /\ i \in F
            /\ i (+) (0 (-) a) = i (-) a
            /\ i (+) (0 (-) b) = i (-) b
            /\ (0 (-) b) (+) (b (-) a) = 0 (-) a
        BY <2>1, Minus
      <4>2. (i (+) (0 (-) b)) (+) c = i (+) ((0 (-) b) (+) c)
        BY <4>1, <2>2, AddAssociates
      <4> QED  BY <4>1, <4>2, <2>3
    <3> HIDE DEF ga, gb, gc
    <3> QED  BY <2>3, <3>1, RecombinedAdds
  <2>7. Recombined(S, gc) = c (.) Recombined(S, one)
    <3>1. \A i \in S : gc[i] = c (.) one[i]
      BY <2>3, <2>2, Neutral
    <3> HIDE DEF gc, one, c
    <3> QED  BY <2>2, <2>3, <3>1, RecombinedScales
  <2>8. c (.) Recombined(S, one) = c (.) 1
    <3> DEFINE zb == 0 (-) b
               r == Recombined(S, gc)
    <3>1. zb \in F /\ (0 (-) b) (+) (b (-) a) = 0 (-) a
      BY <2>1, Minus
    <3>2. zb (+) r = zb (+) c
      BY <2>5, <2>6, <3>1
    <3>3. r \in F
      <4> HIDE DEF gc
      <4> QED  BY <2>3, RecombinedInF
    <3> HIDE DEF zb, r, c
    <3>4. r = c
      BY <3>1, <3>2, <3>3, <2>2, AddCancels
    <3>5. c (.) 1 = c
      BY <2>2, Neutral
    <3> QED  BY <3>4, <3>5, <2>7 DEF r
  <2>9. Recombined(S, one) \in F
    <3> HIDE DEF one
    <3> QED  BY <2>3, RecombinedInF
  <2> HIDE DEF c, one
  <2>10. Recombined(S, one) = 1
    BY <2>2, <2>8, <2>9, <1>2, MulCancels
  <2> QED  BY <2>10 DEF one
<1>5. 0 \in U
  <2> SUFFICES ASSUME NEW s \in SUBSET Players, Cardinality(s) = 0 PROVE Holds(s)
    OBVIOUS
  <2>1. s = {}
    BY <1>1, FS_EmptySet
  <2> QED  BY <2>1
<1>6. \A m \in Nat : m \in U => m + 1 \in U
  <2> HIDE DEF Holds
  <2> QED  BY <1>4
<1>7. Cardinality(R) \in U
  <2> HIDE DEF U
  <2> QED  BY <1>1, <1>5, <1>6, Induct
<1> QED  BY <1>7

------------------------------------------------------------------------------
\* Polynomials, as the values that they have at 0 and at the players.

Point == F \X [Players -> F]

Flat(c) == [p \in Players |-> c]
Constant(c) == <<c, Flat(c)>>
Constants == {Constant(c) : c \in F}

Raised(c, Q) == [p \in Players |-> c (+) (p (.) Q[p])]
Horner(c, Q) == <<c, Raised(c, Q)>>
OneMore(X) == {Horner(y[1], y[2][2]) : y \in F \X X}

\* f[d] is the polynomials of degree at most d.
AreByDegree(f) ==
    /\ f[0] = Constants
    /\ \A m \in Nat : f[m] \in SUBSET Point /\ f[m + 1] = OneMore(f[m])

ByDegree == CHOOSE f : AreByDegree(f)

On(d, v, P) == <<v, P>> \in ByDegree[d]

\* Horner's step gives an element and a sharing.
LEMMA HornerIsPoint ==
    ASSUME PrimeField, NEW c \in F, NEW Q \in [Players -> F]
    PROVE  /\ Horner(c, Q) \in Point /\ Constant(c) \in Point
           /\ \A p \in Players : Q[p] \in F /\ p (.) Q[p] \in F /\ c (+) (p (.) Q[p]) \in F
<1>1. ASSUME NEW p \in Players
      PROVE  Q[p] \in F /\ p (.) Q[p] \in F /\ c (+) (p (.) Q[p]) \in F
  BY PointsInF, ClosedInF
<1> QED  BY <1>1 DEF Horner, Raised, Flat, Constant, Point

\* The polynomials of each degree exist, as the recursion says.
LEMMA DegreesExist ==
    ASSUME PrimeField
    PROVE  AreByDegree(ByDegree)
<1> DEFINE V == SUBSET Point
           size == [m \in Nat |-> m]
           pred == [m \in Nat |-> IF m = 0 THEN 0 ELSE m - 1]
           base == [m \in Nat |-> Constants]
           step == [x \in Nat \X V |-> OneMore(x[2])]
<1>1. Descends(Nat, size, pred)
  BY DEF Descends
<1>2. base \in [Nat -> V]
  BY DEF Constant, Flat, Point, Constants
<1>3. step \in [Nat \X V -> V]
  <2>1. ASSUME NEW X \in V PROVE OneMore(X) \in V
    <3>1. ASSUME NEW y \in F \X X PROVE Horner(y[1], y[2][2]) \in Point
      <4>1. y[1] \in F /\ y[2] \in Point
        OBVIOUS
      <4>2. y[2][2] \in [Players -> F]
        BY <4>1 DEF Point
      <4> QED  BY <4>1, <4>2, HornerIsPoint
    <3> QED  BY <3>1 DEF OneMore
  <2> QED  BY <2>1
<1> HIDE DEF V, size, pred, base, step
<1>4. PICK f \in [Nat -> V] : Solves(f, Nat, size, pred, base, step)
  BY <1>1, <1>2, <1>3, Recursion
<1>5. f[0] = Constants
  BY <1>4 DEF Solves, size, base
<1>6. ASSUME NEW m \in Nat PROVE f[m] \in V /\ f[m + 1] = OneMore(f[m])
  <2>1. m + 1 \in Nat /\ m + 1 # 0 /\ (m + 1) - 1 = m
    OBVIOUS
  <2>2. f[m + 1] = IF size[m + 1] = 0 THEN base[m + 1] ELSE step[<<m + 1, f[pred[m + 1]]>>]
    BY <1>4, <2>1 DEF Solves
  <2>3. size[m + 1] # 0 /\ pred[m + 1] = m
    BY <2>1 DEF size, pred
  <2>4. f[m] \in V
    BY <1>4
  <2>5. <<m + 1, f[m]>> \in Nat \X V
    BY <2>1, <2>4
  <2>6. step[<<m + 1, f[m]>>] = OneMore(f[m])
    BY <2>5 DEF step
  <2> QED  BY <2>2, <2>3, <2>4, <2>6
<1>7. AreByDegree(f)
  BY <1>5, <1>6 DEF AreByDegree, V
<1> QED  BY <1>7 DEF ByDegree

\* How polynomials are made, and that there are no others.
LEMMA PolynomialCases ==
    ASSUME PrimeField
    PROVE  /\ \A d \in Nat : \A v, P : On(d, v, P) => v \in F /\ P \in [Players -> F]
           /\ \A c \in F : On(0, c, Flat(c))
           /\ \A v, P : On(0, v, P) => v \in F /\ P = Flat(v)
           /\ \A d \in Nat : \A c \in F : \A v, Q :
                 On(d, v, Q) => On(d + 1, c, Raised(c, Q))
           /\ \A d \in Nat : \A c, P : On(d + 1, c, P) =>
                 /\ c \in F
                 /\ \E v, Q : On(d, v, Q) /\ P = Raised(c, Q)
<1>1. /\ ByDegree[0] = Constants
      /\ \A m \in Nat : ByDegree[m] \in SUBSET Point /\ ByDegree[m + 1] = OneMore(ByDegree[m])
  BY DegreesExist DEF AreByDegree
<1>2. ASSUME NEW d \in Nat, NEW v, NEW P, On(d, v, P) PROVE v \in F /\ P \in [Players -> F]
  BY <1>1, <1>2 DEF On, Point
<1>3. ASSUME NEW c \in F PROVE On(0, c, Flat(c))
  BY <1>1 DEF On, Constants, Constant
<1>4. ASSUME NEW v, NEW P, On(0, v, P) PROVE v \in F /\ P = Flat(v)
  <2>1. PICK c \in F : <<v, P>> = Constant(c)
    BY <1>1, <1>4 DEF On, Constants
  <2> QED  BY <2>1 DEF Constant
<1>5. ASSUME NEW d \in Nat, NEW c \in F, NEW v, NEW Q, On(d, v, Q)
      PROVE  On(d + 1, c, Raised(c, Q))
  <2> DEFINE y == <<c, <<v, Q>>>>
  <2>1. y \in F \X ByDegree[d] /\ y[1] = c /\ y[2][2] = Q
    BY <1>5 DEF On
  <2> HIDE DEF y
  <2>2. Horner(y[1], y[2][2]) \in OneMore(ByDegree[d])
    BY <2>1 DEF OneMore
  <2>3. Horner(c, Q) \in ByDegree[d + 1]
    BY <2>1, <2>2, <1>1
  <2> QED  BY <2>3 DEF Horner, On
<1>6. ASSUME NEW d \in Nat, NEW c, NEW P, On(d + 1, c, P)
      PROVE  /\ c \in F
             /\ \E v, Q : On(d, v, Q) /\ P = Raised(c, Q)
  <2>1. <<c, P>> \in OneMore(ByDegree[d])
    BY <1>1, <1>6 DEF On
  <2>2. PICK y \in F \X ByDegree[d] : <<c, P>> = Horner(y[1], y[2][2])
    BY <2>1 DEF OneMore
  <2>3. y[2] \in ByDegree[d] /\ y[1] \in F /\ ByDegree[d] \in SUBSET Point
    BY <2>2, <1>1
  <2>4. y[2] = <<y[2][1], y[2][2]>>
    BY <2>3 DEF Point
  <2>5. On(d, y[2][1], y[2][2])
    BY <2>3, <2>4 DEF On
  <2>6. c = y[1] /\ P = Raised(c, y[2][2])
    BY <2>2 DEF Horner
  <2> QED  BY <2>3, <2>5, <2>6
<1> QED  BY <1>2, <1>3, <1>4, <1>5, <1>6

\* A polynomial of degree m + 1 is its value at 0 plus the variable times another.
LEMMA PolynomialSplits ==
    ASSUME PrimeField, NEW m \in Nat, NEW c, NEW P, On(m + 1, c, P)
    PROVE  \E v, Q : c \in F /\ On(m, v, Q) /\ P = Raised(c, Q)
<1>1. \A d \in Nat : \A x, R : On(d + 1, x, R) =>
           /\ x \in F
           /\ \E v, Q : On(d, v, Q) /\ R = Raised(x, Q)
  BY PolynomialCases
<1> QED  BY <1>1

\* The values of a polynomial are elements.
LEMMA PolynomialType ==
    ASSUME PrimeField, NEW d \in Nat, NEW v, NEW P, On(d, v, P)
    PROVE  /\ v \in F /\ P \in [Players -> F] /\ \A p \in Players : P[p] \in F
           /\ \A c \in F : On(d + 1, c, Raised(c, P))
<1>1. /\ \A m \in Nat : \A w, Q : On(m, w, Q) => w \in F /\ Q \in [Players -> F]
      /\ \A m \in Nat : \A c \in F : \A w, Q : On(m, w, Q) => On(m + 1, c, Raised(c, Q))
  BY PolynomialCases
<1>2. v \in F /\ P \in [Players -> F]
  BY <1>1
<1> QED  BY <1>1, <1>2

\* A polynomial of some degree is one of any higher degree.
LEMMA DegreeGrows ==
    ASSUME PrimeField, NEW d \in Nat, NEW e \in Nat, d <= e, NEW v, NEW P, On(d, v, P)
    PROVE  On(e, v, P)
<1> DEFINE T == {m \in Nat : \A w, Q : On(m, w, Q) => On(m + 1, w, Q)}
           U == {m \in Nat : On(d + m, v, P)}
<1>1. 0 \in F
  BY Operations
<1>2. 0 \in T
  <2> SUFFICES ASSUME NEW w, NEW Q, On(0, w, Q) PROVE On(0 + 1, w, Q)
    OBVIOUS
  <2> DEFINE Z == Flat(0)
             R == Raised(w, Z)
  <2>1. w \in F /\ Q = Flat(w)
    BY PolynomialCases
  <2>2. On(0, 0, Z)
    BY <1>1, PolynomialCases
  <2>3. On(0 + 1, w, R)
    <3> HIDE DEF Z
    <3> QED  BY <2>1, <2>2, PolynomialCases
  <2>4. \A p \in Players : w (+) (p (.) Z[p]) = w
    <3> TAKE p \in Players
    <3>1. p (.) 0 = 0 /\ Z[p] = 0
      BY PointsInF, Neutral DEF Flat
    <3> QED  BY <3>1, <2>1, Neutral
  <2>5. R = Q
    BY <2>1, <2>4 DEF Raised, Flat
  <2> QED  BY <2>3, <2>5
<1>3. \A m \in Nat : m \in T => m + 1 \in T
  <2> SUFFICES ASSUME NEW m \in Nat, m \in T, NEW w, NEW Q, On(m + 1, w, Q)
               PROVE  On((m + 1) + 1, w, Q)
    OBVIOUS
  <2>1. PICK u, R : w \in F /\ On(m, u, R) /\ Q = Raised(w, R)
    BY PolynomialSplits
  <2>2. On(m + 1, u, R)
    BY <2>1
  <2>3. m + 1 \in Nat
    OBVIOUS
  <2> HIDE DEF T
  <2> QED  BY <2>1, <2>2, <2>3, PolynomialCases
<1>4. Nat \subseteq T
  <2> HIDE DEF T
  <2> QED  BY <1>2, <1>3, Induct
<1>5. 0 \in U
  OBVIOUS
<1>6. \A m \in Nat : m \in U => m + 1 \in U
  <2> SUFFICES ASSUME NEW m \in Nat, On(d + m, v, P) PROVE On(d + (m + 1), v, P)
    OBVIOUS
  <2>1. d + m \in T /\ d + (m + 1) = (d + m) + 1
    BY <1>4
  <2> QED  BY <2>1
<1>7. e - d \in U
  <2> HIDE DEF U
  <2>1. e - d \in Nat
    OBVIOUS
  <2> QED  BY <1>5, <1>6, <2>1, Induct
<1>8. d + (e - d) = e
  OBVIOUS
<1> QED  BY <1>7, <1>8

\* Multiples of polynomials, with a number and with the point.
LEMMA PolynomialScales ==
    ASSUME PrimeField, NEW d \in Nat, NEW v, NEW P, On(d, v, P), NEW c \in F
    PROVE  /\ On(d, c (.) v, [p \in Players |-> c (.) P[p]])
           /\ On(d + 1, 0, [p \in Players |-> p (.) P[p]])
<1> DEFINE T == {m \in Nat : \A w, Q : On(m, w, Q) =>
                                On(m, c (.) w, [p \in Players |-> c (.) Q[p]])}
<1>1. 0 \in T
  <2> SUFFICES ASSUME NEW w, NEW Q, On(0, w, Q)
               PROVE  On(0, c (.) w, [p \in Players |-> c (.) Q[p]])
    OBVIOUS
  <2>1. w \in F /\ Q = Flat(w)
    BY PolynomialCases
  <2>2. c (.) w \in F
    BY <2>1, ClosedInF
  <2>3. [p \in Players |-> c (.) Q[p]] = Flat(c (.) w)
    BY <2>1 DEF Flat
  <2> QED  BY <2>2, <2>3, PolynomialCases
<1>2. \A m \in Nat : m \in T => m + 1 \in T
  <2> SUFFICES ASSUME NEW m \in Nat, m \in T, NEW w, NEW Q, On(m + 1, w, Q)
               PROVE  On(m + 1, c (.) w, [p \in Players |-> c (.) Q[p]])
    OBVIOUS
  <2>1. PICK u, R : w \in F /\ On(m, u, R) /\ Q = Raised(w, R)
    BY PolynomialSplits
  <2> DEFINE cR == [p \in Players |-> c (.) R[p]]
             cw == c (.) w
  <2>2. On(m, c (.) u, cR)
    BY <2>1
  <2>3. cw \in F /\ R \in [Players -> F]
    BY <2>1, ClosedInF, PolynomialCases
  <2>4. \A p \in Players : c (.) Q[p] = cw (+) (p (.) cR[p])
    <3> TAKE p \in Players
    <3> DEFINE r == R[p]
    <3>1. p \in F /\ r \in F
      BY <2>3, PointsInF
    <3>2. Q[p] = w (+) (p (.) r) /\ cR[p] = c (.) r
      BY <2>1 DEF Raised
    <3> HIDE DEF r, cR
    <3>3. p (.) r \in F /\ c (.) (p (.) r) = (c (.) p) (.) r /\ c (.) p = p (.) c
          /\ (p (.) c) (.) r = p (.) (c (.) r)
      BY <3>1, ClosedInF, MulAssociates, AddCommutes
    <3>4. c (.) (w (+) (p (.) r)) = (c (.) w) (+) (c (.) (p (.) r))
      BY <2>1, <3>3, Distributes
    <3> QED  BY <3>2, <3>3, <3>4
  <2>5. [p \in Players |-> c (.) Q[p]] = Raised(cw, cR)
    BY <2>4 DEF Raised
  <2> HIDE DEF T, cR, cw
  <2>6. On(m + 1, cw, Raised(cw, cR))
    BY <2>2, <2>3, PolynomialCases
  <2> QED  BY <2>5, <2>6 DEF cw
<1>3. d \in T
  <2> HIDE DEF T
  <2> QED  BY <1>1, <1>2, Induct
<1>4. On(d + 1, 0, [p \in Players |-> p (.) P[p]])
  <2>1. 0 \in F /\ P \in [Players -> F]
    BY Operations, PolynomialType
  <2>2. \A p \in Players : p (.) P[p] \in F
    BY <2>1, PointsInF, ClosedInF
  <2>3. Raised(0, P) = [p \in Players |-> p (.) P[p]]
    BY <2>2, Neutral DEF Raised
  <2>4. On(d + 1, 0, Raised(0, P))
    BY <2>1, PolynomialType
  <2> QED  BY <2>3, <2>4
<1> QED  BY <1>3, <1>4

\* The sum of polynomials is a polynomial that shares the sum.
LEMMA PolynomialAdds ==
    ASSUME PrimeField, NEW d \in Nat, NEW v, NEW P, On(d, v, P), NEW w, NEW Q, On(d, w, Q)
    PROVE  On(d, v (+) w, [p \in Players |-> P[p] (+) Q[p]])
<1> DEFINE Sum(A, B) == [p \in Players |-> A[p] (+) B[p]]
           T == {m \in Nat : \A x, y, A, B : On(m, x, A) /\ On(m, y, B) =>
                                                 On(m, x (+) y, Sum(A, B))}
<1>1. 0 \in T
  <2> SUFFICES ASSUME NEW x, NEW A, On(0, x, A), NEW y, NEW B, On(0, y, B)
               PROVE  On(0, x (+) y, [p \in Players |-> A[p] (+) B[p]])
    OBVIOUS
  <2>1. x \in F /\ A = Flat(x) /\ y \in F /\ B = Flat(y)
    BY PolynomialCases
  <2>2. x (+) y \in F
    BY <2>1, ClosedInF
  <2>3. [p \in Players |-> A[p] (+) B[p]] = Flat(x (+) y)
    BY <2>1 DEF Flat
  <2> QED  BY <2>2, <2>3, PolynomialCases
<1>2. ASSUME NEW m \in Nat, m \in T,
             NEW x, NEW A, On(m + 1, x, A), NEW y, NEW B, On(m + 1, y, B)
      PROVE  On(m + 1, x (+) y, Sum(A, B))
  <2>1. PICK u, R : x \in F /\ On(m, u, R) /\ A = Raised(x, R)
    BY <1>2, PolynomialSplits
  <2>2. PICK s, S : y \in F /\ On(m, s, S) /\ B = Raised(y, S)
    BY <1>2, PolynomialSplits
  <2> DEFINE RS == [p \in Players |-> R[p] (+) S[p]]
             z == x (+) y
  <2>3. On(m, u (+) s, Sum(R, S))
    <3> HIDE DEF Sum
    <3> QED  BY <1>2, <2>1, <2>2
  <2>4. z \in F /\ R \in [Players -> F] /\ S \in [Players -> F]
    BY <2>1, <2>2, ClosedInF, PolynomialCases
  <2>5. \A p \in Players : A[p] (+) B[p] = z (+) (p (.) RS[p])
    <3> TAKE p \in Players
    <3> DEFINE r == R[p]
               q == S[p]
    <3>1. p \in F /\ r \in F /\ q \in F
      BY <2>4, PointsInF
    <3>2. A[p] = x (+) (p (.) r) /\ B[p] = y (+) (p (.) q) /\ RS[p] = r (+) q
      BY <2>1, <2>2 DEF Raised
    <3> HIDE DEF r, q, RS
    <3>3. p (.) r \in F /\ p (.) q \in F
      BY <3>1, ClosedInF
    <3>4. (x (+) (p (.) r)) (+) (y (+) (p (.) q)) = (x (+) y) (+) ((p (.) r) (+) (p (.) q))
      BY <2>1, <2>2, <3>3, AddShuffle
    <3>5. p (.) (r (+) q) = (p (.) r) (+) (p (.) q)
      BY <3>1, Distributes
    <3> QED  BY <3>2, <3>4, <3>5
  <2>6. [p \in Players |-> A[p] (+) B[p]] = Raised(z, RS)
    BY <2>5 DEF Raised
  <2> HIDE DEF T, RS, z
  <2>7. On(m + 1, z, Raised(z, RS))
    BY <2>3, <2>4, PolynomialCases DEF RS
  <2> QED  BY <2>6, <2>7 DEF z
<1>3. \A m \in Nat : m \in T => m + 1 \in T
  <2> HIDE DEF Sum
  <2> QED  BY <1>2
<1>4. d \in T
  <2> HIDE DEF T
  <2> QED  BY <1>1, <1>3, Induct
<1> QED  BY <1>4

\* The product of two polynomials has the sum of their degrees.
LEMMA PolynomialMultiplies ==
    ASSUME PrimeField, NEW d \in Nat, NEW v, NEW P, On(d, v, P),
           NEW e \in Nat, NEW w, NEW Q, On(e, w, Q)
    PROVE  On(d + e, v (.) w, [p \in Players |-> P[p] (.) Q[p]])
<1> DEFINE TimesQ(A) == [p \in Players |-> A[p] (.) Q[p]]
           T == {m \in Nat : \A x, A : On(m, x, A) => On(m + e, x (.) w, TimesQ(A))}
<1>0. w \in F /\ Q \in [Players -> F]
  BY PolynomialCases
<1>1. 0 \in T
  <2> SUFFICES ASSUME NEW x, NEW A, On(0, x, A)
               PROVE  On(0 + e, x (.) w, [p \in Players |-> A[p] (.) Q[p]])
    OBVIOUS
  <2>1. x \in F /\ A = Flat(x)
    BY PolynomialCases
  <2>2. On(e, x (.) w, [p \in Players |-> x (.) Q[p]])
    BY <2>1, PolynomialScales
  <2>3. [p \in Players |-> A[p] (.) Q[p]] = [p \in Players |-> x (.) Q[p]] /\ 0 + e = e
    BY <2>1 DEF Flat
  <2> QED  BY <2>2, <2>3
<1>2. ASSUME NEW m \in Nat, m \in T, NEW x, NEW A, On(m + 1, x, A)
      PROVE  On((m + 1) + e, x (.) w, TimesQ(A))
  <2>1. PICK u, R : x \in F /\ On(m, u, R) /\ A = Raised(x, R)
    BY <1>2, PolynomialSplits
  <2> DEFINE RQ == [p \in Players |-> R[p] (.) Q[p]]
             xQ == [p \in Players |-> x (.) Q[p]]
             pRQ == [p \in Players |-> p (.) RQ[p]]
             k == m + e
  <2>2. On(k, u (.) w, TimesQ(R))
    <3> HIDE DEF TimesQ
    <3> QED  BY <1>2, <2>1
  <2>3. k \in Nat /\ (m + 1) + e = k + 1 /\ e <= k + 1 /\ k + 1 \in Nat
    OBVIOUS
  <2> HIDE DEF T, RQ, xQ, k
  <2>4. On(k + 1, 0, pRQ)
    BY <2>2, <2>3, <1>0, PolynomialScales DEF RQ
  <2>5. On(k + 1, x (.) w, xQ)
    <3>1. On(e, x (.) w, xQ)
      BY <2>1, PolynomialScales DEF xQ
    <3> QED  BY <3>1, <2>3, DegreeGrows
  <2>6. On(k + 1, (x (.) w) (+) 0, [p \in Players |-> xQ[p] (+) pRQ[p]])
    <3> HIDE DEF pRQ
    <3> QED  BY <2>3, <2>4, <2>5, PolynomialAdds
  <2>7. (x (.) w) (+) 0 = x (.) w
    <3>1. x (.) w \in F
      BY <2>1, <1>0, ClosedInF
    <3> QED  BY <3>1, Neutral
  <2>8. \A p \in Players : A[p] (.) Q[p] = xQ[p] (+) pRQ[p]
    <3> TAKE p \in Players
    <3> DEFINE r == R[p]
               q == Q[p]
    <3>1. p \in F /\ r \in F /\ q \in F
      BY <2>1, PolynomialCases, <1>0, PointsInF
    <3>2. /\ A[p] = x (+) (p (.) r) /\ xQ[p] = x (.) q /\ pRQ[p] = p (.) (r (.) q)
      BY <2>1 DEF xQ, RQ, Raised
    <3> HIDE DEF r, q, pRQ
    <3>3. p (.) r \in F /\ (p (.) r) (.) q = p (.) (r (.) q)
      BY <3>1, ClosedInF, MulAssociates
    <3>4. q (.) (x (+) (p (.) r)) = (q (.) x) (+) (q (.) (p (.) r))
      BY <2>1, <3>1, <3>3, Distributes
    <3>5. /\ q (.) x = x (.) q /\ q (.) (p (.) r) = (p (.) r) (.) q
          /\ x (+) (p (.) r) \in F
      BY <2>1, <3>1, <3>3, AddCommutes, ClosedInF
    <3>6. (x (+) (p (.) r)) (.) q = q (.) (x (+) (p (.) r))
      BY <3>1, <3>5, AddCommutes
    <3> QED  BY <3>2, <3>3, <3>4, <3>5, <3>6 DEF q
  <2>9. [p \in Players |-> A[p] (.) Q[p]] = [p \in Players |-> xQ[p] (+) pRQ[p]]
    BY <2>8
  <2> QED  BY <2>3, <2>6, <2>7, <2>9
<1>3. \A m \in Nat : m \in T => m + 1 \in T
  <2> HIDE DEF TimesQ
  <2> QED  BY <1>2
<1>4. d \in T
  <2> HIDE DEF T
  <2> QED  BY <1>1, <1>3, Induct
<1> QED  BY <1>4

\* A polynomial minus its value at a is a multiple of the difference from a.
LEMMA Differs ==
    ASSUME PrimeField, NEW x \in F, NEW a \in F, NEW p \in F, NEW q \in F
    PROVE  x (+) (p (.) q) = (x (+) (a (.) q)) (+) ((p (-) a) (.) q)
<1> DEFINE u == a (.) q
           w == p (.) q
           e == w (-) u
<1>1. u \in F /\ w \in F /\ p (-) a \in F
  BY ClosedInF
<1>2. e \in F
  BY <1>1, ClosedInF
<1>3. (p (-) a) (.) q = e
  BY Distributes, <1>1, AddCommutes
<1> HIDE DEF u, w
<1>4. e (+) u = w
  BY <1>1, SubCancels
<1> HIDE DEF e
<1>5. u (+) e = w
  BY <1>1, <1>2, <1>4, AddCommutes
<1>6. (x (+) u) (+) e = x (+) w
  BY <1>1, <1>2, <1>5, AddAssociates
<1> QED  BY <1>3, <1>6 DEF u, w

\* A polynomial minus its value at a is a multiple of the variable minus a.
LEMMA PolynomialFactors ==
    ASSUME PrimeField, NEW d \in Nat, NEW v, NEW P, On(d + 1, v, P), NEW a \in Players
    PROVE  \E w, R : /\ On(d, w, R)
                     /\ \A p \in Players : P[p] = P[a] (+) ((p (-) a) (.) R[p])
                     /\ v = P[a] (+) ((0 (-) a) (.) w)
<1> DEFINE Leaves(m, x, A, w, R) ==
               /\ On(m, w, R)
               /\ \A p \in Players : A[p] = A[a] (+) ((p (-) a) (.) R[p])
               /\ x = A[a] (+) ((0 (-) a) (.) w)
           T == {m \in Nat : \A x, A : On(m + 1, x, A) => \E w, R : Leaves(m, x, A, w, R)}
<1>1. a \in F /\ 0 \in F
  BY PointsInF, Neutral
<1>2. ASSUME NEW x \in F, NEW Q \in [Players -> F]
      PROVE  /\ Raised(x, Q)[a] = x (+) (a (.) Q[a]) /\ Q[a] \in F
             /\ x = Raised(x, Q)[a] (+) ((0 (-) a) (.) Q[a])
             /\ Raised(x, Q)[a] \in F
  <2> DEFINE q == Q[a]
  <2>1. q \in F
    OBVIOUS
  <2> HIDE DEF q
  <2>2. x (+) (0 (.) q) = (x (+) (a (.) q)) (+) ((0 (-) a) (.) q)
    BY <2>1, <1>1, Differs
  <2>3. x (+) (0 (.) q) = x
    BY <2>1, Neutral
  <2>4. a (.) q \in F
    BY <2>1, <1>1, ClosedInF
  <2>5. x (+) (a (.) q) \in F
    BY <2>4, ClosedInF
  <2>6. Raised(x, Q)[a] = x (+) (a (.) q)
    BY DEF Raised, q
  <2> QED  BY <2>1, <2>2, <2>3, <2>5, <2>6 DEF q
<1>3. ASSUME NEW x, NEW A, On(0 + 1, x, A)
      PROVE  \E w, R : Leaves(0, x, A, w, R)
  <2>1. PICK q, Q : x \in F /\ On(0, q, Q) /\ A = Raised(x, Q)
    BY <1>3, PolynomialSplits
  <2>2. q \in F /\ Q = Flat(q)
    BY <2>1, PolynomialCases
  <2>3. Q \in [Players -> F] /\ \A p \in Players : Q[p] = q
    BY <2>2 DEF Flat
  <2>4. A[a] = x (+) (a (.) q) /\ x = A[a] (+) ((0 (-) a) (.) q)
    BY <1>2, <2>1, <2>3
  <2>5. \A p \in Players : A[p] = A[a] (+) ((p (-) a) (.) Q[p])
    <3> TAKE p \in Players
    <3>1. p \in F
      BY PointsInF
    <3>2. A[p] = x (+) (p (.) q) /\ Q[p] = q
      BY <2>1, <2>3 DEF Raised
    <3>3. x (+) (p (.) q) = (x (+) (a (.) q)) (+) ((p (-) a) (.) q)
      BY <3>1, <2>1, <2>2, <1>1, Differs
    <3> QED  BY <3>2, <3>3, <2>4
  <2>6. Leaves(0, x, A, q, Q)
    BY <2>1, <2>4, <2>5
  <2> HIDE DEF Leaves
  <2> QED  BY <2>6
<1>4. ASSUME NEW m \in Nat, m \in T, NEW x, NEW A, On((m + 1) + 1, x, A)
      PROVE  \E w, R : Leaves(m + 1, x, A, w, R)
  <2>0. m + 1 \in Nat
    OBVIOUS
  <2>1. PICK q, Q : x \in F /\ On(m + 1, q, Q) /\ A = Raised(x, Q)
    BY <1>4, <2>0, PolynomialSplits
  <2>2. PICK w, R : Leaves(m, q, Q, w, R)
    <3> HIDE DEF Leaves
    <3> QED  BY <1>4, <2>1
  <2>3. Q \in [Players -> F]
    BY <2>0, <2>1, PolynomialType
  <2>4. A[a] = x (+) (a (.) Q[a]) /\ x = A[a] (+) ((0 (-) a) (.) Q[a]) /\ Q[a] \in F
        /\ A[a] \in F
    BY <1>2, <2>1, <2>3
  <2> DEFINE B == Raised(Q[a], R)
             b == Q[a]
             y == A[a]
  <2>5. On(m + 1, b, B) /\ R \in [Players -> F]
    <3>1. On(m, w, R)
      BY <2>2
    <3> QED  BY <3>1, <2>4, PolynomialType
  <2>6. \A p \in Players : A[p] = A[a] (+) ((p (-) a) (.) B[p])
    <3> TAKE p \in Players
    <3> DEFINE r == R[p]
               e == p (-) a
    <3>1. p \in F /\ r \in F
      BY <2>5, PointsInF
    <3>2. e \in F
      BY <3>1, <1>1, ClosedInF
    <3>3. /\ A[p] = x (+) (p (.) Q[p]) /\ Q[p] = b (+) (e (.) r) /\ B[p] = b (+) (p (.) r)
          /\ y = x (+) (a (.) b) /\ b \in F /\ y \in F
      BY <2>1, <2>2, <2>4 DEF Raised
    <3> HIDE DEF b, y, r, B
    <3>4. x (+) (p (.) b) = y (+) (e (.) b)
      BY <3>1, <3>3, <2>1, <1>1, Differs
    <3> HIDE DEF e
    <3>5. /\ p (.) b \in F /\ e (.) b \in F /\ e (.) r \in F /\ p (.) r \in F
      BY <3>1, <3>2, <3>3, ClosedInF
    <3>6. p (.) (e (.) r) = e (.) (p (.) r)
      BY <3>1, <3>2, AddCommutes, MulAssociates
    <3> DEFINE s == e (.) (p (.) r)
    <3>7. s \in F
      BY <3>2, <3>5, ClosedInF
    <3>8. p (.) (b (+) (e (.) r)) = (p (.) b) (+) s
      BY <3>1, <3>3, <3>5, <3>6, Distributes
    <3>9. e (.) (b (+) (p (.) r)) = (e (.) b) (+) s
      BY <3>2, <3>3, <3>5, Distributes
    <3> HIDE DEF s
    <3>10. (x (+) (p (.) b)) (+) s = x (+) ((p (.) b) (+) s)
      BY <2>1, <3>5, <3>7, AddAssociates
    <3>11. (y (+) (e (.) b)) (+) s = y (+) ((e (.) b) (+) s)
      BY <3>3, <3>5, <3>7, AddAssociates
    <3>12. A[p] = y (+) (e (.) B[p])
      BY <3>3, <3>4, <3>8, <3>9, <3>10, <3>11
    <3> QED  BY <3>12 DEF y, e
  <2>7. Leaves(m + 1, x, A, b, B)
    <3> HIDE DEF B
    <3> QED  BY <2>4, <2>5, <2>6
  <2> HIDE DEF Leaves
  <2> QED  BY <2>7
<1>5. d \in T
  <2> HIDE DEF Leaves
  <2>1. 0 \in T
    BY <1>3
  <2>2. \A m \in Nat : m \in T => m + 1 \in T
    BY <1>4
  <2> HIDE DEF T
  <2> QED  BY <2>1, <2>2, Induct
<1> QED  BY <1>5

\* Lagrange: d + 1 shares of a polynomial of degree d give its value at 0.
LEMMA Lagrange ==
    ASSUME PrimeField, NEW d \in Nat, NEW v, NEW P, On(d, v, P),
           NEW S \in SUBSET Players, Cardinality(S) = d + 1
    PROVE  Recombined(S, P) = v
<1> DEFINE Gives(m, x, A) ==
               \A s \in SUBSET Players : Cardinality(s) = m + 1 => Recombined(s, A) = x
           T == {m \in Nat : \A x, A : On(m, x, A) => Gives(m, x, A)}
<1>1. \A s \in SUBSET Players :
         /\ IsFiniteSet(s) /\ (s = {} => Cardinality(s) = 0)
         /\ \A a \in s : Cardinality(s \ {a}) = Cardinality(s) - 1
  BY PlayersFinite, FS_Subset, FS_EmptySet, FS_RemoveElement
<1>2. 0 \in F /\ 1 \in F
  BY Operations
<1>3. ASSUME NEW c \in F, NEW s \in SUBSET Players, s # {}, NEW k, \A i \in s : k[i] = c
      PROVE  Recombined(s, k) = c
  <2> DEFINE one == [i \in s |-> 1]
  <2>1. \A i \in s : one[i] \in F /\ k[i] = c (.) one[i]
    BY <1>2, <1>3, Neutral
  <2>2. Recombined(s, one) = 1
    BY <1>3, OneRecombined
  <2> HIDE DEF one
  <2>3. Recombined(s, k) = c (.) Recombined(s, one)
    BY <2>1, RecombinedScales
  <2> QED  BY <2>2, <2>3, Neutral
<1>4. ASSUME NEW x, NEW A, On(0, x, A), NEW s \in SUBSET Players, Cardinality(s) = 0 + 1
      PROVE  Recombined(s, A) = x
  <2>1. x \in F /\ A = Flat(x)
    BY <1>4, PolynomialCases
  <2>2. s # {} /\ \A i \in s : A[i] = x
    BY <1>1, <1>4, <2>1 DEF Flat
  <2> QED  BY <1>3, <2>1, <2>2
<1>5. ASSUME NEW m \in Nat, m \in T, NEW x, NEW A, On(m + 1, x, A),
             NEW s \in SUBSET Players, Cardinality(s) = (m + 1) + 1
      PROVE  Recombined(s, A) = x
  <2>1. s # {}
    BY <1>1, <1>5
  <2>2. PICK a \in s : TRUE
    BY <2>1
  <2>3. a \in Players /\ a \in F
    BY <2>2, PointsInF
  <2>4. PICK w, R : /\ On(m, w, R)
                    /\ \A p \in Players : A[p] = A[a] (+) ((p (-) a) (.) R[p])
                    /\ x = A[a] (+) ((0 (-) a) (.) w)
    BY <1>5, <2>3, PolynomialFactors
  <2> DEFINE y == A[a]
             h == [i \in s |-> y]
             k == [i \in s |-> (i (-) a) (.) R[i]]
             z == 0 (-) a
  <2>5. y \in F /\ w \in F /\ \A p \in Players : R[p] \in F
    BY <1>5, <2>3, <2>4, PolynomialType
  <2>6. \A i \in s : h[i] \in F /\ k[i] \in F /\ A[i] = h[i] (+) k[i] /\ R[i] \in F
                     /\ k[i] = (i (-) a) (.) R[i]
    <3> TAKE i \in s
    <3>1. i \in F
      BY PointsInF
    <3>2. i (-) a \in F /\ R[i] \in F
      BY <3>1, <2>3, <2>5, ClosedInF
    <3>3. (i (-) a) (.) R[i] \in F
      BY <3>2, ClosedInF
    <3> QED  BY <2>4, <2>5, <3>2, <3>3
  <2>7. Recombined(s, h) = y
    <3>1. \A i \in s : h[i] = y
      OBVIOUS
    <3> HIDE DEF h, y
    <3> QED  BY <1>3, <2>1, <2>5, <3>1
  <2>8. Recombined(s, k) = (0 (-) a) (.) Recombined(s \ {a}, R)
    <3> HIDE DEF k
    <3> QED  BY <2>2, <2>6, RecombinedShrinks
  <2>9. Recombined(s \ {a}, R) = w
    <3>1. s \ {a} \in SUBSET Players /\ Cardinality(s \ {a}) = m + 1
      BY <1>1, <2>2, <1>5
    <3>2. Gives(m, w, R)
      <4> HIDE DEF Gives
      <4> QED  BY <1>5, <2>4
    <3> QED  BY <3>1, <3>2
  <2>10. Recombined(s, A) = Recombined(s, h) (+) Recombined(s, k)
    <3> HIDE DEF h, k
    <3> QED  BY <2>6, RecombinedAdds
  <2> QED  BY <2>4, <2>7, <2>8, <2>9, <2>10 DEF y
<1>6. d \in T
  <2>1. 0 \in T
    BY <1>4
  <2>2. \A m \in Nat : m \in T => m + 1 \in T
    <3> SUFFICES ASSUME NEW m \in Nat, m \in T PROVE m + 1 \in T
      OBVIOUS
    <3>1. \A x, A : On(m + 1, x, A) => Gives(m + 1, x, A)
      BY <1>5
    <3> HIDE DEF Gives
    <3> QED  BY <3>1
  <2> HIDE DEF T
  <2> QED  BY <2>1, <2>2, Induct
<1>7. Gives(d, v, P)
  <2> HIDE DEF Gives
  <2> QED  BY <1>6
<1> QED  BY <1>7

------------------------------------------------------------------------------
\* What shamir.share makes lies on a polynomial.

\* The coefficients of shamir.share: the secret, then the random numbers.
LEMMA Coefs ==
    ASSUME NEW V, NEW secret \in V, NEW m \in Nat, NEW r \in [1 .. m -> V]
    PROVE  /\ Len(<<secret>> \o r) = m + 1
           /\ (<<secret>> \o r)[1] = secret
           /\ \A j \in 1 .. m + 1 : (<<secret>> \o r)[j] \in V
<1>1. r \in Seq(V) /\ Len(r) = m
  OBVIOUS
<1>2. <<secret>> \in Seq(V) /\ Len(<<secret>>) = 1 /\ <<secret>>[1] = secret
  OBVIOUS
<1> DEFINE c == <<secret>> \o r
<1>3. c \in Seq(V) /\ Len(c) = m + 1 /\ c[1] = secret
  BY <1>1, <1>2
<1> HIDE DEF c
<1>4. \A j \in 1 .. m + 1 : c[j] \in V
  BY <1>3
<1> QED  BY <1>3, <1>4 DEF c

\* From the coefficient of the highest power to that of the lowest.
IsHorner(f, coef, L, i) ==
    f = [j \in 1 .. L |-> IF j = L THEN coef[j] ELSE Add(Field, coef[j], Mul(Field, f[j + 1], i))]

\* The loop of shamir.share has a solution.
LEMMA HornerExists ==
    ASSUME PrimeField, NEW L \in Nat \ {0}, NEW coef, \A j \in 1 .. L : coef[j] \in F,
           NEW i \in F
    PROVE  \E f : /\ IsHorner(f, coef, L, i)
                  /\ f \in [1 .. L -> F]
<1> DEFINE D == 1 .. L
           size == [j \in D |-> L - j]
           pred == [j \in D |-> IF j = L THEN j ELSE j + 1]
           base == [j \in D |-> coef[j]]
           step == [x \in D \X F |-> coef[x[1]] (+) (x[2] (.) i)]
<1>1. Descends(D, size, pred)
  BY DEF Descends
<1>2. base \in [D -> F]
  OBVIOUS
<1>3. step \in [D \X F -> F]
  <2>1. ASSUME NEW x \in D \X F PROVE coef[x[1]] (+) (x[2] (.) i) \in F
    BY ClosedInF
  <2> QED  BY <2>1
<1> HIDE DEF size, pred, base, step
<1>4. PICK f \in [D -> F] : Solves(f, D, size, pred, base, step)
  BY <1>1, <1>2, <1>3, Recursion
<1>5. ASSUME NEW j \in D
      PROVE  f[j] = IF j = L THEN coef[j] ELSE coef[j] (+) (f[j + 1] (.) i)
  <2>1. f[j] = IF size[j] = 0 THEN base[j] ELSE step[<<j, f[pred[j]]>>]
    BY <1>4 DEF Solves
  <2>2. size[j] = 0 <=> j = L
    BY DEF size
  <2>3. base[j] = coef[j]
    BY DEF base
  <2>4. ASSUME j # L PROVE step[<<j, f[pred[j]]>>] = coef[j] (+) (f[j + 1] (.) i)
    <3>1. pred[j] = j + 1 /\ j + 1 \in D
      BY <2>4 DEF pred
    <3>2. f[j + 1] \in F
      BY <3>1, <1>4
    <3>3. <<j, f[j + 1]>> \in D \X F
      BY <3>2
    <3> HIDE DEF D
    <3> QED  BY <3>1, <3>3 DEF step
  <2> QED  BY <2>1, <2>2, <2>3, <2>4
<1>6. f = [j \in D |-> IF j = L THEN coef[j] ELSE Add(Field, coef[j], Mul(Field, f[j + 1], i))]
  BY <1>4, <1>5 DEF (+), (.)
<1> QED  BY <1>4, <1>6 DEF IsHorner

HornerAt(coef, L, i) == CHOOSE f : IsHorner(f, coef, L, i)

\* What the loop computes at the point of player i.
LEMMA HornerAtIs ==
    ASSUME PrimeField, NEW L \in Nat \ {0}, NEW coef, \A j \in 1 .. L : coef[j] \in F,
           NEW i \in Players
    PROVE  /\ HornerAt(coef, L, i) \in [1 .. L -> F]
           /\ \A j \in 1 .. L :
                 HornerAt(coef, L, i)[j]
                   = IF j = L THEN coef[j] ELSE coef[j] (+) (i (.) HornerAt(coef, L, i)[j + 1])
<1>1. i \in F
  BY PointsInF
<1>2. PICK f : IsHorner(f, coef, L, i) /\ f \in [1 .. L -> F]
  BY <1>1, HornerExists
<1>3. IsHorner(HornerAt(coef, L, i), coef, L, i)
  BY <1>2 DEF HornerAt
<1>4. HornerAt(coef, L, i) = f
  <2> DEFINE g == HornerAt(coef, L, i)
  <2> HIDE DEF HornerAt
  <2>1. \A j \in 1 .. L : /\ g[j] = IF j = L THEN coef[j] ELSE Add(Field, coef[j], Mul(Field, g[j + 1], i))
                          /\ f[j] = IF j = L THEN coef[j] ELSE Add(Field, coef[j], Mul(Field, f[j + 1], i))
    BY <1>2, <1>3 DEF IsHorner
  <2>2. DOMAIN g = 1 .. L /\ DOMAIN f = 1 .. L /\ g = [j \in 1 .. L |-> g[j]]
        /\ f = [j \in 1 .. L |-> f[j]]
    BY <1>2, <1>3 DEF IsHorner
  <2> DEFINE W == {e \in Nat : e < L => g[L - e] = f[L - e]}
  <2> HIDE DEF g
  <2>3. 0 \in W
    BY <2>1
  <2>4. \A e \in Nat : e \in W => e + 1 \in W
    <3> SUFFICES ASSUME NEW e \in Nat, e \in W, e + 1 < L
                 PROVE  g[L - (e + 1)] = f[L - (e + 1)]
      OBVIOUS
    <3>1. L - (e + 1) \in 1 .. L /\ L - (e + 1) # L /\ (L - (e + 1)) + 1 = L - e
      OBVIOUS
    <3>2. g[L - e] = f[L - e]
      OBVIOUS
    <3> QED  BY <3>1, <3>2, <2>1
  <2>5. Nat \subseteq W
    <3> HIDE DEF W
    <3> QED  BY <2>3, <2>4, Induct
  <2>6. \A j \in 1 .. L : g[j] = f[j]
    <3> TAKE j \in 1 .. L
    <3>1. L - j \in Nat /\ L - j < L /\ L - (L - j) = j
      OBVIOUS
    <3> QED  BY <3>1, <2>5
  <2> QED  BY <2>2, <2>6 DEF g
<1>5. ASSUME NEW j \in 1 .. L, j # L PROVE f[j + 1] \in F /\ Mul(Field, f[j + 1], i) = i (.) f[j + 1]
  <2>1. f[j + 1] \in F
    BY <1>2, <1>5
  <2> QED  BY <2>1, <1>1, AddCommutes DEF (.)
<1>6. \A j \in 1 .. L : f[j] = IF j = L THEN coef[j] ELSE coef[j] (+) (i (.) f[j + 1])
  BY <1>2, <1>5 DEF IsHorner, (+)
<1> HIDE DEF HornerAt
<1> QED  BY <1>2, <1>4, <1>6

\* What shamir.share gives a player is what the loop ends with.
LEMMA ShareIsHorner ==
    ASSUME PrimeField, NEW secret \in F, NEW m \in Nat, NEW r \in [1 .. m -> F]
    PROVE  Share(Field, n, secret, r)
             = [i \in Players |-> HornerAt(<<secret>> \o r, m + 1, i)[1]]
<1> DEFINE coef == <<secret>> \o r
           L == m + 1
           at(i) == HornerAt(coef, L, i)
           value(i) ==
               LET from[j \in 1 .. Len(<<secret>> \o r)] ==
                       IF j = Len(<<secret>> \o r) THEN (<<secret>> \o r)[j]
                       ELSE Add(Field, (<<secret>> \o r)[j], Mul(Field, from[j + 1], i))
               IN  from[1]
<1>1. Len(coef) = L
  BY Coefs
<1>2. Share(Field, n, secret, r) = [i \in 1 .. n |-> value(i)]
  BY DEF Share
<1>3. ASSUME NEW i \in 1 .. n PROVE value(i) = at(i)[1]
  <2> DEFINE from[j \in 1 .. Len(coef)] ==
                 IF j = Len(coef) THEN coef[j]
                 ELSE Add(Field, coef[j], Mul(Field, from[j + 1], i))
  <2>1. value(i) = from[1]
    OBVIOUS
  <2>2. from = CHOOSE f : f = [j \in 1 .. Len(coef) |->
                                  IF j = Len(coef) THEN coef[j]
                                  ELSE Add(Field, coef[j], Mul(Field, f[j + 1], i))]
    OBVIOUS
  <2> HIDE DEF from, value, coef, L
  <2>3. from = at(i)
    BY <2>2, <1>1 DEF IsHorner, HornerAt
  <2> QED  BY <2>1, <2>3
<1> HIDE DEF at, value
<1> QED  BY <1>2, <1>3 DEF Players, at

\* What shamir.share deals is a polynomial with the secret at 0.
LEMMA ShareIsOn ==
    ASSUME PrimeField, NEW secret \in F, NEW m \in Nat, NEW r \in [1 .. m -> F]
    PROVE  On(m, secret, Share(Field, n, secret, r))
<1> DEFINE coef == <<secret>> \o r
           L == m + 1
           at(i) == HornerAt(coef, L, i)
           Part(e) == [i \in Players |-> at(i)[L - e]]
           U == {e \in Nat : e < L => On(e, coef[L - e], Part(e))}
<1>1. Len(coef) = L /\ coef[1] = secret /\ \A j \in 1 .. L : coef[j] \in F
  BY Coefs
<1>2. L \in Nat \ {0}
  OBVIOUS
<1> HIDE DEF coef, L
<1>3. ASSUME NEW i \in Players
      PROVE  /\ at(i) \in [1 .. L -> F]
             /\ \A j \in 1 .. L :
                   at(i)[j] = IF j = L THEN coef[j] ELSE coef[j] (+) (i (.) at(i)[j + 1])
  BY <1>1, <1>2, HornerAtIs
<1>4. Share(Field, n, secret, r) = [i \in Players |-> at(i)[1]]
  BY ShareIsHorner DEF coef, L
<1> HIDE DEF at
<1>5. 0 \in U
  <2>1. coef[L] \in F
    BY <1>1, <1>2
  <2>2. Part(0) = Flat(coef[L])
    BY <1>2, <1>3 DEF Flat
  <2>3. On(0, coef[L], Flat(coef[L]))
    BY <2>1, PolynomialCases
  <2>4. L - 0 = L
    BY <1>2
  <2> QED  BY <2>2, <2>3, <2>4
<1>6. \A e \in Nat : e \in U => e + 1 \in U
  <2> SUFFICES ASSUME NEW e \in Nat, e \in U, e + 1 < L
               PROVE  On(e + 1, coef[L - (e + 1)], Part(e + 1))
    OBVIOUS
  <2> DEFINE j == L - (e + 1)
             c == coef[j]
  <2>1. j \in 1 .. L /\ j # L /\ j + 1 = L - e /\ e < L
    BY <1>2
  <2>2. On(e, coef[L - e], Part(e))
    BY <2>1
  <2>3. c \in F
    BY <1>1, <2>1
  <2>4. Part(e + 1) = Raised(c, Part(e))
    <3>1. ASSUME NEW i \in Players
          PROVE  at(i)[j] = c (+) (i (.) Part(e)[i])
      <4> HIDE DEF j
      <4>1. at(i)[j] = coef[j] (+) (i (.) at(i)[j + 1])
        BY <1>3, <2>1
      <4> QED  BY <4>1, <2>1
    <3> HIDE DEF c
    <3> QED  BY <3>1 DEF Raised
  <2> HIDE DEF Part, c
  <2>5. On(e + 1, c, Raised(c, Part(e)))
    BY <2>2, <2>3, PolynomialType
  <2> QED  BY <2>4, <2>5 DEF c
<1>7. m \in U
  <2> HIDE DEF U
  <2> QED  BY <1>5, <1>6, Induct
<1>8. m < L /\ L - m = 1
  BY DEF L
<1>9. On(m, coef[1], Part(m)) /\ Part(m) = [i \in Players |-> at(i)[1]]
  BY <1>7, <1>8
<1> HIDE DEF Part
<1> QED  BY <1>1, <1>4, <1>9

\* What is recombined of a sharing with the vector at 0 is what mul and open recombine.
LEMMA RecombineIsCached ==
    ASSUME PrimeField, NEW S \in SUBSET Players, NEW g, \A i \in S : g[i] \in F
    PROVE  Recombine(Field, [i \in S |-> g[i]]) = Recombined(S, g)
<1> DEFINE shares == [i \in S |-> g[i]]
           v == RecombinationVector(Field, S, 0)
           terms == [i \in S |-> g[i] (.) Vector[S][i]]
           P(f) == f = [s \in SUBSET S |->
                           IF s = {} THEN 0
                           ELSE LET x == CHOOSE x \in s : TRUE
                                IN  Add(Field, Mul(Field, shares[x], v[x]), f[s \ {x}])]
           f == CHOOSE f : P(f)
<1>1. DOMAIN shares = S
  OBVIOUS
<1>2. v = Vector[S]
  BY DEF Vector
<1>3. Recombine(Field, shares) = f[S]
  <2> DEFINE w == RecombinationVector(Field, DOMAIN shares, 0)
             iter[s \in SUBSET DOMAIN shares] ==
                 IF s = {} THEN 0
                 ELSE LET x == CHOOSE x \in s : TRUE
                      IN  Add(Field, Mul(Field, shares[x], w[x]), iter[s \ {x}])
  <2>1. Recombine(Field, shares) = iter[DOMAIN shares]
    BY DEF Recombine, RecombineAt, SumOver, MapThenFoldSet
  <2>2. iter = f
    <3> HIDE DEF shares
    <3> QED  BY <1>1
  <2> QED  BY <1>1, <2>1, <2>2
<1> HIDE DEF v
<1>4. IsFiniteSet(S) /\ \A i \in S : terms[i] \in F
  BY RecombinedInF
<1>5. \A h : P(h) <=> IsSum(h, S, terms)
  <2> TAKE h
  <2> DEFINE l == [s \in SUBSET S |->
                      IF s = {} THEN 0
                      ELSE Add(Field, Mul(Field, shares[Some(s)], v[Some(s)]),
                               h[s \ {Some(s)}])]
             r == [s \in SUBSET S |->
                      IF s = {} THEN 0
                      ELSE Add(Field, terms[Some(s)], h[s \ {Some(s)}])]
  <2>1. \A s \in SUBSET S : s # {} => Some(s) \in S
    BY <1>4, SomeIsMember
  <2>2. \A s \in SUBSET S : s # {} =>
           Mul(Field, shares[Some(s)], v[Some(s)]) = terms[Some(s)]
    BY <1>2, <2>1 DEF (.)
  <2>3. l = r
    <3> HIDE DEF shares, terms
    <3> QED  BY <2>2
  <2>4. P(h) <=> h = l
    BY DEF Some
  <2>5. IsSum(h, S, terms) <=> h = r
    BY DEF IsSum
  <2> QED  BY <2>3, <2>4, <2>5
<1> HIDE DEF shares, terms
<1>6. (\E h : IsSum(h, S, terms)) /\ \A h : IsSum(h, S, terms) => h[S] = SumOf(S, terms)
  BY <1>4, SumIsFold
<1>7. IsSum(f, S, terms)
  <2> HIDE DEF P
  <2>1. \E h : P(h)
    BY <1>5, <1>6
  <2>2. P(f)
    BY <2>1
  <2> QED  BY <1>5, <2>2
<1> HIDE DEF f
<1>8. Recombine(Field, shares) = SumOf(S, terms)
  BY <1>3, <1>6, <1>7
<1> QED  BY <1>8 DEF shares, terms, Recombined

\* Shamir's sharing: the shares of any m + 1 players, if the degree is m, recombine to
\* the secret, for every secret, randomness and prime field with room for the players.
THEOREM ShamirRecombines ==
    ASSUME PrimeField, NEW secret \in F, NEW m \in Nat, NEW r \in [1 .. m -> F],
           NEW S \in SUBSET Players, Cardinality(S) = m + 1
    PROVE  Recombine(Field, [i \in S |-> Share(Field, n, secret, r)[i]]) = secret
<1> DEFINE g == Share(Field, n, secret, r)
<1>1. On(m, secret, g)
  BY ShareIsOn
<1> HIDE DEF g
<1>2. \A i \in S : g[i] \in F
  BY <1>1, PolynomialType
<1>3. Recombined(S, g) = secret
  BY <1>1, Lagrange
<1> QED  BY <1>2, <1>3, RecombineIsCached DEF g

------------------------------------------------------------------------------
\* Sums of polynomials, and of their multiples.

\* A sum of polynomials, over a set, shares the sum of what they share.
LEMMA PolynomialSum ==
    ASSUME PrimeField, NEW d \in Nat, NEW S, IsFiniteSet(S), NEW v, NEW P,
           \A i \in S : On(d, v[i], P[i])
    PROVE  On(d, SumOf(S, v), [p \in Players |-> SumOf(S, [i \in S |-> P[i][p]])])
<1> DEFINE At(p) == [i \in S |-> P[i][p]]
           Total(s) == [p \in Players |-> SumOf(s, At(p))]
           T == {s \in SUBSET S : On(d, SumOf(s, v), Total(s))}
<1>1. \A i \in S : v[i] \in F /\ \A p \in Players : At(p)[i] = P[i][p] /\ At(p)[i] \in F
  BY PolynomialType
<1>2. \A s \in SUBSET S : IsFiniteSet(s)
  BY FS_Subset
<1> HIDE DEF At
<1>3. \A s \in SUBSET S : /\ SumOf(s, v) \in F
                          /\ \A a \in s : SumOf(s, v) = v[a] (+) SumOf(s \ {a}, v)
                          /\ s = {} => SumOf(s, v) = 0
  BY <1>1, <1>2, SumLaws
<1>4. \A p \in Players : \A s \in SUBSET S :
         /\ SumOf(s, At(p)) \in F
         /\ \A a \in s : SumOf(s, At(p)) = At(p)[a] (+) SumOf(s \ {a}, At(p))
         /\ s = {} => SumOf(s, At(p)) = 0
  <2> TAKE p \in Players
  <2> TAKE s \in SUBSET S
  <2>1. \A i \in s : At(p)[i] \in F
    BY <1>1
  <2> QED  BY <1>2, <2>1, SumLaws
<1>5. {} \in T
  <2>1. 0 \in F
    BY Operations
  <2>2. On(0, 0, Flat(0))
    BY <2>1, PolynomialCases
  <2>3. On(d, 0, Flat(0))
    BY <2>2, DegreeGrows
  <2>4. Total({}) = Flat(0) /\ SumOf({}, v) = 0
    BY <1>3, <1>4 DEF Flat
  <2> QED  BY <2>3, <2>4
<1>6. ASSUME NEW s \in SUBSET S, NEW a \in S \ s, s \in T
      PROVE  s \cup {a} \in T
  <2> DEFINE u == s \cup {a}
  <2>1. u \in SUBSET S /\ a \in u /\ u \ {a} = s
    OBVIOUS
  <2> HIDE DEF u
  <2>2. SumOf(u, v) = v[a] (+) SumOf(s, v)
    BY <1>3, <2>1
  <2>3. \A p \in Players : SumOf(u, At(p)) = P[a][p] (+) SumOf(s, At(p))
    BY <1>1, <1>4, <2>1
  <2>4. On(d, v[a] (+) SumOf(s, v), [p \in Players |-> P[a][p] (+) Total(s)[p]])
    <3>1. On(d, v[a], P[a]) /\ On(d, SumOf(s, v), Total(s))
      BY <1>6
    <3> HIDE DEF Total
    <3> QED  BY <3>1, PolynomialAdds
  <2>5. Total(u) = [p \in Players |-> P[a][p] (+) Total(s)[p]]
    BY <2>3
  <2>6. On(d, SumOf(u, v), Total(u))
    BY <2>2, <2>4, <2>5
  <2> HIDE DEF Total
  <2>7. u \in T
    BY <2>1, <2>6
  <2> QED  BY <2>7 DEF u
<1>7. S \in T
  <2>1. \A s \in SUBSET S : \A x \in S \ s : s \in T => s \cup {x} \in T
    BY <1>6
  <2> HIDE DEF T
  <2>2. SUBSET S \subseteq T
    BY <1>5, <2>1, SetInduct
  <2> QED  BY <2>2
<1> QED  BY <1>7 DEF At

\* Resharing: sharings of the values of a polynomial of degree 2t, recombined
\* share by share, are a sharing of its value at 0.
LEMMA Reshared ==
    ASSUME PrimeField, NEW d \in Nat, NEW v, NEW P, On(d, v, P),
           NEW S \in SUBSET Players, Cardinality(S) = d + 1,
           NEW e \in Nat, NEW Q, \A q \in S : On(e, P[q], Q[q])
    PROVE  On(e, v, [p \in Players |-> Recombined(S, [q \in S |-> Q[q][p]])])
<1> DEFINE vec == Vector[S]
           w == [q \in S |-> vec[q] (.) P[q]]
           A == [q \in S |-> [p \in Players |-> vec[q] (.) Q[q][p]]]
<1>1. P \in [Players -> F] /\ \A q \in S : Q[q] \in [Players -> F] /\ P[q] \in F
  BY PolynomialType
<1>2. IsFiniteSet(S) /\ \A q \in S : vec[q] \in F
  BY <1>1, RecombinedInF
<1> HIDE DEF vec
<1>3. \A q \in S : On(e, w[q], A[q])
  BY <1>2, PolynomialScales
<1> DEFINE At(p) == [q \in S |-> A[q][p]]
           Terms0(p) == [q \in S |-> Q[q][p] (.) vec[q]]
<1>4. On(e, SumOf(S, w), [p \in Players |-> SumOf(S, At(p))])
  <2> HIDE DEF w, A
  <2> QED  BY <1>2, <1>3, PolynomialSum
<1>5. SumOf(S, w) = v
  <2> DEFINE k == [q \in S |-> P[q] (.) vec[q]]
  <2>1. \A q \in S : w[q] = k[q]
    BY <1>1, <1>2, AddCommutes
  <2>2. w = k
    BY <2>1
  <2>3. Recombined(S, P) = SumOf(S, k)
    BY DEF Recombined, vec
  <2>4. Recombined(S, P) = v
    BY Lagrange
  <2> QED  BY <2>2, <2>3, <2>4
<1>6. \A p \in Players : SumOf(S, At(p)) = Recombined(S, [q \in S |-> Q[q][p]])
  <2> TAKE p \in Players
  <2>1. \A q \in S : At(p)[q] = Terms0(p)[q]
    <3> TAKE q \in S
    <3>1. Q[q][p] \in F
      BY <1>1
    <3> QED  BY <3>1, <1>2, AddCommutes
  <2>2. At(p) = Terms0(p)
    BY <2>1
  <2>3. Recombined(S, [q \in S |-> Q[q][p]]) = SumOf(S, Terms0(p))
    BY DEF vec, Recombined
  <2> QED  BY <2>2, <2>3
<1> HIDE DEF At
<1>7. [p \in Players |-> SumOf(S, At(p))]
         = [p \in Players |-> Recombined(S, [q \in S |-> Q[q][p]])]
  BY <1>6
<1> QED  BY <1>4, <1>5, <1>7

------------------------------------------------------------------------------
\* Linear combinations.

\* The summands that Combination adds up.
Summands(operation, m, s) ==
    [i \in 1 .. m + 1 |-> IF i = m + 1 THEN ToField(Field, operation.const)
                          ELSE ToField(Field, operation.coef[i]) (.) s[i]]

\* ToField gives elements.
LEMMA ToFieldInF ==
    ASSUME PrimeField, NEW c \in Int
    PROVE  ToField(Field, c) \in F
<1>1. Field \in Nat /\ Field > 1 /\ F = 0 .. Field - 1
  BY Operations
<1> QED  BY <1>1, Divided DEF ToField

\* What a local operation computes is a sum.
LEMMA CombinationIs ==
    ASSUME PrimeField, NEW operation, NEW m \in Nat, operation.const \in Int,
           \A i \in 1 .. m : operation.coef[i] \in Int,
           NEW s, DOMAIN s = 1 .. m, \A i \in 1 .. m : s[i] \in F
    PROVE  /\ Combination(Field, operation, s) = SumOf(1 .. m + 1, Summands(operation, m, s))
           /\ \A i \in 1 .. m + 1 : Summands(operation, m, s)[i] \in F
           /\ Combination(Field, operation, s) \in F
<1> DEFINE products == [i \in DOMAIN s |-> Mul(Field, ToField(Field, operation.coef[i]), s[i])]
           const == ToField(Field, operation.const)
           all == products \o <<const>>
           G == Summands(operation, m, s)
<1>1. \A i \in 1 .. m : ToField(Field, operation.coef[i]) (.) s[i] \in F
  BY ToFieldInF, ClosedInF
<1>2. products \in Seq(F) /\ Len(products) = m
  <2>1. products \in [1 .. m -> F]
    BY <1>1 DEF (.)
  <2> HIDE DEF products
  <2> QED  BY <2>1
<1>3. const \in F
  BY ToFieldInF
<1>4. \A i \in 1 .. m : products[i] = ToField(Field, operation.coef[i]) (.) s[i]
  BY DEF (.)
<1> HIDE DEF products, const
<1>5. /\ all \in Seq(F) /\ Len(all) = m + 1 /\ all[m + 1] = const
      /\ \A i \in 1 .. m : all[i] = products[i]
  BY <1>2, <1>3
<1>6. G = [i \in 1 .. m + 1 |-> G[i]] /\ \A i \in 1 .. m + 1 : G[i] = all[i]
  <2>1. \A i \in 1 .. m + 1 : i = m + 1 \/ i \in 1 .. m
    OBVIOUS
  <2>2. m + 1 \notin 1 .. m
    OBVIOUS
  <2> HIDE DEF all
  <2> QED  BY <2>1, <2>2, <1>4, <1>5 DEF Summands, const
<1> HIDE DEF all
<1>7. DOMAIN all = 1 .. m + 1 /\ \A i \in 1 .. m + 1 : all[i] \in F
  BY <1>5
<1>8. all = [i \in 1 .. m + 1 |-> all[i]]
  BY <1>5
<1>9. all = G
  <2> HIDE DEF G
  <2> QED  BY <1>6, <1>8
<1> HIDE DEF G
<1>10. IsFiniteSet(1 .. m + 1)
  BY FS_Interval
<1>11. FieldSum(Field, all) = SumOf(1 .. m + 1, all)
  BY <1>7, <1>10, FieldSumIs
<1>12. SumOf(1 .. m + 1, all) \in F
  BY <1>7, <1>10, SumLaws
<1>13. Combination(Field, operation, s) = FieldSum(Field, all)
  BY DEF Combination, all, products, const
<1> QED  BY <1>7, <1>9, <1>11, <1>12, <1>13 DEF G

Listed(m, v) == [i \in 1 .. m |-> v[i]]

\* What the players get who combine their shares of P[1], ... P[m].
Combined(operation, m, P) ==
    [p \in Players |-> Combination(Field, operation, [i \in 1 .. m |-> P[i][p]])]

\* A linear combination of sharings shares the combination.
LEMMA PolynomialsCombine ==
    ASSUME PrimeField, NEW operation, NEW m \in Nat, operation.const \in Int,
           \A i \in 1 .. m : operation.coef[i] \in Int,
           NEW d \in Nat, NEW v, NEW P, \A i \in 1 .. m : On(d, v[i], P[i])
    PROVE  On(d, Combination(Field, operation, Listed(m, v)), Combined(operation, m, P))
<1> DEFINE c(i) == ToField(Field, operation.coef[i])
           const == ToField(Field, operation.const)
           u == Summands(operation, m, [i \in 1 .. m |-> v[i]])
           A == [i \in 1 .. m + 1 |-> IF i = m + 1 THEN Flat(const)
                                      ELSE [p \in Players |-> c(i) (.) P[i][p]]]
           U(p) == Summands(operation, m, [i \in 1 .. m |-> P[i][p]])
           At(p) == [i \in 1 .. m + 1 |-> A[i][p]]
<1>1. const \in F /\ \A i \in 1 .. m : c(i) \in F
  BY ToFieldInF
<1>2. /\ \A i \in 1 .. m + 1 : i = m + 1 \/ i \in 1 .. m
      /\ m + 1 \notin 1 .. m /\ m + 1 \in 1 .. m + 1
      /\ IsFiniteSet(1 .. m + 1)
  BY FS_Interval
<1>3. \A i \in 1 .. m : v[i] \in F /\ \A p \in Players : P[i][p] \in F
  BY PolynomialType
<1>4. ASSUME NEW i \in 1 .. m + 1 PROVE On(d, u[i], A[i])
  <2>1. CASE i = m + 1
    BY <1>1, PolynomialCases, DegreeGrows, <2>1, <1>2 DEF Summands
  <2>2. CASE i \in 1 .. m
    <3>1. On(d, c(i) (.) v[i], [p \in Players |-> c(i) (.) P[i][p]])
      <4>1. c(i) \in F
        BY <1>1, <2>2
      <4> HIDE DEF c
      <4>2. On(d, v[i], P[i])
        BY <2>2
      <4> QED  BY <4>1, <4>2, PolynomialScales
    <3>2. i # m + 1
      BY <2>2, <1>2
    <3>3. u[i] = c(i) (.) v[i] /\ A[i] = [p \in Players |-> c(i) (.) P[i][p]]
      BY <2>2, <3>2 DEF Summands
    <3> QED  BY <3>1, <3>3
  <2> QED  BY <1>2, <2>1, <2>2
<1>5. On(d, SumOf(1 .. m + 1, u), [p \in Players |-> SumOf(1 .. m + 1, At(p))])
  <2> HIDE DEF u, A
  <2> QED  BY <1>2, <1>4, PolynomialSum
<1>6. Combination(Field, operation, [i \in 1 .. m |-> v[i]]) = SumOf(1 .. m + 1, u)
  <2> DEFINE s == [i \in 1 .. m |-> v[i]]
  <2>1. DOMAIN s = 1 .. m /\ \A i \in 1 .. m : s[i] \in F
    BY <1>3
  <2> HIDE DEF s
  <2>2. Combination(Field, operation, s) = SumOf(1 .. m + 1, Summands(operation, m, s))
    BY <2>1, CombinationIs
  <2> QED  BY <2>2 DEF s
<1>7. ASSUME NEW p \in Players
      PROVE  Combination(Field, operation, [i \in 1 .. m |-> P[i][p]]) = SumOf(1 .. m + 1, At(p))
  <2> DEFINE s == [i \in 1 .. m |-> P[i][p]]
  <2>1. DOMAIN s = 1 .. m /\ \A i \in 1 .. m : s[i] \in F
    BY <1>3
  <2>2. \A i \in 1 .. m + 1 : Summands(operation, m, s)[i] = A[i][p]
    BY <1>2 DEF Summands, Flat
  <2>3. Summands(operation, m, s) = At(p)
    <3>1. Summands(operation, m, s) = [i \in 1 .. m + 1 |-> Summands(operation, m, s)[i]]
      BY DEF Summands
    <3> HIDE DEF s, A
    <3> QED  BY <2>2, <3>1
  <2> HIDE DEF s
  <2>4. Combination(Field, operation, s) = SumOf(1 .. m + 1, Summands(operation, m, s))
    BY <2>1, CombinationIs
  <2> QED  BY <2>3, <2>4 DEF s
<1> DEFINE C(p) == Combination(Field, operation, [i \in 1 .. m |-> P[i][p]])
           R(p) == SumOf(1 .. m + 1, At(p))
<1>8. \A p \in Players : C(p) = R(p)
  BY <1>7
<1> HIDE DEF C, R
<1>9. [p \in Players |-> C(p)] = [p \in Players |-> R(p)]
  BY <1>8
<1> QED  BY <1>5, <1>6, <1>9 DEF C, R, Listed, Combined

------------------------------------------------------------------------------
\* Sequences that are made from front to back, as Settled and Values make theirs:
\* g[<<k, before>>] is the element after those in before.

ArePrefixes(f, L, g) ==
    f = [k \in 0 .. L |-> IF k = 0 THEN <<>> ELSE Append(f[k - 1], g[<<k, f[k - 1]>>])]

MakesElements(L, X, g) ==
    \A k \in 1 .. L : \A b \in Seq(X) : Len(b) = k - 1 => g[<<k, b>>] \in X

\* The prefixes are sequences of the right length.
LEMMA PrefixTypes ==
    ASSUME NEW L \in Nat, NEW X, NEW g, MakesElements(L, X, g), NEW f, ArePrefixes(f, L, g),
           NEW k \in 0 .. L
    PROVE  f[k] \in Seq(X) /\ Len(f[k]) = k
<1> DEFINE T == {m \in Nat : m <= L => f[m] \in Seq(X) /\ Len(f[m]) = m}
<1>1. 0 \in T
  BY DEF ArePrefixes
<1>2. \A m \in Nat : m \in T => m + 1 \in T
  <2> SUFFICES ASSUME NEW m \in Nat, m \in T, m + 1 <= L
               PROVE  f[m + 1] \in Seq(X) /\ Len(f[m + 1]) = m + 1
    OBVIOUS
  <2> DEFINE b == f[m]
             e == g[<<m + 1, b>>]
  <2>1. b \in Seq(X) /\ Len(b) = m
    OBVIOUS
  <2>2. f[m + 1] = Append(b, e)
    <3>1. m + 1 \in 0 .. L /\ m + 1 # 0 /\ (m + 1) - 1 = m
      OBVIOUS
    <3> QED  BY <3>1 DEF ArePrefixes
  <2> HIDE DEF b
  <2>3. e \in X
    BY <2>1 DEF MakesElements
  <2> HIDE DEF e
  <2> QED  BY <2>1, <2>2, <2>3
<1>3. k \in T
  <2> HIDE DEF T
  <2> QED  BY <1>1, <1>2, Induct
<1> QED  BY <1>3

\* The prefixes exist if every element can be made.
LEMMA PrefixesExist ==
    ASSUME NEW L \in Nat, NEW X, NEW g, MakesElements(L, X, g)
    PROVE  \E f : ArePrefixes(f, L, g)
<1> DEFINE D == 0 .. L
           V == Seq(X)
           size == [k \in D |-> k]
           pred == [k \in D |-> IF k = 0 THEN 0 ELSE k - 1]
           base == [k \in D |-> <<>>]
           step == [y \in D \X V |-> IF y[1] # 0 /\ Len(y[2]) = y[1] - 1
                                     THEN Append(y[2], g[y]) ELSE <<>>]
<1>1. Descends(D, size, pred)
  BY DEF Descends
<1>2. base \in [D -> V]
  OBVIOUS
<1>3. step \in [D \X V -> V]
  <2>1. ASSUME NEW k \in D, NEW b \in V, k # 0, Len(b) = k - 1
        PROVE  Append(b, g[<<k, b>>]) \in V
    BY <2>1 DEF MakesElements
  <2>2. <<>> \in V
    OBVIOUS
  <2>3. ASSUME NEW y \in D \X V
        PROVE  (IF y[1] # 0 /\ Len(y[2]) = y[1] - 1 THEN Append(y[2], g[y]) ELSE <<>>) \in V
    <3>1. y[1] \in D /\ y[2] \in V /\ y = <<y[1], y[2]>>
      OBVIOUS
    <3> HIDE DEF D, V
    <3> QED  BY <2>1, <2>2, <3>1
  <2> HIDE DEF D, V
  <2> QED  BY <2>3
<1> HIDE DEF V, size, pred, base, step
<1>4. PICK f \in [D -> V] : Solves(f, D, size, pred, base, step)
  BY <1>1, <1>2, <1>3, Recursion
<1>5. f[0] = <<>>
  BY <1>4 DEF Solves, size, base
<1>6. \A k \in D : k # 0 =>
         f[k] = IF Len(f[k - 1]) = k - 1 THEN Append(f[k - 1], g[<<k, f[k - 1]>>]) ELSE <<>>
  <2> SUFFICES ASSUME NEW k \in D, k # 0
               PROVE  f[k] = IF Len(f[k - 1]) = k - 1
                             THEN Append(f[k - 1], g[<<k, f[k - 1]>>]) ELSE <<>>
    OBVIOUS
  <2>1. f[k] = IF size[k] = 0 THEN base[k] ELSE step[<<k, f[pred[k]]>>]
    BY <1>4 DEF Solves
  <2>2. size[k] # 0 /\ pred[k] = k - 1 /\ k - 1 \in D
    BY DEF size, pred
  <2> DEFINE b == f[k - 1]
             y == <<k, b>>
  <2>3. b \in V
    BY <1>4, <2>2
  <2> HIDE DEF b, D
  <2>4. y \in D \X V /\ y[1] = k /\ y[2] = b
    BY <2>3
  <2>5. f[k] = step[y]
    BY <2>1, <2>2 DEF b
  <2> HIDE DEF y
  <2>6. step[y] = IF k # 0 /\ Len(b) = k - 1 THEN Append(b, g[y]) ELSE <<>>
    BY <2>4 DEF step
  <2> QED  BY <2>5, <2>6 DEF b, y
<1>7. \A k \in D : f[k] \in V
  BY <1>4
<1> DEFINE T == {m \in Nat : m <= L => Len(f[m]) = m}
<1>8. 0 \in T
  BY <1>5
<1>9. \A m \in Nat : m \in T => m + 1 \in T
  <2> SUFFICES ASSUME NEW m \in Nat, m \in T, m + 1 <= L PROVE Len(f[m + 1]) = m + 1
    OBVIOUS
  <2>1. m + 1 \in D /\ m + 1 # 0 /\ (m + 1) - 1 = m /\ m \in D
    OBVIOUS
  <2> DEFINE b == f[m]
             e == g[<<m + 1, b>>]
  <2>2. b \in Seq(X) /\ Len(b) = m
    BY <2>1, <1>7 DEF V
  <2>3. f[m + 1] = Append(b, e)
    BY <2>1, <2>2, <1>6
  <2>4. e \in X
    <3> HIDE DEF b
    <3>1. m + 1 \in 1 .. L /\ Len(b) = (m + 1) - 1
      BY <2>2
    <3> QED  BY <2>2, <3>1 DEF MakesElements
  <2> HIDE DEF b, e
  <2> QED  BY <2>2, <2>3, <2>4
<1>10. Nat \subseteq T
  <2> HIDE DEF T
  <2> QED  BY <1>8, <1>9, Induct
<1>11. \A k \in D : f[k] = IF k = 0 THEN <<>> ELSE Append(f[k - 1], g[<<k, f[k - 1]>>])
  <2> TAKE k \in D
  <2>1. CASE k = 0
    BY <2>1, <1>5
  <2>2. CASE k # 0
    BY <2>2, <1>10, <1>6
  <2> QED  BY <2>1, <2>2
<1>12. f = [k \in D |-> f[k]]
  BY <1>4
<1>13. ArePrefixes(f, L, g)
  BY <1>11, <1>12 DEF ArePrefixes
<1> QED  BY <1>13

HasElements(f, L, X, g) ==
    /\ f[L] \in [1 .. L -> X] /\ f[L] \in Seq(X) /\ Len(f[L]) = L
    /\ \A k \in 1 .. L : /\ f[L][k] = g[<<k, f[k - 1]>>]
                         /\ f[k - 1] \in Seq(X) /\ Len(f[k - 1]) = k - 1
                         /\ \A j \in 1 .. k - 1 : f[k - 1][j] = f[L][j]

\* An element depends on those before it, which are those of the whole sequence.
LEMMA PrefixElements ==
    ASSUME NEW L \in Nat, NEW X, NEW g, MakesElements(L, X, g), NEW f, ArePrefixes(f, L, g)
    PROVE  HasElements(f, L, X, g)
<1>1. \A k \in 0 .. L : f[k] \in Seq(X) /\ Len(f[k]) = k
  BY PrefixTypes
<1>2. \A k \in 1 .. L : f[k] = Append(f[k - 1], g[<<k, f[k - 1]>>])
  <2> TAKE k \in 1 .. L
  <2>1. k \in 0 .. L /\ k # 0
    OBVIOUS
  <2>2. f[k] = IF k = 0 THEN <<>> ELSE Append(f[k - 1], g[<<k, f[k - 1]>>])
    BY <2>1, Zenon DEF ArePrefixes
  <2> QED  BY <2>1, <2>2
<1>3. \A k \in 1 .. L : /\ f[k][k] = g[<<k, f[k - 1]>>]
                        /\ \A j \in 1 .. k - 1 : f[k][j] = f[k - 1][j]
  <2> TAKE k \in 1 .. L
  <2> DEFINE b == f[k - 1]
             e == g[<<k, b>>]
             c == f[k]
  <2>1. k - 1 \in 0 .. L /\ k \in 0 .. L
    OBVIOUS
  <2>2. b \in Seq(X) /\ Len(b) = k - 1 /\ c \in Seq(X) /\ Len(c) = k
    BY <1>1, <2>1
  <2>3. c = Append(b, e)
    BY <1>2
  <2> HIDE DEF b, c, e
  <2>4. c[k] = e /\ \A j \in 1 .. k - 1 : c[j] = b[j]
    BY <2>2, <2>3
  <2> QED  BY <2>4 DEF b, c, e
<1> DEFINE T == {m \in Nat : m <= L => \A j \in 1 .. L - m : f[L - m][j] = f[L][j]}
<1>4. 0 \in T
  OBVIOUS
<1>5. \A m \in Nat : m \in T => m + 1 \in T
  <2> SUFFICES ASSUME NEW m \in Nat, m \in T, m + 1 <= L, NEW j \in 1 .. L - (m + 1)
               PROVE  f[L - (m + 1)][j] = f[L][j]
    OBVIOUS
  <2>1. L - m \in 1 .. L /\ (L - m) - 1 = L - (m + 1) /\ j \in 1 .. (L - m) - 1 /\ j \in 1 .. L - m
    OBVIOUS
  <2>2. f[L - m][j] = f[(L - m) - 1][j]
    BY <1>3, <2>1
  <2>3. f[L - m][j] = f[L][j]
    BY <2>1
  <2> QED  BY <2>1, <2>2, <2>3
<1>6. Nat \subseteq T
  <2> HIDE DEF T
  <2> QED  BY <1>4, <1>5, Induct
<1>7. \A k \in 0 .. L : \A j \in 1 .. k : f[k][j] = f[L][j]
  <2> TAKE k \in 0 .. L
  <2>1. L - k \in T /\ L - k <= L /\ L - (L - k) = k
    BY <1>6
  <2> QED  BY <2>1
<1>8. \A k \in 1 .. L : /\ f[L][k] = g[<<k, f[k - 1]>>]
                        /\ f[k - 1] \in Seq(X) /\ Len(f[k - 1]) = k - 1
                        /\ \A j \in 1 .. k - 1 : f[k - 1][j] = f[L][j]
  <2> TAKE k \in 1 .. L
  <2>1. k \in 0 .. L /\ k - 1 \in 0 .. L /\ k \in 1 .. k
    OBVIOUS
  <2> QED  BY <1>1, <1>3, <1>7, <2>1
<1>9. f[L] \in Seq(X) /\ Len(f[L]) = L
  BY <1>1
<1>10. f[L] \in [1 .. L -> X]
  BY <1>9
<1> QED  BY <1>8, <1>9, <1>10 DEF HasElements

------------------------------------------------------------------------------
\* The program.

Arity(k) == Len(Code[k].of)

\* The operations are numbered from 1.
LEMMA OpsAreNumbers ==
    /\ Len(Code) \in Nat /\ Ops = 1 .. Len(Code)
    /\ \A k \in Ops : Code[k] \in Operation
<1>1. Code \in Seq(Operation)
  BY PassiveAssumption DEF IsProgram
<1> QED  BY <1>1 DEF Ops

\* The kinds of operations, and what each has.
LEMMA OperationKinds ==
    ASSUME NEW k \in Ops
    PROVE  /\ Code[k].do \in {"shamir_share", "local", "public", "times", "mul", "open"}
           /\ Code[k].do = "shamir_share" => Code[k].by \in Players
           /\ Code[k].do = "local" => Code[k].of \in Seq(Nat) /\ Arity(k) > 0
           /\ Code[k].do = "public" => Code[k].of \in [1 .. 1 -> Nat]
           /\ Code[k].do \in {"local", "public"} =>
                 /\ Code[k].const \in Int
                 /\ \A i \in 1 .. Arity(k) : Code[k].coef[i] \in Int
           /\ Code[k].do \in {"times", "mul"} => Code[k].of \in [1 .. 2 -> Nat]
           /\ Code[k].do = "open" => /\ Code[k].of \in [1 .. 1 -> Nat]
                                     /\ Code[k].to \subseteq Players /\ Code[k].threshold \in Nat
<1> DEFINE o == Code[k]
<1>1. o \in Operation
  BY OpsAreNumbers
<1>2. /\ o.do = "shamir_share" => o.by \in Players
      /\ o.do = "open" => o.to \subseteq Players
      /\ o.do = "local" => Len(o.of) > 0 /\ Len(o.coef) = Len(o.of)
  BY PassiveAssumption DEF IsProgram, Ops
<1> HIDE DEF o
<1>3. CASE o \in [do : {"shamir_share"}, by : Nat]
  BY <1>2, <1>3 DEF o
<1>4. CASE o \in [do : {"local"}, of : Seq(Nat), coef : Seq(Int), const : Int]
  BY <1>4, <1>2 DEF o, Arity
<1>7. CASE o \in [do : {"public"}, of : [1 .. 1 -> Nat], coef : [1 .. 1 -> Int], const : Int]
  <2>1. o.do = "public" /\ o.of \in [1 .. 1 -> Nat] /\ o.coef \in [1 .. 1 -> Int] /\ o.const \in Int
    BY <1>7
  <2>2. Len(o.of) = 1
    BY <2>1
  <2>3. \A i \in 1 .. Len(o.of) : o.coef[i] \in Int
    BY <2>1, <2>2
  <2> QED  BY <2>1, <2>2, <2>3 DEF o, Arity
<1>5. CASE o \in [do : {"times", "mul"}, of : [1 .. 2 -> Nat]]
  BY <1>5 DEF o
<1>6. CASE o \in [do : {"open"}, of : [1 .. 1 -> Nat], to : SUBSET Nat, threshold : Nat]
  BY <1>2, <1>6 DEF o
<1> QED  BY <1>1, <1>3, <1>4, <1>5, <1>6, <1>7 DEF Operation

\* Operands are sharings that earlier operations have made.
LEMMA OperandsComeBefore ==
    ASSUME NEW k \in Ops, Code[k].do # "shamir_share"
    PROVE  /\ Arity(k) \in Nat \ {0} /\ DOMAIN Code[k].of = 1 .. Arity(k)
           /\ Code[k].do \in {"times", "mul"} => Arity(k) = 2
           /\ Code[k].do \in {"public", "open"} => Arity(k) = 1
           /\ \A i \in 1 .. Arity(k) : /\ Code[k].of[i] \in 1 .. k - 1
                                       /\ Code[k].of[i] \in Ops
                                       /\ Code[Code[k].of[i]].do # "open"
<1>1. /\ Arity(k) \in Nat \ {0} /\ DOMAIN Code[k].of = 1 .. Arity(k)
      /\ Code[k].do \in {"times", "mul"} => Arity(k) = 2
      /\ Code[k].do \in {"public", "open"} => Arity(k) = 1
  <2>1. CASE Code[k].do = "local"
    BY <2>1, OperationKinds DEF Arity
  <2>2. CASE Code[k].do \in {"times", "mul"}
    BY <2>2, OperationKinds DEF Arity
  <2>3. CASE Code[k].do \in {"public", "open"}
    <3>1. Code[k].of \in [1 .. 1 -> Nat]
      BY <2>3, OperationKinds
    <3>2. Len(Code[k].of) = 1 /\ DOMAIN Code[k].of = 1 .. 1
      BY <3>1
    <3> QED  BY <2>3, <3>2 DEF Arity
  <2> QED  BY <2>1, <2>2, <2>3, OperationKinds
<1>2. \A i \in DOMAIN Code[k].of : Code[k].of[i] \in 1 .. k - 1 /\ Code[Code[k].of[i]].do # "open"
  BY PassiveAssumption DEF IsProgram, Ops
<1>3. 1 .. k - 1 \subseteq Ops
  BY OpsAreNumbers
<1> QED  BY <1>1, <1>2, <1>3

\* What holds of an operation if it holds of all before it holds of all.
LEMMA ForAllOps ==
    ASSUME NEW T, \A k \in Ops : (\A j \in 1 .. k - 1 : j \in T) => k \in T
    PROVE  Ops \subseteq T
<1> SUFFICES ASSUME Ops \ T # {} PROVE FALSE
  OBVIOUS
<1>1. Ops \ T \in SUBSET Nat
  BY OpsAreNumbers
<1> DEFINE W == Ops \ T
<1> HIDE DEF W
<1>2. PICK k \in W : \A j \in W : k <= j
  BY <1>1, LeastNat DEF W
<1>3. k \in Ops /\ k \notin T
  BY DEF W
<1>4. \A j \in 1 .. k - 1 : j \in Ops /\ ~ (k <= j)
  BY <1>3, OpsAreNumbers
<1>5. \A j \in 1 .. k - 1 : j \in T
  BY <1>2, <1>4 DEF W
<1> QED  BY <1>3, <1>5

\* Max of a finite set is its largest member.
LEMMA MaxIsMax ==
    ASSUME NEW S \in SUBSET Nat, IsFiniteSet(S), S # {}
    PROVE  Max(S) \in S /\ \A x \in S : x <= Max(S)
<1> DEFINE T == {s \in SUBSET S : s # {} => \E m \in s : \A x \in s : x <= m}
<1>1. {} \in T
  OBVIOUS
<1>2. ASSUME NEW s \in SUBSET S, NEW a \in S \ s, s \in T PROVE s \cup {a} \in T
  <2>1. CASE s = {}
    BY <2>1
  <2>2. CASE s # {}
    <3>1. PICK m \in s : \A x \in s : x <= m
      BY <1>2, <2>2
    <3>2. CASE a <= m
      BY <3>1, <3>2
    <3>3. CASE ~ (a <= m)
      BY <3>1, <3>3
    <3> QED  BY <3>2, <3>3
  <2> QED  BY <2>1, <2>2
<1>3. S \in T
  <2>1. \A s \in SUBSET S : \A x \in S \ s : s \in T => s \cup {x} \in T
    BY <1>2
  <2> HIDE DEF T
  <2>2. SUBSET S \subseteq T
    BY <1>1, <2>1, SetInduct
  <2> QED  BY <2>2
<1>4. \E m \in S : \A x \in S : m >= x
  BY <1>3
<1>5. Max(S) \in S /\ \A x \in S : Max(S) >= x
  BY <1>4 DEF Max
<1> QED  BY <1>5

\* The degrees exist, and an operation has at least that of an operand.
LEMMA Degrees ==
    \A k \in Ops :
       /\ Degree(k) \in Nat
       /\ Code[k].do \in {"local", "public"} => \A i \in 1 .. Arity(k) : Degree(Code[k].of[i]) <= Degree(k)
       /\ Code[k].do = "times" => Degree(k) = Degree(Code[k].of[1]) + Degree(Code[k].of[2])
       /\ Code[k].do \notin {"local", "public", "times"} => Degree(k) = t
<1> DEFINE L == Len(Code)
           Of(k, b) == {b[Code[k].of[j]] : j \in DOMAIN Code[k].of}
           value(k, b) == CASE Code[k].do \in {"local", "public"} -> Max(Of(k, b))
                            [] Code[k].do = "times" -> b[Code[k].of[1]] + b[Code[k].of[2]]
                            [] OTHER -> t
           Solution(d) == d = [k \in Ops |-> value(k, d)]
           degree == CHOOSE d : Solution(d)
           g == [y \in (1 .. L) \X Seq(Nat) |-> value(y[1], y[2])]
<1>1. L \in Nat /\ Ops = 1 .. L /\ t \in Nat
  BY OpsAreNumbers, PassiveAssumption
<1> HIDE DEF L
<1>2. ASSUME NEW k \in Ops, NEW b, \A j \in 1 .. k - 1 : b[j] \in Nat
      PROVE  /\ value(k, b) \in Nat
             /\ Code[k].do \in {"local", "public"} =>
                   \A i \in 1 .. Arity(k) : b[Code[k].of[i]] <= value(k, b)
  <2>1. CASE Code[k].do \in {"local", "public"}
    <3>1. /\ DOMAIN Code[k].of = 1 .. Arity(k) /\ Arity(k) \in Nat \ {0}
          /\ \A i \in 1 .. Arity(k) : Code[k].of[i] \in 1 .. k - 1
      BY <2>1, OperandsComeBefore
    <3>2. Of(k, b) \in SUBSET Nat /\ Of(k, b) # {}
      BY <3>1, <1>2
    <3>3. IsFiniteSet(Of(k, b))
      <4> DEFINE O == Of(k, b)
                 M == [j \in 1 .. Arity(k) |-> b[Code[k].of[j]]]
      <4>1. M \in [1 .. Arity(k) -> O]
        BY <3>1
      <4>2. \A x \in O : \E j \in 1 .. Arity(k) : M[j] = x
        BY <3>1
      <4> HIDE DEF O, M
      <4>3. ExistsSurjection(1 .. Arity(k), O)
        BY <4>1, <4>2 DEF ExistsSurjection, Surjection
      <4>4. IsFiniteSet(O)
        BY <4>3, <3>1, FS_NatSurjection
      <4> QED  BY <4>4 DEF O
    <3>4. \A i \in 1 .. Arity(k) : b[Code[k].of[i]] \in Of(k, b)
      BY <3>1
    <3> DEFINE O == Of(k, b)
    <3> HIDE DEF O
    <3>5. Max(O) \in O /\ \A x \in O : x <= Max(O)
      BY <3>2, <3>3, MaxIsMax DEF O
    <3>6. value(k, b) = Max(O)
      BY <2>1 DEF O
    <3> HIDE DEF value
    <3> QED  BY <3>2, <3>4, <3>5, <3>6 DEF O
  <2>2. CASE Code[k].do = "times"
    BY <2>2, OperandsComeBefore, <1>2
  <2>3. CASE Code[k].do \notin {"local", "public", "times"}
    BY <2>3, <1>1
  <2> QED  BY <2>1, <2>2, <2>3
<1>3. MakesElements(L, Nat, g)
  <2> SUFFICES ASSUME NEW k \in 1 .. L, NEW b \in Seq(Nat), Len(b) = k - 1
               PROVE  g[<<k, b>>] \in Nat
    BY DEF MakesElements
  <2>1. \A j \in 1 .. k - 1 : b[j] \in Nat
    BY <1>1
  <2>2. value(k, b) \in Nat
    BY <1>1, <1>2, <2>1
  <2> HIDE DEF value
  <2> QED  BY <2>2
<1>4. PICK f : ArePrefixes(f, L, g)
  <2> HIDE DEF g
  <2> QED  BY <1>1, <1>3, PrefixesExist
<1> DEFINE e == f[L]
<1>5. /\ e \in [1 .. L -> Nat]
      /\ \A k \in 1 .. L : /\ e[k] = g[<<k, f[k - 1]>>]
                           /\ f[k - 1] \in Seq(Nat) /\ Len(f[k - 1]) = k - 1
                           /\ \A j \in 1 .. k - 1 : f[k - 1][j] = e[j]
  <2> HIDE DEF g
  <2>1. HasElements(f, L, Nat, g)
    BY <1>1, <1>3, <1>4, PrefixElements
  <2> QED  BY <2>1 DEF HasElements
<1>6. ASSUME NEW k \in Ops, NEW b, NEW c, \A j \in 1 .. k - 1 : b[j] = c[j]
      PROVE  value(k, b) = value(k, c)
  <2>1. Code[k].do # "shamir_share" =>
           /\ DOMAIN Code[k].of = 1 .. Arity(k) /\ Arity(k) \in Nat \ {0}
           /\ \A i \in 1 .. Arity(k) : Code[k].of[i] \in 1 .. k - 1
    BY OperandsComeBefore
  <2>2. CASE Code[k].do \in {"local", "public"}
    <3>1. Of(k, b) = Of(k, c)
      BY <2>1, <2>2, <1>6
    <3> QED  BY <2>2, <3>1
  <2>3. CASE Code[k].do = "times"
    BY <2>3, OperandsComeBefore, <2>1, <1>6
  <2>4. CASE Code[k].do \notin {"local", "public", "times"}
    BY <2>4
  <2> QED  BY <2>2, <2>3, <2>4
<1>7. Solution(e)
  <2>1. ASSUME NEW k \in Ops PROVE e[k] = value(k, e)
    <3> DEFINE b == f[k - 1]
    <3>1. e[k] = g[<<k, b>>] /\ b \in Seq(Nat) /\ \A j \in 1 .. k - 1 : b[j] = e[j]
      BY <1>1, <1>5
    <3> HIDE DEF b, e
    <3> HIDE DEF value
    <3>2. value(k, b) = value(k, e)
      BY <1>6, <3>1
    <3>3. g[<<k, b>>] = value(k, b)
      BY <1>1, <3>1
    <3> QED  BY <3>1, <3>2, <3>3
  <2>2. e = [k \in Ops |-> e[k]]
    BY <1>1, <1>5
  <2> HIDE DEF value, e
  <2> QED  BY <2>1, <2>2
<1> HIDE DEF e, g
<1>8. Solution(degree)
  <2> HIDE DEF Solution
  <2> QED  BY <1>7
<1>9. \A k \in Ops : Degree(k) = degree[k]
  <2> TAKE k \in Ops
  <2> DEFINE d[i \in Ops] ==
                 LET of(j) == d[Code[i].of[j]]
                 IN  CASE Code[i].do \in {"local", "public"} -> Max({of(j) : j \in DOMAIN Code[i].of})
                       [] Code[i].do = "times" -> of(1) + of(2)
                       [] OTHER -> t
  <2>1. Degree(k) = d[k]
    BY DEF Degree
  <2>2. d = degree
    OBVIOUS
  <2> QED  BY <2>1, <2>2
<1> HIDE DEF degree
<1>10. \A k \in Ops : degree[k] = value(k, degree)
  <2>1. degree = [k \in Ops |-> value(k, degree)]
    BY <1>8
  <2> HIDE DEF value, Solution
  <2> QED  BY <2>1, Zenon
<1>11. \A k \in Ops : degree[k] \in Nat
  <2> DEFINE T == {k \in Ops : degree[k] \in Nat}
  <2>1. \A k \in Ops : (\A j \in 1 .. k - 1 : j \in T) => k \in T
    <3> SUFFICES ASSUME NEW k \in Ops, \A j \in 1 .. k - 1 : j \in T
                 PROVE  degree[k] \in Nat
      OBVIOUS
    <3>1. value(k, degree) \in Nat
      <4> HIDE DEF value
      <4> QED  BY <1>2
    <3> HIDE DEF value
    <3> QED  BY <3>1, <1>10
  <2> HIDE DEF T
  <2>2. Ops \subseteq T
    BY <2>1, ForAllOps
  <2> QED  BY <2>2 DEF T
<1>12. ASSUME NEW k \in Ops
       PROVE  /\ Degree(k) \in Nat
              /\ Code[k].do \in {"local", "public"} =>
                    \A i \in 1 .. Arity(k) : Degree(Code[k].of[i]) <= Degree(k)
              /\ Code[k].do = "times" =>
                    Degree(k) = Degree(Code[k].of[1]) + Degree(Code[k].of[2])
              /\ Code[k].do \notin {"local", "public", "times"} => Degree(k) = t
  <2>1. Code[k].do # "shamir_share" => \A i \in 1 .. Arity(k) : Code[k].of[i] \in Ops
    BY OperandsComeBefore
  <2>2. \A j \in 1 .. k - 1 : degree[j] \in Nat
    BY <1>1, <1>11
  <2>3. Code[k].do \in {"local", "public"} => \A i \in 1 .. Arity(k) : degree[Code[k].of[i]] <= value(k, degree)
    <3> HIDE DEF value
    <3> QED  BY <1>2, <2>2
  <2>4. CASE Code[k].do \in {"local", "public"}
    <3> HIDE DEF value
    <3> QED  BY <2>1, <2>3, <2>4, <1>9, <1>10, <1>11
  <2>5. CASE Code[k].do = "times"
    <3>1. 1 \in 1 .. Arity(k) /\ 2 \in 1 .. Arity(k)
      BY <2>5, OperandsComeBefore
    <3>2. value(k, degree) = degree[Code[k].of[1]] + degree[Code[k].of[2]]
      BY <2>5
    <3> HIDE DEF value
    <3> QED  BY <2>1, <2>5, <3>1, <3>2, <1>9, <1>10, <1>11
  <2>6. CASE Code[k].do \notin {"local", "public", "times"}
    <3>1. value(k, degree) = t
      BY <2>6
    <3> HIDE DEF value
    <3> QED  BY <2>6, <3>1, <1>9, <1>10, <1>11
  <2> QED  BY <2>4, <2>5, <2>6
<1> QED  BY <1>12

------------------------------------------------------------------------------
\* The numbers that the program computes.

Operands(k, b) == [i \in DOMAIN Code[k].of |-> b[Code[k].of[i]]]

\* Only what is before operation k matters to it.
LEMMA OperandsAre ==
    ASSUME NEW k \in Ops, Code[k].do # "shamir_share", NEW b
    PROVE  /\ Operands(k, b) = [i \in 1 .. Arity(k) |-> b[Code[k].of[i]]]
           /\ DOMAIN Operands(k, b) = 1 .. Arity(k)
           /\ \A i \in 1 .. Arity(k) : Operands(k, b)[i] = b[Code[k].of[i]]
           /\ \A c : (\A j \in 1 .. k - 1 : b[j] = c[j]) => Operands(k, b) = Operands(k, c)
           /\ \A X : (\A j \in 1 .. k - 1 : b[j] \in X) =>
                        \A i \in 1 .. Arity(k) : Operands(k, b)[i] \in X
<1>1. /\ DOMAIN Code[k].of = 1 .. Arity(k)
      /\ \A i \in 1 .. Arity(k) : Code[k].of[i] \in 1 .. k - 1
  BY OperandsComeBefore
<1>2. \A c : (\A j \in 1 .. k - 1 : b[j] = c[j]) => Operands(k, b) = Operands(k, c)
  BY <1>1 DEF Operands
<1> QED  BY <1>1, <1>2 DEF Operands

ValueOf(k, b, numbers) ==
    CASE Code[k].do = "shamir_share" -> numbers[Code[k].by]
      [] Code[k].do \in {"local", "public"} -> Combination(Field, Code[k], Operands(k, b))
      [] Code[k].do \in {"times", "mul"} -> Mul(Field, Operands(k, b)[1], Operands(k, b)[2])
      [] Code[k].do = "open" -> Operands(k, b)[1]

\* The number an operation stands for depends on those before it.
LEMMA ValueOfFacts ==
    ASSUME PrimeField, NEW numbers \in [Players -> F], NEW k \in Ops, NEW b
    PROVE  /\ (\A j \in 1 .. k - 1 : b[j] \in F) => ValueOf(k, b, numbers) \in F
           /\ \A c : (\A j \in 1 .. k - 1 : b[j] = c[j]) =>
                        ValueOf(k, b, numbers) = ValueOf(k, c, numbers)
<1>1. CASE Code[k].do = "shamir_share"
  BY <1>1, OperationKinds DEF ValueOf
<1>2. CASE Code[k].do # "shamir_share"
  <2>1. /\ DOMAIN Operands(k, b) = 1 .. Arity(k) /\ Arity(k) \in Nat \ {0}
        /\ (\A j \in 1 .. k - 1 : b[j] \in F) =>
              \A i \in 1 .. Arity(k) : Operands(k, b)[i] \in F
        /\ Code[k].do \in {"times", "mul"} => Arity(k) = 2
    BY <1>2, OperandsAre, OperandsComeBefore
  <2>2. \A c : (\A j \in 1 .. k - 1 : b[j] = c[j]) =>
                  ValueOf(k, b, numbers) = ValueOf(k, c, numbers)
    <3> TAKE c
    <3> HAVE \A j \in 1 .. k - 1 : b[j] = c[j]
    <3>1. Operands(k, b) = Operands(k, c)
      BY <1>2, OperandsAre
    <3> QED  BY <3>1 DEF ValueOf
  <2>3. ASSUME \A j \in 1 .. k - 1 : b[j] \in F PROVE ValueOf(k, b, numbers) \in F
    <3> DEFINE s == Operands(k, b)
    <3>1. DOMAIN s = 1 .. Arity(k) /\ \A i \in 1 .. Arity(k) : s[i] \in F
      BY <2>1, <2>3
    <3> HIDE DEF s
    <3>2. CASE Code[k].do \in {"local", "public"}
      <4>1. Code[k].const \in Int /\ \A i \in 1 .. Arity(k) : Code[k].coef[i] \in Int
        BY <3>2, OperationKinds
      <4>2. Combination(Field, Code[k], s) \in F
        BY <2>1, <3>1, <4>1, CombinationIs
      <4> QED  BY <3>2, <4>2 DEF ValueOf, s
    <3>3. CASE Code[k].do \in {"times", "mul"}
      BY <2>1, <3>3, <3>1, ClosedInF DEF ValueOf, s, (.)
    <3>4. CASE Code[k].do = "open"
      BY <2>1, <3>1, <3>4 DEF ValueOf, s
    <3> QED  BY <1>2, <3>2, <3>3, <3>4, OperationKinds
  <2> QED  BY <2>2, <2>3
<1> QED  BY <1>1, <1>2

\* Values satisfies its recursive definition.
LEMMA ValuesAre ==
    ASSUME PrimeField, NEW numbers \in [Players -> F]
    PROVE  \A k \in Ops : /\ Values(Field, Code, numbers)[k] \in F
                          /\ Values(Field, Code, numbers)[k]
                                = ValueOf(k, Values(Field, Code, numbers), numbers)
<1> DEFINE L == Len(Code)
           value(operation, before) ==
               LET operands == [i \in DOMAIN operation.of |-> before[operation.of[i]]]
               IN  CASE operation.do = "shamir_share" -> numbers[operation.by]
                     [] operation.do \in {"local", "public"} -> Combination(Field, operation, operands)
                     [] operation.do \in {"times", "mul"} ->
                           Mul(Field, operands[1], operands[2])
                     [] operation.do = "open" -> operands[1]
           P(f) == f = [k \in 0 .. L |->
                           IF k = 0 THEN <<>>
                           ELSE LET before == f[k - 1]
                                IN  Append(before, value(Code[k], before))]
           upTo == CHOOSE f : P(f)
           Y == Seq(F) \cup {upTo[k] : k \in 0 .. L}
           g == [y \in (1 .. L) \X Y |-> ValueOf(y[1], y[2], numbers)]
           V == upTo[L]
<1>1. L \in Nat /\ Ops = 1 .. L
  BY OpsAreNumbers
<1>2. Values(Field, Code, numbers) = V
  <2> DEFINE iter[k \in 0 .. Len(Code)] ==
                 IF k = 0 THEN <<>>
                 ELSE LET before == iter[k - 1]
                      IN  Append(before, value(Code[k], before))
  <2>1. Values(Field, Code, numbers) = iter[Len(Code)]
    BY DEF Values
  <2>2. iter = upTo
    OBVIOUS
  <2> QED  BY <2>1, <2>2
<1> HIDE DEF L
<1>3. \A k, b : value(Code[k], b) = ValueOf(k, b, numbers)
  BY DEF ValueOf, Operands
<1> HIDE DEF value
<1>4. \A k \in 1 .. L : \A b \in Y : g[<<k, b>>] = ValueOf(k, b, numbers)
  <2> HIDE DEF Y
  <2> QED  OBVIOUS
<1>5. Seq(F) \subseteq Y /\ \A k \in 0 .. L : upTo[k] \in Y
  OBVIOUS
<1> HIDE DEF g, Y
<1>6. MakesElements(L, F, g)
  <2> SUFFICES ASSUME NEW k \in 1 .. L, NEW b \in Seq(F), Len(b) = k - 1
               PROVE  g[<<k, b>>] \in F
    BY DEF MakesElements
  <2>1. \A j \in 1 .. k - 1 : b[j] \in F
    BY <1>1
  <2>2. ValueOf(k, b, numbers) \in F
    BY <1>1, <2>1, ValueOfFacts
  <2> QED  BY <1>4, <1>5, <2>2
<1>7. PICK f : ArePrefixes(f, L, g)
  BY <1>1, <1>6, PrefixesExist
<1>8. P(f)
  <2>1. ASSUME NEW k \in 0 .. L, k # 0
        PROVE  Append(f[k - 1], g[<<k, f[k - 1]>>]) = Append(f[k - 1], value(Code[k], f[k - 1]))
    BY <2>1, <1>1, <1>6, <1>7, PrefixElements, <1>3, <1>4, <1>5 DEF HasElements
  <2>2. f = [k \in 0 .. L |-> IF k = 0 THEN <<>> ELSE Append(f[k - 1], g[<<k, f[k - 1]>>])]
    BY <1>7 DEF ArePrefixes
  <2>3. [k \in 0 .. L |-> IF k = 0 THEN <<>> ELSE Append(f[k - 1], g[<<k, f[k - 1]>>])]
          = [k \in 0 .. L |-> IF k = 0 THEN <<>>
                              ELSE Append(f[k - 1], value(Code[k], f[k - 1]))]
    BY <2>1
  <2> QED  BY <2>2, <2>3
<1>9. P(upTo)
  <2> HIDE DEF P
  <2> QED  BY <1>8
<1> HIDE DEF upTo
<1>10. ArePrefixes(upTo, L, g)
  <2>1. ASSUME NEW k \in 0 .. L, k # 0
        PROVE  Append(upTo[k - 1], g[<<k, upTo[k - 1]>>])
                  = Append(upTo[k - 1], value(Code[k], upTo[k - 1]))
    BY <2>1, <1>1, <1>3, <1>4, <1>5
  <2>2. [k \in 0 .. L |-> IF k = 0 THEN <<>> ELSE Append(upTo[k - 1], g[<<k, upTo[k - 1]>>])]
          = [k \in 0 .. L |-> IF k = 0 THEN <<>>
                              ELSE Append(upTo[k - 1], value(Code[k], upTo[k - 1]))]
    BY <2>1
  <2> QED  BY <1>9, <2>2 DEF ArePrefixes
<1>11. /\ V \in [1 .. L -> F]
       /\ \A k \in 1 .. L : /\ V[k] = g[<<k, upTo[k - 1]>>]
                            /\ \A j \in 1 .. k - 1 : upTo[k - 1][j] = V[j]
  BY <1>1, <1>6, <1>10, PrefixElements DEF HasElements
<1>12. ASSUME NEW k \in Ops PROVE V[k] \in F /\ V[k] = ValueOf(k, V, numbers)
  <2> DEFINE b == upTo[k - 1]
  <2>1. k \in 1 .. L /\ k - 1 \in 0 .. L
    BY <1>1
  <2>2. V[k] = g[<<k, b>>] /\ b \in Y /\ \A j \in 1 .. k - 1 : b[j] = V[j]
    BY <1>5, <1>11, <2>1
  <2> HIDE DEF b, V
  <2>3. g[<<k, b>>] = ValueOf(k, b, numbers)
    BY <1>4, <2>1, <2>2
  <2>4. ValueOf(k, b, numbers) = ValueOf(k, V, numbers)
    BY <2>2, ValueOfFacts
  <2> QED  BY <1>11, <2>1, <2>2, <2>3, <2>4
<1> QED  BY <1>2, <1>12

------------------------------------------------------------------------------
\* The sharings that the players deal to each other, if nothing is garbled.

\* The pieces of the product that player q has, and the player p it sends them to.
PieceOf(k, b, random_of, q, p) ==
    Share(Field, n, b[Code[k].of[1]][q] (.) b[Code[k].of[2]][q], random_of[q][k])[p]

Recombiners == 1 .. 2 * t + 1

SharingOf(k, b, numbers, random_of) ==
    CASE Code[k].do = "shamir_share" ->
            Share(Field, n, numbers[Code[k].by], random_of[Code[k].by][k])
      [] Code[k].do \in {"local", "public"} ->
            [p \in Players |-> Combination(Field, Code[k],
                                   [i \in 1 .. Arity(k) |-> b[Code[k].of[i]][p]])]
      [] Code[k].do = "times" ->
            [p \in Players |-> b[Code[k].of[1]][p] (.) b[Code[k].of[2]][p]]
      [] Code[k].do = "mul" ->
            [p \in Players |->
                Recombined(Recombiners, [q \in Recombiners |-> PieceOf(k, b, random_of, q, p)])]
      [] Code[k].do = "open" -> Flat(0)

Randomness == [Players -> [Ops -> [1 .. t -> F]]]

\* The 2t + 1 players of mul are players.
LEMMA RecombinersArePlayers ==
    /\ Recombiners \in SUBSET Players /\ Cardinality(Recombiners) = 2 * t + 1
    /\ t \in Nat \ {0} /\ n \in Nat
<1>1. t \in Nat \ {0} /\ n \in Nat /\ 2 * t + 1 <= n
  BY PassiveAssumption
<1>2. Cardinality(1 .. 2 * t + 1) = 2 * t + 1
  BY <1>1, FS_Interval
<1> QED  BY <1>1, <1>2 DEF Recombiners, Players

\* A player's pieces share its product.
LEMMA PiecesAre ==
    ASSUME PrimeField, NEW random_of \in Randomness, NEW k \in Ops, NEW q \in Players,
           NEW secret \in F
    PROVE  /\ On(t, secret, Share(Field, n, secret, random_of[q][k]))
           /\ Share(Field, n, secret, random_of[q][k]) \in [Players -> F]
<1>1. random_of[q][k] \in [1 .. t -> F] /\ t \in Nat
  BY RecombinersArePlayers DEF Randomness
<1>2. On(t, secret, Share(Field, n, secret, random_of[q][k]))
  BY <1>1, ShareIsOn
<1> QED  BY <1>1, <1>2, PolynomialType

\* The sharing an operation makes depends on those before it.
LEMMA SharingOfFacts ==
    ASSUME PrimeField, NEW numbers \in [Players -> F], NEW random_of \in Randomness,
           NEW k \in Ops, NEW b
    PROVE  /\ (\A j \in 1 .. k - 1 : b[j] \in [Players -> F]) =>
                  SharingOf(k, b, numbers, random_of) \in [Players -> F]
           /\ \A c : (\A j \in 1 .. k - 1 : b[j] = c[j]) =>
                 SharingOf(k, b, numbers, random_of) = SharingOf(k, c, numbers, random_of)
<1>1. CASE Code[k].do = "shamir_share"
  BY <1>1, OperationKinds, PiecesAre DEF SharingOf
<1>2. CASE Code[k].do = "open"
  <2>1. 0 \in F
    BY Operations
  <2> QED  BY <1>2, <2>1 DEF SharingOf, Flat
<1>3. CASE Code[k].do \notin {"shamir_share", "open"}
  <2>1. Arity(k) \in Nat \ {0} /\ \A i \in 1 .. Arity(k) : Code[k].of[i] \in 1 .. k - 1
    BY <1>3, OperandsComeBefore
  <2>2. \A c : (\A j \in 1 .. k - 1 : b[j] = c[j]) =>
           SharingOf(k, b, numbers, random_of) = SharingOf(k, c, numbers, random_of)
    <3> SUFFICES ASSUME NEW c, \A j \in 1 .. k - 1 : b[j] = c[j]
                 PROVE  SharingOf(k, b, numbers, random_of) = SharingOf(k, c, numbers, random_of)
      OBVIOUS
    <3>1. \A i \in 1 .. Arity(k) : b[Code[k].of[i]] = c[Code[k].of[i]]
      BY <2>1
    <3>2. CASE Code[k].do \in {"local", "public"}
      BY <3>1, <3>2 DEF SharingOf
    <3>3. CASE Code[k].do \in {"times", "mul"}
      BY <3>3, OperandsComeBefore, <3>1 DEF SharingOf, PieceOf
    <3> QED  BY <1>3, <3>2, <3>3, OperationKinds
  <2>3. ASSUME \A j \in 1 .. k - 1 : b[j] \in [Players -> F]
        PROVE  SharingOf(k, b, numbers, random_of) \in [Players -> F]
    <3>1. \A i \in 1 .. Arity(k) : b[Code[k].of[i]] \in [Players -> F]
      BY <2>1, <2>3
    <3>2. CASE Code[k].do \in {"local", "public"}
      <4>1. Code[k].const \in Int /\ \A i \in 1 .. Arity(k) : Code[k].coef[i] \in Int
        BY <3>2, OperationKinds
      <4>2. ASSUME NEW p \in Players
            PROVE  Combination(Field, Code[k], [i \in 1 .. Arity(k) |-> b[Code[k].of[i]][p]]) \in F
        <5> DEFINE s == [i \in 1 .. Arity(k) |-> b[Code[k].of[i]][p]]
        <5>1. DOMAIN s = 1 .. Arity(k) /\ \A i \in 1 .. Arity(k) : s[i] \in F
          BY <3>1
        <5> HIDE DEF s
        <5>2. Combination(Field, Code[k], s) \in F
          BY <2>1, <4>1, <5>1, CombinationIs
        <5> QED  BY <5>2 DEF s
      <4> QED  BY <3>2, <4>2 DEF SharingOf
    <3>3. CASE Code[k].do = "times"
      BY <3>3, OperandsComeBefore, <3>1, ClosedInF DEF SharingOf
    <3>4. CASE Code[k].do = "mul"
      <4>1. 1 \in 1 .. Arity(k) /\ 2 \in 1 .. Arity(k)
        BY <3>4, OperandsComeBefore
      <4>2. ASSUME NEW p \in Players, NEW q \in Players PROVE PieceOf(k, b, random_of, q, p) \in F
        <5>1. b[Code[k].of[1]][q] (.) b[Code[k].of[2]][q] \in F
          BY <3>1, <4>1, ClosedInF
        <5>2. Share(Field, n, b[Code[k].of[1]][q] (.) b[Code[k].of[2]][q], random_of[q][k])
                 \in [Players -> F]
          BY <5>1, PiecesAre
        <5> QED  BY <5>2 DEF PieceOf
      <4>3. ASSUME NEW p \in Players
            PROVE  Recombined(Recombiners,
                       [q \in Recombiners |-> PieceOf(k, b, random_of, q, p)]) \in F
        <5> DEFINE g == [q \in Recombiners |-> PieceOf(k, b, random_of, q, p)]
        <5>1. \A q \in Recombiners : g[q] \in F
          BY <4>2, RecombinersArePlayers
        <5> HIDE DEF g
        <5>2. Recombined(Recombiners, g) \in F
          BY <5>1, RecombinersArePlayers, RecombinedInF
        <5> QED  BY <5>2 DEF g
      <4> QED  BY <3>4, <4>3 DEF SharingOf
    <3> QED  BY <1>3, <3>2, <3>3, <3>4, OperationKinds
  <2> QED  BY <2>2, <2>3
<1> QED  BY <1>1, <1>2, <1>3

AreDealt(e, numbers, random_of) ==
    e \in [Ops -> [Players -> F]]
        /\ \A k \in Ops : e[k] = SharingOf(k, e, numbers, random_of)

Dealt(numbers, random_of) == CHOOSE e : AreDealt(e, numbers, random_of)

\* The sharings that the players deal exist.
LEMMA DealtExists ==
    ASSUME PrimeField, NEW numbers \in [Players -> F], NEW random_of \in Randomness
    PROVE  AreDealt(Dealt(numbers, random_of), numbers, random_of)
<1> DEFINE L == Len(Code)
           X == [Players -> F]
           g == [y \in (1 .. L) \X Seq(X) |-> SharingOf(y[1], y[2], numbers, random_of)]
<1>1. L \in Nat /\ Ops = 1 .. L
  BY OpsAreNumbers
<1> HIDE DEF L
<1>2. \A k \in 1 .. L : \A b \in Seq(X) : g[<<k, b>>] = SharingOf(k, b, numbers, random_of)
  <2> HIDE DEF X
  <2> QED  OBVIOUS
<1> HIDE DEF g
<1>3. MakesElements(L, X, g)
  <2> SUFFICES ASSUME NEW k \in 1 .. L, NEW b \in Seq(X), Len(b) = k - 1
               PROVE  g[<<k, b>>] \in X
    BY DEF MakesElements
  <2>1. \A j \in 1 .. k - 1 : b[j] \in X
    <3> HIDE DEF X
    <3> QED  BY <1>1
  <2>2. SharingOf(k, b, numbers, random_of) \in X
    BY <1>1, <2>1, SharingOfFacts
  <2> QED  BY <1>2, <2>2
<1> DEFINE Y == X
<1>4. PICK f : ArePrefixes(f, L, g)
  <2> HIDE DEF X
  <2> QED  BY <1>1, <1>3, PrefixesExist
<1> DEFINE e == f[L]
<1>5. /\ e \in [1 .. L -> X]
      /\ \A k \in 1 .. L : /\ e[k] = g[<<k, f[k - 1]>>]
                           /\ f[k - 1] \in Seq(X)
                           /\ \A j \in 1 .. k - 1 : f[k - 1][j] = e[j]
  <2> HIDE DEF X
  <2>1. HasElements(f, L, X, g)
    BY <1>1, <1>3, <1>4, PrefixElements
  <2> QED  BY <2>1 DEF HasElements
<1>6. ASSUME NEW k \in Ops PROVE e[k] = SharingOf(k, e, numbers, random_of)
  <2> DEFINE b == f[k - 1]
  <2>1. e[k] = g[<<k, b>>] /\ b \in Seq(X) /\ \A j \in 1 .. k - 1 : b[j] = e[j]
    BY <1>1, <1>5
  <2> HIDE DEF b, e, X
  <2>2. g[<<k, b>>] = SharingOf(k, b, numbers, random_of)
    BY <1>1, <1>2, <2>1
  <2>3. SharingOf(k, b, numbers, random_of) = SharingOf(k, e, numbers, random_of)
    BY <2>1, SharingOfFacts
  <2> QED  BY <2>1, <2>2, <2>3
<1>7. AreDealt(e, numbers, random_of)
  <2> HIDE DEF e
  <2> QED  BY <1>1, <1>5, <1>6 DEF AreDealt
<1> HIDE DEF e
<1> QED  BY <1>7 DEF Dealt

\* What is dealt for an operation shares its number.
LEMMA DealtShares ==
    ASSUME PrimeField, NEW numbers \in [Players -> F], NEW random_of \in Randomness,
           NEW k \in Ops, Code[k].do # "open"
    PROVE  On(Degree(k), Values(Field, Code, numbers)[k], Dealt(numbers, random_of)[k])
<1> DEFINE V == Values(Field, Code, numbers)
           E == Dealt(numbers, random_of)
           Shares(j) == On(Degree(j), V[j], E[j])
           T == {j \in Ops : Code[j].do # "open" => Shares(j)}
<1>1. E \in [Ops -> [Players -> F]] /\ \A j \in Ops : E[j] = SharingOf(j, E, numbers, random_of)
  BY DealtExists DEF AreDealt
<1>2. \A j \in Ops : V[j] \in F /\ V[j] = ValueOf(j, V, numbers)
  BY ValuesAre
<1>3. \A j \in Ops : Degree(j) \in Nat
  BY Degrees
<1> HIDE DEF V, E
<1>4. ASSUME NEW j \in Ops, \A i \in 1 .. j - 1 : i \in T, Code[j].do # "open"
      PROVE  Shares(j)
  <2>1. CASE Code[j].do = "shamir_share"
    <3>1. Degree(j) = t /\ Code[j].by \in Players /\ numbers[Code[j].by] \in F
      BY <2>1, Degrees, OperationKinds
    <3>2. On(t, numbers[Code[j].by], Share(Field, n, numbers[Code[j].by], random_of[Code[j].by][j]))
      BY <3>1, PiecesAre
    <3>3. V[j] = numbers[Code[j].by]
      BY <2>1, <1>2 DEF ValueOf
    <3>4. E[j] = Share(Field, n, numbers[Code[j].by], random_of[Code[j].by][j])
      BY <2>1, <1>1 DEF SharingOf
    <3> QED  BY <3>1, <3>2, <3>3, <3>4
  <2>2. CASE Code[j].do # "shamir_share"
    <3> DEFINE o(i) == Code[j].of[i]
               m == Arity(j)
    <3>1. m \in Nat \ {0} /\ \A i \in 1 .. m : o(i) \in Ops /\ Shares(o(i)) /\ Degree(o(i)) \in Nat
      BY <2>2, <1>3, <1>4, OperandsComeBefore
    <3>2. Operands(j, V) = [i \in 1 .. m |-> V[o(i)]]
      BY <2>2, OperandsAre
    <3>3. CASE Code[j].do \in {"local", "public"}
      <4> DEFINE v == [i \in 1 .. m |-> V[o(i)]]
                 P == [i \in 1 .. m |-> E[o(i)]]
      <4>1. Code[j].const \in Int /\ \A i \in 1 .. m : Code[j].coef[i] \in Int
        BY <3>3, OperationKinds
      <4>2. \A i \in 1 .. m : On(Degree(j), v[i], P[i])
        <5> TAKE i \in 1 .. m
        <5>1. Degree(o(i)) <= Degree(j) /\ Degree(j) \in Nat /\ Degree(o(i)) \in Nat
          BY <3>1, <3>3, Degrees
        <5>2. On(Degree(o(i)), V[o(i)], E[o(i)])
          BY <3>1
        <5>3. On(Degree(j), V[o(i)], E[o(i)])
          BY <5>1, <5>2, DegreeGrows
        <5> QED  BY <5>3
      <4>3. /\ v = [i \in 1 .. m |-> v[i]]
            /\ \A p : [i \in 1 .. m |-> P[i][p]] = [i \in 1 .. m |-> E[o(i)][p]]
        OBVIOUS
      <4>4. E[j] = [p \in Players |-> Combination(Field, Code[j], [i \in 1 .. m |-> P[i][p]])]
        BY <1>1, <3>3, <4>3 DEF SharingOf
      <4>5. V[j] = Combination(Field, Code[j], [i \in 1 .. m |-> v[i]])
        BY <1>2, <3>2, <3>3, <4>3 DEF ValueOf
      <4> DEFINE d == Degree(j)
                 op == Code[j]
      <4>6. On(Degree(j), Combination(Field, Code[j], [i \in 1 .. m |-> v[i]]),
               [p \in Players |-> Combination(Field, Code[j], [i \in 1 .. m |-> P[i][p]])])
        <5>1. /\ m \in Nat /\ d \in Nat /\ op.const \in Int
              /\ \A i \in 1 .. m : op.coef[i] \in Int
              /\ \A i \in 1 .. m : On(d, v[i], P[i])
          BY <1>3, <3>1, <4>1, <4>2
        <5> HIDE DEF v, P, m, d, op
        <5>2. On(d, Combination(Field, op, Listed(m, v)), Combined(op, m, P))
          BY <5>1, PolynomialsCombine
        <5> QED  BY <5>2 DEF d, op, Listed, Combined
      <4> HIDE DEF v, P, m
      <4> QED  BY <4>4, <4>5, <4>6
    <3>4. CASE Code[j].do \in {"times", "mul"}
      <4> DEFINE d1 == Degree(o(1))
                 d2 == Degree(o(2))
                 P1 == E[o(1)]
                 P2 == E[o(2)]
                 v1 == V[o(1)]
                 v2 == V[o(2)]
                 P == [p \in Players |-> P1[p] (.) P2[p]]
      <4>1. /\ m = 2 /\ 1 \in 1 .. m /\ 2 \in 1 .. m
        BY <3>4, OperandsComeBefore
      <4>2. /\ d1 \in Nat /\ d2 \in Nat /\ On(d1, v1, P1) /\ On(d2, v2, P2)
            /\ P1 \in [Players -> F] /\ P2 \in [Players -> F]
        BY <1>1, <3>1, <4>1
      <4>3. V[j] = v1 (.) v2
        BY <1>2, <3>2, <3>4, <4>1 DEF ValueOf, (.)
      <4> HIDE DEF d1, d2, P1, P2, v1, v2
      <4>4. On(d1 + d2, v1 (.) v2, P)
        BY <4>2, PolynomialMultiplies
      <4>5. CASE Code[j].do = "times"
        BY <1>1, <4>5, Degrees, <4>3, <4>4 DEF SharingOf, P1, P2, d1, d2
      <4>6. CASE Code[j].do = "mul"
        <5> DEFINE Q == [q \in Players |-> Share(Field, n, P[q], random_of[q][j])]
        <5>1. d1 + d2 <= 2 * t
          BY <4>6, DegreeAssumption DEF d1, d2
        <5>2. 2 * t \in Nat /\ d1 + d2 \in Nat /\ t \in Nat
          BY <4>2, RecombinersArePlayers
        <5>3. On(2 * t, v1 (.) v2, P)
          <6> HIDE DEF P
          <6> QED  BY <4>4, <5>1, <5>2, DegreeGrows
        <5>4. \A q \in Recombiners : On(t, P[q], Q[q])
          <6> TAKE q \in Recombiners
          <6>1. q \in Players
            BY RecombinersArePlayers
          <6>2. P[q] \in F
            BY <4>2, <6>1, ClosedInF
          <6> HIDE DEF P
          <6> QED  BY <6>1, <6>2, PiecesAre
        <5>5. On(t, v1 (.) v2,
                 [p \in Players |-> Recombined(Recombiners, [q \in Recombiners |-> Q[q][p]])])
          <6> HIDE DEF P, Q
          <6> QED  BY <5>2, <5>3, <5>4, RecombinersArePlayers, Reshared
        <5>6. \A p \in Players : \A q \in Recombiners :
                 Q[q][p] = PieceOf(j, E, random_of, q, p)
          BY RecombinersArePlayers DEF PieceOf, P1, P2
        <5>7. \A p \in Players : [q \in Recombiners |-> Q[q][p]]
                                   = [q \in Recombiners |-> PieceOf(j, E, random_of, q, p)]
          BY <5>6
        <5>8. E[j] = [p \in Players |-> Recombined(Recombiners, [q \in Recombiners |-> Q[q][p]])]
          <6>1. E[j] = [p \in Players |->
                           Recombined(Recombiners,
                                      [q \in Recombiners |-> PieceOf(j, E, random_of, q, p)])]
            BY <1>1, <4>6 DEF SharingOf
          <6> HIDE DEF Q
          <6> QED  BY <5>7, <6>1
        <5>9. Degree(j) = t
          BY <4>6, Degrees
        <5> QED  BY <4>3, <5>5, <5>8, <5>9
      <4> QED  BY <3>4, <4>5, <4>6
    <3> QED  BY <1>4, <2>2, <3>3, <3>4, OperationKinds
  <2> QED  BY <2>1, <2>2
<1>5. \A j \in Ops : (\A i \in 1 .. j - 1 : i \in T) => j \in T
  BY <1>4
<1>6. Ops \subseteq T
  <2> HIDE DEF T
  <2> QED  BY <1>5, ForAllOps
<1> QED  BY <1>6 DEF V, E

\* No sharing has a degree below t.
LEMMA DegreeAtLeastT ==
    ASSUME NEW k \in Ops, Code[k].do # "open"
    PROVE  t <= Degree(k) /\ Degree(k) \in Nat
<1> DEFINE T == {j \in Ops : t <= Degree(j)}
<1>1. ASSUME NEW j \in Ops, \A i \in 1 .. j - 1 : i \in T PROVE t <= Degree(j)
  <2>0. Degree(j) \in Nat /\ t \in Nat
    BY Degrees, RecombinersArePlayers
  <2>1. CASE Code[j].do \in {"local", "public", "times"}
    <3>1. Arity(j) \in Nat \ {0} /\ \A i \in 1 .. Arity(j) : Code[j].of[i] \in 1 .. j - 1
      BY <2>1, OperandsComeBefore
    <3>2. 1 \in 1 .. Arity(j)
      BY <3>1
    <3>3. t <= Degree(Code[j].of[1]) /\ Degree(Code[j].of[1]) \in Nat
      BY <1>1, <3>1, <3>2, Degrees
    <3>4. CASE Code[j].do \in {"local", "public"}
      BY <3>2, <3>4, Degrees, <2>0, <3>3
    <3>5. CASE Code[j].do = "times"
      BY <3>5, Degrees, OperandsComeBefore, <1>1, <3>1, <2>0, <3>3
    <3> QED  BY <2>1, <3>4, <3>5
  <2>2. CASE Code[j].do \notin {"local", "public", "times"}
    BY <2>0, <2>2, Degrees
  <2> QED  BY <2>1, <2>2
<1>2. Ops \subseteq T
  <2>1. \A j \in Ops : (\A i \in 1 .. j - 1 : i \in T) => j \in T
    BY <1>1
  <2> HIDE DEF T
  <2> QED  BY <2>1, ForAllOps
<1> QED  BY <1>2, Degrees

------------------------------------------------------------------------------
\* The first players of a set.

\* FirstOf(S, k) has k members of S, or all of them if S has fewer.
LEMMA FirstOfFew ==
    ASSUME NEW S \in SUBSET Players, NEW k \in Nat
    PROVE  /\ FirstOf(S, k) \subseteq S /\ IsFiniteSet(S) /\ Cardinality(S) \in Nat
           /\ Cardinality(FirstOf(S, k)) = IF Cardinality(S) < k THEN Cardinality(S) ELSE k
<1> DEFINE Few(s) == Cardinality(FirstOf(s, k)) = IF Cardinality(s) < k THEN Cardinality(s) ELSE k
           U == {m \in Nat : \A s \in SUBSET Players : Cardinality(s) = m => Few(s)}
<1>1. \A s \in SUBSET Players : IsFiniteSet(s) /\ Cardinality(s) \in Nat /\ s \in SUBSET Nat
  <2>1. Players \in SUBSET Nat
    BY RecombinersArePlayers DEF Players
  <2> QED  BY <2>1, PlayersFinite, FS_Subset, FS_CardinalityType
<1>2. 0 \in U
  <2> SUFFICES ASSUME NEW s \in SUBSET Players, Cardinality(s) = 0 PROVE Few(s)
    OBVIOUS
  <2>1. s = {} /\ Cardinality({}) = 0
    BY <1>1, FS_EmptySet
  <2>2. FirstOf(s, k) = {}
    BY <2>1 DEF FirstOf
  <2> QED  BY <2>1, <2>2
<1>3. ASSUME NEW m \in Nat, m \in U, NEW s \in SUBSET Players, Cardinality(s) = m + 1
      PROVE  Few(s)
  <2>1. s # {} /\ s \in SUBSET Nat /\ IsFiniteSet(s)
    BY <1>1, <1>3, FS_EmptySet
  <2> DEFINE x == Max(s)
  <2>2. x \in s /\ \A q \in s : q <= x
    BY <2>1, MaxIsMax
  <2> HIDE DEF x
  <2> DEFINE u == s \ {x}
  <2>3. u \in SUBSET Players /\ Cardinality(u) = m /\ {r \in s : r < x} = u
    <3>1. Cardinality(u) = Cardinality(s) - 1
      BY <2>1, <2>2, FS_RemoveElement
    <3>2. \A r \in s : r < x <=> r # x
      BY <2>1, <2>2
    <3> QED  BY <1>3, <3>1, <3>2
  <2>4. Few(u)
    BY <1>3, <2>3
  <2>5. \A q \in u : {r \in s : r < q} = {r \in u : r < q}
    BY <2>1, <2>2
  <2>6. FirstOf(s, k) = FirstOf(u, k) \cup (IF m < k THEN {x} ELSE {})
    <3>1. \A q \in s : q \in FirstOf(s, k) <=> Cardinality({r \in s : r < q}) < k
      BY DEF FirstOf
    <3>2. \A q \in u : q \in FirstOf(u, k) <=> Cardinality({r \in u : r < q}) < k
      BY DEF FirstOf
    <3>3. FirstOf(s, k) \subseteq s /\ FirstOf(u, k) \subseteq u
      BY DEF FirstOf
    <3>4. x \in FirstOf(s, k) <=> m < k
      BY <2>2, <2>3, <3>1
    <3>5. \A q \in u : q \in FirstOf(s, k) <=> q \in FirstOf(u, k)
      BY <2>5, <3>1, <3>2
    <3>6. s = u \cup {x} /\ x \notin u
      BY <2>2
    <3> HIDE DEF u
    <3> QED  BY <3>3, <3>4, <3>5, <3>6
  <2>7. x \notin FirstOf(u, k) /\ IsFiniteSet(FirstOf(u, k))
    <3>1. FirstOf(u, k) \subseteq u
      BY DEF FirstOf
    <3>2. IsFiniteSet(u)
      BY <1>1, <2>3
    <3> QED  BY <3>1, <3>2, FS_Subset
  <2> DEFINE few == FirstOf(u, k)
             c == Cardinality(few)
  <2>8. c = IF m < k THEN m ELSE k
    BY <2>3, <2>4
  <2> HIDE DEF few
  <2>9. CASE m < k
    <3>1. FirstOf(s, k) = few \cup {x} /\ x \notin few /\ IsFiniteSet(few)
      BY <2>6, <2>7, <2>9 DEF few
    <3>2. Cardinality(few \cup {x}) = c + 1
      BY <3>1, FS_AddElement
    <3> QED  BY <1>3, <2>8, <2>9, <3>1, <3>2
  <2>10. CASE ~ (m < k)
    BY <2>6, <2>10, <1>3, <2>8 DEF few
  <2> QED  BY <2>9, <2>10
<1>4. \A m \in Nat : m \in U => m + 1 \in U
  <2> HIDE DEF Few
  <2> QED  BY <1>3
<1>5. Cardinality(S) \in U
  <2> HIDE DEF U
  <2> QED  BY <1>1, <1>2, <1>4, Induct
<1>6. FirstOf(S, k) \subseteq S
  BY DEF FirstOf
<1> QED  BY <1>1, <1>5, <1>6

------------------------------------------------------------------------------
\* What the players may have got and sent, in a state of the runtime.

Setting == input \in [Players -> F] /\ random \in Randomness

Deal == Dealt(input, random)
Number(k) == Values(Field, Code, input)[k]

\* What waits for garbled data fails.
Trouble == IF garbled = {} THEN {} ELSE {Failed}

\* What q sends to p for operation k, if it is not garbled, and whether it does.
Sent(q, k, p) ==
    CASE Code[k].do = "shamir_share" -> Deal[k][p]
      [] Code[k].do = "mul" -> PieceOf(k, Deal, random, q, p)
      [] Code[k].do = "open" -> Deal[Code[k].of[1]][q]

Sends(q, k, p) ==
    /\ Code[k].do \in {"shamir_share", "mul", "open"}
    /\ Code[k].do = "shamir_share" => Code[k].by = q
    /\ Code[k].do = "open" => p \in Code[k].to

Carried(q, k, p) == {Sent(q, k, p)} \cup Trouble

\* What an open may give its receivers.
Replies(k) ==
    {Number(k)} \cup Trouble
       \cup (IF garbled = {} \/ Code[k].threshold < 2 THEN {} ELSE F)

Allowed(p, k) ==
    IF Code[k].do = "open" THEN {None} \cup (IF p \in Code[k].to THEN Replies(k) ELSE {})
    ELSE {None, Deal[k][p]} \cup Trouble

\* Shares that have come in at p for operation k.
HaveArrived(p, k, got) ==
    /\ DOMAIN got \subseteq Players \ {p}
    /\ \A q \in DOMAIN got : Sends(q, k, p) /\ got[q] \in Carried(q, k, p)

\* None and Failed are no elements.
LEMMA NotInF ==
    None \notin F /\ Failed \notin F /\ Failed # None
BY PassiveAssumption DEF F

\* What is dealt shares what the program computes, in any typed state.
LEMMA DealIs ==
    ASSUME PrimeField, Setting
    PROVE  /\ Deal \in [Ops -> [Players -> F]]
           /\ \A k \in Ops : /\ Deal[k] = SharingOf(k, Deal, input, random)
                             /\ Number(k) \in F /\ Number(k) = ValueOf(k, Values(Field, Code, input), input)
                             /\ Code[k].do # "open" => On(Degree(k), Number(k), Deal[k])
<1>1. AreDealt(Deal, input, random)
  BY DealtExists DEF Setting, Deal
<1>2. \A k \in Ops : Number(k) \in F /\ Number(k) = ValueOf(k, Values(Field, Code, input), input)
  BY ValuesAre DEF Setting, Number
<1>3. \A k \in Ops : Code[k].do # "open" => On(Degree(k), Number(k), Deal[k])
  BY DealtShares DEF Setting, Number, Deal
<1> QED  BY <1>1, <1>2, <1>3 DEF AreDealt

\* The pieces of the product that the players deal in a mul.
LEMMA PiecesInF ==
    ASSUME PrimeField, Setting, NEW k \in Ops, Code[k].do = "mul", NEW p \in Players,
           NEW q \in Players
    PROVE  /\ Code[k].of[1] \in Ops /\ Code[k].of[2] \in Ops
           /\ Deal[Code[k].of[1]][q] (.) Deal[Code[k].of[2]][q] \in F
           /\ PieceOf(k, Deal, random, q, p) \in F
<1>1. /\ 1 \in 1 .. Arity(k) /\ 2 \in 1 .. Arity(k)
      /\ Code[k].of[1] \in Ops /\ Code[k].of[2] \in Ops
  BY OperandsComeBefore
<1> DEFINE product == Deal[Code[k].of[1]][q] (.) Deal[Code[k].of[2]][q]
<1>2. product \in F
  BY <1>1, DealIs, ClosedInF
<1>3. Share(Field, n, product, random[q][k]) \in [Players -> F]
  <2> HIDE DEF product
  <2> QED  BY <1>2, PiecesAre DEF Setting
<1> QED  BY <1>1, <1>2, <1>3 DEF PieceOf

\* What is sent are elements.
LEMMA SentInF ==
    ASSUME PrimeField, Setting, NEW k \in Ops, NEW p \in Players, NEW q \in Players,
           Code[k].do \in {"shamir_share", "mul", "open"}
    PROVE  Sent(q, k, p) \in F
<1>1. CASE Code[k].do = "shamir_share"
  BY <1>1, DealIs DEF Sent
<1>2. CASE Code[k].do = "mul"
  BY <1>2, PiecesInF DEF Sent
<1>3. CASE Code[k].do = "open"
  <2>1. Code[k].of[1] \in Ops
    BY <1>3, OperandsComeBefore
  <2> QED  BY <1>3, <2>1, DealIs DEF Sent
<1> QED  BY <1>1, <1>2, <1>3

\* What may be got, and what may be on its way, has its type.
LEMMA AllowedIsReading ==
    ASSUME PrimeField, Setting, NEW k \in Ops, NEW p \in Players
    PROVE  /\ Allowed(p, k) \subseteq Reading \cup {None} /\ None \in Allowed(p, k)
           /\ \A q \in Players : Sends(q, k, p) => Carried(q, k, p) \subseteq Reading
<1>1. Deal[k][p] \in F /\ Number(k) \in F
  BY DealIs
<1>2. \A q \in Players : Sends(q, k, p) => Sent(q, k, p) \in F
  BY SentInF DEF Sends
<1>3. Trouble \subseteq Reading
  BY DEF Trouble, Reading
<1>4. F \subseteq Reading
  BY DEF Reading, F
<1> QED  BY <1>1, <1>2, <1>3, <1>4 DEF Allowed, Replies, Carried

\* Fired only looks at what is before the operation.
LEMMA FiredLooksBack ==
    ASSUME NEW p, NEW k \in Ops, NEW b, NEW c, \A j \in 1 .. k - 1 : b[j] = c[j], NEW got
    PROVE  Fired(p, k, b, got) = Fired(p, k, c, got)
<1>1. CASE Code[k].do = "shamir_share"
  BY <1>1 DEF Fired
<1>2. CASE Code[k].do # "shamir_share"
  BY <1>2, OperandsAre DEF Fired, Operands
<1> QED  BY <1>1, <1>2

\* What an operation sees: nothing yet, a failure, or the shares it was dealt.
LEMMA OperandsDealt ==
    ASSUME PrimeField, Setting, NEW p \in Players, NEW k \in Ops,
           Code[k].do # "shamir_share", NEW b, \A j \in 1 .. k - 1 : b[j] \in Allowed(p, j)
    PROVE  \/ \E i \in DOMAIN Operands(k, b) : Operands(k, b)[i] = None
           \/ /\ Failed \in Trouble
              /\ ~ \E i \in DOMAIN Operands(k, b) : Operands(k, b)[i] = None
              /\ \E i \in DOMAIN Operands(k, b) : Operands(k, b)[i] = Failed
           \/ /\ ~ \E i \in DOMAIN Operands(k, b) : Operands(k, b)[i] = None
              /\ ~ \E i \in DOMAIN Operands(k, b) : Operands(k, b)[i] = Failed
              /\ DOMAIN Operands(k, b) = 1 .. Arity(k)
              /\ \A i \in 1 .. Arity(k) : /\ Operands(k, b)[i] = Deal[Code[k].of[i]][p]
                                          /\ Code[k].of[i] \in Ops
                                          /\ Code[Code[k].of[i]].do # "open"
<1> DEFINE s == Operands(k, b)
<1>1. /\ DOMAIN s = 1 .. Arity(k)
      /\ \A i \in 1 .. Arity(k) : s[i] = b[Code[k].of[i]]
  BY OperandsAre
<1>2. \A i \in 1 .. Arity(k) : /\ Code[k].of[i] \in 1 .. k - 1
                               /\ Code[k].of[i] \in Ops
                               /\ Code[Code[k].of[i]].do # "open"
  BY OperandsComeBefore
<1> HIDE DEF s
<1>3. ASSUME NEW i \in 1 .. Arity(k)
      PROVE  s[i] \in {None, Deal[Code[k].of[i]][p]} \cup Trouble
  <2>1. s[i] \in Allowed(p, Code[k].of[i])
    BY <1>1, <1>2
  <2> QED  BY <1>2, <2>1 DEF Allowed
<1>4. Trouble \subseteq {Failed}
  BY DEF Trouble
<1>5. \A i \in 1 .. Arity(k) : Deal[Code[k].of[i]][p] \in F
  BY <1>2, DealIs
<1>6. CASE \E i \in DOMAIN s : s[i] = None
  BY <1>6 DEF s
<1>7. CASE (\E i \in DOMAIN s : s[i] = Failed) /\ ~ (\E i \in DOMAIN s : s[i] = None)
  BY <1>1, <1>3, <1>5, <1>7, NotInF DEF s
<1>8. CASE ~ (\E i \in DOMAIN s : s[i] = Failed) /\ ~ (\E i \in DOMAIN s : s[i] = None)
  BY <1>1, <1>3, <1>4, <1>8, <1>2 DEF s
<1> QED  BY <1>6, <1>7, <1>8

\* An operation that needs no message gives what was dealt.
LEMMA LocalAllowed ==
    ASSUME PrimeField, Setting, NEW p \in Players, NEW k \in Ops,
           Code[k].do \in {"local", "public", "times"}, share[p][k] = None,
           NEW b, \A j \in 1 .. k - 1 : b[j] \in Allowed(p, j), NEW got
    PROVE  Fired(p, k, b, got) \in Allowed(p, k)
<1> DEFINE s == Operands(k, b)
<1>1. Allowed(p, k) = {None, Deal[k][p]} \cup Trouble
  BY DEF Allowed
<1>2. Deal[k] = SharingOf(k, Deal, input, random)
  BY DealIs
<1>3. CASE Code[k].do \in {"local", "public"}
  <2>1. \/ Fired(p, k, b, got) = IF \E i \in DOMAIN s : s[i] = None THEN None
                                 ELSE IF \E i \in DOMAIN s : s[i] = Failed THEN Failed
                                 ELSE Combination(Field, Code[k], s)
        \/ /\ Fired(p, k, b, got) = IF s[1] \in {None, Failed} THEN None
                                    ELSE Combination(Field, Code[k], s)
           /\ 1 \in DOMAIN s /\ DOMAIN s = 1 .. 1
    <3>1. CASE Code[k].do = "local"
      BY <3>1 DEF Fired, Gather, Operands
    <3>2. CASE Code[k].do = "public"
      <4>1. DOMAIN s = 1 .. 1
        BY <3>2, OperandsAre, OperandsComeBefore
      <4>2. Fired(p, k, b, got) = IF s[1] \in {None, Failed} THEN None
                                  ELSE Combination(Field, Code[k], s)
        BY <3>2 DEF Fired, Clone, Operands
      <4> QED  BY <4>1, <4>2
    <3> QED  BY <1>3, <3>1, <3>2
  <2>2. ASSUME DOMAIN s = 1 .. Arity(k),
               \A i \in 1 .. Arity(k) : s[i] = Deal[Code[k].of[i]][p]
        PROVE  Combination(Field, Code[k], s) = Deal[k][p]
    <3>1. s = [i \in DOMAIN s |-> s[i]]
      BY DEF Operands
    <3>2. s = [i \in 1 .. Arity(k) |-> Deal[Code[k].of[i]][p]]
      <4> HIDE DEF s
      <4> QED  BY <2>2, <3>1
    <3>3. Deal[k][p] = Combination(Field, Code[k], [i \in 1 .. Arity(k) |-> Deal[Code[k].of[i]][p]])
      BY <1>2, <1>3 DEF SharingOf
    <3> HIDE DEF s
    <3> QED  BY <3>2, <3>3
  <2>3. Code[k].do # "shamir_share"
    BY <1>3
  <2> HIDE DEF s
  <2> QED  BY <1>1, <2>1, <2>2, <2>3, OperandsDealt DEF s
<1>4. CASE Code[k].do = "times"
  <2>1. Fired(p, k, b, got) = IF \E i \in DOMAIN s : s[i] = None THEN None
                              ELSE IF \E i \in DOMAIN s : s[i] = Failed THEN Failed
                              ELSE s[1] (.) s[2]
    BY <1>4 DEF Fired, Gather, Operands, (.)
  <2>2. ASSUME \A i \in 1 .. Arity(k) : s[i] = Deal[Code[k].of[i]][p]
        PROVE  s[1] (.) s[2] = Deal[k][p]
    <3> HIDE DEF s
    <3>1. 1 \in 1 .. Arity(k) /\ 2 \in 1 .. Arity(k)
      BY <1>4, OperandsComeBefore
    <3>2. Deal[k][p] = Deal[Code[k].of[1]][p] (.) Deal[Code[k].of[2]][p]
      BY <1>2, <1>4 DEF SharingOf
    <3> QED  BY <2>2, <3>1, <3>2
  <2>3. Code[k].do # "shamir_share"
    BY <1>4
  <2> HIDE DEF s
  <2> QED  BY <1>1, <2>1, <2>2, <2>3, OperandsDealt DEF s
<1> QED  BY <1>3, <1>4

\* share_recombine of mul gives what was dealt, if it gives anything.
LEMMA ProductAllowed ==
    ASSUME PrimeField, Setting, NEW p \in Players, NEW k \in Ops, Code[k].do = "mul",
           NEW got, HaveArrived(p, k, got)
    PROVE  RecombineProduct(p, k, Deal[Code[k].of[1]][p] (.) Deal[Code[k].of[2]][p], got)
              \in Allowed(p, k)
<1> DEFINE own == Deal[Code[k].of[1]][p] (.) Deal[Code[k].of[2]][p]
           pieces == WithShare(got, p, Pieces(p, k, own)[p])
<1>1. Allowed(p, k) = {None, Deal[k][p]} \cup Trouble
  BY DEF Allowed
<1>2. /\ RecombineProduct(p, k, own, got)
            = IF ~ Recombiners \subseteq DOMAIN pieces THEN None
              ELSE IF \E q \in Recombiners : pieces[q] = Failed THEN Failed
              ELSE RecombineCached([q \in Recombiners |-> pieces[q]])
  BY DEF RecombineProduct, Recombiners
<1>3. /\ DOMAIN pieces = {p} \cup DOMAIN got
      /\ pieces[p] = PieceOf(k, Deal, random, p, p)
      /\ \A q \in DOMAIN got : q # p /\ pieces[q] = got[q]
  <2>1. p \notin DOMAIN got
    BY DEF HaveArrived
  <2> DEFINE mine == Pieces(p, k, own)[p]
  <2>2. mine = PieceOf(k, Deal, random, p, p)
    BY DEF Pieces, PieceOf
  <2>3. pieces = WithShare(got, p, mine)
    OBVIOUS
  <2> HIDE DEF mine, pieces
  <2>4. /\ DOMAIN WithShare(got, p, mine) = {p} \cup DOMAIN got
        /\ WithShare(got, p, mine)[p] = mine
        /\ \A q \in DOMAIN got : q # p /\ WithShare(got, p, mine)[q] = got[q]
    BY <2>1 DEF WithShare
  <2> QED  BY <2>2, <2>3, <2>4
<1> HIDE DEF pieces
<1>4. \A q \in DOMAIN pieces :
         q \in Players /\ pieces[q] \in {PieceOf(k, Deal, random, q, p)} \cup Trouble
  BY <1>3 DEF HaveArrived, Carried, Sent
<1>5. ASSUME Recombiners \subseteq DOMAIN pieces, ~ \E q \in Recombiners : pieces[q] = Failed
      PROVE  RecombineCached([q \in Recombiners |-> pieces[q]]) = Deal[k][p]
  <2> DEFINE g == [q \in Recombiners |-> PieceOf(k, Deal, random, q, p)]
  <2>1. \A q \in Recombiners : pieces[q] = PieceOf(k, Deal, random, q, p)
    BY <1>4, <1>5 DEF Trouble
  <2>2. [q \in Recombiners |-> pieces[q]] = [q \in Recombiners |-> g[q]]
    BY <2>1
  <2>3. Recombiners \in SUBSET Players /\ \A q \in Recombiners : g[q] \in F
    BY RecombinersArePlayers, PiecesInF
  <2>4. Deal[k][p] = Recombined(Recombiners, g)
    BY DealIs DEF SharingOf
  <2> HIDE DEF g
  <2>5. RecombineCached([q \in Recombiners |-> g[q]]) = Recombined(Recombiners, g)
    BY <2>3, RecombineCachedIs
  <2> QED  BY <2>2, <2>4, <2>5
<1>6. (\E q \in Recombiners : pieces[q] = Failed) /\ Recombiners \subseteq DOMAIN pieces
         => Failed \in Trouble
  BY PiecesInF, NotInF, <1>4 DEF Trouble
<1> HIDE DEF own
<1> QED  BY <1>1, <1>2, <1>5, <1>6 DEF own

\* An open gives the number if it recombines threshold + 1 shares.
LEMMA OpenedAllowed ==
    ASSUME PrimeField, Setting, NEW p \in Players, NEW k \in Ops, Code[k].do = "open",
           NEW got, HaveArrived(p, k, got)
    PROVE  RecombineOpened(k, p, Deal[Code[k].of[1]][p], got) \in {None} \cup Replies(k)
<1> DEFINE m == Code[k].of[1]
           d == Code[k].threshold
           own == Deal[m][p]
           shares == WithShare(got, p, own)
           there == DOMAIN shares
           ok == {q \in there : shares[q] # Failed}
           good == FirstOf(ok, d + 1)
<1>1. m \in Ops /\ Code[m].do # "open"
  BY OperandsComeBefore
<1>2. d \in Nat /\ Degree(m) <= d
  BY OperationKinds, DegreeAssumption
<1>3. Deal[m] \in [Players -> F] /\ On(Degree(m), Number(m), Deal[m]) /\ Number(m) \in F
  BY <1>1, DealIs
<1>4. Number(k) = Number(m)
  BY DealIs, OperandsComeBefore, OperandsAre DEF ValueOf, Number
<1>5. RecombineOpened(k, p, own, got) =
         IF Cardinality(there) < d + 1 THEN None
         ELSE RecombineGood(shares, d)
  BY DEF RecombineOpened
<1>6. /\ there = {p} \cup DOMAIN got
      /\ \A q \in there : q \in Players /\ shares[q] \in {Deal[m][q]} \cup Trouble
  <2>1. \A q \in DOMAIN got : q # p /\ q \in Players /\ got[q] \in {Deal[m][q]} \cup Trouble
    BY DEF HaveArrived, Carried, Sent
  <2>2. there = {p} \cup DOMAIN got
    BY DEF WithShare
  <2>3. shares[p] = Deal[m][p] /\ \A q \in DOMAIN got : shares[q] = got[q]
    BY <2>1 DEF WithShare
  <2> HIDE DEF shares
  <2> QED  BY <2>1, <2>2, <2>3
<1>7. RecombineGood(shares, d) =
         IF CanRecombine(good) THEN RecombineCached([q \in good |-> shares[q]]) ELSE Failed
  BY DEF RecombineGood
<1> HIDE DEF shares
<1>8. ASSUME ~ (Cardinality(there) < d + 1)
      PROVE  RecombineGood(shares, d) \in Replies(k)
  <2>2. /\ ok \in SUBSET Players
        /\ \A q \in ok : shares[q] = Deal[m][q] /\ shares[q] \in F
    BY <1>3, <1>6 DEF Trouble
  <2>3. garbled = {} => ok = there
    BY <1>3, <1>6, NotInF DEF Trouble
  <2>4. garbled = {} \/ Failed \in Trouble
    BY DEF Trouble
  <2> HIDE DEF ok
  <2>5. /\ good \subseteq ok /\ Cardinality(ok) \in Nat
        /\ Cardinality(good) = IF Cardinality(ok) < d + 1 THEN Cardinality(ok) ELSE d + 1
    <3>1. d + 1 \in Nat
      BY <1>2
    <3> QED  BY <2>2, <3>1, FirstOfFew
  <2> HIDE DEF good
  <2>6. good \in SUBSET Players /\ \A q \in good : Deal[m][q] \in F /\ shares[q] = Deal[m][q]
    BY <2>2, <2>5
  <2>7. RecombineCached([q \in good |-> shares[q]]) = Recombined(good, Deal[m])
    <3> DEFINE g == Deal[m]
    <3>1. [q \in good |-> shares[q]] = [q \in good |-> g[q]]
      BY <2>6
    <3>2. \A q \in good : g[q] \in F
      BY <2>6
    <3> HIDE DEF g
    <3>3. RecombineCached([q \in good |-> g[q]]) = Recombined(good, g)
      BY <2>6, <3>2, RecombineCachedIs
    <3> QED  BY <3>1, <3>3 DEF g
  <2>8. CASE ~ (Cardinality(ok) < d + 1)
    <3>1. Cardinality(good) = d + 1
      BY <2>5, <2>8
    <3>2. CanRecombine(good)
      <4>1. t <= Degree(m) /\ Degree(m) \in Nat /\ t \in Nat \ {0}
        BY <1>1, DegreeAtLeastT, RecombinersArePlayers
      <4> HIDE DEF d, m
      <4> QED  BY <1>2, <3>1, <4>1 DEF CanRecombine
    <3>3. On(d, Number(m), Deal[m])
      <4>1. Degree(m) \in Nat
        BY <1>1, DegreeAtLeastT
      <4> HIDE DEF d, m
      <4> QED  BY <1>2, <1>3, <4>1, DegreeGrows
    <3>4. Recombined(good, Deal[m]) = Number(m)
      <4> HIDE DEF d, m
      <4> QED  BY <1>2, <2>6, <3>1, <3>3, Lagrange
    <3> QED  BY <1>4, <1>7, <2>7, <3>2, <3>4 DEF Replies
  <2>9. CASE Cardinality(ok) < d + 1
    <3>1. garbled # {} /\ Failed \in Trouble
      BY <1>8, <2>3, <2>4, <2>9
    <3>2. CASE ~ CanRecombine(good)
      BY <1>7, <3>1, <3>2 DEF Replies
    <3>3. CASE CanRecombine(good)
      <4>1. ~ (d < 2)
        <5> HIDE DEF d
        <5> QED  BY <1>2, <2>5, <2>9, <3>3 DEF CanRecombine
      <4>2. Recombined(good, Deal[m]) \in F
        <5> HIDE DEF m
        <5> QED  BY <2>6, RecombinedInF
      <4> QED  BY <1>7, <2>7, <3>1, <3>3, <4>1, <4>2 DEF Replies
    <3> QED  BY <3>2, <3>3
  <2> QED  BY <2>8, <2>9
<1> HIDE DEF there, own, d
<1> QED  BY <1>5, <1>8 DEF own

\* What a Deferred has got is what it may have got.
LEMMA FiredAllowed ==
    ASSUME PrimeField, Setting, NEW p \in Players, NEW k \in Ops,
           share[p][k] \in Allowed(p, k),
           NEW b, \A j \in 1 .. k - 1 : b[j] \in Allowed(p, j),
           NEW got, HaveArrived(p, k, got)
    PROVE  Fired(p, k, b, got) \in Allowed(p, k)
<1>1. CASE share[p][k] # None
  BY <1>1 DEF Fired
<1>2. CASE share[p][k] = None /\ Code[k].do \in {"local", "public", "times"}
  BY <1>2, LocalAllowed
<1>3. CASE share[p][k] = None /\ Code[k].do = "shamir_share"
  BY <1>3, DealIs DEF Fired, Pieces, SharingOf, HaveArrived, Carried, Sent, Allowed
<1>4. CASE share[p][k] = None /\ Code[k].do = "mul"
  <2> DEFINE s == Operands(k, b)
  <2>1. Fired(p, k, b, got) = IF \E i \in DOMAIN s : s[i] = None THEN None
                              ELSE IF \E i \in DOMAIN s : s[i] = Failed THEN Failed
                              ELSE RecombineProduct(p, k, s[1] (.) s[2], got)
    BY <1>4 DEF Fired, Gather, Operands, (.)
  <2>2. 1 \in 1 .. Arity(k) /\ 2 \in 1 .. Arity(k)
    BY <1>4, OperandsComeBefore
  <2>3. RecombineProduct(p, k, Deal[Code[k].of[1]][p] (.) Deal[Code[k].of[2]][p], got)
           \in Allowed(p, k)
    BY <1>4, ProductAllowed
  <2>4. None \in Allowed(p, k) /\ Trouble \subseteq Allowed(p, k)
    BY <1>4 DEF Allowed
  <2>5. Code[k].do # "shamir_share"
    BY <1>4
  <2> HIDE DEF s
  <2> QED  BY <2>1, <2>2, <2>3, <2>4, <2>5, OperandsDealt DEF s
<1>5. CASE share[p][k] = None /\ Code[k].do = "open"
  <2> DEFINE s == Operands(k, b)
  <2>1. Fired(p, k, b, got) = IF p \notin Code[k].to THEN None
                              ELSE IF s[1] \in {None, Failed} THEN None
                              ELSE RecombineOpened(k, p, s[1], got)
    BY <1>5 DEF Fired, Clone, Operands
  <2>2. Arity(k) = 1 /\ DOMAIN s = 1 .. 1
    BY <1>5, OperandsAre, OperandsComeBefore
  <2>3. RecombineOpened(k, p, Deal[Code[k].of[1]][p], got) \in {None} \cup Replies(k)
    BY <1>5, OpenedAllowed
  <2>4. None \in Allowed(p, k)
        /\ (p \in Code[k].to => Trouble \subseteq Allowed(p, k) /\ Replies(k) \subseteq Allowed(p, k))
    BY <1>5 DEF Allowed, Replies
  <2>5. Code[k].do # "shamir_share"
    BY <1>5
  <2> HIDE DEF s
  <2> QED  BY <2>1, <2>2, <2>3, <2>4, <2>5, OperandsDealt DEF s
<1> QED  BY <1>1, <1>2, <1>3, <1>4, <1>5, OperationKinds

------------------------------------------------------------------------------
\* All Deferreds of a player, one after the other.

\* All that settles may be got, and each result is what Fired makes of those before.
LEMMA SettledIs ==
    ASSUME PrimeField, Setting, NEW p \in Players, \A k \in Ops : share[p][k] \in Allowed(p, k),
           NEW got, \A k \in Ops : HaveArrived(p, k, got[k])
    PROVE  /\ Settled(p, got) \in [Ops -> Reading \cup {None}]
           /\ \A k \in Ops : /\ Settled(p, got)[k] \in Allowed(p, k)
                             /\ Settled(p, got)[k] = Fired(p, k, Settled(p, got), got[k])
<1> DEFINE L == Len(Code)
           X == Reading \cup {None}
           P(f) == f = [k \in 0 .. L |->
                           IF k = 0 THEN <<>>
                           ELSE LET before == f[k - 1]
                                IN  Append(before, Fired(p, k, before, got[k]))]
           upTo == CHOOSE f : P(f)
           Y == Seq(X) \cup {upTo[k] : k \in 0 .. L}
           Fine(k, b) == \A j \in 1 .. k - 1 : b[j] \in Allowed(p, j)
           g == [y \in (1 .. L) \X Y |->
                    IF Fine(y[1], y[2]) THEN Fired(p, y[1], y[2], got[y[1]]) ELSE None]
           V == upTo[L]
<1>1. L \in Nat /\ Ops = 1 .. L
  BY OpsAreNumbers
<1>2. Settled(p, got) = V
  <2> DEFINE iter[k \in 0 .. Len(Code)] ==
                 IF k = 0 THEN <<>>
                 ELSE LET before == iter[k - 1]
                      IN  Append(before, Fired(p, k, before, got[k]))
  <2>1. Settled(p, got) = iter[Len(Code)]
    BY DEF Settled
  <2>2. iter = upTo
    OBVIOUS
  <2> QED  BY <2>1, <2>2
<1> HIDE DEF L
<1>3. \A k \in Ops : \A b : Fine(k, b) => Fired(p, k, b, got[k]) \in Allowed(p, k)
  BY FiredAllowed
<1>4. \A k \in Ops : Allowed(p, k) \subseteq X /\ None \in Allowed(p, k)
  BY AllowedIsReading
<1>5. \A k \in 1 .. L : \A b \in Y :
         g[<<k, b>>] = IF Fine(k, b) THEN Fired(p, k, b, got[k]) ELSE None
  <2> HIDE DEF Y, Fine
  <2> QED  OBVIOUS
<1>6. Seq(X) \subseteq Y /\ \A k \in 0 .. L : upTo[k] \in Y
  OBVIOUS
<1> HIDE DEF g, Y
<1>7. \A k \in Ops : \A b \in Y : g[<<k, b>>] \in Allowed(p, k)
  <2> HIDE DEF Fine
  <2> QED  BY <1>1, <1>3, <1>4, <1>5
<1>8. MakesElements(L, X, g)
  <2> HIDE DEF X
  <2> QED  BY <1>1, <1>4, <1>6, <1>7 DEF MakesElements
\* Every solution of the guarded recursion only has what may have been got.
<1>9. ASSUME NEW f, ArePrefixes(f, L, g), NEW k \in 1 .. L
      PROVE  f[k - 1] \in Y /\ Fine(k, f[k - 1])
  <2> HIDE DEF X
  <2>1. \A i \in 1 .. L : /\ f[L][i] = g[<<i, f[i - 1]>>]
                          /\ f[i - 1] \in Seq(X)
                          /\ \A j \in 1 .. i - 1 : f[i - 1][j] = f[L][j]
    <3>1. HasElements(f, L, X, g)
      BY <1>1, <1>8, <1>9, PrefixElements
    <3> QED  BY <3>1 DEF HasElements
  <2>2. \A i \in 1 .. L : f[L][i] \in Allowed(p, i)
    BY <1>1, <1>6, <1>7, <2>1
  <2>3. \A j \in 1 .. k - 1 : j \in 1 .. L
    BY <1>1
  <2> QED  BY <1>6, <2>1, <2>2, <2>3
<1>10. ASSUME NEW f, ArePrefixes(f, L, g) PROVE P(f)
  <2>1. ASSUME NEW k \in 0 .. L, k # 0
        PROVE  Append(f[k - 1], g[<<k, f[k - 1]>>])
                  = Append(f[k - 1], Fired(p, k, f[k - 1], got[k]))
    <3>1. k \in 1 .. L
      BY <2>1, <1>1
    <3>2. f[k - 1] \in Y /\ Fine(k, f[k - 1])
      BY <1>9, <1>10, <3>1
    <3> HIDE DEF Fine
    <3> QED  BY <1>5, <3>1, <3>2
  <2>2. f = [k \in 0 .. L |-> IF k = 0 THEN <<>> ELSE Append(f[k - 1], g[<<k, f[k - 1]>>])]
    BY <1>10 DEF ArePrefixes
  <2>3. [k \in 0 .. L |-> IF k = 0 THEN <<>> ELSE Append(f[k - 1], g[<<k, f[k - 1]>>])]
          = [k \in 0 .. L |-> IF k = 0 THEN <<>>
                              ELSE Append(f[k - 1], Fired(p, k, f[k - 1], got[k]))]
    BY <2>1
  <2> QED  BY <2>2, <2>3
<1>11. P(upTo)
  <2>1. \E f : ArePrefixes(f, L, g)
    <3> HIDE DEF X
    <3> QED  BY <1>1, <1>8, PrefixesExist
  <2> HIDE DEF P
  <2> QED  BY <1>10, <2>1
<1> HIDE DEF upTo
<1>12. \A k \in 1 .. L : Fine(k, upTo[k - 1])
  <2> DEFINE T == {m \in Nat : m <= L =>
                      /\ upTo[m] \in Seq(X) /\ Len(upTo[m]) = m
                      /\ \A j \in 1 .. m : upTo[m][j] \in Allowed(p, j)}
  <2>1. 0 \in T
    <3>1. upTo[0] = <<>>
      BY <1>1, <1>11
    <3>2. <<>> \in Seq(X) /\ Len(<<>>) = 0
      <4> HIDE DEF X
      <4> QED  OBVIOUS
    <3>3. \A j \in 1 .. 0 : FALSE
      OBVIOUS
    <3> HIDE DEF X
    <3> QED  BY <3>1, <3>2, <3>3
  <2>2. ASSUME NEW m \in Nat, m \in T PROVE m + 1 \in T
    <3> SUFFICES ASSUME m + 1 <= L
                 PROVE  /\ upTo[m + 1] \in Seq(X) /\ Len(upTo[m + 1]) = m + 1
                        /\ \A j \in 1 .. m + 1 : upTo[m + 1][j] \in Allowed(p, j)
      OBVIOUS
    <3> DEFINE b == upTo[m]
               e == Fired(p, m + 1, b, got[m + 1])
               c == upTo[m + 1]
    <3>1. m + 1 \in 0 .. L /\ m + 1 # 0 /\ (m + 1) - 1 = m /\ m + 1 \in Ops /\ m <= L
      BY <1>1
    <3>2. c = Append(b, e)
      BY <1>11, <3>1
    <3>3. b \in Seq(X) /\ Len(b) = m /\ \A j \in 1 .. m : b[j] \in Allowed(p, j)
      BY <2>2, <3>1
    <3> HIDE DEF b
    <3>4. Fine(m + 1, b)
      BY <3>1, <3>3
    <3>5. e \in Allowed(p, m + 1)
      <4> HIDE DEF Fine
      <4> QED  BY <1>3, <3>1, <3>4
    <3>6. e \in X
      BY <1>4, <3>1, <3>5
    <3> HIDE DEF e, c, X
    <3>7. c \in Seq(X) /\ Len(c) = m + 1 /\ c[m + 1] = e /\ \A j \in 1 .. m : c[j] = b[j]
      BY <3>2, <3>3, <3>6
    <3>8. \A j \in 1 .. m + 1 : j = m + 1 \/ j \in 1 .. m
      OBVIOUS
    <3>9. \A j \in 1 .. m + 1 : c[j] \in Allowed(p, j)
      BY <3>3, <3>5, <3>7, <3>8
    <3> QED  BY <3>7, <3>9 DEF c
  <2>3. Nat \subseteq T
    <3> HIDE DEF T
    <3> QED  BY <2>1, <2>2, Induct
  <2> TAKE k \in 1 .. L
  <2>4. k - 1 \in T /\ k - 1 <= L
    BY <1>1, <2>3
  <2> HIDE DEF X
  <2> QED  BY <2>4
<1>13. ArePrefixes(upTo, L, g)
  <2>1. ASSUME NEW k \in 0 .. L, k # 0
        PROVE  Append(upTo[k - 1], g[<<k, upTo[k - 1]>>])
                  = Append(upTo[k - 1], Fired(p, k, upTo[k - 1], got[k]))
    <3>1. k \in 1 .. L /\ k - 1 \in 0 .. L
      BY <2>1, <1>1
    <3> HIDE DEF Fine
    <3> QED  BY <1>5, <1>6, <1>12, <3>1
  <2>2. [k \in 0 .. L |-> IF k = 0 THEN <<>> ELSE Append(upTo[k - 1], g[<<k, upTo[k - 1]>>])]
          = [k \in 0 .. L |-> IF k = 0 THEN <<>>
                              ELSE Append(upTo[k - 1], Fired(p, k, upTo[k - 1], got[k]))]
    BY <2>1
  <2> QED  BY <1>11, <2>2 DEF ArePrefixes
<1>14. /\ V \in [1 .. L -> X]
       /\ \A k \in 1 .. L : /\ V[k] = g[<<k, upTo[k - 1]>>]
                            /\ \A j \in 1 .. k - 1 : upTo[k - 1][j] = V[j]
  <2> HIDE DEF X
  <2>1. HasElements(upTo, L, X, g)
    BY <1>1, <1>8, <1>13, PrefixElements
  <2> QED  BY <2>1 DEF HasElements
<1>15. ASSUME NEW k \in Ops PROVE V[k] \in Allowed(p, k) /\ V[k] = Fired(p, k, V, got[k])
  <2> DEFINE b == upTo[k - 1]
  <2>1. k \in 1 .. L /\ k - 1 \in 0 .. L
    BY <1>1
  <2>2. V[k] = g[<<k, b>>] /\ b \in Y /\ \A j \in 1 .. k - 1 : b[j] = V[j]
    BY <1>6, <1>14, <2>1
  <2>3. Fine(k, b)
    BY <1>12, <2>1
  <2> HIDE DEF b, V, Fine
  <2>4. g[<<k, b>>] = Fired(p, k, b, got[k])
    BY <1>5, <2>1, <2>2, <2>3
  <2>5. Fired(p, k, b, got[k]) = Fired(p, k, V, got[k])
    BY <2>2, FiredLooksBack
  <2>6. g[<<k, b>>] \in Allowed(p, k)
    BY <1>7, <2>2
  <2> QED  BY <2>2, <2>4, <2>5, <2>6
<1>16. V \in [Ops -> Reading \cup {None}]
  BY <1>1, <1>14
<1> QED  BY <1>2, <1>15, <1>16

------------------------------------------------------------------------------
\* What the players send is what was dealt.
LEMMA OutgoingDealt ==
    ASSUME PrimeField, Setting, NEW p \in Players, NEW shares,
           \A k \in Ops : shares[k] \in Allowed(p, k),
           NEW k \in Ops,
           k \in Communicating(shares) \/ (Code[k].do = "shamir_share" /\ Code[k].by = p)
    PROVE  /\ DOMAIN Outgoing(p, k, shares) \subseteq Players
           /\ \A q \in DOMAIN Outgoing(p, k, shares) :
                 Sends(p, k, q) /\ Outgoing(p, k, shares)[q] = Sent(p, k, q)
<1>1. CASE Code[k].do = "shamir_share" /\ Code[k].by = p
  <2> DEFINE out == Share(Field, n, input[p], random[p][k])
  <2>1. Outgoing(p, k, shares) = out
    BY <1>1 DEF Outgoing, Pieces
  <2>2. Deal[k] = out
    BY <1>1, DealIs DEF SharingOf
  <2>3. out \in [Players -> F]
    BY PiecesAre DEF Setting
  <2> HIDE DEF out
  <2> QED  BY <1>1, <2>1, <2>2, <2>3 DEF Sends, Sent
<1>2. CASE k \in Communicating(shares)
  <2>1. /\ Code[k].do \in {"mul", "open"}
        /\ \A i \in DOMAIN Code[k].of : shares[Code[k].of[i]] \notin {None, Failed}
    BY <1>2 DEF Communicating
  <2>2. \A i \in 1 .. Arity(k) : shares[Code[k].of[i]] = Deal[Code[k].of[i]][p]
    <3> TAKE i \in 1 .. Arity(k)
    <3>1. /\ i \in DOMAIN Code[k].of /\ Code[k].of[i] \in Ops
          /\ Code[Code[k].of[i]].do # "open"
      BY <2>1, OperandsComeBefore
    <3>2. shares[Code[k].of[i]] \in {None, Deal[Code[k].of[i]][p]} \cup {Failed}
      BY <3>1 DEF Allowed, Trouble
    <3> QED  BY <2>1, <3>1, <3>2
  <2>3. CASE Code[k].do = "mul"
    <3>1. 1 \in 1 .. Arity(k) /\ 2 \in 1 .. Arity(k)
      BY <2>3, OperandsComeBefore
    <3> DEFINE product == Deal[Code[k].of[1]][p] (.) Deal[Code[k].of[2]][p]
               out == Share(Field, n, product, random[p][k])
    <3>2. Outgoing(p, k, shares) = out
      BY <2>2, <2>3, <3>1 DEF Outgoing, Pieces, (.)
    <3>3. \A q : PieceOf(k, Deal, random, p, q) = out[q]
      BY DEF PieceOf
    <3>4. product \in F
      BY <2>3, PiecesInF
    <3> HIDE DEF product
    <3>5. out \in [Players -> F]
      BY <3>4, PiecesAre DEF Setting
    <3> HIDE DEF out
    <3> QED  BY <2>3, <3>2, <3>3, <3>5 DEF Sends, Sent
  <2>4. CASE Code[k].do = "open"
    BY <2>4, OperandsComeBefore, OperationKinds, <2>2 DEF Outgoing, Sends, Sent
  <2> QED  BY <2>1, <2>3, <2>4
<1> QED  BY <1>1, <1>2

\* A message on its way.
IsSent(m) ==
    /\ m \in Message /\ m.from # m.to
    /\ Sends(m.from, m.op, m.to) /\ m.value \in Carried(m.from, m.op, m.to)

\* The messages of a player carry what was dealt, or fail if they are garbled.
LEMMA MessagesSent ==
    ASSUME PrimeField, Setting, NEW p \in Players, NEW shares,
           \A k \in Ops : shares[k] \in Allowed(p, k),
           NEW ops,
           ops \subseteq Communicating(shares)
                \cup {k \in Ops : Code[k].do = "shamir_share" /\ Code[k].by = p}
    PROVE  \A m \in Messages(p, shares, ops) : IsSent(m)
<1> SUFFICES ASSUME NEW m \in Messages(p, shares, ops) PROVE IsSent(m)
  OBVIOUS
<1>1. PICK k \in ops : \E q \in DOMAIN Outgoing(p, k, shares) \ {p} :
         m = [from |-> p, to |-> q, op |-> k,
              value |-> IF <<p, k>> \in garbled THEN Failed ELSE Outgoing(p, k, shares)[q]]
  BY DEF Messages
<1>2. PICK q \in DOMAIN Outgoing(p, k, shares) \ {p} :
         m = [from |-> p, to |-> q, op |-> k,
              value |-> IF <<p, k>> \in garbled THEN Failed ELSE Outgoing(p, k, shares)[q]]
  BY <1>1
<1>3. k \in Ops /\ (k \in Communicating(shares) \/ (Code[k].do = "shamir_share" /\ Code[k].by = p))
  BY DEF Communicating
<1>4. q \in Players /\ q # p /\ Sends(p, k, q) /\ Outgoing(p, k, shares)[q] = Sent(p, k, q)
  BY <1>3, OutgoingDealt
<1>5. m.value \in Carried(p, k, q)
  BY <1>2, <1>4 DEF Carried, Trouble
<1>6. Carried(p, k, q) \subseteq Reading
  BY <1>3, <1>4, AllowedIsReading
<1>7. m.from = p /\ m.to = q /\ m.op = k /\ m \in Message
  <2>1. m.value \in Reading
    BY <1>5, <1>6
  <2> DEFINE x == m.value
  <2>2. m = [from |-> p, to |-> q, op |-> k, value |-> x]
    BY <1>2
  <2> HIDE DEF x
  <2> QED  BY <1>3, <1>4, <2>1, <2>2 DEF Message, x
<1> QED  BY <1>4, <1>5, <1>7 DEF IsSent

------------------------------------------------------------------------------
\* The inductive invariant: what the players have got, what has come in at them and
\* what is on its way is what was dealt, or has failed.
IInv ==
    /\ input \in Inputs /\ garbled \in GarbledSets
    /\ Setting
    /\ running \subseteq Players
    /\ share \in [Players -> [Ops -> Reading \cup {None}]]
    /\ \A p \in Players, k \in Ops : share[p][k] \in Allowed(p, k)
    /\ DOMAIN arrived = Players
    /\ \A p \in Players : DOMAIN arrived[p] = Ops
    /\ \A p \in Players, k \in Ops : HaveArrived(p, k, arrived[p][k])
    /\ \A m \in network : IsSent(m)

\* The invariant holds at the start.
LEMMA IInvInit ==
    ASSUME PrimeField, Init
    PROVE  IInv
<1>1. input \in Inputs /\ random \in Coefficients
  BY DEF Init
<1>2. Setting
  BY <1>1, PassiveAssumption DEF Setting, Randomness, F
<1>3. garbled \in GarbledSets
  BY DEF Init
<1>4. \A p \in Players, k \in Ops : share[p][k] = None /\ arrived[p][k] = <<>>
  BY DEF Init
<1>5. share \in [Players -> [Ops -> Reading \cup {None}]]
  BY DEF Init
<1>6. \A p \in Players, k \in Ops : share[p][k] \in Allowed(p, k)
  BY <1>2, <1>4, AllowedIsReading
<1>7. /\ DOMAIN arrived = Players
      /\ \A p \in Players : DOMAIN arrived[p] = Ops
      /\ \A p \in Players, k \in Ops : HaveArrived(p, k, arrived[p][k])
  BY <1>4 DEF Init, HaveArrived
<1> QED  BY <1>1, <1>2, <1>3, <1>5, <1>6, <1>7 DEF Init, IInv

\* What was dealt never changes.
LEMMA NothingMoves ==
    ASSUME UNCHANGED <<input, garbled, random>>
    PROVE  /\ Setting' = Setting
           /\ \A p, k : Allowed(p, k)' = Allowed(p, k)
           /\ \A q, k, p : Carried(q, k, p)' = Carried(q, k, p)
           /\ \A m : IsSent(m)' = IsSent(m)
<1>1. Deal' = Deal /\ Trouble' = Trouble /\ (\A k : Number(k)' = Number(k)) /\ Setting' = Setting
  BY DEF Deal, Trouble, Number, Setting
<1>2. \A q, k, p : Sent(q, k, p)' = Sent(q, k, p)
  BY <1>1 DEF Sent
<1>3. \A q, k, p : Carried(q, k, p)' = Carried(q, k, p)
  BY <1>1, <1>2 DEF Carried
<1>4. \A p, k : Allowed(p, k)' = Allowed(p, k)
  BY <1>1 DEF Allowed, Replies
<1>5. \A m : IsSent(m)' = IsSent(m)
  BY <1>3 DEF IsSent
<1> QED  BY <1>1, <1>3, <1>4, <1>5

\* Start and Receive both let a player's Deferreds settle, when got has come in, and
\* send what that allows for the operations ops.
Settling(p, got, ops) ==
    /\ DOMAIN got = Ops /\ \A k \in Ops : HaveArrived(p, k, got[k])
    /\ ops \subseteq Communicating(Settled(p, got))
                 \cup {k \in Ops : Code[k].do = "shamir_share" /\ Code[k].by = p}
    /\ running' \subseteq Players
    /\ share' = [share EXCEPT ![p] = Settled(p, got)]
    /\ DOMAIN arrived' = Players
    /\ \A q \in Players : arrived'[q] = IF q = p THEN got ELSE arrived[q]
    /\ network' \subseteq network \cup Messages(p, Settled(p, got), ops)
    /\ UNCHANGED <<input, garbled, random>>

\* What settles at a player is what was dealt to it, and what it had it keeps.
LEMMA SettlingGives ==
    ASSUME PrimeField, IInv, NEW p \in Players, NEW got, NEW ops, Settling(p, got, ops)
    PROVE  /\ Settled(p, got) \in [Ops -> Reading \cup {None}]
           /\ \A k \in Ops : /\ Settled(p, got)[k] \in Allowed(p, k)
                             /\ share[p][k] # None => Settled(p, got)[k] = share[p][k]
           /\ share' \in [Players -> [Ops -> Reading \cup {None}]]
           /\ \A q \in Players : share'[q] = IF q = p THEN Settled(p, got) ELSE share[q]
<1> DEFINE shares == Settled(p, got)
<1>1. Setting /\ \A k \in Ops : share[p][k] \in Allowed(p, k)
  BY DEF IInv
<1>2. /\ shares \in [Ops -> Reading \cup {None}]
      /\ \A k \in Ops : /\ shares[k] \in Allowed(p, k)
                        /\ shares[k] = Fired(p, k, shares, got[k])
  BY <1>1, SettledIs DEF Settling
<1> HIDE DEF shares
<1>3. \A k \in Ops : share[p][k] # None => shares[k] = share[p][k]
  BY <1>2 DEF Fired
<1>4. /\ share' \in [Players -> [Ops -> Reading \cup {None}]]
      /\ \A q \in Players : share'[q] = IF q = p THEN shares ELSE share[q]
  BY <1>2 DEF IInv, Settling, shares
<1> QED  BY <1>2, <1>3, <1>4 DEF shares

\* The invariant is kept when a player's Deferreds settle.
LEMMA SettlingKeeps ==
    ASSUME PrimeField, IInv, NEW p \in Players, NEW got, NEW ops, Settling(p, got, ops)
    PROVE  IInv'
<1> DEFINE shares == Settled(p, got)
<1>1. Setting /\ \A k \in Ops : share[p][k] \in Allowed(p, k)
  BY DEF IInv
<1>2. \A k \in Ops : shares[k] \in Allowed(p, k)
  BY SettlingGives
<1>4. /\ share' \in [Players -> [Ops -> Reading \cup {None}]]
      /\ \A q \in Players : share'[q] = IF q = p THEN shares ELSE share[q]
  BY SettlingGives
<1> HIDE DEF shares
<1>3. /\ Setting' = Setting
      /\ \A q, k : Allowed(q, k)' = Allowed(q, k)
      /\ \A r, k, q : Carried(r, k, q)' = Carried(r, k, q)
      /\ \A m : IsSent(m)' = IsSent(m)
  BY NothingMoves DEF Settling
<1>5. (\A q \in Players, k \in Ops : share[q][k] \in Allowed(q, k))'
  BY <1>2, <1>3, <1>4 DEF IInv
<1>6. /\ DOMAIN arrived' = Players
      /\ \A q \in Players : arrived'[q] = IF q = p THEN got ELSE arrived[q]
  BY DEF Settling
<1>7. (/\ \A q \in Players : DOMAIN arrived[q] = Ops
       /\ \A q \in Players, k \in Ops : HaveArrived(q, k, arrived[q][k]))'
  <2>1. \A q \in Players : DOMAIN arrived'[q] = Ops
    BY <1>6 DEF IInv, Settling
  <2>2. ASSUME NEW q \in Players, NEW k \in Ops
        PROVE  HaveArrived(q, k, arrived[q][k])'
    <3> DEFINE g == arrived'[q][k]
    <3>1. HaveArrived(q, k, g)
      BY <1>6 DEF IInv, Settling
    <3>2. /\ DOMAIN g \subseteq Players \ {q}
          /\ \A r \in DOMAIN g : Sends(r, k, q) /\ g[r] \in Carried(r, k, q)'
      <4> HIDE DEF g
      <4> QED  BY <1>3, <3>1 DEF HaveArrived
    <3> QED  BY <3>2 DEF HaveArrived
  <2> QED  BY <2>1, <2>2
<1>8. (\A m \in network : IsSent(m))'
  <2>1. \A m \in Messages(p, shares, ops) : IsSent(m)
    BY <1>1, <1>2, MessagesSent DEF Settling, shares
  <2> SUFFICES ASSUME NEW m \in network' PROVE IsSent(m)'
    OBVIOUS
  <2>2. IsSent(m)
    BY <2>1 DEF IInv, shares, Settling
  <2> QED  BY <1>3, <2>2
<1> QED  BY <1>1, <1>3, <1>4, <1>5, <1>6, <1>7, <1>8 DEF IInv, Settling

\* When the operations are called the Deferreds settle with what has come in.
LEMMA StartSettles ==
    ASSUME PrimeField, IInv, NEW p \in Players, Start(p)
    PROVE  \E got, ops : Settling(p, got, ops)
<1> DEFINE shares == Settled(p, arrived[p])
           ops == Communicating(shares)
                     \cup {k \in Ops : Code[k].do = "shamir_share" /\ Code[k].by = p}
<1>1. DOMAIN arrived[p] = Ops /\ \A k \in Ops : HaveArrived(p, k, arrived[p][k])
  BY DEF IInv
<1>2. /\ running' \subseteq Players
      /\ share' = [share EXCEPT ![p] = shares]
      /\ network' \subseteq network \cup Messages(p, shares, ops)
      /\ UNCHANGED <<input, garbled, random>>
  BY DEF Start, IInv
<1>3. /\ DOMAIN arrived' = Players
      /\ \A q \in Players : arrived'[q] = IF q = p THEN arrived[p] ELSE arrived[q]
  BY DEF Start, IInv
<1>4. Settling(p, arrived[p], ops)
  BY <1>1, <1>2, <1>3 DEF Settling
<1> QED  BY <1>4

\* When a share arrives the Deferreds settle with that share, too.
LEMMA ReceiveSettles ==
    ASSUME PrimeField, IInv, NEW p \in Players, Receive(p)
    PROVE  \E got, ops : Settling(p, got, ops)
<1>1. PICK m \in network :
         LET got == [arrived[p] EXCEPT ![m.op] = WithShare(@, m.from, m.value)]
             shares == Settled(p, got)
         IN  /\ m.to = p
             /\ arrived' = [arrived EXCEPT ![p] = got]
             /\ share' = [share EXCEPT ![p] = shares]
             /\ network' = (network \ {m})
                              \cup Messages(p, shares,
                                      Communicating(shares) \ Communicating(share[p]))
             /\ UNCHANGED <<input, garbled, random, running>>
  BY DEF Receive
<1> DEFINE old == arrived[p][m.op]
           new == WithShare(old, m.from, m.value)
           got == [arrived[p] EXCEPT ![m.op] = new]
           shares == Settled(p, got)
           ops == Communicating(shares) \ Communicating(share[p])
<1>2. IsSent(m) /\ m.from \in Players /\ m.op \in Ops /\ m.from # p
  BY <1>1 DEF IInv, IsSent, Message
<1>3. /\ DOMAIN arrived[p] = Ops /\ \A k \in Ops : HaveArrived(p, k, arrived[p][k])
  BY DEF IInv
<1>4. HaveArrived(p, m.op, new)
  <2>1. /\ DOMAIN old \subseteq Players \ {p}
        /\ \A q \in DOMAIN old : Sends(q, m.op, p) /\ old[q] \in Carried(q, m.op, p)
    BY <1>2, <1>3 DEF HaveArrived
  <2>2. Sends(m.from, m.op, p) /\ m.value \in Carried(m.from, m.op, p)
    BY <1>1, <1>2 DEF IsSent
  <2> HIDE DEF old
  <2>3. /\ DOMAIN new = {m.from} \cup DOMAIN old
        /\ \A q \in DOMAIN new : new[q] = IF q = m.from THEN m.value ELSE old[q]
    BY DEF WithShare
  <2> HIDE DEF new
  <2> QED  BY <1>2, <2>1, <2>2, <2>3 DEF HaveArrived
<1> HIDE DEF new
<1>5. DOMAIN got = Ops /\ \A k \in Ops : HaveArrived(p, k, got[k])
  BY <1>2, <1>3, <1>4
<1>6. /\ running' \subseteq Players
      /\ DOMAIN arrived' = Players
      /\ \A q \in Players : arrived'[q] = IF q = p THEN got ELSE arrived[q]
      /\ share' = [share EXCEPT ![p] = shares]
      /\ network' \subseteq network \cup Messages(p, shares, ops)
      /\ UNCHANGED <<input, garbled, random>>
  BY <1>1 DEF IInv, new
<1> HIDE DEF got
<1>7. ops \subseteq Communicating(shares)
               \cup {k \in Ops : Code[k].do = "shamir_share" /\ Code[k].by = p}
  OBVIOUS
<1> HIDE DEF ops
<1>8. Settling(p, got, ops)
  BY <1>5, <1>6, <1>7 DEF Settling
<1> QED  BY <1>8

\* The invariant is kept when nothing changes.
LEMMA IInvStutter ==
    ASSUME IInv, UNCHANGED vars
    PROVE  IInv'
<1>1. /\ Setting' = Setting
      /\ \A q, k : Allowed(q, k)' = Allowed(q, k)
      /\ \A r, k, q : Carried(r, k, q)' = Carried(r, k, q)
      /\ \A m : IsSent(m)' = IsSent(m)
  BY NothingMoves DEF vars
<1>2. (\A p \in Players, k \in Ops : HaveArrived(p, k, arrived[p][k]))'
  BY <1>1 DEF IInv, vars, HaveArrived
<1> QED  BY <1>1, <1>2 DEF IInv, vars

\* Whatever the program, the inputs, the randomness, what is garbled and in which
\* order shares arrive: every share a player has got is the one it was dealt, or none.
THEOREM Dealing ==
    ASSUME PrimeField
    PROVE  Spec => []IInv
<1>1. Init => IInv
  BY IInvInit
<1>2. IInv /\ [Next]_vars => IInv'
  <2> SUFFICES ASSUME IInv, [Next]_vars PROVE IInv'
    OBVIOUS
  <2>1. ASSUME NEW p \in Players, Start(p) PROVE IInv'
    BY <2>1, StartSettles, SettlingKeeps
  <2>2. ASSUME NEW p \in Players, Receive(p) PROVE IInv'
    BY <2>2, ReceiveSettles, SettlingKeeps
  <2>3. CASE UNCHANGED vars
    BY <2>3, IInvStutter
  <2> QED  BY <2>1, <2>2, <2>3 DEF Next
<1> QED  BY <1>1, <1>2, PTL DEF Spec

\* The invariant implies the type invariant.
LEMMA IInvTypes ==
    ASSUME PrimeField, IInv
    PROVE  TypeOK
<1>1. random \in [Players -> [Ops -> [1 .. t -> Elements(Field)]]]
  BY DEF IInv, Setting, Randomness, F
<1>2. \A p \in Players, k \in Ops :
         /\ DOMAIN arrived[p][k] \subseteq Players \ {p}
         /\ \A q \in DOMAIN arrived[p][k] : arrived[p][k][q] \in Reading
  <2> SUFFICES ASSUME NEW p \in Players, NEW k \in Ops
               PROVE  /\ DOMAIN arrived[p][k] \subseteq Players \ {p}
                      /\ \A q \in DOMAIN arrived[p][k] : arrived[p][k][q] \in Reading
    OBVIOUS
  <2>1. HaveArrived(p, k, arrived[p][k]) /\ Setting
    BY DEF IInv
  <2>2. \A q \in Players : Sends(q, k, p) => Carried(q, k, p) \subseteq Reading
    BY <2>1, AllowedIsReading
  <2> QED  BY <2>1, <2>2 DEF HaveArrived
<1>3. network \subseteq Message
  BY DEF IInv, IsSent
<1> QED  BY <1>1, <1>2, <1>3 DEF IInv, TypeOK

\* The state of the passive runtime has its type.
THEOREM TypeCorrect ==
    ASSUME PrimeField
    PROVE  Spec => []TypeOK
<1>1. IInv => TypeOK
  BY IInvTypes
<1> QED  BY <1>1, Dealing, PTL

\* Shares that were dealt by polynomials of the right degree meet.
LEMMA IInvMeets ==
    ASSUME PrimeField, IInv
    PROVE  SharesMeet
<1> SUFFICES ASSUME NEW k \in Ops, Code[k].do # "open", NEW S \in SUBSET Holders(k),
                    Cardinality(S) = Degree(k) + 1
             PROVE  RecombineCached([p \in S |-> share[p][k]]) = Values(Field, Code, input)[k]
  BY DEF SharesMeet
<1> DEFINE g == Deal[k]
<1>1. S \in SUBSET Players /\ \A p \in S : share[p][k] = g[p]
  BY DEF IInv, Holders, Allowed, Trouble
<1>2. On(Degree(k), Number(k), g) /\ g \in [Players -> F] /\ Degree(k) \in Nat
  BY DealIs, DegreeAtLeastT DEF IInv
<1> HIDE DEF g
<1>3. [p \in S |-> share[p][k]] = [p \in S |-> g[p]]
  BY <1>1
<1>4. \A p \in S : g[p] \in F
  BY <1>1, <1>2
<1>5. RecombineCached([p \in S |-> g[p]]) = Recombined(S, g)
  BY <1>1, <1>4, RecombineCachedIs
<1>6. Recombined(S, g) = Number(k)
  BY <1>1, <1>2, Lagrange
<1> QED  BY <1>3, <1>5, <1>6 DEF Number

\* At all times, any Degree(k) + 1 shares that players have got of result k
\* recombine to the number that the program computes: in every program of additions,
\* multiplications, resharings and opens, over every prime field that has room for the
\* players, for every threshold, and however far apart the players are.
THEOREM SharesAlwaysMeet ==
    ASSUME PrimeField
    PROVE  Spec => []SharesMeet
<1>1. IInv => SharesMeet
  BY IInvMeets
<1> QED  BY <1>1, Dealing, PTL

------------------------------------------------------------------------------
\* The runtime and the ideal computation.

\* An open replies what the ideal computation allows.
LEMMA IdealReplies ==
    ASSUME NEW k
    PROVE  Ideal!Replies(k) = Replies(k)
BY DEF Ideal!Replies, Replies, Number, Trouble, Computed, F

\* The runtime starts as the ideal computation does.
LEMMA IdealInit ==
    ASSUME PrimeField, Init
    PROVE  Ideal!Init
<1>1. input \in [Players -> Elements(Field)]
  BY PassiveAssumption DEF Init
<1>2. {send[1] : send \in garbled} \in SUBSET Players
  BY PassiveAssumption DEF Init
<1>3. Answers = [p \in Players |-> [k \in Ideal!Opens |-> None]]
  BY DEF Init, Answers, Ideal!Opens, Ops
<1> QED  BY <1>1, <1>2, <1>3 DEF Ideal!Init

\* A step of a player is a step of the ideal computation, or gives it no answer.
LEMMA SettlingAnswers ==
    ASSUME PrimeField, IInv, NEW p \in Players, NEW got, NEW ops, Settling(p, got, ops)
    PROVE  Ideal!Answer(p)
<1> DEFINE Numbers == Elements(Field)
           replies == [k \in Ideal!Opens |-> share'[p][k]]
<1>1. /\ \A k \in Ops : /\ share'[p][k] \in Allowed(p, k)
                        /\ share[p][k] # None => share'[p][k] = share[p][k]
      /\ \A q \in Players : q # p => share'[q] = share[q]
  BY SettlingGives
<1>2. \A k \in Ideal!Opens : k \in Ops /\ Code[k].do = "open"
  BY DEF Ideal!Opens, Ops
<1>3. Answers = [q \in Players |-> [k \in Ideal!Opens |-> share[q][k]]]
  BY DEF Answers, Ideal!Opens, Ops
<1>4. Answers' = [q \in Players |-> [k \in Ideal!Opens |-> share'[q][k]]]
  BY DEF Answers, Ideal!Opens, Ops
<1>5. Answers' = [Answers EXCEPT ![p] = replies]
  BY <1>1, <1>3, <1>4
<1>6. Setting
  BY DEF IInv
<1>7. replies \in [Ideal!Opens -> {None, Failed} \cup Numbers]
  BY <1>1, <1>2, <1>6, AllowedIsReading DEF Reading
<1>8. ASSUME NEW k \in Ideal!Opens
      PROVE  \/ replies[k] = Answers[p][k]
             \/ /\ p \in Code[k].to
                /\ Answers[p][k] = None
                /\ replies[k] \in Ideal!Replies(k)
  <2>1. replies[k] \in Allowed(p, k) /\ (share[p][k] # None => replies[k] = share[p][k])
    BY <1>1, <1>2
  <2>2. Answers[p][k] = share[p][k]
    BY <1>3
  <2>3. Ideal!Replies(k) = Replies(k)
    BY IdealReplies
  <2> HIDE DEF replies
  <2> QED  BY <1>2, <2>1, <2>2, <2>3 DEF Allowed
<1>9. UNCHANGED <<input, {send[1] : send \in garbled}>>
  BY DEF Settling
<1> HIDE DEF replies
<1> QED  BY <1>5, <1>7, <1>8, <1>9 DEF Ideal!Answer

\* What the receivers of an open get, and nobody else, is what a trusted party would
\* tell them, and it stays what it is: the right number, or, when something is
\* garbled, perhaps a failure, or a wrong number where more than two shares are
\* recombined.
THEOREM ImplementsIdealSafely ==
    ASSUME PrimeField
    PROVE  Spec => Ideal!Safety
<1>1. Init => Ideal!Init
  BY IdealInit
<1>2. IInv /\ [Next]_vars => [Ideal!Next]_(Ideal!vars)
  <2> SUFFICES ASSUME IInv, [Next]_vars PROVE [Ideal!Next]_(Ideal!vars)
    OBVIOUS
  <2>1. ASSUME NEW p \in Players, Start(p) \/ Receive(p) PROVE Ideal!Next
    <3>1. PICK got, ops : Settling(p, got, ops)
      BY <2>1, StartSettles, ReceiveSettles
    <3> QED  BY <3>1, SettlingAnswers DEF Ideal!Next
  <2>2. CASE UNCHANGED vars
    BY <2>2 DEF vars, Ideal!vars, Answers
  <2> QED  BY <2>1, <2>2 DEF Next
<1> QED  BY <1>1, <1>2, Dealing, PTL DEF Spec, Ideal!Safety

------------------------------------------------------------------------------
\* Recombination at any point, from the values at any points.

\* The factors of entry i of the vector that recombines at x.
FactorsAt(xs, i, x) == [k \in xs \ {i} |-> (k (-) x) (.) Inv(Field, k (-) i)]

Entry(xs, i, x) == ProductOf(xs \ {i}, FactorsAt(xs, i, x))

\* Sets of elements are finite.
LEMMA ElementsFinite ==
    ASSUME PrimeField, NEW xs \in SUBSET F
    PROVE  IsFiniteSet(xs) /\ Cardinality(xs) \in Nat
<1>1. IsFiniteSet(F)
  BY Operations, FS_Interval
<1> QED  BY <1>1, FS_Subset, FS_CardinalityType

\* The factors are elements.
LEMMA FactorsAtInF ==
    ASSUME PrimeField, NEW xs \in SUBSET F, NEW i \in xs, NEW x \in F
    PROVE  /\ IsFiniteSet(xs \ {i})
           /\ \A k \in xs \ {i} : /\ FactorsAt(xs, i, x)[k] \in F
                                  /\ Inv(Field, k (-) i) \in F
                                  /\ (k (-) i) (.) Inv(Field, k (-) i) = 1
           /\ Entry(xs, i, x) \in F
<1>1. IsFiniteSet(xs \ {i})
  BY ElementsFinite, FS_Subset
<1>2. ASSUME NEW k \in xs \ {i}
      PROVE  /\ FactorsAt(xs, i, x)[k] \in F
             /\ Inv(Field, k (-) i) \in F
             /\ (k (-) i) (.) Inv(Field, k (-) i) = 1
  BY DifferenceIsNot0, Inverses, ClosedInF DEF FactorsAt
<1> QED  BY <1>1, <1>2, ProductLaws DEF Entry

\* An entry of the vector is the product of its factors.
LEMMA VectorAtIs ==
    ASSUME PrimeField, NEW xs \in SUBSET F, NEW i \in xs, NEW x \in F
    PROVE  RecombinationVector(Field, xs, x)[i] = Entry(xs, i, x)
<1> DEFINE S == xs \ {i}
           g == FactorsAt(xs, i, x)
           P(f) == f = [s \in SUBSET S |->
                           IF s = {} THEN 1
                           ELSE LET k == CHOOSE k \in s : TRUE
                                IN  Mul(Field, Div(Field, Sub(Field, k, x), Sub(Field, k, i)),
                                        f[s \ {k}])]
           f == CHOOSE f : P(f)
<1>1. RecombinationVector(Field, xs, x)[i] = f[S]
  <2> DEFINE iter[s \in SUBSET S] ==
                 IF s = {} THEN 1
                 ELSE LET k == CHOOSE k \in s : TRUE
                      IN  Mul(Field, Div(Field, Sub(Field, k, x), Sub(Field, k, i)),
                              iter[s \ {k}])
  <2>1. RecombinationVector(Field, xs, x)[i]
            = ProductOver(Field, xs \ {i},
                  LAMBDA k : Div(Field, Sub(Field, k, x), Sub(Field, k, i)))
    BY DEF RecombinationVector
  <2>2. ProductOver(Field, xs \ {i},
            LAMBDA k : Div(Field, Sub(Field, k, x), Sub(Field, k, i))) = iter[S]
    BY DEF ProductOver, MapThenFoldSet
  <2>3. iter = f
    OBVIOUS
  <2> QED  BY <2>1, <2>2, <2>3
<1>2. \A k \in S : g[k] = Mul(Field, Sub(Field, k, x), Inv(Field, Sub(Field, k, i)))
  BY DEF FactorsAt, (.), (-)
<1>3. \A k \in S : g[k] = Div(Field, Sub(Field, k, x), Sub(Field, k, i))
  BY <1>2 DEF Div
<1>4. IsFiniteSet(S) /\ (\A k \in S : g[k] \in F)
  BY FactorsAtInF
<1> HIDE DEF g
<1>5. \A h : P(h) <=> IsProduct(h, S, g)
  <2> TAKE h
  <2> DEFINE l == [s \in SUBSET S |->
                      IF s = {} THEN 1
                      ELSE Mul(Field, Div(Field, Sub(Field, Some(s), x), Sub(Field, Some(s), i)),
                               h[s \ {Some(s)}])]
             r == [s \in SUBSET S |->
                      IF s = {} THEN 1
                      ELSE Mul(Field, g[Some(s)], h[s \ {Some(s)}])]
  <2>1. \A s \in SUBSET S : s # {} => Some(s) \in S
    BY <1>4, SomeIsMember
  <2>2. l = r
    BY <2>1, <1>3
  <2>3. P(h) <=> h = l
    BY DEF Some
  <2>4. IsProduct(h, S, g) <=> h = r
    BY DEF IsProduct
  <2> HIDE DEF l, r, P
  <2> QED  BY <2>2, <2>3, <2>4
<1> HIDE DEF P
<1>6. \E h : P(h)
  BY <1>4, <1>5, ProductIsFold
<1>7. P(f)
  BY <1>6
<1> HIDE DEF f, S
<1>8. f[S] = ProductOf(S, g)
  BY <1>4, <1>5, <1>7, ProductIsFold
<1> QED  BY <1>1, <1>8 DEF Entry, S, g

\* The value at x that is recombined from the values g at the points xs.
ValueAt(xs, g, x) == SumOf(xs, [i \in xs |-> g[i] (.) Entry(xs, i, x)])

\* What recombine computes.
LEMMA RecombineAtIs ==
    ASSUME PrimeField, NEW xs \in SUBSET F, NEW g, \A i \in xs : g[i] \in F, NEW x \in F
    PROVE  /\ RecombineAt(Field, [i \in xs |-> g[i]], x) = ValueAt(xs, g, x)
           /\ ValueAt(xs, g, x) \in F
<1> DEFINE shares == [i \in xs |-> g[i]]
           v == RecombinationVector(Field, xs, x)
           terms == [i \in xs |-> g[i] (.) Entry(xs, i, x)]
           P(f) == f = [s \in SUBSET xs |->
                           IF s = {} THEN 0
                           ELSE LET k == CHOOSE k \in s : TRUE
                                IN  Add(Field, Mul(Field, shares[k], v[k]), f[s \ {k}])]
           f == CHOOSE f : P(f)
<1>1. DOMAIN shares = xs
  OBVIOUS
<1>2. \A i \in xs : v[i] = Entry(xs, i, x)
  BY VectorAtIs
<1>3. RecombineAt(Field, shares, x) = f[xs]
  <2> DEFINE w == RecombinationVector(Field, DOMAIN shares, x)
             iter[s \in SUBSET DOMAIN shares] ==
                 IF s = {} THEN 0
                 ELSE LET k == CHOOSE k \in s : TRUE
                      IN  Add(Field, Mul(Field, shares[k], w[k]), iter[s \ {k}])
  <2>1. RecombineAt(Field, shares, x) = iter[DOMAIN shares]
    BY DEF RecombineAt, SumOver, MapThenFoldSet
  <2>2. iter = f
    <3> HIDE DEF shares
    <3> QED  BY <1>1
  <2> QED  BY <1>1, <2>1, <2>2
<1> HIDE DEF v
<1>4. IsFiniteSet(xs) /\ \A i \in xs : terms[i] \in F
  <2>1. ASSUME NEW i \in xs PROVE g[i] (.) Entry(xs, i, x) \in F
    <3>1. Entry(xs, i, x) \in F
      BY FactorsAtInF
    <3> QED  BY <3>1, ClosedInF
  <2> QED  BY <2>1, ElementsFinite
<1>5. \A h : P(h) <=> IsSum(h, xs, terms)
  <2> TAKE h
  <2> DEFINE l == [s \in SUBSET xs |->
                      IF s = {} THEN 0
                      ELSE Add(Field, Mul(Field, shares[Some(s)], v[Some(s)]),
                               h[s \ {Some(s)}])]
             r == [s \in SUBSET xs |->
                      IF s = {} THEN 0
                      ELSE Add(Field, terms[Some(s)], h[s \ {Some(s)}])]
  <2>1. \A s \in SUBSET xs : s # {} => Some(s) \in xs
    BY <1>4, SomeIsMember
  <2>2. \A s \in SUBSET xs : s # {} =>
           Mul(Field, shares[Some(s)], v[Some(s)]) = terms[Some(s)]
    BY <1>2, <2>1 DEF (.)
  <2>3. l = r
    <3> HIDE DEF shares, terms
    <3> QED  BY <2>2
  <2>4. P(h) <=> h = l
    BY DEF Some
  <2>5. IsSum(h, xs, terms) <=> h = r
    BY DEF IsSum
  <2> QED  BY <2>3, <2>4, <2>5
<1> HIDE DEF shares, terms
<1>6. (\E h : IsSum(h, xs, terms)) /\ \A h : IsSum(h, xs, terms) => h[xs] = SumOf(xs, terms)
  BY <1>4, SumIsFold
<1>7. IsSum(f, xs, terms)
  <2> HIDE DEF P
  <2>1. \E h : P(h)
    BY <1>5, <1>6
  <2>2. P(f)
    BY <2>1
  <2> QED  BY <1>5, <2>2
<1> HIDE DEF f
<1>8. RecombineAt(Field, shares, x) = SumOf(xs, terms)
  BY <1>3, <1>6, <1>7
<1>9. SumOf(xs, terms) \in F
  BY <1>4, SumLaws
<1> QED  BY <1>8, <1>9 DEF shares, terms, ValueAt

------------------------------------------------------------------------------
\* The value recombined at x is a polynomial in x, and has the values it is made from.

\* A product of linear polynomials has as many factors as its degree.
LEMMA PolynomialProduct ==
    ASSUME PrimeField, NEW S, IsFiniteSet(S), NEW v, NEW P, \A i \in S : On(1, v[i], P[i])
    PROVE  On(Cardinality(S), ProductOf(S, v),
              [p \in Players |-> ProductOf(S, [i \in S |-> P[i][p]])])
<1> DEFINE At(p) == [i \in S |-> P[i][p]]
           Total(s) == [p \in Players |-> ProductOf(s, At(p))]
           T == {s \in SUBSET S : On(Cardinality(s), ProductOf(s, v), Total(s))}
<1>1. \A i \in S : v[i] \in F /\ \A p \in Players : At(p)[i] = P[i][p] /\ At(p)[i] \in F
  BY PolynomialType
<1>2. \A s \in SUBSET S : IsFiniteSet(s)
  BY FS_Subset
<1> HIDE DEF At
<1>3. \A s \in SUBSET S : /\ ProductOf(s, v) \in F
                          /\ \A a \in s : ProductOf(s, v) = v[a] (.) ProductOf(s \ {a}, v)
                          /\ s = {} => ProductOf(s, v) = 1
  BY <1>1, <1>2, ProductLaws
<1>4. \A p \in Players : \A s \in SUBSET S :
         /\ ProductOf(s, At(p)) \in F
         /\ \A a \in s : ProductOf(s, At(p)) = At(p)[a] (.) ProductOf(s \ {a}, At(p))
         /\ s = {} => ProductOf(s, At(p)) = 1
  <2> TAKE p \in Players
  <2> TAKE s \in SUBSET S
  <2>1. \A i \in s : At(p)[i] \in F
    BY <1>1
  <2> QED  BY <1>2, <2>1, ProductLaws
<1>5. {} \in T
  <2>1. 1 \in F
    BY Operations
  <2>2. On(0, 1, Flat(1))
    BY <2>1, PolynomialCases
  <2>3. Total({}) = Flat(1) /\ ProductOf({}, v) = 1 /\ Cardinality({}) = 0
    BY <1>3, <1>4, FS_EmptySet DEF Flat
  <2> QED  BY <2>2, <2>3
<1>6. ASSUME NEW s \in SUBSET S, NEW a \in S \ s, s \in T
      PROVE  s \cup {a} \in T
  <2> DEFINE u == s \cup {a}
  <2>1. /\ u \in SUBSET S /\ a \in u /\ u \ {a} = s
        /\ Cardinality(s) \in Nat /\ Cardinality(u) = 1 + Cardinality(s)
    BY <1>2, FS_AddElement, FS_CardinalityType
  <2> HIDE DEF u
  <2>2. ProductOf(u, v) = v[a] (.) ProductOf(s, v)
    BY <1>3, <2>1
  <2>3. \A p \in Players : ProductOf(u, At(p)) = P[a][p] (.) ProductOf(s, At(p))
    BY <1>1, <1>4, <2>1
  <2>4. On(1 + Cardinality(s), v[a] (.) ProductOf(s, v),
           [p \in Players |-> P[a][p] (.) Total(s)[p]])
    <3>1. On(1, v[a], P[a]) /\ On(Cardinality(s), ProductOf(s, v), Total(s))
      BY <1>6
    <3> HIDE DEF Total
    <3> QED  BY <2>1, <3>1, PolynomialMultiplies
  <2>5. Total(u) = [p \in Players |-> P[a][p] (.) Total(s)[p]]
    BY <2>3
  <2>6. On(Cardinality(u), ProductOf(u, v), Total(u))
    BY <2>1, <2>2, <2>4, <2>5
  <2> HIDE DEF Total
  <2>7. u \in T
    BY <2>1, <2>6
  <2> QED  BY <2>7 DEF u
<1>7. S \in T
  <2>1. \A s \in SUBSET S : \A x \in S \ s : s \in T => s \cup {x} \in T
    BY <1>6
  <2> HIDE DEF T
  <2>2. SUBSET S \subseteq T
    BY <1>5, <2>1, SetInduct
  <2> QED  BY <2>2
<1> QED  BY <1>7 DEF At

\* The factors of the vector's entries are linear polynomials.
LEMMA LinearIsOn ==
    ASSUME PrimeField, NEW a \in F, NEW c \in F
    PROVE  On(1, (a (-) 0) (.) c, [p \in Players |-> (a (-) p) (.) c])
<1> DEFINE P == Raised(a, Flat(Minus1))
<1>1. 0 \in F /\ Minus1 \in F /\ a (-) 0 = a
  BY Neutral, Minus
<1>2. On(0, Minus1, Flat(Minus1))
  BY <1>1, PolynomialCases
<1>3. On(1, a, P)
  BY <1>2, PolynomialType
<1>4. ASSUME NEW p \in Players PROVE P[p] = a (-) p /\ a (-) p \in F
  BY PointsInF, Minus, <1>1, AddCommutes, ClosedInF DEF Raised, Flat
<1> HIDE DEF P
<1>5. On(1, c (.) a, [p \in Players |-> c (.) P[p]])
  BY <1>3, PolynomialScales
<1>6. c (.) a = a (.) c /\ \A p \in Players : c (.) P[p] = (a (-) p) (.) c
  BY <1>4, AddCommutes
<1>7. [p \in Players |-> c (.) P[p]] = [p \in Players |-> (a (-) p) (.) c]
  BY <1>6
<1> QED  BY <1>1, <1>5, <1>6, <1>7

\* So the entries are polynomials with one factor for each of the other points.
LEMMA EntryIsOn ==
    ASSUME PrimeField, NEW xs \in SUBSET F, NEW i \in xs
    PROVE  On(Cardinality(xs) - 1, Entry(xs, i, 0), [p \in Players |-> Entry(xs, i, p)])
<1> DEFINE S == xs \ {i}
           c(k) == Inv(Field, k (-) i)
           v == FactorsAt(xs, i, 0)
           P == [k \in S |-> [p \in Players |-> (k (-) p) (.) c(k)]]
<1>1. 0 \in F /\ IsFiniteSet(S) /\ IsFiniteSet(xs)
  BY Operations, FactorsAtInF, ElementsFinite
<1>2. ASSUME NEW k \in S PROVE On(1, v[k], P[k])
  <2>1. c(k) \in F /\ k \in F
    BY <1>1, FactorsAtInF
  <2>2. v[k] = (k (-) 0) (.) c(k)
    BY DEF FactorsAt
  <2> HIDE DEF c, v
  <2> QED  BY <2>1, <2>2, LinearIsOn
<1>3. \A p \in Players : [k \in S |-> P[k][p]] = FactorsAt(xs, i, p)
  BY DEF FactorsAt
<1>4. Cardinality(S) = Cardinality(xs) - 1
  BY <1>1, FS_RemoveElement
<1> DEFINE Total == [p \in Players |-> ProductOf(S, [k \in S |-> P[k][p]])]
<1>5. On(Cardinality(S), ProductOf(S, v), Total)
  <2> HIDE DEF S, v, P
  <2> QED  BY <1>1, <1>2, PolynomialProduct
<1>6. ProductOf(S, v) = Entry(xs, i, 0)
  BY DEF Entry
<1>7. Total = [p \in Players |-> Entry(xs, i, p)]
  <2>1. \A p \in Players : ProductOf(S, [k \in S |-> P[k][p]]) = Entry(xs, i, p)
    BY <1>3 DEF Entry
  <2> HIDE DEF S, P
  <2> QED  BY <2>1
<1> HIDE DEF S, Total, v
<1> QED  BY <1>4, <1>5, <1>6, <1>7

\* What is recombined at 0 and at the players, from d + 1 values, is a polynomial of
\* degree d.
LEMMA ValueIsOn ==
    ASSUME PrimeField, NEW xs \in SUBSET F, NEW d \in Nat, Cardinality(xs) = d + 1,
           NEW g, \A i \in xs : g[i] \in F
    PROVE  On(d, ValueAt(xs, g, 0), [p \in Players |-> ValueAt(xs, g, p)])
<1> DEFINE v == [i \in xs |-> g[i] (.) Entry(xs, i, 0)]
           P == [i \in xs |-> [p \in Players |-> g[i] (.) Entry(xs, i, p)]]
           Total == [p \in Players |-> SumOf(xs, [i \in xs |-> P[i][p]])]
<1>1. IsFiniteSet(xs)
  BY ElementsFinite
<1>2. ASSUME NEW i \in xs PROVE On(d, v[i], P[i])
  <2> DEFINE E == [p \in Players |-> Entry(xs, i, p)]
             e == Entry(xs, i, 0)
  <2>1. Cardinality(xs) - 1 = d
    OBVIOUS
  <2>2. On(d, e, E)
    BY <2>1, EntryIsOn
  <2>3. P[i] = [p \in Players |-> g[i] (.) E[p]] /\ v[i] = g[i] (.) e
    OBVIOUS
  <2> DEFINE c == g[i]
  <2>4. c \in F
    OBVIOUS
  <2> HIDE DEF E, e, P, v, c
  <2>5. On(d, c (.) e, [p \in Players |-> c (.) E[p]])
    BY <2>2, <2>4, PolynomialScales
  <2> QED  BY <2>3, <2>5 DEF c
<1>3. \A p \in Players : [i \in xs |-> P[i][p]] = [i \in xs |-> g[i] (.) Entry(xs, i, p)]
  OBVIOUS
<1>4. On(d, SumOf(xs, v), Total)
  <2> HIDE DEF v, P
  <2> QED  BY <1>1, <1>2, PolynomialSum
<1>5. Total = [p \in Players |-> ValueAt(xs, g, p)]
  <2>1. \A p \in Players : SumOf(xs, [i \in xs |-> P[i][p]]) = ValueAt(xs, g, p)
    BY <1>3 DEF ValueAt
  <2> HIDE DEF P
  <2> QED  BY <2>1
<1>6. SumOf(xs, v) = ValueAt(xs, g, 0)
  BY DEF ValueAt
<1> HIDE DEF v, Total
<1> QED  BY <1>4, <1>5, <1>6

\* A product with a factor 0 is 0, and one of ones is 1.
LEMMA ProductOfOnes ==
    ASSUME PrimeField, NEW S, IsFiniteSet(S), NEW g
    PROVE  /\ (\A i \in S : g[i] = 1) => ProductOf(S, g) = 1
           /\ \A a \in S : (\A i \in S : g[i] \in F) /\ g[a] = 0 => ProductOf(S, g) = 0
<1>1. 0 \in F /\ 1 \in F
  BY Operations
<1>2. ASSUME \A i \in S : g[i] = 1 PROVE ProductOf(S, g) = 1
  <2> DEFINE T == {s \in SUBSET S : ProductOf(s, g) = 1}
  <2>1. \A s \in SUBSET S : IsFiniteSet(s) /\ \A i \in s : g[i] \in F /\ g[i] = 1
    BY <1>1, <1>2, FS_Subset
  <2>2. {} \in T
    BY <2>1, ProductLaws
  <2>3. ASSUME NEW s \in SUBSET S, NEW a \in S \ s, s \in T PROVE s \cup {a} \in T
    <3> DEFINE u == s \cup {a}
    <3>1. u \in SUBSET S /\ a \in u /\ u \ {a} = s
      OBVIOUS
    <3> HIDE DEF u
    <3>2. ProductOf(u, g) = g[a] (.) ProductOf(s, g)
      BY <2>1, <3>1, ProductLaws
    <3>3. g[a] = 1 /\ ProductOf(s, g) = 1
      BY <2>3, <1>2
    <3>4. ProductOf(u, g) = 1
      BY <1>1, <3>2, <3>3, Neutral
    <3> QED  BY <3>1, <3>4 DEF u
  <2> HIDE DEF T
  <2>4. SUBSET S \subseteq T
    BY <2>2, <2>3, SetInduct
  <2> QED  BY <2>4 DEF T
<1>3. ASSUME NEW a \in S, \A i \in S : g[i] \in F, g[a] = 0 PROVE ProductOf(S, g) = 0
  <2>1. ProductOf(S, g) = g[a] (.) ProductOf(S \ {a}, g) /\ ProductOf(S \ {a}, g) \in F
    BY <1>3, ProductLaws
  <2> QED  BY <1>3, <2>1, Neutral
<1> QED  BY <1>2, <1>3

\* A sum of zeros and one other term is that term.
LEMMA SumOfOne ==
    ASSUME PrimeField, NEW S, IsFiniteSet(S), NEW g, \A i \in S : g[i] \in F
    PROVE  /\ (\A i \in S : g[i] = 0) => SumOf(S, g) = 0
           /\ \A a \in S : (\A i \in S \ {a} : g[i] = 0) => SumOf(S, g) = g[a]
<1>1. 0 \in F
  BY Operations
<1>2. ASSUME NEW R \in SUBSET S, \A i \in R : g[i] = 0 PROVE SumOf(R, g) = 0
  <2> DEFINE T == {s \in SUBSET R : SumOf(s, g) = 0}
  <2>1. \A s \in SUBSET R : IsFiniteSet(s) /\ \A i \in s : g[i] \in F /\ g[i] = 0
    BY <1>1, <1>2, FS_Subset
  <2>2. {} \in T
    BY <2>1, SumLaws
  <2>3. ASSUME NEW s \in SUBSET R, NEW a \in R \ s, s \in T PROVE s \cup {a} \in T
    <3> DEFINE u == s \cup {a}
    <3>1. u \in SUBSET R /\ a \in u /\ u \ {a} = s
      OBVIOUS
    <3> HIDE DEF u
    <3>2. SumOf(u, g) = g[a] (+) SumOf(s, g)
      BY <2>1, <3>1, SumLaws
    <3>3. g[a] = 0 /\ SumOf(s, g) = 0
      BY <2>3, <1>2
    <3>4. SumOf(u, g) = 0
      BY <1>1, <3>2, <3>3, Neutral
    <3> QED  BY <3>1, <3>4 DEF u
  <2> HIDE DEF T
  <2>4. IsFiniteSet(R)
    BY FS_Subset
  <2>5. SUBSET R \subseteq T
    BY <2>2, <2>3, <2>4, SetInduct
  <2> QED  BY <2>5 DEF T
<1>3. ASSUME NEW a \in S, \A i \in S \ {a} : g[i] = 0 PROVE SumOf(S, g) = g[a]
  <2>1. SumOf(S \ {a}, g) = 0
    BY <1>2, <1>3
  <2> QED  BY <2>1, SumLaws, Neutral
<1> QED  BY <1>2, <1>3

\* At each of the points, what is recombined is the value there.
LEMMA ValueAtPoint ==
    ASSUME PrimeField, NEW xs \in SUBSET F, NEW g, \A i \in xs : g[i] \in F, NEW a \in xs
    PROVE  ValueAt(xs, g, a) = g[a]
<1>1. IsFiniteSet(xs) /\ a \in F /\ 0 \in F /\ 1 \in F
  BY ElementsFinite, Operations
<1>2. Entry(xs, a, a) = 1
  <2>1. \A k \in xs \ {a} : FactorsAt(xs, a, a)[k] = 1
    BY <1>1, FactorsAtInF DEF FactorsAt
  <2> QED  BY <1>1, <2>1, FactorsAtInF, ProductOfOnes DEF Entry
<1>3. ASSUME NEW i \in xs \ {a} PROVE Entry(xs, i, a) = 0
  <2>1. a \in xs \ {i} /\ \A k \in xs \ {i} : FactorsAt(xs, i, a)[k] \in F
    BY <1>1, FactorsAtInF
  <2>2. FactorsAt(xs, i, a)[a] = 0
    <3>1. Inv(Field, a (-) i) \in F /\ a (-) a = 0
      BY <1>1, <2>1, FactorsAtInF, Neutral
    <3> QED  BY <2>1, <3>1, Neutral DEF FactorsAt
  <2>3. IsFiniteSet(xs \ {i})
    BY <1>1, FS_Subset
  <2> QED  BY <2>1, <2>2, <2>3, ProductOfOnes DEF Entry
<1> DEFINE terms == [i \in xs |-> g[i] (.) Entry(xs, i, a)]
<1>4. terms[a] = g[a] /\ \A i \in xs \ {a} : terms[i] = 0
  BY <1>2, <1>3, Neutral
<1>5. \A i \in xs : terms[i] \in F
  BY <1>1, <1>4
<1> HIDE DEF terms
<1>6. SumOf(xs, terms) = g[a]
  BY <1>1, <1>4, <1>5, SumOfOne
<1> QED  BY <1>6 DEF terms, ValueAt

------------------------------------------------------------------------------
\* Polynomials, their values and their coefficients.

\* A polynomial of degree d with d + 1 zeros is 0.
LEMMA ZeroEverywhere ==
    ASSUME PrimeField, NEW d \in Nat, NEW v, NEW P, On(d, v, P),
           NEW S \in SUBSET Players, Cardinality(S) = d + 1, \A i \in S : P[i] = 0
    PROVE  v = 0 /\ \A p \in Players : P[p] = 0
<1> DEFINE U == {e \in Nat : \A w, Q : \A R \in SUBSET Players :
                    On(e, w, Q) /\ Cardinality(R) = e + 1 /\ (\A i \in R : Q[i] = 0)
                       => w = 0 /\ \A p \in Players : Q[p] = 0}
<1>1. \A R \in SUBSET Players : IsFiniteSet(R)
  BY PlayersFinite, FS_Subset
<1>2. 0 \in U
  <2> SUFFICES ASSUME NEW w, NEW Q, NEW R \in SUBSET Players,
                      On(0, w, Q), Cardinality(R) = 1, \A i \in R : Q[i] = 0
               PROVE  w = 0 /\ \A p \in Players : Q[p] = 0
    OBVIOUS
  <2>1. Q = Flat(w)
    BY PolynomialCases
  <2>2. PICK a \in R : TRUE
    BY <1>1, FS_EmptySet
  <2> QED  BY <2>1, <2>2 DEF Flat
<1>3. \A e \in Nat : e \in U => e + 1 \in U
  <2> SUFFICES ASSUME NEW e \in Nat, e \in U, NEW w, NEW Q, NEW R \in SUBSET Players,
                      On(e + 1, w, Q), Cardinality(R) = (e + 1) + 1, \A i \in R : Q[i] = 0
               PROVE  w = 0 /\ \A p \in Players : Q[p] = 0
    OBVIOUS
  <2>1. PICK a \in R : TRUE
    BY <1>1, FS_EmptySet
  <2>2. a \in F /\ 0 \in F /\ 0 (-) a \in F
    BY PointsInF, Neutral, Minus
  <2>3. PICK x, Y : /\ On(e, x, Y)
                    /\ \A p \in Players : Q[p] = Q[a] (+) ((p (-) a) (.) Y[p])
                    /\ w = Q[a] (+) ((0 (-) a) (.) x)
    BY <2>1, PolynomialFactors
  <2>4. x \in F /\ \A p \in Players : Y[p] \in F
    BY <2>3, PolynomialType
  <2>5. ASSUME NEW p \in Players
        PROVE  p (-) a \in F /\ (p (-) a) (.) Y[p] \in F /\ Q[p] = (p (-) a) (.) Y[p]
    <3>1. p \in F /\ p (-) a \in F
      BY <2>2, PointsInF, ClosedInF
    <3>2. (p (-) a) (.) Y[p] \in F
      BY <3>1, <2>4, ClosedInF
    <3>3. Q[p] = 0 (+) ((p (-) a) (.) Y[p])
      BY <2>3, <2>1
    <3> QED  BY <3>1, <3>2, <3>3, Neutral
  <2>6. ASSUME NEW i \in R \ {a} PROVE Y[i] = 0
    <3> DEFINE c == i (-) a
    <3>1. c \in F /\ c # 0
      BY <2>2, PointsInF, DifferenceIsNot0
    <3>2. c (.) Y[i] = 0
      BY <2>5
    <3> HIDE DEF c
    <3>3. c (.) 0 = 0
      BY <3>1, Neutral
    <3> QED  BY <3>1, <3>2, <3>3, <2>2, <2>4, MulCancels
  <2>7. R \ {a} \in SUBSET Players /\ Cardinality(R \ {a}) = e + 1
    BY <1>1, <2>1, FS_RemoveElement
  <2>8. x = 0 /\ \A p \in Players : Y[p] = 0
    BY <2>3, <2>6, <2>7
  <2>9. w = 0
    BY <2>2, Neutral, <2>1, <2>3, <2>8
  <2>10. \A p \in Players : Q[p] = 0
    BY <2>5, <2>8, Neutral
  <2> QED  BY <2>9, <2>10
<1>4. d \in U
  <2> HIDE DEF U
  <2> QED  BY <1>2, <1>3, Induct
<1> QED  BY <1>4

\* d + 1 values determine a polynomial of degree d.
LEMMA ValuesDetermine ==
    ASSUME PrimeField, NEW d \in Nat, NEW v, NEW P, On(d, v, P), NEW w, NEW Q, On(d, w, Q),
           NEW S \in SUBSET Players, Cardinality(S) = d + 1, \A i \in S : P[i] = Q[i]
    PROVE  v = w /\ P = Q
<1> DEFINE x == v (+) (Minus1 (.) w)
           NQ == [p \in Players |-> Minus1 (.) Q[p]]
           X == [p \in Players |-> P[p] (+) NQ[p]]
<1>1. /\ v \in F /\ P \in [Players -> F] /\ \A p \in Players : P[p] \in F
      /\ w \in F /\ Q \in [Players -> F] /\ \A p \in Players : Q[p] \in F
  BY PolynomialType
<1>2. \A a, b \in F : Minus1 \in F /\ a (+) (Minus1 (.) b) = a (-) b
  <2> TAKE a, b \in F
  <2> QED  BY Minus
<1>3. On(d, x, X)
  <2>1. Minus1 \in F
    BY <1>1, <1>2
  <2>2. On(d, Minus1 (.) w, NQ)
    BY <2>1, PolynomialScales
  <2> HIDE DEF NQ
  <2> QED  BY <2>2, PolynomialAdds
<1>4. x = v (-) w /\ \A p \in Players : X[p] = P[p] (-) Q[p]
  BY <1>1, <1>2
<1> HIDE DEF x, X
<1>5. \A i \in S : X[i] = 0
  BY <1>1, <1>4, Neutral
<1>6. x = 0 /\ \A p \in Players : X[p] = 0
  BY <1>3, <1>5, ZeroEverywhere
<1>7. \A a, b \in F : a (-) b = 0 => a = b
  BY DifferenceIsNot0
<1>8. v = w
  BY <1>1, <1>4, <1>6, <1>7
<1>9. ASSUME NEW p \in Players PROVE P[p] = Q[p]
  BY <1>1, <1>4, <1>6, <1>7
<1> QED  BY <1>1, <1>8, <1>9

\* The coefficients without the first.
RestOf(m, r) == [j \in 1 .. m |-> r[j + 1]]

\* What shamir.share deals with one coefficient more.
LEMMA ShareUnfolds ==
    ASSUME PrimeField, NEW secret \in F, NEW m \in Nat, NEW r \in [1 .. m + 1 -> F]
    PROVE  /\ r[1] \in F /\ RestOf(m, r) \in [1 .. m -> F]
           /\ Share(Field, n, secret, r)
                = Raised(secret, Share(Field, n, r[1], RestOf(m, r)))
<1> DEFINE L == m + 1
           l == RestOf(m, r)
           c == <<secret>> \o r
           e == <<r[1]>> \o l
<1>1. r[1] \in F /\ l \in [1 .. m -> F]
  BY DEF RestOf
<1>2. /\ c[1] = secret /\ (\A j \in 1 .. L + 1 : c[j] \in F)
      /\ (\A j \in 1 .. L : e[j] \in F)
  BY <1>1, Coefs
<1>3. \A j \in 1 .. L : c[j + 1] = e[j]
  <2>1. /\ <<secret>> \in Seq(F) /\ Len(<<secret>>) = 1
        /\ <<r[1]>> \in Seq(F) /\ Len(<<r[1]>>) = 1 /\ <<r[1]>>[1] = r[1]
        /\ r \in Seq(F) /\ Len(r) = m + 1 /\ l \in Seq(F) /\ Len(l) = m
    BY <1>1
  <2> HIDE DEF l
  <2>2. \A j \in 1 .. L : c[j + 1] = r[j]
    BY <2>1
  <2>3. e[1] = r[1] /\ \A j \in 2 .. L : e[j] = l[j - 1]
    BY <2>1
  <2>4. \A j \in 2 .. L : l[j - 1] = r[j]
    BY DEF l, RestOf
  <2> HIDE DEF c, e
  <2>5. \A j \in 1 .. L : j = 1 \/ j \in 2 .. L
    OBVIOUS
  <2> HIDE DEF L
  <2> QED  BY <2>2, <2>3, <2>4, <2>5
<1>4. L \in Nat \ {0} /\ L + 1 \in Nat \ {0} /\ 1 # L + 1 /\ L \in 1 .. L + 1
  OBVIOUS
<1> HIDE DEF c, e, L
<1>5. ASSUME NEW i \in Players
      PROVE  HornerAt(c, L + 1, i)[1] = secret (+) (i (.) HornerAt(e, L, i)[1])
  <2> DEFINE g == HornerAt(c, L + 1, i)
             h == HornerAt(e, L, i)
             W == {k \in Nat : k < L => g[(L - k) + 1] = h[L - k]}
  <2>1. \A j \in 1 .. L + 1 : g[j] = IF j = L + 1 THEN c[j] ELSE c[j] (+) (i (.) g[j + 1])
    BY <1>2, <1>4, HornerAtIs
  <2>2. \A j \in 1 .. L : h[j] = IF j = L THEN e[j] ELSE e[j] (+) (i (.) h[j + 1])
    BY <1>2, <1>4, HornerAtIs
  <2> HIDE DEF g, h
  <2>3. 0 \in W
    BY <2>1, <2>2, <1>3, <1>4
  <2>4. \A k \in Nat : k \in W => k + 1 \in W
    <3> SUFFICES ASSUME NEW k \in Nat, k \in W, k + 1 < L
                 PROVE  g[(L - (k + 1)) + 1] = h[L - (k + 1)]
      OBVIOUS
    <3> DEFINE j == L - (k + 1)
    <3>1. j \in 1 .. L /\ j # L /\ j + 1 \in 1 .. L + 1 /\ j + 1 # L + 1 /\ L - k = j + 1
      BY <1>4
    <3>2. g[(j + 1) + 1] = h[j + 1]
      BY <3>1, <1>4
    <3> HIDE DEF j
    <3>3. g[j + 1] = c[j + 1] (+) (i (.) g[(j + 1) + 1])
      BY <3>1, <2>1
    <3>4. h[j] = e[j] (+) (i (.) h[j + 1])
      BY <3>1, <2>2
    <3>5. g[j + 1] = h[j]
      BY <3>1, <3>2, <3>3, <3>4, <1>3
    <3> QED  BY <3>5 DEF j
  <2>5. L - 1 \in W
    <3> HIDE DEF W
    <3>1. L - 1 \in Nat
      BY <1>4
    <3> QED  BY <3>1, <2>3, <2>4, Induct
  <2>6. g[1 + 1] = h[1]
    BY <1>4, <2>5
  <2>7. g[1] = c[1] (+) (i (.) g[1 + 1])
    BY <1>4, <2>1
  <2> QED  BY <2>6, <2>7, <1>2 DEF g, h
<1>6. Share(Field, n, secret, r) = [i \in Players |-> HornerAt(c, L + 1, i)[1]]
  BY ShareIsHorner DEF L, c
<1>7. Share(Field, n, r[1], l) = [i \in Players |-> HornerAt(e, L, i)[1]]
  <2> HIDE DEF l
  <2> QED  BY <1>1, ShareIsHorner DEF L, e
<1> QED  BY <1>1, <1>5, <1>6, <1>7 DEF Raised

\* What shamir.share deals without a coefficient.
LEMMA ShareConstant ==
    ASSUME PrimeField, NEW secret \in F, NEW r \in [1 .. 0 -> F]
    PROVE  Share(Field, n, secret, r) = Flat(secret)
<1>1. On(0, secret, Share(Field, n, secret, r))
  BY ShareIsOn
<1> QED  BY <1>1, PolynomialCases

\* Every polynomial is dealt with some coefficients.
LEMMA CoefficientsExist ==
    ASSUME PrimeField, NEW d \in Nat, NEW v, NEW P, On(d, v, P)
    PROVE  v \in F /\ \E r \in [1 .. d -> F] : P = Share(Field, n, v, r)
<1> DEFINE U == {e \in Nat : \A w, Q : On(e, w, Q)
                                 => \E r \in [1 .. e -> F] : Q = Share(Field, n, w, r)}
<1>1. 0 \in U
  <2> SUFFICES ASSUME NEW w, NEW Q, On(0, w, Q)
               PROVE  \E r \in [1 .. 0 -> F] : Q = Share(Field, n, w, r)
    OBVIOUS
  <2>1. w \in F /\ Q = Flat(w)
    BY PolynomialCases
  <2>2. PICK r \in [1 .. 0 -> F] : TRUE
    <3>1. [j \in 1 .. 0 |-> w] \in [1 .. 0 -> F]
      BY <2>1
    <3> QED  BY <3>1
  <2>3. Share(Field, n, w, r) = Flat(w)
    BY <2>1, ShareConstant
  <2> QED  BY <2>1, <2>3
<1>2. \A e \in Nat : e \in U => e + 1 \in U
  <2> SUFFICES ASSUME NEW e \in Nat, e \in U, NEW w, NEW Q, On(e + 1, w, Q)
               PROVE  \E r \in [1 .. e + 1 -> F] : Q = Share(Field, n, w, r)
    OBVIOUS
  <2>1. PICK x, Y : w \in F /\ On(e, x, Y) /\ Q = Raised(w, Y)
    BY PolynomialSplits
  <2>2. x \in F
    BY <2>1, PolynomialType
  <2>3. PICK s \in [1 .. e -> F] : Y = Share(Field, n, x, s)
    BY <2>1
  <2> DEFINE r == [j \in 1 .. e + 1 |-> IF j = 1 THEN x ELSE s[j - 1]]
  <2>4. r \in [1 .. e + 1 -> F]
    BY <2>2, <2>3
  <2>5. r[1] = x /\ RestOf(e, r) = s
    <3>1. \A j \in 1 .. e : j + 1 \in 1 .. e + 1 /\ j + 1 # 1 /\ (j + 1) - 1 = j
      OBVIOUS
    <3>2. \A j \in 1 .. e : RestOf(e, r)[j] = s[j]
      BY <3>1 DEF RestOf
    <3>3. RestOf(e, r) = [j \in 1 .. e |-> RestOf(e, r)[j]] /\ s = [j \in 1 .. e |-> s[j]]
      BY <2>3 DEF RestOf
    <3>4. [j \in 1 .. e |-> RestOf(e, r)[j]] = [j \in 1 .. e |-> s[j]]
      BY <3>2
    <3> HIDE DEF r
    <3>5. RestOf(e, r) = s
      BY <3>3, <3>4
    <3> QED  BY <3>5 DEF r
  <2> HIDE DEF r
  <2>6. Share(Field, n, w, r) = Raised(w, Share(Field, n, r[1], RestOf(e, r)))
    BY <2>1, <2>4, ShareUnfolds
  <2>7. Q = Share(Field, n, w, r)
    BY <2>1, <2>3, <2>5, <2>6
  <2> QED  BY <2>4, <2>7
<1>3. d \in U
  <2> HIDE DEF U
  <2> QED  BY <1>1, <1>2, Induct
<1> QED  BY <1>3, PolynomialType

------------------------------------------------------------------------------
\* What shamir.py promises of sharings: verify_sharing accepts them and nothing else,
\* and with as many shares as the degree every secret is possible.

\* 0 and some players are points of the field.
LEMMA PointsAnd0 ==
    ASSUME PrimeField, NEW S \in SUBSET Players
    PROVE  /\ S \in SUBSET F /\ {0} \cup S \in SUBSET F
           /\ IsFiniteSet(S) /\ Cardinality(S) \in Nat
           /\ Cardinality({0} \cup S) = Cardinality(S) + 1
<1>1. S \in SUBSET F /\ 0 \in F /\ 0 \notin S
  BY PointsInF, Operations
<1>2. IsFiniteSet(S) /\ Cardinality(S) \in Nat
  BY <1>1, ElementsFinite
<1>3. {0} \cup S = S \cup {0} /\ Cardinality(S \cup {0}) = Cardinality(S) + 1
  BY <1>1, <1>2, FS_AddElement
<1> QED  BY <1>1, <1>2, <1>3

\* verify_sharing (shamir.py) accepts the shares of all players if and only if they are
\* what share deals, with polynomials of the given degree: no player's share can be
\* changed, or be of a polynomial of higher degree, without it being noticed.
THEOREM VerifySharingAccepts ==
    ASSUME PrimeField, NEW degree \in 1 .. n - 1, NEW shares \in [Players -> F]
    PROVE  VerifySharing(Field, shares, degree)
             <=> \E secret \in F : \E r \in [1 .. degree -> F] :
                    shares = Share(Field, n, secret, r)
<1> DEFINE S == 1 .. degree + 1
           P == [p \in Players |-> ValueAt(S, shares, p)]
<1>1. n \in Nat /\ degree \in Nat /\ S \in SUBSET Players /\ Cardinality(S) = degree + 1
  BY PassiveAssumption, FS_Interval DEF Players
<1>2. S \in SUBSET F /\ IsFiniteSet(S) /\ \A i \in S : shares[i] \in F
  BY <1>1, PointsAnd0
<1>3. On(degree, ValueAt(S, shares, 0), P)
  <2> HIDE DEF S
  <2> QED  BY <1>1, <1>2, ValueIsOn
<1>4. \A a \in S : P[a] = shares[a]
  <2> HIDE DEF S
  <2> QED  BY <1>1, <1>2, ValueAtPoint
<1>5. DOMAIN shares = Players /\ Cardinality(DOMAIN shares) = n
  BY <1>1, FS_Interval DEF Players
<1>6. \A i \in Players : RecombineAt(Field, First(degree + 1, shares), i) = P[i]
  <2> TAKE i \in Players
  <2>1. First(degree + 1, shares) = [j \in S |-> shares[j]]
    BY DEF First
  <2>2. RecombineAt(Field, [j \in S |-> shares[j]], i) = ValueAt(S, shares, i)
    <3> HIDE DEF S
    <3> QED  BY <1>2, PointsInF, RecombineAtIs
  <2> QED  BY <2>1, <2>2
<1>7. VerifySharing(Field, shares, degree) <=> \A i \in degree + 1 .. n : P[i] = shares[i]
  <2>1. \A i \in degree + 1 .. n : i \in Players
    BY <1>1 DEF Players
  <2> HIDE DEF P
  <2> QED  BY <2>1, <1>5, <1>6 DEF VerifySharing
<1>8. VerifySharing(Field, shares, degree) <=> P = shares
  <2>1. \A i \in Players : i \in S \/ i \in degree + 1 .. n
    BY <1>1 DEF Players
  <2>2. \A i \in degree + 1 .. n : i \in Players
    BY <1>1 DEF Players
  <2>3. P = [i \in Players |-> P[i]] /\ shares = [i \in Players |-> shares[i]]
    OBVIOUS
  <2> HIDE DEF P, S
  <2>4. P = shares <=> \A i \in Players : P[i] = shares[i]
    BY <2>3
  <2> QED  BY <1>4, <1>7, <2>1, <2>2, <2>4
<1> HIDE DEF P, S
<1>9. ASSUME P = shares
      PROVE  \E secret \in F : \E r \in [1 .. degree -> F] :
                shares = Share(Field, n, secret, r)
  BY <1>1, <1>3, <1>9, CoefficientsExist
<1>10. ASSUME NEW secret \in F, NEW r \in [1 .. degree -> F],
              shares = Share(Field, n, secret, r)
       PROVE  P = shares
  BY <1>1, <1>10, ShareIsOn, <1>3, <1>4, ValuesDetermine
<1> QED  BY <1>8, <1>9, <1>10

\* The coefficients that give the players in S what view has for them.
Explains(r, secret, S, view) == \A i \in S : Share(Field, n, secret, r)[i] = view[i]

\* There are such coefficients, for every secret.
LEMMA CoefficientsToShow ==
    ASSUME PrimeField, NEW secret \in F, NEW S \in SUBSET Players, NEW view \in [S -> F]
    PROVE  \E r \in [1 .. Cardinality(S) -> F] : Explains(r, secret, S, view)
<1> DEFINE xs == {0} \cup S
           g == [i \in xs |-> IF i = 0 THEN secret ELSE view[i]]
           m == Cardinality(S)
           P == [p \in Players |-> ValueAt(xs, g, p)]
<1>1. xs \in SUBSET F /\ m \in Nat /\ Cardinality(xs) = m + 1
  BY PointsAnd0
<1>2. \A i \in xs : g[i] \in F
  OBVIOUS
<1>3. 0 \in xs /\ g[0] = secret /\ \A i \in S : i \in xs /\ g[i] = view[i]
  BY PointsInF
<1> HIDE DEF xs, g, m
<1>4. On(m, ValueAt(xs, g, 0), P)
  BY <1>1, <1>2, ValueIsOn
<1>5. ValueAt(xs, g, 0) = secret /\ \A i \in S : ValueAt(xs, g, i) = view[i]
  BY <1>1, <1>2, <1>3, ValueAtPoint
<1>6. On(m, secret, P) /\ \A i \in S : P[i] = view[i]
  BY <1>4, <1>5
<1> HIDE DEF P
<1>7. PICK r \in [1 .. m -> F] : P = Share(Field, n, secret, r)
  BY <1>1, <1>6, CoefficientsExist
<1> QED  BY <1>6, <1>7 DEF Explains, m

\* The players in R have the same shares of c with the coefficients x as with y.
AgreeOn(R, c, x, y) == \A i \in R : Share(Field, n, c, x)[i] = Share(Field, n, c, y)[i]

\* m shares and the secret determine m coefficients.
DeterminedBy(m) ==
    \A c \in F : \A x, y \in [1 .. m -> F] : \A R \in SUBSET Players :
       Cardinality(R) = m /\ AgreeOn(R, c, x, y) => x = y

\* And no two.
LEMMA CoefficientsDetermined ==
    ASSUME PrimeField, NEW secret \in F, NEW S \in SUBSET Players, NEW view,
           NEW r \in [1 .. Cardinality(S) -> F], Explains(r, secret, S, view),
           NEW s \in [1 .. Cardinality(S) -> F], Explains(s, secret, S, view)
    PROVE  r = s
<1>1. DeterminedBy(0)
  BY DEF DeterminedBy
<1>2. ASSUME NEW m \in Nat, DeterminedBy(m)
      PROVE  DeterminedBy(m + 1)
  <2> SUFFICES ASSUME NEW c \in F,
                      NEW x \in [1 .. m + 1 -> F], NEW y \in [1 .. m + 1 -> F],
                      NEW R \in SUBSET Players, Cardinality(R) = m + 1,
                      AgreeOn(R, c, x, y)
               PROVE  x = y
    BY Zenon DEF DeterminedBy
  <2>0. IsFiniteSet(R)
    BY PlayersFinite, FS_Subset
  <2> DEFINE P == Share(Field, n, x[1], RestOf(m, x))
             Q == Share(Field, n, y[1], RestOf(m, y))
  <2>1. /\ x[1] \in F /\ RestOf(m, x) \in [1 .. m -> F] /\ Share(Field, n, c, x) = Raised(c, P)
        /\ y[1] \in F /\ RestOf(m, y) \in [1 .. m -> F] /\ Share(Field, n, c, y) = Raised(c, Q)
    BY ShareUnfolds
  <2>2. On(m, x[1], P) /\ On(m, y[1], Q)
    BY <2>1, ShareIsOn
  <2> HIDE DEF P, Q
  <2>3. \A i \in Players : P[i] \in F /\ Q[i] \in F
    BY <2>2, PolynomialType
  <2>4. ASSUME NEW i \in R PROVE P[i] = Q[i]
    <3>1. i \in F /\ i # 0 /\ P[i] \in F /\ Q[i] \in F
      BY <2>3, PointsInF
    <3>2. c (+) (i (.) P[i]) = c (+) (i (.) Q[i])
      BY <2>1 DEF Raised, AgreeOn
    <3>3. i (.) P[i] \in F /\ i (.) Q[i] \in F
      BY <3>1, ClosedInF
    <3>4. i (.) P[i] = i (.) Q[i]
      BY <3>2, <3>3, AddCancels
    <3> QED  BY <3>1, <3>4, MulCancels
  <2>5. x[1] = y[1] /\ P = Q
    BY <2>2, <2>4, ValuesDetermine
  <2>6. PICK a \in R : TRUE
    BY <2>0, FS_EmptySet
  <2>7. R \ {a} \in SUBSET Players /\ Cardinality(R \ {a}) = m
    <3>1. Cardinality(R \ {a}) = Cardinality(R) - 1
      BY <2>0, <2>6, FS_RemoveElement
    <3> QED  BY <3>1
  <2>8. RestOf(m, x) = RestOf(m, y)
    <3> DEFINE l == RestOf(m, x)
               k == RestOf(m, y)
    <3>1. /\ l \in [1 .. m -> F] /\ k \in [1 .. m -> F]
          /\ Share(Field, n, x[1], l) = Share(Field, n, x[1], k)
      BY <2>1, <2>5 DEF P, Q
    <3> HIDE DEF l, k
    <3> DEFINE T == R \ {a}
    <3>2. T \in SUBSET Players /\ Cardinality(T) = m
      BY <2>7
    <3>3. AgreeOn(T, x[1], l, k)
      BY <3>1 DEF AgreeOn
    <3> HIDE DEF T
    <3>5. l = k
      BY <1>2, <2>1, <3>1, <3>2, <3>3, Zenon DEF DeterminedBy
    <3> QED  BY <3>5 DEF l, k
  <2>9. \A j \in 1 .. m + 1 : x[j] = y[j]
    <3> TAKE j \in 1 .. m + 1
    <3>1. CASE j = 1
      BY <3>1, <2>5
    <3>2. CASE j # 1
      <4>1. j - 1 \in 1 .. m /\ (j - 1) + 1 = j
        BY <3>2
      <4>2. RestOf(m, x)[j - 1] = x[j] /\ RestOf(m, y)[j - 1] = y[j]
        BY <4>1 DEF RestOf
      <4> QED  BY <4>2, <2>8
    <3> QED  BY <3>1, <3>2
  <2> QED  BY <2>9
<1>3. DeterminedBy(Cardinality(S))
  <2> DEFINE U == {m \in Nat : DeterminedBy(m)}
  <2>1. Cardinality(S) \in Nat
    BY PointsAnd0
  <2>2. 0 \in U /\ \A m \in Nat : m \in U => m + 1 \in U
    BY <1>1, <1>2
  <2> HIDE DEF U
  <2>3. Cardinality(S) \in U
    BY <2>1, <2>2, Induct
  <2> QED  BY <2>3 DEF U
<1>4. AgreeOn(S, secret, r, s)
  BY DEF AgreeOn, Explains
<1> QED  BY <1>3, <1>4, Zenon DEF DeterminedBy

\* Shamir's sharing hides the secret: whatever m players may see of a sharing of degree
\* m, there is, for every secret, exactly one choice of the m random coefficients of
\* share (shamir.py) with which they see it. So what they see is as likely with one
\* secret as with another, and tells them nothing.
THEOREM SharesHide ==
    ASSUME PrimeField, NEW S \in SUBSET Players, NEW view \in [S -> F], NEW secret \in F
    PROVE  \E r \in [1 .. Cardinality(S) -> F] :
              \A s \in [1 .. Cardinality(S) -> F] :
                 s = r <=> \A i \in S : Share(Field, n, secret, s)[i] = view[i]
<1>1. PICK r \in [1 .. Cardinality(S) -> F] : Explains(r, secret, S, view)
  BY CoefficientsToShow
<1>2. \A s \in [1 .. Cardinality(S) -> F] : Explains(s, secret, S, view) => s = r
  BY <1>1, CoefficientsDetermined
<1>3. \A s \in [1 .. Cardinality(S) -> F] : s = r <=> Explains(s, secret, S, view)
  BY <1>1, <1>2
<1> QED  BY <1>3 DEF Explains

------------------------------------------------------------------------------
\* Pseudo-random secret sharing (prss.py).

Unqualified == MaxUnqualifiedSubsets(n, t)

\* The points at which the polynomial of a subset is given, and its values there.
PointsOf(s) == {0} \cup (Players \ s)
At0(s) == [x \in PointsOf(s) |-> IF x = 0 THEN 1 ELSE 0]

\* A subset with a key: the polynomial is given at t + 1 points.
LEMMA Subsets ==
    ASSUME PrimeField
    PROVE  /\ IsFiniteSet(Unqualified)
           /\ \A s \in Unqualified :
                 /\ s \in SUBSET Players
                 /\ PointsOf(s) \in SUBSET F /\ Cardinality(PointsOf(s)) = t + 1
<1>1. n \in Nat /\ t \in Nat /\ Players = 1 .. n /\ Cardinality(Players) = n /\ IsFiniteSet(Players)
  BY PassiveAssumption, FS_Interval DEF Players
<1>2. Unqualified = {s \in SUBSET Players : Cardinality(s) = n - t}
  BY DEF Unqualified, MaxUnqualifiedSubsets, GenerateSubsets, Players
<1>3. IsFiniteSet(Unqualified)
  <2>1. IsFiniteSet(SUBSET Players)
    BY <1>1, FS_SUBSET
  <2> QED  BY <1>2, <2>1, FS_Subset
<1>4. ASSUME NEW s \in Unqualified
      PROVE  /\ s \in SUBSET Players
             /\ PointsOf(s) \in SUBSET F /\ Cardinality(PointsOf(s)) = t + 1
  <2> DEFINE R == Players \ s
  <2>1. s \in SUBSET Players /\ Cardinality(s) = n - t /\ Players \cap s = s
    BY <1>2
  <2>2. Cardinality(R) = Cardinality(Players) - Cardinality(Players \cap s)
    BY <1>1, FS_Difference
  <2>3. Cardinality(R) = t /\ R \in SUBSET Players
    <3>1. R \in SUBSET Players
      OBVIOUS
    <3> HIDE DEF R
    <3>2. Cardinality(R) = n - (n - t)
      BY <1>1, <2>1, <2>2
    <3> QED  BY <1>1, <3>1, <3>2
  <2> HIDE DEF R
  <2>4. {0} \cup R \in SUBSET F /\ Cardinality({0} \cup R) = t + 1
    BY <2>3, PointsAnd0
  <2> QED  BY <2>1, <2>4 DEF PointsOf, R
<1> QED  BY <1>3, <1>4

\* The polynomial of a subset, as prss.py interpolates it.
LEMMA InterpolationIs ==
    ASSUME PrimeField, NEW s \in Unqualified
    PROVE  /\ On(t, 1, [p \in Players |-> InterpolationAt(Field, n, p, s)])
           /\ \A p \in Players :
                 /\ InterpolationAt(Field, n, p, s) \in F
                 /\ p \notin s => InterpolationAt(Field, n, p, s) = 0
<1> DEFINE xs == PointsOf(s)
           g == At0(s)
           P == [p \in Players |-> ValueAt(xs, g, p)]
<1>1. xs \in SUBSET F /\ Cardinality(xs) = t + 1 /\ t \in Nat
  BY Subsets, PassiveAssumption
<1>2. 0 \in F /\ 1 \in F
  BY Operations
<1>3. /\ \A x \in xs : g[x] \in F
      /\ g = [x \in xs |-> g[x]]
      /\ 0 \in xs /\ g[0] = 1
      /\ \A p \in Players \ s : p \in xs /\ g[p] = 0
  BY <1>2, PointsInF DEF At0, PointsOf
<1>4. \A p : InterpolationAt(Field, n, p, s) = RecombineAt(Field, g, p)
  BY DEF InterpolationAt, At0, PointsOf, Players
<1> HIDE DEF xs, g
<1>5. \A p \in Players : InterpolationAt(Field, n, p, s) = P[p] /\ P[p] \in F
  <2> TAKE p \in Players
  <2>1. p \in F
    BY PointsInF
  <2>2. RecombineAt(Field, [x \in xs |-> g[x]], p) = ValueAt(xs, g, p) /\ ValueAt(xs, g, p) \in F
    BY <1>1, <1>3, <2>1, RecombineAtIs
  <2> QED  BY <1>3, <1>4, <2>2
<1>6. On(t, ValueAt(xs, g, 0), P)
  BY <1>1, <1>3, ValueIsOn
<1>7. ValueAt(xs, g, 0) = 1 /\ \A p \in Players \ s : ValueAt(xs, g, p) = 0
  BY <1>1, <1>3, ValueAtPoint
<1>8. [p \in Players |-> InterpolationAt(Field, n, p, s)] = P
  BY <1>5
<1>9. ASSUME NEW p \in Players, p \notin s PROVE InterpolationAt(Field, n, p, s) = 0
  BY <1>5, <1>7, <1>9
<1> HIDE DEF P
<1> QED  BY <1>5, <1>6, <1>7, <1>8, <1>9

\* Terms that are 0 can be left out of a sum.
LEMMA SumDropsZeros ==
    ASSUME PrimeField, NEW S, IsFiniteSet(S), NEW g, \A i \in S : g[i] \in F,
           NEW R \in SUBSET S, \A i \in S \ R : g[i] = 0
    PROVE  SumOf(S, g) = SumOf(R, g)
<1> DEFINE T == {s \in SUBSET (S \ R) : SumOf(R \cup s, g) = SumOf(R, g)}
<1>1. \A s \in SUBSET S : /\ IsFiniteSet(s) /\ SumOf(s, g) \in F
                          /\ \A a \in s : SumOf(s, g) = g[a] (+) SumOf(s \ {a}, g)
  <2> TAKE s \in SUBSET S
  <2>1. IsFiniteSet(s) /\ \A i \in s : g[i] \in F
    BY FS_Subset
  <2> QED  BY <2>1, SumLaws
<1>2. {} \in T
  <2>1. R \cup {} = R
    OBVIOUS
  <2> QED  BY <2>1
<1>3. ASSUME NEW s \in SUBSET (S \ R), NEW a \in (S \ R) \ s, s \in T
      PROVE  s \cup {a} \in T
  <2> DEFINE u == R \cup (s \cup {a})
  <2>1. u \in SUBSET S /\ a \in u /\ u \ {a} = R \cup s /\ R \cup s \in SUBSET S
    OBVIOUS
  <2> HIDE DEF u
  <2>2. SumOf(u, g) = g[a] (+) SumOf(R \cup s, g) /\ SumOf(R \cup s, g) \in F
    BY <1>1, <2>1
  <2>3. g[a] = 0 /\ SumOf(R \cup s, g) = SumOf(R, g)
    BY <1>3
  <2>4. SumOf(u, g) = SumOf(R, g)
    BY <2>2, <2>3, Neutral
  <2> QED  BY <1>3, <2>4 DEF u
<1> HIDE DEF T
<1> DEFINE D == S \ R
<1>4. IsFiniteSet(D) /\ R \cup D = S
  BY <1>1
<1>5. \A s \in SUBSET D : \A x \in D \ s : s \in T => s \cup {x} \in T
  BY <1>3
<1> HIDE DEF D
<1>6. SUBSET D \subseteq T
  BY <1>2, <1>4, <1>5, SetInduct
<1>7. D \in T
  BY <1>6
<1> QED  BY <1>4, <1>7 DEF T

\* What a player computes from what its keys gave.
LEMMA ConvertIs ==
    ASSUME PrimeField, NEW j \in Players, NEW K \in SUBSET Unqualified,
           NEW rep, DOMAIN rep = K, \A s \in K : rep[s] \in Int
    PROVE  /\ ConvertReplicatedShamir(Field, n, j, rep)
                = SumOf(K, [s \in K |-> ToField(Field, rep[s])
                                            (.) InterpolationAt(Field, n, j, s)])
           /\ IsFiniteSet(K)
           /\ \A s \in K : /\ ToField(Field, rep[s]) \in F
                           /\ ToField(Field, rep[s]) (.) InterpolationAt(Field, n, j, s) \in F
<1> DEFINE term(s) == Mul(Field, ToField(Field, rep[s]), InterpolationAt(Field, n, j, s))
           terms == [s \in K |-> ToField(Field, rep[s]) (.) InterpolationAt(Field, n, j, s)]
           P(f) == f = [s \in SUBSET K |->
                           IF s = {} THEN 0
                           ELSE LET k == CHOOSE k \in s : TRUE
                                IN  Add(Field, term(k), f[s \ {k}])]
           f == CHOOSE f : P(f)
<1>1. IsFiniteSet(K)
  BY Subsets, FS_Subset
<1>2. \A s \in K : ToField(Field, rep[s]) \in F /\ terms[s] \in F /\ terms[s] = term(s)
  <2> TAKE s \in K
  <2>1. ToField(Field, rep[s]) \in F /\ InterpolationAt(Field, n, j, s) \in F
    BY ToFieldInF, InterpolationIs
  <2>2. ToField(Field, rep[s]) (.) InterpolationAt(Field, n, j, s) \in F
    BY <2>1, ClosedInF
  <2> QED  BY <2>1, <2>2 DEF (.)
<1>3. ConvertReplicatedShamir(Field, n, j, rep) = f[K]
  <2> DEFINE iter[s \in SUBSET DOMAIN rep] ==
                 IF s = {} THEN 0
                 ELSE LET k == CHOOSE k \in s : TRUE
                      IN  Add(Field, term(k), iter[s \ {k}])
  <2>1. ConvertReplicatedShamir(Field, n, j, rep) = iter[DOMAIN rep]
    BY DEF ConvertReplicatedShamir, SumOver, MapThenFoldSet
  <2>2. iter = f
    <3> HIDE DEF term
    <3> QED  OBVIOUS
  <2> QED  BY <2>1, <2>2
<1> HIDE DEF term, terms
<1>4. \A h : P(h) <=> IsSum(h, K, terms)
  <2> TAKE h
  <2> DEFINE l == [s \in SUBSET K |->
                      IF s = {} THEN 0 ELSE Add(Field, term(Some(s)), h[s \ {Some(s)}])]
             r == [s \in SUBSET K |->
                      IF s = {} THEN 0 ELSE Add(Field, terms[Some(s)], h[s \ {Some(s)}])]
  <2>1. \A s \in SUBSET K : s # {} => Some(s) \in K
    BY <1>1, SomeIsMember
  <2>2. l = r
    BY <2>1, <1>2
  <2>3. P(h) <=> h = l
    BY DEF Some
  <2>4. IsSum(h, K, terms) <=> h = r
    BY DEF IsSum
  <2> QED  BY <2>2, <2>3, <2>4
<1>5. (\E h : IsSum(h, K, terms)) /\ \A h : IsSum(h, K, terms) => h[K] = SumOf(K, terms)
  BY <1>1, <1>2, SumIsFold
<1>6. IsSum(f, K, terms)
  <2> HIDE DEF P
  <2>1. \E h : P(h)
    BY <1>4, <1>5
  <2>2. P(f)
    BY <2>1
  <2> QED  BY <1>4, <2>2
<1> HIDE DEF f
<1> QED  BY <1>1, <1>2, <1>3, <1>5, <1>6 DEF terms

\* What the keys of a player give, if those of all players give prf.
Given(prf, player) == [s \in PrssKeys(n, t, player) |-> prf[s]]

Parts(prf) == [s \in Unqualified |-> ToField(Field, prf[s])]

PrssSum(prf) == SumOf(Unqualified, Parts(prf))

\* A player computes the same from all keys as from its own, and uses its own.
LEMMA OwnKeysSuffice ==
    ASSUME NEW j, NEW prf, DOMAIN prf = Unqualified
    PROVE  /\ RandomReplicatedSharing(j, prf) = Given(prf, j)
           /\ RandomReplicatedSharing(j, Given(prf, j)) = Given(prf, j)
           /\ DOMAIN Given(prf, j) = {s \in Unqualified : j \in s}
<1> DEFINE K == {s \in Unqualified : j \in s}
           g == Given(prf, j)
<1>1. PrssKeys(n, t, j) = K
  BY DEF PrssKeys, Unqualified
<1>2. g = [s \in K |-> prf[s]]
  BY <1>1 DEF Given
<1>3. {u \in DOMAIN prf : j \in u} = K
  OBVIOUS
<1> HIDE DEF g
<1>4. {u \in DOMAIN g : j \in u} = K /\ DOMAIN g = K
  BY <1>2
<1>5. [s \in K |-> g[s]] = [s \in K |-> prf[s]]
  BY <1>2
<1> HIDE DEF K
<1> QED  BY <1>2, <1>3, <1>4, <1>5 DEF RandomReplicatedSharing, g, K

\* The shares of prss lie on a polynomial that shares the sum of all parts.
LEMMA PrssIsOn ==
    ASSUME PrimeField, NEW prf \in [Unqualified -> Int]
    PROVE  /\ On(t, PrssSum(prf), [j \in Players |-> Prss(Field, n, j, prf)])
           /\ \A j \in Players : Prss(Field, n, j, Given(prf, j)) = Prss(Field, n, j, prf)
<1> DEFINE I(j, s) == InterpolationAt(Field, n, j, s)
           v == Parts(prf)
           P == [s \in Unqualified |-> [p \in Players |-> v[s] (.) I(p, s)]]
           At(p) == [s \in Unqualified |-> P[s][p]]
           Total == [p \in Players |-> SumOf(Unqualified, At(p))]
<1>1. IsFiniteSet(Unqualified) /\ t \in Nat
  BY Subsets, PassiveAssumption
<1>2. \A s \in Unqualified : v[s] \in F /\ v[s] = ToField(Field, prf[s])
  BY ToFieldInF DEF Parts
<1> HIDE DEF v
<1>3. ASSUME NEW s \in Unqualified PROVE On(t, v[s], P[s])
  <2> DEFINE Q == [p \in Players |-> I(p, s)]
             c == v[s]
  <2>1. On(t, 1, Q) /\ c \in F /\ c (.) 1 = c
    BY <1>2, InterpolationIs, Neutral
  <2>2. P[s] = [p \in Players |-> c (.) Q[p]]
    OBVIOUS
  <2> HIDE DEF Q, c, P
  <2>3. On(t, c (.) 1, [p \in Players |-> c (.) Q[p]])
    BY <1>1, <2>1, PolynomialScales
  <2> QED  BY <2>1, <2>2, <2>3 DEF c
<1>4. On(t, SumOf(Unqualified, v), Total)
  <2> HIDE DEF P
  <2> QED  BY <1>1, <1>3, PolynomialSum
<1>5. ASSUME NEW j \in Players
      PROVE  /\ Prss(Field, n, j, prf) = Total[j]
             /\ Prss(Field, n, j, Given(prf, j)) = Prss(Field, n, j, prf)
  <2> DEFINE K == {s \in Unqualified : j \in s}
             g == Given(prf, j)
             terms == [s \in K |-> ToField(Field, g[s]) (.) I(j, s)]
  <2>1. RandomReplicatedSharing(j, prf) = g /\ RandomReplicatedSharing(j, g) = g /\ DOMAIN g = K
    BY OwnKeysSuffice
  <2>2. \A s \in K : g[s] = prf[s] /\ g[s] \in Int
    BY DEF PrssKeys, Unqualified, Given
  <2>3. K \in SUBSET Unqualified
    OBVIOUS
  <2> HIDE DEF g
  <2>4. /\ ConvertReplicatedShamir(Field, n, j, g) = SumOf(K, terms)
        /\ IsFiniteSet(K)
        /\ \A s \in K : terms[s] \in F
    <3> HIDE DEF K
    <3> QED  BY <2>1, <2>2, <2>3, ConvertIs
  <2>5. \A s \in Unqualified : At(j)[s] \in F
    <3> TAKE s \in Unqualified
    <3>1. v[s] \in F /\ I(j, s) \in F
      BY <1>2, InterpolationIs
    <3> QED  BY <3>1, ClosedInF
  <2>6. \A s \in K : terms[s] = At(j)[s]
    BY <1>2, <2>2
  <2>7. \A s \in Unqualified \ K : At(j)[s] = 0
    <3> TAKE s \in Unqualified \ K
    <3>1. I(j, s) = 0 /\ v[s] \in F
      BY <1>2, InterpolationIs
    <3> QED  BY <3>1, Neutral
  <2> HIDE DEF At, terms, K
  <2>8. SumOf(K, terms) = SumOf(K, At(j))
    BY <2>3, <2>4, <2>5, <2>6, SumCongruence
  <2>9. SumOf(Unqualified, At(j)) = SumOf(K, At(j))
    BY <1>1, <2>3, <2>5, <2>7, SumDropsZeros
  <2>10. Prss(Field, n, j, prf) = SumOf(Unqualified, At(j))
    BY <2>1, <2>4, <2>8, <2>9 DEF Prss
  <2>11. Prss(Field, n, j, g) = Prss(Field, n, j, prf)
    BY <2>1 DEF Prss
  <2> QED  BY <2>10, <2>11 DEF g
<1> HIDE DEF At
<1>6. [j \in Players |-> Prss(Field, n, j, prf)] = Total
  BY <1>5
<1> QED  BY <1>4, <1>5, <1>6 DEF PrssSum, v

\* SumOver, of the parts.
LEMMA PrssSumIs ==
    ASSUME PrimeField, NEW prf \in [Unqualified -> Int]
    PROVE  /\ SumOver(Field, Unqualified, LAMBDA s : ToField(Field, prf[s])) = PrssSum(prf)
           /\ PrssSum(prf) \in F
<1> DEFINE terms == Parts(prf)
           K == Unqualified
           P(f) == f = [s \in SUBSET K |->
                           IF s = {} THEN 0
                           ELSE LET k == CHOOSE k \in s : TRUE
                                IN  Add(Field, ToField(Field, prf[k]), f[s \ {k}])]
           f == CHOOSE f : P(f)
<1>1. IsFiniteSet(K)
  BY Subsets
<1>2. \A s \in K : terms[s] \in F /\ terms[s] = ToField(Field, prf[s])
  BY ToFieldInF DEF Parts
<1>3. SumOver(Field, K, LAMBDA s : ToField(Field, prf[s])) = f[K]
  <2> DEFINE iter[s \in SUBSET K] ==
                 IF s = {} THEN 0
                 ELSE LET k == CHOOSE k \in s : TRUE
                      IN  Add(Field, ToField(Field, prf[k]), iter[s \ {k}])
  <2>1. SumOver(Field, K, LAMBDA s : ToField(Field, prf[s])) = iter[K]
    BY DEF SumOver, MapThenFoldSet
  <2>2. iter = f
    OBVIOUS
  <2> QED  BY <2>1, <2>2
<1> HIDE DEF terms, K
<1>4. \A h : P(h) <=> IsSum(h, K, terms)
  <2> TAKE h
  <2> DEFINE l == [s \in SUBSET K |->
                      IF s = {} THEN 0
                      ELSE Add(Field, ToField(Field, prf[Some(s)]), h[s \ {Some(s)}])]
             r == [s \in SUBSET K |->
                      IF s = {} THEN 0 ELSE Add(Field, terms[Some(s)], h[s \ {Some(s)}])]
  <2>1. \A s \in SUBSET K : s # {} => Some(s) \in K
    BY <1>1, SomeIsMember
  <2>2. l = r
    BY <2>1, <1>2
  <2>3. P(h) <=> h = l
    BY DEF Some
  <2>4. IsSum(h, K, terms) <=> h = r
    BY DEF IsSum
  <2> QED  BY <2>2, <2>3, <2>4
<1>5. (\E h : IsSum(h, K, terms)) /\ \A h : IsSum(h, K, terms) => h[K] = SumOf(K, terms)
  BY <1>1, <1>2, SumIsFold
<1>6. IsSum(f, K, terms)
  <2> HIDE DEF P
  <2>1. \E h : P(h)
    BY <1>4, <1>5
  <2>2. P(f)
    BY <2>1
  <2> QED  BY <1>4, <2>2
<1> HIDE DEF f
<1>7. SumOf(K, terms) \in F
  BY <1>1, <1>2, SumLaws
<1> QED  BY <1>3, <1>5, <1>6, <1>7 DEF PrssSum, terms, K

\* prss (prss.py): what the players compute, each from the keys that it has, without a
\* message, is a Shamir sharing of degree t of the sum of what all keys give.
THEOREM PrssShares ==
    ASSUME PrimeField, NEW prf \in [MaxUnqualifiedSubsets(n, t) -> Nat]
    PROVE  \E r \in [1 .. t -> F] :
              [j \in Players |-> Prss(Field, n, j, [s \in PrssKeys(n, t, j) |-> prf[s]])]
                = Share(Field, n, SumOver(Field, MaxUnqualifiedSubsets(n, t),
                                          LAMBDA s : ToField(Field, prf[s])), r)
<1> DEFINE P == [j \in Players |-> Prss(Field, n, j, prf)]
           sharing == [j \in Players |->
                          Prss(Field, n, j, [s \in PrssKeys(n, t, j) |-> prf[s]])]
           total == SumOver(Field, MaxUnqualifiedSubsets(n, t),
                            LAMBDA s : ToField(Field, prf[s]))
<1>1. prf \in [Unqualified -> Int] /\ t \in Nat
  BY PassiveAssumption DEF Unqualified
<1>2. On(t, PrssSum(prf), P)
  BY <1>1, PrssIsOn
<1>3. sharing = P
  <2>1. \A j \in Players : Prss(Field, n, j, [s \in PrssKeys(n, t, j) |-> prf[s]])
                               = Prss(Field, n, j, prf)
    BY <1>1, PrssIsOn DEF Given
  <2> QED  BY <2>1
<1>4. total = PrssSum(prf)
  BY <1>1, PrssSumIs DEF Unqualified
<1> HIDE DEF P, sharing, total
<1>5. \E r \in [1 .. t -> F] : sharing = Share(Field, n, total, r)
  BY <1>1, <1>2, <1>3, <1>4, CoefficientsExist
<1> QED  BY <1>5 DEF sharing, total

\* prss_share (passive.py): with the correction that the inputter sends, what the players
\* have is a Shamir sharing of degree t of the inputter's element.
THEOREM PrssShareShares ==
    ASSUME PrimeField, NEW prf \in [MaxUnqualifiedSubsets(n, t) -> Nat], NEW element \in F
    PROVE  \E r \in [1 .. t -> F] :
              [j \in Players |-> PrssShare(Field, n, t, j, prf, element)]
                = Share(Field, n, element, r)
<1> DEFINE P == [j \in Players |-> Prss(Field, n, j, prf)]
           v == PrssSum(prf)
           S == 1 .. t + 1
           c == element (-) v
<1>1. prf \in [Unqualified -> Int] /\ t \in Nat /\ S \in SUBSET Players /\ Cardinality(S) = t + 1
  <2>1. n \in Nat /\ t \in Nat /\ t + 1 <= n
    BY PassiveAssumption
  <2>2. S \in SUBSET Players /\ Cardinality(S) = t + 1
    BY <2>1, FS_Interval DEF Players
  <2>3. prf \in [Unqualified -> Int]
    BY DEF Unqualified
  <2> QED  BY <2>1, <2>2, <2>3
<1>2. On(t, v, P)
  BY <1>1, PrssIsOn
<1>3. \A j \in Players : P[j] = Prss(Field, n, j, prf)
  OBVIOUS
<1> HIDE DEF P
<1>4. v \in F /\ P \in [Players -> F] /\ \A j \in S : P[j] \in F
  BY <1>1, <1>2, PolynomialType
<1>5. Recombine(Field, [player \in S |-> Prss(Field, n, player, prf)]) = v
  <2> HIDE DEF S, v
  <2>1. [player \in S |-> Prss(Field, n, player, prf)] = [player \in S |-> P[player]]
    BY <1>1, <1>3
  <2>2. Recombine(Field, [player \in S |-> P[player]]) = Recombined(S, P)
    BY <1>1, <1>4, RecombineIsCached
  <2>3. Recombined(S, P) = v
    BY <1>1, <1>2, Lagrange
  <2> QED  BY <2>1, <2>2, <2>3
<1>6. Correction(Field, n, t, prf, element) = c
  BY <1>5 DEF Correction, (-)
<1> HIDE DEF v, S
<1>7. c \in F /\ v (+) c = element
  <2>1. c \in F /\ c (+) v = element
    BY <1>4, ClosedInF, SubCancels
  <2> HIDE DEF c
  <2> QED  BY <1>4, <2>1, AddCommutes
<1> HIDE DEF c
<1>8. On(t, c, Flat(c))
  <2>1. On(0, c, Flat(c))
    BY <1>7, PolynomialCases
  <2> QED  BY <1>1, <2>1, DegreeGrows
<1> DEFINE Q == [j \in Players |-> P[j] (+) Flat(c)[j]]
<1>9. On(t, element, Q)
  BY <1>1, <1>2, <1>7, <1>8, PolynomialAdds
<1>10. [j \in Players |-> PrssShare(Field, n, t, j, prf, element)] = Q
  BY <1>3, <1>6 DEF PrssShare, (+), Flat
<1> HIDE DEF Q
<1> QED  BY <1>1, <1>9, <1>10, CoefficientsExist

------------------------------------------------------------------------------
\* Powers of the points.

\* What a solution of the recursion of __pow__ is.
IsPower(f, a) ==
    f = [e \in Nat |-> IF e = 0 THEN 1
                       ELSE IF e % 2 = 1 THEN (f[e - 1] * a) % Field
                       ELSE Square(Field, f[e \div 2])]

\* Halves of numbers.
LEMMA Halves ==
    ASSUME NEW e \in Nat, e # 0
    PROVE  /\ e - 1 \in Nat /\ e - 1 < e
           /\ e \div 2 \in Nat /\ e \div 2 < e
           /\ e % 2 # 1 => e = (e \div 2) + (e \div 2) /\ e \div 2 # 0
<1> DEFINE b == 2
           q == e \div b
           r == e % b
<1>1. b \in Nat /\ b > 1 /\ b - 1 = 1
  OBVIOUS
<1> HIDE DEF b
<1>2. q \in Int /\ e = b * q + r /\ r \in 0 .. 1
  BY <1>1, Divided
<1>3. q = e \div 2 /\ r = e % 2 /\ b = 2
  BY DEF b
<1> HIDE DEF q, r
<1>4. e = q + q + r
  BY <1>2, <1>3
<1>5. q \in Nat /\ q < e /\ (r # 1 => e = q + q /\ q # 0)
  BY <1>2, <1>4
<1> QED  BY <1>3, <1>5

\* __pow__ (field.py) ends, with an element.
LEMMA PowerExists ==
    ASSUME PrimeField, NEW a \in F
    PROVE  \E f : IsPower(f, a) /\ f \in [Nat -> F]
<1> DEFINE size == [e \in Nat |-> e]
           pred == [e \in Nat |-> IF e = 0 THEN 0 ELSE IF e % 2 = 1 THEN e - 1 ELSE e \div 2]
           base == [e \in Nat |-> 1]
           step == [x \in Nat \X F |-> IF x[1] % 2 = 1 THEN x[2] (.) a ELSE x[2] (.) x[2]]
<1>1. Descends(Nat, size, pred)
  <2>1. \A e \in Nat : size[e] \in Nat /\ pred[e] \in Nat /\ (size[e] # 0 => size[pred[e]] < size[e])
    <3> TAKE e \in Nat
    <3>1. CASE e = 0
      BY <3>1
    <3>2. CASE e # 0
      BY <3>2, Halves
    <3> QED  BY <3>1, <3>2
  <2> QED  BY <2>1 DEF Descends
<1>2. base \in [Nat -> F]
  BY Operations
<1>3. step \in [Nat \X F -> F]
  <2>1. ASSUME NEW x \in Nat \X F PROVE x[2] (.) a \in F /\ x[2] (.) x[2] \in F
    BY ClosedInF
  <2> QED  BY <2>1
<1> HIDE DEF size, pred, base, step
<1>4. PICK f \in [Nat -> F] : Solves(f, Nat, size, pred, base, step)
  BY <1>1, <1>2, <1>3, Recursion
<1>5. ASSUME NEW e \in Nat
      PROVE  f[e] = IF e = 0 THEN 1
                    ELSE IF e % 2 = 1 THEN (f[e - 1] * a) % Field
                    ELSE Square(Field, f[e \div 2])
  <2>1. f[e] = IF size[e] = 0 THEN base[e] ELSE step[<<e, f[pred[e]]>>]
    BY <1>4 DEF Solves
  <2>2. size[e] = e /\ base[e] = 1
    BY DEF size, base
  <2>3. CASE e = 0
    BY <2>1, <2>2, <2>3
  <2>4. CASE e # 0 /\ e % 2 = 1
    <3>1. pred[e] = e - 1 /\ f[e - 1] \in F
      BY <2>4, Halves DEF pred
    <3>2. step[<<e, f[e - 1]>>] = f[e - 1] (.) a
      BY <2>4, <3>1 DEF step
    <3> QED  BY <2>1, <2>2, <2>4, <3>1, <3>2, Operations
  <2>5. CASE e # 0 /\ e % 2 # 1
    <3>1. pred[e] = e \div 2 /\ f[e \div 2] \in F
      BY <2>5, Halves DEF pred
    <3> DEFINE h == f[e \div 2]
    <3>2. step[<<e, h>>] = h (.) h
      BY <2>5, <3>1 DEF step
    <3>3. f[e] = h (.) h
      BY <2>1, <2>2, <2>5, <3>1, <3>2
    <3>4. h (.) h = Square(Field, h)
      BY Operations DEF Square
    <3> QED  BY <2>5, <3>3, <3>4
  <2> QED  BY <2>3, <2>4, <2>5
<1>6. IsPower(f, a)
  BY <1>4, <1>5 DEF IsPower
<1> QED  BY <1>4, <1>6

\* What Pow gives.
LEMMA PowIs ==
    ASSUME PrimeField, NEW a \in F, NEW e \in Nat
    PROVE  /\ Pow(Field, a, e) \in F
           /\ e = 0 => Pow(Field, a, e) = 1
           /\ e # 0 /\ e % 2 = 1 => Pow(Field, a, e) = Pow(Field, a, e - 1) (.) a
           /\ e # 0 /\ e % 2 # 1
                 => Pow(Field, a, e) = Pow(Field, a, e \div 2) (.) Pow(Field, a, e \div 2)
<1> DEFINE g == CHOOSE f : IsPower(f, a)
<1>1. \A k : Pow(Field, a, k) = g[k]
  <2> TAKE k
  <2> DEFINE power[i \in Nat] ==
                 IF i = 0 THEN 1
                 ELSE IF i % 2 = 1 THEN (power[i - 1] * a) % Field
                 ELSE Square(Field, power[i \div 2])
  <2>1. Pow(Field, a, k) = PowP(Field, a, k)
    BY DEF Pow, PrimeField
  <2>2. PowP(Field, a, k) = power[k]
    BY DEF PowP
  <2>3. power = g
    BY DEF IsPower
  <2> QED  BY <2>1, <2>2, <2>3
<1>2. PICK f : IsPower(f, a) /\ f \in [Nat -> F]
  BY PowerExists
<1>3. IsPower(g, a)
  BY <1>2
<1> HIDE DEF g
<1>4. \A k \in Nat :
         /\ g[k] = IF k = 0 THEN 1 ELSE IF k % 2 = 1 THEN (g[k - 1] * a) % Field
                                   ELSE Square(Field, g[k \div 2])
         /\ f[k] = IF k = 0 THEN 1 ELSE IF k % 2 = 1 THEN (f[k - 1] * a) % Field
                                   ELSE Square(Field, f[k \div 2])
  BY <1>2, <1>3, Zenon DEF IsPower
<1> DEFINE W == {k \in Nat : \A i \in 0 .. k : g[i] = f[i]}
<1>5. 0 \in W
  <2>1. g[0] = f[0]
    BY <1>4
  <2> QED  BY <2>1
<1>6. \A k \in Nat : k \in W => k + 1 \in W
  <2> SUFFICES ASSUME NEW k \in Nat, k \in W PROVE g[k + 1] = f[k + 1]
    OBVIOUS
  <2> DEFINE i == k + 1
  <2>1. /\ i \in Nat /\ i # 0 /\ i - 1 \in 0 .. k /\ i \div 2 \in 0 .. k
    <3>1. i \in Nat /\ i # 0
      OBVIOUS
    <3> HIDE DEF i
    <3>2. i - 1 \in Nat /\ i - 1 < i /\ i \div 2 \in Nat /\ i \div 2 < i
      BY <3>1, Halves
    <3> QED  BY <3>1, <3>2 DEF i
  <2>2. g[i - 1] = f[i - 1] /\ g[i \div 2] = f[i \div 2]
    BY <2>1
  <2> HIDE DEF i
  <2>3. g[i] = f[i]
    BY <1>4, <2>1, <2>2
  <2> QED  BY <2>3 DEF i
<1>7. \A k \in Nat : g[k] = f[k] /\ g[k] \in F
  <2>1. Nat \subseteq W
    <3> HIDE DEF W
    <3> QED  BY <1>5, <1>6, Induct
  <2>2. \A k \in Nat : k \in 0 .. k
    OBVIOUS
  <2> QED  BY <2>1, <2>2, <1>2
<1>8. e = 0 => g[e] = 1
  BY <1>4
<1>9. e # 0 /\ e % 2 = 1 => g[e] = g[e - 1] (.) a
  BY <1>4, Operations
<1>10. e # 0 /\ e % 2 # 1 => g[e] = g[e \div 2] (.) g[e \div 2]
  BY <1>4, Operations DEF Square
<1> QED  BY <1>1, <1>7, <1>8, <1>9, <1>10

\* The powers of the points are polynomials, which are 0 at 0.
LEMMA PowersAreOn ==
    ASSUME PrimeField, NEW e \in Nat
    PROVE  \E w : /\ On(e, w, [p \in Players |-> Pow(Field, p, e)])
                  /\ e # 0 => w = 0
<1> DEFINE P(i) == [p \in Players |-> Pow(Field, p, i)]
           Holds(i) == \E w : On(i, w, P(i)) /\ (i # 0 => w = 0)
           W == {k \in Nat : \A i \in 0 .. k : Holds(i)}
<1>0. 0 \in F /\ 1 \in F
  BY Operations
<1>1. Holds(0)
  <2>1. \A p \in Players : Pow(Field, p, 0) = 1
    BY PointsInF, PowIs
  <2>2. P(0) = Flat(1)
    BY <2>1 DEF Flat
  <2>3. On(0, 1, Flat(1))
    BY <1>0, PolynomialCases
  <2> QED  BY <2>2, <2>3
<1>2. ASSUME NEW i \in Nat, i # 0, i % 2 = 1, Holds(i - 1) PROVE Holds(i)
  <2> DEFINE X == P(i - 1)
  <2> DEFINE k == i - 1
  <2>1. i - 1 \in Nat /\ k \in Nat /\ k + 1 = i
    BY <1>2
  <2>2. PICK w : On(k, w, X)
    BY <1>2
  <2> HIDE DEF X, k
  <2>3. On(k + 1, 0, [p \in Players |-> p (.) X[p]])
    BY <2>1, <2>2, <1>0, PolynomialScales
  <2>4. P(i) = [p \in Players |-> p (.) X[p]]
    <3>1. ASSUME NEW p \in Players PROVE Pow(Field, p, i) = p (.) X[p]
      BY PointsInF, <2>1, PowIs, <1>2, AddCommutes DEF X
    <3> QED  BY <3>1
  <2> HIDE DEF P
  <2> QED  BY <2>1, <2>3, <2>4
<1>3. ASSUME NEW i \in Nat, i # 0, i % 2 # 1, Holds(i \div 2) PROVE Holds(i)
  <2> DEFINE h == i \div 2
             X == P(h)
  <2>1. h \in Nat /\ h # 0 /\ h + h = i
    BY <1>3, Halves
  <2>2. On(h, 0, X)
    BY <1>3, <2>1
  <2>3. P(i) = [p \in Players |-> X[p] (.) X[p]]
    <3>1. ASSUME NEW p \in Players PROVE Pow(Field, p, i) = X[p] (.) X[p]
      <4>1. p \in F
        BY PointsInF
      <4> QED  BY <1>3, <4>1, PowIs
    <3> QED  BY <3>1
  <2> HIDE DEF X, h
  <2>4. On(h + h, 0 (.) 0, [p \in Players |-> X[p] (.) X[p]])
    BY <2>1, <2>2, PolynomialMultiplies
  <2>5. 0 (.) 0 = 0
    BY <1>0, Neutral
  <2> HIDE DEF P
  <2> QED  BY <2>1, <2>3, <2>4, <2>5
<1> HIDE DEF Holds
<1>4. 0 \in W
  BY <1>1
<1>5. \A k \in Nat : k \in W => k + 1 \in W
  <2> SUFFICES ASSUME NEW k \in Nat, k \in W PROVE Holds(k + 1)
    OBVIOUS
  <2> DEFINE i == k + 1
  <2>1. i \in Nat /\ i # 0
    OBVIOUS
  <2> HIDE DEF i
  <2>2. i - 1 \in Nat /\ i - 1 < i /\ i \div 2 \in Nat /\ i \div 2 < i
    BY <2>1, Halves
  <2>3. i - 1 \in 0 .. k /\ i \div 2 \in 0 .. k
    BY <2>2 DEF i
  <2>4. Holds(i - 1) /\ Holds(i \div 2)
    BY <2>3
  <2>5. Holds(i)
    BY <2>1, <2>4, <1>2, <1>3
  <2> QED  BY <2>5 DEF i
<1>6. e \in W
  <2> HIDE DEF W
  <2> QED  BY <1>4, <1>5, Induct
<1>7. Holds(e)
  BY <1>6
<1> QED  BY <1>7 DEF Holds

------------------------------------------------------------------------------
\* Packed numbers.

\* What a solution of the repeated division by modulus is.
IsRest(f, result, modulus) ==
    f = [k \in Nat |-> IF k = 0 THEN result ELSE f[k - 1] \div modulus]

\* The numbers that prss_multi takes out of the result of a key are numbers.
LEMMA DigitIsNumber ==
    ASSUME NEW result \in Nat, NEW modulus \in Nat, modulus > 1, NEW i \in Nat \ {0}
    PROVE  Digit(result, modulus, i) \in Nat
<1> DEFINE g == CHOOSE f : IsRest(f, result, modulus)
           size == [k \in Nat |-> k]
           pred == [k \in Nat |-> IF k = 0 THEN 0 ELSE k - 1]
           base == [k \in Nat |-> result]
           step == [x \in Nat \X Nat |-> x[2] \div modulus]
<1>1. Digit(result, modulus, i) = g[i - 1] % modulus
  <2> DEFINE rest[k \in Nat] == IF k = 0 THEN result ELSE rest[k - 1] \div modulus
  <2>1. Digit(result, modulus, i) = rest[i - 1] % modulus
    BY DEF Digit
  <2>2. rest = g
    BY DEF IsRest
  <2> QED  BY <2>1, <2>2
<1>2. Descends(Nat, size, pred)
  BY DEF Descends
<1>3. base \in [Nat -> Nat]
  OBVIOUS
<1>4. step \in [Nat \X Nat -> Nat]
  <2>1. ASSUME NEW y \in Nat PROVE y \div modulus \in Nat
    <3> DEFINE q == y \div modulus
               r == y % modulus
    <3>1. q \in Int /\ y = modulus * q + r /\ r \in 0 .. modulus - 1
      BY Divided
    <3> HIDE DEF q, r
    <3>2. q >= 0
      <4> SUFFICES ASSUME q < 0 PROVE FALSE
        BY <3>1
      <4>1. modulus * q <= - modulus
        BY <3>1
      <4> QED  BY <3>1, <4>1
    <3> QED  BY <3>1, <3>2 DEF q
  <2> QED  BY <2>1
<1> HIDE DEF size, pred, base, step
<1>5. PICK f \in [Nat -> Nat] : Solves(f, Nat, size, pred, base, step)
  BY <1>2, <1>3, <1>4, Recursion
<1>6. IsRest(f, result, modulus)
  <2>1. ASSUME NEW k \in Nat
        PROVE  f[k] = IF k = 0 THEN result ELSE f[k - 1] \div modulus
    <3>1. f[k] = IF size[k] = 0 THEN base[k] ELSE step[<<k, f[pred[k]]>>]
      BY <1>5 DEF Solves
    <3>2. size[k] = k /\ base[k] = result
      BY DEF size, base
    <3>3. CASE k = 0
      BY <3>1, <3>2, <3>3
    <3>4. CASE k # 0
      BY <3>4, <3>1, <3>2 DEF pred, step
    <3> QED  BY <3>3, <3>4
  <2>2. f = [k \in Nat |-> f[k]]
    BY <1>5
  <2> QED  BY <2>1, <2>2 DEF IsRest
<1>7. IsRest(g, result, modulus)
  BY <1>6
<1> HIDE DEF g
<1> DEFINE W == {k \in Nat : g[k] \in Nat /\ g[k] = f[k]}
<1>8. \A k \in Nat : /\ g[k] = IF k = 0 THEN result ELSE g[k - 1] \div modulus
                     /\ f[k] = IF k = 0 THEN result ELSE f[k - 1] \div modulus
  BY <1>6, <1>7, Zenon DEF IsRest
<1>9. 0 \in W
  BY <1>8
<1>10. ASSUME NEW k \in Nat, k \in W PROVE k + 1 \in W
  <2> DEFINE m == k + 1
  <2>1. m \in Nat /\ m # 0 /\ m - 1 = k
    OBVIOUS
  <2> HIDE DEF m
  <2>2. g[m] = g[k] \div modulus /\ f[m] = f[k] \div modulus
    BY <1>8, <2>1
  <2>3. g[m] = f[m] /\ f[m] \in Nat
    BY <1>5, <1>10, <2>1, <2>2
  <2> QED  BY <2>1, <2>3 DEF m
<1>11. i - 1 \in W
  <2> HIDE DEF W
  <2>1. Nat \subseteq W
    BY <1>9, <1>10, Induct
  <2> QED  BY <2>1
<1> DEFINE x == g[i - 1]
<1>12. x \in Nat
  BY <1>11
<1> HIDE DEF x
<1>13. x % modulus \in Nat
  BY <1>12, Divided
<1> QED  BY <1>1, <1>13 DEF x

\* The sum over the keys, of the numbers at one place.
DigitSum(prf, modulus, k) ==
    SumOver(Field, Unqualified, LAMBDA s : ToField(Field, Digit(prf[s], modulus, k)))

LEMMA DigitSumIs ==
    ASSUME PrimeField, NEW prf, NEW modulus, NEW k, NEW digits \in [Unqualified -> Int],
           \A s \in Unqualified : digits[s] = Digit(prf[s], modulus, k)
    PROVE  DigitSum(prf, modulus, k) = PrssSum(digits)
<1> DEFINE terms == Parts(digits)
           K == Unqualified
           term(s) == ToField(Field, Digit(prf[s], modulus, k))
           P(f) == f = [s \in SUBSET K |->
                           IF s = {} THEN 0
                           ELSE LET x == CHOOSE x \in s : TRUE
                                IN  Add(Field, term(x), f[s \ {x}])]
           f == CHOOSE f : P(f)
<1>1. IsFiniteSet(K)
  BY Subsets
<1>2. \A s \in K : terms[s] \in F /\ terms[s] = term(s)
  BY ToFieldInF DEF Parts
<1>3. DigitSum(prf, modulus, k) = f[K]
  <2> DEFINE iter[s \in SUBSET K] ==
                 IF s = {} THEN 0
                 ELSE LET x == CHOOSE x \in s : TRUE
                      IN  Add(Field, term(x), iter[s \ {x}])
  <2>1. DigitSum(prf, modulus, k) = iter[K]
    BY DEF DigitSum, SumOver, MapThenFoldSet
  <2>2. iter = f
    <3> HIDE DEF term
    <3> QED  OBVIOUS
  <2> QED  BY <2>1, <2>2
<1> HIDE DEF terms, K, term
<1>4. \A h : P(h) <=> IsSum(h, K, terms)
  <2> TAKE h
  <2> DEFINE l == [s \in SUBSET K |->
                      IF s = {} THEN 0 ELSE Add(Field, term(Some(s)), h[s \ {Some(s)}])]
             r == [s \in SUBSET K |->
                      IF s = {} THEN 0 ELSE Add(Field, terms[Some(s)], h[s \ {Some(s)}])]
  <2>1. \A s \in SUBSET K : s # {} => Some(s) \in K
    BY <1>1, SomeIsMember
  <2>2. l = r
    BY <2>1, <1>2
  <2>3. P(h) <=> h = l
    BY DEF Some
  <2>4. IsSum(h, K, terms) <=> h = r
    BY DEF IsSum
  <2> QED  BY <2>2, <2>3, <2>4
<1>5. (\E h : IsSum(h, K, terms)) /\ \A h : IsSum(h, K, terms) => h[K] = SumOf(K, terms)
  BY <1>1, <1>2, SumIsFold
<1>6. IsSum(f, K, terms)
  <2> HIDE DEF P
  <2>1. \E h : P(h)
    BY <1>4, <1>5
  <2>2. P(f)
    BY <2>1
  <2> QED  BY <1>4, <2>2
<1> HIDE DEF f
<1> QED  BY <1>3, <1>5, <1>6 DEF PrssSum, terms, K

\* The results at one place lie on a polynomial.
LEMMA PrssMultiIsOn ==
    ASSUME PrimeField, NEW prf \in [Unqualified -> Nat],
           NEW modulus \in Nat, modulus > 1, NEW quantity \in Nat, NEW k \in 1 .. quantity
    PROVE  On(t, DigitSum(prf, modulus, k),
              [j \in Players |-> PrssMulti(Field, n, j, Given(prf, j), modulus, quantity)[k]])
<1> DEFINE digits == [s \in Unqualified |-> Digit(prf[s], modulus, k)]
           P == [j \in Players |-> Prss(Field, n, j, digits)]
           sharing == [j \in Players |-> PrssMulti(Field, n, j, Given(prf, j),
                                                   modulus, quantity)[k]]
           total == DigitSum(prf, modulus, k)
<1>1. k \in Nat \ {0} /\ t \in Nat
  BY PassiveAssumption
<1>2. \A s \in Unqualified : Digit(prf[s], modulus, k) \in Nat
  BY <1>1, DigitIsNumber DEF Unqualified
<1>3. digits \in [Unqualified -> Int] /\ DOMAIN digits = Unqualified /\ DOMAIN prf = Unqualified
  BY <1>2 DEF Unqualified
<1>4. \A s \in Unqualified : digits[s] = Digit(prf[s], modulus, k)
  OBVIOUS
<1>5. \A j \in Players : sharing[j] = P[j]
  <2> TAKE j \in Players
  <2> DEFINE K == {s \in Unqualified : j \in s}
             g == Given(prf, j)
             d == [s \in DOMAIN g |-> Digit(g[s], modulus, k)]
  <2>1. RandomReplicatedSharing(j, g) = g /\ DOMAIN g = K
    BY <1>3, OwnKeysSuffice
  <2>2. RandomReplicatedSharing(j, digits) = Given(digits, j)
    BY <1>3, OwnKeysSuffice
  <2>3. PrssKeys(n, t, j) = K
    BY DEF PrssKeys, Unqualified
  <2>4. \A s \in K : g[s] = prf[s] /\ s \in Unqualified
    BY <2>3 DEF Given
  <2>5. d = Given(digits, j)
    <3> HIDE DEF digits, g
    <3>1. d = [s \in K |-> digits[s]]
      BY <1>4, <2>1, <2>4
    <3> QED  BY <2>3, <3>1 DEF Given
  <2> HIDE DEF digits, g, d
  <2>6. PrssMulti(Field, n, j, g, modulus, quantity)[k] = ConvertReplicatedShamir(Field, n, j, d)
    BY <2>1 DEF PrssMulti, d
  <2>7. Prss(Field, n, j, digits) = ConvertReplicatedShamir(Field, n, j, d)
    BY <2>2, <2>5 DEF Prss
  <2> QED  BY <2>6, <2>7 DEF g
<1>6. On(t, PrssSum(digits), P)
  <2> HIDE DEF digits
  <2> QED  BY <1>3, PrssIsOn
<1>7. total = PrssSum(digits)
  <2> HIDE DEF digits
  <2> QED  BY <1>3, <1>4, DigitSumIs
<1>8. sharing = P
  BY <1>5
<1> QED  BY <1>6, <1>7, <1>8

\* prss_multi (prss.py): the quantity numbers packed into what a key gives are unpacked in
\* the same order by every player, so result k is a Shamir sharing of degree t, of the sum
\* of the number k of all keys.
THEOREM PrssMultiShares ==
    ASSUME PrimeField, NEW prf \in [MaxUnqualifiedSubsets(n, t) -> Nat],
           NEW modulus \in Nat, modulus > 1, NEW quantity \in Nat, NEW k \in 1 .. quantity
    PROVE  \E r \in [1 .. t -> F] :
              [j \in Players |-> PrssMulti(Field, n, j, [s \in PrssKeys(n, t, j) |-> prf[s]],
                                           modulus, quantity)[k]]
                = Share(Field, n, SumOver(Field, MaxUnqualifiedSubsets(n, t),
                                          LAMBDA s : ToField(Field, Digit(prf[s], modulus, k))), r)
<1> DEFINE sharing == [j \in Players |-> PrssMulti(Field, n, j, Given(prf, j),
                                                   modulus, quantity)[k]]
           total == DigitSum(prf, modulus, k)
<1>1. t \in Nat
  BY PassiveAssumption
<1>2. On(t, total, sharing)
  BY PrssMultiIsOn DEF Unqualified
<1> HIDE DEF sharing, total
<1>3. \E r \in [1 .. t -> F] : sharing = Share(Field, n, total, r)
  BY <1>1, <1>2, CoefficientsExist
<1> QED  BY <1>3 DEF sharing, total, DigitSum, Given, Unqualified

------------------------------------------------------------------------------
\* Sharings of zero.

\* What a player adds up for one key, in prss_zero.
ZeroTerms(numbers, j, s, k) ==
    [i \in 1 .. t |-> ToField(Field, Digit(numbers[i], Field, k))
                          (.) (InterpolationAt(Field, n, j, s) (.) Pow(Field, j, i))]

ZeroPart(numbers, j, s, k) == SumOf(1 .. t, ZeroTerms(numbers, j, s, k))

InnerSum(rep_shares, j, s, k) ==
    SumOver(Field, 1 .. t, LAMBDA i :
        Mul(Field, ToField(Field, Digit(rep_shares[s][i], Field, k)),
            Mul(Field, InterpolationAt(Field, n, j, s), Pow(Field, j, i))))

OuterSum(rep_shares, j, k) ==
    SumOver(Field, DOMAIN rep_shares, LAMBDA s : InnerSum(rep_shares, j, s, k))

\* The factors of a term.
LEMMA ZeroFactors ==
    ASSUME PrimeField, NEW s \in Unqualified, NEW numbers \in [1 .. t -> Nat],
           NEW k \in Nat \ {0}, NEW i \in 1 .. t
    PROVE  /\ ToField(Field, Digit(numbers[i], Field, k)) \in F
           /\ \A j \in Players : /\ InterpolationAt(Field, n, j, s) \in F
                                 /\ Pow(Field, j, i) \in F
                                 /\ ZeroTerms(numbers, j, s, k)[i] \in F
<1> DEFINE d == ToField(Field, Digit(numbers[i], Field, k))
<1>1. Field \in Nat /\ Field > 1 /\ t \in Nat
  BY PassiveAssumption DEF PrimeField
<1>2. d \in F
  <2>1. Digit(numbers[i], Field, k) \in Nat
    BY <1>1, DigitIsNumber
  <2> QED  BY <2>1, ToFieldInF
<1>3. ASSUME NEW j \in Players
      PROVE  InterpolationAt(Field, n, j, s) \in F /\ Pow(Field, j, i) \in F
  <2>1. j \in F /\ i \in Nat
    BY <1>1, PointsInF
  <2> QED  BY <2>1, InterpolationIs, PowIs
<1> HIDE DEF d
<1>4. ASSUME NEW j \in Players
      PROVE  d (.) (InterpolationAt(Field, n, j, s) (.) Pow(Field, j, i)) \in F
  BY <1>2, <1>3, ClosedInF
<1> QED  BY <1>2, <1>3, <1>4 DEF ZeroTerms, d

\* The part of a key is a sharing of zero of twice the degree, which only those that have
\* the key add anything to.
LEMMA ZeroPartIsOn ==
    ASSUME PrimeField, NEW s \in Unqualified, NEW numbers \in [1 .. t -> Nat],
           NEW k \in Nat \ {0}
    PROVE  /\ On(t + t, 0, [p \in Players |-> ZeroPart(numbers, p, s, k)])
           /\ \A p \in Players : /\ ZeroPart(numbers, p, s, k) \in F
                                 /\ p \notin s => ZeroPart(numbers, p, s, k) = 0
<1> DEFINE S == 1 .. t
           d(i) == ToField(Field, Digit(numbers[i], Field, k))
           I(p) == InterpolationAt(Field, n, p, s)
           v == [i \in S |-> 0]
           P == [i \in S |-> [p \in Players |-> ZeroTerms(numbers, p, s, k)[i]]]
<1>1. t \in Nat /\ t + t \in Nat /\ IsFiniteSet(S) /\ 0 \in F
  <2>1. t \in Nat /\ t + t \in Nat
    BY PassiveAssumption
  <2>2. IsFiniteSet(S)
    BY <2>1, FS_Interval
  <2> QED  BY <2>1, <2>2, Operations
<1>2. ASSUME NEW i \in S PROVE On(t + t, v[i], P[i])
  <2> DEFINE A == [p \in Players |-> I(p)]
             B == [p \in Players |-> Pow(Field, p, i)]
             c == d(i)
             C == [p \in Players |-> A[p] (.) B[p]]
  <2>1. On(t, 1, A) /\ c \in F
    BY InterpolationIs, ZeroFactors
  <2>2. On(t, 0, B)
    <3>1. i \in Nat /\ i # 0 /\ i <= t
      BY <1>1
    <3>2. On(i, 0, B)
      BY <3>1, PowersAreOn
    <3> HIDE DEF B
    <3> QED  BY <1>1, <3>1, <3>2, DegreeGrows
  <2>3. \A p \in Players : /\ ZeroTerms(numbers, p, s, k)[i] = c (.) (A[p] (.) B[p])
                           /\ C[p] = A[p] (.) B[p]
    BY DEF ZeroTerms
  <2> HIDE DEF A, B, c
  <2>4. On(t + t, 1 (.) 0, C)
    BY <1>1, <2>1, <2>2, PolynomialMultiplies
  <2>5. 1 (.) 0 = 0 /\ c (.) 0 = 0
    BY <1>1, <2>1, Operations, Neutral
  <2>6. P[i] = [p \in Players |-> c (.) C[p]] /\ v[i] = 0
    BY <2>3
  <2> HIDE DEF C, P, v
  <2> DEFINE m == t + t
  <2>7. m \in Nat /\ On(m, 0, C)
    BY <1>1, <2>4, <2>5
  <2> HIDE DEF m
  <2>8. On(m, c (.) 0, [p \in Players |-> c (.) C[p]])
    BY <2>1, <2>7, PolynomialScales
  <2> QED  BY <2>5, <2>6, <2>8 DEF m
<1>3. SumOf(S, v) = 0
  <2>1. \A i \in S : v[i] \in F /\ v[i] = 0
    BY <1>1
  <2>2. {} \in SUBSET S /\ \A i \in S \ {} : v[i] = 0
    BY <2>1
  <2>3. SumOf({}, v) = 0
    BY FS_EmptySet, SumLaws
  <2> HIDE DEF S, v
  <2>4. SumOf(S, v) = SumOf({}, v)
    BY <1>1, <2>1, <2>2, SumDropsZeros
  <2> QED  BY <2>3, <2>4
<1> DEFINE Total == [p \in Players |-> SumOf(S, [i \in S |-> P[i][p]])]
<1>4. Total = [p \in Players |-> ZeroPart(numbers, p, s, k)]
  <2>1. ASSUME NEW p \in Players
        PROVE  SumOf(S, [i \in S |-> P[i][p]]) = ZeroPart(numbers, p, s, k)
    <3>1. [i \in S |-> P[i][p]] = ZeroTerms(numbers, p, s, k)
      BY DEF ZeroTerms
    <3> QED  BY <3>1 DEF ZeroPart
  <2> QED  BY <2>1
<1>5. On(t + t, SumOf(S, v), Total)
  <2> HIDE DEF S, v, P
  <2> DEFINE m == t + t
  <2>1. m \in Nat /\ \A i \in S : On(m, v[i], P[i])
    BY <1>1, <1>2
  <2> HIDE DEF m
  <2>2. On(m, SumOf(S, v), Total)
    BY <1>1, <2>1, PolynomialSum
  <2> QED  BY <2>2 DEF m
<1>6. ASSUME NEW p \in Players
      PROVE  /\ ZeroPart(numbers, p, s, k) \in F
             /\ p \notin s => ZeroPart(numbers, p, s, k) = 0
  <2> DEFINE g == ZeroTerms(numbers, p, s, k)
  <2>1. \A i \in S : g[i] \in F
    BY ZeroFactors
  <2>2. p \notin s => \A i \in S \ {} : g[i] = 0
    <3> SUFFICES ASSUME p \notin s, NEW i \in S PROVE g[i] = 0
      OBVIOUS
    <3>1. I(p) = 0
      BY InterpolationIs
    <3>2. Pow(Field, p, i) \in F /\ d(i) \in F
      BY ZeroFactors
    <3>3. g[i] = d(i) (.) (I(p) (.) Pow(Field, p, i))
      BY DEF ZeroTerms
    <3> HIDE DEF I, d, g
    <3> QED  BY <3>1, <3>2, <3>3, Neutral
  <2>3. SumOf({}, g) = 0
    BY FS_EmptySet, SumLaws
  <2>4. {} \in SUBSET S
    OBVIOUS
  <2> HIDE DEF g, S
  <2>5. SumOf(S, g) \in F
    BY <1>1, <2>1, SumLaws
  <2>6. p \notin s => SumOf(S, g) = SumOf({}, g)
    BY <1>1, <2>1, <2>2, <2>4, SumDropsZeros
  <2> QED  BY <2>3, <2>5, <2>6 DEF ZeroPart, g, S
<1> HIDE DEF Total
<1> QED  BY <1>3, <1>4, <1>5, <1>6

\* The sums that the code makes are these.
LEMMA InnerSumIs ==
    ASSUME PrimeField, NEW s \in Unqualified, NEW rep, rep[s] \in [1 .. t -> Nat],
           NEW k \in Nat \ {0}, NEW j \in Players
    PROVE  InnerSum(rep, j, s, k) = ZeroPart(rep[s], j, s, k)
<1> DEFINE K == 1 .. t
           terms == ZeroTerms(rep[s], j, s, k)
           term(i) == Mul(Field, ToField(Field, Digit(rep[s][i], Field, k)),
                          Mul(Field, InterpolationAt(Field, n, j, s), Pow(Field, j, i)))
           P(f) == f = [u \in SUBSET K |->
                           IF u = {} THEN 0
                           ELSE LET x == CHOOSE x \in u : TRUE
                                IN  Add(Field, term(x), f[u \ {x}])]
           f == CHOOSE f : P(f)
<1>1. IsFiniteSet(K)
  <2>1. t \in Nat
    BY PassiveAssumption
  <2> QED  BY <2>1, FS_Interval
<1>2. \A i \in K : terms[i] \in F /\ terms[i] = term(i)
  <2> TAKE i \in K
  <2>1. terms[i] \in F
    BY ZeroFactors
  <2>2. terms[i] = term(i)
    BY DEF ZeroTerms, (.)
  <2> QED  BY <2>1, <2>2
<1>3. InnerSum(rep, j, s, k) = f[K]
  <2> DEFINE iter[u \in SUBSET K] ==
                 IF u = {} THEN 0
                 ELSE LET x == CHOOSE x \in u : TRUE
                      IN  Add(Field, term(x), iter[u \ {x}])
  <2>1. InnerSum(rep, j, s, k) = iter[K]
    BY DEF InnerSum, SumOver, MapThenFoldSet
  <2>2. iter = f
    <3> HIDE DEF term
    <3> QED  OBVIOUS
  <2> QED  BY <2>1, <2>2
<1>7. ZeroPart(rep[s], j, s, k) = SumOf(K, terms)
  BY DEF ZeroPart
<1> HIDE DEF terms, K, term
<1>4. \A h : P(h) <=> IsSum(h, K, terms)
  <2> TAKE h
  <2> DEFINE l == [u \in SUBSET K |->
                      IF u = {} THEN 0 ELSE Add(Field, term(Some(u)), h[u \ {Some(u)}])]
             r == [u \in SUBSET K |->
                      IF u = {} THEN 0 ELSE Add(Field, terms[Some(u)], h[u \ {Some(u)}])]
  <2>1. \A u \in SUBSET K : u # {} => Some(u) \in K
    BY <1>1, SomeIsMember
  <2>2. l = r
    BY <2>1, <1>2
  <2>3. P(h) <=> h = l
    BY DEF Some
  <2>4. IsSum(h, K, terms) <=> h = r
    BY DEF IsSum
  <2> QED  BY <2>2, <2>3, <2>4
<1>5. (\E h : IsSum(h, K, terms)) /\ \A h : IsSum(h, K, terms) => h[K] = SumOf(K, terms)
  BY <1>1, <1>2, SumIsFold
<1>6. IsSum(f, K, terms)
  <2> HIDE DEF P
  <2>1. \E h : P(h)
    BY <1>4, <1>5
  <2>2. P(f)
    BY <2>1
  <2> QED  BY <1>4, <2>2
<1> HIDE DEF f
<1> QED  BY <1>3, <1>5, <1>6, <1>7

LEMMA OuterSumIs ==
    ASSUME PrimeField, NEW K \in SUBSET Unqualified, NEW rep, DOMAIN rep = K,
           \A s \in K : rep[s] \in [1 .. t -> Nat],
           NEW k \in Nat \ {0}, NEW j \in Players
    PROVE  OuterSum(rep, j, k) = SumOf(K, [s \in K |-> ZeroPart(rep[s], j, s, k)])
<1> DEFINE terms == [s \in K |-> ZeroPart(rep[s], j, s, k)]
           term(s) == InnerSum(rep, j, s, k)
           P(f) == f = [u \in SUBSET K |->
                           IF u = {} THEN 0
                           ELSE LET x == CHOOSE x \in u : TRUE
                                IN  Add(Field, term(x), f[u \ {x}])]
           f == CHOOSE f : P(f)
<1>1. IsFiniteSet(K)
  BY Subsets, FS_Subset
<1>2. \A s \in K : terms[s] \in F /\ terms[s] = term(s)
  <2> TAKE s \in K
  <2>1. rep[s] \in [1 .. t -> Nat] /\ s \in Unqualified
    OBVIOUS
  <2>2. ZeroPart(rep[s], j, s, k) \in F
    BY <2>1, ZeroPartIsOn
  <2>3. InnerSum(rep, j, s, k) = ZeroPart(rep[s], j, s, k)
    BY <2>1, InnerSumIs
  <2> QED  BY <2>2, <2>3
<1>3. OuterSum(rep, j, k) = f[K]
  <2> DEFINE iter[u \in SUBSET DOMAIN rep] ==
                 IF u = {} THEN 0
                 ELSE LET x == CHOOSE x \in u : TRUE
                      IN  Add(Field, term(x), iter[u \ {x}])
  <2>1. OuterSum(rep, j, k) = iter[DOMAIN rep]
    BY DEF OuterSum, SumOver, MapThenFoldSet
  <2>2. iter = f
    <3> HIDE DEF term
    <3> QED  OBVIOUS
  <2> QED  BY <2>1, <2>2
<1> HIDE DEF terms, term
<1>4. \A h : P(h) <=> IsSum(h, K, terms)
  <2> TAKE h
  <2> DEFINE l == [u \in SUBSET K |->
                      IF u = {} THEN 0 ELSE Add(Field, term(Some(u)), h[u \ {Some(u)}])]
             r == [u \in SUBSET K |->
                      IF u = {} THEN 0 ELSE Add(Field, terms[Some(u)], h[u \ {Some(u)}])]
  <2>1. \A u \in SUBSET K : u # {} => Some(u) \in K
    BY <1>1, SomeIsMember
  <2>2. l = r
    BY <2>1, <1>2
  <2>3. P(h) <=> h = l
    BY DEF Some
  <2>4. IsSum(h, K, terms) <=> h = r
    BY DEF IsSum
  <2> QED  BY <2>2, <2>3, <2>4
<1>5. (\E h : IsSum(h, K, terms)) /\ \A h : IsSum(h, K, terms) => h[K] = SumOf(K, terms)
  BY <1>1, <1>2, SumIsFold
<1>6. IsSum(f, K, terms)
  <2> HIDE DEF P
  <2>1. \E h : P(h)
    BY <1>4, <1>5
  <2>2. P(f)
    BY <2>1
  <2> QED  BY <1>4, <2>2
<1> HIDE DEF f
<1> QED  BY <1>3, <1>5, <1>6 DEF terms

\* What the players get from prss_zero lies on a polynomial that is 0 at 0.
LEMMA PrssZeroIsOn ==
    ASSUME PrimeField, NEW prf \in [Unqualified -> [1 .. t -> Nat]],
           NEW quantity \in Nat, NEW k \in 1 .. quantity
    PROVE  On(t + t, 0, [j \in Players |-> PrssZero(Field, n, t, j, Given(prf, j), quantity)[k]])
<1> DEFINE v == [s \in Unqualified |-> 0]
           P == [s \in Unqualified |-> [p \in Players |-> ZeroPart(prf[s], p, s, k)]]
           At(p) == [s \in Unqualified |-> P[s][p]]
           Total == [p \in Players |-> SumOf(Unqualified, At(p))]
           m == t + t
<1>1. IsFiniteSet(Unqualified) /\ m \in Nat /\ k \in Nat \ {0} /\ 0 \in F
  <2>1. t \in Nat
    BY PassiveAssumption
  <2> QED  BY <2>1, Subsets, Operations
<1>2. ASSUME NEW s \in Unqualified PROVE On(m, v[s], P[s])
  BY <1>1, ZeroPartIsOn
<1>3. SumOf(Unqualified, v) = 0
  <2>1. \A s \in Unqualified : v[s] \in F /\ v[s] = 0
    BY <1>1
  <2>2. {} \in SUBSET Unqualified /\ \A s \in Unqualified \ {} : v[s] = 0
    BY <2>1
  <2>3. SumOf({}, v) = 0
    BY FS_EmptySet, SumLaws
  <2> HIDE DEF v
  <2>4. SumOf(Unqualified, v) = SumOf({}, v)
    BY <1>1, <2>1, <2>2, SumDropsZeros
  <2> QED  BY <2>3, <2>4
<1> HIDE DEF v, m
<1>4. On(m, SumOf(Unqualified, v), Total)
  <2> HIDE DEF P
  <2> QED  BY <1>1, <1>2, PolynomialSum
<1>5. ASSUME NEW j \in Players
      PROVE  PrssZero(Field, n, t, j, Given(prf, j), quantity)[k] = Total[j]
  <2> DEFINE K == {s \in Unqualified : j \in s}
             g == Given(prf, j)
             terms == [s \in K |-> ZeroPart(g[s], j, s, k)]
  <2>1. RandomReplicatedSharing(j, g) = g /\ DOMAIN g = K
    BY OwnKeysSuffice
  <2>2. \A s \in K : g[s] = prf[s] /\ g[s] \in [1 .. t -> Nat]
    BY DEF PrssKeys, Unqualified, Given
  <2>3. K \in SUBSET Unqualified /\ IsFiniteSet(K)
    BY <1>1, FS_Subset
  <2> HIDE DEF g
  <2>4. OuterSum(g, j, k) = SumOf(K, terms)
    <3> HIDE DEF K
    <3> QED  BY <1>1, <2>1, <2>2, <2>3, OuterSumIs
  <2>5. PrssZero(Field, n, t, j, g, quantity)[k] = OuterSum(g, j, k)
    BY <2>1 DEF PrssZero, OuterSum, InnerSum
  <2>6. \A s \in Unqualified : /\ At(j)[s] \in F
                               /\ j \notin s => At(j)[s] = 0
    <3> TAKE s \in Unqualified
    <3>1. prf[s] \in [1 .. t -> Nat]
      OBVIOUS
    <3>2. ZeroPart(prf[s], j, s, k) \in F /\ (j \notin s => ZeroPart(prf[s], j, s, k) = 0)
      BY <1>1, <3>1, ZeroPartIsOn
    <3> QED  BY <3>2
  <2>7. \A s \in K : terms[s] = At(j)[s]
    BY <2>2
  <2>8. \A s \in Unqualified \ K : At(j)[s] = 0
    BY <2>6
  <2>9. \A s \in K : At(j)[s] \in F
    BY <2>6
  <2> HIDE DEF At, terms, K
  <2>10. SumOf(K, terms) = SumOf(K, At(j))
    BY <2>3, <2>7, <2>9, SumCongruence
  <2>11. SumOf(Unqualified, At(j)) = SumOf(K, At(j))
    BY <1>1, <2>3, <2>6, <2>8, SumDropsZeros
  <2> QED  BY <2>4, <2>5, <2>10, <2>11 DEF g
<1> HIDE DEF At
<1>6. [j \in Players |-> PrssZero(Field, n, t, j, Given(prf, j), quantity)[k]] = Total
  BY <1>5
<1> QED  BY <1>3, <1>4, <1>6 DEF m

\* prss_zero (prss.py): what the players compute, each from the keys that it has, without a
\* message, are Shamir sharings of zero of degree 2 * t.
THEOREM PrssZeroShares ==
    ASSUME PrimeField, NEW prf \in [MaxUnqualifiedSubsets(n, t) -> [1 .. t -> Nat]],
           NEW quantity \in Nat, NEW k \in 1 .. quantity
    PROVE  \E r \in [1 .. 2 * t -> F] :
              [j \in Players |-> PrssZero(Field, n, t, j, [s \in PrssKeys(n, t, j) |-> prf[s]],
                                          quantity)[k]]
                = Share(Field, n, 0, r)
<1> DEFINE sharing == [j \in Players |-> PrssZero(Field, n, t, j, Given(prf, j), quantity)[k]]
           m == 2 * t
<1>1. m \in Nat /\ m = t + t
  BY PassiveAssumption
<1>2. On(t + t, 0, sharing)
  BY PrssZeroIsOn DEF Unqualified
<1> HIDE DEF sharing, m
<1>3. \E r \in [1 .. m -> F] : sharing = Share(Field, n, 0, r)
  BY <1>1, <1>2, CoefficientsExist
<1> QED  BY <1>3 DEF sharing, m, Given

\* prss_double_share (passive.py): result k is a pair of Shamir sharings, of degree t and of
\* degree 2 * t, of the same element.
THEOREM PrssDoubleShares ==
    ASSUME PrimeField, NEW prf \in [MaxUnqualifiedSubsets(n, t) -> Nat],
           NEW zero_prf \in [MaxUnqualifiedSubsets(n, t) -> [1 .. t -> Nat]],
           NEW quantity \in Nat, NEW k \in 1 .. quantity
    PROVE  LET double(j) == PrssDoubleShare(Field, n, t, j,
                                            [s \in PrssKeys(n, t, j) |-> prf[s]],
                                            [s \in PrssKeys(n, t, j) |-> zero_prf[s]], quantity)
           IN  \E element \in F, r \in [1 .. t -> F], q \in [1 .. 2 * t -> F] :
                  /\ [j \in Players |-> double(j)[1][k]] = Share(Field, n, element, r)
                  /\ [j \in Players |-> double(j)[2][k]] = Share(Field, n, element, q)
<1> DEFINE double(j) == PrssDoubleShare(Field, n, t, j, Given(prf, j), Given(zero_prf, j), quantity)
           A == [j \in Players |-> PrssMulti(Field, n, j, Given(prf, j), Field, quantity)[k]]
           Z == [j \in Players |-> PrssZero(Field, n, t, j, Given(zero_prf, j), quantity)[k]]
           B == [j \in Players |-> A[j] (+) Z[j]]
           m == 2 * t
<1>1. t \in Nat /\ m \in Nat /\ m = t + t /\ t <= m /\ Field \in Nat /\ Field > 1 /\ 0 \in F
  <2>1. t \in Nat /\ m \in Nat /\ m = t + t /\ t <= m
    BY PassiveAssumption
  <2> QED  BY <2>1, Operations
<1> DEFINE v == DigitSum(prf, Field, k)
<1>2. On(t, v, A)
  BY <1>1, PrssMultiIsOn DEF Unqualified
<1>3. On(t + t, 0, Z)
  BY PrssZeroIsOn DEF Unqualified
<1>4. ASSUME NEW j \in Players PROVE double(j)[1][k] = A[j] /\ double(j)[2][k] = B[j]
  BY DEF PrssDoubleShare, (+)
<1>5. [j \in Players |-> double(j)[1][k]] = A /\ [j \in Players |-> double(j)[2][k]] = B
  BY <1>4
<1> HIDE DEF A, Z, m, double, v
<1>6. On(m, v, A) /\ On(m, 0, Z)
  BY <1>1, <1>2, <1>3, DegreeGrows
<1>7. On(m, v (+) 0, B)
  BY <1>1, <1>6, PolynomialAdds
<1>8. v \in F /\ v (+) 0 = v
  BY <1>1, <1>2, PolynomialType, Neutral
<1> HIDE DEF B
<1>9. PICK r \in [1 .. t -> F] : A = Share(Field, n, v, r)
  BY <1>1, <1>2, CoefficientsExist
<1>10. PICK q \in [1 .. m -> F] : B = Share(Field, n, v, q)
  BY <1>1, <1>7, <1>8, CoefficientsExist
<1> QED  BY <1>5, <1>8, <1>9, <1>10 DEF double, m, Given

------------------------------------------------------------------------------
\* Who has which keys.

\* Subsets of every size.
LEMMA SubsetOfSize ==
    ASSUME NEW R, IsFiniteSet(R), NEW m \in Nat, m <= Cardinality(R)
    PROVE  \E s \in SUBSET R : Cardinality(s) = m
<1> DEFINE W == {k \in Nat : k <= Cardinality(R) => \E s \in SUBSET R : Cardinality(s) = k}
<1>1. Cardinality(R) \in Nat
  BY FS_CardinalityType
<1>2. 0 \in W
  BY FS_EmptySet
<1>3. ASSUME NEW k \in Nat, k \in W PROVE k + 1 \in W
  <2> SUFFICES ASSUME k + 1 <= Cardinality(R)
               PROVE  \E s \in SUBSET R : Cardinality(s) = k + 1
    OBVIOUS
  <2>1. PICK s \in SUBSET R : Cardinality(s) = k
    BY <1>1, <1>3
  <2>2. s # R
    BY <1>1, <2>1
  <2>3. PICK x \in R : x \notin s
    BY <2>2
  <2>4. IsFiniteSet(s)
    BY FS_Subset
  <2>5. Cardinality(s \cup {x}) = k + 1 /\ s \cup {x} \in SUBSET R
    BY <2>1, <2>3, <2>4, FS_AddElement
  <2> QED  BY <2>5
<1> HIDE DEF W
<1>4. m \in W
  BY <1>2, <1>3, Induct
<1> QED  BY <1>4 DEF W

\* Players and the keys that they have together.
KeysOf(S) == UNION {PrssKeys(n, t, player) : player \in S}

LEMMA KeysOfAre ==
    ASSUME NEW S
    PROVE  KeysOf(S) = {s \in Unqualified : s \cap S # {}}
BY DEF KeysOf, PrssKeys, Unqualified

\* generate_configs (config.py), generate_subsets (prss.py): the keys are handed out such
\* that t + 1 players have all of them together and t players lack one.
THEOREM KeysCover ==
    ASSUME NEW S \in SUBSET Players
    PROVE  UNION {PrssKeys(n, t, player) : player \in S} = MaxUnqualifiedSubsets(n, t)
             <=> Cardinality(S) > t
<1> DEFINE R == Players \ S
<1>1. /\ n \in Nat /\ t \in Nat /\ t <= n /\ n - t \in Nat
      /\ Cardinality(Players) = n /\ IsFiniteSet(Players)
  BY PassiveAssumption, FS_Interval DEF Players
<1>2. Unqualified = {s \in SUBSET Players : Cardinality(s) = n - t}
  BY DEF Unqualified, MaxUnqualifiedSubsets, GenerateSubsets, Players
<1>3. IsFiniteSet(S) /\ Cardinality(S) \in Nat /\ Players \cap S = S
  BY <1>1, FS_Subset, FS_CardinalityType
<1>4. IsFiniteSet(R) /\ Cardinality(R) = n - Cardinality(S)
  <2>1. Cardinality(R) = Cardinality(Players) - Cardinality(Players \cap S)
    BY <1>1, FS_Difference
  <2>2. IsFiniteSet(R)
    BY <1>1, FS_Difference
  <2> HIDE DEF R
  <2> QED  BY <1>1, <1>3, <2>1, <2>2
<1>5. \A s \in Unqualified : s \cap S = {} <=> s \in SUBSET R
  BY <1>2
<1>6. R \in SUBSET Players
  OBVIOUS
<1> HIDE DEF R
<1>7. ASSUME Cardinality(S) > t, NEW s \in Unqualified PROVE s \cap S # {}
  <2> SUFFICES ASSUME s \in SUBSET R PROVE FALSE
    BY <1>5
  <2>1. Cardinality(s) <= Cardinality(R) /\ Cardinality(s) = n - t
    BY <1>2, <1>4, FS_Subset
  <2> QED  BY <1>1, <1>3, <1>4, <1>7, <2>1
<1>8. ASSUME Cardinality(S) <= t PROVE \E s \in Unqualified : s \cap S = {}
  <2>1. n - t <= Cardinality(R)
    BY <1>1, <1>3, <1>4, <1>8
  <2>2. PICK s \in SUBSET R : Cardinality(s) = n - t
    BY <1>1, <1>4, <2>1, SubsetOfSize
  <2>3. s \in Unqualified
    BY <1>2, <1>6, <2>2
  <2> QED  BY <1>5, <2>3
<1>9. KeysOf(S) = Unqualified <=> Cardinality(S) > t
  <2>1. CASE Cardinality(S) > t
    BY <1>7, <2>1, KeysOfAre
  <2>2. CASE Cardinality(S) <= t
    BY <1>1, <1>3, <2>2, <1>8, KeysOfAre
  <2> QED  BY <1>1, <1>3, <2>1, <2>2
<1> QED  BY <1>9 DEF KeysOf, Unqualified

\* prss (prss.py): t players learn nothing from their keys: whatever their keys give, the
\* key that they lack can make the shared number any element.
THEOREM PrssHides ==
    ASSUME PrimeField, NEW S \in SUBSET Players, Cardinality(S) <= t,
           NEW prf \in [MaxUnqualifiedSubsets(n, t) -> F], NEW number \in F
    PROVE  \E other \in [MaxUnqualifiedSubsets(n, t) -> F] :
              /\ \A player \in S : \A s \in PrssKeys(n, t, player) : other[s] = prf[s]
              /\ SumOver(Field, MaxUnqualifiedSubsets(n, t),
                         LAMBDA s : ToField(Field, other[s])) = number
<1>1. IsFiniteSet(Unqualified) /\ Field \in Nat /\ F = 0 .. Field - 1
  BY Subsets, Operations
<1>2. PICK lacked \in Unqualified : \A player \in S : lacked \notin PrssKeys(n, t, player)
  <2>1. Cardinality(S) \in Nat /\ t \in Nat
    <3>1. IsFiniteSet(Players) /\ t \in Nat
      BY PassiveAssumption, FS_Interval DEF Players
    <3> QED  BY <3>1, FS_Subset, FS_CardinalityType
  <2>2. ~ (Cardinality(S) > t)
    BY <2>1
  <2>3. KeysOf(S) # Unqualified
    BY <2>2, KeysCover DEF KeysOf, Unqualified
  <2>4. KeysOf(S) \subseteq Unqualified
    BY KeysOfAre
  <2> QED  BY <2>3, <2>4 DEF KeysOf
<1> DEFINE R == Unqualified \ {lacked}
           rest == SumOf(R, prf)
           x == number (-) rest
           other == [s \in Unqualified |-> IF s = lacked THEN x ELSE prf[s]]
<1>3. \A s \in Unqualified : prf[s] \in F
  BY DEF Unqualified
<1>4. IsFiniteSet(R) /\ R \subseteq Unqualified
  BY <1>1, FS_Subset
<1>5. rest \in F
  <2> HIDE DEF R
  <2> QED  BY <1>3, <1>4, SumLaws
<1>6. x \in F /\ x (+) rest = number
  <2> HIDE DEF rest
  <2> QED  BY <1>5, ClosedInF, SubCancels
<1> HIDE DEF x
<1>7. /\ other \in [Unqualified -> F] /\ other[lacked] = x
      /\ \A s \in R : other[s] = prf[s]
  BY <1>3, <1>6
<1> HIDE DEF other
<1>8. \A s \in Unqualified : other[s] \in F /\ other[s] \in Int /\ Parts(other)[s] = other[s]
  <2> TAKE s \in Unqualified
  <2>1. other[s] \in F
    BY <1>7
  <2>2. other[s] \in Int /\ other[s] % Field = other[s]
    BY <2>1, InF
  <2> QED  BY <2>1, <2>2 DEF Parts, ToField
<1>9. SumOf(Unqualified, Parts(other)) = Parts(other)[lacked] (+) SumOf(R, Parts(other))
  BY <1>8, <1>1, SumLaws
<1>10. SumOf(R, Parts(other)) = rest
  <2>1. (\A s \in R : prf[s] \in F) /\ \A s \in R : Parts(other)[s] = prf[s]
    BY <1>3, <1>4, <1>7, <1>8
  <2> HIDE DEF R
  <2> QED  BY <1>4, <2>1, SumCongruence
<1>11. PrssSum(other) = number
  BY <1>6, <1>7, <1>8, <1>9, <1>10 DEF PrssSum
<1>12. other \in [Unqualified -> Int]
  BY <1>7, <1>8
<1>13. SumOver(Field, Unqualified, LAMBDA s : ToField(Field, other[s])) = number
  BY <1>11, <1>12, PrssSumIs
<1>14. \A player \in S : \A s \in PrssKeys(n, t, player) : other[s] = prf[s]
  BY <1>2, <1>7 DEF PrssKeys, Unqualified
<1> QED  BY <1>7, <1>13, <1>14 DEF Unqualified

------------------------------------------------------------------------------
\* Multiplication triples.

\* Differences of polynomials.
LEMMA PolynomialSubtracts ==
    ASSUME PrimeField, NEW d \in Nat, NEW v, NEW P, On(d, v, P), NEW w, NEW Q, On(d, w, Q)
    PROVE  On(d, v (-) w, [p \in Players |-> P[p] (-) Q[p]])
<1> DEFINE N == [p \in Players |-> Minus1 (.) Q[p]]
           X == [p \in Players |-> P[p] (+) N[p]]
<1>1. /\ v \in F /\ \A p \in Players : P[p] \in F
      /\ w \in F /\ \A p \in Players : Q[p] \in F
  BY PolynomialType
<1>2. Minus1 \in F
  BY <1>1, Minus
<1>3. On(d, Minus1 (.) w, N)
  BY <1>2, PolynomialScales
<1>4. [p \in Players |-> P[p] (-) Q[p]] = X
  <2>1. ASSUME NEW p \in Players PROVE P[p] (-) Q[p] = P[p] (+) N[p]
    BY <1>1, Minus
  <2> QED  BY <2>1
<1>5. v (-) w = v (+) (Minus1 (.) w)
  BY <1>1, Minus
<1> HIDE DEF N
<1>6. On(d, v (+) (Minus1 (.) w), X)
  BY <1>3, PolynomialAdds
<1> QED  BY <1>4, <1>5, <1>6

\* What open gives, if the shares of the first players come first.
LEMMA OpenedIs ==
    ASSUME PrimeField, NEW d \in Nat, d < n, NEW v, NEW P, On(d, v, P)
    PROVE  Opened(Field, P, d) = v
<1> DEFINE S == 1 .. d + 1
<1>1. S \in SUBSET Players /\ Cardinality(S) = d + 1
  <2>1. n \in Nat
    BY PassiveAssumption
  <2> QED  BY <2>1, FS_Interval DEF Players
<1>2. \A i \in S : P[i] \in F
  BY <1>1, PolynomialType
<1>3. Opened(Field, P, d) = Recombine(Field, [i \in S |-> P[i]])
  BY DEF Opened, First
<1> HIDE DEF S
<1>4. Recombine(Field, [i \in S |-> P[i]]) = Recombined(S, P)
  BY <1>1, <1>2, RecombineIsCached
<1>5. Recombined(S, P) = v
  BY <1>1, Lagrange
<1> QED  BY <1>3, <1>4, <1>5

\* The sharing of a product, made with a random number that is shared twice.
LEMMA ProductIsOn ==
    ASSUME PrimeField, NEW a, NEW A, On(t, a, A), NEW b, NEW B, On(t, b, B),
           NEW r, NEW R, On(t, r, R), NEW Q, On(t + t, r, Q)
    PROVE  On(t, a (.) b, TripleProduct(Field, t, A, B, R, Q))
<1> DEFINE D == [j \in Players |-> (A[j] (.) B[j]) (-) Q[j]]
           AB == [j \in Players |-> A[j] (.) B[j]]
           m == t + t
           d == (a (.) b) (-) r
<1>1. t \in Nat /\ m \in Nat /\ m < n /\ 2 * t = m
  BY PassiveAssumption
<1>2. a \in F /\ b \in F /\ r \in F /\ A \in [Players -> F]
  BY <1>1, PolynomialType
<1>3. a (.) b \in F /\ d \in F
  BY <1>2, ClosedInF
<1>4. On(m, d, D)
  <2>1. On(m, a (.) b, AB)
    BY <1>1, PolynomialMultiplies
  <2>2. D = [j \in Players |-> AB[j] (-) Q[j]]
    OBVIOUS
  <2> HIDE DEF m, AB, D
  <2>3. On(m, d, [j \in Players |-> AB[j] (-) Q[j]])
    BY <1>1, <2>1, PolynomialSubtracts DEF m
  <2> QED  BY <2>2, <2>3
<1>5. Opened(Field, D, m) = d
  <2> HIDE DEF D, d, m
  <2> QED  BY <1>1, <1>4, OpenedIs
<1>6. TripleProduct(Field, t, A, B, R, Q) = [j \in Players |-> R[j] (+) d]
  <2>1. DOMAIN A = Players
    BY <1>2
  <2>2. D = [j \in DOMAIN A |-> Sub(Field, Mul(Field, A[j], B[j]), Q[j])]
    BY <2>1 DEF (-), (.)
  <2> HIDE DEF D, d, m
  <2> QED  BY <1>1, <1>5, <2>1, <2>2 DEF TripleProduct, (+)
<1>7. On(t, d, Flat(d))
  <2> HIDE DEF d
  <2>1. On(0, d, Flat(d))
    BY <1>3, PolynomialCases
  <2> QED  BY <1>1, <2>1, DegreeGrows
<1>8. r (+) d = a (.) b
  <2> DEFINE x == a (.) b
  <2>1. x \in F /\ r \in F /\ x (-) r \in F
    BY <1>2, <1>3
  <2> HIDE DEF x
  <2>2. (x (-) r) (+) r = x
    BY <2>1, SubCancels
  <2>3. r (+) (x (-) r) = (x (-) r) (+) r
    BY <2>1, AddCommutes
  <2> QED  BY <2>2, <2>3 DEF x
<1> HIDE DEF d
<1> DEFINE X == [j \in Players |-> R[j] (+) Flat(d)[j]]
<1>9. On(t, r (+) d, X)
  BY <1>1, <1>7, PolynomialAdds
<1>10. [j \in Players |-> R[j] (+) d] = X
  BY DEF Flat
<1> QED  BY <1>6, <1>8, <1>9, <1>10

\* make_triple of generate_triples, and TriplesPRSSMixin (active.py): from sharings of two
\* numbers, and two sharings of one random number, of degrees t and 2 * t, the players make a
\* sharing of degree t of the product.
THEOREM TripleProductShares ==
    ASSUME PrimeField, NEW a \in F, NEW b \in F, NEW c \in F,
           NEW p \in [1 .. t -> F], NEW q \in [1 .. t -> F],
           NEW r \in [1 .. t -> F], NEW s \in [1 .. 2 * t -> F]
    PROVE  \E u \in [1 .. t -> F] :
              TripleProduct(Field, t, Share(Field, n, a, p), Share(Field, n, b, q),
                            Share(Field, n, c, r), Share(Field, n, c, s))
                = Share(Field, n, Mul(Field, a, b), u)
<1> DEFINE m == 2 * t
           A == Share(Field, n, a, p)
           B == Share(Field, n, b, q)
           R == Share(Field, n, c, r)
           Q == Share(Field, n, c, s)
           X == TripleProduct(Field, t, A, B, R, Q)
<1>1. t \in Nat /\ m \in Nat /\ m = t + t
  BY PassiveAssumption
<1>2. On(t, a, A) /\ On(t, b, B) /\ On(t, c, R)
  BY <1>1, ShareIsOn
<1>3. On(m, c, Q)
  <2> HIDE DEF Q
  <2>1. s \in [1 .. m -> F]
    OBVIOUS
  <2> HIDE DEF m
  <2> QED  BY <1>1, <2>1, ShareIsOn DEF Q
<1> HIDE DEF A, B, R, Q, m
<1>4. On(t, a (.) b, X)
  BY <1>1, <1>2, <1>3, ProductIsOn
<1> HIDE DEF X
<1>5. \E u \in [1 .. t -> F] : X = Share(Field, n, a (.) b, u)
  BY <1>1, <1>4, CoefficientsExist
<1> QED  BY <1>5 DEF X, A, B, R, Q, (.)
\* A sum of four elements.
LEMMA SumOfFour ==
    ASSUME PrimeField, NEW g, \A i \in 1 .. 4 : g[i] \in F
    PROVE  SumOf(1 .. 4, g) = (g[1] (+) g[2]) (+) (g[3] (+) g[4])
<1>1. /\ 1 .. 4 = {1, 2, 3, 4} /\ {1, 2, 3, 4} \ {1} = {2, 3, 4} /\ {2, 3, 4} \ {2} = {3, 4}
      /\ {3, 4} \ {3} = {4} /\ {4} \ {4} = {}
  OBVIOUS
<1>2. /\ IsFiniteSet({}) /\ IsFiniteSet({4}) /\ IsFiniteSet({3, 4}) /\ IsFiniteSet({2, 3, 4})
      /\ IsFiniteSet({1, 2, 3, 4})
  <2>1. IsFiniteSet(1 .. 4)
    BY 1 \in Int, 4 \in Int, FS_Interval, Zenon
  <2>2. {4} \in SUBSET (1 .. 4) /\ {3, 4} \in SUBSET (1 .. 4) /\ {2, 3, 4} \in SUBSET (1 .. 4)
    OBVIOUS
  <2> QED  BY <1>1, <2>1, <2>2, FS_EmptySet, FS_Subset
<1>3. g[1] \in F /\ g[2] \in F /\ g[3] \in F /\ g[4] \in F
  OBVIOUS
<1>4. SumOf({}, g) = 0
  BY FS_EmptySet, SumLaws
<1>5. SumOf({4}, g) = g[4]
  BY <1>3, <1>2, SumLaws, <1>1, <1>4, Neutral
<1>6. SumOf({3, 4}, g) = g[3] (+) g[4]
  BY <1>3, <1>2, SumLaws, <1>1, <1>5
<1>7. SumOf({2, 3, 4}, g) = g[2] (+) (g[3] (+) g[4])
  BY <1>3, <1>2, SumLaws, <1>1, <1>6
<1>8. SumOf({1, 2, 3, 4}, g) = g[1] (+) (g[2] (+) (g[3] (+) g[4]))
  BY <1>3, <1>2, SumLaws, <1>1, <1>7
<1>9. g[3] (+) g[4] \in F
  BY <1>3, ClosedInF
<1>10. g[1] (+) (g[2] (+) (g[3] (+) g[4])) = (g[1] (+) g[2]) (+) (g[3] (+) g[4])
  BY <1>3, <1>9, AddAssociates
<1> QED  BY <1>1, <1>8, <1>10

\* (d + a)(e + b), multiplied out.
LEMMA MultipliedOut ==
    ASSUME PrimeField, NEW a \in F, NEW b \in F, NEW d \in F, NEW e \in F
    PROVE  ((d (.) e) (+) (d (.) b)) (+) ((e (.) a) (+) (a (.) b)) = (d (+) a) (.) (e (+) b)
<1>1. d (.) e \in F /\ d (.) b \in F /\ e (.) a \in F /\ a (.) b \in F /\ e (+) b \in F /\ d (+) a \in F
  BY ClosedInF
<1>2. d (.) (e (+) b) = (d (.) e) (+) (d (.) b)
  BY Distributes
<1>3. a (.) (e (+) b) = (a (.) e) (+) (a (.) b) /\ a (.) e = e (.) a
  BY Distributes, AddCommutes
<1>4. (d (+) a) (.) (e (+) b) = (d (.) (e (+) b)) (+) (a (.) (e (+) b))
  <2> DEFINE x == e (+) b
             y == d (+) a
  <2>1. x \in F /\ y \in F
    BY <1>1
  <2> HIDE DEF x
  <2>2. x (.) (d (+) a) = (x (.) d) (+) (x (.) a)
    BY <2>1, Distributes
  <2>3. x (.) d = d (.) x /\ x (.) a = a (.) x
    BY <2>1, AddCommutes
  <2>4. y (.) x = x (.) y
    <3> HIDE DEF y
    <3> QED  BY <2>1, AddCommutes
  <2> QED  BY <2>2, <2>3, <2>4 DEF x
<1> QED  BY <1>2, <1>3, <1>4

\* Multiplication with a triple, on polynomials.
LEMMA MulByTripleIsOn ==
    ASSUME PrimeField, NEW x, NEW X, On(t, x, X), NEW y, NEW Y, On(t, y, Y),
           NEW a, NEW A, On(t, a, A), NEW b, NEW B, On(t, b, B), NEW C, On(t, a (.) b, C)
    PROVE  On(t, x (.) y, MulByTriple(Field, t, X, Y, <<A, B, C>>))
<1> DEFINE d == x (-) a
           e == y (-) b
           XA == [j \in Players |-> X[j] (-) A[j]]
           YB == [j \in Players |-> Y[j] (-) B[j]]
           v == <<d (.) e, d (.) b, e (.) a, a (.) b>>
           P == <<Flat(d (.) e), [j \in Players |-> d (.) B[j]],
                  [j \in Players |-> e (.) A[j]], C>>
           terms(j) == <<d (.) e, d (.) B[j], e (.) A[j], C[j]>>
           Total == [j \in Players |-> SumOf(1 .. 4, [i \in 1 .. 4 |-> P[i][j]])]
<1>1. t \in Nat /\ t < n /\ IsFiniteSet(1 .. 4)
  <2>1. IsFiniteSet(1 .. 4)
    BY 1 \in Int, 4 \in Int, FS_Interval, Zenon
  <2> QED  BY <2>1, PassiveAssumption
<1>2. /\ x \in F /\ y \in F /\ a \in F /\ b \in F
      /\ X \in [Players -> F] /\ Y \in [Players -> F]
      /\ \A j \in Players : A[j] \in F /\ B[j] \in F /\ C[j] \in F
  BY <1>1, PolynomialType
<1>3. d \in F /\ e \in F
  BY <1>2, ClosedInF
<1>4. On(t, d, XA) /\ On(t, e, YB)
  BY <1>1, PolynomialSubtracts
<1>5. Opened(Field, XA, t) = d /\ Opened(Field, YB, t) = e
  <2> HIDE DEF XA, YB, d, e
  <2> QED  BY <1>1, <1>4, OpenedIs
<1>6. d (+) a = x /\ e (+) b = y
  BY <1>2, SubCancels
<1>7. MulByTriple(Field, t, X, Y, <<A, B, C>>)
        = [j \in Players |-> FieldSum(Field, terms(j))]
  <2>1. DOMAIN X = Players /\ DOMAIN Y = Players
    BY <1>2
  <2>2. /\ XA = [j \in DOMAIN X |-> Sub(Field, X[j], A[j])]
        /\ YB = [j \in DOMAIN Y |-> Sub(Field, Y[j], B[j])]
    BY <2>1 DEF (-)
  <2> DEFINE triple == <<A, B, C>>
  <2>3. triple[1] = A /\ triple[2] = B /\ triple[3] = C
    OBVIOUS
  <2> HIDE DEF triple, d, e, XA, YB
  <2> QED  BY <1>5, <2>1, <2>2, <2>3 DEF MulByTriple, (.), triple
<1> HIDE DEF d, e, XA, YB
<1>8. d (.) e \in F /\ d (.) b \in F /\ e (.) a \in F /\ a (.) b \in F
  BY <1>2, <1>3, ClosedInF
<1>9. ASSUME NEW j \in Players
      PROVE  /\ \A i \in 1 .. 4 : terms(j)[i] \in F
             /\ terms(j) = [i \in 1 .. 4 |-> P[i][j]]
             /\ FieldSum(Field, terms(j)) = SumOf(1 .. 4, terms(j))
  <2>1. d (.) B[j] \in F /\ e (.) A[j] \in F /\ C[j] \in F
    BY <1>2, <1>3, ClosedInF
  <2> DEFINE s == terms(j)
  <2>2. s[1] = d (.) e /\ s[2] = d (.) B[j] /\ s[3] = e (.) A[j] /\ s[4] = C[j]
    OBVIOUS
  <2>3. DOMAIN s = 1 .. 4 /\ s = [i \in 1 .. 4 |-> s[i]]
    OBVIOUS
  <2>4. \A i \in 1 .. 4 : s[i] \in F
    <3>1. \A i \in 1 .. 4 : i = 1 \/ i = 2 \/ i = 3 \/ i = 4
      OBVIOUS
    <3> HIDE DEF s
    <3> QED  BY <1>8, <2>1, <2>2, <3>1
  <2>5. P[1][j] = d (.) e /\ P[2][j] = d (.) B[j] /\ P[3][j] = e (.) A[j] /\ P[4][j] = C[j]
    BY DEF Flat
  <2> HIDE DEF P, s
  <2>6. \A i \in 1 .. 4 : s[i] = P[i][j]
    BY <2>2, <2>5
  <2>7. FieldSum(Field, s) = SumOf(1 .. 4, s)
    BY <1>1, <2>3, <2>4, FieldSumIs
  <2> QED  BY <2>3, <2>4, <2>6, <2>7 DEF s
<1>10. \A i \in 1 .. 4 : On(t, v[i], P[i])
  <2>1. On(t, d (.) e, Flat(d (.) e))
    <3> DEFINE c == d (.) e
    <3> HIDE DEF c
    <3>1. On(0, c, Flat(c))
      BY <1>8, PolynomialCases DEF c
    <3>2. On(t, c, Flat(c))
      BY <1>1, <3>1, DegreeGrows
    <3> QED  BY <3>2 DEF c
  <2>2. On(t, d (.) b, [j \in Players |-> d (.) B[j]])
    BY <1>1, <1>3, PolynomialScales
  <2>3. On(t, e (.) a, [j \in Players |-> e (.) A[j]])
    BY <1>1, <1>3, PolynomialScales
  <2>4. /\ v[1] = d (.) e /\ v[2] = d (.) b /\ v[3] = e (.) a /\ v[4] = a (.) b
        /\ P[1] = Flat(d (.) e) /\ P[2] = [j \in Players |-> d (.) B[j]]
        /\ P[3] = [j \in Players |-> e (.) A[j]] /\ P[4] = C
    OBVIOUS
  <2>5. \A i \in 1 .. 4 : i = 1 \/ i = 2 \/ i = 3 \/ i = 4
    OBVIOUS
  <2> HIDE DEF v, P
  <2> QED  BY <2>1, <2>2, <2>3, <2>4, <2>5
<1>11. [j \in Players |-> FieldSum(Field, terms(j))] = Total
  <2> HIDE DEF terms, P
  <2>1. \A j \in Players : FieldSum(Field, terms(j)) = SumOf(1 .. 4, [i \in 1 .. 4 |-> P[i][j]])
    BY <1>9
  <2> QED  BY <2>1
<1>12. SumOf(1 .. 4, v) = x (.) y
  <2>1. v[1] = d (.) e /\ v[2] = d (.) b /\ v[3] = e (.) a /\ v[4] = a (.) b
    OBVIOUS
  <2>2. \A i \in 1 .. 4 : i = 1 \/ i = 2 \/ i = 3 \/ i = 4
    OBVIOUS
  <2> HIDE DEF v
  <2>3. \A i \in 1 .. 4 : v[i] \in F
    BY <1>8, <2>1, <2>2
  <2>4. SumOf(1 .. 4, v) = (v[1] (+) v[2]) (+) (v[3] (+) v[4])
    BY <2>3, SumOfFour
  <2>5. ((d (.) e) (+) (d (.) b)) (+) ((e (.) a) (+) (a (.) b)) = (d (+) a) (.) (e (+) b)
    BY <1>2, <1>3, MultipliedOut
  <2> QED  BY <1>6, <2>1, <2>4, <2>5
<1> HIDE DEF v, P, terms
<1>13. On(t, SumOf(1 .. 4, v), Total)
  BY <1>1, <1>10, PolynomialSum
<1> QED  BY <1>7, <1>11, <1>12, <1>13

\* BasicActiveRuntime.mul (active.py): with a triple of sharings, which need not be random,
\* the players make of sharings of two numbers a sharing of degree t of their product.
THEOREM MulByTripleShares ==
    ASSUME PrimeField, NEW x \in F, NEW y \in F, NEW a \in F, NEW b \in F,
           NEW p \in [1 .. t -> F], NEW q \in [1 .. t -> F],
           NEW r \in [1 .. t -> F], NEW s \in [1 .. t -> F], NEW w \in [1 .. t -> F]
    PROVE  \E u \in [1 .. t -> F] :
              MulByTriple(Field, t, Share(Field, n, x, p), Share(Field, n, y, q),
                          <<Share(Field, n, a, r), Share(Field, n, b, s),
                            Share(Field, n, Mul(Field, a, b), w)>>)
                = Share(Field, n, Mul(Field, x, y), u)
<1> DEFINE X == Share(Field, n, x, p)
           Y == Share(Field, n, y, q)
           A == Share(Field, n, a, r)
           B == Share(Field, n, b, s)
           c == a (.) b
           C == Share(Field, n, c, w)
           Z == MulByTriple(Field, t, X, Y, <<A, B, C>>)
<1>1. t \in Nat
  BY PassiveAssumption
<1>2. On(t, x, X) /\ On(t, y, Y) /\ On(t, a, A) /\ On(t, b, B)
  BY <1>1, ShareIsOn
<1>3. On(t, c, C)
  <2>1. c \in F
    BY ClosedInF
  <2> HIDE DEF c
  <2> QED  BY <1>1, <2>1, ShareIsOn
<1>4. c = Mul(Field, a, b)
  BY DEF (.)
<1> HIDE DEF X, Y, A, B, C
<1>5. On(t, x (.) y, Z)
  BY <1>2, <1>3, MulByTripleIsOn
<1> HIDE DEF Z, c
<1>6. \E u \in [1 .. t -> F] : Z = Share(Field, n, x (.) y, u)
  BY <1>1, <1>5, CoefficientsExist
<1> QED  BY <1>4, <1>6 DEF X, Y, A, B, C, Z, (.)
------------------------------------------------------------------------------
\* The triples of dealers who follow the protocol.

\* The products of the model over the members of a function.
LEMMA FieldProductIs ==
    ASSUME PrimeField, NEW g, IsFiniteSet(DOMAIN g), \A i \in DOMAIN g : g[i] \in F
    PROVE  FieldProduct(Field, g) = ProductOf(DOMAIN g, g)
<1> DEFINE S == DOMAIN g
           f == CHOOSE f : IsProduct(f, S, g)
<1>1. FieldProduct(Field, g) = f[S]
  <2> DEFINE iter[s \in SUBSET DOMAIN g] ==
                 IF s = {} THEN 1
                 ELSE LET x == CHOOSE x \in s : TRUE
                      IN  Mul(Field, g[x], iter[s \ {x}])
  <2>1. FieldProduct(Field, g) = iter[S]
    BY DEF FieldProduct, FoldFunction, FoldFunctionOnSet, MapThenFoldSet
  <2>2. iter = f
    BY DEF IsProduct, Some
  <2> QED  BY <2>1, <2>2
<1>2. IsProduct(f, S, g)
  BY ProductIsFold
<1> HIDE DEF f
<1> QED  BY <1>1, <1>2, ProductIsFold

\* The entries of the hyper-invertible matrix are elements.
LEMMA HyperInF ==
    ASSUME PrimeField, NEW i \in Players, NEW j \in Players
    PROVE  Hyper(n, Field)[i][j] \in F
<1> DEFINE g == [k \in 1 .. n |-> IF k = j THEN 1
                    ELSE Div(Field, ToField(Field, n + i - k), ToField(Field, j - k))]
<1>1. ASSUME NEW k \in Players PROVE g[k] \in F
  <2>1. CASE k = j
    BY <2>1, Operations DEF Players
  <2>2. CASE k # j
    <3>1. n + i - k \in Int /\ j - k \in Int /\ k \in Int /\ j \in Int
      BY PassiveAssumption DEF Players
    <3>2. ToField(Field, n + i - k) \in F
      BY <3>1, ToFieldInF
    <3>3. k \in F /\ j \in F
      BY PointsInF
    <3>4. ToField(Field, j - k) = j (-) k
      BY <3>1 DEF ToField, (-), Sub, PrimeField
    <3>5. ToField(Field, j - k) \in F /\ ToField(Field, j - k) # 0
      BY <2>2, <3>3, <3>4, DifferenceIsNot0
    <3> DEFINE u == ToField(Field, n + i - k)
               w == ToField(Field, j - k)
    <3>6. g[k] = u (.) Inv(Field, w)
      BY <2>2 DEF Players, Div, (.)
    <3> HIDE DEF u, w
    <3>7. u \in F /\ w \in F /\ w # 0
      BY <3>2, <3>5 DEF u, w
    <3>8. Inv(Field, w) \in F
      BY <3>7, Inverses
    <3> QED  BY <3>6, <3>7, <3>8, ClosedInF
  <2> QED  BY <2>1, <2>2
<1>2. DOMAIN g = Players /\ IsFiniteSet(DOMAIN g)
  BY PlayersFinite DEF Players
<1>3. Hyper(n, Field)[i][j] = FieldProduct(Field, g)
  BY DEF Hyper, Players
<1> HIDE DEF g
<1>4. FieldProduct(Field, g) = ProductOf(DOMAIN g, g)
  BY <1>1, <1>2, FieldProductIs
<1>5. ProductOf(DOMAIN g, g) \in F
  BY <1>1, <1>2, ProductLaws
<1> QED  BY <1>3, <1>4, <1>5

Weight(i, k) == Hyper(n, Field)[i][k]

\* What player j makes of what it got: entry i is the sum of row i times what the
\* dealers sent.
LEMMA MixedIs ==
    ASSUME PrimeField, NEW S, \A k \in Players : \A p \in Players : S[k][p] \in F,
           NEW j \in Players
    PROVE  ShareSingle(Field, Field, n, S, j)
             = [i \in Players |-> SumOf(Players, [k \in Players |-> Weight(i, k) (.) S[k][j]])]
<1> DEFINE svec == [dealer \in 1 .. n |-> S[dealer][j]]
           col == Transpose(<<svec>>)
           g(i) == [k \in Players |-> Weight(i, k) (.) S[k][j]]
           H == Hyper(n, Field)
           C == MulMatrix(Field, H, col)
<1>1. n \in Nat /\ n > 0 /\ 1 \in Players /\ Players = 1 .. n
  BY PassiveAssumption DEF Players
<1>2. DOMAIN col = Players /\ \A k \in Players : col[k] = [i \in {1} |-> svec[k]]
  BY <1>1 DEF Transpose, Rows, Columns
<1>3. /\ DOMAIN H = Players /\ DOMAIN H[1] = Players
      /\ \A i, k \in Players : H[i][k] = Weight(i, k)
  BY <1>1 DEF Hyper, Weight
<1> HIDE DEF col, H
<1>4. C = [i \in Players |-> [c \in {1} |->
              FieldSum(Field, [k \in Players |-> Mul(Field, H[i][k], col[k][c])])]]
  BY <1>1, <1>2, <1>3 DEF MulMatrix, Rows, Columns
<1>5. ASSUME NEW i \in Players
      PROVE  FieldSum(Field, [k \in Players |-> Mul(Field, H[i][k], col[k][1])])
               = SumOf(Players, g(i))
  <2>1. [k \in Players |-> Mul(Field, H[i][k], col[k][1])] = g(i)
    BY <1>1, <1>2, <1>3 DEF (.)
  <2>2. \A k \in Players : g(i)[k] \in F
    <3> SUFFICES ASSUME NEW k \in Players PROVE Weight(i, k) (.) S[k][j] \in F
      OBVIOUS
    <3>1. Weight(i, k) \in F
      BY HyperInF DEF Weight
    <3> QED  BY <3>1, ClosedInF
  <2>3. DOMAIN g(i) = Players /\ IsFiniteSet(Players)
    BY PlayersFinite
  <2> HIDE DEF g
  <2> QED  BY <2>1, <2>2, <2>3, FieldSumIs
<1>6. Transpose(C)[1] = [i \in Players |-> C[i][1]]
  <2> HIDE DEF C
  <2>1. DOMAIN C = Players /\ DOMAIN C[1] = {1}
    BY <1>1, <1>4 DEF C
  <2> QED  BY <2>1 DEF Transpose, Rows, Columns
<1>7. ShareSingle(Field, Field, n, S, j) = Transpose(C)[1]
  BY DEF ShareSingle, col, H
<1> HIDE DEF C
<1>8. \A i \in Players : C[i][1] = SumOf(Players, g(i))
  BY <1>4, <1>5 DEF C
<1> QED  BY <1>6, <1>7, <1>8

\* The players' entries i are a sharing of the same sum of the dealers' numbers.
LEMMA MixedIsOn ==
    ASSUME PrimeField, NEW d \in Nat, NEW v, NEW S, \A k \in Players : On(d, v[k], S[k]),
           NEW i \in Players
    PROVE  On(d, SumOf(Players, [k \in Players |-> Weight(i, k) (.) v[k]]),
              [j \in Players |-> ShareSingle(Field, Field, n, S, j)[i]])
<1> DEFINE w == [k \in Players |-> Weight(i, k) (.) v[k]]
           Q == [k \in Players |-> [p \in Players |-> Weight(i, k) (.) S[k][p]]]
<1>1. \A k \in Players : On(d, w[k], Q[k])
  <2> SUFFICES ASSUME NEW k \in Players PROVE On(d, w[k], Q[k])
    OBVIOUS
  <2>1. Weight(i, k) \in F
    BY HyperInF DEF Weight
  <2> QED  BY <2>1, PolynomialScales
<1>2. IsFiniteSet(Players)
  BY PlayersFinite
<1>3. \A k \in Players : \A p \in Players : S[k][p] \in F
  BY PolynomialType
<1>4. \A p \in Players : [k \in Players |-> Q[k][p]]
                            = [k \in Players |-> Weight(i, k) (.) S[k][p]]
  OBVIOUS
<1>5. \A p \in Players : ShareSingle(Field, Field, n, S, p)[i]
                           = SumOf(Players, [k \in Players |-> Q[k][p]])
  BY <1>3, <1>4, MixedIs
<1> HIDE DEF w, Q
<1>6. On(d, SumOf(Players, w), [p \in Players |-> SumOf(Players, [k \in Players |-> Q[k][p]])])
  BY <1>1, <1>2, PolynomialSum
<1>7. [p \in Players |-> SumOf(Players, [k \in Players |-> Q[k][p]])]
        = [p \in Players |-> ShareSingle(Field, Field, n, S, p)[i]]
  BY <1>5
<1> QED  BY <1>6, <1>7 DEF w
\* _verify_single lets a sharing of its degree pass.
LEMMA SharingVerifies ==
    ASSUME PrimeField, NEW T, NEW d \in 1 .. n - 1, NEW c, NEW R, NEW j, On(d, c, R[j])
    PROVE  VerifySingle(Field, T, R, d, j)
<1>1. d \in Nat
  OBVIOUS
<1>2. c \in F /\ R[j] \in [Players -> F]
  BY <1>1, PolynomialType
<1>3. \E r \in [1 .. d -> F] : R[j] = Share(Field, n, c, r)
  BY <1>1, CoefficientsExist
<1>4. VerifySharing(Field, R[j], d)
  BY <1>2, <1>3, VerifySharingAccepts
<1> QED  BY <1>4 DEF VerifySingle

\* What _share_single makes of sharings of one degree is a vector.
LEMMA VectorOfShares ==
    ASSUME PrimeField, NEW d \in Nat, NEW c, NEW R, \A k \in Players : On(d, c[k], R[k]),
           NEW j \in Players
    PROVE  ShareSingle(Field, Field, n, R, j) # Refused
<1>1. \A k \in Players : \A p \in Players : R[k][p] \in F
  BY PolynomialType
<1>2. DOMAIN ShareSingle(Field, Field, n, R, j) = Players /\ Players # {}
  BY <1>1, MixedIs, PassiveAssumption DEF Players
<1> QED  BY <1>2 DEF Refused

\* single_share_random refuses no sharings of the degree it asks for.
LEMMA SingleIs ==
    ASSUME PrimeField, NEW T, NEW d \in 1 .. n - 1,
           NEW c, NEW R, \A k \in Players : On(d, c[k], R[k]), NEW j \in Players
    PROVE  SingleShareRandom(Field, Field, n, T, R, d, j)
             = First(T, ShareSingle(Field, Field, n, R, j))
<1>1. d \in Nat
  OBVIOUS
<1>2. ShareSingle(Field, Field, n, R, j) # Refused
  BY <1>1, VectorOfShares
<1>3. VerifySingle(Field, T, R, d, j)
  BY SharingVerifies
<1> QED  BY <1>2, <1>3 DEF SingleShareRandom

\* The dealers dealt the same numbers, with degrees d and e.
DealtTwice(d, e, R, S) == \A k \in Players : \E x : On(d, x, R[k]) /\ On(e, x, S[k])

\* Nor does double_share_random, if both are sharings of the same numbers.
LEMMA DoubleIs ==
    ASSUME PrimeField, NEW T, NEW d \in 1 .. n - 1, NEW e \in 1 .. n - 1,
           NEW R, NEW S, DealtTwice(d, e, R, S),
           NEW j \in Players
    PROVE  LET D == DoubleShareRandom(Field, Field, n, T, R, S, d, e, j)
           IN  /\ D # Refused
               /\ D[1] = First(T, ShareSingle(Field, Field, n, R, j))
               /\ D[2] = First(T, ShareSingle(Field, Field, n, S, j))
<1> DEFINE c == [k \in Players |-> CHOOSE x : On(d, x, R[k]) /\ On(e, x, S[k])]
<1>1. d \in Nat /\ e \in Nat /\ n \in Nat /\ d < n /\ e < n
  BY PassiveAssumption
<1>8. \A k \in Players : On(d, c[k], R[k]) /\ On(e, c[k], S[k])
  BY DEF DealtTwice
<1> HIDE DEF c
<1>2. ShareSingle(Field, Field, n, R, j) # Refused
  BY <1>1, <1>8, VectorOfShares
<1>3. ShareSingle(Field, Field, n, S, j) # Refused
  BY <1>1, <1>8, VectorOfShares
<1>4. VerifySingle(Field, T, R, d, j) /\ VerifySingle(Field, T, S, e, j)
  BY <1>8, SharingVerifies
<1>5. Opened(Field, R[j], d) = c[j]
  BY <1>1, <1>8, OpenedIs
<1>6. Opened(Field, S[j], e) = c[j]
  BY <1>1, <1>8, OpenedIs
<1>7. VerifyDouble(Field, T, R, S, d, e, j)
  BY <1>4, <1>5, <1>6 DEF VerifyDouble, Opened
<1> DEFINE D == DoubleShareRandom(Field, Field, n, T, R, S, d, e, j)
           X == First(T, ShareSingle(Field, Field, n, R, j))
           Y == First(T, ShareSingle(Field, Field, n, S, j))
<1>9. D = <<X, Y>>
  BY <1>2, <1>3, <1>7 DEF DoubleShareRandom
<1> HIDE DEF D, X, Y
<1>10. D # <<>> /\ D[1] = X /\ D[2] = Y
  BY <1>9
<1> QED  BY <1>10 DEF D, X, Y, Refused

\* generate_triples by matrices (active.py:336-379): if every dealer shares numbers of its
\* choice as the protocol says - a and b with degree t, c with degrees t and 2 * t - no
\* player's verification fails, and each triple is a sharing of two numbers and one of their
\* product, all of degree t.
THEOREM HyperTriplesShare ==
    ASSUME PrimeField, NEW T \in 1 .. n, NEW i \in 1 .. T,
           NEW a \in [Players -> F], NEW p \in [Players -> [1 .. t -> F]],
           NEW b \in [Players -> F], NEW q \in [Players -> [1 .. t -> F]],
           NEW c \in [Players -> F], NEW r \in [Players -> [1 .. t -> F]],
           NEW s \in [Players -> [1 .. 2 * t -> F]]
    PROVE  LET dealt(numbers, coefs) ==
                   [k \in Players |-> Share(Field, n, numbers[k], coefs[k])]
               single(sharings) ==
                   [j \in Players |-> SingleShareRandom(Field, Field, n, T, sharings, t, j)]
               double == [j \in Players |-> DoubleShareRandom(Field, Field, n, T,
                                                dealt(c, r), dealt(c, s), t, 2 * t, j)]
           IN  /\ \A j \in Players : Refused \notin {single(dealt(a, p))[j],
                                                     single(dealt(b, q))[j], double[j]}
               /\ \E x, y \in F : \E u, v, w \in [1 .. t -> F] :
                     HyperTriple(Field, t, single(dealt(a, p)), single(dealt(b, q)), double, i)
                       = <<Share(Field, n, x, u), Share(Field, n, y, v),
                           Share(Field, n, Mul(Field, x, y), w)>>
<1> DEFINE A == [k \in Players |-> Share(Field, n, a[k], p[k])]
           B == [k \in Players |-> Share(Field, n, b[k], q[k])]
           R == [k \in Players |-> Share(Field, n, c[k], r[k])]
           S == [k \in Players |-> Share(Field, n, c[k], s[k])]
           m == 2 * t
           single(X) == [j \in Players |-> SingleShareRandom(Field, Field, n, T, X, t, j)]
           double == [j \in Players |-> DoubleShareRandom(Field, Field, n, T, R, S, t, m, j)]
           mixed(X) == [j \in Players |-> ShareSingle(Field, Field, n, X, j)[i]]
           sum(v) == SumOf(Players, [k \in Players |-> Weight(i, k) (.) v[k]])
<1>1. /\ n \in Nat /\ t \in 1 .. n - 1 /\ t \in Nat /\ m \in 1 .. n - 1 /\ m \in Nat /\ m = t + t
      /\ T \in Nat /\ T >= 1 /\ i \in Players
  BY PassiveAssumption DEF Players
<1>6a. \A d \in Nat : \A v, X : (\A k \in Players : On(d, v[k], X[k])) => On(d, sum(v), mixed(X))
  <2> SUFFICES ASSUME NEW d \in Nat, NEW v, NEW X, \A k \in Players : On(d, v[k], X[k])
               PROVE  On(d, sum(v), mixed(X))
    OBVIOUS
  <2>1. i \in Players
    BY <1>1
  <2> QED  BY <2>1, MixedIsOn
<1>2. \A k \in Players : On(t, a[k], A[k]) /\ On(t, b[k], B[k]) /\ On(t, c[k], R[k])
  <2> SUFFICES ASSUME NEW k \in Players
               PROVE  On(t, a[k], A[k]) /\ On(t, b[k], B[k]) /\ On(t, c[k], R[k])
    OBVIOUS
  <2>1. /\ a[k] \in F /\ p[k] \in [1 .. t -> F] /\ A[k] = Share(Field, n, a[k], p[k])
        /\ b[k] \in F /\ q[k] \in [1 .. t -> F] /\ B[k] = Share(Field, n, b[k], q[k])
        /\ c[k] \in F /\ r[k] \in [1 .. t -> F] /\ R[k] = Share(Field, n, c[k], r[k])
    OBVIOUS
  <2> QED  BY <1>1, <2>1, ShareIsOn
<1>3. \A k \in Players : On(m, c[k], S[k])
  <2> SUFFICES ASSUME NEW k \in Players PROVE On(m, c[k], S[k])
    OBVIOUS
  <2>1. c[k] \in F /\ s[k] \in [1 .. m -> F] /\ S[k] = Share(Field, n, c[k], s[k])
    OBVIOUS
  <2> HIDE DEF m, S
  <2> QED  BY <1>1, <2>1, ShareIsOn
<1>4. \A j \in Players :
          /\ single(A)[j] = First(T, ShareSingle(Field, Field, n, A, j))
          /\ single(B)[j] = First(T, ShareSingle(Field, Field, n, B, j))
  <2> SUFFICES ASSUME NEW j \in Players
               PROVE  /\ SingleShareRandom(Field, Field, n, T, A, t, j)
                           = First(T, ShareSingle(Field, Field, n, A, j))
                      /\ SingleShareRandom(Field, Field, n, T, B, t, j)
                           = First(T, ShareSingle(Field, Field, n, B, j))
    OBVIOUS
  <2> HIDE DEF A, B
  <2> QED  BY <1>1, <1>2, SingleIs
<1>4a. \A j \in Players : double[j] = DoubleShareRandom(Field, Field, n, T, R, S, t, m, j)
  <2> HIDE DEF R, S, m
  <2> QED  OBVIOUS
<1> HIDE DEF double
<1>5. \A j \in Players :
          /\ double[j] # Refused
          /\ double[j][1] = First(T, ShareSingle(Field, Field, n, R, j))
          /\ double[j][2] = First(T, ShareSingle(Field, Field, n, S, j))
  <2> SUFFICES ASSUME NEW j \in Players
               PROVE  LET D == DoubleShareRandom(Field, Field, n, T, R, S, t, m, j)
                      IN  /\ D # Refused
                          /\ D[1] = First(T, ShareSingle(Field, Field, n, R, j))
                          /\ D[2] = First(T, ShareSingle(Field, Field, n, S, j))
    BY <1>4a
  <2> HIDE DEF A, B, R, S, m, single, mixed, sum
  <2>1. DealtTwice(t, m, R, S)
    BY <1>2, <1>3 DEF DealtTwice
  <2>2. t \in 1 .. n - 1 /\ m \in 1 .. n - 1
    BY <1>1
  <2> QED  BY <2>1, <2>2, DoubleIs
<1> HIDE DEF A, B, R, S, single, double, m
<1>6. \A X : First(T, X)[i] = X[i] /\ First(T, X) # Refused
  <2> SUFFICES ASSUME NEW X PROVE First(T, X)[i] = X[i] /\ First(T, X) # Refused
    OBVIOUS
  <2>1. First(T, X)[i] = X[i]
    BY DEF First
  <2>2. i \in DOMAIN First(T, X)
    BY DEF First
  <2>3. i \notin DOMAIN Refused
    BY DEF Refused
  <2> QED  BY <2>1, <2>2, <2>3
<1>7. \A j \in Players : /\ Refused # single(A)[j] /\ Refused # single(B)[j]
                         /\ Refused # double[j]
  <2> SUFFICES ASSUME NEW j \in Players
               PROVE  /\ Refused # single(A)[j] /\ Refused # single(B)[j]
                      /\ Refused # double[j]
    OBVIOUS
  <2> QED  BY <1>4, <1>5, <1>6
<1>8. DOMAIN single(A) = Players /\ DOMAIN single(B) = Players /\ DOMAIN double = Players
  BY DEF single, double
<1>9. [j \in Players |-> single(A)[j][i]] = mixed(A)
  BY <1>4, <1>6
<1>10. [j \in Players |-> single(B)[j][i]] = mixed(B)
  BY <1>4, <1>6
<1>11. [j \in Players |-> double[j][1][i]] = mixed(R)
  BY <1>5, <1>6
<1>12. [j \in Players |-> double[j][2][i]] = mixed(S)
  BY <1>5, <1>6
<1> DEFINE P == TripleProduct(Field, t, mixed(A), mixed(B), mixed(R), mixed(S))
<1>13. HyperTriple(Field, t, single(A), single(B), double, i) = <<mixed(A), mixed(B), P>>
  <2> HIDE DEF mixed
  <2> QED  BY <1>8, <1>9, <1>10, <1>11, <1>12 DEF HyperTriple
<1> HIDE DEF mixed, sum
<1>14. On(t, sum(a), mixed(A)) /\ On(t, sum(b), mixed(B)) /\ On(t, sum(c), mixed(R))
  BY <1>1, <1>2, <1>6a
<1>15. On(t + t, sum(c), mixed(S))
  BY <1>1, <1>3, <1>6a
<1>16. On(t, sum(a) (.) sum(b), P)
  BY <1>14, <1>15, ProductIsOn
<1> HIDE DEF P
<1>17. /\ sum(a) \in F /\ \E u \in [1 .. t -> F] : mixed(A) = Share(Field, n, sum(a), u)
       /\ sum(b) \in F /\ \E v \in [1 .. t -> F] : mixed(B) = Share(Field, n, sum(b), v)
       /\ \E w \in [1 .. t -> F] : P = Share(Field, n, sum(a) (.) sum(b), w)
  <2>1. sum(a) \in F /\ \E u \in [1 .. t -> F] : mixed(A) = Share(Field, n, sum(a), u)
    BY <1>1, <1>14, CoefficientsExist
  <2>2. sum(b) \in F /\ \E v \in [1 .. t -> F] : mixed(B) = Share(Field, n, sum(b), v)
    BY <1>1, <1>14, CoefficientsExist
  <2>3. \E w \in [1 .. t -> F] : P = Share(Field, n, sum(a) (.) sum(b), w)
    BY <1>1, <1>16, CoefficientsExist
  <2> QED  BY <2>1, <2>2, <2>3
<1>18. \E x, y \in F : \E u, v, w \in [1 .. t -> F] :
           HyperTriple(Field, t, single(A), single(B), double, i)
             = <<Share(Field, n, x, u), Share(Field, n, y, v),
                 Share(Field, n, Mul(Field, x, y), w)>>
  BY <1>13, <1>17 DEF (.)
<1> QED  BY <1>7, <1>18 DEF single, double, A, B, R, S, m
------------------------------------------------------------------------------
\* Comparison: numbers and their bits.

\* The powers of two.
LEMMA PowersOfTwo ==
    /\ TwoTo[0] = 1
    /\ \A k \in Nat : TwoTo[k + 1] = 2 * TwoTo[k]
    /\ \A k \in Nat : TwoTo[k] \in Nat /\ TwoTo[k] > 0
<1> DEFINE size == [k \in Nat |-> k]
           pred == [k \in Nat |-> IF k = 0 THEN 0 ELSE k - 1]
           base == [k \in Nat |-> 1]
           step == [x \in Nat \X Nat |-> 2 * x[2]]
           Is(h) == h = [k \in Nat |-> IF k = 0 THEN 1 ELSE 2 * h[k - 1]]
<1>1. Descends(Nat, size, pred)
  BY DEF Descends
<1>2. base \in [Nat -> Nat] /\ step \in [Nat \X Nat -> Nat]
  OBVIOUS
<1>3. PICK f \in [Nat -> Nat] : Solves(f, Nat, size, pred, base, step)
  <2> HIDE DEF size, pred, base, step
  <2> QED  BY <1>1, <1>2, Recursion
<1>4. \A k \in Nat : f[k] = IF k = 0 THEN 1 ELSE 2 * f[k - 1]
  <2> SUFFICES ASSUME NEW k \in Nat PROVE f[k] = IF k = 0 THEN 1 ELSE 2 * f[k - 1]
    OBVIOUS
  <2>1. f[k] = IF size[k] = 0 THEN base[k] ELSE step[<<k, f[pred[k]]>>]
    BY <1>3 DEF Solves
  <2>2. CASE k = 0
    BY <2>1, <2>2
  <2>3. CASE k # 0
    BY <2>3, <2>1
  <2> QED  BY <2>2, <2>3
<1>5. Is(f)
  BY <1>4
<1>6. TwoTo = CHOOSE h : Is(h)
  BY DEF TwoTo
<1>7. Is(TwoTo)
  <2> HIDE DEF Is
  <2> QED  BY <1>5, <1>6
<1>8. \A k \in Nat : TwoTo[k] = IF k = 0 THEN 1 ELSE 2 * TwoTo[k - 1]
  BY <1>7
<1>9. TwoTo[0] = 1 /\ \A k \in Nat : TwoTo[k + 1] = 2 * TwoTo[k]
  BY <1>8
<1> DEFINE T == {k \in Nat : TwoTo[k] \in Nat /\ TwoTo[k] > 0}
<1>10. Nat \subseteq T
  <2>1. 0 \in T /\ \A k \in Nat : k \in T => k + 1 \in T
    BY <1>9
  <2> HIDE DEF T
  <2> QED  BY <2>1, Induct
<1> QED  BY <1>9, <1>10

\* Powers multiply as exponents add.
LEMMA PowersMultiply ==
    ASSUME NEW a \in Nat, NEW b \in Nat
    PROVE  TwoTo[a + b] = TwoTo[a] * TwoTo[b]
<1> DEFINE T == {k \in Nat : TwoTo[a + k] = TwoTo[a] * TwoTo[k]}
<1>1. 0 \in T
  BY PowersOfTwo
<1>2. \A k \in Nat : k \in T => k + 1 \in T
  <2> SUFFICES ASSUME NEW k \in Nat, k \in T PROVE k + 1 \in T
    OBVIOUS
  <2>1. a + k \in Nat /\ a + (k + 1) = (a + k) + 1
    OBVIOUS
  <2>2. TwoTo[a + (k + 1)] = 2 * TwoTo[a + k] /\ TwoTo[k + 1] = 2 * TwoTo[k]
    BY <2>1, PowersOfTwo
  <2>3. TwoTo[a] \in Nat /\ TwoTo[k] \in Nat
    BY PowersOfTwo
  <2>4. 2 * (TwoTo[a] * TwoTo[k]) = TwoTo[a] * (2 * TwoTo[k])
    BY <2>3
  <2> QED  BY <2>2, <2>4
<1>3. Nat \subseteq T
  <2> HIDE DEF T
  <2> QED  BY <1>1, <1>2, Induct
<1> QED  BY <1>3

\* h gives the numbers that the first bits of b make.
AreValues(h, b, m) ==
    /\ h \in [0 .. m -> Nat]
    /\ h[0] = 0
    /\ \A k \in 1 .. m : h[k] = h[k - 1] + (b[k] * TwoTo[k - 1])

Bits(m) == [1 .. m -> {0, 1}]

LEMMA ValuesExist ==
    ASSUME NEW m \in Nat, NEW b \in Bits(m)
    PROVE  \E h : AreValues(h, b, m)
<1> DEFINE D == 0 .. m
           size == [k \in D |-> k]
           pred == [k \in D |-> IF k = 0 THEN 0 ELSE k - 1]
           base == [k \in D |-> 0]
           step == [x \in D \X Nat |-> IF x[1] = 0 THEN 0 ELSE x[2] + (b[x[1]] * TwoTo[x[1] - 1])]
<1>1. Descends(D, size, pred)
  BY DEF Descends
<1>2. base \in [D -> Nat]
  OBVIOUS
<1>3. step \in [D \X Nat -> Nat]
  <2> SUFFICES ASSUME NEW k \in D, NEW v \in Nat, k # 0
               PROVE  v + (b[k] * TwoTo[k - 1]) \in Nat
    OBVIOUS
  <2>1. k - 1 \in Nat /\ k \in 1 .. m
    OBVIOUS
  <2>2. TwoTo[k - 1] \in Nat /\ b[k] \in {0, 1}
    BY <2>1, PowersOfTwo DEF Bits
  <2> QED  BY <2>2
<1>4. PICK f \in [D -> Nat] : Solves(f, D, size, pred, base, step)
  <2> HIDE DEF D, size, pred, base, step
  <2> QED  BY <1>1, <1>2, <1>3, Recursion
<1>5. ASSUME NEW k \in D
      PROVE  f[k] = IF k = 0 THEN 0 ELSE f[k - 1] + (b[k] * TwoTo[k - 1])
  <2>1. f[k] = IF size[k] = 0 THEN base[k] ELSE step[<<k, f[pred[k]]>>]
    BY <1>4 DEF Solves
  <2>2. CASE k = 0
    BY <2>1, <2>2
  <2>3. CASE k # 0
    BY <2>3, <2>1
  <2> QED  BY <2>2, <2>3
<1>6. AreValues(f, b, m)
  BY <1>5 DEF AreValues
<1> QED  BY <1>6

\* k bits make a number below 2 ** k.
LEMMA ValuesBounded ==
    ASSUME NEW m \in Nat, NEW b \in Bits(m), NEW h, AreValues(h, b, m), NEW k \in 0 .. m
    PROVE  h[k] \in Nat /\ h[k] < TwoTo[k]
<1> DEFINE T == {i \in Nat : i <= m => h[i] < TwoTo[i]}
<1>1. 0 \in T
  BY PowersOfTwo DEF AreValues
<1>2. \A i \in Nat : i \in T => i + 1 \in T
  <2> SUFFICES ASSUME NEW i \in Nat, i \in T, i + 1 <= m PROVE h[i + 1] < TwoTo[i + 1]
    OBVIOUS
  <2>1. /\ i + 1 \in 1 .. m /\ (i + 1) - 1 = i /\ i <= m /\ i \in 0 .. m
    OBVIOUS
  <2>2. h[i + 1] = h[i] + (b[i + 1] * TwoTo[i]) /\ h[i] \in Nat
    BY <2>1 DEF AreValues
  <2>3. /\ TwoTo[i + 1] = 2 * TwoTo[i] /\ TwoTo[i] \in Nat
        /\ b[i + 1] \in {0, 1} /\ h[i] < TwoTo[i]
    BY <2>1, PowersOfTwo DEF Bits
  <2>4. b[i + 1] * TwoTo[i] <= TwoTo[i] /\ b[i + 1] * TwoTo[i] \in Nat
    BY <2>3
  <2> QED  BY <2>2, <2>3, <2>4
<1>3. Nat \subseteq T
  <2> HIDE DEF T
  <2> QED  BY <1>1, <1>2, Induct
<1> QED  BY <1>3 DEF AreValues

\* The rest modulo p of a number with rest r is r, if r is below p.
LEMMA SmallRest ==
    ASSUME NEW p \in Nat, p > 1, NEW r \in 0 .. p - 1, NEW q \in Int, NEW x \in Int,
           x = r + p * q
    PROVE  x % p = r
<1>1. x % p = r % p
  <2>1. r \in Int
    OBVIOUS
  <2> QED  BY <2>1, Congruent
<1>2. r % p = r
  <2>1. r = p * (r \div p) + (r % p) /\ r \div p \in Int /\ r % p \in 0 .. p - 1
    BY Divided
  <2> DEFINE d == r \div p
             s == r % p
  <2> HIDE DEF d, s
  <2>2. r = p * d + s /\ d \in Int /\ s \in 0 .. p - 1
    BY <2>1 DEF d, s
  <2>3. d < 1
    BY <2>2
  <2>4. d > -1
    BY <2>2
  <2>5. d = 0
    BY <2>2, <2>3, <2>4
  <2> QED  BY <2>2, <2>5 DEF s
<1> QED  BY <1>1, <1>2

\* The bits of a number make the number.
LEMMA BitsMake ==
    ASSUME NEW c \in Nat, NEW m \in Nat, NEW b \in Bits(m),
           \A i \in 1 .. m : b[i] = Bit(c, i - 1),
           NEW h, AreValues(h, b, m)
    PROVE  \A k \in 0 .. m : \E u \in Nat : c = h[k] + TwoTo[k] * u
<1> DEFINE T == {i \in Nat : i <= m => c = h[i] + TwoTo[i] * (c \div TwoTo[i])}
<1>1. 0 \in T
  <2>1. TwoTo[0] = 1 /\ h[0] = 0 /\ c \div 1 = c /\ 0 + 1 * c = c
    BY PowersOfTwo DEF AreValues
  <2> QED  BY <2>1
<1>2. \A i \in Nat : i \in T => i + 1 \in T
  <2> SUFFICES ASSUME NEW i \in Nat, i \in T, i + 1 <= m
               PROVE  c = h[i + 1] + TwoTo[i + 1] * (c \div TwoTo[i + 1])
    OBVIOUS
  <2> DEFINE p == TwoTo[i]
             P == TwoTo[i + 1]
             q == c \div p
             u == q \div 2
             v == q % 2
             w == c \div P
             y == c % P
  <2>1. /\ i + 1 \in 1 .. m /\ (i + 1) - 1 = i /\ i <= m /\ i \in 0 .. m /\ i + 1 \in 0 .. m
    OBVIOUS
  <2>2. h[i + 1] = h[i] + (b[i + 1] * p) /\ h[i] \in Nat /\ h[i + 1] \in Nat
    BY <2>1 DEF AreValues
  <2>3. p \in Nat /\ p > 0 /\ P = 2 * p
    BY PowersOfTwo
  <2>4. b[i + 1] = v
    BY <2>1 DEF Bit
  <2>5. c = h[i] + p * q
    BY <2>1
  <2>6. h[i] < p /\ h[i + 1] < P
    BY <2>1, ValuesBounded
  <2> HIDE DEF p, P
  <2>7. q \in Nat /\ u \in Nat /\ v \in {0, 1} /\ q = 2 * u + v
    <3>1. \A d \in Nat : d > 0 => c \div d \in Nat
      OBVIOUS
    <3>2. q \in Nat
      BY <2>3, <3>1
    <3> HIDE DEF q
    <3>3. \A x \in Nat : x = 2 * (x \div 2) + (x % 2) /\ x \div 2 \in Nat /\ x % 2 \in {0, 1}
      OBVIOUS
    <3> QED  BY <3>2, <3>3
  <2>8. c = P * w + y /\ w \in Int /\ y \in 0 .. P - 1
    <3>1. P \in Nat /\ P > 1 /\ c \in Int
      BY <2>3
    <3> HIDE DEF q, u, v
    <3> QED  BY <3>1, Divided
  <2> HIDE DEF q, u, v, w, y
  <2>9. p * q = P * u + v * p
    BY <2>3, <2>7
  <2>10. c = h[i + 1] + P * u
    BY <2>2, <2>3, <2>4, <2>5, <2>7, <2>9
  <2>11. P * (w - u) = h[i + 1] - y
    BY <2>3, <2>7, <2>8, <2>2, <2>10
  <2>12. h[i + 1] - y < P /\ h[i + 1] - y > - P /\ w - u \in Int /\ P \in Nat
    BY <2>2, <2>3, <2>6, <2>7, <2>8
  <2> DEFINE z == w - u
  <2> HIDE DEF z
  <2>13. z \in Int /\ P * z < P /\ P * z > - P
    BY <2>11, <2>12 DEF z
  <2>14. z < 1
    BY <2>3, <2>13
  <2>15. z > -1
    BY <2>3, <2>13
  <2>16. w = u
    BY <2>7, <2>8, <2>13, <2>14, <2>15 DEF z
  <2> QED  BY <2>10, <2>16 DEF w, P
<1>3. Nat \subseteq T
  <2> HIDE DEF T
  <2> QED  BY <1>1, <1>2, Induct
<1>4. \A k \in 0 .. m : c \div TwoTo[k] \in Nat
  <2> SUFFICES ASSUME NEW k \in 0 .. m PROVE c \div TwoTo[k] \in Nat
    OBVIOUS
  <2>1. TwoTo[k] \in Nat /\ TwoTo[k] > 0
    BY PowersOfTwo
  <2> QED  BY <2>1
<1> QED  BY <1>3, <1>4
\* The first bits make the rest modulo a power of two.
LEMMA FirstBits ==
    ASSUME NEW m \in Nat, NEW b \in Bits(m), NEW h, AreValues(h, b, m), NEW l \in 0 .. m
    PROVE  \E u \in Nat : h[m] = h[l] + TwoTo[l] * u
<1> DEFINE T == {j \in Nat : l + j <= m => \E u \in Nat : h[l + j] = h[l] + TwoTo[l] * u}
<1>0. h[l] \in Nat /\ TwoTo[l] \in Nat
  BY ValuesBounded, PowersOfTwo
<1>1. 0 \in T
  BY <1>0
<1>2. \A j \in Nat : j \in T => j + 1 \in T
  <2> SUFFICES ASSUME NEW j \in Nat, j \in T, l + (j + 1) <= m
               PROVE  \E u \in Nat : h[l + (j + 1)] = h[l] + TwoTo[l] * u
    OBVIOUS
  <2>1. /\ l + (j + 1) \in 1 .. m /\ (l + (j + 1)) - 1 = l + j /\ l + j <= m
        /\ l + j \in 0 .. m
    OBVIOUS
  <2>2. PICK u \in Nat : h[l + j] = h[l] + TwoTo[l] * u
    BY <2>1
  <2> DEFINE x == b[l + (j + 1)]
             a == TwoTo[l]
             d == TwoTo[j]
  <2>3. x \in Nat /\ a \in Nat /\ d \in Nat /\ TwoTo[l + j] = a * d
    <3>1. l \in Nat /\ x \in {0, 1}
      BY <2>1 DEF Bits
    <3>2. a \in Nat /\ d \in Nat
      BY <3>1, PowersOfTwo
    <3>3. TwoTo[l + j] = TwoTo[l] * TwoTo[j]
      BY <3>1, PowersMultiply
    <3> QED  BY <3>1, <3>2, <3>3
  <2>4. h[l + (j + 1)] = h[l + j] + (x * (a * d))
    BY <2>1, <2>3 DEF AreValues
  <2> HIDE DEF x, a, d
  <2>5. /\ x * (a * d) = a * (x * d) /\ u + x * d \in Nat
        /\ a * (u + x * d) = a * u + a * (x * d)
    BY <2>3
  <2>6. h[l + (j + 1)] = h[l] + a * (u + x * d)
    BY <1>0, <2>2, <2>3, <2>4, <2>5 DEF a
  <2> QED  BY <2>5, <2>6 DEF a
<1>3. Nat \subseteq T
  <2> HIDE DEF T
  <2> QED  BY <1>1, <1>2, Induct
<1>4. m - l \in Nat /\ l + (m - l) = m
  OBVIOUS
<1>5. m - l \in T
  BY <1>3, <1>4
<1> HIDE DEF T
<1>6. l + (m - l) <= m => \E u \in Nat : h[l + (m - l)] = h[l] + TwoTo[l] * u
  BY <1>5 DEF T
<1> QED  BY <1>4, <1>6

\* Of two numbers, the one is smaller that has a 0 at the highest bit in which they differ.
LEMMA FirstDifference ==
    ASSUME NEW m \in Nat, NEW b \in Bits(m), NEW c \in Bits(m),
           NEW g, AreValues(g, b, m), NEW h, AreValues(h, c, m)
    PROVE  g[m] < h[m] <=> \E i \in 1 .. m : /\ b[i] = 0 /\ c[i] = 1
                                             /\ \A j \in i + 1 .. m : b[j] = c[j]
<1> DEFINE Differ(k) == \E i \in 1 .. k : /\ b[i] = 0 /\ c[i] = 1
                                          /\ \A j \in i + 1 .. k : b[j] = c[j]
           T == {k \in Nat : k <= m => (g[k] < h[k] <=> Differ(k))}
<1>1. 0 \in T
  BY DEF AreValues
<1>2. \A k \in Nat : k \in T => k + 1 \in T
  <2> SUFFICES ASSUME NEW k \in Nat, k \in T, k + 1 <= m
               PROVE  g[k + 1] < h[k + 1] <=> Differ(k + 1)
    OBVIOUS
  <2> DEFINE p == TwoTo[k]
  <2>1. k + 1 \in 1 .. m /\ (k + 1) - 1 = k /\ k <= m /\ k \in 0 .. m
    OBVIOUS
  <2>2. g[k] < h[k] <=> Differ(k)
    BY <2>1
  <2>3. /\ g[k + 1] = g[k] + (b[k + 1] * p) /\ h[k + 1] = h[k] + (c[k + 1] * p)
    BY <2>1 DEF AreValues
  <2>4. g[k] \in Nat /\ h[k] \in Nat /\ g[k] < p /\ h[k] < p /\ p \in Nat
    BY <2>1, ValuesBounded, PowersOfTwo
  <2>5. b[k + 1] \in {0, 1} /\ c[k + 1] \in {0, 1}
    BY <2>1 DEF Bits
  <2> HIDE DEF p
  <2>6. CASE b[k + 1] = c[k + 1]
    <3>1. g[k + 1] < h[k + 1] <=> g[k] < h[k]
      BY <2>3, <2>4, <2>6, <2>5
    <3>2. Differ(k) => Differ(k + 1)
      <4> SUFFICES ASSUME NEW i \in 1 .. k, b[i] = 0, c[i] = 1,
                          \A j \in i + 1 .. k : b[j] = c[j]
                   PROVE  Differ(k + 1)
        OBVIOUS
      <4>1. i \in 1 .. k + 1 /\ \A j \in i + 1 .. k + 1 : j \in i + 1 .. k \/ j = k + 1
        OBVIOUS
      <4> QED  BY <2>6, <4>1
    <3>3. Differ(k + 1) => Differ(k)
      <4> SUFFICES ASSUME NEW i \in 1 .. k + 1, b[i] = 0, c[i] = 1,
                          \A j \in i + 1 .. k + 1 : b[j] = c[j]
                   PROVE  Differ(k)
        OBVIOUS
      <4>1. i # k + 1
        BY <2>6
      <4>2. i \in 1 .. k /\ \A j \in i + 1 .. k : j \in i + 1 .. k + 1
        BY <4>1
      <4> QED  BY <4>2
    <3> QED  BY <2>2, <3>1, <3>2, <3>3
  <2>7. CASE b[k + 1] = 0 /\ c[k + 1] = 1
    BY <2>3, <2>4, <2>7
  <2>8. CASE b[k + 1] = 1 /\ c[k + 1] = 0
    <3>1. ~ (g[k + 1] < h[k + 1])
      BY <2>3, <2>4, <2>8
    <3>2. ASSUME NEW i \in 1 .. k + 1, b[i] = 0, c[i] = 1,
                 \A j \in i + 1 .. k + 1 : b[j] = c[j]
          PROVE  FALSE
      BY <2>8, <3>2
    <3> QED  BY <3>1, <3>2
  <2> QED  BY <2>5, <2>6, <2>7, <2>8
<1>3. Nat \subseteq T
  <2> HIDE DEF T
  <2> QED  BY <1>1, <1>2, Induct
<1> QED  BY <1>3

\* What FromBits computes is the number that the bits make.
LEMMA FromBitsIs ==
    ASSUME PrimeField, NEW m \in Nat, NEW b \in Bits(m), NEW h, AreValues(h, b, m)
    PROVE  FromBits(Field, b) = h[m] % Field
<1> DEFINE g == [i \in DOMAIN b |-> Mul(Field, ToField(Field, TwoTo[i - 1]), b[i])]
           term(i) == TwoTo[i - 1] * b[i]
<1>1. Field \in Nat /\ Field > 1 /\ F = 0 .. Field - 1
  BY Operations
<1>2. DOMAIN g = 1 .. m /\ DOMAIN b = 1 .. m /\ IsFiniteSet(1 .. m)
  BY FS_Interval DEF Bits
<1>3. ASSUME NEW i \in 1 .. m
      PROVE  term(i) \in Nat /\ g[i] = term(i) % Field /\ g[i] \in F
  <2>1. i - 1 \in Nat /\ b[i] \in Nat
    BY DEF Bits
  <2>2. TwoTo[i - 1] \in Nat
    BY <2>1, PowersOfTwo
  <2>3. g[i] = ((TwoTo[i - 1] % Field) * b[i]) % Field
    BY <1>2 DEF Mul, ToField, PrimeField
  <2>4. g[i] = term(i) % Field
    <3> DEFINE p == TwoTo[i - 1]
    <3> HIDE DEF p
    <3>1. p \in Int /\ b[i] \in Int
      BY <2>1, <2>2 DEF p
    <3>2. ((p % Field) * b[i]) % Field = (p * b[i]) % Field
      BY <1>1, <3>1, RestsSuffice
    <3> QED  BY <2>3, <3>2 DEF p
  <2>5. term(i) \in Nat
    BY <2>1, <2>2
  <2> HIDE DEF term
  <2>6. term(i) % Field \in 0 .. Field - 1
    <3>1. term(i) \in Int
      BY <2>5
    <3> QED  BY <1>1, <3>1, Divided
  <2> QED  BY <1>1, <2>4, <2>5, <2>6
<1>4. FromBits(Field, b) = FieldSum(Field, g)
  BY DEF FromBits
<1> HIDE DEF g
<1>5. FieldSum(Field, g) = SumOf(1 .. m, g)
  BY <1>2, <1>3, FieldSumIs
<1> DEFINE T == {k \in Nat : k <= m => SumOf(1 .. k, g) = h[k] % Field}
<1>6. 0 \in T
  <2>1. 1 .. 0 = {} /\ h[0] = 0 /\ IsFiniteSet({})
    BY FS_EmptySet DEF AreValues
  <2>2. SumOf({}, g) = 0
    BY <2>1, SumLaws
  <2>3. 0 % Field = 0
    BY <1>1
  <2> QED  BY <2>1, <2>2, <2>3
<1>7. \A k \in Nat : k \in T => k + 1 \in T
  <2> SUFFICES ASSUME NEW k \in Nat, k \in T, k + 1 <= m
               PROVE  SumOf(1 .. k + 1, g) = h[k + 1] % Field
    OBVIOUS
  <2>1. /\ k + 1 \in 1 .. m /\ k + 1 \in 1 .. k + 1 /\ (1 .. k + 1) \ {k + 1} = 1 .. k
        /\ k <= m /\ k \in 0 .. m /\ (k + 1) - 1 = k /\ \A i \in 1 .. k + 1 : i \in 1 .. m
    OBVIOUS
  <2>2. IsFiniteSet(1 .. k + 1)
    BY FS_Interval
  <2>3. \A i \in 1 .. k + 1 : g[i] \in F
    BY <1>3, <2>1
  <2>4. SumOf(1 .. k + 1, g) = g[k + 1] (+) SumOf((1 .. k + 1) \ {k + 1}, g)
    BY <2>1, <2>2, <2>3, SumLaws
  <2>5. SumOf(1 .. k, g) = h[k] % Field
    BY <2>1
  <2>6. g[k + 1] = term(k + 1) % Field /\ term(k + 1) \in Nat
    BY <1>3, <2>1
  <2>7. h[k + 1] = h[k] + (b[k + 1] * TwoTo[k]) /\ h[k] \in Nat
    BY <2>1 DEF AreValues
  <2>8. term(k + 1) = b[k + 1] * TwoTo[k]
    <3>0. b[k + 1] \in {0, 1}
      <4> HIDE DEF T, term
      <4> QED  BY <2>1 DEF Bits
    <3>1. b[k + 1] \in Nat /\ TwoTo[k] \in Nat
      <4> HIDE DEF T, term
      <4> QED  BY <3>0, PowersOfTwo
    <3>2. \A x, y \in Nat : x * y = y * x
      OBVIOUS
    <3>3. term(k + 1) = TwoTo[k] * b[k + 1]
      BY <2>1
    <3> HIDE DEF term
    <3> QED  BY <3>1, <3>2, <3>3
  <2> HIDE DEF term
  <2>9. SumOf(1 .. k + 1, g) = ((term(k + 1) % Field) + (h[k] % Field)) % Field
    BY <2>1, <2>4, <2>5, <2>6 DEF (+), Add, PrimeField
  <2>10. ((term(k + 1) % Field) + (h[k] % Field)) % Field = (term(k + 1) + h[k]) % Field
    <3>1. term(k + 1) \in Int /\ h[k] \in Int
      BY <2>6, <2>7
    <3>3. h[k] % Field \in Int
      <4> HIDE DEF T
      <4>1. h[k] % Field \in 0 .. Field - 1
        BY <1>1, <3>1, Divided
      <4> QED  BY <1>1, <4>1
    <3>2. ((term(k + 1) % Field) + (h[k] % Field)) % Field = (term(k + 1) + (h[k] % Field)) % Field
      BY <1>1, <3>1, <3>3, RestsSuffice
    <3> QED  BY <1>1, <3>1, <3>2, RestsSuffice
  <2> QED  BY <2>6, <2>7, <2>8, <2>9, <2>10
<1>8. Nat \subseteq T
  <2> HIDE DEF T
  <2> QED  BY <1>6, <1>7, Induct
<1> QED  BY <1>4, <1>5, <1>8

------------------------------------------------------------------------------
\* Comparison: the product of a queue.

\* What the loop of QueueProduct leaves of a queue in one round.
Multiplied(f, q) == Append(SubSeq(q, 3, Len(q)), Mul(f, q[1], q[2]))

Queues(f) == Seq(Elements(f)) \ {<<>>}

HasZero(q) == \E i \in 1 .. Len(q) : q[i] = 0

\* In a field a product is 0 iff a factor is.
LEMMA NoZeroDivisors ==
    ASSUME NEW f, IsField(f), NEW a \in Elements(f), NEW b \in Elements(f)
    PROVE  Mul(f, a, b) \in Elements(f) /\ (Mul(f, a, b) = 0 <=> a = 0 \/ b = 0)
<1> DEFINE e == Elements(f)
<1>1. /\ 0 \in e /\ 1 \in e
      /\ \A x, y \in e : Mul(f, x, y) \in e /\ Mul(f, x, y) = Mul(f, y, x)
      /\ \A x, y \in e : Sub(f, Add(f, x, y), y) = x /\ Add(f, x, y) = Add(f, y, x)
      /\ \A x, y, z \in e : Mul(f, Mul(f, x, y), z) = Mul(f, x, Mul(f, y, z))
      /\ \A x, y, z \in e : Mul(f, x, Add(f, y, z)) = Add(f, Mul(f, x, y), Mul(f, x, z))
      /\ \A x \in e : Add(f, x, 0) = x /\ Mul(f, x, 1) = x
      /\ \A x \in e : x # 0 => Inv(f, x) \in e /\ Mul(f, x, Inv(f, x)) = 1
  <2> HIDE DEF e
  <2>1. /\ {0, 1} \subseteq e
        /\ \A x, y \in e :
              /\ {Add(f, x, y), Sub(f, x, y), Mul(f, x, y)} \subseteq e
              /\ Add(f, x, y) = Add(f, y, x) /\ Mul(f, x, y) = Mul(f, y, x)
              /\ Sub(f, Add(f, x, y), y) = x /\ Add(f, Sub(f, x, y), y) = x
        /\ \A x, y, z \in e :
              /\ Add(f, Add(f, x, y), z) = Add(f, x, Add(f, y, z))
              /\ Mul(f, Mul(f, x, y), z) = Mul(f, x, Mul(f, y, z))
              /\ Mul(f, x, Add(f, y, z)) = Add(f, Mul(f, x, y), Mul(f, x, z))
        /\ \A x \in e :
              /\ Add(f, x, 0) = x /\ Mul(f, x, 1) = x /\ Neg(f, x) = Sub(f, 0, x)
              /\ x # 0 => Inv(f, x) \in e /\ Mul(f, x, Inv(f, x)) = 1
    BY DEF IsField, e
  <2>2. 0 \in e /\ 1 \in e
    BY <2>1
  <2>3. \A x, y \in e : Mul(f, x, y) \in e
    BY <2>1
  <2>4. \A x \in e : Add(f, x, 0) = x /\ Mul(f, x, 1) = x
    BY <2>1, Zenon
  <2>5. \A x \in e : x # 0 => Inv(f, x) \in e /\ Mul(f, x, Inv(f, x)) = 1
    BY <2>1, Zenon
  <2>6. \A x, y \in e : Sub(f, Add(f, x, y), y) = x /\ Add(f, x, y) = Add(f, y, x)
    BY <2>1, Zenon
  <2>7. \A x, y \in e : Mul(f, x, y) = Mul(f, y, x)
    BY <2>1, Zenon
  <2>8. ASSUME NEW x \in e, NEW y \in e, NEW z \in e
        PROVE  /\ Mul(f, Mul(f, x, y), z) = Mul(f, x, Mul(f, y, z))
               /\ Mul(f, x, Add(f, y, z)) = Add(f, Mul(f, x, y), Mul(f, x, z))
    BY <2>1
  <2>9. /\ \A x, y, z \in e : Mul(f, Mul(f, x, y), z) = Mul(f, x, Mul(f, y, z))
        /\ \A x, y, z \in e : Mul(f, x, Add(f, y, z)) = Add(f, Mul(f, x, y), Mul(f, x, z))
    BY <2>8
  <2> QED  BY <2>2, <2>3, <2>4, <2>5, <2>6, <2>7, <2>9, Zenon
<1> HIDE DEF e
<1>2. ASSUME NEW x \in e
      PROVE  Mul(f, x, 0) = 0 /\ Mul(f, 0, x) = 0
  <2> DEFINE o == Mul(f, x, 0)
  <2>1. o \in e /\ Add(f, 0, 0) = 0 /\ Mul(f, 0, x) = o
    BY <1>1
  <2>2. Add(f, o, o) = o
    BY <1>1, <2>1
  <2> HIDE DEF o
  <2>3. Sub(f, Add(f, o, o), o) = o /\ Sub(f, Add(f, 0, o), o) = 0
    BY <1>1, <2>1
  <2>4. Add(f, 0, o) = o
    BY <1>1, <2>1
  <2>5. o = 0
    BY <2>2, <2>3, <2>4
  <2> QED  BY <2>1, <2>5 DEF o
<1>3. a \in e /\ b \in e
  BY DEF e
<1>4. ASSUME Mul(f, a, b) = 0, a # 0
      PROVE  b = 0
  <2> DEFINE i == Inv(f, a)
  <2>1. i \in e /\ Mul(f, a, i) = 1
    BY <1>1, <1>3, <1>4
  <2> HIDE DEF i
  <2>2. Mul(f, i, a) = 1
    BY <1>1, <1>3, <2>1
  <2>3. Mul(f, Mul(f, i, a), b) = Mul(f, i, Mul(f, a, b))
    BY <1>1, <1>3, <2>1
  <2>4. Mul(f, 1, b) = b
    BY <1>1, <1>3
  <2>5. Mul(f, i, 0) = 0
    BY <1>2, <2>1
  <2> QED  BY <1>4, <2>2, <2>3, <2>4, <2>5
<1>5. Mul(f, a, b) \in e
  BY <1>1, <1>3
<1>6. a = 0 \/ b = 0 => Mul(f, a, b) = 0
  BY <1>2, <1>3
<1> QED  BY <1>4, <1>5, <1>6 DEF e

\* A round makes a shorter queue, that has a 0 iff the one before has.
LEMMA QueueShrinks ==
    ASSUME NEW f, IsField(f), NEW q \in Queues(f), Len(q) # 1
    PROVE  /\ Multiplied(f, q) \in Queues(f)
           /\ Len(Multiplied(f, q)) = Len(q) - 1
           /\ HasZero(Multiplied(f, q)) <=> HasZero(q)
<1> DEFINE e == Elements(f)
           len == Len(q)
           s == SubSeq(q, 3, len)
           x == Mul(f, q[1], q[2])
           r == Append(s, x)
<1>1. q \in Seq(e) /\ len \in Nat /\ len >= 2 /\ \A i \in 1 .. len : q[i] \in e
  <2> HIDE DEF e
  <2>1. q \in Seq(e) /\ q # <<>>
    BY DEF Queues, e
  <2>2. len \in Nat /\ len # 0 /\ len # 1
    BY <2>1
  <2>3. \A i \in 1 .. len : q[i] \in e
    BY <2>1
  <2> HIDE DEF len
  <2>4. len >= 2
    BY <2>2
  <2> QED  BY <2>1, <2>2, <2>3, <2>4
<1>2. q[1] \in e /\ q[2] \in e
  BY <1>1
<1>3. x \in e /\ (x = 0 <=> q[1] = 0 \/ q[2] = 0)
  BY <1>2, NoZeroDivisors
<1>4. s \in Seq(e) /\ Len(s) = len - 2 /\ \A i \in 1 .. len - 2 : s[i] = q[i + 2]
  <2> HIDE DEF e
  <2>1. \A i \in 3 .. len : q[i] \in e
    BY <1>1
  <2>2. /\ s \in Seq(e) /\ Len(s) = IF 3 <= len THEN len - 3 + 1 ELSE 0
        /\ \A i \in 1 .. len - 3 + 1 : s[i] = q[3 + i - 1]
    <3> HIDE DEF len
    <3> QED  BY <1>1, <2>1, SubSeqProperties
  <2> HIDE DEF s, len
  <2>3. /\ Len(s) = len - 2 /\ len - 3 + 1 = len - 2
        /\ \A i \in 1 .. len - 2 : 3 + i - 1 = i + 2
    BY <1>1, <2>2
  <2>4. \A i \in 1 .. len - 2 : s[i] = q[i + 2]
    BY <2>2, <2>3
  <2> QED  BY <2>2, <2>3, <2>4
<1> HIDE DEF e, len, s, x
<1>5. r \in Seq(e) /\ Len(r) = len - 1 /\ r[len - 1] = x /\ \A i \in 1 .. len - 2 : r[i] = q[i + 2]
  BY <1>3, <1>4, <1>1
<1> HIDE DEF r
<1>6. HasZero(r) <=> HasZero(q)
  <2>1. ASSUME NEW i \in 1 .. len - 1, r[i] = 0
        PROVE  \E j \in 1 .. len : q[j] = 0
    <3>1. CASE i = len - 1
      BY <1>3, <1>5, <2>1, <3>1, <1>1
    <3>2. CASE i # len - 1
      BY <1>1, <3>2, <1>5, <2>1
    <3> QED  BY <3>1, <3>2
  <2>2. ASSUME NEW j \in 1 .. len, q[j] = 0
        PROVE  \E i \in 1 .. len - 1 : r[i] = 0
    <3>1. CASE j \in {1, 2}
      BY <1>3, <2>2, <3>1, <1>1, <1>5
    <3>2. CASE j \notin {1, 2}
      <4>1. j - 2 \in 1 .. len - 2 /\ j - 2 \in 1 .. len - 1 /\ (j - 2) + 2 = j
        BY <1>1, <3>2
      <4> QED  BY <1>5, <2>2, <4>1
    <3> QED  BY <3>1, <3>2
  <2>3. Len(r) = len - 1 /\ Len(q) = len
    BY <1>5 DEF len
  <2> QED  BY <2>1, <2>2, <2>3 DEF HasZero
<1>7. r # <<>>
  <2>1. Len(r) # 0
    BY <1>1, <1>5
  <2> QED  BY <2>1
<1>8. Multiplied(f, q) = r
  BY DEF Multiplied, r, s, len, x
<1> QED  BY <1>5, <1>6, <1>7, <1>8 DEF Queues, len, e

\* QueueProduct is the product of a queue: it is 0 iff one of the factors is.
LEMMA ProductIsZero ==
    ASSUME NEW f, IsField(f), NEW v \in Queues(f)
    PROVE  QueueProduct(f, v) \in Elements(f) /\ (QueueProduct(f, v) = 0 <=> HasZero(v))
<1> DEFINE D == Queues(f)
           Is(h) == h = [q \in D |-> IF Len(q) = 1 THEN q[1] ELSE h[Multiplied(f, q)]]
           size == [q \in D |-> Len(q) - 1]
           pred == [q \in D |-> IF Len(q) = 1 THEN q ELSE Multiplied(f, q)]
           base == [q \in D |-> q[1]]
           step == [y \in D \X Elements(f) |-> y[2]]
<1>1. \A q \in D : /\ Len(q) \in Nat /\ Len(q) > 0 /\ q[1] \in Elements(f)
                   /\ \A i \in 1 .. Len(q) : q[i] \in Elements(f)
  BY DEF Queues
<1>2. \A q \in D : Len(q) # 1 =>
         /\ Multiplied(f, q) \in D /\ Len(Multiplied(f, q)) = Len(q) - 1
         /\ HasZero(Multiplied(f, q)) <=> HasZero(q)
  BY QueueShrinks
<1> HIDE DEF D
<1>3. Descends(D, size, pred)
  BY <1>1, <1>2 DEF Descends
<1>4. base \in [D -> Elements(f)] /\ step \in [D \X Elements(f) -> Elements(f)]
  BY <1>1
<1>5. PICK h \in [D -> Elements(f)] : Solves(h, D, size, pred, base, step)
  <2> HIDE DEF size, pred, base, step
  <2> QED  BY <1>3, <1>4, Recursion
<1>6. ASSUME NEW q \in D
      PROVE  h[q] = IF Len(q) = 1 THEN q[1] ELSE h[Multiplied(f, q)]
  <2>1. h[q] = IF size[q] = 0 THEN base[q] ELSE step[<<q, h[pred[q]]>>]
    BY <1>5 DEF Solves
  <2>2. size[q] = 0 <=> Len(q) = 1
    BY <1>1
  <2>3. CASE Len(q) = 1
    BY <2>1, <2>2, <2>3
  <2>4. CASE Len(q) # 1
    <3>1. pred[q] = Multiplied(f, q) /\ Multiplied(f, q) \in D
      BY <1>2, <2>4
    <3>2. h[pred[q]] \in Elements(f)
      BY <3>1, <1>5
    <3> HIDE DEF pred
    <3>3. step[<<q, h[pred[q]]>>] = h[pred[q]]
      BY <3>2
    <3> QED  BY <2>1, <2>2, <2>4, <3>1, <3>3
  <2> QED  BY <2>3, <2>4
<1>7. Is(h)
  BY <1>6
<1> DEFINE product == CHOOSE g : Is(g)
<1>8. QueueProduct(f, v) = product[v]
  BY DEF QueueProduct, Multiplied, D, Queues
<1>9. Is(product)
  <2> HIDE DEF Is
  <2> QED  BY <1>7
<1>10. \A q \in D : product[q] = IF Len(q) = 1 THEN q[1] ELSE product[Multiplied(f, q)]
  <2> HIDE DEF product
  <2> QED  BY <1>9
<1> HIDE DEF product
<1> DEFINE T == {m \in Nat : \A q \in D : Len(q) = m + 1 =>
                     product[q] \in Elements(f) /\ (product[q] = 0 <=> HasZero(q))}
<1>11. 0 \in T
  <2> SUFFICES ASSUME NEW q \in D, Len(q) = 1
               PROVE  product[q] \in Elements(f) /\ (product[q] = 0 <=> HasZero(q))
    OBVIOUS
  <2>1. product[q] = q[1] /\ q[1] \in Elements(f)
    BY <1>1, <1>10
  <2>2. HasZero(q) <=> q[1] = 0
    BY DEF HasZero
  <2> QED  BY <2>1, <2>2
<1>12. \A m \in Nat : m \in T => m + 1 \in T
  <2> SUFFICES ASSUME NEW m \in Nat, m \in T, NEW q \in D, Len(q) = (m + 1) + 1
               PROVE  product[q] \in Elements(f) /\ (product[q] = 0 <=> HasZero(q))
    OBVIOUS
  <2> DEFINE r == Multiplied(f, q)
  <2>1. Len(q) # 1
    OBVIOUS
  <2>2. r \in D /\ Len(r) = Len(q) - 1 /\ (HasZero(r) <=> HasZero(q))
    <3> HIDE DEF T
    <3> QED  BY <1>2, <2>1, Zenon
  <2> HIDE DEF r
  <2>4. Len(r) = m + 1
    BY <2>2
  <2>3. product[q] = product[r]
    BY <1>10, <2>1 DEF r
  <2> QED  BY <2>2, <2>3, <2>4
<1>13. Nat \subseteq T
  <2> HIDE DEF T
  <2> QED  BY <1>11, <1>12, Induct
<1>14. v \in D /\ Len(v) - 1 \in Nat /\ Len(v) = (Len(v) - 1) + 1
  BY <1>1 DEF D
<1>15. Len(v) - 1 \in T
  BY <1>13, <1>14
<1> QED  BY <1>8, <1>14, <1>15

------------------------------------------------------------------------------
\* Comparison: what is computed in the small field.

\* A number that is small enough is its own rest.
LEMMA OwnRest ==
    ASSUME NEW p \in Nat, p > 1, NEW r \in 0 .. p - 1
    PROVE  r % p = r
<1>1. r \in Int /\ r = r + p * 0
  OBVIOUS
<1> QED  BY <1>1, SmallRest

\* Of the numbers around 0, only 0 has the rest 0.
LEMMA ZeroRest ==
    ASSUME NEW p \in Nat, p > 1, NEW x \in Int, - p < x, x < p
    PROVE  x % p = 0 <=> x = 0
<1>1. CASE x >= 0
  BY <1>1, OwnRest
<1>2. CASE x < 0
  BY <1>2, SmallRest
<1> QED  BY <1>1, <1>2

\* XorBits is the exclusive-or, as a number.
LEMMA XorIs ==
    ASSUME NEW p \in Nat, p > 2, p # GF256, NEW a \in {0, 1}, NEW b \in {0, 1}
    PROVE  XorBits(p, a, b) = IF a = b THEN 0 ELSE 1
<1>1. 0 % p = 0 /\ 1 % p = 1 /\ 2 % p = 2
  BY OwnRest
<1>2. XorBits(p, a, b) = (((a + b) % p) - ((2 * ((a * b) % p)) % p)) % p
  <2>1. XorBits(p, a, b) = Sub(p, Add(p, a, b), Mul(p, 2, Mul(p, a, b)))
    BY DEF XorBits
  <2>2. \A x, y : /\ Add(p, x, y) = (x + y) % p /\ Sub(p, x, y) = (x - y) % p
                 /\ Mul(p, x, y) = (x * y) % p
    BY DEF Add, Sub, Mul
  <2> QED  BY <2>1, <2>2, Zenon
<1>3. CASE a = 1 /\ b = 1
  BY <1>3, <1>1, <1>2
<1>4. CASE a = 0 /\ b = 0
  BY <1>4, <1>1, <1>2
<1>5. CASE a # b
  BY <1>5, <1>1, <1>2
<1> QED  BY <1>3, <1>4, <1>5

\* h counts, from each bit up, the higher bits in which b and c differ.
AreCounts(h, f, len, b, c) ==
    h = [i \in 1 .. len |->
            IF i = len THEN 0 ELSE Add(f, h[i + 1], XorBits(f, b[i + 1], c[i + 1]))]

LEMMA CountsExist ==
    ASSUME NEW f \in Nat, f > 2, f # GF256,
           NEW len \in Nat, NEW b \in Bits(len), NEW c \in Bits(len)
    PROVE  \E h : AreCounts(h, f, len, b, c)
<1> DEFINE D == 1 .. len
           x(i) == XorBits(f, b[i + 1], c[i + 1])
           size == [i \in D |-> len - i]
           pred == [i \in D |-> IF i = len THEN i ELSE i + 1]
           base == [i \in D |-> 0]
           step == [y \in D \X Nat |-> IF y[1] = len THEN 0 ELSE Add(f, y[2], x(y[1]))]
<1>1. Descends(D, size, pred)
  BY DEF Descends
<1>2. base \in [D -> Nat]
  OBVIOUS
<1>3. step \in [D \X Nat -> Nat]
  <2> SUFFICES ASSUME NEW i \in D, NEW v \in Nat, i # len
               PROVE  Add(f, v, x(i)) \in Nat
    OBVIOUS
  <2>1. i + 1 \in 1 .. len
    OBVIOUS
  <2>2. b[i + 1] \in {0, 1} /\ c[i + 1] \in {0, 1}
    BY <2>1 DEF Bits
  <2>3. x(i) \in {0, 1}
    BY <2>2, XorIs
  <2> HIDE DEF x
  <2>4. v + x(i) \in Int /\ f > 1
    BY <2>3
  <2>5. (v + x(i)) % f \in 0 .. f - 1
    BY <2>4, Divided
  <2>6. Add(f, v, x(i)) = (v + x(i)) % f
    BY DEF Add
  <2> QED  BY <2>5, <2>6
<1>4. PICK h \in [D -> Nat] : Solves(h, D, size, pred, base, step)
  <2> HIDE DEF D, size, pred, base, step
  <2> QED  BY <1>1, <1>2, <1>3, Recursion
<1>5. ASSUME NEW i \in D
      PROVE  h[i] = IF i = len THEN 0 ELSE Add(f, h[i + 1], x(i))
  <2> HIDE DEF x
  <2>1. h[i] = IF size[i] = 0 THEN base[i] ELSE step[<<i, h[pred[i]]>>]
    BY <1>4 DEF Solves
  <2>2. CASE i = len
    BY <2>1, <2>2
  <2>3. CASE i # len
    BY <2>3, <2>1
  <2> QED  BY <2>2, <2>3
<1> QED  BY <1>5 DEF AreCounts

\* A count is 0 iff there is no such bit.
LEMMA CountsAre ==
    ASSUME NEW f \in Nat, f > 2, f # GF256,
           NEW len \in Nat, len < f, NEW b \in Bits(len), NEW c \in Bits(len),
           NEW h, AreCounts(h, f, len, b, c), NEW i \in 1 .. len
    PROVE  /\ h[i] \in 0 .. len - i
           /\ h[i] = 0 <=> \A j \in i + 1 .. len : b[j] = c[j]
<1> DEFINE Same(k) == \A j \in k + 1 .. len : b[j] = c[j]
           Holds(k) == h[k] \in 0 .. len - k /\ (h[k] = 0 <=> Same(k))
           T == {m \in Nat : m < len => Holds(len - m)}
<1>0. \A k \in 1 .. len :
         h[k] = IF k = len THEN 0 ELSE Add(f, h[k + 1], XorBits(f, b[k + 1], c[k + 1]))
  BY DEF AreCounts
<1>1. 0 \in T
  <2> SUFFICES ASSUME 0 < len PROVE Holds(len - 0)
    OBVIOUS
  <2>1. len - 0 = len /\ len \in 1 .. len /\ len + 1 .. len = {} /\ len - len = 0
    OBVIOUS
  <2>2. h[len] = 0
    BY <1>0, <2>1
  <2> QED  BY <2>1, <2>2
<1>2. \A m \in Nat : m \in T => m + 1 \in T
  <2> SUFFICES ASSUME NEW m \in Nat, m \in T, m + 1 < len
               PROVE  Holds(len - (m + 1))
    OBVIOUS
  <2> DEFINE k == len - (m + 1)
             u == h[k + 1]
             x == XorBits(f, b[k + 1], c[k + 1])
  <2>1. k \in 1 .. len /\ k # len /\ k + 1 \in 1 .. len /\ len - m = k + 1 /\ m < len
    OBVIOUS
  <2>2. Holds(len - m)
    <3> HIDE DEF Holds
    <3> QED  BY <2>1
  <2>3. Holds(k + 1)
    <3> HIDE DEF Holds, k
    <3> QED  BY <2>1, <2>2
  <2> HIDE DEF k
  <2>4. b[k + 1] \in {0, 1} /\ c[k + 1] \in {0, 1}
    BY <2>1 DEF Bits
  <2>5. x = IF b[k + 1] = c[k + 1] THEN 0 ELSE 1
    BY <2>4, XorIs
  <2>6. h[k] = (u + x) % f
    BY <1>0, <2>1 DEF Add
  <2>7. u \in 0 .. len - (k + 1) /\ (u = 0 <=> Same(k + 1))
    BY <2>3
  <2>8. Same(k) <=> Same(k + 1) /\ b[k + 1] = c[k + 1]
    BY <2>1
  <2> HIDE DEF u, x, Same
  <2>9. u + x \in 0 .. f - 1 /\ u + x \in 0 .. len - k
    BY <2>1, <2>5, <2>7
  <2>10. h[k] = u + x
    BY <2>6, <2>9, OwnRest
  <2>11. u + x = 0 <=> u = 0 /\ b[k + 1] = c[k + 1]
    BY <2>1, <2>5, <2>7
  <2>12. Holds(k)
    BY <2>7, <2>8, <2>9, <2>10, <2>11
  <2> QED  BY <2>12 DEF k
<1>3. Nat \subseteq T
  <2> HIDE DEF T
  <2> QED  BY <1>1, <1>2, Induct
<1>4. len - i \in Nat /\ len - i < len /\ len - (len - i) = i
  OBVIOUS
<1>5. len - i \in T
  BY <1>3, <1>4
<1>6. Holds(len - (len - i))
  <2> HIDE DEF Holds
  <2> QED  BY <1>4, <1>5
<1>7. Holds(i)
  <2> HIDE DEF Holds
  <2> QED  BY <1>4, <1>6
<1> QED  BY <1>7

\* What is computed for a bit: it is 0 where bits that agree so far differ, in the
\* sense that s tells.
LEMMA EntryIsZero ==
    ASSUME NEW f \in Nat, f # GF256, NEW len \in Nat, f > 3 + 3 * len,
           NEW s \in {0, 1}, NEW x \in {0, 1}, NEW y \in {0, 1}, NEW u \in 0 .. len - 1
    PROVE  LET e == Add(f, Add(f, Sub(f, 1, Mul(f, 2, s)), Sub(f, x, y)), Mul(f, 3, u))
           IN  /\ e \in 0 .. f - 1
               /\ e = 0 <=> u = 0 /\ (IF s = 0 THEN x = 0 /\ y = 1 ELSE x = 1 /\ y = 0)
<1> DEFINE e == Add(f, Add(f, Sub(f, 1, Mul(f, 2, s)), Sub(f, x, y)), Mul(f, 3, u))
           a == 1 - 2 * s
           d == x - y
           v == (a + d) + 3 * u
<1>1. f > 1 /\ a \in Int /\ d \in Int /\ 3 * u \in Int /\ 2 * s \in Int /\ v \in Int
  OBVIOUS
<1>2. e = (((((1 - ((2 * s) % f)) % f) + (d % f)) % f) + ((3 * u) % f)) % f
  BY DEF Add, Sub, Mul
<1>3. (1 - ((2 * s) % f)) % f = a % f
  <2>1. 2 * s \in 0 .. f - 1
    <3>1. s = 0 \/ s = 1
      OBVIOUS
    <3> QED  BY <3>1
  <2>2. (2 * s) % f = 2 * s
    BY <1>1, <2>1, OwnRest
  <2> QED  BY <2>2
<1>4. e = v % f
  <2> HIDE DEF a, d, v, e
  <2>0. a % f \in Int /\ d % f \in Int /\ (3 * u) % f \in Int
    BY <1>1, Divided
  <2>1. ((a % f) + (d % f)) % f = (a + d) % f
    BY <1>1, <2>0, RestsSuffice
  <2> DEFINE w == a + d
             z == 3 * u
  <2>2. w \in Int /\ z \in Int /\ z % f \in Int
    BY <1>1, <2>0
  <2> HIDE DEF w, z
  <2>3. ((w % f) + (z % f)) % f = (w + z) % f
    BY <1>1, <2>2, RestsSuffice
  <2> QED  BY <1>2, <1>3, <2>1, <2>3 DEF w, z, v
<1>5. - f < v /\ v < f
  <2>1. a \in {-1, 1} /\ d \in {-1, 0, 1}
    OBVIOUS
  <2> HIDE DEF a, d
  <2> QED  BY <2>1
<1>6. e = 0 <=> v = 0
  <2> HIDE DEF v, e
  <2> QED  BY <1>1, <1>4, <1>5, ZeroRest
<1>7. v = 0 <=> u = 0 /\ (IF s = 0 THEN x = 0 /\ y = 1 ELSE x = 1 /\ y = 0)
  OBVIOUS
<1>8. e \in 0 .. f - 1
  <2> HIDE DEF v, e
  <2> QED  BY <1>1, <1>4, Divided
<1> HIDE DEF e, v
<1>9. /\ e \in 0 .. f - 1
      /\ e = 0 <=> u = 0 /\ (IF s = 0 THEN x = 0 /\ y = 1 ELSE x = 1 /\ y = 0)
  BY <1>6, <1>7, <1>8
<1> QED  BY <1>9 DEF e

------------------------------------------------------------------------------
\* Comparison: greater_than_equal of ComparisonToft07Mixin.

\* What is multiplied in the small field.
Entries(f, len, s, b, c, h) ==
    [i \in 1 .. len |-> Add(f, Add(f, Sub(f, 1, Mul(f, 2, s)), Sub(f, b[i], c[i])),
                            Mul(f, 3, h[i]))]

\* The masked product is 0 iff the one number is smaller or the mask is 0; s tells
\* which number.
LEMMA MaskedProductIs ==
    ASSUME NEW f \in Nat, IsField(f), f # GF256,
           NEW len \in Nat, f > 3 + 3 * len, NEW s \in {0, 1},
           NEW b \in Bits(len), NEW c \in Bits(len), NEW h, AreCounts(h, f, len, b, c),
           NEW vb, AreValues(vb, b, len), NEW vc, AreValues(vc, c, len),
           NEW mask \in 0 .. f - 1
    PROVE  QueueProduct(f, Append(Entries(f, len, s, b, c, h), mask)) = 0
              <=> mask = 0 \/ IF s = 0 THEN vb[len] < vc[len] ELSE vc[len] < vb[len]
<1> DEFINE E == Entries(f, len, s, b, c, h)
           q == Append(E, mask)
           differ(i) == IF s = 0 THEN b[i] = 0 /\ c[i] = 1 ELSE b[i] = 1 /\ c[i] = 0
           same(i) == \A j \in i + 1 .. len : b[j] = c[j]
<1>1. Elements(f) = 0 .. f - 1
  BY DEF Elements
<1>2. ASSUME NEW i \in 1 .. len
      PROVE  E[i] \in Elements(f) /\ (E[i] = 0 <=> differ(i) /\ same(i))
  <2> DEFINE u == h[i]
             x == b[i]
             y == c[i]
             e == Add(f, Add(f, Sub(f, 1, Mul(f, 2, s)), Sub(f, x, y)), Mul(f, 3, u))
  <2>1. f > 2 /\ len < f
    OBVIOUS
  <2>2. u \in 0 .. len - i /\ (u = 0 <=> same(i))
    <3> HIDE DEF same
    <3>1. u \in 0 .. len - i /\ (u = 0 <=> \A j \in i + 1 .. len : b[j] = c[j])
      BY <2>1, CountsAre
    <3> QED  BY <3>1 DEF same
  <2>3. u \in 0 .. len - 1
    <3> HIDE DEF u
    <3> QED  BY <2>2
  <2>4. x \in {0, 1} /\ y \in {0, 1}
    BY DEF Bits
  <2>5. E[i] = e
    BY DEF Entries
  <2> HIDE DEF u, x, y
  <2>6. /\ e \in 0 .. f - 1
        /\ e = 0 <=> u = 0 /\ (IF s = 0 THEN x = 0 /\ y = 1 ELSE x = 1 /\ y = 0)
    BY <2>3, <2>4, EntryIsZero
  <2> HIDE DEF e, E, same
  <2> QED  BY <1>1, <2>2, <2>5, <2>6 DEF x, y
<1> HIDE DEF differ, same
<1>3. E \in Seq(Elements(f)) /\ Len(E) = len
  <2>1. DOMAIN E = 1 .. len /\ E = [i \in 1 .. len |-> E[i]]
    BY DEF Entries
  <2> HIDE DEF E
  <2> QED  BY <1>2, <2>1
<1> HIDE DEF E
<1>4. mask \in Elements(f)
  BY <1>1
<1>5. q \in Seq(Elements(f)) /\ Len(q) = len + 1 /\ q[len + 1] = mask
      /\ \A i \in 1 .. len : q[i] = E[i]
  BY <1>3, <1>4
<1>6. q # <<>>
  <2> HIDE DEF q
  <2>1. Len(q) # 0
    BY <1>5
  <2> QED  BY <2>1
<1> HIDE DEF q
<1>7. QueueProduct(f, q) = 0 <=> HasZero(q)
  BY <1>5, <1>6, ProductIsZero DEF Queues
<1>8. HasZero(q) <=> mask = 0 \/ \E i \in 1 .. len : differ(i) /\ same(i)
  <2>1. ASSUME NEW i \in 1 .. len + 1, q[i] = 0
        PROVE  mask = 0 \/ \E k \in 1 .. len : differ(k) /\ same(k)
    BY <1>5, <2>1, <1>2
  <2>3. ASSUME mask = 0 PROVE \E i \in 1 .. len + 1 : q[i] = 0
    BY <1>5, <2>3
  <2>2. ASSUME NEW k \in 1 .. len, differ(k), same(k)
        PROVE  \E i \in 1 .. len + 1 : q[i] = 0
    BY <1>2, <1>5, <2>2
  <2> QED  BY <1>5, <2>1, <2>2, <2>3 DEF HasZero
<1>9. CASE s = 0
  <2>1. vb[len] < vc[len] <=> \E i \in 1 .. len : differ(i) /\ same(i)
    BY FirstDifference, <1>9 DEF differ, same
  <2> QED  BY <1>7, <1>8, <1>9, <2>1 DEF q, E
<1>10. CASE s = 1
  <2>1. vc[len] < vb[len] <=> \E i \in 1 .. len : differ(i) /\ same(i)
    BY FirstDifference, <1>10 DEF differ, same
  <2> QED  BY <1>7, <1>8, <1>10, <2>1 DEF q, E
<1> QED  BY <1>9, <1>10

\* The borrow of the subtraction of x from y.
Borrow(x, y) == IF y < x THEN 1 ELSE 0

\* It is found from the product.
LEMMA BorrowIs ==
    ASSUME NEW p \in Nat, p > 2, p # GF256, NEW s \in {0, 1}, NEW x \in Nat, NEW y \in Nat,
           x # y, NEW w \in {0, 1}, w = 0 <=> IF s = 0 THEN x < y ELSE y < x
    PROVE  XorBits(p, w, s) = Borrow(x, y)
<1>1. XorBits(p, w, s) = IF w = s THEN 0 ELSE 1
  BY XorIs
<1>2. w = s <=> ~ (y < x)
  OBVIOUS
<1> QED  BY <1>1, <1>2 DEF Borrow

\* x, w and y are the rests modulo P of R, of z and of R + z.
RestsOfSum(P, R, x, z, w, y) ==
    /\ P \in Nat /\ P > 1 /\ x \in 0 .. P - 1 /\ w \in 1 .. P - 1 /\ y \in 0 .. P - 1
    /\ \E u, v, o \in Int : R = x + P * u /\ z = w + P * o /\ R + z = y + P * v

\* w is what is left of y without x.
LeftOf(P, x, y, w) == x # y /\ (y - x) + Borrow(x, y) * P = w

LEMMA RestFromRests ==
    ASSUME NEW P, NEW R, NEW x, NEW z, NEW w, NEW y, RestsOfSum(P, R, x, z, w, y)
    PROVE  LeftOf(P, x, y, w)
<1>0. PICK u \in Int, v \in Int, o \in Int :
         (x + P * u) + (w + P * o) = y + P * v
  BY DEF RestsOfSum
<1> P \in Nat /\ x \in 0 .. P - 1 /\ w \in 1 .. P - 1 /\ y \in 0 .. P - 1
  BY DEF RestsOfSum
<1> DEFINE k == (u + o) - v
           d == y - x
<1>1. k \in Int /\ d \in Int /\ d = w + P * k
  BY <1>0
<1>2. d > - P /\ d < P
  OBVIOUS
<1> HIDE DEF k, d
<1>3. P * k < P
  BY <1>1, <1>2
<1>4. P * k > -2 * P
  BY <1>1, <1>2
<1>5. k < 1
  BY <1>1, <1>3
<1>6. k > -2
  BY <1>1, <1>4
<1>7. k = 0 \/ k = -1
  BY <1>1, <1>5, <1>6
<1>8. d = w \/ d = w - P
  BY <1>1, <1>7
<1>9. x # y /\ (y < x <=> d = w - P)
  BY <1>8 DEF d
<1>10. CASE d = w - P
  BY <1>9, <1>10 DEF Borrow, d, LeftOf
<1>11. CASE d = w
  BY <1>11, <1>9 DEF d, Borrow, LeftOf
<1> QED  BY <1>8, <1>10, <1>11

\* The first bits of a number, as SubSeq gives them, make what they make there.
LEMMA LowBits ==
    ASSUME NEW m \in Nat, NEW b \in Bits(m), NEW h, AreValues(h, b, m),
           NEW len \in Nat, len > 0, len <= m
    PROVE  /\ SubSeq(b, 1, len) \in Bits(len)
           /\ AreValues([k \in 0 .. len |-> h[k]], SubSeq(b, 1, len), len)
<1> DEFINE s == SubSeq(b, 1, len)
           v == [k \in 0 .. len |-> h[k]]
<1>1. \A i \in 1 .. len : b[i] \in {0, 1} /\ i \in 1 .. m
  BY DEF Bits
<1>2. /\ s \in Seq({0, 1}) /\ Len(s) = IF 1 <= len THEN len - 1 + 1 ELSE 0
      /\ \A i \in 1 .. len - 1 + 1 : s[i] = b[1 + i - 1]
  BY <1>1, SubSeqProperties
<1> HIDE DEF s
<1>3. Len(s) = len /\ \A i \in 1 .. len : s[i] = b[i]
  BY <1>2
<1>4. s \in Bits(len)
  BY <1>2, <1>3 DEF Bits
<1>5. \A k \in 0 .. len : v[k] = h[k] /\ k \in 0 .. m
  OBVIOUS
<1>6. v \in [0 .. len -> Nat] /\ v[0] = 0
  BY <1>5 DEF AreValues
<1> HIDE DEF v
<1>7. ASSUME NEW k \in 1 .. len
      PROVE  v[k] = v[k - 1] + (s[k] * TwoTo[k - 1])
  <2>1. k \in 1 .. m /\ k \in 0 .. len /\ k - 1 \in 0 .. len
    OBVIOUS
  <2>2. h[k] = h[k - 1] + (b[k] * TwoTo[k - 1])
    BY <2>1 DEF AreValues
  <2>3. v[k] = h[k] /\ v[k - 1] = h[k - 1] /\ s[k] = b[k]
    BY <1>3, <1>5, <2>1
  <2> QED  BY <2>2, <2>3
<1>8. AreValues(v, s, len)
  BY <1>6, <1>7 DEF AreValues
<1> QED  BY <1>4, <1>8 DEF s, v

\* The number that is compared: it does not overflow in the field.
LEMMA ComparedIs ==
    ASSUME PrimeField, NEW a \in F, NEW b \in F, NEW d \in Int, NEW P \in Nat,
           a (-) b = d % Field
    PROVE  (((Mul(Field, 2, a) (+) 1) (-) Mul(Field, 2, b)) (+) P) = ((2 * d + 1) + P) % Field
<1> DEFINE p == Field
           x == 2 * a
           y == 2 * b
           w == 2 * d + 1
           z == (x + 1) - y
<1>0. p \in Nat /\ p > 1 /\ a \in Int /\ b \in Int
  BY InF
<1>1. (a - b) % p = d % p
  BY Operations
<1> HIDE DEF p
<1>2. x \in Int /\ y \in Int /\ w \in Int /\ z \in Int /\ x + 1 \in Int
  BY <1>0
<1>3. \E q \in Int : a - b = d + p * q
  <2> DEFINE e == a - b
  <2>1. e \in Int
    BY <1>0
  <2> HIDE DEF e
  <2>2. /\ e = p * (e \div p) + (e % p) /\ e \div p \in Int /\ e % p \in 0 .. p - 1
        /\ d = p * (d \div p) + (d % p) /\ d \div p \in Int
    BY <1>0, <2>1, Divided
  <2> DEFINE i == e \div p
             j == d \div p
             r == e % p
  <2>3. d % p = r
    BY <1>1 DEF e
  <2>4. e = p * i + r /\ d = p * j + r /\ i \in Int /\ j \in Int /\ r \in Int
    BY <2>2, <2>3
  <2> HIDE DEF i, j, r
  <2>5. e = d + p * (i - j) /\ i - j \in Int
    BY <1>0, <2>4
  <2> QED  BY <2>5 DEF e
<1>4. PICK q \in Int : a - b = d + p * q
  BY <1>3
<1>5. z + P = (w + P) + p * (2 * q) /\ 2 * q \in Int /\ z + P \in Int /\ w + P \in Int
  BY <1>0, <1>4
<1>6. (z + P) % p = (w + P) % p
  <2> DEFINE zP == z + P
             wP == w + P
             q2 == 2 * q
  <2>1. zP \in Int /\ wP \in Int /\ q2 \in Int /\ zP = wP + p * q2
    BY <1>5
  <2> HIDE DEF zP, wP, q2
  <2>2. zP % p = wP % p
    BY <1>0, <2>1, Congruent
  <2> QED  BY <2>2 DEF zP, wP
<1>7. Mul(p, 2, a) = x % p /\ Mul(p, 2, b) = y % p
  BY DEF Mul, PrimeField, p
<1> HIDE DEF x, y, z, w
<1>8. (x % p) (+) 1 = (x + 1) % p
  <2>1. (x % p) (+) 1 = ((x % p) + 1) % p
    BY Operations DEF p
  <2>2. ((x % p) + 1) % p = (x + 1) % p
    <3>1. p \in Nat /\ p > 1 /\ x \in Int /\ 1 \in Int
      BY <1>0, <1>2
    <3> QED  BY <3>1, RestsSuffice
  <2> QED  BY <2>1, <2>2
<1>9. ((x + 1) % p) (-) (y % p) = z % p
  <2>1. ((x + 1) % p) (-) (y % p) = (((x + 1) % p) - (y % p)) % p
    BY Operations DEF p
  <2>2. (((x + 1) % p) - (y % p)) % p = ((x + 1) - y) % p
    BY <1>0, <1>2, RestsOfDifference
  <2> QED  BY <2>1, <2>2 DEF z
<1>10. (z % p) (+) P = (z + P) % p
  <2>1. (z % p) (+) P = ((z % p) + P) % p
    BY Operations DEF p
  <2>2. ((z % p) + P) % p = (z + P) % p
    <3>1. p \in Nat /\ p > 1 /\ z \in Int /\ P \in Int
      BY <1>0, <1>2
    <3> QED  BY <3>1, RestsSuffice
  <2> QED  BY <2>1, <2>2
<1>11. ((Mul(p, 2, a) (+) 1) (-) Mul(p, 2, b)) (+) P = (w + P) % p
  BY <1>6, <1>7, <1>8, <1>9, <1>10
<1> QED  BY <1>11 DEF p, w

\* What is left of z without its rest, divided by P.
LEMMA QuotientIs ==
    ASSUME PrimeField, NEW P \in Nat, P > 1, 2 * P < Field, NEW w \in 1 .. P - 1,
           NEW o \in {0, 1}, NEW x \in 0 .. P - 1, NEW y \in 0 .. P - 1,
           LeftOf(P, x, y, w), NEW z, z = w + P * o
    PROVE  (z (-) ((y (-) x) (+) (Borrow(x, y) (.) P))) (.) Inv(Field, ToField(Field, P)) = o
<1> DEFINE e == Borrow(x, y)
<1> e \in {0, 1} /\ (y - x) + e * P = w
  BY DEF LeftOf, Borrow
<1> HIDE DEF e
<1> DEFINE p == Field
           D == y - x
           M == e * P
           O == P * o
           i == Inv(p, P)
<1>1. p \in Nat /\ p > 1 /\ F = 0 .. p - 1
  BY Operations
<1>2. P \in F /\ P # 0 /\ P % p = P
  BY <1>1, OwnRest
<1>3. i \in F /\ P (.) i = 1
  BY <1>2, Inverses
<1> HIDE DEF i, p
<1>4. D \in Int /\ M \in Int /\ D + M = w /\ w \in 0 .. p - 1 /\ w \in Int
  BY <1>1 DEF p
<1>5. O \in {0, P} /\ O \in F /\ O \in Int /\ (w + O) - w = O
  BY <1>1, <1>2
<1>6. ToField(p, P) = P
  BY <1>2 DEF ToField
<1>7. (y (-) x) (+) (e (.) P) = w
  <2>1. y (-) x = D % p /\ e (.) P = M % p
    BY Operations DEF p
  <2>2. (D % p) (+) (M % p) = ((D % p) + (M % p)) % p
    BY Operations DEF p
  <2> HIDE DEF D, M
  <2>3. M % p \in Int
    BY <1>1, <1>4, Divided
  <2>4. ((D % p) + (M % p)) % p = (D + (M % p)) % p
    BY <1>1, <1>4, <2>3, RestsSuffice
  <2>5. (D + (M % p)) % p = (D + M) % p
    BY <1>1, <1>4, RestsSuffice
  <2>6. w % p = w
    BY <1>1, <1>4, OwnRest
  <2> QED  BY <1>4, <2>1, <2>2, <2>4, <2>5, <2>6
<1>8. (w + O) (-) w = O
  BY Operations, <1>1, <1>5, OwnRest DEF p
<1>9. O (.) i = o
  <2>1. CASE o = 1
    BY <1>3, <2>1
  <2>2. CASE o = 0
    <3>1. O = 0
      BY <2>2
    <3> QED  BY <1>3, <2>2, <3>1, Neutral
  <2> QED  BY <2>1, <2>2
<1> QED  BY <1>6, <1>7, <1>8, <1>9 DEF e, i, p, O

\* Another borrow makes another quotient.
LEMMA QuotientDiffers ==
    ASSUME PrimeField, NEW P \in F, P # 0, NEW x \in F, NEW y \in F, NEW z \in F,
           NEW u \in {0, 1}, NEW v \in {0, 1},
           (z (-) ((y (-) x) (+) (u (.) P))) (.) Inv(Field, ToField(Field, P))
               = (z (-) ((y (-) x) (+) (v (.) P))) (.) Inv(Field, ToField(Field, P))
    PROVE  u = v
<1> DEFINE i == Inv(Field, ToField(Field, P))
           D == y (-) x
           U == u (.) P
           V == v (.) P
<1>1. i \in F /\ P (.) i = 1
  BY Inverses, InF DEF ToField
<1>2. u \in F /\ v \in F /\ 0 \in F /\ 1 \in F
  BY Neutral
<1>3. D \in F /\ U \in F /\ V \in F /\ D (+) U \in F /\ D (+) V \in F
  BY <1>2, ClosedInF
<1> HIDE DEF i, D, U, V
<1>4. z (-) (D (+) U) \in F /\ z (-) (D (+) V) \in F
  BY <1>3, ClosedInF
<1>5. (z (-) (D (+) U)) (.) i = (z (-) (D (+) V)) (.) i
  BY DEF i, D, U, V
<1>6. i # 0
  BY <1>1, Neutral, Operations
<1>7. z (-) (D (+) U) = z (-) (D (+) V)
  <2> DEFINE a == z (-) (D (+) U)
             b == z (-) (D (+) V)
  <2>1. a (.) i = i (.) a /\ b (.) i = i (.) b
    BY <1>1, <1>4, AddCommutes
  <2> HIDE DEF a, b
  <2>2. a \in F /\ b \in F /\ i (.) a = i (.) b
    BY <1>4, <1>5, <2>1 DEF a, b
  <2>3. a = b
    BY <1>1, <1>6, <2>2, MulCancels
  <2> QED  BY <2>3 DEF a, b
<1>8. D (+) U = D (+) V
  <2>1. \A a \in F : (z (-) a) (+) a = z
    BY SubCancels
  <2> DEFINE a == D (+) U
             b == D (+) V
             c == z (-) a
  <2>2. a \in F /\ b \in F /\ c \in F
    BY <1>3, <1>4
  <2>3. c (+) a = z /\ c (+) b = z
    BY <1>3, <1>7, <2>1
  <2> HIDE DEF a, b, c
  <2>4. a = b
    BY <2>2, <2>3, AddCancels
  <2> QED  BY <2>4 DEF a, b
<1>9. U = V
  BY <1>3, <1>8, AddCancels
<1>10. /\ (u = 1 => U = P) /\ (u = 0 => U = 0)
       /\ (v = 1 => V = P) /\ (v = 0 => V = 0)
  BY Neutral DEF U, V
<1> QED  BY <1>9, <1>10, Zenon

\* The sum that is opened has fewer low bits set, as a number, than the random
\* number that hides the difference: what greater_than_equal finds out.
Underflows(l, share_a, share_b, r_bits) ==
    LET sum == Add(Field, FromBits(Field, r_bits),
                   Add(Field, Sub(Field, Add(Field, Mul(Field, 2, share_a), 1),
                                  Mul(Field, 2, share_b)), TwoTo[l + 1]))
    IN  sum % TwoTo[l + 1] < FromBits(Field, SubSeq(r_bits, 1, l + 1))

\* greater_than_equal of ComparisonToft07Mixin says whether the one number is
\* at least the other, for numbers that differ by less than the options allow,
\* whatever the random bits and the sign are and for every mask but 0: the sum that
\* is opened does not overflow, and neither does anything in the small field.  With
\* the mask 0 the underflow is taken to be the sign bit, and the answer is right
\* exactly if it is that.
THEOREM GreaterThanEqual07Compares ==
    ASSUME PrimeField, NEW smallField \in Nat, IsField(smallField), smallField # GF256,
           NEW l \in Nat, NEW k \in Nat, FieldsSuit07(Field, smallField, l, k),
           NEW r_bits \in Bits(l + 1 + k), NEW s_bit \in {0, 1},
           NEW mask \in 0 .. smallField - 1,
           NEW share_a \in F, NEW share_b \in F,
           NEW d \in - TwoTo[l] .. TwoTo[l] - 1, share_a (-) share_b = d % Field
    PROVE  GreaterThanEqual07(Field, smallField, l, k, share_a, share_b,
                              r_bits, s_bit, mask)
              = (IF d >= 0 THEN 1 ELSE 0)
           <=> mask # 0 \/ (s_bit = 1 <=> Underflows(l, share_a, share_b, r_bits))
<1> DEFINE f == Field
           g == smallField
           len == l + 1
           m == l + 1 + k
           P == TwoTo[len]
           low == SubSeq(r_bits, 1, len)
           z == Add(f, Sub(f, Add(f, Mul(f, 2, share_a), 1), Mul(f, 2, share_b)), TwoTo[len])
           c == Add(f, FromBits(f, r_bits), z)
           c_bits == [i \in 1 .. len |-> Bit(c, i - 1)]
           sumXORs == CHOOSE h : AreCounts(h, g, len, low, c_bits)
           E == Entries(g, len, s_bit, low, c_bits, sumXORs)
           product == QueueProduct(g, Append(E, mask))
           non_zero == IF product = 0 THEN 0 ELSE 1
           UF == XorBits(f, non_zero, s_bit)
           result == Add(f, Sub(f, c % TwoTo[len], FromBits(f, low)), Mul(f, UF, TwoTo[len]))
<1>1. GreaterThanEqual07(f, g, l, k, share_a, share_b, r_bits, s_bit, mask)
         = Mul(f, Sub(f, z, result), Inv(f, ToField(f, TwoTo[len])))
  BY DEF GreaterThanEqual07, AreCounts, Entries
<1>2. /\ len \in Nat /\ len > 0 /\ m \in Nat /\ len <= m /\ f \in Nat /\ f > 1
      /\ F = 0 .. f - 1 /\ f # GF256 /\ r_bits \in Bits(m)
  BY Operations DEF PrimeField
<1>3. /\ P = 2 * TwoTo[l] /\ TwoTo[l] \in Nat /\ TwoTo[l] > 0 /\ P \in Nat /\ P > 1
      /\ TwoTo[l + 3] = 4 * P /\ TwoTo[m] \in Nat
      /\ 4 * P + TwoTo[m] < f /\ g > 3 + 3 * len
  <2>1. P = 2 * TwoTo[l] /\ TwoTo[l] \in Nat /\ TwoTo[l] > 0 /\ TwoTo[m] \in Nat
    BY <1>2, PowersOfTwo
  <2>2. TwoTo[l + 3] = 4 * P
    <3>0. len + 1 \in Nat /\ l + 3 = (len + 1) + 1
      OBVIOUS
    <3> HIDE DEF len
    <3>1. TwoTo[len] \in Nat
      BY <1>2, PowersOfTwo
    <3>2. TwoTo[(len + 1) + 1] = 2 * TwoTo[len + 1] /\ TwoTo[len + 1] = 2 * TwoTo[len]
      BY <1>2, <3>0, PowersOfTwo
    <3> QED  BY <3>0, <3>1, <3>2
  <2>3. TwoTo[l + 3] + TwoTo[m] < f /\ g > 3 + 3 * len
    BY PowersOfTwo, <1>2, <2>1 DEF FieldsSuit07
  <2>4. P \in Nat /\ P > 1
    BY <2>1
  <2> HIDE DEF P
  <2> QED  BY <2>1, <2>2, <2>3, <2>4
<1> DEFINE w == IF d >= 0 THEN 2 * d + 1 ELSE (2 * d + 1) + P
           o == IF d >= 0 THEN 1 ELSE 0
<1> DEFINE M == TwoTo[m]
<1> HIDE DEF P, f, m, M
<1>30. P \in Nat /\ P > 1 /\ f \in Nat /\ f > 1 /\ M \in Nat /\ 4 * P + M < f
  BY <1>2, <1>3 DEF M
<1>31. g > 3 + 3 * len
  BY <1>3
<1>4. /\ w \in 1 .. P - 1 /\ o \in {0, 1} /\ w + P * o = (2 * d + 1) + P
      /\ w + P * o \in 0 .. 2 * P - 1
  BY <1>3
<1> HIDE DEF w, o
<1>5. z = w + P * o
  <2>1. d \in Int
    OBVIOUS
  <2>2. z = (((Mul(Field, 2, share_a) (+) 1) (-) Mul(Field, 2, share_b)) (+) P)
    BY DEF (+), (-), P, f
  <2>3. z = ((2 * d + 1) + P) % f
    <3> HIDE DEF z
    <3> QED  BY <1>3, <2>1, <2>2, ComparedIs DEF f
  <2> HIDE DEF z
  <2> DEFINE x == w + P * o
  <2>5. z = x % f
    BY <1>4, <2>3
  <2> HIDE DEF x
  <2>4. x \in 0 .. 2 * P - 1
    BY <1>4 DEF x
  <2>6. x \in 0 .. f - 1
    BY <1>30, <2>4
  <2> QED  BY <1>2, <2>5, <2>6, OwnRest DEF x
<1> HIDE DEF z
<1>6. PICK h : AreValues(h, r_bits, m)
  BY <1>2, ValuesExist
<1>7. low \in Bits(len) /\ AreValues([i \in 0 .. len |-> h[i]], low, len)
  BY <1>2, <1>6, LowBits
<1> DEFINE R == h[m]
           x == h[len]
           vl == [i \in 0 .. len |-> h[i]]
<1> HIDE DEF low
<1>8. PICK u \in Nat : R = x + P * u
  BY <1>2, <1>6, FirstBits DEF P
<1>9. R \in Nat /\ R < M /\ x \in 0 .. P - 1
  <2>1. len \in 0 .. m /\ m \in 0 .. m
    BY <1>2
  <2>2. R \in Nat /\ R < M
    BY <1>2, <1>6, <2>1, ValuesBounded DEF M
  <2>3. x \in Nat /\ x < P
    BY <1>2, <1>6, <2>1, ValuesBounded DEF P
  <2> QED  BY <1>3, <2>2, <2>3
<1>10. FromBits(f, r_bits) = R /\ FromBits(f, low) = x
  <2>1. FromBits(f, r_bits) = R % f
    BY <1>2, <1>6, FromBitsIs DEF f
  <2>2. vl[len] = x
    BY <1>2
  <2>3. FromBits(f, low) = x % f
    <3>1. FromBits(f, low) = vl[len] % f
      <4> HIDE DEF len
      <4> QED  BY <1>2, <1>7, FromBitsIs DEF f
    <3> QED  BY <2>2, <3>1
  <2> HIDE DEF R, x
  <2>4. R \in 0 .. f - 1 /\ x \in 0 .. f - 1
    BY <1>30, <1>9
  <2>5. \A y \in 0 .. f - 1 : y % f = y
    BY <1>30, OwnRest
  <2> QED  BY <2>1, <2>3, <2>4, <2>5
<1> HIDE DEF R, x
<1>11. c = R + z /\ c \in Nat
  <2>1. c = (R + z) % f
    BY <1>2, <1>10 DEF Add
  <2>2. R + z \in 0 .. f - 1
    BY <1>4, <1>5, <1>30, <1>9
  <2> HIDE DEF c
  <2>3. \A y \in 0 .. f - 1 : y % f = y
    BY <1>2, OwnRest
  <2>4. (R + z) % f = R + z
    BY <2>2, <2>3
  <2> QED  BY <2>1, <2>2, <2>4
<1> HIDE DEF c
<1>12. c_bits \in Bits(len) /\ \A i \in 1 .. len : c_bits[i] = Bit(c, i - 1)
  <2> SUFFICES ASSUME NEW i \in 1 .. len PROVE Bit(c, i - 1) \in {0, 1}
    BY DEF Bits
  <2>1. TwoTo[i - 1] \in Nat /\ TwoTo[i - 1] > 0
    <3>1. i - 1 \in Nat
      BY <1>2
    <3> QED  BY <3>1, PowersOfTwo
  <2>2. \A y \in Nat : y > 0 => c \div y \in Nat
    BY <1>11
  <2>3. \A y \in Nat : y % 2 \in {0, 1}
    OBVIOUS
  <2> QED  BY <2>1, <2>2, <2>3 DEF Bit
<1> HIDE DEF c_bits
<1>13. PICK hc : AreValues(hc, c_bits, len)
  BY <1>2, <1>12, ValuesExist
<1> DEFINE y == hc[len]
<1>14. PICK v \in Nat : c = y + P * v
  <2>1. len \in 0 .. len
    BY <1>2
  <2> HIDE DEF len
  <2>2. \A i \in 0 .. len : \E v \in Nat : c = hc[i] + TwoTo[i] * v
    <3>1. c \in Nat /\ len \in Nat /\ c_bits \in Bits(len)
      BY <1>2, <1>11, <1>12
    <3>2. \A i \in 1 .. len : c_bits[i] = Bit(c, i - 1)
      BY <1>12
    <3> QED  BY <1>13, <3>1, <3>2, BitsMake
  <2>3. \E v \in Nat : c = hc[len] + TwoTo[len] * v
    BY <2>1, <2>2
  <2> QED  BY <2>3 DEF P
<1>15. y \in 0 .. P - 1
  <2>1. len \in 0 .. len
    BY <1>2
  <2>2. y \in Nat /\ y < P
    BY <1>2, <1>12, <1>13, <2>1, ValuesBounded DEF P
  <2> QED  BY <1>3, <2>2
<1> HIDE DEF y
<1>16. c % P = y
  BY <1>11, <1>3, <1>14, <1>15, SmallRest
<1>17. LeftOf(P, x, y, w) /\ x # y
  <2>1. R = x + P * u /\ z = w + P * o /\ R + z = y + P * v
    BY <1>5, <1>8, <1>11, <1>14
  <2>2. u \in Int /\ v \in Int /\ o \in Int
    BY <1>4
  <2>3. RestsOfSum(P, R, x, z, w, y)
    BY <1>30, <1>4, <1>9, <1>15, <2>1, <2>2, Zenon DEF RestsOfSum
  <2>4. LeftOf(P, x, y, w)
    BY <2>3, RestFromRests
  <2> QED  BY <2>4 DEF LeftOf
<1>18. AreCounts(sumXORs, g, len, low, c_bits)
  <2>1. g > 2
    BY <1>2, <1>3
  <2>2. \E n1 : AreCounts(n1, g, len, low, c_bits)
    BY <1>2, <1>7, <1>12, <2>1, CountsExist
  <2> QED  BY <2>2
<1> HIDE DEF sumXORs
<1>19. product = 0 <=> mask = 0 \/ IF s_bit = 0 THEN x < y ELSE y < x
  <2>1. vl[len] = x
    BY <1>2 DEF x
  <2> HIDE DEF vl
  <2>2. AreValues(vl, low, len)
    BY <1>7 DEF vl
  <2>3. product = 0 <=> mask = 0 \/ IF s_bit = 0 THEN vl[len] < hc[len] ELSE hc[len] < vl[len]
    <3> HIDE DEF len
    <3>1. /\ g \in Nat /\ IsField(g) /\ g # GF256 /\ len \in Nat /\ g > 3 + 3 * len
          /\ s_bit \in {0, 1} /\ mask \in 0 .. g - 1
      BY <1>2, <1>31
    <3>2. low \in Bits(len) /\ c_bits \in Bits(len) /\ AreValues(hc, c_bits, len)
      BY <1>7, <1>12, <1>13
    <3> HIDE DEF g
    <3> QED  BY <1>18, <2>2, <3>1, <3>2, MaskedProductIs DEF product, E
  <2> QED  BY <2>1, <2>3 DEF y
<1> HIDE DEF product
<1>20. UF = IF mask = 0 THEN s_bit ELSE Borrow(x, y)
  <2>1. f > 2 /\ x \in Nat /\ y \in Nat
    BY <1>30, <1>9, <1>15
  <2>2. f \in Nat /\ f # GF256 /\ x # y
    BY <1>2, <1>17
  <2>3. non_zero \in {0, 1} /\ (non_zero = 0 <=> product = 0)
    OBVIOUS
  <2> HIDE DEF non_zero
  <2>4. CASE mask = 0
    <3>1. non_zero = 0
      BY <1>19, <2>3, <2>4
    <3>2. XorBits(f, non_zero, s_bit) = s_bit
      BY <2>1, <2>2, <2>3, <3>1, XorIs
    <3> QED  BY <2>4, <3>2
  <2>5. CASE mask # 0
    <3>1. non_zero = 0 <=> IF s_bit = 0 THEN x < y ELSE y < x
      BY <1>19, <2>3, <2>5
    <3>2. XorBits(f, non_zero, s_bit) = Borrow(x, y)
      BY <2>1, <2>2, <2>3, <3>1, BorrowIs
    <3> QED  BY <2>5, <3>2
  <2> QED  BY <2>4, <2>5
<1>21. result = (y (-) x) (+) (UF (.) P)
  BY <1>10, <1>16 DEF (+), (-), (.), f, P
<1>25. Underflows(l, share_a, share_b, r_bits) <=> Borrow(x, y) = 1
  <2>1. Underflows(l, share_a, share_b, r_bits) <=> c % P < FromBits(f, low)
    BY DEF Underflows, c, z, low, P, f
  <2> QED  BY <1>10, <1>16, <2>1 DEF Borrow
<1> HIDE DEF UF
<1> HIDE DEF result
<1> DEFINE quotient(uf) == (z (-) ((y (-) x) (+) (uf (.) P))) (.) Inv(Field, ToField(Field, P))
           e == Borrow(x, y)
<1>26. e \in {0, 1} /\ UF \in {0, 1} /\ (UF = e <=> mask # 0 \/ s_bit = e)
  BY <1>20 DEF Borrow
<1>22. quotient(e) = o
  BY <1>30, <1>4, <1>9, <1>15, <1>5, <1>17, QuotientIs DEF f
<1>27. quotient(UF) = o <=> UF = e
  <2>1. P \in F /\ P # 0 /\ x \in F /\ y \in F
    BY <1>2, <1>30, <1>9, <1>15
  <2>2. z \in F
    BY <1>2, <1>30, <1>4, <1>5
  <2> HIDE DEF e
  <2>3. ASSUME quotient(UF) = quotient(e) PROVE UF = e
    BY <1>26, <2>1, <2>2, <2>3, QuotientDiffers
  <2> HIDE DEF quotient
  <2> QED  BY <1>22, <2>3
<1>23. Mul(f, Sub(f, z, result), Inv(f, ToField(f, P))) = quotient(UF)
  BY <1>21 DEF (-), (.), f
<1> HIDE DEF len, g, quotient
<1>24. GreaterThanEqual07(f, g, l, k, share_a, share_b, r_bits, s_bit, mask) = quotient(UF)
  BY <1>1, <1>23 DEF P
<1>28. s_bit = e <=> (s_bit = 1 <=> Underflows(l, share_a, share_b, r_bits))
  BY <1>25, <1>26
<1> QED  BY <1>24, <1>26, <1>27, <1>28 DEF o, f, g
==============================================================================
