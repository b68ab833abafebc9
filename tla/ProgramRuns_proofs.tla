--------------------------- MODULE ProgramRuns_proofs ---------------------------
(***************************************************************************)
(* Proofs about programs: an opening of the BeDOZa runtime gives the right  *)
(* value or is refused, for every program, field, number of players, keys   *)
(* and values that are changed on their way; the pool fits; and BeDOZa's    *)
(* triples, what one gives and which candidates pass the test.              *)
(*                                                                          *)
(* What a player holds depends on nobody else: Held(p)[k] is what it holds  *)
(* when it comes to operation k.  That the numbers of all players at the    *)
(* same k add up to what the program computes, and that their MACs fit the  *)
(* others' keys, is an induction over the program; that a player holds what *)
(* it is to hold, whatever it shares its lists of keys with, and that what  *)
(* is sent, judged and returned is of this, is the invariant of the system. *)
(***************************************************************************)
EXTENDS ProgramRuns, BedozaTriples, FiniteSetTheorems, WellFoundedInduction, TLAPS

F == Elements(Field)

a (+) b == Add(Field, a, b)
a (-) b == Sub(Field, a, b)
a (.) b == Mul(Field, a, b)

------------------------------------------------------------------------------
\* What the players hold, and what they say.

ContentsSet == [value : F, keys : [Players -> F], macs : [Players -> F]]

Zeros == [q \in Players |-> 0]
Nothing == [value |-> 0, keys |-> Zeros, macs |-> Zeros]

GivenContents(p, o) ==
    [value |-> StartValue[o][p], keys |-> StartKey[o][p],
     macs |-> [q \in Players |-> MAC(Alpha[q], StartKey[o][q][p], StartValue[o][p])]]

\* The result of operation k at p, from what p held before.
Computed(p, k, before) ==
    LET op == Code[k]
        x == before[Object[op.xs[1]]]
    IN  CASE op.op = "plus" -> PlusContents(x, before[Object[op.xs[2]]])
          [] op.op = "minus" -> MinusContents(x, before[Object[op.xs[2]]])
          [] op.op = "cmul" -> CMulContents(x, op.c)
          [] op.op = "plus_public" -> AddPublic(p, x, op.c)
          [] op.op = "minus_public_right" -> AddPublic(p, x, Neg(Field, op.c))
          [] op.op = "minus_public_left" ->
                AddPublic(p, CMulContents(x, Neg(Field, 1)), op.c)
          [] OTHER -> Nothing

AtStart(p) == [o \in Registers |-> IF o <= Given THEN GivenContents(p, o) ELSE Nothing]

After(p, k, before) == [before EXCEPT ![Object[Given + k]] = Computed(p, k, before)]

\* What player p holds before operation k, by object.
Held(p) ==
    LET held[k \in 1 .. Len(Code) + 1] ==
            IF k = 1 THEN AtStart(p) ELSE After(p, k - 1, held[k - 1])
    IN  held

\* The objects that hold a share before operation k.
Live(k) ==
    {o \in Registers : o < Given + k /\ Object[o] = o /\ o - Given \notin Openings}

\* Operand i of operation k at player p when it comes to k.
Operand(p, k, i) == Held(p)[k][Object[Code[k].xs[i]]]

\* What p gets for it from q in an opening, what it is content with, and what it
\* adds up.
Arrives(p, q, k, i) ==
    LET v == Operand(q, k, i).value
    IN  IF <<q, p, k, i>> \in garbled THEN v (+) 1 ELSE v

Fits(p, k, i) ==
    \A q \in Players :
        Operand(q, k, i).macs[p] = MAC(Alpha[p], Operand(p, k, i).keys[q], Arrives(p, q, k, i))

Total(p, k, i) == FieldSum(Field, [q \in Players |-> Arrives(p, q, k, i)])

------------------------------------------------------------------------------
\* The invariant.

\* Player p, at operation k, holds what it is to hold in the objects that are live,
\* each with a list of keys of its own.
Holds(p, k) ==
    \A o \in Live(k) :
        /\ shares[p][o].list \in Registers
        /\ shares[p][o].list < Given + k
        /\ Object[shares[p][o].list] = o
        /\ Contents(p, o) = Held(p)[k][o]

HoldInv ==
    /\ DOMAIN shares = Players /\ DOMAIN keys = Players
    /\ \A p \in Players : /\ DOMAIN shares[p] = Registers /\ DOMAIN keys[p] = Registers
                          /\ Holds(p, next[p])

OpenInv ==
    /\ DOMAIN opens = Players
    /\ \A p \in Players :
          /\ DOMAIN opens[p] = Openings
          /\ \A k \in Openings : opens[p][k] # None =>
                LET of == DOMAIN Code[k].xs IN
                /\ k < next[p]
                /\ opens[p][k].values = [i \in of |-> Operand(p, k, i).value]
                /\ opens[p][k].macs = [i \in of |-> Operand(p, k, i).macs]
                /\ opens[p][k].asSent = [i \in of |-> Operand(p, k, i).keys]

VerdictInv ==
    /\ DOMAIN verdicts = Players
    /\ \A p \in Players :
          /\ DOMAIN verdicts[p] = Openings
          /\ \A k \in Openings : verdicts[p][k] # None =>
                LET of == DOMAIN Code[k].xs IN
                /\ verdicts[p][k].isOK \in BOOLEAN
                /\ verdicts[p][k].values = [i \in of |-> Total(p, k, i)]
                /\ verdicts[p][k].undisturbed =>
                      (verdicts[p][k].isOK <=>
                          Passed(Code[k].op, [i \in of |-> Fits(p, k, i)]))

ResultInv ==
    /\ DOMAIN opened = Players
    /\ \A p \in Players :
          /\ DOMAIN opened[p] = Openings
          /\ \A k \in Openings : opened[p][k] # None =>
                /\ \A q \in Players : verdicts[q][k] # None
                /\ opened[p][k] = IF Accepted(k) THEN verdicts[p][k].values ELSE Wrong

IInv ==
    /\ next \in [Players -> 1 .. Len(Code) + 1]
    /\ HoldInv /\ OpenInv /\ VerdictInv /\ ResultInv

------------------------------------------------------------------------------
\* What follows from the laws of a field.

\* The operators have values in the field, and its laws, in the notation above.
LEMMA Laws ==
    /\ 0 \in F /\ 1 \in F
    /\ \A a, b \in F : /\ a (+) b \in F /\ a (-) b \in F /\ a (.) b \in F
                       /\ a (+) b = b (+) a /\ a (.) b = b (.) a
                       /\ (a (+) b) (-) b = a /\ (a (-) b) (+) b = a
    /\ \A a, b, c \in F : /\ (a (+) b) (+) c = a (+) (b (+) c)
                          /\ (a (.) b) (.) c = a (.) (b (.) c)
                          /\ a (.) (b (+) c) = (a (.) b) (+) (a (.) c)
    /\ \A a \in F : /\ a (+) 0 = a /\ 0 (+) a = a /\ a (.) 1 = a
                    /\ Neg(Field, a) = 0 (-) a /\ Neg(Field, a) \in F
<1>1. IsField(Field)
  BY BedozaAssumption
<1>2. /\ 0 \in F /\ 1 \in F
      /\ \A a, b \in F : /\ a (+) b \in F /\ a (-) b \in F /\ a (.) b \in F
                         /\ a (+) b = b (+) a /\ a (.) b = b (.) a
                         /\ (a (+) b) (-) b = a /\ (a (-) b) (+) b = a
  BY <1>1 DEF IsField, F, (+), (-), (.)
<1>3. \A a, b, c \in F : /\ (a (+) b) (+) c = a (+) (b (+) c)
                         /\ (a (.) b) (.) c = a (.) (b (.) c)
                         /\ a (.) (b (+) c) = (a (.) b) (+) (a (.) c)
  BY <1>1 DEF IsField, F, (+), (-), (.)
<1>4. \A a \in F : /\ a (+) 0 = a /\ a (.) 1 = a
                   /\ Neg(Field, a) = 0 (-) a
  BY <1>1 DEF IsField, F, (+), (-), (.)
<1>5. \A a \in F : 0 (+) a = a /\ Neg(Field, a) \in F
  BY <1>2, <1>4
<1> QED  BY <1>2, <1>3, <1>4, <1>5

\* Equal sums with one summand in common have the other in common.
LEMMA AddCancels ==
    ASSUME NEW a \in F, NEW b \in F, NEW c \in F, a (+) c = b (+) c
    PROVE  a = b
<1>1. (a (+) c) (-) c = a /\ (b (+) c) (-) c = b
  BY Laws
<1> QED  BY <1>1

\* What is added to b to give a is the difference.
LEMMA Difference ==
    ASSUME NEW a \in F, NEW b \in F, NEW d \in F, d (+) b = a
    PROVE  d = a (-) b
<1>1. (d (+) b) (-) b = d
  BY Laws
<1> QED  BY <1>1

\* The middle two of four summands can be swapped.
LEMMA AddShuffle ==
    ASSUME NEW a \in F, NEW b \in F, NEW c \in F, NEW d \in F
    PROVE  (a (+) b) (+) (c (+) d) = (a (+) c) (+) (b (+) d)
<1>1. c (+) d \in F /\ b (+) d \in F /\ b (+) c \in F /\ c (+) b \in F
  BY Laws
<1>2. (a (+) b) (+) (c (+) d) = a (+) (b (+) (c (+) d))
  BY <1>1, Laws
<1>3. b (+) (c (+) d) = (b (+) c) (+) d
  BY Laws
<1>4. b (+) c = c (+) b
  BY Laws
<1>5. (c (+) b) (+) d = c (+) (b (+) d)
  BY Laws
<1>6. a (+) (c (+) (b (+) d)) = (a (+) c) (+) (b (+) d)
  BY <1>1, Laws
<1> QED  BY <1>2, <1>3, <1>4, <1>5, <1>6

\* Products with 0, with -1, and of a negated number.
LEMMA Signs ==
    ASSUME NEW a \in F
    PROVE  /\ a (.) 0 = 0 /\ 0 (.) a = 0
           /\ a (+) Neg(Field, a) = 0
           /\ Neg(Field, 1) (.) a = Neg(Field, a)
<1>1. 0 \in F /\ 1 \in F /\ Neg(Field, a) \in F /\ Neg(Field, 1) \in F /\ a (.) 0 \in F
  BY Laws
<1>2. a (.) 0 = 0
  <2>1. 0 (+) 0 = 0
    BY <1>1, Laws
  <2>2. (a (.) 0) (+) (a (.) 0) = a (.) 0
    BY <1>1, <2>1, Laws
  <2>3. 0 (+) (a (.) 0) = a (.) 0
    BY <1>1, Laws
  <2> QED  BY <1>1, <2>2, <2>3, AddCancels
<1>3. 0 (.) a = 0
  BY <1>1, <1>2, Laws
<1>4. ASSUME NEW b \in F
      PROVE  Neg(Field, b) \in F /\ Neg(Field, b) (+) b = 0 /\ b (+) Neg(Field, b) = 0
  <2>1. Neg(Field, b) = 0 (-) b /\ Neg(Field, b) \in F
    BY Laws
  <2>2. (0 (-) b) (+) b = 0
    BY <1>1, Laws
  <2> QED  BY <2>1, <2>2, Laws
<1>5. Neg(Field, 1) (.) a = Neg(Field, a)
  <2>1. a (.) (Neg(Field, 1) (+) 1) = (a (.) Neg(Field, 1)) (+) (a (.) 1)
    BY <1>1, Laws
  <2>2. a (.) Neg(Field, 1) \in F /\ a (.) 1 = a
    BY <1>1, Laws
  <2>3. (a (.) Neg(Field, 1)) (+) a = 0
    BY <1>1, <1>2, <1>4, <2>1, <2>2
  <2>4. a (.) Neg(Field, 1) = 0 (-) a
    BY <1>1, <2>2, <2>3, Difference
  <2> QED  BY <1>1, <2>4, Laws
<1> QED  BY <1>2, <1>3, <1>4, <1>5

\* Subtraction is the addition of the negated number, in either order.
LEMMA SubIsAdd ==
    ASSUME NEW a \in F, NEW b \in F
    PROVE  a (+) Neg(Field, b) = a (-) b
<1>1. Neg(Field, b) \in F /\ a (+) Neg(Field, b) \in F /\ Neg(Field, b) (+) b = 0
  BY Laws, Signs
<1>2. (a (+) Neg(Field, b)) (+) b = a (+) (Neg(Field, b) (+) b)
  BY <1>1, Laws
<1>3. a (+) 0 = a
  BY Laws
<1> QED  BY <1>1, <1>2, <1>3, Difference

\* Under a key other than 0 a number and its successor have different MACs.
LEMMA MACsDiffer ==
    ASSUME NEW a \in F, a # 0, NEW v \in F, NEW b \in F
    PROVE  MAC(a, b, v (+) 1) # MAC(a, b, v)
<1>1. 1 \in F /\ v (+) 1 \in F /\ a (.) v \in F
  BY Laws
<1>2. a (.) (v (+) 1) = (a (.) v) (+) a
  BY <1>1, Laws
<1>3. SUFFICES ASSUME MAC(a, b, v (+) 1) = MAC(a, b, v) PROVE FALSE
  OBVIOUS
<1>4. (a (.) (v (+) 1)) (+) b = (a (.) v) (+) b
  BY <1>3 DEF MAC, (+), (.)
<1>5. (a (.) v) (+) a \in F
  BY <1>1, Laws
<1>6. (a (.) v) (+) a = a (.) v
  BY <1>1, <1>2, <1>4, <1>5, AddCancels
<1>7. a (+) (a (.) v) = 0 (+) (a (.) v)
  BY <1>1, <1>6, Laws
<1>8. 0 \in F
  BY Laws
<1> QED  BY <1>1, <1>7, <1>8, AddCancels

------------------------------------------------------------------------------
\* Induction: the members of a set are the cases that hold.

\* A set with 0 and the successors of its members has all naturals.
LEMMA NatInduct ==
    ASSUME NEW T, 0 \in T, \A m \in Nat : m \in T => m + 1 \in T
    PROVE  \A m \in Nat : m \in T
<1> SUFFICES ASSUME NEW y \in Nat, y \notin T PROVE FALSE
  OBVIOUS
<1> DEFINE R == {ss \in Nat \X Nat : ss[1] < ss[2]}
           Missing == {m \in Nat : m \notin T}
<1>1. IsWellFoundedOn(R, Nat)
  BY NatLessThanWellFounded, Zenon DEF OpToRel
<1>2. Missing \subseteq Nat /\ Missing # {}
  OBVIOUS
<1>3. \E x \in Missing : \A z \in Missing : <<z, x>> \notin R
  <2> HIDE DEF R, Missing
  <2> QED  BY <1>1, <1>2, WFMin, Zenon
<1>4. PICK x \in Missing : \A z \in Missing : ~ (z < x)
  BY <1>3
<1>5. x \in Nat /\ x # 0 /\ x - 1 \in Nat /\ x - 1 \notin Missing /\ x - 1 + 1 = x
  BY <1>4
<1>6. x - 1 \in T
  BY <1>5
<1> QED  BY <1>4, <1>5, <1>6

\* A number that all from 1 to m have, if a number has it whenever all before do.
LEMMA UpInduct ==
    ASSUME NEW m \in Nat, NEW T,
           \A k \in 1 .. m : (\A j \in 1 .. m : j < k => j \in T) => k \in T
    PROVE  \A k \in 1 .. m : k \in T
<1> DEFINE U == {x \in Nat : \A k \in 1 .. m : k <= x => k \in T}
<1>1. 0 \in U
  OBVIOUS
<1>2. ASSUME NEW x \in Nat, x \in U PROVE x + 1 \in U
  <2> SUFFICES ASSUME NEW k \in 1 .. m, k <= x + 1 PROVE k \in T
    OBVIOUS
  <2>1. \A j \in 1 .. m : j < k => j <= x
    OBVIOUS
  <2>2. \A j \in 1 .. m : j < k => j \in T
    BY <1>2, <2>1
  <2> QED  BY <2>2
<1>3. \A x \in Nat : x \in U
  <2> HIDE DEF U
  <2> QED  BY <1>1, <1>2, NatInduct
<1>4. m \in U
  BY <1>3
<1> QED  BY <1>4

\* What a sum takes out first.
Some(s) == CHOOSE x \in s : TRUE

\* The set of all players can be taken apart, one by one.
LEMMA Peeled ==
    ASSUME NEW s \in SUBSET Players
    PROVE  /\ IsFiniteSet(s) /\ Cardinality(s) \in Nat
           /\ Cardinality(s) = 0 <=> s = {}
           /\ s # {} => /\ Some(s) \in s /\ Some(s) \in Players
                        /\ s \ {Some(s)} \in SUBSET Players
                        /\ Cardinality(s \ {Some(s)}) = Cardinality(s) - 1
<1>1. IsFiniteSet(Players)
  BY BedozaAssumption, FS_Interval DEF Players
<1>2. IsFiniteSet(s)
  BY <1>1, FS_Subset
<1>3. Cardinality(s) \in Nat /\ (Cardinality(s) = 0 <=> s = {})
  BY <1>2, FS_CardinalityType, FS_EmptySet
<1>4. s # {} => Some(s) \in s
  BY DEF Some
<1>5. s # {} => Cardinality(s \ {Some(s)}) = Cardinality(s) - 1
  BY <1>2, <1>4, FS_RemoveElement
<1> QED  BY <1>2, <1>3, <1>4, <1>5

\* All sets of players are in a set that has {} and each set with what is left of it.
LEMMA PeelInduct ==
    ASSUME NEW T, {} \in T,
           \A s \in SUBSET Players : s # {} /\ s \ {Some(s)} \in T => s \in T
    PROVE  \A s \in SUBSET Players : s \in T
<1> DEFINE U == {m \in Nat : \A s \in SUBSET Players : Cardinality(s) = m => s \in T}
<1>1. 0 \in U
  BY Peeled
<1>2. ASSUME NEW m \in Nat, m \in U PROVE m + 1 \in U
  <2> SUFFICES ASSUME NEW s \in SUBSET Players, Cardinality(s) = m + 1 PROVE s \in T
    OBVIOUS
  <2> DEFINE rest == s \ {Some(s)}
  <2>3. /\ Cardinality(s) = 0 <=> s = {}
        /\ s # {} => rest \in SUBSET Players /\ Cardinality(rest) = Cardinality(s) - 1
    BY Peeled
  <2> HIDE DEF rest
  <2>1. s # {} /\ rest \in SUBSET Players /\ Cardinality(rest) = m
    BY <2>3
  <2> USE DEF rest
  <2>2. s \ {Some(s)} \in T
    BY <1>2, <2>1
  <2> QED  BY <2>1, <2>2
<1>3. \A m \in Nat : m \in U
  <2> HIDE DEF U
  <2> QED  BY <1>1, <1>2, NatInduct
<1> SUFFICES ASSUME NEW s \in SUBSET Players PROVE s \in T
  OBVIOUS
<1>4. Cardinality(s) \in U
  BY <1>3, Peeled
<1> QED  BY <1>4

------------------------------------------------------------------------------
\* Sums over the players.

\* h is the sums of g over sets of players, in the order in which Some takes them.
IsSum(h, g) ==
    h = [s \in SUBSET DOMAIN g |->
            IF s = {} THEN 0 ELSE Add(Field, g[Some(s)], h[s \ {Some(s)}])]

\* There are such sums.
LEMMA SumExists ==
    ASSUME NEW g \in [Players -> F]
    PROVE  \E h \in [SUBSET Players -> F] : IsSum(h, g)
<1> DEFINE D == SUBSET Players
           Sums(h, s) == h[s] = IF s = {} THEN 0 ELSE g[Some(s)] (+) h[s \ {Some(s)}]
           U == {m \in Nat : \E h \in [D -> F] :
                    \A s \in D : Cardinality(s) <= m => Sums(h, s)}
<1>1. 0 \in U
  <2> DEFINE h == [s \in D |-> 0]
  <2>1. h \in [D -> F]
    BY Laws
  <2>2. ASSUME NEW s \in D, Cardinality(s) <= 0 PROVE s = {}
    <3>1. Cardinality(s) \in Nat /\ (Cardinality(s) = 0 <=> s = {})
      BY Peeled
    <3> QED  BY <2>2, <3>1
  <2>3. \A s \in D : Cardinality(s) <= 0 => Sums(h, s)
    BY <2>2
  <2> HIDE DEF h, Sums
  <2> QED  BY <2>1, <2>3
<1>2. ASSUME NEW m \in Nat, m \in U PROVE m + 1 \in U
  <2>1. PICK h \in [D -> F] : \A s \in D : Cardinality(s) <= m => Sums(h, s)
    BY <1>2
  <2> DEFINE l == [s \in D |-> IF Cardinality(s) = m + 1
                               THEN g[Some(s)] (+) h[s \ {Some(s)}] ELSE h[s]]
  <2>2. ASSUME NEW s \in D, Cardinality(s) = m + 1
        PROVE  s # {} /\ g[Some(s)] \in F /\ h[s \ {Some(s)}] \in F
    <3>1. Cardinality(s) = 0 <=> s = {}
      BY Peeled
    <3>2. s # {}
      BY <2>2, <3>1
    <3>3. Some(s) \in Players /\ s \ {Some(s)} \in D
      BY <3>2, Peeled
    <3> QED  BY <3>2, <3>3
  <2>3. l \in [D -> F]
    BY <2>2, Laws
  <2>4. ASSUME NEW s \in D, Cardinality(s) <= m + 1 PROVE Sums(l, s)
    <3>1. CASE s = {}
      <4>2. Cardinality(s) = 0
        BY <3>1, Peeled
      <4>1. Cardinality(s) # m + 1 /\ Cardinality(s) <= m
        BY <4>2
      <4> QED  BY <2>1, <3>1, <4>1
    <3>2. CASE s # {}
      <4> DEFINE r == s \ {Some(s)}
      <4>1. /\ Cardinality(s) \in Nat /\ Cardinality(r) = Cardinality(s) - 1 /\ r \in D
        BY <3>2, Peeled
      <4>5. Cardinality(r) # m + 1
        BY <4>1, <2>4
      <4>2. l[r] = h[r]
        BY <4>1, <4>5
      <4>3. CASE Cardinality(s) = m + 1
        BY <3>2, <4>2, <4>3
      <4>4. CASE Cardinality(s) # m + 1
        <5>1. Cardinality(s) <= m
          BY <2>4, <4>1, <4>4
        <5>2. Sums(h, s) /\ l[s] = h[s]
          BY <2>1, <4>4, <5>1
        <5> QED  BY <3>2, <4>2, <5>2
      <4> QED  BY <4>3, <4>4
    <3> QED  BY <3>1, <3>2
  <2> HIDE DEF l, Sums
  <2> QED  BY <2>3, <2>4
<1>3. \A m \in Nat : m \in U
  <2> HIDE DEF U
  <2> QED  BY <1>1, <1>2, NatInduct
<1>4. N \in Nat /\ Cardinality(Players) = N
  BY BedozaAssumption, FS_Interval DEF Players
<1>5. PICK h \in [D -> F] : \A s \in D : Cardinality(s) <= N => Sums(h, s)
  BY <1>3, <1>4
<1>6. ASSUME NEW s \in D PROVE Cardinality(s) <= N
  <2>1. IsFiniteSet(Players)
    BY <1>4, BedozaAssumption, FS_Interval DEF Players
  <2> QED  BY <1>4, <2>1, FS_Subset
<1>7. \A s \in D : Sums(h, s)
  BY <1>5, <1>6
<1>8. h = [s \in D |-> IF s = {} THEN 0 ELSE g[Some(s)] (+) h[s \ {Some(s)}]]
  BY <1>7
<1>9. IsSum(h, g)
  BY <1>8 DEF IsSum, (+)
<1> QED  BY <1>9

\* FieldSum, which folds a function, is such a sum over all players.
LEMMA SumIs ==
    ASSUME NEW g \in [Players -> F]
    PROVE  \E h \in [SUBSET Players -> F] :
              /\ FieldSum(Field, g) = h[Players]
              /\ h[{}] = 0
              /\ \A s \in SUBSET Players : s # {} =>
                    h[s] = g[Some(s)] (+) h[s \ {Some(s)}]
<1> DEFINE f == CHOOSE f : IsSum(f, g)
<1>1. FieldSum(Field, g) = f[Players]
  <2> DEFINE iter[s \in SUBSET DOMAIN g] ==
                 IF s = {} THEN 0
                 ELSE LET x == CHOOSE x \in s : TRUE
                      IN  Add(Field, g[x], iter[s \ {x}])
  <2>1. FieldSum(Field, g) = iter[DOMAIN g]
    BY DEF FieldSum, FoldFunction, FoldFunctionOnSet, MapThenFoldSet
  <2>2. iter = f
    BY DEF IsSum, Some
  <2> QED  BY <2>1, <2>2
<1>2. PICK h \in [SUBSET Players -> F] : IsSum(h, g)
  BY SumExists
<1>3. IsSum(f, g)
  BY <1>2
<1> HIDE DEF f
<1>4. /\ f = [s \in SUBSET Players |->
                 IF s = {} THEN 0 ELSE g[Some(s)] (+) f[s \ {Some(s)}]]
  BY <1>3 DEF IsSum, (+)
<1>5. /\ f[{}] = 0
      /\ \A s \in SUBSET Players : s # {} => f[s] = g[Some(s)] (+) f[s \ {Some(s)}]
  BY <1>4
<1>6. \A s \in SUBSET Players : f[s] \in F
  <2> DEFINE T == {s \in SUBSET Players : f[s] \in F}
  <2>1. {} \in T
    BY <1>5, Laws
  <2>2. ASSUME NEW s \in SUBSET Players, s # {} /\ s \ {Some(s)} \in T PROVE s \in T
    <3>1. g[Some(s)] \in F /\ f[s \ {Some(s)}] \in F
      BY <2>2, Peeled
    <3>2. g[Some(s)] (+) f[s \ {Some(s)}] \in F
      BY <3>1, Laws
    <3>3. f[s] = g[Some(s)] (+) f[s \ {Some(s)}]
      BY <1>5, <2>2
    <3> QED  BY <3>2, <3>3
  <2> HIDE DEF T
  <2>3. \A s \in SUBSET Players : s \in T
    BY <2>1, <2>2, PeelInduct
  <2> QED  BY <2>3 DEF T
<1>7. f \in [SUBSET Players -> F]
  BY <1>4, <1>6
<1> QED  BY <1>1, <1>5, <1>7

\* A sum over the players is in the field.
LEMMA SumInField ==
    ASSUME NEW g \in [Players -> F]
    PROVE  FieldSum(Field, g) \in F
BY SumIs

\* The sum of sums.
LEMMA SumOfPlus ==
    ASSUME NEW u \in [Players -> F], NEW v \in [Players -> F]
    PROVE  FieldSum(Field, [q \in Players |-> u[q] (+) v[q]])
               = FieldSum(Field, u) (+) FieldSum(Field, v)
<1> DEFINE w == [q \in Players |-> u[q] (+) v[q]]
<1>1. w \in [Players -> F]
  BY Laws
<1> HIDE DEF w
<1>2. PICK hu \in [SUBSET Players -> F] :
          /\ FieldSum(Field, u) = hu[Players] /\ hu[{}] = 0
          /\ \A s \in SUBSET Players : s # {} => hu[s] = u[Some(s)] (+) hu[s \ {Some(s)}]
  BY SumIs
<1>3. PICK hv \in [SUBSET Players -> F] :
          /\ FieldSum(Field, v) = hv[Players] /\ hv[{}] = 0
          /\ \A s \in SUBSET Players : s # {} => hv[s] = v[Some(s)] (+) hv[s \ {Some(s)}]
  BY SumIs
<1>4. PICK hw \in [SUBSET Players -> F] :
          /\ FieldSum(Field, w) = hw[Players] /\ hw[{}] = 0
          /\ \A s \in SUBSET Players : s # {} => hw[s] = w[Some(s)] (+) hw[s \ {Some(s)}]
  BY <1>1, SumIs
<1> DEFINE T == {s \in SUBSET Players : hw[s] = hu[s] (+) hv[s]}
<1>5. {} \in T
  BY <1>2, <1>3, <1>4, Laws
<1>6. ASSUME NEW s \in SUBSET Players, s # {} /\ s \ {Some(s)} \in T PROVE s \in T
  <2> DEFINE x == Some(s)
             r == s \ {Some(s)}
  <2>1. x \in Players /\ r \in SUBSET Players
    BY <1>6, Peeled
  <2>2. /\ hu[s] = u[x] (+) hu[r] /\ hv[s] = v[x] (+) hv[r] /\ hw[s] = w[x] (+) hw[r]
        /\ hw[r] = hu[r] (+) hv[r]
    BY <1>2, <1>3, <1>4, <1>6
  <2>3. w[x] = u[x] (+) v[x]
    BY <2>1 DEF w
  <2>4. u[x] \in F /\ v[x] \in F /\ hu[r] \in F /\ hv[r] \in F
    BY <2>1
  <2> HIDE DEF x, r
  <2>5. (u[x] (+) v[x]) (+) (hu[r] (+) hv[r]) = (u[x] (+) hu[r]) (+) (v[x] (+) hv[r])
    BY <2>4, AddShuffle
  <2>6. hw[s] = hu[s] (+) hv[s]
    BY <2>2, <2>3, <2>5
  <2> QED  BY <2>6
<1>7. \A s \in SUBSET Players : s \in T
  <2> HIDE DEF T
  <2> QED  BY <1>5, <1>6, PeelInduct
<1>8. hw[Players] = hu[Players] (+) hv[Players]
  BY <1>7
<1> QED  BY <1>2, <1>3, <1>4, <1>8 DEF w

\* The sum of differences.
LEMMA SumOfMinus ==
    ASSUME NEW u \in [Players -> F], NEW v \in [Players -> F]
    PROVE  FieldSum(Field, [q \in Players |-> u[q] (-) v[q]])
               = FieldSum(Field, u) (-) FieldSum(Field, v)
<1> DEFINE d == [q \in Players |-> u[q] (-) v[q]]
<1>1. d \in [Players -> F]
  BY Laws
<1>2. [q \in Players |-> d[q] (+) v[q]] = u
  BY Laws
<1> HIDE DEF d
<1>3. FieldSum(Field, d) (+) FieldSum(Field, v) = FieldSum(Field, u)
  BY <1>1, <1>2, SumOfPlus
<1>4. FieldSum(Field, d) \in F /\ FieldSum(Field, v) \in F /\ FieldSum(Field, u) \in F
  BY <1>1, SumInField
<1> QED  BY <1>3, <1>4, Difference DEF d

\* The sum of multiples.
LEMMA SumOfMultiples ==
    ASSUME NEW c \in F, NEW u \in [Players -> F]
    PROVE  FieldSum(Field, [q \in Players |-> c (.) u[q]]) = c (.) FieldSum(Field, u)
<1> DEFINE w == [q \in Players |-> c (.) u[q]]
<1>1. w \in [Players -> F]
  BY Laws
<1> HIDE DEF w
<1>2. PICK hu \in [SUBSET Players -> F] :
          /\ FieldSum(Field, u) = hu[Players] /\ hu[{}] = 0
          /\ \A s \in SUBSET Players : s # {} => hu[s] = u[Some(s)] (+) hu[s \ {Some(s)}]
  BY SumIs
<1>3. PICK hw \in [SUBSET Players -> F] :
          /\ FieldSum(Field, w) = hw[Players] /\ hw[{}] = 0
          /\ \A s \in SUBSET Players : s # {} => hw[s] = w[Some(s)] (+) hw[s \ {Some(s)}]
  BY <1>1, SumIs
<1> DEFINE T == {s \in SUBSET Players : hw[s] = c (.) hu[s]}
<1>4. {} \in T
  BY <1>2, <1>3, Signs
<1>5. ASSUME NEW s \in SUBSET Players, s # {} /\ s \ {Some(s)} \in T PROVE s \in T
  <2> DEFINE x == Some(s)
             r == s \ {Some(s)}
  <2>1. x \in Players /\ r \in SUBSET Players
    BY <1>5, Peeled
  <2>2. hu[s] = u[x] (+) hu[r] /\ hw[s] = w[x] (+) hw[r] /\ hw[r] = c (.) hu[r]
    BY <1>2, <1>3, <1>5
  <2>3. w[x] = c (.) u[x]
    BY <2>1 DEF w
  <2>4. u[x] \in F /\ hu[r] \in F
    BY <2>1
  <2> HIDE DEF x, r
  <2>7. \A a, b \in F : c (.) (a (+) b) = (c (.) a) (+) (c (.) b)
    BY Laws
  <2>5. c (.) (u[x] (+) hu[r]) = (c (.) u[x]) (+) (c (.) hu[r])
    BY <2>4, <2>7
  <2>6. hw[s] = c (.) hu[s]
    BY <2>2, <2>3, <2>5
  <2> QED  BY <2>6
<1>6. \A s \in SUBSET Players : s \in T
  <2> HIDE DEF T
  <2> QED  BY <1>4, <1>5, PeelInduct
<1>7. hw[Players] = c (.) hu[Players]
  BY <1>6
<1> QED  BY <1>2, <1>3, <1>7 DEF w

\* The sum of a number that one player has, and the others 0.
LEMMA SumOfOne ==
    ASSUME NEW j \in Players, NEW c \in F
    PROVE  FieldSum(Field, [q \in Players |-> IF q = j THEN c ELSE 0]) = c
<1> DEFINE w == [q \in Players |-> IF q = j THEN c ELSE 0]
<1>1. w \in [Players -> F]
  BY Laws
<1> HIDE DEF w
<1>2. PICK hw \in [SUBSET Players -> F] :
          /\ FieldSum(Field, w) = hw[Players] /\ hw[{}] = 0
          /\ \A s \in SUBSET Players : s # {} => hw[s] = w[Some(s)] (+) hw[s \ {Some(s)}]
  BY <1>1, SumIs
<1> DEFINE T == {s \in SUBSET Players : hw[s] = IF j \in s THEN c ELSE 0}
<1>3. {} \in T
  BY <1>2
<1>4. ASSUME NEW s \in SUBSET Players, s # {} /\ s \ {Some(s)} \in T PROVE s \in T
  <2> DEFINE x == Some(s)
             r == s \ {Some(s)}
  <2>1. x \in s /\ x \in Players
    BY <1>4, Peeled
  <2>2. hw[s] = w[x] (+) hw[r] /\ hw[r] = IF j \in r THEN c ELSE 0
    BY <1>2, <1>4
  <2>3. CASE x = j
    <3>1. w[x] = c /\ hw[r] = 0 /\ j \in s
      BY <2>1, <2>2, <2>3 DEF w
    <3>2. hw[s] = c
      BY <2>2, <3>1, Laws
    <3> QED  BY <3>1, <3>2
  <2>4. CASE x # j
    <3>1. w[x] = 0 /\ (j \in r <=> j \in s)
      BY <2>1, <2>4 DEF w
    <3>2. hw[r] \in F
      BY <2>2, Laws
    <3>3. hw[s] = hw[r]
      BY <2>2, <3>1, <3>2, Laws
    <3> QED  BY <2>2, <3>1, <3>3
  <2> QED  BY <2>3, <2>4
<1>5. \A s \in SUBSET Players : s \in T
  <2> HIDE DEF T
  <2> QED  BY <1>3, <1>4, PeelInduct
<1>6. hw[Players] = c
  BY <1>5
<1> QED  BY <1>2, <1>6 DEF w

\* What one player adds is added to the sum.
LEMMA SumWithOne ==
    ASSUME NEW j \in Players, NEW c \in F, NEW u \in [Players -> F]
    PROVE  FieldSum(Field, [q \in Players |-> IF q = j THEN u[q] (+) c ELSE u[q]])
               = FieldSum(Field, u) (+) c
<1> DEFINE w == [q \in Players |-> IF q = j THEN c ELSE 0]
<1>1. w \in [Players -> F]
  BY Laws
<1>2. [q \in Players |-> IF q = j THEN u[q] (+) c ELSE u[q]]
          = [q \in Players |-> u[q] (+) w[q]]
  BY Laws
<1>3. FieldSum(Field, w) = c
  BY SumOfOne
<1> HIDE DEF w
<1> QED  BY <1>1, <1>2, <1>3, SumOfPlus

------------------------------------------------------------------------------
\* Programs: their operations, and the objects that the registers refer to.

\* h starts with base and goes on m times as step says.
IsRun(h, m, S, base, step) ==
    /\ h \in [1 .. m + 1 -> S] /\ h[1] = base
    /\ \A k \in 1 .. m : h[k + 1] = step[k][h[k]]

\* There is such a function.
LEMMA RecursionExists ==
    ASSUME NEW m \in Nat, NEW S, NEW base \in S, NEW step \in [1 .. m -> [S -> S]]
    PROVE  \E h : IsRun(h, m, S, base, step)
<1> DEFINE D == 1 .. m + 1
           Goes(h, k) == h[k] = IF k = 1 THEN base ELSE step[k - 1][h[k - 1]]
           U == {x \in Nat : \E h \in [D -> S] : \A k \in D : k <= x => Goes(h, k)}
<1>1. 0 \in U
  <2> DEFINE h == [k \in D |-> base]
  <2>1. h \in [D -> S]
    OBVIOUS
  <2>2. \A k \in D : ~ (k <= 0)
    OBVIOUS
  <2> HIDE DEF h, Goes
  <2> QED  BY <2>1, <2>2
<1>2. ASSUME NEW x \in Nat, x \in U PROVE x + 1 \in U
  <2>1. PICK h \in [D -> S] : \A k \in D : k <= x => Goes(h, k)
    BY <1>2
  <2> DEFINE l == [k \in D |-> IF k = x + 1
                               THEN IF k = 1 THEN base ELSE step[k - 1][h[k - 1]]
                               ELSE h[k]]
  <2>2. l \in [D -> S]
    <3> SUFFICES ASSUME NEW k \in D PROVE l[k] \in S
      OBVIOUS
    <3>1. CASE k = 1
      BY <3>1
    <3>2. CASE k # 1
      <4>1. k - 1 \in 1 .. m /\ k - 1 \in D
        BY <3>2
      <4>2. step[k - 1][h[k - 1]] \in S
        BY <4>1
      <4> QED  BY <3>2, <4>2
    <3> QED  BY <3>1, <3>2
  <2>3. ASSUME NEW k \in D, k <= x + 1 PROVE Goes(l, k)
    <3>1. k # 1 => k - 1 \in D /\ k - 1 # x + 1
      BY <2>3
    <3>2. k # 1 => l[k - 1] = h[k - 1]
      BY <3>1
    <3>3. CASE k = x + 1
      BY <3>2, <3>3
    <3>4. CASE k # x + 1
      <4>1. Goes(h, k) /\ l[k] = h[k]
        BY <2>1, <2>3, <3>4
      <4> QED  BY <3>2, <4>1
    <3> QED  BY <3>3, <3>4
  <2> HIDE DEF l, Goes
  <2> QED  BY <2>2, <2>3
<1>3. m + 1 \in U
  <2> HIDE DEF U
  <2> QED  BY <1>1, <1>2, NatInduct
<1>4. PICK h \in [D -> S] : \A k \in D : k <= m + 1 => Goes(h, k)
  BY <1>3
<1>5. \A k \in 1 .. m : k + 1 \in D /\ k + 1 # 1 /\ (k + 1) - 1 = k /\ 1 \in D
  OBVIOUS
<1>6. h[1] = base
  BY <1>4
<1>7. \A k \in 1 .. m : h[k + 1] = step[k][h[k]]
  BY <1>4, <1>5
<1> QED  BY <1>6, <1>7 DEF IsRun

\* What an operation has.
LEMMA CodeFacts ==
    /\ N \in Nat \ {0} /\ 1 \in Players /\ N \in Players
    /\ Given \in Nat /\ Len(Code) \in Nat /\ Ops = 1 .. Len(Code)
    /\ \A k \in Ops :
          /\ Code[k].op \in {"plus", "minus", "cmul"} \cup Public \cup OpenKinds
          /\ Code[k].op \in {"plus", "minus"} => DOMAIN Code[k].xs = 1 .. 2
          /\ Code[k].op \in Public \cup {"cmul"} =>
                DOMAIN Code[k].xs = 1 .. 1 /\ Code[k].c \in F
          /\ Code[k].op \in OpenKinds =>
                /\ Len(Code[k].xs) \in Nat \ {0} /\ Code[k].receivers \subseteq Players
                /\ DOMAIN Code[k].xs = 1 .. Len(Code[k].xs)
          /\ \A i \in DOMAIN Code[k].xs :
                /\ Code[k].xs[i] \in Registers /\ Code[k].xs[i] < Given + k
                /\ Code[k].xs[i] - Given \notin Openings
<1>1. N \in Nat \ {0} /\ 1 \in Players /\ N \in Players
  BY BedozaAssumption DEF Players
<1>2. Given \in Nat /\ Len(Code) \in Nat /\ Ops = 1 .. Len(Code) /\ Code \in Seq(Operation)
  BY BedozaAssumption DEF Ops
<1>3. ASSUME NEW k \in Ops
      PROVE  /\ Code[k].op \in {"plus", "minus", "cmul"} \cup Public \cup OpenKinds
             /\ Code[k].op \in {"plus", "minus"} => DOMAIN Code[k].xs = 1 .. 2
             /\ Code[k].op \in Public \cup {"cmul"} =>
                   DOMAIN Code[k].xs = 1 .. 1 /\ Code[k].c \in F
             /\ Code[k].op \in OpenKinds =>
                   /\ Len(Code[k].xs) \in Nat \ {0} /\ Code[k].receivers \subseteq Players
                   /\ DOMAIN Code[k].xs = 1 .. Len(Code[k].xs)
  <2>1. Code[k] \in Operation
    BY <1>2
  <2>2. CASE Code[k] \in [op : {"plus", "minus"}, xs : [1 .. 2 -> Nat]]
    BY <2>2 DEF Public, OpenKinds
  <2>3. CASE Code[k] \in [op : Public \cup {"cmul"}, xs : [1 .. 1 -> Nat], c : Elements(Field)]
    BY <2>3 DEF Public, OpenKinds, F
  <2>4. CASE Code[k] \in [op : OpenKinds, xs : Seq(Nat) \ {<<>>}, receivers : SUBSET Players]
    <3>1. Code[k].op \in OpenKinds /\ Code[k].receivers \subseteq Players
      BY <2>4
    <3>2. Code[k].xs \in Seq(Nat) /\ Code[k].xs # <<>>
      BY <2>4
    <3>3. Len(Code[k].xs) \in Nat \ {0} /\ DOMAIN Code[k].xs = 1 .. Len(Code[k].xs)
      BY <3>2
    <3> QED  BY <3>1, <3>3 DEF Public, OpenKinds
  <2> QED  BY <2>1, <2>2, <2>3, <2>4 DEF Operation
<1>4. ASSUME NEW k \in Ops, NEW i \in DOMAIN Code[k].xs
      PROVE  /\ Code[k].xs[i] \in Registers /\ Code[k].xs[i] < Given + k
             /\ Code[k].xs[i] - Given \notin Openings
  <2>1. Code[k].xs[i] \in 1 .. Given + k - 1 /\ Code[k].xs[i] - Given \notin Openings
    BY BedozaAssumption
  <2>2. k \in 1 .. Len(Code)
    BY <1>2
  <2> HIDE DEF Ops
  <2> QED  BY <1>2, <2>1, <2>2 DEF Registers
<1> QED  BY <1>1, <1>2, <1>3, <1>4

\* Whether register r refers to the object of the operand, and of which one.
Follows(r) == r > Given /\ Code[r - Given].op \in Public
Leads(r) == Code[r - Given].xs[1]
IsObject(f) == f = [r \in Registers |-> IF Follows(r) THEN f[Leads(r)] ELSE r]

\* The operand is an earlier register, and not that of an opening.
LEMMA LeadsBack ==
    ASSUME NEW r \in Registers, Follows(r)
    PROVE  /\ Leads(r) \in Registers /\ Leads(r) < r
           /\ Leads(r) - Given \notin Openings /\ r - Given \in Ops
<1> DEFINE k == r - Given
<1>1. k \in Ops /\ Given + k = r
  BY CodeFacts DEF Follows, Registers
<1>2. DOMAIN Code[k].xs = 1 .. 1
  BY <1>1, CodeFacts DEF Follows
<1>3. 1 \in DOMAIN Code[k].xs
  BY <1>2
<1> HIDE DEF k
<1>4. /\ Code[k].xs[1] \in Registers /\ Code[k].xs[1] < Given + k
      /\ Code[k].xs[1] - Given \notin Openings
  BY <1>1, <1>3, CodeFacts
<1> USE DEF k
<1> QED  BY <1>1, <1>4 DEF Leads

\* The definition of Object determines it.
LEMMA ObjectIs == Object = [r \in Registers |-> IF Follows(r) THEN Object[Leads(r)] ELSE r]
<1> DEFINE m == Given + Len(Code)
           Goes(f, r) == f[r] = IF Follows(r) THEN f[Leads(r)] ELSE r
           U == {x \in Nat : \E f \in [Registers -> Registers] :
                    \A r \in Registers : r <= x => Goes(f, r)}
<1>1. m \in Nat /\ Registers = 1 .. m
  BY CodeFacts DEF Registers
<1> HIDE DEF m
<1>2. 0 \in U
  <2> DEFINE f == [r \in Registers |-> r]
  <2>1. f \in [Registers -> Registers]
    OBVIOUS
  <2>2. \A r \in Registers : ~ (r <= 0)
    BY <1>1
  <2> HIDE DEF f, Goes
  <2> QED  BY <2>1, <2>2
<1>3. ASSUME NEW x \in Nat, x \in U PROVE x + 1 \in U
  <2>1. PICK f \in [Registers -> Registers] : \A r \in Registers : r <= x => Goes(f, r)
    BY <1>3
  <2> DEFINE l == [r \in Registers |-> IF r = x + 1
                       THEN IF Follows(r) THEN f[Leads(r)] ELSE r ELSE f[r]]
  <2>2. l \in [Registers -> Registers]
    BY LeadsBack
  <2>3. ASSUME NEW r \in Registers, r <= x + 1 PROVE Goes(l, r)
    <3>1. Follows(r) => Leads(r) \in Registers /\ Leads(r) < r
      BY LeadsBack
    <3>2. Follows(r) => Leads(r) # x + 1
      BY <1>1, <2>3, <3>1
    <3>3. Follows(r) => l[Leads(r)] = f[Leads(r)]
      BY <3>1, <3>2
    <3>4. CASE r = x + 1
      BY <3>3, <3>4
    <3>5. CASE r # x + 1
      <4>1. r <= x
        BY <1>1, <2>3, <3>5
      <4>2. Goes(f, r) /\ l[r] = f[r]
        BY <2>1, <3>5, <4>1
      <4> QED  BY <3>3, <4>2
    <3> QED  BY <3>4, <3>5
  <2> HIDE DEF l, Goes
  <2> QED  BY <2>2, <2>3
<1>4. m \in U
  <2> HIDE DEF U
  <2> QED  BY <1>1, <1>2, <1>3, NatInduct
<1>5. PICK f \in [Registers -> Registers] : \A r \in Registers : r <= m => Goes(f, r)
  BY <1>4
<1>6. f = [r \in Registers |-> IF Follows(r) THEN f[Leads(r)] ELSE r]
  BY <1>1, <1>5
<1>7. IsObject(f)
  BY <1>6 DEF IsObject
<1>8. Object = CHOOSE l : IsObject(l)
  BY DEF Object, IsObject, Follows, Leads
<1>9. IsObject(Object)
  BY <1>7, <1>8
<1> QED  BY <1>9 DEF IsObject

\* A register refers to a register not later, which refers to itself, and is that
\* of an opening only if it is.
LEMMA ObjectFacts ==
    ASSUME NEW r \in Registers
    PROVE  /\ Object[r] \in Registers /\ Object[r] <= r
           /\ Object[Object[r]] = Object[r]
           /\ ~ Follows(r) => Object[r] = r
           /\ Follows(r) => Object[r] = Object[Leads(r)]
           /\ r - Given \notin Openings => Object[r] - Given \notin Openings
<1> DEFINE m == Given + Len(Code)
           T == {x \in Registers :
                    /\ Object[x] \in Registers /\ Object[x] <= x
                    /\ Object[Object[x]] = Object[x]
                    /\ x - Given \notin Openings => Object[x] - Given \notin Openings}
<1>1. m \in Nat /\ Registers = 1 .. m
  BY CodeFacts DEF Registers
<1> HIDE DEF m
<1>2. \A x \in Registers : Object[x] = IF Follows(x) THEN Object[Leads(x)] ELSE x
  BY ObjectIs
<1>3. ASSUME NEW x \in 1 .. m, \A y \in 1 .. m : y < x => y \in T PROVE x \in T
  <2>1. x \in Registers
    BY <1>1
  <2>2. CASE Follows(x)
    <3>1. Leads(x) \in Registers /\ Leads(x) < x /\ Leads(x) - Given \notin Openings
      BY <2>1, <2>2, LeadsBack
    <3>2. Leads(x) \in T
      BY <1>1, <1>3, <3>1
    <3>3. Object[x] = Object[Leads(x)]
      BY <1>2, <2>1, <2>2
    <3>4. Object[x] <= x
      BY <1>1, <2>1, <3>1, <3>2, <3>3
    <3> QED  BY <2>1, <3>1, <3>2, <3>3, <3>4
  <2>3. CASE ~ Follows(x)
    <3>1. Object[x] = x
      BY <1>2, <2>1, <2>3
    <3> QED  BY <1>1, <2>1, <3>1
  <2> QED  BY <2>2, <2>3
<1>4. \A x \in 1 .. m : x \in T
  <2> HIDE DEF T
  <2> QED  BY <1>1, <1>3, UpInduct
<1> QED  BY <1>1, <1>2, <1>4

\* An operand of operation k is live when a player comes to k, and stays so.
LEMMA OperandLive ==
    ASSUME NEW k \in Ops, NEW i \in DOMAIN Code[k].xs
    PROVE  Object[Code[k].xs[i]] \in Live(k)
<1> DEFINE r == Code[k].xs[i]
<1>1. r \in Registers /\ r < Given + k /\ r - Given \notin Openings
  BY CodeFacts
<1> HIDE DEF r
<1>2. /\ Object[r] \in Registers /\ Object[r] <= r /\ Object[Object[r]] = Object[r]
      /\ Object[r] - Given \notin Openings
  BY <1>1, ObjectFacts
<1>3. Given + k \in Int /\ r \in Int /\ Object[r] \in Int
  BY <1>1, <1>2, CodeFacts DEF Registers
<1>4. Object[r] < Given + k
  BY <1>1, <1>2, <1>3
<1> USE DEF r
<1> QED  BY <1>2, <1>4 DEF Live

------------------------------------------------------------------------------
\* Sharings: the contents that all players have of one, and the number it has.

IsSharing(x, v) ==
    /\ x \in [Players -> ContentsSet]
    /\ v = FieldSum(Field, [q \in Players |-> x[q].value])
    /\ \A p, q \in Players : x[q].macs[p] = MAC(Alpha[p], x[p].keys[q], x[q].value)

\* What contents have.
LEMMA ContentsFields ==
    ASSUME NEW x \in ContentsSet
    PROVE  /\ x.value \in F /\ x.keys \in [Players -> F] /\ x.macs \in [Players -> F]
           /\ \A q \in Players : x.keys[q] \in F /\ x.macs[q] \in F
           /\ x = [value |-> x.value, keys |-> x.keys, macs |-> x.macs]
BY DEF ContentsSet

\* The operations on contents give contents.
LEMMA ContentsClosed ==
    ASSUME NEW x \in ContentsSet, NEW y \in ContentsSet, NEW c \in F, NEW p \in Players
    PROVE  /\ PlusContents(x, y) \in ContentsSet
           /\ MinusContents(x, y) \in ContentsSet
           /\ CMulContents(x, c) \in ContentsSet
           /\ AddPublic(p, x, c) \in ContentsSet
           /\ AddPublic(p, x, c).value = IF p = 1 THEN x.value (+) c ELSE x.value
           /\ \A q \in Players : AddPublic(p, x, c).keys[q] =
                  IF q = 1 THEN x.keys[q] (-) (Alpha[p] (.) c) ELSE x.keys[q]
           /\ AddPublic(p, x, c).macs = x.macs
<1>1. /\ x.value \in F /\ x.keys \in [Players -> F] /\ x.macs \in [Players -> F]
      /\ y.value \in F /\ y.keys \in [Players -> F] /\ y.macs \in [Players -> F]
      /\ x = [value |-> x.value, keys |-> x.keys, macs |-> x.macs]
  BY ContentsFields
<1>2. \A a, b \in F : a (+) b \in F /\ a (-) b \in F /\ a (.) b \in F
  BY Laws
<1>3. PlusContents(x, y) \in ContentsSet
  BY <1>1, <1>2 DEF PlusContents, PlayerByPlayer, ContentsSet, (+)
<1>4. MinusContents(x, y) \in ContentsSet
  BY <1>1, <1>2 DEF MinusContents, PlayerByPlayer, ContentsSet, (-)
<1>5. CMulContents(x, c) \in ContentsSet
  BY <1>1, <1>2 DEF CMulContents, ContentsSet, (.)
<1> DEFINE value == IF p = 1 THEN x.value (+) c ELSE x.value
           key == x.keys[1] (-) (Alpha[p] (.) c)
<1>6. AddPublic(p, x, c) =
          [value |-> value, keys |-> [x.keys EXCEPT ![1] = key], macs |-> x.macs]
  <2>1. AddPublic(p, x, c) = [x EXCEPT !.value = value, !.keys[1] = key]
    BY DEF AddPublic, (+), (-), (.)
  <2>2. PICK v \in F, g \in [Players -> F], h \in [Players -> F] :
            x = [value |-> v, keys |-> g, macs |-> h]
    BY DEF ContentsSet
  <2> HIDE DEF value, key
  <2>3. [x EXCEPT !.value = value, !.keys[1] = key]
            = [value |-> value, keys |-> [g EXCEPT ![1] = key], macs |-> h]
    <3>1. [x EXCEPT !.value = value, !.keys[1] = key]
              = [[x EXCEPT !.value = value] EXCEPT !.keys[1] = key]
      OBVIOUS
    <3>2. [x EXCEPT !.value = value] = [value |-> value, keys |-> g, macs |-> h]
      BY <2>2
    <3>3. [[value |-> value, keys |-> g, macs |-> h] EXCEPT !.keys[1] = key]
              = [value |-> value, keys |-> [g EXCEPT ![1] = key], macs |-> h]
      OBVIOUS
    <3> QED  BY <3>1, <3>2, <3>3
  <2>4. x.keys = g /\ x.macs = h
    BY <2>2
  <2> QED  BY <2>1, <2>3, <2>4
<1>7. 1 \in Players /\ Alpha[p] \in F
  BY CodeFacts, BedozaAssumption DEF F
<1>8. value \in F /\ key \in F
  BY <1>1, <1>2, <1>7
<1>9. [x.keys EXCEPT ![1] = key] \in [Players -> F]
  BY <1>1, <1>8
<1>10. AddPublic(p, x, c) \in ContentsSet
  BY <1>1, <1>6, <1>8, <1>9 DEF ContentsSet
<1>11. \A q \in Players : AddPublic(p, x, c).keys[q] =
           IF q = 1 THEN x.keys[q] (-) (Alpha[p] (.) c) ELSE x.keys[q]
  BY <1>1, <1>6
<1> QED  BY <1>3, <1>4, <1>5, <1>6, <1>10, <1>11

\* A MAC of a sum, of a difference, of a multiple, and of a number that is added
\* to with a key that makes up for it.
LEMMA MACLaws ==
    ASSUME NEW a \in F, NEW v \in F, NEW w \in F, NEW b \in F, NEW d \in F
    PROVE  /\ MAC(a, b, v) \in F
           /\ MAC(a, b, v) (+) MAC(a, d, w) = MAC(a, b (+) d, v (+) w)
           /\ MAC(a, b, v) (-) MAC(a, d, w) = MAC(a, b (-) d, v (-) w)
           /\ w (.) MAC(a, b, v) = MAC(a, w (.) b, w (.) v)
           /\ MAC(a, b (-) (a (.) w), v (+) w) = MAC(a, b, v)
<1>1. \A g, h \in F : MAC(a, g, h) = (a (.) h) (+) g /\ MAC(a, g, h) \in F
  BY Laws DEF MAC, (+), (.)
<1>2. \A g, h, i, j \in F :
          MAC(a, g, h) (+) MAC(a, i, j) = MAC(a, g (+) i, h (+) j)
  <2> SUFFICES ASSUME NEW g \in F, NEW h \in F, NEW i \in F, NEW j \in F
               PROVE  MAC(a, g, h) (+) MAC(a, i, j) = MAC(a, g (+) i, h (+) j)
    OBVIOUS
  <2>1. a (.) h \in F /\ a (.) j \in F /\ g (+) i \in F /\ h (+) j \in F
    BY Laws
  <2>2. MAC(a, g, h) (+) MAC(a, i, j) = ((a (.) h) (+) (a (.) j)) (+) (g (+) i)
    BY <1>1, <2>1, AddShuffle
  <2>3. (a (.) h) (+) (a (.) j) = a (.) (h (+) j)
    BY Laws
  <2> QED  BY <1>1, <2>1, <2>2, <2>3
<1>3. MAC(a, b, v) (-) MAC(a, d, w) = MAC(a, b (-) d, v (-) w)
  <2>1. b (-) d \in F /\ v (-) w \in F /\ (b (-) d) (+) d = b /\ (v (-) w) (+) w = v
    BY Laws
  <2>2. MAC(a, b (-) d, v (-) w) (+) MAC(a, d, w) = MAC(a, b, v)
    BY <1>2, <2>1
  <2> QED  BY <1>1, <2>1, <2>2, Difference
<1>4. w (.) MAC(a, b, v) = MAC(a, w (.) b, w (.) v)
  <2>1. a (.) v \in F /\ w (.) b \in F /\ w (.) v \in F
    BY Laws
  <2>2. w (.) ((a (.) v) (+) b) = (w (.) (a (.) v)) (+) (w (.) b)
    BY <2>1, Laws
  <2>3. w (.) (a (.) v) = (w (.) a) (.) v /\ w (.) a = a (.) w
    BY Laws
  <2>4. (a (.) w) (.) v = a (.) (w (.) v)
    BY Laws
  <2> QED  BY <1>1, <2>1, <2>2, <2>3, <2>4
<1>5. MAC(a, b (-) (a (.) w), v (+) w) = MAC(a, b, v)
  <2> DEFINE e == a (.) w
  <2>1. e \in F /\ a (.) v \in F /\ v (+) w \in F
    BY Laws
  <2>2. b (-) e \in F /\ (b (-) e) (+) e = b
    BY <2>1, Laws
  <2>3. a (.) (v (+) w) = (a (.) v) (+) e
    BY Laws
  <2> HIDE DEF e
  <2>4. e (+) (b (-) e) = b
    BY <2>1, <2>2, Laws
  <2>5. ((a (.) v) (+) e) (+) (b (-) e) = (a (.) v) (+) (e (+) (b (-) e))
    BY <2>1, <2>2, Laws
  <2>6. MAC(a, b (-) e, v (+) w) = (a (.) (v (+) w)) (+) (b (-) e)
    BY <1>1, <2>1, <2>2
  <2>7. MAC(a, b, v) = (a (.) v) (+) b
    BY <1>1
  <2>8. MAC(a, b (-) e, v (+) w) = MAC(a, b, v)
    BY <2>3, <2>4, <2>5, <2>6, <2>7
  <2> QED  BY <2>8 DEF e
<1> QED  BY <1>1, <1>2, <1>3, <1>4, <1>5

\* What a sharing has.
LEMMA SharingFacts ==
    ASSUME NEW x, NEW v, IsSharing(x, v)
    PROVE  /\ v \in F
           /\ [q \in Players |-> x[q].value] \in [Players -> F]
           /\ \A p \in Players :
                 x[p] \in ContentsSet /\ x[p].value \in F /\ Alpha[p] \in F
           /\ \A p, q \in Players :
                 /\ x[p].keys[q] \in F /\ x[p].macs[q] \in F
                 /\ x[q].macs[p] = MAC(Alpha[p], x[p].keys[q], x[q].value)
<1>1. \A p \in Players : x[p] \in ContentsSet
  BY DEF IsSharing
<1>2. \A p \in Players : x[p].value \in F
  BY <1>1, ContentsFields
<1>3. \A p, q \in Players : x[p].keys[q] \in F /\ x[p].macs[q] \in F
  BY <1>1, ContentsFields
<1>4. \A p \in Players : Alpha[p] \in F
  BY BedozaAssumption DEF F
<1>5. v \in F
  BY <1>2, SumInField DEF IsSharing
<1> QED  BY <1>1, <1>2, <1>3, <1>4, <1>5 DEF IsSharing

\* A share of 0 at everybody.
LEMMA NothingShared == IsSharing([p \in Players |-> Nothing], 0)
<1>1. 0 \in F
  BY Laws
<1>2. [p \in Players |-> Nothing] \in [Players -> ContentsSet]
  BY <1>1 DEF Nothing, Zeros, ContentsSet
<1>3. FieldSum(Field, [q \in Players |-> [p \in Players |-> Nothing][q].value]) = 0
  <2>1. [q \in Players |-> [p \in Players |-> Nothing][q].value]
            = [q \in Players |-> IF q = 1 THEN 0 ELSE 0]
    BY DEF Nothing
  <2> QED  BY <1>1, <2>1, SumOfOne, CodeFacts
<1>4. ASSUME NEW p \in Players PROVE MAC(Alpha[p], 0, 0) = 0
  <2>1. Alpha[p] \in F
    BY BedozaAssumption DEF F
  <2>2. Alpha[p] (.) 0 = 0 /\ 0 (+) 0 = 0
    BY <1>1, <2>1, Signs, Laws
  <2> QED  BY <2>2 DEF MAC, (+), (.)
<1> QED  BY <1>2, <1>3, <1>4 DEF IsSharing, Nothing, Zeros

\* The sharings a program starts with.
LEMMA GivenShared ==
    ASSUME NEW o \in 1 .. Given
    PROVE  IsSharing([p \in Players |-> GivenContents(p, o)], FieldSum(Field, StartValue[o]))
<1>1. /\ StartValue[o] \in [Players -> F]
      /\ \A p \in Players : Alpha[p] \in F /\ StartKey[o][p] \in [Players -> F]
  BY BedozaAssumption DEF F
<1>2. \A p, q \in Players : MAC(Alpha[q], StartKey[o][q][p], StartValue[o][p]) \in F
  BY <1>1, MACLaws
<1>3. \A p \in Players : GivenContents(p, o) \in ContentsSet
  BY <1>1, <1>2 DEF GivenContents, ContentsSet
<1>4. [q \in Players |-> [p \in Players |-> GivenContents(p, o)][q].value] = StartValue[o]
  BY <1>1 DEF GivenContents
<1> QED  BY <1>3, <1>4 DEF IsSharing, GivenContents

\* The sum of two sharings, at each player the sum of what it has of them.
LEMMA PlusShared ==
    ASSUME NEW x, NEW v, IsSharing(x, v), NEW y, NEW w, IsSharing(y, w)
    PROVE  IsSharing([p \in Players |-> PlusContents(x[p], y[p])], v (+) w)
<1> DEFINE z == [p \in Players |-> PlusContents(x[p], y[p])]
           xv == [q \in Players |-> x[q].value]
           yv == [q \in Players |-> y[q].value]
<1>1. /\ xv \in [Players -> F] /\ yv \in [Players -> F]
      /\ \A p \in Players : x[p] \in ContentsSet /\ y[p] \in ContentsSet /\ Alpha[p] \in F
      /\ \A p \in Players : x[p].value \in F /\ y[p].value \in F
  BY SharingFacts
<1>2. \A p, q \in Players :
          /\ x[p].keys[q] \in F /\ y[p].keys[q] \in F
          /\ x[q].macs[p] = MAC(Alpha[p], x[p].keys[q], x[q].value)
          /\ y[q].macs[p] = MAC(Alpha[p], y[p].keys[q], y[q].value)
  BY SharingFacts
<1>3. \A p \in Players :
          /\ z[p].value = x[p].value (+) y[p].value
          /\ \A q \in Players : /\ z[p].keys[q] = x[p].keys[q] (+) y[p].keys[q]
                                /\ z[p].macs[q] = x[p].macs[q] (+) y[p].macs[q]
  BY DEF PlusContents, PlayerByPlayer, (+)
<1>4. z \in [Players -> ContentsSet]
  <2>1. 0 \in F
    BY Laws
  <2> QED  BY <1>1, <2>1, ContentsClosed
<1> HIDE DEF z
<1>5. v (+) w = FieldSum(Field, [q \in Players |-> z[q].value])
  <2>1. [q \in Players |-> z[q].value] = [q \in Players |-> xv[q] (+) yv[q]]
    BY <1>3
  <2>2. v = FieldSum(Field, xv) /\ w = FieldSum(Field, yv)
    BY DEF IsSharing
  <2> HIDE DEF xv, yv
  <2> QED  BY <1>1, <2>1, <2>2, SumOfPlus
<1>6. ASSUME NEW p \in Players, NEW q \in Players
      PROVE  z[q].macs[p] = MAC(Alpha[p], z[p].keys[q], z[q].value)
  <2>1. z[q].macs[p] = MAC(Alpha[p], x[p].keys[q], x[q].value)
                           (+) MAC(Alpha[p], y[p].keys[q], y[q].value)
    BY <1>2, <1>3
  <2>2. /\ Alpha[p] \in F /\ x[p].keys[q] \in F /\ x[q].value \in F
        /\ y[p].keys[q] \in F /\ y[q].value \in F
    BY <1>1, <1>2
  <2>4. \A i, j, k, l, m \in F : MAC(i, j, l) (+) MAC(i, k, m) = MAC(i, j (+) k, l (+) m)
    BY MACLaws
  <2>3. MAC(Alpha[p], x[p].keys[q], x[q].value) (+) MAC(Alpha[p], y[p].keys[q], y[q].value)
            = MAC(Alpha[p], x[p].keys[q] (+) y[p].keys[q], x[q].value (+) y[q].value)
    <3> DEFINE a == Alpha[p]
               b == x[p].keys[q]
               d == y[p].keys[q]
               g == x[q].value
               h == y[q].value
    <3>1. a \in F /\ b \in F /\ d \in F /\ g \in F /\ h \in F
      BY <2>2
    <3> HIDE DEF a, b, d, g, h
    <3>2. MAC(a, b, g) (+) MAC(a, d, h) = MAC(a, b (+) d, g (+) h)
      BY <2>4, <3>1
    <3> QED  BY <3>2 DEF a, b, d, g, h
  <2> QED  BY <1>3, <2>1, <2>3
<1>7. IsSharing(z, v (+) w)
  BY <1>4, <1>5, <1>6 DEF IsSharing
<1> QED  BY <1>7 DEF z

\* The difference of two sharings.
LEMMA MinusShared ==
    ASSUME NEW x, NEW v, IsSharing(x, v), NEW y, NEW w, IsSharing(y, w)
    PROVE  IsSharing([p \in Players |-> MinusContents(x[p], y[p])], v (-) w)
<1> DEFINE z == [p \in Players |-> MinusContents(x[p], y[p])]
           xv == [q \in Players |-> x[q].value]
           yv == [q \in Players |-> y[q].value]
<1>1. /\ xv \in [Players -> F] /\ yv \in [Players -> F]
      /\ \A p \in Players : x[p] \in ContentsSet /\ y[p] \in ContentsSet /\ Alpha[p] \in F
      /\ \A p \in Players : x[p].value \in F /\ y[p].value \in F
  BY SharingFacts
<1>2. \A p, q \in Players :
          /\ x[p].keys[q] \in F /\ y[p].keys[q] \in F
          /\ x[q].macs[p] = MAC(Alpha[p], x[p].keys[q], x[q].value)
          /\ y[q].macs[p] = MAC(Alpha[p], y[p].keys[q], y[q].value)
  BY SharingFacts
<1>3. \A p \in Players :
          /\ z[p].value = x[p].value (-) y[p].value
          /\ \A q \in Players : /\ z[p].keys[q] = x[p].keys[q] (-) y[p].keys[q]
                                /\ z[p].macs[q] = x[p].macs[q] (-) y[p].macs[q]
  BY DEF MinusContents, PlayerByPlayer, (-)
<1>4. z \in [Players -> ContentsSet]
  <2>1. 0 \in F
    BY Laws
  <2> QED  BY <1>1, <2>1, ContentsClosed
<1> HIDE DEF z
<1>5. v (-) w = FieldSum(Field, [q \in Players |-> z[q].value])
  <2>1. [q \in Players |-> z[q].value] = [q \in Players |-> xv[q] (-) yv[q]]
    BY <1>3
  <2>2. v = FieldSum(Field, xv) /\ w = FieldSum(Field, yv)
    BY DEF IsSharing
  <2> HIDE DEF xv, yv
  <2> QED  BY <1>1, <2>1, <2>2, SumOfMinus
<1>6. ASSUME NEW p \in Players, NEW q \in Players
      PROVE  z[q].macs[p] = MAC(Alpha[p], z[p].keys[q], z[q].value)
  <2>1. z[q].macs[p] = MAC(Alpha[p], x[p].keys[q], x[q].value)
                           (-) MAC(Alpha[p], y[p].keys[q], y[q].value)
    BY <1>2, <1>3
  <2>2. /\ Alpha[p] \in F /\ x[p].keys[q] \in F /\ x[q].value \in F
        /\ y[p].keys[q] \in F /\ y[q].value \in F
    BY <1>1, <1>2
  <2>4. \A i, j, k, l, m \in F : MAC(i, j, l) (-) MAC(i, k, m) = MAC(i, j (-) k, l (-) m)
    BY MACLaws
  <2>3. MAC(Alpha[p], x[p].keys[q], x[q].value) (-) MAC(Alpha[p], y[p].keys[q], y[q].value)
            = MAC(Alpha[p], x[p].keys[q] (-) y[p].keys[q], x[q].value (-) y[q].value)
    <3> DEFINE a == Alpha[p]
               b == x[p].keys[q]
               d == y[p].keys[q]
               g == x[q].value
               h == y[q].value
    <3>1. a \in F /\ b \in F /\ d \in F /\ g \in F /\ h \in F
      BY <2>2
    <3> HIDE DEF a, b, d, g, h
    <3>2. MAC(a, b, g) (-) MAC(a, d, h) = MAC(a, b (-) d, g (-) h)
      BY <2>4, <3>1
    <3> QED  BY <3>2 DEF a, b, d, g, h
  <2> QED  BY <1>3, <2>1, <2>3
<1>7. IsSharing(z, v (-) w)
  BY <1>4, <1>5, <1>6 DEF IsSharing
<1> QED  BY <1>7 DEF z

\* A multiple of a sharing.
LEMMA MultipleShared ==
    ASSUME NEW x, NEW v, IsSharing(x, v), NEW c \in F
    PROVE  IsSharing([p \in Players |-> CMulContents(x[p], c)], c (.) v)
<1> DEFINE z == [p \in Players |-> CMulContents(x[p], c)]
           xv == [q \in Players |-> x[q].value]
<1>1. /\ xv \in [Players -> F]
      /\ \A p \in Players : x[p] \in ContentsSet /\ Alpha[p] \in F
      /\ \A p \in Players : x[p].value \in F
  BY SharingFacts
<1>2. \A p, q \in Players :
          /\ x[p].keys[q] \in F
          /\ x[q].macs[p] = MAC(Alpha[p], x[p].keys[q], x[q].value)
  BY SharingFacts
<1>3. \A p \in Players :
          /\ z[p].value = c (.) x[p].value
          /\ \A q \in Players : /\ z[p].keys[q] = c (.) x[p].keys[q]
                                /\ z[p].macs[q] = c (.) x[p].macs[q]
  BY DEF CMulContents, (.)
<1>4. z \in [Players -> ContentsSet]
  BY <1>1, ContentsClosed
<1> HIDE DEF z
<1>5. c (.) v = FieldSum(Field, [q \in Players |-> z[q].value])
  <2>1. [q \in Players |-> z[q].value] = [q \in Players |-> c (.) xv[q]]
    BY <1>3
  <2>2. v = FieldSum(Field, xv)
    BY DEF IsSharing
  <2> HIDE DEF xv
  <2> QED  BY <1>1, <2>1, <2>2, SumOfMultiples
<1>6. ASSUME NEW p \in Players, NEW q \in Players
      PROVE  z[q].macs[p] = MAC(Alpha[p], z[p].keys[q], z[q].value)
  <2>1. z[q].macs[p] = c (.) MAC(Alpha[p], x[p].keys[q], x[q].value)
    BY <1>2, <1>3
  <2>2. z[p].keys[q] = c (.) x[p].keys[q] /\ z[q].value = c (.) x[q].value
    BY <1>3
  <2>3. Alpha[p] \in F /\ x[p].keys[q] \in F /\ x[q].value \in F
    BY <1>1, <1>2
  <2>5. \A a, b, g \in F : c (.) MAC(a, b, g) = MAC(a, c (.) b, c (.) g)
    BY MACLaws
  <2>4. c (.) MAC(Alpha[p], x[p].keys[q], x[q].value)
            = MAC(Alpha[p], c (.) x[p].keys[q], c (.) x[q].value)
    BY <2>3, <2>5
  <2> QED  BY <2>1, <2>2, <2>4
<1>7. IsSharing(z, c (.) v)
  BY <1>4, <1>5, <1>6 DEF IsSharing
<1> QED  BY <1>7 DEF z

\* Player 1 adds a public number, and all change their keys for its share.
LEMMA PublicShared ==
    ASSUME NEW x, NEW v, IsSharing(x, v), NEW c \in F
    PROVE  IsSharing([p \in Players |-> AddPublic(p, x[p], c)], v (+) c)
<1> DEFINE z == [p \in Players |-> AddPublic(p, x[p], c)]
           xv == [q \in Players |-> x[q].value]
<1>1. /\ xv \in [Players -> F]
      /\ \A p \in Players : x[p] \in ContentsSet /\ Alpha[p] \in F
      /\ \A p \in Players : x[p].value \in F
  BY SharingFacts
<1>2. \A p, q \in Players :
          /\ x[p].keys[q] \in F
          /\ x[q].macs[p] = MAC(Alpha[p], x[p].keys[q], x[q].value)
  BY SharingFacts
<1>3. \A p \in Players :
          /\ z[p] \in ContentsSet
          /\ z[p].value = IF p = 1 THEN x[p].value (+) c ELSE x[p].value
          /\ \A q \in Players :
                /\ z[p].keys[q] = IF q = 1 THEN x[p].keys[q] (-) (Alpha[p] (.) c)
                                  ELSE x[p].keys[q]
                /\ z[p].macs[q] = x[p].macs[q]
  <2> SUFFICES ASSUME NEW p \in Players
               PROVE  /\ z[p] \in ContentsSet
                      /\ z[p].value = IF p = 1 THEN x[p].value (+) c ELSE x[p].value
                      /\ \A q \in Players :
                            /\ z[p].keys[q] =
                                  IF q = 1 THEN x[p].keys[q] (-) (Alpha[p] (.) c)
                                  ELSE x[p].keys[q]
                            /\ z[p].macs[q] = x[p].macs[q]
    OBVIOUS
  <2>1. x[p] \in ContentsSet /\ z[p] = AddPublic(p, x[p], c)
    BY <1>1
  <2> HIDE DEF z
  <2> QED  BY <2>1, ContentsClosed
<1>4. z \in [Players -> ContentsSet]
  BY <1>3
<1> HIDE DEF z
<1>5. v (+) c = FieldSum(Field, [q \in Players |-> z[q].value])
  <2>1. [q \in Players |-> z[q].value]
            = [q \in Players |-> IF q = 1 THEN xv[q] (+) c ELSE xv[q]]
    BY <1>3
  <2>2. v = FieldSum(Field, xv) /\ 1 \in Players
    BY CodeFacts DEF IsSharing
  <2> HIDE DEF xv
  <2> QED  BY <1>1, <2>1, <2>2, SumWithOne
<1>6. ASSUME NEW p \in Players, NEW q \in Players
      PROVE  z[q].macs[p] = MAC(Alpha[p], z[p].keys[q], z[q].value)
  <2>1. z[q].macs[p] = MAC(Alpha[p], x[p].keys[q], x[q].value)
    BY <1>2, <1>3
  <2>2. Alpha[p] \in F /\ x[p].keys[q] \in F /\ x[q].value \in F
    BY <1>1, <1>2
  <2>3. CASE q = 1
    <3>1. z[p].keys[q] = x[p].keys[q] (-) (Alpha[p] (.) c) /\ z[q].value = x[q].value (+) c
      BY <1>3, <2>3
    <3>3. \A a, b, g \in F : MAC(a, b (-) (a (.) c), g (+) c) = MAC(a, b, g)
      BY MACLaws
    <3>2. MAC(Alpha[p], x[p].keys[q] (-) (Alpha[p] (.) c), x[q].value (+) c)
              = MAC(Alpha[p], x[p].keys[q], x[q].value)
      BY <2>2, <3>3
    <3> QED  BY <2>1, <3>1, <3>2
  <2>4. CASE q # 1
    BY <1>3, <2>1, <2>4
  <2> QED  BY <2>3, <2>4
<1>7. IsSharing(z, v (+) c)
  BY <1>4, <1>5, <1>6 DEF IsSharing
<1> QED  BY <1>7 DEF z

------------------------------------------------------------------------------
\* What the players hold at the same operation is sharings of what the program
\* computes.

States == [Registers -> ContentsSet]

\* Where the result of operation k is.
LEMMA ResultObject ==
    ASSUME NEW k \in Ops
    PROVE  /\ k \in Nat \ {0} /\ k <= Len(Code) /\ Given + k \in Registers /\ Given + k > Given
           /\ Object[Given + k] \in Registers /\ Object[Given + k] <= Given + k
           /\ Code[k].op \in Public =>
                 Object[Given + k] = Object[Code[k].xs[1]] /\ 1 \in DOMAIN Code[k].xs
           /\ Code[k].op \notin Public => Object[Given + k] = Given + k
<1>1. /\ k \in Nat \ {0} /\ k <= Len(Code) /\ Given + k \in Registers
      /\ Given + k > Given /\ (Given + k) - Given = k
  BY CodeFacts DEF Registers
<1>2. Object[Given + k] \in Registers /\ Object[Given + k] <= Given + k
  BY <1>1, ObjectFacts
<1>3. Follows(Given + k) <=> Code[k].op \in Public
  BY <1>1 DEF Follows
<1>4. Leads(Given + k) = Code[k].xs[1]
  BY <1>1 DEF Leads
<1>5. Code[k].op \in Public =>
          Object[Given + k] = Object[Code[k].xs[1]] /\ 1 \in DOMAIN Code[k].xs
  <2>1. Code[k].op \in Public => DOMAIN Code[k].xs = 1 .. 1
    BY CodeFacts
  <2> QED  BY <1>1, <1>3, <1>4, <2>1, ObjectFacts
<1>6. Code[k].op \notin Public => Object[Given + k] = Given + k
  BY <1>1, <1>3, ObjectFacts
<1> QED  BY <1>1, <1>2, <1>5, <1>6

\* The operands an operation has.
LEMMA OperandObject ==
    ASSUME NEW k \in Ops, NEW i \in DOMAIN Code[k].xs
    PROVE  Object[Code[k].xs[i]] \in Registers
BY OperandLive DEF Live

\* The result of an operation is contents, and in the field, if all before are.
LEMMA ComputedIn ==
    ASSUME NEW p \in Players, NEW k \in Ops, NEW before \in States
    PROVE  Computed(p, k, before) \in ContentsSet
<1> DEFINE x == before[Object[Code[k].xs[1]]]
           y == before[Object[Code[k].xs[2]]]
           op == Code[k].op
           c == Code[k].c
<1>1. /\ op \in {"plus", "minus"} => x \in ContentsSet /\ y \in ContentsSet
      /\ op \in Public \cup {"cmul"} => x \in ContentsSet /\ c \in F
  <2>1. op \in {"plus", "minus"} => 1 \in DOMAIN Code[k].xs /\ 2 \in DOMAIN Code[k].xs
    BY CodeFacts
  <2>2. op \in Public \cup {"cmul"} => 1 \in DOMAIN Code[k].xs /\ c \in F
    BY CodeFacts
  <2> QED  BY <2>1, <2>2, OperandObject DEF States
<1>2. Neg(Field, 1) \in F /\ (c \in F => Neg(Field, c) \in F) /\ Nothing \in ContentsSet
  <2>1. 0 \in F /\ 1 \in F
    BY Laws
  <2>2. Nothing \in ContentsSet
    BY <2>1 DEF Nothing, Zeros, ContentsSet
  <2> QED  BY <2>1, <2>2, Laws
<1>3. Computed(p, k, before) =
          CASE op = "plus" -> PlusContents(x, y)
            [] op = "minus" -> MinusContents(x, y)
            [] op = "cmul" -> CMulContents(x, c)
            [] op = "plus_public" -> AddPublic(p, x, c)
            [] op = "minus_public_right" -> AddPublic(p, x, Neg(Field, c))
            [] op = "minus_public_left" -> AddPublic(p, CMulContents(x, Neg(Field, 1)), c)
            [] OTHER -> Nothing
  BY DEF Computed
<1> HIDE DEF x, y, op, c
<1>4. CASE op = "plus"
  BY <1>1, <1>2, <1>3, <1>4, ContentsClosed
<1>5. CASE op = "minus"
  BY <1>1, <1>2, <1>3, <1>5, ContentsClosed
<1>6. CASE op = "cmul"
  BY <1>1, <1>2, <1>3, <1>6, ContentsClosed
<1>7. CASE op = "plus_public"
  BY <1>1, <1>2, <1>3, <1>7, ContentsClosed DEF Public
<1>8. CASE op = "minus_public_right"
  BY <1>1, <1>2, <1>3, <1>8, ContentsClosed DEF Public
<1>9. CASE op = "minus_public_left"
  <2>1. x \in ContentsSet /\ c \in F
    BY <1>1, <1>9 DEF Public
  <2>2. CMulContents(x, Neg(Field, 1)) \in ContentsSet
    BY <1>2, <2>1, ContentsClosed
  <2>3. AddPublic(p, CMulContents(x, Neg(Field, 1)), c) \in ContentsSet
    BY <2>1, <2>2, ContentsClosed
  <2> QED  BY <1>3, <1>9, <2>3
<1>10. CASE op \notin {"plus", "minus", "cmul"} \cup Public
  BY <1>2, <1>3, <1>10 DEF Public
<1> QED  BY <1>4, <1>5, <1>6, <1>7, <1>8, <1>9, <1>10 DEF Public

\* The definition of Held determines what a player holds.
LEMMA HeldIs ==
    ASSUME NEW p \in Players
    PROVE  /\ Held(p) \in [1 .. Len(Code) + 1 -> States]
           /\ Held(p)[1] = AtStart(p)
           /\ \A k \in Ops : Held(p)[k + 1] = After(p, k, Held(p)[k])
<1> DEFINE K == 1 .. Len(Code) + 1
           IsHeld(h) == h = [k \in K |-> IF k = 1 THEN AtStart(p)
                                         ELSE After(p, k - 1, h[k - 1])]
           step == [k \in Ops |-> [b \in States |-> After(p, k, b)]]
<1>1. AtStart(p) \in States
  <2>1. Nothing \in ContentsSet
    BY Laws DEF Nothing, Zeros, ContentsSet
  <2>2. ASSUME NEW o \in Registers, o <= Given PROVE GivenContents(p, o) \in ContentsSet
    <3>1. o \in 1 .. Given
      BY <2>2, CodeFacts DEF Registers
    <3>2. [q \in Players |-> GivenContents(q, o)] \in [Players -> ContentsSet]
      BY <3>1, GivenShared DEF IsSharing
    <3> QED  BY <3>2
  <2> QED  BY <2>1, <2>2 DEF AtStart, States
<1>2. \A k \in Ops : \A b \in States : After(p, k, b) \in States
  <2> SUFFICES ASSUME NEW k \in Ops, NEW b \in States PROVE After(p, k, b) \in States
    OBVIOUS
  <2>1. Computed(p, k, b) \in ContentsSet
    BY ComputedIn
  <2> QED  BY <2>1 DEF After, States
<1>3. step \in [1 .. Len(Code) -> [States -> States]]
  BY <1>2, CodeFacts
<1>4. PICK h : IsRun(h, Len(Code), States, AtStart(p), step)
  <2>1. Len(Code) \in Nat
    BY CodeFacts
  <2> HIDE DEF step
  <2> QED  BY <1>1, <1>3, <2>1, RecursionExists
<1>5. IsHeld(h)
  <2>1. ASSUME NEW k \in K, k # 1 PROVE h[k] = After(p, k - 1, h[k - 1])
    <3>1. k - 1 \in Ops /\ k - 1 \in 1 .. Len(Code) /\ k - 1 \in K /\ (k - 1) + 1 = k
      BY <2>1, CodeFacts
    <3>2. h[k - 1] \in States
      BY <1>4, <3>1 DEF IsRun
    <3>3. h[k] = step[k - 1][h[k - 1]]
      BY <1>4, <3>1 DEF IsRun
    <3> QED  BY <3>1, <3>2, <3>3
  <2>2. h[1] = AtStart(p) /\ h \in [K -> States]
    BY <1>4 DEF IsRun
  <2> HIDE DEF step
  <2> QED  BY <2>1, <2>2
<1>6. Held(p) = CHOOSE b : IsHeld(b)
  BY DEF Held
<1>7. IsHeld(Held(p))
  <2> HIDE DEF IsHeld
  <2> QED  BY <1>5, <1>6
<1> DEFINE g == Held(p)
<1>8. g = [k \in K |-> IF k = 1 THEN AtStart(p) ELSE After(p, k - 1, g[k - 1])]
  BY <1>7
<1> HIDE DEF g
<1>9. g[1] = AtStart(p)
  BY <1>8, CodeFacts
<1>10. ASSUME NEW k \in Ops PROVE g[k + 1] = After(p, k, g[k])
  <2>1. k + 1 \in K /\ k + 1 # 1 /\ (k + 1) - 1 = k
    BY CodeFacts
  <2> QED  BY <1>8, <2>1
<1> DEFINE T == {k \in K : g[k] \in States}
<1>11. ASSUME NEW k \in K, \A j \in K : j < k => j \in T PROVE k \in T
  <2>1. CASE k = 1
    BY <1>1, <1>9, <2>1
  <2>2. CASE k # 1
    <3>1. k - 1 \in Ops /\ k - 1 \in K /\ k - 1 < k /\ (k - 1) + 1 = k
      BY <2>2, CodeFacts
    <3>2. g[k - 1] \in States
      BY <1>11, <3>1
    <3>3. g[k] = After(p, k - 1, g[k - 1])
      BY <1>10, <3>1
    <3> QED  BY <1>2, <3>1, <3>2, <3>3
  <2> QED  BY <2>1, <2>2
<1>12. \A k \in K : k \in T
  <2>1. Len(Code) + 1 \in Nat
    BY CodeFacts
  <2> HIDE DEF T
  <2> QED  BY <1>11, <2>1, UpInduct
<1>13. g \in [K -> States]
  BY <1>8, <1>12
<1> QED  BY <1>9, <1>10, <1>13 DEF g

\* What the program computes, step by step.
IdealStart == [o \in Registers |-> IF o > Given THEN 0 ELSE FieldSum(Field, StartValue[o])]

IdealResult(k, before) ==
    LET op == Code[k]
        x(i) == before[Object[op.xs[i]]]
    IN  CASE op.op = "plus" -> Add(Field, x(1), x(2))
          [] op.op = "minus" -> Sub(Field, x(1), x(2))
          [] op.op = "cmul" -> Mul(Field, x(1), op.c)
          [] op.op = "plus_public" -> Add(Field, x(1), op.c)
          [] op.op = "minus_public_right" -> Sub(Field, x(1), op.c)
          [] op.op = "minus_public_left" -> Sub(Field, op.c, x(1))
          [] OTHER -> 0

IdealAfter(k, before) == [before EXCEPT ![Object[Given + k]] = IdealResult(k, before)]

\* The result of operation k, by the kind of operation.
LEMMA IdealResultIn ==
    ASSUME NEW k \in Ops, NEW before \in [Registers -> F]
    PROVE  IdealResult(k, before) \in F
<1> DEFINE x == before[Object[Code[k].xs[1]]]
           y == before[Object[Code[k].xs[2]]]
           op == Code[k].op
           c == Code[k].c
<1>1. /\ op \in {"plus", "minus"} => x \in F /\ y \in F
      /\ op \in Public \cup {"cmul"} => x \in F /\ c \in F
  <2>1. op \in {"plus", "minus"} => 1 \in DOMAIN Code[k].xs /\ 2 \in DOMAIN Code[k].xs
    BY CodeFacts
  <2>2. op \in Public \cup {"cmul"} => 1 \in DOMAIN Code[k].xs /\ c \in F
    BY CodeFacts
  <2> QED  BY <2>1, <2>2, OperandObject
<1>2. IdealResult(k, before) =
          CASE op = "plus" -> x (+) y
            [] op = "minus" -> x (-) y
            [] op = "cmul" -> x (.) c
            [] op = "plus_public" -> x (+) c
            [] op = "minus_public_right" -> x (-) c
            [] op = "minus_public_left" -> c (-) x
            [] OTHER -> 0
  BY DEF IdealResult, (+), (-), (.)
<1> HIDE DEF x, y, op, c
<1>3. 0 \in F /\ \A a, b \in F : a (+) b \in F /\ a (-) b \in F /\ a (.) b \in F
  BY Laws
<1>4. CASE op \in {"plus", "minus"}
  BY <1>1, <1>2, <1>3, <1>4
<1>5. CASE op \in Public \cup {"cmul"}
  BY <1>1, <1>2, <1>3, <1>5 DEF Public
<1>6. CASE op \notin {"plus", "minus", "cmul"} \cup Public
  BY <1>2, <1>3, <1>6 DEF Public
<1> QED  BY <1>4, <1>5, <1>6

\* The definition of Ideal determines it.
LEMMA IdealIs ==
    /\ Ideal \in [1 .. Len(Code) + 1 -> [Registers -> F]]
    /\ Ideal[1] = IdealStart
    /\ \A k \in Ops : Ideal[k + 1] = IdealAfter(k, Ideal[k])
<1> DEFINE K == 1 .. Len(Code) + 1
           S == [Registers -> F]
           IsIdeal(h) == h = [k \in K |-> IF k = 1 THEN IdealStart
                                          ELSE IdealAfter(k - 1, h[k - 1])]
           step == [k \in Ops |-> [b \in S |-> IdealAfter(k, b)]]
<1>1. IdealStart \in S
  <2>1. ASSUME NEW o \in Registers, ~ (o > Given) PROVE FieldSum(Field, StartValue[o]) \in F
    <3>1. o \in 1 .. Given
      BY <2>1, CodeFacts DEF Registers
    <3>2. StartValue[o] \in [Players -> F]
      BY <3>1, BedozaAssumption DEF F
    <3> QED  BY <3>2, SumInField
  <2>2. 0 \in F
    BY Laws
  <2> QED  BY <2>1, <2>2 DEF IdealStart
<1>2. \A k \in Ops : \A b \in S : IdealAfter(k, b) \in S
  <2> SUFFICES ASSUME NEW k \in Ops, NEW b \in S PROVE IdealAfter(k, b) \in S
    OBVIOUS
  <2>1. IdealResult(k, b) \in F
    BY IdealResultIn
  <2> QED  BY <2>1 DEF IdealAfter
<1>3. step \in [1 .. Len(Code) -> [S -> S]]
  BY <1>2, CodeFacts
<1>4. PICK h : IsRun(h, Len(Code), S, IdealStart, step)
  <2>1. Len(Code) \in Nat
    BY CodeFacts
  <2> HIDE DEF step
  <2> QED  BY <1>1, <1>3, <2>1, RecursionExists
<1>5. IsIdeal(h)
  <2>1. ASSUME NEW k \in K, k # 1 PROVE h[k] = IdealAfter(k - 1, h[k - 1])
    <3>1. k - 1 \in Ops /\ k - 1 \in 1 .. Len(Code) /\ k - 1 \in K /\ (k - 1) + 1 = k
      BY <2>1, CodeFacts
    <3>2. h[k - 1] \in S
      BY <1>4, <3>1 DEF IsRun
    <3>3. h[k] = step[k - 1][h[k - 1]]
      BY <1>4, <3>1 DEF IsRun
    <3> QED  BY <3>1, <3>2, <3>3
  <2>2. h[1] = IdealStart /\ h \in [K -> S]
    BY <1>4 DEF IsRun
  <2> HIDE DEF step
  <2> QED  BY <2>1, <2>2
<1>6. Ideal = CHOOSE b : IsIdeal(b)
  <2>1. ASSUME NEW k \in K PROVE Given + k - 1 = Given + (k - 1)
    BY CodeFacts
  <2>2. \A b : IsIdeal(b) <=>
            b = [k \in K |->
                    IF k = 1 THEN IdealStart
                    ELSE [b[k - 1] EXCEPT
                             ![Object[Given + k - 1]] = IdealResult(k - 1, b[k - 1])]]
    BY <2>1 DEF IdealAfter
  <2>3. Ideal = CHOOSE b :
            b = [k \in K |->
                    IF k = 1 THEN IdealStart
                    ELSE [b[k - 1] EXCEPT
                             ![Object[Given + k - 1]] = IdealResult(k - 1, b[k - 1])]]
    BY DEF Ideal, IdealStart, IdealResult
  <2> HIDE DEF IsIdeal
  <2> QED  BY <2>2, <2>3
<1>7. IsIdeal(Ideal)
  <2> HIDE DEF IsIdeal
  <2> QED  BY <1>5, <1>6
<1> DEFINE g == Ideal
<1>8. g = [k \in K |-> IF k = 1 THEN IdealStart ELSE IdealAfter(k - 1, g[k - 1])]
  BY <1>7
<1> HIDE DEF g
<1>9. g[1] = IdealStart
  BY <1>8, CodeFacts
<1>10. ASSUME NEW k \in Ops PROVE g[k + 1] = IdealAfter(k, g[k])
  <2>1. k + 1 \in K /\ k + 1 # 1 /\ (k + 1) - 1 = k
    BY CodeFacts
  <2> QED  BY <1>8, <2>1
<1> DEFINE T == {k \in K : g[k] \in S}
<1>11. ASSUME NEW k \in K, \A j \in K : j < k => j \in T PROVE k \in T
  <2>1. CASE k = 1
    BY <1>1, <1>9, <2>1
  <2>2. CASE k # 1
    <3>1. k - 1 \in Ops /\ k - 1 \in K /\ k - 1 < k /\ (k - 1) + 1 = k
      BY <2>2, CodeFacts
    <3>2. g[k - 1] \in S
      BY <1>11, <3>1
    <3>3. g[k] = IdealAfter(k - 1, g[k - 1])
      BY <1>10, <3>1
    <3> QED  BY <1>2, <3>1, <3>2, <3>3
  <2> QED  BY <2>1, <2>2
<1>12. \A k \in K : k \in T
  <2>1. Len(Code) + 1 \in Nat
    BY CodeFacts
  <2> HIDE DEF T
  <2> QED  BY <1>11, <2>1, UpInduct
<1>13. g \in [K -> S]
  BY <1>8, <1>12
<1> QED  BY <1>9, <1>10, <1>13 DEF g

\* If sharings of v are held before operation k, one of its result is held after.
LEMMA ComputedShared ==
    ASSUME NEW k \in Ops, NEW b \in [Players -> States], NEW v \in [Registers -> F],
           \A o \in Registers : IsSharing([p \in Players |-> b[p][o]], v[o])
    PROVE  IsSharing([p \in Players |-> Computed(p, k, b[p])], IdealResult(k, v))
<1> DEFINE o1 == Object[Code[k].xs[1]]
           o2 == Object[Code[k].xs[2]]
           x == [p \in Players |-> b[p][o1]]
           y == [p \in Players |-> b[p][o2]]
           op == Code[k].op
           c == Code[k].c
           Result(p) ==
               CASE op = "plus" -> PlusContents(x[p], y[p])
                 [] op = "minus" -> MinusContents(x[p], y[p])
                 [] op = "cmul" -> CMulContents(x[p], c)
                 [] op = "plus_public" -> AddPublic(p, x[p], c)
                 [] op = "minus_public_right" -> AddPublic(p, x[p], Neg(Field, c))
                 [] op = "minus_public_left" ->
                       AddPublic(p, CMulContents(x[p], Neg(Field, 1)), c)
                 [] OTHER -> Nothing
           z == [p \in Players |-> Result(p)]
           w == IdealResult(k, v)
<1>1. /\ op \in {"plus", "minus"} => IsSharing(x, v[o1]) /\ IsSharing(y, v[o2])
      /\ op \in Public \cup {"cmul"} => IsSharing(x, v[o1]) /\ c \in F
  <2>1. op \in {"plus", "minus"} => 1 \in DOMAIN Code[k].xs /\ 2 \in DOMAIN Code[k].xs
    BY CodeFacts
  <2>2. op \in Public \cup {"cmul"} => 1 \in DOMAIN Code[k].xs /\ c \in F
    BY CodeFacts
  <2> QED  BY <2>1, <2>2, OperandObject
<1>2. w = CASE op = "plus" -> v[o1] (+) v[o2]
            [] op = "minus" -> v[o1] (-) v[o2]
            [] op = "cmul" -> v[o1] (.) c
            [] op = "plus_public" -> v[o1] (+) c
            [] op = "minus_public_right" -> v[o1] (-) c
            [] op = "minus_public_left" -> c (-) v[o1]
            [] OTHER -> 0
  BY DEF IdealResult, (+), (-), (.)
<1>3. [p \in Players |-> Computed(p, k, b[p])] = z
  BY DEF Computed
<1> HIDE DEF w, x, y, op, c, o1, o2
<1>4. CASE op = "plus"
  <2>1. z = [p \in Players |-> PlusContents(x[p], y[p])] /\ w = v[o1] (+) v[o2]
    BY <1>2, <1>4
  <2>2. IsSharing([p \in Players |-> PlusContents(x[p], y[p])], v[o1] (+) v[o2])
    BY <1>1, <1>4, PlusShared
  <2> QED  BY <1>3, <2>1, <2>2 DEF w
<1>5. CASE op = "minus"
  <2>1. z = [p \in Players |-> MinusContents(x[p], y[p])] /\ w = v[o1] (-) v[o2]
    BY <1>2, <1>5
  <2>2. IsSharing([p \in Players |-> MinusContents(x[p], y[p])], v[o1] (-) v[o2])
    BY <1>1, <1>5, MinusShared
  <2> QED  BY <1>3, <2>1, <2>2 DEF w
<1>6. CASE op = "cmul"
  <2>1. z = [p \in Players |-> CMulContents(x[p], c)] /\ w = v[o1] (.) c
    BY <1>2, <1>6
  <2>2. IsSharing([p \in Players |-> CMulContents(x[p], c)], c (.) v[o1]) /\ c \in F
    BY <1>1, <1>6, MultipleShared
  <2>3. v[o1] (.) c = c (.) v[o1]
    BY <1>1, <1>6, SharingFacts, Laws
  <2> QED  BY <1>3, <2>1, <2>2, <2>3 DEF w
<1>7. CASE op = "plus_public"
  <2>1. z = [p \in Players |-> AddPublic(p, x[p], c)] /\ w = v[o1] (+) c
    BY <1>2, <1>7
  <2>2. IsSharing([p \in Players |-> AddPublic(p, x[p], c)], v[o1] (+) c)
    BY <1>1, <1>7, PublicShared DEF Public
  <2> QED  BY <1>3, <2>1, <2>2 DEF w
<1>8. CASE op = "minus_public_right"
  <2>1. z = [p \in Players |-> AddPublic(p, x[p], Neg(Field, c))] /\ w = v[o1] (-) c
    BY <1>2, <1>8
  <2>2. IsSharing(x, v[o1]) /\ c \in F /\ Neg(Field, c) \in F /\ v[o1] \in F
    BY <1>1, <1>8, SharingFacts, Laws DEF Public
  <2>3. IsSharing([p \in Players |-> AddPublic(p, x[p], Neg(Field, c))],
                  v[o1] (+) Neg(Field, c))
    BY <2>2, PublicShared
  <2>4. v[o1] (+) Neg(Field, c) = v[o1] (-) c
    BY <2>2, SubIsAdd
  <2> QED  BY <1>3, <2>1, <2>3, <2>4 DEF w
<1>9. CASE op = "minus_public_left"
  <2> DEFINE n == Neg(Field, 1)
             m == [p \in Players |-> CMulContents(x[p], n)]
  <2>1. z = [p \in Players |-> AddPublic(p, m[p], c)] /\ w = c (-) v[o1]
    BY <1>2, <1>9
  <2>2. IsSharing(x, v[o1]) /\ c \in F /\ n \in F /\ v[o1] \in F
    BY <1>1, <1>9, SharingFacts, Laws DEF Public
  <2> HIDE DEF n
  <2>3. IsSharing(m, n (.) v[o1])
    BY <2>2, MultipleShared
  <2> HIDE DEF m
  <2>4. IsSharing([p \in Players |-> AddPublic(p, m[p], c)], (n (.) v[o1]) (+) c)
    BY <2>2, <2>3, PublicShared
  <2>5. n (.) v[o1] = Neg(Field, v[o1]) /\ Neg(Field, v[o1]) \in F
    BY <2>2, Signs, Laws DEF n
  <2>6. Neg(Field, v[o1]) (+) c = c (+) Neg(Field, v[o1])
    BY <2>2, <2>5, Laws
  <2>7. c (+) Neg(Field, v[o1]) = c (-) v[o1]
    BY <2>2, SubIsAdd
  <2> QED  BY <1>3, <2>1, <2>4, <2>5, <2>6, <2>7 DEF w
<1>10. CASE op \notin {"plus", "minus", "cmul"} \cup Public
  <2>1. z = [p \in Players |-> Nothing] /\ w = 0
    BY <1>2, <1>10 DEF Public
  <2> QED  BY <1>3, <2>1, NothingShared DEF w
<1> QED  BY <1>4, <1>5, <1>6, <1>7, <1>8, <1>9, <1>10 DEF Public

\* What all hold at the same operation is sharings of what the program computes.
LEMMA Balanced ==
    ASSUME NEW k \in 1 .. Len(Code) + 1, NEW o \in Registers
    PROVE  IsSharing([p \in Players |-> Held(p)[k][o]], Ideal[k][o])
<1> DEFINE K == 1 .. Len(Code) + 1
           x(j, i) == [p \in Players |-> Held(p)[j][i]]
           T == {j \in K : \A i \in Registers : IsSharing(x(j, i), Ideal[j][i])}
<1>1. ASSUME NEW j \in K, \A l \in K : l < j => l \in T PROVE j \in T
  <2> SUFFICES ASSUME NEW i \in Registers PROVE IsSharing(x(j, i), Ideal[j][i])
    OBVIOUS
  <2>1. CASE j = 1
    <3>1. Ideal[j][i] = IF i > Given THEN 0 ELSE FieldSum(Field, StartValue[i])
      BY <2>1, IdealIs DEF IdealStart
    <3>2. x(j, i) = [p \in Players |-> IF i <= Given THEN GivenContents(p, i) ELSE Nothing]
      BY <2>1, HeldIs DEF AtStart
    <3>3. i \in Nat /\ Given \in Nat /\ (i <= Given => i \in 1 .. Given)
      BY CodeFacts DEF Registers
    <3>4. CASE i <= Given
      <4>1. x(j, i) = [p \in Players |-> GivenContents(p, i)]
        BY <3>2, <3>4
      <4>2. Ideal[j][i] = FieldSum(Field, StartValue[i])
        BY <3>1, <3>3, <3>4
      <4> QED  BY <3>3, <3>4, <4>1, <4>2, GivenShared
    <3>5. CASE ~ (i <= Given)
      <4>1. x(j, i) = [p \in Players |-> Nothing]
        BY <3>2, <3>5
      <4>2. Ideal[j][i] = 0
        BY <3>1, <3>3, <3>5
      <4> QED  BY <4>1, <4>2, NothingShared
    <3> QED  BY <3>4, <3>5
  <2>2. CASE j # 1
    <3> DEFINE l == j - 1
               b == [p \in Players |-> Held(p)[l]]
               r == Object[Given + l]
    <3>1. l \in Ops /\ l \in K /\ l < j /\ l + 1 = j
      BY <2>2, CodeFacts
    <3> HIDE DEF l
    <3>2. \A p \in Players : Held(p)[l] \in States /\ Held(p)[j] = After(p, l, Held(p)[l])
      BY <3>1, HeldIs
    <3>3. Ideal[j] = IdealAfter(l, Ideal[l]) /\ Ideal[l] \in [Registers -> F]
      BY <3>1, IdealIs
    <3>4. b \in [Players -> States]
      BY <3>2
    <3>5. l \in T
      BY <1>1, <3>1
    <3>6. \A h \in Registers : IsSharing([p \in Players |-> b[p][h]], Ideal[l][h])
      <4> SUFFICES ASSUME NEW h \in Registers
                   PROVE  IsSharing([p \in Players |-> b[p][h]], Ideal[l][h])
        OBVIOUS
      <4>1. IsSharing(x(l, h), Ideal[l][h])
        BY <3>5
      <4>2. x(l, h) = [p \in Players |-> b[p][h]]
        OBVIOUS
      <4> QED  BY <4>1, <4>2
    <3>7. CASE i = r
      <4>1. x(j, i) = [p \in Players |-> Computed(p, l, b[p])]
        <5>1. ASSUME NEW p \in Players PROVE Held(p)[j][i] = Computed(p, l, b[p])
          BY <3>2, <3>7 DEF After, States
        <5> QED  BY <5>1
      <4>2. Ideal[j][i] = IdealResult(l, Ideal[l])
        BY <3>3, <3>7 DEF IdealAfter
      <4> HIDE DEF b, x
      <4> QED  BY <3>1, <3>3, <3>4, <3>6, <4>1, <4>2, ComputedShared
    <3>8. CASE i # r
      <4>1. x(j, i) = [p \in Players |-> b[p][i]]
        <5>1. ASSUME NEW p \in Players PROVE Held(p)[j][i] = b[p][i]
          BY <3>2, <3>8 DEF After, States
        <5> QED  BY <5>1
      <4>2. Ideal[j][i] = Ideal[l][i]
        BY <3>3, <3>8 DEF IdealAfter
      <4> QED  BY <3>6, <4>1, <4>2
    <3> QED  BY <3>7, <3>8
  <2> QED  BY <2>1, <2>2
<1>2. \A j \in K : j \in T
  <2>1. Len(Code) + 1 \in Nat
    BY CodeFacts
  <2> HIDE DEF T
  <2> QED  BY <1>1, <2>1, UpInduct
<1> QED  BY <1>2

------------------------------------------------------------------------------
\* The invariant holds at first, and every step keeps it.

\* What a player holds after operation k.
LEMMA HeldStep ==
    ASSUME NEW p \in Players, NEW k \in Ops
    PROVE  /\ Held(p)[k] \in States
           /\ Held(p)[k + 1][Object[Given + k]] = Computed(p, k, Held(p)[k])
           /\ Computed(p, k, Held(p)[k]) \in ContentsSet
           /\ \A o \in Registers : o # Object[Given + k] => Held(p)[k + 1][o] = Held(p)[k][o]
<1>1. k \in 1 .. Len(Code) + 1
  BY CodeFacts
<1>2. Held(p)[k] \in States /\ Held(p)[k + 1] = After(p, k, Held(p)[k])
  BY <1>1, HeldIs
<1>3. Object[Given + k] \in Registers
  BY ResultObject
<1>4. Computed(p, k, Held(p)[k]) \in ContentsSet
  BY <1>2, ComputedIn
<1> QED  BY <1>2, <1>3, <1>4 DEF After, States

\* The objects that are live after operation k.
LEMMA LiveStep ==
    ASSUME NEW k \in Ops
    PROVE  /\ \A o \in Live(k) : o \in Registers /\ o < Given + k /\ o # Given + k
           /\ \A o \in Live(k + 1) : \/ o \in Live(k)
                                     \/ o = Given + k /\ o = Object[Given + k]
                                           /\ k \notin Openings
<1>1. Given + k \in Nat /\ Given \in Nat /\ k \in Nat /\ (Given + k) - Given = k
  BY CodeFacts
<1>2. Registers \subseteq Nat
  BY CodeFacts DEF Registers
<1>3. \A o \in Live(k) : o \in Registers /\ o < Given + k /\ o # Given + k
  BY <1>1, <1>2 DEF Live
<1>4. ASSUME NEW o \in Live(k + 1), o \notin Live(k)
      PROVE  o = Given + k /\ o = Object[Given + k] /\ k \notin Openings
  <2>1. /\ o \in Registers /\ o < Given + (k + 1) /\ Object[o] = o
        /\ o - Given \notin Openings
    BY <1>4 DEF Live
  <2>2. ~ (o < Given + k)
    BY <1>4, <2>1 DEF Live
  <2>3. o = Given + k
    BY <1>1, <1>2, <2>1, <2>2
  <2> QED  BY <1>1, <2>1, <2>3
<1> QED  BY <1>3, <1>4

\* A player that comes to operation k finds in its operands what it is to hold.
LEMMA HoldsOperand ==
    ASSUME IInv, NEW p \in Players, next[p] \in Ops, NEW i \in DOMAIN Code[next[p]].xs
    PROVE  /\ Object[Code[next[p]].xs[i]] \in Live(next[p])
           /\ Contents(p, Object[Code[next[p]].xs[i]]) = Operand(p, next[p], i)
           /\ Operand(p, next[p], i) \in ContentsSet
<1> DEFINE k == next[p]
           o == Object[Code[k].xs[i]]
<1>1. o \in Live(k)
  BY OperandLive
<1>2. Contents(p, o) = Held(p)[k][o]
  BY <1>1 DEF IInv, HoldInv, Holds
<1>3. Held(p)[k] \in States /\ o \in Registers
  BY <1>1, HeldStep DEF Live
<1>4. Held(p)[k][o] \in ContentsSet
  BY <1>3 DEF States
<1> QED  BY <1>1, <1>2, <1>4 DEF Operand

\* The other players hold what they did.
LEMMA HoldStep ==
    ASSUME IInv, NEW p \in Players, next[p] \in Ops, next[p] \notin Openings,
           NEW list,
           LET o == Object[Given + next[p]] IN
           /\ \/ list = Given + next[p]
              \/ o \in Live(next[p]) /\ list = shares[p][o].list
           /\ Hold(p, o, list, Computed(p, next[p], Held(p)[next[p]])),
           Advance(p)
    PROVE  HoldInv' /\ next' \in [Players -> 1 .. Len(Code) + 1]
<1>0. PICK k \in Ops : k = next[p]
  OBVIOUS
<1> DEFINE o == Object[Given + k]
           x == Computed(p, k, Held(p)[k])
<1>1. /\ k \in Nat \ {0} /\ k <= Len(Code) /\ Len(Code) \in Nat
      /\ Given + k \in Registers /\ Given + k \in Nat /\ o \in Registers
      /\ Object[o] = o
  BY ResultObject, CodeFacts, ObjectFacts
<1>2. next \in [Players -> 1 .. Len(Code) + 1] /\ next' = [next EXCEPT ![p] = k + 1]
  BY <1>0 DEF IInv, Advance
<1>3. next' \in [Players -> 1 .. Len(Code) + 1]
  BY <1>1, <1>2
<1>4. /\ DOMAIN shares = Players /\ DOMAIN keys = Players
      /\ \A q \in Players : /\ DOMAIN shares[q] = Registers /\ DOMAIN keys[q] = Registers
                            /\ Holds(q, next[q])
  BY DEF IInv, HoldInv
<1>5. /\ shares' = [shares EXCEPT ![p] =
                       [shares[p] EXCEPT ![o] =
                           [value |-> x.value, list |-> list, macs |-> x.macs]]]
      /\ keys' = [keys EXCEPT ![p] = [keys[p] EXCEPT ![list] = x.keys]]
  BY <1>0 DEF Hold
<1>6. /\ x \in ContentsSet /\ Held(p)[k + 1][o] = x
      /\ \A h \in Registers : h # o => Held(p)[k + 1][h] = Held(p)[k][h]
  BY HeldStep
<1>7. list \in Registers /\ list < Given + (k + 1) /\ Object[list] = o
  <2>1. CASE list = Given + k
    <3>1. Given + k < Given + (k + 1)
      BY CodeFacts
    <3> QED  BY <1>1, <2>1, <3>1
  <2>2. CASE o \in Live(k) /\ list = shares[p][o].list
    <3>1. list \in Registers /\ list < Given + k /\ Object[list] = o
      BY <1>0, <1>4, <2>2 DEF Holds
    <3>2. list \in Nat /\ Given \in Nat
      BY <3>1, CodeFacts DEF Registers
    <3> QED  BY <1>1, <3>1, <3>2
  <2> QED  BY <1>0, <2>1, <2>2
<1>8. /\ DOMAIN shares' = Players /\ DOMAIN keys' = Players
      /\ \A q \in Players : DOMAIN shares'[q] = Registers /\ DOMAIN keys'[q] = Registers
  BY <1>4, <1>5
<1> HIDE DEF x
<1>9. Holds(p, k + 1)'
  <2> SUFFICES ASSUME NEW h \in Live(k + 1)
               PROVE  /\ shares'[p][h].list \in Registers
                      /\ shares'[p][h].list < Given + (k + 1)
                      /\ Object[shares'[p][h].list] = h
                      /\ Contents(p, h)' = Held(p)[k + 1][h]
    BY DEF Holds
  <2>1. CASE h = o
    <3>1. shares'[p][h] = [value |-> x.value, list |-> list, macs |-> x.macs]
      BY <1>1, <1>4, <1>5, <2>1
    <3>2. keys'[p][list] = x.keys
      BY <1>4, <1>5, <1>7
    <3>3. Contents(p, h)' = [value |-> x.value, keys |-> x.keys, macs |-> x.macs]
      BY <3>1, <3>2 DEF Contents
    <3>4. x = [value |-> x.value, keys |-> x.keys, macs |-> x.macs]
      BY <1>6, ContentsFields
    <3> QED  BY <1>6, <1>7, <2>1, <3>1, <3>3, <3>4
  <2>2. CASE h # o
    <3>1. h \in Live(k) /\ h \in Registers /\ h < Given + k
      BY <1>0, <2>2, LiveStep
    <3>2. /\ shares[p][h].list \in Registers /\ shares[p][h].list < Given + k
          /\ Object[shares[p][h].list] = h /\ Contents(p, h) = Held(p)[k][h]
      BY <1>0, <1>4, <3>1 DEF Holds
    <3>3. shares[p][h].list # list
      <4>1. CASE list = Given + k
        <5>1. shares[p][h].list \in Nat
          BY <3>2, CodeFacts DEF Registers
        <5> QED  BY <1>1, <3>2, <4>1, <5>1
      <4>2. CASE o \in Live(k) /\ list = shares[p][o].list
        BY <1>7, <2>2, <3>2, <4>2
      <4> QED  BY <1>0, <4>1, <4>2
    <3>4. shares'[p][h] = shares[p][h]
      BY <1>4, <1>5, <2>2, <3>1
    <3>5. keys'[p][shares[p][h].list] = keys[p][shares[p][h].list]
      BY <1>4, <1>5, <3>2, <3>3
    <3>6. Contents(p, h)' = Contents(p, h)
      BY <3>4, <3>5 DEF Contents
    <3>7. shares[p][h].list < Given + (k + 1)
      <4>1. shares[p][h].list \in Nat /\ Given \in Nat
        BY <3>2, CodeFacts DEF Registers
      <4> QED  BY <1>1, <3>2, <4>1
    <3> QED  BY <1>6, <2>2, <3>1, <3>2, <3>4, <3>6, <3>7
  <2> QED  BY <2>1, <2>2
<1>10. ASSUME NEW q \in Players, q # p PROVE Holds(q, next[q])'
  <2>1. shares'[q] = shares[q] /\ keys'[q] = keys[q] /\ next'[q] = next[q]
    BY <1>2, <1>4, <1>5, <1>10
  <2>2. Holds(q, next[q])
    BY <1>4
  <2> QED  BY <2>1, <2>2 DEF Holds, Contents
<1>11. next'[p] = k + 1
  BY <1>2
<1>12. Holds(p, next[p])'
  BY <1>9, <1>11 DEF Holds
<1> QED  BY <1>3, <1>8, <1>10, <1>12 DEF HoldInv

\* The numbers that are changed on their way are so from the start.
LEMMA GarbledKept ==
    ASSUME garbled' = garbled, NEW p, NEW k, NEW i
    PROVE  Total(p, k, i)' = Total(p, k, i) /\ Fits(p, k, i)' = Fits(p, k, i)
<1>1. \A q : Arrives(p, q, k, i)' = Arrives(p, q, k, i)
  BY DEF Arrives, Operand
<1> QED  BY <1>1 DEF Total, Fits, Operand

\* Verdicts and results are kept with what they rest on.
LEMMA VerdictsKept ==
    ASSUME IInv, UNCHANGED <<verdicts, garbled>>
    PROVE  VerdictInv' /\ (opened' = opened => ResultInv')
<1>1. VerdictInv'
  <2> SUFFICES ASSUME NEW p \in Players, NEW k \in Openings, verdicts[p][k] # None
               PROVE  LET of == DOMAIN Code[k].xs IN
                      /\ verdicts[p][k].isOK \in BOOLEAN
                      /\ verdicts[p][k].values = [i \in of |-> Total(p, k, i)']
                      /\ verdicts[p][k].undisturbed =>
                            (verdicts[p][k].isOK <=>
                                Passed(Code[k].op, [i \in of |-> Fits(p, k, i)']))
    BY DEF IInv, VerdictInv
  <2> DEFINE of == DOMAIN Code[k].xs
  <2>1. [i \in of |-> Total(p, k, i)'] = [i \in of |-> Total(p, k, i)]
    BY GarbledKept
  <2>2. [i \in of |-> Fits(p, k, i)'] = [i \in of |-> Fits(p, k, i)]
    BY GarbledKept
  <2>3. /\ verdicts[p][k].isOK \in BOOLEAN
        /\ verdicts[p][k].values = [i \in of |-> Total(p, k, i)]
        /\ verdicts[p][k].undisturbed =>
              (verdicts[p][k].isOK <=>
                  Passed(Code[k].op, [i \in of |-> Fits(p, k, i)]))
    BY DEF IInv, VerdictInv
  <2> QED  BY <2>1, <2>2, <2>3
<1>2. opened' = opened => ResultInv'
  BY DEF IInv, ResultInv, Accepted
<1> QED  BY <1>1, <1>2

\* So is what has been sent, while the player goes on.
LEMMA OpensKept ==
    ASSUME IInv, NEW p \in Players, next[p] \in Ops, Advance(p), opens' = opens
    PROVE  OpenInv'
<1>1. next \in [Players -> 1 .. Len(Code) + 1] /\ next' = [next EXCEPT ![p] = next[p] + 1]
  BY DEF IInv, Advance
<1>2. ASSUME NEW q \in Players, NEW k \in Openings, k < next[q] PROVE k < next'[q]
  <2>1. k \in Nat /\ next[q] \in Nat /\ (next'[q] = next[q] \/ next'[q] = next[q] + 1)
    BY <1>1, CodeFacts DEF Openings
  <2> QED  BY <1>2, <2>1
<1> QED  BY <1>2 DEF IInv, OpenInv, Operand

\* A new share.
LEMMA ComputeKeeps ==
    ASSUME IInv, NEW p \in Players, Compute(p)
    PROVE  IInv'
<1>1. PICK k \in Ops : k = next[p]
  BY DEF Compute, Comes
<1>2. /\ Code[k].op \in {"plus", "minus", "cmul"}
      /\ Code[k].op \notin Public /\ k \notin Openings
  BY <1>1 DEF Compute, Comes, Public, Openings, OpenKinds
<1>3. Object[Given + k] = Given + k
  BY <1>2, ResultObject
<1> DEFINE op == Code[k]
           x(i) == Contents(p, Object[op.xs[i]])
           y(i) == Held(p)[k][Object[op.xs[i]]]
           result == CASE op.op = "plus" -> PlusContents(x(1), x(2))
                       [] op.op = "minus" -> MinusContents(x(1), x(2))
                       [] op.op = "cmul" -> CMulContents(x(1), op.c)
<1>4. Hold(p, Given + k, Given + k, result)
  BY <1>1 DEF Compute
<1>5. 1 \in DOMAIN op.xs /\ (op.op \in {"plus", "minus"} => 2 \in DOMAIN op.xs)
  BY <1>2, CodeFacts
<1>6. x(1) = y(1) /\ (op.op \in {"plus", "minus"} => x(2) = y(2))
  BY <1>1, <1>5, HoldsOperand DEF Operand
<1>7. result = Computed(p, k, Held(p)[k])
  <2>1. CASE op.op = "plus"
    BY <1>6, <2>1 DEF Computed
  <2>2. CASE op.op = "minus"
    BY <1>6, <2>2 DEF Computed
  <2>3. CASE op.op = "cmul"
    BY <1>6, <2>3 DEF Computed
  <2> QED  BY <1>2, <2>1, <2>2, <2>3
<1>8. Hold(p, Given + k, Given + k, Computed(p, k, Held(p)[k]))
  <2> HIDE DEF result
  <2> QED  BY <1>4, <1>7
<1>9. Advance(p) /\ UNCHANGED <<opens, verdicts, opened, garbled>>
  BY DEF Compute
<1>10. HoldInv' /\ next' \in [Players -> 1 .. Len(Code) + 1]
  BY <1>1, <1>2, <1>3, <1>8, <1>9, HoldStep
<1>11. OpenInv' /\ VerdictInv' /\ ResultInv'
  BY <1>1, <1>9, OpensKept, VerdictsKept
<1> QED  BY <1>10, <1>11 DEF IInv

\* A public number is added to a share, in its list of keys or in a new one.
LEMMA ComputePublicKeeps ==
    ASSUME IInv, NEW p \in Players, ComputePublic(p)
    PROVE  IInv'
<1>1. PICK k \in Ops : k = next[p]
  BY DEF ComputePublic, Comes
<1>2. Code[k].op \in Public /\ k \notin Openings
  BY <1>1 DEF ComputePublic, Comes, Public, Openings, OpenKinds
<1> DEFINE op == Code[k]
           o == Object[op.xs[1]]
           x == Contents(p, o)
           old == shares[p][o].list
<1>3. Object[Given + k] = o /\ 1 \in DOMAIN op.xs
  BY <1>2, ResultObject
<1>4. o \in Live(k) /\ x = Held(p)[k][o]
  BY <1>1, <1>3, HoldsOperand DEF Operand
<1>5. /\ op.op = "plus_public" => Hold(p, o, old, AddPublic(p, x, op.c))
      /\ op.op = "minus_public_right" =>
            Hold(p, o, old, AddPublic(p, x, Neg(Field, op.c)))
      /\ op.op = "minus_public_left" =>
            Hold(p, o, Given + k, AddPublic(p, CMulContents(x, Neg(Field, 1)), op.c))
  BY <1>1 DEF ComputePublic
<1>6. \/ Hold(p, o, old, Computed(p, k, Held(p)[k]))
      \/ Hold(p, o, Given + k, Computed(p, k, Held(p)[k]))
  <2>1. CASE op.op = "plus_public"
    BY <1>4, <1>5, <2>1 DEF Computed
  <2>2. CASE op.op = "minus_public_right"
    BY <1>4, <1>5, <2>2 DEF Computed
  <2>3. CASE op.op = "minus_public_left"
    BY <1>4, <1>5, <2>3 DEF Computed
  <2> QED  BY <1>2, <2>1, <2>2, <2>3 DEF Public
<1>7. Advance(p) /\ UNCHANGED <<opens, verdicts, opened, garbled>>
  BY DEF ComputePublic
<1>8. HoldInv' /\ next' \in [Players -> 1 .. Len(Code) + 1]
  <2> HIDE DEF o
  <2>1. CASE Hold(p, o, old, Computed(p, k, Held(p)[k]))
    BY <1>1, <1>2, <1>3, <1>4, <1>7, <2>1, HoldStep
  <2>2. CASE Hold(p, o, Given + k, Computed(p, k, Held(p)[k]))
    BY <1>1, <1>2, <1>3, <1>4, <1>7, <2>2, HoldStep
  <2> QED  BY <1>6, <2>1, <2>2
<1>9. OpenInv' /\ VerdictInv' /\ ResultInv'
  BY <1>1, <1>7, OpensKept, VerdictsKept
<1> QED  BY <1>8, <1>9 DEF IInv

\* What a player sends for an opening is of what it is to hold.
LEMMA OpenKeeps ==
    ASSUME IInv, NEW p \in Players, Open(p)
    PROVE  IInv'
<1>1. PICK k \in Ops : k = next[p]
  BY DEF Open, Comes
<1>2. k \in Openings /\ Code[k].op \notin Public
  BY <1>1 DEF Open, Comes, Public, Openings, OpenKinds
<1> DEFINE of == DOMAIN Code[k].xs
           share(i) == shares[p][Object[Code[k].xs[i]]]
           sent == [values |-> [i \in of |-> share(i).value],
                    macs |-> [i \in of |-> share(i).macs],
                    lists |-> [i \in of |-> share(i).list],
                    asSent |-> [i \in of |-> keys[p][share(i).list]]]
<1>3. /\ opens' = [opens EXCEPT ![p][k] = sent]
      /\ Advance(p) /\ UNCHANGED <<shares, keys, verdicts, opened, garbled>>
  BY <1>1 DEF Open
<1>4. ASSUME NEW i \in of
      PROVE  /\ share(i).value = Operand(p, k, i).value
             /\ share(i).macs = Operand(p, k, i).macs
             /\ keys[p][share(i).list] = Operand(p, k, i).keys
  <2>1. Contents(p, Object[Code[k].xs[i]]) = Operand(p, k, i)
    BY <1>1, HoldsOperand
  <2> DEFINE c == Operand(p, k, i)
  <2> HIDE DEF c
  <2>2. [value |-> share(i).value, keys |-> keys[p][share(i).list],
         macs |-> share(i).macs] = c
    BY <2>1 DEF Contents, c
  <2>3. /\ share(i).value = c.value /\ share(i).macs = c.macs
        /\ keys[p][share(i).list] = c.keys
    <3> HIDE DEF share
    <3> QED  BY <2>2
  <2> QED  BY <2>3 DEF c
<1>5. /\ next \in [Players -> 1 .. Len(Code) + 1]
      /\ next' = [next EXCEPT ![p] = k + 1]
      /\ k \in Nat /\ k <= Len(Code) /\ Len(Code) \in Nat
  <2>1. k \in Nat /\ k <= Len(Code) /\ Len(Code) \in Nat
    BY CodeFacts
  <2>2. next \in [Players -> 1 .. Len(Code) + 1]
    BY DEF IInv
  <2>3. next' = [next EXCEPT ![p] = k + 1]
    BY <1>1, <1>3, <2>2 DEF Advance
  <2> QED  BY <2>1, <2>2, <2>3
<1>6. next' \in [Players -> 1 .. Len(Code) + 1]
  BY <1>5
<1>7. ASSUME NEW q \in Players PROVE Holds(q, next[q])'
  <2>1. /\ Holds(q, next[q]) /\ shares'[q] = shares[q] /\ keys'[q] = keys[q]
        /\ \A o : Contents(q, o)' = Contents(q, o)
    BY <1>3 DEF IInv, HoldInv, Contents
  <2>2. CASE q # p
    <3>1. next'[q] = next[q]
      BY <1>5, <2>2
    <3> QED  BY <2>1, <3>1 DEF Holds
  <2>3. CASE q = p
    <3>1. next'[q] = k + 1 /\ Holds(p, k)
      BY <1>1, <1>5, <2>1, <2>3
    <3> SUFFICES ASSUME NEW o \in Live(k + 1)
                 PROVE  /\ shares[p][o].list \in Registers
                        /\ shares[p][o].list < Given + (k + 1)
                        /\ Object[shares[p][o].list] = o
                        /\ Contents(p, o) = Held(p)[k + 1][o]
      BY <2>1, <2>3, <3>1 DEF Holds
    <3>2. o \in Live(k) /\ o \in Registers /\ o # Given + k
      BY <1>2, LiveStep
    <3>3. o # Object[Given + k]
      BY <1>2, <3>2, ResultObject
    <3>4. /\ shares[p][o].list \in Registers /\ shares[p][o].list < Given + k
          /\ Object[shares[p][o].list] = o /\ Contents(p, o) = Held(p)[k][o]
      BY <3>1, <3>2 DEF Holds
    <3>5. shares[p][o].list < Given + (k + 1)
      <4>1. shares[p][o].list \in Nat /\ Given \in Nat
        BY <3>4, CodeFacts DEF Registers
      <4> QED  BY <1>5, <3>4, <4>1
    <3> QED  BY <3>2, <3>3, <3>4, <3>5, HeldStep
  <2> QED  BY <2>2, <2>3
<1>8. HoldInv'
  BY <1>3, <1>7 DEF IInv, HoldInv
<1>9. OpenInv'
  <2>1. /\ DOMAIN opens = Players /\ \A q \in Players : DOMAIN opens[q] = Openings
        /\ opens' = [opens EXCEPT ![p] = [opens[p] EXCEPT ![k] = sent]]
    BY <1>3 DEF IInv, OpenInv
  <2>2. DOMAIN opens' = Players /\ \A q \in Players : DOMAIN opens'[q] = Openings
    BY <2>1
  <2>3. ASSUME NEW q \in Players, NEW j \in Openings, opens'[q][j] # None
        PROVE  LET to == DOMAIN Code[j].xs IN
               /\ j < next'[q]
               /\ opens'[q][j].values = [i \in to |-> Operand(q, j, i).value]
               /\ opens'[q][j].macs = [i \in to |-> Operand(q, j, i).macs]
               /\ opens'[q][j].asSent = [i \in to |-> Operand(q, j, i).keys]
    <3>1. CASE q = p /\ j = k
      <4>1. opens'[q][j] = sent
        BY <1>2, <2>1, <3>1
      <4>2. j < next'[q]
        BY <1>5, <3>1
      <4>3. /\ sent.values = [i \in of |-> Operand(p, k, i).value]
            /\ sent.macs = [i \in of |-> Operand(p, k, i).macs]
            /\ sent.asSent = [i \in of |-> Operand(p, k, i).keys]
        BY <1>4
      <4> HIDE DEF sent
      <4> QED  BY <3>1, <4>1, <4>2, <4>3
    <3>2. CASE ~ (q = p /\ j = k)
      <4>1. opens'[q][j] = opens[q][j]
        BY <2>1, <3>2
      <4>2. /\ j < next[q]
            /\ opens[q][j].values = [i \in DOMAIN Code[j].xs |-> Operand(q, j, i).value]
            /\ opens[q][j].macs = [i \in DOMAIN Code[j].xs |-> Operand(q, j, i).macs]
            /\ opens[q][j].asSent = [i \in DOMAIN Code[j].xs |-> Operand(q, j, i).keys]
        BY <2>3, <4>1 DEF IInv, OpenInv
      <4>3. j < next'[q]
        <5>1. j \in Nat /\ next[q] \in Nat /\ (next'[q] = next[q] \/ next'[q] = next[q] + 1)
          BY <1>1, <1>5, CodeFacts DEF Openings
        <5> QED  BY <4>2, <5>1
      <4> QED  BY <4>1, <4>2, <4>3
    <3> QED  BY <3>1, <3>2
  <2> QED  BY <2>2, <2>3 DEF OpenInv, Operand
<1>10. VerdictInv' /\ ResultInv'
  BY <1>3, VerdictsKept
<1> QED  BY <1>6, <1>8, <1>9, <1>10 DEF IInv

\* What is held and sent is kept by a step that changes none of it.
LEMMA HoldsKept ==
    ASSUME IInv, UNCHANGED <<next, shares, keys, opens>>
    PROVE  HoldInv' /\ OpenInv' /\ next' \in [Players -> 1 .. Len(Code) + 1]
<1>1. \A p, o : Contents(p, o)' = Contents(p, o)
  BY DEF Contents
<1>2. HoldInv'
  BY <1>1 DEF IInv, HoldInv, Holds
<1>3. OpenInv'
  BY DEF IInv, OpenInv
<1>4. next' \in [Players -> 1 .. Len(Code) + 1]
  BY DEF IInv
<1> QED  BY <1>2, <1>3, <1>4

\* A player judges and adds up what the others have sent.
LEMMA RecombineValueKeeps ==
    ASSUME IInv, NEW p \in Players, NEW k \in Openings, RecombineValue(p, k)
    PROVE  IInv'
<1> DEFINE of == DOMAIN Code[k].xs
           ok(i) == \A q \in Players :
                       opens[q][k].macs[i][p] =
                           MAC(Alpha[p], keys[p][opens[p][k].lists[i]][q],
                               Received(p, q, k, i))
           sum(i) == FieldSum(Field, [q \in Players |-> Received(p, q, k, i)])
           isOK == Passed(Code[k].op, [i \in of |-> ok(i)])
           undisturbed == \A i \in of :
                              keys[p][opens[p][k].lists[i]] = opens[p][k].asSent[i]
           verdict == [isOK |-> isOK, values |-> [i \in of |-> sum(i)],
                       undisturbed |-> undisturbed]
<1>1. /\ verdicts[p][k] = None /\ \A q \in Players : opens[q][k] # None
      /\ verdicts' = [verdicts EXCEPT ![p][k] = verdict]
      /\ UNCHANGED <<next, shares, keys, opens, opened, garbled>>
  BY DEF RecombineValue
<1>2. \A q \in Players : \A i \in of :
          /\ opens[q][k].values[i] = Operand(q, k, i).value
          /\ opens[q][k].macs[i] = Operand(q, k, i).macs
          /\ opens[q][k].asSent[i] = Operand(q, k, i).keys
  <2> SUFFICES ASSUME NEW q \in Players, NEW i \in of
               PROVE  /\ opens[q][k].values[i] = Operand(q, k, i).value
                      /\ opens[q][k].macs[i] = Operand(q, k, i).macs
                      /\ opens[q][k].asSent[i] = Operand(q, k, i).keys
    OBVIOUS
  <2>1. /\ opens[q][k].values = [j \in of |-> Operand(q, k, j).value]
        /\ opens[q][k].macs = [j \in of |-> Operand(q, k, j).macs]
        /\ opens[q][k].asSent = [j \in of |-> Operand(q, k, j).keys]
    BY <1>1 DEF IInv, OpenInv
  <2> QED  BY <2>1
<1>3. \A q \in Players : \A i \in of : Received(p, q, k, i) = Arrives(p, q, k, i)
  BY <1>2 DEF Received, Arrives, (+)
<1>4. \A i \in of : sum(i) = Total(p, k, i)
  <2> SUFFICES ASSUME NEW i \in of PROVE sum(i) = Total(p, k, i)
    OBVIOUS
  <2>1. [q \in Players |-> Received(p, q, k, i)] = [q \in Players |-> Arrives(p, q, k, i)]
    BY <1>3
  <2> QED  BY <2>1 DEF Total
<1>5. ASSUME undisturbed, NEW i \in of PROVE ok(i) = Fits(p, k, i)
  <2>1. keys[p][opens[p][k].lists[i]] = Operand(p, k, i).keys
    BY <1>2, <1>5
  <2>2. \A q \in Players : opens[q][k].macs[i] = Operand(q, k, i).macs
    BY <1>2
  <2> QED  BY <1>3, <2>1, <2>2 DEF Fits
<1>6. isOK \in BOOLEAN
  <2>1. CASE Code[k].op = "open"
    BY <2>1 DEF Passed
  <2>2. CASE Code[k].op # "open"
    <3> DEFINE f == [i \in of |-> ok(i)]
    <3>1. Len(Code[k].xs) \in Nat \ {0} /\ of = 1 .. Len(Code[k].xs)
      BY CodeFacts DEF Openings
    <3>2. \A i \in of : ok(i) \in BOOLEAN
      OBVIOUS
    <3> HIDE DEF ok, of
    <3>3. f \in [1 .. Len(Code[k].xs) -> BOOLEAN]
      BY <3>1, <3>2
    <3> HIDE DEF f
    <3>4. f \in Seq(BOOLEAN) /\ Len(f) = Len(Code[k].xs)
      BY <3>1, <3>3
    <3>5. f[Len(f)] \in BOOLEAN
      BY <3>1, <3>3, <3>4
    <3> QED  BY <2>2, <3>5 DEF Passed, f
  <2> QED  BY <2>1, <2>2
<1>7. undisturbed => (isOK <=> Passed(Code[k].op, [i \in of |-> Fits(p, k, i)]))
  <2> SUFFICES ASSUME undisturbed
               PROVE  isOK <=> Passed(Code[k].op, [i \in of |-> Fits(p, k, i)])
    OBVIOUS
  <2>1. [i \in of |-> ok(i)] = [i \in of |-> Fits(p, k, i)]
    BY <1>5
  <2> QED  BY <2>1
<1> HIDE DEF isOK, undisturbed, sum
<1>8. /\ verdict.isOK = isOK /\ verdict.values = [i \in of |-> Total(p, k, i)]
      /\ verdict.undisturbed = undisturbed
  BY <1>4
<1> HIDE DEF verdict
<1>9. /\ DOMAIN verdicts = Players /\ \A q \in Players : DOMAIN verdicts[q] = Openings
      /\ verdicts' = [verdicts EXCEPT ![p] = [verdicts[p] EXCEPT ![k] = verdict]]
  BY <1>1 DEF IInv, VerdictInv
<1>10. /\ DOMAIN verdicts' = Players /\ \A q \in Players : DOMAIN verdicts'[q] = Openings
       /\ verdicts'[p][k] = verdict
       /\ \A q \in Players, j \in Openings :
             ~ (q = p /\ j = k) => verdicts'[q][j] = verdicts[q][j]
  BY <1>9
<1>11. VerdictInv'
  <2> SUFFICES ASSUME NEW q \in Players, NEW j \in Openings, verdicts'[q][j] # None
               PROVE  LET to == DOMAIN Code[j].xs IN
                      /\ verdicts'[q][j].isOK \in BOOLEAN
                      /\ verdicts'[q][j].values = [i \in to |-> Total(q, j, i)']
                      /\ verdicts'[q][j].undisturbed =>
                            (verdicts'[q][j].isOK <=>
                                Passed(Code[j].op, [i \in to |-> Fits(q, j, i)']))
    BY <1>10 DEF VerdictInv
  <2> DEFINE to == DOMAIN Code[j].xs
  <2>1. /\ [i \in to |-> Total(q, j, i)'] = [i \in to |-> Total(q, j, i)]
        /\ [i \in to |-> Fits(q, j, i)'] = [i \in to |-> Fits(q, j, i)]
    BY <1>1, GarbledKept
  <2>2. CASE q = p /\ j = k
    BY <1>6, <1>7, <1>8, <1>10, <2>1, <2>2
  <2>3. CASE ~ (q = p /\ j = k)
    <3>1. verdicts'[q][j] = verdicts[q][j]
      BY <1>10, <2>3
    <3>2. /\ verdicts[q][j].isOK \in BOOLEAN
          /\ verdicts[q][j].values = [i \in to |-> Total(q, j, i)]
          /\ verdicts[q][j].undisturbed =>
                (verdicts[q][j].isOK <=>
                    Passed(Code[j].op, [i \in to |-> Fits(q, j, i)]))
      BY <3>1 DEF IInv, VerdictInv
    <3> QED  BY <2>1, <3>1, <3>2
  <2> QED  BY <2>2, <2>3
<1>12. ResultInv'
  <2> SUFFICES ASSUME NEW q \in Players, NEW j \in Openings, opened[q][j] # None
               PROVE  /\ \A r \in Players : verdicts'[r][j] # None
                      /\ opened[q][j] = IF verdicts'[N][j].isOK
                                        THEN verdicts'[q][j].values ELSE Wrong
    BY <1>1 DEF IInv, ResultInv, Accepted
  <2>1. /\ \A r \in Players : verdicts[r][j] # None
        /\ opened[q][j] = IF verdicts[N][j].isOK THEN verdicts[q][j].values ELSE Wrong
    BY DEF IInv, ResultInv, Accepted
  <2>2. \A r \in Players : verdicts'[r][j] = verdicts[r][j]
    BY <1>1, <1>10, <2>1
  <2> QED  BY <2>1, <2>2, CodeFacts
<1>13. HoldInv' /\ OpenInv' /\ next' \in [Players -> 1 .. Len(Code) + 1]
  BY <1>1, HoldsKept
<1> QED  BY <1>11, <1>12, <1>13 DEF IInv

\* The opening returns at a player.
LEMMA FinishKeeps ==
    ASSUME IInv, NEW p \in Players, NEW k \in Openings, Finish(p, k)
    PROVE  IInv'
<1> DEFINE result == IF Accepted(k) THEN verdicts[p][k].values ELSE Wrong
<1>1. /\ \A q \in Players : verdicts[q][k] # None
      /\ opened' = [opened EXCEPT ![p][k] = result]
      /\ UNCHANGED <<next, shares, keys, opens, verdicts, garbled>>
  BY DEF Finish
<1>2. /\ DOMAIN opened = Players /\ \A q \in Players : DOMAIN opened[q] = Openings
      /\ opened' = [opened EXCEPT ![p] = [opened[p] EXCEPT ![k] = result]]
  BY <1>1 DEF IInv, ResultInv
<1> HIDE DEF result
<1>3. /\ DOMAIN opened' = Players /\ \A q \in Players : DOMAIN opened'[q] = Openings
      /\ opened'[p][k] = result
      /\ \A q \in Players, j \in Openings :
            ~ (q = p /\ j = k) => opened'[q][j] = opened[q][j]
  BY <1>2
<1>4. ResultInv'
  <2> SUFFICES ASSUME NEW q \in Players, NEW j \in Openings, opened'[q][j] # None
               PROVE  /\ \A r \in Players : verdicts[r][j] # None
                      /\ opened'[q][j] = IF Accepted(j) THEN verdicts[q][j].values ELSE Wrong
    BY <1>1, <1>3 DEF ResultInv, Accepted
  <2>1. CASE q = p /\ j = k
    BY <1>1, <1>3, <2>1 DEF result
  <2>2. CASE ~ (q = p /\ j = k)
    BY <1>3, <2>2 DEF IInv, ResultInv
  <2> QED  BY <2>1, <2>2
<1>5. VerdictInv'
  BY <1>1, VerdictsKept
<1>6. HoldInv' /\ OpenInv' /\ next' \in [Players -> 1 .. Len(Code) + 1]
  BY <1>1, HoldsKept
<1> QED  BY <1>4, <1>5, <1>6 DEF IInv

\* At first the players hold the sharings the program starts with.
LEMMA InitHolds ==
    ASSUME Init
    PROVE  IInv
<1>1. next \in [Players -> 1 .. Len(Code) + 1]
  BY CodeFacts DEF Init
<1>2. ASSUME NEW p \in Players PROVE Holds(p, 1)
  <2> SUFFICES ASSUME NEW o \in Live(1)
               PROVE  /\ shares[p][o].list \in Registers
                      /\ shares[p][o].list < Given + 1
                      /\ Object[shares[p][o].list] = o
                      /\ Contents(p, o) = Held(p)[1][o]
    BY DEF Holds
  <2>1. o \in Registers /\ o < Given + 1 /\ Object[o] = o /\ o <= Given
    BY CodeFacts DEF Live, Registers
  <2>2. shares[p][o] = GivenShare(p, o) /\ keys[p][o] = StartKey[o][p]
    BY <2>1 DEF Init
  <2>3. shares[p][o].list = o
    BY <2>2 DEF GivenShare
  <2>4. Contents(p, o) = GivenContents(p, o)
    BY <2>2 DEF Contents, GivenShare, GivenContents
  <2>5. Held(p)[1][o] = GivenContents(p, o)
    BY <2>1, HeldIs DEF AtStart
  <2> QED  BY <2>1, <2>3, <2>4, <2>5
<1>3. HoldInv
  BY <1>2 DEF Init, HoldInv
<1>4. OpenInv /\ VerdictInv /\ ResultInv
  BY DEF Init, OpenInv, VerdictInv, ResultInv
<1> QED  BY <1>1, <1>3, <1>4 DEF IInv

\* The invariant holds in every state.
THEOREM ProgramInvariant == Spec => []IInv
<1>1. Init => IInv
  BY InitHolds
<1>2. IInv /\ [Next]_vars => IInv'
  <2> SUFFICES ASSUME IInv, [Next]_vars PROVE IInv'
    OBVIOUS
  <2>1. CASE Next
    <3>1. ASSUME NEW p \in Players, Compute(p) PROVE IInv'
      BY <3>1, ComputeKeeps
    <3>2. ASSUME NEW p \in Players, ComputePublic(p) PROVE IInv'
      BY <3>2, ComputePublicKeeps
    <3>3. ASSUME NEW p \in Players, Open(p) PROVE IInv'
      BY <3>3, OpenKeeps
    <3>4. ASSUME NEW p \in Players, NEW k \in Openings, RecombineValue(p, k) PROVE IInv'
      BY <3>4, RecombineValueKeeps
    <3>5. ASSUME NEW p \in Players, NEW k \in Openings, Finish(p, k) PROVE IInv'
      BY <3>5, FinishKeeps
    <3> QED  BY <2>1, <3>1, <3>2, <3>3, <3>4, <3>5 DEF Next, Step
  <2>2. CASE UNCHANGED vars
    BY <2>2, HoldsKept, VerdictsKept DEF vars, IInv
  <2> QED  BY <2>1, <2>2
<1> QED  BY <1>1, <1>2, PTL DEF Spec

------------------------------------------------------------------------------
\* What the invariant says of openings.

\* What a player adds up is in the field, and right if nothing was changed.
LEMMA TotalRight ==
    ASSUME NEW p \in Players, NEW k \in Openings, NEW i \in DOMAIN Code[k].xs
    PROVE  /\ Total(p, k, i) \in F
           /\ Untouched(p, k, i) => Total(p, k, i) = Ideal[k][Object[Code[k].xs[i]]]
<1> DEFINE o == Object[Code[k].xs[i]]
           x == [q \in Players |-> Held(q)[k][o]]
           values == [q \in Players |-> x[q].value]
<1>1. k \in Ops /\ k \in 1 .. Len(Code) + 1
  BY CodeFacts DEF Openings
<1>2. o \in Registers
  BY <1>1, OperandObject
<1>3. IsSharing(x, Ideal[k][o])
  BY <1>1, <1>2, Balanced
<1>4. \A q \in Players : Operand(q, k, i) = x[q] /\ x[q].value \in F
  <2>1. \A q \in Players : x[q].value \in F
    <3> HIDE DEF x
    <3> QED  BY <1>3, SharingFacts
  <2> QED  BY <2>1 DEF Operand
<1>5. Total(p, k, i) \in F
  <2>1. \A q \in Players : Arrives(p, q, k, i) \in F
    BY <1>4, Laws DEF Arrives
  <2>2. [q \in Players |-> Arrives(p, q, k, i)] \in [Players -> F]
    BY <2>1
  <2> QED  BY <2>2, SumInField DEF Total
<1>6. ASSUME Untouched(p, k, i) PROVE Total(p, k, i) = Ideal[k][o]
  <2>1. \A q \in Players : Arrives(p, q, k, i) = x[q].value
    BY <1>4, <1>6 DEF Arrives, Untouched
  <2>2. [q \in Players |-> Arrives(p, q, k, i)] = values
    BY <2>1
  <2>3. Ideal[k][o] = FieldSum(Field, values)
    BY <1>3 DEF IsSharing
  <2> QED  BY <2>2, <2>3 DEF Total
<1> QED  BY <1>5, <1>6

\* A player is content with what was sent, and with a key other than 0 only with it.
LEMMA FitsRight ==
    ASSUME NEW p \in Players, NEW k \in Openings, NEW i \in DOMAIN Code[k].xs
    PROVE  /\ Untouched(p, k, i) => Fits(p, k, i)
           /\ Alpha[p] # 0 /\ Fits(p, k, i) => Untouched(p, k, i)
<1> DEFINE o == Object[Code[k].xs[i]]
           x == [q \in Players |-> Held(q)[k][o]]
<1>1. k \in Ops /\ k \in 1 .. Len(Code) + 1
  BY CodeFacts DEF Openings
<1>2. o \in Registers
  BY <1>1, OperandObject
<1>3. IsSharing(x, Ideal[k][o])
  BY <1>1, <1>2, Balanced
<1>4. \A q \in Players : Operand(q, k, i) = x[q]
  BY DEF Operand
<1> HIDE DEF x, o
<1>5. Alpha[p] \in F /\ \A q \in Players :
          /\ x[p].keys[q] \in F /\ x[q].value \in F
          /\ x[q].macs[p] = MAC(Alpha[p], x[p].keys[q], x[q].value)
  BY <1>3, SharingFacts
<1>6. ASSUME NEW q \in Players, <<q, p, k, i>> \notin garbled
      PROVE  Operand(q, k, i).macs[p] =
                 MAC(Alpha[p], Operand(p, k, i).keys[q], Arrives(p, q, k, i))
  <2>1. Arrives(p, q, k, i) = x[q].value
    BY <1>4, <1>6 DEF Arrives
  <2> QED  BY <1>4, <1>5, <2>1
<1>7. ASSUME Alpha[p] # 0, NEW q \in Players, <<q, p, k, i>> \in garbled
      PROVE  Operand(q, k, i).macs[p] #
                 MAC(Alpha[p], Operand(p, k, i).keys[q], Arrives(p, q, k, i))
  <2>1. Arrives(p, q, k, i) = x[q].value (+) 1
    BY <1>4, <1>7 DEF Arrives
  <2>2. MAC(Alpha[p], x[p].keys[q], x[q].value (+) 1)
            # MAC(Alpha[p], x[p].keys[q], x[q].value)
    BY <1>5, <1>7, MACsDiffer
  <2> QED  BY <1>4, <1>5, <2>1, <2>2
<1> QED  BY <1>6, <1>7 DEF Fits, Untouched

\* The verdict of player p on opening k.
LEMMA VerdictRight ==
    ASSUME IInv, NEW p \in Players, NEW k \in Openings, Undisturbed(p, k)
    PROVE  /\ AllUntouched(p, k) => verdicts[p][k].isOK
           /\ Code[k].op = "open" /\ Alpha[p] # 0 /\ verdicts[p][k].isOK =>
                  AllUntouched(p, k)
<1> DEFINE of == DOMAIN Code[k].xs
           fits == [i \in of |-> Fits(p, k, i)]
<1>1. verdicts[p][k].isOK <=> Passed(Code[k].op, fits)
  BY DEF IInv, VerdictInv, Undisturbed
<1>2. \A i \in of : /\ Untouched(p, k, i) => Fits(p, k, i)
                    /\ Alpha[p] # 0 /\ Fits(p, k, i) => Untouched(p, k, i)
  BY FitsRight
<1>3. Len(Code[k].xs) \in Nat \ {0} /\ of = 1 .. Len(Code[k].xs)
  BY CodeFacts DEF Openings
<1>4. CASE Code[k].op = "open"
  BY <1>1, <1>2, <1>4 DEF Passed, AllUntouched
<1>5. CASE Code[k].op # "open"
  <2> DEFINE m == Len(Code[k].xs)
  <2>1. \A i \in of : Fits(p, k, i) \in BOOLEAN
    BY DEF Fits
  <2>7. AllUntouched(p, k) => Fits(p, k, m)
    BY <1>2, <1>3 DEF AllUntouched
  <2> HIDE DEF of, m
  <2>2. fits \in [1 .. m -> BOOLEAN]
    BY <1>3, <2>1 DEF m
  <2>3. m \in 1 .. m /\ of = 1 .. m
    BY <1>3 DEF m
  <2>4. Len(fits) = m
    <3> HIDE DEF fits
    <3> QED  BY <1>3, <2>2 DEF m
  <2>5. fits[m] = Fits(p, k, m)
    BY <2>3
  <2>6. Passed(Code[k].op, fits) <=> Fits(p, k, m)
    <3> HIDE DEF fits
    <3> QED  BY <1>5, <2>4, <2>5 DEF Passed
  <2> QED  BY <1>1, <1>5, <2>6, <2>7
<1> QED  BY <1>4, <1>5

\* An opening succeeds for all or for nobody, and does if everybody gets what was
\* sent and nobody has added a public number to an opened share in the meantime; with
\* open and open_two_values a player that does not get what was sent says so; and a
\* player that got what was sent returns the value that the program computes.  This
\* takes keys other than 0: under the key 0 all numbers have the same MAC.
THEOREM OpeningsRightHolds ==
    (\A p \in Players : Alpha[p] # 0) => (Spec => []OpeningsRight)
<1>1. ASSUME \A p \in Players : Alpha[p] # 0, IInv PROVE OpeningsRight
  <2> SUFFICES ASSUME NEW k \in Openings
               PROVE  LET ended == {p \in Players : opened[p][k] # None} IN
                      /\ \A p, q \in ended : opened[p][k] = Wrong => opened[q][k] = Wrong
                      /\ (\A q \in Players : Undisturbed(q, k) /\ AllUntouched(q, k)) =>
                            \A p \in ended : opened[p][k] # Wrong
                      /\ Code[k].op = "open" =>
                            \A p \in Players : Undisturbed(p, k) =>
                                (verdicts[p][k].isOK <=> AllUntouched(p, k))
                      /\ \A p \in ended : \A i \in DOMAIN Code[k].xs :
                            opened[p][k] # Wrong /\ Untouched(p, k, i) =>
                                opened[p][k][i] = Ideal[k][Object[Code[k].xs[i]]]
    BY DEF OpeningsRight
  <2> DEFINE of == DOMAIN Code[k].xs
             totals(p) == [i \in of |-> Total(p, k, i)]
             ended == {p \in Players : opened[p][k] # None}
  <2>1. N \in Players
    BY CodeFacts
  <2>2. ASSUME NEW p \in ended
        PROVE  opened[p][k] = IF verdicts[N][k].isOK THEN totals(p) ELSE Wrong
    BY <1>1, <2>1, <2>2 DEF IInv, ResultInv, VerdictInv, Accepted
  <2>3. \A p \in Players, i \in of :
            /\ Total(p, k, i) \in F
            /\ Untouched(p, k, i) => Total(p, k, i) = Ideal[k][Object[Code[k].xs[i]]]
    BY TotalRight
  <2>4. ASSUME NEW p \in Players PROVE totals(p) # Wrong
    <3>1. totals(p) \in [of -> Elements(Field)]
      BY <2>3 DEF F
    <3> QED  BY <3>1, BedozaAssumption
  <2>5. \A p \in Players : \A i \in of : totals(p)[i] = Total(p, k, i)
    OBVIOUS
  <2>6. \A p \in Players : Undisturbed(p, k) =>
            /\ AllUntouched(p, k) => verdicts[p][k].isOK
            /\ Code[k].op = "open" /\ verdicts[p][k].isOK => AllUntouched(p, k)
    BY <1>1, VerdictRight
  <2> HIDE DEF totals, of
  <2>7. \A p \in ended : opened[p][k] = Wrong <=> ~ verdicts[N][k].isOK
    BY <2>2, <2>4
  <2>8. \A p \in ended : \A i \in of :
            opened[p][k] # Wrong /\ Untouched(p, k, i) =>
                opened[p][k][i] = Ideal[k][Object[Code[k].xs[i]]]
    BY <2>2, <2>3, <2>5, <2>7
  <2>9. (\A q \in Players : Undisturbed(q, k) /\ AllUntouched(q, k)) =>
            \A p \in ended : opened[p][k] # Wrong
    BY <2>1, <2>6, <2>7
  <2>10. Code[k].op = "open" =>
             \A p \in Players : Undisturbed(p, k) =>
                 (verdicts[p][k].isOK <=> AllUntouched(p, k))
    BY <2>6
  <2>11. \A p, q \in ended : opened[p][k] = Wrong => opened[q][k] = Wrong
    BY <2>7
  <2> QED  BY <2>8, <2>9, <2>10, <2>11 DEF of
<1>2. SUFFICES ASSUME \A p \in Players : Alpha[p] # 0 PROVE Spec => []OpeningsRight
  OBVIOUS
<1>3. IInv => OpeningsRight
  BY <1>1, <1>2
<1> QED  BY <1>3, ProgramInvariant, PTL

------------------------------------------------------------------------------
\* The pool, for every program, any generators, any order in which they are called
\* and any order in which their items arrive.

\* The program counters of the calls.
Counters == 1 .. Len(Calls)

Listed(c) == \E i \in DOMAIN needed[Calls[c]] : needed[Calls[c]][i] = c

Batched(c) ==
    \E b \in waiting : b.key = Calls[c] /\ \E i \in DOMAIN b.pcs : b.pcs[i] = c

PoolTypeInv ==
    /\ phase \in {"record", "preprocess", "use"}
    /\ pc \in Nat
    /\ at \in 1 .. Len(Calls) + 1
    /\ needed \in [Pool!Keys -> Seq(Counters)]
    /\ waiting \subseteq [key : Pool!Keys, pcs : Seq(Counters)]
    /\ DOMAIN pool \subseteq Counters
    /\ got \in Seq([key : Pool!Keys, pooled : BOOLEAN])

\* Wherever a program counter is, it is with the key of the call that it belongs to.
KeyInv ==
    /\ \A key \in Pool!Keys : \A i \in DOMAIN needed[key] : Calls[needed[key][i]] = key
    /\ \A b \in waiting : \A i \in DOMAIN b.pcs : Calls[b.pcs[i]] = b.key
    /\ \A c \in DOMAIN pool : pool[c] = Calls[c]

\* The record of the first run has all calls so far.
RecordInv ==
    phase = "record" =>
        /\ DOMAIN pool = {} /\ waiting = {}
        /\ pc = at - 1
        /\ \A c \in 1 .. at - 1 : Listed(c)

\* None of them is lost on its way into the pool.
PreprocessInv ==
    phase = "preprocess" =>
        \A c \in Counters : c \in DOMAIN pool \/ Listed(c) \/ Batched(c)

\* The second run has used what it has come by, and the rest is there.
UseInv ==
    phase = "use" =>
        /\ waiting = {}
        /\ pc = at - 1
        /\ Len(got) = at - 1
        /\ \A i \in 1 .. Len(got) : got[i] = [key |-> Calls[i], pooled |-> TRUE]
        /\ DOMAIN pool = at .. Len(Calls)

PoolInv == PoolTypeInv /\ KeyInv /\ RecordInv /\ PreprocessInv /\ UseInv
------------------------------------------------------------------------------
\* A call of the program, in either run.
LEMMA PoolCall ==
    ASSUME PoolInv, Pool!Call
    PROVE  PoolInv'
<1>1. /\ phase \in {"record", "use"} /\ at \in DOMAIN Calls
      /\ at' = at + 1 /\ pc' = pc + 1
      /\ UNCHANGED <<phase, waiting>>
  BY DEF Pool!Call
<1>2. /\ Calls \in Seq(Pool!Keys) /\ Len(Calls) \in Nat /\ DOMAIN Calls = Counters
      /\ at \in Counters /\ at \in Nat /\ Calls[at] \in Pool!Keys
      /\ pc = at - 1 /\ pc' = at
  BY <1>1, PoolAssumption DEF Counters, PoolInv, RecordInv, UseInv, PoolTypeInv
<1>3. CASE phase = "record"
  <2>1. /\ got' = Append(got, [key |-> Calls[at], pooled |-> FALSE])
        /\ needed' = [needed EXCEPT ![Calls[at]] = Append(@, at)]
        /\ UNCHANGED pool
    BY <1>2, <1>3 DEF Pool!Call, PoolInv, RecordInv
  <2> DEFINE k == Calls[at]
             s == needed[k]
             t == Append(s, at)
  <2>2. /\ s \in Seq(Counters) /\ k \in Pool!Keys
        /\ needed'[k] = t /\ \A key \in Pool!Keys : key # k => needed'[key] = needed[key]
        /\ needed' \in [Pool!Keys -> Seq(Counters)]
    BY <1>2, <2>1 DEF PoolInv, PoolTypeInv
  <2> HIDE DEF s
  <2>3. /\ DOMAIN s = 1 .. Len(s) /\ Len(s) \in Nat
        /\ DOMAIN t = 1 .. Len(s) + 1 /\ t[Len(s) + 1] = at
        /\ \A i \in 1 .. Len(s) : t[i] = s[i]
    <3>1. s \in Seq(Counters) /\ at \in Counters
      BY <2>2, <1>2
    <3> HIDE DEF k
    <3> QED  BY <3>1
  <2> HIDE DEF t
  <2>4. PoolTypeInv'
    <3>1. got' \in Seq([key : Pool!Keys, pooled : BOOLEAN])
      BY <1>2, <2>1 DEF PoolInv, PoolTypeInv
    <3>2. at' \in 1 .. Len(Calls) + 1 /\ pc' \in Nat
      BY <1>1, <1>2 DEF Counters
    <3> QED  BY <3>1, <3>2, <1>1, <2>1, <2>2 DEF PoolInv, PoolTypeInv
  <2>5. \A i \in DOMAIN t : Calls[t[i]] = k
    <3> TAKE i \in DOMAIN t
    <3>1. CASE i \in 1 .. Len(s)
      BY <3>1, <2>2, <2>3 DEF PoolInv, KeyInv, s
    <3>2. CASE i = Len(s) + 1
      BY <3>2, <2>3
    <3> QED  BY <3>1, <3>2, <2>3
  <2>6. KeyInv'
    <3>1. \A key \in Pool!Keys : \A i \in DOMAIN needed'[key] : Calls[needed'[key][i]] = key
      BY <2>2, <2>5 DEF PoolInv, KeyInv
    <3> QED  BY <3>1, <1>1, <2>1 DEF PoolInv, KeyInv
  <2>7. \A c \in Counters : c = at \/ Listed(c) => Listed(c)'
    <3> TAKE c \in Counters
    <3>1. CASE c = at
      <4>1. Len(s) + 1 \in DOMAIN t
        BY <2>3
      <4> QED  BY <3>1, <4>1, <2>2, <2>3 DEF Listed
    <3>2. CASE Listed(c) /\ Calls[c] = k
      <4>1. PICK i \in DOMAIN s : s[i] = c
        BY <3>2 DEF Listed, s
      <4>2. i \in DOMAIN t /\ t[i] = c
        BY <4>1, <2>3
      <4> QED  BY <3>2, <4>2, <2>2 DEF Listed
    <3>3. CASE Listed(c) /\ Calls[c] # k
      <4>1. Calls[c] \in Pool!Keys
        BY <1>2
      <4> QED  BY <3>3, <4>1, <2>2 DEF Listed
    <3> QED  BY <3>1, <3>2, <3>3
  <2>8. RecordInv'
    <3>1. \A c \in 1 .. at' - 1 : c \in Counters /\ (c = at \/ c \in 1 .. at - 1)
      BY <1>1, <1>2 DEF Counters
    <3>2. \A c \in 1 .. at' - 1 : Listed(c)'
      BY <3>1, <2>7, <1>3 DEF PoolInv, RecordInv
    <3>3. pc' = at' - 1
      BY <1>1, <1>2
    <3> QED  BY <3>2, <3>3, <1>1, <1>3, <2>1 DEF PoolInv, RecordInv
  <2> QED  BY <1>1, <1>3, <2>4, <2>6, <2>8 DEF PoolInv, PreprocessInv, UseInv
<1>4. CASE phase = "use"
  <2>1. /\ waiting = {} /\ Len(got) = at - 1 /\ DOMAIN pool = at .. Len(Calls)
        /\ \A i \in 1 .. Len(got) : got[i] = [key |-> Calls[i], pooled |-> TRUE]
        /\ got \in Seq([key : Pool!Keys, pooled : BOOLEAN])
    BY <1>4 DEF PoolInv, UseInv, PoolTypeInv
  <2>2. at \in DOMAIN pool /\ pool[at] = Calls[at]
    BY <1>2, <2>1 DEF Counters, PoolInv, KeyInv
  <2>3. /\ got' = Append(got, [key |-> Calls[at], pooled |-> TRUE])
        /\ pool' = [c \in DOMAIN pool \ {at} |-> pool[c]]
        /\ UNCHANGED needed
    BY <1>2, <2>2 DEF Pool!Call, Pool!Popped
  <2>4. DOMAIN pool' = at' .. Len(Calls)
    <3>1. DOMAIN pool' = (at .. Len(Calls)) \ {at}
      BY <2>1, <2>3
    <3>2. (at .. Len(Calls)) \ {at} = at + 1 .. Len(Calls)
      BY <1>2
    <3> QED  BY <3>1, <3>2, <1>1
  <2>5. /\ Len(got') = at' - 1
        /\ \A i \in 1 .. Len(got') : got'[i] = [key |-> Calls[i], pooled |-> TRUE]
        /\ got' \in Seq([key : Pool!Keys, pooled : BOOLEAN])
    <3> DEFINE e == [key |-> Calls[at], pooled |-> TRUE]
    <3>1. e \in [key : Pool!Keys, pooled : BOOLEAN]
      BY <1>2
    <3>2. /\ Len(got') = Len(got) + 1 /\ got'[Len(got) + 1] = e
          /\ \A i \in 1 .. Len(got) : got'[i] = got[i]
          /\ got' \in Seq([key : Pool!Keys, pooled : BOOLEAN])
      <4> HIDE DEF e
      <4> QED  BY <2>1, <2>3, <3>1 DEF e
    <3>3. Len(got) + 1 = at /\ Len(got') = at' - 1
      BY <3>2, <2>1, <1>1, <1>2
    <3>4. \A i \in 1 .. Len(got') : i \in 1 .. Len(got) \/ i = at
      BY <3>3, <2>1, <1>1, <1>2
    <3> QED  BY <3>2, <3>3, <3>4, <2>1
  <2>6. PoolTypeInv'
    <3>1. at' \in 1 .. Len(Calls) + 1 /\ pc' \in Nat
      BY <1>1, <1>2 DEF Counters
    <3>2. DOMAIN pool' \subseteq Counters
      BY <2>3 DEF PoolInv, PoolTypeInv
    <3> QED  BY <3>1, <3>2, <1>1, <2>3, <2>5 DEF PoolInv, PoolTypeInv
  <2>7. KeyInv'
    BY <1>1, <2>3 DEF PoolInv, KeyInv
  <2>8. UseInv'
    BY <1>1, <1>2, <2>1, <2>4, <2>5 DEF UseInv
  <2> QED  BY <1>1, <1>4, <2>6, <2>7, <2>8 DEF PoolInv, RecordInv, PreprocessInv
<1> QED  BY <1>1, <1>3, <1>4

\* The first run is over.
LEMMA PoolPreprocess ==
    ASSUME PoolInv, Pool!Preprocess
    PROVE  PoolInv'
<1>1. /\ phase = "record" /\ at > Len(Calls) /\ phase' = "preprocess"
      /\ UNCHANGED <<pc, at, needed, waiting, pool, got>>
  BY DEF Pool!Preprocess
<1>2. PoolTypeInv' /\ KeyInv'
  BY <1>1 DEF PoolInv, PoolTypeInv, KeyInv
<1>3. Counters \subseteq 1 .. at - 1
  BY <1>1, PoolAssumption DEF PoolInv, PoolTypeInv, Counters
<1>4. PreprocessInv'
  BY <1>1, <1>3 DEF PoolInv, RecordInv, PreprocessInv, Listed
<1> QED  BY <1>1, <1>2, <1>4 DEF PoolInv, RecordInv, UseInv

\* A generator is called: the program counters it serves go from the record into a
\* batch.
LEMMA PoolGenerate ==
    ASSUME PoolInv, NEW key \in Pool!Keys, Pool!Generate(key)
    PROVE  PoolInv'
<1> DEFINE s == needed[key]
           n == IF Len(s) < MostAtOnce[key] THEN Len(s) ELSE MostAtOnce[key]
           u == SubSeq(s, 1, n)
           v == SubSeq(s, n + 1, Len(s))
           b == [key |-> key, pcs |-> u]
<1>1. /\ phase = "preprocess"
      /\ waiting' = waiting \cup {b}
      /\ needed' = [needed EXCEPT ![key] = v]
      /\ UNCHANGED <<pc, phase, at, pool, got>>
  BY DEF Pool!Generate, Pool!Rest
<1>2. s \in Seq(Counters) /\ Len(s) \in Nat /\ DOMAIN s = 1 .. Len(s)
  BY DEF PoolInv, PoolTypeInv
<1>3. n \in Nat /\ n <= Len(s)
  <2>1. MostAtOnce[key] \in Nat
    BY PoolAssumption
  <2> QED  BY <1>2, <2>1
<1> HIDE DEF n, s
<1>4. /\ u \in Seq(Counters) /\ DOMAIN u = 1 .. n
      /\ \A i \in 1 .. n : u[i] = s[i]
  BY <1>2, <1>3
<1>5. /\ v \in Seq(Counters) /\ DOMAIN v = 1 .. Len(s) - n
      /\ \A i \in 1 .. Len(s) - n : v[i] = s[n + i]
  BY <1>2, <1>3
<1> HIDE DEF u, v
<1>6. /\ needed'[key] = v /\ needed' \in [Pool!Keys -> Seq(Counters)]
      /\ \A k \in Pool!Keys : k # key => needed'[k] = needed[k]
  BY <1>1, <1>5 DEF PoolInv, PoolTypeInv
<1>7. b \in [key : Pool!Keys, pcs : Seq(Counters)] /\ b.key = key /\ b.pcs = u
  BY <1>4
<1> HIDE DEF b
<1>8. PoolTypeInv'
  BY <1>1, <1>6, <1>7 DEF PoolInv, PoolTypeInv
<1>9. KeyInv'
  <2>1. \A i \in 1 .. Len(s) : Calls[s[i]] = key
    BY <1>2 DEF PoolInv, KeyInv, s
  <2>2. \A i \in DOMAIN u : Calls[u[i]] = key
    BY <1>2, <1>3, <1>4, <2>1
  <2>3. \A i \in DOMAIN v : Calls[v[i]] = key
    <3> TAKE i \in DOMAIN v
    <3>1. n + i \in 1 .. Len(s)
      BY <1>2, <1>3, <1>5
    <3> QED  BY <3>1, <1>5, <2>1
  <2>4. \A k \in Pool!Keys : \A i \in DOMAIN needed'[k] : Calls[needed'[k][i]] = k
    BY <1>6, <2>3 DEF PoolInv, KeyInv
  <2>5. \A a \in waiting' : \A i \in DOMAIN a.pcs : Calls[a.pcs[i]] = a.key
    BY <1>1, <1>7, <2>2 DEF PoolInv, KeyInv
  <2> QED  BY <2>4, <2>5, <1>1 DEF PoolInv, KeyInv
<1>10. PreprocessInv'
  <2> SUFFICES ASSUME NEW c \in Counters
               PROVE  c \in DOMAIN pool' \/ Listed(c)' \/ Batched(c)'
    BY DEF PreprocessInv
  <2>1. CASE c \in DOMAIN pool
    BY <1>1, <2>1
  <2>2. CASE Batched(c)
    BY <1>1, <2>2 DEF Batched
  <2>3. CASE Listed(c) /\ Calls[c] # key
    <3>1. Calls[c] \in Pool!Keys
      BY PoolAssumption DEF Counters
    <3> QED  BY <3>1, <2>3, <1>6 DEF Listed
  <2>4. CASE Listed(c) /\ Calls[c] = key
    <3>1. PICK i \in 1 .. Len(s) : s[i] = c
      BY <2>4, <1>2 DEF Listed, s
    <3>2. CASE i <= n
      <4>1. i \in DOMAIN u /\ u[i] = c
        BY <3>1, <3>2, <1>2, <1>3, <1>4
      <4> QED  BY <4>1, <2>4, <1>1, <1>7 DEF Batched
    <3>3. CASE i > n
      <4>1. i - n \in 1 .. Len(s) - n /\ n + (i - n) = i
        BY <3>1, <3>3, <1>2, <1>3
      <4>2. i - n \in DOMAIN v /\ v[i - n] = c
        BY <4>1, <3>1, <1>5
      <4> QED  BY <4>2, <2>4, <1>6 DEF Listed
    <3> QED  BY <3>1, <3>2, <3>3, <1>2, <1>3
  <2> QED  BY <1>1, <2>1, <2>2, <2>3, <2>4 DEF PoolInv, PreprocessInv
<1> QED  BY <1>1, <1>8, <1>9, <1>10 DEF PoolInv, RecordInv, UseInv

\* The items of a batch come into the pool.
LEMMA PoolUpdate ==
    ASSUME PoolInv, NEW batch \in waiting, Pool!Update(batch)
    PROVE  PoolInv'
<1> DEFINE pcs == {batch.pcs[i] : i \in DOMAIN batch.pcs}
<1>1. /\ waiting' = waiting \ {batch}
      /\ pool' = [c \in DOMAIN pool \cup pcs |-> IF c \in pcs THEN batch.key ELSE pool[c]]
      /\ UNCHANGED <<pc, phase, at, needed, got>>
  BY DEF Pool!Update
<1>2. phase = "preprocess"
  BY DEF PoolInv, PoolTypeInv, RecordInv, UseInv
<1>3. batch.pcs \in Seq(Counters)
  BY DEF PoolInv, PoolTypeInv
<1>4. /\ DOMAIN pool' = DOMAIN pool \cup pcs
      /\ \A c \in DOMAIN pool' : pool'[c] = IF c \in pcs THEN batch.key ELSE pool[c]
      /\ pcs \subseteq Counters
  BY <1>1, <1>3
<1>5. \A c \in pcs : batch.key = Calls[c]
  BY DEF PoolInv, KeyInv
<1>6. PoolTypeInv'
  BY <1>1, <1>4 DEF PoolInv, PoolTypeInv
<1>7. KeyInv'
  BY <1>1, <1>4, <1>5 DEF PoolInv, KeyInv
<1>8. PreprocessInv'
  <2> SUFFICES ASSUME NEW c \in Counters
               PROVE  c \in DOMAIN pool' \/ Listed(c)' \/ Batched(c)'
    BY DEF PreprocessInv
  <2>1. CASE c \in DOMAIN pool
    BY <1>4, <2>1
  <2>2. CASE Listed(c)
    BY <1>1, <2>2 DEF Listed
  <2>3. CASE Batched(c)
    <3>1. PICK a \in waiting : a.key = Calls[c] /\ \E i \in DOMAIN a.pcs : a.pcs[i] = c
      BY <2>3 DEF Batched
    <3>2. CASE a = batch
      BY <3>1, <3>2, <1>4
    <3>3. CASE a # batch
      BY <3>1, <3>3, <1>1 DEF Batched
    <3> QED  BY <3>2, <3>3
  <2> QED  BY <1>2, <2>1, <2>2, <2>3 DEF PoolInv, PreprocessInv
<1> QED  BY <1>1, <1>2, <1>6, <1>7, <1>8 DEF PoolInv, RecordInv, UseInv

\* The second run begins, with a full pool.
LEMMA PoolUse ==
    ASSUME PoolInv, Pool!UsePool
    PROVE  PoolInv'
<1>1. /\ phase = "preprocess" /\ phase' = "use"
      /\ \A key \in Pool!Keys : needed[key] = <<>>
      /\ waiting = {}
      /\ pc' = 0 /\ at' = 1 /\ got' = <<>>
      /\ UNCHANGED <<needed, waiting, pool>>
  BY PoolAssumption DEF Pool!UsePool
<1>2. Counters \subseteq DOMAIN pool
  <2> SUFFICES ASSUME NEW c \in Counters PROVE c \in DOMAIN pool
    OBVIOUS
  <2>1. Calls[c] \in Pool!Keys
    BY PoolAssumption DEF Counters
  <2>2. ~Listed(c) /\ ~Batched(c)
    BY <1>1, <2>1 DEF Listed, Batched
  <2> QED  BY <1>1, <2>2 DEF PoolInv, PreprocessInv
<1>3. DOMAIN pool' = at' .. Len(Calls)
  BY <1>1, <1>2 DEF PoolInv, PoolTypeInv, Counters
<1>4. PoolTypeInv'
  <2>1. at' \in 1 .. Len(Calls) + 1 /\ pc' \in Nat
    BY <1>1, PoolAssumption
  <2> QED  BY <1>1, <2>1 DEF PoolInv, PoolTypeInv
<1>5. KeyInv'
  BY <1>1 DEF PoolInv, KeyInv
<1>6. UseInv'
  BY <1>1, <1>3 DEF UseInv
<1> QED  BY <1>1, <1>4, <1>5, <1>6 DEF PoolInv, RecordInv, PreprocessInv

\* The inductive invariant holds in every reachable state.
THEOREM PoolInvariant == Pool!Spec => []PoolInv
<1>1. Pool!Init => PoolInv
  <2> SUFFICES ASSUME Pool!Init PROVE PoolInv
    OBVIOUS
  <2>1. PoolTypeInv
    BY PoolAssumption DEF Pool!Init, PoolTypeInv
  <2>2. KeyInv
    BY DEF Pool!Init, KeyInv
  <2>3. RecordInv
    BY DEF Pool!Init, RecordInv
  <2>4. PreprocessInv /\ UseInv
    BY DEF Pool!Init, PreprocessInv, UseInv
  <2> QED  BY <2>1, <2>2, <2>3, <2>4 DEF PoolInv
<1>2. PoolInv /\ [Pool!Next]_(Pool!vars) => PoolInv'
  <2> SUFFICES ASSUME PoolInv, [Pool!Next]_(Pool!vars) PROVE PoolInv'
    OBVIOUS
  <2>1. CASE Pool!Call
    BY <2>1, PoolCall
  <2>2. CASE Pool!Preprocess
    BY <2>2, PoolPreprocess
  <2>3. CASE Pool!UsePool
    BY <2>3, PoolUse
  <2>4. ASSUME NEW key \in Pool!Keys, Pool!Generate(key) PROVE PoolInv'
    BY <2>4, PoolGenerate
  <2>5. ASSUME NEW batch \in waiting, Pool!Update(batch) PROVE PoolInv'
    BY <2>5, PoolUpdate
  <2>6. CASE UNCHANGED Pool!vars
    BY <2>6 DEF Pool!vars, PoolInv, PoolTypeInv, KeyInv, RecordInv, PreprocessInv, UseInv, Listed,
                Batched
  <2> QED  BY <2>1, <2>2, <2>3, <2>4, <2>5, <2>6 DEF Pool!Next
<1> QED  BY <1>1, <1>2, PTL DEF Pool!Spec

\* The second run finds for each of its calls an item that its own generator has
\* made, and leaves nothing in the pool.
THEOREM PoolFitsHolds == Pool!Spec => []PoolFits
<1>1. PoolInv => PoolFits
  <2> SUFFICES ASSUME PoolInv, phase = "use"
               PROVE  /\ \A i \in DOMAIN got : got[i] = [key |-> Calls[i], pooled |-> TRUE]
                      /\ at > Len(Calls) => DOMAIN pool = {}
    BY DEF PoolFits, Pool!PoolFits
  <2>1. DOMAIN got = 1 .. Len(got) /\ at \in Nat /\ Len(Calls) \in Nat
    BY PoolAssumption DEF PoolInv, PoolTypeInv
  <2>2. /\ \A i \in 1 .. Len(got) : got[i] = [key |-> Calls[i], pooled |-> TRUE]
        /\ DOMAIN pool = at .. Len(Calls)
    BY DEF PoolInv, UseInv
  <2> QED  BY <2>1, <2>2
<1> QED  BY <1>1, PoolInvariant, PTL
------------------------------------------------------------------------------
\* Triples of the BeDOZa runtime: what multiplying with one gives, and which ones pass
\* the test.

\* Division with rest, by a modulus.
LEMMA Divided ==
    ASSUME NEW m \in Nat, m > 1, NEW x \in Int
    PROVE  /\ x \div m \in Int /\ x = m * (x \div m) + (x % m)
           /\ x % m \in 0 .. m - 1
OBVIOUS

\* A rest is known by what it differs from the number.
LEMMA RestIs ==
    ASSUME NEW m \in Nat, m > 1, NEW x \in Int, NEW q \in Int, NEW r \in 0 .. m - 1,
           x = m * q + r
    PROVE  x % m = r
<1> DEFINE xr == x % m
           xq == x \div m
           k == q - xq
           d == xr - r
<1>1. xq \in Int /\ x = m * xq + xr /\ xr \in 0 .. m - 1
  BY Divided
<1> HIDE DEF xr, xq
<1>2. d = m * k
  BY <1>1
<1>3. k \in Int /\ d < m /\ - m < d
  BY <1>1
<1> HIDE DEF k, d
<1>4. k < 1
  BY <1>2, <1>3
<1>5. k > -1
  BY <1>2, <1>3
<1>6. k = 0
  BY <1>3, <1>4, <1>5
<1>7. d = 0
  BY <1>2, <1>6
<1> QED  BY <1>1, <1>7 DEF d, xr

\* Sums and differences may be made from the rests.
LEMMA RestsSuffice ==
    ASSUME NEW m \in Nat, m > 1, NEW x \in Int, NEW y \in Int
    PROVE  /\ ((x % m) + (y % m)) % m = (x + y) % m
           /\ ((x % m) - (y % m)) % m = (x - y) % m
<1> DEFINE xq == x \div m
           yq == y \div m
           xr == x % m
           yr == y % m
<1>1. /\ xq \in Int /\ x = m * xq + xr /\ xr \in Int
      /\ yq \in Int /\ y = m * yq + yr /\ yr \in Int
  BY Divided
<1> HIDE DEF xq, yq, xr, yr
<1>2. ASSUME NEW u \in Int, NEW v \in Int, NEW q \in Int, u = v + m * q
      PROVE  u % m = v % m
  <2> DEFINE vq == v \div m
             vr == v % m
  <2>1. vq \in Int /\ v = m * vq + vr /\ vr \in 0 .. m - 1
    BY Divided
  <2> HIDE DEF vq, vr
  <2>2. u = m * (vq + q) + vr /\ vq + q \in Int
    BY <1>2, <2>1
  <2>3. u % m = vr
    BY <2>1, <2>2, RestIs
  <2> QED  BY <2>3 DEF vr
<1>3. /\ xr + yr \in Int /\ x + y \in Int /\ - xq - yq \in Int
      /\ xr + yr = (x + y) + m * (- xq - yq)
  BY <1>1
<1>4. /\ xr - yr \in Int /\ x - y \in Int /\ yq - xq \in Int
      /\ xr - yr = (x - y) + m * (yq - xq)
  BY <1>1
<1>5. (xr + yr) % m = (x + y) % m
  BY <1>2, <1>3
<1>6. (xr - yr) % m = (x - y) % m
  BY <1>2, <1>4
<1> QED  BY <1>5, <1>6 DEF xr, yr

\* A number that is small against the modulus of the cipher is decrypted as it is.
LEMMA DecryptedIs ==
    ASSUME NEW M \in Nat, NEW h \in Nat, 2 * h < M, M > 1, NEW x \in - h .. h
    PROVE  Decrypted(M, x) = x
<1>1. (M - 1) \div 2 >= h /\ (M - 1) \div 2 < M - h
  OBVIOUS
<1>2. CASE x >= 0
  <2>1. x \in 0 .. M - 1 /\ x = M * 0 + x
    BY <1>2
  <2>2. x % M = x
    BY <2>1, RestIs
  <2> QED  BY <1>1, <1>2, <2>2 DEF Decrypted
<1>3. CASE x < 0
  <2>1. x + M \in 0 .. M - 1 /\ x = M * (-1) + (x + M)
    BY <1>3
  <2>2. x % M = x + M
    BY <2>1, RestIs
  <2>3. ~ (x + M <= (M - 1) \div 2)
    BY <1>1
  <2> QED  BY <2>2, <2>3 DEF Decrypted
<1> QED  BY <1>2, <1>3

\* The field is one of numbers modulo a prime.
LEMMA Modular ==
    ASSUME Field \in Nat, Field # GF256
    PROVE  /\ Field > 1 /\ F = 0 .. Field - 1 /\ F \subseteq Int
           /\ \A x \in Int : x % Field \in F
           /\ \A x, y \in Int : (x % Field) (+) (y % Field) = (x + y) % Field
           /\ \A x \in Int : 0 (-) (x % Field) = (- x) % Field
           /\ \A x, y \in F : x (.) y = (x * y) % Field
<1>1. Field > 1 /\ F = 0 .. Field - 1 /\ F \subseteq Int
  <2>1. 0 \in F /\ 1 \in F /\ F = 0 .. Field - 1
    BY Laws DEF F, Elements
  <2> QED  BY <2>1
<1>2. \A x \in Int : x % Field \in F
  BY <1>1, Divided
<1>3. \A x, y : x (+) y = (x + y) % Field /\ x (-) y = (x - y) % Field /\ x (.) y = (x * y) % Field
  BY DEF (+), (-), (.), Add, Sub, Mul
<1>4. \A x, y \in Int : (x % Field) (+) (y % Field) = (x + y) % Field
  BY <1>1, <1>3, RestsSuffice
<1>5. ASSUME NEW x \in Int PROVE 0 (-) (x % Field) = (- x) % Field
  <2>1. 0 % Field = 0 /\ 0 - x = - x
    BY <1>1
  <2>2. \A y \in Int : ((y % Field) - (x % Field)) % Field = (y - x) % Field
    BY <1>1, RestsSuffice
  <2>3. ((0 % Field) - (x % Field)) % Field = (0 - x) % Field
    BY <2>2
  <2> QED  BY <1>3, <2>1, <2>3
<1> QED  BY <1>1, <1>2, <1>3, <1>4, <1>5

\* The sum of nothing.
LEMMA SumOfZeros == FieldSum(Field, [q \in Players |-> 0]) = 0
<1>1. 0 \in F /\ 1 \in Players
  BY Laws, CodeFacts
<1>2. [q \in Players |-> 0] = [q \in Players |-> IF q = 1 THEN 0 ELSE 0]
  OBVIOUS
<1> QED  BY <1>1, <1>2, SumOfOne

\* The sum over a table is the same by rows and by columns.
LEMMA RowsAndColumns ==
    ASSUME NEW u \in [Players -> [Players -> F]]
    PROVE  FieldSum(Field, [p \in Players |-> FieldSum(Field, [i \in Players |-> u[i][p]])])
               = FieldSum(Field, [i \in Players |-> FieldSum(Field, u[i])])
<1> DEFINE column(p) == [i \in Players |-> u[i][p]]
           row == [i \in Players |-> FieldSum(Field, u[i])]
           IsColumn(h, p) ==
               /\ FieldSum(Field, column(p)) = h[Players] /\ h[{}] = 0
               /\ \A s \in SUBSET Players : s # {} =>
                      h[s] = column(p)[Some(s)] (+) h[s \ {Some(s)}]
           H == [p \in Players |-> CHOOSE h \in [SUBSET Players -> F] : IsColumn(h, p)]
           part(s) == [p \in Players |-> H[p][s]]
<1>1. row \in [Players -> F]
  BY SumInField
<1>2. ASSUME NEW p \in Players PROVE H[p] \in [SUBSET Players -> F] /\ IsColumn(H[p], p)
  <2>1. column(p) \in [Players -> F]
    OBVIOUS
  <2>2. \E h \in [SUBSET Players -> F] : IsColumn(h, p)
    <3> HIDE DEF column
    <3> QED  BY <2>1, SumIs
  <2> HIDE DEF IsColumn
  <2> QED  BY <2>2
<1> HIDE DEF H
<1>3. PICK hr \in [SUBSET Players -> F] :
          /\ FieldSum(Field, row) = hr[Players] /\ hr[{}] = 0
          /\ \A s \in SUBSET Players : s # {} => hr[s] = row[Some(s)] (+) hr[s \ {Some(s)}]
  <2> HIDE DEF row
  <2> QED  BY <1>1, SumIs
<1> DEFINE T == {s \in SUBSET Players : FieldSum(Field, part(s)) = hr[s]}
<1>4. {} \in T
  <2>1. part({}) = [q \in Players |-> 0]
    BY <1>2
  <2> QED  BY <1>3, <2>1, SumOfZeros
<1>5. ASSUME NEW s \in SUBSET Players, s # {} /\ s \ {Some(s)} \in T PROVE s \in T
  <2> DEFINE x == Some(s)
             r == s \ {Some(s)}
  <2>1. x \in Players /\ r \in SUBSET Players
    BY <1>5, Peeled
  <2>2. \A p \in Players : H[p][s] = u[x][p] (+) H[p][r]
    BY <1>2, <1>5, <2>1
  <2>3. part(s) = [p \in Players |-> u[x][p] (+) part(r)[p]]
    BY <2>2
  <2>8. \A p \in Players : H[p][r] \in F
    <3> HIDE DEF IsColumn, r
    <3>1. \A p \in Players : H[p] \in [SUBSET Players -> F]
      BY <1>2
    <3> QED  BY <2>1, <3>1
  <2>4. part(r) \in [Players -> F] /\ u[x] \in [Players -> F]
    <3> HIDE DEF r
    <3> QED  BY <2>1, <2>8
  <2>5. FieldSum(Field, part(r)) = hr[r] /\ hr[s] = row[x] (+) hr[r]
    BY <1>3, <1>5
  <2>6. row[x] = FieldSum(Field, u[x])
    BY <2>1
  <2> HIDE DEF part, x, r, row
  <2>7. FieldSum(Field, part(s)) = FieldSum(Field, u[x]) (+) FieldSum(Field, part(r))
    BY <2>3, <2>4, SumOfPlus
  <2> QED  BY <2>5, <2>6, <2>7
<1>6. \A s \in SUBSET Players : s \in T
  <2> HIDE DEF T
  <2> QED  BY <1>4, <1>5, PeelInduct
<1>7. FieldSum(Field, part(Players)) = FieldSum(Field, row)
  BY <1>3, <1>6
<1>8. part(Players) = [p \in Players |-> FieldSum(Field, column(p))]
  BY <1>2
<1> QED  BY <1>7, <1>8

\* The moduli with which the numbers of the program (a prime field) can be encrypted: a
\* product of two and what is drawn up to the bound fit, with either sign.
Moduli(bound) ==
    {M \in Nat : Field \in Nat /\ Field # GF256 /\ 2 * (Field * Field + bound) < M}

\* _mul: the two parties get numbers that add up to the product.
LEMMA MulPairIs ==
    ASSUME Field \in Nat, Field # GF256,
           NEW M \in Nat, NEW bound \in Nat, 2 * (Field * Field + bound) < M,
           NEW x \in F, NEW y \in F, NEW w \in - bound .. bound
    PROVE  /\ w % Field \in F
           /\ MulPair(M, x, y, w)[1] = 0 (-) (w % Field)
           /\ MulPair(M, x, y, w)[2] = (y (.) x) (+) (w % Field)
<1> DEFINE h == Field * Field + bound
           xy == x * y
           z == xy + w
<1>1. /\ Field > 1 /\ F = 0 .. Field - 1 /\ F \subseteq Int
      /\ \A v \in Int : v % Field \in F
      /\ \A v \in Int : 0 (-) (v % Field) = (- v) % Field
  BY Modular
<1>2. x \in 0 .. Field - 1 /\ y \in 0 .. Field - 1 /\ w \in Int
  BY <1>1
<1>3. xy \in Nat /\ xy <= Field * Field /\ Field * Field \in Nat /\ 1 <= Field * Field
  <2> DEFINE fy == Field * y
             ff == Field * Field
  <2>1. xy \in Nat /\ xy <= fy /\ fy \in Nat
    BY <1>2
  <2>2. fy <= ff /\ ff \in Nat
    BY <1>2
  <2>3. Field <= ff
    BY <1>1
  <2> HIDE DEF fy, ff, xy
  <2>4. xy \in Nat /\ xy <= ff /\ ff \in Nat /\ 1 <= ff
    BY <1>1, <2>1, <2>2, <2>3
  <2> QED  BY <2>4 DEF ff
<1> HIDE DEF xy
<1>4. h \in Nat /\ 2 * h < M /\ M > 1 /\ z \in - h .. h /\ z \in Int
  BY <1>3
<1> HIDE DEF h
<1>5. Decrypted(M, z) = z
  BY <1>4, DecryptedIs
<1>6. z % Field = (xy % Field) (+) (w % Field)
  <2>1. \A v, v1 \in Int : (v % Field) (+) (v1 % Field) = (v + v1) % Field
    BY Modular
  <2>2. (xy % Field) (+) (w % Field) = (xy + w) % Field
    <3>1. xy \in Int /\ w \in Int
      BY <1>2, <1>3
    <3> QED  BY <2>1, <3>1, Zenon
  <2> QED  BY <2>2
<1>7. y (.) x = xy % Field
  <2>1. x (.) y = (x * y) % Field /\ x (.) y = y (.) x
    BY Modular, Laws
  <2> QED  BY <2>1 DEF xy
<1>8. MulPair(M, x, y, w) = <<(- w) % Field, Decrypted(M, z) % Field>>
  BY DEF MulPair, xy
<1> HIDE DEF z
<1>9. /\ MulPair(M, x, y, w)[1] = (- w) % Field
      /\ MulPair(M, x, y, w)[2] = z % Field
  BY <1>5, <1>8
<1> QED  BY <1>1, <1>2, <1>6, <1>7, <1>9

LEMMA MulPairFits ==
    ASSUME NEW bound \in Nat, NEW M \in Moduli(bound),
           NEW x \in F, NEW y \in F, NEW w \in - bound .. bound
    PROVE  /\ w % Field \in F
           /\ MulPair(M, x, y, w)[1] = 0 (-) (w % Field)
           /\ MulPair(M, x, y, w)[2] = (y (.) x) (+) (w % Field)
BY MulPairIs DEF Moduli

\* _full_mul: what the players get of the pairs of products adds up to the product of the
\* two numbers, for what is added to a product is taken away by its other party.
LEMMA FullMulIs ==
    ASSUME NEW bound \in Nat, NEW M \in Moduli(bound),
           NEW a \in [Players -> F], NEW b \in [Players -> F],
           NEW u \in [Players -> [Players -> 0 .. bound]]
    PROVE  /\ FullMul(M, a, b, u) \in [Players -> F]
           /\ FieldSum(Field, FullMul(M, a, b, u)) = FieldSum(Field, a) (.) FieldSum(Field, b)
<1> DEFINE U == [i \in Players |-> [j \in Players |-> u[i][j] % Field]]
           A == FieldSum(Field, a)
           row == [p \in Players |-> FieldSum(Field, U[p])]
           column == [p \in Players |-> FieldSum(Field, [i \in Players |-> U[i][p]])]
           own == [p \in Players |-> A (.) b[p]]
           zeros == [p \in Players |-> 0]
<1>1. ASSUME NEW x \in F, NEW y \in F, NEW w \in 0 .. bound
      PROVE  /\ w % Field \in F
             /\ MulPair(M, x, y, w)[1] = 0 (-) (w % Field)
             /\ MulPair(M, x, y, w)[2] = (y (.) x) (+) (w % Field)
  <2>1. w \in - bound .. bound
    OBVIOUS
  <2> QED  BY <2>1, MulPairFits
<1>2. U \in [Players -> [Players -> F]] /\ zeros \in [Players -> F]
  <2>1. 0 \in F /\ \A i, j \in Players : u[i][j] \in 0 .. bound
    BY Laws
  <2>2. \A w \in 0 .. bound : w % Field \in F
    BY <1>1, <2>1
  <2> QED  BY <2>1, <2>2
<1>3. A \in F /\ row \in [Players -> F] /\ column \in [Players -> F] /\ own \in [Players -> F]
  <2>1. A \in F
    BY SumInField
  <2>2. \A p \in Players : U[p] \in [Players -> F] /\ [i \in Players |-> U[i][p]] \in [Players -> F]
    BY <1>2
  <2> HIDE DEF U, A
  <2>3. \A p \in Players : A (.) b[p] \in F
    BY <2>1, Laws
  <2> QED  BY <2>1, <2>2, <2>3, SumInField
<1>4. ASSUME NEW p \in Players
      PROVE  FullMul(M, a, b, u)[p] = (0 (-) row[p]) (+) (own[p] (+) column[p])
  <2> DEFINE first == [j \in Players |-> MulPair(M, a[p], b[j], u[p][j])[1]]
             second == [i \in Players |-> MulPair(M, a[i], b[p], u[i][p])[2]]
             products == [i \in Players |-> b[p] (.) a[i]]
             masks == [i \in Players |-> U[i][p]]
  <2>1. first = [j \in Players |-> zeros[j] (-) U[p][j]]
    <3>1. ASSUME NEW j \in Players PROVE first[j] = zeros[j] (-) U[p][j]
      <4>1. a[p] \in F /\ b[j] \in F /\ u[p][j] \in 0 .. bound
        OBVIOUS
      <4>2. MulPair(M, a[p], b[j], u[p][j])[1] = 0 (-) (u[p][j] % Field)
        BY <1>1, <4>1, Zenon
      <4> QED  BY <4>2
    <3> QED  BY <3>1
  <2>2. FieldSum(Field, first) = 0 (-) row[p]
    <3>1. U[p] \in [Players -> F]
      BY <1>2
    <3> HIDE DEF U, first
    <3>2. FieldSum(Field, [j \in Players |-> zeros[j] (-) U[p][j]])
             = FieldSum(Field, zeros) (-) FieldSum(Field, U[p])
      <4> HIDE DEF zeros
      <4> QED  BY <1>2, <3>1, SumOfMinus
    <3> QED  BY <2>1, <3>2, SumOfZeros
  <2>3. ASSUME NEW i \in Players PROVE second[i] = products[i] (+) masks[i]
    <3>1. a[i] \in F /\ b[p] \in F /\ u[i][p] \in 0 .. bound
      OBVIOUS
    <3>2. MulPair(M, a[i], b[p], u[i][p])[2] = (b[p] (.) a[i]) (+) (u[i][p] % Field)
      BY <1>1, <3>1, Zenon
    <3> QED  BY <3>2
  <2>4. FieldSum(Field, second) = own[p] (+) column[p]
    <3>1. second = [i \in Players |-> products[i] (+) masks[i]]
      BY <2>3
    <3>6. b[p] \in F /\ \A i \in Players : b[p] (.) a[i] \in F /\ U[i][p] \in F
      BY <1>2, Laws
    <3>2. b[p] \in F /\ products \in [Players -> F] /\ masks \in [Players -> F]
      <4> HIDE DEF U
      <4> QED  BY <3>6
    <3>3. FieldSum(Field, products) = b[p] (.) A
      BY <3>2, SumOfMultiples
    <3>4. b[p] (.) A = own[p] /\ FieldSum(Field, masks) = column[p]
      BY <1>3, <3>2, Laws
    <3> HIDE DEF second, products, masks, own, column, A
    <3>5. FieldSum(Field, [i \in Players |-> products[i] (+) masks[i]])
             = FieldSum(Field, products) (+) FieldSum(Field, masks)
      BY <3>2, SumOfPlus
    <3> QED  BY <3>1, <3>3, <3>4, <3>5
  <2>5. FullMul(M, a, b, u)[p] = FieldSum(Field, first) (+) FieldSum(Field, second)
    BY DEF FullMul, (+)
  <2> QED  BY <2>2, <2>4, <2>5
<1> DEFINE minus == [p \in Players |-> 0 (-) row[p]]
           rest == [p \in Players |-> own[p] (+) column[p]]
<1>5. minus \in [Players -> F] /\ rest \in [Players -> F]
  <2> HIDE DEF row, own, column
  <2>1. \A p \in Players : 0 (-) row[p] \in F /\ own[p] (+) column[p] \in F
    BY <1>3, Laws
  <2> QED  BY <2>1
<1>6. FullMul(M, a, b, u) = [p \in Players |-> minus[p] (+) rest[p]]
  <2>1. DOMAIN FullMul(M, a, b, u) = Players
    BY DEF FullMul
  <2>2. FullMul(M, a, b, u) = [p \in Players |-> FullMul(M, a, b, u)[p]]
    BY DEF FullMul
  <2>3. \A p \in Players : FullMul(M, a, b, u)[p] = minus[p] (+) rest[p]
    BY <1>4
  <2> HIDE DEF minus, rest
  <2> QED  BY <2>2, <2>3
<1>7. FieldSum(Field, minus) = 0 (-) FieldSum(Field, row)
  <2>1. minus = [p \in Players |-> zeros[p] (-) row[p]]
    OBVIOUS
  <2>2. FieldSum(Field, [p \in Players |-> zeros[p] (-) row[p]])
           = FieldSum(Field, zeros) (-) FieldSum(Field, row)
    <3> HIDE DEF zeros, row
    <3> QED  BY <1>2, <1>3, SumOfMinus
  <2> HIDE DEF minus, row
  <2> QED  BY <2>1, <2>2, SumOfZeros
<1>8. FieldSum(Field, column) = FieldSum(Field, row)
  <2> HIDE DEF U
  <2> QED  BY <1>2, RowsAndColumns
<1> DEFINE S == FieldSum(Field, row)
           B == FieldSum(Field, b)
<1>9. FieldSum(Field, own) = A (.) B
  <2> HIDE DEF A
  <2> QED  BY <1>3, SumOfMultiples
<1>10. FieldSum(Field, rest) = (A (.) B) (+) S
  <2>1. FieldSum(Field, rest) = FieldSum(Field, own) (+) FieldSum(Field, column)
    <3> HIDE DEF own, column
    <3> QED  BY <1>3, SumOfPlus
  <2> QED  BY <1>8, <1>9, <2>1
<1>11. S \in F /\ B \in F /\ A (.) B \in F /\ 0 (-) S \in F /\ 0 \in F
  <2>1. S \in F /\ B \in F
    <3> HIDE DEF row
    <3> QED  BY <1>3, SumInField
  <2> HIDE DEF S, B, A
  <2> QED  BY <1>3, <2>1, Laws
<1> HIDE DEF minus, rest, A, B, S
<1>12. FieldSum(Field, FullMul(M, a, b, u)) = (0 (-) S) (+) ((A (.) B) (+) S)
  <2>1. FieldSum(Field, [p \in Players |-> minus[p] (+) rest[p]])
           = FieldSum(Field, minus) (+) FieldSum(Field, rest)
    BY <1>5, SumOfPlus
  <2> QED  BY <1>6, <1>7, <1>10, <2>1 DEF S
<1>13. (0 (-) S) (+) ((A (.) B) (+) S) = A (.) B
  <2> DEFINE q == A (.) B
             w == 0 (-) S
  <2>1. q \in F /\ w \in F /\ w (+) S = 0 /\ q (+) S = S (+) q /\ S (+) q \in F
    BY <1>11, Laws
  <2> HIDE DEF q, w
  <2>2. w (+) (S (+) q) = (w (+) S) (+) q /\ 0 (+) q = q
    BY <1>11, <2>1, Laws
  <2> QED  BY <2>1, <2>2 DEF q, w
<1>14. FullMul(M, a, b, u) \in [Players -> F]
  <2>1. \A p \in Players : minus[p] (+) rest[p] \in F
    BY <1>5, Laws
  <2> QED  BY <1>6, <2>1
<1> QED  BY <1>12, <1>13, <1>14 DEF A, B

\* A sharing that is opened at once gives its number.
LEMMA OpenedIs ==
    ASSUME NEW X, NEW v, IsSharing(X, v)
    PROVE  Opened(X) = v
BY DEF IsSharing, Valid, Opened

\* What differences give: products with them, and equations.
LEMMA DifferenceLaws ==
    ASSUME NEW a \in F, NEW b \in F, NEW c \in F
    PROVE  /\ c (.) (a (-) b) = (c (.) a) (-) (c (.) b)
           /\ a (-) b = 0 <=> a = b
           /\ (a (+) b) (-) c = a (+) (b (-) c)
           /\ a (-) b = c <=> a = b (+) c
<1>1. a (-) b \in F /\ (a (-) b) (+) b = a /\ 0 \in F /\ 0 (+) b = b
  BY Laws
<1>2. c (.) (a (-) b) = (c (.) a) (-) (c (.) b)
  <2>1. (c (.) (a (-) b)) (+) (c (.) b) = c (.) a
    BY <1>1, Laws
  <2>2. c (.) (a (-) b) \in F /\ c (.) b \in F /\ c (.) a \in F
    BY <1>1, Laws
  <2> QED  BY <2>1, <2>2, Difference
<1>3. a (-) b = 0 <=> a = b
  <2>1. (0 (+) b) (-) b = 0
    BY <1>1, Laws
  <2> QED  BY <1>1, <2>1
<1>4. (a (+) b) (-) c = a (+) (b (-) c)
  <2>1. b (-) c \in F /\ (b (-) c) (+) c = b /\ a (+) b \in F /\ a (+) (b (-) c) \in F
    BY Laws
  <2>2. (a (+) (b (-) c)) (+) c = a (+) b
    BY <2>1, Laws
  <2> QED  BY <2>1, <2>2, Difference
<1>5. a (-) b = c <=> a = b (+) c
  <2>1. c (+) b = b (+) c
    BY Laws
  <2>2. a = b (+) c => a (-) b = c
    BY <2>1, Difference
  <2>3. (a (-) b) (+) b = b (+) (a (-) b)
    BY <1>1, Laws
  <2> QED  BY <1>1, <2>2, <2>3
<1> QED  BY <1>2, <1>3, <1>4, <1>5

\* The algebra of _basic_multiplication: d = x - a and e = y - b are public.
LEMMA BasicProduct ==
    ASSUME NEW a \in F, NEW b \in F, NEW c \in F, NEW d \in F, NEW e \in F
    PROVE  (e (.) (d (+) a)) (+) (((d (.) (e (+) b)) (+) Neg(Field, d (.) e)) (+) c)
              = ((d (+) a) (.) (e (+) b)) (+) (c (-) (a (.) b))
<1> DEFINE p == d (.) e
           q == e (.) a
           r == d (.) b
           s == a (.) b
<1>1. p \in F /\ q \in F /\ r \in F /\ s \in F /\ d (+) a \in F /\ e (+) b \in F
  BY Laws
<1>2. e (.) (d (+) a) = p (+) q
  BY Laws
<1>3. d (.) (e (+) b) = p (+) r
  BY Laws
<1>4. (d (+) a) (.) (e (+) b) = (p (+) q) (+) (r (+) s)
  <2>1. (d (+) a) (.) (e (+) b) = ((d (+) a) (.) e) (+) ((d (+) a) (.) b)
    BY <1>1, Laws
  <2>2. (d (+) a) (.) e = p (+) q
    BY <1>1, <1>2, Laws
  <2>3. (d (+) a) (.) b = b (.) (d (+) a)
    BY <1>1, Laws
  <2>5. b (.) (d (+) a) = (b (.) d) (+) (b (.) a)
    BY Laws
  <2>4. b (.) d = r /\ b (.) a = s
    BY Laws
  <2> QED  BY <2>1, <2>2, <2>3, <2>4, <2>5
<1> HIDE DEF p, q, r, s
<1>5. (p (+) r) (+) Neg(Field, p) = r
  <2>1. p (+) r \in F /\ p (+) r = r (+) p /\ (r (+) p) (-) p = r
    BY <1>1, Laws
  <2>2. (p (+) r) (+) Neg(Field, p) = (p (+) r) (-) p
    BY <1>1, <2>1, SubIsAdd
  <2> QED  BY <2>1, <2>2
<1>6. (p (+) q) (+) (r (+) c) = ((p (+) q) (+) (r (+) s)) (+) (c (-) s)
  <2>1. c (-) s \in F /\ p (+) q \in F /\ r (+) s \in F
    BY <1>1, Laws
  <2>4. s (+) (c (-) s) = c
    <3>1. (c (-) s) (+) s = c /\ (c (-) s) (+) s = s (+) (c (-) s)
      BY <1>1, <2>1, Laws
    <3> QED  BY <3>1
  <2>2. ((p (+) q) (+) (r (+) s)) (+) (c (-) s) = (p (+) q) (+) ((r (+) s) (+) (c (-) s))
    BY <2>1, Laws
  <2>3. (r (+) s) (+) (c (-) s) = r (+) (s (+) (c (-) s))
    BY <1>1, <2>1, Laws
  <2> QED  BY <2>2, <2>3, <2>4
<1> QED  BY <1>2, <1>3, <1>4, <1>5, <1>6 DEF p, s

\* _basic_multiplication (simplearithmetic.py): with sharings of a, b and c the players make of
\* sharings of x and y one of x y + (c - a b), with MACs and keys that fit.  So the product
\* is right if and only if the triple is.
THEOREM MulByTripleIs ==
    ASSUME NEW X, NEW Y, NEW x, NEW y, IsSharing(X, x), IsSharing(Y, y),
           NEW triple, NEW a, NEW b, NEW c, IsSharing(triple.a, a),
           IsSharing(triple.b, b), IsSharing(triple.c, c)
    PROVE  IsSharing(MulByTriple(X, Y, triple), (x (.) y) (+) (c (-) (a (.) b)))
<1> DEFINE d == x (-) a
           e == y (-) b
           m == Neg(Field, d (.) e)
           X1 == [p \in Players |-> CMulContents(X[p], e)]
           Y1 == [p \in Players |-> CMulContents(Y[p], d)]
           Y2 == [p \in Players |-> AddPublic(p, Y1[p], m)]
           Z == [p \in Players |-> PlusContents(Y2[p], triple.c[p])]
           P == [p \in Players |-> PlusContents(X1[p], Z[p])]
<1>1. x \in F /\ y \in F /\ a \in F /\ b \in F /\ c \in F
  BY SharingFacts
<1>2. d \in F /\ e \in F /\ d (.) e \in F /\ m \in F /\ d (+) a = x /\ e (+) b = y
  BY <1>1, Laws
<1>3. /\ Opened([p \in Players |-> MinusContents(X[p], triple.a[p])]) = d
      /\ Opened([p \in Players |-> MinusContents(Y[p], triple.b[p])]) = e
  BY MinusShared, OpenedIs
<1>4. MulByTriple(X, Y, triple) = P
  BY <1>3 DEF MulByTriple, BasicMultiplication, (.)
<1> HIDE DEF d, e, m
<1>5. IsSharing(X1, e (.) x) /\ IsSharing(Y1, d (.) y)
  BY <1>2, MultipleShared
<1> HIDE DEF X1, Y1
<1>6. IsSharing(Y2, (d (.) y) (+) m)
  BY <1>2, <1>5, PublicShared
<1> HIDE DEF Y2
<1>7. IsSharing(Z, ((d (.) y) (+) m) (+) c)
  BY <1>6, PlusShared
<1> HIDE DEF Z
<1>8. IsSharing(P, (e (.) x) (+) (((d (.) y) (+) m) (+) c))
  BY <1>5, <1>7, PlusShared
<1>9. (e (.) x) (+) (((d (.) y) (+) m) (+) c) = (x (.) y) (+) (c (-) (a (.) b))
  BY <1>1, <1>2, BasicProduct DEF m
<1> QED  BY <1>4, <1>8, <1>9

\* The product of multiples.
LEMMA ScaledProduct ==
    ASSUME NEW r \in F, NEW a \in F, NEW b \in F
    PROVE  (r (.) a) (.) (r (.) b) = (r (.) r) (.) (a (.) b)
<1>1. r (.) a \in F /\ r (.) b \in F /\ r (.) r \in F /\ a (.) r \in F
  BY Laws
<1>2. (r (.) a) (.) (r (.) b) = ((r (.) a) (.) r) (.) b
  BY <1>1, Laws
<1>3. (r (.) a) (.) r = (r (.) r) (.) a
  BY <1>1, Laws
<1>4. ((r (.) r) (.) a) (.) b = (r (.) r) (.) (a (.) b)
  BY <1>1, Laws
<1> QED  BY <1>2, <1>3, <1>4

\* _verify_triple_candidates (bedoza_triple.py): a candidate passes the test against
\* another one, under the number r, if and only if its error c - a b is r * r times that
\* of the other.  So candidates that are right pass, under every r; a wrong one never
\* passes against one that is right, and otherwise under two r at most.
THEOREM ConsistentIf ==
    ASSUME NEW t1, NEW a1, NEW b1, NEW c1, IsSharing(t1.a, a1), IsSharing(t1.b, b1),
           IsSharing(t1.c, c1),
           NEW t2, NEW a2, NEW b2, NEW c2, IsSharing(t2.a, a2), IsSharing(t2.b, b2),
           IsSharing(t2.c, c2), NEW r \in F
    PROVE  Consistent(t1, t2, r)
              <=> c1 (-) (a1 (.) b1) = (r (.) r) (.) (c2 (-) (a2 (.) b2))
<1> DEFINE rr == r (.) r
           A == [p \in Players |-> CMulContents(t2.a[p], r)]
           B == [p \in Players |-> CMulContents(t2.b[p], r)]
           C == [p \in Players |-> CMulContents(t2.c[p], rr)]
           t == [a |-> A, b |-> B, c |-> C]
           P == MulByTriple(t1.a, t1.b, t)
           error == (rr (.) c2) (-) ((r (.) a2) (.) (r (.) b2))
           product == (a1 (.) b1) (+) error
<1>1. /\ a1 \in F /\ b1 \in F /\ c1 \in F /\ a2 \in F /\ b2 \in F /\ c2 \in F
      /\ rr \in F /\ a1 (.) b1 \in F /\ a2 (.) b2 \in F
  BY SharingFacts, Laws
<1>2. IsSharing(A, r (.) a2) /\ IsSharing(B, r (.) b2) /\ IsSharing(C, rr (.) c2)
  BY <1>1, MultipleShared
<1>3. IsSharing(P, product)
  <2>1. t.a = A /\ t.b = B /\ t.c = C
    OBVIOUS
  <2> HIDE DEF t, A, B, C, rr
  <2> QED  BY <1>2, <2>1, MulByTripleIs
<1>4. (r (.) a2) (.) (r (.) b2) = rr (.) (a2 (.) b2)
  BY <1>1, ScaledProduct
<1>5. error = rr (.) (c2 (-) (a2 (.) b2))
  <2> HIDE DEF rr
  <2> QED  BY <1>1, <1>4, DifferenceLaws
<1>6. Consistent(t1, t2, r) <=> c1 (-) product = 0
  <2>1. Opened([p \in Players |-> MinusContents(t1.c[p], P[p])]) = c1 (-) product
    <3> HIDE DEF P, product
    <3> QED  BY <1>3, MinusShared, OpenedIs
  <2> QED  BY <2>1 DEF Consistent, (.)
<1> HIDE DEF rr, error
<1>7. error \in F /\ product \in F
  BY <1>1, <1>5, Laws
<1>8. c1 (-) product = 0 <=> c1 = (a1 (.) b1) (+) error
  BY <1>1, <1>7, DifferenceLaws
<1>9. c1 (-) (a1 (.) b1) = error <=> c1 = (a1 (.) b1) (+) error
  BY <1>1, <1>7, DifferenceLaws
<1> QED  BY <1>5, <1>6, <1>8, <1>9 DEF rr

\* add_macs: the numbers of the players become a sharing, with keys and MACs that fit.
LEMMA AddMacsIs ==
    ASSUME NEW bound \in Nat, NEW M \in Moduli(bound),
           NEW values \in [Players -> F],
           NEW beta \in [Players -> [Players -> - bound .. bound]]
    PROVE  IsSharing(AddMacs(M, values, beta), FieldSum(Field, values))
<1> DEFINE X == AddMacs(M, values, beta)
<1>1. ASSUME NEW p \in Players, NEW q \in Players
      PROVE  /\ beta[q][p] % Field \in F /\ X[p].keys[q] = beta[p][q] % Field
             /\ X[q].macs[p] = MAC(Alpha[p], X[p].keys[q], values[q])
             /\ X[q].macs[p] \in F
  <2>1. /\ Alpha[p] \in F /\ values[q] \in F
        /\ beta[p][q] \in - bound .. bound /\ beta[q][p] \in - bound .. bound
    BY BedozaAssumption DEF F
  <2>2. /\ beta[p][q] % Field \in F /\ beta[q][p] % Field \in F
        /\ MulPair(M, Alpha[p], values[q], beta[p][q])[2]
              = (values[q] (.) Alpha[p]) (+) (beta[p][q] % Field)
    <3> DEFINE w1 == beta[p][q]
               w2 == beta[q][p]
               x == Alpha[p]
               y == values[q]
    <3> HIDE DEF w1, w2, x, y
    <3>1. /\ x \in F /\ y \in F /\ w1 \in - bound .. bound /\ w2 \in - bound .. bound
      BY <2>1, Zenon DEF w1, w2, x, y
    <3>2. /\ w1 % Field \in F /\ MulPair(M, x, y, w1)[2] = (y (.) x) (+) (w1 % Field)
          /\ w2 % Field \in F
      BY <3>1, MulPairFits, Zenon
    <3> QED  BY <3>2 DEF w1, w2, x, y
  <2>3. /\ X[p].keys[q] = beta[p][q] % Field
        /\ X[q].macs[p] = MulPair(M, Alpha[p], values[q], beta[p][q])[2]
    BY DEF AddMacs, MulPair
  <2> HIDE DEF X
  <2>4. values[q] (.) Alpha[p] = Alpha[p] (.) values[q]
    BY <2>1, Laws
  <2>5. X[q].macs[p] = (Alpha[p] (.) values[q]) (+) (beta[p][q] % Field)
    BY <2>2, <2>3, <2>4
  <2>6. (Alpha[p] (.) values[q]) (+) (beta[p][q] % Field) \in F
    BY <2>1, <2>2, Laws
  <2> QED  BY <2>2, <2>3, <2>5, <2>6 DEF MAC, (+), (.)
<1>2. ASSUME NEW q \in Players
      PROVE  /\ X[q] \in ContentsSet /\ X[q].value = values[q]
  <2>1. /\ X[q] = [value |-> X[q].value, keys |-> X[q].keys, macs |-> X[q].macs]
        /\ X[q].value = values[q]
        /\ X[q].keys = [p \in Players |-> X[q].keys[p]]
        /\ X[q].macs = [p \in Players |-> X[q].macs[p]]
    BY DEF AddMacs
  <2>2. \A p \in Players : X[q].keys[p] \in F /\ X[q].macs[p] \in F
    BY <1>1
  <2> HIDE DEF X
  <2>3. X[q].keys \in [Players -> F] /\ X[q].macs \in [Players -> F]
    BY <2>1, <2>2
  <2> QED  BY <2>1, <2>3 DEF ContentsSet
<1>3. X = [q \in Players |-> X[q]]
  BY DEF AddMacs
<1> HIDE DEF X
<1>4. X \in [Players -> ContentsSet]
  BY <1>2, <1>3
<1>5. [q \in Players |-> X[q].value] = values
  BY <1>2
<1>6. \A p, q \in Players : X[q].macs[p] = MAC(Alpha[p], X[p].keys[q], X[q].value)
  BY <1>1, <1>2
<1> QED  BY <1>4, <1>5, <1>6 DEF IsSharing, X

\* _generate_triple_candidates (bedoza_triple.py): if all players do as the protocol says, the
\* three parts are sharings with MACs and keys that fit, and the third is of the product of
\* the other two.  This takes keys of the cipher that are large enough for the numbers
\* that are encrypted, whatever is drawn from the range of u_bound.
THEOREM CandidateIsTriple ==
    ASSUME NEW bound \in Nat, NEW M \in Moduli(bound),
           NEW a \in [Players -> F], NEW b \in [Players -> F],
           NEW u \in [Players -> [Players -> 0 .. bound]],
           NEW betas \in [1 .. 3 -> [Players -> [Players -> - bound .. bound]]]
    PROVE  LET triple == Candidate(M, a, b, u, betas)
           IN  /\ IsSharing(triple.a, FieldSum(Field, a))
               /\ IsSharing(triple.b, FieldSum(Field, b))
               /\ IsSharing(triple.c, FieldSum(Field, a) (.) FieldSum(Field, b))
<1> DEFINE c == FullMul(M, a, b, u)
<1>1. c \in [Players -> F] /\ FieldSum(Field, c) = FieldSum(Field, a) (.) FieldSum(Field, b)
  BY FullMulIs
<1> HIDE DEF c
<1>2. IsSharing(AddMacs(M, a, betas[1]), FieldSum(Field, a))
  BY AddMacsIs
<1>3. IsSharing(AddMacs(M, b, betas[2]), FieldSum(Field, b))
  BY AddMacsIs
<1>4. IsSharing(AddMacs(M, c, betas[3]), FieldSum(Field, c))
  BY <1>1, AddMacsIs
<1> QED  BY <1>1, <1>2, <1>3, <1>4 DEF Candidate, c

\* So what _generate_triple_candidates makes passes the test of _verify_triple_candidates
\* against what it makes another time, under every r.
COROLLARY CandidatesPass ==
    ASSUME NEW bound \in Nat, NEW M \in Moduli(bound),
           NEW a1 \in [Players -> F], NEW b1 \in [Players -> F],
           NEW u1 \in [Players -> [Players -> 0 .. bound]],
           NEW betas1 \in [1 .. 3 -> [Players -> [Players -> - bound .. bound]]],
           NEW a2 \in [Players -> F], NEW b2 \in [Players -> F],
           NEW u2 \in [Players -> [Players -> 0 .. bound]],
           NEW betas2 \in [1 .. 3 -> [Players -> [Players -> - bound .. bound]]],
           NEW r \in F
    PROVE  Consistent(Candidate(M, a1, b1, u1, betas1), Candidate(M, a2, b2, u2, betas2), r)
<1> DEFINE t1 == Candidate(M, a1, b1, u1, betas1)
           t2 == Candidate(M, a2, b2, u2, betas2)
           A1 == FieldSum(Field, a1)
           B1 == FieldSum(Field, b1)
           A2 == FieldSum(Field, a2)
           B2 == FieldSum(Field, b2)
<1>1. IsSharing(t1.a, A1) /\ IsSharing(t1.b, B1) /\ IsSharing(t1.c, A1 (.) B1)
  BY CandidateIsTriple
<1>2. IsSharing(t2.a, A2) /\ IsSharing(t2.b, B2) /\ IsSharing(t2.c, A2 (.) B2)
  BY CandidateIsTriple
<1> HIDE DEF t1, t2, A1, B1, A2, B2
<1>3. Consistent(t1, t2, r)
         <=> (A1 (.) B1) (-) (A1 (.) B1) = (r (.) r) (.) ((A2 (.) B2) (-) (A2 (.) B2))
  BY <1>1, <1>2, ConsistentIf
<1>4. A1 (.) B1 \in F /\ A2 (.) B2 \in F /\ r (.) r \in F
  BY <1>1, <1>2, SharingFacts, Laws
<1>5. (A1 (.) B1) (-) (A1 (.) B1) = 0 /\ (A2 (.) B2) (-) (A2 (.) B2) = 0
  BY <1>4, DifferenceLaws
<1>6. (r (.) r) (.) 0 = 0
  BY <1>4, Signs
<1> QED  BY <1>3, <1>5, <1>6 DEF t1, t2
==============================================================================
