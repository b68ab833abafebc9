------------------------ MODULE ProgramCounters_proofs ------------------------
(***************************************************************************)
(* Proofs about ProgramCounters, for every program, every number of        *)
(* players and every nesting of callbacks.                                 *)
(***************************************************************************)
EXTENDS ProgramCounters, FiniteSetTheorems, SequenceTheorems, TLAPS

\* How often body b has incremented the program counter after operation k.
Count(b, k) == Cardinality({i \in DOMAIN Code[b] : i <= k /\ Code[b][i].do # "activate"})

\* The bodies that can be reached, each with the program counter that stands for
\* its call: the smallest set with the main body and, for each of its members,
\* those that it calls.
Closed(R) ==
    /\ <<<<ComputationId>>, Main>> \in R
    /\ \A x \in R : \A i \in DOMAIN Code[x[2]] : \A b \in Bodies :
          Calls(<<x[2], i>>, b) => <<Append(x[1], Count(x[2], i)), b>> \in R

Begun == {x \in (Label \ {<<>>}) \X Bodies :
             \A R \in SUBSET ((Label \ {<<>>}) \X Bodies) : Closed(R) => x \in R}

\* pc is the program counter while e runs.
Currently(e, pc) ==
    \E x \in Begun : x[2] = e.body /\ pc = Append(x[1], Count(e.body, e.at - 1))

Runs(e) == e.leave # "call"

\* pc is the program counter to which the entries of agenda s are to return: that
\* of the first which runs, or what the main body has left.
Resumes(s, pc) ==
    \/ \E j \in 1..Len(s) :
          /\ Runs(s[j])
          /\ Currently(s[j], pc)
          /\ \A k \in 1..Len(s) : k < j => ~Runs(s[k])
    \/ /\ \A k \in 1..Len(s) : ~Runs(s[k])
       /\ pc = <<ComputationId, Increments(Main)>>

\* e is a callback that is going to get the program counter of its call.
Pending(e) == e.leave = "call" /\ <<e.pc, e.body>> \in Begun

\* Entry e runs and was called by what stands first in agenda s.
CalledFrom(e, s) ==
    /\ e.leave \in {"restore", "unfork", "stay"}
    /\ e.at \in 1..Len(Code[e.body]) + 1
    /\ \E x \in Begun : x[2] = e.body
    /\ e.leave = "restore" => Resumes(s, e.pc)
    /\ e.leave = "unfork" =>
          /\ s # <<>>
          /\ Runs(s[1])
          /\ s[1].at > 1
          /\ s[1].at - 1 \in DOMAIN Code[s[1].body]
          /\ Calls(<<s[1].body, s[1].at - 1>>, e.body)
          /\ \E x \in Begun : x[2] = s[1].body
    /\ e.leave = "stay" => s = <<>> /\ e.body = Main

Nested(s) ==
    \A i \in 1..Len(s) :
        Pending(s[i]) \/ CalledFrom(s[i], SubSeq(s, i + 1, Len(s)))

AgendaInv ==
    \A p \in Players : Nested(agenda[p]) /\ Resumes(agenda[p], program_counter[p])

CallbacksInv ==
    \A p \in Players : \A o \in Operations :
        \A i \in 1..Len(callbacks[p][o]) : Pending(callbacks[p][o][i])

\* The label of an operation is that of its body and its place there.
LabelInv ==
    \A p \in Players : \A o \in DOMAIN label[p] :
        \E x \in Begun :
            /\ x[2] = o[1]
            /\ label[p][o] = Append(x[1], Count(o[1], o[2]))
            /\ Code[o[1]][o[2]].do = "exchange"

IInv ==
    /\ TypeOK
    /\ DOMAIN label = Players /\ DOMAIN fired = Players
    /\ AgendaInv
    /\ CallbacksInv
    /\ LabelInv

------------------------------------------------------------------------------
\* Labels.

LEMMA AppendLabel ==
    ASSUME NEW s \in Label, NEW n \in Nat
    PROVE  /\ Append(s, n) \in Label \ {<<>>}
           /\ Len(Append(s, n)) = Len(s) + 1
           /\ Len(s) \in Nat
           /\ Append(s, n)[Len(s) + 1] = n
           /\ SubSeq(Append(s, n), 1, Len(Append(s, n)) - 1) = s
           /\ \A k \in Nat : [Append(s, n) EXCEPT ![Len(s) + 1] = k] = Append(s, k)
<1> DEFINE t == Append(s, n)
<1>1. /\ Len(s) \in Nat /\ t \in Seq(Nat) /\ Len(t) = Len(s) + 1
      /\ \A i \in 1..Len(s) : t[i] = s[i]
      /\ t[Len(s) + 1] = n
      /\ t # <<>>
  BY DEF Label
<1> HIDE DEF t
<1>2. SubSeq(t, 1, Len(t) - 1) = s
  <2> DEFINE u == SubSeq(t, 1, Len(s))
  <2>1. /\ u \in Seq(Nat) /\ Len(u) = Len(s)
        /\ \A i \in 1..Len(s) : u[i] = t[i]
    <3>1. \A i \in 1..Len(s) : t[i] \in Nat
      BY <1>1
    <3>2. /\ u \in Seq(Nat)
          /\ Len(u) = IF 1 <= Len(s) THEN Len(s) - 1 + 1 ELSE 0
          /\ \A i \in 1..Len(s) - 1 + 1 : u[i] = t[1 + i - 1]
      BY <1>1, <3>1, SubSeqProperties
    <3> HIDE DEF u
    <3>3. Len(u) = Len(s)
      BY <1>1, <3>2
    <3>4. \A i \in 1..Len(s) : u[i] = t[i]
      BY <1>1, <3>2
    <3> QED  BY <3>2, <3>3, <3>4
  <2> HIDE DEF u
  <2>2. u = s
    <3>1. s \in Seq(Nat) /\ \A i \in 1..Len(s) : u[i] = s[i]
      BY <1>1, <2>1 DEF Label
    <3> QED  BY <2>1, <3>1, SeqEqual
  <2>3. Len(t) - 1 = Len(s)
    BY <1>1
  <2> QED  BY <2>2, <2>3 DEF u
<1>3. ASSUME NEW k \in Nat PROVE [t EXCEPT ![Len(s) + 1] = k] = Append(s, k)
  <2> DEFINE u == [t EXCEPT ![Len(s) + 1] = k]
             v == Append(s, k)
  <2>1. /\ v \in Seq(Nat) /\ Len(v) = Len(s) + 1
        /\ \A i \in 1..Len(s) : v[i] = s[i]
        /\ v[Len(s) + 1] = k
    BY DEF Label
  <2>2. Len(s) + 1 \in 1..Len(t)
    BY <1>1
  <2>3. /\ u \in Seq(Nat) /\ Len(u) = Len(t)
        /\ \A j \in 1..Len(t) : u[j] = IF j = Len(s) + 1 THEN k ELSE t[j]
    BY <1>1, <2>2, ExceptSeq
  <2> HIDE DEF u, v
  <2>4. \A j \in 1..Len(u) : u[j] = v[j]
    <3> SUFFICES ASSUME NEW j \in 1..Len(u) PROVE u[j] = v[j]
      OBVIOUS
    <3>1. CASE j = Len(s) + 1
      BY <3>1, <2>1, <2>3
    <3>2. CASE j # Len(s) + 1
      <4>1. j \in 1..Len(s)
        BY <3>2, <1>1, <2>3
      <4> QED  BY <4>1, <3>2, <1>1, <2>1, <2>3
    <3> QED  BY <3>1, <3>2
  <2>5. Len(u) = Len(v)
    BY <1>1, <2>1, <2>3
  <2> QED  BY <2>1, <2>3, <2>4, <2>5, SeqEqual DEF u, v
<1> QED  BY <1>1, <1>2, <1>3 DEF Label, t

\* What increment_pc, fork_pc and unfork_pc do to a label that has an end.
LEMMA CounterSteps ==
    ASSUME NEW s \in Label, NEW n \in Nat
    PROVE  /\ Increment(Append(s, n)) = Append(s, n + 1)
           /\ Unfork(Append(s, n)) = s
<1> DEFINE t == Append(s, n)
<1>1. /\ Len(s) \in Nat /\ Len(t) = Len(s) + 1 /\ t[Len(s) + 1] = n
      /\ SubSeq(t, 1, Len(t) - 1) = s
      /\ \A k \in Nat : [t EXCEPT ![Len(s) + 1] = k] = Append(s, k)
  BY AppendLabel
<1> HIDE DEF t
<1>2. Increment(t) = [t EXCEPT ![Len(s) + 1] = n + 1]
  BY <1>1 DEF Increment
<1>3. Increment(t) = Append(s, n + 1)
  BY <1>1, <1>2
<1>4. Unfork(t) = s
  BY <1>1 DEF Unfork
<1> QED  BY <1>3, <1>4 DEF t

LEMMA LabelsEqual ==
    ASSUME NEW s \in Label, NEW t \in Label, NEW m \in Nat, NEW n \in Nat
    PROVE  Append(s, m) = Append(t, n) <=> s = t /\ m = n
  BY AppendInjective DEF Label

------------------------------------------------------------------------------
\* Places in a body.

LEMMA CodeSeq == ASSUME NEW b \in Bodies
                 PROVE  /\ Len(Code[b]) \in Nat
                        /\ DOMAIN Code[b] = 1..Len(Code[b])
                        /\ \A i \in DOMAIN Code[b] : Code[b][i] \in Operation
<1>1. Code[b] \in Seq(Operation)
  BY ProgramAssumption
<1> QED  BY <1>1

LEMMA CountProperties ==
    ASSUME NEW b \in Bodies, NEW k \in Nat
    PROVE  /\ Count(b, k) \in Nat
           /\ Count(b, 0) = 0
           /\ k = Len(Code[b]) => Count(b, k) = Increments(b)
           /\ k + 1 \in DOMAIN Code[b] =>
                 Count(b, k + 1) = IF Code[b][k + 1].do = "activate"
                                   THEN Count(b, k) ELSE Count(b, k) + 1
<1> DEFINE C(n) == {i \in DOMAIN Code[b] : i <= n /\ Code[b][i].do # "activate"}
<1>1. DOMAIN Code[b] = 1..Len(Code[b]) /\ Len(Code[b]) \in Nat
  BY CodeSeq
<1>2. \A n \in Nat : IsFiniteSet(C(n)) /\ Cardinality(C(n)) \in Nat
  <2>1. IsFiniteSet(1..Len(Code[b]))
    BY <1>1, FS_Interval
  <2> QED  BY <1>1, <2>1, FS_Subset, FS_CardinalityType
<1>3. C(0) = {}
  BY <1>1
<1>4. k = Len(Code[b]) => C(k) = {i \in DOMAIN Code[b] : Code[b][i].do # "activate"}
  BY <1>1
<1>5. k + 1 \in DOMAIN Code[b] =>
         /\ k + 1 \notin C(k)
         /\ C(k + 1) = IF Code[b][k + 1].do = "activate" THEN C(k)
                       ELSE C(k) \cup {k + 1}
  BY <1>1
<1>6. k + 1 \notin C(k) => Cardinality(C(k) \cup {k + 1}) = Cardinality(C(k)) + 1
  BY <1>2, FS_AddElement
<1>7. \A n : Count(b, n) = Cardinality(C(n))
  BY DEF Count
<1> HIDE DEF C
<1>8. k = Len(Code[b]) => Count(b, k) = Increments(b)
  BY <1>4, <1>7 DEF Increments
<1> QED  BY <1>2, <1>3, <1>5, <1>6, <1>7, <1>8, FS_EmptySet

\* Of two operations of a body that increment the program counter, the later one
\* has the higher count.
LEMMA CountInjective ==
    ASSUME NEW b \in Bodies, NEW i \in DOMAIN Code[b], NEW j \in DOMAIN Code[b],
           Code[b][i].do # "activate", Code[b][j].do # "activate",
           Count(b, i) = Count(b, j)
    PROVE  i = j
<1> DEFINE C(n) == {k \in DOMAIN Code[b] : k <= n /\ Code[b][k].do # "activate"}
<1>1. DOMAIN Code[b] = 1..Len(Code[b]) /\ Len(Code[b]) \in Nat
  BY CodeSeq
<1>2. \A n \in Nat : IsFiniteSet(C(n))
  <2>1. IsFiniteSet(1..Len(Code[b]))
    BY <1>1, FS_Interval
  <2> QED  BY <1>1, <2>1, FS_Subset
<1>3. i \in Nat /\ j \in Nat
  BY <1>1
<1>4. i \in C(i) /\ j \in C(j)
  BY <1>3
<1>5. Cardinality(C(i)) = Cardinality(C(j))
  BY DEF Count
<1>6. CASE i <= j
  <2>1. C(i) \subseteq C(j)
    BY <1>1, <1>3, <1>6
  <2>2. C(j) = C(i)
    BY <1>2, <1>3, <1>5, <2>1, FS_Subset
  <2> QED  BY <1>3, <1>4, <1>6, <2>2
<1>7. CASE j <= i
  <2>1. C(j) \subseteq C(i)
    BY <1>1, <1>3, <1>7
  <2>2. C(j) = C(i)
    BY <1>2, <1>3, <1>5, <2>1, FS_Subset
  <2> QED  BY <1>3, <1>4, <1>7, <2>2
<1> QED  BY <1>3, <1>6, <1>7

------------------------------------------------------------------------------
\* The bodies that are begun.  A property of all of them is proved by collecting
\* those that have it in a set, which is closed.

LEMMA BegunType ==
    /\ Begun \subseteq (Label \ {<<>>}) \X Bodies
    /\ \A x \in Begun : /\ x[1] \in Label /\ x[1] # <<>> /\ x[2] \in Bodies
                        /\ Len(x[1]) \in Nat /\ Len(x[1]) > 0
                        /\ x = <<x[1], x[2]>>
<1>1. Begun \subseteq (Label \ {<<>>}) \X Bodies
  BY DEF Begun
<1>2. \A x \in Begun : x[1] \in Label /\ x[1] # <<>> /\ x[2] \in Bodies /\ x = <<x[1], x[2]>>
  BY <1>1
<1>3. \A s \in Label : s # <<>> => Len(s) \in Nat /\ Len(s) > 0
  BY DEF Label
<1> QED  BY <1>1, <1>2, <1>3

LEMMA BegunLeast ==
    ASSUME NEW R, R \subseteq Begun, Closed(R)
    PROVE  R = Begun
<1>1. R \in SUBSET ((Label \ {<<>>}) \X Bodies)
  BY BegunType
<1> QED  BY <1>1 DEF Begun

\* The label under which operation i of body b goes, if b is begun with s.
LEMMA CalledLabel ==
    ASSUME NEW s \in Label, NEW b \in Bodies, NEW i \in DOMAIN Code[b]
    PROVE  /\ i \in Nat /\ Count(b, i) \in Nat
           /\ Append(s, Count(b, i)) \in Label \ {<<>>}
           /\ Len(Append(s, Count(b, i))) = Len(s) + 1
<1>1. i \in Nat
  BY CodeSeq
<1>2. Count(b, i) \in Nat
  BY <1>1, CountProperties
<1> QED  BY <1>1, <1>2, AppendLabel

LEMMA BegunClosed == Closed(Begun)
<1>1. <<<<ComputationId>>, Main>> \in Begun
  <2>1. <<ComputationId>> \in Label \ {<<>>} /\ Main \in Bodies
    BY ProgramAssumption DEF Label
  <2> QED  BY <2>1 DEF Begun, Closed
<1>2. ASSUME NEW x \in Begun, NEW i \in DOMAIN Code[x[2]], NEW b \in Bodies,
             Calls(<<x[2], i>>, b)
      PROVE  <<Append(x[1], Count(x[2], i)), b>> \in Begun
  <2> DEFINE y == <<Append(x[1], Count(x[2], i)), b>>
  <2>1. y \in (Label \ {<<>>}) \X Bodies
    BY BegunType, CalledLabel
  <2>2. ASSUME NEW R \in SUBSET ((Label \ {<<>>}) \X Bodies), Closed(R)
        PROVE  y \in R
    <3>1. x \in R
      BY <2>2 DEF Begun
    <3> QED  BY <1>2, <2>2, <3>1 DEF Closed
  <2> HIDE DEF y
  <2>3. y \in Begun
    BY <2>1, <2>2 DEF Begun
  <2> QED  BY <2>3 DEF y
<1> QED  BY <1>1, <1>2 DEF Closed

\* Each but the main body was called by one of them.
LEMMA BegunByCall ==
    ASSUME NEW x \in Begun
    PROVE  \/ x = <<<<ComputationId>>, Main>>
           \/ \E y \in Begun : \E i \in DOMAIN Code[y[2]] :
                 /\ Calls(<<y[2], i>>, x[2])
                 /\ x[1] = Append(y[1], Count(y[2], i))
<1> DEFINE Called(z) == \E y \in Begun : \E i \in DOMAIN Code[y[2]] :
                           /\ Calls(<<y[2], i>>, z[2])
                           /\ z[1] = Append(y[1], Count(y[2], i))
           R == {z \in Begun : z = <<<<ComputationId>>, Main>> \/ Called(z)}
<1>1. <<<<ComputationId>>, Main>> \in R
  BY BegunClosed DEF Closed
<1>2. ASSUME NEW y \in R, NEW i \in DOMAIN Code[y[2]], NEW b \in Bodies,
             Calls(<<y[2], i>>, b)
      PROVE  <<Append(y[1], Count(y[2], i)), b>> \in R
  <2> DEFINE z == <<Append(y[1], Count(y[2], i)), b>>
  <2>1. y \in Begun
    OBVIOUS
  <2>2. z \in Begun
    BY <1>2, <2>1, BegunClosed DEF Closed
  <2>3. z[2] = b /\ z[1] = Append(y[1], Count(y[2], i))
    OBVIOUS
  <2> HIDE DEF z
  <2>4. Called(z)
    BY <1>2, <2>1, <2>3
  <2> HIDE DEF Called
  <2>5. z \in R
    BY <2>2, <2>4
  <2> QED  BY <2>5 DEF z
<1>3. Closed(R)
  BY <1>1, <1>2 DEF Closed
<1>4. R = Begun
  <2>1. R \subseteq Begun
    OBVIOUS
  <2> HIDE DEF R
  <2> QED  BY <1>3, <2>1, BegunLeast
<1> QED  BY <1>4

LEMMA MainIsBegunOnce ==
    ASSUME NEW x \in Begun
    PROVE  /\ x[2] = Main => x[1] = <<ComputationId>>
           /\ x[1] = <<ComputationId>> => x[2] = Main
<1> SUFFICES ASSUME x # <<<<ComputationId>>, Main>>
             PROVE  x[2] # Main /\ x[1] # <<ComputationId>>
  OBVIOUS
<1>0. PICK y \in Begun : \E i \in DOMAIN Code[y[2]] :
         /\ Calls(<<y[2], i>>, x[2])
         /\ x[1] = Append(y[1], Count(y[2], i))
  BY BegunByCall
<1>1. PICK i \in DOMAIN Code[y[2]] :
         /\ Calls(<<y[2], i>>, x[2])
         /\ x[1] = Append(y[1], Count(y[2], i))
  BY <1>0
<1>2. <<y[2], i>> \in Operations
  BY BegunType DEF Operations
<1>3. x[2] # Main
  BY <1>1, <1>2, TreeAssumption
<1>4. Len(x[1]) = Len(y[1]) + 1 /\ Len(y[1]) > 0 /\ Len(y[1]) \in Nat
  BY <1>1, BegunType, CalledLabel
<1>5. Len(x[1]) # 1 /\ Len(<<ComputationId>>) = 1
  BY <1>4
<1>6. x[1] # <<ComputationId>>
  BY <1>5, Zenon
<1> QED  BY <1>3, <1>6

\* Two of them have the same program counter exactly if they are the same body.
LEMMA BegunOnce ==
    ASSUME NEW x \in Begun, NEW y \in Begun
    PROVE  x[1] = y[1] <=> x[2] = y[2]
<1> DEFINE base == <<<<ComputationId>>, Main>>
           Same(u, v) == u[1] = v[1] <=> u[2] = v[2]
           R == {u \in Begun : \A v \in Begun : Same(u, v)}
<1>1. base \in Begun
  BY BegunClosed DEF Closed
<1>2. \A v \in Begun : Same(base, v)
  <2>1. base[1] = <<ComputationId>> /\ base[2] = Main
    OBVIOUS
  <2> HIDE DEF base
  <2> QED  BY <2>1, MainIsBegunOnce
<1>3. ASSUME NEW u \in R, NEW i \in DOMAIN Code[u[2]], NEW b \in Bodies,
             Calls(<<u[2], i>>, b)
      PROVE  <<Append(u[1], Count(u[2], i)), b>> \in R
  <2> DEFINE w == <<Append(u[1], Count(u[2], i)), b>>
  <2>1. u \in Begun /\ \A v \in Begun : Same(u, v)
    OBVIOUS
  <2>2. w \in Begun
    BY <1>3, <2>1, BegunClosed DEF Closed
  <2>3. w[1] = Append(u[1], Count(u[2], i)) /\ w[2] = b
    OBVIOUS
  <2> HIDE DEF w
  <2>4. ASSUME NEW v \in Begun PROVE Same(w, v)
    <3>1. CASE v = base
      <4>1. Same(base, w)
        BY <1>2, <2>2
      <4> QED  BY <3>1, <4>1
    <3>2. CASE v # base
      <4>0. PICK z \in Begun : \E j \in DOMAIN Code[z[2]] :
               /\ Calls(<<z[2], j>>, v[2])
               /\ v[1] = Append(z[1], Count(z[2], j))
        BY <3>2, BegunByCall
      <4>1. PICK j \in DOMAIN Code[z[2]] :
               /\ Calls(<<z[2], j>>, v[2])
               /\ v[1] = Append(z[1], Count(z[2], j))
        BY <4>0
      <4>2. /\ u[1] \in Label /\ z[1] \in Label /\ u[2] \in Bodies /\ z[2] \in Bodies
            /\ v[2] \in Bodies
        BY <2>1, BegunType
      <4>3. Count(u[2], i) \in Nat /\ Count(z[2], j) \in Nat
        BY <4>2, CalledLabel
      <4>4. w[1] = v[1] <=> u[1] = z[1] /\ Count(u[2], i) = Count(z[2], j)
        <5> DEFINE m == Count(u[2], i)
                   n == Count(z[2], j)
                   s == u[1]
                   q == z[1]
        <5>1. /\ w[1] = Append(s, m) /\ v[1] = Append(q, n)
              /\ m \in Nat /\ n \in Nat /\ s \in Label /\ q \in Label
          BY <2>3, <4>1, <4>2, <4>3
        <5> HIDE DEF m, n, s, q, R, Same, base
        <5>2. Append(s, m) = Append(q, n) <=> s = q /\ m = n
          BY <5>1, LabelsEqual
        <5>3. w[1] = v[1] <=> s = q /\ m = n
          BY <5>1, <5>2, Zenon
        <5> QED  BY <5>3 DEF m, n, s, q
      <4>5. u[1] = z[1] <=> u[2] = z[2]
        BY <2>1
      <4>6. Code[u[2]][i].do # "activate" /\ Code[z[2]][j].do # "activate"
        BY <1>3, <4>1 DEF Calls
      <4>7. <<u[2], i>> \in Operations /\ <<z[2], j>> \in Operations
        BY <4>2 DEF Operations
      <4>8. ASSUME w[1] = v[1] PROVE w[2] = v[2]
        <5>1. u[2] = z[2] /\ Count(u[2], i) = Count(z[2], j)
          BY <4>4, <4>5, <4>8
        <5>2. i = j
          BY <4>2, <4>6, <5>1, CountInjective
        <5>3. Code[u[2]][i].body = b /\ Code[z[2]][j].body = v[2]
          BY <1>3, <4>1 DEF Calls
        <5> QED  BY <2>3, <5>1, <5>2, <5>3
      <4>9. ASSUME w[2] = v[2] PROVE w[1] = v[1]
        <5>1. Calls(<<u[2], i>>, b) /\ Calls(<<z[2], j>>, b)
          BY <1>3, <2>3, <4>1, <4>9
        <5>2. <<u[2], i>> = <<z[2], j>>
          BY <4>7, <5>1, TreeAssumption
        <5>3. u[2] = z[2] /\ i = j
          BY <5>2
        <5> QED  BY <4>4, <4>5, <5>3
      <4> QED  BY <4>8, <4>9
    <3> QED  BY <3>1, <3>2
  <2>5. w \in R
    <3> HIDE DEF Same
    <3> QED  BY <2>2, <2>4
  <2> QED  BY <2>5 DEF w
<1>4. Closed(R)
  <2>1. base \in R
    <3> HIDE DEF base, Same
    <3> QED  BY <1>1, <1>2
  <2> HIDE DEF R
  <2> QED  BY <1>3, <2>1 DEF Closed
<1>5. R = Begun
  <2>1. R \subseteq Begun
    OBVIOUS
  <2> HIDE DEF R
  <2> QED  BY <1>4, <2>1, BegunLeast
<1> QED  BY <1>5

------------------------------------------------------------------------------
\* Agendas.

\* What stands behind an entry does not depend on what stands before it.
LEMMA Behind ==
    ASSUME NEW c \in Seq(Entry), NEW s \in Seq(Entry), NEW i \in 0..Len(s)
    PROVE  SubSeq(c \o s, Len(c) + i + 1, Len(c \o s)) = SubSeq(s, i + 1, Len(s))
<1> DEFINE t == c \o s
           m == Len(c) + i + 1
           u == SubSeq(t, m, Len(t))
           v == SubSeq(s, i + 1, Len(s))
<1>1. /\ t \in Seq(Entry) /\ Len(t) = Len(c) + Len(s)
      /\ \A j \in 1..Len(c) + Len(s) : t[j] = IF j <= Len(c) THEN c[j] ELSE s[j - Len(c)]
  BY ConcatProperties
<1>2. Len(c) \in Nat /\ Len(s) \in Nat /\ i \in Nat /\ i <= Len(s) /\ m \in Nat
  OBVIOUS
<1> HIDE DEF t
<1>3. /\ \A j \in m..Len(t) : t[j] \in Entry
      /\ \A j \in i + 1..Len(s) : s[j] \in Entry
  BY <1>1, <1>2
<1>4. /\ u \in Seq(Entry) /\ Len(u) = IF m <= Len(t) THEN Len(t) - m + 1 ELSE 0
      /\ \A j \in 1..Len(t) - m + 1 : u[j] = t[m + j - 1]
  <2>1. m \in Int /\ Len(t) \in Int
    BY <1>1, <1>2
  <2> HIDE DEF m
  <2> QED  BY <1>3, <2>1, SubSeqProperties
<1>5. /\ v \in Seq(Entry) /\ Len(v) = IF i + 1 <= Len(s) THEN Len(s) - (i + 1) + 1 ELSE 0
      /\ \A j \in 1..Len(s) - (i + 1) + 1 : v[j] = s[i + 1 + j - 1]
  <2> DEFINE k == i + 1
  <2>1. k \in Int /\ Len(s) \in Int
    BY <1>2
  <2>2. \A j \in k..Len(s) : s[j] \in Entry
    BY <1>3
  <2> HIDE DEF k
  <2>3. /\ SubSeq(s, k, Len(s)) \in Seq(Entry)
        /\ Len(SubSeq(s, k, Len(s))) = IF k <= Len(s) THEN Len(s) - k + 1 ELSE 0
        /\ \A j \in 1..Len(s) - k + 1 : SubSeq(s, k, Len(s))[j] = s[k + j - 1]
    BY <2>1, <2>2, SubSeqProperties
  <2> QED  BY <2>3 DEF k
<1> HIDE DEF u, v
<1>6. Len(u) = Len(v)
  BY <1>1, <1>2, <1>4, <1>5
<1>7. \A j \in 1..Len(u) : u[j] = v[j]
  <2> SUFFICES ASSUME NEW j \in 1..Len(u) PROVE u[j] = v[j]
    OBVIOUS
  <2>1. /\ j \in 1..Len(t) - m + 1 /\ j \in 1..Len(s) - (i + 1) + 1
        /\ m + j - 1 \in 1..Len(c) + Len(s) /\ ~(m + j - 1 <= Len(c))
        /\ (m + j - 1) - Len(c) = i + 1 + j - 1
    BY <1>1, <1>2, <1>4
  <2>2. u[j] = t[m + j - 1]
    BY <1>4, <2>1
  <2>3. t[m + j - 1] = s[(m + j - 1) - Len(c)]
    <3> DEFINE k == m + j - 1
    <3>1. k \in 1..Len(c) + Len(s) /\ ~(k <= Len(c))
      BY <2>1
    <3> HIDE DEF k
    <3>2. t[k] = s[k - Len(c)]
      BY <1>1, <3>1
    <3> QED  BY <3>2 DEF k
  <2>4. v[j] = s[i + 1 + j - 1]
    BY <1>5, <2>1
  <2> QED  BY <2>1, <2>2, <2>3, <2>4
<1>8. u = v
  BY <1>4, <1>5, <1>6, <1>7, SeqEqual
<1> QED  BY <1>8 DEF t, m, u, v
\* Entries that only wait to be called are put in front.
LEMMA CallbacksInFront ==
    ASSUME NEW c \in Seq(Entry), NEW s \in Seq(Entry), NEW pc,
           \A i \in 1..Len(c) : Pending(c[i])
    PROVE  /\ c \o s \in Seq(Entry)
           /\ Nested(s) => Nested(c \o s)
           /\ Resumes(s, pc) => Resumes(c \o s, pc)
<1> DEFINE t == c \o s
<1>1. /\ t \in Seq(Entry) /\ Len(t) = Len(c) + Len(s)
      /\ \A j \in 1..Len(c) + Len(s) : t[j] = IF j <= Len(c) THEN c[j] ELSE s[j - Len(c)]
  BY ConcatProperties
<1>2. Len(c) \in Nat /\ Len(s) \in Nat
  OBVIOUS
<1>3. \A i \in 0..Len(s) : SubSeq(t, Len(c) + i + 1, Len(t)) = SubSeq(s, i + 1, Len(s))
  BY Behind
<1> HIDE DEF t
<1>4. /\ \A j \in 1..Len(t) : j <= Len(c) => j \in 1..Len(c) /\ t[j] = c[j]
      /\ \A j \in 1..Len(t) : ~(j <= Len(c)) => j - Len(c) \in 1..Len(s) /\ t[j] = s[j - Len(c)]
      /\ \A j \in 1..Len(s) : Len(c) + j \in 1..Len(t) /\ t[Len(c) + j] = s[j]
  <2>1. ASSUME NEW j \in 1..Len(t), j <= Len(c)
        PROVE  j \in 1..Len(c) /\ t[j] = c[j]
    BY <1>1, <1>2, <2>1
  <2>2. ASSUME NEW j \in 1..Len(t), ~(j <= Len(c))
        PROVE  j - Len(c) \in 1..Len(s) /\ t[j] = s[j - Len(c)]
    BY <1>1, <1>2, <2>2
  <2>3. ASSUME NEW j \in 1..Len(s)
        PROVE  Len(c) + j \in 1..Len(t) /\ t[Len(c) + j] = s[j]
    <3> DEFINE k == Len(c) + j
    <3>1. k \in 1..Len(t) /\ ~(k <= Len(c)) /\ k - Len(c) = j
      BY <1>1, <1>2
    <3> HIDE DEF k
    <3>2. t[k] = s[j]
      BY <2>2, <3>1
    <3> QED  BY <3>1, <3>2 DEF k
  <2> QED  BY <2>1, <2>2, <2>3
<1>5. \A j \in 1..Len(c) : ~Runs(c[j])
  BY DEF Pending, Runs
<1>6. ASSUME Nested(s) PROVE Nested(t)
  <2> SUFFICES ASSUME NEW j \in 1..Len(t)
               PROVE  Pending(t[j]) \/ CalledFrom(t[j], SubSeq(t, j + 1, Len(t)))
    BY DEF Nested
  <2>1. CASE j <= Len(c)
    BY <1>4, <2>1
  <2>2. CASE ~(j <= Len(c))
    <3> DEFINE i == j - Len(c)
    <3>1. i \in 1..Len(s) /\ t[j] = s[i]
      BY <1>4, <2>2
    <3>2. Len(c) + i + 1 = j + 1
      BY <1>2
    <3> HIDE DEF i
    <3>3. SubSeq(t, j + 1, Len(t)) = SubSeq(s, i + 1, Len(s))
      <4>1. i \in 0..Len(s)
        BY <1>2, <3>1
      <4> QED  BY <1>3, <3>2, <4>1
    <3> QED  BY <1>6, <3>1, <3>3 DEF Nested
  <2> QED  BY <2>1, <2>2
<1>7. ASSUME Resumes(s, pc) PROVE Resumes(t, pc)
  <2>1. CASE \E j \in 1..Len(s) : /\ Runs(s[j])
                                  /\ Currently(s[j], pc)
                                  /\ \A k \in 1..Len(s) : k < j => ~Runs(s[k])
    <3>0. PICK j \in 1..Len(s) : /\ Runs(s[j])
                                 /\ Currently(s[j], pc)
                                 /\ \A k \in 1..Len(s) : k < j => ~Runs(s[k])
      BY <2>1
    <3>1. Len(c) + j \in 1..Len(t) /\ t[Len(c) + j] = s[j]
      BY <1>4
    <3>2. ASSUME NEW k \in 1..Len(t), k < Len(c) + j PROVE ~Runs(t[k])
      <4>1. CASE k <= Len(c)
        BY <1>4, <1>5, <4>1
      <4>2. CASE ~(k <= Len(c))
        <5>1. k - Len(c) \in 1..Len(s) /\ t[k] = s[k - Len(c)]
          BY <1>4, <4>2
        <5>2. k - Len(c) < j
          BY <1>2, <3>2
        <5> QED  BY <3>0, <5>1, <5>2
      <4> QED  BY <4>1, <4>2
    <3> QED  BY <3>0, <3>1, <3>2 DEF Resumes
  <2>2. CASE /\ \A k \in 1..Len(s) : ~Runs(s[k])
             /\ pc = <<ComputationId, Increments(Main)>>
    <3>1. ASSUME NEW k \in 1..Len(t) PROVE ~Runs(t[k])
      <4>1. CASE k <= Len(c)
        BY <1>4, <1>5, <4>1
      <4>2. CASE ~(k <= Len(c))
        BY <1>4, <2>2, <4>2
      <4> QED  BY <4>1, <4>2
    <3> QED  BY <2>2, <3>1 DEF Resumes
  <2> QED  BY <1>7, <2>1, <2>2 DEF Resumes
<1> QED  BY <1>1, <1>6, <1>7 DEF t

\* One entry is put in front.
LEMMA Pushed ==
    ASSUME NEW s \in Seq(Entry), NEW e \in Entry
    PROVE  LET t == <<e>> \o s IN
           /\ t \in Seq(Entry)
           /\ t # <<>>
           /\ Len(s) \in Nat
           /\ Len(t) = Len(s) + 1
           /\ t[1] = e
           /\ \A i \in 1..Len(s) : t[i + 1] = s[i]
           /\ \A i \in 1..Len(t) : i > 1 => i - 1 \in 1..Len(s) /\ t[i] = s[i - 1]
           /\ SubSeq(t, 2, Len(t)) = s
           /\ \A i \in 1..Len(t) : i > 1 =>
                 SubSeq(t, i + 1, Len(t)) = SubSeq(s, (i - 1) + 1, Len(s))
<1> DEFINE c == <<e>>
           t == c \o s
<1>1. /\ t \in Seq(Entry) /\ Len(s) \in Nat /\ Len(t) = Len(s) + 1 /\ t[1] = e
      /\ \A i \in 1..Len(s) : t[i + 1] = s[i]
      /\ c \in Seq(Entry) /\ Len(c) = 1
  OBVIOUS
<1>2. \A i \in 0..Len(s) : SubSeq(t, Len(c) + i + 1, Len(t)) = SubSeq(s, i + 1, Len(s))
  BY <1>1, Behind
<1> HIDE DEF t, c
<1>3. \A i \in 1..Len(t) : i > 1 => i - 1 \in 1..Len(s) /\ t[i] = s[i - 1]
  <2> SUFFICES ASSUME NEW i \in 1..Len(t), i > 1
               PROVE  i - 1 \in 1..Len(s) /\ t[i] = s[i - 1]
    OBVIOUS
  <2>1. i - 1 \in 1..Len(s) /\ (i - 1) + 1 = i
    BY <1>1
  <2> QED  BY <2>1, <1>1
<1>4. t # <<>>
  BY <1>1
<1>5. SubSeq(t, 2, Len(t)) = s
  <2>1. SubSeq(t, Len(c) + 0 + 1, Len(t)) = SubSeq(s, 0 + 1, Len(s))
    <3>1. 0 \in 0..Len(s)
      BY <1>1
    <3> QED  BY <1>2, <3>1
  <2>2. Len(c) + 0 + 1 = 2 /\ 0 + 1 = 1
    BY <1>1
  <2>3. SubSeq(s, 1, Len(s)) = s
    BY SubSeqFull
  <2> QED  BY <2>1, <2>2, <2>3
<1>6. ASSUME NEW i \in 1..Len(t), i > 1
      PROVE  SubSeq(t, i + 1, Len(t)) = SubSeq(s, (i - 1) + 1, Len(s))
  <2> DEFINE j == i - 1
  <2>1. j \in 0..Len(s) /\ Len(c) + j + 1 = i + 1
    BY <1>1, <1>6
  <2> HIDE DEF j
  <2>2. SubSeq(t, Len(c) + j + 1, Len(t)) = SubSeq(s, j + 1, Len(s))
    BY <1>2, <2>1
  <2>3. SubSeq(t, i + 1, Len(t)) = SubSeq(s, j + 1, Len(s))
    BY <2>1, <2>2
  <2> QED  BY <2>3 DEF j
<1> QED  BY <1>1, <1>3, <1>4, <1>5, <1>6 DEF t, c

\* The first entry is taken off.
LEMMA Popped ==
    ASSUME NEW s \in Seq(Entry), s # <<>>
    PROVE  /\ Head(s) \in Entry
           /\ Head(s) = s[1]
           /\ Tail(s) \in Seq(Entry)
           /\ s = <<Head(s)>> \o Tail(s)
<1>1. /\ Head(s) \in Entry /\ Head(s) = s[1] /\ Tail(s) \in Seq(Entry)
      /\ Len(s) \in Nat /\ Len(s) > 0 /\ Len(Tail(s)) = Len(s) - 1
      /\ \A i \in 1..Len(Tail(s)) : Tail(s)[i] = s[i + 1]
  OBVIOUS
<1> DEFINE r == Tail(s)
           t == <<Head(s)>> \o r
<1>2. /\ t \in Seq(Entry) /\ Len(t) = Len(s) /\ t[1] = s[1]
      /\ \A i \in 1..Len(t) : i > 1 => i - 1 \in 1..Len(r) /\ t[i] = r[i - 1]
  BY <1>1, Pushed
<1>3. \A i \in 1..Len(s) : t[i] = s[i]
  <2> SUFFICES ASSUME NEW i \in 1..Len(s)
               PROVE  t[i] = s[i]
    OBVIOUS
  <2>1. CASE i = 1
    BY <2>1, <1>2
  <2>2. CASE i # 1
    <3>1. i - 1 \in 1..Len(r) /\ t[i] = r[i - 1]
      BY <2>2, <1>2
    <3> QED  BY <3>1, <1>1
  <2> QED  BY <2>1, <2>2
<1>4. s = t
  BY <1>1, <1>2, <1>3
<1> QED  BY <1>1, <1>4

LEMMA NestedPushed ==
    ASSUME NEW s \in Seq(Entry), NEW e \in Entry
    PROVE  Nested(<<e>> \o s) <=> (Pending(e) \/ CalledFrom(e, s)) /\ Nested(s)
<1> DEFINE t == <<e>> \o s
<1>1. /\ Len(s) \in Nat /\ Len(t) = Len(s) + 1 /\ t[1] = e
      /\ \A i \in 1..Len(s) : t[i + 1] = s[i]
      /\ \A i \in 1..Len(t) : i > 1 => i - 1 \in 1..Len(s) /\ t[i] = s[i - 1]
      /\ SubSeq(t, 2, Len(t)) = s
      /\ \A i \in 1..Len(t) : i > 1 =>
            SubSeq(t, i + 1, Len(t)) = SubSeq(s, (i - 1) + 1, Len(s))
  BY Pushed
<1> HIDE DEF t
<1>2. 1 \in 1..Len(t) /\ 1 + 1 = 2
  BY <1>1
<1>3. ASSUME Nested(t) PROVE (Pending(e) \/ CalledFrom(e, s)) /\ Nested(s)
  <2>1. Pending(t[1]) \/ CalledFrom(t[1], SubSeq(t, 1 + 1, Len(t)))
    BY <1>2, <1>3 DEF Nested
  <2>2. Pending(e) \/ CalledFrom(e, s)
    BY <1>1, <1>2, <2>1
  <2>3. ASSUME NEW i \in 1..Len(s)
        PROVE  Pending(s[i]) \/ CalledFrom(s[i], SubSeq(s, i + 1, Len(s)))
    <3> DEFINE j == i + 1
    <3>1. j \in 1..Len(t) /\ j > 1 /\ j - 1 = i /\ t[j] = s[i]
      BY <1>1
    <3> HIDE DEF j
    <3>2. Pending(t[j]) \/ CalledFrom(t[j], SubSeq(t, j + 1, Len(t)))
      BY <1>3, <3>1 DEF Nested
    <3>3. SubSeq(t, j + 1, Len(t)) = SubSeq(s, i + 1, Len(s))
      BY <1>1, <3>1
    <3> QED  BY <3>1, <3>2, <3>3
  <2> QED  BY <2>2, <2>3 DEF Nested
<1>4. ASSUME Pending(e) \/ CalledFrom(e, s), Nested(s) PROVE Nested(t)
  <2> SUFFICES ASSUME NEW j \in 1..Len(t)
               PROVE  Pending(t[j]) \/ CalledFrom(t[j], SubSeq(t, j + 1, Len(t)))
    BY DEF Nested
  <2>1. CASE j = 1
    BY <1>1, <1>2, <1>4, <2>1
  <2>2. CASE j # 1
    <3> DEFINE i == j - 1
    <3>1. j > 1
      BY <2>2, <1>1
    <3>2. i \in 1..Len(s) /\ t[j] = s[i]
      BY <3>1, <1>1
    <3>3. SubSeq(t, j + 1, Len(t)) = SubSeq(s, i + 1, Len(s))
      BY <1>1, <3>1
    <3> HIDE DEF i
    <3>4. Pending(s[i]) \/ CalledFrom(s[i], SubSeq(s, i + 1, Len(s)))
      BY <1>4, <3>2 DEF Nested
    <3> QED  BY <3>2, <3>3, <3>4
  <2> QED  BY <2>1, <2>2
<1> QED  BY <1>3, <1>4 DEF t

LEMMA ResumesPushed ==
    ASSUME NEW s \in Seq(Entry), NEW e \in Entry, NEW pc
    PROVE  Resumes(<<e>> \o s, pc) <=> IF Runs(e) THEN Currently(e, pc)
                                       ELSE Resumes(s, pc)
<1> DEFINE t == <<e>> \o s
<1>1. /\ Len(s) \in Nat /\ Len(t) = Len(s) + 1 /\ t[1] = e
      /\ \A i \in 1..Len(s) : t[i + 1] = s[i]
      /\ \A i \in 1..Len(t) : i > 1 => i - 1 \in 1..Len(s) /\ t[i] = s[i - 1]
  BY Pushed
<1> HIDE DEF t
<1>2. 1 \in 1..Len(t)
  BY <1>1
<1>3. CASE Runs(e)
  <2>1. ASSUME Resumes(t, pc) PROVE Currently(e, pc)
    <3>1. ~ \A k \in 1..Len(t) : ~Runs(t[k])
      BY <1>1, <1>2, <1>3
    <3>2. PICK j \in 1..Len(t) : /\ Runs(t[j])
                                 /\ Currently(t[j], pc)
                                 /\ \A k \in 1..Len(t) : k < j => ~Runs(t[k])
      BY <2>1, <3>1 DEF Resumes
    <3>3. j = 1
      BY <1>1, <1>2, <1>3, <3>2
    <3> QED  BY <1>1, <3>2, <3>3
  <2>2. ASSUME Currently(e, pc) PROVE Resumes(t, pc)
    <3>1. \A k \in 1..Len(t) : ~(k < 1)
      BY <1>1
    <3> QED  BY <1>1, <1>2, <1>3, <2>2, <3>1 DEF Resumes
  <2> QED  BY <1>3, <2>1, <2>2 DEF t
<1>4. CASE ~Runs(e)
  <2>1. ASSUME Resumes(t, pc) PROVE Resumes(s, pc)
    <3>1. CASE \E j \in 1..Len(t) : /\ Runs(t[j])
                                    /\ Currently(t[j], pc)
                                    /\ \A k \in 1..Len(t) : k < j => ~Runs(t[k])
      <4>0. PICK j \in 1..Len(t) : /\ Runs(t[j])
                                   /\ Currently(t[j], pc)
                                   /\ \A k \in 1..Len(t) : k < j => ~Runs(t[k])
        BY <3>1
      <4>1. j > 1
        BY <1>1, <1>4, <4>0
      <4>2. j - 1 \in 1..Len(s) /\ t[j] = s[j - 1]
        BY <1>1, <4>1
      <4>3. ASSUME NEW k \in 1..Len(s), k < j - 1 PROVE ~Runs(s[k])
        <5>1. k + 1 \in 1..Len(t) /\ k + 1 < j /\ t[k + 1] = s[k]
          BY <1>1, <4>3
        <5> QED  BY <4>0, <5>1
      <4> QED  BY <4>0, <4>2, <4>3 DEF Resumes
    <3>2. CASE /\ \A k \in 1..Len(t) : ~Runs(t[k])
               /\ pc = <<ComputationId, Increments(Main)>>
      <4>1. ASSUME NEW k \in 1..Len(s) PROVE ~Runs(s[k])
        <5>1. k + 1 \in 1..Len(t) /\ t[k + 1] = s[k]
          BY <1>1
        <5> QED  BY <3>2, <5>1
      <4> QED  BY <3>2, <4>1 DEF Resumes
    <3> QED  BY <2>1, <3>1, <3>2 DEF Resumes
  <2>2. ASSUME Resumes(s, pc) PROVE Resumes(t, pc)
    <3>1. CASE \E j \in 1..Len(s) : /\ Runs(s[j])
                                    /\ Currently(s[j], pc)
                                    /\ \A k \in 1..Len(s) : k < j => ~Runs(s[k])
      <4>0. PICK j \in 1..Len(s) : /\ Runs(s[j])
                                   /\ Currently(s[j], pc)
                                   /\ \A k \in 1..Len(s) : k < j => ~Runs(s[k])
        BY <3>1
      <4>1. j + 1 \in 1..Len(t) /\ t[j + 1] = s[j]
        BY <1>1
      <4>2. ASSUME NEW k \in 1..Len(t), k < j + 1 PROVE ~Runs(t[k])
        <5>1. CASE k = 1
          BY <1>1, <1>4, <5>1
        <5>2. CASE k # 1
          <6>1. k - 1 \in 1..Len(s) /\ t[k] = s[k - 1] /\ k - 1 < j
            BY <1>1, <4>2, <5>2
          <6> QED  BY <4>0, <6>1
        <5> QED  BY <5>1, <5>2
      <4> QED  BY <4>0, <4>1, <4>2 DEF Resumes
    <3>2. CASE /\ \A k \in 1..Len(s) : ~Runs(s[k])
               /\ pc = <<ComputationId, Increments(Main)>>
      <4>1. ASSUME NEW k \in 1..Len(t) PROVE ~Runs(t[k])
        <5>1. CASE k = 1
          BY <1>1, <1>4, <5>1
        <5>2. CASE k # 1
          <6>1. k - 1 \in 1..Len(s) /\ t[k] = s[k - 1]
            BY <1>1, <5>2
          <6> QED  BY <3>2, <6>1
        <5> QED  BY <5>1, <5>2
      <4> QED  BY <3>2, <4>1 DEF Resumes
    <3> QED  BY <2>2, <3>1, <3>2 DEF Resumes
  <2> QED  BY <1>4, <2>1, <2>2 DEF t
<1> QED  BY <1>3, <1>4
------------------------------------------------------------------------------
\* What a player is about to do.

LEMMA OnTop ==
    ASSUME IInv, NEW p \in Players, agenda[p] # <<>>
    PROVE  LET e == Top(p)
               r == Tail(agenda[p]) IN
           /\ agenda[p] \in Seq(Entry)
           /\ program_counter[p] \in Label
           /\ e \in Entry
           /\ e.body \in Bodies
           /\ r \in Seq(Entry)
           /\ agenda[p] = <<e>> \o r
           /\ Nested(r)
           /\ IF Runs(e) THEN CalledFrom(e, r) /\ Currently(e, program_counter[p])
              ELSE Pending(e) /\ Resumes(r, program_counter[p])
<1> DEFINE s == agenda[p]
           e == Head(s)
           r == Tail(s)
           pc == program_counter[p]
<1>1. s \in Seq(Entry) /\ pc \in Label /\ s # <<>> /\ Nested(s) /\ Resumes(s, pc)
  BY DEF IInv, TypeOK, AgendaInv
<1> HIDE DEF s, pc
<1>2. e \in Entry /\ r \in Seq(Entry) /\ s = <<e>> \o r
  BY <1>1, Popped
<1> HIDE DEF e, r
<1>3. Nested(r) /\ (Pending(e) \/ CalledFrom(e, r))
  <2>1. Nested(<<e>> \o r)
    BY <1>1, <1>2
  <2> QED  BY <1>2, <2>1, NestedPushed
<1>4. IF Runs(e) THEN Currently(e, pc) ELSE Resumes(r, pc)
  <2>1. Resumes(<<e>> \o r, pc)
    BY <1>1, <1>2
  <2> QED  BY <1>2, <2>1, ResumesPushed
<1>5. IF Runs(e) THEN CalledFrom(e, r) ELSE Pending(e)
  BY <1>3 DEF Runs, Pending, CalledFrom
<1>6. e.body \in Bodies
  BY <1>2 DEF Entry
<1> QED  BY <1>1, <1>2, <1>3, <1>4, <1>5, <1>6 DEF Top, s, e, r, pc

\* The agenda of p when the operation on top of it is done, and the program
\* counter then.
Advanced(p) == [Top(p) EXCEPT !.at = @ + 1]
Rest(p) == Tail(agenda[p])
NewCounter(p, op) == IF op = "activate" THEN program_counter[p]
                     ELSE Increment(program_counter[p])

LEMMA Advances ==
    ASSUME IInv, NEW p \in Players, NEW op, At(p, op)
    PROVE  /\ Here(p) \in Operations
           /\ Current(p) \in Operation
           /\ Current(p).do = op
           /\ Advanced(p) \in Entry
           /\ Advanced(p).body = Top(p).body
           /\ Advanced(p).at = Top(p).at + 1
           /\ Advanced(p).leave # "call"
           /\ Rest(p) \in Seq(Entry)
           /\ <<Advanced(p)>> \o Rest(p) \in Seq(Entry)
           /\ Nested(<<Advanced(p)>> \o Rest(p))
           /\ Resumes(<<Advanced(p)>> \o Rest(p), NewCounter(p, op))
           /\ NewCounter(p, op) \in Label
           /\ \E x \in Begun :
                 /\ x[2] = Top(p).body
                 /\ NewCounter(p, op) = Append(x[1], Count(Top(p).body, Top(p).at))
           /\ Top(p).body \in Bodies
           /\ Top(p).at \in DOMAIN Code[Top(p).body]
<1> DEFINE e == Top(p)
           b == e.body
           n == Advanced(p)
           r == Rest(p)
           pc == program_counter[p]
           after == NewCounter(p, op)
<1>1. agenda[p] # <<>> /\ e.leave # "call" /\ e.at <= Len(Code[b]) /\ Code[b][e.at].do = op
  BY DEF At
<1>2. /\ e \in Entry /\ b \in Bodies /\ r \in Seq(Entry) /\ pc \in Label
      /\ Nested(r) /\ CalledFrom(e, r) /\ Currently(e, pc)
  BY <1>1, OnTop DEF Runs, Rest
<1>3. e.at \in Nat /\ e.at > 0 /\ e.at \in DOMAIN Code[b] /\ Len(Code[b]) \in Nat
  BY <1>1, <1>2, CodeSeq DEF CalledFrom
<1>4. Here(p) \in Operations
  BY <1>2, <1>3 DEF Here, Operations
<1>5. Current(p) \in Operation /\ Current(p).do = op
  BY <1>1, <1>2, <1>3, CodeSeq DEF Current
<1>6. /\ n \in Entry /\ n.body = b /\ n.at = e.at + 1 /\ n.leave = e.leave /\ n.pc = e.pc
      /\ n = [e EXCEPT !.at = e.at + 1]
  BY <1>2, <1>3 DEF Entry, Advanced
<1> HIDE DEF n, r
<1>7. CalledFrom(n, r)
  BY <1>1, <1>2, <1>3, <1>6 DEF CalledFrom
<1>8. <<n>> \o r \in Seq(Entry) /\ Nested(<<n>> \o r)
  BY <1>2, <1>6, <1>7, Pushed, NestedPushed
<1>9. PICK x \in Begun : x[2] = b /\ pc = Append(x[1], Count(b, e.at - 1))
  BY <1>2 DEF Currently
<1>10. x[1] \in Label
  BY BegunType
<1>11. /\ e.at - 1 \in Nat /\ (e.at - 1) + 1 = e.at
       /\ Count(b, e.at - 1) \in Nat /\ Count(b, e.at) \in Nat
       /\ Count(b, e.at) = IF op = "activate" THEN Count(b, e.at - 1)
                           ELSE Count(b, e.at - 1) + 1
  <2> DEFINE k == e.at - 1
  <2>1. k \in Nat /\ k + 1 \in Nat /\ k + 1 = e.at /\ k + 1 \in DOMAIN Code[b] /\ b \in Bodies
    BY <1>2, <1>3
  <2>2. Code[b][k + 1].do = op
    BY <1>1, <2>1
  <2> HIDE DEF k, b
  <2>3. /\ Count(b, k) \in Nat /\ Count(b, k + 1) \in Nat
        /\ Count(b, k + 1) = IF op = "activate" THEN Count(b, k) ELSE Count(b, k) + 1
    <3>1. Count(b, k + 1) \in Nat
      <4> DEFINE j == k + 1
      <4>1. j \in Nat
        BY <2>1
      <4> HIDE DEF j
      <4>2. Count(b, j) \in Nat
        BY <2>1, <4>1, CountProperties
      <4> QED  BY <4>2 DEF j
    <3> QED  BY <2>1, <2>2, <3>1, CountProperties
  <2>4. /\ Count(b, k) \in Nat /\ Count(b, e.at) \in Nat
        /\ Count(b, e.at) = IF op = "activate" THEN Count(b, k) ELSE Count(b, k) + 1
    BY <2>1, <2>3
  <2> QED  BY <2>1, <2>4 DEF k
<1> HIDE DEF e, b, pc, after
<1>12. after = Append(x[1], Count(b, e.at)) /\ after \in Label
  <2> DEFINE m == Count(b, e.at - 1)
             l == x[1]
  <2>1. /\ m \in Nat /\ l \in Label /\ pc = Append(l, m)
        /\ Count(b, e.at) = IF op = "activate" THEN m ELSE m + 1
        /\ Count(b, e.at) \in Nat
    BY <1>9, <1>10, <1>11
  <2> HIDE DEF m, l
  <2>2. Increment(pc) = Append(l, m + 1)
    BY <2>1, CounterSteps
  <2>3. after = IF op = "activate" THEN pc ELSE Increment(pc)
    BY DEF NewCounter, after, pc
  <2>4. after = Append(l, Count(b, e.at))
    BY <2>1, <2>2, <2>3
  <2>5. Append(l, Count(b, e.at)) \in Label
    BY <2>1, AppendLabel
  <2> QED  BY <2>4, <2>5 DEF l
<1>13. Currently(n, after)
  <2>1. n.at - 1 = e.at
    BY <1>3, <1>6
  <2>2. x[2] = n.body /\ after = Append(x[1], Count(n.body, n.at - 1))
    BY <1>6, <1>9, <1>12, <2>1
  <2> QED  BY <2>2 DEF Currently
<1>14. Resumes(<<n>> \o r, after)
  <2>1. Runs(n)
    BY <1>1, <1>6 DEF Runs
  <2> QED  BY <1>2, <1>6, <1>13, <2>1, ResumesPushed
<1> QED
  BY <1>1, <1>2, <1>3, <1>4, <1>5, <1>6, <1>8, <1>9, <1>12, <1>14 DEF n, r, e, b, after

\* The agenda and program counter of one player change.
LEMMA OnePlayer ==
    ASSUME IInv, NEW p \in Players, NEW a \in Seq(Entry), NEW pc \in Label,
           Nested(a), Resumes(a, pc),
           agenda' = [agenda EXCEPT ![p] = a],
           program_counter' = [program_counter EXCEPT ![p] = pc]
    PROVE  /\ agenda' \in [Players -> Seq(Entry)]
           /\ program_counter' \in [Players -> Label]
           /\ AgendaInv'
<1>1. agenda \in [Players -> Seq(Entry)] /\ program_counter \in [Players -> Label]
  BY DEF IInv, TypeOK
<1>2. agenda' \in [Players -> Seq(Entry)] /\ program_counter' \in [Players -> Label]
  BY <1>1
<1>3. ASSUME NEW q \in Players
      PROVE  Nested(agenda'[q]) /\ Resumes(agenda'[q], program_counter'[q])
  <2>1. CASE q = p
    BY <1>1, <2>1
  <2>2. CASE q # p
    <3>1. agenda'[q] = agenda[q] /\ program_counter'[q] = program_counter[q]
      BY <1>1, <2>2
    <3> QED  BY <3>1 DEF IInv, AgendaInv
  <2> QED  BY <2>1, <2>2
<1> QED  BY <1>2, <1>3 DEF AgendaInv

\* The invariant follows from its parts for what has changed.
LEMMA NothingSent ==
    ASSUME IInv, UNCHANGED <<callbacks, label, fired>>,
           agenda' \in [Players -> Seq(Entry)],
           program_counter' \in [Players -> Label],
           AgendaInv'
    PROVE  IInv'
  BY DEF IInv, TypeOK, CallbacksInv, LabelInv
------------------------------------------------------------------------------
\* One step per action.

\* Entries that wait to be called, or none, come in front of what is advanced.
LEMMA AdvanceStep ==
    ASSUME IInv, NEW p \in Players, NEW op, At(p, op),
           NEW c \in Seq(Entry), \A i \in 1..Len(c) : Pending(c[i]),
           Advance(p, c),
           program_counter' = [program_counter EXCEPT ![p] = NewCounter(p, op)]
    PROVE  /\ agenda' \in [Players -> Seq(Entry)]
           /\ program_counter' \in [Players -> Label]
           /\ AgendaInv'
<1> DEFINE t == <<Advanced(p)>>
           r == Rest(p)
           pc == NewCounter(p, op)
<1>1. /\ t \in Seq(Entry) /\ r \in Seq(Entry) /\ t \o r \in Seq(Entry)
      /\ Nested(t \o r) /\ Resumes(t \o r, pc) /\ pc \in Label
  BY Advances
<1>2. agenda \in [Players -> Seq(Entry)]
  BY DEF IInv, TypeOK
<1>3. agenda' = [agenda EXCEPT ![p] = (c \o t) \o r]
  BY <1>2 DEF Advance, Advanced, Rest
<1> HIDE DEF t, r, pc
<1>4. (c \o t) \o r = c \o (t \o r)
  BY <1>1, ConcatAssociative
<1> DEFINE s == t \o r
<1>5. s \in Seq(Entry) /\ Nested(s) /\ Resumes(s, pc)
  BY <1>1
<1>6. agenda' = [agenda EXCEPT ![p] = c \o s]
  BY <1>3, <1>4
<1> HIDE DEF s
<1>7. c \o s \in Seq(Entry) /\ Nested(c \o s) /\ Resumes(c \o s, pc)
  BY <1>5, CallbacksInFront
<1> DEFINE a == c \o s
<1>8. a \in Seq(Entry) /\ Nested(a) /\ Resumes(a, pc) /\ agenda' = [agenda EXCEPT ![p] = a]
  BY <1>6, <1>7
<1>9. program_counter' = [program_counter EXCEPT ![p] = pc]
  BY DEF pc
<1> HIDE DEF a
<1> QED  BY <1>1, <1>8, <1>9, OnePlayer

LEMMA ExchangeStep ==
    ASSUME IInv, NEW p \in Players, Exchange(p)
    PROVE  IInv'
<1> DEFINE pc == Increment(program_counter[p])
           h == Here(p)
           o1 == Top(p).body
           o2 == Top(p).at
<1>1. At(p, "exchange")
  BY DEF Exchange
<1>2. pc = NewCounter(p, "exchange")
  BY DEF NewCounter
<1>3. /\ agenda' \in [Players -> Seq(Entry)] /\ program_counter' \in [Players -> Label]
      /\ AgendaInv'
  <2> DEFINE c == <<>>
  <2>1. c \in Seq(Entry) /\ \A i \in 1..Len(c) : Pending(c[i])
    OBVIOUS
  <2>2. Advance(p, c) /\ program_counter' = [program_counter EXCEPT ![p] = pc]
    BY DEF Exchange
  <2> HIDE DEF c, pc
  <2> QED  BY <1>1, <1>2, <2>1, <2>2, AdvanceStep
<1>4. /\ h \in Operations /\ h = <<o1, o2>> /\ pc \in Label
      /\ Code[o1][o2].do = "exchange"
      /\ \E x \in Begun : x[2] = o1 /\ pc = Append(x[1], Count(o1, o2))
  BY <1>1, <1>2, Advances DEF Here, Current
<1>5. /\ label' = [label EXCEPT ![p] = [o \in DOMAIN @ \cup {h} |->
                                           IF o = h THEN pc ELSE @[o]]]
      /\ UNCHANGED callbacks
      /\ fired' = fired \/ fired' = [fired EXCEPT ![p] = @ \cup {h}]
  BY DEF Exchange
<1> HIDE DEF pc, h, o1, o2
<1>6. /\ DOMAIN label' = Players
      /\ DOMAIN label'[p] = DOMAIN label[p] \cup {h}
      /\ \A o \in DOMAIN label'[p] : label'[p][o] = IF o = h THEN pc ELSE label[p][o]
      /\ \A q \in Players : q # p => label'[q] = label[q]
  BY <1>5 DEF IInv
<1>12. DOMAIN fired' = Players /\ fired'[p] \subseteq fired[p] \cup {h}
       /\ \A q \in Players : q # p => fired'[q] = fired[q]
  BY <1>5 DEF IInv
<1>7. ASSUME NEW q \in Players
      PROVE  /\ DOMAIN label'[q] \subseteq Operations
             /\ \A o \in DOMAIN label'[q] : label'[q][o] \in Label
             /\ fired'[q] \subseteq DOMAIN label'[q]
  <2>1. /\ DOMAIN label[q] \subseteq Operations
        /\ \A o \in DOMAIN label[q] : label[q][o] \in Label
        /\ fired[q] \subseteq DOMAIN label[q]
    BY DEF IInv, TypeOK
  <2>2. CASE q = p
    BY <1>4, <1>12, <1>6, <2>1, <2>2
  <2>3. CASE q # p
    BY <1>12, <1>6, <2>1, <2>3
  <2> QED  BY <2>2, <2>3
<1>8. LabelInv'
  <2> SUFFICES ASSUME NEW q \in Players, NEW o \in DOMAIN label'[q]
               PROVE  \E x \in Begun : /\ x[2] = o[1]
                                       /\ label'[q][o] = Append(x[1], Count(o[1], o[2]))
                                       /\ Code[o[1]][o[2]].do = "exchange"
    BY DEF LabelInv
  <2>1. CASE q = p /\ o = h
    <3>1. label'[q][o] = pc /\ o[1] = o1 /\ o[2] = o2
      BY <1>4, <1>6, <2>1
    <3> QED  BY <1>4, <3>1
  <2>2. CASE ~(q = p /\ o = h)
    <3>1. o \in DOMAIN label[q] /\ label'[q][o] = label[q][o]
      BY <1>6, <2>2
    <3> QED  BY <3>1 DEF IInv, LabelInv
  <2> QED  BY <2>1, <2>2
<1>9. CallbacksInv' /\ callbacks' \in [Players -> [Operations -> Seq(Entry)]]
  BY <1>5 DEF IInv, TypeOK, CallbacksInv
<1>11. TypeOK'
  BY <1>3, <1>7, <1>9 DEF TypeOK
<1> QED  BY <1>3, <1>6, <1>8, <1>9, <1>11, <1>12 DEF IInv

\* What is called at the current operation is begun with the new program counter.
LEMMA CalledIsBegun ==
    ASSUME IInv, NEW p \in Players, NEW op \in {"schedule", "fork"}, At(p, op)
    PROVE  /\ Current(p).body \in Bodies
           /\ Calls(Here(p), Current(p).body)
           /\ <<NewCounter(p, op), Current(p).body>> \in Begun
<1> DEFINE b == Top(p).body
           i == Top(p).at
           d == Current(p).body
           pc == NewCounter(p, op)
<1>1. /\ Current(p) \in Operation /\ Current(p).do = op
      /\ b \in Bodies /\ i \in DOMAIN Code[b]
      /\ \E x \in Begun : x[2] = b /\ pc = Append(x[1], Count(b, i))
  BY Advances
<1>2. d \in Bodies
  BY <1>1 DEF Operation
<1>3. Calls(<<b, i>>, d) /\ Here(p) = <<b, i>>
  BY <1>1 DEF Calls, Here, Current
<1> HIDE DEF b, i, d, pc
<1>4. PICK x \in Begun : x[2] = b /\ pc = Append(x[1], Count(b, i))
  BY <1>1
<1>5. <<Append(x[1], Count(x[2], i)), d>> \in Begun
  BY <1>1, <1>2, <1>3, <1>4, BegunClosed DEF Closed
<1> QED  BY <1>2, <1>3, <1>4, <1>5 DEF d, pc

LEMMA ScheduleStep ==
    ASSUME IInv, NEW p \in Players, Schedule(p)
    PROVE  IInv'
<1> DEFINE pc == NewCounter(p, "schedule")
           callback == ToCall(Current(p).body, pc)
           on == Current(p).on
<1>1. At(p, "schedule")
  BY DEF Schedule
<1>2. callback \in Entry /\ Pending(callback)
  <2>1. Current(p).body \in Bodies /\ pc \in Label /\ <<pc, Current(p).body>> \in Begun
    BY <1>1, Advances, CalledIsBegun
  <2> QED  BY <2>1 DEF ToCall, Running, Entry, Pending
<1>3. /\ program_counter' = [program_counter EXCEPT ![p] = pc]
      /\ UNCHANGED <<label, fired>>
      /\ \/ Advance(p, <<callback>>) /\ UNCHANGED callbacks
         \/ /\ Advance(p, <<>>)
            /\ callbacks' = [callbacks EXCEPT ![p][on] = Append(@, callback)]
  BY DEF Schedule, NewCounter
<1> HIDE DEF pc, callback, on
<1>4. /\ agenda' \in [Players -> Seq(Entry)] /\ program_counter' \in [Players -> Label]
      /\ AgendaInv'
  <2>1. PICK c \in {<<>>, <<callback>>} : Advance(p, c)
    BY <1>3
  <2>2. c \in Seq(Entry) /\ \A i \in 1..Len(c) : Pending(c[i])
    <3>1. CASE c = <<>>
      BY <3>1
    <3>2. CASE c = <<callback>>
      BY <1>2, <3>2
    <3> QED  BY <3>1, <3>2
  <2>3. program_counter' = [program_counter EXCEPT ![p] = NewCounter(p, "schedule")]
    BY <1>3 DEF pc
  <2> QED  BY <1>1, <2>1, <2>2, <2>3, AdvanceStep
<1>5. callbacks \in [Players -> [Operations -> Seq(Entry)]] /\ CallbacksInv
  BY DEF IInv, TypeOK
<1>6. callbacks' \in [Players -> [Operations -> Seq(Entry)]] /\ CallbacksInv'
  <2>1. CASE UNCHANGED callbacks
    BY <1>5, <2>1 DEF CallbacksInv
  <2>2. CASE callbacks' = [callbacks EXCEPT ![p][on] = Append(@, callback)]
    <3>1. ASSUME NEW q \in Players, NEW o \in Operations
          PROVE  callbacks'[q][o] = IF q = p /\ o = on THEN Append(callbacks[q][o], callback)
                                    ELSE callbacks[q][o]
      BY <1>5, <2>2
    <3>2. ASSUME NEW q \in Players, NEW o \in Operations
          PROVE  /\ callbacks'[q][o] \in Seq(Entry)
                 /\ \A i \in 1..Len(callbacks'[q][o]) : Pending(callbacks'[q][o][i])
      <4> DEFINE s == callbacks[q][o]
      <4>1. s \in Seq(Entry) /\ \A i \in 1..Len(s) : Pending(s[i])
        BY <1>5 DEF CallbacksInv
      <4> HIDE DEF s
      <4>2. /\ Append(s, callback) \in Seq(Entry)
            /\ \A i \in 1..Len(Append(s, callback)) : Pending(Append(s, callback)[i])
        <5>1. /\ Append(s, callback) \in Seq(Entry)
              /\ Len(Append(s, callback)) = Len(s) + 1 /\ Len(s) \in Nat
              /\ \A i \in 1..Len(s) : Append(s, callback)[i] = s[i]
              /\ Append(s, callback)[Len(s) + 1] = callback
          BY <1>2, <4>1
        <5>2. ASSUME NEW i \in 1..Len(Append(s, callback))
              PROVE  i \in 1..Len(s) \/ i = Len(s) + 1
          BY <5>1
        <5> QED  BY <1>2, <4>1, <5>1, <5>2
      <4> QED  BY <3>1, <4>1, <4>2 DEF s
    <3>3. callbacks' \in [Players -> [Operations -> Seq(Entry)]]
      <4>1. DOMAIN callbacks' = Players /\ callbacks' = [q \in Players |-> callbacks'[q]]
        BY <1>5, <2>2
      <4>2. \A q \in Players : callbacks'[q] = [o \in Operations |-> callbacks'[q][o]]
        BY <1>5, <2>2
      <4>3. \A q \in Players : callbacks'[q] \in [Operations -> Seq(Entry)]
        BY <3>2, <4>2
      <4> QED  BY <4>1, <4>3
    <3> QED  BY <3>2, <3>3 DEF CallbacksInv
  <2> QED  BY <1>3, <2>1, <2>2
<1>7. LabelInv' /\ DOMAIN label' = Players /\ DOMAIN fired' = Players
  BY <1>3 DEF IInv, LabelInv
<1>8. TypeOK'
  BY <1>3, <1>4, <1>6 DEF IInv, TypeOK
<1> QED  BY <1>4, <1>6, <1>7, <1>8 DEF IInv

\* A body begins to run with program counter Append(l, 0).
LEMMA Begins ==
    ASSUME NEW l \in Label, NEW b \in Bodies, <<l, b>> \in Begun, NEW e \in Entry,
           e.body = b, e.at = 1
    PROVE  Append(l, 0) \in Label /\ Currently(e, Append(l, 0))
<1>1. Append(l, 0) \in Label
  BY AppendLabel
<1>2. Count(b, 0) = 0
  BY CountProperties
<1>3. Count(e.body, e.at - 1) = 0
  <2>1. e.at - 1 = 0
    OBVIOUS
  <2> QED  BY <1>2, <2>1
<1> DEFINE x == <<l, b>>
<1>4. x \in Begun /\ x[2] = e.body /\ Append(l, 0) = Append(x[1], Count(e.body, e.at - 1))
  BY <1>3
<1> QED  BY <1>1, <1>4 DEF Currently

LEMMA CallStep ==
    ASSUME IInv, NEW p \in Players, Call(p)
    PROVE  IInv'
<1> DEFINE e == Top(p)
           r == Tail(agenda[p])
           pc == program_counter[p]
           f == Running(e.body, 1, "restore", pc)
           l == e.pc
<1>1. agenda[p] # <<>> /\ e.leave = "call"
  BY DEF Call
<1>2. /\ e \in Entry /\ e.body \in Bodies /\ r \in Seq(Entry) /\ pc \in Label
      /\ Nested(r) /\ Pending(e) /\ Resumes(r, pc)
  BY <1>1, OnTop DEF Runs
<1>3. /\ f \in Entry /\ f.body = e.body /\ f.at = 1 /\ f.leave = "restore" /\ f.pc = pc
      /\ l \in Label /\ <<l, e.body>> \in Begun
  BY <1>2 DEF Running, Entry, Pending
<1>4. /\ agenda' = [agenda EXCEPT ![p] = <<f>> \o r]
      /\ program_counter' = [program_counter EXCEPT ![p] = Append(l, 0)]
      /\ UNCHANGED <<callbacks, label, fired>>
  <2>1. agenda \in [Players -> Seq(Entry)]
    BY DEF IInv, TypeOK
  <2> QED  BY <2>1 DEF Call, Fork
<1> DEFINE b == e.body
<1>5. 1 \in 1..Len(Code[b]) + 1
  BY <1>2, CodeSeq
<1> HIDE DEF f, r, pc, l, e
<1>6. CalledFrom(f, r)
  <2>1. \E x \in Begun : x[2] = f.body
    BY <1>3
  <2> QED  BY <1>2, <1>3, <1>5, <2>1 DEF CalledFrom, b
<1>7. Append(l, 0) \in Label /\ Currently(f, Append(l, 0))
  BY <1>2, <1>3, Begins
<1>8. <<f>> \o r \in Seq(Entry) /\ Nested(<<f>> \o r)
  BY <1>2, <1>3, <1>6, Pushed, NestedPushed
<1>9. Resumes(<<f>> \o r, Append(l, 0))
  <2>1. Runs(f)
    BY <1>3 DEF Runs
  <2> DEFINE k == Append(l, 0)
  <2>2. Currently(f, k)
    BY <1>7
  <2> HIDE DEF k
  <2>3. Resumes(<<f>> \o r, k)
    BY <1>2, <1>3, <2>1, <2>2, ResumesPushed
  <2> QED  BY <2>3 DEF k
<1> DEFINE a == <<f>> \o r
           k == Append(l, 0)
<1>10. /\ a \in Seq(Entry) /\ k \in Label /\ Nested(a) /\ Resumes(a, k)
       /\ agenda' = [agenda EXCEPT ![p] = a]
       /\ program_counter' = [program_counter EXCEPT ![p] = k]
  BY <1>4, <1>7, <1>8, <1>9
<1> HIDE DEF a, k
<1> QED  BY <1>4, <1>10, OnePlayer, NothingSent

LEMMA ForkCallStep ==
    ASSUME IInv, NEW p \in Players, ForkCall(p)
    PROVE  IInv'
<1> DEFINE e == Top(p)
           n == Advanced(p)
           r == Rest(p)
           pc == NewCounter(p, "fork")
           d == Current(p).body
           f == Running(d, 1, "unfork", pc)
           s == <<n>> \o r
<1>1. At(p, "fork")
  BY DEF ForkCall
<1>2. /\ n \in Entry /\ n.body = e.body /\ n.at = e.at + 1 /\ n.leave # "call"
      /\ r \in Seq(Entry) /\ s \in Seq(Entry) /\ Nested(s)
      /\ pc \in Label /\ e.body \in Bodies /\ e.at \in DOMAIN Code[e.body]
      /\ \E x \in Begun : x[2] = e.body
  BY <1>1, Advances
<1>3. d \in Bodies /\ Calls(<<e.body, e.at>>, d) /\ <<pc, d>> \in Begun
  BY <1>1, CalledIsBegun DEF Here
<1>4. f \in Entry /\ f.body = d /\ f.at = 1 /\ f.leave = "unfork"
  BY <1>2, <1>3 DEF Running, Entry
<1>5. /\ agenda' = [agenda EXCEPT ![p] = (<<f>> \o <<n>>) \o r]
      /\ program_counter' = [program_counter EXCEPT ![p] = Append(pc, 0)]
      /\ UNCHANGED <<callbacks, label, fired>>
  <2>1. agenda \in [Players -> Seq(Entry)]
    BY DEF IInv, TypeOK
  <2> QED  BY <2>1 DEF ForkCall, Fork, Advance, Advanced, Rest, NewCounter
<1>6. (<<f>> \o <<n>>) \o r = <<f>> \o s
  <2> HIDE DEF f, n, r
  <2>1. <<f>> \in Seq(Entry) /\ <<n>> \in Seq(Entry) /\ r \in Seq(Entry)
    BY <1>2, <1>4
  <2> QED  BY <2>1, ConcatAssociative
<1>7. s # <<>> /\ s[1] = n
  <2> HIDE DEF n, r
  <2> QED  BY <1>2, Pushed
<1>8. n.at > 1 /\ n.at - 1 = e.at /\ 1 \in 1..Len(Code[d]) + 1
  BY <1>2, <1>3, CodeSeq
<1> HIDE DEF f, s, r, n, pc, d, e
<1>9. CalledFrom(f, s)
  <2>1. \E x \in Begun : x[2] = d
    BY <1>3
  <2>2. /\ Runs(s[1]) /\ s[1].at > 1
        /\ s[1].at - 1 \in DOMAIN Code[s[1].body]
        /\ Calls(<<s[1].body, s[1].at - 1>>, d)
        /\ \E x \in Begun : x[2] = s[1].body
    BY <1>2, <1>3, <1>7, <1>8 DEF Runs
  <2> QED  BY <1>4, <1>7, <1>8, <2>1, <2>2 DEF CalledFrom
<1> DEFINE a == <<f>> \o s
           k == Append(pc, 0)
<1>10. k \in Label /\ Currently(f, k)
  BY <1>2, <1>3, <1>4, Begins
<1> HIDE DEF k
<1>11. a \in Seq(Entry) /\ Nested(a) /\ Resumes(a, k)
  <2>1. Runs(f)
    BY <1>4 DEF Runs
  <2> QED  BY <1>2, <1>4, <1>9, <1>10, <2>1, Pushed, NestedPushed, ResumesPushed
<1>12. /\ agenda' = [agenda EXCEPT ![p] = a]
       /\ program_counter' = [program_counter EXCEPT ![p] = k]
  BY <1>5, <1>6 DEF k
<1> HIDE DEF a
<1> QED  BY <1>5, <1>10, <1>11, <1>12, OnePlayer, NothingSent
LEMMA LeaveStep ==
    ASSUME IInv, NEW p \in Players, Leave(p)
    PROVE  IInv'
<1> DEFINE e == Top(p)
           b == e.body
           r == Tail(agenda[p])
           pc == program_counter[p]
           k == CASE e.leave = "unfork" -> Unfork(pc)
                  [] e.leave = "restore" -> e.pc
                  [] OTHER -> pc
<1>1. agenda[p] # <<>> /\ e.leave # "call" /\ e.at > Len(Code[b])
  BY DEF Leave
<1>2. /\ e \in Entry /\ b \in Bodies /\ r \in Seq(Entry) /\ pc \in Label
      /\ Nested(r) /\ CalledFrom(e, r) /\ Currently(e, pc)
  BY <1>1, OnTop DEF Runs
<1>3. /\ agenda' = [agenda EXCEPT ![p] = r]
      /\ program_counter' = [program_counter EXCEPT ![p] = k]
      /\ UNCHANGED <<callbacks, label, fired>>
  <2>1. agenda \in [Players -> Seq(Entry)] /\ program_counter \in [Players -> Label]
    BY DEF IInv, TypeOK
  <2> QED  BY <2>1 DEF Leave
<1>4. e.leave \in {"unfork", "restore", "stay"} /\ e.pc \in Label
  BY <1>1, <1>2 DEF Entry
<1>5. /\ e.leave = "unfork" => k = Unfork(pc)
      /\ e.leave = "restore" => k = e.pc
      /\ e.leave = "stay" => k = pc
  OBVIOUS
<1> HIDE DEF k
<1>6. PICK x \in Begun : x[2] = b /\ pc = Append(x[1], Count(b, e.at - 1))
  BY <1>2 DEF Currently
<1>7. x[1] \in Label /\ Count(b, Len(Code[b])) \in Nat /\ e.at - 1 = Len(Code[b])
      /\ Count(b, Len(Code[b])) = Increments(b)
  <2>1. Len(Code[b]) \in Nat /\ e.at - 1 = Len(Code[b])
    <3>1. Len(Code[b]) \in Nat
      BY <1>2, CodeSeq
    <3>2. e.at \in 1..Len(Code[b]) + 1 /\ e.at > Len(Code[b])
      BY <1>1, <1>2 DEF CalledFrom
    <3> DEFINE k1 == e.at
               k2 == Len(Code[b])
    <3>3. k2 \in Nat /\ k1 \in 1..k2 + 1 /\ k1 > k2
      BY <3>1, <3>2
    <3> HIDE DEF k1, k2
    <3>4. k1 - 1 = k2
      BY <3>3
    <3> QED  BY <3>1, <3>4 DEF k1, k2
  <2> HIDE DEF b
  <2>2. Count(b, Len(Code[b])) \in Nat /\ Count(b, Len(Code[b])) = Increments(b)
    BY <1>2, <2>1, CountProperties
  <2> QED  BY <2>1, <2>2, BegunType
<1>8. pc = Append(x[1], Increments(b)) /\ Increments(b) \in Nat
  BY <1>6, <1>7
<1> HIDE DEF e, b, r, pc
<1>9. k \in Label /\ Resumes(r, k)
  <2>1. CASE e.leave = "restore"
    BY <1>2, <1>4, <1>5, <2>1 DEF CalledFrom
  <2>2. CASE e.leave = "unfork"
    <3> DEFINE h == Head(r)
               q == Tail(r)
    <3>1. h \in Entry /\ h = r[1] /\ q \in Seq(Entry) /\ r = <<h>> \o q
      BY <1>2, <2>2, Popped DEF CalledFrom
    <3> HIDE DEF h, q
    <3>2. /\ Runs(h) /\ h.at - 1 \in DOMAIN Code[h.body]
          /\ Calls(<<h.body, h.at - 1>>, b)
          /\ \E y \in Begun : y[2] = h.body
      BY <2>2, <3>1, <1>2 DEF CalledFrom, b
    <3>3. PICK y \in Begun : y[2] = h.body
      BY <3>2
    <3> DEFINE z == <<Append(y[1], Count(h.body, h.at - 1)), b>>
    <3>4. z \in Begun
      BY <1>2, <3>2, <3>3, BegunClosed DEF Closed
    <3>5. x[1] = z[1]
      BY <1>6, <3>4, BegunOnce
    <3>6. k = x[1]
      <4> DEFINE l == x[1]
                 m == Increments(b)
      <4>1. l \in Label /\ m \in Nat /\ pc = Append(l, m)
        BY <1>7, <1>8
      <4> HIDE DEF l, m
      <4>2. Unfork(pc) = l
        BY <4>1, CounterSteps
      <4> QED  BY <1>5, <2>2, <4>2 DEF l
    <3>7. Currently(h, k)
      BY <3>3, <3>5, <3>6 DEF Currently
    <3>8. Resumes(<<h>> \o q, k)
      BY <3>1, <3>2, <3>7, ResumesPushed
    <3> QED  BY <1>7, <3>1, <3>6, <3>8
  <2>3. CASE e.leave = "stay"
    <3>1. r = <<>> /\ b = Main /\ k = pc
      BY <1>2, <1>5, <2>3 DEF CalledFrom, b
    <3>2. x[1] = <<ComputationId>>
      BY <1>6, <3>1, MainIsBegunOnce
    <3>3. pc = <<ComputationId, Increments(Main)>>
      <4>1. pc = Append(<<ComputationId>>, Increments(Main))
        BY <1>8, <3>1, <3>2
      <4>2. ASSUME NEW i \in Nat, NEW j \in Nat PROVE Append(<<i>>, j) = <<i, j>>
        <5> DEFINE s == Append(<<i>>, j)
                   t == <<i, j>>
        <5>1. s \in Seq(Nat) /\ Len(s) = 2 /\ s[1] = i /\ s[2] = j
          OBVIOUS
        <5>2. t \in Seq(Nat) /\ Len(t) = 2 /\ t[1] = i /\ t[2] = j
          OBVIOUS
        <5> HIDE DEF s, t
        <5>3. \A n \in 1..2 : n = 1 \/ n = 2
          OBVIOUS
        <5>4. \A n \in 1..Len(s) : s[n] = t[n]
          BY <5>1, <5>2, <5>3
        <5>5. s = t
          BY <5>1, <5>2, <5>4, SeqEqual
        <5> QED  BY <5>5 DEF s, t
      <4> QED  BY <1>8, <3>1, <4>1, <4>2, ProgramAssumption
    <3>4. \A i \in 1..Len(r) : ~Runs(r[i])
      BY <3>1
    <3> QED  BY <1>2, <3>1, <3>3, <3>4 DEF Resumes
  <2> QED  BY <1>4, <2>1, <2>2, <2>3
<1> QED  BY <1>2, <1>3, <1>9, OnePlayer, NothingSent

LEMMA DeactivateStep ==
    ASSUME IInv, NEW p \in Players, Deactivate(p)
    PROVE  IInv'
<1>1. At(p, "activate") /\ UNCHANGED <<program_counter, callbacks, label, fired>>
  BY DEF Deactivate
<1> DEFINE c == <<>>
<1>2. c \in Seq(Entry) /\ (\A i \in 1..Len(c) : Pending(c[i])) /\ Advance(p, c)
  BY DEF Deactivate
<1>3. program_counter' = [program_counter EXCEPT ![p] = NewCounter(p, "activate")]
  <2>1. program_counter \in [Players -> Label]
    BY DEF IInv, TypeOK
  <2> QED  BY <1>1, <2>1 DEF NewCounter
<1> HIDE DEF c
<1>4. /\ agenda' \in [Players -> Seq(Entry)] /\ program_counter' \in [Players -> Label]
      /\ AgendaInv'
  BY <1>1, <1>2, <1>3, AdvanceStep
<1> QED  BY <1>1, <1>4, NothingSent

LEMMA FireStep ==
    ASSUME IInv, NEW p \in Players, NEW o \in Operations, Fire(p, o)
    PROVE  IInv'
<1> DEFINE c == callbacks[p][o]
           s == agenda[p]
           pc == program_counter[p]
           a == c \o s
<1>1. /\ s \in Seq(Entry) /\ pc \in Label /\ Nested(s) /\ Resumes(s, pc)
      /\ c \in Seq(Entry) /\ \A i \in 1..Len(c) : Pending(c[i])
  BY DEF IInv, TypeOK, AgendaInv, CallbacksInv
<1>2. /\ agenda' = [agenda EXCEPT ![p] = a]
      /\ callbacks' = [callbacks EXCEPT ![p][o] = <<>>]
      /\ fired' = [fired EXCEPT ![p] = @ \cup {o}]
      /\ UNCHANGED <<program_counter, label>>
      /\ o \in DOMAIN label[p]
  <2>1. agenda \in [Players -> Seq(Entry)]
    BY DEF IInv, TypeOK
  <2> QED  BY <2>1 DEF Fire
<1>3. program_counter' = [program_counter EXCEPT ![p] = pc]
  <2>1. program_counter \in [Players -> Label]
    BY DEF IInv, TypeOK
  <2> QED  BY <1>2, <2>1
<1> HIDE DEF c, s, pc
<1>4. a \in Seq(Entry) /\ Nested(a) /\ Resumes(a, pc)
  BY <1>1, CallbacksInFront
<1> HIDE DEF a
<1>5. /\ agenda' \in [Players -> Seq(Entry)] /\ program_counter' \in [Players -> Label]
      /\ AgendaInv'
  BY <1>1, <1>2, <1>3, <1>4, OnePlayer
<1>6. callbacks \in [Players -> [Operations -> Seq(Entry)]] /\ CallbacksInv
  BY DEF IInv, TypeOK
<1>7. callbacks' \in [Players -> [Operations -> Seq(Entry)]]
  BY <1>2, <1>6
<1>8. ASSUME NEW q \in Players, NEW i \in Operations
      PROVE  callbacks'[q][i] = callbacks[q][i] \/ callbacks'[q][i] = <<>>
  BY <1>2, <1>6
<1>9. CallbacksInv'
  BY <1>6, <1>8 DEF CallbacksInv
<1>10. \A q \in Players : fired'[q] \subseteq DOMAIN label'[q]
  <2> SUFFICES ASSUME NEW q \in Players PROVE fired'[q] \subseteq DOMAIN label[q]
    BY <1>2
  <2>1. fired[q] \subseteq DOMAIN label[q]
    BY DEF IInv, TypeOK
  <2>2. CASE q = p
    BY <1>2, <2>1, <2>2 DEF IInv
  <2>3. CASE q # p
    BY <1>2, <2>1, <2>3 DEF IInv
  <2> QED  BY <2>2, <2>3
<1>11. DOMAIN fired' = Players
  BY <1>2 DEF IInv
<1>12. TypeOK'
  BY <1>2, <1>5, <1>7, <1>10 DEF IInv, TypeOK
<1>13. LabelInv' /\ DOMAIN label' = Players
  BY <1>2 DEF IInv, LabelInv
<1> QED  BY <1>5, <1>9, <1>11, <1>12, <1>13 DEF IInv

LEMMA Inductive == Spec => []IInv
<1>1. Init => IInv
  <2> SUFFICES ASSUME Init PROVE IInv
    OBVIOUS
  <2> DEFINE pc == <<ComputationId, 0>>
             e == Running(Main, 1, "stay", pc)
  <2>1. pc \in Label /\ <<ComputationId>> \in Label /\ pc = Append(<<ComputationId>>, 0)
    BY ProgramAssumption DEF Label
  <2>2. /\ e \in Entry /\ e.body = Main /\ e.at = 1 /\ e.leave = "stay"
        /\ Main \in Bodies
    BY <2>1, ProgramAssumption DEF Entry, Running
  <2>3. /\ program_counter = [p \in Players |-> pc]
        /\ agenda = [p \in Players |-> <<e>>]
        /\ callbacks = [p \in Players |-> [o \in Operations |-> <<>>]]
        /\ label = [p \in Players |-> <<>>]
        /\ fired = [p \in Players |-> {}]
    BY DEF Init
  <2>4. <<<<ComputationId>>, Main>> \in Begun
    BY BegunClosed DEF Closed
  <2> HIDE DEF e
  <2>5. Currently(e, pc)
    <3> DEFINE l == <<ComputationId>>
    <3>1. l \in Label /\ <<l, Main>> \in Begun /\ pc = Append(l, 0)
      BY <2>1, <2>4
    <3> HIDE DEF l, pc
    <3>2. Currently(e, Append(l, 0))
      BY <2>2, <3>1, Begins
    <3> QED  BY <3>1, <3>2
  <2>6. CalledFrom(e, <<>>)
    <3>1. 1 \in 1..Len(Code[Main]) + 1
      BY <2>2, CodeSeq
    <3>2. \E x \in Begun : x[2] = Main
      BY <2>4
    <3> QED  BY <2>2, <3>1, <3>2 DEF CalledFrom
  <2> HIDE DEF pc
  <2>7. <<e>> \in Seq(Entry) /\ Nested(<<e>>) /\ Resumes(<<e>>, pc)
    <3> DEFINE s == <<>>
               t == <<e>>
    <3>1. s \in Seq(Entry) /\ Nested(s) /\ t = <<e>> \o s /\ CalledFrom(e, s) /\ t \in Seq(Entry)
      BY <2>2, <2>6 DEF Nested
    <3>2. Runs(e)
      BY <2>2 DEF Runs
    <3> HIDE DEF s, t
    <3>3. Nested(<<e>> \o s) /\ Resumes(<<e>> \o s, pc)
      BY <2>2, <2>5, <3>1, <3>2, NestedPushed, ResumesPushed
    <3>4. t \in Seq(Entry) /\ Nested(t) /\ Resumes(t, pc)
      BY <3>1, <3>3
    <3> QED  BY <3>4 DEF t
  <2>8. TypeOK
    BY <2>1, <2>3, <2>7 DEF TypeOK
  <2>9. AgendaInv
    BY <2>3, <2>7 DEF AgendaInv
  <2>10. CallbacksInv /\ LabelInv
    BY <2>3 DEF CallbacksInv, LabelInv
  <2> QED  BY <2>3, <2>8, <2>9, <2>10 DEF IInv
<1>2. IInv /\ [Next]_vars => IInv'
  <2> SUFFICES ASSUME IInv, [Next]_vars PROVE IInv'
    OBVIOUS
  <2>1. ASSUME NEW p \in Players, Step(p) PROVE IInv'
    <3>1. CASE Exchange(p)
      BY <3>1, ExchangeStep
    <3>2. CASE Schedule(p)
      BY <3>2, ScheduleStep
    <3>3. CASE Call(p)
      BY <3>3, CallStep
    <3>4. CASE ForkCall(p)
      BY <3>4, ForkCallStep
    <3>5. CASE Leave(p)
      BY <3>5, LeaveStep
    <3>6. CASE Deactivate(p)
      BY <3>6, DeactivateStep
    <3>7. CASE \E o \in Operations : Fire(p, o)
      BY <3>7, FireStep
    <3> QED  BY <2>1, <3>1, <3>2, <3>3, <3>4, <3>5, <3>6, <3>7 DEF Step
  <2>2. CASE UNCHANGED vars
    BY <2>2 DEF vars, IInv, TypeOK, AgendaInv, CallbacksInv, LabelInv
  <2> QED  BY <2>1, <2>2 DEF Next
<1> QED  BY <1>1, <1>2, PTL DEF Spec

------------------------------------------------------------------------------
\* Every state is one that the variables' types allow: program counters, saved
\* ones and labels are sequences of numbers, agendas hold bodies of the program,
\* and only exchanges that a player has begun have fired at it.
THEOREM TypeCorrect == Spec => []TypeOK
<1>1. IInv => TypeOK
  BY DEF IInv
<1> QED  BY <1>1, Inductive, PTL

\* Two exchanges, of one player or of two, have the same label exactly if they
\* are the same operation of the program, in every program and however the
\* callbacks of the players are ordered and nested.
THEOREM SharesMeetHolds == Spec => []SharesMeet
<1>1. IInv => SharesMeet
  <2> SUFFICES ASSUME IInv, NEW p \in Players, NEW q \in Players,
                      NEW o \in DOMAIN label[p], NEW r \in DOMAIN label[q]
               PROVE  label[p][o] = label[q][r] <=> o = r
    BY DEF SharesMeet
  <2>1. PICK x \in Begun : /\ x[2] = o[1]
                           /\ label[p][o] = Append(x[1], Count(o[1], o[2]))
                           /\ Code[o[1]][o[2]].do = "exchange"
    BY DEF IInv, LabelInv
  <2>2. PICK y \in Begun : /\ y[2] = r[1]
                           /\ label[q][r] = Append(y[1], Count(r[1], r[2]))
                           /\ Code[r[1]][r[2]].do = "exchange"
    BY DEF IInv, LabelInv
  <2>3. o \in Operations /\ r \in Operations
    BY DEF IInv, TypeOK
  <2>4. /\ o = <<o[1], o[2]>> /\ o[1] \in Bodies /\ o[2] \in DOMAIN Code[o[1]]
        /\ r = <<r[1], r[2]>> /\ r[1] \in Bodies /\ r[2] \in DOMAIN Code[r[1]]
    BY <2>3 DEF Operations
  <2>5. x[1] \in Label /\ y[1] \in Label /\ (x[1] = y[1] <=> o[1] = r[1])
    BY <2>1, <2>2, BegunType, BegunOnce
  <2>6. o[2] \in Nat /\ r[2] \in Nat
    BY <2>4, CodeSeq
  <2> DEFINE m == Count(o[1], o[2])
             n == Count(r[1], r[2])
             s == x[1]
             t == y[1]
  <2>7. m \in Nat /\ n \in Nat
    BY <2>4, CalledLabel, <2>5
  <2>8. label[p][o] = label[q][r] <=> s = t /\ m = n
    <3>1. label[p][o] = Append(s, m) /\ label[q][r] = Append(t, n) /\ s \in Label /\ t \in Label
      BY <2>1, <2>2, <2>5
    <3> HIDE DEF s, t, m, n
    <3> QED  BY <2>7, <3>1, LabelsEqual
  <2>9. o[1] = r[1] /\ m = n => o[2] = r[2]
    BY <2>1, <2>2, <2>4, CountInjective
  <2> HIDE DEF m, n
  <2>10. o = r => m = n
    BY DEF m, n
  <2> QED  BY <2>4, <2>5, <2>8, <2>9, <2>10
<1> QED  BY <1>1, Inductive, PTL

\* Whenever a player waits for data, its program counter is back where the main
\* body left it, however deep the callbacks before were nested.
THEOREM PCRestoredHolds == Spec => []PCRestored
<1>1. IInv => PCRestored
  <2> SUFFICES ASSUME IInv, NEW p \in Players, agenda[p] = <<>>
               PROVE  program_counter[p] = <<ComputationId, Increments(Main)>>
    BY DEF PCRestored
  <2>1. Resumes(agenda[p], program_counter[p])
    BY DEF IInv, AgendaInv
  <2>2. ~ \E j \in 1..Len(agenda[p]) : TRUE
    OBVIOUS
  <2> QED  BY <2>1, <2>2 DEF Resumes
<1> QED  BY <1>1, Inductive, PTL
===============================================================================
