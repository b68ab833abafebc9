-------------------------- MODULE ViffReactor_proofs --------------------------
(***************************************************************************)
(* Proofs about ViffReactor, for every set of Deferreds, every depth limit *)
(* and however often callbacks call activate_reactor.                      *)
(***************************************************************************)
EXTENDS ViffReactor, FiniteSetTheorems, TLAPS

\* The first iteration was begun by the main loop, only that one gets to the
\* complex queue, and the functions called from there are next to it.
Shape(s) ==
    /\ s # <<>> => s[Len(s)].in \in Iterations
    /\ \A i \in 1..Len(s) : s[i].in = "complex_queue" => i = Len(s)
    /\ \A i \in 1..Len(s) : s[i].in = "complex" => i = Len(s) - 1

IterationsIn(s) == {i \in 1..Len(s) : s[i].in \in Iterations}

\* depth_counter is the number of iterations inside another.
DepthInv ==
    /\ depth_counter < DepthLimit
    /\ stack = <<>> => depth_counter = 0
    /\ stack # <<>> => Cardinality(IterationsIn(stack)) = depth_counter + 1

\* The innermost iteration is in the loop over the complex queue.
InComplexLoop(s) ==
    \E i \in 1..Len(s) :
        /\ s[i].in = "complex_queue"
        /\ \A j \in 1..Len(s) : j < i => s[j].in \notin Iterations

\* When the loop over the complex queue goes on, the iterations inside have left
\* nothing in the deferred_queue, except what its functions sent themselves.
QueueInv ==
    /\ NothingStranded
    /\ InComplexLoop(stack) =>
          \A i \in 1..Len(deferred_queue) : deferred_queue[i] \in late

IInv == TypeOK /\ Shape(stack) /\ DepthInv /\ QueueInv

------------------------------------------------------------------------------
\* What the operations do to a stack s.

\* A frame is put on it.
LEMMA Pushed ==
    ASSUME NEW s \in Seq(Frame), NEW f \in Frame
    PROVE  LET t == <<f>> \o s IN
           /\ t \in Seq(Frame)
           /\ t # <<>>
           /\ Len(s) \in Nat
           /\ Len(t) = Len(s) + 1
           /\ t[1] = f
           /\ \A i \in 1..Len(s) : t[i + 1] = s[i]
           /\ \A i \in 1..Len(t) : i > 1 => i - 1 \in 1..Len(s) /\ t[i] = s[i - 1]
<1> DEFINE t == <<f>> \o s
<1>1. /\ t \in Seq(Frame) /\ Len(s) \in Nat /\ Len(t) = Len(s) + 1 /\ t[1] = f
      /\ \A i \in 1..Len(s) : t[i + 1] = s[i]
  OBVIOUS
<1> HIDE DEF t
<1>2. \A i \in 1..Len(t) : i > 1 => i - 1 \in 1..Len(s) /\ t[i] = s[i - 1]
  <2> SUFFICES ASSUME NEW i \in 1..Len(t), i > 1
               PROVE  i - 1 \in 1..Len(s) /\ t[i] = s[i - 1]
    OBVIOUS
  <2>1. i - 1 \in 1..Len(s) /\ (i - 1) + 1 = i
    BY <1>1
  <2> QED  BY <2>1, <1>1
<1>3. t # <<>>
  BY <1>1
<1> QED  BY <1>1, <1>2, <1>3 DEF t

\* The top frame is taken off it: it is what it was before that was put there.
LEMMA Popped ==
    ASSUME NEW s \in Seq(Frame), s # <<>>
    PROVE  /\ Head(s) \in Frame
           /\ Head(s) = s[1]
           /\ Tail(s) \in Seq(Frame)
           /\ Len(s) \in Nat
           /\ Len(s) > 0
           /\ Len(Tail(s)) = Len(s) - 1
           /\ s = <<Head(s)>> \o Tail(s)
<1>1. /\ Head(s) \in Frame /\ Head(s) = s[1] /\ Tail(s) \in Seq(Frame)
      /\ Len(s) \in Nat /\ Len(s) > 0 /\ Len(Tail(s)) = Len(s) - 1
      /\ \A i \in 1..Len(Tail(s)) : Tail(s)[i] = s[i + 1]
  OBVIOUS
<1> DEFINE r == Tail(s)
           t == <<Head(s)>> \o r
<1>2. /\ t \in Seq(Frame) /\ Len(t) = Len(s) /\ t[1] = s[1]
      /\ \A i \in 1..Len(t) : i > 1 => i - 1 \in 1..Len(r) /\ t[i] = r[i - 1]
  BY <1>1, Pushed
<1>3. \A i \in 1..Len(s) : t[i] = s[i]
  <2> SUFFICES ASSUME NEW i \in 1..Len(s)
               PROVE  t[i] = s[i]
    OBVIOUS
  <2>1. CASE i = 1
    BY <2>1, <1>2
  <2>2. CASE i # 1
    <3>1. i - 1 \in 1..Len(r) /\ t[i] = r[i - 1]
      BY <2>2, <1>2
    <3> QED  BY <3>1, <1>1
  <2> QED  BY <2>1, <2>2
<1>4. s = t
  BY <1>1, <1>2, <1>3
<1> QED  BY <1>1, <1>4

\* It has one iteration more when the frame put on it is one.
LEMMA CountPushed ==
    ASSUME NEW s \in Seq(Frame), NEW f \in Frame
    PROVE  /\ IsFiniteSet(IterationsIn(s))
           /\ Cardinality(IterationsIn(s)) \in Nat
           /\ Cardinality(IterationsIn(<<f>> \o s)) =
                 IF f.in \in Iterations THEN Cardinality(IterationsIn(s)) + 1
                 ELSE Cardinality(IterationsIn(s))
<1> DEFINE t == <<f>> \o s
           I == IterationsIn(s)
           J == {i + 1 : i \in I}
           shift == [i \in I |-> i + 1]
<1>1. /\ Len(s) \in Nat /\ Len(t) = Len(s) + 1 /\ t[1] = f
      /\ \A i \in 1..Len(s) : t[i + 1] = s[i]
      /\ \A i \in 1..Len(t) : i > 1 => i - 1 \in 1..Len(s) /\ t[i] = s[i - 1]
  BY Pushed
<1> HIDE DEF t
<1>2. I \subseteq 1..Len(s)
  BY DEF IterationsIn
<1>3. IsFiniteSet(I) /\ Cardinality(I) \in Nat
  <2>1. IsFiniteSet(1..Len(s))
    BY <1>1, FS_Interval
  <2> QED  BY <2>1, <1>2, FS_Subset, FS_CardinalityType
<1>4. IsFiniteSet(J) /\ Cardinality(J) = Cardinality(I)
  <2>1. shift \in Bijection(I, J)
    <3>1. \A i \in I : i \in Nat /\ shift[i] = i + 1
      BY <1>1, <1>2
    <3>2. shift \in [I -> J]
      OBVIOUS
    <3>3. \A a, b \in I : shift[a] = shift[b] => a = b
      BY <3>1
    <3>4. \A j \in J : \E i \in I : shift[i] = j
      BY <3>1
    <3> QED  BY <3>2, <3>3, <3>4 DEF Bijection, Injection, Surjection, IsInjective
  <2>2. ExistsBijection(I, J)
    BY <2>1 DEF ExistsBijection
  <2> QED  BY <2>2, <1>3, FS_Bijection
<1>5. IterationsIn(t) = IF f.in \in Iterations THEN J \cup {1} ELSE J
  <2>1. \A i \in 1..Len(t) : i > 1 => (i \in IterationsIn(t) <=> i \in J)
    <3> SUFFICES ASSUME NEW i \in 1..Len(t), i > 1
                 PROVE  i \in IterationsIn(t) <=> i \in J
      OBVIOUS
    <3>1. i - 1 \in 1..Len(s) /\ t[i] = s[i - 1]
      BY <1>1
    <3>2. i \in J <=> i - 1 \in I
      BY <1>1, <1>2
    <3> QED  BY <3>1, <3>2 DEF IterationsIn
  <2>2. J \subseteq 2..Len(t)
    BY <1>1, <1>2
  <2>3. 1 \in IterationsIn(t) <=> f.in \in Iterations
    BY <1>1 DEF IterationsIn
  <2>4. IterationsIn(t) \subseteq 1..Len(t)
    BY DEF IterationsIn
  <2>5. \A i \in 1..Len(t) : i > 1 \/ i = 1
    BY <1>1
  <2>6. 1 \notin J /\ J \subseteq 1..Len(t) /\ \A i \in J : i > 1
    BY <1>1, <2>2
  <2> QED  BY <2>1, <2>3, <2>4, <2>5, <2>6
<1>6. 1 \notin J
  BY <1>1, <1>2
<1>7. IsFiniteSet(J \cup {1}) /\ Cardinality(J \cup {1}) = Cardinality(J) + 1
  BY <1>4, <1>6, FS_AddElement
<1>8. Cardinality(IterationsIn(t)) =
         IF f.in \in Iterations THEN Cardinality(I) + 1 ELSE Cardinality(I)
  BY <1>4, <1>5, <1>7
<1> QED  BY <1>3, <1>8 DEF t

\* What its shape says of the frame on top and of the rest.
LEMMA ShapePushed ==
    ASSUME NEW s \in Seq(Frame), NEW f \in Frame
    PROVE  Shape(<<f>> \o s) <=>
              /\ Shape(s)
              /\ s = <<>> => f.in \in Iterations
              /\ f.in = "complex_queue" => s = <<>>
              /\ f.in = "complex" => Len(s) = 1
<1> DEFINE t == <<f>> \o s
           Rest == /\ Shape(s)
                   /\ s = <<>> => f.in \in Iterations
                   /\ f.in = "complex_queue" => s = <<>>
                   /\ f.in = "complex" => Len(s) = 1
<1>1. /\ Len(s) \in Nat /\ Len(t) = Len(s) + 1 /\ t[1] = f /\ t # <<>>
      /\ \A i \in 1..Len(s) : t[i + 1] = s[i]
      /\ \A i \in 1..Len(t) : i > 1 => i - 1 \in 1..Len(s) /\ t[i] = s[i - 1]
  BY Pushed
<1>2. s = <<>> <=> Len(s) = 0
  OBVIOUS
<1>3. s # <<>> => t[Len(t)] = s[Len(s)] /\ Len(s) \in 1..Len(s)
  <2> SUFFICES ASSUME s # <<>>
               PROVE  t[Len(t)] = s[Len(s)] /\ Len(s) \in 1..Len(s)
    OBVIOUS
  <2>1. Len(s) \in 1..Len(s)
    BY <1>1, <1>2
  <2> QED  BY <2>1, <1>1
<1> HIDE DEF t
<1>4. ASSUME Shape(t) PROVE Rest
  <2>1. ASSUME NEW i \in 1..Len(s)
        PROVE  /\ s[i].in = "complex_queue" => i = Len(s)
               /\ s[i].in = "complex" => i = Len(s) - 1
    <3>1. i + 1 \in 1..Len(t) /\ t[i + 1] = s[i]
      BY <1>1
    <3> QED  BY <3>1, <1>1, <1>4 DEF Shape
  <2>2. 1 \in 1..Len(t)
    BY <1>1
  <2>3. s = <<>> => f.in \in Iterations
    BY <1>1, <1>2, <1>4 DEF Shape
  <2>4. f.in = "complex_queue" => s = <<>>
    BY <1>1, <1>2, <1>4, <2>2 DEF Shape
  <2>5. f.in = "complex" => Len(s) = 1
    <3>1. t[1].in = "complex" => 1 = Len(t) - 1
      BY <1>4, <2>2 DEF Shape
    <3> QED  BY <3>1, <1>1
  <2>6. s # <<>> => s[Len(s)].in \in Iterations
    BY <1>1, <1>3, <1>4 DEF Shape
  <2> QED  BY <2>1, <2>3, <2>4, <2>5, <2>6 DEF Shape
<1>5. ASSUME Rest PROVE Shape(t)
  <2>1. ASSUME NEW i \in 1..Len(t)
        PROVE  /\ t[i].in = "complex_queue" => i = Len(t)
               /\ t[i].in = "complex" => i = Len(t) - 1
    <3>1. CASE i = 1
      BY <3>1, <1>1, <1>2, <1>5
    <3>2. CASE i # 1
      <4>1. i - 1 \in 1..Len(s) /\ t[i] = s[i - 1]
        BY <3>2, <1>1
      <4> QED  BY <4>1, <1>1, <1>5 DEF Shape
    <3> QED  BY <3>1, <3>2
  <2>2. t[Len(t)].in \in Iterations
    <3>1. CASE s = <<>>
      BY <3>1, <1>1, <1>2, <1>5
    <3>2. CASE s # <<>>
      BY <3>2, <1>3, <1>5 DEF Shape
    <3> QED  BY <3>1, <3>2
  <2> QED  BY <2>1, <2>2 DEF Shape
<1> QED  BY <1>4, <1>5 DEF t

\* A function that is called does not change the loop, an iteration does.
LEMMA LoopPushed ==
    ASSUME NEW s \in Seq(Frame), NEW f \in Frame
    PROVE  InComplexLoop(<<f>> \o s) <=>
              IF f.in \in Iterations THEN f.in = "complex_queue"
              ELSE InComplexLoop(s)
<1> DEFINE t == <<f>> \o s
<1>1. /\ Len(s) \in Nat /\ Len(t) = Len(s) + 1 /\ t[1] = f
      /\ \A i \in 1..Len(s) : t[i + 1] = s[i]
      /\ \A i \in 1..Len(t) : i > 1 => i - 1 \in 1..Len(s) /\ t[i] = s[i - 1]
  BY Pushed
<1> HIDE DEF t
<1>2. 1 \in 1..Len(t)
  BY <1>1
<1>3. CASE f.in \in Iterations
  <2>1. ASSUME InComplexLoop(t) PROVE f.in = "complex_queue"
    <3>1. PICK i \in 1..Len(t) :
             /\ t[i].in = "complex_queue"
             /\ \A j \in 1..Len(t) : j < i => t[j].in \notin Iterations
      BY <2>1 DEF InComplexLoop
    <3>2. i = 1
      BY <3>1, <1>1, <1>2, <1>3
    <3> QED  BY <3>1, <3>2, <1>1
  <2>2. ASSUME f.in = "complex_queue" PROVE InComplexLoop(t)
    <3>1. \A j \in 1..Len(t) : ~(j < 1)
      BY <1>1
    <3> QED  BY <2>2, <3>1, <1>1, <1>2 DEF InComplexLoop
  <2> QED  BY <1>3, <2>1, <2>2 DEF t
<1>4. CASE f.in \notin Iterations
  <2>1. ASSUME InComplexLoop(t) PROVE InComplexLoop(s)
    <3>1. PICK i \in 1..Len(t) :
             /\ t[i].in = "complex_queue"
             /\ \A j \in 1..Len(t) : j < i => t[j].in \notin Iterations
      BY <2>1 DEF InComplexLoop
    <3>2. i > 1
      BY <3>1, <1>1, <1>4 DEF Iterations
    <3>3. i - 1 \in 1..Len(s) /\ t[i] = s[i - 1]
      BY <3>2, <1>1
    <3>4. ASSUME NEW j \in 1..Len(s), j < i - 1
          PROVE  s[j].in \notin Iterations
      <4>1. j + 1 \in 1..Len(t) /\ j + 1 < i /\ t[j + 1] = s[j]
        BY <3>4, <1>1
      <4> QED  BY <4>1, <3>1
    <3> QED  BY <3>1, <3>3, <3>4 DEF InComplexLoop
  <2>2. ASSUME InComplexLoop(s) PROVE InComplexLoop(t)
    <3>1. PICK i \in 1..Len(s) :
             /\ s[i].in = "complex_queue"
             /\ \A j \in 1..Len(s) : j < i => s[j].in \notin Iterations
      BY <2>2 DEF InComplexLoop
    <3>2. i + 1 \in 1..Len(t) /\ t[i + 1] = s[i]
      BY <1>1
    <3>3. ASSUME NEW j \in 1..Len(t), j < i + 1
          PROVE  t[j].in \notin Iterations
      <4>1. CASE j = 1
        BY <4>1, <1>1, <1>4
      <4>2. CASE j # 1
        <5>1. j - 1 \in 1..Len(s) /\ t[j] = s[j - 1] /\ j - 1 < i
          BY <4>2, <3>3, <1>1
        <5> QED  BY <5>1, <3>1
      <4> QED  BY <4>1, <4>2
    <3> QED  BY <3>1, <3>2, <3>3 DEF InComplexLoop
  <2> QED  BY <1>4, <2>1, <2>2 DEF t
<1> QED  BY <1>3, <1>4

LEMMA EmptyStack == Shape(<<>>) /\ ~InComplexLoop(<<>>) /\ IterationsIn(<<>>) = {}
  BY DEF Shape, InComplexLoop, IterationsIn

------------------------------------------------------------------------------
\* What the operations do to the stack of the player.

StackOK == stack \in Seq(Frame) /\ Shape(stack) /\ DepthInv

\* A function is called.
LEMMA FunctionCalled ==
    ASSUME StackOK, stack # <<>>, NEW kind \in {"simple", "complex"},
           kind = "complex" => Len(stack) = 1,
           stack' = <<Function(kind)>> \o stack,
           UNCHANGED depth_counter
    PROVE  /\ StackOK'
           /\ stack' # <<>>
           /\ InComplexLoop(stack)' <=> InComplexLoop(stack)
<1> DEFINE f == Function(kind)
<1>1. f \in Frame /\ f.in = kind /\ f.in \notin Iterations
  BY ReactorAssumption DEF Function, Frame, Iterations
<1> HIDE DEF f
<1>2. stack \in Seq(Frame) /\ stack' = <<f>> \o stack
  BY DEF StackOK, f
<1>3. stack' \in Seq(Frame) /\ stack' # <<>>
  BY <1>1, <1>2, Pushed
<1>4. Shape(<<f>> \o stack)
  BY <1>1, <1>2, ShapePushed DEF StackOK
<1>5. Cardinality(IterationsIn(<<f>> \o stack)) = Cardinality(IterationsIn(stack))
  BY <1>1, <1>2, CountPushed
<1>6. InComplexLoop(<<f>> \o stack) <=> InComplexLoop(stack)
  BY <1>1, <1>2, LoopPushed
<1>7. DepthInv'
  BY <1>2, <1>3, <1>5 DEF DepthInv, StackOK
<1>8. Shape(stack)'
  BY <1>2, <1>4
<1>9. InComplexLoop(stack)' <=> InComplexLoop(stack)
  BY <1>2, <1>6
<1> QED  BY <1>3, <1>7, <1>8, <1>9 DEF StackOK

\* The frame on top is replaced by one of its kind.
LEMMA TopReplaced ==
    ASSUME StackOK, stack # <<>>, NEW g \in Frame,
           g.in \in Iterations <=> Head(stack).in \in Iterations,
           g.in = "complex_queue" => Tail(stack) = <<>>,
           g.in = "complex" => Head(stack).in = "complex"
    PROVE  LET s == <<g>> \o Tail(stack) IN
           /\ s \in Seq(Frame)
           /\ s # <<>>
           /\ Shape(s)
           /\ Cardinality(IterationsIn(s)) = Cardinality(IterationsIn(stack))
           /\ InComplexLoop(s) <=> IF g.in \in Iterations THEN g.in = "complex_queue"
                                   ELSE InComplexLoop(stack)
<1> DEFINE h == Head(stack)
           r == Tail(stack)
           s == <<g>> \o r
<1>1. stack \in Seq(Frame) /\ h \in Frame /\ r \in Seq(Frame) /\ stack = <<h>> \o r
  BY Popped DEF StackOK
<1> HIDE DEF h, r
<1>2. Shape(r) /\ (r = <<>> => h.in \in Iterations) /\ (h.in = "complex" => Len(r) = 1)
  <2>1. Shape(<<h>> \o r)
    BY <1>1 DEF StackOK
  <2> QED  BY <1>1, <2>1, ShapePushed
<1>3. s \in Seq(Frame) /\ s # <<>>
  BY <1>1, Pushed
<1>4. Shape(s)
  <2>1. r = <<>> => g.in \in Iterations
    BY <1>2 DEF h
  <2>2. g.in = "complex_queue" => r = <<>>
    BY DEF r
  <2>3. g.in = "complex" => Len(r) = 1
    BY <1>2 DEF h
  <2> QED  BY <1>1, <1>2, <2>1, <2>2, <2>3, ShapePushed
<1>5. Cardinality(IterationsIn(s)) = Cardinality(IterationsIn(stack))
  <2>1. /\ Cardinality(IterationsIn(s)) =
              IF g.in \in Iterations THEN Cardinality(IterationsIn(r)) + 1
              ELSE Cardinality(IterationsIn(r))
        /\ Cardinality(IterationsIn(<<h>> \o r)) =
              IF h.in \in Iterations THEN Cardinality(IterationsIn(r)) + 1
              ELSE Cardinality(IterationsIn(r))
    BY <1>1, CountPushed
  <2>2. g.in \in Iterations <=> h.in \in Iterations
    BY DEF h
  <2> QED  BY <1>1, <2>1, <2>2
<1>6. InComplexLoop(s) <=> IF g.in \in Iterations THEN g.in = "complex_queue"
                           ELSE InComplexLoop(stack)
  <2>1. InComplexLoop(s) <=> IF g.in \in Iterations THEN g.in = "complex_queue"
                             ELSE InComplexLoop(r)
    BY <1>1, LoopPushed
  <2>2. InComplexLoop(<<h>> \o r) <=> IF h.in \in Iterations THEN h.in = "complex_queue"
                                      ELSE InComplexLoop(r)
    BY <1>1, LoopPushed
  <2>3. g.in \in Iterations <=> h.in \in Iterations
    BY DEF h
  <2> QED  BY <1>1, <2>1, <2>2, <2>3
<1> QED  BY <1>3, <1>4, <1>5, <1>6 DEF r

\* A function returns, to another function or to a loop.
LEMMA FunctionReturned ==
    ASSUME StackOK, InFunction, stack' = Tail(stack), UNCHANGED depth_counter
    PROVE  /\ StackOK'
           /\ stack' # <<>>
           /\ InComplexLoop(stack)' <=> InComplexLoop(stack)
<1> DEFINE h == Head(stack)
           r == Tail(stack)
<1>1. stack \in Seq(Frame) /\ h \in Frame /\ r \in Seq(Frame) /\ stack = <<h>> \o r
      /\ stack # <<>>
  BY Popped DEF StackOK, InFunction, In
<1>2. h.in \notin Iterations
  BY DEF InFunction, In, Iterations
<1> HIDE DEF h
<1>3. Shape(r) /\ r # <<>>
  <2>1. Shape(<<h>> \o r)
    BY <1>1 DEF StackOK
  <2> QED  BY <1>1, <1>2, <2>1, ShapePushed
<1>4. Cardinality(IterationsIn(r)) = Cardinality(IterationsIn(stack))
  BY <1>1, <1>2, CountPushed
<1>5. InComplexLoop(r) <=> InComplexLoop(stack)
  BY <1>1, <1>2, LoopPushed
<1>6. stack' = r
  OBVIOUS
<1> HIDE DEF r
<1>7. DepthInv'
  BY <1>1, <1>3, <1>4, <1>6 DEF DepthInv, StackOK
<1> QED  BY <1>1, <1>3, <1>5, <1>6, <1>7 DEF StackOK

\* An iteration ends: the first one, to the main loop, or one inside another.
LEMMA IterationLeft ==
    ASSUME StackOK, stack # <<>>, Head(stack).in \in Iterations, LeaveIteration,
           depth_counter \in Nat
    PROVE  /\ StackOK'
           /\ depth_counter' \in Nat
           /\ depth_counter = 0 <=> stack' = <<>>
<1> DEFINE h == Head(stack)
           r == Tail(stack)
<1>1. stack \in Seq(Frame) /\ h \in Frame /\ r \in Seq(Frame) /\ stack = <<h>> \o r
      /\ stack' = r
  BY Popped DEF StackOK, LeaveIteration
<1>2. h.in \in Iterations
  OBVIOUS
<1> HIDE DEF h, r
<1>3. Shape(r)
  <2>1. Shape(<<h>> \o r)
    BY <1>1 DEF StackOK
  <2> QED  BY <1>1, <2>1, ShapePushed
<1>4. /\ Cardinality(IterationsIn(stack)) = Cardinality(IterationsIn(r)) + 1
      /\ IsFiniteSet(IterationsIn(r))
      /\ Cardinality(IterationsIn(r)) \in Nat
  BY <1>1, <1>2, CountPushed
<1>5. depth_counter = Cardinality(IterationsIn(r))
  BY <1>4 DEF StackOK, DepthInv
<1>6. depth_counter = 0 <=> r = <<>>
  <2>1. CASE r = <<>>
    BY <2>1, <1>5, EmptyStack, FS_EmptySet
  <2>2. CASE r # <<>>
    <3>1. Len(r) \in Nat /\ Len(r) # 0
      BY <2>2, <1>1
    <3>2. Len(r) \in 1..Len(r) /\ r[Len(r)].in \in Iterations
      BY <2>2, <3>1, <1>3 DEF Shape
    <3>3. IterationsIn(r) # {}
      BY <3>2 DEF IterationsIn
    <3> QED  BY <2>2, <3>3, <1>4, <1>5, FS_EmptySet
  <2> QED  BY <2>1, <2>2
<1>7. CASE r = <<>>
  <2>1. UNCHANGED depth_counter
    BY <1>7 DEF LeaveIteration, r
  <2>2. DepthInv'
    BY <2>1, <1>1, <1>6, <1>7 DEF DepthInv, StackOK
  <2> QED  BY <2>1, <2>2, <1>1, <1>3, <1>6 DEF StackOK
<1>8. CASE r # <<>>
  <2>1. depth_counter' = depth_counter - 1
    BY <1>8 DEF LeaveIteration, r
  <2>2. DepthInv'
    BY <2>1, <1>1, <1>5, <1>8, ReactorAssumption DEF DepthInv, StackOK
  <2> QED  BY <2>1, <2>2, <1>1, <1>3, <1>6, <1>8 DEF StackOK
<1> QED  BY <1>7, <1>8

------------------------------------------------------------------------------
\* The queues.

LEMMA LoopOfFunction ==
    ASSUME stack \in Seq(Frame), InComplexLoop(stack)
    PROVE  Loop = "complex_queue"
<1>1. PICK i \in 1..Len(stack) :
         /\ stack[i].in = "complex_queue"
         /\ \A j \in 1..Len(stack) : j < i => stack[j].in \notin Iterations
  BY DEF InComplexLoop
<1>2. i \in Entered
  BY <1>1 DEF Entered, Iterations
<1>3. \A j \in Entered : i <= j
  <2> SUFFICES ASSUME NEW j \in Entered
               PROVE  i <= j
    OBVIOUS
  <2>1. j \in 1..Len(stack) /\ ~(j < i)
    BY <1>1 DEF Entered
  <2> QED  BY <2>1
<1>4. \A k \in Entered : (\A j \in Entered : k <= j) => k = i
  <2> SUFFICES ASSUME NEW k \in Entered, \A j \in Entered : k <= j
               PROVE  k = i
    OBVIOUS
  <2>1. k <= i /\ i <= k /\ k \in 1..Len(stack)
    BY <1>2, <1>3 DEF Entered
  <2> QED  BY <2>1
<1>5. (CHOOSE k \in Entered : \A j \in Entered : k <= j) = i
  BY <1>2, <1>3, <1>4
<1> QED  BY <1>1, <1>5 DEF Loop

\* Callback(d), called by a function or by the loop over the deferred_queue.
LEMMA CallbackMade ==
    ASSUME TypeOK, StackOK, stack # <<>>, NEW d \in Deferreds, Callback(d),
           UNCHANGED depth_counter
    PROVE  /\ StackOK'
           /\ stack' # <<>>
           /\ InComplexLoop(stack)' <=> InComplexLoop(stack)
           /\ complex_queue' \in Seq(Complex)
           /\ called' \subseteq Deferreds
<1>1. CASE d \in Complex
  <2>1. complex_queue' = Append(complex_queue, d) /\ UNCHANGED <<stack, called>>
    BY <1>1 DEF Callback
  <2>2. StackOK'
    BY <2>1 DEF StackOK, DepthInv
  <2> QED  BY <1>1, <2>1, <2>2 DEF TypeOK
<1>2. CASE d \notin Complex
  <2>1. /\ stack' = <<Function("simple")>> \o stack
        /\ called' = called \cup {d} /\ UNCHANGED complex_queue
    BY <1>2 DEF Callback
  <2>2. StackOK' /\ stack' # <<>> /\ (InComplexLoop(stack)' <=> InComplexLoop(stack))
    BY <2>1, FunctionCalled
  <2> QED  BY <2>1, <2>2 DEF TypeOK
<1> QED  BY <1>1, <1>2

------------------------------------------------------------------------------
\* The invariant is inductive.

LEMMA InitIInv == Init => IInv
<1> SUFFICES ASSUME Init PROVE IInv
  OBVIOUS
<1> DEFINE f == Function("simple")
           h == Iteration("select")
<1>1. f \in Frame /\ h \in Frame /\ f.in = "simple" /\ h.in = "select"
  BY ReactorAssumption DEF Function, Iteration, Frame, Iterations
<1> HIDE DEF f, h
<1>2. stack = <<f>> \o (<<h>> \o <<>>)
  <2> DEFINE s == <<h>> \o <<>>
             u == <<f>> \o s
  <2>1. stack = <<f, h>>
    BY DEF Init, f, h
  <2>2. s \in Seq(Frame) /\ Len(s) = 1 /\ s[1] = h
    BY <1>1
  <2> HIDE DEF s
  <2>3. u \in Seq(Frame) /\ Len(u) = 2 /\ u[1] = f /\ u[2] = h
    <3>1. /\ u \in Seq(Frame) /\ Len(u) = Len(s) + 1 /\ u[1] = f
          /\ \A i \in 1..Len(s) : u[i + 1] = s[i]
      BY <1>1, <2>2, Pushed
    <3> HIDE DEF u
    <3>2. u[1 + 1] = s[1]
      BY <2>2, <3>1
    <3> QED  BY <2>2, <3>1, <3>2
  <2> HIDE DEF u
  <2>4. u = <<f, h>>
    BY <2>3
  <2> QED  BY <2>1, <2>4 DEF u, s
<1> DEFINE none == <<>>
           one == <<h>> \o none
<1>3. none \in Seq(Frame) /\ one \in Seq(Frame) /\ one # <<>>
  BY <1>1, Pushed
<1>4. Shape(none) /\ ~InComplexLoop(none) /\ Cardinality(IterationsIn(none)) = 0
  BY EmptyStack, FS_EmptySet
<1> HIDE DEF none
<1>5. Shape(one) /\ ~InComplexLoop(one) /\ Cardinality(IterationsIn(one)) = 1
  <2>1. h.in \in Iterations
    BY <1>1 DEF Iterations
  <2> QED  BY <1>1, <1>3, <1>4, <2>1, ShapePushed, LoopPushed, CountPushed
<1> HIDE DEF one
<1>6. stack = <<f>> \o one
  BY <1>2 DEF one, none
<1>7. stack \in Seq(Frame) /\ stack # <<>>
  BY <1>1, <1>3, <1>6, Pushed
<1>8. Shape(stack) /\ ~InComplexLoop(stack) /\ Cardinality(IterationsIn(stack)) = 1
  <2>1. f.in \notin Iterations
    BY <1>1 DEF Iterations
  <2> QED  BY <1>1, <1>3, <1>5, <1>6, <2>1, ShapePushed, LoopPushed, CountPushed
<1>9. TypeOK
  BY <1>7 DEF Init, TypeOK
<1>10. DepthInv
  BY <1>7, <1>8, ReactorAssumption DEF Init, DepthInv
<1>11. QueueInv
  BY <1>7, <1>8 DEF Init, QueueInv, NothingStranded
<1> QED  BY <1>8, <1>9, <1>10, <1>11 DEF IInv

\* A step that leaves the deferred_queue alone, does not empty the stack and does
\* not return to the loop over the complex queue.
LEMMA SameQueue ==
    ASSUME TypeOK, QueueInv, UNCHANGED <<deferred_queue, late>>, stack' # <<>>,
           InComplexLoop(stack)' => InComplexLoop(stack)
    PROVE  QueueInv'
  BY DEF QueueInv, NothingStranded

LEMMA NextIInv == IInv /\ [Next]_vars => IInv'
<1> SUFFICES ASSUME IInv, [Next]_vars PROVE IInv'
  OBVIOUS
<1> USE DEF IInv
<1>1. StackOK
  BY DEF StackOK, TypeOK
<1>2. ASSUME StackOK', TypeOK', QueueInv' PROVE IInv'
  BY <1>2 DEF StackOK
<1>3. \A f : stack # <<>> /\ f = Head(stack) =>
         f \in Frame /\ Tail(stack) \in Seq(Frame) /\ stack = <<f>> \o Tail(stack)
  BY Popped DEF TypeOK
<1>4. CASE MainLoop
  <2> DEFINE h == Iteration("select")
             none == <<>>
  <2>1. h \in Frame /\ h.in = "select" /\ h.in \in Iterations
    BY ReactorAssumption DEF Iteration, Frame, Iterations
  <2>2. stack' = <<h>> /\ stack = none
    BY <1>4 DEF MainLoop
  <2>3. <<h>> = <<h>> \o none
    BY <2>1
  <2>4. none \in Seq(Frame)
    OBVIOUS
  <2>5. Shape(none) /\ Cardinality(IterationsIn(none)) = 0
    BY EmptyStack, FS_EmptySet
  <2> HIDE DEF h, none
  <2>6. Shape(<<h>>) /\ ~InComplexLoop(<<h>>) /\ Cardinality(IterationsIn(<<h>>)) = 1
    <3>1. none = <<>> /\ h.in # "complex_queue" /\ h.in # "complex"
      BY <2>1 DEF none
    <3>2. Shape(<<h>> \o none)
      BY <2>1, <2>4, <2>5, <3>1, ShapePushed
    <3>3. ~InComplexLoop(<<h>> \o none)
      BY <2>1, <2>4, <3>1, LoopPushed
    <3>4. Cardinality(IterationsIn(<<h>> \o none)) = 1
      BY <2>1, <2>4, <2>5, CountPushed
    <3>5. <<h>> \o none = <<h>>
      BY <2>3
    <3> QED  BY <3>2, <3>3, <3>4, <3>5
  <2>7. stack' \in Seq(Frame) /\ stack' # <<>>
    BY <2>1, <2>2, <2>3, <2>4, Pushed
  <2>8. DepthInv'
    <3>1. depth_counter' = 0
      BY <1>4 DEF MainLoop, DepthInv
    <3> QED  BY <3>1, <2>2, <2>6, <2>7, ReactorAssumption DEF DepthInv
  <2>9. StackOK'
    BY <2>2, <2>6, <2>7, <2>8 DEF StackOK
  <2>10. TypeOK'
    BY <2>7, <1>4 DEF MainLoop, TypeOK
  <2>11. QueueInv'
    BY <2>2, <2>6, <2>7 DEF QueueInv, NothingStranded
  <2> QED  BY <1>2, <2>9, <2>10, <2>11
<1>5. ASSUME NEW d \in Deferreds, Receive(d) PROVE IInv'
  <2>1. UNCHANGED <<stack, depth_counter>> /\ deferred_queue' = Append(deferred_queue, d)
    BY <1>5 DEF Receive
  <2>2. stack # <<>> /\ Head(stack).in = "select"
    BY <1>5 DEF Receive, In
  <2>3. ~InComplexLoop(stack)
    <3> DEFINE h == Head(stack)
               r == Tail(stack)
    <3>1. h \in Frame /\ r \in Seq(Frame) /\ stack = <<h>> \o r
      BY <1>3, <2>2
    <3>2. h.in \in Iterations /\ h.in # "complex_queue"
      BY <2>2 DEF Iterations
    <3> HIDE DEF h, r
    <3> QED  BY <3>1, <3>2, LoopPushed
  <2>4. StackOK'
    BY <1>1, <2>1 DEF StackOK, DepthInv
  <2>5. TypeOK'
    BY <1>5, <2>1 DEF Receive, TypeOK
  <2>6. QueueInv'
    BY <2>1, <2>2, <2>3 DEF QueueInv, NothingStranded
  <2> QED  BY <1>2, <2>4, <2>5, <2>6
<1>6. ASSUME NEW phase \in Iterations, Phase(phase), UNCHANGED depth_counter,
             stack # <<>>, Head(stack).in \in Iterations,
             phase = "complex_queue" => Tail(stack) = <<>>
      PROVE  /\ StackOK' /\ stack' # <<>>
             /\ InComplexLoop(stack)' <=> phase = "complex_queue"
  <2> DEFINE g == Iteration(phase)
             s == <<g>> \o Tail(stack)
  <2>1. g \in Frame /\ g.in = phase
    BY ReactorAssumption DEF Iteration, Frame
  <2>2. stack' = s
    BY <1>6 DEF Phase
  <2> HIDE DEF g
  <2>3. phase # "complex"
    BY DEF Iterations
  <2>4. /\ s \in Seq(Frame) /\ s # <<>> /\ Shape(s)
        /\ Cardinality(IterationsIn(s)) = Cardinality(IterationsIn(stack))
        /\ InComplexLoop(s) <=> phase = "complex_queue"
    BY <1>1, <1>6, <2>1, <2>3, TopReplaced
  <2> HIDE DEF s
  <2>5. DepthInv'
    BY <1>6, <2>2, <2>4 DEF DepthInv
  <2> QED  BY <2>2, <2>4, <2>5 DEF StackOK
<1>7. CASE LoopCall
  <2>1. /\ stack # <<>> /\ Head(stack).in = "select"
        /\ Phase("deferred_queue") /\ UNCHANGED <<depth_counter, deferred_queue, late>>
    BY <1>7 DEF LoopCall, In
  <2>2. StackOK' /\ stack' # <<>> /\ ~InComplexLoop(stack)'
    BY <2>1, <1>6 DEF Iterations
  <2>3. TypeOK'
    BY <1>7, <2>2 DEF LoopCall, TypeOK, StackOK
  <2>4. QueueInv'
    BY <2>1, <2>2, SameQueue
  <2> QED  BY <1>2, <2>2, <2>3, <2>4
<1>8. CASE ProcessDeferredQueue
  <2> DEFINE d == Head(deferred_queue)
  <2>1. /\ deferred_queue # <<>> /\ deferred_queue' = Tail(deferred_queue)
        /\ Callback(d) /\ stack # <<>> /\ Head(stack).in = "deferred_queue"
        /\ UNCHANGED <<activation_counter, depth_counter, unreceived, late>>
    BY <1>8 DEF ProcessDeferredQueue, In
  <2>2. /\ d \in Deferreds /\ deferred_queue' \in Seq(Deferreds)
        /\ Len(deferred_queue) \in Nat /\ Len(deferred_queue') = Len(deferred_queue) - 1
        /\ \A i \in 1..Len(deferred_queue') : deferred_queue'[i] = deferred_queue[i + 1]
    BY <2>1 DEF TypeOK
  <2> HIDE DEF d
  <2>3. /\ StackOK' /\ stack' # <<>> /\ (InComplexLoop(stack)' <=> InComplexLoop(stack))
        /\ complex_queue' \in Seq(Complex) /\ called' \subseteq Deferreds
    BY <1>1, <2>1, <2>2, CallbackMade
  <2>4. TypeOK'
    BY <2>1, <2>2, <2>3 DEF TypeOK, StackOK
  <2>5. QueueInv'
    <3>1. \A i \in 1..Len(deferred_queue') : i + 1 \in 1..Len(deferred_queue)
      BY <2>2
    <3> QED  BY <3>1, <2>1, <2>2, <2>3 DEF QueueInv, NothingStranded
  <2> QED  BY <1>2, <2>3, <2>4, <2>5
<1>9. CASE ProcessComplexQueue
  <2>1. /\ complex_queue # <<>> /\ complex_queue' = Tail(complex_queue)
        /\ called' = called \cup {Head(complex_queue)}
        /\ stack' = <<Function("complex")>> \o stack
        /\ stack # <<>> /\ Head(stack).in = "complex_queue"
        /\ UNCHANGED <<deferred_queue, activation_counter, depth_counter,
                       unreceived, late>>
    BY <1>9 DEF ProcessComplexQueue, In
  <2>2. Len(stack) = 1
    <3>1. Len(stack) \in Nat /\ Len(stack) > 0 /\ stack[1].in = "complex_queue"
      BY <2>1, Popped DEF TypeOK
    <3>2. 1 \in 1..Len(stack)
      BY <3>1
    <3> QED  BY <3>1, <3>2 DEF Shape
  <2>3. StackOK' /\ stack' # <<>> /\ (InComplexLoop(stack)' <=> InComplexLoop(stack))
    BY <1>1, <2>1, <2>2, FunctionCalled
  <2>4. Head(complex_queue) \in Complex /\ complex_queue' \in Seq(Complex)
    BY <2>1 DEF TypeOK
  <2>5. TypeOK'
    BY <2>1, <2>3, <2>4, ReactorAssumption DEF TypeOK, StackOK
  <2>6. QueueInv'
    BY <2>1, <2>3, SameQueue
  <2> QED  BY <1>2, <2>3, <2>5, <2>6
<1>10. CASE QueueIsEmpty
  <2>1. ASSUME stack # <<>>, Head(stack).in \in {"deferred_queue", "complex_queue"},
               LeaveIteration,
               deferred_queue = <<>> \/ (Head(stack).in = "complex_queue"),
               Head(stack).in = "deferred_queue" => depth_counter # 0,
               complex_queue = <<>> \/ (Head(stack).in = "deferred_queue")
        PROVE  IInv'
    <3>1. /\ StackOK' /\ depth_counter' \in Nat
          /\ depth_counter = 0 <=> stack' = <<>>
      BY <1>1, <2>1, IterationLeft DEF TypeOK, Iterations
    <3>2. UNCHANGED <<deferred_queue, complex_queue, unreceived, called, late>>
      BY <1>10 DEF QueueIsEmpty
    <3>3. TypeOK'
      <4>1. activation_counter' \in Nat
        BY <2>1 DEF LeaveIteration, TypeOK
      <4> QED  BY <3>1, <3>2, <4>1 DEF TypeOK, StackOK
    <3>4. CASE Head(stack).in = "deferred_queue"
      <4>1. deferred_queue = <<>> /\ stack' # <<>>
        BY <2>1, <3>1, <3>4
      <4>2. Len(deferred_queue') = 0
        BY <4>1, <3>2
      <4>3. QueueInv'
        BY <4>1, <4>2 DEF QueueInv, NothingStranded
      <4> QED  BY <1>2, <3>1, <3>3, <4>3
    <3>5. CASE Head(stack).in = "complex_queue"
      <4>1. stack' = <<>>
        <5>1. /\ Len(stack) \in Nat /\ Len(stack) > 0 /\ stack[1].in = "complex_queue"
              /\ Len(Tail(stack)) = Len(stack) - 1 /\ Tail(stack) \in Seq(Frame)
          BY <2>1, <3>5, Popped DEF TypeOK
        <5>2. 1 \in 1..Len(stack)
          BY <5>1
        <5>3. Len(stack) = 1
          BY <5>1, <5>2 DEF Shape
        <5> QED  BY <5>1, <5>3, <2>1 DEF LeaveIteration
      <4>2. complex_queue = <<>>
        BY <2>1, <3>5
      <4>3. InComplexLoop(stack)
        <5> DEFINE h == Head(stack)
                   r == Tail(stack)
        <5>1. h \in Frame /\ r \in Seq(Frame) /\ stack = <<h>> \o r
          BY <1>3, <2>1
        <5>2. h.in \in Iterations /\ h.in = "complex_queue"
          BY <3>5 DEF Iterations
        <5> HIDE DEF h, r
        <5> QED  BY <5>1, <5>2, LoopPushed
      <4>4. ~InComplexLoop(stack)'
        BY <4>1, EmptyStack
      <4>5. QueueInv'
        BY <4>2, <4>3, <4>4, <3>2 DEF QueueInv, NothingStranded
      <4> QED  BY <1>2, <3>1, <3>3, <4>5
    <3> QED  BY <2>1, <3>4, <3>5
  <2>2. CASE /\ In({"deferred_queue"}) /\ deferred_queue = <<>> /\ depth_counter = 0
             /\ Phase("complex_queue") /\ UNCHANGED <<activation_counter, depth_counter>>
    <3> DEFINE h == Head(stack)
               r == Tail(stack)
    <3>1. /\ stack # <<>> /\ h.in = "deferred_queue" /\ h \in Frame
          /\ r \in Seq(Frame) /\ stack = <<h>> \o r
      BY <2>2, <1>3 DEF In
    <3>2. r = <<>>
      <4> HIDE DEF h, r
      <4>1. h.in \in Iterations
        BY <3>1 DEF Iterations
      <4>2. /\ Cardinality(IterationsIn(stack)) = Cardinality(IterationsIn(r)) + 1
            /\ IsFiniteSet(IterationsIn(r))
            /\ Cardinality(IterationsIn(r)) \in Nat
        BY <3>1, <4>1, CountPushed
      <4>3. IterationsIn(r) = {}
        BY <2>2, <3>1, <4>2, FS_EmptySet DEF DepthInv
      <4>4. Shape(r)
        <5>1. Shape(<<h>> \o r)
          BY <3>1
        <5> QED  BY <3>1, <5>1, ShapePushed
      <4> SUFFICES ASSUME r # <<>> PROVE FALSE
        OBVIOUS
      <4>5. Len(r) \in Nat /\ Len(r) # 0
        BY <3>1
      <4>6. Len(r) \in 1..Len(r)
        BY <4>5
      <4>7. Len(r) \in IterationsIn(r)
        BY <4>4, <4>6 DEF Shape, IterationsIn
      <4> QED  BY <4>3, <4>7
    <3>3. StackOK' /\ stack' # <<>>
      BY <1>6, <2>2, <3>1, <3>2 DEF Iterations
    <3>4. UNCHANGED <<deferred_queue, complex_queue, unreceived, called, late>>
      BY <1>10 DEF QueueIsEmpty
    <3>5. TypeOK'
      BY <2>2, <3>3, <3>4 DEF TypeOK, StackOK
    <3>6. QueueInv'
      <4>1. Len(deferred_queue') = 0
        BY <2>2, <3>4
      <4> QED  BY <3>3, <4>1 DEF QueueInv, NothingStranded
    <3> QED  BY <1>2, <3>3, <3>5, <3>6
  <2>3. CASE In({"deferred_queue"}) /\ deferred_queue = <<>> /\ depth_counter # 0
             /\ LeaveIteration
    BY <2>1, <2>3 DEF In
  <2>4. CASE In({"complex_queue"}) /\ complex_queue = <<>> /\ LeaveIteration
    BY <2>1, <2>4 DEF In
  <2> QED  BY <1>10, <2>2, <2>3, <2>4 DEF QueueIsEmpty
<1>11. CASE ActivateReactor
  <2> DEFINE h == Head(stack)
             g == [h EXCEPT !.left = @ - 1]
             caller == <<g>> \o Tail(stack)
             select == Iteration("select")
  <2>1. /\ stack # <<>> /\ h.in \in {"simple", "complex"} /\ h.left > 0
        /\ UNCHANGED <<deferred_queue, complex_queue, unreceived, called, late>>
    BY <1>11 DEF ActivateReactor, InFunction, In
  <2>2. h \in Frame
    BY <1>3, <2>1
  <2>3. g \in Frame /\ g.in = h.in
    BY <2>1, <2>2, ReactorAssumption DEF Frame
  <2>4. h.in \notin Iterations /\ h.in # "complex_queue"
    BY <2>1 DEF Iterations
  <2>5. /\ caller \in Seq(Frame) /\ caller # <<>> /\ Shape(caller)
        /\ Cardinality(IterationsIn(caller)) = Cardinality(IterationsIn(stack))
        /\ InComplexLoop(caller) <=> InComplexLoop(stack)
    <3> HIDE DEF g
    <3> QED  BY <1>1, <2>1, <2>3, <2>4, TopReplaced
  <2>6. select \in Frame /\ select.in = "select" /\ select.in \in Iterations
    BY ReactorAssumption DEF Iteration, Frame, Iterations
  <2>7. \/ /\ stack' = caller /\ UNCHANGED depth_counter /\ activation_counter' \in Nat
        \/ /\ stack' = <<select>> \o caller
           /\ depth_counter' = depth_counter + 1 /\ activation_counter' \in Nat
           /\ depth_counter + 1 < DepthLimit
    <3>1. activation_counter + 1 \in Nat /\ 0 \in Nat
      BY DEF TypeOK
    <3>2. \/ /\ activation_counter' = activation_counter + 1
             /\ stack' = caller /\ UNCHANGED depth_counter
          \/ /\ depth_counter + 1 < DepthLimit
             /\ activation_counter' = activation_counter + 1
             /\ depth_counter' = depth_counter + 1
             /\ stack' = <<select>> \o caller
          \/ /\ activation_counter' = 0
             /\ stack' = caller /\ UNCHANGED depth_counter
      BY <1>11, Zenon DEF ActivateReactor
    <3> QED  BY <3>1, <3>2, Zenon
  <2> HIDE DEF h, g, caller, select
  <2>8. CASE stack' = caller /\ UNCHANGED depth_counter /\ activation_counter' \in Nat
    <3>1. DepthInv'
      BY <2>1, <2>5, <2>8 DEF DepthInv
    <3>2. StackOK' /\ stack' # <<>> /\ (InComplexLoop(stack)' <=> InComplexLoop(stack))
      BY <3>1, <2>5, <2>8 DEF StackOK
    <3>3. TypeOK'
      BY <2>1, <2>8, <3>2 DEF TypeOK, StackOK
    <3>4. QueueInv'
      BY <2>1, <3>2, SameQueue
    <3> QED  BY <1>2, <3>2, <3>3, <3>4
  <2>9. CASE /\ stack' = <<select>> \o caller
             /\ depth_counter' = depth_counter + 1 /\ activation_counter' \in Nat
             /\ depth_counter + 1 < DepthLimit
    <3> DEFINE s == <<select>> \o caller
    <3>1. /\ s \in Seq(Frame) /\ s # <<>> /\ Shape(s) /\ ~InComplexLoop(s)
          /\ Cardinality(IterationsIn(s)) = Cardinality(IterationsIn(caller)) + 1
      BY <2>5, <2>6, Pushed, ShapePushed, LoopPushed, CountPushed
    <3> HIDE DEF s
    <3>2. stack' = s
      BY <2>9 DEF s
    <3>3. DepthInv'
      BY <2>1, <2>5, <2>9, <3>1, <3>2 DEF DepthInv, TypeOK
    <3>4. StackOK' /\ stack' # <<>> /\ ~InComplexLoop(stack)'
      BY <3>1, <3>2, <3>3 DEF StackOK
    <3>5. TypeOK'
      BY <2>1, <2>9, <3>4 DEF TypeOK, StackOK
    <3>6. QueueInv'
      BY <2>1, <3>4, SameQueue
    <3> QED  BY <1>2, <3>4, <3>5, <3>6
  <2> QED  BY <2>7, <2>8, <2>9
<1>12. ASSUME NEW d \in Deferreds, SendToSelf(d) PROVE IInv'
  <2>1. /\ UNCHANGED <<stack, depth_counter>> /\ stack # <<>>
        /\ deferred_queue' = Append(deferred_queue, d)
        /\ d \in Local /\ late \subseteq late'
        /\ late' \subseteq late \cup {d}
        /\ Loop = "complex_queue" => d \in late'
    BY <1>12 DEF SendToSelf, InFunction, In
  <2>2. StackOK'
    BY <1>1, <2>1 DEF StackOK, DepthInv
  <2>3. TypeOK'
    BY <1>12, <2>1 DEF SendToSelf, TypeOK
  <2>4. QueueInv'
    <3>1. InComplexLoop(stack) => d \in late'
      BY <2>1, LoopOfFunction DEF TypeOK
    <3>2. /\ Len(deferred_queue) \in Nat
          /\ Len(deferred_queue') = Len(deferred_queue) + 1
          /\ deferred_queue'[Len(deferred_queue) + 1] = d
          /\ \A i \in 1..Len(deferred_queue) : deferred_queue'[i] = deferred_queue[i]
      BY <2>1 DEF TypeOK
    <3>3. ASSUME InComplexLoop(stack), NEW i \in 1..Len(deferred_queue')
          PROVE  deferred_queue'[i] \in late'
      <4>1. CASE i = Len(deferred_queue) + 1
        BY <4>1, <3>1, <3>2, <3>3
      <4>2. CASE i # Len(deferred_queue) + 1
        <5>1. i \in 1..Len(deferred_queue)
          BY <4>2, <3>2
        <5> QED  BY <5>1, <3>2, <3>3, <2>1 DEF QueueInv
      <4> QED  BY <4>1, <4>2
    <3> QED  BY <2>1, <3>3 DEF QueueInv, NothingStranded
  <2> QED  BY <1>2, <2>2, <2>3, <2>4
<1>13. ASSUME NEW d \in Deferreds, ExpectData(d) PROVE IInv'
  <2>1. /\ stack # <<>> /\ Callback(d) /\ unreceived' = unreceived \ {d}
        /\ UNCHANGED <<deferred_queue, activation_counter, depth_counter, late>>
    BY <1>13 DEF ExpectData, InFunction, In
  <2>2. /\ StackOK' /\ stack' # <<>> /\ (InComplexLoop(stack)' <=> InComplexLoop(stack))
        /\ complex_queue' \in Seq(Complex) /\ called' \subseteq Deferreds
    BY <1>1, <2>1, CallbackMade
  <2>3. TypeOK'
    BY <2>1, <2>2 DEF TypeOK, StackOK
  <2>4. QueueInv'
    BY <2>1, <2>2, SameQueue
  <2> QED  BY <1>2, <2>2, <2>3, <2>4
<1>14. CASE Return
  <2>1. InFunction /\ stack' = Tail(stack)
        /\ UNCHANGED <<deferred_queue, complex_queue, activation_counter,
                       depth_counter, unreceived, called, late>>
    BY <1>14 DEF Return
  <2>2. StackOK' /\ stack' # <<>> /\ (InComplexLoop(stack)' <=> InComplexLoop(stack))
    BY <1>1, <2>1, FunctionReturned
  <2>3. TypeOK'
    BY <2>1, <2>2 DEF TypeOK, StackOK
  <2>4. QueueInv'
    BY <2>1, <2>2, SameQueue
  <2> QED  BY <1>2, <2>2, <2>3, <2>4
<1>15. CASE UNCHANGED vars
  BY <1>15 DEF vars, TypeOK, DepthInv, QueueInv, NothingStranded
<1> QED
  BY <1>4, <1>5, <1>7, <1>8, <1>9, <1>10, <1>11, <1>12, <1>13, <1>14, <1>15
     DEF Next, Run

LEMMA Inductive == Spec => []IInv
  BY InitIInv, NextIInv, PTL DEF Spec

------------------------------------------------------------------------------
\* Every variable keeps its type: depth_counter, of which every iteration inside
\* another takes one off, never falls below 0.
THEOREM TypeCorrect == Spec => []TypeOK
<1>1. IInv => TypeOK
  BY DEF IInv
<1> QED  BY <1>1, Inductive, PTL

\* Complex functions are not nested, in each other or in inner iterations,
\* whatever the callbacks do: what the depth_counter = 0 of process_deferred_queue
\* is for.
THEOREM ComplexNotNestedHolds == Spec => []ComplexNotNested
<1>1. IInv => ComplexNotNested
  BY DEF IInv, Shape, ComplexNotNested
<1> QED  BY <1>1, Inductive, PTL

\* activate_reactor nests at most DepthLimit iterations, however many callbacks
\* call it, the counters being set back by those that end.
THEOREM DepthBoundedHolds == Spec => []DepthBounded
<1>1. IInv => DepthBounded
  <2> SUFFICES ASSUME IInv PROVE DepthBounded
    OBVIOUS
  <2>1. Entered = IterationsIn(stack)
    BY DEF Entered, IterationsIn
  <2>2. CASE stack = <<>>
    BY <2>1, <2>2, EmptyStack, FS_EmptySet, ReactorAssumption DEF DepthBounded
  <2>3. CASE stack # <<>>
    BY <2>1, <2>3, ReactorAssumption DEF IInv, TypeOK, DepthInv, DepthBounded
  <2> QED  BY <2>2, <2>3
<1> QED  BY <1>1, Inductive, PTL

\* When the main loop blocks in its select, no callback that could be made is left
\* behind, except for what a function of the complex queue sent to its own player.
THEOREM NothingStrandedHolds == Spec => []NothingStranded
<1>1. IInv => NothingStranded
  BY DEF IInv, QueueInv
<1> QED  BY <1>1, Inductive, PTL
===============================================================================
