------------------------ MODULE BrachaBroadcast_proofs ------------------------
(***************************************************************************)
(* Proofs about BrachaBroadcast, for every number of players, every t      *)
(* below a third of them, every set of at most t faulty players, a sender  *)
(* that is correct or not, any messages, and any nesting of handlers.      *)
(*                                                                         *)
(* A faulty sender cannot split the correct players if two echo quorums    *)
(* always have a correct player in common.  They do if the division in     *)
(* EchoQuorum does not round, or if fewer than t players are faulty.       *)
(***************************************************************************)
EXTENDS BrachaBroadcast, FiniteSetTheorems, TLAPS

QuorumsMeet ==
    \/ (Cardinality(Players) + Threshold) % 2 = 1
    \/ Cardinality(Faulty) < Threshold

CannotSplit == QuorumsMeet \/ Sender \in Correct

Frames(p) == {stack[p][i] : i \in 1..Len(stack[p])}

\* A correct player sends one ECHO, of the sender's message if that is correct.
EchoedInv ==
    Sender \in Correct => \A p \in Correct : echoed[p] \in {NoMessage, input}

\* An interrupted call is the sender's, or counts what p has sent.
StackInv ==
    \A p \in Correct : \A f \in Frames(p) :
        /\ f.call = "send" => p = Sender /\ f.message = input
        /\ f.call = "echo" => f.message = echoed[p]
        /\ f.call = "ready" => Sent(p, f.message, readied)

\* What is counted for a correct player was sent by it.
CountInv ==
    \A p, q \in Correct : \A m \in Messages :
        /\ q \in bracha_echo[p][m] => echoed[q] = m
        /\ q \in bracha_ready[p][m] => Sent(q, m, readied)

\* Behind every READY of a correct player is a quorum of ECHOs at some correct
\* player, and behind every result a READY of a correct player.
ReadiedInv ==
    \A p \in Correct, m \in Messages : Sent(p, m, readied) =>
        \E r \in Correct : Cardinality(bracha_echo[r][m]) >= EchoQuorum

DeliveredInv ==
    \A p \in Correct, m \in Messages : Sent(p, m, delivered) =>
        \E q \in Correct : Sent(q, m, readied)

IInv == TypeOK /\ EchoedInv /\ StackInv /\ CountInv /\ ReadiedInv /\ DeliveredInv
------------------------------------------------------------------------------
\* The numbers of players are natural numbers, and a quorum of ECHOs is more than
\* the faulty players can make up.
LEMMA Numbers ==
    /\ IsFiniteSet(Players) /\ IsFiniteSet(Faulty)
    /\ Cardinality(Players) \in Nat /\ Cardinality(Faulty) \in Nat
    /\ Threshold \in Nat /\ EchoQuorum \in Nat
    /\ Cardinality(Faulty) <= Threshold
    /\ EchoQuorum > Threshold
<1>1. IsFiniteSet(Faulty) /\ Cardinality(Faulty) \in Nat /\ Cardinality(Players) \in Nat
  BY BroadcastAssumption, FS_CardinalityType, FS_Subset
<1>2. (Cardinality(Players) + Threshold + 1) \div 2 > Threshold
  BY <1>1, BroadcastAssumption
<1>3. EchoQuorum \in Nat
  BY <1>1, BroadcastAssumption DEF EchoQuorum
<1> QED  BY <1>1, <1>2, <1>3, BroadcastAssumption DEF EchoQuorum

\* More players than the threshold include a correct one.
LEMMA SomeoneCorrect ==
    ASSUME NEW S \in SUBSET Players, Cardinality(S) > Threshold
    PROVE  \E p \in Correct : p \in S
<1> SUFFICES ASSUME S \subseteq Faulty PROVE FALSE
  BY DEF Correct
<1>1. Cardinality(S) <= Cardinality(Faulty) /\ Cardinality(S) \in Nat
  BY Numbers, FS_Subset, FS_CardinalityType
<1> QED  BY <1>1, Numbers

\* Two quorums of ECHOs have a correct player in common.
LEMMA QuorumsShareCorrect ==
    ASSUME QuorumsMeet,
           NEW S \in SUBSET Players, NEW T \in SUBSET Players,
           Cardinality(S) >= EchoQuorum, Cardinality(T) >= EchoQuorum
    PROVE  \E p \in Correct : p \in S /\ p \in T
<1> DEFINE n == Cardinality(Players)
           b == Cardinality(Faulty)
<1>1. /\ IsFiniteSet(S) /\ IsFiniteSet(T)
      /\ IsFiniteSet(S \cup T) /\ IsFiniteSet(S \cap T)
      /\ Cardinality(S \cup T) <= n
  BY Numbers, FS_Subset
<1>2. /\ Cardinality(S) \in Nat /\ Cardinality(T) \in Nat
      /\ Cardinality(S \cup T) \in Nat /\ Cardinality(S \cap T) \in Nat
  BY <1>1, FS_CardinalityType
<1>3. Cardinality(S \cup T) = Cardinality(S) + Cardinality(T) - Cardinality(S \cap T)
  BY <1>1, FS_Union
<1>4. 2 * EchoQuorum > n + b
  <2>1. n \in Nat /\ b \in Nat /\ Threshold \in Nat /\ b <= Threshold
    BY Numbers
  <2>2. (n + Threshold) % 2 = 1 \/ b < Threshold
    BY DEF QuorumsMeet
  <2> HIDE DEF n, b
  <2>3. 2 * ((n + Threshold + 1) \div 2) > n + b
    BY <2>1, <2>2
  <2> QED  BY <2>3 DEF EchoQuorum, n, b
<1>5. Cardinality(S \cap T) > b
  <2> HIDE DEF n, b
  <2>1. n \in Nat /\ b \in Nat
    BY Numbers DEF n, b
  <2> QED  BY <1>1, <1>2, <1>3, <1>4, <2>1, Numbers
<1>6. ~(S \cap T \subseteq Faulty)
  <2> SUFFICES ASSUME S \cap T \subseteq Faulty PROVE FALSE
    OBVIOUS
  <2>1. Cardinality(S \cap T) <= b
    BY Numbers, FS_Subset
  <2> QED  BY <2>1, <1>2, <1>5, Numbers
<1> QED  BY <1>6 DEF Correct

\* With the invariant, a correct sender's message is the only one that correct
\* players send READY for or deliver.
LEMMA ValidityFollows ==
    ASSUME IInv, Sender \in Correct,
           NEW p \in Correct, NEW m \in Messages, Sent(p, m, readied)
    PROVE  m = input
<1>1. PICK r \in Correct : Cardinality(bracha_echo[r][m]) >= EchoQuorum
  BY DEF IInv, ReadiedInv
<1>2. /\ bracha_echo[r][m] \in SUBSET Players
      /\ Cardinality(bracha_echo[r][m]) \in Nat
  BY Numbers, FS_Subset, FS_CardinalityType DEF IInv, TypeOK
<1>3. Cardinality(bracha_echo[r][m]) > Threshold
  BY <1>1, <1>2, Numbers
<1>4. PICK c \in Correct : c \in bracha_echo[r][m]
  BY <1>2, <1>3, SomeoneCorrect
<1>5. echoed[c] = m /\ echoed[c] \in {NoMessage, input}
  BY <1>4 DEF IInv, CountInv, EchoedInv
<1> QED  BY <1>5, BroadcastAssumption

\* With the invariant, correct players send READY for one message only.
LEMMA OneReadyFollows ==
    ASSUME CannotSplit, IInv
    PROVE  OneReady
<1> SUFFICES ASSUME NEW p \in Correct, NEW q \in Correct,
                    NEW m \in Messages, NEW l \in Messages,
                    Sent(p, m, readied), Sent(q, l, readied)
             PROVE  m = l
  BY DEF OneReady
<1>1. CASE Sender \in Correct
  BY <1>1, ValidityFollows
<1>2. CASE QuorumsMeet
  <2>1. PICK r \in Correct : Cardinality(bracha_echo[r][m]) >= EchoQuorum
    BY DEF IInv, ReadiedInv
  <2>2. PICK s \in Correct : Cardinality(bracha_echo[s][l]) >= EchoQuorum
    BY DEF IInv, ReadiedInv
  <2>3. bracha_echo[r][m] \in SUBSET Players /\ bracha_echo[s][l] \in SUBSET Players
    BY DEF IInv, TypeOK
  <2>4. PICK c \in Correct : c \in bracha_echo[r][m] /\ c \in bracha_echo[s][l]
    BY <1>2, <2>1, <2>2, <2>3, QuorumsShareCorrect
  <2> QED  BY <2>4 DEF IInv, CountInv
<1> QED  BY <1>1, <1>2 DEF CannotSplit

\* With the invariant, all results are the same message.
LEMMA SameResult ==
    ASSUME CannotSplit, IInv,
           NEW p \in Correct, NEW q \in Correct, NEW m \in Messages, NEW l \in Messages,
           Sent(p, m, delivered), Sent(q, l, delivered)
    PROVE  m = l
<1>1. PICK r \in Correct : Sent(r, m, readied)
  BY DEF IInv, DeliveredInv
<1>2. PICK s \in Correct : Sent(s, l, readied)
  BY DEF IInv, DeliveredInv
<1> QED  BY <1>1, <1>2, OneReadyFollows DEF OneReady
------------------------------------------------------------------------------
\* Sending one more message adds it to what p has sent, and nothing else.
Grown(s, t, p, m) ==
    /\ t \in [Correct -> Seq(Messages)]
    /\ \A q \in Correct, l \in Messages :
          Sent(q, l, t) <=> Sent(q, l, s) \/ (q = p /\ l = m)
    /\ Len(t[p]) = Len(s[p]) + 1
    /\ \A q \in Correct : q # p => t[q] = s[q]

LEMMA SentAppend ==
    ASSUME NEW s \in [Correct -> Seq(Messages)], NEW p \in Correct, NEW m \in Messages,
           NEW t, t = [s EXCEPT ![p] = Append(@, m)]
    PROVE  Grown(s, t, p, m)
<1>1. /\ t \in [Correct -> Seq(Messages)]
      /\ t[p] = Append(s[p], m)
      /\ \A q \in Correct : q # p => t[q] = s[q]
      /\ s[p] \in Seq(Messages)
  OBVIOUS
<1>2. /\ Len(s[p]) \in Nat
      /\ Len(t[p]) = Len(s[p]) + 1
      /\ t[p][Len(s[p]) + 1] = m
      /\ \A i \in 1..Len(s[p]) : t[p][i] = s[p][i]
  BY <1>1
<1>3. \A l \in Messages : Sent(p, l, t) <=> Sent(p, l, s) \/ l = m
  <2> TAKE l \in Messages
  <2>1. ASSUME Sent(p, l, t) PROVE Sent(p, l, s) \/ l = m
    <3>1. PICK i \in 1..Len(t[p]) : t[p][i] = l
      BY <2>1 DEF Sent
    <3>2. i \in 1..Len(s[p]) \/ i = Len(s[p]) + 1
      BY <1>2
    <3> QED  BY <3>1, <3>2, <1>2 DEF Sent
  <2>2. ASSUME Sent(p, l, s) PROVE Sent(p, l, t)
    <3>1. PICK i \in 1..Len(s[p]) : s[p][i] = l
      BY <2>2 DEF Sent
    <3>2. i \in 1..Len(t[p])
      BY <1>2
    <3> QED  BY <3>1, <3>2, <1>2 DEF Sent
  <2>3. ASSUME l = m PROVE Sent(p, l, t)
    <3>1. Len(s[p]) + 1 \in 1..Len(t[p])
      BY <1>2
    <3> QED  BY <3>1, <2>3, <1>2 DEF Sent
  <2> QED  BY <2>1, <2>2, <2>3
<1> QED  BY <1>1, <1>2, <1>3 DEF Sent, Grown

\* After the stack of p is pushed, popped or has its head replaced by f, every
\* frame is an old one or f.
LEMMA StackStep ==
    ASSUME TypeOK, NEW p \in Correct, NEW f \in Frame,
           \/ UNCHANGED stack
           \/ stack' = [stack EXCEPT ![p] = <<f>> \o @]
           \/ stack[p] # <<>> /\ stack' = [stack EXCEPT ![p] = <<f>> \o Tail(@)]
           \/ stack[p] # <<>> /\ stack' = [stack EXCEPT ![p] = Tail(@)]
    PROVE  /\ stack' \in [Correct -> Seq(Frame)]
           /\ \A q \in Correct : \A g \in Frames(q)' :
                 g \in Frames(q) \/ (q = p /\ g = f)
<1> DEFINE s == stack[p]
<1>1. s \in Seq(Frame) /\ stack \in [Correct -> Seq(Frame)]
  BY DEF TypeOK
<1>2. CASE UNCHANGED stack
  BY <1>1, <1>2 DEF Frames
<1>3. ASSUME NEW t \in Seq(Frame), stack' = [stack EXCEPT ![p] = t],
             \A i \in 1..Len(t) : t[i] = f \/ \E j \in 1..Len(s) : t[i] = s[j]
      PROVE  /\ stack' \in [Correct -> Seq(Frame)]
             /\ \A q \in Correct : \A g \in Frames(q)' :
                   g \in Frames(q) \/ (q = p /\ g = f)
  <2>1. stack' \in [Correct -> Seq(Frame)] /\ stack'[p] = t
        /\ \A q \in Correct : q # p => stack'[q] = stack[q]
    BY <1>1, <1>3
  <2>2. \A g \in Frames(p)' : g \in Frames(p) \/ g = f
    BY <2>1, <1>3 DEF Frames
  <2>3. \A q \in Correct : q # p => Frames(q)' = Frames(q)
    BY <2>1 DEF Frames
  <2> QED  BY <2>1, <2>2, <2>3
<1>4. CASE stack' = [stack EXCEPT ![p] = <<f>> \o @]
  <2> DEFINE t == <<f>> \o s
  <2>1. /\ t \in Seq(Frame) /\ Len(t) = Len(s) + 1 /\ Len(s) \in Nat
        /\ \A i \in 1..Len(t) : t[i] = IF i = 1 THEN f ELSE s[i - 1]
    BY <1>1
  <2>2. \A i \in 1..Len(t) : t[i] = f \/ \E j \in 1..Len(s) : t[i] = s[j]
    <3> TAKE i \in 1..Len(t)
    <3>1. i = 1 \/ i - 1 \in 1..Len(s)
      BY <2>1
    <3> QED  BY <2>1, <3>1
  <2>3. stack' = [stack EXCEPT ![p] = t]
    BY <1>4
  <2> QED  BY <1>3, <2>1, <2>2, <2>3
<1>5. CASE stack[p] # <<>> /\ stack' = [stack EXCEPT ![p] = <<f>> \o Tail(@)]
  <2> DEFINE u == Tail(s)
             t == <<f>> \o u
  <2>1. /\ u \in Seq(Frame) /\ Len(u) = Len(s) - 1 /\ Len(s) \in Nat
        /\ \A i \in 1..Len(u) : u[i] = s[i + 1]
    BY <1>1, <1>5
  <2>2. /\ t \in Seq(Frame) /\ Len(t) = Len(s)
        /\ \A i \in 1..Len(t) : t[i] = IF i = 1 THEN f ELSE u[i - 1]
    BY <2>1, <1>5
  <2>3. \A i \in 1..Len(t) : t[i] = f \/ \E j \in 1..Len(s) : t[i] = s[j]
    <3> TAKE i \in 1..Len(t)
    <3>1. i = 1 \/ (i - 1 \in 1..Len(u) /\ i \in 1..Len(s) /\ (i - 1) + 1 = i)
      BY <2>1, <2>2
    <3> HIDE DEF t, u, s
    <3> QED  BY <2>1, <2>2, <3>1
  <2>4. stack' = [stack EXCEPT ![p] = t]
    BY <1>5
  <2> QED  BY <1>3, <2>2, <2>3, <2>4
<1>6. CASE stack[p] # <<>> /\ stack' = [stack EXCEPT ![p] = Tail(@)]
  <2> DEFINE t == Tail(s)
  <2>1. /\ t \in Seq(Frame) /\ Len(t) = Len(s) - 1 /\ Len(s) \in Nat
        /\ \A i \in 1..Len(t) : t[i] = s[i + 1] /\ i + 1 \in 1..Len(s)
    BY <1>1, <1>6
  <2>2. stack' = [stack EXCEPT ![p] = t]
    BY <1>6
  <2> QED  BY <1>3, <2>1, <2>2
<1> QED  BY <1>2, <1>4, <1>5, <1>6
------------------------------------------------------------------------------
\* Counting one more player adds it to one set, and nothing else.
Counted(c, d, p, m, q) ==
    /\ d \in [Correct -> [Messages -> SUBSET Players]]
    /\ d[p][m] = c[p][m] \cup {q}
    /\ \A r \in Correct, l \in Messages :
          /\ Cardinality(c[r][l]) \in Nat /\ Cardinality(d[r][l]) \in Nat
          /\ Cardinality(c[r][l]) <= Cardinality(d[r][l])
          /\ \A x : x \in d[r][l] => x \in c[r][l] \/ (r = p /\ l = m /\ x = q)

LEMMA CountOne ==
    ASSUME NEW c \in [Correct -> [Messages -> SUBSET Players]],
           NEW p \in Correct, NEW m \in Messages, NEW q \in Players,
           NEW d, d = [c EXCEPT ![p][m] = @ \cup {q}]
    PROVE  Counted(c, d, p, m, q)
<1>1. d \in [Correct -> [Messages -> SUBSET Players]]
  OBVIOUS
<1>2. d[p][m] = c[p][m] \cup {q}
  OBVIOUS
<1>3. ASSUME NEW r \in Correct, NEW l \in Messages
      PROVE  /\ c[r][l] \subseteq d[r][l]
             /\ \A x : x \in d[r][l] => x \in c[r][l] \/ (r = p /\ l = m /\ x = q)
  BY <1>3
<1>4. ASSUME NEW r \in Correct, NEW l \in Messages
      PROVE  /\ IsFiniteSet(d[r][l])
             /\ Cardinality(c[r][l]) \in Nat /\ Cardinality(d[r][l]) \in Nat
             /\ Cardinality(c[r][l]) <= Cardinality(d[r][l])
  <2>1. d[r][l] \in SUBSET Players
    BY <1>1
  <2>2. IsFiniteSet(d[r][l])
    BY <2>1, Numbers, FS_Subset
  <2>3. IsFiniteSet(c[r][l]) /\ Cardinality(c[r][l]) <= Cardinality(d[r][l])
    BY <2>2, <1>3, FS_Subset
  <2> QED  BY <2>2, <2>3, FS_CardinalityType
<1> QED  BY <1>1, <1>2, <1>3, <1>4 DEF Counted

\* What echo_received leaves behind, up to activate_reactor, for an ECHO that its
\* player did send.
LEMMA EchoStep ==
    ASSUME IInv, NEW p \in Correct, NEW q \in Players, NEW m \in Messages,
           q \in Correct => echoed[q] = m,
           EchoReceived(p, m, q)
    PROVE  /\ readied' \in [Correct -> Seq(Messages)]
           /\ bracha_echo' \in [Correct -> [Messages -> SUBSET Players]]
           /\ CountInv' /\ ReadiedInv' /\ DeliveredInv'
           /\ \A r \in Correct, l \in Messages :
                 Sent(r, l, readied) => Sent(r, l, readied)'
           /\ EchoCompletes(p, m, q) => Sent(p, m, readied)'
<1> USE DEF IInv
<1>1. /\ UNCHANGED <<input, echoed, bracha_ready, delivered>>
      /\ bracha_echo' = [bracha_echo EXCEPT ![p][m] = @ \cup {q}]
      /\ bracha_echo \in [Correct -> [Messages -> SUBSET Players]]
      /\ readied \in [Correct -> Seq(Messages)]
  BY DEF EchoReceived, TypeOK
<1>2. Counted(bracha_echo, bracha_echo', p, m, q)
  BY <1>1, CountOne
<1>3. /\ readied' \in [Correct -> Seq(Messages)]
      /\ \A r \in Correct, l \in Messages :
            Sent(r, l, readied)' <=>
               Sent(r, l, readied) \/ (EchoCompletes(p, m, q) /\ r = p /\ l = m)
  <2>1. CASE EchoCompletes(p, m, q)
    <3>1. readied' = [readied EXCEPT ![p] = Append(@, m)]
      BY <2>1 DEF EchoReceived
    <3>2. Grown(readied, readied', p, m)
      BY <1>1, <3>1, SentAppend
    <3> QED  BY <2>1, <3>2 DEF Grown, Sent
  <2>2. CASE ~EchoCompletes(p, m, q)
    BY <2>2, <1>1 DEF EchoReceived, Sent
  <2> QED  BY <2>1, <2>2
<1>4. CountInv'
  <2> SUFFICES ASSUME NEW r \in Correct, NEW x \in Correct, NEW l \in Messages
               PROVE  /\ x \in bracha_echo'[r][l] => echoed'[x] = l
                      /\ x \in bracha_ready'[r][l] => Sent(x, l, readied)'
    BY DEF CountInv
  <2>1. x \in bracha_echo'[r][l] => echoed'[x] = l
    BY <1>1, <1>2 DEF CountInv, Counted
  <2>2. x \in bracha_ready'[r][l] => Sent(x, l, readied)'
    BY <1>1, <1>3 DEF CountInv
  <2> QED  BY <2>1, <2>2
<1>5. ReadiedInv'
  <2> SUFFICES ASSUME NEW r \in Correct, NEW l \in Messages, Sent(r, l, readied)'
               PROVE  \E x \in Correct : Cardinality(bracha_echo'[x][l]) >= EchoQuorum
    BY DEF ReadiedInv
  <2>1. CASE Sent(r, l, readied)
    <3>1. PICK x \in Correct : Cardinality(bracha_echo[x][l]) >= EchoQuorum
      BY <2>1 DEF ReadiedInv
    <3>2. Cardinality(bracha_echo'[x][l]) >= EchoQuorum
      BY <3>1, <1>2, Numbers DEF Counted
    <3> QED  BY <3>2
  <2>2. CASE EchoCompletes(p, m, q) /\ r = p /\ l = m
    BY <2>2, <1>2 DEF EchoCompletes, Counted
  <2> QED  BY <1>3, <2>1, <2>2
<1>6. DeliveredInv'
  <2>1. \A r \in Correct, l \in Messages :
           Sent(r, l, delivered)' <=> Sent(r, l, delivered)
    BY <1>1 DEF Sent
  <2> QED  BY <2>1, <1>3 DEF DeliveredInv
<1> QED  BY <1>2, <1>3, <1>4, <1>5, <1>6 DEF Counted

\* More than t READYs for m move ready_received to do anything, so a correct
\* player sent one of them.
LEMMA ReadyBehind ==
    ASSUME IInv, NEW p \in Correct, NEW q \in Players, NEW m \in Messages,
           q \in Correct => Sent(q, m, readied),
           ReadyCompletes(p, m, q) \/ ReadyDelivers(p, m, q)
    PROVE  \E r \in Correct : Sent(r, m, readied)
<1> DEFINE S == bracha_ready[p][m] \cup {q}
<1>1. S \in SUBSET Players
  BY DEF IInv, TypeOK
<1>2. Cardinality(S) > Threshold
  BY Numbers, BroadcastAssumption DEF ReadyCompletes, ReadyDelivers
<1>3. PICK r \in Correct : r \in S
  BY <1>1, <1>2, SomeoneCorrect
<1>4. Sent(r, m, readied)
  BY <1>3 DEF CountInv, IInv
<1> QED  BY <1>4

\* What ready_received leaves behind, likewise.
LEMMA ReadyStep ==
    ASSUME IInv, NEW p \in Correct, NEW q \in Players, NEW m \in Messages,
           q \in Correct => Sent(q, m, readied),
           ReadyReceived(p, m, q)
    PROVE  /\ readied' \in [Correct -> Seq(Messages)]
           /\ delivered' \in [Correct -> Seq(Messages)]
           /\ bracha_ready' \in [Correct -> [Messages -> SUBSET Players]]
           /\ CountInv' /\ ReadiedInv' /\ DeliveredInv'
           /\ \A r \in Correct, l \in Messages :
                 Sent(r, l, readied) => Sent(r, l, readied)'
           /\ ReadyCompletes(p, m, q) => Sent(p, m, readied)'
<1>1. /\ UNCHANGED <<input, echoed, bracha_echo>>
      /\ bracha_ready' = [bracha_ready EXCEPT ![p][m] = @ \cup {q}]
      /\ bracha_ready \in [Correct -> [Messages -> SUBSET Players]]
      /\ readied \in [Correct -> Seq(Messages)]
      /\ delivered \in [Correct -> Seq(Messages)]
  BY DEF ReadyReceived, TypeOK, IInv
<1>2. Counted(bracha_ready, bracha_ready', p, m, q)
  BY <1>1, CountOne
<1>3. /\ readied' \in [Correct -> Seq(Messages)]
      /\ \A r \in Correct, l \in Messages :
            Sent(r, l, readied)' <=>
               Sent(r, l, readied) \/ (ReadyCompletes(p, m, q) /\ r = p /\ l = m)
  <2>1. CASE ReadyCompletes(p, m, q)
    <3>1. readied' = [readied EXCEPT ![p] = Append(@, m)]
      BY <2>1 DEF ReadyReceived
    <3>2. Grown(readied, readied', p, m)
      BY <1>1, <3>1, SentAppend
    <3> QED  BY <2>1, <3>2 DEF Grown, Sent
  <2>2. CASE ~ReadyCompletes(p, m, q)
    BY <2>2, <1>1 DEF ReadyReceived, Sent
  <2> QED  BY <2>1, <2>2
<1>4. /\ delivered' \in [Correct -> Seq(Messages)]
      /\ \A r \in Correct, l \in Messages :
            Sent(r, l, delivered)' <=>
               Sent(r, l, delivered) \/ (ReadyDelivers(p, m, q) /\ r = p /\ l = m)
  <2>1. CASE ReadyDelivers(p, m, q)
    <3>1. delivered' = [delivered EXCEPT ![p] = Append(@, m)]
      BY <2>1 DEF ReadyReceived
    <3>2. Grown(delivered, delivered', p, m)
      BY <1>1, <3>1, SentAppend
    <3> QED  BY <2>1, <3>2 DEF Grown, Sent
  <2>2. CASE ~ReadyDelivers(p, m, q)
    BY <2>2, <1>1 DEF ReadyReceived, Sent
  <2> QED  BY <2>1, <2>2
<1>5. ReadyCompletes(p, m, q) \/ ReadyDelivers(p, m, q) =>
         \E r \in Correct : Sent(r, m, readied)
  BY ReadyBehind
<1>6. CountInv'
  <2> SUFFICES ASSUME NEW r \in Correct, NEW x \in Correct, NEW l \in Messages
               PROVE  /\ x \in bracha_echo'[r][l] => echoed'[x] = l
                      /\ x \in bracha_ready'[r][l] => Sent(x, l, readied)'
    BY DEF CountInv
  <2>1. x \in bracha_echo'[r][l] => echoed'[x] = l
    BY <1>1 DEF CountInv, IInv
  <2>2. x \in bracha_ready'[r][l] => Sent(x, l, readied)'
    BY <1>2, <1>3 DEF CountInv, IInv, Counted
  <2> QED  BY <2>1, <2>2
<1>7. ReadiedInv'
  <2> SUFFICES ASSUME NEW r \in Correct, NEW l \in Messages, Sent(r, l, readied)'
               PROVE  \E x \in Correct : Cardinality(bracha_echo[x][l]) >= EchoQuorum
    BY <1>1 DEF ReadiedInv
  <2>1. \E x \in Correct : Sent(x, l, readied)
    BY <1>3, <1>5
  <2> QED  BY <2>1 DEF ReadiedInv, IInv
<1>8. DeliveredInv'
  <2> SUFFICES ASSUME NEW r \in Correct, NEW l \in Messages, Sent(r, l, delivered)'
               PROVE  \E x \in Correct : Sent(x, l, readied)'
    BY DEF DeliveredInv
  <2>1. \E x \in Correct : Sent(x, l, readied)
    BY <1>4, <1>5 DEF DeliveredInv, IInv
  <2> QED  BY <2>1, <1>3
<1> QED  BY <1>2, <1>3, <1>4, <1>6, <1>7, <1>8 DEF Counted
------------------------------------------------------------------------------
\* A new frame f of p, if any, agrees with the invariant, and the frames that
\* were there still do.
LEMMA StackKept ==
    ASSUME IInv, NEW p \in Correct, NEW f \in Frame,
           \A q \in Correct : \A g \in Frames(q)' : g \in Frames(q) \/ (q = p /\ g = f),
           f.call = "send" => p = Sender /\ f.message = input',
           f.call = "echo" => f.message = echoed'[p],
           f.call = "ready" => Sent(p, f.message, readied)',
           stack \in [Correct -> Seq(Frame)],
           input = input' \/ input = NoMessage,
           \A q \in Correct : echoed'[q] = echoed[q] \/ echoed[q] \notin Messages,
           \A q \in Correct, l \in Messages :
               Sent(q, l, readied) => Sent(q, l, readied)'
    PROVE  StackInv'
<1> SUFFICES ASSUME NEW q \in Correct, NEW g \in Frames(q)'
             PROVE  /\ g.call = "send" => q = Sender /\ g.message = input'
                    /\ g.call = "echo" => g.message = echoed'[q]
                    /\ g.call = "ready" => Sent(q, g.message, readied)'
  BY DEF StackInv
<1>1. CASE q = p /\ g = f
  BY <1>1
<1>2. CASE g \in Frames(q)
  <2>1. g \in Frame /\ g.message \in Messages
    <3>1. stack[q] \in Seq(Frame)
      OBVIOUS
    <3>2. PICK i \in 1..Len(stack[q]) : g = stack[q][i]
      BY <1>2 DEF Frames
    <3>3. g \in Frame
      BY <3>1, <3>2
    <3> QED  BY <3>3 DEF Frame
  <2>2. /\ g.call = "send" => q = Sender /\ g.message = input
        /\ g.call = "echo" => g.message = echoed[q]
        /\ g.call = "ready" => Sent(q, g.message, readied)
    BY <1>2 DEF IInv, StackInv
  <2> QED  BY <2>1, <2>2, BroadcastAssumption
<1> QED  BY <1>1, <1>2

\* A step that touches no stack.
LEMMA SameStack ==
    ASSUME IInv, UNCHANGED <<stack, input, echoed>>,
           \A q \in Correct, l \in Messages :
               Sent(q, l, readied) => Sent(q, l, readied)'
    PROVE  StackInv' /\ stack' \in [Correct -> Seq(Frame)]
<1>1. \A q \in Correct : Frames(q)' = Frames(q) /\ Frames(q) \subseteq Frame
  <2> TAKE q \in Correct
  <2>1. stack[q] \in Seq(Frame)
    BY DEF IInv, TypeOK
  <2> QED  BY <2>1 DEF Frames
<1>2. \A g \in Frame : g.message \in Messages
  BY DEF Frame
<1>3. StackInv'
  BY <1>1, <1>2 DEF IInv, StackInv
<1> QED  BY <1>3 DEF IInv, TypeOK

\* A call of p that goes on leaves its frame, or leaves one that counts p's READY.
LEMMA ReplaceStep ==
    ASSUME IInv, NEW p \in Correct, NEW m \in Messages, NEW C \in BOOLEAN,
           stack[p] # <<>>, UNCHANGED <<input, echoed>>,
           \A q \in Correct, l \in Messages :
               Sent(q, l, readied) => Sent(q, l, readied)',
           C => Sent(p, m, readied)',
           stack' = IF C
                    THEN [stack EXCEPT ![p] =
                             <<[call |-> "ready", message |-> m]>> \o Tail(@)]
                    ELSE [stack EXCEPT ![p] = Tail(@)]
    PROVE  StackInv' /\ stack' \in [Correct -> Seq(Frame)]
<1> DEFINE f == [call |-> "ready", message |-> m]
<1>1. f \in Frame /\ TypeOK /\ stack \in [Correct -> Seq(Frame)]
  BY DEF Frame, IInv, TypeOK
<1>2. /\ stack' \in [Correct -> Seq(Frame)]
      /\ \A q \in Correct : \A g \in Frames(q)' : g \in Frames(q) \/ (q = p /\ g = f)
  BY <1>1, StackStep
<1>3. f.call = "ready" /\ f.message = m
  OBVIOUS
<1>4. CASE C
  <2> HIDE DEF f
  <2> QED  BY <1>1, <1>2, <1>3, <1>4, StackKept
\* A frame that is popped leaves no new one: choose one of p's own as f.
<1>5. CASE ~C
  <2>1. stack[p] \in Seq(Frame) /\ Head(stack[p]) \in Frame
    BY <1>1
  <2>2. Head(stack[p]) \in Frames(p)
    <3>1. 1 \in 1..Len(stack[p]) /\ Head(stack[p]) = stack[p][1]
      BY <2>1
    <3> QED  BY <3>1 DEF Frames
  <2> DEFINE h == Head(stack[p])
  <2>3. \A q \in Correct : \A g \in Frames(q)' : g \in Frames(q) \/ (q = p /\ g = h)
    <3>1. stack' = [stack EXCEPT ![p] = Tail(@)]
      BY <1>5
    <3> QED  BY <3>1, <1>1, <2>1, StackStep
  <2>4. /\ h.call = "send" => p = Sender /\ h.message = input
        /\ h.call = "echo" => h.message = echoed[p]
        /\ h.call = "ready" => Sent(p, h.message, readied)
    BY <2>2 DEF IInv, StackInv
  <2>5. h \in Frame /\ h.message \in Messages
    BY <2>1 DEF Frame
  <2> HIDE DEF h
  <2> QED  BY <1>1, <1>2, <2>3, <2>4, <2>5, StackKept
<1> QED  BY <1>4, <1>5

\* Both kinds of message count the same whoever may come to call.
LEMMA NothingCounted ==
    ASSUME IInv, UNCHANGED <<readied, bracha_echo, bracha_ready, delivered>>,
           \A q \in Correct : echoed'[q] = echoed[q] \/ echoed[q] \notin Messages
    PROVE  /\ CountInv' /\ ReadiedInv' /\ DeliveredInv'
           /\ \A q \in Correct, l \in Messages :
                 Sent(q, l, readied)' <=> Sent(q, l, readied)
<1>1. \A q \in Correct, l \in Messages :
         /\ Sent(q, l, readied)' <=> Sent(q, l, readied)
         /\ Sent(q, l, delivered)' <=> Sent(q, l, delivered)
  BY DEF Sent
<1>2. CountInv'
  BY <1>1 DEF IInv, CountInv
<1>3. ReadiedInv'
  BY <1>1 DEF IInv, ReadiedInv
<1>4. DeliveredInv'
  BY <1>1 DEF IInv, DeliveredInv
<1> QED  BY <1>1, <1>2, <1>3, <1>4

\* A correct sender calls _broadcast.
LEMMA BroadcastStep ==
    ASSUME IInv, NEW m \in Messages, Broadcast(m)
    PROVE  IInv'
<1> DEFINE f == [call |-> "send", message |-> m]
<1>1. /\ Sender \in Correct /\ input = NoMessage /\ input' = m
      /\ stack' = [stack EXCEPT ![Sender] = <<f>> \o @]
      /\ UNCHANGED <<echoed, readied, bracha_echo, bracha_ready, delivered>>
      /\ f \in Frame /\ TypeOK
  BY DEF Broadcast, Push, Frame, IInv
<1>2. /\ stack' \in [Correct -> Seq(Frame)]
      /\ \A q \in Correct : \A g \in Frames(q)' :
            g \in Frames(q) \/ (q = Sender /\ g = f)
  BY <1>1, StackStep
<1>3. /\ CountInv' /\ ReadiedInv' /\ DeliveredInv'
      /\ \A q \in Correct, l \in Messages :
            Sent(q, l, readied)' <=> Sent(q, l, readied)
  BY <1>1, NothingCounted
<1>4. StackInv'
  <2>1. /\ f.call = "send" /\ f.message = m
        /\ stack \in [Correct -> Seq(Frame)]
    BY <1>1 DEF TypeOK
  <2> HIDE DEF f
  <2> QED  BY <2>1, <1>1, <1>2, <1>3, StackKept
<1>5. EchoedInv'
  BY <1>1 DEF EchoedInv, IInv
<1>6. TypeOK'
  BY <1>1, <1>2 DEF TypeOK
<1> QED  BY <1>3, <1>4, <1>5, <1>6 DEF IInv

\* p gets the sender's message and sends its ECHO.
LEMMA ReceiveSendStep ==
    ASSUME IInv, NEW p \in Correct, NEW m \in Messages, ReceiveSend(p, m)
    PROVE  IInv'
<1> DEFINE f == [call |-> "echo", message |-> m]
<1>1. /\ echoed[p] = NoMessage
      /\ Sender \in Correct => m = input
      /\ echoed' = [echoed EXCEPT ![p] = m]
      /\ UNCHANGED <<input, readied, bracha_echo, bracha_ready, delivered>>
      /\ stack' = [stack EXCEPT ![p] = <<f>> \o @]
      /\ f \in Frame /\ TypeOK
  BY DEF ReceiveSend, SendReceived, Push, Frame, IInv
<1>2. /\ stack' \in [Correct -> Seq(Frame)]
      /\ \A q \in Correct : \A g \in Frames(q)' : g \in Frames(q) \/ (q = p /\ g = f)
  BY <1>1, StackStep
<1>3. /\ echoed' \in [Correct -> Messages \cup {NoMessage}]
      /\ echoed'[p] = m
      /\ \A q \in Correct : q # p => echoed'[q] = echoed[q]
      /\ \A q \in Correct : echoed'[q] = echoed[q] \/ echoed[q] \notin Messages
  BY <1>1, BroadcastAssumption DEF TypeOK
<1>4. /\ CountInv' /\ ReadiedInv' /\ DeliveredInv'
      /\ \A q \in Correct, l \in Messages :
            Sent(q, l, readied)' <=> Sent(q, l, readied)
  BY <1>1, <1>3, NothingCounted
<1>5. StackInv'
  <2>1. /\ f.call = "echo" /\ f.message = m
        /\ stack \in [Correct -> Seq(Frame)]
    BY <1>1 DEF TypeOK
  <2> HIDE DEF f
  <2> QED  BY <2>1, <1>1, <1>2, <1>3, <1>4, StackKept
<1>6. EchoedInv'
  BY <1>1, <1>3 DEF EchoedInv, IInv
<1>7. TypeOK'
  BY <1>1, <1>2, <1>3 DEF TypeOK
<1> QED  BY <1>4, <1>5, <1>6, <1>7 DEF IInv

\* p counts an ECHO of q, and sends READY if the quorum is full.
LEMMA ReceiveEchoStep ==
    ASSUME IInv, NEW p \in Correct, NEW q \in Players, NEW m \in Messages,
           ReceiveEcho(p, q, m)
    PROVE  IInv'
<1> DEFINE f == [call |-> "ready", message |-> m]
<1>1. /\ q \in Correct => echoed[q] = m
      /\ EchoReceived(p, m, q)
      /\ UNCHANGED <<input, echoed, bracha_ready, delivered>>
      /\ stack' = IF EchoCompletes(p, m, q)
                  THEN [stack EXCEPT ![p] = <<f>> \o @] ELSE stack
      /\ f \in Frame /\ TypeOK
  BY DEF ReceiveEcho, EchoReceived, PushIf, Push, Frame, IInv
<1>2. /\ readied' \in [Correct -> Seq(Messages)]
      /\ bracha_echo' \in [Correct -> [Messages -> SUBSET Players]]
      /\ CountInv' /\ ReadiedInv' /\ DeliveredInv'
      /\ \A r \in Correct, l \in Messages :
            Sent(r, l, readied) => Sent(r, l, readied)'
      /\ EchoCompletes(p, m, q) => Sent(p, m, readied)'
  BY <1>1, EchoStep
<1>3. StackInv' /\ stack' \in [Correct -> Seq(Frame)]
  <2>1. CASE EchoCompletes(p, m, q)
    <3>1. /\ stack' \in [Correct -> Seq(Frame)]
          /\ \A r \in Correct : \A g \in Frames(r)' :
                g \in Frames(r) \/ (r = p /\ g = f)
      BY <2>1, <1>1, StackStep
    <3>2. /\ f.call = "ready" /\ f.message = m
          /\ stack \in [Correct -> Seq(Frame)]
      BY <1>1 DEF TypeOK
    <3> HIDE DEF f
    <3> QED  BY <2>1, <3>1, <3>2, <1>1, <1>2, StackKept
  <2>2. CASE ~EchoCompletes(p, m, q)
    BY <2>2, <1>1, <1>2, SameStack
  <2> QED  BY <2>1, <2>2
<1>4. EchoedInv'
  BY <1>1 DEF EchoedInv, IInv
<1>5. TypeOK'
  BY <1>1, <1>2, <1>3 DEF TypeOK
<1> QED  BY <1>2, <1>3, <1>4, <1>5 DEF IInv

\* p counts a READY of q, and sends one itself or delivers.
LEMMA ReceiveReadyStep ==
    ASSUME IInv, NEW p \in Correct, NEW q \in Players, NEW m \in Messages,
           ReceiveReady(p, q, m)
    PROVE  IInv'
<1> DEFINE f == [call |-> "ready", message |-> m]
<1>1. /\ q \in Correct => readied[q] # <<>> /\ Head(readied[q]) = m
      /\ ReadyReceived(p, m, q)
      /\ UNCHANGED <<input, echoed, bracha_echo>>
      /\ stack' = IF ReadyCompletes(p, m, q)
                  THEN [stack EXCEPT ![p] = <<f>> \o @] ELSE stack
      /\ f \in Frame /\ TypeOK
  BY DEF ReceiveReady, ReadyReceived, PushIf, Push, Frame, IInv
<1>2. q \in Correct => Sent(q, m, readied)
  <2> SUFFICES ASSUME q \in Correct PROVE Sent(q, m, readied)
    OBVIOUS
  <2>1. readied[q] \in Seq(Messages) /\ readied[q] # <<>> /\ Head(readied[q]) = m
    BY <1>1 DEF TypeOK
  <2>2. 1 \in 1..Len(readied[q]) /\ readied[q][1] = m
    BY <2>1
  <2> QED  BY <2>2 DEF Sent
<1>3. /\ readied' \in [Correct -> Seq(Messages)]
      /\ delivered' \in [Correct -> Seq(Messages)]
      /\ bracha_ready' \in [Correct -> [Messages -> SUBSET Players]]
      /\ CountInv' /\ ReadiedInv' /\ DeliveredInv'
      /\ \A r \in Correct, l \in Messages :
            Sent(r, l, readied) => Sent(r, l, readied)'
      /\ ReadyCompletes(p, m, q) => Sent(p, m, readied)'
  BY <1>1, <1>2, ReadyStep
<1>4. StackInv' /\ stack' \in [Correct -> Seq(Frame)]
  <2>1. CASE ReadyCompletes(p, m, q)
    <3>1. /\ stack' \in [Correct -> Seq(Frame)]
          /\ \A r \in Correct : \A g \in Frames(r)' :
                g \in Frames(r) \/ (r = p /\ g = f)
      BY <2>1, <1>1, StackStep
    <3>2. /\ f.call = "ready" /\ f.message = m
          /\ stack \in [Correct -> Seq(Frame)]
      BY <1>1 DEF TypeOK
    <3> HIDE DEF f
    <3> QED  BY <2>1, <3>1, <3>2, <1>1, <1>3, StackKept
  <2>2. CASE ~ReadyCompletes(p, m, q)
    BY <2>2, <1>1, <1>3, SameStack
  <2> QED  BY <2>1, <2>2
<1>5. EchoedInv'
  BY <1>1 DEF EchoedInv, IInv
<1>6. TypeOK'
  BY <1>1, <1>3, <1>4 DEF TypeOK
<1> QED  BY <1>3, <1>4, <1>5, <1>6 DEF IInv

\* An interrupted call of p goes on.
LEMMA ReturnStep ==
    ASSUME IInv, NEW p \in Correct, Return(p)
    PROVE  IInv'
<1>1. TypeOK /\ stack[p] # <<>> /\ p \in Players
  BY DEF Return, IInv, Correct
<1>2. PICK top \in Frames(p) : top = Head(stack[p]) /\ top \in Frame
  <2>1. stack[p] \in Seq(Frame)
    BY <1>1 DEF TypeOK
  <2>2. 1 \in 1..Len(stack[p]) /\ Head(stack[p]) = stack[p][1] /\ Head(stack[p]) \in Frame
    BY <2>1, <1>1
  <2>3. Head(stack[p]) \in Frames(p)
    BY <2>2 DEF Frames
  <2> QED  BY <2>2, <2>3
<1>3. PICK m \in Messages : m = top.message
  BY <1>2 DEF Frame
<1> DEFINE f(call) == [call |-> call, message |-> m]
<1>4. f("echo") \in Frame /\ f("ready") \in Frame
  BY DEF Frame
<1>5. /\ top.call = "send" => p = Sender /\ m = input
      /\ top.call = "echo" => m = echoed[p]
      /\ top.call = "ready" => Sent(p, m, readied)
  BY <1>2, <1>3 DEF IInv, StackInv
<1>6. CASE /\ top.call = "send"
           /\ SendReceived(p, m)
           /\ stack' = [stack EXCEPT ![p] = <<f("echo")>> \o Tail(@)]
  <2>1. /\ echoed' = [echoed EXCEPT ![p] = m]
        /\ UNCHANGED <<input, readied, bracha_echo, bracha_ready, delivered>>
        /\ p = Sender /\ m = input
    BY <1>5, <1>6 DEF SendReceived
  <2>2. /\ echoed' \in [Correct -> Messages \cup {NoMessage}]
        /\ echoed'[p] = m
        /\ \A q \in Correct : q # p => echoed'[q] = echoed[q]
        /\ \A q \in Correct : echoed'[q] = echoed[q] \/ echoed[q] \notin Messages
    BY <2>1, <1>1, BroadcastAssumption DEF TypeOK, EchoedInv, IInv
  <2>3. /\ CountInv' /\ ReadiedInv' /\ DeliveredInv'
        /\ \A q \in Correct, l \in Messages :
              Sent(q, l, readied)' <=> Sent(q, l, readied)
    BY <2>1, <2>2, NothingCounted
  <2>4. /\ stack' \in [Correct -> Seq(Frame)]
        /\ \A q \in Correct : \A g \in Frames(q)' :
              g \in Frames(q) \/ (q = p /\ g = f("echo"))
    BY <1>4, <1>1, <1>6, StackStep
  <2>5. StackInv'
    <3> DEFINE g == f("echo")
    <3>1. /\ g.call = "echo" /\ g.message = m /\ g \in Frame
          /\ stack \in [Correct -> Seq(Frame)]
          /\ \A q \in Correct : \A h \in Frames(q)' :
                h \in Frames(q) \/ (q = p /\ h = g)
      BY <1>4, <1>1, <2>4 DEF TypeOK
    <3> HIDE DEF g
    <3> QED  BY <3>1, <2>1, <2>2, <2>3, StackKept
  <2>6. EchoedInv'
    BY <2>1, <2>2 DEF EchoedInv, IInv
  <2>7. TypeOK'
    BY <1>1, <2>1, <2>2, <2>4 DEF TypeOK
  <2> QED  BY <2>3, <2>5, <2>6, <2>7 DEF IInv
<1>7. CASE /\ top.call = "echo"
           /\ EchoReceived(p, m, p)
           /\ stack' = IF EchoCompletes(p, m, p)
                       THEN [stack EXCEPT ![p] = <<f("ready")>> \o Tail(@)]
                       ELSE [stack EXCEPT ![p] = Tail(@)]
  <2>1. UNCHANGED <<input, echoed, bracha_ready, delivered>>
    BY <1>7 DEF EchoReceived
  <2>2. /\ readied' \in [Correct -> Seq(Messages)]
        /\ bracha_echo' \in [Correct -> [Messages -> SUBSET Players]]
        /\ CountInv' /\ ReadiedInv' /\ DeliveredInv'
        /\ \A r \in Correct, l \in Messages :
              Sent(r, l, readied) => Sent(r, l, readied)'
        /\ EchoCompletes(p, m, p) => Sent(p, m, readied)'
    BY <1>1, <1>7, <1>5, EchoStep
  <2>3. StackInv' /\ stack' \in [Correct -> Seq(Frame)]
    <3> DEFINE C == EchoCompletes(p, m, p)
    <3>1. C \in BOOLEAN
      BY DEF EchoCompletes
    <3>2. C => Sent(p, m, readied)'
      BY <2>2
    <3>3. stack' = IF C THEN [stack EXCEPT ![p] = <<f("ready")>> \o Tail(@)]
                   ELSE [stack EXCEPT ![p] = Tail(@)]
      BY <1>7
    <3> HIDE DEF C
    <3> QED  BY <1>1, <2>1, <2>2, <3>1, <3>2, <3>3, ReplaceStep
  <2>4. EchoedInv'
    BY <2>1 DEF EchoedInv, IInv
  <2>5. TypeOK'
    BY <1>1, <2>1, <2>2, <2>3 DEF TypeOK
  <2> QED  BY <2>2, <2>3, <2>4, <2>5 DEF IInv
<1>8. CASE /\ top.call = "ready"
           /\ ReadyReceived(p, m, p)
           /\ stack' = IF ReadyCompletes(p, m, p)
                       THEN [stack EXCEPT ![p] = <<f("ready")>> \o Tail(@)]
                       ELSE [stack EXCEPT ![p] = Tail(@)]
  <2>1. UNCHANGED <<input, echoed, bracha_echo>>
    BY <1>8 DEF ReadyReceived
  <2>2. /\ readied' \in [Correct -> Seq(Messages)]
        /\ delivered' \in [Correct -> Seq(Messages)]
        /\ bracha_ready' \in [Correct -> [Messages -> SUBSET Players]]
        /\ CountInv' /\ ReadiedInv' /\ DeliveredInv'
        /\ \A r \in Correct, l \in Messages :
              Sent(r, l, readied) => Sent(r, l, readied)'
        /\ ReadyCompletes(p, m, p) => Sent(p, m, readied)'
    BY <1>1, <1>8, <1>5, ReadyStep
  <2>3. StackInv' /\ stack' \in [Correct -> Seq(Frame)]
    <3> DEFINE C == ReadyCompletes(p, m, p)
    <3>1. C \in BOOLEAN
      BY DEF ReadyCompletes
    <3>2. C => Sent(p, m, readied)'
      BY <2>2
    <3>3. stack' = IF C THEN [stack EXCEPT ![p] = <<f("ready")>> \o Tail(@)]
                   ELSE [stack EXCEPT ![p] = Tail(@)]
      BY <1>8
    <3> HIDE DEF C
    <3> QED  BY <1>1, <2>1, <2>2, <3>1, <3>2, <3>3, ReplaceStep
  <2>4. EchoedInv'
    BY <2>1 DEF EchoedInv, IInv
  <2>5. TypeOK'
    BY <1>1, <2>1, <2>2, <2>3 DEF TypeOK
  <2> QED  BY <2>2, <2>3, <2>4, <2>5 DEF IInv
<1>9. \/ /\ top.call = "send"
         /\ SendReceived(p, m)
         /\ stack' = [stack EXCEPT ![p] = <<f("echo")>> \o Tail(@)]
      \/ /\ top.call = "echo"
         /\ EchoReceived(p, m, p)
         /\ stack' = IF EchoCompletes(p, m, p)
                     THEN [stack EXCEPT ![p] = <<f("ready")>> \o Tail(@)]
                     ELSE [stack EXCEPT ![p] = Tail(@)]
      \/ /\ top.call = "ready"
         /\ ReadyReceived(p, m, p)
         /\ stack' = IF ReadyCompletes(p, m, p)
                     THEN [stack EXCEPT ![p] = <<f("ready")>> \o Tail(@)]
                     ELSE [stack EXCEPT ![p] = Tail(@)]
  BY <1>2, <1>3 DEF Return, Pop
<1> QED  BY <1>6, <1>7, <1>8, <1>9
------------------------------------------------------------------------------
\* The inductive invariant holds in every reachable state.
THEOREM Inductive == Spec => []IInv
<1>1. Init => IInv
  <2> SUFFICES ASSUME Init PROVE IInv
    OBVIOUS
  <2>1. TypeOK
    BY DEF Init, TypeOK
  <2>2. EchoedInv
    BY DEF Init, EchoedInv
  <2>3. StackInv
    BY DEF Init, StackInv, Frames
  <2>4. CountInv
    BY DEF Init, CountInv
  <2>5. ReadiedInv
    BY DEF Init, ReadiedInv, Sent
  <2>6. DeliveredInv
    BY DEF Init, DeliveredInv, Sent
  <2> QED  BY <2>1, <2>2, <2>3, <2>4, <2>5, <2>6 DEF IInv
<1>2. IInv /\ [Next]_vars => IInv'
  <2> SUFFICES ASSUME IInv, [Next]_vars PROVE IInv'
    OBVIOUS
  <2>1. ASSUME NEW m \in Messages, Broadcast(m) PROVE IInv'
    BY <2>1, BroadcastStep
  <2>2. ASSUME NEW p \in Correct, NEW m \in Messages, ReceiveSend(p, m) PROVE IInv'
    BY <2>2, ReceiveSendStep
  <2>3. ASSUME NEW p \in Correct, NEW q \in Players, NEW m \in Messages,
               ReceiveEcho(p, q, m)
        PROVE  IInv'
    BY <2>3, ReceiveEchoStep
  <2>4. ASSUME NEW p \in Correct, NEW q \in Players, NEW m \in Messages,
               ReceiveReady(p, q, m)
        PROVE  IInv'
    BY <2>4, ReceiveReadyStep
  <2>5. ASSUME NEW p \in Correct, Return(p) PROVE IInv'
    BY <2>5, ReturnStep
  <2>6. CASE UNCHANGED vars
    BY <2>6 DEF vars, IInv, TypeOK, EchoedInv, StackInv, CountInv, ReadiedInv,
                DeliveredInv, Frames, Sent
  <2> QED  BY <2>1, <2>2, <2>3, <2>4, <2>5, <2>6 DEF Next
<1> QED  BY <1>1, <1>2, PTL DEF Spec

\* The state of a broadcast is well-typed at all times.
THEOREM TypeCorrect == Spec => []TypeOK
<1>1. IInv => TypeOK
  BY DEF IInv
<1> QED  BY <1>1, Inductive, PTL

\* The correct players never send READY for two messages between them.
THEOREM OneReadyHolds == ASSUME CannotSplit PROVE Spec => []OneReady
<1>1. IInv => OneReady
  BY OneReadyFollows
<1> QED  BY <1>1, Inductive, PTL

------------------------------------------------------------------------------
SingleInv == \A p \in Correct : Len(delivered[p]) <= 1

\* ready_received does not call result.callback of a player for a second time.
LEMMA SingleStep ==
    ASSUME CannotSplit, IInv, SingleInv,
           NEW p \in Correct, NEW q \in Players, NEW m \in Messages,
           q \in Correct => Sent(q, m, readied),
           ReadyReceived(p, m, q)
    PROVE  /\ SingleInv'
           /\ ReadyDelivers(p, m, q) => delivered[p] = <<>>
<1>1. delivered \in [Correct -> Seq(Messages)]
  BY DEF IInv, TypeOK
<1>2. CASE ReadyDelivers(p, m, q)
  <2>1. delivered' = [delivered EXCEPT ![p] = Append(@, m)]
    BY <1>2 DEF ReadyReceived
  <2>2. Grown(delivered, delivered', p, m)
    BY <1>1, <2>1, SentAppend
  <2>3. delivered[p] = <<>>
    <3> SUFFICES ASSUME delivered[p] # <<>> PROVE FALSE
      OBVIOUS
    <3>1. delivered[p] \in Seq(Messages) /\ 1 \in 1..Len(delivered[p])
      BY <1>1
    <3>2. PICK l \in Messages : Sent(p, l, delivered)
      BY <3>1 DEF Sent
    <3>3. PICK r \in Correct : Sent(r, l, readied)
      BY <3>2 DEF DeliveredInv, IInv
    <3>4. PICK s \in Correct : Sent(s, m, readied)
      BY <1>2, ReadyBehind
    <3>5. l = m
      BY <3>3, <3>4, OneReadyFollows DEF OneReady
    <3> QED  BY <3>2, <3>5, <1>2 DEF ReadyDelivers
  <2>4. Len(delivered[p]) = 0
    BY <2>3
  <2>5. Len(delivered'[p]) <= 1
    BY <2>2, <2>4 DEF Grown
  <2>6. \A r \in Correct : r # p => delivered'[r] = delivered[r]
    BY <2>2 DEF Grown
  <2> QED  BY <2>3, <2>5, <2>6 DEF SingleInv
<1>3. CASE ~ReadyDelivers(p, m, q)
  BY <1>3 DEF ReadyReceived, SingleInv
<1> QED  BY <1>2, <1>3

\* What a step does to the results: nothing, or p gets its first one.
LEMMA ResultStep ==
    ASSUME CannotSplit, IInv, SingleInv, [Next]_vars
    PROVE  /\ SingleInv'
           /\ \/ UNCHANGED delivered
              \/ \E p \in Correct, m \in Messages :
                    /\ delivered[p] = <<>>
                    /\ delivered' = [delivered EXCEPT ![p] = Append(@, m)]
                    /\ UNCHANGED input
                    /\ \E r \in Correct : Sent(r, m, readied)
<1>1. ASSUME UNCHANGED delivered PROVE SingleInv'
  BY <1>1 DEF SingleInv
<1>2. ASSUME NEW p \in Correct, NEW q \in Players, NEW m \in Messages,
             q \in Correct => Sent(q, m, readied), ReadyReceived(p, m, q)
      PROVE  /\ SingleInv'
             /\ \/ UNCHANGED delivered
                \/ /\ delivered[p] = <<>>
                   /\ delivered' = [delivered EXCEPT ![p] = Append(@, m)]
                   /\ UNCHANGED input
                   /\ \E r \in Correct : Sent(r, m, readied)
  <2>1. /\ SingleInv'
        /\ ReadyDelivers(p, m, q) =>
              delivered[p] = <<>> /\ \E r \in Correct : Sent(r, m, readied)
    BY <1>2, SingleStep, ReadyBehind
  <2> QED  BY <1>2, <2>1 DEF ReadyReceived
<1>3. ASSUME NEW p \in Correct, NEW q \in Players, NEW m \in Messages,
             ReceiveReady(p, q, m)
      PROVE  q \in Correct => Sent(q, m, readied)
  <2> SUFFICES ASSUME q \in Correct PROVE Sent(q, m, readied)
    OBVIOUS
  <2>1. readied[q] \in Seq(Messages) /\ readied[q] # <<>> /\ Head(readied[q]) = m
    BY <1>3 DEF ReceiveReady, IInv, TypeOK
  <2>2. 1 \in 1..Len(readied[q]) /\ readied[q][1] = m
    BY <2>1
  <2> QED  BY <2>2 DEF Sent
<1>4. ASSUME NEW p \in Correct, Return(p)
      PROVE  \/ UNCHANGED delivered
             \/ \E m \in Messages : Sent(p, m, readied) /\ ReadyReceived(p, m, p)
  <2>1. stack[p] \in Seq(Frame) /\ stack[p] # <<>>
    BY <1>4 DEF Return, IInv, TypeOK
  <2>2. Head(stack[p]) \in Frames(p) /\ Head(stack[p]).message \in Messages
    <3>1. 1 \in 1..Len(stack[p]) /\ Head(stack[p]) = stack[p][1] /\ Head(stack[p]) \in Frame
      BY <2>1
    <3> QED  BY <3>1 DEF Frames, Frame
  <2>3. CASE Head(stack[p]).call = "ready"
    <3>1. Sent(p, Head(stack[p]).message, readied)
      BY <2>2, <2>3 DEF IInv, StackInv
    <3>2. ReadyReceived(p, Head(stack[p]).message, p)
      BY <1>4, <2>3 DEF Return
    <3> QED  BY <3>1, <3>2, <2>2
  <2>4. CASE Head(stack[p]).call # "ready"
    BY <1>4, <2>4 DEF Return, SendReceived, EchoReceived
  <2> QED  BY <2>3, <2>4
<1>5. CASE \E p \in Correct, q \in Players, m \in Messages : ReceiveReady(p, q, m)
  <2>1. PICK p \in Correct, q \in Players, m \in Messages : ReceiveReady(p, q, m)
    BY <1>5
  <2>2. ReadyReceived(p, m, q)
    BY <2>1 DEF ReceiveReady
  <2> QED  BY <2>1, <2>2, <1>2, <1>3
<1>6. CASE \E p \in Correct : Return(p)
  <2>1. PICK p \in Correct : Return(p)
    BY <1>6
  <2>2. p \in Players
    BY DEF Correct
  <2> QED  BY <2>1, <2>2, <1>1, <1>2, <1>4
<1>7. CASE \/ \E m \in Messages : Broadcast(m)
           \/ \E p \in Correct, m \in Messages :
                 ReceiveSend(p, m) \/ \E q \in Players : ReceiveEcho(p, q, m)
           \/ UNCHANGED vars
  <2>1. UNCHANGED delivered
    BY <1>7 DEF Broadcast, ReceiveSend, SendReceived, ReceiveEcho, EchoReceived, vars
  <2> QED  BY <2>1, <1>1
<1> QED  BY <1>5, <1>6, <1>7 DEF Next

\* No result.callback is called twice.
LEMMA Single == ASSUME CannotSplit PROVE Spec => []SingleInv
<1>1. Init => SingleInv
  BY DEF Init, SingleInv
<1>2. IInv /\ SingleInv /\ [Next]_vars => SingleInv'
  BY ResultStep
<1> QED  BY <1>1, <1>2, Inductive, PTL DEF Spec

\* The correct players that get a result get the same one, and each gets one only,
\* unless a faulty sender meets an echo quorum that was rounded down.
THEOREM AgreementHolds == ASSUME CannotSplit PROVE Spec => []Agreement
<1>1. IInv /\ SingleInv => Agreement
  <2> SUFFICES ASSUME IInv, SingleInv PROVE Agreement
    OBVIOUS
  <2>1. \A p, q \in Correct : \A m, l \in Messages :
           Sent(p, m, delivered) /\ Sent(q, l, delivered) => m = l
    BY SameResult
  <2> QED  BY <2>1 DEF Agreement, SingleInv
<1> QED  BY <1>1, Inductive, Single, PTL

\* _broadcast implements the abstract reliable broadcast, but for the delivery that
\* it promises: nobody gets a message that a correct sender did not send, and
\* the players that get one get the same.
THEOREM Implements == ASSUME CannotSplit PROVE Spec => Reliable!SafetySpec
<1>1. Init => Reliable!Init
  BY DEF Init, Reliable!Init, Result
<1>2. IInv /\ SingleInv /\ [Next]_vars
        => [Reliable!Next]_(Reliable!vars)
  <2> SUFFICES ASSUME IInv, SingleInv, [Next]_vars
               PROVE  [Reliable!Next]_(Reliable!vars)
    OBVIOUS
  <2>1. ASSUME NEW p \in Correct, NEW m \in Messages,
               delivered[p] = <<>>,
               delivered' = [delivered EXCEPT ![p] = Append(@, m)],
               UNCHANGED input,
               \E r \in Correct : Sent(r, m, readied)
        PROVE  Reliable!Deliver(p, m)
    <3>1. /\ delivered \in [Correct -> Seq(Messages)]
          /\ delivered'[p] = <<m>>
          /\ \A q \in Correct : q # p => delivered'[q] = delivered[q]
      BY <2>1 DEF IInv, TypeOK
    <3>2. Result[p] = NoMessage
      BY <2>1 DEF Result
    <3>3. Sender \in Correct => m = input
      BY <2>1, ValidityFollows
    <3>4. \A q \in Correct : Result[q] \in {m, NoMessage}
      <4> TAKE q \in Correct
      <4>1. CASE delivered[q] = <<>>
        BY <4>1 DEF Result
      <4>2. CASE delivered[q] # <<>>
        <5>1. delivered[q] \in Seq(Messages)
          BY <3>1
        <5>2. PICK l \in Messages : l = delivered[q][1] /\ l = Head(delivered[q])
          BY <4>2, <5>1
        <5>3. 1 \in 1..Len(delivered[q])
          BY <4>2, <5>1
        <5>4. Sent(q, l, delivered)
          BY <5>2, <5>3 DEF Sent
        <5>5. PICK s \in Correct : Sent(s, l, readied)
          BY <5>4 DEF IInv, DeliveredInv
        <5>6. l = m
          BY <5>5, <2>1, OneReadyFollows DEF OneReady
        <5> QED  BY <4>2, <5>2, <5>6 DEF Result
      <4> QED  BY <4>1, <4>2
    <3>5. Result' = [Result EXCEPT ![p] = m]
      <4>1. <<m>> # <<>> /\ Head(<<m>>) = m
        OBVIOUS
      <4>2. \A q \in Correct : Result'[q] = IF q = p THEN m ELSE Result[q]
        BY <3>1, <4>1 DEF Result
      <4> QED  BY <4>2 DEF Result
    <3> QED  BY <2>1, <3>2, <3>3, <3>4, <3>5 DEF Reliable!Deliver
  <2>2. CASE UNCHANGED <<delivered, input>>
    BY <2>2 DEF Result, Reliable!vars
  <2>3. ASSUME NEW m \in Messages, Broadcast(m)
        PROVE  Reliable!Broadcast(m)
    BY <2>3 DEF Broadcast, Reliable!Broadcast, Result
  <2>4. (\E m \in Messages : Broadcast(m)) \/ UNCHANGED input
    <3>1. ASSUME NEW p \in Correct, Return(p) PROVE UNCHANGED input
      BY <3>1 DEF Return, SendReceived, EchoReceived, ReadyReceived
    <3>2. ASSUME NEW p \in Correct, NEW m \in Messages, ReceiveSend(p, m)
          PROVE  UNCHANGED input
      BY <3>2 DEF ReceiveSend, SendReceived
    <3>3. ASSUME NEW p \in Correct, NEW q \in Players, NEW m \in Messages,
                 ReceiveEcho(p, q, m) \/ ReceiveReady(p, q, m)
          PROVE  UNCHANGED input
      BY <3>3 DEF ReceiveEcho, EchoReceived, ReceiveReady, ReadyReceived
    <3> QED  BY <3>1, <3>2, <3>3 DEF Next, vars
  <2>5. CASE UNCHANGED delivered
    BY <2>2, <2>3, <2>4, <2>5 DEF Reliable!Next
  <2>6. CASE \E p \in Correct, m \in Messages :
                /\ delivered[p] = <<>>
                /\ delivered' = [delivered EXCEPT ![p] = Append(@, m)]
                /\ UNCHANGED input
                /\ \E r \in Correct : Sent(r, m, readied)
    BY <2>1, <2>6 DEF Reliable!Next
  <2> QED  BY <2>5, <2>6, ResultStep
<1> QED  BY <1>1, <1>2, Inductive, Single, PTL DEF Spec, Reliable!SafetySpec
------------------------------------------------------------------------------
\* A player does at each count what it has to, although it does so only at exactly
\* t+1 and exactly 2t+1 READYs.
CompleteInv ==
    \A p \in Correct, m \in Messages :
        /\ Cardinality(bracha_echo[p][m]) >= EchoQuorum => Sent(p, m, readied)
        /\ Cardinality(bracha_ready[p][m]) >= Threshold + 1 => Sent(p, m, readied)
        /\ Cardinality(bracha_ready[p][m]) >= 2 * Threshold + 1
              <=> Sent(p, m, delivered)

Call(call, m) == [call |-> call, message |-> m]

\* A player has counted what it sent itself, or the call that will is interrupted.
OwnInv ==
    /\ input # NoMessage => Sender \in Correct
    /\ \A p \in Correct :
        /\ p = Sender /\ input # NoMessage =>
              echoed[p] = input \/ Call("send", input) \in Frames(p)
        /\ echoed[p] # NoMessage =>
              \/ p \in bracha_echo[p][echoed[p]]
              \/ Call("echo", echoed[p]) \in Frames(p)
        /\ \A m \in Messages : Sent(p, m, readied) =>
              p \in bracha_ready[p][m] \/ Call("ready", m) \in Frames(p)

\* Counting one more player loses nobody, and adds at most one.
OneMore(c, d, p, m, q) ==
    /\ \A r \in Correct, l \in Messages :
          /\ c[r][l] \subseteq d[r][l]
          /\ r # p \/ l # m => d[r][l] = c[r][l]
    /\ q \in d[p][m]
    /\ d[p][m] = c[p][m] \cup {q}
    /\ Cardinality(c[p][m]) \in Nat
    /\ q \in c[p][m] => d[p][m] = c[p][m]
    /\ q \notin c[p][m] => Cardinality(d[p][m]) = Cardinality(c[p][m]) + 1

LEMMA CountExact ==
    ASSUME NEW c \in [Correct -> [Messages -> SUBSET Players]],
           NEW p \in Correct, NEW m \in Messages, NEW q \in Players,
           NEW d, d = [c EXCEPT ![p][m] = @ \cup {q}]
    PROVE  OneMore(c, d, p, m, q)
<1>1. c[p][m] \in SUBSET Players /\ d[p][m] = c[p][m] \cup {q}
  OBVIOUS
<1>2. IsFiniteSet(c[p][m])
  BY <1>1, Numbers, FS_Subset
<1>3. /\ Cardinality(c[p][m]) \in Nat
      /\ q \notin c[p][m] =>
            Cardinality(c[p][m] \cup {q}) = Cardinality(c[p][m]) + 1
  BY <1>2, FS_AddElement, FS_CardinalityType
<1>4. \A r \in Correct, l \in Messages :
         c[r][l] \subseteq d[r][l] /\ (r # p \/ l # m => d[r][l] = c[r][l])
  OBVIOUS
<1>5. q \in c[p][m] => d[p][m] = c[p][m]
  BY <1>1
<1> QED  BY <1>1, <1>3, <1>4, <1>5 DEF OneMore

\* echo_received sends READY when the quorum is full, if nothing has before.
LEMMA EchoCompletesAll ==
    ASSUME TypeOK, CompleteInv, NEW p \in Correct, NEW q \in Players, NEW m \in Messages,
           EchoReceived(p, m, q)
    PROVE  /\ CompleteInv'
           /\ q \in bracha_echo'[p][m]
           /\ \A r \in Correct, l \in Messages :
                 /\ bracha_echo[r][l] \subseteq bracha_echo'[r][l]
                 /\ bracha_ready[r][l] \subseteq bracha_ready'[r][l]
                 /\ Sent(r, l, readied)' <=>
                       Sent(r, l, readied) \/ (EchoCompletes(p, m, q) /\ r = p /\ l = m)
<1> DEFINE C == EchoCompletes(p, m, q)
<1>1. /\ UNCHANGED <<input, echoed, bracha_ready, delivered>>
      /\ bracha_echo' = [bracha_echo EXCEPT ![p][m] = @ \cup {q}]
      /\ readied' = IF C THEN [readied EXCEPT ![p] = Append(@, m)] ELSE readied
      /\ bracha_echo \in [Correct -> [Messages -> SUBSET Players]]
      /\ readied \in [Correct -> Seq(Messages)] /\ C \in BOOLEAN
  BY DEF EchoReceived, TypeOK, EchoCompletes
<1>2. \A r \in Correct, l \in Messages :
         Sent(r, l, readied') <=> Sent(r, l, readied) \/ (C /\ r = p /\ l = m)
  <2> HIDE DEF C
  <2>1. CASE C
    <3>1. Grown(readied, readied', p, m)
      BY <1>1, <2>1, SentAppend
    <3> QED  BY <2>1, <3>1 DEF Grown
  <2>2. CASE ~C
    BY <1>1, <2>2
  <2> QED  BY <2>1, <2>2
<1>3. \A r \in Correct, l \in Messages : Sent(r, l, delivered') <=> Sent(r, l, delivered)
  BY <1>1
<1> DEFINE d == bracha_echo'
<1>4. OneMore(bracha_echo, d, p, m, q)
  BY <1>1, CountExact
<1>5. \A l \in Messages, r \in Correct : Cardinality(d[r][l]) >= EchoQuorum =>
         Sent(r, l, readied')
  <2> SUFFICES ASSUME NEW l \in Messages, NEW r \in Correct,
                      Cardinality(d[r][l]) >= EchoQuorum
               PROVE  Sent(r, l, readied')
    OBVIOUS
  <2>1. CASE d[r][l] = bracha_echo[r][l]
    BY <2>1, <1>2 DEF CompleteInv
  <2>2. CASE r = p /\ l = m /\ q \notin bracha_echo[p][m]
    BY <2>2, <1>2, <1>4 DEF EchoCompletes, OneMore
  <2> QED  BY <2>1, <2>2, <1>4 DEF OneMore
<1>6. \A r \in Correct, l \in Messages :
         /\ Sent(r, l, readied)' <=> Sent(r, l, readied')
         /\ Sent(r, l, delivered)' <=> Sent(r, l, delivered')
  BY DEF Sent
<1>7. \A r \in Correct, l \in Messages :
         /\ Cardinality(bracha_ready[r][l]) >= Threshold + 1 => Sent(r, l, readied')
         /\ Cardinality(bracha_ready[r][l]) >= 2 * Threshold + 1
               <=> Sent(r, l, delivered')
  BY <1>2, <1>3 DEF CompleteInv
<1>8. CompleteInv'
  BY <1>1, <1>5, <1>6, <1>7 DEF CompleteInv
<1>9. \A r \in Correct, l \in Messages : bracha_ready'[r][l] = bracha_ready[r][l]
  BY <1>1
<1> QED  BY <1>2, <1>4, <1>6, <1>8, <1>9 DEF OneMore

\* ready_received counts one at a time, and so it meets t+1 and 2t+1; as t > 0
\* these are two numbers, and the branches do not get in each other's way.
LEMMA ReadyCompletesAll ==
    ASSUME TypeOK, CompleteInv, NEW p \in Correct, NEW q \in Players, NEW m \in Messages,
           ReadyReceived(p, m, q)
    PROVE  /\ CompleteInv'
           /\ q \in bracha_ready'[p][m]
           /\ \A r \in Correct, l \in Messages :
                 /\ bracha_echo[r][l] \subseteq bracha_echo'[r][l]
                 /\ bracha_ready[r][l] \subseteq bracha_ready'[r][l]
                 /\ Sent(r, l, readied)' <=>
                       Sent(r, l, readied) \/ (ReadyCompletes(p, m, q) /\ r = p /\ l = m)
<1> DEFINE C == ReadyCompletes(p, m, q)
           D == ReadyDelivers(p, m, q)
<1>1. /\ UNCHANGED <<input, echoed, bracha_echo>>
      /\ bracha_ready' = [bracha_ready EXCEPT ![p][m] = @ \cup {q}]
      /\ readied' = IF C THEN [readied EXCEPT ![p] = Append(@, m)] ELSE readied
      /\ delivered' = IF D THEN [delivered EXCEPT ![p] = Append(@, m)] ELSE delivered
      /\ bracha_ready \in [Correct -> [Messages -> SUBSET Players]]
      /\ readied \in [Correct -> Seq(Messages)] /\ C \in BOOLEAN
      /\ delivered \in [Correct -> Seq(Messages)] /\ D \in BOOLEAN
  BY DEF ReadyReceived, TypeOK, ReadyCompletes, ReadyDelivers
<1>2. \A r \in Correct, l \in Messages :
         Sent(r, l, readied') <=> Sent(r, l, readied) \/ (C /\ r = p /\ l = m)
  <2> HIDE DEF C, D
  <2>1. CASE C
    <3>1. Grown(readied, readied', p, m)
      BY <1>1, <2>1, SentAppend
    <3> QED  BY <2>1, <3>1 DEF Grown
  <2>2. CASE ~C
    BY <1>1, <2>2
  <2> QED  BY <2>1, <2>2
<1>3. \A r \in Correct, l \in Messages :
         Sent(r, l, delivered') <=> Sent(r, l, delivered) \/ (D /\ r = p /\ l = m)
  <2> HIDE DEF C, D
  <2>1. CASE D
    <3>1. Grown(delivered, delivered', p, m)
      BY <1>1, <2>1, SentAppend
    <3> QED  BY <2>1, <3>1 DEF Grown
  <2>2. CASE ~D
    BY <1>1, <2>2
  <2> QED  BY <2>1, <2>2
<1> DEFINE c == bracha_ready
           d == bracha_ready'
<1>4. OneMore(c, d, p, m, q)
  BY <1>1, CountExact
<1>5. Threshold \in Nat \ {0}
  BY BroadcastAssumption
<1>6. \A r \in Correct, l \in Messages :
         /\ Cardinality(d[r][l]) >= Threshold + 1 => Sent(r, l, readied')
         /\ Cardinality(d[r][l]) >= 2 * Threshold + 1 <=> Sent(r, l, delivered')
  <2> SUFFICES ASSUME NEW l \in Messages, NEW r \in Correct
               PROVE  /\ Cardinality(d[r][l]) >= Threshold + 1 => Sent(r, l, readied')
                      /\ Cardinality(d[r][l]) >= 2 * Threshold + 1
                            <=> Sent(r, l, delivered')
    OBVIOUS
  <2>0. /\ Cardinality(c[r][l]) >= Threshold + 1 => Sent(r, l, readied)
        /\ Cardinality(c[r][l]) >= 2 * Threshold + 1 <=> Sent(r, l, delivered)
    BY DEF CompleteInv
  <2>1. CASE d[r][l] = c[r][l] /\ ~(r = p /\ l = m /\ q \notin c[p][m])
    <3>1. ~(C /\ r = p /\ l = m) /\ ~(D /\ r = p /\ l = m)
      BY <2>1 DEF ReadyCompletes, ReadyDelivers
    <3> QED  BY <2>0, <2>1, <3>1, <1>2, <1>3
  <2>2. CASE r = p /\ l = m /\ q \notin c[p][m]
    <3> DEFINE k == Cardinality(c[p][m])
    <3>1. k \in Nat /\ Cardinality(d[p][m]) = k + 1
      BY <2>2, <1>4 DEF OneMore
    <3>2. C <=> k + 1 = Threshold + 1 /\ ~Sent(p, m, readied)
      BY <2>2, <1>4, <3>1 DEF ReadyCompletes, OneMore
    <3>3. D <=> ~C /\ k + 1 = 2 * Threshold + 1 /\ ~Sent(p, m, delivered)
      BY <2>2, <1>4, <3>1 DEF ReadyDelivers, OneMore
    <3>4. /\ k >= Threshold + 1 => Sent(p, m, readied)
          /\ k >= 2 * Threshold + 1 <=> Sent(p, m, delivered)
      BY <2>0, <2>2
    <3>5. /\ Sent(p, m, readied') <=> Sent(p, m, readied) \/ C
          /\ Sent(p, m, delivered') <=> Sent(p, m, delivered) \/ D
      BY <1>2, <1>3
    <3> HIDE DEF k, C, D
    <3>6. k + 1 >= Threshold + 1 => Sent(p, m, readied')
      BY <3>1, <3>2, <3>4, <3>5, <1>5
    <3>7. k + 1 >= 2 * Threshold + 1 <=> Sent(p, m, delivered')
      BY <3>1, <3>2, <3>3, <3>4, <3>5, <1>5
    <3> QED  BY <2>2, <3>1, <3>6, <3>7
  <2> QED  BY <2>1, <2>2, <1>4 DEF OneMore
<1>7. \A r \in Correct, l \in Messages :
         /\ Sent(r, l, readied)' <=> Sent(r, l, readied')
         /\ Sent(r, l, delivered)' <=> Sent(r, l, delivered')
  BY DEF Sent
<1>8. \A r \in Correct, l \in Messages :
         Cardinality(bracha_echo[r][l]) >= EchoQuorum => Sent(r, l, readied')
  BY <1>2 DEF CompleteInv
<1>9. CompleteInv'
  BY <1>1, <1>6, <1>7, <1>8 DEF CompleteInv
<1>10. \A r \in Correct, l \in Messages : bracha_echo'[r][l] = bracha_echo[r][l]
  BY <1>1
<1> QED  BY <1>2, <1>4, <1>7, <1>9, <1>10 DEF OneMore

\* A frame that is pushed is there, and so are those below it.
LEMMA FramesPushed ==
    ASSUME TypeOK, NEW p \in Correct, NEW f \in Frame,
           stack' = [stack EXCEPT ![p] = <<f>> \o @]
    PROVE  /\ f \in Frames(p)'
           /\ \A q \in Correct : Frames(q) \subseteq Frames(q)'
<1> DEFINE s == stack[p]
           t == <<f>> \o s
<1>1. /\ s \in Seq(Frame) /\ stack'[p] = t
      /\ \A q \in Correct : q # p => stack'[q] = stack[q]
  BY DEF TypeOK
<1>2. /\ Len(t) = Len(s) + 1 /\ Len(s) \in Nat /\ t[1] = f
      /\ \A i \in 1..Len(s) : t[i + 1] = s[i] /\ i + 1 \in 1..Len(t)
  BY <1>1
<1> HIDE DEF t, s
<1>3. 1 \in 1..Len(t)
  BY <1>2
<1>4. f \in Frames(p)'
  BY <1>1, <1>2, <1>3 DEF Frames
<1>5. Frames(p) \subseteq Frames(p)'
  BY <1>1, <1>2 DEF Frames, s
<1>6. \A q \in Correct : q # p => Frames(q) = Frames(q)'
  BY <1>1 DEF Frames
<1> QED  BY <1>4, <1>5, <1>6

\* When the call on top of the stack of p ends or goes on with f, the frames below
\* are still there.
LEMMA FramesPopped ==
    ASSUME TypeOK, NEW p \in Correct, NEW f \in Frame, stack[p] # <<>>,
           \/ stack' = [stack EXCEPT ![p] = Tail(@)]
           \/ stack' = [stack EXCEPT ![p] = <<f>> \o Tail(@)]
    PROVE  /\ \A q \in Correct : \A g \in Frames(q) :
                 g \in Frames(q)' \/ (q = p /\ g = Head(stack[p]))
           /\ stack' = [stack EXCEPT ![p] = <<f>> \o Tail(@)] => f \in Frames(p)'
<1> DEFINE s == stack[p]
           u == Tail(s)
           t == <<f>> \o u
<1>1. /\ s \in Seq(Frame) /\ s # <<>>
      /\ \A q \in Correct : q # p => stack'[q] = stack[q]
      /\ stack'[p] = u \/ stack'[p] = t
      /\ stack' = [stack EXCEPT ![p] = <<f>> \o Tail(@)] => stack'[p] = t
  BY DEF TypeOK
<1>2. /\ u \in Seq(Frame) /\ Len(s) \in Nat /\ Len(u) = Len(s) - 1 /\ Head(s) = s[1]
      /\ \A i \in 1..Len(s) : i # 1 => i - 1 \in 1..Len(u) /\ u[i - 1] = s[i]
  <2>1. /\ u \in Seq(Frame) /\ Len(s) \in Nat /\ Len(u) = Len(s) - 1 /\ Head(s) = s[1]
        /\ \A i \in 1..Len(u) : u[i] = s[i + 1]
    BY <1>1
  <2> HIDE DEF u, s
  <2>2. ASSUME NEW i \in 1..Len(s), i # 1
        PROVE  i - 1 \in 1..Len(u) /\ u[i - 1] = s[i]
    <3>1. i - 1 \in 1..Len(u) /\ (i - 1) + 1 = i
      BY <2>1, <2>2
    <3> QED  BY <2>1, <3>1
  <2> QED  BY <2>1, <2>2
<1>3. /\ Len(t) = Len(u) + 1 /\ Len(u) \in Nat /\ t[1] = f
      /\ \A i \in 1..Len(u) : t[i + 1] = u[i] /\ i + 1 \in 1..Len(t)
  <2> HIDE DEF u, s
  <2> QED  BY <1>2
<1> HIDE DEF u, s, t
<1>4. ASSUME NEW g \in Frames(p), g # s[1] PROVE g \in Frames(p)'
  <2>1. PICK i \in 1..Len(s) : g = s[i]
    BY DEF Frames, s
  <2>2. i - 1 \in 1..Len(u) /\ g = u[i - 1]
    BY <1>2, <1>4, <2>1
  <2>3. CASE stack'[p] = u
    BY <2>2, <2>3 DEF Frames
  <2>4. CASE stack'[p] = t
    <3>1. t[(i - 1) + 1] = g /\ (i - 1) + 1 \in 1..Len(t)
      BY <1>3, <2>2
    <3> QED  BY <2>4, <3>1 DEF Frames
  <2> QED  BY <1>1, <2>3, <2>4
<1>5. ASSUME stack'[p] = t PROVE f \in Frames(p)'
  <2>1. 1 \in 1..Len(t)
    BY <1>3
  <2> QED  BY <1>3, <1>5, <2>1 DEF Frames
<1>6. \A q \in Correct : q # p => Frames(q) = Frames(q)'
  BY <1>1 DEF Frames
<1> QED  BY <1>1, <1>2, <1>4, <1>5, <1>6 DEF s

\* A step of p that ends the call h, if any, keeps OwnInv if it has counted what h
\* was to count, and begins a call for all that p sends.
LEMMA OwnKept ==
    ASSUME IInv, IInv', OwnInv, NEW p \in Correct, NEW h,
           \A q \in Correct : \A g \in Frames(q) :
              g \in Frames(q)' \/ (q = p /\ g = h),
           \A m \in Messages :
              /\ h = Call("send", m) => echoed'[p] = m
              /\ h = Call("echo", m) => p \in bracha_echo'[p][m]
              /\ h = Call("ready", m) => p \in bracha_ready'[p][m],
           \/ input' = input
           \/ p = Sender /\ Call("send", input') \in Frames(p)',
           \A q \in Correct :
              \/ echoed'[q] = echoed[q]
              \/ /\ q = p /\ echoed'[p] \in Messages
                 /\ Call("echo", echoed'[p]) \in Frames(p)',
           \A q \in Correct, m \in Messages :
              /\ bracha_echo[q][m] \subseteq bracha_echo'[q][m]
              /\ bracha_ready[q][m] \subseteq bracha_ready'[q][m]
              /\ Sent(q, m, readied)' =>
                    \/ Sent(q, m, readied)
                    \/ q = p /\ Call("ready", m) \in Frames(p)'
    PROVE  OwnInv'
<1>1. /\ input \in Messages \cup {NoMessage} /\ input' \in Messages \cup {NoMessage}
      /\ \A q \in Correct : echoed[q] \in Messages \cup {NoMessage}
      /\ NoMessage \notin Messages
  BY BroadcastAssumption DEF IInv, TypeOK
<1>0. input' # NoMessage => Sender \in Correct
  BY DEF OwnInv
<1> SUFFICES ASSUME NEW q \in Correct
             PROVE  /\ q = Sender /\ input' # NoMessage =>
                          echoed'[q] = input' \/ Call("send", input') \in Frames(q)'
                    /\ echoed'[q] # NoMessage =>
                          \/ q \in bracha_echo'[q][echoed'[q]]
                          \/ Call("echo", echoed'[q]) \in Frames(q)'
                    /\ \A m \in Messages : Sent(q, m, readied)' =>
                          q \in bracha_ready'[q][m] \/ Call("ready", m) \in Frames(q)'
  BY <1>0 DEF OwnInv, Call
<1>2. ASSUME q = Sender, input' # NoMessage
      PROVE  echoed'[q] = input' \/ Call("send", input') \in Frames(q)'
  <2>1. CASE input' = input
    <3>1. CASE echoed[q] = input
      <4>1. echoed'[q] = echoed[q] \/ echoed'[q] \in Messages
        OBVIOUS
      <4>2. echoed'[q] \in {NoMessage, input'}
        BY <1>2 DEF IInv, EchoedInv
      <4> QED  BY <3>1, <2>1, <4>1, <4>2, <1>1
    <3>2. CASE Call("send", input) \in Frames(q)
      <4>1. \/ Call("send", input) \in Frames(q)'
            \/ q = p /\ Call("send", input) = h
        BY <3>2
      <4>2. input \in Messages
        BY <1>1, <1>2, <2>1
      <4> QED  BY <4>1, <4>2, <2>1
    <3> QED  BY <1>2, <2>1, <3>1, <3>2 DEF OwnInv
  <2>2. CASE p = Sender /\ Call("send", input') \in Frames(p)'
    BY <2>2, <1>2
  <2> QED  BY <2>1, <2>2
<1>3. ASSUME echoed'[q] # NoMessage
      PROVE  \/ q \in bracha_echo'[q][echoed'[q]]
             \/ Call("echo", echoed'[q]) \in Frames(q)'
  <2>1. CASE echoed'[q] = echoed[q]
    <3> DEFINE m == echoed[q]
    <3>1. m \in Messages /\ echoed'[q] = m
      BY <2>1, <1>1, <1>3
    <3>2. q \in bracha_echo[q][m] \/ Call("echo", m) \in Frames(q)
      BY <1>3, <2>1 DEF OwnInv
    <3> HIDE DEF m
    <3>3. CASE q \in bracha_echo[q][m]
      BY <3>1, <3>3
    <3>4. CASE Call("echo", m) \in Frames(q)
      <4>1. Call("echo", m) \in Frames(q)' \/ (q = p /\ Call("echo", m) = h)
        BY <3>4
      <4> QED  BY <4>1, <3>1
    <3> QED  BY <3>2, <3>3, <3>4
  <2>2. CASE q = p /\ Call("echo", echoed'[p]) \in Frames(p)'
    BY <2>2
  <2> QED  BY <2>1, <2>2
<1>4. ASSUME NEW m \in Messages, Sent(q, m, readied)'
      PROVE  q \in bracha_ready'[q][m] \/ Call("ready", m) \in Frames(q)'
  <2>1. CASE Sent(q, m, readied)
    <3>1. q \in bracha_ready[q][m] \/ Call("ready", m) \in Frames(q)
      BY <2>1 DEF OwnInv
    <3>2. CASE q \in bracha_ready[q][m]
      BY <3>2
    <3>3. CASE Call("ready", m) \in Frames(q)
      <4>1. Call("ready", m) \in Frames(q)' \/ (q = p /\ Call("ready", m) = h)
        BY <3>3
      <4> QED  BY <4>1
    <3> QED  BY <3>1, <3>2, <3>3
  <2>2. CASE q = p /\ Call("ready", m) \in Frames(p)'
    BY <2>2
  <2> QED  BY <1>4, <2>1, <2>2
<1> QED  BY <1>2, <1>3, <1>4

\* What a step that counts nothing leaves as it is.
LEMMA NothingComplete ==
    ASSUME CompleteInv, UNCHANGED <<readied, bracha_echo, bracha_ready, delivered>>
    PROVE  /\ CompleteInv'
           /\ \A q \in Correct, m \in Messages :
                 /\ bracha_echo[q][m] \subseteq bracha_echo'[q][m]
                 /\ bracha_ready[q][m] \subseteq bracha_ready'[q][m]
                 /\ Sent(q, m, readied)' <=> Sent(q, m, readied)
<1>1. \A q \in Correct, m \in Messages :
         /\ Sent(q, m, readied)' <=> Sent(q, m, readied)
         /\ Sent(q, m, delivered)' <=> Sent(q, m, delivered)
  BY DEF Sent
<1>2. CompleteInv'
  BY <1>1 DEF CompleteInv
<1> QED  BY <1>1, <1>2

\* The three kinds of call are different, and none is this one.
Nobody == Call("none", NoMessage)

LEMMA CallsDiffer ==
    /\ \A m \in Messages : \A c \in {"send", "echo", "ready"} :
          Call(c, m) \in Frame /\ Nobody # Call(c, m)
    /\ \A m, l : \A c, d \in {"send", "echo", "ready"} :
          Call(c, m) = Call(d, l) => c = d /\ m = l
<1>1. ASSUME NEW m, NEW l, NEW c, NEW d, Call(c, m) = Call(d, l)
      PROVE  c = d /\ m = l
  <2>1. Call(c, m).call = Call(d, l).call /\ Call(c, m).message = Call(d, l).message
    BY <1>1
  <2> QED  BY <2>1 DEF Call
<1>2. \A m \in Messages : \A c \in {"send", "echo", "ready"} : Call(c, m) \in Frame
  BY DEF Frame, Call
<1>3. ASSUME NEW m, NEW c \in {"send", "echo", "ready"}, Nobody = Call(c, m) PROVE FALSE
  <2>1. c = "none"
    BY <1>1, <1>3 DEF Nobody
  <2> QED  BY <2>1
<1> QED  BY <1>1, <1>2, <1>3

\* The three steps by which a player gets something, from another one or the caller.
LEMMA ReceiveOwn ==
    ASSUME IInv, IInv', CompleteInv, OwnInv,
           NEW p \in Correct, NEW q \in Players, NEW m \in Messages,
           \/ p = Sender /\ Broadcast(m)
           \/ ReceiveSend(p, m)
           \/ ReceiveEcho(p, q, m)
           \/ ReceiveReady(p, q, m)
    PROVE  CompleteInv' /\ OwnInv'
<1>1. TypeOK /\ TypeOK' /\ NoMessage \notin Messages
  BY BroadcastAssumption DEF IInv
<1>2. \A c \in {"send", "echo", "ready"} : Call(c, m) \in Frame
  BY CallsDiffer
<1>3. PICK none : \A l \in Messages :
         /\ none = Call("send", l) => echoed'[p] = l
         /\ none = Call("echo", l) => p \in bracha_echo'[p][l]
         /\ none = Call("ready", l) => p \in bracha_ready'[p][l]
  BY CallsDiffer
<1>4. CASE p = Sender /\ Broadcast(m)
  <2>1. /\ input' = m
        /\ stack' = [stack EXCEPT ![p] = <<Call("send", m)>> \o @]
        /\ UNCHANGED <<echoed, readied, bracha_echo, bracha_ready, delivered>>
    BY <1>4 DEF Broadcast, Push, Call
  <2>2. /\ Call("send", m) \in Frames(p)'
        /\ \A r \in Correct : \A g \in Frames(r) :
              g \in Frames(r)' \/ (r = p /\ g = none)
    BY <2>1, <1>1, <1>2, FramesPushed
  <2>3. /\ CompleteInv'
        /\ \A r \in Correct, l \in Messages :
              /\ bracha_echo[r][l] \subseteq bracha_echo'[r][l]
              /\ bracha_ready[r][l] \subseteq bracha_ready'[r][l]
              /\ Sent(r, l, readied)' <=> Sent(r, l, readied)
    BY <2>1, NothingComplete
  <2>4. OwnInv'
    BY <1>3, <1>4, <2>1, <2>2, <2>3, OwnKept
  <2> QED  BY <2>3, <2>4
<1>5. CASE ReceiveSend(p, m)
  <2>1. /\ echoed' = [echoed EXCEPT ![p] = m]
        /\ stack' = [stack EXCEPT ![p] = <<Call("echo", m)>> \o @]
        /\ UNCHANGED <<input, readied, bracha_echo, bracha_ready, delivered>>
    BY <1>5 DEF ReceiveSend, SendReceived, Push, Call
  <2>2. /\ Call("echo", m) \in Frames(p)'
        /\ \A r \in Correct : \A g \in Frames(r) :
              g \in Frames(r)' \/ (r = p /\ g = none)
    BY <2>1, <1>1, <1>2, FramesPushed
  <2>3. /\ CompleteInv'
        /\ \A r \in Correct, l \in Messages :
              /\ bracha_echo[r][l] \subseteq bracha_echo'[r][l]
              /\ bracha_ready[r][l] \subseteq bracha_ready'[r][l]
              /\ Sent(r, l, readied)' <=> Sent(r, l, readied)
    BY <2>1, NothingComplete
  <2>4. echoed'[p] = m /\ \A r \in Correct : r # p => echoed'[r] = echoed[r]
    BY <2>1, <1>1 DEF TypeOK
  <2>5. OwnInv'
    BY <1>3, <2>1, <2>2, <2>3, <2>4, OwnKept
  <2> QED  BY <2>3, <2>5
<1>6. CASE ReceiveEcho(p, q, m)
  <2>1. /\ EchoReceived(p, m, q) /\ UNCHANGED <<input, echoed>>
        /\ EchoCompletes(p, m, q) =>
              stack' = [stack EXCEPT ![p] = <<Call("ready", m)>> \o @]
        /\ ~EchoCompletes(p, m, q) => UNCHANGED stack
    BY <1>6 DEF ReceiveEcho, EchoReceived, PushIf, Push, Call
  <2>2. /\ EchoCompletes(p, m, q) => Call("ready", m) \in Frames(p)'
        /\ \A r \in Correct : \A g \in Frames(r) :
              g \in Frames(r)' \/ (r = p /\ g = none)
    <3>1. CASE EchoCompletes(p, m, q)
      BY <3>1, <2>1, <1>1, <1>2, FramesPushed
    <3>2. CASE ~EchoCompletes(p, m, q)
      BY <3>2, <2>1 DEF Frames
    <3> QED  BY <3>1, <3>2
  <2>3. /\ CompleteInv'
        /\ \A r \in Correct, l \in Messages :
              /\ bracha_echo[r][l] \subseteq bracha_echo'[r][l]
              /\ bracha_ready[r][l] \subseteq bracha_ready'[r][l]
              /\ Sent(r, l, readied)' <=>
                    Sent(r, l, readied) \/ (EchoCompletes(p, m, q) /\ r = p /\ l = m)
    BY <2>1, <1>1, EchoCompletesAll
  <2>4. OwnInv'
    BY <1>3, <2>1, <2>2, <2>3, OwnKept
  <2> QED  BY <2>3, <2>4
<1>7. CASE ReceiveReady(p, q, m)
  <2>1. /\ ReadyReceived(p, m, q) /\ UNCHANGED <<input, echoed>>
        /\ ReadyCompletes(p, m, q) =>
              stack' = [stack EXCEPT ![p] = <<Call("ready", m)>> \o @]
        /\ ~ReadyCompletes(p, m, q) => UNCHANGED stack
    BY <1>7 DEF ReceiveReady, ReadyReceived, PushIf, Push, Call
  <2>2. /\ ReadyCompletes(p, m, q) => Call("ready", m) \in Frames(p)'
        /\ \A r \in Correct : \A g \in Frames(r) :
              g \in Frames(r)' \/ (r = p /\ g = none)
    <3>1. CASE ReadyCompletes(p, m, q)
      BY <3>1, <2>1, <1>1, <1>2, FramesPushed
    <3>2. CASE ~ReadyCompletes(p, m, q)
      BY <3>2, <2>1 DEF Frames
    <3> QED  BY <3>1, <3>2
  <2>3. /\ CompleteInv'
        /\ \A r \in Correct, l \in Messages :
              /\ bracha_echo[r][l] \subseteq bracha_echo'[r][l]
              /\ bracha_ready[r][l] \subseteq bracha_ready'[r][l]
              /\ Sent(r, l, readied)' <=>
                    Sent(r, l, readied) \/ (ReadyCompletes(p, m, q) /\ r = p /\ l = m)
    BY <2>1, <1>1, ReadyCompletesAll
  <2>4. OwnInv'
    BY <1>3, <2>1, <2>2, <2>3, OwnKept
  <2> QED  BY <2>3, <2>4
<1> QED  BY <1>4, <1>5, <1>6, <1>7

\* An interrupted call that goes on counts what it was to count.
LEMMA ReturnOwn ==
    ASSUME IInv, IInv', CompleteInv, OwnInv, NEW p \in Correct, Return(p)
    PROVE  CompleteInv' /\ OwnInv'
<1>1. TypeOK /\ TypeOK' /\ stack[p] # <<>> /\ p \in Players /\ NoMessage \notin Messages
  BY BroadcastAssumption DEF IInv, Return, Correct
<1>2. PICK top \in Frame : top = Head(stack[p])
  <2>1. stack[p] \in Seq(Frame)
    BY <1>1 DEF TypeOK
  <2> QED  BY <2>1, <1>1
<1>3. PICK m \in Messages : m = top.message
  BY <1>2 DEF Frame
<1>4. top = Call(top.call, m) /\ top.call \in {"send", "echo", "ready"}
  BY <1>2, <1>3 DEF Frame, Call
<1>5. \A c \in {"send", "echo", "ready"} : Call(c, m) \in Frame
  BY CallsDiffer
<1>6. \A l \in Messages :
         /\ top = Call("send", l) => top.call = "send" /\ l = m
         /\ top = Call("echo", l) => top.call = "echo" /\ l = m
         /\ top = Call("ready", l) => top.call = "ready" /\ l = m
  BY <1>4, CallsDiffer
<1>7. CASE /\ top.call = "send"
           /\ SendReceived(p, m)
           /\ stack' = [stack EXCEPT ![p] = <<Call("echo", m)>> \o Tail(@)]
  <2>1. /\ echoed' = [echoed EXCEPT ![p] = m]
        /\ UNCHANGED <<input, readied, bracha_echo, bracha_ready, delivered>>
    BY <1>7 DEF SendReceived
  <2>2. /\ \A r \in Correct : \A g \in Frames(r) :
              g \in Frames(r)' \/ (r = p /\ g = top)
        /\ Call("echo", m) \in Frames(p)'
    BY <1>1, <1>2, <1>5, <1>7, FramesPopped
  <2>3. /\ CompleteInv'
        /\ \A r \in Correct, l \in Messages :
              /\ bracha_echo[r][l] \subseteq bracha_echo'[r][l]
              /\ bracha_ready[r][l] \subseteq bracha_ready'[r][l]
              /\ Sent(r, l, readied)' <=> Sent(r, l, readied)
    BY <2>1, NothingComplete
  <2>4. echoed'[p] = m /\ \A r \in Correct : r # p => echoed'[r] = echoed[r]
    BY <2>1, <1>1 DEF TypeOK
  <2>5. \A l \in Messages :
           /\ top = Call("send", l) => echoed'[p] = l
           /\ top = Call("echo", l) => p \in bracha_echo'[p][l]
           /\ top = Call("ready", l) => p \in bracha_ready'[p][l]
    BY <1>6, <1>7, <2>4
  <2>6. OwnInv'
    BY <2>1, <2>2, <2>3, <2>4, <2>5, OwnKept
  <2> QED  BY <2>3, <2>6
<1>8. CASE /\ top.call = "echo"
           /\ EchoReceived(p, m, p)
           /\ stack' = IF EchoCompletes(p, m, p)
                       THEN [stack EXCEPT ![p] = <<Call("ready", m)>> \o Tail(@)]
                       ELSE [stack EXCEPT ![p] = Tail(@)]
  <2>1. UNCHANGED <<input, echoed>>
    BY <1>8 DEF EchoReceived
  <2>2. /\ \A r \in Correct : \A g \in Frames(r) :
              g \in Frames(r)' \/ (r = p /\ g = top)
        /\ EchoCompletes(p, m, p) => Call("ready", m) \in Frames(p)'
    BY <1>1, <1>2, <1>5, <1>8, FramesPopped
  <2>3. /\ CompleteInv'
        /\ p \in bracha_echo'[p][m]
        /\ \A r \in Correct, l \in Messages :
              /\ bracha_echo[r][l] \subseteq bracha_echo'[r][l]
              /\ bracha_ready[r][l] \subseteq bracha_ready'[r][l]
              /\ Sent(r, l, readied)' <=>
                    Sent(r, l, readied) \/ (EchoCompletes(p, m, p) /\ r = p /\ l = m)
    BY <1>1, <1>8, EchoCompletesAll
  <2>4. \A l \in Messages :
           /\ top = Call("send", l) => echoed'[p] = l
           /\ top = Call("echo", l) => p \in bracha_echo'[p][l]
           /\ top = Call("ready", l) => p \in bracha_ready'[p][l]
    BY <1>6, <1>8, <2>3
  <2>5. OwnInv'
    BY <2>1, <2>2, <2>3, <2>4, OwnKept
  <2> QED  BY <2>3, <2>5
<1>9. CASE /\ top.call = "ready"
           /\ ReadyReceived(p, m, p)
           /\ stack' = IF ReadyCompletes(p, m, p)
                       THEN [stack EXCEPT ![p] = <<Call("ready", m)>> \o Tail(@)]
                       ELSE [stack EXCEPT ![p] = Tail(@)]
  <2>1. UNCHANGED <<input, echoed>>
    BY <1>9 DEF ReadyReceived
  <2>2. /\ \A r \in Correct : \A g \in Frames(r) :
              g \in Frames(r)' \/ (r = p /\ g = top)
        /\ ReadyCompletes(p, m, p) => Call("ready", m) \in Frames(p)'
    BY <1>1, <1>2, <1>5, <1>9, FramesPopped
  <2>3. /\ CompleteInv'
        /\ p \in bracha_ready'[p][m]
        /\ \A r \in Correct, l \in Messages :
              /\ bracha_echo[r][l] \subseteq bracha_echo'[r][l]
              /\ bracha_ready[r][l] \subseteq bracha_ready'[r][l]
              /\ Sent(r, l, readied)' <=>
                    Sent(r, l, readied) \/ (ReadyCompletes(p, m, p) /\ r = p /\ l = m)
    BY <1>1, <1>9, ReadyCompletesAll
  <2>4. \A l \in Messages :
           /\ top = Call("send", l) => echoed'[p] = l
           /\ top = Call("echo", l) => p \in bracha_echo'[p][l]
           /\ top = Call("ready", l) => p \in bracha_ready'[p][l]
    BY <1>6, <1>9, <2>3
  <2>5. OwnInv'
    BY <2>1, <2>2, <2>3, <2>4, OwnKept
  <2> QED  BY <2>3, <2>5
<1> QED  BY <1>2, <1>3, <1>7, <1>8, <1>9 DEF Return, Pop, Call

\* A player that has counted all correct players has a quorum of ECHOs and enough
\* READYs, and of 2t+1 players t+1 are correct.
LEMMA CorrectSuffice ==
    ASSUME NEW S \in SUBSET Players
    PROVE  /\ Correct \subseteq S =>
                 Cardinality(S) >= EchoQuorum /\ Cardinality(S) >= 2 * Threshold + 1
           /\ Cardinality(S) >= 2 * Threshold + 1 =>
                 Cardinality(S \cap Correct) >= Threshold + 1
<1> DEFINE n == Cardinality(Players)
           b == Cardinality(Faulty)
           k == Cardinality(S)
           g == Cardinality(S \cap Correct)
           h == Cardinality(S \cap Faulty)
           c == Cardinality(Correct)
<1>1. /\ IsFiniteSet(S) /\ IsFiniteSet(Correct) /\ IsFiniteSet(Faulty)
      /\ IsFiniteSet(S \cap Correct) /\ IsFiniteSet(S \cap Faulty)
  BY Numbers, FS_Subset, BroadcastAssumption DEF Correct
<1>2. /\ k \in Nat /\ g \in Nat /\ h \in Nat /\ c \in Nat /\ n \in Nat /\ b \in Nat
  BY <1>1, Numbers, FS_CardinalityType
<1>3. h <= b
  BY <1>1, FS_Subset
<1>4. k = g + h
  <2>1. S = (S \cap Correct) \cup (S \cap Faulty) /\ (S \cap Correct) \cap (S \cap Faulty) = {}
    BY DEF Correct
  <2>2. Cardinality((S \cap Correct) \cup (S \cap Faulty)) = g + h - Cardinality({})
    BY <1>1, <2>1, FS_Union
  <2>3. Cardinality({}) = 0
    BY FS_EmptySet
  <2>4. k = g + h - 0
    BY <2>1, <2>2, <2>3
  <2> HIDE DEF k, g, h
  <2> QED  BY <2>4, <1>2
<1>5. n = c + b
  <2>1. Players = Correct \cup Faulty /\ Correct \cap Faulty = {}
    BY BroadcastAssumption DEF Correct
  <2>2. Cardinality(Correct \cup Faulty) = c + b - Cardinality({})
    BY <1>1, <2>1, FS_Union
  <2>3. Cardinality({}) = 0
    BY FS_EmptySet
  <2> HIDE DEF c, b
  <2> QED  BY <2>1, <2>2, <2>3, <1>2
<1>6. Correct \subseteq S => k >= c
  BY <1>1, FS_Subset
<1>7. b <= Threshold /\ Threshold \in Nat /\ 3 * Threshold < n
  BY BroadcastAssumption
<1> HIDE DEF n, b, k, g, h, c
<1>8. EchoQuorum <= c
  <2>1. (n + Threshold + 1) \div 2 <= n - Threshold
    BY <1>2, <1>7
  <2>2. (n + Threshold + 1) \div 2 \in Int
    BY <1>2, <1>7
  <2> QED  BY <2>1, <2>2, <1>2, <1>5, <1>7 DEF EchoQuorum, n
<1>9. EchoQuorum \in Nat
  BY Numbers
<1>10. /\ Correct \subseteq S => k >= EchoQuorum /\ k >= 2 * Threshold + 1
       /\ k >= 2 * Threshold + 1 => g >= Threshold + 1
  BY <1>2, <1>3, <1>4, <1>5, <1>6, <1>7, <1>8, <1>9
<1> QED  BY <1>10 DEF k, g

\* What the invariants say when all is quiet: everybody has counted everybody.
LEMMA QuietFollows ==
    ASSUME CannotSplit, IInv, CompleteInv, OwnInv
    PROVE  NoOneLeftBehind
<1> SUFFICES ASSUME Quiet
             PROVE  /\ \A p, q \in Correct : delivered[p] = <<>> => delivered[q] = <<>>
                    /\ input # NoMessage => \A p \in Correct : delivered[p] # <<>>
  BY DEF NoOneLeftBehind
<1>1. /\ TypeOK /\ NoMessage \notin Messages
      /\ \A p \in Correct : Frames(p) = {}
      /\ \A p \in Correct, m \in Messages :
            bracha_echo[p][m] \in SUBSET Players /\ bracha_ready[p][m] \in SUBSET Players
  BY BroadcastAssumption DEF IInv, TypeOK, Quiet, Frames
<1>2. ASSUME NEW p \in Correct, NEW q \in Correct, NEW m \in Messages,
             Sent(q, m, readied)
      PROVE  q \in bracha_ready[p][m]
  <2>1. CASE p = q
    BY <1>1, <1>2, <2>1 DEF OwnInv
  <2>2. CASE p # q
    <3>1. readied[q] # <<>>
      <4>1. PICK i \in 1..Len(readied[q]) : readied[q][i] = m
        BY <1>2 DEF Sent
      <4>2. readied[q] \in Seq(Messages)
        BY <1>1 DEF TypeOK
      <4> QED  BY <4>1, <4>2
    <3>2. PICK l \in Messages : q \in bracha_ready[p][l]
      BY <2>2, <3>1 DEF Quiet
    <3>3. Sent(q, l, readied)
      BY <3>2 DEF IInv, CountInv
    <3>4. l = m
      BY <1>2, <3>3, OneReadyFollows DEF OneReady
    <3> QED  BY <3>2, <3>4
  <2> QED  BY <2>1, <2>2
<1>3. ASSUME NEW m \in Messages, \A q \in Correct : Sent(q, m, readied),
             NEW p \in Correct
      PROVE  delivered[p] # <<>>
  <2>1. Correct \subseteq bracha_ready[p][m]
    BY <1>2, <1>3
  <2>2. Cardinality(bracha_ready[p][m]) >= 2 * Threshold + 1
    BY <1>1, <2>1, CorrectSuffice
  <2>3. Sent(p, m, delivered)
    BY <2>2 DEF CompleteInv
  <2>4. PICK i \in 1..Len(delivered[p]) : delivered[p][i] = m
    BY <2>3 DEF Sent
  <2>5. delivered[p] \in Seq(Messages)
    BY <1>1 DEF TypeOK
  <2> QED  BY <2>4, <2>5
<1>4. ASSUME NEW q \in Correct, delivered[q] # <<>>, NEW p \in Correct
      PROVE  delivered[p] # <<>>
  <2>1. PICK m \in Messages : Sent(q, m, delivered)
    <3>1. delivered[q] \in Seq(Messages) /\ 1 \in 1..Len(delivered[q])
      BY <1>1, <1>4 DEF TypeOK
    <3> QED  BY <3>1 DEF Sent
  <2> DEFINE S == bracha_ready[q][m] \cap Correct
  <2>2. Cardinality(S) >= Threshold + 1
    <3>1. Cardinality(bracha_ready[q][m]) >= 2 * Threshold + 1
      BY <2>1 DEF CompleteInv
    <3> QED  BY <1>1, <3>1, CorrectSuffice
  <2>3. \A c \in S : Sent(c, m, readied)
    BY DEF IInv, CountInv
  <2>4. ASSUME NEW r \in Correct PROVE Sent(r, m, readied)
    <3>1. S \subseteq bracha_ready[r][m]
      BY <1>2, <2>3
    <3>2. IsFiniteSet(bracha_ready[r][m])
      BY <1>1, Numbers, FS_Subset
    <3>3. /\ Cardinality(S) <= Cardinality(bracha_ready[r][m])
          /\ Cardinality(S) \in Nat /\ Cardinality(bracha_ready[r][m]) \in Nat
      BY <3>1, <3>2, FS_Subset, FS_CardinalityType
    <3> HIDE DEF S
    <3>4. Cardinality(bracha_ready[r][m]) >= Threshold + 1
      BY <2>2, <3>3, Numbers
    <3> QED  BY <3>4 DEF CompleteInv
  <2> QED  BY <1>3, <2>4
<1>5. ASSUME input # NoMessage, NEW p \in Correct
      PROVE  delivered[p] # <<>>
  <2>1. Sender \in Correct /\ input \in Messages
    BY <1>1, <1>5 DEF OwnInv, TypeOK
  <2>2. \A q \in Correct : echoed[q] = input
    <3>1. echoed[Sender] = input
      BY <1>1, <1>5, <2>1 DEF OwnInv
    <3>2. \A q \in Correct \ {Sender} : echoed[q] # NoMessage
      BY <1>5, <2>1 DEF Quiet
    <3> QED  BY <2>1, <3>1, <3>2 DEF IInv, EchoedInv
  <2>3. ASSUME NEW r \in Correct PROVE Sent(r, input, readied)
    <3>1. ASSUME NEW q \in Correct PROVE q \in bracha_echo[r][input]
      <4>1. CASE q = r
        BY <1>1, <1>5, <2>2, <4>1 DEF OwnInv
      <4>2. CASE q # r
        <5>1. PICK m \in Messages : q \in bracha_echo[r][m]
          BY <1>5, <2>2, <4>2 DEF Quiet
        <5>2. m = input
          BY <2>2, <5>1 DEF IInv, CountInv
        <5> QED  BY <5>1, <5>2
      <4> QED  BY <4>1, <4>2
    <3>2. Cardinality(bracha_echo[r][input]) >= EchoQuorum
      BY <1>1, <2>1, <3>1, CorrectSuffice
    <3> QED  BY <2>1, <3>2 DEF CompleteInv
  <2> QED  BY <1>3, <2>1, <2>3
<1> QED  BY <1>4, <1>5

\* Players count what they sent themselves, and no count passes its threshold
\* without what is to be done at it, in whatever order messages come and however
\* deep handlers interrupt each other.
THEOREM NothingMissed == Spec => [](CompleteInv /\ OwnInv)
<1>1. Init => CompleteInv /\ OwnInv
  <2> SUFFICES ASSUME Init PROVE CompleteInv /\ OwnInv
    OBVIOUS
  <2>1. \A p \in Correct, m \in Messages :
           /\ ~Sent(p, m, readied) /\ ~Sent(p, m, delivered)
           /\ bracha_echo[p][m] = {} /\ bracha_ready[p][m] = {}
    BY DEF Init, Sent
  <2>2. Cardinality({}) = 0
    BY FS_EmptySet
  <2>3. EchoQuorum > 0 /\ Threshold + 1 > 0 /\ 2 * Threshold + 1 > 0
    BY Numbers
  <2>4. ~(0 >= EchoQuorum) /\ ~(0 >= Threshold + 1) /\ ~(0 >= 2 * Threshold + 1)
    BY <2>3, Numbers
  <2>5. CompleteInv
    BY <2>1, <2>2, <2>4 DEF CompleteInv
  <2>6. OwnInv
    BY <2>1 DEF OwnInv, Init
  <2> QED  BY <2>5, <2>6
<1>2. IInv /\ IInv' /\ CompleteInv /\ OwnInv /\ [Next]_vars => (CompleteInv /\ OwnInv)'
  <2> SUFFICES ASSUME IInv, IInv', CompleteInv, OwnInv, [Next]_vars
               PROVE  CompleteInv' /\ OwnInv'
    OBVIOUS
  <2>1. ASSUME NEW m \in Messages, Broadcast(m) PROVE CompleteInv' /\ OwnInv'
    <3>1. Sender \in Correct /\ Sender \in Players
      BY <2>1 DEF Broadcast, Correct
    <3> QED  BY <2>1, <3>1, ReceiveOwn
  <2>2. ASSUME NEW p \in Correct, NEW m \in Messages, ReceiveSend(p, m)
        PROVE  CompleteInv' /\ OwnInv'
    <3>1. p \in Players
      BY DEF Correct
    <3> QED  BY <2>2, <3>1, ReceiveOwn
  <2>3. ASSUME NEW p \in Correct, NEW q \in Players, NEW m \in Messages,
               ReceiveEcho(p, q, m) \/ ReceiveReady(p, q, m)
        PROVE  CompleteInv' /\ OwnInv'
    BY <2>3, ReceiveOwn
  <2>4. ASSUME NEW p \in Correct, Return(p) PROVE CompleteInv' /\ OwnInv'
    BY <2>4, ReturnOwn
  <2>5. CASE UNCHANGED vars
    <3>1. CompleteInv'
      BY <2>5, NothingComplete DEF vars
    <3>2. OwnInv'
      BY <2>5 DEF vars, OwnInv, Frames, Sent, Call
    <3> QED  BY <3>1, <3>2
  <2> QED  BY <2>1, <2>2, <2>3, <2>4, <2>5 DEF Next
<1> QED  BY <1>1, <1>2, Inductive, PTL DEF Spec

\* When nothing is left to receive, all correct players have a result or none has,
\* and all have one if the sender is correct.
THEOREM NoOneLeftBehindHolds == ASSUME CannotSplit PROVE Spec => []NoOneLeftBehind
<1>1. IInv /\ CompleteInv /\ OwnInv => NoOneLeftBehind
  BY QuietFollows
<1> QED  BY <1>1, Inductive, NothingMissed, PTL
==============================================================================
