-------------------------- MODULE Connections_proofs --------------------------
(***************************************************************************)
(* Proofs about Connections, for every number of players, threshold and    *)
(* set of garbling players.                                                *)
(***************************************************************************)
EXTENDS Connections, FiniteSetTheorems, SequenceTheorems, TLAPS

\* In a wire the id comes first, and at most one share before at most one sync.
Ordered(w) ==
    \A i, j \in 1..Len(w) : i < j =>
        /\ w[j] # "id"
        /\ w[i] \in {"share", "sync"} => w[i] # w[j]
        /\ w[i] = "sync" => w[j] # "share"

\* What the phase of p says of p.
PhaseInv(p) ==
    /\ p \in protocols[p]
    /\ phase[p] = "off" => \A q \in Players : link[p][q] = "none"
    /\ phase[p] \in {"off", "connecting"} => protocols[p] # Players
    /\ phase[p] \in {"running", "syncing", "closing", "stopped"} => protocols[p] = Players
    /\ phase[p] \in {"syncing", "closing", "stopped"} => Opened(p)
    /\ phase[p] \in {"closing", "stopped"} => Synchronized(p)
    /\ phase[p] \in {"closing", "stopped", "aborted"} =>
          \A q \in Others(p) : link[p][q] # "up"
    /\ phase[p] = "aborted" => garbled # {}
    /\ \A q \in Others(p) : link[p][q] = "closing" => phase[p] = "closing"

\* What p wrote and q has not read, or has, says of p's phase.
SentInv(p, q) ==
    /\ wire[p][q] # <<>> \/ p \in protocols[q] => link[p][q] # "none"
    /\ Ordered(wire[p][q])
    /\ Contains(wire[p][q], "id") => p \notin protocols[q]
    /\ Contains(wire[p][q], "share") =>
          p \notin data[q]["share"] /\ p \notin data[q]["sync"]
    /\ Contains(wire[p][q], "sync") => p \notin data[q]["sync"]
    /\ Contains(wire[p][q], "share") \/ p \in data[q]["share"] =>
          phase[p] \notin {"off", "connecting"}
    /\ Contains(wire[p][q], "sync") \/ p \in data[q]["sync"] =>
          phase[p] \notin {"off", "connecting", "running"}

\* How the connection ends while every string is a packet.
EndInv(p, q) ==
    /\ Contains(wire[p][q], "bad") => garbled # {}
    /\ garbled = {} =>
          /\ ~Contains(wire[p][q], "rst")
          /\ Contains(wire[p][q], "fin") => phase[p] \in {"closing", "stopped"}
          /\ link[p][q] # "broken"
          /\ link[p][q] \in {"closing", "lost"} => Opened(p)

IInv ==
    /\ TypeOK
    /\ \A p \in Players : PhaseInv(p)
    /\ \A p \in Players : \A q \in Others(p) : SentInv(p, q) /\ EndInv(p, q)
------------------------------------------------------------------------------
\* Wires.

LEMMA Appended ==
    ASSUME NEW w \in Seq(Strings), NEW x \in Strings
    PROVE  /\ Append(w, x) \in Seq(Strings)
           /\ w \o <<x>> = Append(w, x)
           /\ Append(w, x) # <<>>
           /\ \A s : Contains(Append(w, x), s) <=> Contains(w, s) \/ s = x
           /\ /\ Ordered(w)
              /\ x \in {"share", "sync"} => ~Contains(w, x)
              /\ x = "share" => ~Contains(w, "sync")
              /\ x = "id" => w = <<>>
              => Ordered(Append(w, x))
<1> DEFINE t == Append(w, x)
<1>1. /\ t \in Seq(Strings) /\ Len(w) \in Nat /\ Len(t) = Len(w) + 1
      /\ \A i \in 1..Len(w) : t[i] = w[i]
      /\ t[Len(w) + 1] = x
      /\ t # <<>>
  OBVIOUS
<1>2. w \o <<x>> = t
  BY AppendIsConcat
<1> HIDE DEF t
<1>3. \A s : Contains(t, s) <=> Contains(w, s) \/ s = x
  <2> SUFFICES ASSUME NEW s PROVE Contains(t, s) <=> Contains(w, s) \/ s = x
    OBVIOUS
  <2>1. \A i \in 1..Len(t) : i \in 1..Len(w) \/ i = Len(w) + 1
    BY <1>1
  <2>2. Len(w) + 1 \in 1..Len(t) /\ \A i \in 1..Len(w) : i \in 1..Len(t)
    BY <1>1
  <2> QED  BY <1>1, <2>1, <2>2 DEF Contains
<1>4. ASSUME Ordered(w),
             x \in {"share", "sync"} => ~Contains(w, x),
             x = "share" => ~Contains(w, "sync"),
             x = "id" => w = <<>>
      PROVE  Ordered(t)
  <2> SUFFICES ASSUME NEW i \in 1..Len(t), NEW j \in 1..Len(t), i < j
               PROVE  /\ t[j] # "id"
                      /\ t[i] \in {"share", "sync"} => t[i] # t[j]
                      /\ t[i] = "sync" => t[j] # "share"
    BY DEF Ordered
  <2>1. i \in 1..Len(w) /\ t[i] = w[i]
    BY <1>1
  <2>2. CASE j \in 1..Len(w)
    BY <1>1, <1>4, <2>1, <2>2 DEF Ordered
  <2>3. CASE j = Len(w) + 1
    BY <1>1, <1>4, <2>1, <2>3 DEF Contains
  <2> QED  BY <1>1, <2>2, <2>3
<1> QED  BY <1>1, <1>2, <1>3, <1>4 DEF t

LEMMA WasRead ==
    ASSUME NEW w \in Seq(Strings), w # <<>>, Ordered(w)
    PROVE  /\ Head(w) \in Strings
           /\ Tail(w) \in Seq(Strings)
           /\ Contains(w, Head(w))
           /\ \A s : Contains(Tail(w), s) => Contains(w, s)
           /\ Ordered(Tail(w))
           /\ ~Contains(Tail(w), "id")
           /\ Head(w) \in {"share", "sync"} => ~Contains(Tail(w), Head(w))
           /\ Head(w) = "sync" => ~Contains(Tail(w), "share")
<1> DEFINE t == Tail(w)
           h == Head(w)
<1>1. /\ h \in Strings /\ h = w[1] /\ t \in Seq(Strings) /\ Len(w) \in Nat /\ Len(w) > 0
      /\ Len(t) = Len(w) - 1 /\ \A i \in 1..Len(t) : t[i] = w[i + 1]
  OBVIOUS
<1> HIDE DEF t, h
<1>2. 1 \in 1..Len(w) /\ \A i \in 1..Len(t) : i + 1 \in 1..Len(w) /\ 1 < i + 1
  BY <1>1
<1>3. Contains(w, h)
  BY <1>1, <1>2 DEF Contains
<1>4. \A s : Contains(t, s) => Contains(w, s)
  BY <1>1, <1>2 DEF Contains
<1>5. Ordered(t)
  <2> SUFFICES ASSUME NEW i \in 1..Len(t), NEW j \in 1..Len(t), i < j
               PROVE  /\ t[j] # "id"
                      /\ t[i] \in {"share", "sync"} => t[i] # t[j]
                      /\ t[i] = "sync" => t[j] # "share"
    BY DEF Ordered
  <2>1. i + 1 < j + 1
    BY <1>1
  <2> QED  BY <1>1, <1>2, <2>1 DEF Ordered
<1>6. /\ ~Contains(t, "id")
      /\ h \in {"share", "sync"} => ~Contains(t, h)
      /\ h = "sync" => ~Contains(t, "share")
  BY <1>1, <1>2 DEF Contains, Ordered
<1> QED  BY <1>1, <1>3, <1>4, <1>5, <1>6 DEF t, h

LEMMA ShortWires ==
    /\ <<>> \in Seq(Strings) /\ Ordered(<<>>) /\ \A s : ~Contains(<<>>, s)
    /\ <<"rst">> \in Seq(Strings) /\ Ordered(<<"rst">>) /\ <<"rst">> # <<>>
    /\ \A s : Contains(<<"rst">>, s) <=> s = "rst"
  BY DEF Ordered, Contains, Strings
------------------------------------------------------------------------------
\* Sets of players.

LEMMA PlayerSets ==
    /\ IsFiniteSet(Players) /\ Cardinality(Players) = N
    /\ \A S \in SUBSET Players :
          /\ IsFiniteSet(S)
          /\ Cardinality(S) \in 0..N
          /\ Cardinality(S) = N <=> S = Players
          /\ \A q \in Players : q \notin S => Cardinality(S \cup {q}) = Cardinality(S) + 1
          /\ \A T \in SUBSET Players : S \subseteq T => Cardinality(S) <= Cardinality(T)
<1>1. N \in Nat /\ N > 1
  BY ConnectionsAssumption
<1>2. IsFiniteSet(Players) /\ Cardinality(Players) = N
  BY <1>1, FS_Interval DEF Players
<1>3. ASSUME NEW S \in SUBSET Players
      PROVE  /\ IsFiniteSet(S) /\ Cardinality(S) \in Nat /\ Cardinality(S) <= N
             /\ Cardinality(S) = N => S = Players
  BY <1>2, FS_Subset, FS_CardinalityType
<1>4. ASSUME NEW S \in SUBSET Players, NEW T \in SUBSET Players, S \subseteq T
      PROVE  Cardinality(S) <= Cardinality(T)
  BY <1>3, <1>4, FS_Subset
<1>5. ASSUME NEW S \in SUBSET Players, NEW q \in Players, q \notin S
      PROVE  Cardinality(S \cup {q}) = Cardinality(S) + 1
  BY <1>3, <1>5, FS_AddElement
<1> QED  BY <1>1, <1>2, <1>3, <1>4, <1>5

------------------------------------------------------------------------------
\* What a step leaves alone.

\* p has not gone back.
Later(p) ==
    /\ phase[p] \notin {"off", "connecting"} => phase'[p] \notin {"off", "connecting"}
    /\ phase[p] \notin {"off", "connecting", "running"} =>
          phase'[p] \notin {"off", "connecting", "running"}

\* Once the value is there, it stays.
LEMMA OpenedKept ==
    ASSUME TypeOK, TypeOK', NEW p \in Players,
           data[p]["share"] \subseteq data'[p]["share"], Opened(p)
    PROVE  Opened(p)'
<1>1. data[p]["share"] \in SUBSET Players /\ data'[p]["share"] \in SUBSET Players
  BY DEF TypeOK
<1>2. /\ Cardinality(data[p]["share"]) \in Nat /\ Cardinality(data'[p]["share"]) \in Nat
      /\ Cardinality(data[p]["share"]) <= Cardinality(data'[p]["share"])
  <2>1. \A S \in SUBSET Players : Cardinality(S) \in Nat
    BY PlayerSets, ConnectionsAssumption
  <2> QED  BY <1>1, <2>1, PlayerSets
<1>3. Threshold \in Nat
  BY ConnectionsAssumption
<1> QED  BY <1>2, <1>3 DEF Opened

LEMMA PhaseKept ==
    ASSUME TypeOK, TypeOK', NEW p \in Players, PhaseInv(p),
           phase'[p] = phase[p], protocols'[p] = protocols[p], link'[p] = link[p],
           \A s \in {"share", "sync"} : data[p][s] \subseteq data'[p][s],
           garbled \subseteq garbled'
    PROVE  PhaseInv(p)'
<1>1. Opened(p) => Opened(p)'
  BY OpenedKept
<1>2. Synchronized(p) => Synchronized(p)'
  BY DEF Synchronized
<1> QED  BY <1>1, <1>2 DEF PhaseInv

LEMMA SentKept ==
    ASSUME NEW p \in Players, NEW q \in Others(p), SentInv(p, q), Later(p),
           Ordered(wire'[p][q]),
           \A s \in {"id", "share", "sync"} :
              Contains(wire'[p][q], s) => Contains(wire[p][q], s),
           link[p][q] # "none" => link'[p][q] # "none",
           wire'[p][q] # <<>> => link'[p][q] # "none",
           protocols'[q] = protocols[q],
           data'[q] = data[q]
    PROVE  SentInv(p, q)'
  BY DEF SentInv, Later

LEMMA EndKept ==
    ASSUME NEW p \in Players, NEW q \in Others(p), EndInv(p, q),
           garbled \subseteq garbled',
           \A s \in {"bad", "fin", "rst"} :
              Contains(wire'[p][q], s) => Contains(wire[p][q], s),
           phase[p] \in {"closing", "stopped"} => phase'[p] \in {"closing", "stopped"},
           link'[p][q] \in {"closing", "lost", "broken"} => link'[p][q] = link[p][q],
           Opened(p) => Opened(p)'
    PROVE  EndInv(p, q)'
  BY DEF EndInv

\* All the parts of the invariant for each player and each two.
LEMMA Parts ==
    ASSUME IInv
    PROVE  /\ TypeOK
           /\ phase \in [Players -> Phases]
           /\ protocols \in [Players -> SUBSET Players]
           /\ link \in [Players -> [Players -> Links]]
           /\ data \in [Players -> [{"share", "sync"} -> SUBSET Players]]
           /\ wire \in [Players -> [Players -> Seq(Strings)]]
           /\ \A p \in Players : PhaseInv(p)
           /\ \A p \in Players : \A q \in Others(p) : /\ SentInv(p, q) /\ EndInv(p, q)
                                                      /\ q \in Players /\ p \in Others(q)
                                                      /\ Ordered(wire[p][q])
  BY DEF IInv, TypeOK, SentInv, Others

\* What p has written to all.
LEMMA Written ==
    ASSUME TypeOK, NEW p \in Players, NEW strings \in Seq(Strings)
    PROVE  /\ WriteAll(p, strings) \in [Players -> [Players -> Seq(Strings)]]
           /\ \A a, b \in Players :
                 WriteAll(p, strings)[a][b] =
                    IF a = p /\ link[p][b] = "up" THEN wire[a][b] \o strings
                    ELSE wire[a][b]
<1>1. wire \in [Players -> [Players -> Seq(Strings)]]
  BY DEF TypeOK
<1> DEFINE f == [q \in Players |-> IF link[p][q] = "up" THEN wire[p][q] \o strings
                                   ELSE wire[p][q]]
<1>2. \A q \in Players : wire[p][q] \o strings \in Seq(Strings)
  BY <1>1, ConcatProperties
<1>3. f \in [Players -> Seq(Strings)]
  BY <1>1, <1>2
<1>4. WriteAll(p, strings) = [wire EXCEPT ![p] = f]
  BY <1>1 DEF WriteAll
<1>5. \A b \in Players : f[b] = IF link[p][b] = "up" THEN wire[p][b] \o strings
                                ELSE wire[p][b]
  OBVIOUS
<1> HIDE DEF f
<1> QED  BY <1>1, <1>3, <1>4, <1>5
------------------------------------------------------------------------------
\* One step per action.

LEMMA InitOK == Init => IInv
<1> SUFFICES ASSUME Init PROVE IInv
  OBVIOUS
<1>1. N \in Nat /\ N > 1
  BY ConnectionsAssumption
<1>2. \A p \in Players : Cardinality({p}) = 1 /\ {p} # Players /\ {p} \in SUBSET Players
  <2>1. 1 \in Players /\ 2 \in Players /\ 1 # 2
    BY <1>1 DEF Players
  <2>2. \A p \in Players : Cardinality({p}) = 1
    BY FS_Singleton
  <2> QED  BY <2>1, <2>2
<1>3. TypeOK
  <2>1. \A p \in Players : needed_protocols[p] = N - Cardinality(protocols[p])
    BY <1>2 DEF Init
  <2>2. \A p \in Players : \A q \in Others(p) : q \in protocols[p] => link[p][q] # "none"
    BY DEF Init, Others
  <2>3. wire \in [Players -> [Players -> Seq(Strings)]]
    BY ShortWires DEF Init
  <2>4. needed_protocols \in [Players -> 0..(N - 1)]
    BY <1>1 DEF Init
  <2> QED  BY <1>2, <2>1, <2>2, <2>3, <2>4 DEF Init, TypeOK, Phases, Links
<1>4. \A p \in Players : PhaseInv(p)
  BY <1>2 DEF Init, PhaseInv, Others
<1>5. \A p \in Players : \A q \in Others(p) : SentInv(p, q) /\ EndInv(p, q)
  BY ShortWires DEF Init, SentInv, EndInv, Others
<1> QED  BY <1>3, <1>4, <1>5 DEF IInv

LEMMA ListenStep ==
    ASSUME IInv, NEW p \in Players, Listen(p)
    PROVE  IInv'
<1>1. /\ phase[p] = "off" /\ phase' = [phase EXCEPT ![p] = "connecting"]
      /\ UNCHANGED <<needed_protocols, protocols, link, data, wire, garbled>>
  BY DEF Listen
<1>2. TypeOK'
  BY <1>1 DEF IInv, TypeOK, Phases
<1>3. /\ phase'[p] = "connecting"
      /\ \A r \in Players : r # p => phase'[r] = phase[r]
  BY <1>1, Parts
<1>4. ASSUME NEW r \in Players PROVE PhaseInv(r)'
  <2>1. CASE r = p
    BY <1>1, <1>3, <2>1, Parts DEF PhaseInv, Others
  <2>2. CASE r # p
    BY <1>1, <1>2, <1>3, <2>2, Parts, PhaseKept
  <2> QED  BY <2>1, <2>2
<1>5. ASSUME NEW a \in Players, NEW b \in Others(a)
      PROVE  SentInv(a, b)' /\ EndInv(a, b)'
  <2>1. SentInv(a, b) /\ EndInv(a, b) /\ (SentInv(a, b) => Ordered(wire[a][b]))
    BY Parts DEF SentInv
  <2>2. Later(a)
    BY <1>1, <1>3 DEF Later
  <2>3. SentInv(a, b)'
    BY <1>1, <2>1, <2>2, SentKept DEF SentInv
  <2>4. EndInv(a, b)'
    <3>1. Opened(a)' <=> Opened(a)
      BY <1>1 DEF Opened
    <3> QED  BY <1>1, <1>3, <2>1, <3>1 DEF EndInv
  <2> QED  BY <2>3, <2>4
<1> QED  BY <1>2, <1>4, <1>5 DEF IInv

LEMMA ConnectionMadeStep ==
    ASSUME IInv, NEW p \in Players, NEW q \in Others(p), ConnectionMade(p, q)
    PROVE  IInv'
<1>1. /\ phase[p] \notin {"off", "aborted"} /\ link[p][q] = "none"
      /\ link' = [link EXCEPT ![p][q] = "up"]
      /\ wire' = [wire EXCEPT ![p][q] = Append(@, "id")]
      /\ UNCHANGED <<phase, needed_protocols, protocols, data, garbled>>
  BY DEF ConnectionMade
<1>2. q \in Players /\ q # p /\ TypeOK
  BY Parts DEF Others
<1>3. wire[p][q] = <<>> /\ p \notin protocols[q] /\ q \notin protocols[p]
  <2>1. SentInv(p, q)
    BY Parts
  <2> QED  BY <1>1, <1>2, <2>1 DEF SentInv, TypeOK
<1> DEFINE w == Append(<<>>, "id")
<1>4. w \in Seq(Strings) /\ Ordered(w) /\ \A s : Contains(w, s) <=> s = "id"
  <2>1. "id" \in Strings
    BY DEF Strings
  <2> QED  BY <2>1, ShortWires, Appended
<1> HIDE DEF w
<1>5. /\ wire' \in [Players -> [Players -> Seq(Strings)]]
      /\ \A a, b \in Players : wire'[a][b] = IF a = p /\ b = q THEN w ELSE wire[a][b]
  <2>1. wire' = [wire EXCEPT ![p][q] = w]
    BY <1>1, <1>2, <1>3, Parts DEF w
  <2> QED  BY <1>2, <1>4, <2>1, Parts
<1>6. /\ link' \in [Players -> [Players -> Links]]
      /\ \A a, b \in Players : link'[a][b] = IF a = p /\ b = q THEN "up" ELSE link[a][b]
      /\ \A a \in Players : a # p => link'[a] = link[a]
  BY <1>1, <1>2, Parts DEF Links
<1>7. TypeOK'
  <2>1. ASSUME NEW a \in Players, NEW b \in Others(a), b \in protocols[a]
        PROVE  link'[a][b] # "none"
    <3>1. link[a][b] # "none" /\ b \in Players
      BY <1>2, <2>1 DEF TypeOK, Others
    <3> QED  BY <1>6, <3>1
  <2> QED  BY <1>1, <1>2, <1>5, <1>6, <2>1 DEF TypeOK
<1>8. ASSUME NEW r \in Players PROVE PhaseInv(r)'
  <2>1. CASE r = p
    <3>1. PhaseInv(p)
      BY Parts
    <3>2. phase[p] \in {"connecting"}
      BY <1>1, <1>2, <1>3, <3>1 DEF PhaseInv, TypeOK, Phases
    <3>3. \A b \in Others(p) : link'[p][b] = "closing" => link[p][b] = "closing"
      BY <1>6 DEF Others
    <3> QED  BY <1>1, <2>1, <3>1, <3>2, <3>3 DEF PhaseInv
  <2>2. CASE r # p
    BY <1>1, <1>2, <1>6, <1>7, <2>2, Parts, PhaseKept
  <2> QED  BY <2>1, <2>2
<1>9. ASSUME NEW a \in Players, NEW b \in Others(a)
      PROVE  SentInv(a, b)' /\ EndInv(a, b)'
  <2>1. SentInv(a, b) /\ EndInv(a, b) /\ b \in Players
    BY Parts
  <2>2. Opened(a)' <=> Opened(a)
    BY <1>1 DEF Opened
  <2>3. CASE a = p /\ b = q
    <3>1. wire'[a][b] = w /\ link'[a][b] = "up"
      BY <1>2, <1>5, <1>6, <2>3
    <3> QED  BY <1>1, <1>3, <1>4, <2>1, <2>3, <3>1 DEF SentInv, EndInv
  <2>4. CASE ~(a = p /\ b = q)
    <3>1. wire'[a][b] = wire[a][b] /\ link'[a][b] = link[a][b]
      BY <1>5, <1>6, <2>1, <2>4
    <3> QED  BY <1>1, <2>1, <2>2, <3>1 DEF SentInv, EndInv
  <2> QED  BY <2>3, <2>4
<1> QED  BY <1>7, <1>8, <1>9 DEF IInv

LEMMA ReceiveDataStep ==
    ASSUME IInv, NEW p \in Players, NEW q \in Others(p), ReceiveData(p, q)
    PROVE  IInv'
<1> DEFINE w == wire[q][p]
           h == Head(w)
<1>1. /\ link[p][q] = "up" /\ w # <<>> /\ h \in {"share", "sync"}
      /\ data' = [data EXCEPT ![p][h] = @ \cup {q}]
      /\ wire' = [wire EXCEPT ![q][p] = Tail(w)]
      /\ UNCHANGED <<phase, needed_protocols, protocols, link, garbled>>
  BY Parts DEF ReceiveData
<1>2. q \in Players /\ q # p /\ TypeOK /\ p \in Others(q) /\ w \in Seq(Strings) /\ SentInv(q, p)
  BY Parts DEF Others
<1>3. /\ Tail(w) \in Seq(Strings) /\ Contains(w, h) /\ Ordered(Tail(w))
      /\ \A s : Contains(Tail(w), s) => Contains(w, s)
      /\ ~Contains(Tail(w), h)
      /\ h = "sync" => ~Contains(Tail(w), "share")
  BY <1>1, <1>2, WasRead DEF SentInv
<1> HIDE DEF h
<1>4. /\ data' \in [Players -> [{"share", "sync"} -> SUBSET Players]]
      /\ \A a \in Players : \A s \in {"share", "sync"} :
            data'[a][s] = IF a = p /\ s = h THEN data[a][s] \cup {q} ELSE data[a][s]
      /\ \A a \in Players : a # p => data'[a] = data[a]
  <2> DEFINE row == [data[p] EXCEPT ![h] = @ \cup {q}]
  <2>1. data \in [Players -> [{"share", "sync"} -> SUBSET Players]]
    BY Parts
  <2>2. data' = [data EXCEPT ![p] = row]
    BY <1>1, <2>1
  <2>3. /\ row \in [{"share", "sync"} -> SUBSET Players]
        /\ \A s \in {"share", "sync"} : row[s] = IF s = h THEN data[p][s] \cup {q}
                                               ELSE data[p][s]
    <3>1. data[p] \in [{"share", "sync"} -> SUBSET Players] /\ h \in {"share", "sync"}
      BY <1>1, <2>1
    <3>2. data[p][h] \cup {q} \in SUBSET Players
      BY <1>2, <3>1
    <3> QED  BY <3>1, <3>2
  <2> HIDE DEF row
  <2> QED  BY <2>1, <2>2, <2>3
<1>5. /\ wire' \in [Players -> [Players -> Seq(Strings)]]
      /\ \A a, b \in Players : wire'[a][b] = IF a = q /\ b = p THEN Tail(w) ELSE wire[a][b]
  <2> HIDE DEF w
  <2> QED  BY <1>1, <1>2, <1>3, Parts
<1>6. TypeOK'
  <2> HIDE DEF w
  <2> QED  BY <1>1, <1>2, <1>4, <1>5 DEF TypeOK
<1>7. ASSUME NEW r \in Players PROVE PhaseInv(r)'
  BY <1>1, <1>2, <1>4, <1>6, Parts, PhaseKept
<1>8. ASSUME NEW a \in Players, NEW b \in Others(a)
      PROVE  SentInv(a, b)' /\ EndInv(a, b)'
  <2>1. SentInv(a, b) /\ EndInv(a, b) /\ b \in Players
    BY Parts
  <2>2. Opened(a) => Opened(a)'
    BY <1>2, <1>4, <1>6, OpenedKept
  <2>3. CASE a = q /\ b = p
    <3>1. wire'[a][b] = Tail(w) /\ wire[a][b] = w
      BY <1>2, <1>5, <2>3
    <3>2. SentInv(a, b)'
      <4>1. /\ Contains(wire'[a][b], "share") =>
                  q \notin data'[p]["share"] /\ q \notin data'[p]["sync"]
            /\ Contains(wire'[a][b], "sync") => q \notin data'[p]["sync"]
        BY <1>1, <1>2, <1>3, <1>4, <3>1 DEF SentInv
      <4>2. /\ Contains(wire'[a][b], "share") \/ q \in data'[p]["share"] =>
                  phase[q] \notin {"off", "connecting"}
            /\ Contains(wire'[a][b], "sync") \/ q \in data'[p]["sync"] =>
                  phase[q] \notin {"off", "connecting", "running"}
        BY <1>1, <1>2, <1>3, <1>4, <3>1 DEF SentInv
      <4>3. Contains(wire'[a][b], "id") => q \notin protocols[p]
        BY <1>2, <1>3, <3>1 DEF SentInv
      <4>4. link[q][p] # "none"
        BY <1>1, <1>2 DEF SentInv
      <4> QED  BY <1>1, <1>3, <2>3, <3>1, <4>1, <4>2, <4>3, <4>4 DEF SentInv
    <3>3. EndInv(a, b)'
      BY <1>1, <1>3, <2>1, <2>2, <3>1, EndKept
    <3> QED  BY <3>2, <3>3
  <2>4. CASE ~(a = q /\ b = p)
    <3>1. wire'[a][b] = wire[a][b]
      BY <1>5, <2>1, <2>4
    <3>2. a \in data'[b]["share"] <=> a \in data[b]["share"]
      BY <1>4, <2>1, <2>4
    <3>3. a \in data'[b]["sync"] <=> a \in data[b]["sync"]
      BY <1>4, <2>1, <2>4
    <3>4. SentInv(a, b)'
      BY <1>1, <2>1, <3>1, <3>2, <3>3 DEF SentInv
    <3> QED  BY <1>1, <2>1, <2>2, <3>1, <3>4, EndKept
  <2> QED  BY <2>3, <2>4
<1> QED  BY <1>6, <1>7, <1>8 DEF IInv
\* The ends that p closes when its synchronisation is over.
LEMMA Closed ==
    ASSUME IInv, NEW p \in Players
    PROVE  /\ CloseAll(p) \in [Players -> [Players -> Links]]
           /\ \A a, b \in Players :
                 CloseAll(p)[a][b] = IF a = p /\ link[p][b] = "up" THEN "closing"
                                     ELSE link[a][b]
           /\ \A a \in Players : a # p => CloseAll(p)[a] = link[a]
<1> DEFINE f == [q \in Players |-> IF link[p][q] = "up" THEN "closing" ELSE link[p][q]]
<1>1. link \in [Players -> [Players -> Links]]
  BY Parts
<1>2. f \in [Players -> Links]
  BY <1>1 DEF Links
<1>3. CloseAll(p) = [link EXCEPT ![p] = f]
  BY <1>1 DEF CloseAll
<1>4. \A b \in Players : f[b] = IF link[p][b] = "up" THEN "closing" ELSE link[p][b]
  OBVIOUS
<1> HIDE DEF f
<1> QED  BY <1>1, <1>2, <1>3, <1>4

\* A running player has sent no sync.
LEMMA ShutdownStep ==
    ASSUME IInv, NEW p \in Players, Shutdown(p)
    PROVE  IInv'
<1> DEFINE next == IF Synchronized(p) THEN "closing" ELSE "syncing"
<1>1. /\ phase[p] = "running" /\ Opened(p)
      /\ phase' = [phase EXCEPT ![p] = next]
      /\ wire' = WriteAll(p, <<"sync">>)
      /\ link' = IF Synchronized(p) THEN CloseAll(p) ELSE link
      /\ UNCHANGED <<needed_protocols, protocols, data, garbled>>
  BY DEF Shutdown
<1>2. TypeOK /\ PhaseInv(p)
  BY Parts
<1>3. /\ next \in {"closing", "syncing"}
      /\ phase' \in [Players -> Phases] /\ phase'[p] = next
      /\ \A r \in Players : r # p => phase'[r] = phase[r]
  BY <1>1, Parts DEF Phases
<1>4. next = "closing" => Synchronized(p)
  OBVIOUS
<1>5. /\ link' \in [Players -> [Players -> Links]]
      /\ \A a \in Players : a # p => link'[a] = link[a]
      /\ \A b \in Players : \/ link'[p][b] = link[p][b]
                            \/ link'[p][b] = "closing" /\ link[p][b] = "up"
      /\ next = "closing" => \A b \in Players : link'[p][b] # "up"
      /\ next = "syncing" => link' = link
  <2>1. CASE Synchronized(p)
    BY <1>1, <2>1, Closed
  <2>2. CASE ~Synchronized(p)
    BY <1>1, <2>2, Parts
  <2> QED  BY <2>1, <2>2
<1> HIDE DEF next
<1>6. <<"sync">> \in Seq(Strings) /\ "sync" \in Strings
  BY DEF Strings
<1>7. /\ wire' \in [Players -> [Players -> Seq(Strings)]]
      /\ \A a, b \in Players :
            wire'[a][b] = IF a = p /\ link[p][b] = "up" THEN Append(wire[a][b], "sync")
                          ELSE wire[a][b]
  <2>1. \A a, b \in Players : wire[a][b] \in Seq(Strings)
    BY Parts
  <2>2. \A a, b \in Players : wire[a][b] \o <<"sync">> = Append(wire[a][b], "sync")
    BY <1>6, <2>1, Appended
  <2> DEFINE strings == <<"sync">>
  <2>3. strings \in Seq(Strings) /\ wire' = WriteAll(p, strings)
    BY <1>1, <1>6
  <2>4. \A a, b \in Players : wire[a][b] \o strings = Append(wire[a][b], "sync")
    BY <2>2
  <2> HIDE DEF strings
  <2>5. /\ WriteAll(p, strings) \in [Players -> [Players -> Seq(Strings)]]
        /\ \A a, b \in Players :
              WriteAll(p, strings)[a][b] =
                 IF a = p /\ link[p][b] = "up" THEN wire[a][b] \o strings
                 ELSE wire[a][b]
    BY <1>2, <2>3, Written
  <2> QED  BY <2>3, <2>4, <2>5
<1>8. TypeOK'
  <2>1. ASSUME NEW a \in Players, NEW b \in Others(a), b \in protocols[a]
        PROVE  link'[a][b] # "none"
    <3>1. link[a][b] # "none" /\ b \in Players
      BY <1>2, <2>1 DEF TypeOK, Others
    <3> QED  BY <1>5, <3>1
  <2>2. /\ UNCHANGED <<needed_protocols, protocols, data, garbled>>
        /\ phase' \in [Players -> Phases]
        /\ link' \in [Players -> [Players -> Links]]
        /\ wire' \in [Players -> [Players -> Seq(Strings)]]
    BY <1>1, <1>3, <1>5, <1>7
  <2> QED  BY <1>2, <2>1, <2>2 DEF TypeOK
<1>9. \A a \in Players : Opened(a)' <=> Opened(a)
  BY <1>1 DEF Opened
<1>10. Synchronized(p)' <=> Synchronized(p)
  BY <1>1 DEF Synchronized
<1>11. ASSUME NEW r \in Players PROVE PhaseInv(r)'
  <2>1. CASE r = p
    <3>1. \A b \in Others(p) : link'[p][b] = "closing" => next = "closing"
      BY <1>1, <1>2, <1>3, <1>5 DEF PhaseInv, Others
    <3>2. next = "closing" => \A b \in Others(p) : link'[p][b] # "up"
      BY <1>5 DEF Others
    <3> QED
      BY <1>1, <1>2, <1>3, <1>4, <1>9, <1>10, <2>1, <3>1, <3>2 DEF PhaseInv
  <2>2. CASE r # p
    BY <1>1, <1>2, <1>3, <1>5, <1>8, <2>2, Parts, PhaseKept
  <2> QED  BY <2>1, <2>2
<1>12. ASSUME NEW a \in Players, NEW b \in Others(a)
       PROVE  SentInv(a, b)' /\ EndInv(a, b)'
  <2>1. SentInv(a, b) /\ EndInv(a, b) /\ b \in Players /\ wire[a][b] \in Seq(Strings)
    BY Parts
  <2>2. Later(a) /\ (link[a][b] # "none" => link'[a][b] # "none")
    BY <1>1, <1>3, <1>5, <2>1 DEF Later
  <2>3. CASE a = p /\ link[p][b] = "up"
    <3>1. wire'[a][b] = Append(wire[a][b], "sync")
      BY <1>7, <2>1, <2>3
    <3>2. ~Contains(wire[a][b], "sync") /\ a \notin data[b]["sync"]
      BY <1>1, <2>1, <2>3 DEF SentInv
    <3>3. /\ \A s : Contains(wire'[a][b], s) <=> Contains(wire[a][b], s) \/ s = "sync"
          /\ Ordered(wire'[a][b])
      BY <1>6, <2>1, <3>1, <3>2, Appended DEF SentInv
    <3>4. SentInv(a, b)'
      <4>1. phase'[a] \notin {"off", "connecting", "running"}
        BY <1>3, <2>3
      <4>2. link'[a][b] # "none"
        BY <2>2, <2>3
      <4> QED  BY <1>1, <2>1, <2>3, <3>2, <3>3, <4>1, <4>2 DEF SentInv
    <3>5. EndInv(a, b)'
      BY <1>1, <1>3, <1>9, <2>1, <2>2, <2>3, <3>3, <1>5 DEF EndInv
    <3> QED  BY <3>4, <3>5
  <2>4. CASE ~(a = p /\ link[p][b] = "up")
    <3>1. wire'[a][b] = wire[a][b] /\ link'[a][b] = link[a][b]
      BY <1>5, <1>7, <2>1, <2>4
    <3>2. SentInv(a, b)'
      BY <1>1, <2>1, <2>2, <3>1, SentKept DEF SentInv
    <3>3. EndInv(a, b)'
      BY <1>1, <1>3, <1>9, <2>1, <3>1 DEF EndInv
    <3> QED  BY <3>2, <3>3
  <2> QED  BY <2>3, <2>4
<1> QED  BY <1>8, <1>11, <1>12 DEF IInv

LEMMA CloseConnectionsStep ==
    ASSUME IInv, NEW p \in Players, CloseConnections(p)
    PROVE  IInv'
<1>1. /\ phase[p] = "syncing" /\ Synchronized(p)
      /\ phase' = [phase EXCEPT ![p] = "closing"]
      /\ link' = CloseAll(p)
      /\ UNCHANGED <<needed_protocols, protocols, data, wire, garbled>>
  BY DEF CloseConnections
<1>2. TypeOK /\ PhaseInv(p)
  BY Parts
<1>3. /\ phase' \in [Players -> Phases] /\ phase'[p] = "closing"
      /\ \A r \in Players : r # p => phase'[r] = phase[r]
  BY <1>1, Parts DEF Phases
<1>4. /\ link' \in [Players -> [Players -> Links]]
      /\ \A a \in Players : a # p => link'[a] = link[a]
      /\ \A b \in Players : \/ link'[p][b] = link[p][b]
                            \/ link'[p][b] = "closing" /\ link[p][b] = "up"
      /\ \A b \in Players : link'[p][b] # "up"
  BY <1>1, Closed
<1>5. TypeOK'
  <2>1. ASSUME NEW a \in Players, NEW b \in Others(a), b \in protocols[a]
        PROVE  link'[a][b] # "none"
    <3>1. link[a][b] # "none" /\ b \in Players
      BY <1>2, <2>1 DEF TypeOK, Others
    <3> QED  BY <1>4, <3>1
  <2> QED  BY <1>1, <1>2, <1>3, <1>4, <2>1 DEF TypeOK
<1>6. /\ \A a \in Players : Opened(a)' <=> Opened(a)
      /\ Synchronized(p)' <=> Synchronized(p)
  BY <1>1 DEF Opened, Synchronized
<1>7. ASSUME NEW r \in Players PROVE PhaseInv(r)'
  <2>1. CASE r = p
    <3>1. \A b \in Others(p) : link'[p][b] # "up"
      BY <1>4 DEF Others
    <3> QED  BY <1>1, <1>2, <1>3, <1>6, <2>1, <3>1 DEF PhaseInv
  <2>2. CASE r # p
    BY <1>1, <1>2, <1>3, <1>4, <1>5, <2>2, Parts, PhaseKept
  <2> QED  BY <2>1, <2>2
<1>8. ASSUME NEW a \in Players, NEW b \in Others(a)
      PROVE  SentInv(a, b)' /\ EndInv(a, b)'
  <2>1. SentInv(a, b) /\ EndInv(a, b) /\ b \in Players
    BY Parts
  <2>2. Later(a) /\ (link[a][b] # "none" => link'[a][b] # "none")
    BY <1>1, <1>3, <1>4, <2>1 DEF Later
  <2>3. SentInv(a, b)'
    BY <1>1, <2>1, <2>2, SentKept DEF SentInv
  <2>4. EndInv(a, b)'
    <3>1. CASE a = p
      <4>1. Opened(p) /\ phase[p] \notin {"closing", "stopped"}
        BY <1>1, <1>2 DEF PhaseInv
      <4> QED  BY <1>1, <1>3, <1>4, <1>6, <2>1, <3>1, <4>1 DEF EndInv
    <3>2. CASE a # p
      BY <1>1, <1>3, <1>4, <1>6, <2>1, <3>2 DEF EndInv
    <3> QED  BY <3>1, <3>2
  <2> QED  BY <2>3, <2>4
<1> QED  BY <1>5, <1>7, <1>8 DEF IInv

\* While every string is a packet, a player that closes has read all but the end
\* of what the others wrote.
LEMMA NothingUnread ==
    ASSUME IInv, garbled = {}, NEW p \in Players, NEW q \in Others(p),
           phase[p] \in {"closing", "stopped"}, NEW i \in 1..Len(wire[q][p])
    PROVE  wire[q][p][i] = "fin"
<1>1. /\ PhaseInv(p) /\ q \in Players /\ SentInv(q, p) /\ EndInv(q, p)
      /\ wire[q][p] \in Seq(Strings)
  BY Parts
<1>2. q \in protocols[p] /\ q \in data[p]["sync"]
  BY <1>1 DEF PhaseInv, Synchronized
<1>3. \A s \in {"id", "share", "sync", "bad", "rst"} : ~Contains(wire[q][p], s)
  BY <1>1, <1>2 DEF SentInv, EndInv
<1>4. wire[q][p][i] \in Strings /\ Contains(wire[q][p], wire[q][p][i])
  BY <1>1 DEF Contains
<1> QED  BY <1>3, <1>4 DEF Strings

LEMMA LoseConnectionStep ==
    ASSUME IInv, NEW p \in Players, NEW q \in Others(p), LoseConnection(p, q)
    PROVE  IInv'
<1> DEFINE w == wire[p][q]
<1>1. /\ link[p][q] = "closing"
      /\ link' = [link EXCEPT ![p][q] = "lost"]
      /\ UNCHANGED <<phase, needed_protocols, protocols, data, garbled>>
  BY DEF LoseConnection
<1>2. TypeOK /\ PhaseInv(p) /\ q \in Players /\ q # p /\ w \in Seq(Strings) /\ Ordered(w)
  BY Parts DEF Others
<1>3. phase[p] = "closing"
  BY <1>1, <1>2 DEF PhaseInv
<1>4. PICK rest \in AfterClose(p, q) : wire' = [wire EXCEPT ![p][q] = rest]
  BY DEF LoseConnection
<1>5. rest \in {Append(w, "rst"), <<"rst">>, Append(w, "fin")}
  BY DEF AfterClose
<1>6. garbled = {} => rest = Append(w, "fin")
  <2> SUFFICES ASSUME garbled = {} PROVE rest = Append(w, "fin")
    OBVIOUS
  <2>1. \A i \in DOMAIN wire[q][p] : wire[q][p][i] = "fin"
    <3>1. wire[q][p] \in Seq(Strings)
      BY <1>2, Parts
    <3>2. DOMAIN wire[q][p] = 1..Len(wire[q][p])
      BY <3>1
    <3> QED  BY <1>3, <3>2, NothingUnread
  <2> QED  BY <2>1 DEF AfterClose
<1>7. /\ rest \in Seq(Strings) /\ Ordered(rest)
      /\ \A s : Contains(rest, s) => Contains(w, s) \/ s \in {"fin", "rst"}
      /\ garbled = {} /\ Contains(rest, "rst") => Contains(w, "rst")
  <2>1. "fin" \in Strings /\ "rst" \in Strings
    BY DEF Strings
  <2>2. CASE rest = Append(w, "rst")
    <3>1. garbled # {}
      <4>1. /\ \A s : Contains(Append(w, "fin"), s) <=> Contains(w, s) \/ s = "fin"
            /\ \A s : Contains(Append(w, "rst"), s) <=> Contains(w, s) \/ s = "rst"
        BY <1>2, <2>1, Appended
      <4>2. Append(w, "fin") # Append(w, "rst")
        BY <1>2, <2>1, AppendInjective
      <4> QED  BY <1>6, <2>2, <4>2
    <3> QED  BY <1>2, <2>1, <2>2, <3>1, Appended
  <2>3. CASE rest = <<"rst">>
    <3>1. garbled # {} \/ (Contains(rest, "rst") /\ rest = Append(w, "fin"))
      BY <1>6, <2>3, ShortWires
    <3>2. Contains(Append(w, "fin"), "rst") => Contains(w, "rst")
      BY <1>2, <2>1, Appended
    <3> QED  BY <2>3, <3>1, <3>2, ShortWires
  <2>4. CASE rest = Append(w, "fin")
    BY <1>2, <2>1, <2>4, Appended
  <2> QED  BY <1>5, <2>2, <2>3, <2>4
<1> HIDE DEF w
<1>8. /\ wire' \in [Players -> [Players -> Seq(Strings)]]
      /\ \A a, b \in Players : wire'[a][b] = IF a = p /\ b = q THEN rest ELSE wire[a][b]
  BY <1>2, <1>4, <1>7, Parts
<1>9. /\ link' \in [Players -> [Players -> Links]]
      /\ \A a, b \in Players : link'[a][b] = IF a = p /\ b = q THEN "lost" ELSE link[a][b]
      /\ \A a \in Players : a # p => link'[a] = link[a]
  BY <1>1, <1>2, Parts DEF Links
<1>10. TypeOK'
  <2>1. ASSUME NEW a \in Players, NEW b \in Others(a), b \in protocols[a]
        PROVE  link'[a][b] # "none"
    <3>1. link[a][b] # "none" /\ b \in Players
      BY <1>2, <2>1 DEF TypeOK, Others
    <3> QED  BY <1>9, <3>1
  <2> QED  BY <1>1, <1>2, <1>8, <1>9, <2>1 DEF TypeOK
<1>11. \A a \in Players : Opened(a)' <=> Opened(a)
  BY <1>1 DEF Opened
<1>12. ASSUME NEW r \in Players PROVE PhaseInv(r)'
  <2>1. CASE r = p
    <3>1. Synchronized(p)' <=> Synchronized(p)
      BY <1>1 DEF Synchronized
    <3>2. \A b \in Others(p) : link'[p][b] # "up"
      BY <1>2, <1>3, <1>9 DEF PhaseInv, Others
    <3> QED  BY <1>1, <1>2, <1>3, <1>11, <2>1, <3>1, <3>2 DEF PhaseInv
  <2>2. CASE r # p
    BY <1>1, <1>2, <1>9, <1>10, <2>2, Parts, PhaseKept
  <2> QED  BY <2>1, <2>2
<1>13. ASSUME NEW a \in Players, NEW b \in Others(a)
       PROVE  SentInv(a, b)' /\ EndInv(a, b)'
  <2>1. SentInv(a, b) /\ EndInv(a, b) /\ b \in Players
    BY Parts
  <2>2. Later(a)
    BY <1>1 DEF Later
  <2>3. CASE a = p /\ b = q
    <3>1. wire'[a][b] = rest /\ wire[a][b] = w /\ link'[a][b] = "lost" /\ link[a][b] = "closing"
      BY <1>1, <1>2, <1>8, <1>9, <2>3 DEF w
    <3>2. SentInv(a, b)'
      BY <1>1, <1>7, <2>1, <2>2, <3>1, SentKept
    <3>3. EndInv(a, b)'
      BY <1>1, <1>3, <1>7, <1>11, <2>1, <2>3, <3>1 DEF EndInv
    <3> QED  BY <3>2, <3>3
  <2>4. CASE ~(a = p /\ b = q)
    <3>1. wire'[a][b] = wire[a][b] /\ link'[a][b] = link[a][b]
      BY <1>8, <1>9, <2>1, <2>4
    <3> QED  BY <1>1, <1>11, <2>1, <3>1 DEF SentInv, EndInv
  <2> QED  BY <2>3, <2>4
<1> QED  BY <1>10, <1>12, <1>13 DEF IInv
\* The end of a connection is written by a player that has heard of the other's
\* synchronisation, so that the other has its value.
LEMMA ConnectionLostStep ==
    ASSUME IInv, NEW p \in Players, NEW q \in Others(p), ConnectionLost(p, q)
    PROVE  IInv'
<1> DEFINE w == wire[q][p]
           end == IF Head(w) = "fin" THEN "lost" ELSE "broken"
<1>1. /\ link[p][q] = "up" /\ w # <<>> /\ Head(w) \in {"fin", "rst"}
      /\ link' = [link EXCEPT ![p][q] = end]
      /\ wire' = [wire EXCEPT ![q][p] = Tail(w)]
      /\ UNCHANGED <<phase, needed_protocols, protocols, data, garbled>>
  BY Parts DEF ConnectionLost
<1>2. /\ TypeOK /\ PhaseInv(p) /\ PhaseInv(q) /\ q \in Players /\ q # p /\ p \in Others(q)
      /\ w \in Seq(Strings) /\ Ordered(w) /\ SentInv(q, p) /\ EndInv(q, p)
  BY Parts DEF Others
<1>3. /\ Tail(w) \in Seq(Strings) /\ Contains(w, Head(w)) /\ Ordered(Tail(w))
      /\ \A s : Contains(Tail(w), s) => Contains(w, s)
  BY <1>1, <1>2, WasRead
<1>4. end \in {"lost", "broken"}
  OBVIOUS
<1>5. garbled = {} => end = "lost" /\ Opened(p)
  <2> SUFFICES ASSUME garbled = {} PROVE end = "lost" /\ Opened(p)
    OBVIOUS
  <2>1. Head(w) = "fin" /\ phase[q] \in {"closing", "stopped"}
    BY <1>1, <1>2, <1>3 DEF EndInv
  <2>2. p \in data[q]["sync"]
    BY <1>2, <2>1 DEF PhaseInv, Synchronized
  <2>3. phase[p] \notin {"off", "connecting", "running", "aborted"}
    <3>1. SentInv(p, q)
      BY Parts
    <3> QED  BY <1>2, <2>2, <3>1 DEF SentInv, PhaseInv
  <2>4. phase[p] \in {"syncing", "closing", "stopped"}
    BY <1>2, <2>3 DEF TypeOK, Phases
  <2> QED  BY <1>2, <2>1, <2>4 DEF PhaseInv
<1> HIDE DEF w, end
<1>6. /\ wire' \in [Players -> [Players -> Seq(Strings)]]
      /\ \A a, b \in Players : wire'[a][b] = IF a = q /\ b = p THEN Tail(w) ELSE wire[a][b]
  BY <1>1, <1>2, <1>3, Parts
<1>7. /\ link' \in [Players -> [Players -> Links]]
      /\ \A a, b \in Players : link'[a][b] = IF a = p /\ b = q THEN end ELSE link[a][b]
      /\ \A a \in Players : a # p => link'[a] = link[a]
  BY <1>1, <1>2, <1>4, Parts DEF Links
<1>8. TypeOK'
  <2>1. ASSUME NEW a \in Players, NEW b \in Others(a), b \in protocols[a]
        PROVE  link'[a][b] # "none"
    <3>1. link[a][b] # "none" /\ b \in Players
      BY <1>2, <2>1 DEF TypeOK, Others
    <3> QED  BY <1>4, <1>7, <3>1
  <2> QED  BY <1>1, <1>2, <1>6, <1>7, <2>1 DEF TypeOK
<1>9. \A a \in Players : Opened(a)' <=> Opened(a)
  BY <1>1 DEF Opened
<1>10. ASSUME NEW r \in Players PROVE PhaseInv(r)'
  <2>1. CASE r = p
    <3>1. Synchronized(p)' <=> Synchronized(p)
      BY <1>1 DEF Synchronized
    <3>2. phase[p] \notin {"off", "closing", "stopped", "aborted"}
      BY <1>1, <1>2 DEF PhaseInv
    <3>3. \A b \in Others(p) : link'[p][b] = "closing" => link[p][b] = "closing"
      BY <1>4, <1>7 DEF Others
    <3> QED  BY <1>1, <1>2, <1>9, <2>1, <3>1, <3>2, <3>3 DEF PhaseInv
  <2>2. CASE r # p
    BY <1>1, <1>2, <1>7, <1>8, <2>2, Parts, PhaseKept
  <2> QED  BY <2>1, <2>2
<1>11. ASSUME NEW a \in Players, NEW b \in Others(a)
       PROVE  SentInv(a, b)' /\ EndInv(a, b)'
  <2>1. SentInv(a, b) /\ EndInv(a, b) /\ b \in Players
    BY Parts
  <2>2. Later(a) /\ (link[a][b] # "none" => link'[a][b] # "none")
    BY <1>1, <1>4, <1>7, <2>1 DEF Later
  <2>3. /\ Ordered(wire'[a][b])
        /\ \A s : Contains(wire'[a][b], s) => Contains(wire[a][b], s)
        /\ wire'[a][b] # <<>> => wire[a][b] # <<>>
    <3>1. CASE a = q /\ b = p
      BY <1>1, <1>2, <1>3, <1>6, <3>1 DEF w
    <3>2. CASE ~(a = q /\ b = p)
      BY <1>6, <2>1, <3>2 DEF SentInv
    <3> QED  BY <3>1, <3>2
  <2>4. SentInv(a, b)'
    <3>1. wire'[a][b] # <<>> => link'[a][b] # "none"
      BY <2>1, <2>2, <2>3 DEF SentInv
    <3> QED  BY <1>1, <2>1, <2>2, <2>3, <3>1, SentKept
  <2>5. EndInv(a, b)'
    <3>1. CASE a = p /\ b = q
      <4>1. link'[a][b] = end
        BY <1>2, <1>7, <3>1
      <4> QED  BY <1>1, <1>5, <1>9, <2>1, <2>3, <3>1, <4>1 DEF EndInv
    <3>2. CASE ~(a = p /\ b = q)
      <4>1. link'[a][b] = link[a][b]
        BY <1>7, <2>1, <3>2
      <4> QED  BY <1>1, <1>9, <2>1, <2>3, <4>1, EndKept
    <3> QED  BY <3>1, <3>2
  <2> QED  BY <2>4, <2>5
<1> QED  BY <1>8, <1>10, <1>11 DEF IInv

LEMMA StopReactorStep ==
    ASSUME IInv, NEW p \in Players, StopReactor(p)
    PROVE  IInv'
<1>1. /\ phase[p] = "closing" /\ phase' = [phase EXCEPT ![p] = "stopped"]
      /\ \A q \in Others(p) : link[p][q] = "lost"
      /\ UNCHANGED <<needed_protocols, protocols, link, data, wire, garbled>>
  BY DEF StopReactor
<1>2. TypeOK'
  BY <1>1 DEF IInv, TypeOK, Phases
<1>3. /\ phase'[p] = "stopped"
      /\ \A r \in Players : r # p => phase'[r] = phase[r]
  BY <1>1, Parts
<1>4. /\ \A a \in Players : Opened(a)' <=> Opened(a)
      /\ Synchronized(p)' <=> Synchronized(p)
  BY <1>1 DEF Opened, Synchronized
<1>5. ASSUME NEW r \in Players PROVE PhaseInv(r)'
  <2>1. CASE r = p
    BY <1>1, <1>3, <1>4, <2>1, Parts DEF PhaseInv
  <2>2. CASE r # p
    BY <1>1, <1>2, <1>3, <2>2, Parts, PhaseKept
  <2> QED  BY <2>1, <2>2
<1>6. ASSUME NEW a \in Players, NEW b \in Others(a)
      PROVE  SentInv(a, b)' /\ EndInv(a, b)'
  <2>1. SentInv(a, b) /\ EndInv(a, b)
    BY Parts
  <2>2. Later(a) /\ (phase[a] \in {"closing", "stopped"} => phase'[a] \in {"closing", "stopped"})
    BY <1>1, <1>3 DEF Later
  <2>3. SentInv(a, b)'
    BY <1>1, <2>1, <2>2, SentKept DEF SentInv
  <2>4. EndInv(a, b)'
    BY <1>1, <1>4, <2>1, <2>2, EndKept
  <2> QED  BY <2>3, <2>4
<1> QED  BY <1>2, <1>5, <1>6 DEF IInv

LEMMA SendBadStep ==
    ASSUME IInv, NEW p \in Players, NEW q \in Others(p), SendBad(p, q)
    PROVE  IInv'
<1> DEFINE w == wire[p][q]
<1>1. /\ p \in Garbling /\ link[p][q] = "up"
      /\ wire' = [wire EXCEPT ![p][q] = Append(w, "bad")]
      /\ garbled' = garbled \cup {p}
      /\ UNCHANGED <<phase, needed_protocols, protocols, link, data>>
  BY Parts DEF SendBad
<1>2. TypeOK /\ q \in Players /\ q # p /\ w \in Seq(Strings) /\ Ordered(w) /\ "bad" \in Strings
  BY Parts DEF Others, Strings
<1> HIDE DEF w
<1>3. /\ Append(w, "bad") \in Seq(Strings) /\ Ordered(Append(w, "bad"))
      /\ \A s : Contains(Append(w, "bad"), s) <=> Contains(w, s) \/ s = "bad"
  BY <1>2, Appended
<1>4. /\ wire' \in [Players -> [Players -> Seq(Strings)]]
      /\ \A a, b \in Players : wire'[a][b] = IF a = p /\ b = q THEN Append(w, "bad")
                                             ELSE wire[a][b]
  BY <1>1, <1>2, <1>3, Parts
<1>5. garbled' # {} /\ garbled \subseteq garbled'
  BY <1>1
<1>6. TypeOK'
  BY <1>1, <1>2, <1>4 DEF TypeOK
<1>7. ASSUME NEW r \in Players PROVE PhaseInv(r)'
  BY <1>1, <1>2, <1>5, <1>6, Parts, PhaseKept
<1>8. ASSUME NEW a \in Players, NEW b \in Others(a)
      PROVE  SentInv(a, b)' /\ EndInv(a, b)'
  <2>1. SentInv(a, b) /\ b \in Players
    BY Parts
  <2>2. Later(a)
    BY <1>1 DEF Later
  <2>3. SentInv(a, b)'
    <3>1. CASE a = p /\ b = q
      <4>1. wire'[a][b] = Append(w, "bad") /\ wire[a][b] = w /\ link'[a][b] # "none"
        BY <1>1, <1>2, <1>4, <3>1 DEF w
      <4> QED  BY <1>1, <1>3, <2>1, <2>2, <4>1, SentKept
    <3>2. CASE ~(a = p /\ b = q)
      <4>1. wire'[a][b] = wire[a][b]
        BY <1>4, <2>1, <3>2
      <4> QED  BY <1>1, <2>1, <2>2, <4>1 DEF SentInv
    <3> QED  BY <3>1, <3>2
  <2>4. EndInv(a, b)'
    BY <1>5 DEF EndInv
  <2> QED  BY <2>3, <2>4
<1> QED  BY <1>6, <1>7, <1>8 DEF IInv

LEMMA AbortStep ==
    ASSUME IInv, NEW p \in Players, NEW q \in Others(p), Abort(p, q)
    PROVE  IInv'
<1> DEFINE w == wire[q][p]
           lost == [r \in Players |-> IF link[p][r] = "up" THEN "lost" ELSE link[p][r]]
           E == {r \in Others(p) : link[p][r] = "up"}
<1>1. /\ link[p][q] = "up" /\ w # <<>> /\ Head(w) = "bad"
      /\ phase' = [phase EXCEPT ![p] = "aborted"]
      /\ link' = [link EXCEPT ![p] = lost]
      /\ UNCHANGED <<needed_protocols, protocols, data, garbled>>
  BY Parts DEF Abort
<1>2. /\ TypeOK /\ PhaseInv(p) /\ q \in Players /\ q # p /\ w \in Seq(Strings) /\ Ordered(w)
      /\ SentInv(q, p) /\ EndInv(q, p)
  BY Parts DEF Others
<1>3. PICK end \in [E -> {"fin", "rst"}] :
         wire' = [wire EXCEPT ![p] = [r \in Players |->
                        IF r \notin DOMAIN end THEN @[r]
                        ELSE IF end[r] = "fin" THEN Append(@[r], "fin") ELSE <<"rst">>],
                    ![q][p] = Tail(@)]
  BY DEF Abort
<1> DEFINE cut == [r \in Players |->
                     IF r \notin DOMAIN end THEN wire[p][r]
                     ELSE IF end[r] = "fin" THEN Append(wire[p][r], "fin") ELSE <<"rst">>]
<1>4. wire' = [wire EXCEPT ![p] = cut, ![q][p] = Tail(w)]
  BY <1>2, <1>3, Parts
<1>5. /\ Tail(w) \in Seq(Strings) /\ Contains(w, "bad") /\ Ordered(Tail(w))
      /\ \A s : Contains(Tail(w), s) => Contains(w, s)
  BY <1>1, <1>2, WasRead
<1>6. garbled # {} /\ garbled' # {}
  BY <1>1, <1>2, <1>5 DEF EndInv
<1>7. "fin" \in Strings
  BY DEF Strings
<1>8. ASSUME NEW r \in Players
      PROVE  /\ cut[r] \in Seq(Strings)
             /\ r # p => Ordered(cut[r])
             /\ \A s \in {"id", "share", "sync"} : Contains(cut[r], s) => Contains(wire[p][r], s)
             /\ cut[r] # wire[p][r] => link[p][r] # "none"
  <2>1. wire[p][r] \in Seq(Strings) /\ (r # p => Ordered(wire[p][r]))
    BY Parts DEF Others
  <2>2. CASE r \notin E
    BY <2>1, <2>2
  <2>3. CASE r \in E
    <3>1. cut[r] = Append(wire[p][r], "fin") \/ cut[r] = <<"rst">>
      BY <2>3
    <3>2. r # p /\ link[p][r] # "none"
      BY <2>3 DEF Others
    <3> HIDE DEF cut
    <3>3. CASE cut[r] = Append(wire[p][r], "fin")
      BY <1>7, <2>1, <3>2, <3>3, Appended
    <3>4. CASE cut[r] = <<"rst">>
      BY <3>2, <3>4, ShortWires
    <3> QED  BY <3>1, <3>3, <3>4
  <2> QED  BY <2>2, <2>3
<1>9. cut \in [Players -> Seq(Strings)]
  BY <1>8
<1>10. /\ lost \in [Players -> Links] /\ \A r \in Players : lost[r] # "up"
       /\ \A r \in Players : /\ lost[r] = "closing" => link[p][r] = "closing"
                             /\ link[p][r] # "none" => lost[r] # "none"
  <2>1. \A r \in Players : link[p][r] \in Links
    BY Parts
  <2> QED  BY <2>1 DEF Links
<1> HIDE DEF cut, lost, w, E
<1>11. /\ wire' \in [Players -> [Players -> Seq(Strings)]]
       /\ \A a, b \in Players : wire'[a][b] = IF a = p THEN cut[b]
                                              ELSE IF a = q /\ b = p THEN Tail(w)
                                              ELSE wire[a][b]
  BY <1>2, <1>4, <1>5, <1>9, Parts
<1>12. /\ link' \in [Players -> [Players -> Links]]
       /\ link'[p] = lost
       /\ \A a \in Players : a # p => link'[a] = link[a]
  BY <1>1, <1>10, Parts
<1>13. /\ phase' \in [Players -> Phases] /\ phase'[p] = "aborted"
       /\ \A a \in Players : a # p => phase'[a] = phase[a]
  BY <1>1, Parts DEF Phases
<1>14. \A a, b \in Players : link[a][b] # "none" => link'[a][b] # "none"
  BY <1>10, <1>12
<1>15. TypeOK'
  <2>1. ASSUME NEW a \in Players, NEW b \in Others(a), b \in protocols[a]
        PROVE  link'[a][b] # "none"
    <3>1. link[a][b] # "none" /\ b \in Players
      BY <1>2, <2>1 DEF TypeOK, Others
    <3> QED  BY <1>14, <3>1
  <2>2. UNCHANGED <<needed_protocols, protocols, data, garbled>>
    BY <1>1
  <2> QED  BY <1>2, <1>11, <1>12, <1>13, <2>1, <2>2 DEF TypeOK
<1>16. ASSUME NEW r \in Players PROVE PhaseInv(r)'
  <2>1. CASE r = p
    <3>1. \A b \in Others(p) : link'[p][b] # "up" /\ link'[p][b] # "closing"
      <4>1. phase[p] # "closing"
        BY <1>1, <1>2 DEF PhaseInv
      <4>2. \A b \in Others(p) : link[p][b] # "closing"
        BY <1>2, <4>1 DEF PhaseInv
      <4> QED  BY <1>10, <1>12, <4>2 DEF Others
    <3>2. p \in protocols'[p]
      BY <1>1, <1>2 DEF PhaseInv
    <3> QED  BY <1>6, <1>13, <2>1, <3>1, <3>2 DEF PhaseInv
  <2>2. CASE r # p
    BY <1>1, <1>2, <1>12, <1>13, <1>15, <2>2, Parts, PhaseKept
  <2> QED  BY <2>1, <2>2
<1>17. ASSUME NEW a \in Players, NEW b \in Others(a)
       PROVE  SentInv(a, b)' /\ EndInv(a, b)'
  <2>1. SentInv(a, b) /\ b \in Players /\ b # a
    BY Parts DEF Others
  <2>2. Later(a)
    BY <1>13 DEF Later
  <2>3. /\ Ordered(wire'[a][b])
        /\ \A s \in {"id", "share", "sync"} : Contains(wire'[a][b], s) => Contains(wire[a][b], s)
        /\ wire'[a][b] # <<>> => link[a][b] # "none"
    <3>1. CASE a = p
      BY <1>8, <1>11, <2>1, <3>1 DEF SentInv
    <3>2. CASE a = q /\ b = p
      BY <1>1, <1>2, <1>5, <1>11, <2>1, <3>2 DEF SentInv, w
    <3>3. CASE a # p /\ ~(a = q /\ b = p)
      BY <1>11, <2>1, <3>3 DEF SentInv
    <3> QED  BY <3>1, <3>2, <3>3
  <2>4. SentInv(a, b)'
    <3>1. wire'[a][b] # <<>> => link'[a][b] # "none"
      BY <1>14, <2>1, <2>3
    <3>2. link[a][b] # "none" => link'[a][b] # "none"
      BY <1>14, <2>1
    <3> QED  BY <1>1, <2>1, <2>2, <2>3, <3>1, <3>2, SentKept
  <2>5. EndInv(a, b)'
    BY <1>6 DEF EndInv
  <2> QED  BY <2>4, <2>5
<1> QED  BY <1>15, <1>16, <1>17 DEF IInv
\* What a player that starts its program writes to one that it has sent neither.
LEMMA Starts ==
    ASSUME NEW w \in Seq(Strings), Ordered(w),
           NEW strings \in {<<>>, <<"share">>, <<"share", "sync">>},
           ~Contains(w, "share"), ~Contains(w, "sync")
    PROVE  /\ strings \in Seq(Strings)
           /\ w \o strings \in Seq(Strings)
           /\ Ordered(w \o strings)
           /\ \A s : Contains(w \o strings, s) <=> Contains(w, s) \/ Contains(strings, s)
           /\ \A s : Contains(strings, s) <=> \/ s = "share" /\ strings # <<>>
                                              \/ s = "sync" /\ strings = <<"share", "sync">>
<1>1. "share" \in Strings /\ "sync" \in Strings
  BY DEF Strings
<1> DEFINE t == Append(w, "share")
           u == Append(t, "sync")
<1>2. /\ t \in Seq(Strings) /\ Ordered(t) /\ w \o <<"share">> = t
      /\ \A s : Contains(t, s) <=> Contains(w, s) \/ s = "share"
  BY <1>1, Appended
<1> HIDE DEF t
<1>3. /\ u \in Seq(Strings) /\ Ordered(u) /\ t \o <<"sync">> = u
      /\ \A s : Contains(u, s) <=> Contains(t, s) \/ s = "sync"
  BY <1>1, <1>2, Appended
<1>4. w \o <<"share", "sync">> = u
  <2> DEFINE a == <<"share">>
             b == <<"sync">>
             c == <<"share", "sync">>
  <2>1. a \in Seq(Strings) /\ b \in Seq(Strings)
    BY <1>1
  <2>2. a \o b = c
    <3>1. /\ a \in Seq(Strings) /\ Len(a) = 1 /\ a[1] = "share"
          /\ b \in Seq(Strings) /\ Len(b) = 1 /\ b[1] = "sync"
          /\ c \in Seq(Strings) /\ Len(c) = 2 /\ c[1] = "share" /\ c[2] = "sync"
      BY <1>1
    <3> HIDE DEF a, b, c
    <3> DEFINE d == a \o b
    <3>2. /\ d \in Seq(Strings) /\ Len(d) = 2 /\ d[1] = "share" /\ d[2] = "sync"
      BY <3>1, ConcatProperties
    <3> HIDE DEF d
    <3>3. \A i \in 1..Len(d) : i = 1 \/ i = 2
      BY <3>2
    <3>4. d = c
      BY <3>1, <3>2, <3>3, SeqEqual
    <3> QED  BY <3>4 DEF d
  <2>3. t = w \o a /\ u = t \o b
    BY <1>2, <1>3
  <2> HIDE DEF a, b, c, u
  <2>4. (w \o a) \o b = w \o (a \o b)
    BY <2>1, ConcatAssociative
  <2>5. w \o c = u
    BY <2>2, <2>3, <2>4
  <2> QED  BY <2>5 DEF c
<1> HIDE DEF u
<1>5. CASE strings = <<>>
  <2>1. w \o strings = w /\ \A s : ~Contains(strings, s)
    BY <1>5, ShortWires
  <2> QED  BY <1>1, <1>5, <2>1
<1>6. CASE strings = <<"share">>
  <2>1. /\ strings \in Seq(Strings) /\ strings # <<>> /\ Len(strings) = 1
        /\ \A s : Contains(strings, s) <=> s = "share"
    BY <1>1, <1>6 DEF Contains
  <2>2. strings # <<"share", "sync">>
    BY <1>6
  <2> QED  BY <1>2, <1>6, <2>1, <2>2
<1>7. CASE strings = <<"share", "sync">>
  <2>1. /\ strings \in Seq(Strings) /\ strings # <<>>
        /\ \A s : Contains(strings, s) <=> s = "share" \/ s = "sync"
    <3>1. /\ strings \in Seq(Strings) /\ Len(strings) = 2 /\ strings[1] = "share"
          /\ strings[2] = "sync"
      BY <1>1, <1>7
    <3>2. \A i \in 1..Len(strings) : i = 1 \/ i = 2
      BY <3>1
    <3>3. 1 \in 1..Len(strings) /\ 2 \in 1..Len(strings) /\ strings # <<>>
      BY <3>1
    <3> QED  BY <3>1, <3>2, <3>3 DEF Contains
  <2> QED  BY <1>2, <1>3, <1>4, <1>7, <2>1
<1> QED  BY <1>5, <1>6, <1>7

LEMMA IdentifyPeerStep ==
    ASSUME IInv, NEW p \in Players, NEW q \in Others(p), IdentifyPeer(p, q)
    PROVE  IInv'
<1> DEFINE w == wire[q][p]
           next == IF ~ LastProtocol(p) THEN "connecting"
                   ELSE IF Opened(p) THEN "syncing" ELSE "running"
           strings == CASE next = "connecting" -> <<>>
                        [] next = "running" -> <<"share">>
                        [] next = "syncing" -> <<"share", "sync">>
           known == protocols[p] \cup {q}
<1>1. /\ TypeOK /\ PhaseInv(p) /\ q \in Players /\ q # p /\ p \in Others(q)
      /\ w \in Seq(Strings) /\ Ordered(w) /\ SentInv(q, p) /\ EndInv(q, p)
  BY Parts DEF Others
<1>2. /\ link[p][q] = "up" /\ q \notin protocols[p] /\ w # <<>> /\ Head(w) = "id"
      /\ protocols' = [protocols EXCEPT ![p] = known]
      /\ needed_protocols' = [needed_protocols EXCEPT ![p] = StillNeeded(p)]
      /\ phase' = [phase EXCEPT ![p] = next]
      /\ wire' = [WriteAll(p, strings) EXCEPT ![q][p] = Tail(@)]
      /\ UNCHANGED <<link, data, garbled>>
  BY <1>1, Parts DEF IdentifyPeer
<1>3. phase[p] = "connecting"
  BY <1>1, <1>2 DEF PhaseInv, TypeOK, Phases
<1>4. /\ next \in {"connecting", "running", "syncing"}
      /\ next = "connecting" <=> ~LastProtocol(p)
      /\ next = "syncing" => Opened(p)
  OBVIOUS
<1>5. /\ strings \in {<<>>, <<"share">>, <<"share", "sync">>}
      /\ next = "connecting" => strings = <<>>
      /\ next = "running" => strings = <<"share">>
      /\ next = "syncing" => strings = <<"share", "sync">>
  <2> HIDE DEF next
  <2> QED  BY <1>4
<1> HIDE DEF strings, next, w
<1>6. /\ strings # <<>> => next # "connecting"
      /\ strings = <<"share", "sync">> => next = "syncing"
      /\ strings \in Seq(Strings)
  <2>1. <<"share">> # <<"share", "sync">> /\ <<>> # <<"share", "sync">>
    OBVIOUS
  <2>2. strings \in Seq(Strings)
    BY <1>5, ShortWires, Starts
  <2> QED  BY <1>4, <1>5, <2>1, <2>2
<1>7. /\ known \in SUBSET Players /\ protocols[p] \in SUBSET Players
      /\ Cardinality(known) = Cardinality(protocols[p]) + 1
      /\ Cardinality(known) \in 0..N /\ Cardinality(protocols[p]) \in 0..N
      /\ Cardinality(known) = N <=> known = Players
  BY <1>1, <1>2, Parts, PlayerSets
<1>8. /\ StillNeeded(p) = N - Cardinality(known)
      /\ StillNeeded(p) \in 0..(N - 1)
      /\ LastProtocol(p) <=> known = Players
  <2>1. needed_protocols[p] = N - Cardinality(protocols[p]) /\ N \in Nat
    BY <1>1, ConnectionsAssumption DEF TypeOK
  <2> HIDE DEF known
  <2> QED  BY <1>7, <2>1 DEF StillNeeded, LastProtocol
<1> HIDE DEF known
<1>9. /\ protocols' \in [Players -> SUBSET Players] /\ protocols'[p] = known
      /\ \A r \in Players : r # p => protocols'[r] = protocols[r]
  BY <1>2, <1>7, Parts
<1>10. /\ needed_protocols' \in [Players -> 0..(N - 1)]
       /\ needed_protocols'[p] = StillNeeded(p)
       /\ \A r \in Players : r # p => needed_protocols'[r] = needed_protocols[r]
  <2>1. needed_protocols \in [Players -> 0..(N - 1)]
    BY <1>1 DEF TypeOK
  <2> DEFINE k == StillNeeded(p)
  <2>2. needed_protocols' = [needed_protocols EXCEPT ![p] = k] /\ k \in 0..(N - 1)
    BY <1>2, <1>8
  <2> HIDE DEF k
  <2>3. /\ needed_protocols' \in [Players -> 0..(N - 1)]
        /\ needed_protocols'[p] = k
        /\ \A r \in Players : r # p => needed_protocols'[r] = needed_protocols[r]
    BY <2>1, <2>2
  <2> QED  BY <2>3 DEF k
<1>11. /\ phase' \in [Players -> Phases] /\ phase'[p] = next
       /\ \A r \in Players : r # p => phase'[r] = phase[r]
  BY <1>2, <1>4, Parts DEF Phases
<1>12. /\ Tail(w) \in Seq(Strings) /\ Ordered(Tail(w)) /\ ~Contains(Tail(w), "id")
       /\ \A s : Contains(Tail(w), s) => Contains(w, s)
  BY <1>1, <1>2, WasRead
<1>13. /\ wire' \in [Players -> [Players -> Seq(Strings)]]
       /\ \A a, b \in Players :
             wire'[a][b] = IF a = q /\ b = p THEN Tail(w)
                           ELSE IF a = p /\ link[p][b] = "up" THEN wire[a][b] \o strings
                           ELSE wire[a][b]
  <2> DEFINE W == WriteAll(p, strings)
  <2>1. /\ W \in [Players -> [Players -> Seq(Strings)]]
        /\ \A a, b \in Players :
              W[a][b] = IF a = p /\ link[p][b] = "up" THEN wire[a][b] \o strings
                        ELSE wire[a][b]
    BY <1>1, <1>6, Written
  <2>2. wire' = [W EXCEPT ![q][p] = Tail(@)]
    BY <1>2
  <2> HIDE DEF W
  <2>3. W[q][p] = w
    BY <1>1, <2>1 DEF w
  <2>4. wire' = [W EXCEPT ![q][p] = Tail(w)]
    BY <1>1, <2>1, <2>2, <2>3
  <2>5. /\ wire' \in [Players -> [Players -> Seq(Strings)]]
        /\ \A a, b \in Players : wire'[a][b] = IF a = q /\ b = p THEN Tail(w) ELSE W[a][b]
    BY <1>1, <1>12, <2>1, <2>4
  <2>6. ASSUME NEW a \in Players, NEW b \in Players
        PROVE  wire'[a][b] = IF a = q /\ b = p THEN Tail(w)
                             ELSE IF a = p /\ link[p][b] = "up" THEN wire[a][b] \o strings
                             ELSE wire[a][b]
    <3>1. CASE a = q /\ b = p
      BY <2>5, <3>1
    <3>2. CASE ~(a = q /\ b = p)
      <4>1. wire'[a][b] = W[a][b]
        BY <2>5, <3>2
      <4>2. W[a][b] = IF a = p /\ link[p][b] = "up" THEN wire[a][b] \o strings
                      ELSE wire[a][b]
        BY <2>1
      <4> QED  BY <3>2, <4>1, <4>2
    <3> QED  BY <3>1, <3>2
  <2> QED  BY <2>5, <2>6
<1>14. TypeOK'
  <2>1. ASSUME NEW a \in Players
        PROVE  needed_protocols'[a] = N - Cardinality(protocols'[a])
    <3>1. CASE a = p
      BY <1>8, <1>9, <1>10, <3>1
    <3>2. CASE a # p
      BY <1>1, <1>9, <1>10, <3>2 DEF TypeOK
    <3> QED  BY <3>1, <3>2
  <2>2. ASSUME NEW a \in Players, NEW b \in Others(a), b \in protocols'[a]
        PROVE  link'[a][b] # "none"
    <3>1. CASE a = p /\ b = q
      BY <1>2, <3>1
    <3>2. CASE ~(a = p /\ b = q)
      <4>1. b \in protocols[a]
        BY <1>9, <2>2, <3>2 DEF known
      <4> QED  BY <1>1, <1>2, <4>1 DEF TypeOK
    <3> QED  BY <3>1, <3>2
  <2>3. UNCHANGED <<link, data, garbled>>
    BY <1>2
  <2>4. wire' \in [Players -> [Players -> Seq(Strings)]]
    BY <1>13
  <2> QED  BY <1>1, <1>9, <1>10, <1>11, <2>1, <2>2, <2>3, <2>4 DEF TypeOK
<1>15. ASSUME NEW r \in Players PROVE PhaseInv(r)'
  <2>1. CASE r = p
    <3>1. p \in known
      BY <1>1 DEF PhaseInv, known
    <3>2. Opened(p)' <=> Opened(p)
      BY <1>2 DEF Opened
    <3>3. \A b \in Others(p) : link'[p][b] # "closing"
      BY <1>1, <1>2, <1>3 DEF PhaseInv
    <3> QED  BY <1>4, <1>8, <1>9, <1>11, <2>1, <3>1, <3>2, <3>3 DEF PhaseInv
  <2>2. CASE r # p
    BY <1>1, <1>2, <1>9, <1>11, <1>14, <2>2, Parts, PhaseKept
  <2> QED  BY <2>1, <2>2
<1>16. ASSUME NEW a \in Players, NEW b \in Others(a)
       PROVE  SentInv(a, b)' /\ EndInv(a, b)'
  <2>1. /\ SentInv(a, b) /\ EndInv(a, b) /\ b \in Players /\ b # a
        /\ wire[a][b] \in Seq(Strings) /\ Ordered(wire[a][b])
    BY Parts DEF Others
  <2>2. Later(a) /\ (phase[a] \in {"closing", "stopped"} => phase'[a] \in {"closing", "stopped"})
    BY <1>3, <1>11 DEF Later
  <2>3. Opened(a)' <=> Opened(a)
    BY <1>2 DEF Opened
  <2>4. link' = link /\ data' = data /\ garbled' = garbled
    BY <1>2
  <2>5. CASE a = q /\ b = p
    <3>1. wire'[a][b] = Tail(w) /\ wire[a][b] = w
      BY <1>1, <1>13, <2>5 DEF w
    <3>2. SentInv(a, b)'
      <4>1. link[a][b] # "none"
        BY <1>2, <2>1, <3>1 DEF SentInv
      <4>2. phase'[a] = phase[a]
        BY <1>1, <1>11, <2>5
      <4> QED  BY <1>12, <2>1, <2>4, <3>1, <4>1, <4>2 DEF SentInv
    <3>3. EndInv(a, b)'
      BY <1>12, <2>1, <2>2, <2>3, <2>4, <3>1, EndKept
    <3> QED  BY <3>2, <3>3
  <2>6. CASE a = p /\ link[p][b] = "up"
    <3>1. wire'[a][b] = wire[a][b] \o strings
      BY <1>1, <1>13, <2>1, <2>6
    <3>2. /\ ~Contains(wire[a][b], "share") /\ a \notin data[b]["share"]
          /\ ~Contains(wire[a][b], "sync") /\ a \notin data[b]["sync"]
      BY <1>3, <2>1, <2>6 DEF SentInv
    <3>3. /\ Ordered(wire'[a][b])
          /\ \A s : Contains(wire'[a][b], s) =>
                \/ Contains(wire[a][b], s)
                \/ s = "share" /\ next # "connecting"
                \/ s = "sync" /\ next = "syncing"
      <4>1. /\ Ordered(wire[a][b] \o strings)
            /\ \A s : Contains(wire[a][b] \o strings, s) =>
                  \/ Contains(wire[a][b], s)
                  \/ s = "share" /\ strings # <<>>
                  \/ s = "sync" /\ strings = <<"share", "sync">>
        BY <1>5, <2>1, <3>2, Starts
      <4> QED  BY <1>6, <3>1, <4>1
    <3>4. protocols'[b] = protocols[b] /\ phase'[a] = next /\ link[a][b] = "up"
      BY <1>9, <1>11, <2>1, <2>6
    <3>5. SentInv(a, b)'
      BY <1>4, <2>1, <2>4, <3>2, <3>3, <3>4 DEF SentInv
    <3>6. EndInv(a, b)'
      BY <2>1, <2>2, <2>3, <2>4, <3>3, EndKept
    <3> QED  BY <3>5, <3>6
  <2>7. CASE ~(a = q /\ b = p) /\ ~(a = p /\ link[p][b] = "up")
    <3>1. wire'[a][b] = wire[a][b]
      BY <1>13, <2>1, <2>7
    <3>2. a \in protocols'[b] <=> a \in protocols[b]
      <4>1. CASE b = p
        BY <1>9, <2>7, <4>1 DEF known
      <4>2. CASE b # p
        BY <1>9, <2>1, <4>2
      <4> QED  BY <4>1, <4>2
    <3>3. SentInv(a, b)'
      BY <2>1, <2>2, <2>4, <3>1, <3>2 DEF SentInv, Later
    <3>4. EndInv(a, b)'
      BY <2>1, <2>2, <2>3, <2>4, <3>1, EndKept
    <3> QED  BY <3>3, <3>4
  <2> QED  BY <2>5, <2>6, <2>7
<1> QED  BY <1>14, <1>15, <1>16 DEF IInv

LEMMA Inductive == Spec => []IInv
<1>1. IInv /\ [Next]_vars => IInv'
  <2> SUFFICES ASSUME IInv, [Next]_vars PROVE IInv'
    OBVIOUS
  <2>1. ASSUME NEW p \in Players, Alone(p) PROVE IInv'
    BY <2>1, ListenStep, ShutdownStep, CloseConnectionsStep, StopReactorStep DEF Alone
  <2>2. ASSUME NEW p \in Players, NEW q \in Others(p), Pair(p, q) PROVE IInv'
    <3>1. CASE Connect(p, q)
      BY <3>1, ConnectionMadeStep DEF Connect
    <3>2. CASE Accept(p, q)
      BY <3>2, ConnectionMadeStep DEF Accept
    <3>3. CASE IdentifyPeer(p, q)
      BY <3>3, IdentifyPeerStep
    <3>4. CASE ReceiveData(p, q)
      BY <3>4, ReceiveDataStep
    <3>5. CASE LoseConnection(p, q)
      BY <3>5, LoseConnectionStep
    <3>6. CASE ConnectionLost(p, q)
      BY <3>6, ConnectionLostStep
    <3>7. CASE Abort(p, q)
      BY <3>7, AbortStep
    <3> QED  BY <2>2, <3>1, <3>2, <3>3, <3>4, <3>5, <3>6, <3>7 DEF Pair
  <2>3. ASSUME NEW p \in Players, NEW q \in Others(p), SendBad(p, q) PROVE IInv'
    BY <2>3, SendBadStep
  <2>4. CASE UNCHANGED vars
    <3>1. TypeOK'
      BY <2>4 DEF vars, IInv, TypeOK
    <3>2. \A p \in Players : PhaseInv(p)'
      BY <2>4 DEF vars, IInv, PhaseInv, Opened, Synchronized
    <3>3. \A p \in Players : \A q \in Others(p) : SentInv(p, q)' /\ EndInv(p, q)'
      BY <2>4 DEF vars, IInv, SentInv, EndInv, Opened
    <3> QED  BY <3>1, <3>2, <3>3 DEF IInv
  <2> QED  BY <2>1, <2>2, <2>3, <2>4 DEF Next
<1> QED  BY <1>1, InitOK, PTL DEF Spec

------------------------------------------------------------------------------
\* Every state is one that the variables' types allow; needed_protocols counts
\* the protocols that are missing, and a protocol stands for a connection.
THEOREM TypeCorrect == Spec => []TypeOK
<1>1. IInv => TypeOK
  BY DEF IInv
<1> QED  BY <1>1, Inductive, PTL

\* Of any number of players, one runs its program only when all of them have come
\* up, it knows them all, and both ends of its connections are made.
THEOREM ReadyMeansConnectedHolds == Spec => []ReadyMeansConnected
<1>1. IInv => ReadyMeansConnected
  <2> SUFFICES ASSUME IInv, NEW p \in Players,
                      phase[p] \notin {"off", "connecting", "aborted"},
                      NEW q \in Others(p)
               PROVE  phase[q] # "off" /\ q \in protocols[p] /\ link[q][p] # "none"
    BY DEF ReadyMeansConnected
  <2>1. q \in Players /\ PhaseInv(p) /\ PhaseInv(q) /\ SentInv(q, p) /\ TypeOK
    BY Parts
  <2>2. q \in protocols[p]
    BY <2>1 DEF TypeOK, Phases, PhaseInv
  <2>3. link[q][p] # "none"
    BY <2>1, <2>2 DEF SentInv
  <2> QED  BY <2>1, <2>2, <2>3 DEF PhaseInv
<1> QED  BY <1>1, Inductive, PTL

\* However many players there are, one closes its connections only after all the
\* others have made their call of synchronize and nothing of theirs is on its way.
THEOREM ClosedLastHolds == Spec => []ClosedLast
<1>1. IInv => ClosedLast
  <2> SUFFICES ASSUME IInv, NEW p \in Players, phase[p] \in {"closing", "stopped"},
                      NEW q \in Others(p)
               PROVE  /\ phase[q] \notin {"off", "connecting", "running"}
                      /\ ~ Contains(wire[q][p], "share")
                      /\ ~ Contains(wire[q][p], "sync")
    BY DEF ClosedLast
  <2>1. PhaseInv(p) /\ SentInv(q, p)
    BY Parts
  <2>2. q \in data[p]["sync"]
    BY <2>1 DEF PhaseInv, Synchronized
  <2> QED  BY <2>1, <2>2 DEF SentInv
<1> QED  BY <1>1, Inductive, PTL

\* Without a string that is no packet, connectionLost raises at nobody, and a
\* player whose connection ends has its value, whatever the threshold.
THEOREM NoSurpriseHolds == Spec => []NoSurprise
<1>1. IInv => NoSurprise
  BY DEF IInv, EndInv, NoSurprise
<1> QED  BY <1>1, Inductive, PTL
===============================================================================
