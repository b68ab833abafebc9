------------------------ MODULE ShareExchanger_proofs ------------------------
(***************************************************************************)
(* Proofs about ShareExchanger, for every set of peers and labels and for  *)
(* both reactors.                                                          *)
(***************************************************************************)
EXTENDS ShareExchanger, TLAPS

\* The packets under way from a peer carry, for each label, exactly the ranks
\* that were sent and not yet received, in increasing order.
WireInv ==
    \A p \in Peers :
        /\ \A i \in 1..Len(wire[p]) :
              /\ received[p][wire[p][i].key] < wire[p][i].data
              /\ wire[p][i].data <= sent[p][wire[p][i].key]
        /\ \A i, j \in 1..Len(wire[p]) :
              (i < j /\ wire[p][i].key = wire[p][j].key)
                 => wire[p][i].data < wire[p][j].data
        /\ \A k \in Keys : \A m \in received[p][k] + 1 .. sent[p][k] :
              \E i \in 1..Len(wire[p]) : wire[p][i] = [key |-> k, data |-> m]

\* s lists the ranks after low up to high, in order.
Ranked(s, low, high) ==
    /\ s \in Seq(Nat)
    /\ Len(s) = high - low
    /\ \A i \in 1..Len(s) : s[i] = low + i

\* Behind the ranks that are paired stand the ranks that wait, in order.
BufferInv ==
    \A p \in Peers, k \in Keys :
        /\ received[p][k] <= sent[p][k]
        /\ Ranked(waiting_deferreds[p][k], Paired(p, k), expected[p][k])
        /\ Ranked(incoming_data[p][k], Paired(p, k), received[p][k])

\* The callbacks made or queued are those of the paired ranks, each once.
FiringInv ==
    /\ \A f \in fired \cup Queued :
          f.n = f.data /\ 1 <= f.n /\ f.n <= Paired(f.peer, f.key)
    /\ \A p \in Peers, k \in Keys : \A n \in 1..Paired(p, k) :
          [peer |-> p, key |-> k, n |-> n, data |-> n] \in fired \cup Queued
    /\ \A i, j \in 1..Len(deferred_queue) :
          i # j => deferred_queue[i] # deferred_queue[j]
    /\ fired \cap Queued = {}

SelfInv == wire[Self] = <<>> /\ \A k \in Keys : received[Self][k] = sent[Self][k]

IInv == TypeOK /\ WireInv /\ BufferInv /\ FiringInv /\ SelfInv
------------------------------------------------------------------------------
\* What the operations do to the queue, seen as a set.
LEMMA QueuedAppend ==
    ASSUME TypeOK, NEW x \in Firing,
           deferred_queue' = Append(deferred_queue, x)
    PROVE  /\ deferred_queue' \in Seq(Firing)
           /\ Queued' = Queued \cup {x}
<1>1. /\ Len(deferred_queue') = Len(deferred_queue) + 1
      /\ \A i \in 1..Len(deferred_queue) : deferred_queue'[i] = deferred_queue[i]
      /\ deferred_queue'[Len(deferred_queue) + 1] = x
      /\ Len(deferred_queue) \in Nat
      /\ deferred_queue' \in Seq(Firing)
  BY DEF TypeOK
<1> QED  BY <1>1 DEF Queued

\* Taking the head of the deferred_queue takes that callback out of the set, if
\* no two callbacks in the queue are the same.
LEMMA QueuedTail ==
    ASSUME TypeOK, FiringInv, deferred_queue # <<>>,
           deferred_queue' = Tail(deferred_queue)
    PROVE  /\ deferred_queue' \in Seq(Firing)
           /\ Head(deferred_queue) \in Firing
           /\ Head(deferred_queue) \in Queued
           /\ Queued' = Queued \ {Head(deferred_queue)}
           /\ \A i, j \in 1..Len(deferred_queue') :
                 i # j => deferred_queue'[i] # deferred_queue'[j]
<1> DEFINE q == deferred_queue
<1>1. /\ q \in Seq(Firing) /\ Len(q) \in Nat /\ Len(q) > 0
      /\ Head(q) = q[1]
  BY DEF TypeOK
<1>2. /\ Len(q') = Len(q) - 1
      /\ q' \in Seq(Firing)
      /\ \A i \in 1..Len(q') : q'[i] = q[i + 1]
  BY <1>1
<1>3. \A i, j \in 1..Len(q) : i # j => q[i] # q[j]
  BY DEF FiringInv
<1>4. Head(q) \in Firing /\ Head(q) \in Queued
  BY <1>1 DEF Queued
<1>5. \A i, j \in 1..Len(q') : i # j => q'[i] # q'[j]
  <2> SUFFICES ASSUME NEW i \in 1..Len(q'), NEW j \in 1..Len(q'), i # j
               PROVE  q'[i] # q'[j]
    OBVIOUS
  <2>1. i + 1 \in 1..Len(q) /\ j + 1 \in 1..Len(q) /\ i + 1 # j + 1
    BY <1>1, <1>2
  <2> QED  BY <2>1, <1>2, <1>3
<1>6. Queued' \subseteq Queued \ {Head(q)}
  <2> SUFFICES ASSUME NEW i \in 1..Len(q')
               PROVE  q'[i] \in Queued /\ q'[i] # Head(q)
    BY DEF Queued
  <2>1. i + 1 \in 1..Len(q) /\ 1 \in 1..Len(q) /\ i + 1 # 1
    BY <1>1, <1>2
  <2> QED  BY <2>1, <1>1, <1>2, <1>3 DEF Queued
<1>7. Queued \ {Head(q)} \subseteq Queued'
  <2> SUFFICES ASSUME NEW i \in 1..Len(q), q[i] # Head(q)
               PROVE  q[i] \in Queued'
    BY DEF Queued
  <2>1. i - 1 \in 1..Len(q') /\ (i - 1) + 1 = i
    BY <1>1, <1>2
  <2>2. q'[i - 1] = q[i]
    BY <2>1, <1>2
  <2> QED  BY <2>1, <2>2 DEF Queued
<1> QED  BY <1>2, <1>4, <1>5, <1>6, <1>7
\* A callback for the next rank of a label, made or queued, keeps FiringInv.
LEMMA NewFiring ==
    ASSUME TypeOK, FiringInv, NEW p \in Peers, NEW k \in Keys, NEW x,
           x = [peer |-> p, key |-> k,
                n |-> Paired(p, k) + 1, data |-> Paired(p, k) + 1],
           \/ fired' = fired \cup {x} /\ UNCHANGED deferred_queue
           \/ deferred_queue' = Append(deferred_queue, x) /\ UNCHANGED fired,
           \A q \in Peers, l \in Keys :
              Paired(q, l)' = IF q = p /\ l = k THEN Paired(q, l) + 1
                                                ELSE Paired(q, l)
    PROVE  /\ fired' \subseteq Firing
           /\ deferred_queue' \in Seq(Firing)
           /\ FiringInv'
<1> DEFINE Made == fired \cup Queued
<1>1. \A q \in Peers, l \in Keys : Paired(q, l) \in Nat
  BY DEF TypeOK, Paired, Least
<1>2. x \in Firing /\ x.peer = p /\ x.key = k
      /\ x.n = Paired(p, k) + 1 /\ x.data = Paired(p, k) + 1
  BY <1>1 DEF Firing
<1>3. Made \subseteq Firing
  BY DEF Queued, TypeOK
<1>4. x \notin Made
  BY <1>1, <1>2 DEF FiringInv
<1>5. /\ fired' \subseteq Firing
      /\ deferred_queue' \in Seq(Firing)
      /\ Made' = Made \cup {x}
  <2>1. CASE fired' = fired \cup {x} /\ UNCHANGED deferred_queue
    BY <2>1, <1>2 DEF TypeOK, Queued
  <2>2. CASE deferred_queue' = Append(deferred_queue, x) /\ UNCHANGED fired
    BY <2>2, <1>2, QueuedAppend DEF TypeOK
  <2> QED  BY <2>1, <2>2
<1>6. \A f \in Made' : f.n = f.data /\ 1 <= f.n /\ f.n <= Paired(f.peer, f.key)'
  <2> SUFFICES ASSUME NEW f \in Made'
               PROVE  f.n = f.data /\ 1 <= f.n /\ f.n <= Paired(f.peer, f.key)'
    OBVIOUS
  <2>1. CASE f = x
    BY <2>1, <1>1, <1>2
  <2>2. CASE f # x
    <3>1. f \in Made /\ f \in Firing
      BY <2>2, <1>3, <1>5
    <3>2. f.peer \in Peers /\ f.key \in Keys /\ f.n \in Nat
      BY <3>1 DEF Firing
    <3>3. f.n = f.data /\ 1 <= f.n /\ f.n <= Paired(f.peer, f.key)
      BY <3>1 DEF FiringInv
    <3>4. Paired(f.peer, f.key) <= Paired(f.peer, f.key)'
      BY <3>2, <1>1
    <3>5. Paired(f.peer, f.key) \in Nat /\ Paired(f.peer, f.key)' \in Nat
      BY <3>2, <1>1
    <3> QED  BY <3>2, <3>3, <3>4, <3>5
  <2> QED  BY <2>1, <2>2
<1>7. \A q \in Peers, l \in Keys : \A n \in 1..Paired(q, l)' :
         [peer |-> q, key |-> l, n |-> n, data |-> n] \in Made'
  <2> SUFFICES ASSUME NEW q \in Peers, NEW l \in Keys, NEW n \in 1..Paired(q, l)'
               PROVE  [peer |-> q, key |-> l, n |-> n, data |-> n] \in Made'
    OBVIOUS
  <2>1. CASE q = p /\ l = k /\ n = Paired(p, k) + 1
    BY <2>1, <1>5
  <2>2. CASE ~(q = p /\ l = k /\ n = Paired(p, k) + 1)
    <3>1. n \in 1..Paired(q, l)
      BY <2>2, <1>1
    <3> QED  BY <3>1, <1>5 DEF FiringInv
  <2> QED  BY <2>1, <2>2
<1>8. \A i, j \in 1..Len(deferred_queue') :
         i # j => deferred_queue'[i] # deferred_queue'[j]
  <2>1. CASE fired' = fired \cup {x} /\ UNCHANGED deferred_queue
    BY <2>1 DEF FiringInv
  <2>2. CASE deferred_queue' = Append(deferred_queue, x) /\ UNCHANGED fired
    <3>1. /\ Len(deferred_queue') = Len(deferred_queue) + 1
          /\ \A i \in 1..Len(deferred_queue) :
                deferred_queue'[i] = deferred_queue[i]
          /\ deferred_queue'[Len(deferred_queue) + 1] = x
          /\ Len(deferred_queue) \in Nat
      BY <2>2, <1>2 DEF TypeOK
    <3>2. \A i \in 1..Len(deferred_queue) : deferred_queue[i] # x
      BY <1>4 DEF Queued
    <3>3. \A i \in 1..Len(deferred_queue') :
             i \in 1..Len(deferred_queue) \/ i = Len(deferred_queue) + 1
      BY <3>1
    <3> QED  BY <3>1, <3>2, <3>3 DEF FiringInv
  <2> QED  BY <2>1, <2>2
<1>9. fired' \cap Queued' = {}
  <2>1. CASE fired' = fired \cup {x} /\ UNCHANGED deferred_queue
    BY <2>1, <1>4 DEF FiringInv, Queued
  <2>2. CASE deferred_queue' = Append(deferred_queue, x) /\ UNCHANGED fired
    <3>1. Queued' = Queued \cup {x}
      BY <2>2, <1>2, QueuedAppend
    <3> QED  BY <3>1, <2>2, <1>4 DEF FiringInv
  <2> QED  BY <2>1, <2>2
<1> QED  BY <1>5, <1>6, <1>7, <1>8, <1>9 DEF FiringInv
\* A step that pairs nothing and calls nothing back keeps FiringInv.
LEMMA SameFiring ==
    ASSUME TypeOK, FiringInv, UNCHANGED <<fired, deferred_queue>>,
           \A q \in Peers, l \in Keys : Paired(q, l)' = Paired(q, l)
    PROVE  FiringInv'
<1>1. fired' \cup Queued' = fired \cup Queued /\ Queued' = Queued
  BY DEF Queued
<1>2. \A f \in fired \cup Queued : f.peer \in Peers /\ f.key \in Keys
  <2>1. fired \cup Queued \subseteq Firing
    BY DEF TypeOK, Queued
  <2> QED  BY <2>1 DEF Firing
<1>3. \A f \in fired \cup Queued :
         Paired(f.peer, f.key)' = Paired(f.peer, f.key)
  BY <1>2
<1>4. \A f \in fired' \cup Queued' :
         f.n = f.data /\ 1 <= f.n /\ f.n <= Paired(f.peer, f.key)'
  BY <1>1, <1>3 DEF FiringInv
<1>5. \A p \in Peers, k \in Keys : \A n \in 1..Paired(p, k)' :
         [peer |-> p, key |-> k, n |-> n, data |-> n] \in fired' \cup Queued'
  BY <1>1 DEF FiringInv
<1>6. /\ \A i, j \in 1..Len(deferred_queue') :
            i # j => deferred_queue'[i] # deferred_queue'[j]
      /\ fired' \cap Queued' = {}
  BY <1>1 DEF FiringInv
<1> QED  BY <1>4, <1>5, <1>6 DEF FiringInv

------------------------------------------------------------------------------
\* Queues of ranks.
LEMMA RankedAppend ==
    ASSUME NEW low \in Nat, NEW high \in Nat, NEW s, Ranked(s, low, high)
    PROVE  Ranked(Append(s, high + 1), low, high + 1)
<1> DEFINE a == Append(s, high + 1)
<1>1. /\ s \in Seq(Nat) /\ Len(s) \in Nat /\ Len(s) = high - low
      /\ \A i \in 1..Len(s) : s[i] = low + i
  BY DEF Ranked
<1>2. /\ a \in Seq(Nat) /\ Len(a) = Len(s) + 1
      /\ \A i \in 1..Len(s) : a[i] = s[i]
      /\ a[Len(s) + 1] = high + 1
  BY <1>1
<1> HIDE DEF a
<1>3. ASSUME NEW i \in 1..Len(a) PROVE a[i] = low + i
  <2>1. CASE i \in 1..Len(s)
    BY <2>1, <1>1, <1>2
  <2>2. CASE i = Len(s) + 1
    BY <2>2, <1>1, <1>2
  <2> QED  BY <1>1, <1>2, <2>1, <2>2
<1> QED  BY <1>1, <1>2, <1>3 DEF Ranked, a

\* A queue of ranks low+1..high without its head is one of low+2..high.
LEMMA RankedTail ==
    ASSUME NEW low \in Nat, NEW high \in Nat, NEW s, Ranked(s, low, high),
           s # <<>>
    PROVE  /\ low < high
           /\ Head(s) = low + 1
           /\ Ranked(Tail(s), low + 1, high)
<1> DEFINE t == Tail(s)
<1>1. /\ s \in Seq(Nat) /\ Len(s) \in Nat /\ Len(s) = high - low
      /\ \A i \in 1..Len(s) : s[i] = low + i
  BY DEF Ranked
<1>2. /\ Len(s) > 0 /\ Head(s) = s[1]
      /\ t \in Seq(Nat) /\ Len(t) = Len(s) - 1
      /\ \A i \in 1..Len(t) : t[i] = s[i + 1]
  BY <1>1
<1> HIDE DEF t
<1>3. ASSUME NEW i \in 1..Len(t) PROVE t[i] = low + 1 + i
  <2>1. i + 1 \in 1..Len(s)
    BY <1>1, <1>2
  <2>2. t[i] = low + (i + 1)
    BY <2>1, <1>1, <1>2
  <2> QED  BY <2>2
<1>4. low < high /\ Head(s) = low + 1
  BY <1>1, <1>2
<1> QED  BY <1>1, <1>2, <1>3, <1>4 DEF Ranked, t

\* A queue of the ranks low+1..high is empty just if low = high.
LEMMA RankedEmpty ==
    ASSUME NEW low \in Nat, NEW high \in Nat, NEW s, Ranked(s, low, high)
    PROVE  s = <<>> <=> low = high
BY DEF Ranked

\* As many ranks of a label are paired as the shorter side of its buffers has had.
LEMMA PairedNat ==
    ASSUME TypeOK, NEW p \in Peers, NEW k \in Keys
    PROVE  /\ Paired(p, k) \in Nat
           /\ received[p][k] \in Nat /\ expected[p][k] \in Nat
           /\ Paired(p, k) <= received[p][k] /\ Paired(p, k) <= expected[p][k]
           /\ Paired(p, k) = received[p][k] \/ Paired(p, k) = expected[p][k]
BY DEF TypeOK, Paired, Least

\* The reactor of a runtime is never exchanged.
LEMMA ReactorFixed ==
    ASSUME [Next]_vars
    PROVE  using_viff_reactor' = using_viff_reactor
  BY DEF Next, vars, SendData, SendDataToSelf, Receive, ExpectData,
         ProcessDeferredQueue, StringReceived

\* The k-th piece of data of a label is taken in when k - 1 were: the buffers and
\* the callbacks keep their ranks.
LEMMA StringReceivedInv ==
    ASSUME TypeOK, BufferInv, FiringInv, NEW p \in Peers, NEW k \in Keys,
           StringReceived(p, k, received[p][k] + 1),
           sent' \in [Peers -> [Keys -> Nat]],
           \A q \in Peers, l \in Keys : sent[q][l] <= sent'[q][l],
           received[p][k] < sent'[p][k]
    PROVE  /\ incoming_data' \in [Peers -> [Keys -> Seq(Nat)]]
           /\ waiting_deferreds' \in [Peers -> [Keys -> Seq(Nat)]]
           /\ deferred_queue' \in Seq(Firing)
           /\ received' \in [Peers -> [Keys -> Nat]]
           /\ expected' \in [Peers -> [Keys -> Nat]]
           /\ fired' \subseteq Firing
           /\ BufferInv'
           /\ FiringInv'
<1> DEFINE r == received[p][k]
           e == expected[p][k]
           w == waiting_deferreds[p][k]
           d == incoming_data[p][k]
<1>1. /\ r \in Nat /\ e \in Nat /\ w \in Seq(Nat) /\ d \in Seq(Nat)
      /\ Len(w) \in Nat /\ Len(d) \in Nat
  BY DEF TypeOK
<1>2. /\ received' \in [Peers -> [Keys -> Nat]]
      /\ received'[p][k] = r + 1
      /\ \A q \in Peers, l \in Keys :
            ~(q = p /\ l = k) => received'[q][l] = received[q][l]
      /\ expected' = expected
      /\ expected' \in [Peers -> [Keys -> Nat]]
  <2>1. received' = [received EXCEPT ![p][k] = @ + 1] /\ expected' = expected
    BY DEF StringReceived
  <2> QED  BY <2>1 DEF TypeOK
<1>3. Ranked(w, Paired(p, k), e) /\ Ranked(d, Paired(p, k), r)
  BY DEF BufferInv
<1>4. \A q \in Peers, l \in Keys :
         ~(q = p /\ l = k) => Paired(q, l)' = Paired(q, l)
  BY <1>2 DEF Paired
<1>5. \A q \in Peers, l \in Keys : received'[q][l] <= sent'[q][l]
  <2> TAKE q \in Peers, l \in Keys
  <2>1. received[q][l] <= sent[q][l] /\ sent[q][l] <= sent'[q][l]
    BY DEF BufferInv
  <2>2. received[q][l] \in Nat /\ sent[q][l] \in Nat /\ sent'[q][l] \in Nat
    BY DEF TypeOK
  <2>3. CASE q = p /\ l = k
    BY <2>2, <2>3, <1>2
  <2>4. CASE ~(q = p /\ l = k)
    BY <2>1, <2>2, <2>4, <1>2
  <2> QED  BY <2>3, <2>4
<1>6. ASSUME \A q \in Peers, l \in Keys : ~(q = p /\ l = k) =>
                 /\ waiting_deferreds'[q][l] = waiting_deferreds[q][l]
                 /\ incoming_data'[q][l] = incoming_data[q][l],
             Ranked(waiting_deferreds'[p][k], Paired(p, k)', e),
             Ranked(incoming_data'[p][k], Paired(p, k)', r + 1)
      PROVE  BufferInv'
  <2> SUFFICES ASSUME NEW q \in Peers, NEW l \in Keys
               PROVE /\ Ranked(waiting_deferreds'[q][l], Paired(q, l)', expected'[q][l])
                     /\ Ranked(incoming_data'[q][l], Paired(q, l)', received'[q][l])
    BY <1>5 DEF BufferInv
  <2>1. CASE q = p /\ l = k
    BY <2>1, <1>2, <1>6
  <2>2. CASE ~(q = p /\ l = k)
    BY <2>2, <1>2, <1>4, <1>6 DEF BufferInv
  <2> QED  BY <2>1, <2>2
<1>7. CASE w # <<>>
  <2> DEFINE x == [peer |-> p, key |-> k, n |-> Head(w), data |-> r + 1]
  <2>1. /\ waiting_deferreds' = [waiting_deferreds EXCEPT ![p][k] = Tail(@)]
        /\ incoming_data' = incoming_data
        /\ HandleDeferredData(x)
    BY <1>7 DEF StringReceived
  <2>2. Paired(p, k) < e /\ Head(w) = Paired(p, k) + 1
        /\ Ranked(Tail(w), Paired(p, k) + 1, e)
    BY <1>1, <1>3, <1>7, PairedNat, RankedTail
  <2>3. Paired(p, k) = r /\ Paired(p, k)' = r + 1
    BY <1>1, <1>2, <2>2 DEF Paired, Least
  <2>4. d = <<>> /\ Ranked(d, r + 1, r + 1)
    BY <1>1, <1>3, <2>3, RankedEmpty DEF Ranked
  <2>5. /\ waiting_deferreds' \in [Peers -> [Keys -> Seq(Nat)]]
        /\ waiting_deferreds'[p][k] = Tail(w)
        /\ \A q \in Peers, l \in Keys : ~(q = p /\ l = k) =>
              waiting_deferreds'[q][l] = waiting_deferreds[q][l]
        /\ incoming_data' \in [Peers -> [Keys -> Seq(Nat)]]
    BY <2>1, <2>2 DEF TypeOK, Ranked
  <2>6. BufferInv'
    BY <1>6, <2>1, <2>2, <2>3, <2>4, <2>5
  <2>7. \A q \in Peers, l \in Keys :
           Paired(q, l)' = IF q = p /\ l = k THEN Paired(q, l) + 1
                                             ELSE Paired(q, l)
    BY <1>4, <2>3
  <2>8. x = [peer |-> p, key |-> k,
             n |-> Paired(p, k) + 1, data |-> Paired(p, k) + 1]
    BY <2>2, <2>3
  <2>9. \/ fired' = fired \cup {x} /\ UNCHANGED deferred_queue
        \/ deferred_queue' = Append(deferred_queue, x) /\ UNCHANGED fired
    BY <2>1 DEF HandleDeferredData
  <2> HIDE DEF x
  <2>10. fired' \subseteq Firing /\ deferred_queue' \in Seq(Firing) /\ FiringInv'
    BY <2>7, <2>8, <2>9, NewFiring
  <2> QED  BY <1>2, <2>5, <2>6, <2>10
<1>8. CASE w = <<>>
  <2>1. /\ incoming_data' = [incoming_data EXCEPT ![p][k] = Append(@, r + 1)]
        /\ UNCHANGED <<waiting_deferreds, deferred_queue, fired>>
    BY <1>8 DEF StringReceived
  <2>2. Paired(p, k) = e /\ e <= r
    BY <1>1, <1>3, <1>8, PairedNat, RankedEmpty
  <2>3. Paired(p, k)' = e
    BY <1>1, <1>2, <2>2 DEF Paired, Least
  <2>4. Ranked(Append(d, r + 1), e, r + 1)
    BY <1>1, <1>3, <2>2, RankedAppend
  <2>5. /\ incoming_data' \in [Peers -> [Keys -> Seq(Nat)]]
        /\ incoming_data'[p][k] = Append(d, r + 1)
        /\ \A q \in Peers, l \in Keys : ~(q = p /\ l = k) =>
              incoming_data'[q][l] = incoming_data[q][l]
    BY <2>1, <2>4 DEF TypeOK, Ranked
  <2>6. BufferInv'
    BY <1>3, <1>6, <2>1, <2>2, <2>3, <2>4, <2>5
  <2>7. FiringInv'
    <3>1. \A q \in Peers, l \in Keys : Paired(q, l)' = Paired(q, l)
      BY <1>4, <2>2, <2>3
    <3> QED  BY <2>1, <3>1, SameFiring
  <2> QED  BY <1>2, <2>1, <2>5, <2>6, <2>7 DEF TypeOK
<1> QED  BY <1>7, <1>8
\* The next Deferred of a label is registered: likewise.
LEMMA ExpectDataInv ==
    ASSUME TypeOK, BufferInv, FiringInv, NEW p \in Peers, NEW k \in Keys,
           ExpectData(p, k)
    PROVE  /\ TypeOK'
           /\ BufferInv'
           /\ FiringInv'
<1> DEFINE r == received[p][k]
           e == expected[p][k]
           w == waiting_deferreds[p][k]
           d == incoming_data[p][k]
<1>1. r \in Nat /\ e \in Nat /\ w \in Seq(Nat) /\ d \in Seq(Nat)
  BY DEF TypeOK
<1>2. /\ expected' \in [Peers -> [Keys -> Nat]]
      /\ expected'[p][k] = e + 1
      /\ \A q \in Peers, l \in Keys :
            ~(q = p /\ l = k) => expected'[q][l] = expected[q][l]
      /\ UNCHANGED <<using_viff_reactor, wire, deferred_queue, sent, received>>
  <2>1. expected' = [expected EXCEPT ![p][k] = e + 1]
        /\ UNCHANGED <<using_viff_reactor, wire, deferred_queue, sent, received>>
    BY DEF ExpectData
  <2> QED  BY <1>1, <2>1 DEF TypeOK
<1>3. Ranked(w, Paired(p, k), e) /\ Ranked(d, Paired(p, k), r)
  BY DEF BufferInv
<1>4. \A q \in Peers, l \in Keys :
         ~(q = p /\ l = k) => Paired(q, l)' = Paired(q, l)
  BY <1>2 DEF Paired
<1>5. ASSUME \A q \in Peers, l \in Keys : ~(q = p /\ l = k) =>
                 /\ waiting_deferreds'[q][l] = waiting_deferreds[q][l]
                 /\ incoming_data'[q][l] = incoming_data[q][l],
             Ranked(waiting_deferreds'[p][k], Paired(p, k)', e + 1),
             Ranked(incoming_data'[p][k], Paired(p, k)', r)
      PROVE  BufferInv'
  <2> SUFFICES ASSUME NEW q \in Peers, NEW l \in Keys
               PROVE /\ Ranked(waiting_deferreds'[q][l], Paired(q, l)', expected'[q][l])
                     /\ Ranked(incoming_data'[q][l], Paired(q, l)', received'[q][l])
    BY <1>2 DEF BufferInv
  <2>1. CASE q = p /\ l = k
    BY <2>1, <1>2, <1>5
  <2>2. CASE ~(q = p /\ l = k)
    BY <2>2, <1>2, <1>4, <1>5 DEF BufferInv
  <2> QED  BY <2>1, <2>2
<1>6. CASE d # <<>>
  <2> DEFINE x == [peer |-> p, key |-> k, n |-> e + 1, data |-> Head(d)]
  <2>1. /\ incoming_data' = [incoming_data EXCEPT ![p][k] = Tail(@)]
        /\ fired' = fired \cup {x}
        /\ UNCHANGED waiting_deferreds
    BY <1>6 DEF ExpectData
  <2>2. Paired(p, k) < r /\ Head(d) = Paired(p, k) + 1
        /\ Ranked(Tail(d), Paired(p, k) + 1, r)
    BY <1>1, <1>3, <1>6, PairedNat, RankedTail
  <2>3. Paired(p, k) = e /\ Paired(p, k)' = e + 1
    BY <1>1, <1>2, <2>2 DEF Paired, Least
  <2>4. w = <<>> /\ Ranked(w, e + 1, e + 1)
    BY <1>1, <1>3, <2>3, RankedEmpty DEF Ranked
  <2>5. /\ incoming_data' \in [Peers -> [Keys -> Seq(Nat)]]
        /\ incoming_data'[p][k] = Tail(d)
        /\ \A q \in Peers, l \in Keys : ~(q = p /\ l = k) =>
              incoming_data'[q][l] = incoming_data[q][l]
    BY <2>1, <2>2 DEF TypeOK, Ranked
  <2>6. BufferInv'
    BY <1>5, <2>1, <2>2, <2>3, <2>4, <2>5
  <2>7. \A q \in Peers, l \in Keys :
           Paired(q, l)' = IF q = p /\ l = k THEN Paired(q, l) + 1
                                             ELSE Paired(q, l)
    BY <1>4, <2>3
  <2>8. x = [peer |-> p, key |-> k,
             n |-> Paired(p, k) + 1, data |-> Paired(p, k) + 1]
    BY <2>2, <2>3
  <2>9. fired' = fired \cup {x} /\ UNCHANGED deferred_queue
    BY <1>2, <2>1
  <2> HIDE DEF x
  <2>10. fired' \subseteq Firing /\ deferred_queue' \in Seq(Firing) /\ FiringInv'
    BY <2>7, <2>8, <2>9, NewFiring
  <2>11. TypeOK'
    BY <1>2, <2>1, <2>5, <2>10 DEF TypeOK
  <2> QED  BY <2>6, <2>10, <2>11
<1>7. CASE d = <<>>
  <2>1. /\ waiting_deferreds' = [waiting_deferreds EXCEPT ![p][k] = Append(@, e + 1)]
        /\ UNCHANGED <<incoming_data, fired>>
    BY <1>7 DEF ExpectData
  <2>2. Paired(p, k) = r /\ r <= e
    BY <1>1, <1>3, <1>7, PairedNat, RankedEmpty
  <2>3. Paired(p, k)' = r
    BY <1>1, <1>2, <2>2 DEF Paired, Least
  <2>4. Ranked(Append(w, e + 1), r, e + 1)
    BY <1>1, <1>3, <2>2, RankedAppend
  <2>5. /\ waiting_deferreds' \in [Peers -> [Keys -> Seq(Nat)]]
        /\ waiting_deferreds'[p][k] = Append(w, e + 1)
        /\ \A q \in Peers, l \in Keys : ~(q = p /\ l = k) =>
              waiting_deferreds'[q][l] = waiting_deferreds[q][l]
    BY <2>1, <2>4 DEF TypeOK, Ranked
  <2>6. BufferInv'
    BY <1>3, <1>5, <2>1, <2>2, <2>3, <2>4, <2>5
  <2>7. FiringInv'
    <3>1. \A q \in Peers, l \in Keys : Paired(q, l)' = Paired(q, l)
      BY <1>4, <2>2, <2>3
    <3> QED  BY <1>2, <2>1, <3>1, SameFiring
  <2>8. TypeOK'
    BY <1>2, <2>1, <2>5 DEF TypeOK
  <2> QED  BY <2>6, <2>7, <2>8
<1> QED  BY <1>6, <1>7
------------------------------------------------------------------------------
\* The first packet on the wire is the next one of its label.
LEMMA WireHead ==
    ASSUME TypeOK, WireInv, NEW p \in Peers, wire[p] # <<>>
    PROVE  /\ Head(wire[p]).key \in Keys
           /\ Head(wire[p]).data = received[p][Head(wire[p]).key] + 1
           /\ received[p][Head(wire[p]).key] < sent[p][Head(wire[p]).key]
<1> DEFINE s == wire[p]
           k == Head(s).key
           n == Head(s).data
<1>1. s \in Seq(Packet) /\ Len(s) \in Nat /\ 1 \in 1..Len(s) /\ Head(s) = s[1]
  BY DEF TypeOK
<1>2. s[1] \in Packet
  BY <1>1
<1>3. k \in Keys /\ n \in Nat /\ s[1].key = k /\ s[1].data = n
  BY <1>1, <1>2 DEF Packet
<1>4. received[p][k] \in Nat /\ sent[p][k] \in Nat
  BY <1>3 DEF TypeOK
<1>5. received[p][k] < n /\ n <= sent[p][k]
  BY <1>1, <1>3 DEF WireInv
<1>6. received[p][k] + 1 \in received[p][k] + 1 .. sent[p][k]
  BY <1>3, <1>4, <1>5
<1>7. PICK i \in 1..Len(s) : s[i] = [key |-> k, data |-> received[p][k] + 1]
  BY <1>3, <1>6 DEF WireInv
<1>8. CASE i = 1
  BY <1>1, <1>3, <1>4, <1>5, <1>7, <1>8
<1>9. CASE i # 1
  <2>1. 1 < i
    BY <1>1, <1>7, <1>9
  <2>2. s[1].data < s[i].data
    BY <1>1, <1>3, <1>7, <2>1 DEF WireInv
  <2> QED  BY <1>3, <1>4, <1>5, <1>7, <2>2
<1> QED  BY <1>8, <1>9
\* Taking the first packet from the wire keeps WireInv.
LEMMA ReceiveWire ==
    ASSUME TypeOK, WireInv, NEW p \in Peers, Receive(p)
    PROVE  wire' \in [Peers -> Seq(Packet)] /\ WireInv'
<1> DEFINE s == wire[p]
           k == Head(s).key
<1>1. /\ s # <<>>
      /\ wire' = [wire EXCEPT ![p] = Tail(@)]
      /\ received' = [received EXCEPT ![p][k] = @ + 1]
      /\ sent' = sent
  BY DEF Receive, StringReceived
<1>2. /\ k \in Keys /\ Head(s).data = received[p][k] + 1
      /\ received[p][k] \in Nat
  BY <1>1, WireHead DEF TypeOK
<1>3. /\ s \in Seq(Packet) /\ Len(s) \in Nat /\ Len(s) > 0 /\ Head(s) = s[1]
  BY <1>1 DEF TypeOK
<1>4. /\ wire'[p] \in Seq(Packet)
      /\ Len(wire'[p]) = Len(s) - 1
      /\ \A i \in 1..Len(wire'[p]) : wire'[p][i] = s[i + 1]
  <2>1. wire'[p] = Tail(s)
    BY <1>1 DEF TypeOK
  <2> QED  BY <2>1, <1>3
<1>5. /\ wire' \in [Peers -> Seq(Packet)]
      /\ \A q \in Peers : q # p => wire'[q] = wire[q]
  BY <1>1, <1>4 DEF TypeOK
<1>6. /\ received'[p][k] = received[p][k] + 1
      /\ \A q \in Peers, l \in Keys :
            ~(q = p /\ l = k) => received'[q][l] = received[q][l]
  BY <1>1, <1>2 DEF TypeOK
<1>7. \A i \in 1..Len(s) : s[i] \in Packet /\ s[i].key \in Keys /\ s[i].data \in Nat
  <2>1. \A i \in 1..Len(s) : s[i] \in Packet
    BY <1>3
  <2> QED  BY <2>1 DEF Packet
<1>8. ASSUME NEW i \in 1..Len(wire'[p])
      PROVE  /\ received'[p][wire'[p][i].key] < wire'[p][i].data
             /\ wire'[p][i].data <= sent'[p][wire'[p][i].key]
  <2>1. i + 1 \in 1..Len(s) /\ 1 \in 1..Len(s) /\ 1 < i + 1
    BY <1>3, <1>4
  <2>2. /\ received[p][s[i + 1].key] < s[i + 1].data
        /\ s[i + 1].data <= sent[p][s[i + 1].key]
    BY <2>1 DEF WireInv
  <2>3. CASE s[i + 1].key = k
    <3>1. s[1].data < s[i + 1].data
      BY <1>3, <2>1, <2>3 DEF WireInv
    <3>2. s[i + 1].data \in Nat
      BY <1>7, <2>1
    <3> QED  BY <1>1, <1>2, <1>3, <1>4, <1>6, <2>2, <2>3, <3>1, <3>2
  <2>4. CASE s[i + 1].key # k
    BY <1>1, <1>4, <1>6, <1>7, <2>1, <2>2, <2>4
  <2> QED  BY <2>3, <2>4
<1>9. ASSUME NEW i \in 1..Len(wire'[p]), NEW j \in 1..Len(wire'[p]),
             i < j, wire'[p][i].key = wire'[p][j].key
      PROVE  wire'[p][i].data < wire'[p][j].data
  <2>1. i + 1 \in 1..Len(s) /\ j + 1 \in 1..Len(s) /\ i + 1 < j + 1
    BY <1>3, <1>4, <1>9
  <2> QED  BY <1>4, <1>9, <2>1 DEF WireInv
<1>10. ASSUME NEW l \in Keys, NEW m \in received'[p][l] + 1 .. sent'[p][l]
       PROVE  \E i \in 1..Len(wire'[p]) : wire'[p][i] = [key |-> l, data |-> m]
  <2>1. sent[p][l] \in Nat /\ received[p][l] \in Nat
    BY DEF TypeOK
  <2>2. m \in received[p][l] + 1 .. sent[p][l] /\ (l = k => m # received[p][k] + 1)
    BY <1>1, <1>2, <1>6, <2>1
  <2>3. PICK i \in 1..Len(s) : s[i] = [key |-> l, data |-> m]
    BY <2>2 DEF WireInv
  <2>4. i # 1
    BY <1>2, <1>3, <2>2, <2>3
  <2>5. i - 1 \in 1..Len(wire'[p]) /\ (i - 1) + 1 = i
    BY <1>3, <1>4, <2>4
  <2>6. wire'[p][i - 1] = s[i]
    BY <1>4, <2>5
  <2> QED  BY <2>3, <2>5, <2>6
<1>11. ASSUME NEW q \in Peers, q # p
       PROVE  /\ wire'[q] = wire[q] /\ received'[q] = received[q] /\ sent'[q] = sent[q]
  BY <1>1, <1>5, <1>11 DEF TypeOK
<1>12. WireInv'
  <2> SUFFICES ASSUME NEW q \in Peers
               PROVE
        /\ \A i \in 1..Len(wire'[q]) :
              /\ received'[q][wire'[q][i].key] < wire'[q][i].data
              /\ wire'[q][i].data <= sent'[q][wire'[q][i].key]
        /\ \A i, j \in 1..Len(wire'[q]) :
              (i < j /\ wire'[q][i].key = wire'[q][j].key)
                 => wire'[q][i].data < wire'[q][j].data
        /\ \A l \in Keys : \A m \in received'[q][l] + 1 .. sent'[q][l] :
              \E i \in 1..Len(wire'[q]) : wire'[q][i] = [key |-> l, data |-> m]
    BY DEF WireInv
  <2>1. CASE q = p
    BY <2>1, <1>8, <1>9, <1>10
  <2>2. CASE q # p
    BY <2>2, <1>11 DEF WireInv
  <2> QED  BY <2>1, <2>2
<1> QED  BY <1>5, <1>12
\* A packet put on the wire with the next rank of its label keeps WireInv.
LEMMA SendWire ==
    ASSUME TypeOK, WireInv, BufferInv, NEW p \in Peers, NEW k \in Keys,
           SendData(p, k)
    PROVE  /\ wire' \in [Peers -> Seq(Packet)]
           /\ sent' \in [Peers -> [Keys -> Nat]]
           /\ WireInv'
<1> DEFINE s == wire[p]
           n == sent[p][k] + 1
           a == Append(s, [key |-> k, data |-> n])
<1>1. /\ wire' = [wire EXCEPT ![p] = a]
      /\ sent' = [sent EXCEPT ![p][k] = n]
      /\ received' = received
  BY DEF SendData
<1>2. n \in Nat /\ sent[p][k] \in Nat /\ received[p][k] \in Nat
      /\ received[p][k] < n /\ s \in Seq(Packet) /\ Len(s) \in Nat
  BY DEF TypeOK, BufferInv
<1>3. /\ a \in Seq(Packet) /\ Len(a) = Len(s) + 1
      /\ \A i \in 1..Len(s) : a[i] = s[i]
      /\ a[Len(s) + 1] = [key |-> k, data |-> n]
  BY <1>2 DEF Packet
<1> HIDE DEF a
<1>4. /\ wire' \in [Peers -> Seq(Packet)] /\ wire'[p] = a
      /\ \A q \in Peers : q # p => wire'[q] = wire[q]
  BY <1>1, <1>3 DEF TypeOK
<1>5. /\ sent' \in [Peers -> [Keys -> Nat]] /\ sent'[p][k] = n
      /\ \A q \in Peers, l \in Keys :
            ~(q = p /\ l = k) => sent'[q][l] = sent[q][l]
  BY <1>1, <1>2 DEF TypeOK
<1>6. \A i \in 1..Len(s) : s[i].key \in Keys /\ s[i].data \in Nat
  <2>1. \A i \in 1..Len(s) : s[i] \in Packet
    BY <1>2
  <2> QED  BY <2>1 DEF Packet
<1>7. \A i \in 1..Len(s) : s[i].key = k => s[i].data < n
  <2> SUFFICES ASSUME NEW i \in 1..Len(s), s[i].key = k PROVE s[i].data < n
    OBVIOUS
  <2>1. s[i].data <= sent[p][k]
    BY DEF WireInv
  <2> QED  BY <2>1, <1>2, <1>6
<1>8. ASSUME NEW i \in 1..Len(a)
      PROVE  received'[p][a[i].key] < a[i].data /\ a[i].data <= sent'[p][a[i].key]
  <2>1. CASE i \in 1..Len(s)
    <3>1. /\ received[p][s[i].key] < s[i].data
          /\ s[i].data <= sent[p][s[i].key]
      BY <2>1 DEF WireInv
    <3>2. CASE s[i].key = k
      BY <1>1, <1>3, <1>5, <1>6, <1>7, <2>1, <3>1, <3>2
    <3>3. CASE s[i].key # k
      BY <1>1, <1>3, <1>5, <1>6, <2>1, <3>1, <3>3
    <3> QED  BY <3>2, <3>3
  <2>2. CASE i = Len(s) + 1
    BY <1>1, <1>2, <1>3, <1>5, <2>2
  <2> QED  BY <1>2, <1>3, <2>1, <2>2
<1>9. ASSUME NEW i \in 1..Len(a), NEW j \in 1..Len(a), i < j, a[i].key = a[j].key
      PROVE  a[i].data < a[j].data
  <2>1. i \in 1..Len(s)
    BY <1>2, <1>3, <1>9
  <2>2. CASE j \in 1..Len(s)
    BY <1>3, <1>9, <2>1, <2>2 DEF WireInv
  <2>3. CASE j = Len(s) + 1
    BY <1>3, <1>7, <1>9, <2>1, <2>3
  <2> QED  BY <1>2, <1>3, <2>2, <2>3
<1>10. ASSUME NEW l \in Keys, NEW m \in received'[p][l] + 1 .. sent'[p][l]
       PROVE  \E i \in 1..Len(a) : a[i] = [key |-> l, data |-> m]
  <2>1. sent[p][l] \in Nat /\ received[p][l] \in Nat
    BY DEF TypeOK
  <2>2. CASE l = k /\ m = n
    <3>1. Len(s) + 1 \in 1..Len(a)
      BY <1>2, <1>3
    <3> QED  BY <1>3, <2>2, <3>1
  <2>3. CASE ~(l = k /\ m = n)
    <3>1. m \in received[p][l] + 1 .. sent[p][l]
      BY <1>1, <1>2, <1>5, <2>1, <2>3
    <3>2. PICK i \in 1..Len(s) : s[i] = [key |-> l, data |-> m]
      BY <3>1 DEF WireInv
    <3>3. i \in 1..Len(a)
      BY <1>2, <1>3
    <3> QED  BY <1>3, <3>2, <3>3
  <2> QED  BY <2>2, <2>3
<1>11. WireInv'
  <2> SUFFICES ASSUME NEW q \in Peers
               PROVE
        /\ \A i \in 1..Len(wire'[q]) :
              /\ received'[q][wire'[q][i].key] < wire'[q][i].data
              /\ wire'[q][i].data <= sent'[q][wire'[q][i].key]
        /\ \A i, j \in 1..Len(wire'[q]) :
              (i < j /\ wire'[q][i].key = wire'[q][j].key)
                 => wire'[q][i].data < wire'[q][j].data
        /\ \A l \in Keys : \A m \in received'[q][l] + 1 .. sent'[q][l] :
              \E i \in 1..Len(wire'[q]) : wire'[q][i] = [key |-> l, data |-> m]
    BY DEF WireInv
  <2>1. CASE q = p
    BY <2>1, <1>4, <1>8, <1>9, <1>10
  <2>2. CASE q # p
    <3>1. wire'[q] = wire[q] /\ received'[q] = received[q] /\ sent'[q] = sent[q]
      BY <1>1, <1>4, <2>2 DEF TypeOK
    <3> QED  BY <3>1 DEF WireInv
  <2> QED  BY <2>1, <2>2
<1> QED  BY <1>4, <1>5, <1>11
\* Data to oneself never travels, so WireInv has nothing to say about it.
LEMMA SelfWire ==
    ASSUME TypeOK, WireInv, SelfInv, NEW k \in Keys, SendDataToSelf(k)
    PROVE  WireInv' /\ SelfInv'
<1>1. /\ sent' = [sent EXCEPT ![Self][k] = @ + 1]
      /\ received' = [received EXCEPT ![Self][k] = @ + 1]
      /\ wire' = wire
  BY DEF SendDataToSelf, StringReceived
<1>2. Self \in Peers
  BY ConstantsAssumption
<1>3. \A l \in Keys : received'[Self][l] = sent'[Self][l] /\ sent'[Self][l] \in Nat
  BY <1>1, <1>2 DEF SelfInv, TypeOK
<1>4. SelfInv'
  BY <1>1, <1>3 DEF SelfInv
<1>5. WireInv'
  <2> SUFFICES ASSUME NEW q \in Peers
               PROVE
        /\ \A i \in 1..Len(wire'[q]) :
              /\ received'[q][wire'[q][i].key] < wire'[q][i].data
              /\ wire'[q][i].data <= sent'[q][wire'[q][i].key]
        /\ \A i, j \in 1..Len(wire'[q]) :
              (i < j /\ wire'[q][i].key = wire'[q][j].key)
                 => wire'[q][i].data < wire'[q][j].data
        /\ \A l \in Keys : \A m \in received'[q][l] + 1 .. sent'[q][l] :
              \E i \in 1..Len(wire'[q]) : wire'[q][i] = [key |-> l, data |-> m]
    BY DEF WireInv
  <2>1. CASE q = Self
    <3>1. Len(wire'[q]) = 0
      BY <1>1, <2>1 DEF SelfInv
    <3>2. \A l \in Keys : received'[q][l] + 1 .. sent'[q][l] = {}
      BY <1>3, <2>1
    <3> QED  BY <3>1, <3>2
  <2>2. CASE q # Self
    <3>1. wire'[q] = wire[q] /\ received'[q] = received[q] /\ sent'[q] = sent[q]
      BY <1>1, <2>2 DEF TypeOK
    <3> QED  BY <3>1 DEF WireInv
  <2> QED  BY <2>1, <2>2
<1> QED  BY <1>4, <1>5

\* One turn of the loop over the deferred_queue keeps FiringInv.
LEMMA ProcessInv ==
    ASSUME TypeOK, FiringInv, ProcessDeferredQueue
    PROVE  TypeOK' /\ FiringInv'
<1> DEFINE x == Head(deferred_queue)
<1>1. /\ deferred_queue' \in Seq(Firing)
      /\ x \in Firing /\ x \in Queued
      /\ Queued' = Queued \ {x}
      /\ \A i, j \in 1..Len(deferred_queue') :
            i # j => deferred_queue'[i] # deferred_queue'[j]
  BY QueuedTail DEF ProcessDeferredQueue
<1>2. /\ fired' = fired \cup {x}
      /\ UNCHANGED <<using_viff_reactor, wire, incoming_data,
                     waiting_deferreds, sent, received, expected>>
  BY DEF ProcessDeferredQueue
<1> HIDE DEF x
<1>3. TypeOK'
  BY <1>1, <1>2 DEF TypeOK
<1>4. fired' \cup Queued' = fired \cup Queued
  BY <1>1, <1>2
<1>5. \A q \in Peers, l \in Keys : Paired(q, l)' = Paired(q, l)
  BY <1>2 DEF Paired
<1>6. \A f \in fired \cup Queued : f.peer \in Peers /\ f.key \in Keys
  <2>1. fired \cup Queued \subseteq Firing
    BY DEF TypeOK, Queued
  <2> QED  BY <2>1 DEF Firing
<1>7. \A f \in fired' \cup Queued' :
         f.n = f.data /\ 1 <= f.n /\ f.n <= Paired(f.peer, f.key)'
  BY <1>4, <1>5, <1>6 DEF FiringInv
<1>8. \A q \in Peers, l \in Keys : \A n \in 1..Paired(q, l)' :
         [peer |-> q, key |-> l, n |-> n, data |-> n] \in fired' \cup Queued'
  BY <1>4, <1>5 DEF FiringInv
<1>9. fired' \cap Queued' = {}
  BY <1>1, <1>2 DEF FiringInv
<1> QED  BY <1>1, <1>3, <1>7, <1>8, <1>9 DEF FiringInv

\* What was sent is never unsent.
LEMMA SentGrows ==
    ASSUME TypeOK, NEW p \in Peers, NEW k \in Keys,
           sent' = [sent EXCEPT ![p][k] = sent[p][k] + 1]
    PROVE  /\ sent' \in [Peers -> [Keys -> Nat]]
           /\ sent'[p][k] = sent[p][k] + 1
           /\ \A q \in Peers, l \in Keys : sent[q][l] <= sent'[q][l]
<1>1. \A q \in Peers, l \in Keys : sent[q][l] \in Nat
  BY DEF TypeOK
<1>2. sent' \in [Peers -> [Keys -> Nat]] /\ sent'[p][k] = sent[p][k] + 1
  BY DEF TypeOK
<1>3. \A q \in Peers, l \in Keys :
         ~(q = p /\ l = k) => sent'[q][l] = sent[q][l]
  BY DEF TypeOK
<1>4. ASSUME NEW q \in Peers, NEW l \in Keys PROVE sent[q][l] <= sent'[q][l]
  <2>1. CASE q = p /\ l = k
    BY <1>1, <1>2, <2>1
  <2>2. CASE ~(q = p /\ l = k)
    BY <1>1, <1>3, <2>2
  <2> QED  BY <2>1, <2>2
<1> QED  BY <1>2, <1>4
------------------------------------------------------------------------------
\* The inductive invariant holds of every reachable state.
THEOREM Inductive == Spec => []IInv
<1>1. Init => IInv
  <2> SUFFICES ASSUME Init PROVE IInv
    OBVIOUS
  <2>1. TypeOK /\ deferred_queue = <<>> /\ fired = {} /\ Queued = {}
    BY DEF Init, TypeOK, Queued
  <2>2. \A p \in Peers, k \in Keys :
           /\ sent[p][k] = 0 /\ received[p][k] = 0 /\ expected[p][k] = 0
           /\ Paired(p, k) = 0
           /\ wire[p] = <<>>
           /\ incoming_data[p][k] = <<>> /\ waiting_deferreds[p][k] = <<>>
    BY DEF Init, Paired, Least
  <2>3. WireInv
    <3>1. \A p \in Peers : Len(wire[p]) = 0
      BY DEF Init
    <3>2. \A p \in Peers, k \in Keys : received[p][k] + 1 .. sent[p][k] = {}
      BY <2>2
    <3>3. ASSUME NEW p \in Peers PROVE 1..Len(wire[p]) = {}
      <4>1. Len(wire[p]) = 0
        BY <3>1
      <4>2. 1..0 = {}
        OBVIOUS
      <4> QED  BY <4>1, <4>2, Zenon
    <3> QED  BY <3>2, <3>3 DEF WireInv
  <2>4. BufferInv
    <3>1. Ranked(<<>>, 0, 0)
      BY DEF Ranked
    <3>2. \A p \in Peers, k \in Keys : received[p][k] <= sent[p][k]
      BY <2>2
    <3> QED  BY <2>2, <3>1, <3>2 DEF BufferInv
  <2>5. FiringInv
    BY <2>1, <2>2 DEF FiringInv
  <2>6. SelfInv
    <3>1. Self \in Peers
      BY ConstantsAssumption
    <3>2. wire[Self] = <<>>
      BY <3>1 DEF Init
    <3>3. \A k \in Keys : received[Self][k] = sent[Self][k]
      BY <2>2, <3>1
    <3> QED  BY <3>2, <3>3 DEF SelfInv
  <2> QED  BY <2>1, <2>3, <2>4, <2>5, <2>6 DEF IInv
<1>2. IInv /\ [Next]_vars => IInv'
  <2> SUFFICES ASSUME IInv, [Next]_vars PROVE IInv'
    OBVIOUS
  <2>1. ASSUME NEW p \in Peers, NEW k \in Keys, SendData(p, k) PROVE IInv'
    <3>1. /\ UNCHANGED <<using_viff_reactor, incoming_data, waiting_deferreds,
                         deferred_queue, received, expected, fired>>
          /\ p # Self
          /\ wire'[Self] = wire[Self]
          /\ sent'[Self] = sent[Self]
      BY <2>1, ConstantsAssumption DEF SendData, IInv, TypeOK
    <3>2. wire' \in [Peers -> Seq(Packet)] /\ sent' \in [Peers -> [Keys -> Nat]]
          /\ WireInv'
      BY <2>1, SendWire DEF IInv
    <3>3. TypeOK'
      BY <3>1, <3>2 DEF IInv, TypeOK
    <3>4. \A q \in Peers, l \in Keys : Paired(q, l)' = Paired(q, l)
      BY <3>1 DEF Paired
    <3>5. FiringInv'
      BY <3>1, <3>4, SameFiring DEF IInv
    <3>6. \A q \in Peers, l \in Keys : sent[q][l] <= sent'[q][l]
      <4>1. sent' = [sent EXCEPT ![p][k] = sent[p][k] + 1]
        BY <2>1 DEF SendData
      <4> QED  BY <4>1, SentGrows DEF IInv
    <3>7. \A q \in Peers, l \in Keys : received'[q][l] <= sent'[q][l]
      <4> TAKE q \in Peers, l \in Keys
      <4>1. received'[q][l] = received[q][l] /\ received[q][l] <= sent[q][l]
        BY <3>1 DEF IInv, BufferInv
      <4>2. sent[q][l] \in Nat /\ received[q][l] \in Nat /\ sent'[q][l] \in Nat
        BY <3>2 DEF IInv, TypeOK
      <4> QED  BY <3>6, <4>1, <4>2
    <3>8. BufferInv'
      BY <3>1, <3>4, <3>7 DEF IInv, BufferInv
    <3>9. SelfInv'
      BY <3>1 DEF IInv, SelfInv
    <3> QED  BY <3>2, <3>3, <3>5, <3>8, <3>9 DEF IInv
  <2>2. ASSUME NEW p \in Peers, NEW k \in Keys, ExpectData(p, k) PROVE IInv'
    <3>1. TypeOK' /\ BufferInv' /\ FiringInv'
      BY <2>2, ExpectDataInv DEF IInv
    <3>2. UNCHANGED <<wire, sent, received>>
      BY <2>2 DEF ExpectData
    <3>3. WireInv' /\ SelfInv'
      BY <3>2 DEF IInv, WireInv, SelfInv
    <3> QED  BY <3>1, <3>3 DEF IInv
  <2>3. ASSUME NEW k \in Keys, SendDataToSelf(k) PROVE IInv'
    <3>1. Self \in Peers /\ received[Self][k] = sent[Self][k]
          /\ sent[Self][k] \in Nat
      BY ConstantsAssumption DEF IInv, SelfInv, TypeOK
    <3>2. /\ sent' = [sent EXCEPT ![Self][k] = @ + 1]
          /\ StringReceived(Self, k, received[Self][k] + 1)
          /\ wire' = wire
      BY <2>3, <3>1 DEF SendDataToSelf
    <3>3. /\ sent' \in [Peers -> [Keys -> Nat]]
          /\ \A q \in Peers, l \in Keys : sent[q][l] <= sent'[q][l]
          /\ received[Self][k] < sent'[Self][k]
      <4>1. sent' = [sent EXCEPT ![Self][k] = sent[Self][k] + 1]
        BY <3>2
      <4>2. /\ sent' \in [Peers -> [Keys -> Nat]]
            /\ sent'[Self][k] = sent[Self][k] + 1
            /\ \A q \in Peers, l \in Keys : sent[q][l] <= sent'[q][l]
        BY <3>1, <4>1, SentGrows DEF IInv
      <4>3. received[Self][k] < sent'[Self][k]
        BY <3>1, <4>2
      <4> QED  BY <4>2, <4>3
    <3>4. /\ incoming_data' \in [Peers -> [Keys -> Seq(Nat)]]
          /\ waiting_deferreds' \in [Peers -> [Keys -> Seq(Nat)]]
          /\ deferred_queue' \in Seq(Firing)
          /\ received' \in [Peers -> [Keys -> Nat]]
          /\ expected' \in [Peers -> [Keys -> Nat]]
          /\ fired' \subseteq Firing
          /\ BufferInv'
          /\ FiringInv'
      BY <3>1, <3>2, <3>3, StringReceivedInv DEF IInv
    <3>5. TypeOK'
      BY <3>2, <3>3, <3>4, ReactorFixed DEF IInv, TypeOK
    <3>6. WireInv' /\ SelfInv'
      BY <2>3, SelfWire DEF IInv
    <3> QED  BY <3>4, <3>5, <3>6 DEF IInv
  <2>4. ASSUME NEW p \in Peers, Receive(p) PROVE IInv'
    <3> DEFINE k == Head(wire[p]).key
    <3>1. /\ wire[p] # <<>>
          /\ StringReceived(p, k, Head(wire[p]).data)
          /\ sent' = sent
          /\ p # Self
      BY <2>4 DEF Receive, IInv, SelfInv
    <3>2. /\ k \in Keys
          /\ StringReceived(p, k, received[p][k] + 1)
          /\ received[p][k] < sent[p][k]
      BY <3>1, WireHead DEF IInv
    <3>3. /\ sent' \in [Peers -> [Keys -> Nat]]
          /\ \A q \in Peers, l \in Keys : sent[q][l] <= sent'[q][l]
      BY <3>1 DEF IInv, TypeOK
    <3>4. /\ incoming_data' \in [Peers -> [Keys -> Seq(Nat)]]
          /\ waiting_deferreds' \in [Peers -> [Keys -> Seq(Nat)]]
          /\ deferred_queue' \in Seq(Firing)
          /\ received' \in [Peers -> [Keys -> Nat]]
          /\ expected' \in [Peers -> [Keys -> Nat]]
          /\ fired' \subseteq Firing
          /\ BufferInv'
          /\ FiringInv'
      BY <3>1, <3>2, <3>3, StringReceivedInv DEF IInv
    <3>5. wire' \in [Peers -> Seq(Packet)] /\ WireInv'
      BY <2>4, ReceiveWire DEF IInv
    <3>6. TypeOK'
      BY <3>3, <3>4, <3>5, ReactorFixed DEF IInv, TypeOK
    <3>7. SelfInv'
      <4>1. /\ wire' = [wire EXCEPT ![p] = Tail(@)]
            /\ received' = [received EXCEPT ![p][k] = @ + 1]
        BY <2>4 DEF Receive, StringReceived
      <4>2. wire'[Self] = wire[Self] /\ received'[Self] = received[Self]
        BY <3>1, <4>1, ConstantsAssumption DEF IInv, TypeOK
      <4> QED  BY <3>1, <4>2 DEF IInv, SelfInv
    <3> QED  BY <3>4, <3>5, <3>6, <3>7 DEF IInv
  <2>5. CASE ProcessDeferredQueue
    <3>1. TypeOK' /\ FiringInv'
      BY <2>5, ProcessInv DEF IInv
    <3>2. UNCHANGED <<wire, incoming_data, waiting_deferreds, sent, received,
                      expected>>
      BY <2>5 DEF ProcessDeferredQueue
    <3>3. WireInv' /\ SelfInv'
      BY <3>2 DEF IInv, WireInv, SelfInv
    <3>4. BufferInv'
      BY <3>2 DEF IInv, BufferInv, Paired
    <3> QED  BY <3>1, <3>3, <3>4 DEF IInv
  <2>6. CASE UNCHANGED vars
    <3>1. /\ UNCHANGED <<using_viff_reactor, wire, incoming_data,
                         waiting_deferreds, sent, received, expected>>
          /\ UNCHANGED <<fired, deferred_queue>>
      BY <2>6 DEF vars
    <3>2. TypeOK'
      BY <3>1 DEF IInv, TypeOK
    <3>3. \A q \in Peers, l \in Keys : Paired(q, l)' = Paired(q, l)
      BY <3>1 DEF Paired
    <3>4. FiringInv'
      BY <3>1, <3>3, SameFiring DEF IInv
    <3>5. WireInv' /\ SelfInv'
      BY <3>1 DEF IInv, WireInv, SelfInv
    <3>6. BufferInv'
      BY <3>1 DEF IInv, BufferInv, Paired
    <3> QED  BY <3>2, <3>4, <3>5, <3>6 DEF IInv
  <2> QED  BY <2>1, <2>2, <2>3, <2>4, <2>5, <2>6 DEF Next
<1> QED  BY <1>1, <1>2, PTL DEF Spec
\* The state of every reachable state has the types the code counts on.
THEOREM TypeCorrect == Spec => []TypeOK
BY Inductive, PTL DEF IInv

\* Every Deferred gets the data of its own rank (_expect_data_with_pc and
\* stringReceived pop from the same end of their deques).
THEOREM PairingHolds == Spec => []Pairing
<1>1. IInv => Pairing
  BY DEF IInv, FiringInv, Pairing
<1> QED  BY <1>1, Inductive, PTL

\* Data and Deferreds of a label never wait for each other.
THEOREM NeverBothWaitingHolds == Spec => []NeverBothWaiting
<1>1. IInv => NeverBothWaiting
  <2> SUFFICES ASSUME IInv, NEW p \in Peers, NEW k \in Keys
               PROVE  incoming_data[p][k] = <<>> \/ waiting_deferreds[p][k] = <<>>
    BY DEF NeverBothWaiting
  <2>1. /\ Ranked(waiting_deferreds[p][k], Paired(p, k), expected[p][k])
        /\ Ranked(incoming_data[p][k], Paired(p, k), received[p][k])
    BY DEF IInv, BufferInv
  <2>2. /\ waiting_deferreds[p][k] = <<>> <=> Paired(p, k) = expected[p][k]
        /\ incoming_data[p][k] = <<>> <=> Paired(p, k) = received[p][k]
    BY <2>1, PairedNat, RankedEmpty DEF IInv
  <2> QED  BY <2>2, PairedNat DEF IInv
<1> QED  BY <1>1, Inductive, PTL

\* No Deferred is called back twice (no AlreadyCalledError), by whichever way
\* its data reaches it.
THEOREM CalledOnceHolds == Spec => []CalledOnce
<1>1. IInv => CalledOnce
  <2> SUFFICES ASSUME IInv PROVE CalledOnce
    OBVIOUS
  <2>1. fired \cup Queued \subseteq Firing
    BY DEF IInv, TypeOK, Queued
  <2>2. \A f \in fired \cup Queued : f.n = f.data
    BY DEF IInv, FiringInv
  <2>3. ASSUME NEW f \in fired \cup Queued, NEW g \in fired \cup Queued,
               f.peer = g.peer, f.key = g.key, f.n = g.n \/ f.data = g.data
        PROVE  f = g
    <3>1. f \in Firing /\ g \in Firing /\ f.n = g.n /\ f.data = g.data
      BY <2>1, <2>2, <2>3
    <3> QED  BY <2>3, <3>1 DEF Firing
  <2> QED  BY <2>3 DEF CalledOnce, IInv, FiringInv
<1> QED  BY <1>1, Inductive, PTL
\* No data and no Deferred is lost between the two dictionaries, the queue and
\* the callbacks.
THEOREM NothingLostHolds == Spec => []NothingLost
<1>1. IInv => NothingLost
  <2> SUFFICES ASSUME IInv, NEW p \in Peers, NEW k \in Keys
               PROVE
        /\ \A n \in 1..expected[p][k] :
              \/ \E f \in fired \cup Queued : f.peer = p /\ f.key = k /\ f.n = n
              \/ \E i \in 1..Len(waiting_deferreds[p][k]) :
                    waiting_deferreds[p][k][i] = n
        /\ \A m \in 1..received[p][k] :
              \/ \E f \in fired \cup Queued : f.peer = p /\ f.key = k /\ f.data = m
              \/ \E i \in 1..Len(incoming_data[p][k]) :
                    incoming_data[p][k][i] = m
    BY DEF NothingLost
  <2>1. \A n \in 1..Paired(p, k) :
           \E f \in fired \cup Queued :
              f.peer = p /\ f.key = k /\ f.n = n /\ f.data = n
    BY DEF IInv, FiringInv
  <2>2. ASSUME NEW s, NEW high \in Nat, Ranked(s, Paired(p, k), high),
               NEW n \in 1..high, n \notin 1..Paired(p, k)
        PROVE  \E i \in 1..Len(s) : s[i] = n
    <3>1. n - Paired(p, k) \in 1..Len(s)
      BY <2>2, PairedNat DEF Ranked, IInv
    <3>2. s[n - Paired(p, k)] = n
      BY <2>2, <3>1, PairedNat DEF Ranked, IInv
    <3> QED  BY <3>1, <3>2
  <2>3. /\ Ranked(waiting_deferreds[p][k], Paired(p, k), expected[p][k])
        /\ Ranked(incoming_data[p][k], Paired(p, k), received[p][k])
        /\ expected[p][k] \in Nat /\ received[p][k] \in Nat
    BY PairedNat DEF IInv, BufferInv
  <2>4. ASSUME NEW n \in 1..expected[p][k], n \notin 1..Paired(p, k)
        PROVE  \E i \in 1..Len(waiting_deferreds[p][k]) :
                  waiting_deferreds[p][k][i] = n
    BY <2>2, <2>3, <2>4
  <2>5. ASSUME NEW n \in 1..received[p][k], n \notin 1..Paired(p, k)
        PROVE  \E i \in 1..Len(incoming_data[p][k]) :
                  incoming_data[p][k][i] = n
    BY <2>2, <2>3, <2>5
  <2> QED  BY <2>1, <2>4, <2>5
<1> QED  BY <1>1, Inductive, PTL
------------------------------------------------------------------------------
\* The callbacks that were made are callbacks that the channel allows.
AllMatched ==
    \A f \in fired :
        /\ f.peer \in Peers /\ f.key \in Keys
        /\ f = Channel!Pair(f.peer, f.key, f.n)
        /\ Channel!Matched(f.peer, f.key, f.n)
        /\ f.n \in 1..expected[f.peer][f.key]

\* Callbacks made are for ranks that were sent and expected.
LEMMA MadeIsMatched == IInv => AllMatched
<1> SUFFICES ASSUME IInv, NEW f \in fired
    PROVE  /\ f.peer \in Peers /\ f.key \in Keys
           /\ f = Channel!Pair(f.peer, f.key, f.n)
           /\ Channel!Matched(f.peer, f.key, f.n)
           /\ f.n \in 1..expected[f.peer][f.key]
  BY DEF AllMatched
<1>1. f \in Firing
  BY DEF IInv, TypeOK
<1>2. f.peer \in Peers /\ f.key \in Keys /\ f.n \in Nat /\ f.data \in Nat
      /\ f = [peer |-> f.peer, key |-> f.key, n |-> f.n, data |-> f.data]
  BY <1>1 DEF Firing
<1>3. f.n = f.data /\ 1 <= f.n /\ f.n <= Paired(f.peer, f.key)
  BY DEF IInv, FiringInv
<1>4. f = Channel!Pair(f.peer, f.key, f.n)
  BY <1>2, <1>3 DEF Channel!Pair
<1>5. /\ Paired(f.peer, f.key) \in Nat
      /\ Paired(f.peer, f.key) <= received[f.peer][f.key]
      /\ Paired(f.peer, f.key) <= expected[f.peer][f.key]
      /\ received[f.peer][f.key] \in Nat /\ expected[f.peer][f.key] \in Nat
  BY <1>2, PairedNat DEF IInv
<1>6. received[f.peer][f.key] <= sent[f.peer][f.key] /\ sent[f.peer][f.key] \in Nat
  BY <1>2 DEF IInv, BufferInv, TypeOK
<1>7. 1 <= f.n /\ f.n <= sent[f.peer][f.key] /\ f.n <= expected[f.peer][f.key]
  BY <1>2, <1>3, <1>5, <1>6
<1> QED  BY <1>2, <1>4, <1>5, <1>7 DEF Channel!Matched

\* Calling back a matched Deferred is a call of the channel.
LEMMA FireStep ==
    ASSUME AllMatched', NEW x, fired' = fired \cup {x},
           UNCHANGED <<sent, expected>>
    PROVE  [Channel!Next]_(Channel!vars)
<1>1. CASE x \in fired
  <2>1. fired' = fired
    BY <1>1
  <2> QED  BY <2>1 DEF Channel!vars
<1>2. CASE x \notin fired
  <2>1. x \in fired'
    OBVIOUS
  <2>2. /\ x.peer \in Peers /\ x.key \in Keys
        /\ x = Channel!Pair(x.peer, x.key, x.n)
        /\ Channel!Matched(x.peer, x.key, x.n)'
        /\ x.n \in 1..expected'[x.peer][x.key]
    BY <2>1 DEF AllMatched
  <2>3. Channel!Matched(x.peer, x.key, x.n) /\ x.n \in 1..expected[x.peer][x.key]
    BY <2>2 DEF Channel!Matched
  <2>4. Channel!Fire(x.peer, x.key)
    BY <1>2, <2>2, <2>3 DEF Channel!Fire
  <2> QED  BY <2>2, <2>4 DEF Channel!Next
<1> QED  BY <1>1, <1>2

\* A step that calls back at most one Deferred, of p and k, does as the channel's
\* calls do.
LEMMA CallStep ==
    ASSUME AllMatched', NEW p \in Peers, NEW k \in Keys,
           \/ fired' = fired
           \/ \E x : x.peer = p /\ x.key = k /\ fired' = fired \cup {x}
    PROVE  Channel!AtMostOneFires(p, k)
<1>1. CASE fired' = fired
  BY <1>1 DEF Channel!AtMostOneFires
<1>2. ASSUME NEW x, x.peer = p, x.key = k, fired' = fired \cup {x}
      PROVE  Channel!AtMostOneFires(p, k)
  <2>1. x \in fired'
    BY <1>2
  <2>2. /\ x = Channel!Pair(p, k, x.n)
        /\ Channel!Matched(p, k, x.n)'
        /\ x.n \in 1..expected'[p][k]
    BY <1>2, <2>1 DEF AllMatched
  <2> QED  BY <1>2, <2>2 DEF Channel!AtMostOneFires
<1> QED  BY <1>1, <1>2

\* The receiving side of a player implements the labelled channel, whichever
\* reactor runs it: its steps are calls of the channel, callbacks the channel
\* allows, or steps it does not see.
THEOREM Implements == Spec => ChannelSafety
<1>1. Init => Channel!Init
  BY DEF Init, Channel!Init
<1>2. IInv => AllMatched
  BY MadeIsMatched
<1>3. IInv /\ AllMatched' /\ [Next]_vars => [Channel!Next]_(Channel!vars)
  <2> SUFFICES ASSUME IInv, AllMatched', [Next]_vars
               PROVE  [Channel!Next]_(Channel!vars)
    OBVIOUS
  <2>1. ASSUME NEW p \in Peers, NEW k \in Keys, SendData(p, k)
        PROVE  [Channel!Next]_(Channel!vars)
    <3>1. /\ sent' = [sent EXCEPT ![p][k] = @ + 1]
          /\ UNCHANGED <<expected, fired>>
      BY <2>1 DEF SendData
    <3>2. Channel!AtMostOneFires(p, k)
      BY <3>1, CallStep
    <3>3. Channel!Send(p, k)
      BY <3>1, <3>2 DEF Channel!Send
    <3> QED  BY <3>3 DEF Channel!Next
  <2>2. ASSUME NEW p \in Peers, NEW k \in Keys, ExpectData(p, k)
        PROVE  [Channel!Next]_(Channel!vars)
    <3>1. /\ expected' = [expected EXCEPT ![p][k] = @ + 1]
          /\ UNCHANGED sent
      BY <2>2 DEF ExpectData
    <3>2. \/ fired' = fired
          \/ \E x : x.peer = p /\ x.key = k /\ fired' = fired \cup {x}
      <4>1. CASE incoming_data[p][k] # <<>>
        <5> DEFINE x == [peer |-> p, key |-> k, n |-> expected[p][k] + 1,
                         data |-> Head(incoming_data[p][k])]
        <5>1. fired' = fired \cup {x} /\ x.peer = p /\ x.key = k
          BY <2>2, <4>1 DEF ExpectData
        <5> HIDE DEF x
        <5> QED  BY <5>1
      <4>2. CASE incoming_data[p][k] = <<>>
        BY <2>2, <4>2 DEF ExpectData
      <4> QED  BY <4>1, <4>2
    <3>3. Channel!AtMostOneFires(p, k)
      BY <3>2, CallStep
    <3>4. Channel!Expect(p, k)
      BY <3>1, <3>3 DEF Channel!Expect
    <3> QED  BY <3>4 DEF Channel!Next
  <2>3. ASSUME NEW p \in Peers, NEW k \in Keys, NEW d, StringReceived(p, k, d)
        PROVE  /\ UNCHANGED expected
               /\ \/ fired' = fired
                  \/ \E x : x.peer = p /\ x.key = k /\ fired' = fired \cup {x}
    <3>1. CASE waiting_deferreds[p][k] # <<>>
      <4> DEFINE x == [peer |-> p, key |-> k,
                       n |-> Head(waiting_deferreds[p][k]), data |-> d]
      <4>1. HandleDeferredData(x) /\ UNCHANGED expected
        BY <2>3, <3>1 DEF StringReceived
      <4>2. x.peer = p /\ x.key = k
        OBVIOUS
      <4> HIDE DEF x
      <4> QED  BY <4>1, <4>2 DEF HandleDeferredData
    <3>2. CASE waiting_deferreds[p][k] = <<>>
      BY <2>3, <3>2 DEF StringReceived
    <3> QED  BY <3>1, <3>2
  <2>4. ASSUME NEW k \in Keys, SendDataToSelf(k)
        PROVE  [Channel!Next]_(Channel!vars)
    <3>1. /\ Self \in Peers
          /\ sent' = [sent EXCEPT ![Self][k] = @ + 1]
          /\ StringReceived(Self, k, sent[Self][k] + 1)
      BY <2>4, ConstantsAssumption DEF SendDataToSelf
    <3>2. /\ UNCHANGED expected
          /\ \/ fired' = fired
             \/ \E x : x.peer = Self /\ x.key = k /\ fired' = fired \cup {x}
      BY <3>1, <2>3
    <3>3. Channel!AtMostOneFires(Self, k)
      BY <3>1, <3>2, CallStep
    <3>4. Channel!Send(Self, k)
      BY <3>1, <3>2, <3>3 DEF Channel!Send
    <3> QED  BY <3>1, <3>4 DEF Channel!Next
  <2>5. ASSUME NEW p \in Peers, Receive(p)
        PROVE  [Channel!Next]_(Channel!vars)
    <3> DEFINE k == Head(wire[p]).key
               d == Head(wire[p]).data
    <3>1. wire[p] # <<>> /\ StringReceived(p, k, d) /\ UNCHANGED sent
      BY <2>5 DEF Receive
    <3>2. k \in Keys
      BY <3>1, WireHead DEF IInv
    <3> HIDE DEF k, d
    <3>3. /\ UNCHANGED expected
          /\ fired' = fired \/ \E x : fired' = fired \cup {x}
      BY <2>3, <3>1, <3>2
    <3>4. CASE fired' = fired
      BY <3>1, <3>3, <3>4 DEF Channel!vars
    <3>5. CASE \E x : fired' = fired \cup {x}
      BY <3>1, <3>3, <3>5, FireStep
    <3> QED  BY <3>3, <3>4, <3>5
  <2>6. CASE ProcessDeferredQueue
    <3>1. fired' = fired \cup {Head(deferred_queue)} /\ UNCHANGED <<sent, expected>>
      BY <2>6 DEF ProcessDeferredQueue
    <3> QED  BY <3>1, FireStep
  <2>7. CASE UNCHANGED vars
    BY <2>7 DEF vars, Channel!vars
  <2> QED  BY <2>1, <2>2, <2>4, <2>5, <2>6, <2>7 DEF Next
<1> QED  BY <1>1, <1>2, <1>3, Inductive, PTL DEF Spec, ChannelSafety
------------------------------------------------------------------------------
\* Without the ViffReactor nothing is ever queued.
QueueUnused == ~using_viff_reactor => deferred_queue = <<>>

\* Without the ViffReactor, handle_deferred_data calls the Deferred at once.
LEMMA QueueStaysUnused == Spec => []QueueUnused
<1>1. Init => QueueUnused
  BY DEF Init, QueueUnused
<1>2. QueueUnused /\ [Next]_vars => QueueUnused'
  <2> SUFFICES ASSUME QueueUnused, [Next]_vars, ~using_viff_reactor
               PROVE  deferred_queue' = <<>>
    BY ReactorFixed DEF QueueUnused
  <2>1. deferred_queue = <<>>
    BY DEF QueueUnused
  <2> QED
    BY <2>1 DEF Next, vars, SendData, SendDataToSelf, Receive, ExpectData,
                ProcessDeferredQueue, StringReceived, HandleDeferredData
<1> QED  BY <1>1, <1>2, PTL DEF Spec

\* The Deferreds of a label are called back in the order in which they were
\* registered if the runtime does not use the ViffReactor: stringReceived and
\* _expect_data_with_pc then never leave a callback for later.
THEOREM FiresInOrderHolds == Spec => FiresInOrder
<1> DEFINE Ordered ==
      ~using_viff_reactor =>
         \A f \in fired' \ fired, g \in fired :
            (g.peer = f.peer /\ g.key = f.key) => g.n < f.n
<1>1. IInv /\ IInv' /\ QueueUnused => Ordered
  <2> SUFFICES ASSUME IInv, IInv', QueueUnused, ~using_viff_reactor,
                      NEW f \in fired' \ fired, NEW g \in fired,
                      g.peer = f.peer, g.key = f.key
               PROVE  g.n < f.n
    OBVIOUS
  <2>1. Queued = {}
    BY DEF QueueUnused, Queued
  <2>2. /\ f \in Firing /\ f.n = f.data /\ 1 <= f.n
        /\ g \in Firing /\ g.n <= Paired(g.peer, g.key)
    BY DEF IInv, FiringInv, TypeOK
  <2>3. /\ f.peer \in Peers /\ f.key \in Keys /\ f.n \in Nat /\ g.n \in Nat
        /\ f = [peer |-> f.peer, key |-> f.key, n |-> f.n, data |-> f.n]
    BY <2>2 DEF Firing
  <2>4. Paired(f.peer, f.key) \in Nat
    BY <2>3, PairedNat DEF IInv
  <2>5. ~(f.n <= Paired(f.peer, f.key))
    <3> SUFFICES ASSUME f.n <= Paired(f.peer, f.key) PROVE FALSE
      OBVIOUS
    <3>1. f.n \in 1..Paired(f.peer, f.key)
      BY <2>2, <2>3, <2>4
    <3>2. [peer |-> f.peer, key |-> f.key, n |-> f.n, data |-> f.n]
             \in fired \cup Queued
      BY <2>3, <3>1 DEF IInv, FiringInv
    <3> QED  BY <2>1, <2>3, <3>2
  <2> QED  BY <2>2, <2>3, <2>4, <2>5
<1>2. Spec => [][Ordered]_vars
  BY <1>1, Inductive, QueueStaysUnused, PTL
<1> QED  BY <1>2, PTL DEF FiresInOrder
==============================================================================
