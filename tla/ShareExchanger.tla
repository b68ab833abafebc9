--------------------------- MODULE ShareExchanger ----------------------------
(***************************************************************************)
(* The receiving side of one VIFF player (viff/runtime.py): the            *)
(* ShareExchanger protocol objects it has towards its peers, the           *)
(* SelfShareExchanger it has towards itself, the Deferreds that its        *)
(* program registers with Runtime._expect_data, and the deferred_queue of  *)
(* the runtime that stands between the two when the ViffReactor runs.      *)
(*                                                                         *)
(* Every Deferred and every piece of data is named by its rank among those *)
(* of its peer and label, counted from 1.  What a callback does when its   *)
(* Deferred fires (register more Deferreds, send, enter the reactor again) *)
(* are later steps of this model: no operation below touches its own state *)
(* again after it has called a callback.                                   *)
(***************************************************************************)
EXTENDS Naturals, Sequences

CONSTANTS
    Peers,              \* the players, Self included
    Self,               \* this player
    Keys,               \* the labels: <<program counter, data type>>
    MaxSend,            \* MaxSend[k]: bound, the data a player sends under k
    MaxExpect           \* MaxExpect[k]: bound, the Deferreds for k and a peer

ASSUME ConstantsAssumption ==
    /\ Self \in Peers
    /\ MaxSend \in [Keys -> Nat]
    /\ MaxExpect \in [Keys -> Nat]

VARIABLES
    using_viff_reactor, \* of the runtime, set when it is created
    wire,               \* wire[p]: strings under way from p, in order
    incoming_data,      \* incoming_data[p][k]: data that no Deferred waits for
    waiting_deferreds,  \* waiting_deferreds[p][k]: Deferreds without data
    deferred_queue,     \* Deferreds to be called back, with their data
    sent,               \* history: data sent by p under k
    received,           \* history: data that stringReceived took in
    expected,           \* history: Deferreds registered
    fired               \* history: the callbacks made so far

vars == <<using_viff_reactor, wire, incoming_data, waiting_deferreds,
          deferred_queue, sent, received, expected, fired>>

Packet == [key : Keys, data : Nat]
Firing == [peer : Peers, key : Keys, n : Nat, data : Nat]

TypeOK ==
    /\ using_viff_reactor \in BOOLEAN
    /\ wire \in [Peers -> Seq(Packet)]
    /\ incoming_data \in [Peers -> [Keys -> Seq(Nat)]]
    /\ waiting_deferreds \in [Peers -> [Keys -> Seq(Nat)]]
    /\ deferred_queue \in Seq(Firing)
    /\ sent \in [Peers -> [Keys -> Nat]]
    /\ received \in [Peers -> [Keys -> Nat]]
    /\ expected \in [Peers -> [Keys -> Nat]]
    /\ fired \subseteq Firing

\* An empty deque stands for a label that the dictionary has no entry for: the
\* code deletes an entry when it takes the last element out of its deque.
Init ==
    /\ using_viff_reactor \in BOOLEAN
    /\ wire = [p \in Peers |-> <<>>]
    /\ incoming_data = [p \in Peers |-> [k \in Keys |-> <<>>]]
    /\ waiting_deferreds = [p \in Peers |-> [k \in Keys |-> <<>>]]
    /\ deferred_queue = <<>>
    /\ sent = [p \in Peers |-> [k \in Keys |-> 0]]
    /\ received = [p \in Peers |-> [k \in Keys |-> 0]]
    /\ expected = [p \in Peers |-> [k \in Keys |-> 0]]
    /\ fired = {}

\* Mutant: the queue is used with every reactor.
QueueAlways(firing) ==
    deferred_queue' = Append(deferred_queue, firing) /\ UNCHANGED fired

\* Mutant: the entry of the queue names its peer in the place of its label.
QueueUnderPeer(firing) ==
    /\ deferred_queue' = Append(deferred_queue, [firing EXCEPT !.key = firing.peer])
    /\ UNCHANGED fired

\* Runtime.handle_deferred_data: queue the callback for the ViffReactor's loop
\* call, or make it at once.
HandleDeferredData(firing) ==
    IF using_viff_reactor
    THEN deferred_queue' = Append(deferred_queue, firing) /\ UNCHANGED fired
    ELSE fired' = fired \cup {firing} /\ UNCHANGED deferred_queue

\* Mutant: the entry of the label is deleted even if its deque is not empty.
DeleteEntry(p, k, data) ==
    LET waiting == waiting_deferreds[p][k] IN
    /\ received' = [received EXCEPT ![p][k] = @ + 1]
    /\ UNCHANGED <<using_viff_reactor, expected>>
    /\ \/ /\ waiting # <<>>
          /\ waiting_deferreds' = [waiting_deferreds EXCEPT ![p][k] = <<>>]
          /\ HandleDeferredData([peer |-> p, key |-> k,
                                 n |-> Head(waiting), data |-> data])
          /\ UNCHANGED incoming_data
       \/ /\ waiting = <<>>
          /\ incoming_data' = [incoming_data EXCEPT ![p][k] = Append(@, data)]
          /\ UNCHANGED <<waiting_deferreds, deferred_queue, fired>>

\* Mutant: the youngest Deferred of the label gets the data (pop for popleft).
YoungestFirst(p, k, data) ==
    LET waiting == waiting_deferreds[p][k]
        rest == SubSeq(waiting, 1, Len(waiting) - 1) IN
    /\ received' = [received EXCEPT ![p][k] = @ + 1]
    /\ UNCHANGED <<using_viff_reactor, expected>>
    /\ \/ /\ waiting # <<>>
          /\ waiting_deferreds' = [waiting_deferreds EXCEPT ![p][k] = rest]
          /\ HandleDeferredData([peer |-> p, key |-> k,
                                 n |-> waiting[Len(waiting)], data |-> data])
          /\ UNCHANGED incoming_data
       \/ /\ waiting = <<>>
          /\ incoming_data' = [incoming_data EXCEPT ![p][k] = Append(@, data)]
          /\ UNCHANGED <<waiting_deferreds, deferred_queue, fired>>

\* ShareExchanger.stringReceived of a packet, and SelfShareExchanger's.
StringReceived(p, k, data) ==
    LET waiting == waiting_deferreds[p][k] IN
    /\ received' = [received EXCEPT ![p][k] = @ + 1]
    /\ UNCHANGED <<using_viff_reactor, expected>>
    /\ \/ /\ waiting # <<>>
          /\ waiting_deferreds' = [waiting_deferreds EXCEPT ![p][k] = Tail(@)]
          /\ HandleDeferredData([peer |-> p, key |-> k,
                                 n |-> Head(waiting), data |-> data])
          /\ UNCHANGED incoming_data
       \/ /\ waiting = <<>>
          /\ incoming_data' = [incoming_data EXCEPT ![p][k] = Append(@, data)]
          /\ UNCHANGED <<waiting_deferreds, deferred_queue, fired>>

\* ShareExchanger.sendData, called by the peer p: the packet goes on the wire.
SendData(p, k) ==
    /\ p # Self
    /\ sent[p][k] < MaxSend[k]
    /\ sent' = [sent EXCEPT ![p][k] = @ + 1]
    /\ wire' = [wire EXCEPT ![p] =
                   Append(@, [key |-> k, data |-> sent[p][k] + 1])]
    /\ UNCHANGED <<using_viff_reactor, incoming_data, waiting_deferreds,
                   deferred_queue, received, expected, fired>>

\* SelfShareExchanger.sendData: there is no wire, the data is received at once.
SendDataToSelf(k) ==
    /\ sent[Self][k] < MaxSend[k]
    /\ sent' = [sent EXCEPT ![Self][k] = @ + 1]
    /\ StringReceived(Self, k, sent[Self][k] + 1)
    /\ UNCHANGED wire

\* The reactor's select finds data from p and hands on its first string.
Receive(p) ==
    /\ wire[p] # <<>>
    /\ wire' = [wire EXCEPT ![p] = Tail(@)]
    /\ StringReceived(p, Head(wire[p]).key, Head(wire[p]).data)
    /\ UNCHANGED sent

\* Mutant: a new Deferred gets the youngest data (pop for popleft).
ExpectYoungest(p, k) ==
    LET deferred == expected[p][k] + 1
        incoming == incoming_data[p][k] IN
    /\ expected[p][k] < MaxExpect[k]
    /\ expected' = [expected EXCEPT ![p][k] = deferred]
    /\ \/ /\ incoming # <<>>
          /\ incoming_data' = [incoming_data EXCEPT ![p][k] =
                                   SubSeq(@, 1, Len(@) - 1)]
          /\ fired' = fired \cup {[peer |-> p, key |-> k, n |-> deferred,
                                   data |-> incoming[Len(incoming)]]}
          /\ UNCHANGED waiting_deferreds
       \/ /\ incoming = <<>>
          /\ waiting_deferreds' =
                [waiting_deferreds EXCEPT ![p][k] = Append(@, deferred)]
          /\ UNCHANGED <<incoming_data, fired>>
    /\ UNCHANGED <<using_viff_reactor, wire, deferred_queue, sent, received>>

\* Mutant: a new Deferred waits whether or not its data is there.
ExpectLater(p, k) ==
    LET deferred == expected[p][k] + 1 IN
    /\ expected[p][k] < MaxExpect[k]
    /\ expected' = [expected EXCEPT ![p][k] = deferred]
    /\ waiting_deferreds' =
          [waiting_deferreds EXCEPT ![p][k] = Append(@, deferred)]
    /\ UNCHANGED <<using_viff_reactor, wire, incoming_data, deferred_queue,
                   sent, received, fired>>

\* Runtime._expect_data_with_pc: data that is already there goes to the new
\* Deferred at once, past the deferred_queue.
ExpectData(p, k) ==
    LET deferred == expected[p][k] + 1
        incoming == incoming_data[p][k] IN
    /\ expected[p][k] < MaxExpect[k]
    /\ expected' = [expected EXCEPT ![p][k] = deferred]
    /\ \/ /\ incoming # <<>>
          /\ incoming_data' = [incoming_data EXCEPT ![p][k] = Tail(@)]
          /\ fired' = fired \cup {[peer |-> p, key |-> k,
                                   n |-> deferred, data |-> Head(incoming)]}
          /\ UNCHANGED waiting_deferreds
       \/ /\ incoming = <<>>
          /\ waiting_deferreds' =
                [waiting_deferreds EXCEPT ![p][k] = Append(@, deferred)]
          /\ UNCHANGED <<incoming_data, fired>>
    /\ UNCHANGED <<using_viff_reactor, wire, deferred_queue, sent, received>>

\* Mutant: the entry stays in the queue when its callback is made.
ProcessWithoutPop ==
    /\ using_viff_reactor
    /\ deferred_queue # <<>>
    /\ fired' = fired \cup {Head(deferred_queue)}
    /\ UNCHANGED <<using_viff_reactor, wire, incoming_data, waiting_deferreds,
                   deferred_queue, sent, received, expected>>

\* One turn of the loop of Runtime.process_queue over the deferred_queue, which
\* only the loop call of the ViffReactor runs.
ProcessDeferredQueue ==
    /\ using_viff_reactor
    /\ deferred_queue # <<>>
    /\ deferred_queue' = Tail(deferred_queue)
    /\ fired' = fired \cup {Head(deferred_queue)}
    /\ UNCHANGED <<using_viff_reactor, wire, incoming_data, waiting_deferreds,
                   sent, received, expected>>

Next ==
    \/ \E p \in Peers, k \in Keys : SendData(p, k) \/ ExpectData(p, k)
    \/ \E k \in Keys : SendDataToSelf(k)
    \/ \E p \in Peers : Receive(p)
    \/ ProcessDeferredQueue

Spec == Init /\ [][Next]_vars

\* The reactor's main loop polls every connection and then empties the queue.
FairSpec ==
    /\ Spec
    /\ \A p \in Peers : WF_vars(Receive(p))
    /\ WF_vars(ProcessDeferredQueue)
------------------------------------------------------------------------------
Least(a, b) == IF a <= b THEN a ELSE b

\* Deferreds of p and k that got their data, queued ones included.
Paired(p, k) == Least(received[p][k], expected[p][k])

Queued == {deferred_queue[i] : i \in 1..Len(deferred_queue)}

\* Every Deferred gets the data of its own rank: data that arrives before its
\* Deferred, after it, or while older data is in the deferred_queue is never
\* handed to another call of the same label.
Pairing == \A f \in fired \cup Queued : f.n = f.data

\* Data and Deferreds of a label never wait for each other: a Deferred is in
\* waiting_deferreds only if all data that arrived is spoken for.
NeverBothWaiting ==
    \A p \in Peers, k \in Keys :
        incoming_data[p][k] = <<>> \/ waiting_deferreds[p][k] = <<>>

\* No Deferred is called back twice, which would raise AlreadyCalledError: not
\* after it was queued, nor after it was called past the queue.
CalledOnce ==
    /\ \A i, j \in 1..Len(deferred_queue) :
          i # j => deferred_queue[i] # deferred_queue[j]
    /\ fired \cap Queued = {}
    /\ \A f, g \in fired \cup Queued :
          (f.peer = g.peer /\ f.key = g.key /\ (f.n = g.n \/ f.data = g.data))
             => f = g

\* Nothing is lost: the Deferreds of a label that have their data are exactly
\* as many as the data and the Deferreds allow, and each of the others waits.
NothingLost ==
    \A p \in Peers, k \in Keys :
        /\ \A n \in 1..expected[p][k] :
              \/ \E f \in fired \cup Queued : f.peer = p /\ f.key = k /\ f.n = n
              \/ \E i \in 1..Len(waiting_deferreds[p][k]) :
                    waiting_deferreds[p][k][i] = n
        /\ \A m \in 1..received[p][k] :
              \/ \E f \in fired \cup Queued : f.peer = p /\ f.key = k /\ f.data = m
              \/ \E i \in 1..Len(incoming_data[p][k]) :
                    incoming_data[p][k][i] = m

\* Without the ViffReactor the Deferreds of a label are called back in the
\* order in which they were registered.  (With it, ExpectData overtakes the
\* Deferreds of the label that are still in the deferred_queue.)
FiresInOrder ==
    [][~using_viff_reactor =>
          \A f \in fired' \ fired, g \in fired :
             (g.peer = f.peer /\ g.key = f.key) => g.n < f.n]_vars

Channel == INSTANCE LabelledChannel

\* Every operation of the runtime is a call of the channel that the program
\* counts on, or leaves it alone.
ChannelSafety == Channel!Init /\ [][Channel!Next]_(Channel!vars)

\* The runtime implements that channel, its promise to call back included.
ImplementsChannel == Channel!Spec
==============================================================================
