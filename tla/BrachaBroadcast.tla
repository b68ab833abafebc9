--------------------------- MODULE BrachaBroadcast ---------------------------
(***************************************************************************)
(* One call of BrachaBroadcastMixin._broadcast (viff/active.py) by every   *)
(* player, under one program counter.  The faulty players say what they    *)
(* like to whom they like; the runtime of a correct player accepts at most *)
(* one SEND from the sender and one ECHO and one READY from each peer,     *)
(* because it registers one Deferred for each.  A message that was sent    *)
(* may be received at any later time: the network, the buffers of the      *)
(* ShareExchanger and a player that calls _broadcast late all delay it.    *)
(*                                                                         *)
(* unsafe_broadcast ends by calling activate_reactor, and with the         *)
(* ViffReactor other messages are then received before the call returns.   *)
(* The stack of a player holds what is left to do in the calls that were   *)
(* interrupted this way.                                                   *)
(***************************************************************************)
EXTENDS Naturals, Sequences, FiniteSets

CONSTANTS
    Players,            \* the ids of all players
    Faulty,             \* those that an adversary controls
    Threshold,          \* Runtime.threshold, t in the code
    Sender,
    Messages,
    NoMessage,
    DepthLimit          \* DepthLimit[p]: how deep activate_reactor may nest at
                        \* p; 0 for a p that does not use the ViffReactor

Correct == Players \ Faulty

ASSUME BroadcastAssumption ==
    /\ IsFiniteSet(Players)
    /\ Faulty \subseteq Players
    /\ Threshold \in Nat \ {0}
    /\ Cardinality(Faulty) <= Threshold
    /\ 3 * Threshold < Cardinality(Players)
    /\ Sender \in Players
    /\ NoMessage \notin Messages
    /\ DepthLimit \in [Players \ Faulty -> Nat]

VARIABLES
    input,              \* the message of a correct sender
    echoed,             \* echoed[p]: the message that p sent in its ECHO
    readied,            \* readied[p]: the messages of p's READYs, in order
    bracha_echo,        \* bracha_echo[p][m]: whose ECHO of m p counted
    bracha_ready,       \* bracha_ready[p][m]: whose READY of m p counted
    delivered,          \* delivered[p]: the calls of result.callback
    stack               \* stack[p]: calls of p inside activate_reactor

vars == <<input, echoed, readied, bracha_echo, bracha_ready, delivered, stack>>

\* What an interrupted call goes on with: send_received(m), or counting p's own
\* ECHO or READY of m.
Frame == [call : {"send", "echo", "ready"}, message : Messages]

TypeOK ==
    /\ input \in Messages \cup {NoMessage}
    /\ echoed \in [Correct -> Messages \cup {NoMessage}]
    /\ readied \in [Correct -> Seq(Messages)]
    /\ bracha_echo \in [Correct -> [Messages -> SUBSET Players]]
    /\ bracha_ready \in [Correct -> [Messages -> SUBSET Players]]
    /\ delivered \in [Correct -> Seq(Messages)]
    /\ stack \in [Correct -> Seq(Frame)]

Init ==
    /\ input = NoMessage
    /\ echoed = [p \in Correct |-> NoMessage]
    /\ readied = [p \in Correct |-> <<>>]
    /\ bracha_echo = [p \in Correct |-> [m \in Messages |-> {}]]
    /\ bracha_ready = [p \in Correct |-> [m \in Messages |-> {}]]
    /\ delivered = [p \in Correct |-> <<>>]
    /\ stack = [p \in Correct |-> <<>>]

\* Mutant: half of the players.
Half == Cardinality(Players) \div 2

\* The echo quorum: ceil((n+t+1)/2), where / is Python 2's division of integers
\* and rounds down before ceil sees its result.
EchoQuorum == (Cardinality(Players) + Threshold + 1) \div 2

Sent(p, m, messages) == \E i \in 1..Len(messages[p]) : messages[p][i] = m

Push(p, call, m) ==
    stack' = [stack EXCEPT ![p] = <<[call |-> call, message |-> m]>> \o @]

Pop(p) == stack' = [stack EXCEPT ![p] = Tail(@)]

\* echo_received(m, q) at p sends READY for m.
EchoCompletes(p, m, q) ==
    /\ q \notin bracha_echo[p][m]
    /\ Cardinality(bracha_echo[p][m] \cup {q}) >= EchoQuorum
    /\ ~Sent(p, m, readied)

\* Mutant: t READYs are believed.
ReadyCompletesEarly(p, m, q) ==
    /\ q \notin bracha_ready[p][m]
    /\ Cardinality(bracha_ready[p][m] \cup {q}) = Threshold
    /\ ~Sent(p, m, readied)

\* Mutant: no READY is sent because of others.
ReadyNeverCompletes(p, m, q) == FALSE

\* ready_received(m, q) at p sends READY for m.
ReadyCompletes(p, m, q) ==
    /\ q \notin bracha_ready[p][m]
    /\ Cardinality(bracha_ready[p][m] \cup {q}) = Threshold + 1
    /\ ~Sent(p, m, readied)

\* ready_received(m, q) at p delivers m.
ReadyDelivers(p, m, q) ==
    /\ q \notin bracha_ready[p][m]
    /\ ~ReadyCompletes(p, m, q)
    /\ Cardinality(bracha_ready[p][m] \cup {q}) = 2 * Threshold + 1
    /\ ~Sent(p, m, delivered)

\* Mutant: the message is added to the set in place of the player.
CountMessage(p, m, q) ==
    /\ bracha_echo' = [bracha_echo EXCEPT ![p][m] = @ \cup {m}]
    /\ readied' = IF EchoCompletes(p, m, q)
                  THEN [readied EXCEPT ![p] = Append(@, m)] ELSE readied
    /\ UNCHANGED <<input, echoed, bracha_ready, delivered>>

\* What the two do before they call activate_reactor or return.
EchoReceived(p, m, q) ==
    /\ bracha_echo' = [bracha_echo EXCEPT ![p][m] = @ \cup {q}]
    /\ readied' = IF EchoCompletes(p, m, q)
                  THEN [readied EXCEPT ![p] = Append(@, m)] ELSE readied
    /\ UNCHANGED <<input, echoed, bracha_ready, delivered>>

ReadyReceived(p, m, q) ==
    /\ bracha_ready' = [bracha_ready EXCEPT ![p][m] = @ \cup {q}]
    /\ readied' = IF ReadyCompletes(p, m, q)
                  THEN [readied EXCEPT ![p] = Append(@, m)] ELSE readied
    /\ delivered' = IF ReadyDelivers(p, m, q)
                    THEN [delivered EXCEPT ![p] = Append(@, m)] ELSE delivered
    /\ UNCHANGED <<input, echoed, bracha_echo>>

\* send_received(m) at p: unsafe_broadcast(ECHO, m), up to activate_reactor.
SendReceived(p, m) ==
    /\ echoed' = [echoed EXCEPT ![p] = m]
    /\ UNCHANGED <<input, readied, bracha_echo, bracha_ready, delivered>>

\* A message is received when p is idle or, with the ViffReactor, when p has
\* called activate_reactor.  Without it a handler runs to its end, and nobody can
\* tell it from one that takes no time.
Receptive(p) ==
    /\ Len(stack[p]) <= DepthLimit[p]
    /\ \A q \in Correct : DepthLimit[q] = 0 => stack[q] = <<>>

PushIf(completes, p, m) ==
    IF completes THEN Push(p, "ready", m) ELSE UNCHANGED stack

\* A correct sender calls _broadcast: it sends its message to everyone.
Broadcast(m) ==
    /\ Sender \in Correct
    /\ Receptive(Sender)
    /\ input = NoMessage
    /\ input' = m
    /\ Push(Sender, "send", m)
    /\ UNCHANGED <<echoed, readied, bracha_echo, bracha_ready, delivered>>

\* The Deferred d_send of p fires.
ReceiveSend(p, m) ==
    /\ Receptive(p)
    /\ p # Sender
    /\ echoed[p] = NoMessage
    /\ Sender \in Correct => m = input
    /\ SendReceived(p, m)
    /\ Push(p, "echo", m)

\* The Deferred d_echo that p registered for q fires.
ReceiveEcho(p, q, m) ==
    /\ Receptive(p)
    /\ p # q
    /\ \A l \in Messages : q \notin bracha_echo[p][l]
    /\ q \in Correct => echoed[q] = m
    /\ EchoReceived(p, m, q)
    /\ PushIf(EchoCompletes(p, m, q), p, m)

\* The Deferred d_ready that p registered for q fires; of several READYs of q
\* it gets the first.
ReceiveReady(p, q, m) ==
    /\ Receptive(p)
    /\ p # q
    /\ \A l \in Messages : q \notin bracha_ready[p][l]
    /\ q \in Correct => readied[q] # <<>> /\ Head(readied[q]) = m
    /\ ReadyReceived(p, m, q)
    /\ PushIf(ReadyCompletes(p, m, q), p, m)

\* Mutant: a call that was interrupted does not count p's own READY.
ReturnWithoutOwnReady(p) ==
    /\ stack[p] # <<>>
    /\ LET m == Head(stack[p]).message
           Replace(call) == stack' = [stack EXCEPT ![p] =
                               <<[call |-> call, message |-> m]>> \o Tail(@)]
           Leave(ready) == IF ready THEN Replace("ready") ELSE Pop(p) IN
       \/ /\ Head(stack[p]).call = "send"
          /\ SendReceived(p, m)
          /\ Replace("echo")
       \/ /\ Head(stack[p]).call = "echo"
          /\ EchoReceived(p, m, p)
          /\ Leave(EchoCompletes(p, m, p))
       \/ /\ Head(stack[p]).call = "ready"
          /\ UNCHANGED <<input, echoed, readied, bracha_echo, bracha_ready,
                         delivered>>
          /\ Pop(p)

\* activate_reactor returns in the innermost call of p, which goes on.
Return(p) ==
    /\ stack[p] # <<>>
    /\ LET m == Head(stack[p]).message
           Replace(call) == stack' = [stack EXCEPT ![p] =
                               <<[call |-> call, message |-> m]>> \o Tail(@)]
           Leave(ready) == IF ready THEN Replace("ready") ELSE Pop(p) IN
       \/ /\ Head(stack[p]).call = "send"
          /\ SendReceived(p, m)
          /\ Replace("echo")
       \/ /\ Head(stack[p]).call = "echo"
          /\ EchoReceived(p, m, p)
          /\ Leave(EchoCompletes(p, m, p))
       \/ /\ Head(stack[p]).call = "ready"
          /\ ReadyReceived(p, m, p)
          /\ Leave(ReadyCompletes(p, m, p))

Next ==
    \/ \E m \in Messages : Broadcast(m)
    \/ \E p \in Correct, m \in Messages :
          \/ ReceiveSend(p, m)
          \/ \E q \in Players : ReceiveEcho(p, q, m) \/ ReceiveReady(p, q, m)
    \/ \E p \in Correct : Return(p)

Spec == Init /\ [][Next]_vars

\* What correct players send arrives, and calls of activate_reactor return.
\* One condition covers all these steps: each of them happens once, so a
\* behaviour takes finitely many steps and stops only where none is left.
Progress ==
    \E p \in Correct :
        \/ Return(p)
        \/ \E m \in Messages :
              \/ Sender \in Correct /\ ReceiveSend(p, m)
              \/ \E q \in Correct : ReceiveEcho(p, q, m) \/ ReceiveReady(p, q, m)

FairSpec == Spec /\ WF_vars(Progress)
------------------------------------------------------------------------------
\* The correct players that get a result get the same one, and no player's
\* result.callback is called twice.
Agreement ==
    /\ \A p, q \in Correct : \A m, l \in Messages :
          Sent(p, m, delivered) /\ Sent(q, l, delivered) => m = l
    /\ \A p \in Correct : Len(delivered[p]) <= 1

\* The lemma behind Agreement: the correct players never send READY for two
\* messages between them.
OneReady ==
    \A p, q \in Correct : \A m, l \in Messages :
        Sent(p, m, readied) /\ Sent(q, l, readied) => m = l

\* Nothing that a correct player sent is left to receive, and no call of
\* activate_reactor to return from.
Quiet ==
    /\ \A p \in Correct : stack[p] = <<>>
    /\ Sender \in Correct /\ input # NoMessage =>
          \A p \in Correct \ {Sender} : echoed[p] # NoMessage
    /\ \A p, q \in Correct : p # q =>
          /\ echoed[q] # NoMessage => \E m \in Messages : q \in bracha_echo[p][m]
          /\ readied[q] # <<>> => \E m \in Messages : q \in bracha_ready[p][m]

\* When nothing is left to receive, either all correct players have a result or
\* none has, and all have one if the sender is correct: no order of messages, and
\* no nesting of handlers, makes one of them miss the count at which it sends
\* READY (exactly t+1) or delivers (exactly 2t+1).
NoOneLeftBehind ==
    Quiet =>
       /\ \A p, q \in Correct : delivered[p] = <<>> => delivered[q] = <<>>
       /\ input # NoMessage => \A p \in Correct : delivered[p] # <<>>

\* Nothing but that ends a broadcast: as long as it is not so, some player can
\* go on, also when activate_reactor is not entered because it is as deep as it may.
NoEarlyEnd == (Quiet /\ NoOneLeftBehind) \/ ENABLED Progress

\* The results that the callers see.
Result == [p \in Correct |->
              IF delivered[p] = <<>> THEN NoMessage ELSE Head(delivered[p])]

Reliable == INSTANCE ReliableBroadcast WITH result <- Result

\* _broadcast is a reliable broadcast.
ImplementsReliableBroadcast == Reliable!Spec
==============================================================================
