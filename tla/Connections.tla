----------------------------- MODULE Connections -----------------------------
(***************************************************************************)
(* The life of a computation (viff/runtime.py): the players come up,       *)
(* connect to each other, run a program that opens one shared value and    *)
(* waits for it, synchronise, close their connections and stop.            *)
(*                                                                         *)
(* There is one connection for every two players, which the one of smaller *)
(* id asks for.  What a player writes is read in that order, followed by   *)
(* the end of the connection.  A program counter and type stand for what   *)
(* they label: "share" is the share of the value, "sync" that of           *)
(* synchronize.  Data goes through the deferred queue of the ViffReactor,  *)
(* so that the callbacks it makes are steps of their own.                  *)
(*                                                                         *)
(* A garbling player may send each peer a string that is not a packet.     *)
(***************************************************************************)
EXTENDS Naturals, FiniteSets, Sequences, SequencesExt

CONSTANTS
    N,              \* the number of players
    Threshold,      \* that of the sharing
    Garbling        \* the players that may send a string that is no packet

ASSUME ConnectionsAssumption ==
    /\ N \in Nat \ {0, 1}
    /\ Threshold \in 1..(N - 1)
    /\ Garbling \subseteq 1..N

Players == 1..N
Others(p) == Players \ {p}

Phases == {"off", "connecting", "running", "syncing", "closing", "stopped", "aborted"}
Links == {"none", "up", "closing", "lost", "broken"}
Strings == {"id", "share", "sync", "bad", "fin", "rst"}

VARIABLES
    phase,              \* phase[p]: how far player p has come
    needed_protocols,   \* needed_protocols[p], of p's factory
    protocols,          \* protocols[p]: the players that p has a protocol for
    link,               \* link[p][q]: p's end of its connection to q; it is
                        \* "lost" once lost_connection has been called, and
                        \* "broken" when connectionLost has raised instead
    data,               \* data[p][s]: the peers whose string s has come to p
    wire,               \* wire[p][q]: what q has yet to read from p
    garbled             \* the players that have sent a bad string

vars == <<phase, needed_protocols, protocols, link, data, wire, garbled>>

TypeOK ==
    /\ phase \in [Players -> Phases]
    /\ needed_protocols \in [Players -> 0..(N - 1)]
    /\ protocols \in [Players -> SUBSET Players]
    /\ \A p \in Players :
           /\ needed_protocols[p] = N - Cardinality(protocols[p])
           /\ \A q \in Others(p) : q \in protocols[p] => link[p][q] # "none"
    /\ link \in [Players -> [Players -> Links]]
    /\ data \in [Players -> [{"share", "sync"} -> SUBSET Players]]
    /\ wire \in [Players -> [Players -> Seq(Strings)]]
    /\ garbled \subseteq Garbling

Init ==
    /\ phase = [p \in Players |-> "off"]
    /\ needed_protocols = [p \in Players |-> N - 1]
    /\ protocols = [p \in Players |-> {p}]
    /\ link = [p \in Players |-> [q \in Players |-> "none"]]
    /\ data = [p \in Players |-> [s \in {"share", "sync"} |-> {}]]
    /\ wire = [p \in Players |-> [q \in Players |-> <<>>]]
    /\ garbled = {}

-----------------------------------------------------------------------------
(***************************************************************************)
(* Start-up                                                                *)
(***************************************************************************)

\* create_runtime: the player listens.  It asks the others for connections,
\* again and again until they listen too.
Listen(p) ==
    /\ phase[p] = "off"
    /\ phase' = [phase EXCEPT ![p] = "connecting"]
    /\ UNCHANGED <<needed_protocols, protocols, link, data, wire, garbled>>

Listening(q) == phase[q] \notin {"off", "closing", "stopped", "aborted"}

\* connectionMade at p, whose end of the connection comes up.
ConnectionMade(p, q) ==
    /\ phase[p] # "off"
    /\ phase[p] # "aborted"
    /\ link[p][q] = "none"
    /\ link' = [link EXCEPT ![p][q] = "up"]
    /\ wire' = [wire EXCEPT ![p][q] = Append(@, "id")]
    /\ UNCHANGED <<phase, needed_protocols, protocols, data, garbled>>

Connect(p, q) ==
    /\ p < q
    /\ Listening(q)
    /\ ConnectionMade(p, q)

Accept(p, q) ==
    /\ q < p
    /\ link[q][p] # "none"
    /\ ConnectionMade(p, q)

\* What p has written to all when it has written these strings more.
WriteAll(p, strings) ==
    [wire EXCEPT ![p] = [q \in Players |-> IF link[p][q] = "up"
                                           THEN @[q] \o strings
                                           ELSE @[q]]]

\* The value is there when the share list has Threshold + 1 shares, p's own
\* among them.
Opened(p) == Cardinality(data[p]["share"]) >= Threshold

\* Mutant: synchronize waits for a share from the player itself.
SynchronizedWithSelf(p) == Players \subseteq data[p]["sync"]

\* gather_shares has the shares of synchronize from all the others.
Synchronized(p) == Others(p) \subseteq data[p]["sync"]

\* Mutant: the protocol is not counted.
NotCounted(p) == needed_protocols[p]

\* needed_protocols with one protocol more.
StillNeeded(p) == needed_protocols[p] - 1

\* Mutant: p counts itself among the protocols.
AllButOne(p) == StillNeeded(p) <= 1

LastProtocol(p) == StillNeeded(p) = 0

\* The first string from q: identify_peer at p.  With the last protocol the
\* program runs, as far as it can: it sends the shares, and when enough of
\* the others' have come already it shuts down, which begins with a
\* synchronisation.  That one waits for q at least, of whom p has read
\* nothing but the id.
IdentifyPeer(p, q) ==
    /\ link[p][q] = "up"
    /\ q \notin protocols[p]
    /\ wire[q][p] # <<>>
    /\ Head(wire[q][p]) = "id"
    /\ protocols' = [protocols EXCEPT ![p] = @ \cup {q}]
    /\ needed_protocols' = [needed_protocols EXCEPT ![p] = StillNeeded(p)]
    /\ LET next == IF ~ LastProtocol(p) THEN "connecting"
                   ELSE IF Opened(p) THEN "syncing" ELSE "running"
           strings == CASE next = "connecting" -> <<>>
                        [] next = "running" -> <<"share">>
                        [] next = "syncing" -> <<"share", "sync">>
       IN  /\ phase' = [phase EXCEPT ![p] = next]
           /\ wire' = [WriteAll(p, strings) EXCEPT ![q][p] = Tail(@)]
    /\ UNCHANGED <<link, data, garbled>>

-----------------------------------------------------------------------------
(***************************************************************************)
(* The program, and the end of it                                          *)
(***************************************************************************)

\* stringReceived at p, of a share.
ReceiveData(p, q) ==
    /\ link[p][q] = "up"
    /\ q \in protocols[p]
    /\ wire[q][p] # <<>>
    /\ Head(wire[q][p]) \in {"share", "sync"}
    /\ data' = [data EXCEPT ![p][Head(wire[q][p])] = @ \cup {q}]
    /\ wire' = [wire EXCEPT ![q][p] = Tail(@)]
    /\ UNCHANGED <<phase, needed_protocols, protocols, link, garbled>>

\* The ends that p closes: each of them writes what it has to write, but
\* reads no more.
CloseAll(p) ==
    [link EXCEPT ![p] = [q \in Players |-> IF @[q] = "up" THEN "closing" ELSE @[q]]]

\* Mutant: nobody waits for the others before it closes.
ShutdownAtOnce(p) ==
    /\ phase[p] = "running"
    /\ Opened(p)
    /\ wire' = WriteAll(p, <<"sync">>)
    /\ phase' = [phase EXCEPT ![p] = "closing"]
    /\ link' = CloseAll(p)
    /\ UNCHANGED <<needed_protocols, protocols, data, garbled>>

\* The value is there: wait_for makes the call of shutdown.  The callback
\* close_connections is made at once when the others have all synchronised.
Shutdown(p) ==
    /\ phase[p] = "running"
    /\ Opened(p)
    /\ wire' = WriteAll(p, <<"sync">>)
    /\ phase' = [phase EXCEPT ![p] = IF Synchronized(p) THEN "closing" ELSE "syncing"]
    /\ link' = IF Synchronized(p) THEN CloseAll(p) ELSE link
    /\ UNCHANGED <<needed_protocols, protocols, data, garbled>>

\* Mutant: Threshold + 1 players are enough to synchronise with.
CloseAfterSome(p) ==
    /\ phase[p] = "syncing"
    /\ Cardinality(data[p]["sync"]) >= Threshold
    /\ phase' = [phase EXCEPT ![p] = "closing"]
    /\ link' = CloseAll(p)
    /\ UNCHANGED <<needed_protocols, protocols, data, wire, garbled>>

\* close_connections, when the last share of the synchronisation comes.
CloseConnections(p) ==
    /\ phase[p] = "syncing"
    /\ Synchronized(p)
    /\ phase' = [phase EXCEPT ![p] = "closing"]
    /\ link' = CloseAll(p)
    /\ UNCHANGED <<needed_protocols, protocols, data, wire, garbled>>

\* What p's peer q finds after the connection's end at p: all that p wrote,
\* or, when p has left something unread, a reset that may overtake it.
AfterClose(p, q) ==
    IF \E i \in DOMAIN wire[q][p] : wire[q][p][i] \notin {"fin", "rst"}
    THEN {Append(wire[p][q], "rst"), <<"rst">>}
    ELSE {Append(wire[p][q], "fin")}

\* loseConnection has written everything; the transport makes the call of
\* connectionLost at p.
LoseConnection(p, q) ==
    /\ link[p][q] = "closing"
    /\ link' = [link EXCEPT ![p][q] = "lost"]
    /\ \E rest \in AfterClose(p, q) : wire' = [wire EXCEPT ![p][q] = rest]
    /\ UNCHANGED <<phase, needed_protocols, protocols, data, garbled>>

\* The peer q has closed the connection.  connectionLost at p traps
\* ConnectionDone, and raises any other reason.
ConnectionLost(p, q) ==
    /\ link[p][q] = "up"
    /\ wire[q][p] # <<>>
    /\ Head(wire[q][p]) \in {"fin", "rst"}
    /\ link' = [link EXCEPT ![p][q] = IF Head(wire[q][p]) = "fin" THEN "lost" ELSE "broken"]
    /\ wire' = [wire EXCEPT ![q][p] = Tail(@)]
    /\ UNCHANGED <<phase, needed_protocols, protocols, data, garbled>>

\* stop_reactor, when the lost_connection of every protocol has been called.
StopReactor(p) ==
    /\ phase[p] = "closing"
    /\ \A q \in Others(p) : link[p][q] = "lost"
    /\ phase' = [phase EXCEPT ![p] = "stopped"]
    /\ UNCHANGED <<needed_protocols, protocols, link, data, wire, garbled>>

-----------------------------------------------------------------------------
(***************************************************************************)
(* Bad data                                                                *)
(***************************************************************************)

\* A garbling player sends q a string that is not a packet, after its id.
SendBad(p, q) ==
    /\ p \in Garbling
    /\ link[p][q] = "up"
    /\ phase[q] # "aborted"
    /\ ~ Contains(wire[p][q], "bad")
    /\ wire' = [wire EXCEPT ![p][q] = Append(@, "bad")]
    /\ garbled' = garbled \cup {p}
    /\ UNCHANGED <<phase, needed_protocols, protocols, link, data>>

\* abort at p: it stops its reactor, which may or may not have written
\* everything, and the connections are gone.
Abort(p, q) ==
    /\ link[p][q] = "up"
    /\ q \in protocols[p]
    /\ wire[q][p] # <<>>
    /\ Head(wire[q][p]) = "bad"
    /\ phase' = [phase EXCEPT ![p] = "aborted"]
    /\ link' = [link EXCEPT ![p] = [r \in Players |-> IF @[r] = "up"
                                                      THEN "lost" ELSE @[r]]]
    /\ \E end \in [{r \in Others(p) : link[p][r] = "up"} -> {"fin", "rst"}] :
           wire' = [wire EXCEPT ![p] = [r \in Players |->
                        IF r \notin DOMAIN end THEN @[r]
                        ELSE IF end[r] = "fin" THEN Append(@[r], "fin") ELSE <<"rst">>],
                    ![q][p] = Tail(@)]
    /\ UNCHANGED <<needed_protocols, protocols, data, garbled>>

-----------------------------------------------------------------------------
Pair(p, q) ==
    \/ Connect(p, q)
    \/ Accept(p, q)
    \/ IdentifyPeer(p, q)
    \/ ReceiveData(p, q)
    \/ LoseConnection(p, q)
    \/ ConnectionLost(p, q)
    \/ Abort(p, q)

Alone(p) ==
    \/ Listen(p)
    \/ Shutdown(p)
    \/ CloseConnections(p)
    \/ StopReactor(p)

Next ==
    \E p \in Players :
        \/ Alone(p)
        \/ \E q \in Others(p) : Pair(p, q) \/ SendBad(p, q)

Spec == Init /\ [][Next]_vars

\* The players are started, the network delivers, and reactors run.
FairSpec ==
    /\ Spec
    /\ \A p \in Players :
           /\ WF_vars(Alone(p))
           /\ \A q \in Others(p) : WF_vars(Pair(p, q))

-----------------------------------------------------------------------------
(***************************************************************************)
(* Properties                                                              *)
(***************************************************************************)

\* A player's program runs only when every player has come up and both ends
\* of every connection of its own are made: create_runtime's promise that
\* the runtime is connected to the others.
ReadyMeansConnected ==
    \A p \in Players : phase[p] \notin {"off", "connecting", "aborted"} =>
        \A q \in Others(p) : /\ phase[q] # "off"
                             /\ q \in protocols[p]
                             /\ link[q][p] # "none"

\* When a player closes its connections, the others have all made their call
\* of synchronize, and nothing of theirs for it is still on its way: no share
\* is dropped, and none meets a connection that is closed.
ClosedLast ==
    \A p \in Players : phase[p] \in {"closing", "stopped"} =>
        \A q \in Others(p) :
            /\ phase[q] \notin {"off", "connecting", "running"}
            /\ ~ Contains(wire[q][p], "share")
            /\ ~ Contains(wire[q][p], "sync")

\* While every string is a packet, a connection that ends is no surprise to
\* its other end: connectionLost does not raise, and the player it happens to
\* has its value already.
NoSurprise ==
    garbled = {} =>
        \A p \in Players : \A q \in Others(p) :
            /\ link[p][q] # "broken"
            /\ link[p][q] \in {"closing", "lost"} => Opened(p)

\* Every player stops in the end, unless somebody has sent a bad string:
\* shutdown's promise, over every order in which players come up and finish.
AllStop == <>((\A p \in Players : phase[p] = "stopped") \/ garbled # {})
==============================================================================
