---------------------------- MODULE HashBroadcast ----------------------------
(***************************************************************************)
(* One sender's part of a call of HashBroadcastMixin.broadcast             *)
(* (viff/hash_broadcast.py) by the sender and its receivers.  With several *)
(* senders the code does this once for each, under labels of its own: the  *)
(* messages differ in the peer they come from, the hashes in the last      *)
(* element of unique_pc.                                                   *)
(*                                                                         *)
(* Any set of players may be faulty from the start.  A message stands for  *)
(* its hash as well: SHA-1 is taken to be free of collisions.  Between     *)
(* players everything that was sent is received at any later time.         *)
(***************************************************************************)
EXTENDS Naturals, Sequences

CONSTANTS
    Players,
    Sender,
    Receivers,          \* the list of receivers, in the order of the call
    Messages,
    Nothing,            \* not there yet
    Inconsistent        \* an InconsistentHashException

ASSUME HashBroadcastAssumption ==
    /\ Sender \in Players
    /\ Receivers \in Seq(Players)
    /\ Receivers # <<>>
    /\ \A i, j \in 1..Len(Receivers) : i # j => Receivers[i] # Receivers[j]
    /\ Nothing \notin Messages
    /\ Inconsistent \notin Messages \cup {Nothing}

VARIABLES
    faulty,             \* the players that an adversary controls
    input,              \* the message of a correct sender
    message,            \* message[r]: what r's d_message was called back with
    hashes,             \* hashes[r][q]: what r's d_hash for q was called with
    result              \* result[p]: what the Deferred that p got from
                        \* broadcast was called with

vars == <<faulty, input, message, hashes, result>>

Receiver == {Receivers[i] : i \in 1..Len(Receivers)}
Correct == Players \ faulty

TypeOK ==
    /\ faulty \subseteq Players
    /\ input \in Messages \cup {Nothing}
    /\ message \in [Receiver -> Messages \cup {Nothing}]
    /\ hashes \in [Receiver -> [Receiver -> Messages \cup {Nothing}]]
    /\ result \in [Players -> Messages \cup {Nothing, Inconsistent}]

Init ==
    /\ faulty \in SUBSET Players
    /\ input = Nothing
    /\ message = [r \in Receiver |-> Nothing]
    /\ hashes = [r \in Receiver |-> [q \in Receiver |-> Nothing]]
    /\ result = [p \in Players |-> Nothing]

\* Mutant: the list keeps the first Deferred.
ComparedFirst == {Receivers[1]}

\* The hashes that gatherResults waits for: the loop over the receivers begins
\* with hashes = [] every time, so that the list keeps one Deferred, the last.
Compared == {Receivers[Len(Receivers)]}

\* Mutant: combine returns the pair that message_received gave it.
CombinePair(r, m, got) ==
    result' = IF m = Nothing \/ \E q \in Compared : got[q] = Nothing
              THEN result
              ELSE [result EXCEPT ![r] = IF \A q \in Compared : got[q] = m
                                         THEN <<m, m>> ELSE Inconsistent]

\* Mutant: combine does not wait for the hashes.
CombineAtOnce(r, m, got) ==
    result' = IF m = Nothing THEN result
              ELSE [result EXCEPT ![r] = IF \A q \in Compared : got[q] = m
                                         THEN m ELSE Inconsistent]

\* combine at r, called when the last of message m and the hashes got is there.
Combine(r, m, got) ==
    result' = IF m = Nothing \/ \E q \in Compared : got[q] = Nothing
              THEN result
              ELSE [result EXCEPT ![r] = IF \A q \in Compared : got[q] = m
                                         THEN m ELSE Inconsistent]

\* broadcast at a correct sender.  A sender that is not a receiver has its result.
Broadcast(m) ==
    /\ Sender \in Correct
    /\ input = Nothing
    /\ input' = m
    /\ result' = IF Sender \in Receiver THEN result
                 ELSE [result EXCEPT ![Sender] = m]
    /\ UNCHANGED <<faulty, message, hashes>>

\* message_received at r, which sends the hash to all receivers.
MessageReceived(r, m) ==
    /\ r \in Correct
    /\ message[r] = Nothing
    /\ Sender \in Correct => m = input
    /\ message' = [message EXCEPT ![r] = m]
    /\ Combine(r, m, hashes[r])
    /\ UNCHANGED <<faulty, input, hashes>>

\* Mutant: the result depends on the hashes that precede the message only.
HashReceivedLate(r, q, h) ==
    /\ r \in Correct
    /\ hashes[r][q] = Nothing
    /\ q \in Correct => h = message[q]
    /\ hashes' = [hashes EXCEPT ![r][q] = h]
    /\ UNCHANGED <<faulty, input, message, result>>

\* The Deferred d_hash that r registered for q is called.
HashReceived(r, q, h) ==
    /\ r \in Correct
    /\ hashes[r][q] = Nothing
    /\ q \in Correct => h = message[q]
    /\ hashes' = [hashes EXCEPT ![r][q] = h]
    /\ IF q \in Compared THEN Combine(r, message[r], hashes'[r])
                         ELSE UNCHANGED result
    /\ UNCHANGED <<faulty, input, message>>

Next ==
    \E m \in Messages :
        \/ Broadcast(m)
        \/ \E r \in Receiver :
              \/ MessageReceived(r, m)
              \/ \E q \in Receiver : HashReceived(r, q, m)

Spec == Init /\ [][Next]_vars

\* What correct players send to each other arrives.
FairSpec ==
    /\ Spec
    /\ \A r \in Receiver :
          /\ WF_vars(Sender \in Correct /\ \E m \in Messages : MessageReceived(r, m))
          /\ \A q \in Receiver :
                WF_vars(q \in Correct /\ \E m \in Messages : HashReceived(r, q, m))
------------------------------------------------------------------------------
Last == Receivers[Len(Receivers)]
Returned(p) == p \in Correct /\ result[p] \in Messages

\* Correct receivers never return different messages as long as the last receiver
\* of the list is correct: its hash stands for all.
LastVouches ==
    Last \in Correct =>
        \A p, q \in Receiver : Returned(p) /\ Returned(q) => result[p] = result[q]

\* With a correct sender nobody returns anything but its message, and only a
\* faulty last receiver can make a correct player give up.
Integrity ==
    Sender \in Correct =>
        \A p \in Correct :
            /\ Returned(p) => result[p] = input
            /\ result[p] = Inconsistent => Last \notin Correct

\* What a correct sender broadcasts is returned by all correct receivers, unless
\* the last of them is faulty.
Delivered ==
    (input # Nothing /\ Last \in Correct)
        ~> (\A p \in Receiver \cap Correct : Returned(p))

\* A receiver that gets a hash which is not that of its own message does not
\* return the message.
UnequalHashAborts ==
    \A r \in Receiver : Returned(r) =>
        \A q \in Receiver : hashes[r][q] \in {result[r], Nothing}
==============================================================================
