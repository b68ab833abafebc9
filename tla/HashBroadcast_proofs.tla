------------------------ MODULE HashBroadcast_proofs -------------------------
(***************************************************************************)
(* Proofs about HashBroadcast, for every list of receivers, every set of   *)
(* faulty players and every set of messages.                               *)
(***************************************************************************)
EXTENDS HashBroadcast, TLAPS

\* What correct players hold was sent by the player it is from.
SourceInv ==
    /\ \A r, q \in Receiver \cap Correct :
          hashes[r][q] # Nothing => hashes[r][q] = message[q]
    /\ Sender \in Correct =>
          \A r \in Receiver \cap Correct : message[r] # Nothing => message[r] = input

\* A result is what the message and the hash of the last receiver say.
ResultInv ==
    /\ \A r \in Receiver \cap Correct :
          /\ result[r] \in Messages =>
                message[r] = result[r] /\ hashes[r][Last] = result[r]
          /\ result[r] = Inconsistent =>
                /\ message[r] # Nothing
                /\ hashes[r][Last] # Nothing
                /\ hashes[r][Last] # message[r]
    /\ \A p \in Correct \ Receiver :
          result[p] # Nothing => p = Sender /\ result[p] = input /\ input \in Messages

IInv == TypeOK /\ SourceInv /\ ResultInv
------------------------------------------------------------------------------
\* The last receiver is the only one that combine hears from: the loop over the
\* receivers starts its list of hashes anew in every turn.
LEMMA ReceiverFacts ==
    /\ Last \in Receiver
    /\ Receiver \subseteq Players
    /\ Compared = {Last}
<1>1. Len(Receivers) \in Nat /\ Len(Receivers) \in 1..Len(Receivers)
  BY HashBroadcastAssumption
<1> QED  BY <1>1, HashBroadcastAssumption DEF Last, Receiver, Compared

\* What combine does to the result of r, and to no other.
LEMMA CombineOutcome ==
    ASSUME TypeOK, NEW r \in Receiver, NEW m \in Messages \cup {Nothing},
           NEW got \in [Receiver -> Messages \cup {Nothing}],
           Combine(r, m, got)
    PROVE  /\ result' \in [Players -> Messages \cup {Nothing, Inconsistent}]
           /\ \A p \in Players : p # r => result'[p] = result[p]
           /\ \/ /\ result'[r] = result[r]
                 /\ m = Nothing \/ got[Last] = Nothing
              \/ /\ m # Nothing /\ got[Last] = m
                 /\ result'[r] = m
              \/ /\ m # Nothing /\ got[Last] # Nothing /\ got[Last] # m
                 /\ result'[r] = Inconsistent
<1>1. CASE m = Nothing \/ got[Last] = Nothing
  <2>1. result' = result
    BY <1>1, ReceiverFacts DEF Combine
  <2> QED  BY <1>1, <2>1 DEF TypeOK
<1>2. CASE m # Nothing /\ got[Last] # Nothing
  <2> DEFINE x == IF got[Last] = m THEN m ELSE Inconsistent
  <2>1. result' = [result EXCEPT ![r] = x]
    BY <1>2, ReceiverFacts DEF Combine
  <2>2. r \in Players /\ x \in Messages \cup {Nothing, Inconsistent}
    BY ReceiverFacts
  <2>3. /\ result' \in [Players -> Messages \cup {Nothing, Inconsistent}]
        /\ \A p \in Players : p # r => result'[p] = result[p]
        /\ result'[r] = x
    BY <2>1, <2>2 DEF TypeOK
  <2> QED  BY <1>2, <2>3
<1> QED  BY <1>1, <1>2

\* The inductive invariant holds in every reachable state of a call of broadcast.
THEOREM Inductive == Spec => []IInv
<1>1. Init => IInv
  <2> SUFFICES ASSUME Init PROVE IInv
    OBVIOUS
  <2>1. TypeOK
    BY DEF Init, TypeOK
  <2>2. SourceInv
    BY DEF Init, SourceInv
  <2>3. ResultInv
    BY HashBroadcastAssumption, ReceiverFacts DEF Init, ResultInv, Correct
  <2> QED  BY <2>1, <2>2, <2>3 DEF IInv
<1>2. IInv /\ [Next]_vars => IInv'
  <2> SUFFICES ASSUME IInv, [Next]_vars PROVE IInv'
    OBVIOUS
  <2> USE DEF IInv
  <2>1. ASSUME NEW m \in Messages, Broadcast(m) PROVE IInv'
    <3>1. /\ UNCHANGED <<faulty, message, hashes>>
          /\ input = Nothing /\ input' = m
          /\ Sender \in Correct /\ Sender \in Players
          /\ result' = IF Sender \in Receiver THEN result
                       ELSE [result EXCEPT ![Sender] = m]
      BY <2>1, HashBroadcastAssumption DEF Broadcast
    <3>2. /\ result' \in [Players -> Messages \cup {Nothing, Inconsistent}]
          /\ \A r \in Receiver : result'[r] = result[r]
          /\ \A p \in Players : result'[p] # result[p] => p = Sender /\ result'[p] = m
      BY <3>1, ReceiverFacts DEF TypeOK
    <3>3. TypeOK'
      BY <3>1, <3>2 DEF TypeOK
    <3>4. SourceInv'
      BY <3>1, HashBroadcastAssumption DEF SourceInv, Correct, TypeOK
    <3>5. ResultInv'
      <4>1. \A p \in Correct \ Receiver : result'[p] # Nothing =>
               p = Sender /\ result'[p] = m
        BY <3>1, <3>2, HashBroadcastAssumption DEF ResultInv, Correct
      <4> QED  BY <3>1, <3>2, <4>1 DEF ResultInv, Correct
    <3> QED  BY <3>3, <3>4, <3>5
  <2>2. ASSUME NEW m \in Messages, NEW r \in Receiver, MessageReceived(r, m)
        PROVE  IInv'
    <3>1. /\ UNCHANGED <<faulty, input, hashes>>
          /\ r \in Correct /\ message[r] = Nothing
          /\ Sender \in Correct => m = input
          /\ message' = [message EXCEPT ![r] = m]
          /\ Combine(r, m, hashes[r])
          /\ m # Nothing /\ m # Inconsistent
      BY <2>2, HashBroadcastAssumption DEF MessageReceived
    <3>2. /\ message' \in [Receiver -> Messages \cup {Nothing}]
          /\ message'[r] = m
          /\ \A q \in Receiver : q # r => message'[q] = message[q]
      BY <3>1 DEF TypeOK
    <3>3. /\ result' \in [Players -> Messages \cup {Nothing, Inconsistent}]
          /\ \A p \in Players : p # r => result'[p] = result[p]
          /\ \/ result'[r] = result[r]
             \/ hashes[r][Last] = m /\ result'[r] = m
             \/ /\ hashes[r][Last] # Nothing /\ hashes[r][Last] # m
                /\ result'[r] = Inconsistent
      <4>1. hashes[r] \in [Receiver -> Messages \cup {Nothing}]
        BY DEF TypeOK
      <4> QED  BY <3>1, <4>1, CombineOutcome
    <3>4. TypeOK'
      BY <3>1, <3>2, <3>3 DEF TypeOK
    <3>5. SourceInv'
      BY <3>1, <3>2, HashBroadcastAssumption DEF SourceInv, Correct
    <3>6. ResultInv'
      <4>1. result[r] \notin Messages /\ result[r] # Inconsistent
        BY <3>1, HashBroadcastAssumption DEF ResultInv
      <4>2. \A q \in Receiver \cap Correct : q # r => result'[q] = result[q]
        BY <3>3, ReceiverFacts
      <4>3. \A p \in Correct \ Receiver : result'[p] = result[p]
        BY <3>3 DEF Correct
      <4> QED
        BY <3>1, <3>2, <3>3, <4>1, <4>2, <4>3, HashBroadcastAssumption
           DEF ResultInv, Correct
    <3> QED  BY <3>4, <3>5, <3>6
  <2>3. ASSUME NEW h \in Messages, NEW r \in Receiver, NEW q \in Receiver,
               HashReceived(r, q, h)
        PROVE  IInv'
    <3>1. /\ UNCHANGED <<faulty, input, message>>
          /\ r \in Correct /\ hashes[r][q] = Nothing
          /\ q \in Correct => h = message[q]
          /\ hashes' = [hashes EXCEPT ![r][q] = h]
          /\ h # Nothing /\ h # Inconsistent
      BY <2>3, HashBroadcastAssumption DEF HashReceived
    <3>2. /\ hashes' \in [Receiver -> [Receiver -> Messages \cup {Nothing}]]
          /\ hashes'[r][q] = h
          /\ \A a, b \in Receiver : ~(a = r /\ b = q) => hashes'[a][b] = hashes[a][b]
      BY <3>1 DEF TypeOK
    <3>3. /\ result' \in [Players -> Messages \cup {Nothing, Inconsistent}]
          /\ \A p \in Players : p # r => result'[p] = result[p]
          /\ \/ result'[r] = result[r]
             \/ /\ message[r] # Nothing /\ hashes'[r][Last] = message[r]
                /\ result'[r] = message[r]
             \/ /\ message[r] # Nothing /\ hashes'[r][Last] # Nothing
                /\ hashes'[r][Last] # message[r]
                /\ result'[r] = Inconsistent
      <4>1. CASE q \in Compared
        <5>1. Combine(r, message[r], hashes'[r])
          BY <2>3, <4>1 DEF HashReceived
        <5>2. /\ hashes'[r] \in [Receiver -> Messages \cup {Nothing}]
              /\ message[r] \in Messages \cup {Nothing}
          BY <3>2 DEF TypeOK
        <5> QED  BY <5>1, <5>2, CombineOutcome
      <4>2. CASE q \notin Compared
        BY <2>3, <4>2 DEF HashReceived, TypeOK
      <4> QED  BY <4>1, <4>2
    <3>4. TypeOK'
      BY <3>1, <3>2, <3>3 DEF TypeOK
    <3>5. SourceInv'
      BY <3>1, <3>2 DEF SourceInv, Correct
    <3>6. ResultInv'
      <4>1. \A a \in Receiver \cap Correct : a # r => result'[a] = result[a]
        BY <3>3, ReceiverFacts
      <4>2. \A p \in Correct \ Receiver : result'[p] = result[p]
        BY <3>3 DEF Correct
      <4>3. \A a \in Receiver \cap Correct : hashes[a][Last] # Nothing =>
               hashes'[a][Last] = hashes[a][Last]
        BY <3>1, <3>2, ReceiverFacts
      <4>4. message[r] \in Messages \cup {Nothing}
        BY DEF TypeOK
      <4> QED
        BY <3>1, <3>2, <3>3, <4>1, <4>2, <4>3, <4>4, HashBroadcastAssumption
           DEF ResultInv, Correct
    <3> QED  BY <3>4, <3>5, <3>6
  <2>4. CASE UNCHANGED vars
    <3>1. UNCHANGED <<faulty, input, message, hashes, result>>
      BY <2>4 DEF vars
    <3>2. TypeOK'
      BY <3>1 DEF TypeOK
    <3>3. SourceInv'
      BY <3>1 DEF SourceInv, Correct
    <3>4. ResultInv'
      BY <3>1 DEF ResultInv, Correct
    <3> QED  BY <3>2, <3>3, <3>4
  <2> QED  BY <2>1, <2>2, <2>3, <2>4 DEF Next
<1> QED  BY <1>1, <1>2, PTL DEF Spec

\* The state of a call of broadcast is well-typed at all times.
THEOREM TypeCorrect == Spec => []TypeOK
<1>1. IInv => TypeOK
  BY DEF IInv
<1> QED  BY <1>1, Inductive, PTL

\* Correct receivers never return different messages if the last receiver of the
\* list is correct: combine compares with its hash, and it sends one hash.
THEOREM LastVouchesHolds == Spec => []LastVouches
<1>1. IInv => LastVouches
  <2> SUFFICES ASSUME IInv, Last \in Correct,
                      NEW p \in Receiver, Returned(p)
               PROVE  result[p] = message[Last]
    BY DEF LastVouches
  <2> QED
    BY ReceiverFacts, HashBroadcastAssumption
       DEF IInv, SourceInv, ResultInv, Returned
<1> QED  BY <1>1, Inductive, PTL

\* With a correct sender nobody returns anything but its message, and only a
\* faulty last receiver makes a correct player raise InconsistentHashException.
THEOREM IntegrityHolds == Spec => []Integrity
<1>1. IInv => Integrity
  <2> SUFFICES ASSUME IInv, Sender \in Correct, NEW p \in Correct
               PROVE  /\ Returned(p) => result[p] = input
                      /\ result[p] = Inconsistent => Last \notin Correct
    BY DEF Integrity
  <2>1. CASE p \in Receiver
    <3>1. Returned(p) => result[p] = input
      BY <2>1, HashBroadcastAssumption DEF IInv, SourceInv, ResultInv, Returned
    <3>2. ASSUME result[p] = Inconsistent, Last \in Correct PROVE FALSE
      <4>1. /\ message[p] # Nothing /\ hashes[p][Last] # Nothing
            /\ hashes[p][Last] # message[p]
        BY <2>1, <3>2 DEF IInv, ResultInv
      <4>2. message[p] = input
        BY <2>1, <4>1 DEF IInv, SourceInv
      <4>3. hashes[p][Last] = message[Last]
        BY <2>1, <3>2, <4>1, ReceiverFacts DEF IInv, SourceInv
      <4>4. message[Last] = input
        BY <3>2, <4>1, <4>3, ReceiverFacts DEF IInv, SourceInv
      <4> QED  BY <4>1, <4>2, <4>3, <4>4
    <3> QED  BY <3>1, <3>2
  <2>2. CASE p \notin Receiver
    BY <2>2, HashBroadcastAssumption DEF IInv, ResultInv, Returned
  <2> QED  BY <2>1, <2>2
<1> QED  BY <1>1, Inductive, PTL
==============================================================================
