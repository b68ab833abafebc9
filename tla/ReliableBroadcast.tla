-------------------------- MODULE ReliableBroadcast --------------------------
(***************************************************************************)
(* What BrachaBroadcastMixin.broadcast (viff/active.py) promises its       *)
(* callers when some players are faulty: the correct players that get a    *)
(* result get the same one, it is the sender's message when the sender is  *)
(* correct, and either all of them get a result or none does.  A faulty    *)
(* sender may leave everyone without a result.                             *)
(***************************************************************************)
CONSTANTS Correct, Sender, Messages, NoMessage

VARIABLES
    input,      \* the message the sender passes to broadcast
    result      \* result[p]: the message p's Deferred was called back with

vars == <<input, result>>

Init ==
    /\ input = NoMessage
    /\ result = [p \in Correct |-> NoMessage]

Broadcast(m) ==
    /\ Sender \in Correct
    /\ input = NoMessage
    /\ input' = m
    /\ UNCHANGED result

Deliver(p, m) ==
    /\ result[p] = NoMessage
    /\ Sender \in Correct => m = input
    /\ \A q \in Correct : result[q] \in {m, NoMessage}
    /\ result' = [result EXCEPT ![p] = m]
    /\ UNCHANGED input

Next == \E m \in Messages : Broadcast(m) \/ \E p \in Correct : Deliver(p, m)

SafetySpec == Init /\ [][Next]_vars

\* Validity and totality: once a correct sender has broadcast, or some correct
\* player has a result, every correct player gets one.
Delivery ==
    (input # NoMessage \/ \E p \in Correct : result[p] # NoMessage)
        ~> (\A q \in Correct : result[q] # NoMessage)

Spec == SafetySpec /\ Delivery
==============================================================================
