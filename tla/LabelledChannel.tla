--------------------------- MODULE LabelledChannel ---------------------------
(***************************************************************************)
(* What a VIFF runtime promises to the program it runs: data is addressed  *)
(* by the peer it comes from and by a label, the pair of a program counter *)
(* and a data type.  The n-th piece of data that a peer sends under a      *)
(* label is handed, once, to the n-th Deferred that the program registers  *)
(* for that peer and label, whichever of the two came first.  Nothing is   *)
(* said about the order in which Deferreds of different labels fire.       *)
(***************************************************************************)
EXTENDS Naturals

CONSTANTS Peers, Keys

VARIABLES
    sent,       \* sent[p][k]: how many pieces of data p sent under label k
    expected,   \* expected[p][k]: how many Deferreds wait or waited for them
    fired       \* the Deferreds called back so far, each with its data

vars == <<sent, expected, fired>>

Firing == [peer : Peers, key : Keys, n : Nat, data : Nat]

Pair(p, k, n) == [peer |-> p, key |-> k, n |-> n, data |-> n]

Init ==
    /\ sent = [p \in Peers |-> [k \in Keys |-> 0]]
    /\ expected = [p \in Peers |-> [k \in Keys |-> 0]]
    /\ fired = {}

\* The n-th Deferred of p and k can be called back: both sides are there.
Matched(p, k, n) == 1 <= n /\ n <= sent[p][k] /\ n <= expected[p][k]

\* A call may call back at most one Deferred, one that is matched after it.
AtMostOneFires(p, k) ==
    \/ UNCHANGED fired
    \/ \E n \in 1..expected'[p][k] :
          /\ Matched(p, k, n)'
          /\ fired' = fired \cup {Pair(p, k, n)}

Send(p, k) ==
    /\ sent' = [sent EXCEPT ![p][k] = @ + 1]
    /\ UNCHANGED expected
    /\ AtMostOneFires(p, k)

Expect(p, k) ==
    /\ expected' = [expected EXCEPT ![p][k] = @ + 1]
    /\ UNCHANGED sent
    /\ AtMostOneFires(p, k)

Fire(p, k) ==
    /\ \E n \in 1..expected[p][k] :
          /\ Matched(p, k, n)
          /\ Pair(p, k, n) \notin fired
          /\ fired' = fired \cup {Pair(p, k, n)}
    /\ UNCHANGED <<sent, expected>>

Next == \E p \in Peers, k \in Keys : Send(p, k) \/ Expect(p, k) \/ Fire(p, k)

Spec == Init /\ [][Next]_vars /\ \A p \in Peers, k \in Keys : WF_vars(Fire(p, k))
==============================================================================
