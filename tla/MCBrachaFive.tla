---------------------------- MODULE MCBrachaFive -----------------------------
(***************************************************************************)
(* BrachaBroadcast with five players and t = 1, which is less than n/3 but *)
(* makes n+t even.  So that TLC reaches the end of a broadcast soon, it    *)
(* follows only behaviours in which the correct players of one camp have   *)
(* received nothing but Left, those of the other nothing but other         *)
(* messages, and nothing has yet arrived from the other camp.              *)
(***************************************************************************)
EXTENDS BrachaBroadcast, TLC

CONSTANTS Camp, Left

NoReentry == [p \in Players \ Faulty |-> 0]

OfCamp(p, m) == p \in Camp <=> m = Left

CampsApart ==
    \A p \in Correct, m \in Messages :
        /\ echoed[p] = m => OfCamp(p, m)
        /\ \A q \in bracha_echo[p][m] \cup bracha_ready[p][m] :
              OfCamp(p, m) /\ (q \in Faulty \/ (p \in Camp <=> q \in Camp))

Symmetry == Permutations(Camp) \cup Permutations(Correct \ Camp)
==============================================================================
