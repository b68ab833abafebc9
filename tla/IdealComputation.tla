--------------------------- MODULE IdealComputation ---------------------------
(***************************************************************************)
(* What a runtime promises: as if a party whom everybody trusts got the     *)
(* inputs, computed the program and told the receivers of each open the     *)
(* value, and nobody else anything.  If there are faulty players, whose     *)
(* data may not be readable, an open may fail or never be answered, and it  *)
(* may go wrong where it recombines more than two shares; without them      *)
(* every open is answered.                                                  *)
(***************************************************************************)
EXTENDS Integers

CONSTANTS
    Players,
    Code,
    Numbers,
    Result(_),      \* what the operations of Code compute from the inputs
    None, Failed

VARIABLES input, faulty, answer

vars == <<input, faulty, answer>>

Opens == {k \in DOMAIN Code : Code[k].do = "open"}

Replies(k) ==
    {Result(input)[k]}
        \cup (IF faulty = {} THEN {} ELSE {Failed})
        \cup (IF faulty = {} \/ Code[k].threshold < 2 THEN {}
              ELSE Numbers)

Init ==
    /\ input \in [Players -> Numbers]
    /\ faulty \in SUBSET Players
    /\ answer = [p \in Players |-> [k \in Opens |-> None]]

\* One step of a player may bring it the answers of several opens.
Answer(p) ==
    /\ \E replies \in [Opens -> {None, Failed} \cup Numbers] :
          /\ answer' = [answer EXCEPT ![p] = replies]
          /\ \A k \in Opens :
                \/ replies[k] = answer[p][k]
                \/ /\ p \in Code[k].to
                   /\ answer[p][k] = None
                   /\ replies[k] \in Replies(k)
    /\ UNCHANGED <<input, faulty>>

Next == \E p \in Players : Answer(p)

Safety == Init /\ [][Next]_vars

Answered ==
    faulty = {} ~> \A k \in Opens : \A p \in Code[k].to : answer[p][k] # None

Spec == Safety /\ Answered
==============================================================================
