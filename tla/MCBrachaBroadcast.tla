-------------------------- MODULE MCBrachaBroadcast --------------------------
(***************************************************************************)
(* BrachaBroadcast for TLC, with players that use the ViffReactor to a     *)
(* bounded depth and players that do not.  Correct players with the same   *)
(* reactor that are not the sender are interchangeable, and so are the     *)
(* messages; symmetry is used by the run without temporal properties.      *)
(***************************************************************************)
EXTENDS BrachaBroadcast, TLC

CONSTANTS
    Reentrant, Depth,   \* who uses the ViffReactor, and how deep it may nest
    Deaf                \* to whom no faulty player sends READY

MCDepthLimit == [p \in Players \ Faulty |-> IF p \in Reentrant THEN Depth ELSE 0]

Symmetry ==
    Permutations(Correct \ (Reentrant \cup {Sender})) \cup Permutations(Messages)

\* Bound, a state constraint: it keeps the graph small enough for the temporal
\* properties.  It cuts off steps of faulty players only, to whom FairSpec owes nothing.
ReadyBound == \A p \in Deaf, m \in Messages : bracha_ready[p][m] \cap Faulty = {}
==============================================================================
