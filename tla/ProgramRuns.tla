------------------------------ MODULE ProgramRuns ------------------------------
(***************************************************************************)
(* The two systems of MCProtocols that run programs: one run of a program   *)
(* of the BeDOZa runtime (module Bedoza), and two runs of a program whose   *)
(* calls are given to preprocess in between (module Preprocessing).         *)
(***************************************************************************)
EXTENDS Bedoza

CONSTANTS Calls,      \* the calls of the program that preprocess makes items for
          MostAtOnce  \* how many items their generators return at most

VARIABLES pc, phase, at, needed, waiting, pool, got

poolVars == <<pc, phase, at, needed, waiting, pool, got>>

\* The second run starts from the program counter of the first.
Pool == INSTANCE Preprocessing WITH Reset <- TRUE

ASSUME PoolAssumption ==
    /\ Calls \in Seq(Pool!Keys)
    /\ MostAtOnce \in [Pool!Keys -> Nat \ {0}]

\* The second run finds items of its own generators in the pool and leaves none
\* there (preprocess and preprocess_wrapper of runtime.py).
PoolFits == Pool!PoolFits
===============================================================================
