----------------------------- MODULE Preprocessing -----------------------------
(***************************************************************************)
(* The pool of preprocessed data (viff/runtime.py, preprocess): what one    *)
(* run of a program has needed, each item with the program counter it was   *)
(* needed at, is generated before the next run and taken from the pool at   *)
(* the same program counters.                                               *)
(*                                                                          *)
(* The program is a sequence of calls of methods with the decorator, each   *)
(* with a key, the generator and its arguments.  Program counters are       *)
(* counted at the level of the program only: every call takes one, and so   *)
(* does every generator that preprocess calls.  The second run starts from  *)
(* the program counter of the first, as apps/benchutil.py does, if Reset.   *)
(***************************************************************************)
EXTENDS Integers, Sequences, FiniteSets

CONSTANTS Calls, Reset, MostAtOnce

\* MostAtOnce[key] is how many items the generator returns at most, at least 1:
\* with a generator that returns none preprocess does not end.
Keys == {Calls[i] : i \in DOMAIN Calls}

VARIABLES pc,      \* the program counter
          phase,   \* "record", "preprocess" and "use"
          at,      \* the call the program comes to next
          needed,  \* for each key the program counters, in order
          waiting, \* batches of items that are not yet there
          pool,    \* for program counters the key of the item
          got      \* for each call of this run the key of its item and
                   \* whether it is from the pool

vars == <<pc, phase, at, needed, waiting, pool, got>>

Init ==
    /\ pc = 0
    /\ phase = "record"
    /\ at = 1
    /\ needed = [key \in Keys |-> <<>>]
    /\ waiting = {}
    /\ pool = <<>>
    /\ got = <<>>

\* Mutant: an item that is used stays in the pool.
Kept(items, counter) == items

\* self._pool.pop(pc)
Popped(items, counter) == [c \in DOMAIN items \ {counter} |-> items[c]]

\* preprocess_wrapper, for the program's next call.
Call ==
    /\ phase \in {"record", "use"}
    /\ at \in DOMAIN Calls
    /\ at' = at + 1
    /\ pc' = pc + 1
    /\ IF pc' \in DOMAIN pool
       THEN /\ got' = Append(got, [key |-> pool[pc'], pooled |-> TRUE])
            /\ pool' = Popped(pool, pc')
            /\ UNCHANGED needed
       ELSE /\ got' = Append(got, [key |-> Calls[at], pooled |-> FALSE])
            /\ needed' = [needed EXCEPT ![Calls[at]] = Append(@, pc')]
            /\ UNCHANGED pool
    /\ UNCHANGED <<phase, waiting>>

\* The program has made its calls and its record is handed to preprocess.
Preprocess ==
    /\ phase = "record"
    /\ at > Len(Calls)
    /\ phase' = "preprocess"
    /\ UNCHANGED <<pc, at, needed, waiting, pool, got>>

\* del program_counters[:len(results)]
Rest(pcs, quantity) == SubSeq(pcs, quantity + 1, Len(pcs))

\* A round of the loop: the generator has returned quantity results.  The loop
\* takes the generators in the order of a dictionary, which is any order; their
\* rounds do not depend on each other.
Generate(key) ==
    /\ phase = "preprocess"
    /\ needed[key] # <<>>
    /\ LET pcs == needed[key]
           quantity == IF Len(pcs) < MostAtOnce[key] THEN Len(pcs) ELSE MostAtOnce[key]
       IN  /\ waiting' = waiting \cup {[key |-> key, pcs |-> SubSeq(pcs, 1, quantity)]}
           /\ needed' = [needed EXCEPT ![key] = Rest(pcs, quantity)]
    /\ UNCHANGED <<pc, phase, at, pool, got>>

\* update, when all results of a batch are there.
Update(batch) ==
    /\ waiting' = waiting \ {batch}
    /\ LET pcs == {batch.pcs[i] : i \in DOMAIN batch.pcs}
       IN  pool' = [c \in DOMAIN pool \cup pcs |->
                       IF c \in pcs THEN batch.key ELSE pool[c]]
    /\ UNCHANGED <<pc, phase, at, needed, got>>

\* What preprocess returns fires when everything is there, and the program runs
\* again.
UsePool ==
    /\ phase = "preprocess"
    /\ \A key \in Keys : needed[key] = <<>>
    /\ waiting = {}
    /\ phase' = "use"
    /\ pc' = IF Reset THEN 0 ELSE pc + Cardinality(Keys)
    /\ at' = 1
    /\ got' = <<>>
    /\ UNCHANGED <<needed, waiting, pool>>

Next ==
    \/ Call \/ Preprocess \/ UsePool
    \/ \E key \in Keys : Generate(key)
    \/ \E batch \in waiting : Update(batch)

Spec == Init /\ [][Next]_vars

-----------------------------------------------------------------------------
\* The second run of a program finds for each of its calls an item that its own
\* generator has made, and leaves nothing in the pool (preprocess and
\* preprocess_wrapper of runtime.py).
PoolFits ==
    phase = "use" =>
        /\ \A i \in DOMAIN got : got[i] = [key |-> Calls[i], pooled |-> TRUE]
        /\ at > Len(Calls) => DOMAIN pool = {}
==============================================================================
