--------------------------- MODULE ProgramCounters ---------------------------
(***************************************************************************)
(* How the players of a computation agree, without talking about it, on    *)
(* the label of every exchange (viff/runtime.py).  All players run the     *)
(* same program, but the callbacks in it are called when data happens to   *)
(* arrive: in another order at each player and, since activate_reactor     *)
(* enters the reactor from inside a callback, one inside another.  The     *)
(* program counter is saved, forked and restored around them so that the   *)
(* label of an operation depends on its place in the program only.         *)
(*                                                                         *)
(* A program is a tree of bodies, each a sequence of operations:           *)
(*   exchange   increment_pc, then send a share to the other players and   *)
(*              expect one from each of them under the program counter     *)
(*              (synchronize, mul, open, ...)                              *)
(*   schedule   schedule_callback on the result of an earlier exchange     *)
(*   fork       a call of a method with the preprocess decorator, which    *)
(*              runs in a fork of the program counter                      *)
(*   activate   activate_reactor                                           *)
(* An operation is named by its body and its position there.               *)
(***************************************************************************)
EXTENDS Naturals, Sequences, FiniteSets

CONSTANTS
    Players,
    Bodies,             \* names of the bodies of the program
    Main,               \* the body that runs first
    Code,               \* Code[b]: the operations of b
    ComputationId,      \* first element of every program counter
    DepthLimit          \* how deep activate_reactor may nest

Operations == UNION {{<<b, i>> : i \in DOMAIN Code[b]} : b \in Bodies}

Operation == [do : {"exchange"}]
        \cup [do : {"schedule"}, on : Bodies \X Nat, body : Bodies]
        \cup [do : {"fork"}, body : Bodies]
        \cup [do : {"activate"}]

ASSUME ProgramAssumption ==
    /\ Main \in Bodies
    /\ Code \in [Bodies -> Seq(Operation)]
    /\ ComputationId \in Nat
    /\ DepthLimit \in Nat

\* A body stands for one place of the program where a function is called: it is
\* called by no other operation than that one, and the main body by none.
Calls(o, b) ==
    LET op == Code[o[1]][o[2]] IN op.do \in {"schedule", "fork"} /\ op.body = b

ASSUME TreeAssumption ==
    /\ \A o \in Operations : ~ Calls(o, Main)
    /\ \A o, r \in Operations, b \in Bodies : Calls(o, b) /\ Calls(r, b) => o = r

VARIABLES
    program_counter,    \* Runtime.program_counter of each player
    agenda,             \* agenda[p]: what p has begun, innermost first
    callbacks,          \* callbacks[p][o]: callbacks on the result of o
    label,              \* label[p]: from the exchanges begun to their labels
    fired               \* fired[p]: exchanges whose result p has

vars == <<program_counter, agenda, callbacks, label, fired>>

\* A body that is running, at operation at, and how to leave it; or a callback
\* that is to be called, with its saved_pc.
Running(b, at, leave, pc) ==
    [body |-> b, at |-> at, leave |-> leave, pc |-> pc]
ToCall(b, saved_pc) == Running(b, 0, "call", saved_pc)

Label == Seq(Nat)
Entry == [body : Bodies, at : Nat, pc : Label,
          leave : {"call", "restore", "unfork", "stay"}]

TypeOK ==
    /\ program_counter \in [Players -> Label]
    /\ agenda \in [Players -> Seq(Entry)]
    /\ callbacks \in [Players -> [Operations -> Seq(Entry)]]
    /\ \A p \in Players :
          /\ DOMAIN label[p] \subseteq Operations
          /\ \A o \in DOMAIN label[p] : label[p][o] \in Label
          /\ fired[p] \subseteq DOMAIN label[p]

Init ==
    /\ program_counter = [p \in Players |-> <<ComputationId, 0>>]
    /\ agenda = [p \in Players |->
                    <<Running(Main, 1, "stay", <<ComputationId, 0>>)>>]
    /\ callbacks = [p \in Players |-> [o \in Operations |-> <<>>]]
    /\ label = [p \in Players |-> <<>>]
    /\ fired = [p \in Players |-> {}]

\* Mutant: a fork counts from -1, so that the first operation in it has 0.
ForkBelowZero(pc) == Append(pc, 0 - 1)

\* Runtime.increment_pc, fork_pc and unfork_pc
Increment(pc) == [pc EXCEPT ![Len(pc)] = @ + 1]
Fork(pc) == Append(pc, 0)
Unfork(pc) == SubSeq(pc, 1, Len(pc) - 1)

Top(p) == Head(agenda[p])

\* p is about to do operation op.
At(p, op) ==
    /\ agenda[p] # <<>>
    /\ Top(p).leave # "call"
    /\ Top(p).at <= Len(Code[Top(p).body])
    /\ Code[Top(p).body][Top(p).at].do = op

Here(p) == <<Top(p).body, Top(p).at>>
Current(p) == Code[Top(p).body][Top(p).at]

\* The agenda of p after its current operation, entries in front of the rest.
Advance(p, entries) ==
    agenda' = [agenda EXCEPT ![p] =
                  entries \o <<[Top(p) EXCEPT !.at = @ + 1]>> \o Tail(@)]

\* The others have sent their shares under pc.
OthersSent(p, pc) ==
    \A q \in Players \ {p} : \E r \in DOMAIN label[q] : label[q][r] = pc

\* What has been sent may be there already: then the Deferreds that are to get it
\* are called in the exchange, whose result has no callbacks yet.
Exchange(p) ==
    LET pc == Increment(program_counter[p]) IN
    /\ At(p, "exchange")
    /\ program_counter' = [program_counter EXCEPT ![p] = pc]
    /\ label' = [label EXCEPT ![p] = [o \in DOMAIN @ \cup {Here(p)} |->
                                         IF o = Here(p) THEN pc ELSE @[o]]]
    /\ Advance(p, <<>>)
    /\ \/ UNCHANGED fired
       \/ /\ OthersSent(p, pc)
          /\ fired' = [fired EXCEPT ![p] = @ \cup {Here(p)}]
    /\ UNCHANGED callbacks

\* Mutant: the program counter is saved without increment_pc.
ScheduleWithoutIncrement(p) ==
    LET callback == ToCall(Current(p).body, program_counter[p]) IN
    /\ At(p, "schedule")
    /\ \/ /\ Current(p).on \in fired[p]
          /\ Advance(p, <<callback>>)
          /\ UNCHANGED callbacks
       \/ /\ Current(p).on \notin fired[p]
          /\ callbacks' = [callbacks EXCEPT ![p][Current(p).on] =
                              Append(@, callback)]
          /\ Advance(p, <<>>)
    /\ UNCHANGED <<program_counter, label, fired>>

\* Mutant: a Deferred that has fired is taken for one that has not.
ScheduleTooLate(p) ==
    LET pc == Increment(program_counter[p])
        callback == ToCall(Current(p).body, pc) IN
    /\ At(p, "schedule")
    /\ program_counter' = [program_counter EXCEPT ![p] = pc]
    /\ callbacks' = [callbacks EXCEPT ![p][Current(p).on] = Append(@, callback)]
    /\ Advance(p, <<>>)
    /\ UNCHANGED <<label, fired>>

\* schedule_callback; addCallback calls the callback at once if the Deferred has
\* fired already.
Schedule(p) ==
    LET pc == Increment(program_counter[p])
        callback == ToCall(Current(p).body, pc) IN
    /\ At(p, "schedule")
    /\ program_counter' = [program_counter EXCEPT ![p] = pc]
    /\ \/ /\ Current(p).on \in fired[p]
          /\ Advance(p, <<callback>>)
          /\ UNCHANGED callbacks
       \/ /\ Current(p).on \notin fired[p]
          /\ callbacks' = [callbacks EXCEPT ![p][Current(p).on] =
                              Append(@, callback)]
          /\ Advance(p, <<>>)
    /\ UNCHANGED <<label, fired>>

\* callback_wrapper, up to the call of the function it wraps.
Call(p) ==
    /\ agenda[p] # <<>>
    /\ Top(p).leave = "call"
    /\ program_counter' = [program_counter EXCEPT ![p] = Fork(Top(p).pc)]
    /\ agenda' = [agenda EXCEPT ![p] =
          <<Running(Top(p).body, 1, "restore", program_counter[p])>> \o Tail(@)]
    /\ UNCHANGED <<callbacks, label, fired>>

\* preprocess_wrapper without data in the pool, up to the call of the method.
ForkCall(p) ==
    LET pc == Increment(program_counter[p]) IN
    /\ At(p, "fork")
    /\ program_counter' = [program_counter EXCEPT ![p] = Fork(pc)]
    /\ Advance(p, <<Running(Current(p).body, 1, "unfork", pc)>>)
    /\ UNCHANGED <<callbacks, label, fired>>

\* Mutant: callback_wrapper only leaves its fork when it returns.
LeaveFork(p) ==
    /\ agenda[p] # <<>>
    /\ Top(p).leave # "call"
    /\ Top(p).at > Len(Code[Top(p).body])
    /\ program_counter' = [program_counter EXCEPT ![p] =
                              IF Top(p).leave = "stay" THEN @ ELSE Unfork(@)]
    /\ agenda' = [agenda EXCEPT ![p] = Tail(@)]
    /\ UNCHANGED <<callbacks, label, fired>>

\* A body ends: a callback's current_pc is put back, a fork is left, and the main
\* body leaves the program counter as it is.
Leave(p) ==
    /\ agenda[p] # <<>>
    /\ Top(p).leave # "call"
    /\ Top(p).at > Len(Code[Top(p).body])
    /\ program_counter' = [program_counter EXCEPT ![p] =
                              CASE Top(p).leave = "unfork" -> Unfork(@)
                                [] Top(p).leave = "restore" -> Top(p).pc
                                [] OTHER -> @]
    /\ agenda' = [agenda EXCEPT ![p] = Tail(@)]
    /\ UNCHANGED <<callbacks, label, fired>>

Nesting(p) ==
    LET inside(e) == /\ e.leave # "call"
                     /\ e.at <= Len(Code[e.body])
                     /\ Code[e.body][e.at].do = "activate" IN
    Len(SelectSeq(agenda[p], inside))

\* activate_reactor returns, or does nothing.
Deactivate(p) ==
    /\ At(p, "activate")
    /\ Advance(p, <<>>)
    /\ UNCHANGED <<program_counter, callbacks, label, fired>>

\* The reactor, from its main loop or from activate_reactor, finds the last share
\* that the result of exchange o waits for and makes its callbacks.
Fire(p, o) ==
    /\ agenda[p] = <<>> \/ (At(p, "activate") /\ Nesting(p) <= DepthLimit)
    /\ o \in DOMAIN label[p] \ fired[p]
    /\ OthersSent(p, label[p][o])
    /\ fired' = [fired EXCEPT ![p] = @ \cup {o}]
    /\ agenda' = [agenda EXCEPT ![p] = callbacks[p][o] \o @]
    /\ callbacks' = [callbacks EXCEPT ![p][o] = <<>>]
    /\ UNCHANGED <<program_counter, label>>

Step(p) ==
    \/ Exchange(p) \/ Schedule(p) \/ Call(p) \/ ForkCall(p) \/ Leave(p)
    \/ Deactivate(p)
    \/ \E o \in Operations : Fire(p, o)

Next == \E p \in Players : Step(p)

Spec == Init /\ [][Next]_vars

\* The reactor keeps running, at every player.
FairSpec == Spec /\ \A p \in Players : WF_vars(Step(p))
------------------------------------------------------------------------------
\* A share reaches the operation that it was sent for: two exchanges, of the same
\* player or of two, have the same label exactly if they are the same operation
\* of the program, whatever the order and nesting in which the players came to
\* them.
SharesMeet ==
    \A p, q \in Players : \A o \in DOMAIN label[p], r \in DOMAIN label[q] :
        label[p][o] = label[q][r] <=> o = r

\* The number of operations of a body that increment the program counter.
Increments(b) == Cardinality({i \in DOMAIN Code[b] : Code[b][i].do # "activate"})

\* However callbacks are nested, the program counter is back where the main body
\* left it whenever the player waits for data.
PCRestored ==
    \A p \in Players : agenda[p] = <<>> =>
        program_counter[p] = <<ComputationId, Increments(Main)>>

\* The program runs to its end at every player: nobody waits for a share that
\* was sent under another label.
Completes ==
    <>\A p \in Players :
        /\ agenda[p] = <<>>
        /\ fired[p] = {o \in Operations : Code[o[1]][o[2]].do = "exchange"}
==============================================================================
