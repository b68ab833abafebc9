----------------------------- MODULE ViffReactor -----------------------------
(***************************************************************************)
(* One player on the ViffReactor (viff/reactor.py and the end of class     *)
(* Runtime in viff/runtime.py).  An iteration of the reactor takes in data *)
(* and then, as its loop call, makes the callbacks of the deferred_queue;  *)
(* a callback may call activate_reactor and so start an iteration inside   *)
(* the one that called it.  The functions of schedule_complex_callback     *)
(* wait in a second queue for the loop call of the outermost iteration.    *)
(*                                                                         *)
(* A Deferred here has one callback, all of them were registered before    *)
(* their data arrives or find it in incoming_data (ExpectData), and what   *)
(* the callbacks compute is left out.  The program itself starts inside an *)
(* iteration: Twisted calls it when the last connection is identified.     *)
(***************************************************************************)
EXTENDS Naturals, Sequences, FiniteSets

CONSTANTS
    Deferreds,
    Complex,            \* those that schedule_complex_callback was called on
    Local,              \* those whose data this player sends to itself
    DepthLimit,         \* Runtime.depth_limit
    MaxActivate         \* bound: calls of activate_reactor by one callback

ASSUME ReactorAssumption ==
    /\ Complex \subseteq Deferreds
    /\ Local \subseteq Deferreds
    /\ DepthLimit \in Nat \ {0}
    /\ MaxActivate \in Nat

VARIABLES
    stack,              \* what the player is in the middle of, innermost first
    deferred_queue,
    complex_queue,      \* complex_deferred_queue
    activation_counter,
    depth_counter,
    unreceived,         \* the Deferreds whose data is not there yet
    called,             \* the Deferreds whose function was called
    late                \* history: those whose data came from a function that
                        \* was called by the loop over the complex queue

vars == <<stack, deferred_queue, complex_queue, activation_counter,
          depth_counter, unreceived, called, late>>

\* An iteration is in its select or in one of the two process_queue loops; a
\* function that was called can call activate_reactor some more times.
Iteration(phase) == [in |-> phase, left |-> 0]
Function(kind) == [in |-> kind, left |-> MaxActivate]

Iterations == {"select", "deferred_queue", "complex_queue"}
Frame == [in : Iterations \cup {"simple", "complex"}, left : 0..MaxActivate]

TypeOK ==
    /\ stack \in Seq(Frame)
    /\ deferred_queue \in Seq(Deferreds)
    /\ complex_queue \in Seq(Complex)
    /\ activation_counter \in Nat
    /\ depth_counter \in Nat
    /\ unreceived \subseteq Deferreds
    /\ called \subseteq Deferreds
    /\ late \subseteq Local

Init ==
    /\ stack = <<Function("simple"), Iteration("select")>>
    /\ deferred_queue = <<>>
    /\ complex_queue = <<>>
    /\ activation_counter = 0
    /\ depth_counter = 0
    /\ unreceived = Deferreds
    /\ called = {}
    /\ late = {}

In(phases) == stack # <<>> /\ Head(stack).in \in phases

Phase(phase) == stack' = <<Iteration(phase)>> \o Tail(stack)

\* deferred.callback(data): queue_callback, or the scheduled function itself.
Callback(d) ==
    IF d \in Complex
    THEN /\ complex_queue' = Append(complex_queue, d)
         /\ UNCHANGED <<stack, called>>
    ELSE /\ stack' = <<Function("simple")>> \o stack
         /\ called' = called \cup {d}
         /\ UNCHANGED complex_queue

\* The main loop waits in select, the stack being empty, until something happens
\* on a connection.
MainLoop ==
    /\ stack = <<>>
    /\ stack' = <<Iteration("select")>>
    /\ UNCHANGED <<deferred_queue, complex_queue, activation_counter,
                   depth_counter, unreceived, called, late>>

\* select has found data from another player: stringReceived, handle_deferred_data.
Receive(d) ==
    /\ In({"select"})
    /\ d \in unreceived \ Local
    /\ unreceived' = unreceived \ {d}
    /\ deferred_queue' = Append(deferred_queue, d)
    /\ UNCHANGED <<stack, complex_queue, activation_counter, depth_counter,
                   called, late>>

\* SelectReactor.doIteration returns, process_deferred_queue begins.
LoopCall ==
    /\ In({"select"})
    /\ Phase("deferred_queue")
    /\ UNCHANGED <<deferred_queue, complex_queue, activation_counter,
                   depth_counter, unreceived, called, late>>

ProcessDeferredQueue ==
    /\ In({"deferred_queue"})
    /\ deferred_queue # <<>>
    /\ deferred_queue' = Tail(deferred_queue)
    /\ Callback(Head(deferred_queue))
    /\ UNCHANGED <<activation_counter, depth_counter, unreceived, late>>

ProcessComplexQueue ==
    /\ In({"complex_queue"})
    /\ complex_queue # <<>>
    /\ complex_queue' = Tail(complex_queue)
    /\ stack' = <<Function("complex")>> \o stack
    /\ called' = called \cup {Head(complex_queue)}
    /\ UNCHANGED <<deferred_queue, activation_counter, depth_counter,
                   unreceived, late>>

\* Mutant: the counters are set back after the outermost iteration as well.
LeaveAnyIteration ==
    /\ stack' = Tail(stack)
    /\ depth_counter' = depth_counter - 1
    /\ activation_counter' = 0

\* Mutant: depth_counter is not decremented when doIteration returns.
LeaveWithoutDecrement ==
    /\ stack' = Tail(stack)
    /\ activation_counter' = IF Tail(stack) = <<>> THEN activation_counter ELSE 0
    /\ UNCHANGED depth_counter

\* doIteration returns, to the main loop or to activate_reactor.
LeaveIteration ==
    /\ stack' = Tail(stack)
    /\ IF Tail(stack) = <<>>
       THEN UNCHANGED <<activation_counter, depth_counter>>
       ELSE /\ depth_counter' = depth_counter - 1
            /\ activation_counter' = 0

\* Mutant: the complex queue is processed by every iteration.
ComplexInEveryIteration ==
    /\ \/ /\ In({"deferred_queue"})
          /\ deferred_queue = <<>>
          /\ Phase("complex_queue")
          /\ UNCHANGED <<activation_counter, depth_counter>>
       \/ /\ In({"complex_queue"})
          /\ complex_queue = <<>>
          /\ LeaveIteration
    /\ UNCHANGED <<deferred_queue, complex_queue, unreceived, called, late>>

\* The end of process_deferred_queue.
QueueIsEmpty ==
    /\ \/ /\ In({"deferred_queue"})
          /\ deferred_queue = <<>>
          /\ IF depth_counter = 0
             THEN /\ Phase("complex_queue")
                  /\ UNCHANGED <<activation_counter, depth_counter>>
             ELSE LeaveIteration
       \/ /\ In({"complex_queue"})
          /\ complex_queue = <<>>
          /\ LeaveIteration
    /\ UNCHANGED <<deferred_queue, complex_queue, unreceived, called, late>>

InFunction == In({"simple", "complex"})

\* Mutant: the depth limit may be reached.
ActivateOnceMore ==
    LET counter == activation_counter + 1
        caller == <<[Head(stack) EXCEPT !.left = @ - 1]>> \o Tail(stack) IN
    /\ InFunction
    /\ Head(stack).left > 0
    /\ IF counter >= 2 /\ depth_counter < DepthLimit
       THEN /\ activation_counter' = counter
            /\ depth_counter' = depth_counter + 1
            /\ stack' = <<Iteration("select")>> \o caller
       ELSE /\ activation_counter' = IF counter >= 2 THEN 0 ELSE counter
            /\ stack' = caller
            /\ UNCHANGED depth_counter
    /\ UNCHANGED <<deferred_queue, complex_queue, unreceived, called, late>>

\* Mutant: depth_counter stays incremented when the limit is reached.
ActivateKeepsDepth ==
    LET counter == activation_counter + 1
        caller == <<[Head(stack) EXCEPT !.left = @ - 1]>> \o Tail(stack) IN
    /\ InFunction
    /\ Head(stack).left > 0
    /\ depth_counter' = IF counter >= 2 THEN depth_counter + 1 ELSE depth_counter
    /\ IF counter >= 2 /\ depth_counter + 1 < DepthLimit
       THEN /\ activation_counter' = counter
            /\ stack' = <<Iteration("select")>> \o caller
       ELSE /\ activation_counter' = IF counter >= 2 THEN 0 ELSE counter
            /\ stack' = caller
    /\ UNCHANGED <<deferred_queue, complex_queue, unreceived, called, late>>

\* activate_reactor, up to its call of reactor.doIteration if it makes one.
ActivateReactor ==
    LET counter == activation_counter + 1
        caller == <<[Head(stack) EXCEPT !.left = @ - 1]>> \o Tail(stack) IN
    /\ InFunction
    /\ Head(stack).left > 0
    /\ \/ /\ counter < 2
          /\ activation_counter' = counter
          /\ stack' = caller
          /\ UNCHANGED depth_counter
       \/ /\ counter >= 2
          /\ depth_counter + 1 < DepthLimit
          /\ activation_counter' = counter
          /\ depth_counter' = depth_counter + 1
          /\ stack' = <<Iteration("select")>> \o caller
       \/ /\ counter >= 2
          /\ depth_counter + 1 >= DepthLimit
          /\ activation_counter' = 0
          /\ stack' = caller
          /\ UNCHANGED depth_counter
    /\ UNCHANGED <<deferred_queue, complex_queue, unreceived, called, late>>

\* The iterations on the stack.
Entered == {i \in 1..Len(stack) : stack[i].in \in Iterations}

\* The loop that the running function was called from, whatever functions were
\* called directly in between.
Loop == stack[CHOOSE i \in Entered : \A j \in Entered : i <= j].in

\* SelfShareExchanger.sendData, with a Deferred that waits for the data.
SendToSelf(d) ==
    /\ InFunction
    /\ d \in unreceived \cap Local
    /\ unreceived' = unreceived \ {d}
    /\ deferred_queue' = Append(deferred_queue, d)
    /\ late' = IF Loop = "complex_queue" THEN late \cup {d} ELSE late
    /\ UNCHANGED <<stack, complex_queue, activation_counter, depth_counter,
                   called>>

\* _expect_data_with_pc finds the data there and calls the Deferred at once.
ExpectData(d) ==
    /\ InFunction
    /\ d \in unreceived \ Local
    /\ unreceived' = unreceived \ {d}
    /\ Callback(d)
    /\ UNCHANGED <<deferred_queue, activation_counter, depth_counter, late>>

Return ==
    /\ InFunction
    /\ stack' = Tail(stack)
    /\ UNCHANGED <<deferred_queue, complex_queue, activation_counter,
                   depth_counter, unreceived, called, late>>

Run == LoopCall \/ ProcessDeferredQueue \/ ProcessComplexQueue
          \/ QueueIsEmpty \/ Return

Next ==
    \/ MainLoop \/ Run \/ ActivateReactor
    \/ \E d \in Deferreds : Receive(d) \/ SendToSelf(d) \/ ExpectData(d)

Spec == Init /\ [][Next]_vars

\* The player's only thread goes on as long as it is not blocked in the select
\* of the main loop, and the functions it calls return.
FairSpec == Spec /\ WF_vars(Run)
------------------------------------------------------------------------------
\* Complex functions, which block for long, are not nested: one is called when
\* all others have returned, and never from an iteration inside another.
ComplexNotNested ==
    \A i \in 1..Len(stack) : stack[i].in = "complex" => i = Len(stack) - 1

\* The reactor is never entered so often that Python's recursion limit is hit.
DepthBounded == Cardinality(Entered) <= DepthLimit

\* When the main loop blocks, no callback that could be made is left behind to
\* wait for whatever comes next over the network, perhaps forever.  The exception
\* is data that a function of the complex queue sends to its own player: its
\* Deferreds enter the deferred_queue after the loop over it has ended.
NothingStranded ==
    stack = <<>> =>
        /\ complex_queue = <<>>
        /\ \A i \in 1..Len(deferred_queue) : deferred_queue[i] \in late

\* A Deferred whose data is there gets called, with that exception, however the
\* iterations nest and even if nothing more ever arrives.
EventuallyCalled ==
    \A d \in Deferreds : (d \notin unreceived \cup late) ~> (d \in called)
==============================================================================
