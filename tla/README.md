# VIFF in TLA+

VIFF (Virtual Ideal Functionality Framework) is a Python library for secure
multi-party computation on top of Twisted. Each player runs the same program;
an operation on secret shares returns a Deferred, and its callbacks run when the
other players' data arrives. This directory specifies the parts of VIFF on which
every protocol depends and the protocols themselves, down to the arithmetic of the
fields; it model-checks them with TLC on small instances. With TLAPS it proves, for
every value of the constants, that the core and the passive runtime are correct, that
openings of the BeDOZa runtime are right or refused, that the preprocessing pool fits,
and that pseudo-random sharing, the triples of the active and the BeDOZa runtime and the
multiplication with them, and the comparison of 2007 compute what they should.

* [The system](#the-system): parts, state, interactions, what is hard.
* [The modules](#the-modules): how each corresponds to the code.
* [The runs](#the-runs): what is checked, bounds, fairness.
* [The proofs](#the-proofs)
* [Where code and documentation differ](#where-code-and-documentation-differ)
* [What is not modelled](#what-is-not-modelled)
* [Plan](#plan)

## The system

All paths are relative to `src/viff/`.

| Part | State | Operations | Correct if |
|---|---|---|---|
| **Share exchange**: `ShareExchanger`, `SelfShareExchanger`, `Runtime._expect_data` (`runtime.py`) | per connection two dictionaries of deques, `incoming_data` and `waiting_deferreds`, keyed by (program counter, data type) | `sendData`, `stringReceived`, `_expect_data`, `handle_deferred_data` | the n-th piece of data under a label reaches the n-th Deferred, once, whichever came first |
| **Program counters** (`runtime.py`) | `program_counter`, a list of integers; the counters saved in scheduled callbacks | `increment_pc`, `fork_pc`, `unfork_pc`, `schedule_callback`, `@increment_pc`, `preprocess` | all players label the same operation the same, and different ones differently |
| **Reactor** (`reactor.py`, end of `Runtime`) | `deferred_queue`, `complex_deferred_queue`, `activation_counter`, `depth_counter` | `doIteration`, `process_deferred_queue`, `activate_reactor`, `schedule_complex_callback` | every callback that is due is made; the nesting is bounded; complex callbacks never nest |
| **Bracha broadcast** (`active.py`) | per call `bracha_echo`, `bracha_ready`, `bracha_sent_ready`, `bracha_delivered` | `broadcast`, `_broadcast` with `send/echo/ready_received` | agreement, validity, totality with t < n/3 faulty players |
| **Hash broadcast** (`hash_broadcast.py`) | per call the Deferreds of the message and the hashes | `broadcast`, `_send_message`, `_receive_broadcast` | a receiver returns only what all receivers got |
| **Connections** (`runtime.py`) | `protocols`, `needed_protocols`, `lost_connection` of each protocol, port | `identify_peer`, `create_runtime`, `synchronize`, `shutdown`, `abort` | the program starts once all are connected; nobody closes a connection others need |
| **Shares and opening**: `Share`, `ShareList`, `gather_shares` (`runtime.py`), `PassiveRuntime.open` | `missing_shares`, `results` | `_callback_fired`, as callback and as errback of each share | called once, at the threshold, with enough good shares |
| **Preprocessing pool** (`runtime.py`, `active.py`) | `_pool`, `_needed_data` | `preprocess`, `@preprocess` | every label of the program finds its own data, equal at all players |
| **Passive runtime**: `passive.py`, `shamir.py` | per operation a Deferred, with the shares it waits for | `shamir_share`, `add`, `mul`, `open`, `prss_share*` | the shares of a result lie on one polynomial; what is opened is the result on the secrets |
| **Active runtime** (`active.py`) | `_hyper` | `single_share_random`, `double_share_random`, `generate_triples`, `mul` | triples are triples, and a wrong dealer is noticed (it is not by all: see the runs) |
| **Algorithms**: `field.py`, `matrix.py`, `prss.py`, `comparison.py`, `equality.py`, `aes.py`, `montgomery_exponentiation.py` | none that lasts (tables, caches of recombination vectors) | the functions of these names | they compute what they are called after |
| **BeDOZa runtime** (`bedoza/`, `simplearithmetic.py`) | Share objects with value, MACs and a *list of keys*, which several may refer to | `plus`, `minus`, `cmul`, with a public number in place; `open*`; triples | a value that was changed on its way is refused |
| **Orlandi runtime** (`orlandi.py`) | the same with commitments | the same; `triple_gen`, `triple_test`, `random_triple` | the same; candidates are tested or used, each once |
| **Paillier runtime** (`paillier.py`) | keys | `share`, `mul`, `open` | the two numbers add up |
| **Utilities, configuration, applications** | none shared between players (the keys that `generate_configs` hands out are) | | `t` players lack a key |

**How they interact.** A program calls an operation of its runtime. The
operation increments the program counter, sends data under it (`sendData`, one
per peer) and asks for the peers' data under the same counter (`_expect_data`).
Strings that arrive go through `stringReceived` to a waiting Deferred or to
`incoming_data`. With the `ViffReactor` the Deferred is not called there but
queued, and the reactor's loop call empties the queue; a callback may call
`activate_reactor`, which runs one more iteration of the reactor *inside* the
callback. Callbacks were registered with `schedule_callback`, which saves a
program counter for them and restores the caller's when they return. The
broadcasts are programs on top of this: each of their messages is a
`sendData`/`_expect_data` pair. The runtimes are, too: an operation on shares waits for
its operands (`gather_shares`), computes locally, and if it has to send shares does
so in a callback; protocols such as comparison are programs of these operations.

**What is hard.** One thread, but no operation is safe from interleaving: a
callback may run in the middle of `addCallback`, of `stringReceived` or of
another callback; players reach the operations of one program in different
orders; data comes before or after it is expected; faulty players (in the
broadcasts) say different things to different players. Nothing is persisted, so
there is no recovery from a crash, and nothing is retried: TCP delivers each
player's strings once and in order, or the connection is gone. `PROJECT.json`
lists the hazards, each at its line, with the properties that cover it.

## The modules

Definitions named `... Mutant` in a comment are not part of a specification:
each is a slip that one could make in the definition it stands before (an entry
deleted too early, a missing increment, `pop` for `popleft`). Each property below
was seen to fail when one of them takes the definition's place, so none holds
merely because of how the model is built.

### ShareExchanger, LabelledChannel

`LabelledChannel` is the abstract specification: what a program may count on. It
knows how much was sent and expected under each (peer, label), and which
Deferreds were called; the n-th Deferred gets the n-th data, and everything that
has both is eventually called.

`ShareExchanger` is the code of one player: `wire` is the TCP stream from each
peer, `incoming_data` and `waiting_deferreds` are the dictionaries of the
protocol objects, `deferred_queue` is the runtime's.

| Action | Code (`runtime.py`) |
|---|---|
| `SendData` | `ShareExchanger.sendData` at a peer, 346-377 |
| `Receive`, `StringReceived` | `stringReceived`, 295-344, called by Twisted |
| `SendDataToSelf` | `SelfShareExchanger.sendData`: `stringReceived` at once, 383-414 |
| `ExpectData` | `_expect_data_with_pc`, 773-792 |
| `HandleDeferredData` | `handle_deferred_data`, 896-903 |
| `ProcessDeferredQueue` | one turn of `process_queue`, 916-921 |

A data element is its rank among those of its label, so that a property can say
which one arrived where. `using_viff_reactor` is chosen in `Init`: one run covers
both reactors. What a callback does is not part of the action that calls it: in
the code the call of the callback is the last thing that each operation does to
the exchangers' state, so what happens in it can be further actions. The
histories `sent`, `received`, `expected` and `fired` are what the abstract channel
consists of; they guard nothing but the bounds.

### ProgramCounters

All players run one program, given by the constant `Code`: a tree of bodies with
the operations `exchange`, `schedule`, `fork` and `activate`. `agenda[p]` is the
Python stack of player p together with the callbacks that a firing Deferred is
about to call; `callbacks` are those registered on Deferreds that have not fired.
`Increment`, `Fork`, `Unfork` are the three methods of the same names, `Schedule`
is `schedule_callback` with the immediate call of `addCallback` on a fired
Deferred, `Call` and `Leave` are the two halves of `callback_wrapper`, `ForkCall`
is `preprocess_wrapper` with an empty pool. An exchange fires at p when each player has
labelled *some* exchange with p's label (`OthersSent`);
that this is the same exchange of the program is what `SharesMeet` says, and
nothing in the guards presupposes it. It may do so at once, in the middle of the body
that calls it: `Exchange` finds the shares of the others in `incoming_data`
(`_expect_data_with_pc` calls the Deferred there), or they are still on their way. Then `Fire(p, o)`
is the reactor finding the last of them, in its main loop or inside `activate_reactor`. A body stands for one place of the program at
which a function is called (`TreeAssumption`): a function that is called in two places
is two bodies with the same operations.

### ViffReactor

One player's stack of nested reactor iterations and callbacks. A frame is an
iteration (in its `select`, or in the loop over one of the queues) or a function
that was called. `LoopCall`, `ProcessDeferredQueue`, `ProcessComplexQueue`,
`QueueIsEmpty` and `LeaveIteration` are `doIteration` and
`process_deferred_queue`; `ActivateReactor` has the three outcomes of
`activate_reactor` (too early, an iteration, depth limit). `SendToSelf` and
`ExpectData` are the two ways in which a function makes a Deferred ready without
the network. The history `late` marks data that was sent to oneself from inside
the loop over the complex queue.

### BrachaBroadcast, ReliableBroadcast

`ReliableBroadcast` is what callers of `broadcast` are promised. `BrachaBroadcast`
is one call of `_broadcast` by every player. `bracha_echo` and `bracha_ready` are
the code's dictionaries from messages to player ids; `readied` and `delivered` stand
for `bracha_sent_ready` and `bracha_delivered`, as sequences in the order of the
sends and of the calls of `result.callback`, so that a second one would be seen. Faulty players have no state: `ReceiveEcho(p, q, m)` with
a faulty q may happen for any m, once per p and q, because p registers one Deferred
for each peer. A correct player's message can be received at any time after it was
sent, since it waits in `incoming_data` if it must.

`unsafe_broadcast` calls `activate_reactor` between sending a message and counting
it for the sender itself. Where the player uses the `ViffReactor`, other messages
are handled in between: `stack[p]` holds the interrupted calls, `Receptive` says
when a message can come in, and `Return` is what the call does when it goes on.
`DepthLimit[p] = 0` is a player on another reactor.

`EchoQuorum` is `ceil((n+t+1)/2)` as Python 2 computes it: the division rounds down
first.

### HashBroadcast

One sender's part of `broadcast`. The faulty players are chosen in `Init`; the
receivers are a *list*, since `_receive_broadcast` loops over it and (line 62)
begins a new list of Deferreds in each turn, which leaves the last one: `Compared`.
`Combine` is `combine`, called when the message and the awaited hash are there. A
message stands for its hash, i.e. SHA-1 is assumed free of collisions.

### Connections

The whole life of a computation, around the smallest program there is: it opens one
value and waits for it (`wait_for`).

| Action | Code (`runtime.py`) |
|---|---|
| `Listen` | `create_runtime`, 1047-1125; a connection that is refused is asked for again, by `ReconnectingClientFactory` |
| `Connect`, `Accept` | the two ends of a connection, `connectionMade`, 288-289; the smaller id connects (1115-1118) |
| `IdentifyPeer` | first string, 305-320, and `identify_peer`, 457-461; the last one calls the program synchronously |
| `ReceiveData` | every other string, 321-344; `data` stands for the exchangers' buffers |
| `Shutdown` | the callback of `wait_for`: `shutdown` with its `synchronize`, 646-693 |
| `CloseConnections` | `close_connections`, 654-661 |
| `LoseConnection`, `ConnectionLost` | the end of a connection at the player that closes it and at the other, 291-293 |
| `StopReactor` | `stop_reactor`, 663-672 |
| `SendBad`, `Abort` | a string that `struct.unpack` rejects, and `abort`, 674-685 |

`IdentifyPeer` starts the program inside the handler, so that when enough shares have
come before the last id, the player shuts down in the same step. `ReceiveData` does not
make callbacks: the `ViffReactor` queues them, and `Shutdown` and `CloseConnections`
are what the queue makes. `AfterClose` is TCP's rule that a close with unread data
resets the connection; `connectionLost` traps `ConnectionDone` only, so a reset leaves
the link `"broken"` and its `lost_connection` uncalled.

### Programs, IdealComputation, PassiveRuntime

`Programs` says what a straight-line program of operations on shares is, and what it
computes on plain numbers (`IsProgram`: the operands of an operation are results of
earlier ones, and not of an `open`, whose result is no sharing). `IdealComputation` is
the abstract specification of a runtime: a trusted party answers each `open` with
`Result`, a parameter for what the program computes, and says which answers are possible if
shares of some players cannot be read. `Safety` is its part without the promise to answer.

`PassiveRuntime` is the program as n players run it. `share[p][k]` is what the Deferred
of operation k has at p, `arrived[p][k]` the shares that have come for it by sender,
`network` what is on its way. Labels and buffers are those of `ProgramCounters` and
`ShareExchanger`: here a share is delivered under the number of its operation, in any
order, to a player that has called the operation. One step is what the arrival of a share
sets off: `Settled` makes all callbacks that can be made.

| Definition | Code |
|---|---|
| `Start` | the calls of the program, with `shamir_share`, `passive.py` 495-559 |
| `Receive`, `Fired`, `Gather` | a share and the callbacks it fires; `gather_shares`, `runtime.py` |
| `RecombineProduct` | `mul`: the shares of the players 1 to 2t+1, whichever come first |
| `Clone` | `Share.clone`, `runtime.py` 164-176, on which `open` and the operations with a number wait |
| `RecombineGood`, `RecombineOpened` | `ShareList` with its threshold, `filter_good_shares` and `recombine` of `open` |
| `Outgoing`, `Messages` | what the callbacks send |

`DegreeAssumption` is what a program must observe for VIFF to compute anything: the
degrees of the factors of a `mul` add up to at most 2t, and an `open` has a threshold of
at least the degree of what it opens. It is the caller's duty in the code as well.

A share that `field(...)` rejects makes its Deferred fail (`Failed`): `garbled` says which
players' shares of which operations are like that. Shares that can be read are right: the
runtime is passive. What an operation does with an operand that failed depends on how it
waits for it: `gather_shares` hands the failure on, and its callback fails (`Gather`); a `clone`
has no errback and never fires, so that an `open` of a failed operand, a sum or a
product with a number of it stay without a result for ever (`Clone`).

Shares that arrive before their operation is called, or before the operand of an `open` is there, wait
in `incoming_data`. Their Deferreds are called when they are registered, with either reactor, so that
`ShareList` has all of them in its list of results when `recombine` looks at it, also more than the
threshold (`RecombineOpened`).

### Fields, Matrices, Montgomery, Sharing, Triples, Comparison, Rijndael

Functions, over real fields: GF(p) and GF256 with its tables (`Fields`), matrices with
`hyper`, exponentiation with Montgomery's reduction, Shamir and pseudo-random sharing
with the keys of the configuration, both generators of triples, both comparisons with
the equality test, and Rijndael. Definitions have the names of the functions of the
code, in camel case. Where the code draws a random number, the number is a parameter; where
it opens a number, a definition uses the opened one. `Rijndael` works on the bytes that are
shared and advances by a round at a time.

### SimpleArithmetic, Bedoza, BedozaTriples

`Bedoza` is the part of the runtime in which order matters. Each player runs the program at
its own pace. A register refers to a Share object (`Object`); its contents are a number, MACs
and a reference to a list of keys, since `add_public` changes the list in place
(`ComputePublic`) and an opening holds on to the list that the share had when it was sent
(`Open`). `RecombineValue` checks the MACs with what is in that list by then, and `Finish` folds
the verdicts the way `reduce(lambda x, y: true_str == y, ls)` does: only the last counts.
`BedozaAssumption` says what a program (`Operation`) is, and `IsField` what is used of the
field: TLC evaluates it for the instance, and `PrimeFieldsAreFields` proves it for all primes.
`BedozaTriples` has the generation of shares, MACs and triples as functions, `SimpleArithmetic` the
multiplication that the two runtimes share.

### Orlandi, Paillier

`Orlandi`: shares with commitments (the module `commitment` is not in the repository, and a
commitment here is what it commits to), opening, `leak_tolerant_mul`, `triple_gen`, `triple_test` and the
steps of `random_triple`. `Paillier`: both variants of the cipher on small real numbers,
the runtime for two players, and the conditions of the zero-knowledge proof. `VerifyProof` ends in
an exception if a number of the proof cannot be encrypted (`CanEncrypt`), and in "True" otherwise,
whether the conditions are satisfied or not.

### Preprocessing

Two runs of one program with `preprocess` in between: `Call` is the decorator's wrapper, which
records a program counter or takes an item from the pool, `Generate` a round of the loop in
`preprocess`, `Update` the arrival of a batch. The generators are called in any order, that
of a dictionary, and `Update` happens in any order.

### ProgramRuns

The two systems that run programs, side by side: `Bedoza` and, as `Pool`, `Preprocessing` with the
counter set back between the runs (`Reset <- TRUE`). `PoolAssumption` says what the calls are and that a generator
returns something.

### MCProtocols

The instance for all modules from `Fields` on: a behaviour is one *job* (an operation, its
inputs and random numbers), a program of `Bedoza`, or two runs with a pool. Each property
compares a job's output with what it ought to be, as a reference definition says it: products of
polynomials for the tables of GF256, test vectors of FIPS-197 for Rijndael, plain comparison,
multiplication and so on.

## The runs

States are distinct states found by TLC.

| Run | Module, configuration | States | Shows |
|---|---|---|---|
| `share_exchanger` | `MCShareExchanger` | 30,844 | both reactors: right data to the right Deferred, once, none lost, in order without the queue; implements `LabelledChannel` with its promise to call back |
| `program_counters` | `MCProgramCounters` | 124,853 | `SharesMeet`, the counter is restored whenever a player is idle, both players finish |
| `viff_reactor` | `ViffReactor` | 46,181 | bounded depth, no nested complex callbacks, no stranded callbacks; no deadlock |
| `bracha_faulty_sender` | `MCBrachaBroadcast` | 574,777 | n=4, t=1, faulty sender, two messages: agreement, one READY, all or none |
| `bracha_correct_sender` | `MCBrachaBroadcast` | 287,395 | a sender whose handlers nest two deep: implements `ReliableBroadcast`, delivery included, and ends only when all or none have a result |
| `bracha_five_players` | `MCBrachaFive` | violation | n=5, t=1: `Agreement` fails |
| `hash_broadcast` | `MCHashBroadcast` | 3,260 | what it does guarantee: all rests on the last receiver |
| `hash_broadcast_unequal` | `MCHashBroadcast` | violation | `UnequalHashAborts` fails |
| `connections` | `Connections` | 559,821 | three players: all connected before one starts, nobody closes too early, all stop |
| `passive_runtime` | `MCPassiveRuntime` | 39,121 | four players compute and open; implements `IdealComputation`, with and without shares that cannot be read |
| `protocols` | `MCProtocols` | 80,573 | the algorithms and protocols compute what they should; BeDOZa openings; the pool |
| `protocols_wrong_dealer` | `MCProtocols` | violation | `ReturnedSharingsCorrect` fails: double sharings of two numbers are returned and nobody objects |

**Properties.** *Share exchange.* `Pairing`: a Deferred gets the data of its rank.
`NeverBothWaiting`: data and Deferreds of one label are never both left over.
`CalledOnce`: no Deferred is called, or queued to be called, twice; no data is
handed out twice. `NothingLost`: what was taken in or registered is in a buffer, in
the queue or called. `FiresInOrder`, an action property: without the `ViffReactor`
the Deferreds of a label fire in order; with it `_expect_data_with_pc` overtakes
the queue, so it is stated for the other reactors only. `ImplementsChannel`: the
refinement.
*Program counters.* `SharesMeet`: two labels are equal exactly if the operations
are the same. `PCRestored`: at an idle player the counter is that of the main body.
`Completes`: all players finish.
*Reactor.* `ComplexNotNested`, `DepthBounded`; `NothingStranded`: when the player
blocks in the main loop's `select`, the queues are empty but for `late`
Deferreds; `EventuallyCalled`, the liveness form.
*Bracha.* `Agreement`, `OneReady` (its key lemma). `NoOneLeftBehind`: in a state in
which all that correct players sent to each other has been received and no handler is
interrupted (`Quiet`), all or no correct players have a result, and all of them have one
if the sender is correct. `NoEarlyEnd`: the system never stops in another state, so that
`Quiet` is where it ends. `ImplementsReliableBroadcast`. The last two are checked with a reentrant
sender: in a handler that another one interrupts, a count must not pass its threshold unseen.
*Hash broadcast.* `LastVouches`: agreement if the last receiver is correct.
`Integrity` and `Delivered`: with a correct sender its message is returned, and only
a faulty last receiver can prevent it.
*Connections.* `ReadyMeansConnected`: when a program runs, all players have come up and
made their ends of the connections. `ClosedLast`: when a player closes, all others have
called `synchronize` and nothing they sent to it is unread. `NoSurprise`: no connection
is reset, and none ends before the player at either end has its value. `AllStop`: all
reactors stop, unless a bad string was sent (then the others wait for the player that
has aborted: `abort` tells nobody).
*Passive runtime.* `SharesMeet`: at all times, whatever shares of an operation the players
have got so far, each set of them that is large enough gives the value that the program
computes. `ImplementsIdeal`: the refinement, with the promise of an answer.
*Protocols.* `FieldsRight`, `SharingsRight` (t shares fit every secret, t+1 give it; sharings of
one number over two fields or with two degrees agree; t players lack a key), `TriplesRight` (c = ab
in three runtimes; a verifier whose own sharing is wrong throws an exception, and none of honest dealers is
refused; candidates are tested or used, each
once), `ProtocolsCompute` (of proofs: who would be refused by the conditions, and when an exception ends the
proof; of comparisons: the result, but for the mask 0); `OpeningsRight`: an opening of BeDOZa succeeds for all or nobody, and does
if nothing was changed; a player that does not get what was sent says so, if a single value is opened;
and who got what was sent has the right value.
`ReturnedSharingsCorrect`, which the code violates: if no honest player throws an exception, the
sharings that they return are of the degree that was asked for, and the double sharings of one number;
`PoolFits`: the second run finds items of its own generators in the pool, and uses them up.

**Bounds, and why they are enough.**

* `ShareExchanger`: one peer and the player itself, a label used twice and one used
  once. Labels and peers do not interact except through `wire` and
  `deferred_queue`, where two of them are enough to get all orders; two pieces of
  data under one label are the least number with an order. The proofs below, of this
  module and of the others, need none of these bounds.
* `ProgramCounters`: two players, six exchanges in five bodies: a callback within a
  callback, two callbacks on different results, a fork in a callback, `activate` in
  the main body, in a callback and in a fork, nested twice (`DepthLimit` = 2). Every
  pair of the mechanisms that save and restore the counter is nested in some
  behaviour.
* `ViffReactor`: five Deferreds, two of them complex and one local; each function
  may call `activate_reactor` twice (`MaxActivate`), the least number that enters
  the reactor (`activation_counter >= 2`), and `DepthLimit` = 3 is reached.
* `BrachaBroadcast`: n = 4, t = 1 is the smallest system. Two messages for a faulty
  sender, so that it can try to split the players. The run on delivery uses one
  message: a second one is only one that a faulty player makes up, and the proofs
  cover that for all sets of messages. Its sender is the one with the `ViffReactor`, since it
  has its own SEND, ECHO and READY to count, and nests two deep. The faulty player sends its READY to two of the three
  correct players at most (`ReadyBound`, a state constraint for the sake of the temporal properties, which cuts off steps
  of the faulty player only; `FairSpec` is not about them); it may
  send its ECHO to all of them.
* `MCBrachaFive` follows only behaviours in which two camps receive different
  messages (`CampsApart`, a state constraint). This can hide no counterexample that
  TLC has found, and a violation is what the run is for.
* `HashBroadcast`: three players, every subset of them faulty.
* `Connections`: three players, threshold 1, one of which may send bad strings: a player
  can have its value from the second player while the third is still coming up, which is
  what the synchronisation is for. Every wire carries what a player ever writes.
* `MCPassiveRuntime`: n = 4, t = 1, the least number with a player that mul does not need
  (2t+1 = 3 pieces are recombined), over GF(5): a multiplication with and an addition of a number, a product
  that is reshared, a linear combination, a product of degree 2t and an `open` with threshold 2t. Unreadable are
  none, the pieces of a player for mul (the operand of the `open` fails), the shares of the input (those
  of the operations with a number fail), one of the opened shares or two (`GarbledSets`).
* `MCProtocols`: fields large enough for what the code asserts (59 and 103 for comparisons of
  three bits, Blum primes for square roots), all 256 bytes where tables or Rijndael are
  concerned, and a few random numbers, some of them extreme, where the space is large. Masks of comparisons
  include 0, and the numbers of a proof include some that the cipher does not take. Every player, or
  none, is the wrong dealer. The BeDOZa
  program opens a share, adds to it in place while the opening is on its way, and opens two
  values at once; three sets of values are changed on the way.
* Symmetry is used in the Bracha runs that check invariants only.

**Fairness, and why the code justifies it.** `ShareExchanger.FairSpec`: the reactor's
main loop polls every connection and runs the loop call after each iteration, so a
string on the wire is eventually received and the queue eventually served. Nothing
is assumed of the program (it may never send or expect again).
`ProgramCounters.FairSpec`: a player that can do something does something.
`ViffReactor.FairSpec`: the thread goes on unless it is blocked in the main loop's
`select`; the network is not assumed to deliver anything, which is why the
`EventuallyCalled` property says something about callbacks that are due already.
`BrachaBroadcast.FairSpec` and `HashBroadcast.FairSpec`: what correct players send to
correct players arrives (TCP, no crash); nothing is assumed of faulty players.

`Connections.FairSpec`: every player is started in the end, refused connections are tried
again until the peer listens, TCP delivers, and reactors run. Nobody has to send bad
strings.

`PassiveRuntime.FairSpec`: all players start and what is sent arrives. It is stated as
`<>(running = Players) /\ []<>(network = {})`, which weak fairness of every `Start` and `Receive`
amounts to, since a program sends only so many shares; said this way it needs no `ENABLED`.

**Deadlock** is checked for the reactor, where the main loop never ends; the other
systems may stop when the program or the broadcast is over.

## The proofs

`tlapm` checks all steps. Nothing is assumed but the named `ASSUME` of each module and the
hypotheses that a theorem states.

| Module | Theorems | For every |
|---|---|---|
| `ShareExchanger_proofs` | `TypeCorrect`, `PairingHolds`, `NeverBothWaitingHolds`, `CalledOnceHolds`, `NothingLostHolds`, `FiresInOrderHolds`, `Implements` | set of peers and labels, number of strings |
| `ProgramCounters_proofs` | `TypeCorrect`, `SharesMeetHolds`, `PCRestoredHolds` | program, number of players, depth limit |
| `ViffReactor_proofs` | `TypeCorrect`, `ComplexNotNestedHolds`, `DepthBoundedHolds`, `NothingStrandedHolds` | set of Deferreds, depth limit, number of `activate_reactor` calls |
| `BrachaBroadcast_proofs` | `TypeCorrect`, `OneReadyHolds`, `AgreementHolds`, `Implements`, `NothingMissed`, `NoOneLeftBehindHolds` | n and t < n/3, faulty players, messages, nesting |
| `HashBroadcast_proofs` | `TypeCorrect`, `LastVouchesHolds`, `IntegrityHolds` | list of receivers, faulty players, messages |
| `Connections_proofs` | `TypeCorrect`, `ReadyMeansConnectedHolds`, `ClosedLastHolds`, `NoSurpriseHolds` | number of players, threshold, players that send bad strings |
| `ProgramRuns_proofs` | `ProgramInvariant`, `OpeningsRightHolds` | program, field, number of players, shares and keys, values changed on their way |
| | `MulByTripleIs`, `ConsistentIf`, `CandidateIsTriple`, `CandidatesPass` | field, number of players, numbers, keys, what is drawn, large enough modulus of the ciphers |
| | `PoolInvariant`, `PoolFitsHolds` | calls, batch sizes, order of generators and of arrivals |
| `PassiveRuntime_proofs`: the runtime | `ShamirRecombines`, `Dealing`, `TypeCorrect`, `SharesAlwaysMeet`, `ImplementsIdealSafely` | program, prime field, n and t, inputs, randomness, unreadable shares, order of arrivals |
| fields and sharing | `PrimeFieldsAreFields`, `VerifySharingAccepts`, `SharesHide` | prime, n and t, shares, coefficients |
| pseudo-random sharing | `PrssShares`, `PrssShareShares`, `PrssMultiShares`, `PrssZeroShares`, `PrssDoubleShares`, `KeysCover`, `PrssHides` | prime, n and t, what the PRFs give |
| triples | `TripleProductShares`, `MulByTripleShares`, `HyperTriplesShare` | prime, n and t, numbers and coefficients of every dealer |
| comparison | `GreaterThanEqual07Compares` | both fields, bit length and security parameter, numbers, random bits, sign and mask |

**ShareExchanger_proofs.** The inductive
invariant has, besides types, four parts. `WireInv`: what a wire carries under a label
is exactly what was sent and not yet received, in order. `BufferInv`: with
`Paired` the smaller of the counts of data received and of Deferreds expected, each
deque holds the ranks of its side from `Paired` + 1 on, ascending. `FiringInv`: the
callbacks made or queued are those of the ranks up to `Paired`, each with its own
data, each once. `SelfInv`: data to oneself is
never on a wire. `Pairing` alone is not inductive: that the head of
`waiting_deferreds` has the rank of the incoming data follows only from all of
these. `Implements` shows by the actions that each
step is a step of `LabelledChannel` or none of its business (its safety part);
`FiresInOrderHolds` adds that without the `ViffReactor` the queue stays empty.

**ProgramCounters_proofs.** `SharesMeet` compares the labels of two players, but nothing in the
state relates two players: each label must say by itself which operation it is of. The
invariant says that the program counter of whatever runs is a counter that belongs to
its place in the program (`Currently`): that of the call of its body, and how often the
body has incremented it. Which counters belong to the calls is a recursive notion over
the tree of bodies; it is stated as the smallest set closed under calls (`Begun`), as the
intersection of all closed sets. So membership is shown by taking any closed set, and uniqueness
by removing an element and showing what is left to be closed (a body is called in one
place: `TreeAssumption`). Two counters of the set that are equal belong to one body, since
a counter has the counter of its call as a prefix, and so two equal labels to one
operation. `PCRestored` needs in addition that whatever is left goes on with the counter
that it was left with, at every depth of the agenda (`Resumes`).

**ViffReactor_proofs.** `Shape`: the last frame of the stack is the main loop's
iteration, which alone enters the complex queue, and only the frame next to it is a
complex function. `DepthInv`: `depth_counter` is the number of iterations on the stack less
one; the counter is a scalar that inner iterations change and restore, and the count is
what makes it more than a bound on itself. `QueueInv`: while the main iteration is in the
complex queue's loop, what is in `deferred_queue` was put there by its functions
(`late`); only with this is `NothingStranded` inductive.

**BrachaBroadcast_proofs.** The argument: what is
counted for a correct player was sent by it (`CountInv`, for which the frames of
interrupted calls must agree with what was sent, `StackInv`); behind each READY of a
correct player is a quorum of ECHOs at some correct player (`ReadiedInv`: t+1 READYs
contain a correct one); two quorums have a correct player in common
(`QuorumsShareCorrect`), which sent one ECHO. This needs
`2 * EchoQuorum > n + |Faulty|`, and so the theorems `OneReadyHolds`,
`AgreementHolds` and `Implements` assume `CannotSplit`: n+t is odd, or fewer than t
players are faulty, or the sender is correct. The run with n = 5, t = 1 shows that the
condition cannot be dropped.

`NoOneLeftBehindHolds` is the totality of the broadcast. The code tests a count of READYs with
`==`, against t+1 and 2t+1, right after it has grown; a count that passed one of these numbers
unseen, in a handler that another one interrupts, would leave the player without a
result. `NothingMissed` says that this does not happen: who has t+1 READYs has sent one, who has 2t+1
has a result, or a call that is on its stack is about to do it (`CompleteInv`), and
what a player sent itself is counted or is on its stack (`OwnInv`). It needs no
`CannotSplit`. In a `Quiet` state the stacks are empty, so that one result means 2t+1 READYs,
t+1 of them of correct players and counted by all, hence the READYs of all, hence all results.

**HashBroadcast_proofs.** `SourceInv`
(what correct players hold was sent by its source) and `ResultInv` (a result is what
the message and the last receiver's hash say) give `LastVouchesHolds` and
`IntegrityHolds`.

**Connections_proofs.** The three properties are about two players at a time; the invariant
is, therefore, a conjunction over players (`PhaseInv`) and over pairs of them (`SentInv`: what one
has written and the other not read, or has, bounds the phase of the writer; `EndInv`: how
a connection can end). `ClosedLast` is inductive only with the order of the strings on
a wire (`Ordered`: the id first, then a share before the string of `synchronize`): that
the last `synchronize` is read means that nothing before it is unread. `NoSurprise` is about
runs without bad strings, and its parts of the invariant have that as a premise.

**ProgramRuns_proofs.** *BeDOZa.* What a player holds depends on nobody else: `Held(p)[k]` is
what it holds when it comes to operation k. `Balanced`, by an induction over the program, says that the
numbers of all players at the same k add up to what the program computes and that each
MAC fits the key that its verifier has for it. This takes the laws of the field (`IsField`) and
sums over the players, which are taken apart one player at a time. The
invariant `IInv` connects this with the system: a player's objects are what it is to
hold (`HoldInv`; the lists of keys that a constant has been added to in place are the difficult case,
since the object and its list no longer belong to one operation), and what was opened,
the verdicts and the results are of these (`OpenInv`, `VerdictInv`, `ResultInv`).
`OpeningsRightHolds` has the hypothesis that no player's key is 0:
`bedoza_triple.py:83` draws it with `randint(0, p - 1)`, and under the key 0 all numbers
have the same MAC, so that a changed value would be accepted.

*Triples of BeDOZa.* `IsSharing` of `Balanced` is what `AddMacs` produces (`AddMacsIs`) and what plus,
minus and multiples preserve, so multiplying by a triple gives a sharing of
x·y + (c - a·b) (`MulByTripleIs`). The test of two candidates opens c1 minus the product
of a1 and b1 by the other, scaled, candidate; with the errors ε = c - a·b this says that
ε1 = r²·ε2 (`ConsistentIf`): a wrong candidate never passes against a right one, and passes
against a wrong one if r is a square root of ε1/ε2, of which there are at most two. That
`FullMul` gives the product (`FullMulIs`) is a sum over a table of masks, by rows for those
who draw them and by columns for those who receive them (`RowsAndColumns`). `CandidateIsTriple` has
`Moduli` as hypothesis, since a plaintext that the cipher reduces is not a product
of the two numbers any more; the code leaves this to a comment ("Generate Paillier cipher with
N_i sufficiently larger than p", `bedoza_triple.py:61`) and compares nothing.

*The pool.* Each counter of the first run is, at any time, among those needed, in one
batch on its way or in the pool (`PreprocessInv`), always under its own generator
(`KeyInv`). That the second run begins at the counter of the first is needed:
without it `PoolFits` is false.

**PassiveRuntime_proofs** is about what the runtime is for. Its theorems have the
hypothesis `PrimeField`: `Field` is a prime. (The model's `Field` may be GF256; that its
tables are a field is checked by `FieldsRight`, not proved.) The proof goes up from the
operators:

1. The integers modulo a prime are a field. That every number has an inverse, and
   that `extended_gcd` finds it, is an induction over the steps of that algorithm.
2. Folds over finite sets do not depend on the order in which `CHOOSE` takes
   the members; so sums and products can be split, and commute.
3. `On(d, v, P)`: the shares P lie on a polynomial of degree at most d with value v at 0, which
   is stated by recursion on the degree. Sums, multiples and products of such P are
   such; `Lagrange`: any d+1 of them recombine to v. With the sharings of the code,
   `ShamirRecombines`.
4. `Dealt`: what operation k of the program deals to each player, when every player
   does its part: a sharing `On` the degree that `Degree` says, of the value that
   `Result` says. For `mul` this is the resharing of a product and the recombination of
   the players' shares of it.
5. The invariant of the system, `IInv`: every share that a player has is the one that was dealt to it, or,
   if something is garbled, what the code makes of fewer (`Allowed`), and every share on
   its way is one that the sender was to send (`Carried`). It has to speak of all
   operations of a player at once, since the arrival of one share settles any number
   of operations (`Settled`).

`SharesAlwaysMeet` follows from 3, 4 and 5, however far apart the players are.
`ImplementsIdealSafely` is the refinement, step by step: what a step settles, an answer
of the trusted party; with garbled shares, a failure or any number where the code recombines
what is left. That induction over data is done inside a module is no contradiction to what
follows: it is written with sets of naturals (`LeastNat`, `Induct`), in which the cases that
hold are collected, so that no theorem with an operator as parameter has to be instantiated.

On top of 1 to 3 the module proves what the protocols between the operations do.

*Sharing.* `VerifySharingAccepts`: `verify_sharing` accepts exactly what `share` deals. Values at d+1
points determine a polynomial (`ValueIsOn`), and a polynomial determines its coefficients
(`CoefficientsDetermined`). `SharesHide` is the converse of `ShamirRecombines`: for what m
players see of a sharing of degree m there is, for every secret, exactly one choice of the
coefficients.

*Pseudo-random sharing.* The polynomial of an unqualified set is 1 at 0 and 0 at the
players outside, which is what makes it unnecessary that they have its key; what the players compute is a sum of multiples of
such polynomials over all keys (`PrssShares`, `PrssShareShares`). `PrssZeroShares` has powers of the player's
number in addition, and is of degree 2t with value 0. `PrssMultiShares` is about the digits into which one
output of a PRF is split, by repeated division. `KeysCover`: t+1 players have all keys
together and t players lack one, by counting; so (`PrssHides`) t players can tell nothing about
the number, since the key that they lack can make it anything.

*Triples.* Both generators, with the numbers that dealers choose as parameters, and
`mul` with a triple: differences, products and linear combinations of sharings, of the degrees
that the code opens them with. In `HyperTriplesShare` all dealers share as the
protocol says; then nobody refuses, and all triples are right. It does not say that a wrong
dealer is refused, which the code does not achieve (see below), nor that the triples
are random, for which `hyper` must be hyper-invertible; `FieldsRight` checks that for
small matrices.

*Comparison.* `GreaterThanEqual07Compares` follows `greater_than_equal` of `ComparisonToft07Mixin` from
end to end. The number that is opened is the doubled difference plus 1, plus 2^(l+1), masked by random bits, and does not
overflow the large field; from its low bits and the random bits the players compute, in the small field,
numbers of which one is 0 exactly if the two numbers made of these bits compare as `s_bit` asks:
the first bit in which they differ decides, and the sums of exclusive ors (`sumXORs`) single it out. The
product of these numbers and the mask is 0 if and only if one of them is (a field has no
zero divisors), and so the division by 2^(l+1) at the end has no remainder. With the mask 0, which
`comparison.py:224-227` draws with one chance in the size of the small field, the product is 0 always, and the protocol
takes `s_bit` for the underflow: the theorem says of every mask that the result is right exactly if the
mask is not 0 or `s_bit` happens to be the underflow (`Underflows`; a wrong one
gives a wrong quotient, `QuotientDiffers`). The
hypotheses are the assertions of the code on the two fields, and that the difference of the numbers fits
l bits.

**Only model-checked:**

* Liveness and fairness: `Completes`, `EventuallyCalled`, `Delivered`, `AllStop`, the delivery of
  `ReliableBroadcast`, the promises to call back and to answer in `LabelledChannel` and
  `IdealComputation`. Of the refinements the theorems have the safety parts. `tlapm` 1.4.5 has no
  rules for fairness.
* `NoEarlyEnd`, which uses `ENABLED`; `tlapm` does not reason about it.
* `FieldsRight`, `SharingsRight`, `TriplesRight` and `ProtocolsCompute` of `MCProtocols`, as they stand:
  they compare the results of the jobs of the instance, tables and test vectors among
  them, which is a matter of evaluation. What they say of prime fields, of sharing, of the
  triples of honest dealers and of `greater_than_equal` in the version of 2007 is proved for all values in
  `PassiveRuntime_proofs`, and what they say of BeDOZa's triples in `ProgramRuns_proofs`.
* GF(256), square roots and matrices; who notices a wrong dealer, or a wrong triple of Orlandi's; the conversion of
  bits between fields, the comparison of 2005 and the equality test; Rijndael, Montgomery's
  reduction, and the arithmetic of Orlandi's and Paillier's protocols.

## Where code and documentation differ

Shown by a run:

1. `active.py:86` computes the echo quorum with `/`, an integer division in Python 2,
   before `ceil`. For n+t even the quorum is one too small, and `active.py:43`
   ("reliable ... up to t < n/3") is not met: run `bracha_five_players`.
2. `hash_broadcast.py:62` resets the list of hashes for each receiver.
   `hash_broadcast.py:39` says that a receiver aborts on a hash that differs from its
   own; only the last receiver's is looked at: run `hash_broadcast_unequal`.
3. `active.py`, `_exchange_single` and `_exchange_double`: player j > T is sent all shares of the sharing that
   j itself dealt, not of one that was mixed (`_share_single` returns both). So a wrong
   dealer is found by itself, if j > T, or by nobody, while `active.py:301-304` and `active.py:316-319` guarantee that the T
   sharings that are returned are correct: run `protocols_wrong_dealer`.

Met while reading, without a run:

* `runtime.py:933` says that the reactor is called only every n-th time.
  `activation_counter` is set to 0 after the iteration and stays at 2 or more while it
  runs, so that the first call of `activate_reactor` inside it enters the reactor at
  once, and so on down to the depth limit.
* A complex function that broadcasts or sends to its own player (`SelfShareExchanger`)
  fills `deferred_queue` after `process_deferred_queue` has emptied it; the callback
  waits until something else arrives. `NothingStranded` and `EventuallyCalled` are
  stated with this exception (`late`).
* `ShareList` hands its callback the list of results that its constructor goes on filling, so
  that shares that are there already all count, whatever the threshold (`RecombineOpened`). It counts shares that have failed; `filter_good_shares` keeps the others, and
  `shamir.recombine` of fewer than `threshold`+1 gives another number instead of an
  error, or fails when one is left. `IdealComputation` says so (`Replies`).
* `hyper` takes differences of integers before it converts them, which are not those of GF256:
  its matrix over GF256 is not hyper-invertible. `active.py` uses prime fields. `_hyper` is kept for the first field (`TriplesRight`:
  a second field gets no triples).
* `bedoza.py:18` speaks of an actively secure runtime, and `bedoza.py:67` of the verdicts of all players, which are
  folded so that the last one only counts; in `open_multiple_values` also only the
  last *value* does. A player that is not the last and gets a changed number says so and returns a
  wrong number nevertheless. `OpeningsRight` promises the right value to those only who got what was
  sent; with `Untouched` left out of its last conjunct TLC finds a violation, of 11 states, in the instance
  `Protocols.cfg`. In-place addition changes the keys of openings on their way, which are then refused
  though nobody has changed anything (`Undisturbed`).
* `simplearithmetic.py:55`: the sum of a share and a constant is the operand itself. `Bedoza` computes with objects as
  the code does, and so does the value that `OpeningsRight` compares with (`Ideal`): that the author of a
  program means the old value by the old name is not among its properties.
* `zero_knowledge.py:63-73` says that a proof that fails evaluates to False. It evaluates to True (line 106), or to an exception
  of `encrypt`; the checks are there and have TODOs for results (97-105). They would refuse
  an honest prover whose masks are large (`ProtocolsCompute`).
* `comparison.py:224-227` may draw the mask 0, "with negligible probability", as the comment says, which its own TODO takes
  back for the small field. `ProtocolsCompute` compares the results for the other masks;
  `GreaterThanEqual07Compares` says what happens with 0.
* `Share.clone`, like `util.clone_deferred`, adds a callback but no errback: where the docstring of the latter says that the clone
  "will fire with the same result", that is so for results only. An `open` of an operand that failed never answers
  (`Clone`).
* `generate_share` of BeDOZa shares a given value only if the other players' random sources
  agree with player 1's; `_get_share` of Orlandi commits to three times the value.
* `random_triple`'s check in `orlandi.py` compares with the commitment that came last.
* `paillier.py:187`: a player plays P1 if `hash(pc) % 2 == self.id`, which player 2 never does; if the
  hash is even both play P2 and wait. Its assertion on the sizes of the modulus
  does not cover r, which is up to 2p^2 + 2^k, so that a plaintext may wrap; the instance checked
  is large enough not to. `generate_keys` accepts a g that has a factor in common with n
  (`Keys` takes candidates that have none).
* `preprocess` shifts the program counter itself, by one for each generator. Only a program that
  sets the counter back, as `apps/benchutil.py` does, finds its items (`Reset`; without it
  `PoolFits` fails).
* `prss_share_zero` asks for a PRF up to the modulus even for several sharings at a time,
  whose digits are then zero from the second on. `recombine` fails for one share (t = 0).

## What is not modelled

`PROJECT.json` lists each part with its state and what is left out of it. In general:

* **Messages inside the larger protocols.** The generation of triples, Orlandi's and Paillier's
  protocols, comparison and AES are modelled as what all players compute, not as messages. Their
  operations are those of the runtimes, whose interleaving `PassiveRuntime`, `Bedoza` and the
  modules of the core have; a second description of it would show nothing about these protocols.
* **Mathematics at real size**: security, statistical distance, hardness. PRFs are any functions, SHA-1
  is free of collisions, commitments bind, and encryptions are only opened by their owners.
* **Lengths**: nothing has one, so the 16-bit length field of the wire (`runtime.py:366`) is not there.
* **Applications, scripts, profiling, printing, `FakeGF`, reading and writing configuration files, and the
  vendored `libs/configobj.py`**. TLS, sockets and Twisted itself are modelled as the code in `src/`
  uses them.
* **Crashes**: a player that crashes is, for the broadcasts, a faulty player; nothing in VIFF
  recovers from one.

## Plan

Done: the core (`ShareExchanger` with `LabelledChannel`, `ProgramCounters`, `ViffReactor`, `BrachaBroadcast`
with `ReliableBroadcast`, `HashBroadcast`, `Connections`); the
runtimes and algorithms from `Programs` to `MCProtocols`; proofs of all safety properties of the
core's runs, of the openings of BeDOZa, of the preprocessing pool, of the passive runtime, of sharing
and pseudo-random sharing, of triples and of a comparison.

What could come next, in this order: the comparison of 2005 and the equality test, with the
lemmas on bits and products of `GreaterThanEqual07Compares`; that `hyper` is hyper-invertible over
a prime field, on top of `Lagrange`; and the same two results for Orlandi's triples as for BeDOZa's.
