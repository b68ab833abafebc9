---------------------------- MODULE PassiveRuntime ----------------------------
(***************************************************************************)
(* The passive runtime (viff/passive.py) at work on a program: n players    *)
(* with threshold t who exchange Shamir shares.  The operations of the      *)
(* program are called at once, in order; each gives a Deferred whose        *)
(* callbacks run when the data it needs has come in (Share, ShareList and   *)
(* gather_shares of viff/runtime.py).  One step of the model is what the    *)
(* arrival of one share sets off at a player: every callback that can run   *)
(* does, and whatever they send is on its way.                              *)
(*                                                                          *)
(* A share is delivered under the number of its operation, which stands for *)
(* its program counter (module ProgramCounters), once the operation has     *)
(* been called (module ShareExchanger keeps it until then), and shares      *)
(* arrive in any order.  What some players send for some operations may be  *)
(* garbled, such that the field does not accept it, and the Deferred that   *)
(* waits for it fails.                                                      *)
(***************************************************************************)
EXTENDS Sharing, Programs

CONSTANTS
    n, t,               \* number of players and threshold
    Field,
    Code,               \* the program: see Programs
    Inputs,             \* possible inputs of the players
    Coefficients,       \* possible choices of the random coefficients
    GarbledSets,        \* possible values of garbled
    None, Failed

Players == 1 .. n
Ops == DOMAIN Code

\* shamir.share needs t < n and mul 2t + 1 players; the ids are points of Field.
ASSUME PassiveAssumption ==
    /\ n \in Nat /\ t \in Nat \ {0} /\ 2 * t + 1 <= n /\ n < Field
    /\ IsProgram(Code)
    /\ \A k \in Ops : /\ Code[k].do = "shamir_share" => Code[k].by \in Players
                      /\ Code[k].do = "open" => Code[k].to \subseteq Players
    /\ Inputs \subseteq [Players -> Elements(Field)]
    /\ Coefficients \subseteq [Players -> [Ops -> [1 .. t -> Elements(Field)]]]
    /\ GarbledSets \subseteq SUBSET (Players \X Ops)
    /\ None \notin Elements(Field) /\ Failed \notin Elements(Field) \cup {None}

\* Degree of the sharing that operation k makes.
Degree(k) ==
    LET degree[i \in Ops] ==
            LET of(j) == degree[Code[i].of[j]]
            IN  CASE Code[i].do \in {"local", "public"} ->
                        Max({of(j) : j \in DOMAIN Code[i].of})
                  [] Code[i].do = "times" -> of(1) + of(2)
                  [] OTHER -> t
    IN  degree[k]

\* The 2t + 1 players of mul determine the product of their shares, and the shares
\* that an open waits for what they share.
ASSUME DegreeAssumption ==
    \A k \in Ops :
       /\ Code[k].do = "mul" => Degree(Code[k].of[1]) + Degree(Code[k].of[2]) <= 2 * t
       /\ Code[k].do = "open" => Degree(Code[k].of[1]) <= Code[k].threshold

VARIABLES
    input,              \* never changes
    garbled,            \* what is garbled, by sender and operation; nor does it
    random,             \* random[p][k]: the coefficients p will use for k
    running,            \* players who have called the operations
    share,              \* share[p][k]: what the Deferred of k has at p
    arrived,            \* arrived[p][k]: shares that came, by their sender
    network             \* shares on their way

vars == <<input, garbled, random, running, share, arrived, network>>

Reading == Elements(Field) \cup {Failed}
Message == [from : Players, to : Players, op : Ops, value : Reading]

TypeOK ==
    /\ input \in Inputs /\ garbled \in GarbledSets
    /\ random \in [Players -> [Ops -> [1 .. t -> Elements(Field)]]]
    /\ running \subseteq Players
    /\ share \in [Players -> [Ops -> Reading \cup {None}]]
    /\ \A p \in Players, k \in Ops :
          /\ DOMAIN arrived[p][k] \subseteq Players \ {p}
          /\ \A q \in DOMAIN arrived[p][k] : arrived[p][k][q] \in Reading
    /\ network \subseteq Message

Init ==
    /\ input \in Inputs
    /\ garbled \in GarbledSets
    /\ random \in Coefficients
    /\ running = {}
    /\ share = [p \in Players |-> [k \in Ops |-> None]]
    /\ arrived = [p \in Players |-> [k \in Ops |-> <<>>]]
    /\ network = {}

-----------------------------------------------------------------------------
\* The vectors with which shares are recombined at 0, by the set of players.
Vector == [xs \in SUBSET Players |-> RecombinationVector(Field, xs, 0)]

RecombineCached(shares) ==
    SumOver(Field, DOMAIN shares,
            LAMBDA i : Mul(Field, shares[i], Vector[DOMAIN shares][i]))

\* What the Deferreds of a player make of the shares that have come in.

WithShare(shares, p, s) ==
    [q \in {p} \cup DOMAIN shares |-> IF q = p THEN s ELSE shares[q]]

\* gather_shares, then a callback: the result fails if one of the operands has.
Gather(operands, callback(_)) ==
    IF \E i \in DOMAIN operands : operands[i] = None THEN None
    ELSE IF \E i \in DOMAIN operands : operands[i] = Failed THEN Failed
    ELSE callback(operands)

\* Share.clone, then a callback: a failure is not passed on, and what waits for
\* the clone waits forever.
Clone(operands, callback(_)) ==
    IF operands[1] \in {None, Failed} THEN None ELSE callback(operands)

\* The pieces into which mul splits the product of p's shares.
Pieces(p, k, product) == Share(Field, n, product, random[p][k])

\* Mutant: mul recombines the first 2t + 1 shares to arrive.
RecombineFirstToArrive(p, k, own, got) ==
    LET pieces == WithShare(got, p, Pieces(p, k, own)[p]) IN
    IF Cardinality(DOMAIN pieces) < 2 * t + 1 THEN None
    ELSE IF Failed \in {pieces[q] : q \in DOMAIN pieces} THEN Failed
    ELSE RecombineCached(pieces)

\* share_recombine of mul, of the shares of the first 2t + 1 players.
RecombineProduct(p, k, own, got) ==
    LET pieces == WithShare(got, p, Pieces(p, k, own)[p])
        used == 1 .. 2 * t + 1
    IN  IF ~ used \subseteq DOMAIN pieces THEN None
        ELSE IF \E q \in used : pieces[q] = Failed THEN Failed
        ELSE RecombineCached([q \in used |-> pieces[q]])

FirstOf(S, k) == {q \in S : Cardinality({r \in S : r < q}) < k}

\* filter_good_shares, then shamir.recombine: of all shares that have come in
\* when the callback looks at the results.
RecombineGood(shares, threshold) ==
    LET good == FirstOf({q \in DOMAIN shares : shares[q] # Failed}, threshold + 1)
    IN  IF CanRecombine(good) THEN RecombineCached([q \in good |-> shares[q]])
        ELSE Failed

\* Mutant: the open goes on with one share too few.
RecombineOpenedTooSoon(k, p, own, got) ==
    LET shares == WithShare(got, p, own)
        threshold == Code[k].threshold
    IN  IF Cardinality(DOMAIN shares) < threshold THEN None
        ELSE RecombineGood(shares, threshold)

\* recombine of open: it goes on when threshold + 1 shares have come, be they
\* good or not.  There are more if they came before the operand was there, whose
\* callback waits for them: data that has come calls its Deferred at once, with
\* either reactor, and the results are looked at when all have.
RecombineOpened(k, p, own, got) ==
    LET shares == WithShare(got, p, own)
        threshold == Code[k].threshold
    IN  IF Cardinality(DOMAIN shares) < threshold + 1 THEN None
        ELSE RecombineGood(shares, threshold)

\* The Deferred of operation k at p, after those of the operations before it and
\* when the shares got have come in for it.  Once fired it keeps its result.
Fired(p, k, before, got) ==
    LET operation == Code[k]
        operands == [i \in DOMAIN operation.of |-> before[operation.of[i]]]
    IN  IF share[p][k] # None THEN share[p][k]
        ELSE CASE operation.do = "shamir_share" ->
                    IF operation.by = p THEN Pieces(p, k, input[p])[p]
                    ELSE IF operation.by \in DOMAIN got THEN got[operation.by]
                    ELSE None
               [] operation.do = "local" ->
                    Gather(operands, LAMBDA s : Combination(Field, operation, s))
               [] operation.do = "public" ->
                    Clone(operands, LAMBDA s : Combination(Field, operation, s))
               [] operation.do = "times" ->
                    Gather(operands, LAMBDA s : Mul(Field, s[1], s[2]))
               [] operation.do = "mul" ->
                    Gather(operands, LAMBDA s :
                        RecombineProduct(p, k, Mul(Field, s[1], s[2]), got))
               [] operation.do = "open" ->
                    IF p \notin operation.to THEN None
                    ELSE Clone(operands, LAMBDA s : RecombineOpened(k, p, s[1], got))

\* All of them, one after the other.
Settled(p, got) ==
    LET upTo[k \in 0 .. Len(Code)] ==
            IF k = 0 THEN <<>>
            ELSE LET before == upTo[k - 1]
                 IN  Append(before, Fired(p, k, before, got[k]))
    IN  upTo[Len(Code)]

\* The operations whose callbacks send shares, once their operands are there.
Communicating(shares) ==
    {k \in Ops : /\ Code[k].do \in {"mul", "open"}
                 /\ \A i \in DOMAIN Code[k].of :
                       shares[Code[k].of[i]] \notin {None, Failed}}

\* What p sends for k, by receiver.
Outgoing(p, k, shares) ==
    LET operand(i) == shares[Code[k].of[i]] IN
    CASE Code[k].do = "shamir_share" -> Pieces(p, k, input[p])
      [] Code[k].do = "mul" -> Pieces(p, k, Mul(Field, operand(1), operand(2)))
      [] Code[k].do = "open" -> [q \in Code[k].to |-> operand(1)]

\* Mutant: a player sends to itself as well.
MessagesToAll(p, shares, ops) ==
    UNION {LET out == Outgoing(p, k, shares) IN
           {[from |-> p, to |-> q, op |-> k,
             value |-> IF <<p, k>> \in garbled THEN Failed ELSE out[q]] :
               q \in DOMAIN out} : k \in ops}

Messages(p, shares, ops) ==
    UNION {LET out == Outgoing(p, k, shares) IN
           {[from |-> p, to |-> q, op |-> k,
             value |-> IF <<p, k>> \in garbled THEN Failed ELSE out[q]] :
               q \in DOMAIN out \ {p}} : k \in ops}

-----------------------------------------------------------------------------
\* p calls the operations of the program.
Start(p) ==
    LET shares == Settled(p, arrived[p]) IN
    /\ p \notin running
    /\ running' = running \cup {p}
    /\ share' = [share EXCEPT ![p] = shares]
    /\ network' = network \cup Messages(p, shares, Communicating(shares)
                      \cup {k \in Ops : Code[k].do = "shamir_share"
                                           /\ Code[k].by = p})
    /\ UNCHANGED <<input, garbled, random, arrived>>

\* A share arrives at p.
Receive(p) ==
    \E message \in network :
        LET got == [arrived[p] EXCEPT ![message.op] =
                       WithShare(@, message.from, message.value)]
            shares == Settled(p, got)
        IN  /\ p \in running
            /\ message.to = p
            /\ arrived' = [arrived EXCEPT ![p] = got]
            /\ share' = [share EXCEPT ![p] = shares]
            /\ network' = (network \ {message})
                             \cup Messages(p, shares,
                                     Communicating(shares)
                                        \ Communicating(share[p]))
            /\ UNCHANGED <<input, garbled, random, running>>

Next == \E p \in Players : Start(p) \/ Receive(p)

Spec == Init /\ [][Next]_vars

\* The players start, and what is sent arrives.  There are only so many shares,
\* so this is weak fairness of every Start and Receive, said without ENABLED.
Fairness == <>(running = Players) /\ []<>(network = {})

FairSpec == Spec /\ Fairness

-----------------------------------------------------------------------------
Holders(k) == {p \in Players : share[p][k] \notin {None, Failed}}

\* At all times the shares that the players have got of one result lie on one
\* polynomial of the right degree, and its value at 0 is what the program
\* computes: however far apart the players are, and whose shares came first.
SharesMeet ==
    \A k \in Ops :
        Code[k].do # "open" =>
            \A S \in SUBSET Holders(k) :
                Cardinality(S) = Degree(k) + 1 =>
                    RecombineCached([p \in S |-> share[p][k]])
                        = Values(Field, Code, input)[k]

Answers == [p \in Players |->
               [k \in {k \in Ops : Code[k].do = "open"} |-> share[p][k]]]

Computed(numbers) == Values(Field, Code, numbers)

Ideal == INSTANCE IdealComputation
            WITH Numbers <- Elements(Field), Result <- Computed,
                 answer <- Answers, faulty <- {send[1] : send \in garbled}

\* What the receivers of an open get is what the ideal computation gives them.
ImplementsIdeal == Ideal!Spec
==============================================================================
