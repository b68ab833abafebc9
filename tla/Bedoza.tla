-------------------------------- MODULE Bedoza --------------------------------
(***************************************************************************)
(* The BeDOZa runtime (viff/bedoza/bedoza.py, shares.py, keylist.py and     *)
(* maclist.py): N players run the same program over additive sharings with  *)
(* MACs, each at its own pace.  The number that player q has of a sharing   *)
(* comes with a MAC for each player p, under p's key for it:                *)
(*     mac = Alpha[p] * value + key.                                        *)
(*                                                                          *)
(* A program is a sequence of operations on registers: 1 .. Given are the   *)
(* sharings it starts with, and Given + k is what operation k returns.  A   *)
(* register refers to a Share object.  Adding a public number to a share    *)
(* changes this object, what it holds and the list of keys, and returns it  *)
(* (viff/simplearithmetic.py), whereas a program that opens a share goes on *)
(* with the list of keys, whatever happens to it until the others' numbers  *)
(* arrive.                                                                  *)
(***************************************************************************)
EXTENDS SimpleArithmetic, FiniteSets

CONSTANTS N, Field, Alpha, Given, StartValue, StartKey, Code, GarbledSets,
          None, Wrong    \* nothing yet, and a BeDOZaException

Players == 1 .. N
Ops == 1 .. Len(Code)
Registers == 1 .. Given + Len(Code)

VARIABLES next,     \* the operation each player comes to next
          shares,   \* what the Share objects of each player hold
          keys,     \* the lists of keys of each player
          opens,    \* what each player has sent for an opening
          verdicts, \* what each player has got for it and thinks of it
          opened,   \* what it returns at each player
          garbled   \* the numbers that are changed on their way

vars == <<next, shares, keys, opens, verdicts, opened, garbled>>

\* The operations.
PlusOf(x, y) == [op |-> "plus", xs |-> <<x, y>>]
MinusOf(x, y) == [op |-> "minus", xs |-> <<x, y>>]
CMulOf(x, c) == [op |-> "cmul", xs |-> <<x>>, c |-> c]
PlusPublicOf(x, c) == [op |-> "plus_public", xs |-> <<x>>, c |-> c]
MinusPublicRightOf(x, c) == [op |-> "minus_public_right", xs |-> <<x>>, c |-> c]
MinusPublicLeftOf(x, c) == [op |-> "minus_public_left", xs |-> <<x>>, c |-> c]
OpenOf(xs, receivers) == [op |-> "open", xs |-> xs, receivers |-> receivers]
OpenMultipleOf(xs) ==
    [op |-> "open_multiple_values", xs |-> xs, receivers |-> Players]

Public == {"plus_public", "minus_public_right", "minus_public_left"}
OpenKinds == {"open", "open_multiple_values"}

Openings == {k \in Ops : Code[k].op \in OpenKinds}

\* The object a register refers to: both_shares and sub return their operand if
\* the other one is public.
Object[r \in Registers] ==
    IF r > Given /\ Code[r - Given].op \in Public
    THEN Object[Code[r - Given].xs[1]]
    ELSE r

Operation ==
    [op : {"plus", "minus"}, xs : [1 .. 2 -> Nat]]
        \cup [op : Public \cup {"cmul"}, xs : [1 .. 1 -> Nat], c : Elements(Field)]
        \cup [op : OpenKinds, xs : Seq(Nat) \ {<<>>}, receivers : SUBSET Players]

\* The key that a player draws may be 0.  An operand is a share that the program
\* starts with or that an earlier operation has made.
ASSUME BedozaAssumption ==
    /\ N \in Nat \ {0} /\ Given \in Nat
    /\ IsField(Field)
    /\ Alpha \in [Players -> Elements(Field)]
    /\ StartValue \in [1 .. Given -> [Players -> Elements(Field)]]
    /\ StartKey \in [1 .. Given -> [Players -> [Players -> Elements(Field)]]]
    /\ Code \in Seq(Operation)
    /\ \A k \in Ops : \A i \in DOMAIN Code[k].xs :
          Code[k].xs[i] \in 1 .. Given + k - 1 /\ Code[k].xs[i] - Given \notin Openings
    /\ \A k \in Openings : Wrong \notin [DOMAIN Code[k].xs -> Elements(Field)]

-----------------------------------------------------------------------------
\* Contents of shares, lists of keys and of MACs, at one player: value, keys and
\* macs, the last two functions from the players.

PlayerByPlayer(op(_, _), u, v) == [q \in Players |-> op(u[q], v[q])]

PlusContents(x, y) ==
    LET add(a, b) == Add(Field, a, b)
    IN  [value |-> add(x.value, y.value), keys |-> PlayerByPlayer(add, x.keys, y.keys),
         macs |-> PlayerByPlayer(add, x.macs, y.macs)]

MinusContents(x, y) ==
    LET sub(a, b) == Sub(Field, a, b)
    IN  [value |-> sub(x.value, y.value), keys |-> PlayerByPlayer(sub, x.keys, y.keys),
         macs |-> PlayerByPlayer(sub, x.macs, y.macs)]

CMulContents(x, c) ==
    [value |-> Mul(Field, c, x.value),
     keys |-> [q \in Players |-> Mul(Field, c, x.keys[q])],
     macs |-> [q \in Players |-> Mul(Field, c, x.macs[q])]]

\* Mutant: player 1 adds the number, and the keys for its share stay.
AddPublicWithOldKeys(p, x, c) ==
    [x EXCEPT !.value = IF p = 1 THEN Add(Field, @, c) ELSE @]

\* add_public; sub_public is the addition of -c.
AddPublic(p, x, c) ==
    [x EXCEPT !.value = IF p = 1 THEN Add(Field, @, c) ELSE @,
              !.keys[1] = Sub(Field, @, Mul(Field, Alpha[p], c))]

MAC(alpha, beta, v) == Add(Field, Mul(Field, alpha, v), beta)

-----------------------------------------------------------------------------
\* The contents that object o of player p holds; its keys are a list in keys[p].
Contents(p, o) ==
    LET s == shares[p][o]
    IN  [value |-> s.value, keys |-> keys[p][s.list], macs |-> s.macs]

GivenShare(p, o) ==
    [value |-> StartValue[o][p], list |-> o,
     macs |-> [q \in Players |-> MAC(Alpha[q], StartKey[o][q][p], StartValue[o][p])]]

Init ==
    /\ next = [p \in Players |-> 1]
    /\ shares = [p \in Players |-> [o \in Registers |->
                    IF o <= Given THEN GivenShare(p, o) ELSE None]]
    /\ keys = [p \in Players |-> [o \in Registers |->
                    IF o <= Given THEN StartKey[o][p] ELSE None]]
    /\ opens = [p \in Players |-> [k \in Openings |-> None]]
    /\ verdicts = opens
    /\ opened = opens
    /\ garbled \in GarbledSets

Comes(p, kinds) == next[p] \in Ops /\ Code[next[p]].op \in kinds

Advance(p) == next' = [next EXCEPT ![p] = @ + 1]

\* Object o of player p gets contents x and a list of keys, number list, with it.
Hold(p, o, list, x) ==
    /\ shares' = [shares EXCEPT ![p][o] =
                     [value |-> x.value, list |-> list, macs |-> x.macs]]
    /\ keys' = [keys EXCEPT ![p][list] = x.keys]

\* _plus, _minus and _cmul make a new share.
Compute(p) ==
    /\ Comes(p, {"plus", "minus", "cmul"})
    /\ LET k == next[p]
           op == Code[k]
           x(i) == Contents(p, Object[op.xs[i]])
       IN  Hold(p, Given + k, Given + k,
                CASE op.op = "plus" -> PlusContents(x(1), x(2))
                  [] op.op = "minus" -> MinusContents(x(1), x(2))
                  [] op.op = "cmul" -> CMulContents(x(1), op.c))
    /\ Advance(p)
    /\ UNCHANGED <<opens, verdicts, opened, garbled>>

\* _plus_public and _minus_public_right change the list of keys that the operand
\* has; _minus_public_left makes another one first.
ComputePublic(p) ==
    /\ Comes(p, Public)
    /\ LET k == next[p]
           op == Code[k]
           o == Object[op.xs[1]]
           x == Contents(p, o)
           old == shares[p][o].list
       IN  CASE op.op = "plus_public" -> Hold(p, o, old, AddPublic(p, x, op.c))
             [] op.op = "minus_public_right" ->
                    Hold(p, o, old, AddPublic(p, x, Neg(Field, op.c)))
             [] op.op = "minus_public_left" ->
                    Hold(p, o, Given + k,
                         AddPublic(p, CMulContents(x, Neg(Field, 1)), op.c))
    /\ Advance(p)
    /\ UNCHANGED <<opens, verdicts, opened, garbled>>

\* exchange, of open, open_two_values and open_multiple_values: values and MACs
\* are sent, and the lists of keys remembered (the keys in them only for the
\* properties below).
Open(p) ==
    /\ Comes(p, OpenKinds)
    /\ LET k == next[p]
           share(i) == shares[p][Object[Code[k].xs[i]]]
           of == DOMAIN Code[k].xs
       IN  opens' = [opens EXCEPT ![p][k] =
               [values |-> [i \in of |-> share(i).value],
                macs |-> [i \in of |-> share(i).macs],
                lists |-> [i \in of |-> share(i).list],
                asSent |-> [i \in of |-> keys[p][share(i).list]]]]
    /\ Advance(p)
    /\ UNCHANGED <<shares, keys, verdicts, opened, garbled>>

\* What player p gets from q as value i of opening k.
Received(p, q, k, i) ==
    LET v == opens[q][k].values[i]
    IN  IF <<q, p, k, i>> \in garbled THEN Add(Field, v, 1) ELSE v

\* Whether each value of an opening has passed, as open and open_two_values and
\* as open_multiple_values put it together: reduce(lambda x, y: True == y, isOK).
Passed(kind, isOK) ==
    IF kind = "open" THEN \A i \in DOMAIN isOK : isOK[i] ELSE isOK[Len(isOK)]

\* recombine_value
RecombineValue(p, k) ==
    /\ p \in Code[k].receivers
    /\ verdicts[p][k] = None
    /\ \A q \in Players : opens[q][k] # None
    /\ LET of == DOMAIN Code[k].xs
           ok(i) == \A q \in Players :
                       opens[q][k].macs[i][p] =
                           MAC(Alpha[p], keys[p][opens[p][k].lists[i]][q],
                               Received(p, q, k, i))
           sum(i) == FieldSum(Field, [q \in Players |-> Received(p, q, k, i)])
       IN  verdicts' = [verdicts EXCEPT ![p][k] =
               [isOK |-> Passed(Code[k].op, [i \in of |-> ok(i)]),
                values |-> [i \in of |-> sum(i)],
                undisturbed |-> \A i \in of :
                    keys[p][opens[p][k].lists[i]] = opens[p][k].asSent[i]]]
    /\ UNCHANGED <<next, shares, keys, opens, opened, garbled>>

\* check: the verdicts of all the players, folded so that the last one counts.
Accepted(k) == verdicts[N][k].isOK

\* The broadcast of the verdicts waits for everybody's.
Finish(p, k) ==
    /\ verdicts[p][k] # None
    /\ opened[p][k] = None
    /\ \A q \in Players : verdicts[q][k] # None
    /\ opened' = [opened EXCEPT ![p][k] =
                     IF Accepted(k) THEN verdicts[p][k].values ELSE Wrong]
    /\ UNCHANGED <<next, shares, keys, opens, verdicts, garbled>>

Step(p) == Compute(p) \/ ComputePublic(p) \/ Open(p)

Next == \E p \in Players :
            \/ Step(p)
            \/ \E k \in Openings : RecombineValue(p, k) \/ Finish(p, k)

Spec == Init /\ [][Next]_vars

-----------------------------------------------------------------------------
\* What the program computes, on the numbers that are shared: the values of the
\* objects before operation k.
Ideal[k \in 1 .. Len(Code) + 1] ==
    IF k = 1
    THEN [o \in Registers |-> IF o > Given THEN 0
                              ELSE FieldSum(Field, StartValue[o])]
    ELSE LET op == Code[k - 1]
             before == Ideal[k - 1]
             x(i) == before[Object[op.xs[i]]]
             result == CASE op.op = "plus" -> Add(Field, x(1), x(2))
                         [] op.op = "minus" -> Sub(Field, x(1), x(2))
                         [] op.op = "cmul" -> Mul(Field, x(1), op.c)
                         [] op.op = "plus_public" -> Add(Field, x(1), op.c)
                         [] op.op = "minus_public_right" -> Sub(Field, x(1), op.c)
                         [] op.op = "minus_public_left" -> Sub(Field, op.c, x(1))
                         [] OTHER -> 0
         IN  [before EXCEPT ![Object[Given + k - 1]] = result]

Untouched(p, k, i) == \A q \in Players : <<q, p, k, i>> \notin garbled

AllUntouched(p, k) == \A i \in DOMAIN Code[k].xs : Untouched(p, k, i)

\* Nobody has changed the keys between the sending and the verdict of player p.
Undisturbed(p, k) == verdicts[p][k] # None /\ verdicts[p][k].undisturbed

\* An opening succeeds for all or for nobody, and does if everybody gets what was
\* sent and nobody has added a public number to an opened share in the meantime.
\* With open and open_two_values a player that does not get what was sent says so,
\* and a player that returns and got what was sent returns the right value
\* (bedoza.py, the three opening methods).
OpeningsRight ==
    \A k \in Openings :
        LET ended == {p \in Players : opened[p][k] # None} IN
        /\ \A p, q \in ended : opened[p][k] = Wrong => opened[q][k] = Wrong
        /\ (\A q \in Players : Undisturbed(q, k) /\ AllUntouched(q, k)) =>
              \A p \in ended : opened[p][k] # Wrong
        /\ Code[k].op = "open" =>
              \A p \in Players : Undisturbed(p, k) =>
                  (verdicts[p][k].isOK <=> AllUntouched(p, k))
        /\ \A p \in ended : \A i \in DOMAIN Code[k].xs :
              opened[p][k] # Wrong /\ Untouched(p, k, i) =>
                  opened[p][k][i] = Ideal[k][Object[Code[k].xs[i]]]
==============================================================================
