------------------------------ MODULE Circuits ------------------------------
(***************************************************************************)
(* Binary circuits (crates/circuits-core): the builder, which folds        *)
(* constants away while gates are added and renumbers every wire when the  *)
(* circuit is built; evaluation; the arithmetic gadgets of ops.rs.         *)
(*                                                                         *)
(* A node is a wire number, 0 and 1 being the constants.  A builder call   *)
(* returns the builder after it and the node or nodes it made: [b, n].     *)
(***************************************************************************)
EXTENDS Integers, Sequences, FiniteSets, SequencesExt, TLC

\* FoldLeft with the accumulator evaluated before every step: TLC would
\* otherwise carry the whole chain of gates unevaluated into the last one.
FoldGates(Step(_, _), start, seq) ==
  FoldLeft(LAMBDA acc, x : CHOOSE next \in {Step(done, x) : done \in {acc}} : TRUE, start, seq)

\* CircuitBuilder::new: numbers 0 and 1 are taken by the constants.
NewBuilder ==
  [feed |-> 2, inputs |-> <<>>, outputs |-> <<>>, gates |-> <<>>]

Zero == 0
One == 1
IsConst(x) == x \in {Zero, One}

Made(b, n) == [b |-> b, n |-> n]

AddInput(b) ==
  Made([b EXCEPT !.feed = @ + 1, !.inputs = Append(@, b.feed)], b.feed)

AddOutput(b, x) == [b EXCEPT !.outputs = Append(@, x)]

\* add_feed and the push of the gate that drives it; y is unused by the
\* unary gates.
Push(b, type, x, y) ==
  Made([b EXCEPT !.feed = @ + 1,
                 !.gates = Append(@, [type |-> type, x |-> x, y |-> y, z |-> b.feed])],
       b.feed)

AddInv(b, x) == IF IsConst(x) THEN Made(b, 1 - x) ELSE Push(b, "inv", x, x)

AddId(b, x) == IF IsConst(x) THEN Made(b, x) ELSE Push(b, "id", x, x)

\* A gate with a constant input is simplified away.
AddXor(b, x, y) ==
  IF IsConst(x) /\ x = y THEN Made(b, Zero)
  ELSE IF x = Zero THEN Made(b, y)
  ELSE IF y = Zero THEN Made(b, x)
  ELSE IF x = One THEN Push(b, "inv", y, y)
  ELSE IF y = One THEN Push(b, "inv", x, x)
  ELSE Push(b, "xor", x, y)

AddAnd(b, x, y) ==
  IF x = Zero \/ y = Zero THEN Made(b, Zero)
  ELSE IF x = One THEN Made(b, y)
  ELSE IF y = One THEN Made(b, x)
  ELSE Push(b, "and", x, y)

\* The gates of circuit files and of the gadgets below.
AddGate(b, type, x, y) ==
  CASE type = "xor" -> AddXor(b, x, y)
    [] type = "and" -> AddAnd(b, x, y)
    [] type = "inv" -> AddInv(b, x)

\* Gates one after the other: each is <<type, i, j>>, on nodes number i and
\* j, and its own node becomes the next number.
Numbering(n, m) == Made(m.b, Append(n, m.n))

Gates(b, nodes, gates) ==
  FoldGates(LAMBDA acc, g : Numbering(acc.n, AddGate(acc.b, g[1], acc.n[g[2]], acc.n[g[3]])),
            Made(b, nodes), gates)

-----------------------------------------------------------------------------
(***************************************************************************)
(* build: the constants' two numbers are dropped, inputs come first,       *)
(* outputs last, and the other gates' wires take the numbers between, in   *)
(* the order of the gates.  In the map, 0 stands for "no number yet".      *)
(***************************************************************************)
FeedCount(b) == b.feed - 2

\* Wrong on purpose: outputs are placed right after the inputs.
OutputStartEarly(b) == Len(b.inputs)

OutputStart(b) == FeedCount(b) - Len(b.outputs)

BoundaryIds(b) ==
  [w \in 0 .. (FeedCount(b) - 1) |->
     LET out == {j \in DOMAIN b.outputs : b.outputs[j] = w + 2}
         inp == {j \in DOMAIN b.inputs : b.inputs[j] = w + 2}
     IN  IF out # {} THEN OutputStart(b) + (CHOOSE j \in out : \A k \in out : k <= j) - 1
         ELSE IF inp # {} THEN (CHOOSE j \in inp : TRUE) - 1
         ELSE 0]

\* Every gate that drives no output takes the next number.
GateIds(b) ==
  FoldLeft(LAMBDA acc, g :
             IF acc.map[g.z - 2] # 0 THEN acc
             ELSE [map |-> [acc.map EXCEPT ![g.z - 2] = acc.next], next |-> acc.next + 1],
           [map |-> BoundaryIds(b), next |-> Len(b.inputs)], b.gates).map

Build(b) ==
  LET id == GateIds(b)
  IN  [inputs |-> Len(b.inputs), first |-> OutputStart(b), feeds |-> FeedCount(b),
       gates |-> [i \in DOMAIN b.gates |->
                    [b.gates[i] EXCEPT !.x = id[@ - 2], !.y = id[@ - 2], !.z = id[@ - 2]]]]

-----------------------------------------------------------------------------
(***************************************************************************)
(* parse_str: a file in Bristol fashion is a number of inputs and outputs  *)
(* and gate lines over wire numbers, the last wires being the outputs.     *)
(* `feeds' takes the file's numbers to nodes.                              *)
(***************************************************************************)
Numbered(acc, m, z) == [b |-> m.b, feeds |-> (z :> m.n) @@ acc.feeds]

ParseLine(acc, g) ==
  Numbered(acc, AddGate(acc.b, g.type, acc.feeds[g.x], acc.feeds[g.y]), g.z)

Parse(file) ==
  LET count == file.inputs + Len(file.gates)
      start == FoldLeft(LAMBDA acc, i : Numbered(acc, AddInput(acc.b), i - 1),
                        [b |-> NewBuilder, feeds |-> <<>>], [i \in 1 .. file.inputs |-> i])
      read  == FoldLeft(ParseLine, start, file.gates)
  IN  Build(FoldLeft(LAMBDA b, i : AddOutput(b, read.feeds[count - file.outputs + i - 1]),
                     read.b, [i \in 1 .. file.outputs |-> i]))

-----------------------------------------------------------------------------
\* evaluate_raw, gate by gate over the wires.
GateValue(g, wires) ==
  CASE g.type = "xor" -> wires[g.x] # wires[g.y]
    [] g.type = "and" -> wires[g.x] /\ wires[g.y]
    [] g.type = "inv" -> ~wires[g.x]
    [] OTHER -> wires[g.x]

EvaluateRaw(gates, wires) ==
  FoldLeft(LAMBDA ws, g : [ws EXCEPT ![g.z] = GateValue(g, ws)], wires, gates)

\* evaluate: inputs on the first wires, outputs from the last ones.
Evaluate(c, input) ==
  LET wires == EvaluateRaw(c.gates, [w \in 0 .. (c.feeds - 1) |->
                                       w < c.inputs /\ input[w + 1]])
  IN  [j \in 1 .. (c.feeds - c.first) |-> wires[c.first + j - 1]]

-----------------------------------------------------------------------------
(***************************************************************************)
(* ops.rs.  Words are sequences of nodes, least significant bit first.     *)
(***************************************************************************)
Adder(m, sum, carry) == [b |-> m.b, sum |-> m.n[sum], carry |-> m.n[carry]]

FullAdder(b, x, y, cin) ==
  Adder(Gates(b, <<x, y, cin>>,
              << <<"xor", 1, 2>>, <<"xor", 4, 3>>,      \* the sum is number 5
                 <<"xor", 1, 3>>, <<"xor", 2, 3>>, <<"and", 6, 7>>, <<"xor", 8, 3>> >>),
        5, 9)

\* No carry is computed: it reads the first node, and nobody uses it.
FullAdderNoCarryOut(b, x, y, cin) ==
  Adder(Gates(b, <<x, y, cin>>, << <<"xor", 1, 2>>, <<"xor", 4, 3>> >>), 5, 1)

HalfAdder(b, x, y) ==
  Adder(Gates(b, <<x, y>>, << <<"xor", 1, 2>>, <<"and", 1, 2>> >>), 3, 4)

\* A word and the carry so far.
NoBits(b, carry) == [b |-> b, carry |-> carry, n |-> <<>>]
NextBit(acc, r) == [b |-> r.b, carry |-> r.carry, n |-> Append(acc.n, r.sum)]

WrappingAdd(b, x, y) ==
  FoldGates(LAMBDA acc, i :
              NextBit(acc, IF i = 1 THEN HalfAdder(acc.b, x[i], y[i])
                           ELSE IF i < Len(x) THEN FullAdder(acc.b, x[i], y[i], acc.carry)
                           ELSE FullAdderNoCarryOut(acc.b, x[i], y[i], acc.carry)),
            NoBits(b, Zero), [i \in DOMAIN x |-> i])

\* Bit by bit over two words, or one.
Bitwise2(b, x, y, Gate(_, _, _)) ==
  FoldGates(LAMBDA acc, i : Numbering(acc.n, Gate(acc.b, x[i], y[i])),
            Made(b, <<>>), [i \in DOMAIN x |-> i])

XorWord(b, x, y) == Bitwise2(b, x, y, AddXor)

AndWord(b, x, y) == Bitwise2(b, x, y, AddAnd)

InvWord(b, x) == Bitwise2(b, x, x, LAMBDA c, p, q : AddInv(c, p))

LastNode(m) == Made(m.b, Last(m.n))

AddOr(b, x, y) ==
  LastNode(Gates(b, <<x, y>>, << <<"xor", 1, 2>>, <<"and", 1, 2>>, <<"xor", 3, 4>> >>))

OrWord(b, x, y) == Bitwise2(b, x, y, AddOr)

\* The carry into the lowest bit, which completes the two's complement.
SubCarryIn == One

\* x added to the inverse of the subtrahend; no carry out is an underflow.
AddInverse(x, inv) ==
  FoldGates(LAMBDA acc, i : NextBit(acc, FullAdder(acc.b, x[i], inv.n[i], acc.carry)),
            NoBits(inv.b, SubCarryIn), [i \in DOMAIN x |-> i])

Difference(diff, under) == [b |-> under.b, n |-> diff.n, underflow |-> under.n]
WithUnderflow(diff) == Difference(diff, AddInv(diff.b, diff.carry))

WrappingSub(b, x, y) == WithUnderflow(AddInverse(x, InvWord(b, y)))

\* `x' when the toggle is 0, `y' when it is 1.
SwitchOn(inv, x, y, toggle) ==
  Bitwise2(inv.b, x, y,
           LAMBDA c, p, q : LastNode(Gates(c, <<p, q, inv.n, toggle>>,
                                           << <<"and", 1, 3>>, <<"and", 2, 4>>, <<"xor", 5, 6>> >>)))

Switch(b, x, y, toggle) == SwitchOn(AddInv(b, toggle), x, y, toggle)

\* Summands below the modulus; one more bit takes the overflow.
WithoutTop(m) == Made(m.b, Front(m.n))
Reduced(sum, rem) == WithoutTop(Switch(rem.b, rem.n, sum.n, rem.underflow))
Reduce(sum, modulus) == Reduced(sum, WrappingSub(sum.b, sum.n, Append(modulus, Zero)))

AddMod(b, x, y, modulus) == Reduce(WrappingAdd(b, Append(x, Zero), Append(y, Zero)), modulus)

-----------------------------------------------------------------------------
(***************************************************************************)
(* What nodes stand for, given the values of the inputs: the reference     *)
(* against which built circuits and gadgets are compared.                  *)
(***************************************************************************)
NodeValues(b, input) ==
  EvaluateRaw(b.gates, [x \in 0 .. (b.feed - 1) |->
                          IF x \in ToSet(b.inputs)
                          THEN input[CHOOSE j \in DOMAIN b.inputs : b.inputs[j] = x]
                          ELSE x = One])

WordValue(values, word) ==
  FoldLeft(LAMBDA acc, i : acc + (IF values[word[i]] THEN 2 ^ (i - 1) ELSE 0),
           0, [i \in DOMAIN word |-> i])
=============================================================================
