----------------------------- MODULE HalfGates -----------------------------
(***************************************************************************)
(* Garbling of a circuit with half-gates (crates/garble-core, and the      *)
(* streaming of crates/garble).                                            *)
(*                                                                         *)
(* A block is symbolic: a sum over GF(2) of independent random terms, the  *)
(* set of those that occur in it.  A term is <<kind, what, lsb>>, so the   *)
(* pointer bit of a block is the parity of the last components.  Blocks    *)
(* are equal only if they are for every choice of the random values.       *)
(***************************************************************************)
EXTENDS Circuits

CONSTANT BatchSize      \* encrypted gates per batch

BlockXor(a, b) == (a \ b) \cup (b \ a)
Lsb(a) == Cardinality({t \in a : t[3] = 1}) % 2

\* Block::SELECT_MASK[bit] & block.
Select(bit, block) == IF bit = 1 THEN block ELSE {}

\* Delta::new sets the pointer bit.
Delta == {<<"delta", 0, 1>>}

\* FixedKeyAes::tccr: a new random block, of either pointer bit, for every
\* block and tweak.
Tccr(block, tweak) ==
  {<<"hash", <<block, tweak>>, (tweak + Cardinality(block)) % 2>>}

-----------------------------------------------------------------------------
\* and_gate of the garbler: the label of the output, and the encrypted gate.
GarbleAnd(x, y, gid) ==
  LET hx == Tccr(x, gid)
      hy == Tccr(y, gid + 1)
      tg == BlockXor(BlockXor(hx, Tccr(BlockXor(x, Delta), gid)), Select(Lsb(y), Delta))
      te == BlockXor(BlockXor(hy, Tccr(BlockXor(y, Delta), gid + 1)), x)
      wg == BlockXor(hx, Select(Lsb(x), tg))
      we == BlockXor(hy, Select(Lsb(y), BlockXor(te, x)))
  IN  [label |-> BlockXor(wg, we), gate |-> <<tg, te>>]

\* The iterator over the circuit's gates: free gates on the way.  `labels'
\* are the labels of 0.
GarbleGate(acc, g) ==
  LET x == acc.labels[g.x]
      and == GarbleAnd(x, acc.labels[g.y], acc.gid)
  IN  CASE g.type = "and" -> [labels |-> [acc.labels EXCEPT ![g.z] = and.label],
                              gid |-> acc.gid + 2, gates |-> Append(acc.gates, and.gate)]
        [] g.type = "xor" -> [acc EXCEPT !.labels[g.z] = BlockXor(x, acc.labels[g.y])]
        [] g.type = "inv" -> [acc EXCEPT !.labels[g.z] = BlockXor(x, Delta)]
        [] OTHER -> [acc EXCEPT !.labels[g.z] = x]

\* The buffer of a garbler or evaluator: the inputs come first.
Buffer(c, inputs) ==
  [w \in 0 .. (c.feeds - 1) |-> IF w < c.inputs THEN inputs[w + 1] ELSE {}]

Outputs(c, labels) == [j \in 1 .. (c.feeds - c.first) |-> labels[c.first + j - 1]]

\* Garbler::generate run to its end.
Garble(c, inputs) ==
  LET end == FoldLeft(GarbleGate, [labels |-> Buffer(c, inputs), gid |-> 1, gates |-> <<>>], c.gates)
  IN  [outputs |-> Outputs(c, end.labels), gates |-> end.gates]

-----------------------------------------------------------------------------
\* generate_batched: the last batch is filled up with default gates.
DefaultGate == <<{}, {}>>

Batches(gates) ==
  [k \in 1 .. ((Len(gates) + BatchSize - 1) \div BatchSize) |->
     [i \in 1 .. BatchSize |->
        LET n == (k - 1) * BatchSize + i IN IF n <= Len(gates) THEN gates[n] ELSE DefaultGate]]

AndCount(c) == Len(SelectSeq(c.gates, LAMBDA g : g.type = "and"))

\* receive_garbled_circuit: whole batches until there are enough, trimmed.
Received(c, batches) == SubSeq(FlattenSeq(batches), 1, AndCount(c))

-----------------------------------------------------------------------------
\* Wrong on purpose: the evaluator's half lacks the label of x.
EvaluateAndHalf(x, y, gate, gid) ==
  BlockXor(BlockXor(Tccr(x, gid), Select(Lsb(x), gate[1])),
           BlockXor(Tccr(y, gid + 1), Select(Lsb(y), gate[2])))

\* and_gate of the evaluator.
EvaluateAnd(x, y, gate, gid) ==
  BlockXor(BlockXor(Tccr(x, gid), Select(Lsb(x), gate[1])),
           BlockXor(Tccr(y, gid + 1), Select(Lsb(y), BlockXor(gate[2], x))))

\* The consumer: takes the next encrypted gate at every AND gate.
EvaluateGate(acc, g) ==
  LET x == acc.labels[g.x]
      y == acc.labels[g.y]
  IN  CASE g.type = "and" -> [labels |-> [acc.labels EXCEPT ![g.z] =
                                            EvaluateAnd(x, y, Head(acc.gates), acc.gid)],
                              gid |-> acc.gid + 2, gates |-> Tail(acc.gates)]
        [] g.type = "xor" -> [acc EXCEPT !.labels[g.z] = BlockXor(x, y)]
        [] OTHER -> [acc EXCEPT !.labels[g.z] = x]

\* Evaluator::evaluate run to its end.
EvaluateGarbled(c, macs, gates) ==
  Outputs(c, FoldLeft(EvaluateGate, [labels |-> Buffer(c, macs), gid |-> 1, gates |-> gates],
                      c.gates).labels)

-----------------------------------------------------------------------------
\* A label of 0 for every input, with these pointer bits; the MAC of a bit.
InputKeys(pointers) == [i \in DOMAIN pointers |-> {<<"key", i, pointers[i]>>}]
Authenticated(key, bit) == IF bit THEN BlockXor(key, Delta) ELSE key
=============================================================================
