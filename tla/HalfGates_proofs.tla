-------------------------- MODULE HalfGates_proofs --------------------------
(***************************************************************************)
(* Correctness of half-gates garbling, gate by gate: for labels of any     *)
(* kind, any gate of any circuit and any bits on its inputs, what the      *)
(* evaluator computes from the MACs of its inputs is the MAC of what the   *)
(* gate computes, under the label the garbler gives to the gate's output.  *)
(***************************************************************************)
EXTENDS HalfGates, FiniteSetTheorems, TLAPS

\* The pointer bit.
LEMMA LsbType ==
  ASSUME NEW a, IsFiniteSet(a) PROVE Lsb(a) \in {0, 1}
<1> DEFINE A == {t \in a : t[3] = 1}
<1>1. IsFiniteSet(A)
  BY FS_Subset
<1>2. Cardinality(A) \in Nat
  BY <1>1, FS_CardinalityType
<1> HIDE DEF A
<1>3. Cardinality(A) % 2 \in {0, 1}
  BY <1>2
<1> QED
  BY <1>3 DEF Lsb, A

\* Delta, whose pointer bit is set, flips the pointer bit of every block:
\* the two labels of a wire differ in it.
LEMMA LsbFlips ==
  ASSUME NEW a, IsFiniteSet(a) PROVE Lsb(BlockXor(a, Delta)) = 1 - Lsb(a)
<1> DEFINE d == <<"delta", 0, 1>>
           b == BlockXor(a, Delta)
           A == {t \in a : t[3] = 1}
           B == {t \in b : t[3] = 1}
<1>1. IsFiniteSet(A)
  BY FS_Subset
<1>2. Cardinality(A) \in Nat
  BY <1>1, FS_CardinalityType
<1>3. d[3] = 1
  OBVIOUS
<1>4. \A t : t \in b <=> (t \in a /\ t # d) \/ (t = d /\ d \notin a)
  BY DEF BlockXor, Delta
<1> HIDE DEF d, b
<1>5. CASE d \in a
  <2>1. B = A \ {d} /\ d \in A
    BY <1>3, <1>4, <1>5
  <2> HIDE DEF A, B
  <2>2. Cardinality(B) = Cardinality(A) - 1
    BY <1>1, <2>1, FS_RemoveElement
  <2>3. Cardinality(B) \in Nat
    BY <1>1, <2>1, FS_RemoveElement, FS_CardinalityType
  <2>4. Cardinality(B) % 2 = 1 - (Cardinality(A) % 2)
    BY <1>2, <2>2, <2>3
  <2> QED
    BY <2>4 DEF Lsb, A, B, b
<1>6. CASE d \notin a
  <2>1. B = A \cup {d} /\ d \notin A
    BY <1>3, <1>4, <1>6
  <2> HIDE DEF A, B
  <2>2. Cardinality(B) = Cardinality(A) + 1
    BY <1>1, <2>1, FS_AddElement
  <2>3. Cardinality(B) % 2 = 1 - (Cardinality(A) % 2)
    BY <1>2, <2>2
  <2> QED
    BY <2>3 DEF Lsb, A, B, b
<1> QED
  BY <1>5, <1>6

\* A block stays a finite sum of terms.
LEMMA XorFinite ==
  ASSUME NEW a, NEW b, IsFiniteSet(a), IsFiniteSet(b) PROVE IsFiniteSet(BlockXor(a, b))
<1>1. IsFiniteSet(a \cup b)
  BY FS_Union
<1>2. BlockXor(a, b) \subseteq a \cup b
  BY DEF BlockXor
<1> QED
  BY <1>1, <1>2, FS_Subset

\* The algebra of half-gates, for any labels x and y of 0, any difference d,
\* any hashes: h0 and h1 are those of the two labels of x, k0 and k1 those
\* of the two labels of y, p and q the pointer bits of x and y.
LEMMA HalfGateAlgebra ==
  ASSUME NEW x, NEW d, NEW h0, NEW h1, NEW k0, NEW k1,
         NEW p \in {0, 1}, NEW q \in {0, 1}, NEW a \in BOOLEAN, NEW b \in BOOLEAN,
         NEW tg, tg = BlockXor(BlockXor(h0, h1), Select(q, d)),
         NEW te, te = BlockXor(BlockXor(k0, k1), x),
         NEW label, label = BlockXor(BlockXor(h0, Select(p, tg)),
                                     BlockXor(k0, Select(q, BlockXor(te, x)))),
         NEW pa, pa = IF a THEN 1 - p ELSE p, NEW qb, qb = IF b THEN 1 - q ELSE q,
         NEW mx, mx = IF a THEN BlockXor(x, d) ELSE x
  PROVE  BlockXor(BlockXor(IF a THEN h1 ELSE h0, Select(pa, tg)),
                  BlockXor(IF b THEN k1 ELSE k0, Select(qb, BlockXor(te, mx))))
           = IF a /\ b THEN BlockXor(label, d) ELSE label
<1>1. CASE a /\ b
  BY <1>1 DEF BlockXor, Select
<1>2. CASE a /\ ~b
  BY <1>2 DEF BlockXor, Select
<1>3. CASE ~a /\ b
  BY <1>3 DEF BlockXor, Select
<1>4. CASE ~a /\ ~b
  BY <1>4 DEF BlockXor, Select
<1> QED
  BY <1>1, <1>2, <1>3, <1>4

\* and_gate of the two parties, on labels of 0 of the inputs and on the MACs
\* of any two bits.
LEMMA AndCorrect ==
  ASSUME NEW x, NEW y, IsFiniteSet(x), IsFiniteSet(y), NEW gid \in Int,
         NEW a \in BOOLEAN, NEW b \in BOOLEAN, NEW c \in BOOLEAN, c <=> a /\ b
  PROVE  /\ EvaluateAnd(Authenticated(x, a), Authenticated(y, b), GarbleAnd(x, y, gid).gate, gid)
              = Authenticated(GarbleAnd(x, y, gid).label, c)
         /\ IsFiniteSet(GarbleAnd(x, y, gid).label)
<1> DEFINE h0 == Tccr(x, gid)
           h1 == Tccr(BlockXor(x, Delta), gid)
           k0 == Tccr(y, gid + 1)
           k1 == Tccr(BlockXor(y, Delta), gid + 1)
           tg == BlockXor(BlockXor(h0, h1), Select(Lsb(y), Delta))
           te == BlockXor(BlockXor(k0, k1), x)
           label == BlockXor(BlockXor(h0, Select(Lsb(x), tg)),
                             BlockXor(k0, Select(Lsb(y), BlockXor(te, x))))
           mx == IF a THEN BlockXor(x, Delta) ELSE x
           my == IF b THEN BlockXor(y, Delta) ELSE y
<1>1. /\ GarbleAnd(x, y, gid).label = label
      /\ GarbleAnd(x, y, gid).gate[1] = tg /\ GarbleAnd(x, y, gid).gate[2] = te
  BY DEF GarbleAnd
<1>2. Authenticated(x, a) = mx /\ Authenticated(y, b) = my
  BY DEF Authenticated
<1>3. Lsb(x) \in {0, 1} /\ Lsb(y) \in {0, 1}
  BY LsbType
<1>4. Lsb(mx) = (IF a THEN 1 - Lsb(x) ELSE Lsb(x)) /\ Lsb(my) = (IF b THEN 1 - Lsb(y) ELSE Lsb(y))
  BY LsbFlips
<1>5. Tccr(mx, gid) = (IF a THEN h1 ELSE h0) /\ Tccr(my, gid + 1) = (IF b THEN k1 ELSE k0)
  OBVIOUS
<1>6. IsFiniteSet(Delta) /\ IsFiniteSet({}) /\ \A s, n : IsFiniteSet(Tccr(s, n))
  BY FS_Singleton, FS_EmptySet DEF Delta, Tccr
<1>7. IsFiniteSet(h0) /\ IsFiniteSet(h1) /\ IsFiniteSet(k0) /\ IsFiniteSet(k1)
  BY <1>6
<1> HIDE DEF h0, h1, k0, k1
<1>8. IsFiniteSet(label)
  <2>1. \A bit, s : IsFiniteSet(s) => IsFiniteSet(Select(bit, s))
    BY <1>6 DEF Select
  <2>2. IsFiniteSet(tg) /\ IsFiniteSet(te)
    BY <1>6, <1>7, <2>1, XorFinite
  <2> HIDE DEF tg, te
  <2> QED
    BY <1>7, <2>1, <2>2, XorFinite
<1>9. tg = BlockXor(BlockXor(h0, h1), Select(Lsb(y), Delta)) /\ te = BlockXor(BlockXor(k0, k1), x)
  OBVIOUS
<1> HIDE DEF tg, te
<1>10. label = BlockXor(BlockXor(h0, Select(Lsb(x), tg)),
                        BlockXor(k0, Select(Lsb(y), BlockXor(te, x))))
  OBVIOUS
<1> HIDE DEF label
<1>11. EvaluateAnd(mx, my, GarbleAnd(x, y, gid).gate, gid)
         = BlockXor(BlockXor(IF a THEN h1 ELSE h0, Select(Lsb(mx), tg)),
                    BlockXor(IF b THEN k1 ELSE k0, Select(Lsb(my), BlockXor(te, mx))))
  BY <1>1, <1>5 DEF EvaluateAnd
<1>12. mx = IF a THEN BlockXor(x, Delta) ELSE x
  OBVIOUS
<1> HIDE DEF mx, my
<1>13. BlockXor(BlockXor(IF a THEN h1 ELSE h0, Select(Lsb(mx), tg)),
                BlockXor(IF b THEN k1 ELSE k0, Select(Lsb(my), BlockXor(te, mx))))
         = IF a /\ b THEN BlockXor(label, Delta) ELSE label
  BY <1>3, <1>4, <1>9, <1>10, <1>12, HalfGateAlgebra
<1> QED
  BY <1>1, <1>2, <1>8, <1>11, <1>13 DEF Authenticated
-----------------------------------------------------------------------------
(***************************************************************************)
(* One gate of a circuit.  While the garbler and the evaluator walk the    *)
(* gates, the evaluator holds on every wire the MAC of the wire's bit      *)
(* under the garbler's label.                                              *)
(***************************************************************************)
InStep(garbler, evaluator, wires, W) ==
  /\ garbler = [labels |-> garbler.labels, gid |-> garbler.gid, gates |-> garbler.gates]
  /\ evaluator = [labels |-> evaluator.labels, gid |-> evaluator.gid, gates |-> evaluator.gates]
  /\ garbler.labels = [w \in W |-> garbler.labels[w]]
  /\ evaluator.labels = [w \in W |-> evaluator.labels[w]]
  /\ wires \in [W -> BOOLEAN]
  /\ garbler.gid \in Int /\ evaluator.gid = garbler.gid
  /\ \A w \in W : /\ IsFiniteSet(garbler.labels[w])
                  /\ evaluator.labels[w] = Authenticated(garbler.labels[w], wires[w])

\* Garbling is correct gate by gate, whatever the circuit, the labels and
\* the bits: if the two walks are in step before a gate, and the evaluator's
\* next encrypted gate is the one the garbler made for it, they are in step
\* after the gate, with the bit that evaluate_raw computes on the gate's
\* output (Garbler::generate, Evaluator::evaluate and and_gate of both).
THEOREM GateGarbledRight ==
  ASSUME NEW W, NEW garbler, NEW evaluator, NEW wires, InStep(garbler, evaluator, wires, W),
         NEW g, g.x \in W, g.y \in W, g.z \in W, g.type \in {"and", "xor", "inv", "id"},
         g.type = "and" =>
           Head(evaluator.gates)
             = GarbleAnd(garbler.labels[g.x], garbler.labels[g.y], garbler.gid).gate
  PROVE  InStep(GarbleGate(garbler, g), EvaluateGate(evaluator, g),
                [wires EXCEPT ![g.z] = GateValue(g, wires)], W)
<1> DEFINE x == garbler.labels[g.x]
           y == garbler.labels[g.y]
           a == wires[g.x]
           b == wires[g.y]
           and == GarbleAnd(x, y, garbler.gid)
<1>1. /\ IsFiniteSet(x) /\ IsFiniteSet(y) /\ a \in BOOLEAN /\ b \in BOOLEAN /\ garbler.gid \in Int
      /\ evaluator.labels[g.x] = Authenticated(x, a) /\ evaluator.labels[g.y] = Authenticated(y, b)
      /\ evaluator.gid = garbler.gid
  BY DEF InStep
\* The output wire gets `label' and `mac', and the gate ids move together.
<1>2. ASSUME NEW label, NEW mac, NEW bit \in BOOLEAN, NEW gid \in Int, NEW gs, NEW es,
             IsFiniteSet(label), mac = Authenticated(label, bit)
      PROVE  InStep([labels |-> [garbler.labels EXCEPT ![g.z] = label], gid |-> gid, gates |-> gs],
                    [labels |-> [evaluator.labels EXCEPT ![g.z] = mac], gid |-> gid, gates |-> es],
                    [wires EXCEPT ![g.z] = bit], W)
  BY <1>2 DEF InStep
<1>3. IsFiniteSet(Delta)
  BY FS_Singleton DEF Delta
<1> HIDE DEF x, y, a, b
<1>4. CASE g.type = "and"
  <2>2. GarbleGate(garbler, g)
          = [labels |-> [garbler.labels EXCEPT ![g.z] = and.label],
             gid |-> garbler.gid + 2, gates |-> Append(garbler.gates, and.gate)]
    BY <1>4 DEF GarbleGate, x, y
  <2>3. EvaluateGate(evaluator, g)
          = [labels |-> [evaluator.labels EXCEPT ![g.z] =
                           EvaluateAnd(Authenticated(x, a), Authenticated(y, b), and.gate, garbler.gid)],
             gid |-> garbler.gid + 2, gates |-> Tail(evaluator.gates)]
    BY <1>1, <1>4 DEF EvaluateGate, x, y
  <2>4. GateValue(g, wires) <=> a /\ b
    BY <1>4 DEF GateValue, a, b
  <2>5. garbler.gid + 2 \in Int
    BY <1>1
  <2>6. GateValue(g, wires) \in BOOLEAN
    BY <1>1, <1>4 DEF GateValue, a, b
  <2> DEFINE mac == EvaluateAnd(Authenticated(x, a), Authenticated(y, b), and.gate, garbler.gid)
  <2>7. mac = Authenticated(and.label, GateValue(g, wires)) /\ IsFiniteSet(and.label)
    <3>1. \A p, q, c \in BOOLEAN : (c <=> p /\ q) =>
            /\ EvaluateAnd(Authenticated(x, p), Authenticated(y, q), and.gate, garbler.gid)
                 = Authenticated(and.label, c)
            /\ IsFiniteSet(and.label)
      BY <1>1, AndCorrect
    <3> HIDE DEF and
    <3> QED
      BY <1>1, <2>4, <2>6, <3>1
  <2>8. EvaluateGate(evaluator, g)
          = [labels |-> [evaluator.labels EXCEPT ![g.z] = mac],
             gid |-> garbler.gid + 2, gates |-> Tail(evaluator.gates)]
    BY <2>3, Zenon
  <2> HIDE DEF and, mac
  <2>9. InStep([labels |-> [garbler.labels EXCEPT ![g.z] = and.label],
                gid |-> garbler.gid + 2, gates |-> Append(garbler.gates, and.gate)],
               [labels |-> [evaluator.labels EXCEPT ![g.z] = mac],
                gid |-> garbler.gid + 2, gates |-> Tail(evaluator.gates)],
               [wires EXCEPT ![g.z] = GateValue(g, wires)], W)
    BY <1>2, <2>5, <2>6, <2>7, <2>8, Zenon
  <2> QED
    BY <2>2, <2>8, <2>9, Zenon
\* The gates that cost nothing.
<1>5. ASSUME NEW label, NEW mac,
             GarbleGate(garbler, g) = [garbler EXCEPT !.labels[g.z] = label],
             EvaluateGate(evaluator, g) = [evaluator EXCEPT !.labels[g.z] = mac],
             GateValue(g, wires) \in BOOLEAN, IsFiniteSet(label),
             mac = Authenticated(label, GateValue(g, wires))
      PROVE  InStep(GarbleGate(garbler, g), EvaluateGate(evaluator, g),
                    [wires EXCEPT ![g.z] = GateValue(g, wires)], W)
  <2>1. /\ GarbleGate(garbler, g) = [labels |-> [garbler.labels EXCEPT ![g.z] = label],
                                     gid |-> garbler.gid, gates |-> garbler.gates]
        /\ EvaluateGate(evaluator, g) = [labels |-> [evaluator.labels EXCEPT ![g.z] = mac],
                                         gid |-> garbler.gid, gates |-> evaluator.gates]
    BY <1>5 DEF InStep
  <2>2. InStep([labels |-> [garbler.labels EXCEPT ![g.z] = label],
                gid |-> garbler.gid, gates |-> garbler.gates],
               [labels |-> [evaluator.labels EXCEPT ![g.z] = mac],
                gid |-> garbler.gid, gates |-> evaluator.gates],
               [wires EXCEPT ![g.z] = GateValue(g, wires)], W)
    BY <1>1, <1>2, <1>5, Zenon
  <2> QED
    BY <2>1, <2>2, Zenon
<1>6. CASE g.type = "xor"
  <2>1. /\ GarbleGate(garbler, g) = [garbler EXCEPT !.labels[g.z] = BlockXor(x, y)]
        /\ EvaluateGate(evaluator, g)
             = [evaluator EXCEPT !.labels[g.z] = BlockXor(Authenticated(x, a), Authenticated(y, b))]
        /\ GateValue(g, wires) = (a # b)
    BY <1>1, <1>6 DEF GarbleGate, EvaluateGate, GateValue, x, y, a, b
  <2>2. BlockXor(Authenticated(x, a), Authenticated(y, b)) = Authenticated(BlockXor(x, y), a # b)
    BY <1>1 DEF Authenticated, BlockXor
  <2>3. IsFiniteSet(BlockXor(x, y)) /\ (a # b) \in BOOLEAN
    BY <1>1, XorFinite
  <2> QED
    BY <1>5, <2>1, <2>2, <2>3
<1>7. CASE g.type = "inv"
  <2>1. /\ GarbleGate(garbler, g) = [garbler EXCEPT !.labels[g.z] = BlockXor(x, Delta)]
        /\ EvaluateGate(evaluator, g) = [evaluator EXCEPT !.labels[g.z] = Authenticated(x, a)]
        /\ GateValue(g, wires) = ~a
    BY <1>1, <1>7 DEF GarbleGate, EvaluateGate, GateValue, x, y, a, b
  <2>2. Authenticated(x, a) = Authenticated(BlockXor(x, Delta), ~a)
    BY <1>1 DEF Authenticated, BlockXor
  <2>3. IsFiniteSet(BlockXor(x, Delta)) /\ (~a) \in BOOLEAN
    BY <1>1, <1>3, XorFinite
  <2> QED
    BY <1>5, <2>1, <2>2, <2>3
<1>8. CASE g.type = "id"
  <2>1. /\ GarbleGate(garbler, g) = [garbler EXCEPT !.labels[g.z] = x]
        /\ EvaluateGate(evaluator, g) = [evaluator EXCEPT !.labels[g.z] = Authenticated(x, a)]
        /\ GateValue(g, wires) = a
    BY <1>1, <1>8 DEF GarbleGate, EvaluateGate, GateValue, x, y, a, b
  <2> QED
    BY <1>1, <1>5, <2>1
<1> QED
  BY <1>4, <1>6, <1>7, <1>8
=============================================================================
