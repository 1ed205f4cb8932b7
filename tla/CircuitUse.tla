----------------------------- MODULE CircuitUse -----------------------------
(***************************************************************************)
(* Circuits as their users make them: gate by gate, from a file, or out of *)
(* the word gadgets.  Beside every node and word the model keeps what it   *)
(* is supposed to be: the set of inputs on which a node is true, the       *)
(* number a word is on each input.                                         *)
(***************************************************************************)
EXTENDS HalfGates

-----------------------------------------------------------------------------
(***************************************************************************)
(* The BLAKE3 compression circuit, on words of any width; a state and a    *)
(* message are 16 words each.  With it, what the compression function is,  *)
(* on numbers.                                                             *)
(***************************************************************************)
CONSTANTS
  Width,       \* bits in a word
  Rotations    \* the four rotations of mix

MsgPermutation == <<2, 6, 3, 10, 7, 0, 4, 13, 1, 11, 12, 5, 9, 14, 15, 8>>
Rounds == 7

\* Right by k on the number is left by k on the bits, lowest first.
RotateBits(word, k) ==
  LET j == k % Len(word) IN SubSeq(word, j + 1, Len(word)) \o SubSeq(word, 1, j)

\* mix, on state words a, b, c, d with message words x and y: word i is
\* added or xored with word j, then rotated.
MixSteps ==
  << <<"add", 1, 2, 0>>, <<"add", 1, 5, 0>>, <<"xor", 4, 1, Rotations[1]>>,
     <<"add", 3, 4, 0>>, <<"xor", 2, 3, Rotations[2]>>,
     <<"add", 1, 2, 0>>, <<"add", 1, 6, 0>>, <<"xor", 4, 1, Rotations[3]>>,
     <<"add", 3, 4, 0>>, <<"xor", 2, 3, Rotations[4]>> >>

Changed(n, i, m, k) == Made(m.b, [n EXCEPT ![i] = RotateBits(m.n, k)])

WordOp(acc, st) ==
  Changed(acc.n, st[2],
          IF st[1] = "add" THEN WrappingAdd(acc.b, acc.n[st[2]], acc.n[st[3]])
          ELSE XorWord(acc.b, acc.n[st[2]], acc.n[st[3]]), st[4])

PutBack(st, s, m) ==
  Made(m.b, [st EXCEPT ![s[1]] = m.n[1], ![s[2]] = m.n[2], ![s[3]] = m.n[3], ![s[4]] = m.n[4]])

Mix(b, st, msg, s, m) ==
  PutBack(st, s, FoldGates(WordOp, Made(b, <<st[s[1]], st[s[2]], st[s[3]], st[s[4]],
                                             msg[m[1]], msg[m[2]]>>), MixSteps))

\* Columns, then diagonals.
Mixes == << <<0, 4, 8, 12>>, <<1, 5, 9, 13>>, <<2, 6, 10, 14>>, <<3, 7, 11, 15>>,
            <<0, 5, 10, 15>>, <<1, 6, 11, 12>>, <<2, 7, 8, 13>>, <<3, 4, 9, 14>> >>

\* Number i of the eight mixes of a round.
MixOfRound(b, st, msg, i) ==
  Mix(b, st, msg, [k \in 1 .. 4 |-> Mixes[i][k] + 1], <<2 * i - 1, 2 * i>>)

\* The message after a round; the last round needs no other.
Permute(msg) == [i \in 1 .. 16 |-> msg[MsgPermutation[i] + 1]]

\* After the last round: both halves are xored into each other, and the
\* initial state into the second.
FoldHalves(b, st, initial) ==
  LET Fold(acc, i) ==
        LET lo == XorWord(acc.b, acc.n[i], acc.n[i + 8])
            hi == XorWord(lo.b, acc.n[i + 8], initial[i])
        IN  Made(hi.b, [acc.n EXCEPT ![i] = lo.n, ![i + 8] = hi.n])
  IN  FoldGates(Fold, Made(b, st), [i \in 1 .. 8 |-> i])

-----------------------------------------------------------------------------
(***************************************************************************)
(* BLAKE3's compression function on numbers: the message word of round r   *)
(* and place i is the one the permutation, applied r times, brings there.  *)
(***************************************************************************)
Modulus == 2 ^ Width

BitOf(x, i) == (x \div (2 ^ i)) % 2

XorNum(x, y) ==
  FoldLeft(LAMBDA acc, i : acc + ((BitOf(x, i - 1) + BitOf(y, i - 1)) % 2) * 2 ^ (i - 1),
           0, [i \in 1 .. Width |-> i])

RotateRight(x, k) ==
  LET j == k % Width
  IN  (x \div (2 ^ j)) + (x % (2 ^ j)) * 2 ^ (Width - j)

HalfMixNum(v, s, x, j, k) ==
  LET a == (v[s[1]] + v[s[2]] + x) % Modulus
      d == RotateRight(XorNum(v[s[4]], a), j)
      c == (v[s[3]] + d) % Modulus
  IN  [v EXCEPT ![s[1]] = a, ![s[2]] = RotateRight(XorNum(@, c), k), ![s[3]] = c, ![s[4]] = d]

MixNum(v, s, x, y) ==
  HalfMixNum(HalfMixNum(v, s, x, Rotations[1], Rotations[2]), s, y, Rotations[3], Rotations[4])

Schedule[r \in 0 .. (Rounds - 1)] ==
  IF r = 0 THEN [i \in 1 .. 16 |-> i]
  ELSE [i \in 1 .. 16 |-> Schedule[r - 1][<<3, 7, 4, 11, 8, 1, 5, 14, 2, 12, 13, 6, 10, 15, 16, 9>>[i]]]

\* Column q mixes words q, q+4, q+8, q+12; diagonal q the same, each of the
\* four rows one further round.  Mix i of round r, and what follows the
\* last.
Place(q, row, diagonal) == row * 4 + ((q + (IF diagonal THEN row ELSE 0)) % 4) + 1

MixOfRoundNum(v, msg, r, i) ==
  MixNum(v, [k \in 1 .. 4 |-> Place((i - 1) % 4, k - 1, i > 4)],
         msg[Schedule[r][2 * i - 1]], msg[Schedule[r][2 * i]])

FoldHalvesNum(v, initial) ==
  [i \in 1 .. 16 |-> IF i <= 8 THEN XorNum(v[i], v[i + 8]) ELSE XorNum(v[i], initial[i - 8])]

-----------------------------------------------------------------------------
CONSTANTS
  MaxInputs,    \* inputs of a hand-made circuit or a file
  MaxGates,     \* gates of a hand-made circuit
  MaxLines,     \* gates of a file
  MaxOutputs,   \* outputs of either
  Patterns,     \* the operands of gadgets: which bits are inputs, which constants
  MaxWordOps,   \* gadgets applied one after the other
  Seeds         \* <<a, b>>: word i of a compressed message is a * i + b

VARIABLES
  mode,      \* gates, file, words or compress; off when nothing is made
  builder,
  nodes,     \* of the gates: [n, e], the node and the inputs it is true on
  out,       \* the entries of `nodes' that are outputs
  words,     \* of the gadgets: [n, e], the nodes and the number on each input
  file,      \* the lines of a file
  press      \* of the compression: mixes done, message now and given, first state

vars == <<mode, builder, nodes, out, words, file, press>>

Assignments == [1 .. MaxInputs -> BOOLEAN]
Node(n, e) == [n |-> n, e |-> e]
Constants == <<Node(Zero, {}), Node(One, Assignments)>>

EmptyFile == [inputs |-> MaxInputs, outputs |-> MaxOutputs, gates |-> <<>>]

Blank ==
  /\ builder = NewBuilder
  /\ nodes = Constants
  /\ out = <<>>
  /\ words = <<>>
  /\ file = EmptyFile
  /\ press = [turn |-> 0, msg |-> <<>>, given |-> <<>>, initial |-> <<>>]

Init == mode \in {"gates", "file", "words", "compress"} /\ Blank
Off == mode = "off" /\ Blank

-----------------------------------------------------------------------------
\* Gate by gate.

Input ==
  /\ mode = "gates" /\ Len(builder.inputs) < MaxInputs
  /\ LET m == AddInput(builder)
         k == Len(m.b.inputs)
     IN  /\ builder' = m.b
         /\ nodes' = Append(nodes, Node(m.n, {a \in Assignments : a[k]}))
  /\ UNCHANGED <<mode, out, words, file, press>>

Added(m, e) == builder' = m.b /\ nodes' = Append(nodes, Node(m.n, e))

\* The order of two wires matters only where a constant is one of them.
InterestingPair(i, j) == i <= j \/ IsConst(nodes[j].n)

Gate ==
  /\ mode = "gates" /\ Len(nodes) < 2 + MaxInputs + MaxGates
  /\ \E i, j \in DOMAIN nodes : InterestingPair(i, j) /\
       LET x == nodes[i]
           y == nodes[j]
       IN  \/ Added(AddXor(builder, x.n, y.n), (x.e \cup y.e) \ (x.e \cap y.e))
           \/ Added(AddAnd(builder, x.n, y.n), x.e \cap y.e)
           \/ i = j /\ Added(AddInv(builder, x.n), Assignments \ x.e)
           \/ i = j /\ Added(AddId(builder, x.n), x.e)
  /\ UNCHANGED <<mode, out, words, file, press>>

\* As every caller does: a gate's own wire, and each at most once.
Output ==
  /\ mode = "gates" /\ Len(out) < MaxOutputs
  /\ \E i \in DOMAIN nodes :
       /\ \E g \in ToSet(builder.gates) : g.z = nodes[i].n
       /\ nodes[i].n \notin ToSet(builder.outputs)
       /\ builder' = AddOutput(builder, nodes[i].n)
       /\ out' = Append(out, i)
  /\ UNCHANGED <<mode, nodes, words, file, press>>

-----------------------------------------------------------------------------
\* Lines of a file.  A line may number its wire as it likes; the order of
\* two inputs that are wires does not matter.

FileWires == 0 .. (MaxInputs + MaxLines - 1)
Driven == (0 .. (MaxInputs - 1)) \cup {g.z : g \in ToSet(file.gates)}

Line ==
  /\ mode = "file" /\ Len(file.gates) < MaxLines
  /\ \E x, y \in Driven, z \in FileWires \ Driven, t \in {"xor", "and", "inv"} :
       /\ x <= y /\ (t = "inv" => x = y)
       /\ file' = [file EXCEPT !.gates =
                     Append(@, [type |-> t, x |-> x, y |-> y, z |-> z])]
  /\ UNCHANGED <<mode, builder, nodes, out, words, press>>

\* What the file says.
FileValue(f, a) ==
  LET wires == EvaluateRaw(f.gates, [w \in FileWires |-> w < MaxInputs /\ a[w + 1]])
  IN  [j \in 1 .. f.outputs |-> wires[MaxInputs + MaxLines - f.outputs + j - 1]]

-----------------------------------------------------------------------------
\* Words: each bit an input or a constant.  Two operands, then gadgets.

Bit(p, b) == IF p = "in" THEN AddInput(b) ELSE Made(b, IF p = "one" THEN One ELSE Zero)

MakeWord(b, pattern) ==
  FoldLeft(LAMBDA acc, p : Numbering(acc.n, Bit(p, acc.b)),
           Made(b, <<>>), pattern)

WordInputs == [1 .. (2 * Width) -> BOOLEAN]
NumbersOf(b, word) == [a \in WordInputs |-> WordValue(NodeValues(b, a), word)]

NewWord ==
  /\ mode = "words" /\ Len(words) < 2
  /\ \E pattern \in Patterns :
       \E m \in {MakeWord(builder, pattern)} :
         /\ builder' = m.b
         /\ words' = Append(words, [n |-> m.n, e |-> NumbersOf(m.b, m.n)])
  /\ UNCHANGED <<mode, nodes, out, file, press>>

Numeral(x) == [i \in 1 .. Width |-> IF BitOf(x, i - 1) = 1 THEN One ELSE Zero]

OfSub(op, r) == Made(r.b, IF op = "sub" THEN r.n ELSE <<r.underflow>>)
OfMix(r) == Made(r.b, r.n[2])

\* The gadgets and what they should make of numbers x and y.
Gadget(op, b, x, y) ==
  CASE op = "add" -> WrappingAdd(b, x, y)
    [] op \in {"sub", "less"} -> OfSub(op, WrappingSub(b, x, y))
    [] op = "xor" -> XorWord(b, x, y)
    [] op = "and" -> AndWord(b, x, y)
    [] op = "or" -> OrWord(b, x, y)
    [] op = "inv" -> InvWord(b, x)
    [] op = "switch" -> Switch(b, x, y, x[1])
    [] op = "add_mod" -> AddMod(b, x, y, Numeral(Modulus - 1))
    [] op = "mix" -> OfMix(Mix(b, <<x, y, x, y>>, <<x, y>>, <<1, 2, 3, 4>>, <<1, 2>>))

AndNum(x, y) ==
  FoldLeft(LAMBDA acc, i : acc + BitOf(x, i - 1) * BitOf(y, i - 1) * 2 ^ (i - 1),
           0, [i \in 1 .. Width |-> i])

Meaning(op, x, y) ==
  CASE op = "add" -> (x + y) % Modulus
    [] op = "sub" -> (x - y) % Modulus
    [] op = "less" -> IF x < y THEN 1 ELSE 0
    [] op = "xor" -> XorNum(x, y)
    [] op = "and" -> AndNum(x, y)
    [] op = "or" -> x + y - AndNum(x, y)
    [] op = "inv" -> Modulus - 1 - x
    [] op = "switch" -> IF x % 2 = 0 THEN x ELSE y
    [] op = "add_mod" -> (x + y) % (Modulus - 1)
    [] op = "mix" -> MixNum(<<x, y, x, y>>, <<1, 2, 3, 4>>, x, y)[2]

Gadgets == {"add", "sub", "less", "xor", "and", "or", "inv", "switch", "add_mod", "mix"}

\* add_mod is promised for summands below the modulus.
Defined(op, x, y) == op = "add_mod" => x < Modulus - 1 /\ y < Modulus - 1

Apply ==
  /\ mode = "words" /\ Len(words) \in 2 .. (1 + MaxWordOps)
  /\ \E op \in Gadgets, i, j \in DOMAIN words :
       /\ Len(words[i].n) = Width /\ Len(words[j].n) = Width
       /\ \A a \in WordInputs : Defined(op, words[i].e[a], words[j].e[a])
       /\ \E m \in {Gadget(op, builder, words[i].n, words[j].n)} :
            /\ builder' = m.b
            /\ words' = Append(words, [n |-> m.n,
                                       e |-> [a \in WordInputs |->
                                                Meaning(op, words[i].e[a], words[j].e[a])]])
  /\ UNCHANGED <<mode, nodes, out, file, press>>

-----------------------------------------------------------------------------
(***************************************************************************)
(* The compression circuit, mix by mix, on constant words: every gate      *)
(* folds away as it is added.                                              *)
(***************************************************************************)
Seeded(s) == [i \in 1 .. 16 |-> (s[1] * i + s[2]) % Modulus]

Numerals(nums) == [i \in 1 .. 16 |-> Numeral(nums[i])]
Known(nodesOf, nums) ==
  [i \in 1 .. 16 |-> [n |-> nodesOf[i], e |-> [a \in WordInputs |-> nums[i]]]]

Load ==
  /\ mode = "compress" /\ words = <<>>
  /\ \E m, s \in Seeds :
       /\ words' = Known(Numerals(Seeded(s)), Seeded(s))
       /\ press' = [turn |-> 0, msg |-> Numerals(Seeded(m)),
                    given |-> Seeded(m), initial |-> Seeded(s)]
  /\ UNCHANGED <<mode, builder, nodes, out, file>>

Numbers == [i \in 1 .. 16 |-> words[i].e[CHOOSE a \in WordInputs : TRUE]]
WordNodes == [i \in 1 .. 16 |-> words[i].n]

\* round, and the permutation between rounds.
MixStep ==
  /\ mode = "compress" /\ words # <<>> /\ press.turn < 8 * Rounds
  /\ LET i == (press.turn % 8) + 1
     IN  \E m \in {MixOfRound(builder, WordNodes, press.msg, i)} :
           /\ builder' = m.b
           /\ words' = Known(m.n, MixOfRoundNum(Numbers, press.given, press.turn \div 8, i))
           /\ press' = [press EXCEPT !.turn = @ + 1,
                          !.msg = IF i = 8 /\ press.turn < 8 * Rounds - 1 THEN Permute(@) ELSE @]
  /\ UNCHANGED <<mode, nodes, out, file>>

FoldStep ==
  /\ mode = "compress" /\ words # <<>> /\ press.turn = 8 * Rounds
  /\ \E m \in {FoldHalves(builder, WordNodes, Numerals(press.initial))} :
       /\ builder' = m.b
       /\ words' = Known(m.n, FoldHalvesNum(Numbers, press.initial))
       /\ press' = [press EXCEPT !.turn = @ + 1]
  /\ UNCHANGED <<mode, nodes, out, file>>

Next == Input \/ Gate \/ Output \/ Line \/ NewWord \/ Apply \/ Load \/ MixStep \/ FoldStep

Spec == Init /\ [][Next]_vars

-----------------------------------------------------------------------------
\* A word made by gadgets is, on every input, the number arithmetic says:
\* also at the wrap-around, and whichever bits were constants.
ArithmeticRight ==
  words # <<>> =>
    \A a \in WordInputs :
      \E values \in {NodeValues(builder, a)} :
        \A i \in DOMAIN words : WordValue(values, words[i].n) = words[i].e[a]

\* A built circuit computes what its gates, the lines of its file or its
\* gadgets say, on every input: no wire is lost or confused when constants
\* are folded away and all wires are renumbered.
BuiltComputes ==
  /\ ArithmeticRight
  /\ out # <<>> =>
       LET c == Build(builder)
       IN  \A a \in Assignments :
             Evaluate(c, SubSeq(a, 1, Len(builder.inputs)))
               = [j \in DOMAIN out |-> a \in nodes[out[j]].e]
  /\ Len(file.gates) = MaxLines =>
       LET c == Parse(file)
       IN  \A a \in Assignments : Evaluate(c, a) = FileValue(file, a)

\* Garbled with any labels, streamed in batches and evaluated on the MACs of
\* any input, a circuit yields the MACs, under the garbler's output keys, of
\* what it computes.
GarbledComputes(c) ==
  \A pointers \in [1 .. c.inputs -> {0, 1}] :
    \E keys \in {InputKeys(pointers)} :
      \E garbled \in {Garble(c, keys)} :
        \A a \in [1 .. c.inputs -> BOOLEAN] :
          EvaluateGarbled(c, [i \in 1 .. c.inputs |-> Authenticated(keys[i], a[i])],
                          Received(c, Batches(garbled.gates)))
            = [j \in DOMAIN garbled.outputs |->
                 Authenticated(garbled.outputs[j], Evaluate(c, a)[j])]

\* Garbling is right for every circuit that is made: half-gates, free gates,
\* gate numbers and the padding of the last batch.
GarblingRight ==
  /\ out # <<>> => \E c \in {Build(builder)} : GarbledComputes(c)
  /\ Len(file.gates) = MaxLines => \E c \in {Parse(file)} : GarbledComputes(c)
=============================================================================
