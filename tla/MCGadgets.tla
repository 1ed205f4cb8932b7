----------------------------- MODULE MCGadgets -----------------------------
(* Messages and circuits for model checking. *)
EXTENDS Gadgets

K(owner, now) == [owner |-> owner, now |-> now]

\* Lengths that end before, at and after a block or chunk boundary; with
\* chunks of four units, 18 units are five chunks.
MCSizes == [sha |-> {2, 4}, keccak |-> {1, 3}, blake3 |-> {1, 9}]
MCKinds == [sha |-> {K("A", TRUE), K("B", FALSE)},
            keccak |-> {K("public", TRUE), K("A", FALSE), K("B", TRUE)},
            blake3 |-> {K("public", TRUE), K("B", FALSE)}]
MCMasks == [sha |-> {FALSE}, keccak |-> BOOLEAN, blake3 |-> BOOLEAN]
MCMaxPieces == [sha |-> 2, keccak |-> 3, blake3 |-> 2]
MCMaxFinals == [sha |-> 2, keccak |-> 1, blake3 |-> 1]

MCPatterns ==
  {<<"in", "in", "in">>, <<"in", "zero", "one">>, <<"one", "in", "zero">>,
   <<"zero", "one", "in">>, <<"one", "one", "one">>, <<"zero", "zero", "zero">>}
MCSeeds == {<<1, 0>>, <<3, 5>>}
MCRotations == <<2, 1, 3, 1>>

\* Bits at both ends of words, all bits set (the most carries), zero, and
\* some in between.
Ends == {0, 2, 31, 63, 64, 66, 95, 96, 121, 125, 127}
MCElements ==
  [gf64  |-> <<0..63, {0, 5, 31, 32, 33, 60, 61, 63}, {i \in 0..63 : i % 3 # 1}, {1}, {}>>,
   gf128 |-> <<0..127, Ends, {i \in 0..127 : i % 5 \in {0, 3}}, {126}, {}>>,
   block |-> <<0..127, Ends, {i \in 0..127 : i % 5 \in {0, 3}}, {127}, {}>>]

\* Shapes of every parity of rounds; shapes a check refuses; few rows.
Shape(rows, columns, lanes) == [rows |-> rows, len |-> rows * columns, lanes |-> lanes]
MCShapes ==
  {Shape(r, c, 1) : r \in {8, 16, 32}, c \in {8, 16, 24}}
    \cup {Shape(r, c, 16) : r \in {8, 16, 32}, c \in {8, 16, 32}}
    \cup {Shape(32, 32, 32), Shape(16, 32, 32), Shape(32, 16, 32)}
    \cup {Shape(r, 8, 1) : r \in {1, 2, 4, 12}}
    \cup {Shape(8, 4, 1), Shape(8, 12, 1), [rows |-> 8, len |-> 65, lanes |-> 1]}
=============================================================================
