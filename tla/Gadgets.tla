------------------------------ MODULE Gadgets ------------------------------
(***************************************************************************)
(* The gadgets of the repository, each used by itself: hash functions run  *)
(* by two parties on an ideal virtual machine, circuits, computations in   *)
(* binary fields, or the transposition of a matrix of bits.                *)
(***************************************************************************)
EXTENDS HashUse

CONSTANTS MaxInputs, MaxGates, MaxLines, MaxOutputs, Patterns, MaxWordOps, Seeds,
          Width, Rotations, BatchSize,
          PieceLen, Elements, MaxOps, Shapes, MaxRounds

VARIABLES mode, builder, nodes, out, words, file, press

VARIABLES kind, value, ideal, ops, loop
VARIABLES shape, buf, write, left, step

circuitVars == <<mode, builder, nodes, out, words, file, press>>
fieldVars   == <<kind, value, ideal, ops, loop>>
matrixVars  == <<shape, buf, write, left, step>>
all         == <<vars, circuitVars, fieldVars, matrixVars>>

Circ   == INSTANCE CircuitUse
Fields == INSTANCE BinaryField
Matrix == INSTANCE Transpose

\* Nothing is hashed.
NoHash ==
  /\ alg = "none"
  /\ script = <<>>
  /\ at = [p \in Party |-> 0]
  /\ vm = [p \in Party |-> NewVm]
  /\ hasher = [p \in Party |-> NewSha]
  /\ pieces = [p \in Party |-> <<>>]
  /\ finals = [p \in Party |-> <<>>]
  /\ stage = [p \in Party |-> "idle"]
  /\ inbox = [p \in Party |-> <<>>]

GadgetInit ==
  \/ Init   /\ Circ!Off  /\ Fields!Off  /\ Matrix!Off
  \/ NoHash /\ Circ!Init /\ Fields!Off  /\ Matrix!Off
  \/ NoHash /\ Circ!Off  /\ Fields!Init /\ Matrix!Off
  \/ NoHash /\ Circ!Off  /\ Fields!Off  /\ Matrix!Init

GadgetNext ==
  \/ alg # "none"  /\ Next        /\ UNCHANGED <<circuitVars, fieldVars, matrixVars>>
  \/ mode # "off"  /\ Circ!Next   /\ UNCHANGED <<vars, fieldVars, matrixVars>>
  \/ kind # "none" /\ Fields!Next /\ UNCHANGED <<vars, circuitVars, matrixVars>>
  \/ step # "off"  /\ Matrix!Next /\ UNCHANGED <<vars, circuitVars, fieldVars>>
  \/ alg = "none"  /\ UNCHANGED all   \* done when its user stops

GadgetSpec == GadgetInit /\ [][GadgetNext]_all

\* See CircuitUse: a circuit computes what its gates, file or gadgets say.
BuiltComputes == Circ!BuiltComputes

\* See CircuitUse: a garbled circuit yields the MACs of what it computes.
GarblingRight == Circ!GarblingRight

\* The fast implementations are right: all backends compute in the field (see
\* BinaryField), and transpose_bits, with and without SIMD, puts every bit
\* where the transposed matrix has it whenever it returns (see Transpose; with
\* 1, 2 or 4 rows it panics, which is no answer to check).
BackendsRight == Fields!ComputesInField /\ Matrix!TransposeRight
=============================================================================
