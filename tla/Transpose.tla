----------------------------- MODULE Transpose -----------------------------
(***************************************************************************)
(* transpose_bits (crates/matrix-transpose): a matrix of bytes is          *)
(* transposed as a matrix of bits, LSB first, without SIMD (lanes = 1) or  *)
(* with registers of `lanes' bytes.  A bit of the input is the place it is *)
(* at, so one run moves every bit and stands for every content.            *)
(***************************************************************************)
EXTENDS Integers, TLC, SequencesExt

CONSTANTS Shapes,    \* the matrices: [rows, len, lanes]; len in bytes
          MaxRounds  \* bound: rows of a matrix are at most 2^MaxRounds

VARIABLES
  shape,   \* the arguments
  buf,     \* the matrix and the cache of transpose_unchecked
  write,   \* the buffer that is written next
  left,    \* rounds left
  step     \* "check", "rounds", "shift", "done", "error", "panic"; "off" when unused

vars == <<shape, buf, write, left, step>>

Buffers == {"matrix", "cache"}
Other(b) == IF b = "matrix" THEN "cache" ELSE "matrix"

Bits == 0..7
Zero == <<>>                      \* a bit that was shifted in

Input(s) == [i \in 1..s.len |-> [b \in Bits |-> <<i, b>>]]
Columns(s) == s.len \div s.rows   \* bytes of a row

Init ==
  /\ shape \in Shapes
  /\ buf = [b \in Buffers |-> Input(shape)]
  /\ write = "matrix"
  /\ left = 0
  /\ step = "check"

NoShape == [rows |-> 0, len |-> 0, lanes |-> 1]
Off == /\ shape = NoShape /\ buf = <<>> /\ write = "matrix" /\ left = 0 /\ step = "off"

-----------------------------------------------------------------------------
\* The checks of transpose_bits, and those of the SIMD version.
Rectangular(s) ==
  /\ s.rows \in {2^k : k \in 0..MaxRounds}
  /\ s.len % s.rows = 0
  /\ Columns(s) % 8 = 0 /\ Columns(s) >= 8

LanesFit(s) ==
  s.lanes > 1 =>
    s.rows >= s.lanes /\ Columns(s) % s.lanes = 0 /\ Columns(s) >= s.lanes

Accepted(s) == Rectangular(s) /\ LanesFit(s)

Check ==
  /\ step = "check"
  /\ step' = IF Accepted(shape) THEN "rounds" ELSE "error"
  /\ UNCHANGED <<shape, buf, write, left>>

-----------------------------------------------------------------------------
\* transpose_unchecked: after rounds that alternate between two buffers the
\* last one has to write the matrix, so an even number starts with the cache.

FirstWritten(rounds) == IF rounds % 2 = 0 THEN "cache" ELSE "matrix"

StartRounds ==
  /\ step = "rounds" /\ left = 0
  /\ \E k \in 0..MaxRounds :
       /\ 2^k = shape.rows
       /\ left' = k
       /\ write' = FirstWritten(k)
       /\ step' = IF k = 0 THEN "shift" ELSE "rounds"
  /\ UNCHANGED <<shape, buf>>

\* Two halves are interleaved.
Interleaved(read) ==
  LET half == Len(read) \div 2
  IN  [i \in 1..2 * half |-> read[(IF i % 2 = 1 THEN 0 ELSE half) + (i + 1) \div 2]]

\* The same by registers: chunk k of both halves fills chunks 2k and 2k + 1.
InterleavedLanes(read, n) ==
  LET half == Len(read) \div 2
      Piece(k) == LET v1 == SubSeq(read, n * k + 1, n * (k + 1))
                      v2 == SubSeq(read, half + n * k + 1, half + n * (k + 1))
                  IN  Interleaved(v1 \o v2)
  IN  FlattenSeq([k \in 1..half \div n |-> Piece(k - 1)])

Round ==
  /\ step = "rounds" /\ left > 0
  /\ buf' = [buf EXCEPT ![write] = IF shape.lanes = 1 THEN Interleaved(buf[Other(write)])
                                   ELSE InterleavedLanes(buf[Other(write)], shape.lanes)]
  /\ write' = Other(write)
  /\ left' = left - 1
  /\ step' = IF left = 1 THEN "shift" ELSE "rounds"
  /\ UNCHANGED shape

-----------------------------------------------------------------------------
\* bitmask_shift: eight times, the lowest bits of every eight bytes of a row
\* are gathered in a byte; `columns' is the number of rows of the input.

\* Byte g of the bits s of a row; a row may end inside the byte.
Gathered(row, s, g) ==
  [k \in Bits |-> IF 8 * g + k < Len(row) THEN row[8 * g + k + 1][s] ELSE Zero]

ShiftRow(row) ==
  LET groups == (Len(row) + 7) \div 8
  IN  [p \in 1..8 * groups |-> Gathered(row, (p - 1) \div groups, (p - 1) % groups)]

\* With SIMD: bytes are reversed, so the highest bits come first; the mask of
\* the reversed lanes is an integer with lane n - 1 - j at bit j, its bytes
\* are taken from the highest down and reversed again.
ReverseBits(byte) == [b \in Bits |-> byte[7 - b]]

MoveMask(chunk, s) ==
  [j \in 0..Len(chunk) - 1 |-> ReverseBits(chunk[Len(chunk) - j])[7 - s]]

MaskBytes(mask, n) ==
  [q \in 1..n \div 8 |-> ReverseBits([t \in Bits |-> mask[8 * ((n \div 8) - q) + t]])]

ShiftRowLanes(row, n) ==
  LET chunks == Len(row) \div n
      Piece(p) == LET s == (p - 1) \div chunks
                      c == (p - 1) % chunks
                  IN  MaskBytes(MoveMask(SubSeq(row, n * c + 1, n * (c + 1)), s), n)
  IN  FlattenSeq([p \in 1..8 * chunks |-> Piece(p)])

\* copy_from_slice of a row of another length panics.
Shift ==
  /\ step = "shift"
  /\ LET columns == shape.rows
         Row(r)  == SubSeq(buf["matrix"], (r - 1) * columns + 1, r * columns)
         New(r)  == IF shape.lanes = 1 THEN ShiftRow(Row(r))
                    ELSE ShiftRowLanes(Row(r), shape.lanes)
     IN  IF Len(New(1)) # columns
         THEN step' = "panic" /\ UNCHANGED buf
         ELSE /\ step' = "done"
              /\ buf' = [buf EXCEPT !["matrix"] =
                           FlattenSeq([r \in 1..Len(@) \div columns |-> New(r)])]
  /\ UNCHANGED <<shape, write, left>>

Next == Check \/ StartRounds \/ Round \/ Shift

Spec == Init /\ [][Next]_vars

-----------------------------------------------------------------------------
\* Bit r of row R of the transposed matrix is bit R of row r of the input:
\* whatever number of rounds, whichever buffer was written last, with and
\* without SIMD (transpose_unchecked and bitmask_shift together).
TransposeRight ==
  step = "done" =>
    \A r \in 0..shape.rows - 1, c \in 0..Columns(shape) - 1, b \in Bits :
      LET row == 8 * c + b
      IN  buf["matrix"][row * (shape.rows \div 8) + (r \div 8) + 1][r % 8]
            = <<r * Columns(shape) + c + 1, b>>
=============================================================================
