---------------------------- MODULE BinaryField ----------------------------
(***************************************************************************)
(* GF(2^64) and GF(2^128) of the fields crate and their three backends:    *)
(* portable ("soft"), carry-less multiply instructions ("x86") and WASM    *)
(* SIMD ("wasm"), at the real widths.                                      *)
(***************************************************************************)
EXTENDS Integers, FiniteSets, TLC, SequencesExt

CONSTANT PieceLen \* elements of a chunk of a parallel inner product

-----------------------------------------------------------------------------
(***************************************************************************)
(* Carry-less multiplication (clmul/src, fields/src/bmul*.rs) and Block's  *)
(* field operations on it (core/src/block.rs).  A word is the set of its   *)
(* bits that are set, so widths are the real ones and "x ^ y" is the       *)
(* symmetric difference; a polynomial over GF(2) is the set of its         *)
(* exponents.  Processor instructions are what their manuals say.          *)
(***************************************************************************)
Xor(x, y) == (x \ y) \cup (y \ x)

\* The same function, every value computed once.
Once(f) == f @@ <<>>

XorAll(s) ==
  LET Odd(f) == {i \in UNION Range(f) : Cardinality({k \in DOMAIN f : i \in f[k]}) % 2 = 1}
  IN  Odd(Once(s))

Lo(x, w)      == x \cap 0..w - 1
Shr(x, k)     == {i - k : i \in {j \in x : j >= k}}
Shl(x, k, w)  == Lo({i + k : i \in x}, w)
Join(l, h, w) == l \cup {i + w : i \in h}

\* The product of two polynomials, by definition.
Product(x, y) ==
  {c \in 0..Max(x \cup {0}) + Max(y \cup {0}) : Cardinality({i \in x : c - i \in y}) % 2 = 1}

-----------------------------------------------------------------------------
(***************************************************************************)
(* The multiplication with holes: every fourth bit of each operand is      *)
(* multiplied as an integer, carries included, and the bits in the holes   *)
(* are dropped.  The w low bits of the product come out.                   *)
(***************************************************************************)

\* The product of integers of w bits, modulo 2^w, byte by byte: what the
\* columns of a byte and the carry into it add up to.
WrappingMul(x, y, w) ==
  LET Column(c) == Cardinality({i \in x : c - i \in y})
      Columns(c) == Column(c) + 2 * Column(c + 1) + 4 * Column(c + 2) + 8 * Column(c + 3)
                      + 16 * Column(c + 4) + 32 * Column(c + 5) + 64 * Column(c + 6)
                      + 128 * Column(c + 7)
      WithByte(low, c, sum) ==
        LET n == low.carry + sum
        IN  [bits  |-> low.bits \cup {c + t : t \in {u \in 0..7 : (n \div 2^u) % 2 = 1}},
             carry |-> n \div 256]
      below[q \in 0..w \div 8] ==
        IF q = 0 THEN [bits |-> {}, carry |-> 0]
        ELSE WithByte(below[q - 1], 8 * (q - 1), Columns(8 * (q - 1)))
  IN  below[w \div 8].bits

Mask(k, w, gap) == {i \in 0..w - 1 : i % gap = k}

Holes(x, y, w, gap) ==
  UNION {Mask(k, w, gap) \cap
           XorAll([i \in 1..gap |-> WrappingMul(x \cap Mask(i - 1, w, gap),
                                      y \cap Mask((k - i + 1) % gap, w, gap), w)])
         : k \in 0..gap - 1}

\* Wrong on purpose: every third bit, so that carries reach the next one.
BmulNarrow(x, y, w) == Holes(x, y, w, 3)

Bmul(x, y, w) == Holes(x, y, w, 4)

\* One exchange of neighbouring groups of k bits.
Exchange(x, k, w) ==
  LET m == {i \in 0..w - 1 : (i \div k) % 2 = 0}
  IN  Shl(x \cap m, k, w) \cup (Shr(x, k) \cap m)

RotateRight(x, k, w) == {(i - k) % w : i \in x}

\* rev32 and rev64 of the clmul crate; SwapBytes ends rev64 of the fields.
Rev(x, w) ==
  LET narrow == Exchange(Exchange(Exchange(Exchange(x, 1, w), 2, w), 4, w), 8, w)
  IN  RotateRight(IF w = 32 THEN narrow ELSE Exchange(narrow, 16, w), w \div 2, w)

SwapBytes(x, w) == {(w - 8 - 8 * (i \div 8)) + (i % 8) : i \in x}

Rev64(x) == SwapBytes(Exchange(Exchange(Exchange(x, 1, 64), 2, 64), 4, 64), 64)

-----------------------------------------------------------------------------
(***************************************************************************)
(* Clmul::clmul: the low and the high half of the product of two blocks.   *)
(***************************************************************************)
Pair(l, h) == [lo |-> l, hi |-> h]

\* soft64: Karatsuba on halves; a reversed product gives the high bits.
Thirds(x) == <<Lo(x, 64), Shr(x, 64), Xor(Lo(x, 64), Shr(x, 64))>>

Assemble64(z, r) ==
  LET High(x) == Shr(Rev(x, 64), 1)
  IN  Pair(Join(z[1], Xor(High(r[1]), XorAll(z)), 64),
           Join(Xor(z[2], High(XorAll(r))), High(r[2]), 64))

Clmul64(a, b) ==
  Assemble64(Once([i \in 1..3 |-> Bmul(Thirds(b)[i], Thirds(a)[i], 64)]),
             Once([i \in 1..3 |-> Bmul(Rev(Thirds(b)[i], 64), Rev(Thirds(a)[i], 64), 64)]))

\* The nine sums of four words whose products Karatsuba needs, twice.
Sums(x) ==
  LET quarters == <<{0}, {1}, {2}, {3}, {0, 1}, {2, 3}, {0, 2}, {1, 3}, {0, 1, 2, 3}>>
  IN  Once([i \in 0..8 |-> XorAll([q \in 1..4 |-> IF q - 1 \in quarters[i + 1] THEN x[q - 1]
                                                                          ELSE {}])])

\* The products of sums, the products of their parts taken away.
Middle(p) ==
  [p EXCEPT ![4] = XorAll(<<@, p[0], p[1]>>), ![5] = XorAll(<<@, p[2], p[3]>>),
            ![8] = XorAll(<<@, p[6], p[7]>>)]

\* soft32: the same with quarters.
Assemble32(c, r) ==
  LET High(s) == Shr(Rev(XorAll(s), 32), 1)
      z == << c[0],
              Xor(c[4], High(<<r[0]>>)),
              XorAll(<<c[1], c[0], c[2], c[6], High(<<r[4]>>)>>),
              XorAll(<<c[4], c[5], c[8], High(<<r[1], r[0], r[2], r[6]>>)>>),
              XorAll(<<c[2], c[1], c[3], c[7], High(<<r[4], r[5], r[8]>>)>>),
              Xor(c[5], High(<<r[2], r[1], r[3], r[7]>>)),
              Xor(c[3], High(<<r[5]>>)),
              High(<<r[3]>>) >>
      U32x4(k) == UNION {{j + 32 * i : j \in z[k + i]} : i \in 0..3}
  IN  Pair(U32x4(1), U32x4(5))

Clmul32(a, b) ==
  LET Words(x) == Sums([i \in 0..3 |-> Lo(Shr(x, 32 * i), 32)])
      Revs(x)  == Sums([i \in 0..3 |-> Rev(Lo(Shr(x, 32 * i), 32), 32)])
      Products(x, y) == Once(Middle(Once([i \in 0..8 |-> Bmul(x[i], y[i], 32)])))
  IN  Assemble32(Products(Words(b), Words(a)), Products(Revs(b), Revs(a)))

-----------------------------------------------------------------------------
\* Instructions on registers of 128 bits: lanes of l bits, shuffles of
\* 32-bit lanes, the product of lane i of x and lane j of y.
SrlLanes(x, k, l) == {i - k : i \in {j \in x : j % l >= k}}
SllLanes(x, k, l) == {i + k : i \in {j \in x : (j % l) + k < l}}
Shuffle(x, from) ==
  UNION {{i + 32 * d : i \in Lo(Shr(x, 32 * from[d + 1]), 32)} : d \in 0..3}
Lane(x, i) == Lo(Shr(x, 64 * i), 64)
ClmulLanes(x, y, i, j) == Product(Lane(x, i), Lane(y, j))

\* clmul.rs.
Up(x) == Shuffle(x, <<2, 3, 0, 0>>)

Karatsuba(t0, t1, m) ==
  LET t2 == XorAll(<<m, t0, t1>>)
  IN  Pair(Join(Lane(t0, 0), Lane(Xor(Up(t0), t2), 0), 64),
           Join(Lane(Xor(t1, Up(t2)), 0), Lane(Up(t1), 0), 64))

ClmulX86(h, y) ==
  Karatsuba(ClmulLanes(y, h, 0, 0), ClmulLanes(y, h, 1, 1),
            ClmulLanes(Xor(y, Up(y)), Xor(h, Up(h)), 0, 0))

\* pmull.rs, and clmul128 of the fields: four products.
ClmulFour(a, b) ==
  LET mid == Xor(ClmulLanes(a, b, 0, 1), ClmulLanes(a, b, 1, 0))
  IN  Pair(Xor(ClmulLanes(a, b, 0, 0), Shl(mid, 64, 128)),
           Xor(ClmulLanes(a, b, 1, 1), Shr(mid, 64)))

-----------------------------------------------------------------------------
(***************************************************************************)
(* Clmul::reduce_gcm, modulo x^128 + x^7 + x^2 + x + 1: x is the low half. *)
(***************************************************************************)

\* backend.rs.
ReduceGcmSoft(x, y) ==
  LET x3 == Shr(y, 64)
      d  == XorAll(<<Lo(y, 64), Shr(x3, 63), Shr(x3, 62), Shr(x3, 57)>>)
      j  == Join(d, x3, 64)
  IN  XorAll(<<x, j, Shl(j, 1, 128), Shl(j, 2, 128), Shl(j, 7, 128)>>)

\* clmul.rs and pmull.rs: lanes of 32 bits; what leaves a lane enters the
\* next one, and what leaves the last one is folded into the first.
ReduceGcmLanes(x, y) ==
  LET out  == Shuffle(XorAll(<<SrlLanes(y, 31, 32), SrlLanes(y, 30, 32), SrlLanes(y, 25, 32)>>),
                      <<3, 0, 1, 2>>)
      t6   == Xor(y, Lo(out, 32))
  IN  XorAll(<<x, out \ 0..31, SllLanes(t6, 1, 32), SllLanes(t6, 2, 32),
               SllLanes(t6, 7, 32), t6>>)

-----------------------------------------------------------------------------
\* Block::clmul, reduce_gcm, gfmul, inn_prdt_no_red and inn_prdt_red, by the
\* backend the processor and the build allow.
BlockBackends == {"soft64", "soft32", "x86", "arm"}

BlockClmul(backend, a, b) ==
  CASE backend = "soft64" -> Clmul64(a, b)
    [] backend = "soft32" -> Clmul32(a, b)
    [] backend = "x86"    -> ClmulX86(a, b)
    [] backend = "arm"    -> ClmulFour(a, b)

ReduceGcm(backend, x, y) ==
  IF backend \in {"soft64", "soft32"} THEN ReduceGcmSoft(x, y) ELSE ReduceGcmLanes(x, y)

\* Sums of pairs, and what a pair (low, high) reduces to.
SumPairs(s) == Pair(XorAll([i \in DOMAIN s |-> s[i].lo]), XorAll([i \in DOMAIN s |-> s[i].hi]))
ReducePair(backend, p) == ReduceGcm(backend, p.lo, p.hi)

Gfmul(backend, a, b) == ReducePair(backend, BlockClmul(backend, a, b))

InnPrdtNoRed(backend, a, b) ==
  SumPairs(Once([i \in DOMAIN a |-> BlockClmul(backend, a[i], b[i])]))

InnPrdtRed(backend, a, b) == ReducePair(backend, InnPrdtNoRed(backend, a, b))

-----------------------------------------------------------------------------
FieldBackends == {"soft", "x86", "wasm"}

\* x^n is the sum of 1 and the taps.
Gf64  == [n |-> 64,  taps |-> <<1, 3, 4>>]
Gf128 == [n |-> 128, taps |-> <<1, 2, 7>>]

-----------------------------------------------------------------------------
(* What a field is: polynomials modulo x^n + the sum of 1 and the taps.     *)

PowersOf(f) ==
  LET power[k \in 0..2 * f.n - 2] ==
        IF k < f.n THEN {k}
        ELSE XorAll(<<power[k - f.n]>> \o [t \in 1..3 |-> power[k - f.n + f.taps[t]]])
  IN  Once(power)

Powers64  == PowersOf(Gf64)
Powers128 == PowersOf(Gf128)

\* The remainder of a polynomial of degree less than 2n - 1.
Remainder(f, z) ==
  LET powers == IF f = Gf64 THEN Powers64 ELSE Powers128
  IN  {b \in 0..f.n - 1 : Cardinality({k \in z : b \in powers[k]}) % 2 = 1}

Times(f, a, b) == Remainder(f, Product(a, b))

-----------------------------------------------------------------------------
(* Reduction: what lies above the n low bits is folded back, and so is what *)
(* the shifts of that push out.                                             *)

Folded(f, x) == XorAll(<<x>> \o [t \in 1..3 |-> Shl(x, f.taps[t], f.n)])

Overflow(f, x) == XorAll([t \in 1..3 |-> Shr(x, f.n - f.taps[t])])

Reduce(f, p) == XorAll(<<p.lo, Folded(f, p.hi), Folded(f, Overflow(f, p.hi))>>)

\* In registers: of the result only the low lane is used.
ReduceX86_64(prod, hi) ==
  LET FoldIn(x, h) == XorAll(<<x, h, SllLanes(h, 1, 64), SllLanes(h, 3, 64), SllLanes(h, 4, 64)>>)
      hi2 == XorAll(<<SrlLanes(hi, 63, 64), SrlLanes(hi, 61, 64), SrlLanes(hi, 60, 64)>>)
  IN  FoldIn(FoldIn(prod, hi), hi2)

\* With two multiplications by R = x^7 + x^2 + x + 1.
ReduceX86_128(p) ==
  LET poly == {0, 1, 2, 7}
      tLo  == ClmulLanes(p.hi, poly, 0, 0)
      tHi  == ClmulLanes(p.hi, poly, 1, 0)
  IN  XorAll(<<p.lo, tLo, Shl(tHi, 64, 128), ClmulLanes(Shr(tHi, 64), poly, 0, 0)>>)

ReduceX86(f, p) ==
  IF f = Gf64 THEN Lane(ReduceX86_64(Join(p.lo, p.hi, 64), p.hi), 0) ELSE ReduceX86_128(p)

ReduceBy(f, backend, p) == IF backend = "x86" THEN ReduceX86(f, p) ELSE Reduce(f, p)

-----------------------------------------------------------------------------
(* The product of two elements, before it is reduced.                       *)

\* bmul64_raw: the high half is still reversed.
Raw(x, y) == Pair(Bmul(x, y, 64), Bmul(Rev64(x), Rev64(y), 64))
Recover(raw) == Pair(raw.lo, Shr(Rev64(raw.hi), 1))
XorPair(p, q) == Pair(Xor(p.lo, q.lo), Xor(p.hi, q.hi))

Bmul64Full(x, y) == Recover(Raw(x, y))

\* Two low halves, two high halves, and the sum of the mixed products.
Merge(p00, p11, mid) ==
  Pair(Xor(Join(p00.lo, p00.hi, 64), Shl(mid.lo, 64, 128)),
       Xor(Join(p11.lo, p11.hi, 64), mid.hi))

LanePairs == {0, 1} \X {0, 1}

Bmul128Full(a, b) ==
  LET Merged(p) == Merge(p[0, 0], p[1, 1], XorPair(p[0, 1], p[1, 0]))
  IN  Merged(Once([l \in LanePairs |-> Bmul64Full(Lane(a, l[1]), Lane(b, l[2]))]))

FullX86(f, a, b) ==
  IF f = Gf64 THEN LET p == ClmulLanes(a, b, 0, 0) IN Pair(Lane(p, 0), Lane(p, 1))
              ELSE ClmulFour(a, b)

Full(f, backend, a, b) ==
  IF backend = "x86" THEN FullX86(f, a, b)
  ELSE IF f = Gf64 THEN Bmul64Full(a, b) ELSE Bmul128Full(a, b)

Mul(f, backend, a, b) == ReduceBy(f, backend, Full(f, backend, a, b))

-----------------------------------------------------------------------------
(* Squaring spreads the bits; in registers it is a multiplication.          *)

Spread(x) ==
  LET Round(v, k) == (v \cup Shl(v, k, 64)) \cap {i \in 0..63 : (i \div k) % 2 = 0}
  IN  Round(Round(Round(Round(Round(x, 16), 8), 4), 2), 1)

Spreads(f, a) ==
  LET quarter(i) == Spread(Lo(Shr(a, 32 * i), 32))
  IN  IF f = Gf64 THEN Pair(quarter(0), quarter(1))
      ELSE Pair(Join(quarter(0), quarter(1), 64), Join(quarter(2), quarter(3), 64))

Square(f, backend, a) ==
  IF f = Gf64 /\ backend = "x86" THEN Mul(f, backend, a, a) ELSE Reduce(f, Spreads(f, a))

\* square_xmm, inside the inversion: no mixed products.
SquareX86(f, a) ==
  IF f = Gf64 THEN Mul(f, "x86", a, a)
  ELSE ReduceX86_128(Pair(ClmulLanes(a, a, 0, 0), ClmulLanes(a, a, 1, 1)))

SquareInLoop(f, backend, a) ==
  IF backend = "x86" THEN SquareX86(f, a) ELSE Square(f, backend, a)

\* inverse: a^(2^n - 2), as the product of a^2, a^4, ...; the loop variables
\* before the first and after one more round.
InverseInit(f, backend, a) ==
  LET Start(y) == [y |-> y, out |-> y] IN Start(SquareInLoop(f, backend, a))

InverseRound(f, backend, v) ==
  LET Multiplied(y) == [y |-> y, out |-> Mul(f, backend, v.out, y)]
  IN  Multiplied(SquareInLoop(f, backend, v.y))

-----------------------------------------------------------------------------
(* Inner products: the products are added before they are reduced, or, on  *)
(* WASM, before they are recovered.                                         *)

WasmSum(f, a, b) ==
  LET Sum(i, j) == SumPairs(Once([k \in DOMAIN a |-> Raw(Lane(a[k], i), Lane(b[k], j))]))
      Recovered(s) ==
        IF f = Gf64 THEN Recover(s[0, 0])
        ELSE Merge(Recover(s[0, 0]), Recover(s[1, 1]), Recover(XorPair(s[0, 1], s[1, 0])))
  IN  Recovered(Once([l \in IF f = Gf64 THEN {<<0, 0>>} ELSE LanePairs |-> Sum(l[1], l[2])]))

InnerProductChunk(f, backend, a, b) ==
  ReduceBy(f, backend,
           IF backend = "wasm" THEN WasmSum(f, a, b)
           ELSE SumPairs(Once([k \in DOMAIN a |-> Full(f, backend, a[k], b[k])])))

DoubleInnerProductChunk(f, backend, a, b, c) ==
  InnerProductChunk(f, backend, Once([k \in DOMAIN a |-> Mul(f, backend, a[k], b[k])]), c)

\* The pieces of a slice that par_chunks hands to the threads: the last one
\* may be shorter.
ParChunks(s) ==
  [i \in 1..(Len(s) + PieceLen - 1) \div PieceLen |->
     SubSeq(s, (i - 1) * PieceLen + 1, IF i * PieceLen < Len(s) THEN i * PieceLen ELSE Len(s))]

\* Threads only when there is work for two.
Pieces(parallel, s) == IF parallel /\ Len(s) >= 2 * PieceLen THEN ParChunks(s) ELSE <<s>>

InnerProduct(f, backend, parallel, a, b) ==
  LET Each(as, bs) == Once([i \in DOMAIN as |-> InnerProductChunk(f, backend, as[i], bs[i])])
  IN  XorAll(Each(Pieces(parallel, a), Pieces(parallel, b)))

DoubleInnerProduct(f, backend, parallel, a, b, c) ==
  LET Each(as, bs, cs) ==
        Once([i \in DOMAIN as |-> DoubleInnerProductChunk(f, backend, as[i], bs[i], cs[i])])
  IN  XorAll(Each(Pieces(parallel, a), Pieces(parallel, b), Pieces(parallel, c)))

\* inner_product_subfield over GF(2): the challenges whose bit is set.
InnerProductSubfield(bits, challenges) ==
  XorAll([i \in DOMAIN bits |-> IF bits[i] THEN challenges[i] ELSE {}])

\* compute_product_repeated.
ProductRepeated(f, backend, powers, factor, count) ==
  FoldLeft(LAMBDA ps, i : Append(ps, Mul(f, backend, factor, ps[Len(ps)])),
           powers, [i \in 1..count |-> i])

-----------------------------------------------------------------------------
(***************************************************************************)
(* One computation in GF(2^64), GF(2^128) or on blocks, done by all        *)
(* backends side by side and by the definition of the field.  The loop of  *)
(* the inversion is run round by round.                                    *)
(***************************************************************************)
CONSTANTS
  Elements,    \* for "gf64", "gf128", "block": the elements, in order
  MaxOps       \* bound: operations of a computation

VARIABLES
  kind,    \* "gf64", "gf128" or "block"; "none" when nothing is computed
  value,   \* the element, as each backend has it
  ideal,   \* the element
  ops,     \* operations done
  loop     \* the inversion under way: rounds left, variables by backend

vars == <<kind, value, ideal, ops, loop>>

Field(k)    == IF k = "gf64" THEN Gf64 ELSE Gf128
Backends(k) == IF k = "block" THEN BlockBackends ELSE FieldBackends
NoLoop      == [left |-> -1, v |-> <<>>]

Init ==
  /\ kind \in DOMAIN Elements
  /\ ideal \in Range(Elements[kind])
  /\ value = [b \in Backends(kind) |-> ideal]
  /\ ops = 0
  /\ loop = NoLoop

Off == kind = "none" /\ value = <<>> /\ ideal = {} /\ ops = 0 /\ loop = NoLoop

\* An operation replaces the element by what each backend makes of it.
Apply(Op(_, _), Ideal(_)) ==
  /\ loop = NoLoop /\ ops < MaxOps
  /\ value' = Once([b \in Backends(kind) |-> Op(b, value[b])])
  /\ ideal' = Ideal(ideal)
  /\ ops' = ops + 1
  /\ UNCHANGED <<kind, loop>>

E(i) == Elements[kind][i]
Sum(s) == XorAll(s)

\* Mul::mul, or Block::gfmul.
Multiply ==
  \E i \in DOMAIN Elements[kind] :
    Apply(LAMBDA b, x : IF kind = "block" THEN Gfmul(b, x, E(i)) ELSE Mul(Field(kind), b, x, E(i)),
          LAMBDA x : Times(Field(kind), x, E(i)))

Squared ==
  /\ kind # "block"
  /\ Apply(LAMBDA b, x : Square(Field(kind), b, x), LAMBDA x : Times(Field(kind), x, x))

\* The element first, then known ones.
Vector(x, len) == [i \in 1..len |-> IF i = 1 THEN x ELSE E(i)]
Known(len) == [i \in 1..len |-> E(Len(Elements[kind]) + 1 - i)]

\* Field::inner_product, or Block::inn_prdt_red.
Inner ==
  \E len \in DOMAIN Elements[kind], parallel \in BOOLEAN :
    /\ kind = "block" => ~parallel
    /\ Apply(LAMBDA b, x : IF kind = "block" THEN InnPrdtRed(b, Vector(x, len), Known(len))
                           ELSE InnerProduct(Field(kind), b, parallel, Vector(x, len), Known(len)),
             LAMBDA x : Sum([i \in 1..len |-> Times(Field(kind), Vector(x, len)[i], Known(len)[i])]))

DoubleInner ==
  /\ kind # "block"
  /\ \E len \in DOMAIN Elements[kind], parallel \in BOOLEAN :
       Apply(LAMBDA b, x : DoubleInnerProduct(Field(kind), b, parallel, Vector(x, len), Known(len),
                                              Vector(x, len)),
             LAMBDA x : Sum([i \in 1..len |->
                               Times(Field(kind), Times(Field(kind), Vector(x, len)[i], Known(len)[i]),
                                     Vector(x, len)[i])]))

\* inner_product_subfield, of the element's low bits.
Pack ==
  /\ kind # "block"
  /\ LET n == Len(Elements[kind])
     IN  Apply(LAMBDA b, x : InnerProductSubfield([i \in 1..n |-> i \in x], Known(n)),
               LAMBDA x : Sum([i \in 1..n |-> Times(Field(kind), {j \in {0} : i \in x}, Known(n)[i])]))

\* compute_product_repeated.
Repeat ==
  /\ kind # "block"
  /\ Apply(LAMBDA b, x : Last(ProductRepeated(Field(kind), b, <<x>>, E(1), 2)),
           LAMBDA x : Times(Field(kind), E(1), Times(Field(kind), E(1), x)))

\* inverse refuses zero; otherwise its loop runs.
StartInverse ==
  /\ kind # "block" /\ ops = 0 /\ loop = NoLoop /\ ideal # {}
  /\ loop' = [left |-> Field(kind).n - 2,
              v |-> Once([b \in Backends(kind) |-> InverseInit(Field(kind), b, value[b])])]
  /\ UNCHANGED <<kind, value, ideal, ops>>

InverseLoop ==
  /\ loop.left > 0
  /\ loop' = [left |-> loop.left - 1,
              v |-> Once([b \in Backends(kind) |-> InverseRound(Field(kind), b, loop.v[b])])]
  /\ UNCHANGED <<kind, value, ideal, ops>>

Next == Multiply \/ Squared \/ Inner \/ DoubleInner \/ Pack \/ Repeat \/ StartInverse \/ InverseLoop

Spec == Init /\ [][Next]_vars

-----------------------------------------------------------------------------
\* Every backend computes in the field: whatever carries, shifts and deferred
\* reductions do, the results are those of polynomials modulo the field's
\* (mul, square, inner_product, double_inner_product, gfmul, inn_prdt_red),
\* and what the loop of inverse ends with is the inverse.
ComputesInField ==
  /\ \A b \in DOMAIN value : value[b] = ideal
  /\ loop.left = 0 => \A b \in DOMAIN value : Times(Field(kind), ideal, loop.v[b].out) = {0}
=============================================================================
