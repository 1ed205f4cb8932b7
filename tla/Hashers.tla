------------------------------ MODULE Hashers ------------------------------
(***************************************************************************)
(* The hash gadgets (crates/hash): SHA-256, Keccak-256 and BLAKE3 as calls *)
(* of a virtual machine.  Data arrives in pieces of any size; each gadget  *)
(* cuts it into blocks, pads, and chains compressions - BLAKE3 over a tree *)
(* of chunks it keeps as a stack.  A hasher call returns the machine and   *)
(* the hasher after it: [vm, h].                                           *)
(*                                                                         *)
(* One chaining value is one unit.  The block and chunk sizes are          *)
(* constants, in units: what matters is how pieces fall on boundaries.     *)
(***************************************************************************)
EXTENDS IdealVm

CONSTANTS
  ShaBlock,      \* units in a SHA-256 block; the marker and the length take one each
  KeccakBlock,   \* units in the rate; the first and last padding byte take one each
  ChunkBlocks    \* BLAKE3 blocks in a chunk

ASSUME BlockAssumption ==
  /\ ShaBlock \in Nat \ {0, 1}
  /\ KeccakBlock \in Nat \ {0, 1}
  /\ ChunkBlocks \in Nat \ {0}

MinOf(a, b) == IF a < b THEN a ELSE b

\* Two chaining values fill a BLAKE3 block.
Blake3Block == 2
Blake3Chunk == Blake3Block * ChunkBlocks

\* A public constant: alloc, mark_public, assign, commit.
MakePublic(a, data) ==
  [vm |-> CommitRaw(AssignRaw(MarkPublic(a.vm, a.s), a.s, data), a.s), s |-> a.s]

PublicConst(v, data) == MakePublic(AllocRaw(v, Len(data)), data)

-----------------------------------------------------------------------------
(***************************************************************************)
(* Cutting data into blocks: the last block is filled up, the rest becomes *)
(* blocks of its own.                                                      *)
(***************************************************************************)
NewBlock(s) == [data |-> <<s>>, len |-> s.size]

Cut(s, size) ==
  [i \in 1 .. ((s.size + size - 1) \div size) |->
     [ptr |-> s.ptr + (i - 1) * size,
      size |-> MinOf(size, s.size - (i - 1) * size)]]

FillBlocks(blocks, s, size) ==
  LET room == IF blocks = <<>> THEN 0 ELSE size - Last(blocks).len
      take == MinOf(room, s.size)
      left == SplitLeft(s, take)
      rest == Cut(SplitRight(s, take), size)
  IN  (IF take = 0 THEN blocks
       ELSE Append(Front(blocks), [data |-> Append(Last(blocks).data, left),
                                   len |-> Last(blocks).len + take]))
      \o [i \in DOMAIN rest |-> NewBlock(rest[i])]

Buffered(blocks) == FoldLeft(LAMBDA n, b : n + b.len, 0, blocks)

-----------------------------------------------------------------------------
\* SHA-256.

NewSha == [state |-> <<>>, blocks |-> <<>>, processed |-> 0]

\* get_or_init_state: the state made here is not kept.
ShaState(v, h) == IF h.state # <<>> THEN [vm |-> v, s |-> h.state[1]]
                  ELSE PublicConst(v, << <<"iv">> >>)

ShaUpdate(v, h, s) == [vm |-> v, h |-> [h EXCEPT !.blocks = FillBlocks(@, s, ShaBlock)]]

\* compress: every full block; at most one partial block is left.
ShaCompress(v, h) ==
  LET full == Cardinality({i \in DOMAIN h.blocks : h.blocks[i].len = ShaBlock})
      Absorb(acc, b) == CallRaw(acc.vm, Circuit("sha", ShaBlock + 1, 1), Append(b.data, acc.s))
      Absorbed(end) ==
        [vm |-> end.vm,
         h |-> [state |-> <<end.s>>, blocks |-> SubSeq(h.blocks, full + 1, Len(h.blocks)),
                processed |-> h.processed + full]]
  IN  Absorbed(FoldLeft(Absorb, ShaState(v, h), SubSeq(h.blocks, 1, full)))

NextMultiple(n, m) == ((n + m - 1) \div m) * m

\* Wrong on purpose: no room is kept for the length field.
ShaTotalShort(len) == NextMultiple(len + 1, ShaBlock)

\* The padded length: the data, the marker, the length field.
ShaTotal(len) == NextMultiple(len + 1 + 1, ShaBlock)

ShaPadding(len) ==
  LET n == ShaTotal(len) - len
  IN  [i \in 1 .. n |-> IF i = n THEN <<"len", len>> ELSE IF i = 1 THEN <<"mark">> ELSE <<"zero">>]

\* finalize works on a copy: the hasher can be used on.
ShaFinalize(v, h) ==
  LET len == h.processed * ShaBlock + Buffered(h.blocks)
      Padded(pad) == ShaUpdate(pad.vm, h, pad.s)
      Hashed(all) == ShaCompress(all.vm, all.h)
      Serialized(end) == CallRaw(end.vm, Circuit("sha_ser", 1, 1), end.h.state)
  IN  [h |-> h] @@ Serialized(Hashed(Padded(PublicConst(v, ShaPadding(len)))))

-----------------------------------------------------------------------------
\* Keccak-256: full blocks are absorbed at once.

NewKeccak == [state |-> <<>>, block |-> [data |-> <<>>, len |-> 0]]

KeccakIv == [i \in 1 .. (KeccakBlock + 1) |-> <<"zero">>]

KeccakState(v, h) == IF h.state # <<>> THEN [vm |-> v, s |-> h.state[1]]
                     ELSE PublicConst(v, KeccakIv)

AbsorbBlock(acc, b) ==
  LET Rate(st) == ArrayGet(st.s, 0, KeccakBlock)
      Capacity(st) == ArrayGet(st.s, KeccakBlock, 1)
      Permuted(mix, cap) ==
        CallRaw(mix.vm, Circuit("keccak", KeccakBlock + 1, KeccakBlock + 1), <<mix.s, cap>>)
      Mixed(st) ==
        Permuted(CallRaw(st.vm, Circuit("xor", 2 * KeccakBlock, KeccakBlock),
                         Append(b.data, Rate(st))), Capacity(st))
      Kept(perm) == [vm |-> perm.vm, h |-> [acc.h EXCEPT !.state = <<perm.s>>]]
  IN  Kept(Mixed(KeccakState(acc.vm, acc.h)))

KeccakUpdate(v, h, s) ==
  LET blocks == IF s.size = 0 THEN <<h.block>>
                ELSE FillBlocks(<<h.block>>, s, KeccakBlock)
      full   == SelectSeq(blocks, LAMBDA b : b.len = KeccakBlock)
      part   == SelectSeq(blocks, LAMBDA b : b.len # KeccakBlock)
      kept   == IF part = <<>> THEN NewKeccak.block ELSE Last(part)
  IN  FoldLeft(AbsorbBlock, [vm |-> v, h |-> [h EXCEPT !.block = kept]], full)

\* Room for the first and the last byte of the padding, or a block more.
KeccakPadLen(len) == IF KeccakBlock - len < 2 THEN 2 * KeccakBlock - len ELSE KeccakBlock - len

KeccakPadding(n) ==
  [i \in 1 .. n |-> IF i = n THEN <<"trail">> ELSE IF i = 1 THEN <<"domain">> ELSE <<"zero">>]

\* finalize: the digest is the head of the state.  The hasher is consumed.
KeccakFinalize(v, h) ==
  LET Padded(pad) == KeccakUpdate(pad.vm, h, pad.s)
      Squeezed(end) == [vm |-> end.vm, s |-> ArrayGet(end.h.state[1], 0, 1), h |-> end.h]
  IN  Squeezed(Padded(PublicConst(v, KeccakPadding(KeccakPadLen(h.block.len)))))

-----------------------------------------------------------------------------
\* BLAKE3.

ChunkStart == 1
ChunkEnd == 2
Parent == 4
Root == 8

Blake3State(v, counter, len) == PublicConst(v, << <<"state", counter, len>> >>)
Blake3Flags(v, flags) == PublicConst(v, << <<"flags", flags>> >>)

NewChunk(v, cv, counter) ==
  LET Chunk(st) == [vm |-> st.vm, chunk |-> [blocks |-> <<>>, cv |-> cv, state |-> st.s,
                                             counter |-> counter]]
  IN  Chunk(Blake3State(v, counter, Blake3Block))

NewBlake3(v) ==
  LET Blake3(iv, pa, ch) ==
        [vm |-> ch.vm, h |-> [chunk |-> ch.chunk, iv |-> iv.s, stack |-> <<>>, parent |-> pa.s]]
      WithParent(iv, pa) == Blake3(iv, pa, NewChunk(pa.vm, iv.s, 0))
      WithIv(iv) == WithParent(iv, Blake3State(iv.vm, 0, Blake3Block))
  IN  WithIv(PublicConst(v, << <<"iv">> >>))

Compress(v, args) ==
  LET FirstHalf(out) == [vm |-> out.vm, s |-> ArrayGet(out.s, 0, 1)]
  IN  FirstHalf(CallRaw(v, Circuit("blake3", Blake3Block + 3, 2), args))

\* Chunk::compress: pad, then chain block by block.
PaddedChunk(v, blocks, lastLen) ==
  LET Filled(pad) == [vm |-> pad.vm, blocks |-> FillBlocks(blocks, pad.s, Blake3Block)]
  IN  IF lastLen = Blake3Block THEN [vm |-> v, blocks |-> blocks]
      ELSE Filled(PublicConst(v, [i \in 1 .. (Blake3Block - lastLen) |-> <<"zero">>]))

\* The flags of block i of n.
BlockFlags(i, n, isRoot) ==
  (IF i = 1 THEN ChunkStart ELSE 0) + (IF i = n THEN ChunkEnd ELSE 0)
  + (IF i = n /\ isRoot THEN Root ELSE 0)

ChainBlocks(blocks, chunk, lastState, isRoot) ==
  LET n == Len(blocks)
      Link(acc, i, f) ==
        Compress(f.vm, blocks[i].data
                       \o <<acc.s, IF i = n THEN lastState.s ELSE chunk.state, f.s>>)
  IN  FoldLeft(LAMBDA acc, i : Link(acc, i, Blake3Flags(acc.vm, BlockFlags(i, n, isRoot))),
               [vm |-> lastState.vm, s |-> chunk.cv], [i \in 1 .. n |-> i])

ChunkCompress(v, chunk, isRoot) ==
  LET lastLen == IF chunk.blocks = <<>> THEN 0 ELSE Last(chunk.blocks).len
      Chained(padded) ==
        ChainBlocks(padded.blocks, chunk,
                    Blake3State(padded.vm, IF isRoot THEN 0 ELSE chunk.counter, lastLen), isRoot)
  IN  Chained(PaddedChunk(v, chunk.blocks, lastLen))

ParentCv(v, h, left, right, isRoot) ==
  LET Joined(f) == Compress(f.vm, <<left, right, h.iv, h.parent, f.s>>)
  IN  Joined(Blake3Flags(v, Parent + (IF isRoot THEN Root ELSE 0)))

\* The subtrees a chunk completes: the trailing zeros of the chunk count.
TrailingZeros(n) == CHOOSE k \in 0 .. n : n % (2 ^ k) = 0 /\ (n \div (2 ^ k)) % 2 = 1

AddChunkCv(v, h, cv, total) ==
  LET Merge(acc, k) ==
        [stack |-> Front(acc.stack)] @@ ParentCv(acc.vm, h, Last(acc.stack), acc.s, FALSE)
      Pushed(end) == [vm |-> end.vm, h |-> [h EXCEPT !.stack = Append(end.stack, end.s)]]
  IN  Pushed(FoldLeft(Merge, [vm |-> v, s |-> cv, stack |-> h.stack],
                      [k \in 1 .. TrailingZeros(total) |-> k]))

ChunkLen(chunk) == Buffered(chunk.blocks)

\* A full chunk is compressed only when more data comes.
CloseChunk(v, h) ==
  LET counter == h.chunk.counter + 1
      Opened(added, fresh) == [vm |-> fresh.vm, h |-> [added.h EXCEPT !.chunk = fresh.chunk]]
      Open(added) == Opened(added, NewChunk(added.vm, h.iv, counter))
      Add(cv) == Open(AddChunkCv(cv.vm, h, cv.s, counter))
  IN  Add(ChunkCompress(v, h.chunk, FALSE))

\* One round of update's loop: `data' is what is left to take in.
TakePiece(o, data) ==
  LET n == MinOf(Blake3Chunk - ChunkLen(o.h.chunk), data.size)
  IN  [vm |-> o.vm, data |-> SplitRight(data, n),
       h |-> [o.h EXCEPT !.chunk.blocks = FillBlocks(@, SplitLeft(data, n), Blake3Block)]]

Blake3Update(v, h, s) ==
  LET Round(acc, i) ==
        IF acc.data.size = 0 THEN acc
        ELSE TakePiece(IF ChunkLen(acc.h.chunk) = Blake3Chunk THEN CloseChunk(acc.vm, acc.h)
                       ELSE acc, acc.data)
  IN  FoldLeft(Round, [vm |-> v, h |-> h, data |-> s], [i \in 1 .. s.size |-> i])

\* finalize: the parents along the right edge of the tree.  The last chunk
\* is drained: the hasher is of no use afterwards.
Blake3Finalize(v, h) ==
  LET n == Len(h.stack)
      Up(acc, k) == ParentCv(acc.vm, h, h.stack[n + 1 - k], acc.s, k = n)
      Serialized(top) == CallRaw(top.vm, Circuit("blake3_ser", 1, 1), <<top.s>>)
      Edge(leaf) ==
        [h |-> [h EXCEPT !.chunk = [@ EXCEPT !.blocks = <<>>, !.cv = leaf.s]]]
        @@ Serialized(FoldLeft(Up, leaf, [k \in 1 .. n |-> k]))
  IN  Edge(ChunkCompress(v, h.chunk, n = 0))

-----------------------------------------------------------------------------
(***************************************************************************)
(* What the gadgets should compute: each function of the whole message, as *)
(* its standard defines it.                                                *)
(***************************************************************************)
BlocksOf(data, size) ==
  [i \in 1 .. (Len(data) \div size) |-> SubSeq(data, (i - 1) * size + 1, i * size)]

ShaReference(msg) ==
  LET zeros == (2 * ShaBlock - 2 - (Len(msg) % ShaBlock)) % ShaBlock
      data  == msg \o << <<"mark">> >> \o [i \in 1 .. zeros |-> <<"zero">>]
               \o << <<"len", Len(msg)>> >>
  IN  <<"sha_ser", 1,
        FoldLeft(LAMBDA st, b : <<"sha", 1>> \o b \o <<st>>, <<"iv">>, BlocksOf(data, ShaBlock))>>

KeccakReference(msg) ==
  LET zeros == (2 * KeccakBlock - 2 - (Len(msg) % KeccakBlock)) % KeccakBlock
      data  == msg \o << <<"domain">> >> \o [i \in 1 .. zeros |-> <<"zero">>] \o << <<"trail">> >>
      Permute(st, b) ==
        LET in == [i \in 1 .. (KeccakBlock + 1) |->
                     IF i <= KeccakBlock THEN <<"xor", b[i], st[i]>> ELSE st[i]]
        IN  [i \in 1 .. (KeccakBlock + 1) |-> <<"keccak", i>> \o in]
  IN  FoldLeft(Permute, KeccakIv, BlocksOf(data, KeccakBlock))[1]

\* The tree: a left subtree holds the largest power of two of chunks that
\* leaves something for the right one; only the top is the root.
Blake3Reference(msg) ==
  LET count == IF msg = <<>> THEN 1 ELSE (Len(msg) + Blake3Chunk - 1) \div Blake3Chunk
      ChunkData(c) == SubSeq(msg, (c - 1) * Blake3Chunk + 1, MinOf(c * Blake3Chunk, Len(msg)))
      Leaf(c, root) ==
        LET data   == ChunkData(c)
            n      == IF data = <<>> THEN 1 ELSE (Len(data) + Blake3Block - 1) \div Blake3Block
            BlockAt(i) == [j \in 1 .. Blake3Block |->
                             LET k == (i - 1) * Blake3Block + j
                             IN  IF k <= Len(data) THEN data[k] ELSE <<"zero">>]
            LenAt(i) == IF i < n THEN Blake3Block ELSE Len(data) - (n - 1) * Blake3Block
            FlagsAt(i) == (IF i = 1 THEN 1 ELSE 0) + (IF i = n THEN 2 ELSE 0)
                          + (IF i = n /\ root THEN 8 ELSE 0)
        IN  FoldLeft(LAMBDA cv, i : <<"blake3", 1>> \o BlockAt(i)
                                     \o <<cv, <<"state", c - 1, LenAt(i)>>, <<"flags", FlagsAt(i)>> >>,
                     <<"iv">>, [i \in 1 .. n |-> i])
      Half(n) == CHOOSE p \in {2 ^ k : k \in 0 .. n} : p < n /\ n <= 2 * p
      tree[lo \in 1 .. count, n \in 1 .. count] ==
        IF n = 1 THEN Leaf(lo, count = 1)
        ELSE <<"blake3", 1, tree[lo, Half(n)], tree[lo + Half(n), n - Half(n)], <<"iv">>,
               <<"state", 0, Blake3Block>>, <<"flags", 4 + (IF n = count THEN 8 ELSE 0)>> >>
  IN  <<"blake3_ser", 1, tree[1, count]>>
=============================================================================
