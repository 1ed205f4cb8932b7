------------------------------- MODULE Ferret -------------------------------
(***************************************************************************)
(* The Ferret random correlated OT (ot-core/src/ferret): every extension   *)
(* spends correlations from the tail of its buffer - for the trees, the    *)
(* consistency check and the LPN input - and appends params.n new ones.    *)
(* The first are bootstrapped from an inner RCOT (`inner').  The seed of   *)
(* the LPN matrix is agreed by coin toss on the messages of the extension; *)
(* emp's build derives it from the session id and holds the correlations   *)
(* of the last trees back for the next round.                              *)
(*                                                                         *)
(* A configuration c is [emp, reserve, params]: the build, whether the     *)
(* bootstrap cost is held in reserve, and the LPN parameters in ascending  *)
(* order, each [n, k, t].                                                  *)
(***************************************************************************)
EXTENDS IdealOts

CONSTANTS
  CheckSize,      \* correlations spent on the check (CSP = 128 in the code)
  FerretConfigs   \* the configurations, by name

-----------------------------------------------------------------------------
(***************************************************************************)
(* The correlated GGM tree (core/src/cggm.rs) and the LPN encoder          *)
(* (core/src/lpn.rs), on symbolic blocks.  A node's hash is a term of its  *)
(* own; row 1 of a block is its least significant bit, which emp's build   *)
(* (`emp') clears in every leaf.                                           *)
(***************************************************************************)
XorAll(nodes) == FoldSeq(BXor, ZeroBlock, nodes)
Ccr(x) == Term(<<"H", x, 0, 0>>)
PathBit(idx, i) == (idx \div 2^(i - 1)) % 2     \* of level i

\* mask_leaf_lsb
MaskLeafLsb(emp, b) == IF emp THEN [b EXCEPT ![1] = {}] ELSE b

\* expand_level: left children over their parents, right children above.
ExpandLevel(emp, nodes, leaf) ==
  LET child(i) == IF i <= Len(nodes) THEN Ccr(nodes[i])
                  ELSE BXor(nodes[i - Len(nodes)], Ccr(nodes[i - Len(nodes)]))
  IN  [i \in 1..2 * Len(nodes) |-> IF leaf THEN MaskLeafLsb(emp, child(i)) ELSE child(i)]
LowerHalf(nodes) == SubSeq(nodes, 1, Len(nodes) \div 2)
UpperHalf(nodes) == SubSeq(nodes, Len(nodes) \div 2 + 1, Len(nodes))

\* expand: the leaves, and the sum of the left nodes of every level.
Expand(emp, seed, depth) ==
  LET Level(acc, i) == LET nodes == ExpandLevel(emp, acc.leaves, i = depth)
                       IN  [leaves |-> nodes, sums |-> Append(acc.sums, XorAll(LowerHalf(nodes)))]
  IN  FoldLeft(Level, [leaves |-> << seed, BXor(DeltaBlock, seed) >>, sums |-> << seed >>],
               [i \in 1..depth - 1 |-> i + 1])

\* expand_punctured: the leaves except the one at idx, from the sums of the
\* nodes off its path.  The node on the path is zero on every level, its two
\* children are junk; taking the junk out of the off-path side leaves the
\* sibling.
ExpandPunctured(emp, idx, sums) ==
  LET depth == Len(sums)
      Level(acc, i) ==
        LET half  == Len(acc.leaves)
            b     == PathBit(idx, i)
            nodes == ExpandLevel(emp, acc.leaves, i = depth)
            off   == XorAll(IF b = 0 THEN UpperHalf(nodes) ELSE LowerHalf(nodes))
            sib   == BXor(BXor(off, nodes[acc.pos + 1]), sums[i])
            leaf  == IF i = depth THEN MaskLeafLsb(emp, sib) ELSE sib
        IN  [leaves |-> [[nodes EXCEPT ![acc.pos + 1] = ZeroBlock, ![acc.pos + half + 1] = ZeroBlock]
                           EXCEPT ![acc.pos + (1 - b) * half + 1] = leaf],
             pos    |-> acc.pos + b * half]
      b1 == PathBit(idx, 1)
  IN  FoldLeft(Level, [leaves |-> IF b1 = 0 THEN << ZeroBlock, sums[1] >> ELSE << sums[1], ZeroBlock >>,
                       pos |-> b1],
               [i \in 1..depth - 1 |-> i + 1]).leaves

\* The columns of row i of the sparse matrix A: a stand-in for the keyed
\* permutation that depends on the seed, the row and the lane.
LpnDensity == 2
SeedNumber(seed) == FoldSet(LAMBDA t, n : t[2] + n, 0, seed[1])
Column(k, seed, i, d) == ((i + d * SeedNumber(seed)) % k) + 1

\* LpnEncoder::compute and compute_with_bits: A x + y, for blocks and bits.
LpnEncode(k, seed, y, x) ==
  [i \in 1..Len(y) |-> FoldLeft(LAMBDA acc, d : BXor(acc, x[Column(k, seed, i, d)]), y[i],
                                [d \in 1..LpnDensity |-> d])]
LpnEncodeBits(k, seed, e, u) ==
  [i \in 1..Len(e) |-> FoldLeft(LAMBDA acc, d : acc # u[Column(k, seed, i, d)], e[i],
                                [d \in 1..LpnDensity |-> d])]

-----------------------------------------------------------------------------
(***************************************************************************)
(* Single-point COT (ot-core/src/ferret/spcot) for the regular multi-point *)
(* COT (mpcot.rs): t trees of the same depth, one punctured point in each. *)
(* The consistency check compares two random linear combinations over the  *)
(* field; they agree, except with negligible probability, exactly when     *)
(* they agree coefficient by coefficient, so a combination is the record   *)
(* of its coefficients: `base' of the monomials, `coef' of the challenges. *)
(* The receiver's masked sum x' is likewise kept apart as the sum of the   *)
(* challenges at `picks' and the mask bits.                                *)
(***************************************************************************)

\* Position j of tree i in a sequence with w entries for each tree.
Flat(i, j, w) == (i - 1) * w + j
TreeOf(pos, w)  == ((pos - 1) \div w) + 1
LevelOf(pos, w) == ((pos - 1) % w) + 1

\* sample_error_indices: one index within each interval; a stand-in for the
\* generator that varies with the tree and the draw.
SampleErrorIndices(t, width, draw) == [i \in 1..t |-> (3 * i + draw) % width]
\* spcot_queries_from_choices (emp): the path is the complement of the bits.
IndicesFromChoices(t, depth, masks) ==
  [i \in 1..t |-> FoldLeft(LAMBDA acc, j : IF masks[Flat(i, j, depth)] THEN acc ELSE acc + 2^(j - 1),
                           0, [j \in 1..depth |-> j])]

\* SPCOTReceiver::derandomize: select the side opposite to the path.
SpcotDerandomize(idxs, depth, masks) ==
  [pos \in 1..Len(masks) |->
     (PathBit(idxs[TreeOf(pos, depth)], LevelOf(pos, depth)) = 0) # masks[pos]]

\* SPCOTSender::extend: the trees' leaves, and the corrections that let the
\* receiver learn one side of every level.
SpcotTrees(emp, seeds, depth) == [i \in 1..Len(seeds) |-> Expand(emp, seeds[i], depth)]
SpcotLeaves(trees) == FoldLeft(LAMBDA acc, tr : acc \o tr.leaves, <<>>, trees)
SpcotCorrections(trees, keys, flip, depth) ==
  [pos \in 1..Len(keys) |-> BXor(BXor(keys[pos], MaskBit(flip[pos], DeltaBlock)),
                                 trees[TreeOf(pos, depth)].sums[LevelOf(pos, depth)])]

\* SPCOTReceiver::extend for one tree: the punctured leaf is the sum of the
\* others (emp: with the masked bit put back, if there was a leaf level).
PuncturedTree(emp, idx, sums) ==
  LET w   == ExpandPunctured(emp, idx, sums)
      sum == XorAll(w)
      fix == IF emp /\ Len(sums) >= 2 THEN [sum EXCEPT ![1] = Plus(@, {One})] ELSE sum
  IN  [w EXCEPT ![idx + 1] = fix]
SpcotReceive(emp, idxs, depth, macs, cs) ==
  LET sums(i) == [j \in 1..depth |-> BXor(macs[Flat(i, j, depth)], cs[Flat(i, j, depth)])]
  IN  FoldLeft(LAMBDA acc, i : acc \o PuncturedTree(emp, idxs[i], sums(i)), <<>>,
               [i \in 1..Len(idxs) |-> i])

\* The global positions of the punctured points.
Alphas(idxs, width) == {Flat(i, idxs[i] + 1, width) : i \in 1..Len(idxs)}

\* SPCOTReceiver::start_check: its combination W, and the masked sum x'.
CheckW(chi, macs, ws)  == [chi |-> chi, base |-> macs, coef |-> ws]
CheckMask(masks, idxs, width) == [masks |-> masks, picks |-> Alphas(idxs, width)]
\* SPCOTSender::check: V, with x' times delta.
CheckV(chi, keys, x, vs) ==
  [chi |-> chi,
   base |-> [i \in 1..Len(keys) |-> BXor(keys[i], MaskBit(x.masks[i], DeltaBlock))],
   coef |-> [a \in 1..Len(vs) |-> BXor(vs[a], MaskBit(a \in x.picks, DeltaBlock))]]
\* SPCOTReceiver::check
CheckAgrees(hashedV, w) == hashedV = w

-----------------------------------------------------------------------------
(***************************************************************************)
(* The two-party coin toss (cointoss-core) over the hash commitment of     *)
(* core/src/commit.rs.  The toss sender commits to its seeds, the toss     *)
(* receiver answers with its own, the sender opens; both take the sums.    *)
(* The hash is collision free: a commitment stands for what is committed.  *)
(***************************************************************************)
SumSeeds(a, b) == [i \in 1..Len(a) |-> BXor(a[i], b[i])]

\* Decommitment::new draws a nonce; commit hashes nonce and data.
Decommitment(seeds, nonce) == [nonce |-> nonce, data |-> seeds]
Commit(d) == <<"hash", d>>
Verify(d, h) == h = Commit(d)

\* Sender::send
TossSend(seeds, nonce) == [seeds |-> seeds, opening |-> Decommitment(seeds, nonce)]

\* Sender::receive: the coins, once the receiver's seeds are known.
TossReceives(t, share) == Len(t.seeds) = Len(share)
TossCoins(t, share) == SumSeeds(t.seeds, share)

\* Receiver::reveal keeps the commitment and sends the seeds.
TossReveal(seeds, commitment) == [seeds |-> seeds, commitment |-> commitment]

\* Receiver::finalize: the opening must have as many seeds and match.
TossOpensAny(t, d) == Len(d.data) = Len(t.seeds)   \* mutant: the opening is not verified
TossOpens(t, d) == Len(d.data) = Len(t.seeds) /\ Verify(d, t.commitment)
TossFinal(t, d) == SumSeeds(t.seeds, d.data)

-----------------------------------------------------------------------------
Log2(m) == CHOOSE d \in 0..m : 2^d = m
Width(p) == p.n \div p.t                \* leaves of a tree
Depth(p) == Log2(Width(p))
SpcotCount(p) == p.t * Depth(p)

\* iteration_cost asserts that t divides n into powers of two, LpnEncoder
\* that k is one.
ASSUME FerretAssumption ==
  /\ CheckSize \in Nat \ {0}
  /\ \A f \in DOMAIN FerretConfigs : \A i \in 1..Len(FerretConfigs[f].params) :
       LET p == FerretConfigs[f].params[i]
       IN  /\ p.n % p.t = 0 /\ \E d \in 1..p.n : 2^d = Width(p)
           /\ p.k >= LpnDensity /\ \E d \in 0..p.k : 2^d = p.k

IterationCost(p) == SpcotCount(p) + p.k + CheckSize

\* default_parameter_selector: the smallest parameters that yield enough,
\* among those the buffer can pay for.
SelectParams(c, have, want) ==
  LET pays(i)  == have >= IterationCost(c.params[i])
      short(i) == c.params[i].n - IterationCost(c.params[i]) < want
      seen == {i \in 1..Len(c.params) : (\A j \in 1..i : pays(j)) /\ (\A j \in 1..i - 1 : short(j))}
  IN  c.params[Max(seen \cup {1})]

BootstrapCost(c) == IterationCost(IF c.emp THEN SelectParams(c, 0, 0) ELSE c.params[1])
HeldReserve(c)   == IF c.reserve THEN BootstrapCost(c) ELSE 0

\* round_plan: the trees whose output seeds the next round.
RefillTrees(c, p) == IF c.emp THEN (IterationCost(p) + Width(p) - 1) \div Width(p) ELSE 0

\* TailLayout: where the groups start in a buffer of len entries without the
\* trees' group, and the split of a whole buffer.
CheckFrom(c, p, len) == IF c.emp THEN len - p.k - CheckSize ELSE len - CheckSize
LpnFrom(c, p, len)   == IF c.emp THEN len - p.k ELSE len - p.k - CheckSize
Split(c, p, buf) ==
  LET base == Len(buf) - SpcotCount(p)
  IN  [spcot |-> SubSeq(buf, base + 1, Len(buf)),
       check |-> SubSeq(buf, CheckFrom(c, p, base) + 1, CheckFrom(c, p, base) + CheckSize),
       lpn   |-> SubSeq(buf, LpnFrom(c, p, base) + 1, LpnFrom(c, p, base) + p.k),
       rest  |-> SubSeq(buf, 1, base - p.k - CheckSize)]
\* take_check_masks, on choices that no longer hold the trees' group.
CheckMasks(c, p, choices) ==
  SubSeq(choices, CheckFrom(c, p, Len(choices)) + 1, CheckFrom(c, p, Len(choices)) + CheckSize)
DropCheckMasks(c, p, choices) ==
  SubSeq(choices, 1, CheckFrom(c, p, Len(choices)))
    \o SubSeq(choices, CheckFrom(c, p, Len(choices)) + CheckSize + 1, Len(choices))

------------------------------- \* Both endpoints

None == [n |-> 0, k |-> 0, t |-> 0]
FerretSenderInit   == EmptyPool @@ [alloc |-> 0, pending |-> 0, next |-> <<>>, phase |-> "extend",
                                    params |-> None, held |-> <<>>, round |-> 0]
FerretReceiverInit == FerretSenderInit @@ [choices |-> <<>>, nextChoices |-> <<>>]

FerretWantsBootstrap(c, s) == Len(s.pool) < BootstrapCost(c)
FerretShort(c, s) == IF FerretWantsBootstrap(c, s) THEN BootstrapCost(c) - Len(s.pool) ELSE 0
LastOf(q, n) == SubSeq(q, Len(q) - n + 1, Len(q))
FerretAvailable(c, s) ==
  LET len == Len(s.pool) - s.pending
  IN  IF len < HeldReserve(c) THEN 0 ELSE len - HeldReserve(c)
FerretWantsExtend(c, s) == FerretAvailable(c, s) < s.alloc
FerretMissing(c, s) == LET a == FerretAvailable(c, s) IN IF a < s.alloc THEN s.alloc - a ELSE 0

FerretSenderAlloc(s, n)   == [s EXCEPT !.alloc = @ + n]
FerretReceiverAlloc(s, n) == [s EXCEPT !.alloc = @ + n]

\* alloc_bootstrap
FerretSenderBootstrap(c, s, inner)   == RcotSenderAlloc(inner, BootstrapCost(c) - Len(s.pool))
FerretReceiverBootstrap(c, s, inner) == RcotReceiverAlloc(inner, BootstrapCost(c) - Len(s.pool))

\* The shares of the coin toss, the seeds of the trees and the challenges
\* that round number r draws; emp's LPN seed.
SenderShare(r)   == << Term(<<"coinA", r, 0, 0>>) >>
ReceiverShare(r) == << Term(<<"coinB", r, 0, 0>>) >>
TreeSeeds(p, r)  == [i \in 1..p.t |-> Term(<<"tree", r, i, 0>>)]
SidSeed          == Term(<<"sid", 1, 0, 0>>)

FerretError(s) == [s EXCEPT !.phase = "error"]

------------------------------- \* Sender

\* Serves n correlations from the tail.
FerretSenderTake(s, r, n) == TakeBack(s, r, n)
FerretSenderTry(c, s, r, n) == IF FerretAvailable(c, s) < n THEN s ELSE FerretSenderTake(s, r, n)
FerretSenderQueue(c, s, r, n) ==
  IF FerretAvailable(c, s) >= n THEN FerretSenderTake(s, r, n)
  ELSE [s EXCEPT !.queue = Append(@, [req |-> r, count |-> n])]
FerretSenderServe(c, s) ==
  FoldLeft(LAMBDA acc, q : IF Head(acc.queue) # q \/ FerretAvailable(c, acc) < q.count THEN acc
                           ELSE [FerretSenderTake(acc, q.req, q.count) EXCEPT !.queue = Tail(@)],
           s, s.queue)

\* start_extend: begin_round, then the missing base correlations from inner.
FerretSenderBases(c, s) == [s EXCEPT !.pool = IF c.emp THEN @ \o s.next ELSE @, !.next = <<>>]
FerretSenderStart(c, s, inner) ==
  LET Choose(full) == [full EXCEPT !.phase = "extending", !.round = @ + 1,
                                   !.params = SelectParams(c, Len(full.pool), FerretMissing(c, full))]
      Base(b, need) == IF s.phase # "extend" \/ need > Len(inner.pool) THEN FerretError(s)
                       ELSE Choose([b EXCEPT !.pool = @ \o LastOf(inner.pool, need)])
      Begin(b) == Base(b, FerretShort(c, b))
  IN  Begin(FerretSenderBases(c, s))
FerretInnerAfter(c, b, inner) ==
  IF FerretWantsBootstrap(c, b) THEN RcotSenderTry(inner, 0, BootstrapCost(c) - Len(b.pool)) ELSE inner

\* extend: answers the receiver's derandomization and commitment m.
FerretSenderExtend(c, s, m) ==
  LET p == s.params
      g == Split(c, p, s.pool)
  IN  IF s.phase # "extending" \/ Len(s.pool) < IterationCost(p) \/ Len(m.flip) # SpcotCount(p)
      THEN FerretError(s)
      ELSE [s EXCEPT !.pool = g.rest \o SpcotLeaves(SpcotTrees(c.emp, TreeSeeds(p, s.round), Depth(p))),
                     !.pending = p.n,
                     !.phase = "check",
                     !.held = [check |-> g.check, lpn |-> g.lpn,
                               toss |-> TossReveal(SenderShare(s.round), m.commitment)]]
FerretSenderExtendMsg(c, s, m) ==
  LET p == s.params
  IN  [cs |-> SpcotCorrections(SpcotTrees(c.emp, TreeSeeds(p, s.round), Depth(p)),
                               Split(c, p, s.pool).spcot, m.flip, Depth(p)),
       share |-> SenderShare(s.round)]

\* check: opens the coin toss, answers with V.
FerretSenderCheck(c, s, m) ==
  IF s.phase # "check" \/ ~ TossOpens(s.held.toss, m.opening) \/ Len(m.x.masks) # CheckSize
  THEN FerretError(s)
  ELSE [s EXCEPT !.phase = "finish",
                 !.held = [lpn |-> s.held.lpn,
                           seed |-> IF c.emp THEN SidSeed ELSE TossFinal(s.held.toss, m.opening)[1]]]
FerretSenderCheckMsg(s, m) ==
  CheckV(m.chi, s.held.check, m.x, SubSeq(s.pool, Len(s.pool) - s.params.n + 1, Len(s.pool)))

\* take_refill: the output of the last trees, cut to one round's cost.
Refill(c, p) == RefillTrees(c, p) * Width(p)
UnrefilledCost(c, p, buf) == SubSeq(buf, 1, Len(buf) - IterationCost(p))  \* mutant: refill and output overlap
Refilled(c, p, buf) == SubSeq(buf, Len(buf) - Refill(c, p) + 1, Len(buf) - Refill(c, p) + IterationCost(p))
Unrefilled(c, p, buf) == SubSeq(buf, 1, Len(buf) - Refill(c, p))

\* finish_extend: the LPN encoding in place; the queue once enough is there.
FerretSenderFinish(c, s) ==
  LET p  == s.params
      at == Len(s.pool) - p.n
      Ended(out) == [s EXCEPT !.pool = IF c.emp THEN Unrefilled(c, p, out) ELSE out,
                              !.next = IF c.emp THEN Refilled(c, p, out) ELSE @,
                              !.pending = 0, !.phase = "extend", !.params = None, !.held = <<>>]
      Served(t) == IF FerretMissing(c, t) > 0 THEN t ELSE FerretSenderServe(c, [t EXCEPT !.alloc = 0])
  IN  Served(Ended(SubSeq(s.pool, 1, at)
                   \o LpnEncode(p.k, s.held.seed, SubSeq(s.pool, at + 1, Len(s.pool)), s.held.lpn)))

------------------------------- \* Receiver

FerretReceiverTake(s, r, n) ==
  LET at == Len(s.pool) - n
      ct == Len(s.choices) - n
  IN  [s EXCEPT !.pool = SubSeq(@, 1, at), !.choices = SubSeq(@, 1, ct), !.tid = NextId(s),
                !.done = Append(@, [req |-> r, id |-> s.tid,
                                    data |-> [i \in 1..n |-> [c |-> s.choices[ct + i], m |-> s.pool[at + i]]]])]
FerretReceiverTry(c, s, r, n) == IF FerretAvailable(c, s) < n THEN s ELSE FerretReceiverTake(s, r, n)
FerretReceiverQueue(c, s, r, n) ==
  IF FerretAvailable(c, s) >= n THEN FerretReceiverTake(s, r, n)
  ELSE [s EXCEPT !.queue = Append(@, [req |-> r, count |-> n])]
FerretReceiverServe(c, s) ==
  FoldLeft(LAMBDA acc, q : IF Head(acc.queue) # q \/ FerretAvailable(c, acc) < q.count THEN acc
                           ELSE [FerretReceiverTake(acc, q.req, q.count) EXCEPT !.queue = Tail(@)],
           s, s.queue)

\* start_extend: the trees' choices are used up at once.
FerretReceiverBases(c, s) ==
  [s EXCEPT !.pool = IF c.emp THEN @ \o s.next ELSE @, !.next = <<>>,
            !.choices = IF c.emp THEN @ \o s.nextChoices ELSE @, !.nextChoices = <<>>]
TreeMasks(p, s) == SubSeq(s.choices, Len(s.choices) - SpcotCount(p) + 1, Len(s.choices))
FerretReceiverStart(c, s, inner) ==
  LET Held(p, masks, idxs) ==
        [idxs |-> idxs, flip |-> SpcotDerandomize(idxs, Depth(p), masks),
         toss |-> TossSend(ReceiverShare(s.round + 1), s.round + 1)]
      Query(p, masks) ==
        Held(p, masks, IF c.emp THEN IndicesFromChoices(p.t, Depth(p), masks)
                                ELSE SampleErrorIndices(p.t, Width(p), s.round))
      Start(full, p) ==
        [full EXCEPT !.phase = "extending", !.round = @ + 1, !.params = p,
                     !.choices = SubSeq(@, 1, Len(@) - SpcotCount(p)),
                     !.held = Query(p, TreeMasks(p, full))]
      Choose(full) == Start(full, SelectParams(c, Len(full.pool), FerretMissing(c, full)))
      Filled(b, got) == [b EXCEPT !.pool = @ \o [i \in DOMAIN got |-> got[i].m],
                                  !.choices = @ \o [i \in DOMAIN got |-> got[i].c]]
      Base(b, need) == IF s.phase # "extend" \/ need > Len(inner.pool) THEN FerretError(s)
                       ELSE Choose(Filled(b, LastOf(inner.pool, need)))
      Begin(b) == Base(b, FerretShort(c, b))
  IN  Begin(FerretReceiverBases(c, s))
FerretReceiverInnerAfter(c, b, inner) ==
  IF FerretWantsBootstrap(c, b) THEN RcotReceiverTry(inner, 0, BootstrapCost(c) - Len(b.pool)) ELSE inner
FerretStartMsg(s) == [flip |-> s.held.flip, commitment |-> Commit(s.held.toss.opening)]

\* extend: the punctured trees, then its half of the check.
FerretReceiverExtend(c, s, m) ==
  LET p == s.params
      Taken(g, ws) ==
        [s EXCEPT !.pool = g.rest \o ws, !.pending = p.n, !.phase = "finish",
                  !.choices = DropCheckMasks(c, p, @),
                  !.held = [idxs |-> s.held.idxs, lpn |-> g.lpn,
                            seed |-> IF c.emp THEN SidSeed ELSE TossCoins(s.held.toss, m.share)[1],
                            w |-> CheckW(s.round, g.check, ws)]]
      Take(g) == Taken(g, SpcotReceive(c.emp, s.held.idxs, Depth(p), g.spcot, m.cs))
  IN  IF \/ s.phase # "extending" \/ ~ TossReceives(s.held.toss, m.share)
         \/ Len(s.pool) < IterationCost(p) \/ Len(m.cs) # SpcotCount(p)
      THEN FerretError(s)
      ELSE Take(Split(c, p, s.pool))
FerretCheckMsg(c, s) ==
  [x |-> CheckMask(CheckMasks(c, s.params, s.choices), s.held.idxs, Width(s.params)),
   chi |-> s.round, opening |-> s.held.toss.opening]

\* finish_extend: the check first; then macs and choices through the same
\* matrix, the error bits at the punctured points.
FerretReceiverFinish(c, s, v) ==
  LET p    == s.params
      at   == Len(s.pool) - p.n
      u    == SubSeq(s.choices, Len(s.choices) - p.k + 1, Len(s.choices))
      e    == [i \in 1..p.n |-> i \in Alphas(s.held.idxs, Width(p))]
      Ended(macs, bits) ==
              [s EXCEPT !.pool = IF c.emp THEN Unrefilled(c, p, macs) ELSE macs,
                        !.choices = IF c.emp THEN Unrefilled(c, p, bits) ELSE bits,
                        !.next = IF c.emp THEN Refilled(c, p, macs) ELSE @,
                        !.nextChoices = IF c.emp THEN Refilled(c, p, bits) ELSE @,
                        !.pending = 0, !.phase = "extend", !.params = None, !.held = <<>>]
      Served(t) == IF FerretMissing(c, t) > 0 THEN t ELSE FerretReceiverServe(c, [t EXCEPT !.alloc = 0])
  IN  IF s.phase # "finish" \/ ~ CheckAgrees(v, s.held.w) THEN FerretError(s)
      ELSE Served(Ended(SubSeq(s.pool, 1, at)
                          \o LpnEncode(p.k, s.held.seed, SubSeq(s.pool, at + 1, Len(s.pool)), s.held.lpn),
                        SubSeq(s.choices, 1, Len(s.choices) - p.k)
                          \o LpnEncodeBits(p.k, s.held.seed, e, u)))

=============================================================================
