------------------------------- MODULE ZkCore -------------------------------
(***************************************************************************)
(* Authenticated bits of the zero-knowledge protocol, the execution of a   *)
(* circuit on them by prover and verifier, the consistency check, and a    *)
(* party's view of the memory (crates/zk-core/src/{prover,verifier,check,  *)
(* view}.rs and crates/memory-core/src/correlated).                        *)
(*                                                                         *)
(* A block is a sum of independent terms, here the set of their names: the *)
(* random block of OT number j is the term j, the least significant        *)
(* (pointer) bit is the term 0, and the upper bits of Delta are a term.    *)
(* Equal sums of the code are equal sets of the model.                     *)
(***************************************************************************)
EXTENDS MemoryCore

BlockXor(a, b) == (a \ b) \cup (b \ a)

Lsb(b) == IF 0 \in b THEN 1 ELSE 0

SetLsb(b, bit) == IF bit = 1 THEN b \cup {0} ELSE b \ {0}

\* Delta's pointer bit is 1.
Delta == {-3, 0}

\* Key::auth: the MAC of a bit.
Auth(key, bit) == IF bit = 1 THEN BlockXor(key, Delta) ELSE key

\* Key::adjust clears the pointer bit, so that the MAC's is the bit itself.
AdjustKey(key, bit) == SetLsb(Auth(key, bit), 0)

\* What RCOT number j yields: a key with any pointer bit, a random choice
\* bit and its MAC.
RcotKey(j) == IF (j \div 2) % 2 = 1 THEN {j, 0} ELSE {j}

Choice(j) == j % 2

RcotMac(j) == Auth(RcotKey(j), Choice(j))

\* MAC_ZERO and MAC_ONE, constants both parties know, are blocks as good as
\* random; their pointer bits are 0 and 1.
MacPublic(bit) == IF bit = 1 THEN {-2, 0} ELSE {-1}

KeyPublic(bit) ==
  IF bit = 1 THEN SetLsb(BlockXor(MacPublic(1), Delta), 0) ELSE MacPublic(0)

-----------------------------------------------------------------------------
(***************************************************************************)
(* A circuit is a sequence of gates; gate i writes the feed after the      *)
(* inputs and the gates before it.  The last feed is the output.  Each AND *)
(* gate consumes one OT, ots[i], and yields one adjustment bit and one     *)
(* triple to check.                                                        *)
(***************************************************************************)
AndGates(gates) == {i \in DOMAIN gates : gates[i].op = "and"}

AndCount(gates) == Cardinality(AndGates(gates))

\* ProverIter::next: the MAC of every feed.  `wrong` is the AND gate, if
\* any, for which the prover claims the wrong output.
ProverFeed(gates, macs, ots, wrong) ==
  LET feed[f \in 1 .. Len(macs) + Len(gates)] ==
        IF f <= Len(macs) THEN macs[f]
        ELSE LET i == f - Len(macs)
                 g == gates[i]
             IN  CASE g.op = "xor" -> BlockXor(feed[g.x], feed[g.y])
                   [] g.op = "inv" -> BlockXor(feed[g.x], {0})
                   [] g.op = "id"  -> feed[g.x]
                   [] g.op = "and" ->
                        SetLsb(RcotMac(ots[i]),
                               Xor(Lsb(feed[g.x]) * Lsb(feed[g.y]),
                                   IF i = wrong THEN 1 ELSE 0))
  IN  feed

\* The bits that tell the verifier how to adjust the keys of the AND gates.
Adjust(circuit, feed, ots) ==
  [i \in AndGates(circuit.gates) |->
     Xor(Choice(ots[i]), Lsb(feed[Len(circuit.inputs) + i]))]

\* VerifierConsumer::next: the key of every feed.
VerifierFeed(gates, keys, ots, adjust) ==
  LET feed[f \in 1 .. Len(keys) + Len(gates)] ==
        IF f <= Len(keys) THEN keys[f]
        ELSE LET i == f - Len(keys)
                 g == gates[i]
             IN  CASE g.op = "xor" -> BlockXor(feed[g.x], feed[g.y])
                   [] g.op = "inv" -> AdjustKey(feed[g.x], 1)
                   [] g.op = "id"  -> feed[g.x]
                   [] g.op = "and" -> AdjustKey(RcotKey(ots[i]), adjust[i])
  IN  feed

\* What finish returns for the consistency check: the triples of the AND
\* gates, in order, with their adjustment bits.
Triple(x, y, z, adjust) == [x |-> x, y |-> y, z |-> z, adjust |-> adjust]

Triples(circuit, feed, adjust) ==
  LET S == AndGates(circuit.gates)
  IN  Collect(S, [i \in S |->
        Triple(feed[circuit.gates[i].x], feed[circuit.gates[i].y],
               feed[Len(circuit.inputs) + i], adjust[i])])

Output(circuit, feed) == feed[Len(circuit.inputs) + Len(circuit.gates)]

AdjustBits(triples) == [i \in DOMAIN triples |-> triples[i].adjust]

-----------------------------------------------------------------------------
(***************************************************************************)
(* The check.  With M = K + bit * Delta for x, y and z, the verifier's     *)
(* Kx * Ky + Delta * Kz differs from the prover's terms by                 *)
(* (x * y + z) * Delta^2, and the random combination of these differences, *)
(* with coefficients drawn from the transcript, vanishes only if each of   *)
(* them does.                                                              *)
(***************************************************************************)
TripleHolds(macs, keys) ==
  /\ macs.x = Auth(keys.x, Lsb(macs.x))
  /\ macs.y = Auth(keys.y, Lsb(macs.y))
  /\ macs.z = Auth(keys.z, Lsb(macs.z))
  /\ Lsb(macs.z) = Lsb(macs.x) * Lsb(macs.y)

\* U and V bind the prover's triples, its transcript and the OTs that mask
\* them.
UV(check, transcript, svole) ==
  [kind |-> "uv", check |-> check, svole |-> svole,
   transcript |-> Append(transcript, [bits |-> AdjustBits(check), uv |-> 0])]

\* The transcript after a check: the adjustment bits, then U and V.
Absorb(transcript, check, uv) ==
  transcript \o << [bits |-> AdjustBits(check), uv |-> 0],
                   [bits |-> << >>, uv |-> Len(uv.transcript)] >>

CheckVerifier(check, transcript, svole, uv) ==
  /\ uv.svole = svole
  /\ uv.transcript
       = Append(transcript, [bits |-> AdjustBits(check), uv |-> 0])
  /\ Len(uv.check) = Len(check)
  /\ \A i \in 1 .. Len(check) : TripleHolds(uv.check[i], check[i])

-----------------------------------------------------------------------------
(***************************************************************************)
(* What one party of the zero-knowledge VM knows about every address of    *)
(* the shared memory, and what its next flush has to carry                 *)
(* (crates/zk-core/src/view.rs).  The prover is "p", the verifier "v".     *)
(* Here the flush message does carry the prover's flush view, and the      *)
(* verifier refuses one that is not its own.                               *)
(***************************************************************************)
EmptyFlush == [commit |-> {}, prove |-> {}]

\* input.{assigned,complete,all}, output.{complete,all} and
\* decode.{complete,all} of the code, in this order.
NewView ==
  [len |-> 0, vis |-> NewVisibility,
   assigned |-> {}, committed |-> {}, inputs |-> {},
   executed |-> {}, outputs |-> {},
   decoded |-> {}, decode |-> {},
   flush |-> EmptyFlush]

ViewWantsFlush(v) == v.flush # EmptyFlush

AllocInput(v, size) ==
  LET S == Slice(v.len, size)
  IN  [v EXCEPT !.len = @ + size, !.vis = VisAlloc(@, S), !.inputs = @ \cup S]

AllocOutput(v, size) ==
  LET S == Slice(v.len, size)
  IN  [v EXCEPT !.len = @ + size, !.vis = VisAlloc(@, S), !.outputs = @ \cup S]

-----------------------------------------------------------------------------
\* mark_public, mark_private, mark_blind: only once, never for outputs.

CanMark(v, S) == ~VisIsSetAny(v.vis, v.len, S) /\ S \cap v.outputs = {}

MarkPublic(v, S) == [v EXCEPT !.vis = SetPublic(@, S)]

MarkPrivate(v, S) == [v EXCEPT !.vis = SetPrivate(@, S)]

MarkBlind(v, S) == [v EXCEPT !.vis = SetBlind(@, S)]

-----------------------------------------------------------------------------
\* assign and commit.  Public data is committed at once; the prover's waits
\* in the flush view for its MACs and keys.

CanAssign(v, S) == S \subseteq v.vis.visible /\ S \cap v.outputs = {}

Assign(v, S) == [v EXCEPT !.assigned = @ \cup S]

IsCommitted(v, S) == S \subseteq v.committed \/ S \subseteq v.executed

CanCommit(v, S) ==
  /\ VisIsSet(v.vis, v.len, S)
  /\ S \cap v.outputs = {}
  /\ S \cap v.committed = {}
  /\ S \cap (v.vis.public \cup v.vis.private) \subseteq v.assigned

Commit(v, role, S) ==
  LET mine == IF role = "p" THEN v.vis.private ELSE v.vis.blind
  IN  [v EXCEPT !.committed = @ \cup (S \cap v.vis.public),
                !.flush.commit = @ \cup (S \cap mine)]

-----------------------------------------------------------------------------
\* An executed output is proven if somebody asked to decode it.


SetOutput(v, S) ==
  [v EXCEPT !.executed = @ \cup S,
            !.flush.prove = @ \cup (S \cap v.decode)]

\* Wrong on purpose: an input that is not committed yet is proven.
DecodeUncommitted(v, role, S) ==
  LET undecoded == S \ v.decoded
      hidden == IF role = "p" THEN v.vis.private ELSE v.inputs \ v.vis.visible
  IN  [v EXCEPT !.decode = @ \cup undecoded,
                !.flush.prove = @ \cup (undecoded \cap hidden)
                                  \cup (undecoded \cap v.executed)]

\* Wrong on purpose: only the verifier expects a proof of inputs.
DecodeOutputs(v, role, S) ==
  LET undecoded == S \ v.decoded
      hidden == IF role = "p" THEN {} ELSE v.inputs \ v.vis.visible
  IN  [v EXCEPT !.decode = @ \cup undecoded,
                !.flush.prove = @ \cup (undecoded \cap hidden \cap v.committed)
                                  \cup (undecoded \cap v.executed)]

Decode(v, role, S) ==
  LET undecoded == S \ v.decoded
      hidden == IF role = "p" THEN v.vis.private ELSE v.inputs \ v.vis.visible
  IN  IF undecoded = {} THEN v
      ELSE [v EXCEPT
              !.decode = @ \cup undecoded,
              !.flush.prove = @ \cup (undecoded \cap hidden \cap v.committed)
                                \cup (undecoded \cap v.executed)]

-----------------------------------------------------------------------------
\* complete_flush: what was exchanged is complete, and committed inputs
\* somebody asked to decode are proven by the next flush.

\* Wrong on purpose: the inputs that became provable are forgotten.
CompleteFlushForgets(v) ==
  [v EXCEPT !.committed = @ \cup v.flush.commit,
            !.decoded = @ \cup v.flush.prove,
            !.flush = EmptyFlush]

CompleteFlush(v) ==
  [v EXCEPT !.committed = @ \cup v.flush.commit,
            !.decoded = @ \cup v.flush.prove,
            !.flush = [commit |-> {}, prove |-> v.flush.commit \cap v.decode]]

=============================================================================
