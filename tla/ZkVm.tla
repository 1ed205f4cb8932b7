-------------------------------- MODULE ZkVm --------------------------------
(***************************************************************************)
(* The zero-knowledge virtual machine: prover "p" and verifier "v", each   *)
(* with its memory store, its call stack and its supply of correlated OTs, *)
(* exchanging flush messages, adjustment bits and consistency checks       *)
(* (crates/zk and the stores of crates/zk-core, over the ideal RCOT of     *)
(* crates/ot-core/src/ideal/rcot.rs).                                      *)
(*                                                                         *)
(* The two applications issue the same memory operations in the same       *)
(* order; one action applies an operation to both machines.  flush,        *)
(* execute and execute_all then run at their own pace on each side.        *)
(***************************************************************************)
EXTENDS ZkCore

CONSTANTS
  InputSizes,   \* sizes of the inputs, in the order they are allocated
  Owner,        \* whose each input is: "p" or "public"
  Circuits,     \* for each call, the addresses its circuit reads, its gates
  Handles,      \* the parts of the inputs the applications have slices for
  Value,        \* the bits of the inputs
  BatchSize,    \* batch_size: AND gates per consistency check
  ChunkCap,     \* chunk_cap: AND gates per chunk
  CheckOts,     \* OTs one check consumes (128)
  MaxFaults,    \* bound: AND gates a faulty prover computes wrongly
  MaxDecodes,   \* bound: number of decode calls
  MaxJoint      \* bound: number of flush, execute and execute_all calls

Roles == {"p", "v"}

ASSUME ConstantsOK ==
  /\ BatchSize \in Nat \ {0} /\ ChunkCap \in Nat /\ ChunkCap >= BatchSize
  /\ CheckOts \in Nat \ {0}
  /\ {MaxFaults, MaxDecodes, MaxJoint} \subseteq Nat
  /\ InputSizes \in Seq(Nat \ {0}) /\ Handles \subseteq SUBSET Nat
  /\ \A i \in DOMAIN InputSizes : Owner[i] \in {"p", "public"}

VARIABLES
  view,       \* the View of each party
  data,       \* data_store: the bits a party knows
  auth,       \* mac_store of the prover, key_store of the verifier
  masks,      \* mask_store of the prover
  ops,        \* buffer_decode: the slices that wait to be decoded
  results,    \* what the decode futures resolved to: <<slice, bits>>
  ot,         \* the RCOT of each party: OTs to be made, and the pool of OTs
  stack,      \* callstack
  gates,      \* registered_gates
  checks,     \* registered_checks
  check,      \* the triples that wait for a consistency check
  transcript, \* what was hashed so far
  pc,         \* where a party is in flush, execute or execute_all
  ret,        \* where its flush returns to
  home,       \* where its execute returns to
  chunk,      \* calls staged by execute
  tasks,      \* the current Context::map: per call its OTs, check index and,
              \* once it is finished, its output
  net,        \* messages in flight to a party
  wire,       \* adjustment bits in flight: <<call, bits>>
  err,        \* a party's operation returned an error
  calls,      \* number of call_raw calls so far
  asked,      \* the slices decode_raw was called for so far
  faults,     \* AND gates computed wrongly so far
  joint       \* number of flush, execute and execute_all calls so far

stores == <<data, auth, masks>>
decodes == <<ops, results, asked>>
supply == <<ot, gates, checks>>
checking == <<check, transcript>>
control == <<ret, home, chunk, tasks>>
messages == <<net, wire, err>>
vars == <<view, stores, decodes, supply, stack, checking, pc, control,
          messages, calls, faults, joint>>

Init ==
  /\ view = [p \in Roles |-> NewView]
  /\ data = [p \in Roles |-> EmptyStore]
  /\ auth = [p \in Roles |-> EmptyStore] /\ masks = EmptyStore
  /\ ops = [p \in Roles |-> {}] /\ results = [p \in Roles |-> {}]
  /\ ot = [p \in Roles |-> [pending |-> 0, offset |-> 0, pool |-> << >>]]
  /\ stack = [p \in Roles |-> << >>]
  /\ gates = [p \in Roles |-> 0] /\ checks = [p \in Roles |-> 0]
  /\ check = [p \in Roles |-> << >>] /\ transcript = [p \in Roles |-> << >>]
  /\ pc = [p \in Roles |-> "idle"]
  /\ ret = [p \in Roles |-> "idle"] /\ home = [p \in Roles |-> "idle"]
  /\ chunk = [p \in Roles |-> << >>] /\ tasks = [p \in Roles |-> EmptyStore]
  /\ net = [p \in Roles |-> << >>] /\ wire = {}
  /\ err = [p \in Roles |-> FALSE]
  /\ calls = 0 /\ asked = {} /\ faults = 0 /\ joint = 0

-----------------------------------------------------------------------------
(***************************************************************************)
(* Addresses: the inputs first (a bound), then one output per call.        *)
(***************************************************************************)
Offsets ==
  LET offset[i \in 1 .. Len(InputSizes) + 1] ==
        IF i = 1 THEN 0 ELSE offset[i - 1] + InputSizes[i - 1]
  IN  offset

NumInputs == Offsets[Len(InputSizes) + 1]

InputSlice(i) == Slice(Offsets[i], InputSizes[i])

Out(k) == NumInputs + k - 1

AndCounts == [k \in DOMAIN Circuits |-> AndCount(Circuits[k].gates)]

Ands(k) == AndCounts[k]

\* A gate reads inputs and gates before it (one of a single input reads it
\* twice); a call reads inputs and the outputs of calls before it.
Gate == [op : {"xor", "and", "inv", "id"}, x : Nat, y : Nat]

ASSUME CircuitsOK ==
  /\ Circuits \in Seq([inputs : Seq(Nat), gates : Seq(Gate)])
  /\ \A k \in DOMAIN Circuits :
       LET inputs == Circuits[k].inputs
           gts    == Circuits[k].gates
       IN  /\ Len(inputs) + Len(gts) > 0
           /\ \A i \in DOMAIN inputs : inputs[i] < Out(k)
           /\ \A i \in DOMAIN gts :
                {gts[i].x, gts[i].y} \subseteq 1 .. (Len(inputs) + i - 1)
  /\ \A a \in 0 .. (NumInputs - 1) : Value[a] \in {0, 1}

SumAnds(seq) ==
  LET sum[i \in 0 .. Len(seq)] == IF i = 0 THEN 0 ELSE sum[i - 1] + Ands(seq[i])
  IN  sum[Len(seq)]

Allocated ==
  {i \in DOMAIN InputSizes : \A a \in InputSlice(i) : a < view["p"].len}

Idle == \A p \in Roles : pc[p] = "idle" /\ ~err[p]

\* The applications assign every input before they commit, decode or call.
\* (The code does not ask for it.  A public input that is decoded first and
\* assigned and committed later is not answered before the next flush, as
\* neither assign nor commit looks at the decode operations.)
Assigned ==
  /\ Allocated = DOMAIN InputSizes
  /\ view["p"].inputs \subseteq view["p"].assigned

\* decode_raw and flush_decode resolve the operations whose data is set.
Resolve(p, waiting, bits) ==
  /\ UNCHANGED asked
  /\ ops' = [ops EXCEPT ![p] = {s \in waiting : ~StoreIsSet(bits, s)}]
  /\ results' = [results EXCEPT
       ![p] = @ \cup {<<s, [a \in s |-> bits[a]]>> :
                        s \in {w \in waiting : StoreIsSet(bits, w)}}]

Goto(p, l) == pc' = [pc EXCEPT ![p] = l]

Fail(p) ==
  /\ err' = [err EXCEPT ![p] = TRUE]
  /\ UNCHANGED <<view, stores, decodes, supply, stack, checking, pc, control,
                 net, wire, calls, faults, joint>>

-----------------------------------------------------------------------------
(***************************************************************************)
(* The ideal RCOT.  The verifier sends; OTs are consumed from the end of   *)
(* the pool.                                                               *)
(***************************************************************************)
OtAlloc(o, n) == [o EXCEPT !.pending = @ + n]

OtWantsFlush(p) == ot[p].pending > 0

OtFlushed(o, offset) ==
  [pending |-> 0, offset |-> offset + o.pending,
   pool |-> o.pool \o [i \in 1 .. o.pending |-> offset + i]]

OtHas(o, n) == n <= Len(o.pool)

OtTaken(o, n) == SubSeq(o.pool, Len(o.pool) - n + 1, Len(o.pool))

OtTake(o, n) == [o EXCEPT !.pool = SubSeq(@, 1, Len(@) - n)]

\* IdealRCOTSender::flush.
VerifierOtFlush ==
  /\ pc["v"] = "flush" /\ ~err["v"] /\ OtWantsFlush("v")
  /\ ot' = [ot EXCEPT !["v"] = OtFlushed(@, @.offset)]
  /\ net' = [net EXCEPT !["p"] = Append(@,
       [count |-> ot["v"].pending, offset |-> ot["v"].offset])]
  /\ Goto("v", "commit")
  /\ UNCHANGED <<view, stores, decodes, gates, checks, stack, checking,
                 control, wire, err, calls, faults, joint>>

\* IdealRCOTReceiver::flush.
ProverOtFlush ==
  /\ pc["p"] = "flush" /\ ~err["p"] /\ OtWantsFlush("p")
  /\ net["p"] # << >>
  /\ IF Head(net["p"]).count # ot["p"].pending THEN Fail("p")
     ELSE /\ ot' = [ot EXCEPT !["p"] = OtFlushed(@, Head(net["p"]).offset)]
          /\ net' = [net EXCEPT !["p"] = Tail(@)]
          /\ Goto("p", "commit")
          /\ UNCHANGED <<view, stores, decodes, gates, checks, stack, checking,
                         control, wire, err, calls, faults, joint>>

-----------------------------------------------------------------------------
\* Memory operations of the application.

AllocRaw ==
  /\ Idle
  /\ Cardinality(Allocated) < Len(InputSizes)
  /\ view' = [p \in Roles |->
       AllocInput(view[p], InputSizes[Cardinality(Allocated) + 1])]
  /\ UNCHANGED <<stores, decodes, supply, stack, checking, pc, control,
                 messages, calls, faults, joint>>

\* mark_public_raw, or mark_private_raw and mark_blind_raw, which allocate
\* the OTs the input will need.
MarkRaw(i) ==
  LET S == InputSlice(i)
  IN  /\ Idle
      /\ \A p \in Roles : CanMark(view[p], S)
      /\ IF Owner[i] = "public"
         THEN /\ view' = [p \in Roles |-> MarkPublic(view[p], S)]
              /\ UNCHANGED ot
         ELSE /\ view' = [p \in Roles |->
                   IF p = "p" THEN MarkPrivate(view[p], S)
                              ELSE MarkBlind(view[p], S)]
              /\ ot' = [p \in Roles |-> OtAlloc(ot[p], Cardinality(S))]
      /\ UNCHANGED <<stores, decodes, gates, checks, stack, checking, pc,
                     control, messages, calls, faults, joint>>

\* assign_raw, by the parties that see the slice; public data gets its MACs
\* and keys at once.
AssignRaw(S) ==
  LET seers == {p \in Roles : CanAssign(view[p], S)}
      public == S \cap view["p"].vis.public
  IN  /\ Idle
      /\ seers # {}
      /\ \A p \in seers : S \cap DOMAIN data[p] = {}
      /\ view' = [p \in Roles |->
           IF p \in seers THEN Assign(view[p], S) ELSE view[p]]
      /\ data' = [p \in Roles |->
           IF p \in seers THEN TrySet(data[p], S, Value) ELSE data[p]]
      /\ auth' = [p \in Roles |->
           TrySet(auth[p], public,
                  [a \in public |-> IF p = "p" THEN MacPublic(Value[a])
                                               ELSE KeyPublic(Value[a])])]
      /\ UNCHANGED <<masks, decodes, supply, stack, checking, pc, control,
                     messages, calls, faults, joint>>

CommitRaw(S) ==
  /\ Idle /\ Assigned
  /\ \A p \in Roles : CanCommit(view[p], S)
  /\ view' = [p \in Roles |-> Commit(view[p], p, S)]
  /\ UNCHANGED <<stores, decodes, supply, stack, checking, pc, control,
                 messages, calls, faults, joint>>

DecodeRaw(S) ==
  /\ Idle /\ Assigned
  /\ S \notin asked /\ Cardinality(asked) < MaxDecodes
  /\ asked' = asked \cup {S}
  /\ view' = [p \in Roles |-> Decode(view[p], p, S)]
  /\ ops' = [p \in Roles |->
       IF StoreIsSet(data[p], S) THEN ops[p] ELSE ops[p] \cup {S}]
  /\ results' = [p \in Roles |->
       IF StoreIsSet(data[p], S)
       THEN results[p] \cup {<<S, [a \in S |-> data[p][a]]>>}
       ELSE results[p]]
  /\ UNCHANGED <<stores, supply, stack, checking, pc, control, messages,
                 calls, faults, joint>>

\* The checks a call adds: one for every batch it starts.
CallChecks(partial, count) ==
  (partial + count - 1) \div BatchSize + (IF partial = 0 THEN 1 ELSE 0)

\* call_raw: OTs for the gates are registered up to the chunk window, OTs
\* for the checks always.
CallRaw ==
  LET k     == calls + 1
      count == Ands(k)
      new(p) == IF count = 0 THEN 0
                ELSE CallChecks(SumAnds(stack[p]) % BatchSize, count)
      fits(p) == count > 0 /\ gates[p] + count <= ChunkCap
  IN  /\ Idle /\ Assigned
      /\ calls < Len(Circuits)
      /\ calls' = k
      /\ view' = [p \in Roles |-> AllocOutput(view[p], 1)]
      /\ stack' = [p \in Roles |-> Append(stack[p], k)]
      /\ gates' = [p \in Roles |->
           IF fits(p) THEN gates[p] + count ELSE gates[p]]
      /\ checks' = [p \in Roles |-> checks[p] + new(p)]
      /\ ot' = [p \in Roles |->
           OtAlloc(ot[p], (IF fits(p) THEN count ELSE 0) + CheckOts * new(p))]
      /\ UNCHANGED <<stores, decodes, checking, pc, control, messages, faults,
                     joint>>

-----------------------------------------------------------------------------
(***************************************************************************)
(* flush: make the OTs, give MACs and keys to committed inputs, exchange   *)
(* flush messages until none is wanted.                                    *)
(***************************************************************************)
WantsFlush(p) == OtWantsFlush(p) \/ ViewWantsFlush(view[p])

\* The flush ends, or goes round once more, depending on the view v.
Continue(p, v) == Goto(p, IF ViewWantsFlush(v) THEN "sync" ELSE ret[p])

\* set_macs and set_keys.
SetAuth(p) ==
  LET S    == view[p].flush.commit
      n    == Cardinality(S)
      ots  == Spread(S, OtTaken(ot[p], n))
      fine == OtHas(ot[p], n) /\ CanSetRuns(auth[p], S)
      new  == [a \in S |-> IF p = "p" THEN SetLsb(RcotMac(ots[a]), data[p][a])
                                      ELSE RcotKey(ots[a])]
  IN  /\ pc[p] = "commit" \/ (pc[p] = "flush" /\ ~OtWantsFlush(p))
      /\ ~err[p]
      /\ IF ~fine THEN Fail(p)
         ELSE /\ ot' = [ot EXCEPT ![p] = OtTake(@, n)]
              /\ auth' = [auth EXCEPT ![p] = TrySet(@, S, new)]
              /\ masks' = IF p = "p"
                          THEN TrySet(masks, S, [a \in S |-> Choice(ots[a])])
                          ELSE masks
              /\ Continue(p, view[p])
              /\ UNCHANGED <<view, data, decodes, gates, checks, stack,
                             checking, control, messages, calls, faults,
                             joint>>

\* send_flush and complete_flush of the prover.
FlushBits ==
  LET S == view["p"].flush.commit
  IN  Collect(S, [a \in S |-> Xor(data["p"][a], masks[a])])

ProverFlush ==
  LET S == view["p"].flush.prove
  IN  [kind |-> "flush", view |-> view["p"].flush, adjust |-> FlushBits,
       proof |-> Collect(S, auth["p"])]

AbsorbFlush(t, bits) == Append(t, [bits |-> bits, uv |-> 0])

ProverSendFlush ==
  LET v == CompleteFlush(view["p"])
  IN  /\ pc["p"] = "sync" /\ ~err["p"]
      /\ IF ~StoreIsSet(auth["p"], view["p"].flush.prove) THEN Fail("p")
         ELSE /\ net' = [net EXCEPT !["v"] = Append(@, ProverFlush)]
              /\ transcript' = [transcript EXCEPT
                   !["p"] = AbsorbFlush(@, FlushBits)]
              /\ view' = [view EXCEPT !["p"] = v]
              /\ Resolve("p", ops["p"], data["p"])
              /\ Continue("p", v)
              /\ UNCHANGED <<stores, supply, stack, check, control, wire, err,
                             calls, faults, joint>>

\* receive_flush of the verifier.
AdjustedKeys(keys, S, bits) ==
  TrySet(keys, S, [a \in S |-> AdjustKey(keys[a], Spread(S, bits)[a])])

\* KeyStore::verify: the bits the MACs' pointer bits stand for.
ProvenBits(keys, S, proof) ==
  [a \in S |-> Xor(Lsb(keys[a]), Lsb(Spread(S, proof)[a]))]

ProofHolds(keys, S, proof) ==
  /\ StoreIsSet(keys, S)
  /\ Len(proof) = Cardinality(S)
  /\ proof = Collect(S, [a \in S |->
                Auth(keys[a], ProvenBits(keys, S, proof)[a])])

VerifierAccepts(msg) ==
  /\ msg.kind = "flush" /\ msg.view = view["v"].flush
  /\ ProofHolds(AdjustedKeys(auth["v"], msg.view.commit, msg.adjust),
                msg.view.prove, msg.proof)
  /\ CanSetRuns(data["v"], msg.view.prove)

VerifierReceiveFlush ==
  LET msg  == Head(net["v"])
      keys == AdjustedKeys(auth["v"], msg.view.commit, msg.adjust)
      bits == TrySet(data["v"], msg.view.prove,
                     ProvenBits(keys, msg.view.prove, msg.proof))
      v    == CompleteFlush(view["v"])
  IN  /\ pc["v"] = "sync" /\ ~err["v"]
      /\ net["v"] # << >>
      /\ IF ~VerifierAccepts(msg) THEN Fail("v")
         ELSE /\ net' = [net EXCEPT !["v"] = Tail(@)]
              /\ auth' = [auth EXCEPT !["v"] = keys]
              /\ transcript' = [transcript EXCEPT
                   !["v"] = AbsorbFlush(@, msg.adjust)]
              /\ data' = [data EXCEPT !["v"] = bits]
              /\ view' = [view EXCEPT !["v"] = v]
              /\ Resolve("v", ops["v"], bits)
              /\ Continue("v", v)
              /\ UNCHANGED <<masks, supply, stack, check, control, wire, err,
                             calls, faults, joint>>

-----------------------------------------------------------------------------
(***************************************************************************)
(* execute: stage a chunk, flush, run it in batches of calls, check.       *)
(***************************************************************************)
Ready(p, k) ==
  \A i \in DOMAIN Circuits[k].inputs :
    IsCommitted(view[p], {Circuits[k].inputs[i]})

WantsExecute(p) == \E i \in DOMAIN stack[p] : Ready(p, stack[p][i])

\* CallStack::extract_if: ready calls, until the limit is met or exceeded.
ExtractIf(p) ==
  LET ready == {i \in DOMAIN stack[p] : Ready(p, stack[p][i])}
      S == {i \in ready :
              SumAnds(Collect({j \in ready : j < i}, stack[p])) < ChunkCap}
  IN  [chunk |-> Collect(S, stack[p]),
       rest  |-> Collect(DOMAIN stack[p] \ S, stack[p])]

\* The checks a chunk triggers: one whenever a batch is full, and one for
\* what is left.
ChunkChecks(start, seq) ==
  LET pending[i \in 0 .. Len(seq)] ==
        IF i = 0 THEN start
        ELSE LET n == pending[i - 1] + Ands(seq[i])
             IN  IF n >= BatchSize THEN 0 ELSE n
  IN  Cardinality({i \in DOMAIN seq :
                     pending[i - 1] + Ands(seq[i]) >= BatchSize})
        + (IF pending[Len(seq)] > 0 THEN 1 ELSE 0)

AtMost(a, b) == IF a < b THEN a ELSE b

\* Wrong on purpose: registered checks are allocated again.
DemandAgain(p, g, c) == (g - AtMost(gates[p], g)) + c * CheckOts

\* The OTs to allocate for a chunk, besides the registered ones.
Demand(p, g, c) ==
  (g - AtMost(gates[p], g)) + (c - AtMost(checks[p], c)) * CheckOts

\* The next step of execute_all: flush, execute, or return.
ExecuteAll(p) ==
  /\ pc[p] = "loop" /\ ~err[p]
  /\ Goto(p, CASE WantsFlush(p) -> "flush"
               [] ~WantsFlush(p) /\ WantsExecute(p) -> "stage"
               [] OTHER -> "idle")
  /\ ret' = [ret EXCEPT ![p] = "loop"]
  /\ UNCHANGED <<view, stores, decodes, supply, stack, checking, home, chunk,
                 tasks, messages, calls, faults, joint>>

StageChunk(p) ==
  /\ pc[p] = "stage" /\ ~err[p]
  /\ \E ext \in {ExtractIf(p)} :
     \E g \in {SumAnds(ext.chunk)} :
     \E c \in {ChunkChecks(Len(check[p]), ext.chunk)} :
      /\ stack' = [stack EXCEPT ![p] = ext.rest]
      /\ chunk' = [chunk EXCEPT ![p] = ext.chunk]
      /\ ot' = [ot EXCEPT ![p] = OtAlloc(@, Demand(p, g, c))]
      /\ gates' = [gates EXCEPT ![p] = @ - AtMost(@, g)]
      /\ checks' = [checks EXCEPT ![p] = @ - AtMost(@, c)]
      /\ ret' = [ret EXCEPT ![p] = "batch"]
      /\ Goto(p, IF ext.chunk = << >> THEN home[p] ELSE "flush")
      /\ UNCHANGED <<view, stores, decodes, checking, home, tasks, messages,
                     calls, faults, joint>>

\* Whole calls until the batch size is crossed.
BatchEnds(p) ==
  {n \in 1 .. Len(chunk[p]) :
     \/ SumAnds(SubSeq(chunk[p], 1, n)) >= BatchSize - Len(check[p])
     \/ n = Len(chunk[p])}

BatchLen(p) == CHOOSE n \in BatchEnds(p) : \A m \in BatchEnds(p) : n <= m

\* The OTs and the check index of every call of a batch: each call takes its
\* own after the calls before it.
Plan(p, seq) ==
  [k \in {seq[i] : i \in DOMAIN seq} |->
     LET before == SumAnds(SubSeq(seq, 1, (CHOOSE i \in DOMAIN seq : seq[i] = k) - 1))
     IN  [ots |-> Spread(AndGates(Circuits[k].gates),
                         OtTaken(OtTake(ot[p], before), Ands(k))),
          idx |-> Len(check[p]) + before, out |-> << >>]]

NoTriple == Triple(MacPublic(0), MacPublic(0), MacPublic(0), 0)

InputsSet(p, k) ==
  \A i \in DOMAIN Circuits[k].inputs :
    Circuits[k].inputs[i] \in DOMAIN auth[p]

\* Check::reserve for every call, then Context::map over the batch.
StartBatch(p) ==
  /\ pc[p] = "batch" /\ ~err[p]
  /\ \E n \in {BatchLen(p)} : \E seq \in {SubSeq(chunk[p], 1, n)} :
         IF ~(/\ OtHas(ot[p], SumAnds(seq))
              /\ \A i \in DOMAIN seq : InputsSet(p, seq[i])) THEN Fail(p)
         ELSE /\ tasks' = [tasks EXCEPT ![p] = Plan(p, seq)]
              /\ ot' = [ot EXCEPT ![p] = OtTake(@, SumAnds(seq))]
              /\ check' = [check EXCEPT
                   ![p] = @ \o [i \in 1 .. SumAnds(seq) |-> NoTriple]]
              /\ chunk' = [chunk EXCEPT ![p] = SubSeq(@, n + 1, Len(@))]
              /\ Goto(p, "tasks")
              /\ UNCHANGED <<view, stores, decodes, gates, checks, stack,
                             transcript, ret, home, messages, calls, faults,
                             joint>>

Inputs(p, k) ==
  [i \in DOMAIN Circuits[k].inputs |-> auth[p][Circuits[k].inputs[i]]]

Running(p, k) ==
  /\ pc[p] = "tasks" /\ ~err[p]
  /\ k \in DOMAIN tasks[p] /\ tasks[p][k].out = << >>

\* finish: Check::write at the reserved index, and the output.
FinishTask(p, k, feed, adjust) ==
  LET idx == tasks[p][k].idx
  IN  /\ tasks' = [tasks EXCEPT ![p][k].out = <<Output(Circuits[k], feed)>>]
      /\ check' = [check EXCEPT ![p] =
           SubSeq(@, 1, idx) \o Triples(Circuits[k], feed, adjust)
             \o SubSeq(@, idx + Ands(k) + 1, Len(@))]
      /\ UNCHANGED <<view, stores, decodes, supply, stack, transcript, pc,
                     ret, home, chunk, net, err, calls, joint>>

ProverTask(k, wrong) ==
  /\ Running("p", k)
  /\ faults' = faults + (IF wrong > 0 THEN 1 ELSE 0)
  /\ \E feed \in {ProverFeed(Circuits[k].gates, Inputs("p", k),
                             tasks["p"][k].ots, wrong)} :
     \E adjust \in {Adjust(Circuits[k], feed, tasks["p"][k].ots)} :
       /\ wire' = IF Ands(k) = 0 THEN wire ELSE wire \cup {<<k, adjust>>}
       /\ FinishTask("p", k, feed, adjust)

VerifierTask(k) ==
  /\ Running("v", k)
  /\ UNCHANGED faults
  /\ \E m \in IF Ands(k) = 0 THEN {<<k, EmptyStore>>} ELSE wire :
       /\ m[1] = k
       /\ wire' = wire \ {m}
       /\ \E feed \in {VerifierFeed(Circuits[k].gates, Inputs("v", k),
                                    tasks["v"][k].ots, m[2])} :
            FinishTask("v", k, feed, m[2])

\* Wrong on purpose: a partial batch is left for a later execute to check.
WantsCheckFull(p) == Len(check[p]) >= BatchSize

\* A full batch is checked, and whatever is left when the chunk ends.
WantsCheck(p) ==
  \/ Len(check[p]) >= BatchSize
  \/ chunk[p] = << >> /\ check[p] # << >>

AfterCheck(p) == IF chunk[p] = << >> THEN home[p] ELSE "batch"

\* set_output_macs and set_output_keys for every call of the batch.
EndBatch(p) ==
  LET S    == {Out(k) : k \in DOMAIN tasks[p]}
      outs == [a \in S |-> tasks[p][a - NumInputs + 1].out[1]]
  IN  /\ pc[p] = "tasks" /\ ~err[p]
      /\ \A k \in DOMAIN tasks[p] : tasks[p][k].out # << >>
      /\ IF ~(S \subseteq view[p].outputs /\ CanSetRuns(auth[p], S))
         THEN Fail(p)
         ELSE /\ view' = [view EXCEPT ![p] = SetOutput(@, S)]
              /\ auth' = [auth EXCEPT ![p] = TrySet(@, S, outs)]
              /\ data' = IF p = "v" THEN data
                         ELSE [data EXCEPT !["p"] = TrySet(@, S,
                                 [a \in S |-> Lsb(outs[a])])]
              /\ tasks' = [tasks EXCEPT ![p] = EmptyStore]
              /\ Goto(p, IF WantsCheck(p) THEN "check" ELSE AfterCheck(p))
              /\ UNCHANGED <<masks, decodes, supply, stack, checking, ret,
                             home, chunk, messages, calls, faults, joint>>

EndCheck(p, uv) ==
  /\ ot' = [ot EXCEPT ![p] = OtTake(@, CheckOts)]
  /\ transcript' = [transcript EXCEPT ![p] = Absorb(@, check[p], uv)]
  /\ check' = [check EXCEPT ![p] = << >>]
  /\ Goto(p, AfterCheck(p))
  /\ UNCHANGED <<view, stores, decodes, gates, checks, stack, control, wire,
                 err, calls, faults, joint>>

ProverCheck ==
  LET uv == UV(check["p"], transcript["p"], OtTaken(ot["p"], CheckOts))
  IN  /\ pc["p"] = "check" /\ ~err["p"]
      /\ IF ~OtHas(ot["p"], CheckOts) THEN Fail("p")
         ELSE /\ net' = [net EXCEPT !["v"] = Append(@, uv)]
              /\ EndCheck("p", uv)

VerifierCheck ==
  LET uv == Head(net["v"])
  IN  /\ pc["v"] = "check" /\ ~err["v"]
      /\ net["v"] # << >>
      /\ IF ~(/\ OtHas(ot["v"], CheckOts)
              /\ uv.kind = "uv"
              /\ CheckVerifier(check["v"], transcript["v"],
                               OtTaken(ot["v"], CheckOts), uv))
         THEN Fail("v")
         ELSE /\ net' = [net EXCEPT !["v"] = Tail(@)]
              /\ EndCheck("v", uv)

-----------------------------------------------------------------------------
\* The applications of both parties call the same joint operation.
StartJoint(label, r, h) ==
  /\ Idle /\ Assigned
  /\ joint < MaxJoint
  /\ joint' = joint + 1
  /\ pc' = [p \in Roles |-> label]
  /\ ret' = [p \in Roles |-> r] /\ home' = [p \in Roles |-> h]
  /\ UNCHANGED <<view, stores, decodes, supply, stack, checking, chunk, tasks,
                 messages, calls, faults>>

StartFlush == StartJoint("flush", "idle", "idle")
StartExecute == StartJoint("stage", "idle", "idle")
StartExecuteAll == StartJoint("loop", "loop", "loop")

Slices == {S \in Handles : \A a \in S : a < view["p"].len}

Application ==
  \/ AllocRaw
  \/ \E i \in Allocated : MarkRaw(i)
  \/ \E i \in Allocated : AssignRaw(InputSlice(i))
  \/ \E S \in Slices : CommitRaw(S)
  \/ \E S \in Slices \cup {Slice(Out(k), 1) : k \in 1 .. calls} : DecodeRaw(S)
  \/ CallRaw
  \/ StartFlush \/ StartExecute \/ StartExecuteAll

Party(p) ==
  \/ SetAuth(p) \/ ExecuteAll(p) \/ StageChunk(p) \/ StartBatch(p)
  \/ EndBatch(p)

WrongGates(k) ==
  {0} \cup (IF faults < MaxFaults THEN AndGates(Circuits[k].gates) ELSE {})

Prover ==
  \/ Party("p") \/ ProverOtFlush \/ ProverSendFlush \/ ProverCheck
  \/ \E k \in DOMAIN tasks["p"] : \E w \in WrongGates(k) : ProverTask(k, w)

Verifier ==
  \/ Party("v") \/ VerifierOtFlush \/ VerifierReceiveFlush \/ VerifierCheck
  \/ \E k \in DOMAIN tasks["v"] : VerifierTask(k)

Next == Application \/ Prover \/ Verifier

\* Each party's future is polled until it returns.
Spec == Init /\ [][Next]_vars /\ WF_vars(Prover) /\ WF_vars(Verifier)

-----------------------------------------------------------------------------
(***************************************************************************)
(* Properties.                                                             *)
(***************************************************************************)
Addresses == 0 .. (NumInputs + Len(Circuits) - 1)

\* No operation of two applications that call the same operations in the
\* same order fails while the prover computes its gates correctly: the OTs
\* suffice, the flush views agree, every MAC proof verifies and every
\* consistency check holds (flush and execute of both machines).
NoFailure == faults = 0 => \A p \in Roles : ~err[p]

\* The bits the memory stands for.
CircuitBit(gts, bits) ==
  LET feed[i \in 1 .. Len(bits) + Len(gts)] ==
        IF i <= Len(bits) THEN bits[i]
        ELSE LET g == gts[i - Len(bits)]
             IN  CASE g.op = "xor" -> Xor(feed[g.x], feed[g.y])
                   [] g.op = "inv" -> 1 - feed[g.x]
                   [] g.op = "id"  -> feed[g.x]
                   [] g.op = "and" -> feed[g.x] * feed[g.y]
  IN  feed[Len(bits) + Len(gts)]

Truth ==
  LET bit[a \in Addresses] ==
        IF a < NumInputs THEN Value[a]
        ELSE LET c == Circuits[a - NumInputs + 1]
             IN  CircuitBit(c.gates, [i \in DOMAIN c.inputs |-> bit[c.inputs[i]]])
  IN  bit

\* Soundness of the machine: whatever a decode future of the verifier
\* resolves to is what the inputs determine, even if the prover claims the
\* wrong output for an AND gate, because execute checks every gate before a
\* flush can prove an output that depends on it.  An honest prover decodes
\* the truth as well (check_verifier, KeyStore::verify, execute).
Soundness ==
  LET truth == Truth
  IN  \A p \in Roles : p = "v" \/ faults = 0 =>
        \A r \in results[p] : \A a \in r[1] : r[2][a] = truth[a]

\* The OTs a machine has or will make are exactly those its registered gates
\* and checks and its inputs without MACs will consume, whatever the chunks:
\* no chunk leaves a surplus or a debt (the arithmetic of call_raw and of
\* execute, which count checks by different rules).
OtsBalanced ==
  \A p \in Roles :
    pc[p] \in {"idle", "loop", "stage"} /\ ~err[p] =>
      ot[p].pending + Len(ot[p].pool)
        = gates[p] + checks[p] * CheckOts
            + Cardinality((view[p].vis.private \cup view[p].vis.blind)
                            \ DOMAIN auth[p])

\* The OTs are there whenever a machine takes some: for the inputs a flush
\* commits, for every call of a batch and for every check.  What was allocated
\* call by call, and for a chunk at once, is enough for batches that end
\* elsewhere (set_macs, set_keys, execute, Check::finish).
OtsSuffice ==
  \A p \in Roles :
    ~err[p] =>
      /\ pc[p] = "commit" \/ (pc[p] = "flush" /\ ~OtWantsFlush(p))
           => OtHas(ot[p], Cardinality(view[p].flush.commit))
      /\ pc[p] = "batch" => OtHas(ot[p], SumAnds(SubSeq(chunk[p], 1, BatchLen(p))))
      /\ pc[p] = "check" => OtHas(ot[p], CheckOts)

\* The OTs never run short in the middle of a flush or of execute, and their
\* surplus never grows (call_raw, mark_private_raw, mark_blind_raw, execute).
OtBudget == OtsBalanced /\ OtsSuffice

\* A decode operation is never forgotten: when a machine has nothing left to
\* flush or execute, each decode operation that still waits names an address
\* that is not committed or not executed (decode, set_output and
\* complete_flush between them always schedule the proof).
NoDecodeForgotten ==
  \A p \in Roles :
    Idle /\ ~ViewWantsFlush(view[p]) /\ ~WantsExecute(p)
      => \A s \in ops[p] : \E a \in s : ~IsCommitted(view[p], {a})

\* flush, execute and execute_all return on both sides: nobody waits for a
\* message the other side does not send, unless a check has failed.
Returns ==
  \A p \in Roles : (pc[p] # "idle") ~> (pc[p] = "idle" \/ faults > 0)
=============================================================================
