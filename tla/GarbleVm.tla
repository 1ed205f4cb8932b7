------------------------------ MODULE GarbleVm ------------------------------
(***************************************************************************)
(* The semi-honest garbled-circuit virtual machine: garbler "g" and        *)
(* evaluator "e", each with its memory store, its call stack and its       *)
(* preprocessed calls, exchanging flush messages and garbled circuits      *)
(* (crates/garble and the stores of crates/garble-core).                   *)
(*                                                                         *)
(* The two applications issue the same memory operations in the same       *)
(* order, so one action applies an operation to both machines (it touches  *)
(* nothing the two share).  flush, preprocess and execute_all then run     *)
(* step by step and at their own pace on each side, and inside             *)
(* execute_all each side decides by itself whether to flush or to execute. *)
(***************************************************************************)
EXTENDS GarbleView

CONSTANTS
  Bounds,       \* where each input starts, in the order of allocation, and the last one ends
  CallInputs,   \* for each call, the addresses its circuit reads
  Owner,        \* whose each input is: "g", "e" or "public"
  Handles,      \* the parts of the inputs the applications have slices for
  Values,       \* the values, each for all inputs, an assignment is cut from
  MaxDecodes,   \* bound: number of decode calls
  MaxJoint      \* bound: number of flush, preprocess and execute_all calls

Roles == {"g", "e"}
Peer(p) == IF p = "g" THEN "e" ELSE "g"

ASSUME ConstantsOK ==
  /\ MaxJoint \in Nat /\ MaxDecodes \in Nat
  /\ Bounds \in Seq(Nat) /\ Len(Bounds) > 0 /\ Bounds[1] = 0
  /\ \A i, j \in DOMAIN Bounds : i < j => Bounds[i] < Bounds[j]
  /\ \A i \in 1 .. Len(Bounds) - 1 : Owner[i] \in {"g", "e", "public"}
  \* A handle is a slice of one input.
  /\ \A S \in Handles : \E i \in 1 .. Len(Bounds) - 1 :
       \E a, b \in Bounds[i] .. Bounds[i + 1] - 1 : S = a .. b
  /\ \A bits \in Values : bits \in [0 .. Bounds[Len(Bounds)] - 1 -> {0, 1}]
  /\ CallInputs \in Seq(SUBSET Nat)
  \* A call reads inputs and the outputs of earlier calls.
  /\ \A k \in DOMAIN CallInputs : \A a \in CallInputs[k] : a < Bounds[Len(Bounds)] + k - 1

VARIABLES
  view,     \* the View of each party
  data,     \* data_store: the bits a party knows
  keyUsed,  \* KeyStore: addresses whose key was used to send a MAC
  keys,     \* KeyStore: addresses that have a key
  macs,     \* the evaluator's MacStore
  info,     \* the evaluator's key_bit_store and commit_store
  ops,      \* buffer_decode: the slices that wait to be decoded
  results,  \* what the decode futures resolved to: <<slice, bits>>
  stack,    \* call_stack: calls to be garbled
  pre,      \* preprocessed: calls garbled ahead of execution
  pc,       \* where a party is in flush, preprocess or execute_all
  ret,      \* where its flush returns to: execute_all or the application
  rest,     \* calls preprocess has still to take from the stack
  batch,    \* calls of the current Context::map not yet finished
  taken,    \* calls preprocess started with
  net,      \* flush messages in flight to a party
  wire,     \* garbled circuits sent and not yet received
  err,      \* a party's operation returned an error
  calls,    \* number of call_raw calls so far
  asked,    \* the slices decode_raw was called for so far
  joint     \* number of flush, preprocess and execute_all calls so far

stores == <<data, keyUsed, keys, macs, info>>
decodes == <<ops, results, asked>>
machine == <<stack, pre, calls>>
tasks == <<rest, batch, taken>>
vars ==
  <<view, stores, decodes, machine, pc, ret, tasks, net, wire, err, joint>>

NoMsg == <<>>

Init ==
  /\ view = [p \in Roles |-> NewView]
  /\ data = [p \in Roles |-> EmptyStore]
  /\ keyUsed = {} /\ keys = {}
  /\ macs = EmptyStore /\ info = EmptyStore
  /\ ops = [p \in Roles |-> {}] /\ results = [p \in Roles |-> {}]
  /\ stack = [p \in Roles |-> {}] /\ pre = [p \in Roles |-> {}]
  /\ pc = [p \in Roles |-> "idle"] /\ ret = [p \in Roles |-> "idle"]
  /\ rest = [p \in Roles |-> {}] /\ batch = [p \in Roles |-> {}]
  /\ taken = [p \in Roles |-> {}]
  /\ net = [p \in Roles |-> NoMsg] /\ wire = {}
  /\ err = [p \in Roles |-> FALSE]
  /\ calls = 0 /\ asked = {} /\ joint = 0

-----------------------------------------------------------------------------
(***************************************************************************)
(* The memory.  Inputs are allocated first (a bound), calls then append    *)
(* their outputs of one address each.                                      *)
(***************************************************************************)
Inputs == 1 .. Len(Bounds) - 1

NumInputs == Bounds[Len(Bounds)]

InputSlice(i) == Slice(Bounds[i], Bounds[i + 1] - Bounds[i])

Out(k) == NumInputs + k - 1

OutputSlice(k) == Slice(Out(k), 1)

Allocated == {i \in Inputs : \A a \in InputSlice(i) : a < view["g"].len}

Idle == \A p \in Roles : pc[p] = "idle" /\ ~err[p]

\* Every input is marked and assigned before anything else happens to it
\* (a bound: of these, only commit looks at assignments).
Assigned ==
  view["g"].assigned \cup view["e"].assigned = 0 .. (NumInputs - 1)

Ready(p, k) == \A a \in CallInputs[k] : IsCommitted(view[p], {a})

\* Each party's operations resolve the decode operations they complete.
Resolve(p, waiting, bits) ==
  /\ UNCHANGED asked
  /\ ops' = [ops EXCEPT ![p] = {s \in waiting : ~StoreIsSet(bits, s)}]
  /\ results' = [results EXCEPT
       ![p] = @ \cup {<<s, [a \in s |-> bits[a]]>> :
                        s \in {w \in waiting : StoreIsSet(bits, w)}}]

-----------------------------------------------------------------------------
\* Memory operations of the application.

\* alloc_raw: the garbler draws keys for inputs at once.
AllocRaw ==
  /\ Idle
  /\ Allocated # Inputs
  /\ LET i == Cardinality(Allocated) + 1
         size == Bounds[i + 1] - Bounds[i]
     IN  /\ view' = [p \in Roles |-> AllocInput(view[p], size)]
         /\ keys' = keys \cup Slice(view["g"].len, size)
  /\ UNCHANGED <<data, keyUsed, macs, info, decodes, machine, pc, ret, tasks,
                 net, wire, err, joint>>

MarkRaw(i) ==
  /\ Idle
  /\ \A p \in Roles : CanMark(view[p], InputSlice(i))
  /\ view' = [p \in Roles |->
       IF Owner[i] = "public" THEN MarkPublic(view[p], InputSlice(i))
       ELSE IF Owner[i] = p THEN MarkPrivate(view[p], InputSlice(i))
       ELSE MarkBlind(view[p], InputSlice(i))]
  /\ UNCHANGED <<stores, decodes, machine, pc, ret, tasks, net, wire, err,
                 joint>>

\* assign_raw, by the parties that see the slice.  The view accepts it again
\* and again; try_set refuses it only if the whole slice is set.  An
\* application is assumed not to assign an address twice.
AssignRaw(S, bits) ==
  LET seers == {p \in Roles : CanAssign(view[p], S)}
  IN  /\ Idle
      /\ seers # {}
      /\ \A p \in seers : CanSet(data[p], S)
      /\ \A p \in seers : S \cap DOMAIN data[p] = {}
      /\ view' = [p \in Roles |->
           IF p \in seers THEN Assign(view[p], S) ELSE view[p]]
      /\ data' = [p \in Roles |->
           IF p \in seers THEN TrySet(data[p], S, bits) ELSE data[p]]
      /\ UNCHANGED <<keyUsed, keys, macs, info, decodes, machine, pc, ret,
                     tasks, net, wire, err, joint>>

CommitRaw(S) ==
  /\ Idle
  /\ \A p \in Roles : CanCommit(view[p], S)
  /\ view' = [p \in Roles |-> Commit(view[p], p, S)]
  /\ UNCHANGED <<stores, decodes, machine, pc, ret, tasks, net, wire, err,
                 joint>>

\* The application decodes what is marked, or an output.  Decoding a slice
\* of which a part is decoded and another part not even committed asks for
\* the decoded part a second time, which the garbler then refuses; an
\* application is assumed not to do that.
DecodeRaw(S) ==
  /\ Idle
  /\ S \notin asked /\ Cardinality(asked) < MaxDecodes
  /\ asked' = asked \cup {S}
  /\ \A p \in Roles :
       S \subseteq view[p].outputs \/ VisIsSet(view[p].vis, view[p].len, S)
  /\ \A p \in Roles :
       S \cap view[p].decoded = {} \/ IsCommitted(view[p], S)
  /\ view' = [p \in Roles |-> Decode(view[p], p, S)]
  /\ ops' = [p \in Roles |->
       IF StoreIsSet(data[p], S) THEN ops[p] ELSE ops[p] \cup {S}]
  /\ results' = [p \in Roles |->
       IF StoreIsSet(data[p], S)
       THEN results[p] \cup {<<S, [a \in S |-> data[p][a]]>>}
       ELSE results[p]]
  /\ UNCHANGED <<stores, machine, pc, ret, tasks, net, wire, err, joint>>

CallRaw ==
  /\ Idle
  /\ calls < Len(CallInputs)
  /\ Allocated = Inputs
  /\ calls' = calls + 1
  /\ view' = [p \in Roles |-> AllocOutput(view[p], 1)]
  /\ stack' = [p \in Roles |-> stack[p] \cup {calls + 1}]
  /\ UNCHANGED <<stores, decodes, pre, pc, ret, tasks, net, wire, err, joint>>

-----------------------------------------------------------------------------
(***************************************************************************)
(* Flush.  A party sends what its flush view asks for, then receives; it   *)
(* repeats while completing one flush made another one necessary.  The     *)
(* correlated OT runs beside the exchange: the evaluator's choices meet    *)
(* the keys the garbler queued.                                            *)
(***************************************************************************)
Return(p, where) == pc' = [pc EXCEPT ![p] = where]

Fail(p) ==
  /\ err' = [err EXCEPT ![p] = TRUE]
  /\ UNCHANGED <<view, stores, decodes, machine, pc, ret, tasks, net, wire,
                 joint>>

\* The flush loop goes on while completing one flush made another necessary.
EndFlush(p, v) == Return(p, IF WantsFlush(v) THEN "flush" ELSE ret[p])

\* The keys of MACs sent, directly or by OT, must be unused and set.
FlushKeys(v) == v.flush.macs \cup v.flush.ot

GarblerCanSend(v) ==
  /\ FlushKeys(v) \cap keyUsed = {}
  /\ FlushKeys(v) \cup v.flush.info \subseteq keys
  /\ v.flush.macs \subseteq DOMAIN data["g"]

GarblerFlush(v) ==
  [macs |-> Collect(v.flush.macs, [a \in v.flush.macs |-> Mac(a, data["g"][a])]),
   ot   |-> Collect(v.flush.ot, [a \in v.flush.ot |-> a]),
   info |-> Collect(v.flush.info, [a \in v.flush.info |-> KeyPointer(a)]),
   commitments |-> Collect(v.flush.info, [a \in v.flush.info |-> a])]

GarblerSendFlush ==
  LET v == view["g"]
  IN  /\ pc["g"] = "flush" /\ ~err["g"]
      /\ IF ~GarblerCanSend(v) THEN Fail("g")
         ELSE /\ net' = [net EXCEPT !["e"] = Append(@, GarblerFlush(v))]
              /\ keyUsed' = keyUsed \cup FlushKeys(v)
              /\ Return("g", "await")
              /\ UNCHANGED <<view, data, keys, macs, info, decodes, machine,
                             ret, tasks, wire, err, joint>>

EvaluatorCanSend(v) ==
  v.flush.ot \subseteq DOMAIN data["e"] /\ v.flush.decode \subseteq DOMAIN macs

EvaluatorFlush(v) ==
  [choices |-> Collect(v.flush.ot, data["e"]),
   proof |-> Prove(macs, v.flush.decode)]

EvaluatorSendFlush ==
  LET v == view["e"]
  IN  /\ pc["e"] = "flush" /\ ~err["e"]
      /\ IF ~EvaluatorCanSend(v) THEN Fail("e")
         ELSE /\ net' = [net EXCEPT !["g"] = Append(@, EvaluatorFlush(v))]
              /\ Return("e", "await")
              /\ UNCHANGED <<view, stores, decodes, machine, ret, tasks, wire,
                             err, joint>>

\* GarblerStore::receive_flush: verify the MACs, store the bits, complete
\* the view, resolve decode operations.
GarblerAccepts(v, msg) ==
  Len(msg.proof.bits) > 0 =>
    Verify(v.flush.decode, msg.proof) /\ CanSetRuns(data["g"], v.flush.decode)

GarblerReceiveFlush ==
  LET v   == view["g"]
      msg == Head(net["g"])
      bits == IF Len(msg.proof.bits) > 0
              THEN TrySet(data["g"], v.flush.decode,
                          VerifiedBits(v.flush.decode, msg.proof.bits))
              ELSE data["g"]
  IN  /\ pc["g"] = "await" /\ ~err["g"]
      /\ net["g"] # NoMsg
      /\ IF ~GarblerAccepts(v, msg) THEN Fail("g")
         ELSE /\ net' = [net EXCEPT !["g"] = Tail(@)]
              /\ data' = [data EXCEPT !["g"] = bits]
              /\ view' = [view EXCEPT !["g"] = CompleteFlush(v)]
              /\ Resolve("g", ops["g"], bits)
              /\ EndFlush("g", CompleteFlush(v))
              /\ UNCHANGED <<keyUsed, keys, macs, info, machine, ret, tasks,
                             wire, err, joint>>

\* decode_macs: every address whose MAC and decode info are known and whose
\* bit is not; the commitment catches a MAC, or a bit, that is not the one
\* the key of this address stands for.
Decodable(m, i) == (DOMAIN m \cap DOMAIN i) \ DOMAIN data["e"]

DecodedBit(m, i, a) == Xor(MacPointer(m[a]), i[a].bit)

CommitmentsHold(m, i) ==
  \A a \in Decodable(m, i) : m[a] = Mac(i[a].commitment, DecodedBit(m, i, a))

DecodeMacs(m, i) ==
  Overlay([a \in Decodable(m, i) |-> DecodedBit(m, i, a)], data["e"])

\* EvaluatorStore::receive_flush, with the output of the correlated OT: the
\* MAC of the queued choice under the queued key.
ReceivedMacs(v, msg) ==
  Overlay(Spread(v.flush.macs, msg.macs),
    Overlay([a \in v.flush.ot |->
               Mac(Spread(v.flush.ot, msg.ot)[a], data["e"][a])], macs))

ReceivedInfo(v, msg) ==
  Overlay([a \in v.flush.info |->
             [bit |-> Spread(v.flush.info, msg.info)[a],
              commitment |-> Spread(v.flush.info, msg.commitments)[a]]], info)

EvaluatorExpects(v, msg) ==
  /\ Len(msg.macs) = Cardinality(v.flush.macs)
  /\ Len(msg.ot) = Cardinality(v.flush.ot)
  /\ Len(msg.info) = Cardinality(v.flush.info)
  /\ CanSetRuns(macs, v.flush.macs) /\ CanSetRuns(macs, v.flush.ot)
  /\ CanSetRuns(info, v.flush.info)

EvaluatorReceiveFlush ==
  LET v   == view["e"]
      msg == Head(net["e"])
  IN  /\ pc["e"] = "await" /\ ~err["e"]
      /\ net["e"] # NoMsg
      /\ IF ~EvaluatorExpects(v, msg) THEN Fail("e")
         ELSE \E m \in {ReceivedMacs(v, msg)}, i \in {ReceivedInfo(v, msg)} :
                IF ~CommitmentsHold(m, i) THEN Fail("e")
                ELSE \E bits \in {DecodeMacs(m, i)} :
                     /\ net' = [net EXCEPT !["e"] = Tail(@)]
                     /\ macs' = m /\ info' = i
                     /\ view' = [view EXCEPT !["e"] = CompleteFlush(v)]
                     /\ data' = [data EXCEPT !["e"] = bits]
                     /\ Resolve("e", ops["e"], bits)
                     /\ EndFlush("e", CompleteFlush(v))
                     /\ UNCHANGED <<keyUsed, keys, machine, ret, tasks, wire, err,
                                    joint>>

-----------------------------------------------------------------------------
(***************************************************************************)
(* Garbling.  A call is garbled once the keys of its inputs are set; the   *)
(* garbled circuit travels on the call's own lane.                         *)
(***************************************************************************)
\* take_preprocess_calls: the calls that do not depend on an earlier one.
TakePreprocessCalls(S) ==
  {k \in S : \A j \in S : j < k => Out(j) \notin CallInputs[k]}

PreprocessBatch(p) ==
  /\ pc[p] = "garble" /\ ~err[p]
  /\ batch[p] = {} /\ rest[p] # {}
  /\ batch' = [batch EXCEPT ![p] = TakePreprocessCalls(rest[p])]
  /\ rest' = [rest EXCEPT ![p] = @ \ TakePreprocessCalls(rest[p])]
  /\ UNCHANGED <<view, stores, decodes, machine, pc, ret, taken, net, wire,
                 err, joint>>

FinishTask(p, k) == batch' = [batch EXCEPT ![p] = @ \ {k}]

\* generate, in Mode::Preprocess or Mode::Execute.
GarblerCanGenerate(k) ==
  CallInputs[k] \subseteq keys /\ ~(OutputSlice(k) \subseteq keys)

Generate(k) ==
  /\ pc["g"] \in {"garble", "execute"} /\ ~err["g"]
  /\ k \in batch["g"]
  \* Sending the gates and storing the keys are one step: nobody else sees
  \* the store.
  /\ IF ~GarblerCanGenerate(k) THEN Fail("g")
     ELSE /\ keys' = keys \cup OutputSlice(k)
          /\ view' = [view EXCEPT !["g"] =
               IF pc["g"] = "garble"
               THEN SetPreprocessed(@, OutputSlice(k))
               ELSE SetOutput(SetPreprocessed(@, OutputSlice(k)),
                              OutputSlice(k))]
          /\ wire' = wire \cup {k}
          /\ FinishTask("g", k)
          /\ UNCHANGED <<data, keyUsed, macs, info, decodes, machine, pc, ret,
                         rest, taken, net, err, joint>>

\* receive_garbled_circuit.
ReceiveGarbledCircuit(k) ==
  /\ pc["e"] = "garble" /\ ~err["e"]
  /\ k \in batch["e"] /\ k \in wire
  /\ wire' = wire \ {k}
  /\ FinishTask("e", k)
  /\ UNCHANGED <<view, stores, decodes, machine, pc, ret, rest, taken, net,
                 err, joint>>

MarkPreprocessed(v, S) ==
  LET outs == UNION {OutputSlice(k) : k \in S}
  IN  SetPreprocessed(v, outs)

PreprocessEnd(p) ==
  /\ pc[p] = "garble" /\ ~err[p]
  /\ batch[p] = {} /\ rest[p] = {}
  /\ pre' = [pre EXCEPT ![p] = @ \cup taken[p]]
  /\ view' = [view EXCEPT ![p] =
       IF p = "e" THEN MarkPreprocessed(@, taken[p]) ELSE @]
  /\ taken' = [taken EXCEPT ![p] = {}]
  /\ Return(p, "idle")
  /\ UNCHANGED <<stores, decodes, stack, calls, ret, rest, batch, net, wire,
                 err, joint>>

-----------------------------------------------------------------------------
(***************************************************************************)
(* Execution.  First the preprocessed calls whose inputs are committed,    *)
(* round by round, then the calls of the stack, batch by batch.            *)
(***************************************************************************)
WantsExecute(p) == \E k \in pre[p] \cup stack[p] : Ready(p, k)

\* The circuit itself: any function of its inputs that each of them matters
\* to.  A MAC of another key than the input's decrypts to nothing useful.
Circuit(k, bits) ==
  Cardinality({a \in CallInputs[k] : bits[a] = 1}) % 2

EvaluatorCanEvaluate(k) ==
  CallInputs[k] \subseteq DOMAIN macs /\ CanSet(macs, OutputSlice(k))

EvaluatedMac(k, m) ==
  IF \A a \in CallInputs[k] : m[a].key = a
  THEN Mac(Out(k), Circuit(k, [a \in CallInputs[k] |-> m[a].bit]))
  ELSE Mac(-1, 0)

\* mark_executed and execute_preprocessed stop when no call is ready.
Marked(p) == \A k \in pre[p] : ~Ready(p, k)

\* execute_all: flush before anything else, then execute.
ExecuteAll(p) ==
  /\ pc[p] = "loop" \/ (pc[p] = "remarking" /\ Marked(p))
  /\ ~err[p]
  /\ Return(p, CASE WantsFlush(view[p]) -> "flush"
                 [] ~WantsFlush(view[p]) /\ WantsExecute(p) -> "marking"
                 [] OTHER -> "idle")
  /\ UNCHANGED <<view, stores, decodes, machine, ret, tasks, net, wire, err,
                 joint>>

\* One round of mark_executed and execute_preprocessed.
ExecutePreprocessed(p) ==
  LET ready == {k \in pre[p] : Ready(p, k)}
      outs  == UNION {OutputSlice(k) : k \in ready}
      m == Overlay([a \in outs |->
                      EvaluatedMac(CHOOSE k \in ready : Out(k) = a, macs)], macs)
  IN  /\ pc[p] \in {"marking", "remarking"} /\ ~err[p]
      /\ ready # {}
      /\ IF p = "e" /\ ~(/\ \A k \in ready : EvaluatorCanEvaluate(k)
                         /\ CommitmentsHold(m, info)) THEN Fail("e")
         ELSE /\ pre' = [pre EXCEPT ![p] = @ \ ready]
              /\ view' = [view EXCEPT ![p] = SetOutput(@, outs)]
              /\ IF p = "g"
                 THEN UNCHANGED <<stores, decodes>>
                 ELSE /\ macs' = m
                      /\ data' = [data EXCEPT !["e"] = DecodeMacs(m, info)]
                      /\ Resolve("e", ops["e"], DecodeMacs(m, info))
                      /\ UNCHANGED <<keyUsed, keys, info>>
              /\ UNCHANGED <<stack, calls, pc, ret, tasks, net, wire, err,
                             joint>>

\* The calls of the stack follow once the preprocessed calls are marked.
Executing(p) ==
  /\ pc[p] = "execute" \/ (pc[p] = "marking" /\ Marked(p))
  /\ batch[p] = {}
  /\ ~err[p]

\* take_execute_calls.
ExecuteBatch(p) ==
  LET ready == {k \in stack[p] : Ready(p, k)}
  IN  /\ Executing(p)
      /\ ready # {}
      /\ batch' = [batch EXCEPT ![p] = ready]
      /\ stack' = [stack EXCEPT ![p] = @ \ ready]
      /\ Return(p, "execute")
      /\ UNCHANGED <<view, stores, decodes, pre, calls, ret, rest, taken, net,
                     wire, err, joint>>

\* evaluate.
Evaluate(k) ==
  /\ pc["e"] = "execute" /\ ~err["e"]
  /\ k \in batch["e"] /\ k \in wire
  /\ IF ~EvaluatorCanEvaluate(k) THEN Fail("e")
     ELSE /\ wire' = wire \ {k}
          /\ macs' = Overlay([a \in OutputSlice(k) |-> EvaluatedMac(k, macs)], macs)
          /\ view' = [view EXCEPT !["e"] = SetOutput(@, OutputSlice(k))]
          /\ FinishTask("e", k)
          /\ UNCHANGED <<data, keyUsed, keys, info, decodes, machine, pc, ret,
                         rest, taken, net, err, joint>>

\* The garbler marks once more what became executable; the evaluator decodes.
ExecuteEnd(p) ==
  /\ Executing(p)
  /\ \A k \in stack[p] : ~Ready(p, k)
  /\ CASE p = "g" ->
           /\ Return("g", "remarking")
           /\ UNCHANGED <<view, stores, decodes, machine, ret, tasks, net, wire,
                          err, joint>>
       [] p = "e" /\ ~CommitmentsHold(macs, info) -> Fail("e")
       [] OTHER ->
           /\ Return("e", "loop")
           /\ data' = [data EXCEPT !["e"] = DecodeMacs(macs, info)]
           /\ Resolve("e", ops["e"], DecodeMacs(macs, info))
           /\ UNCHANGED <<view, keyUsed, keys, macs, info, machine, ret, tasks,
                          net, wire, err, joint>>

-----------------------------------------------------------------------------
\* The applications of both parties call the same joint operation: flush,
\* which returns at once if there is nothing to flush, execute_all, or
\* preprocess, which first takes the whole stack.
StartJoint ==
  /\ Idle /\ Assigned
  /\ joint < MaxJoint
  /\ joint' = joint + 1

StartFlush ==
  /\ StartJoint
  /\ pc' = [p \in Roles |-> IF WantsFlush(view[p]) THEN "flush" ELSE "idle"]
  /\ ret' = [p \in Roles |-> "idle"]
  /\ UNCHANGED <<view, stores, decodes, machine, tasks, net, wire, err>>

StartExecuteAll ==
  /\ StartJoint
  /\ pc' = [p \in Roles |-> "loop"]
  /\ ret' = [p \in Roles |-> "loop"]
  /\ UNCHANGED <<view, stores, decodes, machine, tasks, net, wire, err>>

StartPreprocess ==
  /\ StartJoint
  /\ pc' = [p \in Roles |-> "garble"]
  /\ rest' = stack /\ taken' = stack
  /\ stack' = [p \in Roles |-> {}]
  /\ ret' = [p \in Roles |-> "idle"]
  /\ UNCHANGED <<view, stores, decodes, pre, calls, batch, net, wire, err>>

Slices == {S \in Handles : \A a \in S : a < view["g"].len}

Application ==
  \/ AllocRaw
  \/ \E i \in Allocated : MarkRaw(i)
  \/ \E S \in Slices, bits \in Values : AssignRaw(S, bits)
  \/ \E S \in Slices : Assigned /\ CommitRaw(S)
  \/ \E S \in Slices \cup {OutputSlice(k) : k \in 1 .. calls} :
       Assigned /\ DecodeRaw(S)
  \/ Assigned /\ CallRaw
  \/ StartFlush \/ StartPreprocess \/ StartExecuteAll

Party(p) ==
  \/ PreprocessBatch(p) \/ PreprocessEnd(p)
  \/ ExecuteAll(p) \/ ExecutePreprocessed(p)
  \/ ExecuteBatch(p) \/ ExecuteEnd(p)

Garbler ==
  \/ Party("g") \/ GarblerSendFlush \/ GarblerReceiveFlush
  \/ \E k \in batch["g"] : Generate(k)

Evaluator ==
  \/ Party("e") \/ EvaluatorSendFlush \/ EvaluatorReceiveFlush
  \/ \E k \in batch["e"] : ReceiveGarbledCircuit(k) \/ Evaluate(k)

Next == Application \/ Garbler \/ Evaluator

\* Each party's future is polled until it returns.
Spec == Init /\ [][Next]_vars /\ WF_vars(Garbler) /\ WF_vars(Evaluator)

-----------------------------------------------------------------------------
(***************************************************************************)
(* Properties.                                                             *)
(***************************************************************************)
Addresses == 0 .. (NumInputs + Len(CallInputs) - 1)

OwnerOf == [a \in 0 .. (NumInputs - 1) |->
  Owner[CHOOSE i \in Inputs : a \in InputSlice(i)]]

\* The party whose store says what an input is: its owner, and for what is
\* public either.
Holder(a) == IF OwnerOf[a] = "e" THEN "e" ELSE "g"

\* No operation of two applications that call the same operations in the
\* same order fails: both machines expect messages of the same length for
\* the same addresses, no key is used for two MACs, no store refuses, every
\* MAC proof verifies and every decoded MAC matches its commitment
\* (send_flush and receive_flush of both stores, generate and evaluate).
NoFailure == \A p \in Roles : ~err[p]

\* The bits the memory stands for: the owner's, and the circuits of them.
InputBits == [a \in 0 .. (NumInputs - 1) |-> data[Holder(a)][a]]

TruthOf(inputs) ==
  LET bit[a \in Addresses] ==
        IF a < NumInputs
        THEN inputs[a]
        ELSE Cardinality({b \in CallInputs[a - NumInputs + 1] : bit[b] = 1}) % 2
  IN  bit

Truth == TruthOf(InputBits)

\* Whatever a decode future of either party resolves to is what the inputs
\* determine, in whatever order the parts were committed, preprocessed,
\* executed and asked for (decode_macs and KeyStore::verify).
DecodesTruth ==
  LET truth == Truth
  IN  \A p \in Roles : \A r \in results[p] :
        \A a \in r[1] : r[2][a] = truth[a]

\* Nothing is revealed unless both parties asked for it: the evaluator holds
\* decode info, and either party bits it could not see, only for addresses
\* some decode_raw named (set_preprocessed, set_output and decode).
OnlyDecoded ==
  /\ DOMAIN info \subseteq view["e"].decode
  /\ \A p \in Roles :
       DOMAIN data[p] \ view[p].vis.visible \subseteq view[p].decode

\* A decode operation is never forgotten: when a machine has nothing left to
\* flush or execute, each decode operation that still waits names an address
\* that is not committed or not executed (complete_flush, set_output and
\* decode between them always schedule the proof and the decode info).
NoDecodeForgotten ==
  \A p \in Roles :
    Idle /\ ~WantsFlush(view[p]) /\ ~WantsExecute(p)
      => \A s \in ops[p] : \E a \in s : ~IsCommitted(view[p], {a})

\* flush, preprocess and execute_all return on both sides: nobody waits for
\* a flush message or a garbled circuit the other side does not send.
Returns == \A p \in Roles : (pc[p] # "idle") ~> (pc[p] = "idle")

=============================================================================
