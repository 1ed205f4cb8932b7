------------------------------ MODULE IdealVm ------------------------------
(***************************************************************************)
(* One party of the ideal virtual machine (crates/ideal-vm, with the calls *)
(* of vm-core and the slices of memory-core): memory with visibility, a    *)
(* queue of circuit calls, decode requests waiting for data.  Private data *)
(* is exchanged in the clear when the parties flush.                       *)
(*                                                                         *)
(* An address holds one unit of data (a byte, or a word where that is all  *)
(* the circuits tell apart); a value is a term, a tuple whose head names   *)
(* how it was made, so that circuits are uninterpreted functions.  Calls   *)
(* return the machine after them and the slice they made: [vm, s].  A      *)
(* refused call leaves `refused' set.                                      *)
(***************************************************************************)
EXTENDS MemoryCore, SequencesExt

Addr(s) == Slice(s.ptr, s.size)

\* Slice::split_at.
SplitLeft(s, mid) == [ptr |-> s.ptr, size |-> mid]
SplitRight(s, mid) == [ptr |-> s.ptr + mid, size |-> s.size - mid]

\* Array::get, with element size 1: m elements from `start'.
ArrayGet(s, start, m) == [ptr |-> s.ptr + start, size |-> m]

NewVm ==
  [len |-> 0, vis |-> NewVisibility, assigned |-> {}, complete |-> {},
   outputs |-> {}, executed |-> {}, flushIn |-> {}, flushPeer |-> {},
   store |-> EmptyStore, calls |-> <<>>, decodes |-> <<>>, answers |-> <<>>,
   pending |-> FALSE, refused |-> FALSE]

Refuse(v) == [v EXCEPT !.refused = TRUE]

IsSet(v, s) == StoreIsSet(v.store, Addr(s))
Contents(v, s) == Collect(Addr(s), v.store)

-----------------------------------------------------------------------------
\* View: what each address is and what the next flush carries.

Grow(v, n) == [v EXCEPT !.len = @ + n, !.vis = VisAlloc(@, Slice(v.len, n))]
NewSlice(v, n) == [ptr |-> v.len, size |-> n]

AllocRaw(v, n) == [vm |-> Grow(v, n), s |-> NewSlice(v, n)]

AllocOutput(v, n) ==
  [vm |-> [Grow(v, n) EXCEPT !.outputs = @ \cup Slice(v.len, n)], s |-> NewSlice(v, n)]

CanMark(v, s) == ~VisIsSetAny(v.vis, v.len, Addr(s)) /\ Addr(s) \cap v.outputs = {}

MarkPublic(v, s) ==
  IF CanMark(v, s) THEN [v EXCEPT !.vis = SetPublic(@, Addr(s))] ELSE Refuse(v)

MarkPrivate(v, s) ==
  IF CanMark(v, s) THEN [v EXCEPT !.vis = SetPrivate(@, Addr(s))] ELSE Refuse(v)

MarkBlind(v, s) ==
  IF CanMark(v, s) THEN [v EXCEPT !.vis = SetBlind(@, Addr(s))] ELSE Refuse(v)

CanAssign(v, s) ==
  Addr(s) \subseteq v.vis.visible /\ Addr(s) \cap v.outputs = {} /\ CanSet(v.store, Addr(s))

AssignRaw(v, s, data) ==
  IF CanAssign(v, s)
  THEN [v EXCEPT !.assigned = @ \cup Addr(s),
                 !.store = TrySet(@, Addr(s), Spread(Addr(s), data))]
  ELSE Refuse(v)

IsCommitted(v, s) == Addr(s) \subseteq v.complete \/ Addr(s) \subseteq v.executed

CanCommit(v, s) ==
  /\ VisIsSet(v.vis, v.len, Addr(s))
  /\ Addr(s) \cap v.outputs = {}
  /\ Addr(s) \cap v.complete = {}
  /\ Addr(s) \cap v.vis.visible \subseteq v.assigned

\* Public data is complete at once; the rest waits for a flush.
CommitRaw(v, s) ==
  IF CanCommit(v, s)
  THEN [v EXCEPT !.complete = @ \cup (Addr(s) \cap v.vis.public),
                 !.flushPeer = @ \cup (Addr(s) \cap v.vis.blind),
                 !.flushIn = @ \cup (Addr(s) \cap v.vis.private)]
  ELSE Refuse(v)

-----------------------------------------------------------------------------
\* Decoding.

\* flush_decode: answer what is set.
FlushDecode(v) ==
  [v EXCEPT !.answers = @ \o [i \in DOMAIN SelectSeq(v.decodes, LAMBDA o : IsSet(v, o.s)) |->
                                LET o == SelectSeq(v.decodes, LAMBDA d : IsSet(v, d.s))[i]
                                IN  [id |-> o.id, data |-> Contents(v, o.s)]],
            !.decodes = SelectSeq(@, LAMBDA o : ~IsSet(v, o.s))]

\* decode_raw: at once when the data is there.
DecodeRaw(v, s, id) ==
  IF IsSet(v, s)
  THEN [v EXCEPT !.answers = Append(@, [id |-> id, data |-> Contents(v, s)])]
  ELSE [v EXCEPT !.decodes = Append(@, [id |-> id, s |-> s])]

-----------------------------------------------------------------------------
\* Flush: both parties send their private data, then take in the peer's.

WantsFlush(v) == v.flushIn # {} \/ v.flushPeer # {}

SendFlush(v) == IF v.pending THEN Refuse(v) ELSE [v EXCEPT !.pending = TRUE]
FlushMsg(v) == Collect(v.flushIn, v.store)

ReceiveFlush(v, msg) ==
  IF ~v.pending \/ Len(msg) # Cardinality(v.flushPeer) THEN Refuse(v)
  ELSE FlushDecode([v EXCEPT !.store = TrySet(@, v.flushPeer, Spread(v.flushPeer, msg)),
                             !.complete = @ \cup v.flushPeer \cup v.flushIn,
                             !.flushIn = {}, !.flushPeer = {}, !.pending = FALSE])

-----------------------------------------------------------------------------
(***************************************************************************)
(* Calls.  A circuit is known by its name and its output size; its output  *)
(* number i on inputs `in' is the term <<name, i>> \o in, except for the   *)
(* bitwise xor, whose units are independent.                               *)
(***************************************************************************)
Circuit(name, inSize, outSize) == [name |-> name, in |-> inSize, out |-> outSize]

Outputs(circ, in) ==
  [i \in 1 .. circ.out |->
     IF circ.name = "xor" THEN <<"xor", in[i], in[circ.out + i]>>
     ELSE <<circ.name, i>> \o in]

\* CallBuilder::build and call_raw.
CallRaw(v, circ, args) ==
  LET size == FoldLeft(LAMBDA n, s : n + s.size, 0, args)
      out  == AllocOutput(v, circ.out)
  IN  IF size # circ.in THEN [vm |-> Refuse(v), s |-> NewSlice(v, 0)]
      ELSE [out EXCEPT !.vm.calls = Append(@, [circ |-> circ, args |-> args, out |-> out.s])]

\* OneTimePad: xor with a pad that one party knows and the other commits
\* blind.
MaskPrivate(v, s, pad) ==
  LET a  == AllocRaw(v, s.size)
      in == CommitRaw(AssignRaw(MarkPrivate(a.vm, a.s), a.s, pad), a.s)
  IN  CallRaw(in, Circuit("xor", 2 * s.size, s.size), <<s, a.s>>)

MaskBlind(v, s) ==
  LET a  == AllocRaw(v, s.size)
      in == CommitRaw(MarkBlind(a.vm, a.s), a.s)
  IN  CallRaw(in, Circuit("xor", 2 * s.size, s.size), <<s, a.s>>)

IsReady(v, call) == \A s \in ToSet(call.args) : IsCommitted(v, s)
WantsExecute(v) == \E i \in DOMAIN v.calls : IsReady(v, v.calls[i])

\* Wrong on purpose: the output is set but decode requests are not looked at.
SettleNothing(v) == v

\* What follows the output of each call.
Settle(v) == FlushDecode(v)

RunCall(v, call) ==
  LET in == FlattenSeq([i \in DOMAIN call.args |-> Contents(v, call.args[i])])
  IN  Settle([v EXCEPT !.store = TrySet(@, Addr(call.out), Spread(Addr(call.out),
                                                                 Outputs(call.circ, in))),
                       !.executed = @ \cup Addr(call.out)])

\* One round of execute: the calls that are ready, in order.
ExecuteRound(v) ==
  FoldLeft(RunCall,
           [v EXCEPT !.calls = SelectSeq(@, LAMBDA c : ~IsReady(v, c))],
           SelectSeq(v.calls, LAMBDA c : IsReady(v, c)))

\* execute: rounds until no call is ready.
Execute(v) == FoldLeft(LAMBDA w, c : IF WantsExecute(w) THEN ExecuteRound(w) ELSE w, v, v.calls)
=============================================================================
