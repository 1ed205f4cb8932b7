----------------------------- MODULE ZkVm_proofs -----------------------------
(***************************************************************************)
(* Proofs about the zero-knowledge machine, for any memory layout, any     *)
(* circuits, batch and chunk sizes, and a prover that claims any number of *)
(* wrong AND gates: no decode operation is forgotten, what a verifier      *)
(* decodes is what the inputs determine, and the OTs are neither short nor *)
(* made in vain.                                                           *)
(***************************************************************************)
EXTENDS ZkVm, FiniteSetTheorems, WellFoundedInduction, TLAPS

(***************************************************************************)
(* The inductive invariant.                                                *)
(***************************************************************************)
Addr == SUBSET Int

VisType ==
  [uninit : Addr, public : Addr, private : Addr, blind : Addr, visible : Addr]

FlushType == [commit : Addr, prove : Addr]

ViewType ==
  [len : Int, vis : VisType,
   assigned : Addr, committed : Addr, inputs : Addr,
   executed : Addr, outputs : Addr,
   decoded : Addr, decode : Addr,
   flush : FlushType]

Below(S, n) == \A a \in S : a < n

\* Of a view alone: an address without visibility is allocated, one with
\* visibility is an input and keeps it; what was proven or waits to be was
\* asked for.
ViewInv(v) ==
  /\ (v.vis.public \cup v.vis.blind \cup v.vis.visible) \cap v.vis.uninit = {}
  /\ v.vis.public \cup v.vis.blind \cup v.vis.visible \subseteq v.inputs
  /\ v.vis.uninit \subseteq v.inputs \cup v.outputs
  /\ v.vis.blind \cap v.vis.visible = {}
  /\ Below(v.inputs \cup v.outputs, v.len)
  /\ v.executed \subseteq v.outputs
  /\ v.decoded \cup v.flush.prove \subseteq v.decode

\* Addresses whose bits can be opened.
Opened(v) == v.committed \cup v.executed

\* The prover knows the bits of everything committed or executed.
ProverInv(v, D) ==
  Opened(v) \cup v.flush.commit \cup v.flush.prove \subseteq D

\* The verifier knows what it sees and what was proven; anything else that
\* somebody asked for and that can be opened waits to be proven.
VerifierInv(v, D) ==
  /\ v.committed \cup v.flush.commit \subseteq v.vis.public \cup v.vis.blind
  /\ (v.committed \cup v.flush.commit) \cap v.vis.visible \subseteq D
  /\ v.decoded \subseteq D
  /\ v.decode \cap Opened(v) \subseteq D \cup v.flush.prove

\* A waiting decode operation asked for all its addresses, and lacks the bit
\* of one of them or names one the next flush proves.
Waits(v, D, s) ==
  s \subseteq v.decode /\ (~(s \subseteq D) \/ s \cap v.flush.prove # {})

\* Of both views and the addresses whose bits the two parties know.
Pair(vp, vv, Dp, Dv) ==
  /\ vp \in ViewType /\ ViewInv(vp) /\ vp.assigned \subseteq Dp /\ ProverInv(vp, Dp)
  /\ vv \in ViewType /\ ViewInv(vv) /\ vv.assigned \subseteq Dv /\ VerifierInv(vv, Dv)
  /\ vv.len = vp.len /\ vv.inputs = vp.inputs /\ vv.outputs = vp.outputs
  /\ vv.vis.visible \subseteq vp.vis.visible

TypeOK ==
  /\ view = [p \in Roles |-> view[p]]
  /\ data = [p \in Roles |-> data[p]]
  /\ ops = [p \in Roles |-> ops[p]]

OpsWait ==
  \A p \in Roles : \A s \in ops[p] : Assigned /\ Waits(view[p], DOMAIN data[p], s)

Inv ==
  /\ TypeOK /\ OpsWait
  /\ Pair(view["p"], view["v"], DOMAIN data["p"], DOMAIN data["v"])
-----------------------------------------------------------------------------
\* When nothing is left to flush, an operation that waits lacks a bit, and
\* the address of that bit is neither committed nor executed.
LEMMA InvImplies == Inv => NoDecodeForgotten
<1> SUFFICES ASSUME Inv, NEW p \in Roles, ~ViewWantsFlush(view[p]), NEW s \in ops[p]
             PROVE  \E a \in s : ~IsCommitted(view[p], {a})
  BY DEF NoDecodeForgotten
<1>1. view[p].flush.prove = {}
  BY DEF ViewWantsFlush, EmptyFlush
<1>2. PICK a \in s : a \notin DOMAIN data[p]
  BY <1>1 DEF Inv, OpsWait, Waits
<1>3. a \in view[p].decode
  BY DEF Inv, OpsWait, Waits
<1>4. a \notin Opened(view[p])
  BY <1>1, <1>2, <1>3 DEF Inv, Pair, ProverInv, VerifierInv, Roles
<1> QED
  BY <1>2, <1>4 DEF IsCommitted, Opened
-----------------------------------------------------------------------------
(***************************************************************************)
(* What the operations of the view (zk-core/src/view.rs) change.           *)
(***************************************************************************)
SameMemory(v, w) ==
  w.len = v.len /\ w.inputs = v.inputs /\ w.outputs = v.outputs

SameProgress(v, w) ==
  /\ w.assigned = v.assigned /\ w.committed = v.committed /\ w.executed = v.executed
  /\ w.decoded = v.decoded /\ w.decode = v.decode /\ w.flush = v.flush

\* alloc_input and alloc_output.
LEMMA AllocFields ==
  ASSUME NEW v \in ViewType, NEW n \in Nat, NEW S, S = Slice(v.len, n),
         NEW w \in {AllocInput(v, n), AllocOutput(v, n)}
  PROVE  /\ w \in ViewType /\ SameProgress(v, w)
         /\ w.len = v.len + n /\ \A a \in S : v.len <= a /\ a < v.len + n
         /\ w.vis.uninit = v.vis.uninit \cup S /\ w.vis.public = v.vis.public
         /\ w.vis.blind = v.vis.blind /\ w.vis.visible = v.vis.visible
         /\ w.inputs \cup w.outputs = (v.inputs \cup v.outputs) \cup S
         /\ v.inputs \subseteq w.inputs /\ v.outputs \subseteq w.outputs
         /\ AllocInput(v, n).inputs = v.inputs \cup S /\ AllocInput(v, n).outputs = v.outputs
         /\ AllocOutput(v, n).inputs = v.inputs /\ AllocOutput(v, n).outputs = v.outputs \cup S
<1>1. v.len \in Int /\ v.vis \in VisType /\ v.inputs \in Addr /\ v.outputs \in Addr
  BY DEF ViewType
<1>2. S \in Addr /\ \A a \in S : v.len <= a /\ a < v.len + n
  BY <1>1 DEF Slice, Addr
<1>3. v.len + n \in Int
  BY <1>1
<1>4. v.inputs \cup S \in Addr /\ v.outputs \cup S \in Addr
  BY <1>1, <1>2 DEF Addr
<1> DEFINE vis == VisAlloc(v.vis, S)
<1>5. /\ vis \in VisType /\ vis.uninit = v.vis.uninit \cup S
      /\ vis.public = v.vis.public /\ vis.blind = v.vis.blind /\ vis.visible = v.vis.visible
  BY <1>1, <1>2 DEF VisAlloc, VisType, Addr
<1> HIDE DEF vis
<1>6. /\ AllocInput(v, n) = [v EXCEPT !.len = v.len + n, !.vis = vis, !.inputs = v.inputs \cup S]
      /\ AllocOutput(v, n) = [v EXCEPT !.len = v.len + n, !.vis = vis, !.outputs = v.outputs \cup S]
  BY DEF AllocInput, AllocOutput, vis
<1>7. w \in ViewType
  <2>1. AllocInput(v, n) \in ViewType
    BY <1>3, <1>4, <1>5, <1>6 DEF ViewType
  <2>2. AllocOutput(v, n) \in ViewType
    BY <1>3, <1>4, <1>5, <1>6 DEF ViewType
  <2> QED
    BY <2>1, <2>2
<1>8. SameProgress(v, w) /\ w.len = v.len + n /\ w.vis = vis
  <2>1. LET x == AllocInput(v, n) IN SameProgress(v, x) /\ x.len = v.len + n /\ x.vis = vis
    BY <1>6 DEF ViewType, SameProgress
  <2>2. LET x == AllocOutput(v, n) IN SameProgress(v, x) /\ x.len = v.len + n /\ x.vis = vis
    BY <1>6 DEF ViewType, SameProgress
  <2> QED
    BY <2>1, <2>2
<1>9. /\ AllocInput(v, n).inputs = v.inputs \cup S /\ AllocInput(v, n).outputs = v.outputs
      /\ AllocOutput(v, n).inputs = v.inputs /\ AllocOutput(v, n).outputs = v.outputs \cup S
  BY <1>6 DEF ViewType
<1>10. /\ w.inputs \cup w.outputs = (v.inputs \cup v.outputs) \cup S
       /\ v.inputs \subseteq w.inputs /\ v.outputs \subseteq w.outputs
  BY <1>9
<1> QED
  BY <1>2, <1>5, <1>7, <1>8, <1>9, <1>10

\* mark_public, mark_private and mark_blind: only inputs that have no
\* visibility yet, so nothing that is set is set again or hidden.
LEMMA MarkFields ==
  ASSUME NEW v \in ViewType, ViewInv(v), NEW S \in Addr, CanMark(v, S), Below(S, v.len),
         NEW w \in {MarkPublic(v, S), MarkPrivate(v, S), MarkBlind(v, S)}
  PROVE  /\ w \in ViewType /\ SameMemory(v, w) /\ SameProgress(v, w) /\ ViewInv(w)
         /\ v.vis.public \cup v.vis.blind \subseteq w.vis.public \cup w.vis.blind
         /\ S \cap (v.vis.public \cup v.vis.blind) = {}
         /\ w.vis.visible \subseteq v.vis.visible \cup S
         /\ w \in {MarkPublic(v, S), MarkPrivate(v, S)} => w.vis.visible = v.vis.visible \cup S
         /\ w = MarkBlind(v, S) => w.vis.visible = v.vis.visible
<1>1. S \subseteq v.vis.uninit /\ S \subseteq v.inputs
  BY DEF CanMark, VisIsSetAny, Below, ViewInv
<1>2. /\ S \cap (v.vis.public \cup v.vis.blind) = {} /\ v.vis.public \ S = v.vis.public
      /\ v.vis.blind \ S = v.vis.blind /\ v.vis.visible \ S = v.vis.visible
  BY <1>1 DEF ViewInv
<1>3. ASSUME NEW vis \in VisType, vis.uninit = v.vis.uninit \ S,
             vis.public \cup vis.blind \cup vis.visible
               \subseteq v.vis.public \cup v.vis.blind \cup v.vis.visible \cup S,
             vis.blind \cap vis.visible = {}
      PROVE  LET x == [v EXCEPT !.vis = vis] IN
             x \in ViewType /\ SameMemory(v, x) /\ SameProgress(v, x) /\ ViewInv(x) /\ x.vis = vis
  <2> DEFINE x == [v EXCEPT !.vis = vis]
  <2>1. x \in ViewType /\ SameMemory(v, x) /\ SameProgress(v, x) /\ x.vis = vis
    BY <1>3 DEF ViewType, SameMemory, SameProgress
  <2> HIDE DEF x
  <2>2. ViewInv(x)
    BY <1>1, <1>3, <2>1 DEF ViewInv, SameMemory, SameProgress
  <2> QED
    BY <2>1, <2>2 DEF x
<1>4. LET vis == SetPublic(v.vis, S)
          x == MarkPublic(v, S)
      IN  /\ x \in ViewType /\ SameMemory(v, x) /\ SameProgress(v, x) /\ ViewInv(x) /\ x.vis = vis
          /\ vis.public = v.vis.public \cup S /\ vis.blind = v.vis.blind \ S
          /\ vis.visible = v.vis.visible \cup S
  <2> DEFINE vis == SetPublic(v.vis, S)
             x == MarkPublic(v, S)
  <2>1. /\ vis \in VisType /\ vis.uninit = v.vis.uninit \ S
        /\ vis.public = v.vis.public \cup S /\ vis.blind = v.vis.blind \ S
        /\ vis.visible = v.vis.visible \cup S
    BY DEF SetPublic, VisType, ViewType, Addr
  <2>2. x = [v EXCEPT !.vis = vis]
    BY DEF MarkPublic
  <2> HIDE DEF vis, x
  <2>3. vis.blind \cap vis.visible = {}
    BY <2>1 DEF ViewInv
  <2>4. x \in ViewType /\ SameMemory(v, x) /\ SameProgress(v, x) /\ ViewInv(x) /\ x.vis = vis
    BY <1>3, <2>1, <2>2, <2>3
  <2> QED
    BY <2>1, <2>4 DEF vis, x
<1>5. LET vis == SetPrivate(v.vis, S)
          x == MarkPrivate(v, S)
      IN  /\ x \in ViewType /\ SameMemory(v, x) /\ SameProgress(v, x) /\ ViewInv(x) /\ x.vis = vis
          /\ vis.public = v.vis.public \ S /\ vis.blind = v.vis.blind \ S
          /\ vis.visible = v.vis.visible \cup S
  <2> DEFINE vis == SetPrivate(v.vis, S)
             x == MarkPrivate(v, S)
  <2>1. /\ vis \in VisType /\ vis.uninit = v.vis.uninit \ S
        /\ vis.public = v.vis.public \ S /\ vis.blind = v.vis.blind \ S
        /\ vis.visible = v.vis.visible \cup S
    BY DEF SetPrivate, VisType, ViewType, Addr
  <2>2. x = [v EXCEPT !.vis = vis]
    BY DEF MarkPrivate
  <2> HIDE DEF vis, x
  <2>3. vis.blind \cap vis.visible = {}
    BY <2>1 DEF ViewInv
  <2>4. x \in ViewType /\ SameMemory(v, x) /\ SameProgress(v, x) /\ ViewInv(x) /\ x.vis = vis
    BY <1>3, <2>1, <2>2, <2>3
  <2> QED
    BY <2>1, <2>4 DEF vis, x
<1>6. LET vis == SetBlind(v.vis, S)
          x == MarkBlind(v, S)
      IN  /\ x \in ViewType /\ SameMemory(v, x) /\ SameProgress(v, x) /\ ViewInv(x) /\ x.vis = vis
          /\ vis.public = v.vis.public \ S /\ vis.blind = v.vis.blind \cup S
          /\ vis.visible = v.vis.visible \ S
  <2> DEFINE vis == SetBlind(v.vis, S)
             x == MarkBlind(v, S)
  <2>1. /\ vis \in VisType /\ vis.uninit = v.vis.uninit \ S
        /\ vis.public = v.vis.public \ S /\ vis.blind = v.vis.blind \cup S
        /\ vis.visible = v.vis.visible \ S
    BY DEF SetBlind, VisType, ViewType, Addr
  <2>2. x = [v EXCEPT !.vis = vis]
    BY DEF MarkBlind
  <2> HIDE DEF vis, x
  <2>3. vis.blind \cap vis.visible = {}
    BY <2>1 DEF ViewInv
  <2>4. x \in ViewType /\ SameMemory(v, x) /\ SameProgress(v, x) /\ ViewInv(x) /\ x.vis = vis
    BY <1>3, <2>1, <2>2, <2>3
  <2> QED
    BY <2>1, <2>4 DEF vis, x
<1>7. CASE w = MarkPublic(v, S)
  <2>1. w.vis.visible = v.vis.visible \cup S
    BY <1>4, <1>7
  <2>2. w = MarkBlind(v, S) => w.vis.visible = v.vis.visible
    BY <1>2, <1>6
  <2> QED
    BY <1>2, <1>4, <1>7, <2>1, <2>2
<1>8. CASE w = MarkPrivate(v, S)
  <2>1. w.vis.visible = v.vis.visible \cup S
    BY <1>5, <1>8
  <2>2. w = MarkBlind(v, S) => w.vis.visible = v.vis.visible
    BY <1>2, <1>6
  <2> QED
    BY <1>2, <1>5, <1>8, <2>1, <2>2
<1>9. CASE w = MarkBlind(v, S)
  <2>1. w.vis.visible = v.vis.visible
    BY <1>2, <1>6, <1>9
  <2>2. w \in {MarkPublic(v, S), MarkPrivate(v, S)} => w.vis.visible = v.vis.visible \cup S
    BY <1>4, <1>5
  <2> QED
    BY <1>2, <1>6, <1>9, <2>1, <2>2
<1> QED
  BY <1>7, <1>8, <1>9

\* assign.
LEMMA AssignFields ==
  ASSUME NEW v \in ViewType, NEW S \in Addr
  PROVE  LET w == Assign(v, S) IN
         /\ w \in ViewType /\ SameMemory(v, w) /\ w.vis = v.vis
         /\ w.assigned = v.assigned \cup S /\ w.committed = v.committed
         /\ w.executed = v.executed /\ w.decoded = v.decoded /\ w.decode = v.decode
         /\ w.flush = v.flush
<1>1. v.assigned \cup S \in Addr
  BY DEF ViewType, Addr
<1> QED
  BY <1>1 DEF Assign, ViewType, SameMemory

\* commit: public data is committed, the prover's waits in the flush view.
LEMMA CommitFields ==
  ASSUME NEW v \in ViewType, NEW r \in Roles, NEW S \in Addr,
         NEW mine, mine = IF r = "p" THEN v.vis.private ELSE v.vis.blind
  PROVE  LET w == Commit(v, r, S) IN
         /\ w \in ViewType /\ SameMemory(v, w) /\ w.vis = v.vis
         /\ w.assigned = v.assigned /\ w.committed = v.committed \cup (S \cap v.vis.public)
         /\ w.executed = v.executed /\ w.decoded = v.decoded /\ w.decode = v.decode
         /\ w.flush.commit = v.flush.commit \cup (S \cap mine)
         /\ w.flush.prove = v.flush.prove
<1>1. /\ v.committed \cup (S \cap v.vis.public) \in Addr
      /\ v.flush.commit \cup (S \cap mine) \in Addr /\ v.flush \in FlushType
  BY DEF ViewType, VisType, FlushType, Addr
<1> DEFINE f == [v.flush EXCEPT !.commit = v.flush.commit \cup (S \cap mine)]
<1>2. /\ f \in FlushType /\ f.prove = v.flush.prove
      /\ f.commit = v.flush.commit \cup (S \cap mine)
  BY <1>1 DEF FlushType
<1>3. Commit(v, r, S) = [v EXCEPT !.committed = v.committed \cup (S \cap v.vis.public), !.flush = f]
  BY DEF Commit, ViewType
<1> HIDE DEF f
<1> QED
  BY <1>1, <1>2, <1>3 DEF ViewType, SameMemory

\* set_output.
LEMMA OutputFields ==
  ASSUME NEW v \in ViewType, NEW S \in Addr
  PROVE  LET w == SetOutput(v, S) IN
         /\ w \in ViewType /\ SameMemory(v, w) /\ w.vis = v.vis
         /\ w.assigned = v.assigned /\ w.committed = v.committed
         /\ w.executed = v.executed \cup S /\ w.decoded = v.decoded /\ w.decode = v.decode
         /\ w.flush.commit = v.flush.commit
         /\ w.flush.prove = v.flush.prove \cup (S \cap v.decode)
<1>1. /\ v.executed \cup S \in Addr
      /\ v.flush.prove \cup (S \cap v.decode) \in Addr /\ v.flush \in FlushType
  BY DEF ViewType, FlushType, Addr
<1> DEFINE f == [v.flush EXCEPT !.prove = v.flush.prove \cup (S \cap v.decode)]
<1>2. /\ f \in FlushType /\ f.commit = v.flush.commit
      /\ f.prove = v.flush.prove \cup (S \cap v.decode)
  BY <1>1 DEF FlushType
<1>3. SetOutput(v, S) = [v EXCEPT !.executed = v.executed \cup S, !.flush = f]
  BY DEF SetOutput, ViewType
<1> HIDE DEF f
<1> QED
  BY <1>1, <1>2, <1>3 DEF ViewType, SameMemory

\* The inputs the verifier does not see, as a party knows them.
Hidden(v, r) == IF r = "p" THEN v.vis.private ELSE v.inputs \ v.vis.visible

\* decode: what is hidden and committed, or executed, is proven next.
LEMMA DecodeFields ==
  ASSUME NEW v \in ViewType, NEW r \in Roles, NEW S \in Addr
  PROVE  LET w == Decode(v, r, S) IN
         /\ w \in ViewType /\ SameMemory(v, w) /\ w.vis = v.vis
         /\ w.assigned = v.assigned /\ w.committed = v.committed
         /\ w.executed = v.executed /\ w.decoded = v.decoded
         /\ w.decode = v.decode \cup (S \ v.decoded)
         /\ w.flush.commit = v.flush.commit
         /\ w.flush.prove = v.flush.prove \cup ((S \ v.decoded) \cap Hidden(v, r) \cap v.committed)
                              \cup ((S \ v.decoded) \cap v.executed)
<1> DEFINE prove == v.flush.prove \cup ((S \ v.decoded) \cap Hidden(v, r) \cap v.committed)
                      \cup ((S \ v.decoded) \cap v.executed)
<1>1. v.decode \cup (S \ v.decoded) \in Addr /\ prove \in Addr /\ v.flush \in FlushType
  BY DEF ViewType, VisType, FlushType, Addr, Hidden
<1> DEFINE f == [v.flush EXCEPT !.prove = prove]
<1>2. f \in FlushType /\ f.commit = v.flush.commit /\ f.prove = prove
  <2> HIDE DEF prove
  <2> QED
    BY <1>1 DEF FlushType
<1>3. CASE S \ v.decoded = {}
  <2>1. Decode(v, r, S) = v /\ prove = v.flush.prove /\ v.decode \cup (S \ v.decoded) = v.decode
    BY <1>3 DEF Decode
  <2> QED
    BY <2>1 DEF SameMemory
<1>4. CASE S \ v.decoded # {}
  <2>1. Decode(v, r, S) = [v EXCEPT !.decode = v.decode \cup (S \ v.decoded), !.flush = f]
    BY <1>4 DEF Decode, ViewType, Hidden
  <2> HIDE DEF f
  <2> QED
    BY <1>1, <1>2, <2>1 DEF ViewType, SameMemory
<1> QED
  BY <1>3, <1>4

\* complete_flush.
LEMMA CompleteFields ==
  ASSUME NEW v \in ViewType
  PROVE  LET w == CompleteFlush(v) IN
         /\ w \in ViewType /\ SameMemory(v, w) /\ w.vis = v.vis
         /\ w.assigned = v.assigned /\ w.committed = v.committed \cup v.flush.commit
         /\ w.executed = v.executed /\ w.decoded = v.decoded \cup v.flush.prove
         /\ w.decode = v.decode
         /\ w.flush.commit = {} /\ w.flush.prove = v.flush.commit \cap v.decode
<1>1. /\ v.committed \cup v.flush.commit \in Addr /\ v.decoded \cup v.flush.prove \in Addr
      /\ v.flush.commit \cap v.decode \in Addr /\ {} \in Addr
  BY DEF ViewType, FlushType, Addr
<1> DEFINE f == [commit |-> {}, prove |-> v.flush.commit \cap v.decode]
<1>2. f \in FlushType /\ f.commit = {} /\ f.prove = v.flush.commit \cap v.decode
  BY <1>1 DEF FlushType
<1>3. CompleteFlush(v) = [v EXCEPT !.committed = v.committed \cup v.flush.commit,
                                   !.decoded = v.decoded \cup v.flush.prove, !.flush = f]
  BY DEF CompleteFlush
<1> HIDE DEF f
<1> QED
  BY <1>1, <1>2, <1>3 DEF ViewType, SameMemory
-----------------------------------------------------------------------------
(***************************************************************************)
(* Steps.                                                                  *)
(***************************************************************************)

\* Once every input is assigned it stays so: no input is added, no
\* assignment undone and no memory freed.
LEMMA AssignedStays ==
  ASSUME Assigned, view["p"].len \in Int, view'["p"].len \in Int,
         view["p"].len <= view'["p"].len, view'["p"].inputs = view["p"].inputs,
         view["p"].assigned \subseteq view'["p"].assigned
  PROVE  Assigned'
<1>1. ASSUME NEW i, NEW a \in InputSlice(i) PROVE a \in Int
  BY <1>1 DEF InputSlice, Slice
<1>2. Allocated \subseteq Allocated'
  BY <1>1 DEF Allocated
<1>3. Allocated' \subseteq DOMAIN InputSizes
  BY DEF Allocated
<1> QED
  BY <1>2, <1>3 DEF Assigned

\* A step that leaves the views, the data and the operations alone.
LEMMA QuietStep ==
  ASSUME Inv, UNCHANGED <<view, data, ops>> PROVE Inv'
<1>1. Assigned' = Assigned
  BY DEF Assigned, Allocated
<1> QED
  BY <1>1 DEF Inv, TypeOK, OpsWait, Pair

\* What is to be shown of every other step.
LEMMA LoudStep ==
  ASSUME Inv, NEW vp, NEW vv,
         view'["p"] = vp /\ view'["v"] = vv,
         view' = [p \in Roles |-> view'[p]],
         data' = [p \in Roles |-> data'[p]], ops' = [p \in Roles |-> ops'[p]],
         vp.len >= view["p"].len, vp.inputs = view["p"].inputs,
         view["p"].assigned \subseteq vp.assigned,
         Pair(vp, vv, DOMAIN data'["p"], DOMAIN data'["v"]),
         \A p \in Roles : \A s \in ops'[p] : Assigned /\ Waits(view'[p], DOMAIN data'[p], s)
  PROVE  Inv'
<1>1. view["p"].len \in Int /\ vp.len \in Int
  BY DEF Inv, Pair, ViewType
<1>2. Assigned => Assigned'
  BY <1>1, AssignedStays
<1> QED
  BY <1>2 DEF Inv, TypeOK, OpsWait, Pair

\* alloc and call_raw: fresh addresses have no visibility.
LEMMA AllocInv ==
  ASSUME NEW v \in ViewType, ViewInv(v), NEW n \in Nat,
         NEW w \in {AllocInput(v, n), AllocOutput(v, n)}
  PROVE  w \in ViewType /\ ViewInv(w)
<1> DEFINE S == Slice(v.len, n)
           seen == v.vis.public \cup v.vis.blind \cup v.vis.visible
<1>1. /\ w \in ViewType /\ SameProgress(v, w)
      /\ w.len = v.len + n /\ \A a \in S : v.len <= a /\ a < v.len + n
      /\ w.vis.uninit = v.vis.uninit \cup S /\ w.vis.public = v.vis.public
      /\ w.vis.blind = v.vis.blind /\ w.vis.visible = v.vis.visible
      /\ w.inputs \cup w.outputs = (v.inputs \cup v.outputs) \cup S
      /\ v.inputs \subseteq w.inputs /\ v.outputs \subseteq w.outputs
  BY AllocFields
<1>2. v.len \in Int /\ v.inputs \cup v.outputs \subseteq Int
  BY DEF ViewType, Addr
<1>3. S \cap v.inputs = {}
  BY <1>1, <1>2 DEF ViewInv, Below
<1>4. S \subseteq Int
  BY DEF Slice
<1> HIDE DEF S
<1>5. Below((v.inputs \cup v.outputs) \cup S, v.len + n)
  <2>1. ASSUME NEW a \in v.inputs \cup v.outputs PROVE a < v.len + n
    <3>1. a \in Int /\ a < v.len
      BY <1>2, <2>1 DEF ViewInv, Below
    <3> QED
      BY <1>2, <3>1
  <2> QED
    BY <1>1, <2>1 DEF Below
<1>6. seen \cap (v.vis.uninit \cup S) = {}
  BY <1>3 DEF ViewInv
<1> QED
  BY <1>1, <1>5, <1>6 DEF ViewInv, SameProgress

\* See AllocInv: both machines allocate alike.
LEMMA AllocPair ==
  ASSUME NEW vp, NEW vv, NEW Dp, NEW Dv, Pair(vp, vv, Dp, Dv), NEW n \in Nat, NEW wp, NEW wv,
         \/ wp = AllocInput(vp, n) /\ wv = AllocInput(vv, n)
         \/ wp = AllocOutput(vp, n) /\ wv = AllocOutput(vv, n)
  PROVE  Pair(wp, wv, Dp, Dv) /\ wp.len >= vp.len /\ SameProgress(vp, wp) /\ SameProgress(vv, wv)
<1> DEFINE S == Slice(vp.len, n)
<1>0. /\ vp \in ViewType /\ vv \in ViewType /\ vp.len \in Int /\ vv.len = vp.len
      /\ wp \in {AllocInput(vp, n), AllocOutput(vp, n)}
      /\ wv \in {AllocInput(vv, n), AllocOutput(vv, n)}
      /\ S = Slice(vp.len, n) /\ S = Slice(vv.len, n)
  BY DEF Pair, ViewType
<1> HIDE DEF S
<1>1. wp \in ViewType /\ ViewInv(wp) /\ wv \in ViewType /\ ViewInv(wv)
  BY <1>0, AllocInv DEF Pair
<1>a. ASSUME NEW v \in ViewType, S = Slice(v.len, n), NEW w \in {AllocInput(v, n), AllocOutput(v, n)}
      PROVE  /\ SameProgress(v, w) /\ w.len = v.len + n
             /\ w.vis.public = v.vis.public /\ w.vis.blind = v.vis.blind
             /\ w.vis.visible = v.vis.visible
             /\ AllocInput(v, n).inputs = v.inputs \cup S /\ AllocInput(v, n).outputs = v.outputs
             /\ AllocOutput(v, n).inputs = v.inputs /\ AllocOutput(v, n).outputs = v.outputs \cup S
  BY <1>a, AllocFields
<1>2. /\ SameProgress(vp, wp) /\ wp.len = vp.len + n
      /\ wp.vis.public = vp.vis.public /\ wp.vis.blind = vp.vis.blind
      /\ wp.vis.visible = vp.vis.visible
      /\ AllocInput(vp, n).inputs = vp.inputs \cup S /\ AllocInput(vp, n).outputs = vp.outputs
      /\ AllocOutput(vp, n).inputs = vp.inputs /\ AllocOutput(vp, n).outputs = vp.outputs \cup S
  BY <1>0, <1>a, Zenon
<1>3. /\ SameProgress(vv, wv) /\ wv.len = vv.len + n
      /\ wv.vis.public = vv.vis.public /\ wv.vis.blind = vv.vis.blind
      /\ wv.vis.visible = vv.vis.visible
      /\ AllocInput(vv, n).inputs = vv.inputs \cup S /\ AllocInput(vv, n).outputs = vv.outputs
      /\ AllocOutput(vv, n).inputs = vv.inputs /\ AllocOutput(vv, n).outputs = vv.outputs \cup S
  BY <1>0, <1>a, Zenon
<1>4. wp.inputs = wv.inputs /\ wp.outputs = wv.outputs
  BY <1>2, <1>3 DEF Pair
<1>5. ProverInv(wp, Dp) /\ VerifierInv(wv, Dv)
  BY <1>2, <1>3 DEF Pair, ProverInv, VerifierInv, Opened, SameProgress
<1>6. wp.len >= vp.len /\ wp.len = wv.len
  BY <1>0, <1>2, <1>3
<1> QED
  BY <1>1, <1>2, <1>3, <1>4, <1>5, <1>6 DEF Pair, SameProgress

\* The size of the next input.
LEMMA NextSize ==
  ASSUME AllocRaw PROVE InputSizes[Cardinality(Allocated) + 1] \in Nat /\ ~Assigned
<1>1. /\ Allocated \subseteq 1 .. Len(InputSizes) /\ Len(InputSizes) \in Nat
      /\ DOMAIN InputSizes = 1 .. Len(InputSizes)
  BY ConstantsOK DEF Allocated
<1>2. IsFiniteSet(1 .. Len(InputSizes)) /\ Cardinality(1 .. Len(InputSizes)) = Len(InputSizes)
  <2>1. Cardinality(1 .. Len(InputSizes)) = IF 1 > Len(InputSizes) THEN 0 ELSE Len(InputSizes) - 1 + 1
    BY <1>1, FS_Interval
  <2> QED
    BY <1>1, <2>1, FS_Interval
<1>3. Cardinality(Allocated) \in Nat
  BY <1>1, <1>2, FS_Subset, FS_CardinalityType
<1>4. Cardinality(Allocated) + 1 \in 1 .. Len(InputSizes)
  BY <1>1, <1>3 DEF AllocRaw
<1>5. ~Assigned
  BY <1>1, <1>2 DEF AllocRaw, Assigned
<1> QED
  BY <1>1, <1>4, <1>5, ConstantsOK

\* alloc_raw happens before anything waits; call_raw adds no input.
LEMMA AllocSafe ==
  ASSUME Inv, AllocRaw \/ CallRaw PROVE Inv'
<1> USE DEF Roles
<1> DEFINE vp == view["p"]
           vv == view["v"]
<1>1. ASSUME AllocRaw PROVE Inv'
  <2> DEFINE n == InputSizes[Cardinality(Allocated) + 1]
  <2>1. n \in Nat /\ ~Assigned
    BY <1>1, NextSize
  <2>2. /\ view'["p"] = AllocInput(vp, n) /\ view'["v"] = AllocInput(vv, n)
        /\ view' = [p \in Roles |-> view'[p]] /\ UNCHANGED <<data, ops>>
    BY <1>1 DEF AllocRaw, stores, decodes
  <2> HIDE DEF n
  <2>3. Pair(view'["p"], view'["v"], DOMAIN data["p"], DOMAIN data["v"])
    BY <2>1, <2>2, AllocPair DEF Inv
  <2>4. ops["p"] = {} /\ ops["v"] = {}
    BY <2>1 DEF Inv, OpsWait
  <2> QED
    BY <2>2, <2>3, <2>4 DEF Inv, TypeOK, OpsWait, Pair
<1>2. ASSUME CallRaw PROVE Inv'
  <2>1. /\ view'["p"] = AllocOutput(vp, 1) /\ view'["v"] = AllocOutput(vv, 1)
        /\ view' = [p \in Roles |-> view'[p]] /\ UNCHANGED <<data, ops>>
    BY <1>2 DEF CallRaw, stores, decodes
  <2>2. /\ Pair(view'["p"], view'["v"], DOMAIN data["p"], DOMAIN data["v"])
        /\ view'["p"].len >= vp.len
        /\ SameProgress(vp, view'["p"]) /\ SameProgress(vv, view'["v"])
    BY <2>1, AllocPair DEF Inv
  <2>3. view'["p"].inputs = vp.inputs
    BY <2>1, AllocFields DEF Inv, Pair
  <2>4. \A p \in Roles : \A s \in ops[p] : Assigned /\ Waits(view'[p], DOMAIN data[p], s)
    BY <2>2 DEF Inv, OpsWait, Waits, SameProgress
  <2> QED
    BY <2>1, <2>2, <2>3, <2>4, LoudStep DEF Inv, TypeOK, SameProgress
<1> QED
  BY <1>1, <1>2

\* mark_raw: nothing that is committed becomes visible or loses its
\* visibility.
LEMMA MarkPair ==
  ASSUME NEW vp, NEW vv, NEW Dp, NEW Dv, Pair(vp, vv, Dp, Dv), NEW S \in Addr,
         CanMark(vp, S), CanMark(vv, S), Below(S, vp.len), NEW wp, NEW wv,
         \/ wp = MarkPublic(vp, S) /\ wv = MarkPublic(vv, S)
         \/ wp = MarkPrivate(vp, S) /\ wv = MarkBlind(vv, S)
  PROVE  /\ Pair(wp, wv, Dp, Dv) /\ SameMemory(vp, wp)
         /\ SameProgress(vp, wp) /\ SameProgress(vv, wv)
<1>0. /\ vp \in ViewType /\ ViewInv(vp) /\ vv \in ViewType /\ ViewInv(vv) /\ Below(S, vv.len)
      /\ wp \in {MarkPublic(vp, S), MarkPrivate(vp, S)}
      /\ wv \in {MarkPublic(vv, S), MarkBlind(vv, S)}
  BY DEF Pair
<1>1. /\ wp \in ViewType /\ SameMemory(vp, wp) /\ SameProgress(vp, wp) /\ ViewInv(wp)
      /\ wp.vis.visible = vp.vis.visible \cup S
  BY <1>0, MarkFields
<1>2. /\ wv \in ViewType /\ SameMemory(vv, wv) /\ SameProgress(vv, wv) /\ ViewInv(wv)
      /\ vv.vis.public \cup vv.vis.blind \subseteq wv.vis.public \cup wv.vis.blind
      /\ S \cap (vv.vis.public \cup vv.vis.blind) = {}
      /\ wv.vis.visible \subseteq vv.vis.visible \cup S
  BY <1>0, MarkFields
<1>3. wv.vis.visible \subseteq wp.vis.visible
  BY <1>1, <1>2 DEF Pair
<1>4. ProverInv(wp, Dp)
  BY <1>1 DEF Pair, ProverInv, Opened, SameProgress
<1>5. VerifierInv(wv, Dv)
  BY <1>2 DEF Pair, VerifierInv, Opened, SameProgress
<1> QED
  BY <1>1, <1>2, <1>3, <1>4, <1>5 DEF Pair, SameProgress, SameMemory

\* The slice of an allocated input.
LEMMA InputAddr ==
  ASSUME NEW i \in Allocated PROVE InputSlice(i) \in Addr /\ Below(InputSlice(i), view["p"].len)
<1>1. InputSlice(i) \in SUBSET Int
  BY DEF InputSlice, Slice
<1> QED
  BY <1>1 DEF Allocated, Below, Addr

\* See MarkPair.
LEMMA MarkSafe ==
  ASSUME Inv, NEW i \in Allocated, MarkRaw(i) PROVE Inv'
<1> USE DEF Roles
<1> DEFINE S == InputSlice(i)
           vp == view["p"]
           vv == view["v"]
<1>1. /\ CanMark(vp, S) /\ CanMark(vv, S) /\ UNCHANGED <<data, ops>>
      /\ view' = [p \in Roles |-> view'[p]]
      /\ \/ view'["p"] = MarkPublic(vp, S) /\ view'["v"] = MarkPublic(vv, S)
         \/ view'["p"] = MarkPrivate(vp, S) /\ view'["v"] = MarkBlind(vv, S)
  BY DEF MarkRaw, stores, decodes
<1>2. S \in Addr /\ Below(S, vp.len)
  BY InputAddr
<1> HIDE DEF S
<1>3. /\ Pair(view'["p"], view'["v"], DOMAIN data["p"], DOMAIN data["v"])
      /\ SameMemory(vp, view'["p"])
      /\ SameProgress(vp, view'["p"]) /\ SameProgress(vv, view'["v"])
  BY <1>1, <1>2, MarkPair DEF Inv
<1>4. \A p \in Roles : \A s \in ops[p] : Assigned /\ Waits(view'[p], DOMAIN data[p], s)
  BY <1>3 DEF Inv, OpsWait, Waits, SameProgress
<1>5. view'["p"].len >= vp.len
  BY <1>3 DEF Inv, Pair, ViewType, SameMemory
<1> QED
  BY <1>1, <1>3, <1>4, <1>5, LoudStep DEF Inv, TypeOK, SameProgress, SameMemory

\* try_set adds exactly the slice to what is set.
LEMMA TrySetDomain ==
  ASSUME NEW store, NEW S, NEW contents
  PROVE  DOMAIN TrySet(store, S, contents) = S \cup DOMAIN store
BY DEF TrySet, Overlay

\* assign_raw: while an operation waits every input has its bit, and what
\* is set is not set again.
LEMMA AssignSafe ==
  ASSUME Inv, NEW i \in Allocated, AssignRaw(InputSlice(i)) PROVE Inv'
<1> USE DEF Roles
<1> DEFINE S == InputSlice(i)
           vp == view["p"]
           vv == view["v"]
           seers == {p \in Roles : CanAssign(view[p], S)}
<1>1. S \in Addr
  BY InputAddr
<1>2. /\ seers # {} /\ \A p \in seers : S \cap DOMAIN data[p] = {}
      /\ view' = [p \in Roles |-> IF p \in seers THEN Assign(view[p], S) ELSE view[p]]
      /\ data' = [p \in Roles |-> IF p \in seers THEN TrySet(data[p], S, Value) ELSE data[p]]
      /\ ops' = ops
  BY DEF AssignRaw, decodes
<1> HIDE DEF S
<1>3. "p" \in seers /\ S \subseteq vp.vis.visible
  BY <1>2 DEF Inv, Pair, CanAssign
<1> DEFINE wv == IF "v" \in seers THEN Assign(vv, S) ELSE vv
<1>4. view'["p"] = Assign(vp, S) /\ view'["v"] = wv /\ view' = [p \in Roles |-> view'[p]]
  BY <1>2, <1>3
<1>5. /\ DOMAIN data'["p"] = S \cup DOMAIN data["p"]
      /\ DOMAIN data["v"] \subseteq DOMAIN data'["v"]
      /\ "v" \in seers => DOMAIN data'["v"] = S \cup DOMAIN data["v"]
      /\ DOMAIN data'["v"] \subseteq S \cup DOMAIN data["v"]
      /\ data' = [p \in Roles |-> data'[p]]
  <2>1. /\ data'["p"] = TrySet(data["p"], S, Value)
        /\ data'["v"] = IF "v" \in seers THEN TrySet(data["v"], S, Value) ELSE data["v"]
        /\ data' = [p \in Roles |-> data'[p]]
    BY <1>2, <1>3
  <2> HIDE DEF seers
  <2>2. DOMAIN data'["p"] = S \cup DOMAIN data["p"]
    BY <2>1, TrySetDomain
  <2>3. CASE "v" \in seers
    <3>1. DOMAIN data'["v"] = S \cup DOMAIN data["v"]
      BY <2>1, <2>3, TrySetDomain
    <3> QED
      BY <2>1, <2>2, <3>1
  <2>4. CASE "v" \notin seers
    BY <2>1, <2>2, <2>4
  <2> QED
    BY <2>3, <2>4
<1> HIDE DEF seers
<1>6. LET w == Assign(vp, S) IN
      /\ w \in ViewType /\ SameMemory(vp, w) /\ w.vis = vp.vis
      /\ w.assigned = vp.assigned \cup S /\ w.committed = vp.committed
      /\ w.executed = vp.executed /\ w.decoded = vp.decoded /\ w.decode = vp.decode
      /\ w.flush = vp.flush
  BY <1>1, AssignFields DEF Inv, Pair
<1>7. /\ wv \in ViewType /\ SameMemory(vv, wv) /\ wv.vis = vv.vis
      /\ wv.assigned = IF "v" \in seers THEN vv.assigned \cup S ELSE vv.assigned
      /\ wv.committed = vv.committed
      /\ wv.executed = vv.executed /\ wv.decoded = vv.decoded /\ wv.decode = vv.decode
      /\ wv.flush = vv.flush
  <2>1. CASE "v" \in seers
    BY <1>1, <2>1, AssignFields DEF Inv, Pair
  <2>2. CASE "v" \notin seers
    BY <2>2 DEF Inv, Pair, SameMemory
  <2> QED
    BY <2>1, <2>2
<1> HIDE DEF wv
<1>8. Pair(view'["p"], view'["v"], DOMAIN data'["p"], DOMAIN data'["v"])
  <2>1. ViewInv(Assign(vp, S)) /\ ProverInv(Assign(vp, S), DOMAIN data'["p"])
    BY <1>5, <1>6 DEF Inv, Pair, ViewInv, ProverInv, Opened, SameMemory
  <2>2. ViewInv(wv) /\ VerifierInv(wv, DOMAIN data'["v"])
    BY <1>5, <1>7 DEF Inv, Pair, ViewInv, VerifierInv, Opened, SameMemory
  <2>3. /\ Assign(vp, S).assigned \subseteq DOMAIN data'["p"]
        /\ wv.assigned \subseteq DOMAIN data'["v"]
    BY <1>5, <1>6, <1>7 DEF Inv, Pair
  <2> QED
    BY <1>4, <1>6, <1>7, <2>1, <2>2, <2>3 DEF Inv, Pair, SameMemory
<1>9. ASSUME NEW p \in Roles, NEW s \in ops[p]
      PROVE  Assigned /\ Waits(view'[p], DOMAIN data'[p], s)
  <2>1. Assigned /\ Waits(view[p], DOMAIN data[p], s)
    BY DEF Inv, OpsWait
  <2>2. S \subseteq DOMAIN data["p"]
    BY <1>3, <2>1 DEF Assigned, Inv, Pair, ViewInv
  <2>3. S = {}
    BY <1>2, <1>3, <2>2
  <2>4. DOMAIN data'[p] = DOMAIN data[p]
    BY <1>5, <2>3
  <2> QED
    BY <1>4, <1>6, <1>7, <2>1, <2>4 DEF Waits
<1>10. view'["p"].len >= vp.len
  BY <1>4, <1>6 DEF Inv, Pair, ViewType, SameMemory
<1> QED
  BY <1>2, <1>4, <1>5, <1>6, <1>8, <1>9, <1>10, LoudStep DEF Inv, TypeOK, SameMemory

\* Steps that keep the memory layout and what a party assigned.
Kept(v, w) ==
  /\ w \in ViewType /\ SameMemory(v, w) /\ w.vis = v.vis /\ w.assigned = v.assigned

\* See Kept.
LEMMA KeptLen ==
  ASSUME NEW v \in ViewType, NEW w, Kept(v, w) PROVE w.len >= v.len
BY DEF Kept, SameMemory, ViewType

\* commit_raw: what is committed at once is assigned.
LEMMA CommitSafe ==
  ASSUME Inv, NEW S \in Addr, CommitRaw(S) PROVE Inv'
<1> USE DEF Roles
<1> DEFINE vp == view["p"]
           vv == view["v"]
           wp == Commit(vp, "p", S)
           wv == Commit(vv, "v", S)
           Dp == DOMAIN data["p"]
           Dv == DOMAIN data["v"]
<1>1. /\ view'["p"] = wp /\ view'["v"] = wv /\ view' = [p \in Roles |-> view'[p]]
      /\ CanCommit(vp, S) /\ CanCommit(vv, S) /\ UNCHANGED <<data, ops>>
  BY DEF CommitRaw, stores, decodes
<1>2. /\ Kept(vp, wp) /\ wp.committed = vp.committed \cup (S \cap vp.vis.public)
      /\ wp.executed = vp.executed /\ wp.decoded = vp.decoded /\ wp.decode = vp.decode
      /\ wp.flush.commit = vp.flush.commit \cup (S \cap vp.vis.private)
      /\ wp.flush.prove = vp.flush.prove
  BY CommitFields DEF Inv, Pair, Kept
<1>3. /\ Kept(vv, wv) /\ wv.committed = vv.committed \cup (S \cap vv.vis.public)
      /\ wv.executed = vv.executed /\ wv.decoded = vv.decoded /\ wv.decode = vv.decode
      /\ wv.flush.commit = vv.flush.commit \cup (S \cap vv.vis.blind)
      /\ wv.flush.prove = vv.flush.prove
  BY CommitFields DEF Inv, Pair, Kept
<1> HIDE DEF wp, wv
<1>4. S \cap (vp.vis.public \cup vp.vis.private) \subseteq Dp /\ S \cap vv.vis.public \subseteq Dv
  BY <1>1 DEF CanCommit, Inv, Pair
<1>5. ViewInv(wp) /\ ProverInv(wp, Dp)
  BY <1>2, <1>4 DEF Inv, Pair, ViewInv, ProverInv, Opened, Kept, SameMemory
<1>6. ViewInv(wv)
  BY <1>3 DEF Inv, Pair, ViewInv, Kept, SameMemory
<1>7. VerifierInv(wv, Dv)
  <2>1. wv.committed \cup wv.flush.commit \subseteq wv.vis.public \cup wv.vis.blind
    BY <1>3 DEF Inv, Pair, VerifierInv, Kept
  <2>2. (wv.committed \cup wv.flush.commit) \cap wv.vis.visible \subseteq Dv
    BY <1>3, <1>4 DEF Inv, Pair, VerifierInv, ViewInv, Kept
  <2>3. wv.decoded \subseteq Dv /\ wv.decode \cap Opened(wv) \subseteq Dv \cup wv.flush.prove
    BY <1>3, <1>4 DEF Inv, Pair, VerifierInv, Opened
  <2> QED
    BY <2>1, <2>2, <2>3 DEF VerifierInv
<1>8. Pair(wp, wv, Dp, Dv)
  BY <1>2, <1>3, <1>5, <1>6, <1>7 DEF Inv, Pair, Kept, SameMemory
<1>9. \A p \in Roles : \A s \in ops[p] : Assigned /\ Waits(view'[p], DOMAIN data[p], s)
  BY <1>1, <1>2, <1>3 DEF Inv, OpsWait, Waits
<1>10. wp.len >= vp.len
  BY <1>2, KeptLen DEF Inv, Pair
<1> QED
  BY <1>1, <1>2, <1>8, <1>9, <1>10, LoudStep DEF Inv, TypeOK, Kept, SameMemory

\* decode_raw: an address that can be opened is proven by the next flush,
\* unless the verifier sees it.
LEMMA DecodeSafe ==
  ASSUME Inv, NEW S \in Addr, DecodeRaw(S) PROVE Inv'
<1> USE DEF Roles
<1> DEFINE vp == view["p"]
           vv == view["v"]
           wp == Decode(vp, "p", S)
           wv == Decode(vv, "v", S)
           Dp == DOMAIN data["p"]
           Dv == DOMAIN data["v"]
<1>1. /\ view'["p"] = wp /\ view'["v"] = wv /\ view' = [p \in Roles |-> view'[p]]
      /\ UNCHANGED data /\ Assigned
      /\ ops' = [p \in Roles |-> IF StoreIsSet(data[p], S) THEN ops[p] ELSE ops[p] \cup {S}]
  BY DEF DecodeRaw, stores
<1>2. /\ Kept(vp, wp) /\ wp.committed = vp.committed
      /\ wp.executed = vp.executed /\ wp.decoded = vp.decoded
      /\ wp.decode = vp.decode \cup (S \ vp.decoded)
      /\ wp.flush.commit = vp.flush.commit
      /\ wp.flush.prove = vp.flush.prove \cup ((S \ vp.decoded) \cap Hidden(vp, "p") \cap vp.committed)
                            \cup ((S \ vp.decoded) \cap vp.executed)
  BY DecodeFields DEF Inv, Pair, Kept
<1>3. /\ Kept(vv, wv) /\ wv.committed = vv.committed
      /\ wv.executed = vv.executed /\ wv.decoded = vv.decoded
      /\ wv.decode = vv.decode \cup (S \ vv.decoded)
      /\ wv.flush.commit = vv.flush.commit
      /\ wv.flush.prove = vv.flush.prove \cup ((S \ vv.decoded) \cap Hidden(vv, "v") \cap vv.committed)
                            \cup ((S \ vv.decoded) \cap vv.executed)
  BY DecodeFields DEF Inv, Pair, Kept
<1> HIDE DEF wp, wv
<1>4. ViewInv(wp) /\ ViewInv(wv)
  BY <1>2, <1>3 DEF Inv, Pair, ViewInv, Kept, SameMemory
<1>5. ProverInv(wp, Dp)
  BY <1>2 DEF Inv, Pair, ProverInv, Opened
<1>6. VerifierInv(wv, Dv)
  <2>1. ASSUME NEW a \in wv.decode \cap Opened(wv), a \notin Dv PROVE a \in wv.flush.prove
    <3>1. CASE a \in vv.decode
      BY <1>3, <2>1, <3>1 DEF Inv, Pair, VerifierInv, Opened
    <3>2. CASE a \in S \ vv.decoded /\ a \in vv.executed
      BY <1>3, <3>2
    <3>3. CASE a \in S \ vv.decoded /\ a \in vv.committed
      <4>1. a \in Hidden(vv, "v")
        BY <2>1, <3>3 DEF Inv, Pair, VerifierInv, ViewInv, Hidden
      <4> QED
        BY <1>3, <3>3, <4>1
    <3> QED
      BY <1>3, <2>1, <3>1, <3>2, <3>3 DEF Opened
  <2> QED
    BY <1>3, <2>1 DEF Inv, Pair, VerifierInv, Kept
<1>7. Pair(wp, wv, Dp, Dv)
  BY <1>2, <1>3, <1>4, <1>5, <1>6 DEF Inv, Pair, Kept, SameMemory
<1>8. ASSUME NEW p \in Roles, NEW s \in ops'[p]
      PROVE  Assigned /\ Waits(view'[p], DOMAIN data[p], s)
  <2>1. s \in ops[p] \/ (s = S /\ ~(S \subseteq DOMAIN data[p]))
    BY <1>1, <1>8 DEF StoreIsSet
  <2>2. /\ view[p].decode \subseteq view'[p].decode
        /\ view[p].flush.prove \subseteq view'[p].flush.prove
        /\ S \subseteq view'[p].decode
    BY <1>1, <1>2, <1>3 DEF Inv, Pair, ViewInv
  <2>3. CASE s \in ops[p]
    BY <2>2, <2>3 DEF Inv, OpsWait, Waits
  <2> QED
    BY <1>1, <2>1, <2>2, <2>3 DEF Waits
<1>9. wp.len >= vp.len
  BY <1>2, KeptLen DEF Inv, Pair
<1> QED
  BY <1>1, <1>2, <1>7, <1>8, <1>9, LoudStep DEF Inv, TypeOK, Kept, SameMemory

\* send_flush of the prover: what it proved is decoded, and the operations
\* that still wait lack a bit.
LEMMA ProverFlushSafe ==
  ASSUME Inv, ProverSendFlush PROVE Inv'
<1> USE DEF Roles
<1> DEFINE vp == view["p"]
           wp == CompleteFlush(vp)
           Dp == DOMAIN data["p"]
<1>1. CASE Fail("p")
  BY <1>1, QuietStep DEF Fail, stores, decodes
<1>2. CASE /\ view' = [view EXCEPT !["p"] = wp] /\ data' = data
           /\ ops' = [ops EXCEPT !["p"] = {s \in ops["p"] : ~StoreIsSet(data["p"], s)}]
  <2>1. /\ view'["p"] = wp /\ view'["v"] = view["v"] /\ view' = [p \in Roles |-> view'[p]]
    BY <1>2 DEF Inv, TypeOK
  <2>2. /\ ops' = [p \in Roles |-> ops'[p]] /\ ops'["v"] = ops["v"]
        /\ \A s \in ops'["p"] : s \in ops["p"] /\ ~(s \subseteq Dp)
    BY <1>2 DEF Inv, TypeOK, StoreIsSet
  <2>3. /\ Kept(vp, wp) /\ wp.committed = vp.committed \cup vp.flush.commit
        /\ wp.executed = vp.executed /\ wp.decoded = vp.decoded \cup vp.flush.prove
        /\ wp.decode = vp.decode
        /\ wp.flush.commit = {} /\ wp.flush.prove = vp.flush.commit \cap vp.decode
    BY CompleteFields DEF Inv, Pair, Kept
  <2> HIDE DEF wp
  <2>4. ViewInv(wp) /\ ProverInv(wp, Dp)
    BY <2>3 DEF Inv, Pair, ViewInv, ProverInv, Opened, Kept, SameMemory
  <2>5. Pair(wp, view["v"], Dp, DOMAIN data["v"])
    BY <2>3, <2>4 DEF Inv, Pair, Kept, SameMemory
  <2>6. \A p \in Roles : \A s \in ops'[p] : Assigned /\ Waits(view'[p], DOMAIN data[p], s)
    BY <2>1, <2>2, <2>3 DEF Inv, OpsWait, Waits
  <2>7. wp.len >= vp.len
    BY <2>3, KeptLen DEF Inv, Pair
  <2> QED
    BY <1>2, <2>1, <2>2, <2>3, <2>5, <2>6, <2>7, LoudStep DEF Inv, TypeOK, Kept, SameMemory
<1> QED
  BY <1>1, <1>2 DEF ProverSendFlush, Resolve, stores

\* receive_flush of the verifier: the bits that were proven are set, and
\* they are those its own flush view names.
LEMMA VerifierFlushSafe ==
  ASSUME Inv, VerifierReceiveFlush PROVE Inv'
<1> USE DEF Roles
<1> DEFINE vv == view["v"]
           wv == CompleteFlush(vv)
           msg == Head(net["v"])
           keys == AdjustedKeys(auth["v"], msg.view.commit, msg.adjust)
           bits == TrySet(data["v"], msg.view.prove,
                          ProvenBits(keys, msg.view.prove, msg.proof))
           Dv == DOMAIN data["v"] \cup vv.flush.prove
<1>1. CASE Fail("v")
  BY <1>1, QuietStep DEF Fail, stores, decodes
<1>2. CASE /\ VerifierAccepts(msg)
           /\ view' = [view EXCEPT !["v"] = wv] /\ data' = [data EXCEPT !["v"] = bits]
           /\ ops' = [ops EXCEPT !["v"] = {s \in ops["v"] : ~StoreIsSet(bits, s)}]
  <2>0. DOMAIN bits = Dv
    <3>1. msg.view.prove = vv.flush.prove
      BY <1>2 DEF VerifierAccepts
    <3>2. DOMAIN bits = msg.view.prove \cup DOMAIN data["v"]
      BY TrySetDomain
    <3> HIDE DEF bits, msg
    <3> QED
      BY <3>1, <3>2
  <2> HIDE DEF bits
  <2>1. /\ view'["v"] = wv /\ view'["p"] = view["p"] /\ view' = [p \in Roles |-> view'[p]]
        /\ data'["v"] = bits /\ data'["p"] = data["p"] /\ data' = [p \in Roles |-> data'[p]]
    BY <1>2 DEF Inv, TypeOK
  <2>2. /\ ops' = [p \in Roles |-> ops'[p]] /\ ops'["p"] = ops["p"]
        /\ \A s \in ops'["v"] : s \in ops["v"] /\ ~(s \subseteq Dv)
    BY <1>2, <2>0 DEF Inv, TypeOK, StoreIsSet
  <2>3. /\ Kept(vv, wv) /\ wv.committed = vv.committed \cup vv.flush.commit
        /\ wv.executed = vv.executed /\ wv.decoded = vv.decoded \cup vv.flush.prove
        /\ wv.decode = vv.decode
        /\ wv.flush.commit = {} /\ wv.flush.prove = vv.flush.commit \cap vv.decode
    BY CompleteFields DEF Inv, Pair, Kept
  <2> HIDE DEF wv
  <2>4. ViewInv(wv)
    BY <2>3 DEF Inv, Pair, ViewInv, Kept, SameMemory
  <2>5. VerifierInv(wv, Dv)
    <3>1. wv.decode \cap Opened(wv) \subseteq Dv \cup wv.flush.prove
      BY <2>3 DEF Inv, Pair, VerifierInv, Opened
    <3> QED
      BY <2>3, <3>1 DEF Inv, Pair, VerifierInv, Kept
  <2>6. Pair(view["p"], wv, DOMAIN data["p"], Dv)
    BY <2>3, <2>4, <2>5 DEF Inv, Pair, Kept, SameMemory
  <2>7. \A p \in Roles : \A s \in ops'[p] : Assigned /\ Waits(view'[p], DOMAIN data'[p], s)
    BY <2>0, <2>1, <2>2, <2>3 DEF Inv, OpsWait, Waits
  <2>8. view["p"].len >= view["p"].len
    BY DEF Inv, Pair, ViewType
  <2>9. Pair(view'["p"], view'["v"], DOMAIN data'["p"], DOMAIN data'["v"])
    BY <2>0, <2>1, <2>6
  <2> QED
    BY <2>1, <2>2, <2>7, <2>8, <2>9, LoudStep
<1> QED
  BY <1>1, <1>2 DEF VerifierReceiveFlush, Resolve

\* set_output_macs and set_output_keys: an output somebody asked for is
\* proven by the next flush.
LEMMA EndBatchSafe ==
  ASSUME Inv, NEW p \in Roles, EndBatch(p) PROVE Inv'
<1> USE DEF Roles
<1> DEFINE S == {Out(k) : k \in DOMAIN tasks[p]}
           outs == [a \in S |-> tasks[p][a - NumInputs + 1].out[1]]
           v == view[p]
           w == SetOutput(v, S)
           D == DOMAIN data[p]
           E == IF p = "p" THEN S \cup D ELSE D
<1>1. CASE Fail(p)
  BY <1>1, QuietStep DEF Fail, stores, decodes
<1>2. CASE /\ S \subseteq v.outputs /\ ops' = ops
           /\ view' = [view EXCEPT ![p] = w]
           /\ data' = IF p = "v" THEN data
                      ELSE [data EXCEPT !["p"] = TrySet(data["p"], S, [a \in S |-> Lsb(outs[a])])]
  <2>0. v \in ViewType /\ ViewInv(v)
    BY DEF Inv, Pair
  <2>1. S \in Addr
    BY <1>2, <2>0 DEF ViewType, Addr
  <2>2. /\ view' = [q \in Roles |-> view'[q]] /\ view'[p] = w
        /\ \A q \in Roles : q # p => view'[q] = view[q]
    BY <1>2 DEF Inv, TypeOK
  <2> HIDE DEF S
  <2>3. /\ data' = [q \in Roles |-> data'[q]] /\ DOMAIN data'[p] = E
        /\ \A q \in Roles : q # p => data'[q] = data[q]
    <3>1. CASE p = "v"
      BY <1>2, <3>1 DEF Inv, TypeOK
    <3>2. CASE p = "p"
      <4> DEFINE bits == TrySet(data["p"], S, [a \in S |-> Lsb(outs[a])])
      <4>1. data' = [data EXCEPT !["p"] = bits]
        BY <1>2, <3>2
      <4>2. DOMAIN bits = E
        BY <3>2, TrySetDomain
      <4> HIDE DEF bits
      <4> QED
        BY <3>2, <4>1, <4>2 DEF Inv, TypeOK
    <3> QED
      BY <3>1, <3>2
  <2>4. /\ Kept(v, w) /\ w.committed = v.committed
        /\ w.executed = v.executed \cup S /\ w.decoded = v.decoded /\ w.decode = v.decode
        /\ w.flush.commit = v.flush.commit
        /\ w.flush.prove = v.flush.prove \cup (S \cap v.decode)
    BY <2>0, <2>1, OutputFields DEF Kept
  <2> HIDE DEF w
  <2>5. ViewInv(w)
    BY <1>2, <2>0, <2>4 DEF ViewInv, Kept, SameMemory
  <2>6. Pair(view'["p"], view'["v"], DOMAIN data'["p"], DOMAIN data'["v"])
    <3>1. CASE p = "p"
      <4>1. ProverInv(w, E) /\ w.assigned \subseteq E
        BY <2>4, <3>1 DEF Inv, Pair, ProverInv, Opened, Kept
      <4> QED
        BY <2>2, <2>3, <2>4, <2>5, <3>1, <4>1 DEF Inv, Pair, Kept, SameMemory
    <3>2. CASE p = "v"
      <4>1. VerifierInv(w, E) /\ w.assigned \subseteq E
        BY <2>4, <3>2 DEF Inv, Pair, VerifierInv, Opened, Kept
      <4> QED
        BY <2>2, <2>3, <2>4, <2>5, <3>2, <4>1 DEF Inv, Pair, Kept, SameMemory
    <3> QED
      BY <3>1, <3>2
  <2>7. ASSUME NEW q \in Roles, NEW s \in ops[q]
        PROVE  Assigned /\ Waits(view'[q], DOMAIN data'[q], s)
    <3>1. Assigned /\ Waits(view[q], DOMAIN data[q], s)
      BY DEF Inv, OpsWait
    <3>2. CASE q # p
      BY <2>2, <2>3, <3>1, <3>2
    <3>3. CASE q = p
      <4>1. s \subseteq w.decode
        BY <2>4, <3>1, <3>3 DEF Waits
      <4>2. ~(s \subseteq E) \/ s \cap w.flush.prove # {}
        BY <2>4, <3>1, <3>3 DEF Waits
      <4> QED
        BY <2>2, <2>3, <3>1, <3>3, <4>1, <4>2 DEF Waits
    <3> QED
      BY <3>2, <3>3
  <2>8. /\ view'["p"].len >= view["p"].len /\ view'["p"].inputs = view["p"].inputs
        /\ view["p"].assigned \subseteq view'["p"].assigned
    <3>1. view["p"] \in ViewType /\ view["p"].len >= view["p"].len
      BY DEF Inv, Pair, ViewType
    <3> QED
      BY <2>0, <2>2, <2>4, <3>1, KeptLen DEF Kept, SameMemory
  <2> QED
    BY <1>2, <2>2, <2>3, <2>6, <2>7, <2>8, LoudStep DEF Inv, TypeOK
<1> QED
  BY <1>1, <1>2 DEF EndBatch, decodes
-----------------------------------------------------------------------------
(***************************************************************************)
(* The theorem.                                                            *)
(***************************************************************************)

\* Nothing is allocated, asked for or waiting at first.
LEMMA InitInv == Init => Inv
<1> SUFFICES ASSUME Init PROVE Inv
  OBVIOUS
<1> USE DEF Roles
<1>1. view["p"] = NewView /\ view["v"] = NewView /\ ops["p"] = {} /\ ops["v"] = {}
  BY DEF Init
<1>2. NewVisibility \in VisType /\ EmptyFlush \in FlushType /\ {} \in Addr
  BY DEF NewVisibility, VisType, EmptyFlush, FlushType, Addr
<1>3. NewView \in ViewType
  BY <1>2 DEF NewView, ViewType
<1>4. ViewInv(NewView) /\ \A D : ProverInv(NewView, D) /\ VerifierInv(NewView, D)
  BY DEF NewView, NewVisibility, EmptyFlush, ViewInv, ProverInv, VerifierInv, Opened, Below
<1>5. TypeOK
  BY DEF Init, TypeOK
<1>6. NewView.assigned = {}
  BY DEF NewView
<1> QED
  BY <1>1, <1>3, <1>4, <1>5, <1>6 DEF Inv, OpsWait, Pair

\* What the applications commit and decode are sets of addresses.
LEMMA SliceAddr ==
  ASSUME NEW S \in Slices \cup {Slice(Out(k), 1) : k \in 1 .. calls} PROVE S \in Addr
<1>1. CASE S \in Slices
  BY <1>1, ConstantsOK DEF Slices, Addr
<1>2. CASE S \in {Slice(Out(k), 1) : k \in 1 .. calls}
  <2>1. PICK k \in 1 .. calls : S = Slice(Out(k), 1)
    BY <1>2
  <2> QED
    BY <2>1 DEF Slice, Addr
<1> QED
  BY <1>1, <1>2

\* The memory operations of the applications.
LEMMA ApplicationSafe ==
  ASSUME Inv, Application PROVE Inv'
<1>1. ASSUME NEW S \in Slices \cup {Slice(Out(k), 1) : k \in 1 .. calls}, DecodeRaw(S) PROVE Inv'
  BY <1>1, DecodeSafe, SliceAddr
<1>2. ASSUME NEW S \in Slices, CommitRaw(S) PROVE Inv'
  BY <1>2, CommitSafe, SliceAddr
<1>3. ASSUME StartFlush \/ StartExecute \/ StartExecuteAll PROVE Inv'
  BY <1>3, QuietStep DEF StartFlush, StartExecute, StartExecuteAll, StartJoint, stores, decodes
<1> QED
  BY <1>1, <1>2, <1>3, AllocSafe, MarkSafe, AssignSafe DEF Application

\* What both machines do in flush and execute.
LEMMA PartySafe ==
  ASSUME Inv, NEW p \in Roles, Party(p) PROVE Inv'
<1>1. ASSUME SetAuth(p) PROVE Inv'
  BY <1>1, QuietStep DEF SetAuth, Fail, stores, decodes
<1>2. ASSUME ExecuteAll(p) \/ StageChunk(p) PROVE Inv'
  BY <1>2, QuietStep DEF ExecuteAll, StageChunk, stores, decodes
<1>3. ASSUME StartBatch(p) PROVE Inv'
  BY <1>3, QuietStep DEF StartBatch, Fail, stores, decodes
<1> QED
  BY <1>1, <1>2, <1>3, EndBatchSafe DEF Party

\* The prover's side of flush and execute.
LEMMA ProverSafe ==
  ASSUME Inv, Prover PROVE Inv'
<1>1. ASSUME ProverOtFlush \/ ProverCheck PROVE Inv'
  BY <1>1, QuietStep DEF ProverOtFlush, ProverCheck, EndCheck, Fail, stores, decodes
<1>2. ASSUME NEW k, NEW wrong, ProverTask(k, wrong) PROVE Inv'
  BY <1>2, QuietStep DEF ProverTask, FinishTask, stores, decodes
<1> QED
  BY <1>1, <1>2, PartySafe, ProverFlushSafe DEF Prover, Roles

\* The verifier's side of flush and execute.
LEMMA VerifierSafe ==
  ASSUME Inv, Verifier PROVE Inv'
<1>1. ASSUME VerifierOtFlush \/ VerifierCheck PROVE Inv'
  BY <1>1, QuietStep DEF VerifierOtFlush, VerifierCheck, EndCheck, Fail, stores, decodes
<1>2. ASSUME NEW k, VerifierTask(k) PROVE Inv'
  BY <1>2, QuietStep DEF VerifierTask, FinishTask, stores, decodes
<1> QED
  BY <1>1, <1>2, PartySafe, VerifierFlushSafe DEF Verifier, Roles

\* A step of the machines keeps their views.
LEMMA InvNext == Inv /\ [Next]_vars => Inv'
<1> SUFFICES ASSUME Inv, [Next]_vars PROVE Inv'
  OBVIOUS
<1>1. CASE UNCHANGED vars
  BY <1>1, QuietStep DEF vars, stores, decodes
<1> QED
  BY <1>1, ApplicationSafe, ProverSafe, VerifierSafe DEF Next

\* No decode operation of either machine is ever forgotten: in every
\* reachable state in which nothing is left to flush or execute, each
\* operation that waits names an address that is neither committed nor
\* executed (decode, set_output and complete_flush of zk-core/src/view.rs,
\* flush_decode of both stores), for every layout of the memory, every
\* circuit, every batch and chunk size, and a prover with any faults.
THEOREM DecodesScheduled == Spec => []NoDecodeForgotten
BY InitInv, InvNext, InvImplies, PTL DEF Spec
-----------------------------------------------------------------------------
(***************************************************************************)
(* Soundness.  First what the circuits compute: one gate after another,    *)
(* from the inputs.                                                        *)
(***************************************************************************)

\* A set of numbers has a least one.
LEMMA LeastNumber ==
  ASSUME NEW U \in SUBSET Nat, U # {}
  PROVE  \E n \in U : \A i \in U : ~(i < n)
<1>1. PICK n \in U : \A i \in U : ~(<<i, n>> \in OpToRel(<, Nat))
  BY NatLessThanWellFounded, WFMin, Zenon
<1>2. \A i \in U : ~(i < n)
  BY <1>1 DEF OpToRel
<1> QED
  BY <1>2

\* The feeds of a circuit whose gates read smaller feeds: m inputs, then n
\* gates that compute step[i] of two feeds.
FeedRule(first, x, y, step, m, f, k) ==
  IF k <= m THEN first[k] ELSE step[k - m][<<f[x[k - m]], f[y[k - m]]>>]

FeedUpTo(V, first, x, y, step, m, f, k) ==
  /\ f \in [1 .. k -> V]
  /\ \A j \in 1 .. k : f[j] = FeedRule(first, x, y, step, m, f, j)

\* What there is of the feeds can be continued by one.
LEMMA FeedGrows ==
  ASSUME NEW V, NEW m \in Nat, NEW n \in Nat, NEW first \in [1 .. m -> V], NEW x, NEW y,
         \A i \in 1 .. n : x[i] \in 1 .. m + i - 1 /\ y[i] \in 1 .. m + i - 1,
         NEW step \in [1 .. n -> [V \X V -> V]],
         NEW k \in Nat, k < m + n, NEW f, FeedUpTo(V, first, x, y, step, m, f, k)
  PROVE  \E g : FeedUpTo(V, first, x, y, step, m, g, k + 1)
<1> DEFINE new == FeedRule(first, x, y, step, m, f, k + 1)
           g == [j \in 1 .. k + 1 |-> IF j = k + 1 THEN new ELSE f[j]]
<1>1. f \in [1 .. k -> V] /\ \A j \in 1 .. k : f[j] = FeedRule(first, x, y, step, m, f, j)
  BY DEF FeedUpTo
<1>2. ASSUME NEW j \in 1 .. k + 1, ~(j <= m)
      PROVE  j - m \in 1 .. n /\ x[j - m] \in 1 .. j - 1 /\ y[j - m] \in 1 .. j - 1
  <2>1. j - m \in 1 .. n
    BY <1>2
  <2>2. m + (j - m) - 1 = j - 1
    BY <1>2
  <2> QED
    BY <2>1, <2>2
<1>3. new \in V
  <2>1. CASE k + 1 <= m
    <3>1. k + 1 \in 1 .. m
      BY <2>1
    <3> QED
      BY <2>1, <3>1 DEF FeedRule
  <2>2. CASE ~(k + 1 <= m)
    <3> DEFINE i == k + 1 - m
    <3>1. k + 1 \in 1 .. k + 1 /\ k + 1 - 1 = k
      OBVIOUS
    <3>2. i \in 1 .. n /\ x[i] \in 1 .. k /\ y[i] \in 1 .. k
      BY <1>2, <2>2, <3>1
    <3> HIDE DEF i
    <3>3. f[x[i]] \in V /\ f[y[i]] \in V /\ step[i] \in [V \X V -> V]
      BY <1>1, <3>2
    <3>4. step[i][<<f[x[i]], f[y[i]]>>] \in V
      BY <3>3
    <3>5. new = step[i][<<f[x[i]], f[y[i]]>>]
      BY <2>2 DEF FeedRule, i
    <3> QED
      BY <3>4, <3>5
  <2> QED
    BY <2>1, <2>2
<1> HIDE DEF new
<1>4. /\ g \in [1 .. k + 1 -> V] /\ g[k + 1] = new /\ \A j \in 1 .. k : g[j] = f[j]
  <2>1. \A j \in 1 .. k + 1 : j # k + 1 => j \in 1 .. k
    OBVIOUS
  <2>2. \A j \in 1 .. k : j \in 1 .. k + 1 /\ j # k + 1
    OBVIOUS
  <2>3. k + 1 \in 1 .. k + 1
    OBVIOUS
  <2> QED
    BY <1>1, <1>3, <2>1, <2>2, <2>3
<1> HIDE DEF g
<1>5. ASSUME NEW j \in 1 .. k + 1
      PROVE  FeedRule(first, x, y, step, m, g, j) = FeedRule(first, x, y, step, m, f, j)
  <2>1. CASE j <= m
    BY <2>1 DEF FeedRule
  <2>2. CASE ~(j <= m)
    <3>1. x[j - m] \in 1 .. k /\ y[j - m] \in 1 .. k
      <4>1. \A i \in 1 .. j - 1 : i \in 1 .. k
        OBVIOUS
      <4> QED
        BY <1>2, <2>2, <4>1
    <3>2. g[x[j - m]] = f[x[j - m]] /\ g[y[j - m]] = f[y[j - m]]
      BY <1>4, <3>1
    <3> QED
      BY <3>2 DEF FeedRule
  <2> QED
    BY <2>1, <2>2
<1>6. ASSUME NEW j \in 1 .. k + 1 PROVE g[j] = FeedRule(first, x, y, step, m, g, j)
  <2>1. CASE j = k + 1
    BY <1>4, <1>5, <2>1 DEF new
  <2>2. CASE j # k + 1
    <3>1. j \in 1 .. k
      BY <2>2
    <3> QED
      BY <1>1, <1>4, <1>5, <3>1
  <2> QED
    BY <2>1, <2>2
<1> QED
  BY <1>4, <1>6 DEF FeedUpTo

\* See FeedGrows.
LEMMA FeedExists ==
  ASSUME NEW V, NEW m \in Nat, NEW n \in Nat, NEW first \in [1 .. m -> V], NEW x, NEW y,
         \A i \in 1 .. n : x[i] \in 1 .. m + i - 1 /\ y[i] \in 1 .. m + i - 1,
         NEW step \in [1 .. n -> [V \X V -> V]]
  PROVE  \E f : FeedUpTo(V, first, x, y, step, m, f, m + n)
<1> DEFINE Fed(k) == \E f : FeedUpTo(V, first, x, y, step, m, f, k)
           U == {k \in 0 .. m + n : ~Fed(k)}
<1>1. SUFFICES ASSUME U # {} PROVE FALSE
  <2>1. m + n \in 0 .. m + n
    OBVIOUS
  <2> QED
    BY <2>1
<1>2. U \in SUBSET Nat
  OBVIOUS
<1>3. PICK k \in U : \A i \in U : ~(i < k)
  <2> HIDE DEF U
  <2> QED
    BY <1>1, <1>2, LeastNumber
<1>4. k # 0
  <2> DEFINE f == [j \in {} |-> 0]
  <2>1. 1 .. 0 = {}
    OBVIOUS
  <2>2. FeedUpTo(V, first, x, y, step, m, f, 0)
    BY <2>1 DEF FeedUpTo
  <2> QED
    BY <2>2
<1>5. k - 1 \in 0 .. m + n /\ k - 1 < k /\ k - 1 + 1 = k /\ k - 1 < m + n /\ k - 1 \in Nat
  BY <1>4
<1>6. PICK f : FeedUpTo(V, first, x, y, step, m, f, k - 1)
  BY <1>3, <1>5
<1>7. \E g : FeedUpTo(V, first, x, y, step, m, g, k - 1 + 1)
  BY <1>5, <1>6, FeedGrows
<1> QED
  BY <1>5, <1>7

\* Gates read inputs or gates before them, calls what was written before.
CircuitShape(inputs, gts) ==
  /\ Len(inputs) \in Nat /\ Len(gts) \in Nat /\ Len(inputs) + Len(gts) > 0
  /\ DOMAIN inputs = 1 .. Len(inputs) /\ DOMAIN gts = 1 .. Len(gts)
  /\ \A i \in 1 .. Len(gts) : /\ gts[i].op \in {"xor", "and", "inv", "id"}
                              /\ gts[i].x \in 1 .. Len(inputs) + i - 1
                              /\ gts[i].y \in 1 .. Len(inputs) + i - 1

\* The circuits of the calls have this shape, and read below their outputs.
LEMMA CallShape ==
  ASSUME NEW k \in DOMAIN Circuits
  PROVE  /\ CircuitShape(Circuits[k].inputs, Circuits[k].gates)
         /\ \A i \in DOMAIN Circuits[k].inputs :
              Circuits[k].inputs[i] \in Nat /\ Circuits[k].inputs[i] < Out(k)
<1> DEFINE T == [inputs : Seq(Nat), gates : Seq(Gate)]
           inputs == Circuits[k].inputs
           gts == Circuits[k].gates
<1>1. Circuits[k] \in T
  <2>1. Circuits \in Seq(T)
    BY CircuitsOK
  <2> HIDE DEF T
  <2> QED
    BY <2>1
<1>2. inputs \in Seq(Nat) /\ gts \in Seq(Gate)
  BY <1>1
<1>3. /\ Len(inputs) + Len(gts) > 0 /\ \A i \in DOMAIN inputs : inputs[i] < Out(k)
      /\ \A i \in DOMAIN gts : {gts[i].x, gts[i].y} \subseteq 1 .. (Len(inputs) + i - 1)
  BY CircuitsOK
<1> HIDE DEF inputs, gts
<1>4. /\ Len(inputs) \in Nat /\ Len(gts) \in Nat
      /\ DOMAIN inputs = 1 .. Len(inputs) /\ DOMAIN gts = 1 .. Len(gts)
  BY <1>2
<1>5. \A i \in DOMAIN inputs : inputs[i] \in Nat
  BY <1>2
<1>6. \A i \in DOMAIN gts : gts[i] \in Gate
  BY <1>2
<1>7. \A i \in DOMAIN gts : gts[i].op \in {"xor", "and", "inv", "id"}
  BY <1>6 DEF Gate
<1>8. CircuitShape(inputs, gts)
  BY <1>3, <1>4, <1>7 DEF CircuitShape
<1> QED
  BY <1>3, <1>5, <1>8 DEF inputs, gts

\* What a gate computes of bits.
GateBit(g, a, b) ==
  CASE g.op = "xor" -> Xor(a, b)
    [] g.op = "inv" -> 1 - a
    [] g.op = "id"  -> a
    [] g.op = "and" -> a * b

Bit == {0, 1}

\* What the operations on blocks do to their pointer bits.
LEMMA BitFacts ==
  /\ \A b : Lsb(b) \in Bit
  /\ \A a, b \in Bit : /\ Xor(a, b) \in Bit /\ 1 - a \in Bit /\ a * b \in Bit
                       /\ Xor(0, b) = b /\ Xor(b, 0) = b
  /\ \A b, c : Lsb(BlockXor(b, c)) = Xor(Lsb(b), Lsb(c))
  /\ \A b : Lsb(BlockXor(b, {0})) = 1 - Lsb(b)
  /\ \A b : \A a \in Bit : Lsb(SetLsb(b, a)) = a
<1>1. \A b : Lsb(b) \in Bit /\ (0 \in b <=> Lsb(b) = 1) /\ (0 \notin b <=> Lsb(b) = 0)
  BY DEF Lsb, Bit
<1>2. Xor(0, 0) = 0 /\ Xor(0, 1) = 1 /\ Xor(1, 0) = 1 /\ Xor(1, 1) = 0
  BY DEF Xor
<1>3. \A a, b \in Bit : /\ Xor(a, b) \in Bit /\ 1 - a \in Bit /\ a * b \in Bit
                        /\ Xor(0, b) = b /\ Xor(b, 0) = b
  BY <1>2 DEF Bit
<1>4. ASSUME NEW b, NEW c PROVE Lsb(BlockXor(b, c)) = Xor(Lsb(b), Lsb(c))
  <2>1. 0 \in BlockXor(b, c) <=> ~(0 \in b <=> 0 \in c)
    BY DEF BlockXor
  <2> QED
    BY <1>2, <2>1 DEF Lsb
<1>5. ASSUME NEW b PROVE Lsb(BlockXor(b, {0})) = 1 - Lsb(b)
  <2>1. 0 \in BlockXor(b, {0}) <=> 0 \notin b
    BY DEF BlockXor
  <2> QED
    BY <2>1 DEF Lsb
<1>6. ASSUME NEW b, NEW a \in Bit PROVE Lsb(SetLsb(b, a)) = a
  BY DEF Lsb, SetLsb, Bit
<1> QED
  BY <1>1, <1>3, <1>4, <1>5, <1>6

\* The pointer bits of the prover's feeds: each gate right but, at most, the
\* AND gate that is claimed wrongly (ProverIter::next).
LEMMA ProverFeeds ==
  ASSUME NEW macs, NEW gts, CircuitShape(macs, gts), NEW ots, NEW wrong,
         NEW feed, feed = ProverFeed(gts, macs, ots, wrong)
  PROVE  /\ \A j \in 1 .. Len(macs) : feed[j] = macs[j]
         /\ \A i \in 1 .. Len(gts) : gts[i].op # "and" \/ i # wrong =>
              Lsb(feed[Len(macs) + i]) = GateBit(gts[i], Lsb(feed[gts[i].x]), Lsb(feed[gts[i].y]))
<1> DEFINE m == Len(macs)
           n == Len(gts)
<1>0. m \in Nat /\ n \in Nat
  BY DEF CircuitShape
<1>1. \A i \in 1 .. n : /\ gts[i].op \in {"xor", "and", "inv", "id"}
                        /\ gts[i].x \in 1 .. m + i - 1 /\ gts[i].y \in 1 .. m + i - 1
  BY DEF CircuitShape
<1> DEFINE U == Int \cup (UNION {macs[f] : f \in 1 .. m}) \cup {ots[i] : i \in 1 .. n}
           V == SUBSET U
           first == [f \in 1 .. m |-> macs[f]]
           x == [i \in 1 .. n |-> gts[i].x]
           y == [i \in 1 .. n |-> gts[i].y]
           Gated(i, a, b) ==
             CASE gts[i].op = "xor" -> BlockXor(a, b)
               [] gts[i].op = "inv" -> BlockXor(a, {0})
               [] gts[i].op = "id"  -> a
               [] gts[i].op = "and" ->
                    SetLsb(RcotMac(ots[i]), Xor(Lsb(a) * Lsb(b), IF i = wrong THEN 1 ELSE 0))
           step == [i \in 1 .. n |-> [v \in V \X V |-> Gated(i, v[1], v[2])]]
           Rule(g, j) == IF j <= m THEN macs[j] ELSE Gated(j - m, g[gts[j - m].x], g[gts[j - m].y])
<1>2. first \in [1 .. m -> V]
  OBVIOUS
<1>3. ASSUME NEW i \in 1 .. n, NEW a \in V, NEW b \in V PROVE Gated(i, a, b) \in V
  <2>1. BlockXor(a, b) \in V /\ BlockXor(a, {0}) \in V
    BY DEF BlockXor
  <2>2. RcotMac(ots[i]) \in V
    <3>1. RcotKey(ots[i]) \in {{ots[i], 0}, {ots[i]}}
      BY DEF RcotKey
    <3>2. ots[i] \in U
      <4>1. ots[i] \in {ots[j] : j \in 1 .. n}
        OBVIOUS
      <4> QED
        BY <4>1
    <3>3. 0 \in U /\ -3 \in U
      OBVIOUS
    <3> HIDE DEF U
    <3> QED
      BY <3>1, <3>2, <3>3 DEF RcotMac, Auth, BlockXor, Delta
  <2>3. \A bit : SetLsb(RcotMac(ots[i]), bit) \in V
    BY <2>2 DEF SetLsb
  <2> HIDE DEF U, m, n
  <2> QED
    BY <1>1, <2>1, <2>3
<1>4. step \in [1 .. n -> [V \X V -> V]]
  <2>1. ASSUME NEW i \in 1 .. n, NEW v \in V \X V PROVE Gated(i, v[1], v[2]) \in V
    <3> HIDE DEF U, V, Gated, m, n
    <3> QED
      BY <1>3
  <2> HIDE DEF U, V, Gated, m, n
  <2> QED
    BY <2>1
<1>5. \A i \in 1 .. n : x[i] \in 1 .. m + i - 1 /\ y[i] \in 1 .. m + i - 1
  BY <1>1
<1> HIDE DEF V, first
<1>6. \E f : FeedUpTo(V, first, x, y, step, m, f, m + n)
  <2> HIDE DEF x, y, step, m, n
  <2> QED
    BY <1>0, <1>2, <1>4, <1>5, FeedExists
<1>7. PICK f : FeedUpTo(V, first, x, y, step, m, f, m + n)
  BY <1>6
<1>8. f = [j \in 1 .. m + n |-> Rule(f, j)]
  <2>1. f \in [1 .. m + n -> V] /\ \A j \in 1 .. m + n : f[j] = FeedRule(first, x, y, step, m, f, j)
    BY <1>7 DEF FeedUpTo
  <2>2. ASSUME NEW j \in 1 .. m + n PROVE f[j] = Rule(f, j)
    <3>1. CASE j <= m
      <4>1. j \in 1 .. m
        <5> HIDE DEF m, n
        <5> QED
          BY <1>0, <3>1
      <4> QED
        BY <2>1, <3>1, <4>1 DEF FeedRule, first
    <3>2. CASE ~(j <= m)
      <4>1. j - m \in 1 .. n /\ m + (j - m) - 1 = j - 1 /\ \A i \in 1 .. j - 1 : i \in 1 .. m + n
        <5> HIDE DEF m, n
        <5> QED
          BY <1>0, <3>2
      <4>2. gts[j - m].x \in 1 .. j - 1 /\ gts[j - m].y \in 1 .. j - 1
        BY <1>1, <4>1
      <4> DEFINE v == <<f[gts[j - m].x], f[gts[j - m].y]>>
      <4>4. v \in V \X V
        BY <2>1, <4>1, <4>2
      <4>5. x[j - m] = gts[j - m].x /\ y[j - m] = gts[j - m].y
        BY <4>1
      <4>6. f[j] = step[j - m][v]
        BY <2>1, <3>2, <4>5 DEF FeedRule
      <4> HIDE DEF Gated, v, m
      <4>7. step[j - m][v] = Gated(j - m, v[1], v[2])
        BY <4>1, <4>4
      <4> QED
        BY <3>2, <4>6, <4>7 DEF v
    <3> QED
      BY <3>1, <3>2
  <2> HIDE DEF Rule, m, n
  <2> QED
    BY <2>1, <2>2
<1>9. feed = [j \in 1 .. m + n |-> Rule(feed, j)]
  <2> DEFINE Whole(g) == g = [j \in 1 .. m + n |-> Rule(g, j)]
  <2>1. feed = CHOOSE g : Whole(g)
    BY DEF ProverFeed
  <2>2. \E g : Whole(g)
    BY <1>8
  <2> HIDE DEF Whole
  <2>3. Whole(feed)
    BY <2>1, <2>2
  <2> QED
    BY <2>3 DEF Whole
<1> HIDE DEF Gated, m, n
<1>10. \A j \in 1 .. m + n : feed[j] = Rule(feed, j)
  <2> HIDE DEF Rule
  <2> QED
    BY <1>9, Zenon
<1>11. ASSUME NEW j \in 1 .. m PROVE feed[j] = macs[j]
  <2>1. j \in 1 .. m + n /\ j <= m
    BY <1>0
  <2> QED
    BY <1>10, <2>1
<1>12. ASSUME NEW i \in 1 .. n, gts[i].op # "and" \/ i # wrong
       PROVE  Lsb(feed[m + i]) = GateBit(gts[i], Lsb(feed[gts[i].x]), Lsb(feed[gts[i].y]))
  <2>1. m + i \in 1 .. m + n /\ ~(m + i <= m) /\ m + i - m = i
    BY <1>0
  <2> DEFINE a == feed[gts[i].x]
             b == feed[gts[i].y]
  <2>2. feed[m + i] = Gated(i, a, b)
    <3>1. feed[m + i] = Rule(feed, m + i)
      BY <1>10, <2>1
    <3>2. Rule(feed, m + i) = Gated(m + i - m, feed[gts[m + i - m].x], feed[gts[m + i - m].y])
      BY <1>0, <2>1
    <3>3. Gated(m + i - m, feed[gts[m + i - m].x], feed[gts[m + i - m].y]) = Gated(i, a, b)
      BY <2>1, Zenon
    <3> QED
      BY <3>1, <3>2, <3>3
  <2> HIDE DEF a, b
  <2>3. Lsb(Gated(i, a, b)) = GateBit(gts[i], Lsb(a), Lsb(b))
    <3>1. CASE gts[i].op = "and"
      <4>1. Lsb(a) * Lsb(b) \in Bit /\ Xor(Lsb(a) * Lsb(b), 0) = Lsb(a) * Lsb(b)
        BY BitFacts
      <4>2. Gated(i, a, b) = SetLsb(RcotMac(ots[i]), Lsb(a) * Lsb(b))
        BY <1>12, <3>1, <4>1 DEF Gated
      <4> QED
        BY <3>1, <4>1, <4>2, BitFacts DEF GateBit
    <3>2. CASE gts[i].op = "xor"
      BY <3>2, BitFacts DEF GateBit, Gated
    <3>3. CASE gts[i].op = "inv"
      BY <3>3, BitFacts DEF GateBit, Gated
    <3>4. CASE gts[i].op = "id"
      BY <3>4 DEF GateBit, Gated
    <3> QED
      BY <1>1, <3>1, <3>2, <3>3, <3>4
  <2> QED
    BY <2>2, <2>3 DEF a, b
<1> QED
  BY <1>11, <1>12 DEF m, n

\* The pointer bits of the verifier's feeds stay clear
\* (VerifierConsumer::next).
LEMMA VerifierFeeds ==
  ASSUME NEW keys, NEW gts, CircuitShape(keys, gts), NEW ots, NEW adjust,
         \A j \in 1 .. Len(keys) : Lsb(keys[j]) = 0,
         NEW feed, feed = VerifierFeed(gts, keys, ots, adjust)
  PROVE  Lsb(feed[Len(keys) + Len(gts)]) = 0
<1> DEFINE m == Len(keys)
           n == Len(gts)
<1>0. m \in Nat /\ n \in Nat
  BY DEF CircuitShape
<1>1. \A i \in 1 .. n : /\ gts[i].op \in {"xor", "and", "inv", "id"}
                        /\ gts[i].x \in 1 .. m + i - 1 /\ gts[i].y \in 1 .. m + i - 1
  BY DEF CircuitShape
<1> DEFINE U == Int \cup (UNION {keys[f] : f \in 1 .. m}) \cup {ots[i] : i \in 1 .. n}
           V == SUBSET U
           first == [f \in 1 .. m |-> keys[f]]
           x == [i \in 1 .. n |-> gts[i].x]
           y == [i \in 1 .. n |-> gts[i].y]
           Gated(i, a, b) ==
             CASE gts[i].op = "xor" -> BlockXor(a, b)
               [] gts[i].op = "inv" -> AdjustKey(a, 1)
               [] gts[i].op = "id"  -> a
               [] gts[i].op = "and" -> AdjustKey(RcotKey(ots[i]), adjust[i])
           step == [i \in 1 .. n |-> [v \in V \X V |-> Gated(i, v[1], v[2])]]
           Rule(g, j) == IF j <= m THEN keys[j] ELSE Gated(j - m, g[gts[j - m].x], g[gts[j - m].y])
<1>2. first \in [1 .. m -> V]
  OBVIOUS
<1>3. ASSUME NEW i \in 1 .. n, NEW a \in V, NEW b \in V PROVE Gated(i, a, b) \in V
  <2>1. BlockXor(a, b) \in V
    BY DEF BlockXor
  <2>2. ASSUME NEW key \in SUBSET U, NEW bit PROVE AdjustKey(key, bit) \in V
    <3>1. Delta \in SUBSET U
      BY DEF Delta
    <3> HIDE DEF U
    <3> QED
      BY <3>1 DEF AdjustKey, SetLsb, Auth, BlockXor
  <2>3. RcotKey(ots[i]) \in SUBSET U
    <3>1. RcotKey(ots[i]) \in {{ots[i], 0}, {ots[i]}}
      BY DEF RcotKey
    <3>2. ots[i] \in U
      <4>1. ots[i] \in {ots[j] : j \in 1 .. n}
        OBVIOUS
      <4> QED
        BY <4>1
    <3>3. 0 \in U
      OBVIOUS
    <3> HIDE DEF U
    <3> QED
      BY <3>1, <3>2, <3>3
  <2> HIDE DEF U, m, n
  <2> QED
    BY <1>1, <2>1, <2>2, <2>3
<1>4. step \in [1 .. n -> [V \X V -> V]]
  <2>1. ASSUME NEW i \in 1 .. n, NEW v \in V \X V PROVE Gated(i, v[1], v[2]) \in V
    <3> HIDE DEF U, V, Gated, m, n
    <3> QED
      BY <1>3
  <2> HIDE DEF U, V, Gated, m, n
  <2> QED
    BY <2>1
<1>5. \A i \in 1 .. n : x[i] \in 1 .. m + i - 1 /\ y[i] \in 1 .. m + i - 1
  BY <1>1
<1> HIDE DEF V, first
<1>6. \E f : FeedUpTo(V, first, x, y, step, m, f, m + n)
  <2> HIDE DEF x, y, step, m, n
  <2> QED
    BY <1>0, <1>2, <1>4, <1>5, FeedExists
<1>7. PICK f : FeedUpTo(V, first, x, y, step, m, f, m + n)
  BY <1>6
<1>8. f = [j \in 1 .. m + n |-> Rule(f, j)]
  <2>1. f \in [1 .. m + n -> V] /\ \A j \in 1 .. m + n : f[j] = FeedRule(first, x, y, step, m, f, j)
    BY <1>7 DEF FeedUpTo
  <2>2. ASSUME NEW j \in 1 .. m + n PROVE f[j] = Rule(f, j)
    <3>1. CASE j <= m
      <4>1. j \in 1 .. m
        <5> HIDE DEF m, n
        <5> QED
          BY <1>0, <3>1
      <4> QED
        BY <2>1, <3>1, <4>1 DEF FeedRule, first
    <3>2. CASE ~(j <= m)
      <4>1. j - m \in 1 .. n /\ m + (j - m) - 1 = j - 1 /\ \A i \in 1 .. j - 1 : i \in 1 .. m + n
        <5> HIDE DEF m, n
        <5> QED
          BY <1>0, <3>2
      <4>2. gts[j - m].x \in 1 .. j - 1 /\ gts[j - m].y \in 1 .. j - 1
        BY <1>1, <4>1
      <4> DEFINE v == <<f[gts[j - m].x], f[gts[j - m].y]>>
      <4>4. v \in V \X V
        BY <2>1, <4>1, <4>2
      <4>5. x[j - m] = gts[j - m].x /\ y[j - m] = gts[j - m].y
        BY <4>1
      <4>6. f[j] = step[j - m][v]
        BY <2>1, <3>2, <4>5 DEF FeedRule
      <4> HIDE DEF Gated, v, m
      <4>7. step[j - m][v] = Gated(j - m, v[1], v[2])
        BY <4>1, <4>4
      <4> QED
        BY <3>2, <4>6, <4>7 DEF v
    <3> QED
      BY <3>1, <3>2
  <2> HIDE DEF Rule, m, n
  <2> QED
    BY <2>1, <2>2
<1>9. feed = [j \in 1 .. m + n |-> Rule(feed, j)]
  <2> DEFINE Whole(g) == g = [j \in 1 .. m + n |-> Rule(g, j)]
  <2>1. feed = CHOOSE g : Whole(g)
    BY DEF VerifierFeed
  <2>2. \E g : Whole(g)
    BY <1>8
  <2> HIDE DEF Whole
  <2>3. Whole(feed)
    BY <2>1, <2>2
  <2> QED
    BY <2>3 DEF Whole
<1> HIDE DEF Gated, m, n
<1>10. \A j \in 1 .. m + n : feed[j] = Rule(feed, j)
  <2> HIDE DEF Rule
  <2> QED
    BY <1>9, Zenon
<1>11. ASSUME NEW j \in 1 .. m + n, \A i \in 1 .. j - 1 : Lsb(feed[i]) = 0 PROVE Lsb(feed[j]) = 0
  <2>1. CASE j <= m
    <3>1. j \in 1 .. m
      BY <1>0, <2>1
    <3> QED
      BY <1>10, <2>1, <3>1 DEF m
  <2>2. CASE ~(j <= m)
    <3> DEFINE i == j - m
               a == feed[gts[i].x]
               b == feed[gts[i].y]
    <3>1. i \in 1 .. n /\ m + i - 1 = j - 1
      BY <1>0, <2>2
    <3>2. feed[j] = Gated(i, a, b)
      BY <1>10, <2>2
    <3> HIDE DEF i
    <3>3. Lsb(a) = 0 /\ Lsb(b) = 0
      BY <1>1, <1>11, <3>1
    <3> HIDE DEF a, b
    <3>4. \A key, bit : Lsb(AdjustKey(key, bit)) = 0
      BY BitFacts DEF AdjustKey, Bit
    <3>5. Lsb(BlockXor(a, b)) = 0
      BY <3>3, BitFacts DEF Bit
    <3> QED
      BY <1>1, <3>1, <3>2, <3>3, <3>4, <3>5 DEF Gated
  <2> QED
    BY <2>1, <2>2
<1> DEFINE Bad == {j \in 1 .. m + n : Lsb(feed[j]) # 0}
<1>12. Bad = {}
  <2> SUFFICES ASSUME Bad # {} PROVE FALSE
    OBVIOUS
  <2>1. Bad \in SUBSET Nat
    BY <1>0
  <2>2. PICK j \in Bad : \A i \in Bad : ~(i < j)
    <3> HIDE DEF Bad
    <3> QED
      BY <2>1, LeastNumber
  <2>3. \A i \in 1 .. j - 1 : i \in 1 .. m + n /\ i < j
    BY <1>0, <2>2
  <2>4. \A i \in 1 .. j - 1 : Lsb(feed[i]) = 0
    BY <2>2, <2>3
  <2> QED
    BY <1>11, <2>2, <2>4
<1>13. m + n \in 1 .. m + n
  BY <1>0 DEF m, n, CircuitShape
<1> QED
  BY <1>12, <1>13 DEF m, n

\* What a circuit computes of bits, gate by gate.
PlainFeed(gts, bits, feed) ==
  /\ CircuitBit(gts, bits) = feed[Len(bits) + Len(gts)]
  /\ \A j \in 1 .. Len(bits) : feed[j] = bits[j]
  /\ \A i \in 1 .. Len(gts) :
       feed[Len(bits) + i] = GateBit(gts[i], feed[gts[i].x], feed[gts[i].y])

\* The bits of a circuit's feeds, of which CircuitBit is the last.
LEMMA PlainFeeds ==
  ASSUME NEW bits, NEW gts, CircuitShape(bits, gts), \A j \in 1 .. Len(bits) : bits[j] \in Bit
  PROVE  \E feed : PlainFeed(gts, bits, feed)
<1> DEFINE m == Len(bits)
           n == Len(gts)
<1>0. m \in Nat /\ n \in Nat
  BY DEF CircuitShape
<1>1. \A i \in 1 .. n : /\ gts[i].op \in {"xor", "and", "inv", "id"}
                        /\ gts[i].x \in 1 .. m + i - 1 /\ gts[i].y \in 1 .. m + i - 1
  BY DEF CircuitShape
<1> DEFINE V == Bit
           first == [f \in 1 .. m |-> bits[f]]
           x == [i \in 1 .. n |-> gts[i].x]
           y == [i \in 1 .. n |-> gts[i].y]
           Gated(i, a, b) ==
             CASE gts[i].op = "xor" -> Xor(a, b)
               [] gts[i].op = "inv" -> 1 - a
               [] gts[i].op = "id"  -> a
               [] gts[i].op = "and" -> a * b
           step == [i \in 1 .. n |-> [v \in V \X V |-> Gated(i, v[1], v[2])]]
           Rule(g, j) == IF j <= m THEN bits[j] ELSE Gated(j - m, g[gts[j - m].x], g[gts[j - m].y])
           Whole(g) == g = [j \in 1 .. m + n |-> Rule(g, j)]
           feed == CHOOSE g : Whole(g)
<1>2. first \in [1 .. m -> V]
  OBVIOUS
<1>3. ASSUME NEW i \in 1 .. n, NEW a \in V, NEW b \in V PROVE Gated(i, a, b) \in V
  <2> HIDE DEF m, n
  <2>1. Xor(a, b) \in V /\ 1 - a \in V /\ a * b \in V
    BY BitFacts
  <2> QED
    BY <1>1, <2>1
<1>4. step \in [1 .. n -> [V \X V -> V]]
  <2>1. ASSUME NEW i \in 1 .. n, NEW v \in V \X V PROVE Gated(i, v[1], v[2]) \in V
    <3> HIDE DEF V, Gated, m, n
    <3> QED
      BY <1>3
  <2> HIDE DEF V, Gated, m, n
  <2> QED
    BY <2>1
<1>5. \A i \in 1 .. n : x[i] \in 1 .. m + i - 1 /\ y[i] \in 1 .. m + i - 1
  BY <1>1
<1> HIDE DEF V, first, feed
<1>6. \E f : FeedUpTo(V, first, x, y, step, m, f, m + n)
  <2> HIDE DEF x, y, step, m, n
  <2> QED
    BY <1>0, <1>2, <1>4, <1>5, FeedExists
<1>7. PICK f : FeedUpTo(V, first, x, y, step, m, f, m + n)
  BY <1>6
<1>8. f = [j \in 1 .. m + n |-> Rule(f, j)]
  <2>1. f \in [1 .. m + n -> V] /\ \A j \in 1 .. m + n : f[j] = FeedRule(first, x, y, step, m, f, j)
    BY <1>7 DEF FeedUpTo
  <2>2. ASSUME NEW j \in 1 .. m + n PROVE f[j] = Rule(f, j)
    <3>1. CASE j <= m
      <4>1. j \in 1 .. m
        <5> HIDE DEF m, n
        <5> QED
          BY <1>0, <3>1
      <4> QED
        BY <2>1, <3>1, <4>1 DEF FeedRule, first
    <3>2. CASE ~(j <= m)
      <4>1. j - m \in 1 .. n /\ m + (j - m) - 1 = j - 1 /\ \A i \in 1 .. j - 1 : i \in 1 .. m + n
        <5> HIDE DEF m, n
        <5> QED
          BY <1>0, <3>2
      <4>2. gts[j - m].x \in 1 .. j - 1 /\ gts[j - m].y \in 1 .. j - 1
        BY <1>1, <4>1
      <4> DEFINE v == <<f[gts[j - m].x], f[gts[j - m].y]>>
      <4>4. v \in V \X V
        BY <2>1, <4>1, <4>2
      <4>5. x[j - m] = gts[j - m].x /\ y[j - m] = gts[j - m].y
        BY <4>1
      <4>6. f[j] = step[j - m][v]
        BY <2>1, <3>2, <4>5 DEF FeedRule
      <4> HIDE DEF Gated, v, m
      <4>7. step[j - m][v] = Gated(j - m, v[1], v[2])
        BY <4>1, <4>4
      <4> QED
        BY <3>2, <4>6, <4>7 DEF v
    <3> QED
      BY <3>1, <3>2
  <2> HIDE DEF Rule, m, n
  <2> QED
    BY <2>1, <2>2
<1>9. CircuitBit(gts, bits) = feed[m + n]
  BY DEF CircuitBit, feed
<1> HIDE DEF Gated, m, n
<1>10. Whole(feed)
  <2>1. \E g : Whole(g)
    BY <1>8
  <2> HIDE DEF Whole
  <2> QED
    BY <2>1 DEF feed
<1>11. \A j \in 1 .. m + n : feed[j] = Rule(feed, j)
  <2>1. feed = [j \in 1 .. m + n |-> Rule(feed, j)]
    BY <1>10
  <2> HIDE DEF Rule, Whole
  <2> QED
    BY <2>1, Zenon
<1>12. ASSUME NEW j \in 1 .. m PROVE feed[j] = bits[j]
  <2>1. j \in 1 .. m + n /\ j <= m
    BY <1>0
  <2> QED
    BY <1>11, <2>1
<1>13. ASSUME NEW i \in 1 .. n
       PROVE  feed[m + i] = GateBit(gts[i], feed[gts[i].x], feed[gts[i].y])
  <2>1. m + i \in 1 .. m + n /\ ~(m + i <= m) /\ m + i - m = i
    BY <1>0
  <2> DEFINE a == feed[gts[i].x]
             b == feed[gts[i].y]
  <2>2. feed[m + i] = Gated(i, a, b)
    <3>1. feed[m + i] = Rule(feed, m + i)
      BY <1>11, <2>1
    <3>2. Rule(feed, m + i) = Gated(m + i - m, feed[gts[m + i - m].x], feed[gts[m + i - m].y])
      BY <1>0, <2>1
    <3>3. Gated(m + i - m, feed[gts[m + i - m].x], feed[gts[m + i - m].y]) = Gated(i, a, b)
      BY <2>1, Zenon
    <3> QED
      BY <3>1, <3>2, <3>3
  <2> HIDE DEF a, b
  <2>3. Gated(i, a, b) = GateBit(gts[i], a, b)
    BY DEF Gated, GateBit
  <2> QED
    BY <2>2, <2>3 DEF a, b
<1> QED
  BY <1>9, <1>12, <1>13 DEF PlainFeed, m, n

\* A prover whose AND gates hold has MACs of what the circuit computes.
HonestFeed(macs, gts, bits, feed) ==
  /\ CircuitShape(macs, gts) /\ CircuitShape(bits, gts)
  /\ Len(bits) = Len(macs) /\ \A j \in 1 .. Len(macs) : Lsb(macs[j]) = bits[j]
  /\ \A j \in 1 .. Len(macs) : feed[j] = macs[j]
  /\ \A i \in 1 .. Len(gts) :
       Lsb(feed[Len(macs) + i]) = GateBit(gts[i], Lsb(feed[gts[i].x]), Lsb(feed[gts[i].y]))

\* A prover that computes every gate right has the circuit's bit.
LEMMA ProverComputes ==
  ASSUME NEW macs, NEW gts, NEW bits, NEW feed, HonestFeed(macs, gts, bits, feed)
  PROVE  Lsb(feed[Len(macs) + Len(gts)]) = CircuitBit(gts, bits)
<1> USE DEF HonestFeed
<1> DEFINE m == Len(macs)
           n == Len(gts)
<1>1. m \in Nat /\ n \in Nat /\ m + n \in 1 .. m + n
  BY DEF CircuitShape
<1>2. \A i \in 1 .. n : gts[i].x \in 1 .. m + i - 1 /\ gts[i].y \in 1 .. m + i - 1
  BY DEF CircuitShape
<1>3. \A j \in 1 .. Len(bits) : bits[j] \in Bit
  BY BitFacts
<1>4. PICK plain : /\ CircuitBit(gts, bits) = plain[m + n]
                   /\ \A j \in 1 .. m : plain[j] = bits[j]
                   /\ \A i \in 1 .. n : plain[m + i] = GateBit(gts[i], plain[gts[i].x], plain[gts[i].y])
  <2>1. PICK p : PlainFeed(gts, bits, p)
    BY <1>3, PlainFeeds
  <2>2. Len(bits) = m
    OBVIOUS
  <2>3. /\ CircuitBit(gts, bits) = p[m + n]
        /\ \A j \in 1 .. m : p[j] = bits[j]
        /\ \A i \in 1 .. n : p[m + i] = GateBit(gts[i], p[gts[i].x], p[gts[i].y])
    BY <2>1, <2>2 DEF PlainFeed
  <2> QED
    BY <2>3
<1>5. /\ \A j \in 1 .. m : Lsb(feed[j]) = bits[j]
      /\ \A i \in 1 .. n :
           Lsb(feed[m + i]) = GateBit(gts[i], Lsb(feed[gts[i].x]), Lsb(feed[gts[i].y]))
  OBVIOUS
<1> HIDE DEF m, n
<1>6. ASSUME NEW j \in 1 .. m + n, \A i \in 1 .. j - 1 : Lsb(feed[i]) = plain[i]
      PROVE  Lsb(feed[j]) = plain[j]
  <2>1. CASE j <= m
    <3>1. j \in 1 .. m
      BY <1>1, <2>1
    <3> QED
      BY <1>4, <1>5, <3>1
  <2>2. CASE ~(j <= m)
    <3> DEFINE i == j - m
    <3>1. i \in 1 .. n /\ m + i - 1 = j - 1 /\ m + i = j
      BY <1>1, <2>2
    <3> HIDE DEF i
    <3>2. Lsb(feed[gts[i].x]) = plain[gts[i].x] /\ Lsb(feed[gts[i].y]) = plain[gts[i].y]
      BY <1>2, <1>6, <3>1
    <3> QED
      BY <1>4, <1>5, <3>1, <3>2
  <2> QED
    BY <2>1, <2>2
<1> DEFINE Bad == {j \in 1 .. m + n : Lsb(feed[j]) # plain[j]}
<1>7. Bad = {}
  <2> SUFFICES ASSUME Bad # {} PROVE FALSE
    OBVIOUS
  <2>1. Bad \in SUBSET Nat
    BY <1>1
  <2>2. PICK j \in Bad : \A i \in Bad : ~(i < j)
    <3> HIDE DEF Bad
    <3> QED
      BY <2>1, LeastNumber
  <2>3. \A i \in 1 .. j - 1 : i \in 1 .. m + n /\ i < j
    BY <1>1, <2>2
  <2>4. \A i \in 1 .. j - 1 : Lsb(feed[i]) = plain[i]
    BY <2>2, <2>3
  <2> QED
    BY <1>6, <2>2, <2>4
<1> QED
  BY <1>1, <1>4, <1>7 DEF m, n
-----------------------------------------------------------------------------
(***************************************************************************)
(* Sums, addresses and the bits the memory stands for.                     *)
(***************************************************************************)

\* f sums up the first numbers of w.
Sums(w, n, f) ==
  f \in [0 .. n -> Nat] /\ f[0] = 0 /\ \A i \in 1 .. n : f[i] = f[i - 1] + w[i]

\* Partial sums of natural numbers exist.
LEMMA SumsExist ==
  ASSUME NEW w, NEW n \in Nat, \A i \in 1 .. n : w[i] \in Nat
  PROVE  \E f : Sums(w, n, f)
<1> DEFINE Bad == {k \in 0 .. n : ~\E f : Sums(w, k, f)}
<1>1. SUFFICES ASSUME Bad # {} PROVE FALSE
  <2>1. n \in 0 .. n
    OBVIOUS
  <2> QED
    BY <2>1
<1>2. PICK k \in Bad : \A i \in Bad : ~(i < k)
  <2>1. Bad \in SUBSET Nat
    OBVIOUS
  <2> HIDE DEF Bad
  <2> QED
    BY <1>1, <2>1, LeastNumber
<1>3. k # 0
  <2> DEFINE f == [i \in 0 .. 0 |-> 0]
  <2>1. f \in [0 .. 0 -> Nat] /\ f[0] = 0 /\ 1 .. 0 = {}
    OBVIOUS
  <2>2. Sums(w, 0, f)
    BY <2>1 DEF Sums
  <2> QED
    BY <2>2
<1>4. k \in 1 .. n /\ k - 1 \in 0 .. n /\ k - 1 < k
  BY <1>3
<1>5. PICK f : Sums(w, k - 1, f)
  BY <1>2, <1>4
<1> DEFINE g == [i \in 0 .. k |-> IF i = k THEN f[k - 1] + w[k] ELSE f[i]]
<1>6. f \in [0 .. k - 1 -> Nat] /\ f[0] = 0 /\ \A i \in 1 .. k - 1 : f[i] = f[i - 1] + w[i]
  BY <1>5 DEF Sums
<1>7. f[k - 1] + w[k] \in Nat
  <2>1. k - 1 \in 0 .. k - 1
    BY <1>4
  <2>2. f[k - 1] \in Nat /\ w[k] \in Nat
    BY <1>4, <1>6, <2>1
  <2> QED
    BY <2>2
<1>8. g \in [0 .. k -> Nat] /\ g[k] = f[k - 1] + w[k] /\ \A i \in 0 .. k - 1 : g[i] = f[i]
  <2>1. \A i \in 0 .. k : i # k => i \in 0 .. k - 1
    BY <1>4
  <2>2. k \in 0 .. k /\ \A i \in 0 .. k - 1 : i \in 0 .. k /\ i # k
    BY <1>4
  <2> QED
    BY <1>6, <1>7, <2>1, <2>2
<1> HIDE DEF g
<1>9. ASSUME NEW i \in 1 .. k PROVE g[i] = g[i - 1] + w[i]
  <2>1. i - 1 \in 0 .. k - 1
    BY <1>4
  <2>2. g[i - 1] = f[i - 1]
    BY <1>8, <2>1
  <2>3. CASE i = k
    BY <1>8, <2>2, <2>3
  <2>4. CASE i # k
    <3>1. i \in 1 .. k - 1 /\ i \in 0 .. k - 1
      BY <1>4, <2>4
    <3> QED
      BY <1>6, <1>8, <2>2, <3>1
  <2> QED
    BY <2>3, <2>4
<1>10. 0 \in 0 .. k - 1
  BY <1>4
<1>11. Sums(w, k, g)
  BY <1>6, <1>8, <1>9, <1>10 DEF Sums
<1> QED
  BY <1>2, <1>11

\* Sums grow.
LEMMA SumsGrow ==
  ASSUME NEW w, NEW n \in Nat, \A i \in 1 .. n : w[i] \in Nat, NEW f, Sums(w, n, f)
  PROVE  \A i, j \in 0 .. n : i <= j => f[i] <= f[j]
<1>1. SUFFICES ASSUME NEW i \in 0 .. n, NEW j \in 0 .. n, i <= j, ~(f[i] <= f[j]) PROVE FALSE
  OBVIOUS
<1>2. f \in [0 .. n -> Nat] /\ \A k \in 1 .. n : f[k] = f[k - 1] + w[k]
  BY DEF Sums
<1> DEFINE Bad == {k \in 0 .. n : i <= k /\ ~(f[i] <= f[k])}
<1>3. PICK k \in Bad : \A h \in Bad : ~(h < k)
  <2>1. Bad \in SUBSET Nat /\ j \in Bad
    BY <1>1
  <2> HIDE DEF Bad
  <2> QED
    BY <2>1, LeastNumber
<1>4. k # i
  BY <1>2, <1>3
<1>5. k - 1 \in 0 .. n /\ i <= k - 1 /\ k - 1 < k /\ k \in 1 .. n
  BY <1>3, <1>4
<1>6. f[i] <= f[k - 1]
  BY <1>3, <1>5
<1>7. f[k] = f[k - 1] + w[k] /\ f[k] \in Nat /\ f[k - 1] \in Nat /\ w[k] \in Nat /\ f[i] \in Nat
  BY <1>2, <1>5
<1> QED
  BY <1>3, <1>6, <1>7

\* An input lies among the input addresses.
LEMMA InputAddresses ==
  /\ NumInputs \in Nat
  /\ \A i \in DOMAIN InputSizes : InputSlice(i) \subseteq 0 .. NumInputs - 1
<1> DEFINE n == Len(InputSizes)
<1>1. n \in Nat /\ DOMAIN InputSizes = 1 .. n /\ \A i \in 1 .. n : InputSizes[i] \in Nat
  BY ConstantsOK
<1>2. PICK f : Sums(InputSizes, n, f)
  <2> HIDE DEF n
  <2> QED
    BY <1>1, SumsExist
<1>3. f \in [0 .. n -> Nat] /\ f[0] = 0 /\ \A i \in 1 .. n : f[i] = f[i - 1] + InputSizes[i]
  BY <1>2 DEF Sums
<1> DEFINE Rule(g, i) == IF i = 1 THEN 0 ELSE g[i - 1] + InputSizes[i - 1]
           Whole(g) == g = [i \in 1 .. n + 1 |-> Rule(g, i)]
           off == [i \in 1 .. n + 1 |-> f[i - 1]]
<1>4. Whole(off)
  <2>1. ASSUME NEW i \in 1 .. n + 1 PROVE off[i] = Rule(off, i)
    <3> HIDE DEF n
    <3>1. CASE i = 1
      BY <1>3, <3>1
    <3>2. CASE i # 1
      <4>1. i - 1 \in 1 .. n /\ i - 1 \in 1 .. n + 1
        BY <1>1, <3>2
      <4> QED
        BY <1>3, <3>2, <4>1
    <3> QED
      BY <3>1, <3>2
  <2> HIDE DEF Rule, n
  <2> QED
    BY <2>1
<1>5. Whole(Offsets)
  <2>1. Offsets = CHOOSE g : Whole(g)
    BY DEF Offsets
  <2>2. \E g : Whole(g)
    BY <1>4
  <2> HIDE DEF Whole
  <2> QED
    BY <2>1, <2>2
<1>6. \A i \in 1 .. n + 1 : Offsets[i] = Rule(Offsets, i)
  <2> HIDE DEF Rule, n
  <2> QED
    BY <1>5, Zenon
<1> HIDE DEF Whole, off, n
<1>7. \A i \in 1 .. n + 1 : Offsets[i] = f[i - 1]
  <2> DEFINE Bad == {i \in 1 .. n + 1 : Offsets[i] # f[i - 1]}
  <2>1. SUFFICES ASSUME Bad # {} PROVE FALSE
    OBVIOUS
  <2>2. PICK k \in Bad : \A i \in Bad : ~(i < k)
    <3>1. Bad \in SUBSET Nat
      BY <1>1
    <3> HIDE DEF Bad
    <3> QED
      BY <2>1, <3>1, LeastNumber
  <2>3. k # 1
    BY <1>3, <1>6, <2>2
  <2>4. k - 1 \in 1 .. n + 1 /\ k - 1 \in 1 .. n /\ k - 1 < k
    BY <1>1, <2>2, <2>3
  <2>5. Offsets[k - 1] = f[k - 1 - 1]
    BY <2>2, <2>4
  <2> QED
    BY <1>3, <1>6, <2>2, <2>3, <2>4, <2>5
<1>8. NumInputs = f[n] /\ f[n] \in Nat
  <2>1. n + 1 \in 1 .. n + 1 /\ n + 1 - 1 = n /\ n \in 0 .. n
    BY <1>1
  <2> QED
    BY <1>3, <1>7, <2>1 DEF NumInputs, n
<1>9. ASSUME NEW i \in DOMAIN InputSizes PROVE InputSlice(i) \subseteq 0 .. NumInputs - 1
  <2>1. i \in 1 .. n /\ i \in 1 .. n + 1 /\ i - 1 \in 0 .. n /\ i \in 0 .. n /\ n \in 0 .. n
    BY <1>1
  <2>2. Offsets[i] = f[i - 1] /\ f[i] = f[i - 1] + InputSizes[i]
    BY <1>3, <1>7, <2>1
  <2>3. f[i] <= f[n]
    BY <1>1, <1>2, <2>1, SumsGrow
  <2>4. f[i - 1] \in Nat /\ f[i] \in Nat /\ InputSizes[i] \in Nat
    BY <1>1, <1>3, <2>1
  <2>5. InputSlice(i) = f[i - 1] .. f[i - 1] + InputSizes[i] - 1
    BY <2>2 DEF InputSlice, Slice
  <2> QED
    BY <1>8, <2>2, <2>3, <2>4, <2>5
<1> QED
  BY <1>8, <1>9

\* The AND gates of a call are counted by a number.
LEMMA AndsNat ==
  ASSUME NEW k \in DOMAIN Circuits
  PROVE  /\ Ands(k) \in Nat /\ Ands(k) = Cardinality(AndGates(Circuits[k].gates))
         /\ AndGates(Circuits[k].gates) \in Addr /\ IsFiniteSet(AndGates(Circuits[k].gates))
<1> DEFINE S == AndGates(Circuits[k].gates)
           n == Len(Circuits[k].gates)
<1>1. n \in Nat /\ DOMAIN Circuits[k].gates = 1 .. n
  BY CallShape DEF CircuitShape
<1>2. S \in SUBSET (1 .. n)
  BY <1>1 DEF AndGates
<1>3. IsFiniteSet(1 .. n)
  BY <1>1, FS_Interval
<1>4. IsFiniteSet(S)
  <2> HIDE DEF S, n
  <2> QED
    BY <1>2, <1>3, FS_Subset
<1>5. Cardinality(S) \in Nat
  BY <1>4, FS_CardinalityType
<1>6. S \in Addr
  <2> HIDE DEF S
  <2> QED
    BY <1>1, <1>2 DEF Addr
<1>7. Ands(k) = Cardinality(S)
  BY DEF Ands, AndCounts, AndCount
<1> QED
  BY <1>4, <1>5, <1>6, <1>7

\* SumAnds is the sum.
LEMMA SumAndsIs ==
  ASSUME NEW n \in Nat, NEW seq, Len(seq) = n, NEW f, f[0] = 0,
         \A i \in 1 .. n : f[i] = f[i - 1] + Ands(seq[i])
  PROVE  SumAnds(seq) = f[n]
<1> DEFINE Rule(g, i) == IF i = 0 THEN 0 ELSE g[i - 1] + Ands(seq[i])
           Whole(g) == g = [i \in 0 .. n |-> Rule(g, i)]
           sum == CHOOSE g : Whole(g)
           g0 == [i \in 0 .. n |-> f[i]]
<1>1. Whole(g0)
  <2>1. ASSUME NEW i \in 0 .. n PROVE g0[i] = Rule(g0, i)
    <3>1. CASE i = 0
      BY <3>1
    <3>2. CASE i # 0
      <4>1. i \in 1 .. n /\ i - 1 \in 0 .. n
        BY <3>2
      <4> QED
        BY <3>2, <4>1
    <3> QED
      BY <3>1, <3>2
  <2> HIDE DEF Rule
  <2> QED
    BY <2>1
<1>2. Whole(sum)
  <2>1. \E g : Whole(g)
    BY <1>1
  <2> HIDE DEF Whole
  <2> QED
    BY <2>1
<1>3. SumAnds(seq) = sum[n]
  <2>1. SumAnds(seq) = (CHOOSE g : g = [i \in 0 .. Len(seq) |->
                          IF i = 0 THEN 0 ELSE g[i - 1] + Ands(seq[i])])[Len(seq)]
    BY DEF SumAnds
  <2> QED
    BY <2>1
<1> HIDE DEF sum
<1>4. \A i \in 0 .. n : sum[i] = Rule(sum, i)
  <2> HIDE DEF Rule
  <2> QED
    BY <1>2, Zenon
<1> HIDE DEF Whole, g0
<1> DEFINE Bad == {i \in 0 .. n : sum[i] # f[i]}
<1>5. Bad = {}
  <2> SUFFICES ASSUME Bad # {} PROVE FALSE
    OBVIOUS
  <2>1. PICK k \in Bad : \A i \in Bad : ~(i < k)
    <3>1. Bad \in SUBSET Nat
      OBVIOUS
    <3> HIDE DEF Bad
    <3> QED
      BY <3>1, LeastNumber
  <2>2. k # 0
    BY <1>4, <2>1
  <2>3. k - 1 \in 0 .. n /\ k \in 1 .. n /\ k - 1 < k
    BY <2>1, <2>2
  <2>4. sum[k - 1] = f[k - 1]
    BY <2>1, <2>3
  <2> QED
    BY <1>4, <2>1, <2>2, <2>3, <2>4
<1> QED
  BY <1>3, <1>5

\* The calls of a batch take their AND gates one after another.
LEMMA BatchSums ==
  ASSUME NEW seq \in Seq(DOMAIN Circuits)
  PROVE  /\ SumAnds(seq) \in Nat
         /\ \A i \in 1 .. Len(seq) :
              LET before == SumAnds(SubSeq(seq, 1, i - 1)) IN
              /\ before \in Nat /\ before + Ands(seq[i]) <= SumAnds(seq)
              /\ \A j \in 1 .. Len(seq) : i < j =>
                   before + Ands(seq[i]) <= SumAnds(SubSeq(seq, 1, j - 1))
<1> DEFINE n == Len(seq)
           w == [i \in 1 .. n |-> Ands(seq[i])]
<1>1. n \in Nat /\ \A i \in 1 .. n : seq[i] \in DOMAIN Circuits
  OBVIOUS
<1>2. \A i \in 1 .. n : w[i] = Ands(seq[i]) /\ w[i] \in Nat
  BY <1>1, AndsNat
<1> HIDE DEF w, n
<1>3. PICK f : Sums(w, n, f)
  BY <1>1, <1>2, SumsExist
<1>4. f \in [0 .. n -> Nat] /\ f[0] = 0 /\ \A i \in 1 .. n : f[i] = f[i - 1] + Ands(seq[i])
  BY <1>2, <1>3 DEF Sums
<1>5. SumAnds(seq) = f[n]
  BY <1>1, <1>4, SumAndsIs DEF n
<1>6. ASSUME NEW i \in 0 .. n PROVE SumAnds(SubSeq(seq, 1, i)) = f[i]
  <2> DEFINE s == SubSeq(seq, 1, i)
  <2>1. i \in Nat /\ Len(s) = i /\ \A j \in 1 .. i : s[j] = seq[j] /\ j \in 1 .. n
    BY <1>1 DEF n
  <2>2. ASSUME NEW j \in 1 .. i PROVE f[j] = f[j - 1] + Ands(s[j])
    <3>1. s[j] = seq[j] /\ j \in 1 .. n
      BY <2>1
    <3> HIDE DEF s
    <3>2. f[j] = f[j - 1] + Ands(seq[j])
      BY <1>4, <3>1
    <3> QED
      BY <3>1, <3>2
  <2> HIDE DEF s
  <2>3. SumAnds(s) = f[i]
    <3>1. i \in Nat /\ Len(s) = i /\ f[0] = 0
      BY <1>4, <2>1
    <3>2. \A j \in 1 .. i : f[j] = f[j - 1] + Ands(s[j])
      BY <2>2
    <3> QED
      BY ONLY <3>1, <3>2, SumAndsIs, ZenonT(30)
  <2> QED
    BY <2>3 DEF s
<1>7. ASSUME NEW i \in 1 .. n
      PROVE  LET before == SumAnds(SubSeq(seq, 1, i - 1)) IN
             /\ before \in Nat /\ before + Ands(seq[i]) <= SumAnds(seq)
             /\ \A j \in 1 .. n : i < j =>
                  before + Ands(seq[i]) <= SumAnds(SubSeq(seq, 1, j - 1))
  <2>1. i \in 0 .. n /\ i - 1 \in 0 .. n /\ n \in 0 .. n /\ i <= n
    BY <1>1
  <2>2. SumAnds(SubSeq(seq, 1, i - 1)) = f[i - 1] /\ f[i - 1] \in Nat
    BY <1>4, <1>6, <2>1
  <2>3. f[i] = f[i - 1] + Ands(seq[i]) /\ f[i] <= f[n]
    BY <1>1, <1>2, <1>3, <1>4, <2>1, SumsGrow
  <2>4. ASSUME NEW j \in 1 .. n, i < j PROVE f[i] <= SumAnds(SubSeq(seq, 1, j - 1))
    <3>1. j - 1 \in 0 .. n /\ i <= j - 1
      BY <1>1, <2>4
    <3> QED
      BY <1>1, <1>2, <1>3, <1>6, <2>1, <3>1, SumsGrow
  <2> QED
    BY <1>5, <2>2, <2>3, <2>4
<1>8. SumAnds(seq) \in Nat
  <2>1. n \in 0 .. n
    BY <1>1
  <2> QED
    BY <1>4, <1>5, <2>1
<1> QED
  BY <1>7, <1>8 DEF n

\* An input has its bit, an output what its circuit computes.
TruthRule(bit, a) ==
  IF a < NumInputs THEN Value[a]
  ELSE LET c == Circuits[a - NumInputs + 1]
       IN  CircuitBit(c.gates, [i \in DOMAIN c.inputs |-> bit[c.inputs[i]]])

\* How many addresses there are.
NumAddresses == NumInputs + Len(Circuits)

\* Addresses: the inputs, then one output for every call.
LEMMA AddressFacts ==
  /\ NumAddresses \in Nat /\ NumInputs \in Nat /\ Addresses = 0 .. NumAddresses - 1
  /\ \A a \in Addresses : a >= NumInputs =>
       /\ a - NumInputs + 1 \in DOMAIN Circuits
       /\ \A i \in DOMAIN Circuits[a - NumInputs + 1].inputs :
            Circuits[a - NumInputs + 1].inputs[i] \in 0 .. a - 1
  /\ \A k \in DOMAIN Circuits : /\ Out(k) \in Addresses /\ Out(k) >= NumInputs
                                /\ Out(k) - NumInputs + 1 = k
<1>1. NumInputs \in Nat /\ Len(Circuits) \in Nat /\ DOMAIN Circuits = 1 .. Len(Circuits)
  BY InputAddresses, CircuitsOK
<1>2. NumAddresses \in Nat /\ Addresses = 0 .. NumAddresses - 1
  BY <1>1 DEF NumAddresses, Addresses
<1>3. ASSUME NEW a \in Addresses, a >= NumInputs
      PROVE  /\ a - NumInputs + 1 \in DOMAIN Circuits
             /\ \A i \in DOMAIN Circuits[a - NumInputs + 1].inputs :
                  Circuits[a - NumInputs + 1].inputs[i] \in 0 .. a - 1
  <2> DEFINE k == a - NumInputs + 1
  <2>1. k \in DOMAIN Circuits /\ Out(k) = a /\ a \in Int
    BY <1>1, <1>3 DEF Addresses, Out
  <2> HIDE DEF k
  <2>2. \A i \in DOMAIN Circuits[k].inputs : Circuits[k].inputs[i] \in 0 .. a - 1
    BY <2>1, CallShape
  <2> QED
    BY <2>1, <2>2 DEF k
<1>4. \A k \in DOMAIN Circuits : /\ Out(k) \in Addresses /\ Out(k) >= NumInputs
                                 /\ Out(k) - NumInputs + 1 = k
  BY <1>1 DEF Addresses, Out
<1> QED
  BY <1>1, <1>2, <1>3, <1>4

\* The bits of the first n addresses.
TruthUpTo(f, n) == f = [a \in 0 .. n - 1 |-> TruthRule(f, a)]

\* One address after another, the inputs determine every bit.
LEMMA TruthGrows ==
  ASSUME NEW n \in 0 .. NumAddresses - 1, NEW f, TruthUpTo(f, n)
  PROVE  \E g : TruthUpTo(g, n + 1)
<1> DEFINE g == [a \in 0 .. n |-> IF a = n THEN TruthRule(f, n) ELSE f[a]]
<1>1. NumAddresses \in Nat /\ n \in Nat /\ n + 1 - 1 = n /\ NumInputs \in Nat
  BY AddressFacts
<1>2. DOMAIN g = 0 .. n /\ g[n] = TruthRule(f, n) /\ \A a \in 0 .. n - 1 : g[a] = f[a]
  BY <1>1
<1> HIDE DEF g
<1>3. ASSUME NEW a \in 0 .. n PROVE TruthRule(g, a) = TruthRule(f, a)
  <2>1. CASE a < NumInputs
    BY <2>1 DEF TruthRule
  <2>2. CASE ~(a < NumInputs)
    <3> DEFINE c == Circuits[a - NumInputs + 1]
    <3>1. a \in Addresses /\ a >= NumInputs /\ \A b \in 0 .. a - 1 : b \in 0 .. n - 1
      BY <1>1, <2>2, AddressFacts
    <3>2. \A i \in DOMAIN c.inputs : g[c.inputs[i]] = f[c.inputs[i]]
      BY <1>2, <3>1, AddressFacts
    <3> HIDE DEF c
    <3>3. [i \in DOMAIN c.inputs |-> g[c.inputs[i]]] = [i \in DOMAIN c.inputs |-> f[c.inputs[i]]]
      BY <3>2
    <3> QED
      BY <2>2, <3>3 DEF TruthRule, c
  <2> QED
    BY <2>1, <2>2
<1>4. ASSUME NEW a \in 0 .. n PROVE g[a] = TruthRule(g, a)
  <2>1. CASE a = n
    BY <1>2, <1>3, <2>1
  <2>2. CASE a # n
    <3>1. a \in 0 .. n - 1
      BY <1>1, <2>2
    <3> QED
      BY <1>2, <1>3, <3>1 DEF TruthUpTo
  <2> QED
    BY <2>1, <2>2
<1>5. TruthUpTo(g, n + 1)
  <2>1. g = [a \in 0 .. n |-> g[a]]
    BY DEF g
  <2> QED
    BY <1>1, <1>4, <2>1 DEF TruthUpTo
<1> QED
  BY <1>5

\* Truth is what the inputs determine.
LEMMA TruthFacts == \A a \in Addresses : Truth[a] = TruthRule(Truth, a)
<1> DEFINE Bad == {n \in 0 .. NumAddresses : ~\E f : TruthUpTo(f, n)}
<1>1. NumAddresses \in Nat
  BY AddressFacts
<1>2. Bad = {}
  <2> SUFFICES ASSUME Bad # {} PROVE FALSE
    OBVIOUS
  <2>1. PICK n \in Bad : \A i \in Bad : ~(i < n)
    <3>1. Bad \in SUBSET Nat
      BY <1>1
    <3> HIDE DEF Bad
    <3> QED
      BY <3>1, LeastNumber
  <2>2. n # 0
    <3> DEFINE f == [a \in {} |-> 0]
    <3>1. 0 .. 0 - 1 = {}
      OBVIOUS
    <3>2. TruthUpTo(f, 0)
      BY <3>1 DEF TruthUpTo
    <3> QED
      BY <3>2
  <2>3. n - 1 \in 0 .. NumAddresses - 1 /\ n - 1 < n /\ n - 1 + 1 = n /\ n - 1 \in 0 .. NumAddresses
    BY <1>1, <2>2
  <2>4. PICK f : TruthUpTo(f, n - 1)
    BY <2>1, <2>3
  <2>5. \E g : TruthUpTo(g, n)
    BY <2>3, <2>4, TruthGrows
  <2> QED
    BY <2>5
<1>3. NumAddresses \in 0 .. NumAddresses
  BY <1>1
<1>4. PICK f : TruthUpTo(f, NumAddresses)
  BY <1>2, <1>3
<1> DEFINE Whole(t) == t = [a \in Addresses |-> TruthRule(t, a)]
<1>5. Truth = CHOOSE t : Whole(t)
  BY DEF Truth, TruthRule
<1>6. \E t : Whole(t)
  BY <1>4, AddressFacts DEF TruthUpTo
<1> HIDE DEF Whole
<1>7. Whole(Truth)
  BY <1>5, <1>6
<1> QED
  BY <1>7, Zenon DEF Whole

\* The addresses of a set are ranked from 1 on.
LEMMA RankFacts ==
  ASSUME NEW S \in Addr, IsFiniteSet(S)
  PROVE  /\ Cardinality(S) \in Nat
         /\ \A a \in S : Rank(S, a) \in 1 .. Cardinality(S)
         /\ \A a, b \in S : Rank(S, a) = Rank(S, b) => a = b
         /\ \A i \in 1 .. Cardinality(S) : \E a \in S : Rank(S, a) = i
<1> DEFINE n == Cardinality(S)
           upTo(a) == {b \in S : b <= a}
<1>1. n \in Nat
  BY FS_CardinalityType
<1>2. ASSUME NEW a \in S PROVE IsFiniteSet(upTo(a)) /\ Rank(S, a) \in 1 .. n
  <2>1. upTo(a) \in SUBSET S /\ a \in upTo(a)
    BY DEF Addr
  <2>2. IsFiniteSet(upTo(a)) /\ Cardinality(upTo(a)) <= n
    BY <2>1, FS_Subset
  <2>3. Cardinality(upTo(a)) \in Nat /\ Cardinality(upTo(a)) # 0
    BY <2>1, <2>2, FS_CardinalityType, FS_EmptySet
  <2>4. Rank(S, a) = Cardinality(upTo(a))
    BY DEF Rank
  <2> HIDE DEF upTo, n
  <2> QED
    BY <1>1, <2>2, <2>3, <2>4
<1>3. ASSUME NEW a \in S, NEW b \in S, a < b PROVE Rank(S, a) # Rank(S, b)
  <2>1. upTo(a) \in SUBSET upTo(b) /\ b \in upTo(b) /\ b \notin upTo(a)
    <3>1. a \in Int /\ b \in Int /\ \A c \in S : c \in Int
      BY DEF Addr
    <3>2. \A c \in S : c <= a => c <= b
      BY <1>3, <3>1
    <3>3. b <= b /\ ~(b <= a)
      BY <1>3, <3>1
    <3> QED
      BY <3>2, <3>3
  <2>2. Cardinality(upTo(a)) # Cardinality(upTo(b))
    <3> HIDE DEF upTo
    <3>1. IsFiniteSet(upTo(b))
      BY <1>2
    <3> QED
      BY <2>1, <3>1, FS_Subset
  <2> QED
    BY <2>2 DEF Rank
<1>4. ASSUME NEW a \in S, NEW b \in S, Rank(S, a) = Rank(S, b) PROVE a = b
  <2>1. a \in Int /\ b \in Int
    BY DEF Addr
  <2>2. ~(a < b) /\ ~(b < a)
    BY <1>3, <1>4
  <2> QED
    BY <2>1, <2>2
<1>5. \A i \in 1 .. n : \E a \in S : Rank(S, a) = i
  <2> DEFINE f == [a \in S |-> Rank(S, a)]
  <2>1. f \in [S -> 1 .. n]
    BY <1>2
  <2>2. f \in Injection(S, 1 .. n)
    BY <1>4, <2>1 DEF Injection, IsInjective
  <2>3. IsFiniteSet(1 .. n) /\ Cardinality(1 .. n) = n
    <3>1. IsFiniteSet(1 .. n) /\ Cardinality(1 .. n) = IF 1 > n THEN 0 ELSE n - 1 + 1
      BY <1>1, FS_Interval
    <3> QED
      BY <1>1, <3>1
  <2>4. f \in Surjection(S, 1 .. n)
    <3> HIDE DEF f
    <3> QED
      BY <2>2, <2>3, FS_Injection
  <2>5. \A i \in 1 .. n : \E a \in S : f[a] = i
    BY <2>4 DEF Surjection
  <2> QED
    BY <2>5
<1> QED
  BY <1>1, <1>2, <1>4, <1>5

\* What is collected is spread back to where it was.
LEMMA CollectFacts ==
  ASSUME NEW S \in Addr, IsFiniteSet(S), NEW f
  PROVE  /\ Len(Collect(S, f)) = Cardinality(S)
         /\ Spread(S, Collect(S, f)) = [a \in S |-> f[a]]
<1> DEFINE n == Cardinality(S)
           seq == Collect(S, f)
<1>0. n \in Nat
  BY RankFacts
<1>1. seq = [i \in 1 .. n |-> f[CHOOSE a \in S : Rank(S, a) = i]]
  BY DEF Collect
<1>2. Len(seq) = n
  <2> HIDE DEF n
  <2> QED
    BY <1>0, <1>1
<1>3. ASSUME NEW a \in S PROVE seq[Rank(S, a)] = f[a]
  <2>1. Rank(S, a) \in 1 .. n
    BY RankFacts
  <2>2. (CHOOSE b \in S : Rank(S, b) = Rank(S, a)) = a
    BY RankFacts
  <2> QED
    BY <1>1, <2>1, <2>2
<1>4. Spread(S, seq) = [a \in S |-> f[a]]
  BY <1>3 DEF Spread
<1> QED
  BY <1>2, <1>4

\* Only what S maps to is collected.
LEMMA CollectSame ==
  ASSUME NEW S \in Addr, IsFiniteSet(S), NEW f, NEW h, \A a \in S : f[a] = h[a]
  PROVE  Collect(S, f) = Collect(S, h)
<1>1. ASSUME NEW i \in 1 .. Cardinality(S)
      PROVE  (CHOOSE a \in S : Rank(S, a) = i) \in S
  BY RankFacts
<1> QED
  BY <1>1 DEF Collect

\* What is collected is a sequence.
LEMMA CollectSeq ==
  ASSUME NEW S \in Addr, IsFiniteSet(S), NEW f, NEW T, \A a \in S : f[a] \in T
  PROVE  /\ Collect(S, f) \in Seq(T)
         /\ \A i \in 1 .. Cardinality(S) : \E a \in S : Collect(S, f)[i] = f[a]
         /\ \A a \in S : Rank(S, a) \in 1 .. Cardinality(S) /\ Collect(S, f)[Rank(S, a)] = f[a]
<1> DEFINE n == Cardinality(S)
           seq == Collect(S, f)
<1>1. n \in Nat
  BY RankFacts
<1>2. seq = [i \in 1 .. n |-> f[CHOOSE a \in S : Rank(S, a) = i]]
  BY DEF Collect
<1>3. ASSUME NEW i \in 1 .. n PROVE (CHOOSE a \in S : Rank(S, a) = i) \in S
  BY RankFacts
<1>4. seq \in Seq(T)
  <2> HIDE DEF n
  <2> QED
    BY <1>1, <1>2, <1>3
<1>5. \A i \in 1 .. n : \E a \in S : seq[i] = f[a]
  <2> HIDE DEF n
  <2> QED
    BY <1>2, <1>3
<1>6. ASSUME NEW a \in S PROVE Rank(S, a) \in 1 .. n /\ seq[Rank(S, a)] = f[a]
  <2>1. Rank(S, a) \in 1 .. n
    BY RankFacts
  <2>2. (CHOOSE b \in S : Rank(S, b) = Rank(S, a)) = a
    BY RankFacts
  <2> QED
    BY <1>2, <2>1, <2>2
<1> QED
  BY <1>4, <1>5, <1>6

\* A sequence of anything.
IsQueue(q) == q \in Seq({q[i] : i \in DOMAIN q})

\* Sequences, whatever their elements are.
LEMMA QueueOf ==
  ASSUME NEW T, NEW q \in Seq(T) PROVE IsQueue(q)
<1>1. Len(q) \in Nat /\ DOMAIN q = 1 .. Len(q) /\ q = [i \in 1 .. Len(q) |-> q[i]]
  OBVIOUS
<1> QED
  BY <1>1 DEF IsQueue

\* The length and the domain of a sequence.
LEMMA QueueFacts ==
  ASSUME NEW q, IsQueue(q)
  PROVE  /\ Len(q) \in Nat /\ DOMAIN q = 1 .. Len(q) /\ q # << >> => Len(q) > 0
         /\ q = << >> <=> Len(q) = 0
         /\ \E T : q \in Seq(T)
  BY DEF IsQueue

\* What Append, Tail, \o and SubSeq make of a sequence.
Appended(q, m, s) ==
  /\ IsQueue(s) /\ Len(s) = Len(q) + 1
  /\ \A i \in 1 .. Len(q) : s[i] = q[i]
  /\ s[Len(q) + 1] = m

Shortened(q, s) ==
  /\ IsQueue(s) /\ Len(s) = Len(q) - 1
  /\ \A i \in 1 .. Len(q) - 1 : s[i] = q[i + 1]

Joined(q, r, s) ==
  /\ IsQueue(s) /\ Len(s) = Len(q) + Len(r)
  /\ \A i \in 1 .. Len(q) : s[i] = q[i]
  /\ \A i \in 1 .. Len(r) : s[Len(q) + i] = r[i]

CutOut(q, m, n, s) ==
  /\ IsQueue(s) /\ Len(s) = n - m + 1
  /\ \A i \in 1 .. n - m + 1 : s[i] = q[m + i - 1]

\* A sequence with one more element.
LEMMA QueueAppend ==
  ASSUME NEW q, IsQueue(q), NEW m PROVE Appended(q, m, Append(q, m))
<1>1. PICK T : q \in Seq(T)
  BY QueueFacts
<1> DEFINE U == T \cup {m}
<1>2. q \in Seq(U) /\ m \in U
  BY <1>1
<1> HIDE DEF U
<1>3. Append(q, m) \in Seq(U)
  BY <1>2
<1>4. IsQueue(Append(q, m))
  BY <1>3, QueueOf
<1> QED
  BY <1>2, <1>4 DEF Appended

\* A sequence without its first element.
LEMMA QueueTail ==
  ASSUME NEW q, IsQueue(q), q # << >> PROVE Shortened(q, Tail(q)) /\ Head(q) = q[1]
<1>1. PICK T : q \in Seq(T)
  BY QueueFacts
<1>2. Tail(q) \in Seq(T)
  BY <1>1
<1>3. IsQueue(Tail(q))
  BY <1>2, QueueOf
<1> QED
  BY <1>1, <1>3 DEF Shortened

\* Two sequences, one after the other.
LEMMA QueueConcat ==
  ASSUME NEW q, IsQueue(q), NEW r, IsQueue(r) PROVE Joined(q, r, q \o r)
<1>1. PICK T : q \in Seq(T)
  BY QueueFacts
<1>2. PICK U : r \in Seq(U)
  BY QueueFacts
<1> DEFINE W == T \cup U
<1>3. q \in Seq(W) /\ r \in Seq(W)
  BY <1>1, <1>2
<1> HIDE DEF W
<1>4. q \o r \in Seq(W) /\ Len(q \o r) = Len(q) + Len(r)
  BY <1>3
<1>5. IsQueue(q \o r)
  BY <1>4, QueueOf
<1> QED
  BY <1>3, <1>4, <1>5 DEF Joined

\* A part of a sequence.
LEMMA QueueSub ==
  ASSUME NEW q, IsQueue(q), NEW m \in 1 .. Len(q) + 1, NEW n \in m - 1 .. Len(q)
  PROVE  CutOut(q, m, n, SubSeq(q, m, n))
<1>1. PICK T : q \in Seq(T)
  BY QueueFacts
<1>2. Len(q) \in Nat
  BY QueueFacts
<1>3. SubSeq(q, m, n) \in Seq(T) /\ Len(SubSeq(q, m, n)) = n - m + 1
  BY <1>1, <1>2
<1>4. IsQueue(SubSeq(q, m, n))
  BY <1>3, QueueOf
<1>5. \A i \in 1 .. n - m + 1 : SubSeq(q, m, n)[i] = q[m + i - 1]
  BY <1>1, <1>2, <1>3
<1> QED
  BY <1>3, <1>4, <1>5 DEF CutOut

\* The feeds of a call, when its inputs have the right bits and its gates
\* compute, end in the bit its output stands for.
LEMMA CallTruth ==
  ASSUME NEW k \in DOMAIN Circuits, NEW macs, Len(macs) = Len(Circuits[k].inputs),
         DOMAIN macs = 1 .. Len(macs),
         \A j \in 1 .. Len(macs) : Lsb(macs[j]) = Truth[Circuits[k].inputs[j]],
         NEW feed, \A j \in 1 .. Len(macs) : feed[j] = macs[j],
         \A i \in 1 .. Len(Circuits[k].gates) :
           Lsb(feed[Len(macs) + i]) = GateBit(Circuits[k].gates[i],
                                              Lsb(feed[Circuits[k].gates[i].x]),
                                              Lsb(feed[Circuits[k].gates[i].y]))
  PROVE  Lsb(feed[Len(macs) + Len(Circuits[k].gates)]) = Truth[Out(k)]
<1> DEFINE inputs == Circuits[k].inputs
           gts == Circuits[k].gates
           bits == [i \in DOMAIN inputs |-> Truth[inputs[i]]]
<1>1. CircuitShape(inputs, gts)
  BY CallShape
<1>2. Len(inputs) \in Nat /\ DOMAIN inputs = 1 .. Len(inputs)
  BY <1>1 DEF CircuitShape
<1>3. DOMAIN bits = 1 .. Len(inputs) /\ Len(bits) = Len(inputs)
      /\ \A j \in 1 .. Len(inputs) : bits[j] = Truth[inputs[j]]
  BY <1>2
<1>4. Truth[Out(k)] = CircuitBit(gts, bits)
  <2>1. Out(k) \in Addresses /\ Out(k) >= NumInputs /\ Out(k) - NumInputs + 1 = k /\ NumInputs \in Nat
    BY AddressFacts
  <2>2. Truth[Out(k)] = TruthRule(Truth, Out(k))
    BY <2>1, TruthFacts
  <2>3. Out(k) \in Int /\ ~(Out(k) < NumInputs)
    BY <2>1 DEF Addresses
  <2>4. TruthRule(Truth, Out(k)) = CircuitBit(gts, bits)
    BY <2>1, <2>3 DEF TruthRule
  <2> QED
    BY <2>2, <2>4
<1> HIDE DEF bits, gts, inputs
<1>5. CircuitShape(bits, gts) /\ CircuitShape(macs, gts)
  BY <1>1, <1>3 DEF CircuitShape, inputs
<1>6. Lsb(feed[Len(macs) + Len(gts)]) = CircuitBit(gts, bits)
  <2>1. Len(bits) = Len(macs) /\ \A j \in 1 .. Len(macs) : Lsb(macs[j]) = bits[j]
    BY <1>3 DEF inputs
  <2>2. \A i \in 1 .. Len(gts) :
           Lsb(feed[Len(macs) + i]) = GateBit(gts[i], Lsb(feed[gts[i].x]), Lsb(feed[gts[i].y]))
    BY DEF gts
  <2>3. \A j \in 1 .. Len(macs) : feed[j] = macs[j]
    OBVIOUS
  <2> QED
    <3>1. HonestFeed(macs, gts, bits, feed)
      BY <1>5, <2>1, <2>2, <2>3 DEF HonestFeed
    <3> QED
      BY ONLY <3>1, ProverComputes, Zenon
<1> QED
  BY <1>4, <1>6 DEF gts

\* The memory stands for bits.
LEMMA TruthBit == \A a \in Addresses : Truth[a] \in Bit
<1> DEFINE Bad == {a \in Addresses : Truth[a] \notin Bit}
<1> SUFFICES ASSUME Bad # {} PROVE FALSE
  OBVIOUS
<1>1. PICK a \in Bad : \A b \in Bad : ~(b < a)
  <2>1. Bad \in SUBSET Nat
    BY AddressFacts
  <2> HIDE DEF Bad
  <2> QED
    BY <2>1, LeastNumber
<1>2. a \in Addresses /\ Truth[a] = TruthRule(Truth, a) /\ a \in Nat /\ NumInputs \in Nat
  BY TruthFacts, AddressFacts
<1>3. ASSUME NEW b \in 0 .. a - 1 PROVE Truth[b] \in Bit
  <2>1. b \in Addresses /\ b < a
    BY <1>2, AddressFacts
  <2> QED
    BY <1>1, <2>1
<1>4. CASE a < NumInputs
  <2>1. Truth[a] = Value[a] /\ a \in 0 .. NumInputs - 1
    BY <1>2, <1>4 DEF TruthRule
  <2> QED
    BY <1>1, <2>1, CircuitsOK DEF Bit
<1>5. CASE ~(a < NumInputs)
  <2> DEFINE k == a - NumInputs + 1
             inputs == Circuits[k].inputs
             gts == Circuits[k].gates
             macs == [j \in DOMAIN inputs |-> MacPublic(Truth[inputs[j]])]
             feed == ProverFeed(gts, macs, << >>, 0)
  <2>1. k \in DOMAIN Circuits /\ Out(k) = a /\ \A j \in DOMAIN inputs : Truth[inputs[j]] \in Bit
    <3>1. a >= NumInputs
      BY <1>2, <1>5
    <3>2. k \in DOMAIN Circuits /\ \A j \in DOMAIN inputs : inputs[j] \in 0 .. a - 1
      BY <1>2, <3>1, AddressFacts
    <3>3. Out(k) = a
      BY <1>2 DEF Out
    <3> QED
      BY <1>3, <3>2, <3>3
  <2> HIDE DEF k
  <2>2. CircuitShape(inputs, gts)
    BY <2>1, CallShape
  <2>3. Len(inputs) \in Nat /\ DOMAIN inputs = 1 .. Len(inputs)
    BY <2>2 DEF CircuitShape
  <2>4. DOMAIN macs = 1 .. Len(inputs) /\ Len(macs) = Len(inputs)
        /\ \A j \in 1 .. Len(inputs) : Lsb(macs[j]) = Truth[inputs[j]]
    <3>1. DOMAIN macs = 1 .. Len(inputs) /\ Len(macs) = Len(inputs)
      BY <2>3
    <3>2. \A b \in Bit : Lsb(MacPublic(b)) = b
      BY DEF Bit, Lsb, MacPublic
    <3>3. \A j \in 1 .. Len(inputs) : macs[j] = MacPublic(Truth[inputs[j]])
      BY <2>3
    <3> QED
      BY <2>1, <2>3, <3>1, <3>2, <3>3
  <2> HIDE DEF macs, gts, inputs
  <2>5. CircuitShape(macs, gts)
    BY <2>2, <2>4 DEF CircuitShape
  <2>6. /\ \A j \in 1 .. Len(macs) : feed[j] = macs[j]
        /\ \A i \in 1 .. Len(gts) : gts[i].op # "and" \/ i # 0 =>
             Lsb(feed[Len(macs) + i]) = GateBit(gts[i], Lsb(feed[gts[i].x]), Lsb(feed[gts[i].y]))
    BY <2>5, ProverFeeds
  <2> HIDE DEF feed
  <2>7. \A i \in 1 .. Len(gts) :
             Lsb(feed[Len(macs) + i]) = GateBit(gts[i], Lsb(feed[gts[i].x]), Lsb(feed[gts[i].y]))
    <3>1. \A i \in 1 .. Len(gts) : i # 0
      BY <2>5 DEF CircuitShape
    <3> QED
      BY <2>6, <3>1
  <2>8. Lsb(feed[Len(macs) + Len(gts)]) = Truth[Out(k)]
    BY <2>1, <2>4, <2>6, <2>7, CallTruth DEF gts, inputs
  <2> QED
    BY <1>1, <2>1, <2>8, BitFacts
<1> QED
  BY <1>4, <1>5
-----------------------------------------------------------------------------
(***************************************************************************)
(* The inductive invariant of soundness.                                   *)
(***************************************************************************)

\* A triple that shows that its gate was computed wrongly, and a message
\* that lets the verifier see one.
Wrong(t) == Lsb(t.z) # Lsb(t.x) * Lsb(t.y)

WrongIn(seq) == \E i \in 1 .. Len(seq) : Wrong(seq[i])

Caught(m) == m.kind = "uv" /\ WrongIn(m.check)

NoneCaught(q, n) == \A i \in 1 .. n : ~Caught(q[i])

\* What the verifier has accepted or may still accept of the prover, who
\* computed n gates wrongly, whose triples c wait for a check, and whose
\* messages q are on their way to the verifier, who failed or not.
Trusted(n, failed, c, q) ==
  n = 0 \/ (~failed /\ ~WrongIn(c) /\ NoneCaught(q, Len(q)))

RightBits(D) == \A a \in DOMAIN D : D[a] = Truth[a]

RightMacs(M) == \A a \in DOMAIN M : Lsb(M[a]) = Truth[a]

RightTasks(T) ==
  \A k \in DOMAIN T : T[k].out # << >> => Lsb(T[k].out[1]) = Truth[Out(k)]

RightResults(R) == \A r \in R : \A a \in r[1] : r[2][a] = Truth[a]

RightProof(m) ==
  \A a \in m.view.prove : Lsb(Spread(m.view.prove, m.proof)[a]) = Truth[a]

Right(M, D, T) == RightMacs(M) /\ RightBits(D) /\ RightTasks(T)

\* Control: where a party is, where it returns to, and its calls.
Flow(l, r, h, c) ==
  /\ r \in {"idle", "loop", "batch"} /\ h \in {"idle", "loop"}
  /\ l = "batch" => c # << >>
  /\ l \in {"flush", "commit", "sync"} /\ r = "batch" => c # << >>

IsTask(t) == t = [ots |-> t.ots, idx |-> t.idx, out |-> t.out]

Staged(s, c, T) ==
  /\ s \in Seq(DOMAIN Circuits) /\ c \in Seq(DOMAIN Circuits)
  /\ DOMAIN T \subseteq DOMAIN Circuits /\ \A k \in DOMAIN T : IsTask(T[k])

\* The prover has triples only between a batch and its check.
Between(l, c, T) ==
  /\ l \notin {"batch", "tasks", "check"} => c = << >>
  /\ l # "tasks" => DOMAIN T = {}

Scheduled ==
  /\ \A p \in Roles : Flow(pc[p], ret[p], home[p], chunk[p])
  /\ \A p \in Roles : Staged(stack[p], chunk[p], tasks[p])
  /\ Between(pc["p"], check["p"], tasks["p"]) /\ calls \in Nat

Needs(k) == {Circuits[k].inputs[i] : i \in DOMAIN Circuits[k].inputs}

\* Every running call has reserved triples of its own, and they show nothing
\* before the call finishes.
Slots(t, n) == (t.idx + 1) .. (t.idx + n)

Slotted(T, c, M) ==
  /\ IsQueue(c)
  /\ \A k \in DOMAIN T :
       /\ T[k].idx \in Nat /\ T[k].idx + Ands(k) <= Len(c)
       /\ Needs(k) \subseteq DOMAIN M
       /\ T[k].out = << >> => \A i \in Slots(T[k], Ands(k)) : ~Wrong(c[i])
  /\ \A j, k \in DOMAIN T :
       j # k => Slots(T[j], Ands(j)) \cap Slots(T[k], Ands(k)) = {}

Held(D, M) == DOMAIN D \subseteq Addresses /\ DOMAIN M \subseteq Addresses

ProverState ==
  /\ Held(data["p"], auth["p"]) /\ Slotted(tasks["p"], check["p"], auth["p"])
  /\ Trusted(faults, err["v"], check["p"], net["v"])
       => Right(auth["p"], data["p"], tasks["p"])
  /\ faults \in Nat /\ (faults = 0 => RightResults(results["p"]))

\* The verifier proves what is open, and what waits to be committed is not.
ViewRight(v) ==
  /\ v.flush.prove \subseteq Opened(v) /\ v.flush.commit \cap Opened(v) = {}
  /\ v.flush.commit \subseteq v.vis.blind /\ v.vis.blind \cap v.vis.public = {}
  /\ v.inputs \cap v.outputs = {}

\* Keys that do not wait for their adjustment have a clear pointer bit.
Adjusted(K, S) == \A a \in DOMAIN K : a \in S \/ Lsb(K[a]) = 0

OpenCalls(v, c) == \A i \in 1 .. Len(c) : Needs(c[i]) \subseteq Opened(v)

OpenTasks(v, K, T) ==
  \A k \in DOMAIN T :
    /\ Needs(k) \subseteq Opened(v) /\ Needs(k) \subseteq DOMAIN K
    /\ T[k].out # << >> => Lsb(T[k].out[1]) = 0

VerifierState ==
  /\ ViewRight(view["v"]) /\ Adjusted(auth["v"], view["v"].flush.commit)
  /\ OpenCalls(view["v"], chunk["v"]) /\ OpenTasks(view["v"], auth["v"], tasks["v"])
  /\ RightBits(data["v"]) /\ RightResults(results["v"])

\* What the verifier can still accept proves the truth.
Messages(q, failed) ==
  /\ IsQueue(q)
  /\ failed \/ \A i \in 1 .. Len(q) :
       q[i].kind = "flush" /\ NoneCaught(q, i - 1) => RightProof(q[i])

PerRole(f) == f = [p \in Roles |-> f[p]]

Shape ==
  /\ PerRole(pc) /\ PerRole(ret) /\ PerRole(home) /\ PerRole(chunk) /\ PerRole(stack)
  /\ PerRole(tasks) /\ PerRole(auth) /\ PerRole(results) /\ PerRole(check)
  /\ PerRole(net) /\ PerRole(err)

SoundInv ==
  Shape /\ Scheduled /\ ProverState /\ VerifierState /\ Messages(net["v"], err["v"])
-----------------------------------------------------------------------------
(***************************************************************************)
(* Steps that leave a part of the invariant alone.                         *)
(***************************************************************************)
Sets(f, p, e) == [f EXCEPT ![p] = e]

Only(f, g, p, e) == PerRole(g) /\ g[p] = e /\ \A q \in Roles : q # p => g[q] = f[q]

\* A party's part of a variable is assigned, the other's is not.
LEMMA PerRoleExcept ==
  ASSUME NEW f, PerRole(f), NEW p \in Roles, NEW e
  PROVE  Only(f, Sets(f, p, e), p, e)
<1> DEFINE g == Sets(f, p, e)
<1>0. g = [f EXCEPT ![p] = e]
  BY DEF Sets
<1> HIDE DEF g
<1>1. DOMAIN f = Roles
  <2>1. f = [q \in Roles |-> f[q]]
    BY DEF PerRole
  <2> QED
    BY <2>1, Zenon
<1>2. g[p] = e /\ \A q \in Roles : q # p => g[q] = f[q]
  BY <1>0, <1>1
<1>3. g = [q \in Roles |-> g[q]]
  BY <1>0, <1>1
<1> QED
  BY <1>2, <1>3 DEF PerRole, Only, g

\* Every variable still has a value for each of the two parties.
LEMMA ShapeSame ==
  ASSUME Shape,
         PerRole(pc'), PerRole(ret'), PerRole(home'), PerRole(chunk'), PerRole(stack'),
         PerRole(tasks'), PerRole(auth'), PerRole(results'), PerRole(check'),
         PerRole(net'), PerRole(err')
  PROVE  Shape'
BY DEF Shape, PerRole

\* Nobody moves.
LEMMA ScheduledSame ==
  ASSUME Scheduled, UNCHANGED <<pc, ret, home, chunk, stack, tasks, calls>>, check'["p"] = check["p"]
  PROVE  Scheduled'
BY DEF Scheduled

\* The prover's part is kept, and trust in it is not regained.
LEMMA ProverStateSame ==
  ASSUME ProverState, data'["p"] = data["p"], auth'["p"] = auth["p"], tasks'["p"] = tasks["p"],
         check'["p"] = check["p"], faults' = faults, results'["p"] = results["p"],
         Trusted(faults', err'["v"], check'["p"], net'["v"])
           => Trusted(faults, err["v"], check["p"], net["v"])
  PROVE  ProverState'
BY DEF ProverState

\* The verifier's part is kept.
LEMMA VerifierStateSame ==
  ASSUME VerifierState, view'["v"] = view["v"], auth'["v"] = auth["v"], chunk'["v"] = chunk["v"],
         tasks'["v"] = tasks["v"], data'["v"] = data["v"], results'["v"] = results["v"]
  PROVE  VerifierState'
BY DEF VerifierState

\* A party that fails does nothing else; a verifier that has failed accepts
\* nothing.
LEMMA FailSound ==
  ASSUME SoundInv, NEW p \in Roles, Fail(p) PROVE SoundInv'
<1>0. PerRole(err) /\ err' = Sets(err, p, TRUE)
  BY DEF SoundInv, Shape, Sets, Fail
<1>1. PerRole(err') /\ err'[p] = TRUE /\ \A q \in Roles : q # p => err'[q] = err[q]
  <2>1. Only(err, Sets(err, p, TRUE), p, TRUE)
    BY ONLY p \in Roles, <1>0, PerRoleExcept, Zenon
  <2> QED
    BY ONLY <1>0, <2>1, Zenon DEF Only
<1> USE DEF Fail, stores, decodes, supply, checking, control
<1>2. err'["v"] = TRUE \/ err'["v"] = err["v"]
  BY <1>1 DEF Roles
<1>3. Shape'
  BY <1>1, ShapeSame DEF SoundInv, Shape
<1>4. Scheduled' /\ VerifierState'
  BY ScheduledSame, VerifierStateSame DEF SoundInv
<1>5. ProverState'
  BY <1>2, ProverStateSame DEF SoundInv, Trusted
<1>6. Messages(net'["v"], err'["v"])
  BY <1>2 DEF SoundInv, Messages
<1> QED
  BY <1>3, <1>4, <1>5, <1>6 DEF SoundInv

\* Steps that move a party on and change no bit, key or triple.
LEMMA ControlSound ==
  ASSUME SoundInv, PerRole(pc'), PerRole(ret'), PerRole(home'), PerRole(net'),
         \A p \in Roles : Flow(pc'[p], ret'[p], home'[p], chunk[p]),
         Between(pc'["p"], check["p"], tasks["p"]), net'["v"] = net["v"],
         UNCHANGED <<view, data, auth, results, stack, check, chunk, tasks, err, calls, faults>>
  PROVE  SoundInv'
<1>1. Shape'
  BY ShapeSame DEF SoundInv, Shape
<1>2. Scheduled'
  BY DEF SoundInv, Scheduled
<1>3. ProverState' /\ VerifierState'
  BY ProverStateSame, VerifierStateSame DEF SoundInv
<1>4. Messages(net'["v"], err'["v"])
  BY DEF SoundInv
<1> QED
  BY <1>1, <1>2, <1>3, <1>4 DEF SoundInv

\* One party moves on.
LEMMA GotoSound ==
  ASSUME SoundInv, NEW p \in Roles, NEW l, Goto(p, l),
         Flow(l, ret[p], home[p], chunk[p]),
         p = "p" => Between(l, check["p"], tasks["p"]),
         PerRole(net'), net'["v"] = net["v"],
         UNCHANGED <<view, data, auth, results, stack, check, ret, home, chunk, tasks,
                     err, calls, faults>>
  PROVE  SoundInv'
<1>0. PerRole(pc) /\ pc' = Sets(pc, p, l)
  BY DEF SoundInv, Shape, Goto, Sets
<1>1. PerRole(pc') /\ pc'[p] = l /\ \A q \in Roles : q # p => pc'[q] = pc[q]
  BY <1>0, PerRoleExcept DEF Only
<1>2. \A q \in Roles : Flow(pc'[q], ret'[q], home'[q], chunk[q])
  BY <1>1 DEF SoundInv, Scheduled
<1>3. Between(pc'["p"], check["p"], tasks["p"])
  BY <1>1 DEF SoundInv, Scheduled, Roles
<1> QED
  BY <1>1, <1>2, <1>3, ControlSound DEF SoundInv, Shape

\* flush of the RCOTs.
LEMMA OtFlushSound ==
  ASSUME SoundInv, VerifierOtFlush \/ ProverOtFlush PROVE SoundInv'
<1> USE DEF stores, decodes, supply, checking, control
<1>1. ASSUME NEW m PROVE net' = Sets(net, "p", m) => PerRole(net') /\ net'["v"] = net["v"]
  BY PerRoleExcept DEF SoundInv, Shape, Only, Roles
<1>2. ASSUME NEW p \in Roles, pc[p] = "flush"
      PROVE  /\ Flow("commit", ret[p], home[p], chunk[p])
             /\ p = "p" => Between("commit", check["p"], tasks["p"])
  BY <1>2 DEF SoundInv, Scheduled, Flow, Between
<1>3. CASE VerifierOtFlush
  <2>1. "v" \in Roles
    BY DEF Roles
  <2>2. PerRole(net') /\ net'["v"] = net["v"]
    BY <1>1, <1>3 DEF VerifierOtFlush, Sets
  <2>3. /\ Goto("v", "commit") /\ pc["v"] = "flush"
        /\ UNCHANGED <<view, data, auth, results, stack, check, ret, home, chunk, tasks,
                       err, calls, faults>>
    BY <1>3 DEF VerifierOtFlush
  <2> QED
    BY <1>2, <2>1, <2>2, <2>3, GotoSound
<1>4. CASE ProverOtFlush
  <2>1. "p" \in Roles
    BY DEF Roles
  <2>2. CASE Fail("p")
    BY <2>1, <2>2, FailSound
  <2>3. CASE ~Fail("p")
    <3>1. PerRole(net') /\ net'["v"] = net["v"]
      BY <1>1, <1>4, <2>3 DEF ProverOtFlush, Sets
    <3>2. /\ Goto("p", "commit") /\ pc["p"] = "flush"
          /\ UNCHANGED <<view, data, auth, results, stack, check, ret, home, chunk, tasks,
                         err, calls, faults>>
      BY <1>4, <2>3 DEF ProverOtFlush
    <3> QED
      BY <1>2, <2>1, <3>1, <3>2, GotoSound
  <2> QED
    BY <2>2, <2>3
<1> QED
  BY <1>3, <1>4

\* The next step of execute_all.
LEMMA ExecuteAllSound ==
  ASSUME SoundInv, NEW p \in Roles, ExecuteAll(p) PROVE SoundInv'
<1>1. PICK l \in {"flush", "stage", "idle"} : pc' = Sets(pc, p, l)
  BY DEF ExecuteAll, Goto, Sets
<1>2. PerRole(pc') /\ pc'[p] = l /\ \A q \in Roles : q # p => pc'[q] = pc[q]
  BY <1>1, PerRoleExcept DEF SoundInv, Shape, Only
<1>3. ret' = Sets(ret, p, "loop")
  BY DEF ExecuteAll, Sets
<1>4. PerRole(ret') /\ ret'[p] = "loop" /\ \A q \in Roles : q # p => ret'[q] = ret[q]
  BY <1>3, PerRoleExcept DEF SoundInv, Shape, Only
<1>5. UNCHANGED <<view, data, auth, results, stack, check, home, chunk, tasks, net, err, calls, faults>>
  BY DEF ExecuteAll, stores, decodes, checking, messages
<1>6. ASSUME NEW q \in Roles PROVE Flow(pc'[q], ret'[q], home'[q], chunk[q])
  <2>1. Flow(pc[q], ret[q], home[q], chunk[q])
    BY DEF SoundInv, Scheduled
  <2>2. CASE q = p
    BY <1>2, <1>4, <1>5, <2>1, <2>2 DEF Flow
  <2>3. CASE q # p
    BY <1>2, <1>4, <1>5, <2>1, <2>3
  <2> QED
    BY <2>2, <2>3
<1>7. Between(pc'["p"], check["p"], tasks["p"])
  <2>1. Between(pc["p"], check["p"], tasks["p"])
    BY DEF SoundInv, Scheduled
  <2>2. CASE p = "p"
    BY <1>2, <2>1, <2>2 DEF Between, ExecuteAll
  <2>3. CASE p # "p"
    BY <1>2, <2>1, <2>3 DEF Roles
  <2> QED
    BY <2>2, <2>3
<1> QED
  BY <1>2, <1>4, <1>5, <1>6, <1>7, ControlSound DEF SoundInv, Shape

\* flush, execute and execute_all begin.
LEMMA StartSound ==
  ASSUME SoundInv, StartFlush \/ StartExecute \/ StartExecuteAll PROVE SoundInv'
<1>1. PICK l \in {"flush", "stage", "loop"}, r \in {"idle", "loop"} : StartJoint(l, r, r)
  BY DEF StartFlush, StartExecute, StartExecuteAll
<1>2. /\ pc' = [p \in Roles |-> l] /\ ret' = [p \in Roles |-> r] /\ home' = [p \in Roles |-> r]
      /\ \A p \in Roles : pc[p] = "idle"
      /\ UNCHANGED <<view, data, auth, results, stack, check, chunk, tasks, net, err, calls, faults>>
  BY <1>1 DEF StartJoint, Idle, stores, decodes, checking, messages
<1>3. PerRole(pc') /\ PerRole(ret') /\ PerRole(home')
  BY <1>2 DEF PerRole
<1>4. \A p \in Roles : Flow(pc'[p], ret'[p], home'[p], chunk[p])
  BY <1>2 DEF Flow
<1>5. Between(pc'["p"], check["p"], tasks["p"])
  BY <1>2 DEF SoundInv, Scheduled, Between, Roles
<1> QED
  BY <1>2, <1>3, <1>4, <1>5, ControlSound DEF SoundInv, Shape

\* extract_if takes ready calls, and leaves calls.
LEMMA ExtractFacts ==
  ASSUME NEW p \in Roles, stack[p] \in Seq(DOMAIN Circuits)
  PROVE  /\ ExtractIf(p).chunk \in Seq({k \in DOMAIN Circuits : Ready(p, k)})
         /\ ExtractIf(p).rest \in Seq(DOMAIN Circuits)
<1> DEFINE D == DOMAIN stack[p]
           ready == {i \in D : Ready(p, stack[p][i])}
           S == {i \in ready : SumAnds(Collect({j \in ready : j < i}, stack[p])) < ChunkCap}
           T == {k \in DOMAIN Circuits : Ready(p, k)}
<1>1. D = 1 .. Len(stack[p]) /\ Len(stack[p]) \in Nat /\ \A i \in D : stack[p][i] \in DOMAIN Circuits
  OBVIOUS
<1>2. ExtractIf(p).chunk = Collect(S, stack[p]) /\ ExtractIf(p).rest = Collect(D \ S, stack[p])
  BY DEF ExtractIf
<1>3. S \in SUBSET D /\ \A i \in S : stack[p][i] \in T
  <2>1. S \in SUBSET ready
    OBVIOUS
  <2> HIDE DEF S
  <2> QED
    BY <1>1, <2>1
<1> HIDE DEF S, T
<1>4. IsFiniteSet(D)
  BY <1>1, FS_Interval
<1>5. IsFiniteSet(S) /\ IsFiniteSet(D \ S)
  <2>1. D \ S \in SUBSET D
    OBVIOUS
  <2> QED
    BY <1>3, <1>4, <2>1, FS_Subset
<1>6. S \in Addr /\ D \ S \in Addr
  BY <1>1, <1>3 DEF Addr
<1>7. Collect(S, stack[p]) \in Seq(T)
  BY <1>3, <1>5, <1>6, CollectSeq
<1>8. Collect(D \ S, stack[p]) \in Seq(DOMAIN Circuits)
  BY <1>1, <1>5, <1>6, CollectSeq
<1> QED
  BY <1>2, <1>7, <1>8 DEF T

\* execute stages ready calls.
LEMMA StageSound ==
  ASSUME SoundInv, NEW p \in Roles, StageChunk(p) PROVE SoundInv'
<1> DEFINE c == ExtractIf(p).chunk
           s == ExtractIf(p).rest
           l == IF c = << >> THEN home[p] ELSE "flush"
<1>0. Flow(pc[p], ret[p], home[p], chunk[p]) /\ Staged(stack[p], chunk[p], tasks[p])
  BY DEF SoundInv, Scheduled
<1>1. /\ c \in Seq({k \in DOMAIN Circuits : Ready(p, k)}) /\ s \in Seq(DOMAIN Circuits)
  BY <1>0, ExtractFacts DEF Staged
<1>2. /\ pc' = Sets(pc, p, l) /\ ret' = Sets(ret, p, "batch")
      /\ stack' = Sets(stack, p, s) /\ chunk' = Sets(chunk, p, c) /\ pc[p] = "stage"
      /\ UNCHANGED <<view, data, auth, results, check, home, tasks, net, err, calls, faults>>
  BY DEF StageChunk, Goto, Sets, stores, decodes, checking, messages
<1> HIDE DEF c, s, l
<1>3. PerRole(pc') /\ pc'[p] = l /\ \A q \in Roles : q # p => pc'[q] = pc[q]
  BY <1>2, PerRoleExcept DEF SoundInv, Shape, Only
<1>4. PerRole(ret') /\ ret'[p] = "batch" /\ \A q \in Roles : q # p => ret'[q] = ret[q]
  BY <1>2, PerRoleExcept DEF SoundInv, Shape, Only
<1>5. PerRole(stack') /\ stack'[p] = s /\ \A q \in Roles : q # p => stack'[q] = stack[q]
  BY <1>2, PerRoleExcept DEF SoundInv, Shape, Only
<1>6. PerRole(chunk') /\ chunk'[p] = c /\ \A q \in Roles : q # p => chunk'[q] = chunk[q]
  BY <1>2, PerRoleExcept DEF SoundInv, Shape, Only
<1>7. l \in {"flush", "idle", "loop"} /\ (l = "flush" => c # << >>)
  BY <1>0 DEF Flow, l
<1>8. Scheduled'
  <2>1. ASSUME NEW q \in Roles
        PROVE  Flow(pc'[q], ret'[q], home'[q], chunk'[q]) /\ Staged(stack'[q], chunk'[q], tasks'[q])
    <3>1. Flow(pc[q], ret[q], home[q], chunk[q]) /\ Staged(stack[q], chunk[q], tasks[q])
      BY DEF SoundInv, Scheduled
    <3>2. CASE q = p
      <4>1. Flow(l, "batch", home[p], c)
        BY <1>0, <1>7 DEF Flow
      <4>2. c \in Seq(DOMAIN Circuits)
        BY <1>1
      <4>3. Staged(s, c, tasks[p])
        BY <1>0, <1>1, <4>2 DEF Staged
      <4> QED
        BY <1>2, <1>3, <1>4, <1>5, <1>6, <3>2, <4>1, <4>3
    <3>3. CASE q # p
      BY <1>2, <1>3, <1>4, <1>5, <1>6, <3>1, <3>3
    <3> QED
      BY <3>2, <3>3
  <2>2. Between(pc'["p"], check'["p"], tasks'["p"])
    <3>1. Between(pc["p"], check["p"], tasks["p"])
      BY DEF SoundInv, Scheduled
    <3>2. CASE p = "p"
      BY <1>2, <1>3, <1>7, <3>1, <3>2 DEF Between
    <3>3. CASE p # "p"
      BY <1>2, <1>3, <3>1, <3>3 DEF Roles
    <3> QED
      BY <3>2, <3>3
  <2> QED
    BY <1>2, <2>1, <2>2 DEF SoundInv, Scheduled
<1>9. ProverState'
  BY <1>2, ProverStateSame DEF SoundInv
<1>10. VerifierState'
  <2>1. CASE p = "v"
    <3>1. ASSUME NEW i \in 1 .. Len(c) PROVE Needs(c[i]) \subseteq Opened(view["v"])
      <4>1. Ready("v", c[i])
        BY <1>1, <2>1
      <4> QED
        BY <4>1 DEF Ready, Needs, Opened, IsCommitted
    <3>2. OpenCalls(view["v"], c)
      BY <3>1 DEF OpenCalls
    <3> QED
      BY <1>2, <1>6, <2>1, <3>2 DEF SoundInv, VerifierState
  <2>2. CASE p # "v"
    BY <1>2, <1>6, <2>2, VerifierStateSame DEF SoundInv, Roles
  <2> QED
    BY <2>1, <2>2
<1>11. Shape'
  BY <1>2, <1>3, <1>4, <1>5, <1>6, ShapeSame DEF SoundInv, Shape
<1> QED
  BY <1>2, <1>8, <1>9, <1>10, <1>11 DEF SoundInv
-----------------------------------------------------------------------------
(***************************************************************************)
(* The memory operations of the applications keep the bits right.          *)
(***************************************************************************)

\* What try_set leaves in a store.
Written(store, S, contents, g) ==
  /\ DOMAIN g = S \cup DOMAIN store
  /\ \A a \in S : g[a] = contents[a]
  /\ \A a \in DOMAIN store : a \notin S => g[a] = store[a]

\* TrySet (memory-core's try_set) writes S and leaves the rest alone.
LEMMA TrySetFacts ==
  ASSUME NEW store, NEW S, NEW contents
  PROVE  Written(store, S, contents, TrySet(store, S, contents))
<1> DEFINE new == [a \in S |-> contents[a]]
           g == TrySet(store, S, contents)
<1>1. DOMAIN new = S /\ \A a \in S : new[a] = contents[a]
  OBVIOUS
<1> HIDE DEF new
<1>2. g = [a \in S \cup DOMAIN store |-> IF a \in S THEN new[a] ELSE store[a]]
  BY <1>1 DEF TrySet, Overlay, new
<1> QED
  BY <1>1, <1>2 DEF Written

\* A step that changes the verifier's view and opens or commits more.
LEMMA ViewSound ==
  ASSUME SoundInv, Shape', Scheduled', ViewRight(view'["v"]),
         view["v"].flush.commit \subseteq view'["v"].flush.commit,
         Opened(view["v"]) \subseteq Opened(view'["v"]),
         UNCHANGED <<data, auth, results, chunk, tasks, check, net, err, faults>>
  PROVE  SoundInv'
<1>1. ProverState'
  BY ProverStateSame DEF SoundInv
<1>2. Adjusted(auth'["v"], view'["v"].flush.commit)
  BY DEF SoundInv, VerifierState, Adjusted
<1>3. OpenCalls(view'["v"], chunk'["v"]) /\ OpenTasks(view'["v"], auth'["v"], tasks'["v"])
  BY DEF SoundInv, VerifierState, OpenCalls, OpenTasks
<1>4. VerifierState'
  BY <1>2, <1>3 DEF SoundInv, VerifierState
<1> QED
  BY <1>1, <1>4 DEF SoundInv

\* alloc_raw.
LEMMA AllocRawSound ==
  ASSUME Inv, SoundInv, AllocRaw PROVE SoundInv'
<1> DEFINE v == view["v"]
           n == InputSizes[Cardinality(Allocated) + 1]
           w == AllocInput(v, n)
<1>1. /\ view'["v"] = w
      /\ UNCHANGED <<pc, ret, home, stack, calls, data, auth, results, chunk, tasks, check,
                     net, err, faults>>
  BY DEF AllocRaw, stores, decodes, checking, control, messages, Roles
<1>2. n \in Nat /\ v \in ViewType /\ ViewInv(v)
  BY NextSize DEF Inv, Pair
<1> HIDE DEF n
<1> DEFINE S == Slice(v.len, n)
<1>3. /\ SameProgress(v, w) /\ w.vis.public = v.vis.public /\ w.vis.blind = v.vis.blind
      /\ w.inputs = v.inputs \cup S /\ w.outputs = v.outputs
      /\ \A a \in S : v.len <= a
  BY <1>2, AllocFields
<1>4. S \cap v.outputs = {}
  <2>1. \A a \in v.outputs : a < v.len /\ a \in Int /\ v.len \in Int
    BY <1>2 DEF ViewInv, Below, ViewType, Addr
  <2> QED
    BY <1>3, <2>1
<1> HIDE DEF w, S
<1>5. ViewRight(w)
  BY <1>3, <1>4 DEF SoundInv, VerifierState, ViewRight, SameProgress, Opened
<1>6. v.flush.commit \subseteq w.flush.commit /\ Opened(v) \subseteq Opened(w)
  BY <1>3 DEF SameProgress, Opened
<1>7. Shape' /\ Scheduled'
  BY <1>1, ScheduledSame, ShapeSame DEF SoundInv, Shape
<1> QED
  BY <1>1, <1>5, <1>6, <1>7, ViewSound

\* mark_public_raw, mark_private_raw and mark_blind_raw.
LEMMA MarkRawSound ==
  ASSUME Inv, SoundInv, NEW i \in Allocated, MarkRaw(i) PROVE SoundInv'
<1> DEFINE v == view["v"]
           S == InputSlice(i)
           w == view'["v"]
<1>1. /\ CanMark(v, S) /\ w \in {MarkPublic(v, S), MarkBlind(v, S)}
      /\ UNCHANGED <<pc, ret, home, stack, calls, data, auth, results, chunk, tasks, check,
                     net, err, faults>>
  BY DEF MarkRaw, stores, decodes, checking, control, messages, Roles
<1>2. /\ v \in ViewType /\ ViewInv(v) /\ S \in Addr /\ Below(S, v.len)
  BY InputAddr DEF Inv, Pair
<1> HIDE DEF S
<1>3. SameMemory(v, w) /\ SameProgress(v, w) /\ S \cap (v.vis.public \cup v.vis.blind) = {}
  BY <1>1, <1>2, MarkFields
<1>4. \/ w.vis.public = v.vis.public \cup S /\ w.vis.blind = v.vis.blind \ S
      \/ w.vis.public = v.vis.public \ S /\ w.vis.blind = v.vis.blind \cup S
  BY <1>1, <1>2 DEF MarkPublic, MarkBlind, SetPublic, SetBlind, ViewType
<1> HIDE DEF v, w
<1>5. ViewRight(w)
  <2>1. ViewRight(v)
    BY DEF SoundInv, VerifierState, v
  <2>2. w.vis.blind \cap w.vis.public = {} /\ v.vis.blind \subseteq w.vis.blind
    BY <1>3, <1>4, <2>1 DEF ViewRight
  <2> QED
    BY <1>3, <2>1, <2>2 DEF ViewRight, SameProgress, SameMemory, Opened
<1>6. v.flush.commit \subseteq w.flush.commit /\ Opened(v) \subseteq Opened(w)
  BY <1>3 DEF SameProgress, Opened
<1>7. Shape' /\ Scheduled'
  BY <1>1, ScheduledSame, ShapeSame DEF SoundInv, Shape
<1> QED
  BY <1>1, <1>5, <1>6, <1>7, ViewSound DEF v, w

\* commit_raw.
LEMMA CommitRawSound ==
  ASSUME Inv, SoundInv, NEW S \in Addr, CommitRaw(S) PROVE SoundInv'
<1> DEFINE v == view["v"]
           w == Commit(v, "v", S)
<1>1. /\ CanCommit(v, S) /\ view'["v"] = w
      /\ UNCHANGED <<pc, ret, home, stack, calls, data, auth, results, chunk, tasks, check,
                     net, err, faults>>
  BY DEF CommitRaw, stores, decodes, checking, control, messages, Roles
<1>2. v \in ViewType /\ ViewInv(v) /\ ViewRight(v)
  BY DEF Inv, Pair, SoundInv, VerifierState
<1>3. /\ SameMemory(v, w) /\ w.vis = v.vis /\ w.committed = v.committed \cup (S \cap v.vis.public)
      /\ w.executed = v.executed /\ w.flush.commit = v.flush.commit \cup (S \cap v.vis.blind)
      /\ w.flush.prove = v.flush.prove
  BY <1>2, CommitFields DEF Roles
<1>4. S \cap v.committed = {} /\ S \cap v.executed = {}
  BY <1>1, <1>2 DEF CanCommit, ViewInv
<1> HIDE DEF v, w
<1>5. ViewRight(w)
  <2>1. w.flush.prove \subseteq Opened(w)
    BY <1>2, <1>3 DEF ViewRight, Opened
  <2>2. w.flush.commit \cap Opened(w) = {}
    BY <1>2, <1>3, <1>4 DEF ViewRight, Opened
  <2> QED
    BY <1>2, <1>3, <2>1, <2>2 DEF ViewRight, SameMemory
<1>6. v.flush.commit \subseteq w.flush.commit /\ Opened(v) \subseteq Opened(w)
  BY <1>3 DEF Opened
<1>7. Shape' /\ Scheduled'
  BY <1>1, ScheduledSame, ShapeSame DEF SoundInv, Shape
<1> QED
  BY <1>1, <1>5, <1>6, <1>7, ViewSound DEF v, w

\* call_raw.
LEMMA CallRawSound ==
  ASSUME Inv, SoundInv, CallRaw PROVE SoundInv'
<1> DEFINE v == view["v"]
           w == AllocOutput(v, 1)
           k == calls + 1
<1>1. /\ view'["v"] = w /\ calls < Len(Circuits) /\ calls' = k
      /\ stack' = [p \in Roles |-> Append(stack[p], k)]
      /\ UNCHANGED <<pc, ret, home, data, auth, results, chunk, tasks, check, net, err, faults>>
  BY DEF CallRaw, stores, decodes, checking, control, messages, Roles
<1>2. v \in ViewType /\ ViewInv(v) /\ ViewRight(v)
  BY DEF Inv, Pair, SoundInv, VerifierState
<1> DEFINE S == Slice(v.len, 1)
<1>3. /\ SameProgress(v, w) /\ w.vis.public = v.vis.public /\ w.vis.blind = v.vis.blind
      /\ w.inputs = v.inputs /\ w.outputs = v.outputs \cup S
      /\ \A a \in S : v.len <= a
  BY <1>2, AllocFields
<1>4. S \cap v.inputs = {}
  <2>1. \A a \in v.inputs : a < v.len /\ a \in Int /\ v.len \in Int
    BY <1>2 DEF ViewInv, Below, ViewType, Addr
  <2> QED
    BY <1>3, <2>1
<1> HIDE DEF w, S, v
<1>5. ViewRight(w)
  BY <1>2, <1>3, <1>4 DEF ViewRight, SameProgress, Opened
<1>6. v.flush.commit \subseteq w.flush.commit /\ Opened(v) \subseteq Opened(w)
  BY <1>3 DEF SameProgress, Opened
<1>7. k \in DOMAIN Circuits /\ k \in Nat
  <2>1. calls \in Nat /\ Len(Circuits) \in Nat /\ DOMAIN Circuits = 1 .. Len(Circuits)
    BY CircuitsOK DEF SoundInv, Scheduled
  <2> QED
    BY <1>1, <2>1
<1> HIDE DEF k
<1>8. Scheduled'
  <2>1. ASSUME NEW p \in Roles PROVE Staged(stack'[p], chunk'[p], tasks'[p])
    <3>1. Staged(stack[p], chunk[p], tasks[p])
      BY DEF SoundInv, Scheduled
    <3>2. Append(stack[p], k) \in Seq(DOMAIN Circuits)
      BY <1>7, <3>1 DEF Staged
    <3>3. stack'[p] = Append(stack[p], k)
      BY <1>1
    <3> QED
      BY <1>1, <3>1, <3>2, <3>3 DEF Staged
  <2> QED
    BY <1>1, <1>7, <2>1 DEF SoundInv, Scheduled
<1>9. Shape'
  <2>1. PerRole(stack')
    BY <1>1 DEF PerRole
  <2> QED
    BY <1>1, <2>1, ShapeSame DEF SoundInv, Shape
<1> QED
  BY <1>1, <1>5, <1>6, <1>8, <1>9, ViewSound DEF v

\* The inputs of the machines are what they are assigned.
LEMMA InputTruth ==
  ASSUME NEW i \in Allocated
  PROVE  \A a \in InputSlice(i) : a \in Addresses /\ Truth[a] = Value[a] /\ Value[a] \in Bit
<1> SUFFICES ASSUME NEW a \in InputSlice(i)
             PROVE  a \in Addresses /\ Truth[a] = Value[a] /\ Value[a] \in Bit
  OBVIOUS
<1>1. NumInputs \in Nat /\ a \in 0 .. NumInputs - 1
  BY InputAddresses DEF Allocated
<1>2. a \in Addresses
  <2>1. Len(Circuits) \in Nat
    BY CircuitsOK
  <2> QED
    BY <1>1, <2>1 DEF Addresses
<1>3. Truth[a] = Value[a]
  <2>1. Truth[a] = TruthRule(Truth, a)
    BY <1>2, TruthFacts
  <2>2. a < NumInputs
    BY <1>1
  <2> QED
    BY <2>1, <2>2 DEF TruthRule
<1> QED
  BY <1>1, <1>2, <1>3, CircuitsOK DEF Bit

\* assign_raw: the data of the parties that see the slice, and the MACs and
\* keys of public data.
LEMMA AssignRawSound ==
  ASSUME Inv, SoundInv, NEW i \in Allocated, AssignRaw(InputSlice(i)) PROVE SoundInv'
<1> DEFINE S == InputSlice(i)
           U == S \cap view["p"].vis.public
           macs == [a \in U |-> MacPublic(Value[a])]
           keys == [a \in U |-> KeyPublic(Value[a])]
           v == view["v"]
           w == view'["v"]
<1>1. /\ data'["p"] \in {data["p"], TrySet(data["p"], S, Value)}
      /\ data'["v"] \in {data["v"], TrySet(data["v"], S, Value)}
      /\ auth'["p"] = TrySet(auth["p"], U, macs) /\ auth'["v"] = TrySet(auth["v"], U, keys)
      /\ auth' = [p \in Roles |-> auth'[p]]
      /\ w \in {v, Assign(v, S)}
      /\ UNCHANGED <<pc, ret, home, stack, calls, results, chunk, tasks, check, net, err, faults>>
  BY DEF AssignRaw, decodes, checking, control, messages, Roles
<1>2. \A a \in S : a \in Addresses /\ Truth[a] = Value[a] /\ Value[a] \in Bit
  BY InputTruth
<1>3. S \in Addr /\ v \in ViewType
  BY InputAddr DEF Inv, Pair
<1> HIDE DEF S
<1>4. /\ w.vis = v.vis /\ SameMemory(v, w) /\ w.committed = v.committed
      /\ w.executed = v.executed /\ w.flush = v.flush
  <2>1. CASE w = v
    BY <2>1 DEF SameMemory
  <2>2. CASE w = Assign(v, S)
    BY <1>3, <2>2, AssignFields
  <2> QED
    BY <1>1, <2>1, <2>2
<1>5. \A a \in U : a \in S /\ Lsb(macs[a]) = Truth[a] /\ Lsb(keys[a]) = 0
  <2>1. \A b \in Bit : Lsb(MacPublic(b)) = b /\ Lsb(KeyPublic(b)) = 0
    BY DEF Bit, Lsb, MacPublic, KeyPublic, SetLsb
  <2>2. \A a \in U : a \in S /\ macs[a] = MacPublic(Value[a]) /\ keys[a] = KeyPublic(Value[a])
    OBVIOUS
  <2> HIDE DEF macs, keys, U
  <2> QED
    BY <1>2, <2>1, <2>2
<1> HIDE DEF macs, keys, U, v, w
<1>6. ASSUME NEW D, NEW E, E \in {D, TrySet(D, S, Value)}
      PROVE  (RightBits(D) => RightBits(E)) /\ (DOMAIN D \subseteq Addresses => DOMAIN E \subseteq Addresses)
  <2>1. CASE E = D
    BY <2>1
  <2>2. CASE E = TrySet(D, S, Value)
    <3>1. /\ DOMAIN E = S \cup DOMAIN D /\ \A a \in S : E[a] = Value[a]
          /\ \A a \in DOMAIN D : a \notin S => E[a] = D[a]
      <4>1. Written(D, S, Value, E)
        BY <2>2, TrySetFacts
      <4> QED
        BY <4>1 DEF Written
    <3> QED
      BY <1>2, <3>1 DEF RightBits
  <2> QED
    BY <1>6, <2>1, <2>2
<1>7. /\ DOMAIN auth'["p"] = U \cup DOMAIN auth["p"] /\ \A a \in U : auth'["p"][a] = macs[a]
      /\ \A a \in DOMAIN auth["p"] : a \notin U => auth'["p"][a] = auth["p"][a]
  <2>1. Written(auth["p"], U, macs, auth'["p"])
    BY <1>1, TrySetFacts
  <2> QED
    BY <2>1 DEF Written
<1>8. /\ DOMAIN auth'["v"] = U \cup DOMAIN auth["v"] /\ \A a \in U : auth'["v"][a] = keys[a]
      /\ \A a \in DOMAIN auth["v"] : a \notin U => auth'["v"][a] = auth["v"][a]
  <2>1. Written(auth["v"], U, keys, auth'["v"])
    BY <1>1, TrySetFacts
  <2> QED
    BY <2>1 DEF Written
<1>9. ProverState'
  <2>1. Held(data'["p"], auth'["p"])
    BY <1>1, <1>2, <1>5, <1>6, <1>7 DEF SoundInv, ProverState, Held
  <2>2. Slotted(tasks'["p"], check'["p"], auth'["p"])
    <3>1. Slotted(tasks["p"], check["p"], auth["p"]) /\ DOMAIN auth["p"] \subseteq DOMAIN auth'["p"]
      BY <1>7 DEF SoundInv, ProverState
    <3>2. Slotted(tasks["p"], check["p"], auth'["p"])
      BY <3>1 DEF Slotted
    <3> QED
      BY <1>1, <3>2
  <2>3. RightMacs(auth["p"]) => RightMacs(auth'["p"])
    BY <1>5, <1>7 DEF RightMacs
  <2>4. RightBits(data["p"]) => RightBits(data'["p"])
    BY <1>1, <1>6
  <2> QED
    BY <1>1, <2>1, <2>2, <2>3, <2>4 DEF SoundInv, ProverState, Right
<1>10. VerifierState'
  <2>1. ViewRight(w)
    BY <1>4 DEF SoundInv, VerifierState, ViewRight, SameMemory, Opened, v
  <2>2. Adjusted(auth'["v"], w.flush.commit)
    BY <1>4, <1>5, <1>8 DEF SoundInv, VerifierState, Adjusted, v
  <2>3. Opened(w) = Opened(v)
    BY <1>4 DEF Opened
  <2>4. OpenCalls(w, chunk'["v"])
    BY <1>1, <2>3 DEF SoundInv, VerifierState, OpenCalls, v
  <2>5. OpenTasks(w, auth'["v"], tasks'["v"])
    BY <1>1, <1>8, <2>3 DEF SoundInv, VerifierState, OpenTasks, v
  <2>6. RightBits(data'["v"])
    BY <1>1, <1>6 DEF SoundInv, VerifierState
  <2> QED
    BY <1>1, <2>1, <2>2, <2>4, <2>5, <2>6 DEF SoundInv, VerifierState, w
<1>11. Shape' /\ Scheduled'
  <2>1. PerRole(auth')
    BY <1>1 DEF PerRole
  <2> QED
    BY <1>1, <2>1, ScheduledSame, ShapeSame DEF SoundInv, Shape
<1> QED
  BY <1>1, <1>9, <1>10, <1>11 DEF SoundInv

\* What decode futures resolve to is right if the data is.
LEMMA ResultsRight ==
  ASSUME NEW D, RightBits(D), NEW R, RightResults(R), NEW W, \A s \in W : s \subseteq DOMAIN D,
         NEW Q, Q = R \cup {<<s, [a \in s |-> D[a]]>> : s \in W}
  PROVE  RightResults(Q)
<1> SUFFICES ASSUME NEW r \in Q, NEW a \in r[1] PROVE r[2][a] = Truth[a]
  BY DEF RightResults
<1>1. CASE r \in R
  BY <1>1 DEF RightResults
<1>2. CASE r \notin R
  <2>1. PICK s \in W : r = <<s, [b \in s |-> D[b]]>>
    BY <1>2
  <2>2. a \in s /\ r[2][a] = D[a]
    BY <2>1
  <2> QED
    BY <2>1, <2>2 DEF RightBits
<1> QED
  BY <1>1, <1>2

\* decode_raw.
LEMMA DecodeRawSound ==
  ASSUME Inv, SoundInv, NEW S \in Addr, DecodeRaw(S) PROVE SoundInv'
<1> DEFINE v == view["v"]
           w == Decode(v, "v", S)
<1>1. /\ view'["v"] = w
      /\ results' = [p \in Roles |-> IF StoreIsSet(data[p], S)
                                     THEN results[p] \cup {<<S, [a \in S |-> data[p][a]]>>}
                                     ELSE results[p]]
      /\ UNCHANGED <<pc, ret, home, stack, calls, data, auth, chunk, tasks, check, net, err, faults>>
  BY DEF DecodeRaw, stores, checking, control, messages, Roles
<1>2. v \in ViewType /\ ViewRight(v)
  BY DEF Inv, Pair, SoundInv, VerifierState
<1>3. /\ SameMemory(v, w) /\ w.vis = v.vis /\ w.committed = v.committed /\ w.executed = v.executed
      /\ w.flush.commit = v.flush.commit
      /\ w.flush.prove = v.flush.prove \cup ((S \ v.decoded) \cap Hidden(v, "v") \cap v.committed)
                           \cup ((S \ v.decoded) \cap v.executed)
  BY <1>2, DecodeFields DEF Roles
<1> HIDE DEF w
<1>4. ViewRight(w) /\ Opened(w) = Opened(v)
  BY <1>2, <1>3 DEF ViewRight, SameMemory, Opened
<1>5. ASSUME NEW p \in Roles, RightBits(data[p]), RightResults(results[p])
      PROVE  RightResults(results'[p])
  <2>1. CASE StoreIsSet(data[p], S)
    <3> DEFINE Q == results[p] \cup {<<s, [a \in s |-> data[p][a]]>> : s \in {S}}
    <3>1. \A s \in {S} : s \subseteq DOMAIN data[p]
      BY <2>1 DEF StoreIsSet
    <3>2. RightResults(Q)
      BY <1>5, <3>1, ResultsRight
    <3>3. results'[p] = Q
      BY <1>1, <2>1
    <3> QED
      BY <3>2, <3>3
  <2>2. CASE ~StoreIsSet(data[p], S)
    BY <1>1, <1>5, <2>2
  <2> QED
    BY <2>1, <2>2
<1>6. ProverState'
  <2>1. faults = 0 => RightResults(results'["p"])
    <3>1. faults = 0 => RightBits(data["p"])
      BY DEF SoundInv, ProverState, Trusted, Right
    <3> QED
      BY <1>5, <3>1 DEF SoundInv, ProverState, Roles
  <2> QED
    BY <1>1, <2>1 DEF SoundInv, ProverState
<1>7. VerifierState'
  <2>1. Adjusted(auth'["v"], w.flush.commit)
    BY <1>1, <1>3 DEF SoundInv, VerifierState
  <2>2. OpenCalls(w, chunk'["v"]) /\ OpenTasks(w, auth'["v"], tasks'["v"])
    BY <1>1, <1>4 DEF SoundInv, VerifierState, OpenCalls, OpenTasks
  <2>3. RightResults(results'["v"])
    BY <1>5 DEF SoundInv, VerifierState, Roles
  <2> QED
    BY <1>1, <1>4, <2>1, <2>2, <2>3 DEF SoundInv, VerifierState
<1>8. Shape' /\ Scheduled'
  <2>1. PerRole(results')
    BY <1>1 DEF PerRole
  <2> QED
    BY <1>1, <2>1, ScheduledSame, ShapeSame DEF SoundInv, Shape
<1> QED
  BY <1>1, <1>6, <1>7, <1>8 DEF SoundInv
-----------------------------------------------------------------------------
(***************************************************************************)
(* What both machines do in flush and execute.                             *)
(***************************************************************************)

\* A flush returns to where there is something to do.
LEMMA ContinueFlow ==
  ASSUME SoundInv, NEW p \in Roles, pc[p] \in {"flush", "commit", "sync"}, NEW w, Continue(p, w)
  PROVE  /\ PerRole(pc') /\ \A q \in Roles : Flow(pc'[q], ret[q], home[q], chunk[q])
         /\ Between(pc'["p"], check["p"], tasks["p"])
<1> DEFINE l == IF ViewWantsFlush(w) THEN "sync" ELSE ret[p]
<1>1. pc' = Sets(pc, p, l)
  BY DEF Continue, Goto, Sets
<1>2. l \in {"sync", ret[p]}
  OBVIOUS
<1> HIDE DEF l
<1>3. PerRole(pc') /\ pc'[p] = l /\ \A q \in Roles : q # p => pc'[q] = pc[q]
  BY <1>1, PerRoleExcept DEF SoundInv, Shape, Only
<1>4. ASSUME NEW q \in Roles PROVE Flow(pc'[q], ret[q], home[q], chunk[q])
  <2>1. Flow(pc[q], ret[q], home[q], chunk[q])
    BY DEF SoundInv, Scheduled
  <2>2. CASE q = p
    BY <1>2, <1>3, <2>1, <2>2 DEF Flow
  <2>3. CASE q # p
    BY <1>3, <2>1, <2>3
  <2> QED
    BY <2>2, <2>3
<1>5. Between(pc'["p"], check["p"], tasks["p"])
  <2>1. Between(pc["p"], check["p"], tasks["p"])
    BY DEF SoundInv, Scheduled
  <2>2. CASE p = "p"
    BY <2>1, <2>2 DEF Between
  <2>3. CASE p # "p"
    BY <1>3, <2>1, <2>3 DEF Roles
  <2> QED
    BY <2>2, <2>3
<1> QED
  BY <1>3, <1>4, <1>5

\* set_macs and set_keys.
LEMMA SetAuthSound ==
  ASSUME Inv, SoundInv, NEW p \in Roles, SetAuth(p) PROVE SoundInv'
<1>1. CASE Fail(p)
  BY <1>1, FailSound
<1>2. CASE ~Fail(p)
  <2> DEFINE S == view[p].flush.commit
             ots == Spread(S, OtTaken(ot[p], Cardinality(S)))
             new == [a \in S |-> IF p = "p" THEN SetLsb(RcotMac(ots[a]), data[p][a])
                                            ELSE RcotKey(ots[a])]
  <2>1. /\ pc[p] \in {"flush", "commit"} /\ Continue(p, view[p])
        /\ auth' = Sets(auth, p, TrySet(auth[p], S, new))
        /\ UNCHANGED <<view, data, results, stack, check, ret, home, chunk, tasks, net, err,
                       calls, faults>>
    BY <1>2 DEF SetAuth, Sets, decodes, checking, control, messages
  <2>2. p = "p" => \A a \in S : \E m : new[a] = SetLsb(m, data["p"][a])
    OBVIOUS
  <2> HIDE DEF new, S
  <2>3. /\ PerRole(pc') /\ \A q \in Roles : Flow(pc'[q], ret[q], home[q], chunk[q])
        /\ Between(pc'["p"], check["p"], tasks["p"])
    BY <2>1, ContinueFlow
  <2>4. /\ PerRole(auth') /\ auth'[p] = TrySet(auth[p], S, new)
        /\ \A q \in Roles : q # p => auth'[q] = auth[q]
    BY <2>1, PerRoleExcept DEF SoundInv, Shape, Only
  <2>5. Written(auth[p], S, new, auth'[p])
    BY <2>4, TrySetFacts
  <2>6. Shape' /\ Scheduled'
    <3>1. Shape'
      BY <2>1, <2>3, <2>4, ShapeSame DEF SoundInv, Shape
    <3> QED
      BY <2>1, <2>3, <3>1 DEF SoundInv, Scheduled
  <2>7. ProverState'
    <3>1. CASE p = "p"
      <4>1. S \subseteq DOMAIN data["p"]
        BY <3>1 DEF Inv, Pair, ProverInv, S
      <4>2. Held(data["p"], auth["p"]) /\ Slotted(tasks["p"], check["p"], auth["p"])
        BY DEF SoundInv, ProverState
      <4>3. Held(data["p"], auth'["p"])
        BY <2>5, <3>1, <4>1, <4>2 DEF Held, Written
      <4>4. DOMAIN auth["p"] \subseteq DOMAIN auth'["p"]
        BY <2>5, <3>1 DEF Written
      <4>5. Slotted(tasks["p"], check["p"], auth'["p"])
        BY <4>2, <4>4 DEF Slotted
      <4>6. ASSUME RightMacs(auth["p"]), RightBits(data["p"]) PROVE RightMacs(auth'["p"])
        <5>1. ASSUME NEW a \in S PROVE Lsb(auth'["p"][a]) = Truth[a]
          <6>1. a \in Addresses /\ data["p"][a] = Truth[a]
            BY <4>1, <4>2, <4>6 DEF Held, RightBits
          <6>2. data["p"][a] \in Bit
            BY <6>1, TruthBit
          <6>3. PICK m : new[a] = SetLsb(m, data["p"][a])
            BY <2>2, <3>1
          <6>4. Lsb(new[a]) = data["p"][a]
            BY <6>2, <6>3, BitFacts
          <6> QED
            BY <2>5, <3>1, <6>1, <6>4 DEF Written
        <5> QED
          BY <2>5, <3>1, <4>6, <5>1 DEF RightMacs, Written
      <4> QED
        BY <2>1, <4>3, <4>5, <4>6 DEF SoundInv, ProverState, Right
    <3>2. CASE p # "p"
      BY <2>1, <2>4, <3>2, ProverStateSame DEF SoundInv, Roles
    <3> QED
      BY <3>1, <3>2
  <2>8. VerifierState'
    <3>1. CASE p = "v"
      <4>1. Adjusted(auth'["v"], view["v"].flush.commit)
        BY <2>5, <3>1 DEF SoundInv, VerifierState, Adjusted, Written, S
      <4>2. OpenTasks(view["v"], auth'["v"], tasks["v"])
        BY <2>5, <3>1 DEF SoundInv, VerifierState, OpenTasks, Written
      <4> QED
        BY <2>1, <4>1, <4>2 DEF SoundInv, VerifierState
    <3>2. CASE p # "v"
      BY <2>1, <2>4, <3>2, VerifierStateSame DEF SoundInv, Roles
    <3> QED
      BY <3>1, <3>2
  <2> QED
    BY <2>1, <2>6, <2>7, <2>8 DEF SoundInv
<1> QED
  BY <1>1, <1>2

\* Where execute goes after a batch or a check.
LEMMA AfterBatchFlow ==
  ASSUME SoundInv, NEW p \in Roles, NEW l,
         \/ l = "check"
         \/ l = AfterCheck(p) /\ (p = "p" /\ chunk[p] = << >> => check'["p"] = << >>),
         Goto(p, l), UNCHANGED <<ret, home, chunk, stack, calls>>,
         p # "p" => check'["p"] = check["p"] /\ tasks'["p"] = tasks["p"],
         p = "p" => DOMAIN tasks'["p"] = {},
         \A q \in Roles : tasks'[q] = tasks[q] \/ DOMAIN tasks'[q] = {}
  PROVE  PerRole(pc') /\ Scheduled'
<1>1. pc' = Sets(pc, p, l)
  BY DEF Goto, Sets
<1>2. PerRole(pc') /\ pc'[p] = l /\ \A q \in Roles : q # p => pc'[q] = pc[q]
  BY <1>1, PerRoleExcept DEF SoundInv, Shape, Only
<1>3. ASSUME NEW q \in Roles PROVE Flow(pc'[q], ret'[q], home'[q], chunk'[q])
  <2>1. Flow(pc[q], ret[q], home[q], chunk[q])
    BY DEF SoundInv, Scheduled
  <2>2. CASE q = p
    <3>1. l = "check" \/ (l = "batch" /\ chunk[p] # << >>) \/ l = home[p]
      BY DEF AfterCheck
    <3> QED
      BY <1>2, <2>1, <2>2, <3>1 DEF Flow
  <2>3. CASE q # p
    BY <1>2, <2>1, <2>3
  <2> QED
    BY <2>2, <2>3
<1>4. Between(pc'["p"], check'["p"], tasks'["p"])
  <2>1. CASE p = "p"
    <3>1. l \in {"check", "batch"} \/ check'["p"] = << >>
      BY <2>1 DEF AfterCheck
    <3> QED
      BY <1>2, <2>1, <3>1 DEF Between
  <2>2. CASE p # "p"
    BY <1>2, <2>2 DEF SoundInv, Scheduled, Roles
  <2> QED
    BY <2>1, <2>2
<1>5. ASSUME NEW q \in Roles PROVE Staged(stack'[q], chunk'[q], tasks'[q])
  BY DEF SoundInv, Scheduled, Staged
<1> QED
  BY <1>2, <1>3, <1>4, <1>5 DEF SoundInv, Scheduled

\* set_output_macs and set_output_keys.
LEMMA EndBatchSound ==
  ASSUME Inv, SoundInv, NEW p \in Roles, EndBatch(p) PROVE SoundInv'
<1>1. CASE Fail(p)
  BY <1>1, FailSound
<1>2. CASE ~Fail(p)
  <2> DEFINE S == {Out(k) : k \in DOMAIN tasks[p]}
             outs == [a \in S |-> tasks[p][a - NumInputs + 1].out[1]]
             l == IF WantsCheck(p) THEN "check" ELSE AfterCheck(p)
             T == tasks[p]
             v == view["v"]
             w == SetOutput(v, S)
  <2>1. /\ \A k \in DOMAIN T : T[k].out # << >>
        /\ S \subseteq view[p].outputs
        /\ view' = [view EXCEPT ![p] = SetOutput(@, S)]
        /\ auth' = Sets(auth, p, TrySet(auth[p], S, outs))
        /\ data' = IF p = "v" THEN data
                   ELSE [data EXCEPT !["p"] = TrySet(@, S, [a \in S |-> Lsb(outs[a])])]
        /\ tasks' = Sets(tasks, p, EmptyStore) /\ Goto(p, l)
        /\ UNCHANGED <<results, stack, check, ret, home, chunk, net, err, calls, faults>>
    BY <1>2 DEF EndBatch, Sets, decodes, checking, messages
  <2>2. DOMAIN T \subseteq DOMAIN Circuits
    BY DEF SoundInv, Scheduled, Staged
  <2>3. ASSUME NEW k \in DOMAIN T
        PROVE  Out(k) \in S /\ Out(k) \in Addresses /\ outs[Out(k)] = T[k].out[1]
    <3>1. Out(k) \in Addresses /\ Out(k) - NumInputs + 1 = k
      BY <2>2, AddressFacts
    <3>2. Out(k) \in S
      OBVIOUS
    <3>3. outs[Out(k)] = T[Out(k) - NumInputs + 1].out[1]
      BY <3>2
    <3> QED
      BY <3>1, <3>2, <3>3
  <2>4. \A a \in S : \E k \in DOMAIN T : a = Out(k) /\ a \in Addresses /\ outs[a] = T[k].out[1]
    BY <2>3
  <2> DEFINE bits == [a \in S |-> Lsb(outs[a])]
  <2>5. \A a \in S : bits[a] = Lsb(outs[a])
    OBVIOUS
  <2>6. p = "p" => view'["v"] = v /\ data'["v"] = data["v"] /\ data'["p"] = TrySet(data["p"], S, bits)
    <3>1. view = [q \in Roles |-> view[q]] /\ data = [q \in Roles |-> data[q]]
      BY DEF Inv, TypeOK
    <3>2. "p" \in DOMAIN data
      BY <3>1 DEF Roles
    <3> QED
      BY <2>1, <3>2
  <2>7. p = "v" => view'["v"] = w /\ data' = data /\ S \subseteq v.outputs
    <3>1. view = [q \in Roles |-> view[q]]
      BY DEF Inv, TypeOK
    <3>2. "v" \in DOMAIN view
      BY <3>1 DEF Roles
    <3> QED
      BY <2>1, <3>2
  <2>8. l = "check" \/ (l = AfterCheck(p) /\ (p = "p" /\ chunk[p] = << >> => check["p"] = << >>))
    <3>1. CASE WantsCheck(p)
      BY <3>1
    <3>2. CASE ~WantsCheck(p)
      <4>1. chunk[p] = << >> => check[p] = << >>
        BY <3>2 DEF WantsCheck
      <4>2. l = AfterCheck(p)
        BY <3>2
      <4> QED
        BY <4>1, <4>2
    <3> QED
      BY <3>1, <3>2
  <2> HIDE DEF S, outs, bits, l, w
  <2>9. PerRole(auth') /\ auth'[p] = TrySet(auth[p], S, outs) /\ \A q \in Roles : q # p => auth'[q] = auth[q]
    BY <2>1, PerRoleExcept DEF SoundInv, Shape, Only
  <2>10. Written(auth[p], S, outs, auth'[p])
    BY <2>9, TrySetFacts
  <2>11. PerRole(tasks') /\ tasks'[p] = EmptyStore /\ \A q \in Roles : q # p => tasks'[q] = tasks[q]
    BY <2>1, PerRoleExcept DEF SoundInv, Shape, Only
  <2>12. DOMAIN EmptyStore = {}
    BY DEF EmptyStore
  <2>13. PerRole(pc') /\ Scheduled'
    <3>1. \A q \in Roles : tasks'[q] = tasks[q] \/ DOMAIN tasks'[q] = {}
      BY <2>11, <2>12
    <3>2. p # "p" => check'["p"] = check["p"] /\ tasks'["p"] = tasks["p"]
      BY <2>1, <2>11 DEF Roles
    <3>3. p = "p" => DOMAIN tasks'["p"] = {}
      BY <2>11, <2>12
    <3>4. l = "check" \/ (l = AfterCheck(p) /\ (p = "p" /\ chunk[p] = << >> => check'["p"] = << >>))
      BY <2>1, <2>8
    <3>5. Goto(p, l) /\ UNCHANGED <<ret, home, chunk, stack, calls>>
      BY <2>1
    <3> QED
      BY <3>1, <3>2, <3>3, <3>4, <3>5, AfterBatchFlow
  <2>14. Shape'
    BY <2>1, <2>9, <2>11, <2>13, ShapeSame DEF SoundInv, Shape
  <2>15. ProverState'
    <3>1. CASE p = "p"
      <4>1. Written(data["p"], S, bits, data'["p"])
        BY <2>6, <3>1, TrySetFacts
      <4>2. Held(data'["p"], auth'["p"])
        BY <2>4, <2>10, <3>1, <4>1 DEF SoundInv, ProverState, Held, Written
      <4>3. Slotted(tasks'["p"], check'["p"], auth'["p"])
        BY <2>1, <2>11, <2>12, <3>1 DEF SoundInv, ProverState, Slotted
      <4>4. ASSUME Right(auth["p"], data["p"], tasks["p"])
            PROVE  Right(auth'["p"], data'["p"], tasks'["p"])
        <5>1. \A a \in S : Lsb(outs[a]) = Truth[a]
          BY <2>1, <2>4, <3>1, <4>4 DEF Right, RightTasks
        <5>2. RightMacs(auth'["p"])
          BY <2>10, <3>1, <4>4, <5>1 DEF Right, RightMacs, Written
        <5>3. RightBits(data'["p"])
          BY <2>5, <4>1, <4>4, <5>1 DEF Right, RightBits, Written
        <5>4. RightTasks(tasks'["p"])
          BY <2>11, <2>12, <3>1 DEF RightTasks
        <5> QED
          BY <5>2, <5>3, <5>4 DEF Right
      <4> QED
        BY <2>1, <4>2, <4>3, <4>4 DEF SoundInv, ProverState
    <3>2. CASE p = "v"
      BY <2>1, <2>7, <2>9, <2>11, <3>2, ProverStateSame DEF SoundInv, Roles
    <3> QED
      BY <3>1, <3>2 DEF Roles
  <2>16. VerifierState'
    <3>1. CASE p = "v"
      <4>1. v \in ViewType /\ ViewInv(v) /\ ViewRight(v)
        BY DEF Inv, Pair, SoundInv, VerifierState
      <4>2. S \in Addr
        <5>1. \A a \in S : a \in Int
          BY <2>4 DEF Addresses
        <5> QED
          BY <5>1 DEF Addr
      <4>3. /\ SameMemory(v, w) /\ w.vis = v.vis /\ w.committed = v.committed
            /\ w.executed = v.executed \cup S /\ w.flush.commit = v.flush.commit
            /\ w.flush.prove = v.flush.prove \cup (S \cap v.decode)
        BY <4>1, <4>2, OutputFields DEF w
      <4>4. S \cap v.flush.commit = {}
        BY <2>7, <3>1, <4>1 DEF ViewInv, ViewRight
      <4>5. ViewRight(w) /\ Opened(v) \subseteq Opened(w)
        BY <4>1, <4>3, <4>4 DEF ViewRight, SameMemory, Opened
      <4>6. \A a \in S : Lsb(outs[a]) = 0
        BY <2>1, <2>4, <3>1 DEF SoundInv, VerifierState, OpenTasks
      <4>7. Adjusted(auth'["v"], w.flush.commit)
        BY <2>10, <3>1, <4>3, <4>6 DEF SoundInv, VerifierState, Adjusted, Written
      <4>8. OpenCalls(w, chunk'["v"])
        BY <2>1, <4>5 DEF SoundInv, VerifierState, OpenCalls
      <4>9. OpenTasks(w, auth'["v"], tasks'["v"])
        BY <2>11, <2>12, <3>1 DEF OpenTasks
      <4> QED
        BY <2>1, <2>7, <3>1, <4>5, <4>7, <4>8, <4>9 DEF SoundInv, VerifierState
    <3>2. CASE p = "p"
      BY <2>1, <2>6, <2>9, <2>11, <3>2, VerifierStateSame DEF SoundInv, Roles
    <3> QED
      BY <3>1, <3>2 DEF Roles
  <2> QED
    BY <2>1, <2>13, <2>14, <2>15, <2>16 DEF SoundInv
<1> QED
  BY <1>1, <1>2

\* A batch is a beginning of the chunk.
LEMMA BatchLenFacts ==
  ASSUME NEW p \in Roles, chunk[p] \in Seq(DOMAIN Circuits), chunk[p] # << >>
  PROVE  BatchLen(p) \in 1 .. Len(chunk[p])
<1>1. Len(chunk[p]) \in Nat /\ Len(chunk[p]) > 0
  OBVIOUS
<1>2. BatchEnds(p) \in SUBSET Nat /\ BatchEnds(p) # {} /\ BatchEnds(p) \subseteq 1 .. Len(chunk[p])
  <2>1. Len(chunk[p]) \in 1 .. Len(chunk[p])
    BY <1>1
  <2>2. Len(chunk[p]) \in BatchEnds(p)
    BY <2>1 DEF BatchEnds
  <2>3. BatchEnds(p) \subseteq 1 .. Len(chunk[p])
    BY DEF BatchEnds
  <2> QED
    BY <1>1, <2>2, <2>3
<1>3. PICK n \in BatchEnds(p) : \A m \in BatchEnds(p) : ~(m < n)
  BY <1>2, LeastNumber
<1>4. \A m \in BatchEnds(p) : n <= m
  BY <1>2, <1>3
<1>5. BatchLen(p) \in BatchEnds(p)
  BY <1>4 DEF BatchLen
<1> QED
  BY <1>2, <1>5

\* The AND gates of the calls of a batch before call k.
Before(seq, k) == SumAnds(SubSeq(seq, 1, (CHOOSE i \in DOMAIN seq : seq[i] = k) - 1))

\* Every call of a batch reserves triples of its own.
LEMMA PlanFacts ==
  ASSUME NEW p \in Roles, NEW seq \in Seq(DOMAIN Circuits), NEW P, P = Plan(p, seq)
  PROVE  /\ DOMAIN P = {seq[i] : i \in 1 .. Len(seq)} /\ DOMAIN P \subseteq DOMAIN Circuits
         /\ SumAnds(seq) \in Nat
         /\ \A k \in DOMAIN P :
              /\ IsTask(P[k]) /\ P[k].out = << >> /\ P[k].idx = Len(check[p]) + Before(seq, k)
              /\ Before(seq, k) \in Nat /\ Ands(k) \in Nat /\ Before(seq, k) + Ands(k) <= SumAnds(seq)
         /\ \A j, k \in DOMAIN P : j # k =>
              \/ Before(seq, j) + Ands(j) <= Before(seq, k)
              \/ Before(seq, k) + Ands(k) <= Before(seq, j)
<1> DEFINE pos(k) == CHOOSE i \in DOMAIN seq : seq[i] = k
<1>1. Len(seq) \in Nat /\ DOMAIN seq = 1 .. Len(seq) /\ \A i \in 1 .. Len(seq) : seq[i] \in DOMAIN Circuits
  OBVIOUS
<1>2. DOMAIN P = {seq[i] : i \in 1 .. Len(seq)} /\ DOMAIN P \subseteq DOMAIN Circuits
  BY <1>1 DEF Plan
<1>3. ASSUME NEW k \in DOMAIN P
      PROVE  /\ IsTask(P[k]) /\ P[k].out = << >> /\ P[k].idx = Len(check[p]) + Before(seq, k)
  <2>1. P[k] = [ots |-> Spread(AndGates(Circuits[k].gates),
                               OtTaken(OtTake(ot[p], Before(seq, k)), Ands(k))),
                idx |-> Len(check[p]) + Before(seq, k), out |-> << >>]
    BY DEF Plan, Before
  <2> QED
    BY <2>1 DEF IsTask
<1>4. ASSUME NEW k \in DOMAIN P
      PROVE  /\ pos(k) \in 1 .. Len(seq) /\ seq[pos(k)] = k
             /\ Before(seq, k) = SumAnds(SubSeq(seq, 1, pos(k) - 1))
  <2>1. \E i \in DOMAIN seq : seq[i] = k
    BY <1>1, <1>2
  <2> QED
    BY <1>1, <2>1 DEF Before
<1> HIDE DEF pos
<1>5. SumAnds(seq) \in Nat
  BY BatchSums
<1>6. ASSUME NEW k \in DOMAIN P
      PROVE  Before(seq, k) \in Nat /\ Ands(k) \in Nat /\ Before(seq, k) + Ands(k) <= SumAnds(seq)
  BY <1>2, <1>4, AndsNat, BatchSums
<1>7. ASSUME NEW j \in DOMAIN P, NEW k \in DOMAIN P, pos(j) < pos(k)
      PROVE  Before(seq, j) + Ands(j) <= Before(seq, k)
  BY <1>4, <1>7, BatchSums
<1>8. ASSUME NEW j \in DOMAIN P, NEW k \in DOMAIN P, j # k
      PROVE  \/ Before(seq, j) + Ands(j) <= Before(seq, k)
             \/ Before(seq, k) + Ands(k) <= Before(seq, j)
  <2>1. pos(j) \in Nat /\ pos(k) \in Nat /\ pos(j) # pos(k)
    BY <1>4, <1>8
  <2>2. pos(j) < pos(k) \/ pos(k) < pos(j)
    BY <2>1
  <2> QED
    BY <1>7, <2>2
<1> QED
  BY <1>2, <1>3, <1>5, <1>6, <1>8

\* What is reserved for a batch shows nothing.
LEMMA NothingYet == ~Wrong(NoTriple)
<1>1. NoTriple.x = {-1} /\ NoTriple.y = {-1} /\ NoTriple.z = {-1}
  BY DEF NoTriple, Triple, MacPublic
<1>2. Lsb({-1}) = 0
  BY DEF Lsb
<1> QED
  BY <1>1, <1>2 DEF Wrong

\* Check::reserve and Context::map over a batch.
LEMMA StartBatchSound ==
  ASSUME SoundInv, NEW p \in Roles, StartBatch(p) PROVE SoundInv'
<1>1. CASE Fail(p)
  BY <1>1, FailSound
<1>2. CASE ~Fail(p)
  <2> DEFINE n == BatchLen(p)
             seq == SubSeq(chunk[p], 1, n)
             P == Plan(p, seq)
             m == SumAnds(seq)
             blank == [i \in 1 .. m |-> NoTriple]
             rest == SubSeq(chunk[p], n + 1, Len(chunk[p]))
  <2>1. /\ \A i \in DOMAIN seq : InputsSet(p, seq[i])
        /\ pc[p] = "batch" /\ Goto(p, "tasks")
        /\ tasks' = Sets(tasks, p, P) /\ check' = Sets(check, p, check[p] \o blank)
        /\ chunk' = Sets(chunk, p, rest)
        /\ UNCHANGED <<view, data, auth, results, stack, ret, home, net, err, calls, faults>>
    BY <1>2 DEF StartBatch, Sets, stores, decodes, messages
  <2>2. Flow(pc[p], ret[p], home[p], chunk[p]) /\ Staged(stack[p], chunk[p], tasks[p])
    BY DEF SoundInv, Scheduled
  <2>3. chunk[p] \in Seq(DOMAIN Circuits) /\ chunk[p] # << >> /\ Len(chunk[p]) \in Nat
    BY <2>1, <2>2 DEF Flow, Staged
  <2>4. n \in 1 .. Len(chunk[p])
    BY <2>3, BatchLenFacts
  <2> HIDE DEF n
  <2>5. /\ seq \in Seq(DOMAIN Circuits) /\ Len(seq) = n
        /\ \A i \in 1 .. n : seq[i] = chunk[p][i]
    BY <2>3, <2>4
  <2>6. /\ rest \in Seq(DOMAIN Circuits) /\ Len(rest) = Len(chunk[p]) - n
        /\ \A i \in 1 .. Len(chunk[p]) - n : rest[i] = chunk[p][n + i]
    BY <2>3, <2>4
  <2> HIDE DEF seq, rest
  <2>7. /\ DOMAIN P = {seq[i] : i \in 1 .. Len(seq)} /\ DOMAIN P \subseteq DOMAIN Circuits
        /\ m \in Nat
        /\ \A k \in DOMAIN P :
             /\ IsTask(P[k]) /\ P[k].out = << >> /\ P[k].idx = Len(check[p]) + Before(seq, k)
             /\ Before(seq, k) \in Nat /\ Ands(k) \in Nat /\ Before(seq, k) + Ands(k) <= m
        /\ \A j, k \in DOMAIN P : j # k =>
             \/ Before(seq, j) + Ands(j) <= Before(seq, k)
             \/ Before(seq, k) + Ands(k) <= Before(seq, j)
    BY <2>5, PlanFacts
  <2> HIDE DEF P, m
  <2>8. IsQueue(blank) /\ Len(blank) = m /\ \A i \in 1 .. m : blank[i] = NoTriple
    <3>1. blank \in Seq({NoTriple}) /\ Len(blank) = m
      BY <2>7
    <3>2. IsQueue(blank)
      BY <3>1, QueueOf
    <3> QED
      BY <3>1, <3>2
  <2> HIDE DEF blank
  <2>9. /\ PerRole(pc') /\ pc'[p] = "tasks" /\ \A q \in Roles : q # p => pc'[q] = pc[q]
    <3>1. pc' = Sets(pc, p, "tasks")
      BY <2>1 DEF Goto, Sets
    <3> QED
      BY <3>1, PerRoleExcept DEF SoundInv, Shape, Only
  <2>10. PerRole(tasks') /\ tasks'[p] = P /\ \A q \in Roles : q # p => tasks'[q] = tasks[q]
    BY <2>1, PerRoleExcept DEF SoundInv, Shape, Only
  <2>11. PerRole(check') /\ check'[p] = check[p] \o blank /\ \A q \in Roles : q # p => check'[q] = check[q]
    <3> DEFINE more == check[p] \o blank
    <3>1. check' = Sets(check, p, more)
      BY <2>1
    <3> HIDE DEF more
    <3>2. PerRole(check') /\ check'[p] = more /\ \A q \in Roles : q # p => check'[q] = check[q]
      BY <3>1, PerRoleExcept DEF SoundInv, Shape, Only
    <3> QED
      BY <3>2 DEF more
  <2>12. PerRole(chunk') /\ chunk'[p] = rest /\ \A q \in Roles : q # p => chunk'[q] = chunk[q]
    BY <2>1, PerRoleExcept DEF SoundInv, Shape, Only
  <2>13. Scheduled'
    <3>1. ASSUME NEW q \in Roles
          PROVE  Flow(pc'[q], ret'[q], home'[q], chunk'[q]) /\ Staged(stack'[q], chunk'[q], tasks'[q])
      <4>1. Flow(pc[q], ret[q], home[q], chunk[q]) /\ Staged(stack[q], chunk[q], tasks[q])
        BY DEF SoundInv, Scheduled
      <4>2. CASE q = p
        <5>1. Flow("tasks", ret[p], home[p], rest)
          BY <2>2 DEF Flow
        <5>2. Staged(stack[p], rest, P)
          BY <2>2, <2>6, <2>7 DEF Staged
        <5> QED
          BY <2>1, <2>9, <2>10, <2>12, <4>2, <5>1, <5>2
      <4>3. CASE q # p
        BY <2>1, <2>9, <2>10, <2>12, <4>1, <4>3
      <4> QED
        BY <4>2, <4>3
    <3>2. Between(pc'["p"], check'["p"], tasks'["p"])
      <4>1. CASE p = "p"
        BY <2>9, <4>1 DEF Between
      <4>2. CASE p # "p"
        BY <2>9, <2>10, <2>11, <4>2 DEF SoundInv, Scheduled, Roles
      <4> QED
        BY <4>1, <4>2
    <3> QED
      BY <2>1, <3>1, <3>2 DEF SoundInv, Scheduled
  <2>14. Shape'
    BY <2>1, <2>9, <2>10, <2>11, <2>12, ShapeSame DEF SoundInv, Shape
  <2>15. \A k \in DOMAIN P : \E i \in 1 .. n : k = chunk[p][i] /\ Needs(k) \subseteq DOMAIN auth[p]
    <3>1. ASSUME NEW i \in 1 .. n PROVE Needs(seq[i]) \subseteq DOMAIN auth[p]
      <4>1. InputsSet(p, seq[i])
        BY <2>1, <2>5
      <4> QED
        BY <4>1 DEF InputsSet, Needs
    <3> QED
      BY <2>5, <2>7, <3>1
  <2>16. ProverState'
    <3>1. CASE p = "p"
      <4> DEFINE c == check["p"]
      <4>1. IsQueue(c)
        BY DEF SoundInv, ProverState, Slotted
      <4>2. /\ IsQueue(check'["p"]) /\ Len(check'["p"]) = Len(c) + m /\ Len(c) \in Nat
            /\ \A i \in 1 .. Len(c) : check'["p"][i] = c[i]
            /\ \A i \in 1 .. m : check'["p"][Len(c) + i] = NoTriple
        <5>1. check'["p"] = c \o blank
          BY <2>11, <3>1
        <5>2. Joined(c, blank, check'["p"])
          BY <2>8, <4>1, <5>1, QueueConcat
        <5>3. Len(c) \in Nat
          BY <4>1, QueueFacts
        <5> HIDE DEF c
        <5> QED
          BY <2>8, <5>2, <5>3 DEF Joined
      <4> HIDE DEF c
      <4>3. ASSUME NEW k \in DOMAIN P
            PROVE  /\ P[k].idx \in Nat /\ P[k].idx + Ands(k) <= Len(check'["p"])
                   /\ Needs(k) \subseteq DOMAIN auth["p"]
                   /\ \A i \in Slots(P[k], Ands(k)) : ~Wrong(check'["p"][i])
        <5>1. /\ P[k].idx = Len(c) + Before(seq, k) /\ Before(seq, k) \in Nat /\ Ands(k) \in Nat
              /\ Before(seq, k) + Ands(k) <= m
          BY <2>7, <3>1 DEF c
        <5>2. ASSUME NEW i \in Slots(P[k], Ands(k)) PROVE ~Wrong(check'["p"][i])
          <6>1. i - Len(c) \in 1 .. m /\ i = Len(c) + (i - Len(c))
            BY <2>7, <4>2, <5>1 DEF Slots
          <6> QED
            BY <4>2, <6>1, NothingYet
        <5>3. Needs(k) \subseteq DOMAIN auth["p"]
          BY <2>15, <3>1
        <5>4. P[k].idx \in Nat /\ P[k].idx + Ands(k) <= Len(check'["p"])
          BY <2>7, <4>2, <5>1
        <5> QED
          BY <5>2, <5>3, <5>4
      <4>4. ASSUME NEW j \in DOMAIN P, NEW k \in DOMAIN P, j # k
            PROVE  Slots(P[j], Ands(j)) \cap Slots(P[k], Ands(k)) = {}
        <5>1. /\ P[j].idx = Len(c) + Before(seq, j) /\ Before(seq, j) \in Nat /\ Ands(j) \in Nat
              /\ P[k].idx = Len(c) + Before(seq, k) /\ Before(seq, k) \in Nat /\ Ands(k) \in Nat
          BY <2>7, <3>1 DEF c
        <5>2. \/ Before(seq, j) + Ands(j) <= Before(seq, k)
              \/ Before(seq, k) + Ands(k) <= Before(seq, j)
          BY <2>7, <4>4
        <5> QED
          BY <4>2, <5>1, <5>2 DEF Slots
      <4>5. Slotted(P, check'["p"], auth["p"])
        BY <4>2, <4>3, <4>4 DEF Slotted
      <4>6. Trusted(faults', err'["v"], check'["p"], net'["v"]) => Trusted(faults, err["v"], c, net["v"])
        <5>1. \A i \in 1 .. Len(c) : i \in 1 .. Len(check'["p"])
          BY <2>7, <4>2
        <5>2. WrongIn(c) => WrongIn(check'["p"])
          BY <4>2, <5>1 DEF WrongIn
        <5> QED
          BY <2>1, <5>2 DEF Trusted
      <4>7. RightTasks(P)
        BY <2>7 DEF RightTasks
      <4> QED
        BY <2>1, <2>10, <3>1, <4>5, <4>6, <4>7 DEF SoundInv, ProverState, Right, c
    <3>2. CASE p # "p"
      BY <2>1, <2>10, <2>11, <3>2, ProverStateSame DEF SoundInv, Roles
    <3> QED
      BY <3>1, <3>2
  <2>17. VerifierState'
    <3>1. CASE p = "v"
      <4>1. OpenCalls(view["v"], chunk["v"])
        BY DEF SoundInv, VerifierState
      <4>2. OpenCalls(view["v"], rest)
        <5>1. \A i \in 1 .. Len(chunk["v"]) - n : n + i \in 1 .. Len(chunk["v"])
          BY <2>3, <2>4, <3>1
        <5> QED
          BY <2>6, <3>1, <4>1, <5>1 DEF OpenCalls
      <4>3. OpenTasks(view["v"], auth["v"], P)
        <5>1. \A i \in 1 .. n : i \in 1 .. Len(chunk["v"])
          BY <2>3, <2>4, <3>1
        <5> QED
          BY <2>7, <2>15, <3>1, <4>1, <5>1 DEF OpenCalls, OpenTasks
      <4> QED
        BY <2>1, <2>10, <2>12, <3>1, <4>2, <4>3 DEF SoundInv, VerifierState
    <3>2. CASE p # "v"
      BY <2>1, <2>10, <2>12, <3>2, VerifierStateSame DEF SoundInv, Roles
    <3> QED
      BY <3>1, <3>2
  <2> QED
    BY <2>1, <2>13, <2>14, <2>16, <2>17 DEF SoundInv
<1> QED
  BY <1>1, <1>2
-----------------------------------------------------------------------------
(***************************************************************************)
(* Flush messages and checks.                                              *)
(***************************************************************************)

\* A message is sent: what was caught stays so, and a flush message is right
\* unless something was caught before it.
LEMMA SendFacts ==
  ASSUME NEW q, NEW failed, Messages(q, failed), NEW m, NEW s, Appended(q, m, s),
         failed \/ (m.kind = "flush" /\ NoneCaught(q, Len(q)) => RightProof(m))
  PROVE  /\ Messages(s, failed)
         /\ NoneCaught(s, Len(s)) => NoneCaught(q, Len(q)) /\ ~Caught(m)
<1>1. IsQueue(q) /\ Len(q) \in Nat
  BY QueueFacts DEF Messages
<1>2. /\ IsQueue(s) /\ Len(s) = Len(q) + 1 /\ \A i \in 1 .. Len(q) : s[i] = q[i]
      /\ s[Len(q) + 1] = m
  BY DEF Appended
<1>3. ASSUME NEW n \in 0 .. Len(q) PROVE NoneCaught(s, n) <=> NoneCaught(q, n)
  <2>1. \A i \in 1 .. n : i \in 1 .. Len(q)
    BY <1>1
  <2> QED
    BY <1>2, <2>1 DEF NoneCaught
<1>4. NoneCaught(s, Len(s)) => NoneCaught(q, Len(q)) /\ ~Caught(m)
  <2>1. Len(s) \in 1 .. Len(s) /\ \A i \in 1 .. Len(q) : i \in 1 .. Len(s)
    BY <1>1, <1>2
  <2> QED
    BY <1>2, <2>1 DEF NoneCaught
<1>5. ASSUME ~failed, NEW i \in 1 .. Len(s), s[i].kind = "flush", NoneCaught(s, i - 1)
      PROVE  RightProof(s[i])
  <2>1. CASE i = Len(s)
    <3>1. i - 1 = Len(q) /\ Len(q) \in 0 .. Len(q) /\ s[i] = m
      BY <1>1, <1>2, <2>1
    <3> QED
      BY <1>3, <1>5, <3>1
  <2>2. CASE i # Len(s)
    <3>1. i \in 1 .. Len(q) /\ i - 1 \in 0 .. Len(q)
      BY <1>1, <1>2, <2>2
    <3> QED
      BY <1>2, <1>3, <1>5, <3>1 DEF Messages
  <2> QED
    BY <2>1, <2>2
<1> QED
  BY <1>2, <1>4, <1>5 DEF Messages

\* A message that shows nothing is received.
LEMMA ReceiveFacts ==
  ASSUME NEW q, NEW failed, Messages(q, failed), q # << >>, ~Caught(q[1]), NEW s, Shortened(q, s)
  PROVE  /\ Messages(s, failed)
         /\ NoneCaught(s, Len(s)) => NoneCaught(q, Len(q))
<1>1. IsQueue(q) /\ Len(q) \in Nat /\ Len(q) > 0
  BY QueueFacts DEF Messages
<1>2. IsQueue(s) /\ Len(s) = Len(q) - 1 /\ \A i \in 1 .. Len(q) - 1 : s[i] = q[i + 1]
  BY DEF Shortened
<1>3. ASSUME NEW n \in 0 .. Len(s), NoneCaught(s, n) PROVE NoneCaught(q, n + 1)
  <2>1. ASSUME NEW i \in 1 .. n + 1 PROVE ~Caught(q[i])
    <3>1. CASE i = 1
      BY <3>1
    <3>2. CASE i # 1
      <4>1. i - 1 \in 1 .. n /\ i - 1 \in 1 .. Len(q) - 1 /\ i - 1 + 1 = i
        BY <1>1, <1>2, <3>2
      <4> QED
        BY <1>2, <1>3, <4>1 DEF NoneCaught
    <3> QED
      BY <3>1, <3>2
  <2> QED
    BY <2>1 DEF NoneCaught
<1>4. NoneCaught(s, Len(s)) => NoneCaught(q, Len(q))
  <2>1. Len(s) \in 0 .. Len(s) /\ Len(s) + 1 = Len(q)
    BY <1>1, <1>2
  <2> QED
    BY <1>3, <2>1
<1>5. ASSUME ~failed, NEW i \in 1 .. Len(s), s[i].kind = "flush", NoneCaught(s, i - 1)
      PROVE  RightProof(s[i])
  <2>1. /\ i \in 1 .. Len(q) - 1 /\ i + 1 \in 1 .. Len(q) /\ i - 1 \in 0 .. Len(s)
        /\ i - 1 + 1 = i + 1 - 1
    BY <1>1, <1>2
  <2>2. NoneCaught(q, i + 1 - 1)
    BY <1>3, <1>5, <2>1
  <2> QED
    BY <1>2, <1>5, <2>1, <2>2 DEF Messages
<1> QED
  BY <1>2, <1>4, <1>5 DEF Messages

\* What Resolve adds to the results.
Resolved(R, waiting, bits) ==
  R \cup {<<s, [a \in s |-> bits[a]]>> : s \in {w \in waiting : StoreIsSet(bits, w)}}

\* Slices of right bits resolve to right results.
LEMMA ResolvedRight ==
  ASSUME NEW D, RightBits(D), NEW R, RightResults(R), NEW waiting
  PROVE  RightResults(Resolved(R, waiting, D))
<1> DEFINE W == {w \in waiting : StoreIsSet(D, w)}
<1>1. \A s \in W : s \subseteq DOMAIN D
  BY DEF StoreIsSet
<1>2. Resolved(R, waiting, D) = R \cup {<<s, [a \in s |-> D[a]]>> : s \in W}
  BY DEF Resolved
<1> HIDE DEF W
<1> QED
  BY <1>1, <1>2, ResultsRight

\* The MACs the prover sends are right unless a wrong gate is caught first.
LEMMA ProofRight ==
  ASSUME SoundInv, pc["p"] = "sync", ~err["v"], NoneCaught(net["v"], Len(net["v"])),
         StoreIsSet(auth["p"], view["p"].flush.prove)
  PROVE  RightProof(ProverFlush)
<1> DEFINE S == view["p"].flush.prove
<1>1. check["p"] = << >>
  BY DEF SoundInv, Scheduled, Between
<1>2. ~WrongIn(check["p"])
  <2>1. Len(<< >>) = 0 /\ 1 .. 0 = {}
    OBVIOUS
  <2> QED
    BY <1>1, <2>1 DEF WrongIn
<1>3. RightMacs(auth["p"]) /\ DOMAIN auth["p"] \subseteq Addresses
  BY <1>2 DEF SoundInv, ProverState, Trusted, Right, Held
<1>4. S \subseteq Addresses /\ S \subseteq DOMAIN auth["p"]
  BY <1>3 DEF StoreIsSet
<1>5. ProverFlush.view.prove = S /\ ProverFlush.proof = Collect(S, auth["p"])
  BY DEF ProverFlush
<1> HIDE DEF S
<1>6. IsFiniteSet(S) /\ S \in Addr
  <2>1. NumAddresses \in Nat /\ Addresses = 0 .. NumAddresses - 1
    BY AddressFacts
  <2>2. NumAddresses - 1 \in Int /\ 0 \in Int
    BY <2>1
  <2>3. IsFiniteSet(Addresses)
    BY <2>1, <2>2, FS_Interval
  <2>4. IsFiniteSet(S)
    BY <1>4, <2>3, FS_Subset
  <2>5. \A a \in S : a \in Int
    BY <1>4, <2>1
  <2> QED
    BY <2>4, <2>5 DEF Addr
<1>7. Spread(S, Collect(S, auth["p"])) = [a \in S |-> auth["p"][a]]
  BY <1>6, CollectFacts
<1>8. ASSUME NEW a \in S PROVE Lsb(Spread(S, Collect(S, auth["p"]))[a]) = Truth[a]
  <2>1. Spread(S, Collect(S, auth["p"]))[a] = auth["p"][a]
    BY <1>7
  <2> QED
    BY <1>3, <1>4, <2>1 DEF RightMacs
<1> QED
  BY <1>5, <1>8 DEF RightProof

\* send_flush of the prover.
LEMMA SendFlushSound ==
  ASSUME Inv, SoundInv, ProverSendFlush PROVE SoundInv'
<1>0. "p" \in Roles /\ "v" \in Roles
  BY DEF Roles
<1>1. CASE Fail("p")
  BY <1>0, <1>1, FailSound
<1>2. CASE ~Fail("p")
  <2> DEFINE w == CompleteFlush(view["p"])
             R == Resolved(results["p"], ops["p"], data["p"])
             q == net["v"]
             s == Append(q, ProverFlush)
  <2>1. /\ pc["p"] = "sync" /\ Continue("p", w) /\ StoreIsSet(auth["p"], view["p"].flush.prove)
        /\ net' = Sets(net, "v", s) /\ results' = Sets(results, "p", R)
        /\ view' = [view EXCEPT !["p"] = w]
        /\ UNCHANGED <<data, auth, stack, check, ret, home, chunk, tasks, err, calls, faults>>
    BY <1>2 DEF ProverSendFlush, Resolve, Resolved, Sets, stores, control
  <2>2. view'["v"] = view["v"]
    BY <2>1 DEF Inv, TypeOK, Roles
  <2> HIDE DEF w, R, s
  <2>3. /\ PerRole(pc') /\ \A r \in Roles : Flow(pc'[r], ret[r], home[r], chunk[r])
        /\ Between(pc'["p"], check["p"], tasks["p"])
    BY <1>0, <2>1, ContinueFlow
  <2>4. PerRole(net') /\ net'["v"] = s
    BY <1>0, <2>1, PerRoleExcept DEF SoundInv, Shape, Only
  <2>5. PerRole(results') /\ results'["p"] = R /\ \A r \in Roles : r # "p" => results'[r] = results[r]
    BY <1>0, <2>1, PerRoleExcept DEF SoundInv, Shape, Only
  <2>6. Appended(q, ProverFlush, s) /\ Messages(q, err["v"])
    <3>1. IsQueue(q) /\ Messages(q, err["v"])
      BY DEF SoundInv, Messages
    <3>2. Appended(q, ProverFlush, Append(q, ProverFlush))
      BY <3>1, QueueAppend
    <3> QED
      BY <3>1, <3>2 DEF s
  <2>7. err["v"] \/ (NoneCaught(q, Len(q)) => RightProof(ProverFlush))
    BY <2>1, ProofRight
  <2>8. Messages(s, err["v"]) /\ (NoneCaught(s, Len(s)) => NoneCaught(q, Len(q)))
    BY <2>6, <2>7, SendFacts
  <2>9. Shape'
    BY <2>1, <2>3, <2>4, <2>5, ShapeSame DEF SoundInv, Shape
  <2>10. Scheduled'
    BY <2>1, <2>3 DEF SoundInv, Scheduled
  <2>11. ProverState'
    <3>1. faults = 0 => RightResults(R)
      <4>1. faults = 0 => RightBits(data["p"]) /\ RightResults(results["p"])
        BY DEF SoundInv, ProverState, Trusted, Right
      <4> QED
        BY <4>1, ResolvedRight DEF R
    <3>2. Trusted(faults', err'["v"], check'["p"], net'["v"])
            => Trusted(faults, err["v"], check["p"], net["v"])
      BY <2>1, <2>4, <2>8 DEF Trusted
    <3> QED
      BY <2>1, <2>5, <3>1, <3>2 DEF SoundInv, ProverState
  <2>12. VerifierState'
    BY <1>0, <2>1, <2>2, <2>5, VerifierStateSame DEF SoundInv
  <2> QED
    BY <2>1, <2>4, <2>8, <2>9, <2>10, <2>11, <2>12 DEF SoundInv
<1> QED
  BY <1>1, <1>2

\* receive_flush of the verifier: the keys of the committed inputs get a
\* clear pointer bit, and what is proven is the truth.
LEMMA ReceiveFlushSound ==
  ASSUME Inv, SoundInv, VerifierReceiveFlush PROVE SoundInv'
<1>0. "p" \in Roles /\ "v" \in Roles
  BY DEF Roles
<1>1. CASE Fail("v")
  BY <1>0, <1>1, FailSound
<1>2. CASE ~Fail("v")
  <2> DEFINE msg == Head(net["v"])
             v == view["v"]
             S == v.flush.commit
             P == v.flush.prove
             keys == AdjustedKeys(auth["v"], S, msg.adjust)
             proven == ProvenBits(keys, P, msg.proof)
             bits == TrySet(data["v"], P, proven)
             w == CompleteFlush(v)
             R == Resolved(results["v"], ops["v"], bits)
             q == net["v"]
             s == Tail(q)
  <2>1. /\ pc["v"] = "sync" /\ ~err["v"] /\ q # << >> /\ Continue("v", w)
        /\ msg.kind = "flush" /\ msg.view = v.flush /\ P \subseteq DOMAIN keys
        /\ net' = Sets(net, "v", s) /\ results' = Sets(results, "v", R)
        /\ auth' = Sets(auth, "v", keys)
        /\ view' = [view EXCEPT !["v"] = w] /\ data' = [data EXCEPT !["v"] = bits]
        /\ UNCHANGED <<stack, check, ret, home, chunk, tasks, err, calls, faults>>
    <3>1. VerifierAccepts(msg) /\ pc["v"] = "sync" /\ ~err["v"] /\ q # << >>
      BY <1>2 DEF VerifierReceiveFlush
    <3>2. /\ msg.kind = "flush" /\ msg.view = v.flush
          /\ ProofHolds(AdjustedKeys(auth["v"], msg.view.commit, msg.adjust), msg.view.prove, msg.proof)
      BY <3>1 DEF VerifierAccepts
    <3>3. msg.view.commit = S /\ msg.view.prove = P
      BY <3>2
    <3>4. P \subseteq DOMAIN keys
      BY <3>2, <3>3 DEF ProofHolds, StoreIsSet
    <3> DEFINE keys0 == AdjustedKeys(auth["v"], msg.view.commit, msg.adjust)
               bits0 == TrySet(data["v"], msg.view.prove, ProvenBits(keys0, msg.view.prove, msg.proof))
    <3>5. keys0 = keys /\ bits0 = bits
      BY <3>3
    <3>6. /\ net' = Sets(net, "v", s) /\ auth' = Sets(auth, "v", keys0)
          /\ data' = [data EXCEPT !["v"] = bits0]
          /\ view' = [view EXCEPT !["v"] = w] /\ Resolve("v", ops["v"], bits0) /\ Continue("v", w)
          /\ UNCHANGED <<stack, check, ret, home, chunk, tasks, err, calls, faults>>
      BY <1>2, <3>1 DEF VerifierReceiveFlush, Sets, control
    <3> HIDE DEF keys0, bits0, keys, bits, w, s
    <3>7. results' = Sets(results, "v", R)
      BY <3>5, <3>6 DEF Resolve, Resolved, Sets
    <3> QED
      BY <3>1, <3>2, <3>4, <3>5, <3>6, <3>7
  <2>2. view'["v"] = w /\ data'["v"] = bits /\ data'["p"] = data["p"]
    BY <2>1 DEF Inv, TypeOK, Roles
  <2>3. v \in ViewType /\ ViewRight(v) /\ Messages(q, err["v"])
    BY DEF Inv, Pair, SoundInv, VerifierState
  <2> DEFINE new == [a \in S |-> AdjustKey(auth["v"][a], Spread(S, msg.adjust)[a])]
  <2>4. keys = TrySet(auth["v"], S, new) /\ \A a \in S : \E k : new[a] = SetLsb(k, 0)
    <3>1. keys = TrySet(auth["v"], S, new)
      BY DEF AdjustedKeys
    <3>2. \A a \in S : new[a] = SetLsb(Auth(auth["v"][a], Spread(S, msg.adjust)[a]), 0)
      BY DEF AdjustKey
    <3> QED
      BY <3>1, <3>2
  <2>5. \A a \in P : proven[a] = Xor(Lsb(keys[a]), Lsb(Spread(P, msg.proof)[a]))
    BY DEF ProvenBits
  <2> HIDE DEF new, keys, proven, bits, w, R, s, S, P
  <2>6. Written(auth["v"], S, new, keys)
    BY <2>4, TrySetFacts
  <2>7. \A a \in DOMAIN keys : Lsb(keys[a]) = 0
    <3>1. ASSUME NEW a \in S PROVE Lsb(keys[a]) = 0
      <4>1. PICK k : new[a] = SetLsb(k, 0)
        BY <2>4
      <4>2. Lsb(new[a]) = 0
        BY <4>1, BitFacts DEF Bit
      <4> QED
        BY <2>6, <4>2 DEF Written
    <3>2. ASSUME NEW a \in DOMAIN keys, a \notin S PROVE Lsb(keys[a]) = 0
      <4>1. a \in DOMAIN auth["v"] /\ keys[a] = auth["v"][a]
        BY <2>6, <3>2 DEF Written
      <4> QED
        BY <3>2, <4>1 DEF SoundInv, VerifierState, Adjusted, S, v
    <3> QED
      BY <3>1, <3>2
  <2>8. IsQueue(q) /\ Shortened(q, s) /\ msg = q[1] /\ 1 \in 1 .. Len(q) /\ 1 .. 1 - 1 = {}
    <3>1. IsQueue(q)
      BY <2>3 DEF Messages
    <3>2. Shortened(q, Tail(q)) /\ Head(q) = q[1]
      BY <2>1, <3>1, QueueTail
    <3>3. Len(q) \in Nat /\ Len(q) > 0
      BY <2>1, <3>1, QueueFacts
    <3>4. 1 \in 1 .. Len(q) /\ 1 .. 1 - 1 = {}
      BY <3>3
    <3> QED
      BY <3>1, <3>2, <3>4 DEF s
  <2>9. RightProof(msg)
    <3>1. NoneCaught(q, 1 - 1)
      BY <2>8 DEF NoneCaught
    <3> QED
      BY <2>1, <2>3, <2>8, <3>1 DEF Messages
  <2>10. ASSUME NEW a \in P PROVE proven[a] = Truth[a]
    <3>1. Lsb(keys[a]) = 0
      BY <2>1, <2>7
    <3>2. Lsb(Spread(P, msg.proof)[a]) = Truth[a]
      BY <2>1, <2>9 DEF RightProof, P
    <3>3. Xor(0, Lsb(Spread(P, msg.proof)[a])) = Lsb(Spread(P, msg.proof)[a])
      BY BitFacts
    <3> QED
      BY <2>5, <3>1, <3>2, <3>3
  <2>11. RightBits(bits)
    <3>1. Written(data["v"], P, proven, bits)
      BY TrySetFacts DEF bits
    <3>2. RightBits(data["v"])
      BY DEF SoundInv, VerifierState
    <3> QED
      BY <2>10, <3>1, <3>2 DEF RightBits, Written
  <2>12. RightResults(R)
    BY <2>11, ResolvedRight DEF R, SoundInv, VerifierState
  <2>13. ~Caught(q[1])
    BY <2>1, <2>8 DEF Caught
  <2>14. Messages(s, err["v"]) /\ (NoneCaught(s, Len(s)) => NoneCaught(q, Len(q)))
    BY <2>1, <2>3, <2>8, <2>13, ReceiveFacts
  <2>15. /\ PerRole(pc') /\ \A r \in Roles : Flow(pc'[r], ret[r], home[r], chunk[r])
         /\ Between(pc'["p"], check["p"], tasks["p"])
    BY <1>0, <2>1, ContinueFlow
  <2>16. PerRole(net') /\ net'["v"] = s
    BY <1>0, <2>1, PerRoleExcept DEF SoundInv, Shape, Only
  <2>17. PerRole(results') /\ results'["v"] = R /\ \A r \in Roles : r # "v" => results'[r] = results[r]
    BY <1>0, <2>1, PerRoleExcept DEF SoundInv, Shape, Only
  <2>18. PerRole(auth') /\ auth'["v"] = keys /\ \A r \in Roles : r # "v" => auth'[r] = auth[r]
    BY <1>0, <2>1, PerRoleExcept DEF SoundInv, Shape, Only
  <2>19. Shape'
    BY <2>1, <2>15, <2>16, <2>17, <2>18, ShapeSame DEF SoundInv, Shape
  <2>20. Scheduled'
    BY <2>1, <2>15 DEF SoundInv, Scheduled
  <2>21. ProverState'
    <3>1. Trusted(faults', err'["v"], check'["p"], net'["v"])
            => Trusted(faults, err["v"], check["p"], net["v"])
      BY <2>1, <2>14, <2>16 DEF Trusted
    <3> QED
      BY <1>0, <2>1, <2>2, <2>17, <2>18, <3>1, ProverStateSame DEF SoundInv
  <2>22. VerifierState'
    <3>1. /\ SameMemory(v, w) /\ w.vis = v.vis /\ w.committed = v.committed \cup v.flush.commit
          /\ w.executed = v.executed /\ w.flush.commit = {}
          /\ w.flush.prove = v.flush.commit \cap v.decode
      BY <2>3, CompleteFields DEF w
    <3>2. ViewRight(w) /\ Opened(v) \subseteq Opened(w)
      BY <2>3, <3>1 DEF ViewRight, SameMemory, Opened
    <3>3. Adjusted(keys, w.flush.commit)
      BY <2>7 DEF Adjusted
    <3>4. OpenCalls(w, chunk["v"])
      BY <3>2 DEF SoundInv, VerifierState, OpenCalls, v
    <3>5. OpenTasks(w, keys, tasks["v"])
      BY <2>6, <3>2 DEF SoundInv, VerifierState, OpenTasks, Written, v
    <3> QED
      BY <2>1, <2>2, <2>11, <2>12, <2>17, <2>18, <3>2, <3>3, <3>4, <3>5 DEF VerifierState
  <2> QED
    BY <2>1, <2>14, <2>16, <2>19, <2>20, <2>21, <2>22 DEF SoundInv
<1> QED
  BY <1>1, <1>2

\* Check::finish of the prover, and what the verifier can see in U and V.
LEMMA ProverCheckSound ==
  ASSUME SoundInv, ProverCheck PROVE SoundInv'
<1>0. "p" \in Roles /\ "v" \in Roles
  BY DEF Roles
<1>1. CASE Fail("p")
  BY <1>0, <1>1, FailSound
<1>2. CASE ~Fail("p")
  <2> DEFINE uv == UV(check["p"], transcript["p"], OtTaken(ot["p"], CheckOts))
             q == net["v"]
             s == Append(q, uv)
  <2>1. /\ pc["p"] = "check" /\ net' = Sets(net, "v", s) /\ check' = Sets(check, "p", << >>)
        /\ Goto("p", AfterCheck("p"))
        /\ UNCHANGED <<view, data, auth, results, stack, ret, home, chunk, tasks, err, calls, faults>>
    BY <1>2 DEF ProverCheck, EndCheck, Sets, stores, decodes, control
  <2>2. uv.kind = "uv" /\ uv.check = check["p"]
    BY DEF UV
  <2> HIDE DEF uv, s
  <2>3. PerRole(net') /\ net'["v"] = s
    BY <1>0, <2>1, PerRoleExcept DEF SoundInv, Shape, Only
  <2>4. PerRole(check') /\ check'["p"] = << >>
    BY <1>0, <2>1, PerRoleExcept DEF SoundInv, Shape, Only
  <2>5. DOMAIN tasks["p"] = {}
    BY <2>1 DEF SoundInv, Scheduled, Between
  <2>6. PerRole(pc') /\ Scheduled'
    <3>1. tasks'["p"] = tasks["p"] /\ \A r \in Roles : tasks'[r] = tasks[r]
      BY <2>1
    <3>2. DOMAIN tasks'["p"] = {}
      BY <2>5, <3>1
    <3>3. Goto("p", AfterCheck("p")) /\ UNCHANGED <<ret, home, chunk, stack, calls>>
      BY <2>1
    <3> QED
      BY <1>0, <2>4, <3>1, <3>2, <3>3, AfterBatchFlow
  <2>7. Appended(q, uv, s) /\ Messages(q, err["v"])
    <3>1. IsQueue(q) /\ Messages(q, err["v"])
      BY DEF SoundInv, Messages
    <3>2. Appended(q, uv, Append(q, uv))
      BY <3>1, QueueAppend
    <3> QED
      BY <3>1, <3>2 DEF s
  <2>8. Messages(s, err["v"]) /\ (NoneCaught(s, Len(s)) => NoneCaught(q, Len(q)) /\ ~Caught(uv))
    <3>1. ~(uv.kind = "flush")
      BY <2>2
    <3> QED
      BY <2>7, <3>1, SendFacts
  <2>9. Shape'
    BY <2>1, <2>3, <2>4, <2>6, ShapeSame DEF SoundInv, Shape
  <2>10. ProverState'
    <3>1. Trusted(faults', err'["v"], check'["p"], net'["v"])
            => Trusted(faults, err["v"], check["p"], net["v"])
      BY <2>1, <2>2, <2>3, <2>8 DEF Trusted, Caught
    <3>2. Slotted(tasks["p"], << >>, auth["p"])
      <4>1. << >> \in Seq({})
        OBVIOUS
      <4>2. IsQueue(<< >>)
        BY <4>1, QueueOf
      <4> QED
        BY <2>5, <4>2 DEF Slotted
    <3> QED
      BY <2>1, <2>4, <3>1, <3>2 DEF SoundInv, ProverState
  <2>11. VerifierState'
    BY <2>1, VerifierStateSame DEF SoundInv
  <2> QED
    BY <2>1, <2>3, <2>6, <2>8, <2>9, <2>10, <2>11 DEF SoundInv
<1> QED
  BY <1>1, <1>2

\* Check::finish of the verifier accepts no wrong triple.
LEMMA VerifierCheckSound ==
  ASSUME SoundInv, VerifierCheck PROVE SoundInv'
<1>0. "p" \in Roles /\ "v" \in Roles
  BY DEF Roles
<1>1. CASE Fail("v")
  BY <1>0, <1>1, FailSound
<1>2. CASE ~Fail("v")
  <2> DEFINE q == net["v"]
             uv == Head(q)
             s == Tail(q)
  <2>1. /\ pc["v"] = "check" /\ q # << >>
        /\ CheckVerifier(check["v"], transcript["v"], OtTaken(ot["v"], CheckOts), uv)
        /\ net' = Sets(net, "v", s) /\ check' = Sets(check, "v", << >>)
        /\ Goto("v", AfterCheck("v"))
        /\ UNCHANGED <<view, data, auth, results, stack, ret, home, chunk, tasks, err, calls, faults>>
    BY <1>2 DEF VerifierCheck, EndCheck, Sets, stores, decodes, control
  <2>2. ~WrongIn(uv.check)
    <3>1. ASSUME NEW i \in 1 .. Len(uv.check) PROVE ~Wrong(uv.check[i])
      <4>1. TripleHolds(uv.check[i], check["v"][i])
        BY <2>1 DEF CheckVerifier
      <4> QED
        BY <4>1 DEF TripleHolds, Wrong
    <3> QED
      BY <3>1 DEF WrongIn
  <2>3. Messages(q, err["v"]) /\ IsQueue(q)
    BY DEF SoundInv, Messages
  <2>4. Shortened(q, s) /\ uv = q[1]
    BY <2>1, <2>3, QueueTail
  <2> HIDE DEF uv, s
  <2>5. ~Caught(q[1])
    BY <2>2, <2>4 DEF Caught
  <2>6. Messages(s, err["v"]) /\ (NoneCaught(s, Len(s)) => NoneCaught(q, Len(q)))
    BY <2>1, <2>3, <2>4, <2>5, ReceiveFacts
  <2>7. PerRole(net') /\ net'["v"] = s
    BY <1>0, <2>1, PerRoleExcept DEF SoundInv, Shape, Only
  <2>8. PerRole(check') /\ \A r \in Roles : r # "v" => check'[r] = check[r]
    BY <1>0, <2>1, PerRoleExcept DEF SoundInv, Shape, Only
  <2>9. PerRole(pc') /\ Scheduled'
    <3>1. tasks'["p"] = tasks["p"] /\ \A r \in Roles : tasks'[r] = tasks[r]
      BY <2>1
    <3>2. Goto("v", AfterCheck("v")) /\ UNCHANGED <<ret, home, chunk, stack, calls>>
      BY <2>1
    <3> QED
      BY <1>0, <2>8, <3>1, <3>2, AfterBatchFlow
  <2>10. Shape'
    BY <2>1, <2>7, <2>8, <2>9, ShapeSame DEF SoundInv, Shape
  <2>11. ProverState'
    <3>1. check'["p"] = check["p"]
      BY <1>0, <2>8
    <3>2. Trusted(faults', err'["v"], check'["p"], net'["v"])
            => Trusted(faults, err["v"], check["p"], net["v"])
      BY <2>1, <2>6, <2>7, <3>1 DEF Trusted
    <3> QED
      BY <2>1, <3>1, <3>2, ProverStateSame DEF SoundInv
  <2>12. VerifierState'
    BY <2>1, VerifierStateSame DEF SoundInv
  <2> QED
    BY <2>1, <2>6, <2>7, <2>9, <2>10, <2>11, <2>12 DEF SoundInv
<1> QED
  BY <1>1, <1>2
-----------------------------------------------------------------------------
(***************************************************************************)
(* The calls of a batch.                                                   *)
(***************************************************************************)

\* A call finishes, and nothing else changes in the batch.
Finished(T, k, o, U) ==
  /\ DOMAIN U = DOMAIN T /\ U[k].out = o /\ U[k].idx = T[k].idx /\ IsTask(U[k])
  /\ \A j \in DOMAIN T : j # k => U[j] = T[j]

\* Writing an output finishes a call.
LEMMA FinishFacts ==
  ASSUME NEW T, NEW k \in DOMAIN T, IsTask(T[k]), NEW o
  PROVE  Finished(T, k, o, [T EXCEPT ![k].out = o])
<1> DEFINE U == [T EXCEPT ![k].out = o]
           t == T[k]
           u == [t EXCEPT !.out = o]
<1>1. DOMAIN U = DOMAIN T /\ U[k] = u /\ \A j \in DOMAIN T : j # k => U[j] = T[j]
  OBVIOUS
<1>2. t = [ots |-> t.ots, idx |-> t.idx, out |-> t.out]
  BY DEF IsTask
<1> HIDE DEF t, U
<1>3. u = [ots |-> t.ots, idx |-> t.idx, out |-> o]
  BY <1>2
<1> HIDE DEF u
<1>4. u.out = o /\ u.idx = t.idx /\ IsTask(u)
  BY <1>3 DEF IsTask
<1> QED
  BY <1>1, <1>4 DEF Finished, U, t

\* Check::write replaces the reserved triples.
Spliced(c, idx, tr, s) ==
  /\ IsQueue(s) /\ Len(s) = Len(c)
  /\ \A i \in 1 .. Len(c) : i <= idx \/ i > idx + Len(tr) => s[i] = c[i]
  /\ \A i \in 1 .. Len(tr) : s[idx + i] = tr[i]

\* What Check::write leaves of the other triples.
LEMMA SpliceFacts ==
  ASSUME NEW c, IsQueue(c), NEW tr, IsQueue(tr), NEW idx \in Nat, idx + Len(tr) <= Len(c)
  PROVE  Spliced(c, idx, tr, SubSeq(c, 1, idx) \o tr \o SubSeq(c, idx + Len(tr) + 1, Len(c)))
<1> DEFINE a == SubSeq(c, 1, idx)
           b == SubSeq(c, idx + Len(tr) + 1, Len(c))
           m == a \o tr
           s == m \o b
<1>1. Len(c) \in Nat /\ Len(tr) \in Nat
  BY QueueFacts
<1>2. CutOut(c, 1, idx, a)
  <2>1. 1 \in 1 .. Len(c) + 1 /\ idx \in 1 - 1 .. Len(c)
    BY <1>1
  <2> QED
    BY <2>1, QueueSub
<1>3. CutOut(c, idx + Len(tr) + 1, Len(c), b)
  <2>1. /\ idx + Len(tr) + 1 \in 1 .. Len(c) + 1
        /\ Len(c) \in idx + Len(tr) + 1 - 1 .. Len(c)
    BY <1>1
  <2> QED
    BY <2>1, QueueSub
<1>4. IsQueue(a) /\ Len(a) = idx /\ \A i \in 1 .. idx : a[i] = c[i]
  <2> HIDE DEF a
  <2>1. idx - 1 + 1 = idx /\ \A i \in 1 .. idx : 1 + i - 1 = i
    BY <1>1
  <2> QED
    BY <1>2, <2>1 DEF CutOut
<1>5. /\ IsQueue(b) /\ Len(b) = Len(c) - (idx + Len(tr))
      /\ \A i \in 1 .. Len(c) - (idx + Len(tr)) : b[i] = c[idx + Len(tr) + i]
  <2> HIDE DEF b
  <2>1. /\ Len(c) - (idx + Len(tr) + 1) + 1 = Len(c) - (idx + Len(tr))
        /\ \A i \in 1 .. Len(c) - (idx + Len(tr)) : idx + Len(tr) + 1 + i - 1 = idx + Len(tr) + i
    BY <1>1
  <2> QED
    BY <1>3, <2>1 DEF CutOut
<1> HIDE DEF a, b
<1>6. Joined(a, tr, m)
  BY <1>4, QueueConcat
<1> HIDE DEF m
<1>7. Joined(m, b, s)
  <2>1. IsQueue(m)
    BY <1>6 DEF Joined
  <2> QED
    BY <1>5, <2>1, QueueConcat
<1> HIDE DEF s
<1>8. /\ IsQueue(s) /\ Len(m) = idx + Len(tr) /\ Len(s) = Len(c)
      /\ \A i \in 1 .. idx : m[i] = a[i]
      /\ \A i \in 1 .. Len(tr) : m[idx + i] = tr[i]
      /\ \A i \in 1 .. Len(m) : s[i] = m[i]
      /\ \A i \in 1 .. Len(b) : s[Len(m) + i] = b[i]
  BY <1>1, <1>4, <1>5, <1>6, <1>7 DEF Joined
<1>9. ASSUME NEW i \in 1 .. Len(c), i <= idx \/ i > idx + Len(tr) PROVE s[i] = c[i]
  <2>1. CASE i <= idx
    <3>1. i \in 1 .. idx /\ i \in 1 .. Len(m)
      BY <1>1, <1>8, <2>1
    <3> QED
      BY <1>4, <1>8, <3>1
  <2>2. CASE i > idx + Len(tr)
    <3> DEFINE j == i - (idx + Len(tr))
    <3>1. j \in 1 .. Len(b) /\ i = idx + Len(tr) + j
      BY <1>1, <1>5, <2>2
    <3> HIDE DEF j
    <3> QED
      BY <1>5, <1>8, <3>1
  <2> QED
    BY <1>9, <2>1, <2>2
<1>10. ASSUME NEW i \in 1 .. Len(tr) PROVE s[idx + i] = tr[i]
  <2>1. idx + i \in 1 .. Len(m)
    BY <1>1, <1>8
  <2> QED
    BY <1>8, <2>1
<1>11. s = SubSeq(c, 1, idx) \o tr \o SubSeq(c, idx + Len(tr) + 1, Len(c))
  BY DEF s, m, a, b
<1>12. Spliced(c, idx, tr, s)
  BY <1>8, <1>9, <1>10 DEF Spliced
<1> QED
  BY <1>11, <1>12

\* The triples of a call, one for every AND gate.
LEMMA TriplesFacts ==
  ASSUME NEW k \in DOMAIN Circuits, NEW feed, NEW adjust,
         NEW tr, tr = Triples(Circuits[k], feed, adjust)
  PROVE  /\ IsQueue(tr) /\ Len(tr) = Ands(k)
         /\ \A i \in AndGates(Circuits[k].gates) : \E j \in 1 .. Ands(k) :
              /\ tr[j].x = feed[Circuits[k].gates[i].x] /\ tr[j].y = feed[Circuits[k].gates[i].y]
              /\ tr[j].z = feed[Len(Circuits[k].inputs) + i]
<1> DEFINE S == AndGates(Circuits[k].gates)
           f == [i \in S |-> Triple(feed[Circuits[k].gates[i].x], feed[Circuits[k].gates[i].y],
                                    feed[Len(Circuits[k].inputs) + i], adjust[i])]
<1>1. tr = Collect(S, f)
  BY DEF Triples
<1>2. S \in Addr /\ IsFiniteSet(S) /\ Ands(k) = Cardinality(S)
  BY AndsNat
<1>3. \A i \in S : /\ f[i].x = feed[Circuits[k].gates[i].x] /\ f[i].y = feed[Circuits[k].gates[i].y]
                   /\ f[i].z = feed[Len(Circuits[k].inputs) + i]
  BY DEF Triple
<1> HIDE DEF f, S
<1>4. \A i \in S : f[i] \in {f[j] : j \in S}
  OBVIOUS
<1>5. /\ Collect(S, f) \in Seq({f[j] : j \in S})
      /\ \A i \in S : Rank(S, i) \in 1 .. Cardinality(S) /\ Collect(S, f)[Rank(S, i)] = f[i]
  BY <1>2, <1>4, CollectSeq
<1>6. IsQueue(tr)
  BY <1>1, <1>5, QueueOf
<1>7. Len(tr) = Ands(k)
  BY <1>1, <1>2, CollectFacts
<1>8. ASSUME NEW i \in S
      PROVE  \E j \in 1 .. Ands(k) :
               /\ tr[j].x = feed[Circuits[k].gates[i].x] /\ tr[j].y = feed[Circuits[k].gates[i].y]
               /\ tr[j].z = feed[Len(Circuits[k].inputs) + i]
  BY <1>1, <1>2, <1>3, <1>5
<1> QED
  BY <1>6, <1>7, <1>8 DEF S

\* A call of the prover writes its triples: the slots of the others stay as
\* they are, and what was wrong before is wrong still.
LEMMA FinishSlots ==
  ASSUME NEW T, NEW c, NEW M, Slotted(T, c, M), DOMAIN T \subseteq DOMAIN Circuits,
         NEW k \in DOMAIN T, T[k].out = << >>, NEW o, o # << >>,
         NEW U, Finished(T, k, o, U),
         NEW tr, Len(tr) = Ands(k), NEW s, Spliced(c, T[k].idx, tr, s)
  PROVE  /\ Slotted(U, s, M)
         /\ ~WrongIn(s) => ~WrongIn(c) /\ \A i \in 1 .. Len(tr) : ~Wrong(tr[i])
<1> DEFINE idx == T[k].idx
           n == Ands(k)
<1>1. /\ idx \in Nat /\ n \in Nat /\ idx + n <= Len(c) /\ Len(c) \in Nat
      /\ \A i \in Slots(T[k], n) : ~Wrong(c[i])
  BY AndsNat, QueueFacts DEF Slotted
<1>2. /\ IsQueue(s) /\ Len(s) = Len(c)
      /\ \A i \in 1 .. Len(c) : i <= idx \/ i > idx + n => s[i] = c[i]
      /\ \A i \in 1 .. n : s[idx + i] = tr[i]
  BY DEF Spliced
<1>3. DOMAIN U = DOMAIN T /\ \A j \in DOMAIN T : U[j].idx = T[j].idx /\ (j # k => U[j] = T[j])
  BY DEF Finished
<1>4. ASSUME NEW j \in DOMAIN U, U[j].out = << >>, NEW i \in Slots(U[j], Ands(j)) PROVE ~Wrong(s[i])
  <2>1. j # k /\ U[j] = T[j] /\ j \in DOMAIN T
    BY <1>3, <1>4 DEF Finished
  <2>2. i \in Slots(T[j], Ands(j)) /\ i \notin Slots(T[k], Ands(k)) /\ ~Wrong(c[i])
    BY <1>4, <2>1 DEF Slotted
  <2>3. T[j].idx \in Nat /\ Ands(j) \in Nat /\ T[j].idx + Ands(j) <= Len(c)
    BY <2>1, AndsNat DEF Slotted
  <2>4. i \in 1 .. Len(c) /\ (i <= idx \/ i > idx + n)
    BY <1>1, <2>2, <2>3 DEF Slots
  <2> QED
    BY <1>2, <2>2, <2>4
<1>5. Slotted(U, s, M)
  <2>1. \A j \in DOMAIN U : /\ U[j].idx \in Nat /\ U[j].idx + Ands(j) <= Len(s)
                            /\ Needs(j) \subseteq DOMAIN M
    BY <1>2, <1>3 DEF Slotted
  <2>2. \A i, j \in DOMAIN U :
          i # j => Slots(U[i], Ands(i)) \cap Slots(U[j], Ands(j)) = {}
    BY <1>3 DEF Slotted, Slots
  <2> QED
    BY <1>2, <1>4, <2>1, <2>2 DEF Slotted
<1>6. ASSUME ~WrongIn(s), NEW i \in 1 .. Len(c) PROVE ~Wrong(c[i])
  <2>1. CASE i <= idx \/ i > idx + n
    BY <1>2, <1>6, <2>1 DEF WrongIn
  <2>2. CASE ~(i <= idx \/ i > idx + n)
    <3>1. i \in Slots(T[k], n)
      BY <1>1, <2>2 DEF Slots
    <3> QED
      BY <1>1, <3>1
  <2> QED
    BY <2>1, <2>2
<1>7. ASSUME ~WrongIn(s), NEW i \in 1 .. n PROVE ~Wrong(tr[i])
  <2>1. idx + i \in 1 .. Len(s)
    BY <1>1, <1>2
  <2> QED
    BY <1>2, <1>7, <2>1 DEF WrongIn
<1> QED
  BY <1>5, <1>6, <1>7 DEF WrongIn

\* A call of the prover has the right output if its inputs are right and no
\* gate of it is wrong, or none of its triples.
LEMMA TaskRight ==
  ASSUME NEW k \in DOMAIN Circuits, Needs(k) \subseteq DOMAIN auth["p"], RightMacs(auth["p"]),
         NEW ots, NEW wrong \in Nat,
         NEW feed, feed = ProverFeed(Circuits[k].gates, Inputs("p", k), ots, wrong),
         NEW adjust, NEW tr, tr = Triples(Circuits[k], feed, adjust),
         wrong = 0 \/ \A i \in 1 .. Len(tr) : ~Wrong(tr[i])
  PROVE  Lsb(Output(Circuits[k], feed)) = Truth[Out(k)]
<1> DEFINE inputs == Circuits[k].inputs
           gts == Circuits[k].gates
           macs == Inputs("p", k)
           m == Len(macs)
<1>1. CircuitShape(inputs, gts)
  BY CallShape
<1>2. DOMAIN inputs = 1 .. Len(inputs) /\ Len(inputs) \in Nat
      /\ DOMAIN gts = 1 .. Len(gts) /\ Len(gts) \in Nat
  BY <1>1 DEF CircuitShape
<1>3. DOMAIN macs = 1 .. Len(inputs) /\ m = Len(inputs)
      /\ \A j \in 1 .. Len(inputs) : macs[j] = auth["p"][inputs[j]]
  BY <1>2 DEF Inputs
<1>4. ASSUME NEW j \in 1 .. m PROVE Lsb(macs[j]) = Truth[inputs[j]]
  <2>1. inputs[j] \in Needs(k) /\ macs[j] = auth["p"][inputs[j]]
    BY <1>2, <1>3 DEF Needs
  <2> QED
    BY <2>1 DEF RightMacs
<1>5. IsQueue(tr) /\ Len(tr) = Ands(k)
      /\ \A i \in AndGates(gts) : \E j \in 1 .. Ands(k) :
           /\ tr[j].x = feed[gts[i].x] /\ tr[j].y = feed[gts[i].y]
           /\ tr[j].z = feed[Len(inputs) + i]
  BY TriplesFacts
<1> HIDE DEF macs
<1>6. CircuitShape(macs, gts)
  BY <1>1, <1>3 DEF CircuitShape
<1>7. /\ \A j \in 1 .. m : feed[j] = macs[j]
      /\ \A i \in 1 .. Len(gts) : gts[i].op # "and" \/ i # wrong =>
           Lsb(feed[m + i]) = GateBit(gts[i], Lsb(feed[gts[i].x]), Lsb(feed[gts[i].y]))
  <2>1. feed = ProverFeed(gts, macs, ots, wrong)
    BY DEF macs
  <2> HIDE DEF gts
  <2> QED
    BY <1>6, <2>1, ProverFeeds
<1>8. ASSUME NEW i \in 1 .. Len(gts)
      PROVE  Lsb(feed[m + i]) = GateBit(gts[i], Lsb(feed[gts[i].x]), Lsb(feed[gts[i].y]))
  <2>1. CASE gts[i].op # "and" \/ i # wrong
    BY <1>7, <2>1
  <2>2. CASE gts[i].op = "and" /\ i = wrong
    <3>1. i \in AndGates(gts) /\ wrong # 0
      BY <1>2, <2>2 DEF AndGates
    <3>2. PICK j \in 1 .. Ands(k) : /\ tr[j].x = feed[gts[i].x] /\ tr[j].y = feed[gts[i].y]
                                    /\ tr[j].z = feed[Len(inputs) + i]
      BY <1>5, <3>1
    <3>3. ~Wrong(tr[j])
      BY <1>5, <3>1
    <3>4. Lsb(feed[m + i]) = Lsb(feed[gts[i].x]) * Lsb(feed[gts[i].y])
      BY <1>3, <3>2, <3>3 DEF Wrong
    <3>5. GateBit(gts[i], Lsb(feed[gts[i].x]), Lsb(feed[gts[i].y]))
            = Lsb(feed[gts[i].x]) * Lsb(feed[gts[i].y])
      BY <2>2 DEF GateBit
    <3> QED
      BY <3>4, <3>5
  <2> QED
    BY <2>1, <2>2
<1>9. Lsb(feed[m + Len(gts)]) = Truth[Out(k)]
  <2>1. m = Len(Circuits[k].inputs) /\ DOMAIN macs = 1 .. m
    BY <1>3
  <2> QED
    BY <1>4, <1>7, <1>8, <2>1, CallTruth
<1> QED
  BY <1>3, <1>9 DEF Output

\* A call of the prover finishes.
LEMMA ProverTaskSound ==
  ASSUME SoundInv, NEW k \in DOMAIN tasks["p"], NEW wrong \in WrongGates(k), ProverTask(k, wrong)
  PROVE  SoundInv'
<1> DEFINE T == tasks["p"]
           c == check["p"]
           M == auth["p"]
<1>0. "p" \in Roles /\ "v" \in Roles
  BY DEF Roles
<1>1. /\ DOMAIN T \subseteq DOMAIN Circuits /\ IsTask(T[k]) /\ Staged(stack["p"], chunk["p"], T)
      /\ Slotted(T, c, M) /\ faults \in Nat
  BY <1>0 DEF SoundInv, Scheduled, Staged, ProverState
<1>2. k \in DOMAIN Circuits /\ pc["p"] = "tasks" /\ ~err["p"] /\ T[k].out = << >>
  BY <1>1 DEF ProverTask, Running
<1>3. wrong \in Nat
  <2>1. AndGates(Circuits[k].gates) \subseteq Nat
    <3>1. DOMAIN Circuits[k].gates = 1 .. Len(Circuits[k].gates) /\ Len(Circuits[k].gates) \in Nat
      BY <1>2, CallShape DEF CircuitShape
    <3> QED
      BY <3>1 DEF AndGates
  <2> QED
    BY <2>1 DEF WrongGates
<1> DEFINE feed == ProverFeed(Circuits[k].gates, Inputs("p", k), T[k].ots, wrong)
           adjust == Adjust(Circuits[k], feed, T[k].ots)
           tr == Triples(Circuits[k], feed, adjust)
           out == Output(Circuits[k], feed)
           U == [T EXCEPT ![k].out = <<out>>]
           idx == T[k].idx
           s == SubSeq(c, 1, idx) \o tr \o SubSeq(c, idx + Ands(k) + 1, Len(c))
<1>4. /\ FinishTask("p", k, feed, adjust) /\ faults' = faults + (IF wrong > 0 THEN 1 ELSE 0)
  BY DEF ProverTask
<1>5. /\ tasks' = Sets(tasks, "p", U) /\ check' = Sets(check, "p", s)
      /\ UNCHANGED <<view, data, auth, results, stack, pc, ret, home, chunk, net, err, calls>>
  BY <1>4 DEF FinishTask, Sets, stores, decodes
<1>6. Finished(T, k, <<out>>, U)
  <2>1. k \in DOMAIN T
    OBVIOUS
  <2> HIDE DEF T, out
  <2> QED
    BY <1>1, <2>1, FinishFacts
<1>7. IsQueue(tr) /\ Len(tr) = Ands(k)
  <2> HIDE DEF feed, adjust
  <2> QED
    BY <1>2, TriplesFacts
<1>8. Spliced(c, idx, tr, s)
  <2>1. IsQueue(c) /\ idx \in Nat /\ idx + Len(tr) <= Len(c)
    BY <1>1, <1>7 DEF Slotted
  <2>2. s = SubSeq(c, 1, idx) \o tr \o SubSeq(c, idx + Len(tr) + 1, Len(c))
    BY <1>7
  <2> HIDE DEF s, tr, idx, c
  <2> QED
    BY <1>7, <2>1, <2>2, SpliceFacts
<1>9. /\ Slotted(U, s, M)
      /\ ~WrongIn(s) => ~WrongIn(c) /\ \A i \in 1 .. Len(tr) : ~Wrong(tr[i])
  <2>1. <<out>> # << >> /\ Spliced(c, T[k].idx, tr, s) /\ k \in DOMAIN T
    BY <1>8
  <2> HIDE DEF U, s, M, c, T, tr, out
  <2> QED
    BY <1>1, <1>2, <1>6, <1>7, <2>1, FinishSlots
<1>10. ASSUME RightMacs(M), wrong = 0 \/ \A i \in 1 .. Len(tr) : ~Wrong(tr[i])
       PROVE  Lsb(out) = Truth[Out(k)]
  <2>1. Needs(k) \subseteq DOMAIN auth["p"] /\ RightMacs(auth["p"])
    BY <1>1, <1>10 DEF Slotted
  <2> HIDE DEF feed, adjust, tr
  <2>2. feed = ProverFeed(Circuits[k].gates, Inputs("p", k), T[k].ots, wrong)
    BY DEF feed
  <2>3. tr = Triples(Circuits[k], feed, adjust)
    BY DEF tr
  <2> HIDE DEF T
  <2> QED
    BY <1>2, <1>3, <1>10, <2>1, <2>2, <2>3, TaskRight
<1> HIDE DEF s, U, out, tr, feed, adjust
<1>11. PerRole(tasks') /\ tasks'["p"] = U /\ \A q \in Roles : q # "p" => tasks'[q] = tasks[q]
  BY <1>0, <1>5, PerRoleExcept DEF SoundInv, Shape, Only
<1>12. PerRole(check') /\ check'["p"] = s /\ \A q \in Roles : q # "p" => check'[q] = check[q]
  BY <1>0, <1>5, PerRoleExcept DEF SoundInv, Shape, Only
<1>13. Shape'
  BY <1>5, <1>11, <1>12, ShapeSame DEF SoundInv, Shape
<1>14. DOMAIN U = DOMAIN T /\ U[k].out = <<out>> /\ IsTask(U[k])
       /\ \A j \in DOMAIN T : j # k => U[j] = T[j]
  BY <1>6 DEF Finished
<1>15. Scheduled'
  <2>1. Staged(stack["p"], chunk["p"], U)
    BY <1>1, <1>14 DEF Staged
  <2>2. \A q \in Roles : Staged(stack[q], chunk[q], tasks'[q])
    BY <1>11, <2>1 DEF SoundInv, Scheduled
  <2>3. Between(pc["p"], s, U)
    BY <1>2 DEF Between
  <2> QED
    BY <1>5, <1>11, <1>12, <2>2, <2>3 DEF SoundInv, Scheduled
<1>16. ProverState'
  <2>1. faults' \in Nat /\ (faults' = 0 => faults = 0 /\ wrong = 0)
    BY <1>1, <1>3, <1>4
  <2>2. ASSUME Trusted(faults', err["v"], s, net["v"]) PROVE Right(M, data["p"], U)
    <3>1. Trusted(faults, err["v"], c, net["v"])
      BY <1>9, <2>1, <2>2 DEF Trusted
    <3>2. Right(M, data["p"], T)
      BY <3>1 DEF SoundInv, ProverState
    <3>3. wrong = 0 \/ \A i \in 1 .. Len(tr) : ~Wrong(tr[i])
      BY <1>9, <2>1, <2>2 DEF Trusted
    <3>4. Lsb(out) = Truth[Out(k)]
      BY <1>10, <3>2, <3>3 DEF Right
    <3>5. <<out>>[1] = out
      OBVIOUS
    <3>6. RightTasks(U)
      BY <1>14, <3>2, <3>4, <3>5 DEF Right, RightTasks
    <3> QED
      BY <3>2, <3>6 DEF Right
  <2>3. faults' = 0 => RightResults(results["p"])
    BY <2>1 DEF SoundInv, ProverState
  <2> QED
    BY <1>5, <1>9, <1>11, <1>12, <2>1, <2>2, <2>3 DEF SoundInv, ProverState
<1>17. VerifierState'
  BY <1>0, <1>5, <1>11, VerifierStateSame DEF SoundInv
<1> QED
  BY <1>5, <1>13, <1>15, <1>16, <1>17 DEF SoundInv

\* A call of the verifier finishes: the pointer bit of its output is clear.
LEMMA VerifierTaskSound ==
  ASSUME SoundInv, NEW k \in DOMAIN tasks["v"], VerifierTask(k) PROVE SoundInv'
<1> DEFINE T == tasks["v"]
           K == auth["v"]
           v == view["v"]
<1>0. "p" \in Roles /\ "v" \in Roles
  BY DEF Roles
<1>1. /\ DOMAIN T \subseteq DOMAIN Circuits /\ IsTask(T[k]) /\ Staged(stack["v"], chunk["v"], T)
      /\ OpenTasks(v, K, T) /\ ViewRight(v) /\ Adjusted(K, v.flush.commit)
  BY <1>0 DEF SoundInv, Scheduled, Staged, VerifierState
<1>2. k \in DOMAIN Circuits
  BY <1>1
<1>3. PICK adjust : /\ FinishTask("v", k, VerifierFeed(Circuits[k].gates, Inputs("v", k),
                                                        T[k].ots, adjust), adjust)
                    /\ faults' = faults
  BY DEF VerifierTask
<1> DEFINE gts == Circuits[k].gates
           keys == Inputs("v", k)
           feed == VerifierFeed(gts, keys, T[k].ots, adjust)
           out == Output(Circuits[k], feed)
           U == [T EXCEPT ![k].out = <<out>>]
           s == SubSeq(check["v"], 1, T[k].idx) \o Triples(Circuits[k], feed, adjust)
                  \o SubSeq(check["v"], T[k].idx + Ands(k) + 1, Len(check["v"]))
<1>4. /\ tasks' = Sets(tasks, "v", U) /\ check' = Sets(check, "v", s)
      /\ UNCHANGED <<view, data, auth, results, stack, pc, ret, home, chunk, net, err, calls>>
  BY <1>3 DEF FinishTask, Sets, stores, decodes
<1>5. Finished(T, k, <<out>>, U)
  <2>1. k \in DOMAIN T
    OBVIOUS
  <2> HIDE DEF T, out
  <2> QED
    BY <1>1, <2>1, FinishFacts
<1>6. Lsb(out) = 0
  <2> DEFINE inputs == Circuits[k].inputs
  <2>1. CircuitShape(inputs, gts)
    BY <1>2, CallShape
  <2>2. DOMAIN inputs = 1 .. Len(inputs) /\ Len(inputs) \in Nat
    BY <2>1 DEF CircuitShape
  <2>3. DOMAIN keys = 1 .. Len(inputs) /\ Len(keys) = Len(inputs)
        /\ \A j \in 1 .. Len(inputs) : keys[j] = K[inputs[j]]
    BY <2>2 DEF Inputs
  <2>4. ASSUME NEW j \in 1 .. Len(keys) PROVE Lsb(keys[j]) = 0
    <3>1. inputs[j] \in Needs(k) /\ keys[j] = K[inputs[j]]
      BY <2>2, <2>3 DEF Needs
    <3>2. inputs[j] \in Opened(v) /\ inputs[j] \in DOMAIN K
      BY <1>1, <3>1 DEF OpenTasks
    <3>3. inputs[j] \notin v.flush.commit
      BY <1>1, <3>2 DEF ViewRight
    <3> QED
      BY <1>1, <3>1, <3>2, <3>3 DEF Adjusted
  <2> HIDE DEF keys
  <2>5. CircuitShape(keys, gts)
    BY <2>1, <2>3 DEF CircuitShape
  <2>6. Lsb(feed[Len(keys) + Len(gts)]) = 0
    <3> HIDE DEF gts, T
    <3> QED
      BY <2>4, <2>5, VerifierFeeds
  <2> QED
    BY <2>3, <2>6 DEF Output
<1> HIDE DEF s, U, out, feed
<1>7. PerRole(tasks') /\ tasks'["v"] = U /\ \A q \in Roles : q # "v" => tasks'[q] = tasks[q]
  BY <1>0, <1>4, PerRoleExcept DEF SoundInv, Shape, Only
<1>8. PerRole(check') /\ \A q \in Roles : q # "v" => check'[q] = check[q]
  BY <1>0, <1>4, PerRoleExcept DEF SoundInv, Shape, Only
<1>9. Shape'
  BY <1>4, <1>7, <1>8, ShapeSame DEF SoundInv, Shape
<1>10. DOMAIN U = DOMAIN T /\ U[k].out = <<out>> /\ IsTask(U[k])
       /\ \A j \in DOMAIN T : j # k => U[j] = T[j]
  BY <1>5 DEF Finished
<1>11. Scheduled'
  <2>1. Staged(stack["v"], chunk["v"], U)
    BY <1>1, <1>10 DEF Staged
  <2>2. \A q \in Roles : Staged(stack[q], chunk[q], tasks'[q])
    BY <1>7, <2>1 DEF SoundInv, Scheduled
  <2>3. tasks'["p"] = tasks["p"] /\ check'["p"] = check["p"]
    BY <1>0, <1>7, <1>8
  <2> QED
    BY <1>4, <2>2, <2>3 DEF SoundInv, Scheduled
<1>12. ProverState'
  <2>1. tasks'["p"] = tasks["p"] /\ check'["p"] = check["p"]
    BY <1>0, <1>7, <1>8
  <2> QED
    BY <1>3, <1>4, <2>1, ProverStateSame DEF SoundInv
<1>13. VerifierState'
  <2>1. <<out>>[1] = out
    OBVIOUS
  <2>2. OpenTasks(v, K, U)
    BY <1>1, <1>6, <1>10, <2>1 DEF OpenTasks
  <2> QED
    BY <1>4, <1>7, <2>2 DEF SoundInv, VerifierState
<1> QED
  BY <1>4, <1>9, <1>11, <1>12, <1>13 DEF SoundInv
-----------------------------------------------------------------------------
(***************************************************************************)
(* Soundness holds in every reachable state.                               *)
(***************************************************************************)

\* Nothing is known, staged or on its way at first.
LEMMA SoundInit == Init => SoundInv
<1> SUFFICES ASSUME Init PROVE SoundInv
  OBVIOUS
<1>1. DOMAIN EmptyStore = {} /\ << >> \in Seq(DOMAIN Circuits) /\ IsQueue(<< >>)
      /\ Len(<< >>) = 0 /\ 1 .. 0 = {}
  <2>1. << >> \in Seq({}) /\ << >> \in Seq(DOMAIN Circuits) /\ Len(<< >>) = 0 /\ 1 .. 0 = {}
    OBVIOUS
  <2>2. IsQueue(<< >>)
    BY <2>1, QueueOf
  <2>3. DOMAIN EmptyStore = {}
    BY DEF EmptyStore
  <2> QED
    BY <2>1, <2>2, <2>3
<1>2. /\ view["v"] = NewView /\ faults = 0 /\ calls = 0
      /\ \A p \in Roles : /\ data[p] = EmptyStore /\ auth[p] = EmptyStore /\ tasks[p] = EmptyStore
                          /\ results[p] = {} /\ stack[p] = << >> /\ chunk[p] = << >>
                          /\ check[p] = << >> /\ net[p] = << >>
                          /\ pc[p] = "idle" /\ ret[p] = "idle" /\ home[p] = "idle"
  BY DEF Init, Roles
<1>3. Shape
  BY DEF Init, Shape, PerRole
<1>4. "p" \in Roles /\ "v" \in Roles
  BY DEF Roles
<1>5. Scheduled
  <2>1. \A p \in Roles : Flow(pc[p], ret[p], home[p], chunk[p])
    BY <1>2 DEF Flow
  <2>2. \A p \in Roles : Staged(stack[p], chunk[p], tasks[p])
    BY <1>1, <1>2 DEF Staged
  <2>3. Between(pc["p"], check["p"], tasks["p"])
    BY <1>1, <1>2, <1>4 DEF Between
  <2> QED
    BY <1>2, <2>1, <2>2, <2>3 DEF Scheduled
<1>6. ProverState
  BY <1>1, <1>2, <1>4 DEF ProverState, Held, Slotted, Right, RightMacs, RightBits, RightTasks,
                          RightResults
<1>7. VerifierState
  <2>1. ViewRight(view["v"])
    BY <1>2 DEF ViewRight, NewView, NewVisibility, EmptyFlush, Opened
  <2> QED
    BY <1>1, <1>2, <1>4, <2>1 DEF VerifierState, Adjusted, OpenCalls, OpenTasks, RightBits,
                                  RightResults
<1>8. Messages(net["v"], err["v"])
  BY <1>1, <1>2, <1>4 DEF Messages
<1> QED
  BY <1>3, <1>5, <1>6, <1>7, <1>8 DEF SoundInv

\* What both machines do in flush and execute.
LEMMA PartySound ==
  ASSUME Inv, SoundInv, NEW p \in Roles, Party(p) PROVE SoundInv'
BY SetAuthSound, ExecuteAllSound, StageSound, StartBatchSound, EndBatchSound DEF Party

\* Every operation of the applications, and every step of a machine.
LEMMA SoundNext ==
  ASSUME Inv, SoundInv, [Next]_vars PROVE SoundInv'
<1>1. CASE UNCHANGED vars
  <2>1. UNCHANGED <<view, data, auth, results, stack, check, pc, ret, home, chunk, tasks, net, err,
                    calls, faults>>
    BY <1>1 DEF vars, stores, decodes, checking, control, messages
  <2>2. Shape' /\ Scheduled' /\ Messages(net'["v"], err'["v"])
    BY <2>1, ShapeSame, ScheduledSame DEF SoundInv, Shape
  <2>3. ProverState' /\ VerifierState'
    BY <2>1, ProverStateSame, VerifierStateSame DEF SoundInv
  <2> QED
    BY <2>2, <2>3 DEF SoundInv
<1>2. CASE Application
  <2>1. ASSUME NEW S \in Slices \cup {Slice(Out(k), 1) : k \in 1 .. calls}, DecodeRaw(S)
        PROVE  SoundInv'
    BY <2>1, DecodeRawSound, SliceAddr
  <2>2. ASSUME NEW S \in Slices, CommitRaw(S) PROVE SoundInv'
    BY <2>2, CommitRawSound, SliceAddr
  <2> QED
    BY <1>2, <2>1, <2>2, AllocRawSound, MarkRawSound, AssignRawSound, CallRawSound, StartSound
       DEF Application
<1>3. CASE Prover
  BY <1>3, PartySound, OtFlushSound, SendFlushSound, ProverCheckSound, ProverTaskSound
     DEF Prover, Roles
<1>4. CASE Verifier
  BY <1>4, PartySound, OtFlushSound, ReceiveFlushSound, VerifierCheckSound, VerifierTaskSound
     DEF Verifier, Roles
<1> QED
  BY <1>1, <1>2, <1>3, <1>4 DEF Next

\* What was decoded is the truth.
LEMMA SoundImplies == SoundInv => Soundness
<1> SUFFICES ASSUME SoundInv, NEW p \in Roles, p = "v" \/ faults = 0,
                    NEW r \in results[p], NEW a \in r[1]
             PROVE  r[2][a] = Truth[a]
  BY DEF Soundness
<1>1. CASE p = "v"
  BY <1>1 DEF SoundInv, VerifierState, RightResults
<1>2. CASE p = "p" /\ faults = 0
  BY <1>2 DEF SoundInv, ProverState, RightResults
<1> QED
  BY <1>1, <1>2 DEF Roles

\* Whatever a decode future of the verifier resolves to is what the inputs
\* determine, whichever AND gates the prover computed wrongly, and so is what
\* a prover without faults decodes (execute and flush of both machines,
\* check_verifier, KeyStore::verify): for every layout of the memory, every
\* circuit, every batch and chunk size and any number of faults.
THEOREM DecodesSoundly == Spec => []Soundness
<1>1. Inv /\ SoundInv /\ [Next]_vars => (Inv /\ SoundInv)'
  BY InvNext, SoundNext
<1>2. Init => Inv /\ SoundInv
  BY InitInv, SoundInit
<1>3. Inv /\ SoundInv => Soundness
  BY SoundImplies
<1> QED
  BY <1>1, <1>2, <1>3, PTL DEF Spec
-----------------------------------------------------------------------------
(***************************************************************************)
(* The OTs.  First what a chunk and its checks consume.                    *)
(***************************************************************************)

\* Adding up the AND gates of calls, one after another.
LEMMA PrefixSums ==
  ASSUME NEW seq \in Seq(DOMAIN Circuits)
  PROVE  \E f \in [0 .. Len(seq) -> Nat] :
           /\ f[0] = 0 /\ SumAnds(seq) = f[Len(seq)]
           /\ \A i \in 1 .. Len(seq) : f[i] = f[i - 1] + Ands(seq[i])
           /\ \A i \in 0 .. Len(seq) : SumAnds(SubSeq(seq, 1, i)) = f[i]
<1> DEFINE n == Len(seq)
           w == [i \in 1 .. n |-> Ands(seq[i])]
<1>1. n \in Nat /\ \A i \in 1 .. n : seq[i] \in DOMAIN Circuits
  OBVIOUS
<1>2. \A i \in 1 .. n : w[i] = Ands(seq[i]) /\ w[i] \in Nat
  BY <1>1, AndsNat
<1> HIDE DEF w, n
<1>3. PICK f : Sums(w, n, f)
  BY <1>1, <1>2, SumsExist
<1>4. f \in [0 .. n -> Nat] /\ f[0] = 0 /\ \A i \in 1 .. n : f[i] = f[i - 1] + Ands(seq[i])
  BY <1>2, <1>3 DEF Sums
<1>5. SumAnds(seq) = f[n]
  BY <1>1, <1>4, SumAndsIs DEF n
<1>6. ASSUME NEW i \in 0 .. n PROVE SumAnds(SubSeq(seq, 1, i)) = f[i]
  <2> DEFINE s == SubSeq(seq, 1, i)
  <2>1. i \in Nat /\ Len(s) = i /\ \A j \in 1 .. i : s[j] = seq[j] /\ j \in 1 .. n
    BY <1>1 DEF n
  <2>2. ASSUME NEW j \in 1 .. i PROVE f[j] = f[j - 1] + Ands(s[j])
    <3>1. s[j] = seq[j] /\ j \in 1 .. n
      BY <2>1
    <3> HIDE DEF s
    <3>2. f[j] = f[j - 1] + Ands(seq[j])
      BY <1>4, <3>1
    <3> QED
      BY <3>1, <3>2
  <2> HIDE DEF s
  <2>3. SumAnds(s) = f[i]
    <3>1. i \in Nat /\ Len(s) = i /\ f[0] = 0
      BY <1>4, <2>1
    <3>2. \A j \in 1 .. i : f[j] = f[j - 1] + Ands(s[j])
      BY <2>2
    <3> QED
      BY ONLY <3>1, <3>2, SumAndsIs, ZenonT(30)
  <2> QED
    BY <2>3 DEF s
<1> QED
  BY <1>4, <1>5, <1>6 DEF n

\* The AND gates of a chunk are those of a beginning of it and of the rest.
LEMMA SumSplit ==
  ASSUME NEW seq \in Seq(DOMAIN Circuits), NEW n \in 0 .. Len(seq)
  PROVE  SumAnds(seq) = SumAnds(SubSeq(seq, 1, n)) + SumAnds(SubSeq(seq, n + 1, Len(seq)))
<1> DEFINE N == Len(seq)
           r == SubSeq(seq, n + 1, N)
<1>1. PICK f \in [0 .. N -> Nat] :
           /\ f[0] = 0 /\ SumAnds(seq) = f[N]
           /\ \A i \in 1 .. N : f[i] = f[i - 1] + Ands(seq[i])
           /\ \A i \in 0 .. N : SumAnds(SubSeq(seq, 1, i)) = f[i]
  BY PrefixSums
<1>2. N \in Nat /\ n \in Nat /\ N - n \in Nat
  OBVIOUS
<1>3. Len(r) = N - n /\ \A i \in 1 .. N - n : r[i] = seq[n + i]
  BY <1>2
<1> DEFINE g == [i \in 0 .. N - n |-> f[n + i] - f[n]]
<1> HIDE DEF r, N
<1>4. \A i \in 0 .. N - n : g[i] = f[n + i] - f[n] /\ f[n + i] \in Nat /\ f[n] \in Nat
  <2>1. \A i \in 0 .. N - n : n + i \in 0 .. N /\ n \in 0 .. N
    BY <1>2
  <2> QED
    BY <2>1
<1> HIDE DEF g
<1>5. g[0] = 0 /\ g[N - n] = f[N] - f[n]
  <2>1. 0 \in 0 .. N - n /\ N - n \in 0 .. N - n /\ n + 0 = n /\ n + (N - n) = N
    BY <1>2
  <2> QED
    BY <1>4, <2>1
<1>6. ASSUME NEW i \in 1 .. N - n PROVE g[i] = g[i - 1] + Ands(r[i])
  <2>1. i \in 0 .. N - n /\ i - 1 \in 0 .. N - n /\ n + i \in 1 .. N /\ n + (i - 1) = n + i - 1
    BY <1>2
  <2>2. f[n + i] = f[n + i - 1] + Ands(seq[n + i]) /\ seq[n + i] \in DOMAIN Circuits
    BY <1>1, <2>1 DEF N
  <2>3. Ands(seq[n + i]) \in Nat
    BY <2>2, AndsNat
  <2>4. r[i] = seq[n + i]
    BY <1>3
  <2>5. /\ g[i] = f[n + i] - f[n] /\ g[i - 1] = f[n + i - 1] - f[n]
        /\ f[n] \in Nat /\ f[n + i - 1] \in Nat
    BY <1>4, <2>1
  <2>6. f[n + i] = f[n + i - 1] + Ands(r[i]) /\ Ands(r[i]) \in Nat
    BY <2>2, <2>3, <2>4
  <2> DEFINE x == f[n]
             y == f[n + i - 1]
             a == Ands(r[i])
  <2>7. g[i] = (y + a) - x /\ g[i - 1] = y - x
    BY <2>5, <2>6
  <2>8. x \in Nat /\ y \in Nat /\ a \in Nat
    BY <2>5, <2>6
  <2> HIDE DEF x, y, a
  <2>9. (y + a) - x = (y - x) + a
    BY <2>8
  <2> QED
    BY <2>7, <2>9 DEF a
<1>7. SumAnds(r) = g[N - n]
  <2>1. N - n \in Nat /\ Len(r) = N - n /\ g[0] = 0
    BY <1>2, <1>3, <1>5
  <2>2. \A i \in 1 .. N - n : g[i] = g[i - 1] + Ands(r[i])
    BY <1>6
  <2> QED
    BY ONLY <2>1, <2>2, SumAndsIs, ZenonT(30)
<1>8. f[N] \in Nat /\ f[n] \in Nat /\ n \in 0 .. N
  BY <1>2
<1> QED
  BY <1>1, <1>5, <1>7, <1>8 DEF r, N

\* Filling batches from a first number of triples: f says how many wait after
\* each call, g how many checks there were.
Filling(start, seq, n, f, g) ==
  /\ f \in [0 .. n -> Nat] /\ g \in [0 .. n -> Nat] /\ f[0] = start /\ g[0] = 0
  /\ \A i \in 1 .. n :
       IF f[i - 1] + Ands(seq[i]) >= BatchSize THEN f[i] = 0 /\ g[i] = g[i - 1] + 1
       ELSE f[i] = f[i - 1] + Ands(seq[i]) /\ g[i] = g[i - 1]

\* Every chunk fills batches.
LEMMA FillingExists ==
  ASSUME NEW start \in Nat, NEW seq, NEW n \in Nat, \A i \in 1 .. n : Ands(seq[i]) \in Nat
  PROVE  \E f, g : Filling(start, seq, n, f, g)
<1> DEFINE Bad == {k \in 0 .. n : ~\E f, g : Filling(start, seq, k, f, g)}
<1>1. SUFFICES ASSUME Bad # {} PROVE FALSE
  <2>1. n \in 0 .. n
    OBVIOUS
  <2> QED
    BY <2>1
<1>2. PICK k \in Bad : \A i \in Bad : ~(i < k)
  <2>1. Bad \in SUBSET Nat
    OBVIOUS
  <2> HIDE DEF Bad
  <2> QED
    BY <1>1, <2>1, LeastNumber
<1>3. k # 0
  <2> DEFINE f == [i \in 0 .. 0 |-> start]
             g == [i \in 0 .. 0 |-> 0]
  <2>1. f \in [0 .. 0 -> Nat] /\ f[0] = start /\ g \in [0 .. 0 -> Nat] /\ g[0] = 0 /\ 1 .. 0 = {}
    OBVIOUS
  <2>2. Filling(start, seq, 0, f, g)
    BY <2>1 DEF Filling
  <2> QED
    BY <2>2
<1>4. k \in 1 .. n /\ k - 1 \in 0 .. n /\ k - 1 < k
  BY <1>3
<1>5. PICK f, g : Filling(start, seq, k - 1, f, g)
  BY <1>2, <1>4
<1> DEFINE t == f[k - 1] + Ands(seq[k])
           full == t >= BatchSize
           f2 == [i \in 0 .. k |-> IF i = k THEN IF full THEN 0 ELSE t ELSE f[i]]
           g2 == [i \in 0 .. k |-> IF i = k THEN IF full THEN g[k - 1] + 1 ELSE g[k - 1] ELSE g[i]]
<1>6. /\ f \in [0 .. k - 1 -> Nat] /\ g \in [0 .. k - 1 -> Nat] /\ f[0] = start /\ g[0] = 0
      /\ \A i \in 1 .. k - 1 :
           IF f[i - 1] + Ands(seq[i]) >= BatchSize THEN f[i] = 0 /\ g[i] = g[i - 1] + 1
           ELSE f[i] = f[i - 1] + Ands(seq[i]) /\ g[i] = g[i - 1]
  BY <1>5 DEF Filling
<1>7. t \in Nat /\ g[k - 1] \in Nat
  <2>1. k - 1 \in 0 .. k - 1
    BY <1>4
  <2>2. f[k - 1] \in Nat /\ g[k - 1] \in Nat /\ Ands(seq[k]) \in Nat
    BY <1>4, <1>6, <2>1
  <2> QED
    BY <2>2
<1> HIDE DEF full
<1>8. /\ f2 \in [0 .. k -> Nat] /\ f2[k] = IF full THEN 0 ELSE t
      /\ \A i \in 0 .. k - 1 : f2[i] = f[i]
  <2>1. \A i \in 0 .. k : i # k => i \in 0 .. k - 1
    BY <1>4
  <2>2. k \in 0 .. k /\ \A i \in 0 .. k - 1 : i \in 0 .. k /\ i # k
    BY <1>4
  <2> HIDE DEF t
  <2> QED
    BY <1>6, <1>7, <2>1, <2>2
<1>9. /\ g2 \in [0 .. k -> Nat] /\ g2[k] = IF full THEN g[k - 1] + 1 ELSE g[k - 1]
      /\ \A i \in 0 .. k - 1 : g2[i] = g[i]
  <2>1. \A i \in 0 .. k : i # k => i \in 0 .. k - 1
    BY <1>4
  <2>2. k \in 0 .. k /\ \A i \in 0 .. k - 1 : i \in 0 .. k /\ i # k
    BY <1>4
  <2> QED
    BY <1>6, <1>7, <2>1, <2>2
<1> HIDE DEF f2, g2
<1>10. ASSUME NEW i \in 1 .. k
       PROVE  IF f2[i - 1] + Ands(seq[i]) >= BatchSize THEN f2[i] = 0 /\ g2[i] = g2[i - 1] + 1
              ELSE f2[i] = f2[i - 1] + Ands(seq[i]) /\ g2[i] = g2[i - 1]
  <2>1. i - 1 \in 0 .. k - 1
    BY <1>4
  <2>2. f2[i - 1] = f[i - 1] /\ g2[i - 1] = g[i - 1]
    BY <1>8, <1>9, <2>1
  <2>3. CASE i = k
    BY <1>8, <1>9, <2>2, <2>3 DEF full
  <2>4. CASE i # k
    <3>1. i \in 1 .. k - 1 /\ i \in 0 .. k - 1
      BY <1>4, <2>4
    <3>2. f2[i] = f[i] /\ g2[i] = g[i]
      BY <1>8, <1>9, <3>1
    <3> QED
      BY <1>6, <2>2, <3>1, <3>2
  <2> QED
    BY <2>3, <2>4
<1>11. 0 \in 0 .. k - 1
  BY <1>4
<1>12. Filling(start, seq, k, f2, g2)
  BY <1>6, <1>8, <1>9, <1>10, <1>11 DEF Filling
<1> QED
  BY <1>2, <1>12

\* ChunkChecks counts the checks of a filling, and one for what is left.
LEMMA ChecksAre ==
  ASSUME NEW start \in Nat, NEW n \in Nat, NEW seq, Len(seq) = n, DOMAIN seq = 1 .. n,
         NEW f, NEW g, Filling(start, seq, n, f, g)
  PROVE  ChunkChecks(start, seq) = g[n] + (IF f[n] > 0 THEN 1 ELSE 0)
<1> DEFINE Rule(h, i) == IF i = 0 THEN start
                         ELSE LET m == h[i - 1] + Ands(seq[i])
                              IN  IF m >= BatchSize THEN 0 ELSE m
           Whole(h) == h = [i \in 0 .. n |-> Rule(h, i)]
           pend == CHOOSE h : Whole(h)
           R(i) == pend[i - 1] + Ands(seq[i]) >= BatchSize
<1>1. /\ f \in [0 .. n -> Nat] /\ g \in [0 .. n -> Nat] /\ f[0] = start /\ g[0] = 0
      /\ \A i \in 1 .. n :
           IF f[i - 1] + Ands(seq[i]) >= BatchSize THEN f[i] = 0 /\ g[i] = g[i - 1] + 1
           ELSE f[i] = f[i - 1] + Ands(seq[i]) /\ g[i] = g[i - 1]
  BY DEF Filling
<1>2. Whole(f)
  <2>1. ASSUME NEW i \in 0 .. n PROVE f[i] = Rule(f, i)
    <3>1. CASE i = 0
      BY <1>1, <3>1
    <3>2. CASE i # 0
      <4>1. i \in 1 .. n
        BY <3>2
      <4> QED
        BY <1>1, <3>2, <4>1
    <3> QED
      BY <3>1, <3>2
  <2>2. f = [i \in 0 .. n |-> f[i]]
    BY <1>1
  <2> HIDE DEF Rule
  <2> QED
    BY <2>1, <2>2
<1>3. Whole(pend)
  <2>1. \E h : Whole(h)
    BY <1>2
  <2> HIDE DEF Whole
  <2> QED
    BY <2>1
<1>4. ChunkChecks(start, seq)
        = Cardinality({i \in 1 .. n : R(i)}) + (IF pend[n] > 0 THEN 1 ELSE 0)
  BY DEF ChunkChecks
<1> HIDE DEF pend
<1>5. \A i \in 0 .. n : pend[i] = Rule(pend, i)
  <2> HIDE DEF Rule
  <2> QED
    BY <1>3, Zenon
<1>6. \A i \in 0 .. n : f[i] = Rule(f, i)
  <2> HIDE DEF Rule
  <2> QED
    BY <1>2, Zenon
<1> HIDE DEF Whole
<1>7. \A i \in 0 .. n : pend[i] = f[i]
  <2> DEFINE Bad == {i \in 0 .. n : pend[i] # f[i]}
  <2>1. SUFFICES ASSUME Bad # {} PROVE FALSE
    OBVIOUS
  <2>2. PICK k \in Bad : \A i \in Bad : ~(i < k)
    <3>1. Bad \in SUBSET Nat
      OBVIOUS
    <3> HIDE DEF Bad
    <3> QED
      BY <2>1, <3>1, LeastNumber
  <2>3. k # 0
    BY <1>5, <1>6, <2>2
  <2>4. k - 1 \in 0 .. n /\ k - 1 < k /\ k \in 0 .. n
    BY <2>2, <2>3
  <2>5. pend[k - 1] = f[k - 1]
    BY <2>2, <2>4
  <2> QED
    BY <1>5, <1>6, <2>2, <2>3, <2>4, <2>5
<1>8. \A i \in 1 .. n : R(i) <=> f[i - 1] + Ands(seq[i]) >= BatchSize
  <2>1. \A i \in 1 .. n : i - 1 \in 0 .. n
    OBVIOUS
  <2> QED
    BY <1>7, <2>1
<1> HIDE DEF R, Rule
<1> DEFINE C(k) == {i \in 1 .. k : R(i)}
<1>9. \A k \in 0 .. n : IsFiniteSet(C(k)) /\ Cardinality(C(k)) = g[k]
  <2> DEFINE Bad == {k \in 0 .. n : ~(IsFiniteSet(C(k)) /\ Cardinality(C(k)) = g[k])}
  <2>1. SUFFICES ASSUME Bad # {} PROVE FALSE
    OBVIOUS
  <2>2. PICK k \in Bad : \A i \in Bad : ~(i < k)
    <3>1. Bad \in SUBSET Nat
      OBVIOUS
    <3> HIDE DEF Bad
    <3> QED
      BY <2>1, <3>1, LeastNumber
  <2>3. k # 0
    <3>1. C(0) = {}
      OBVIOUS
    <3>2. IsFiniteSet({}) /\ Cardinality({}) = 0
      BY FS_EmptySet
    <3> HIDE DEF C
    <3> QED
      BY <1>1, <2>2, <3>1, <3>2
  <2>4. k - 1 \in 0 .. n /\ k - 1 < k /\ k \in 1 .. n
    BY <2>2, <2>3
  <2>5. IsFiniteSet(C(k - 1)) /\ Cardinality(C(k - 1)) = g[k - 1] /\ g[k - 1] \in Nat
    BY <1>1, <2>2, <2>4
  <2>6. C(k) = IF R(k) THEN C(k - 1) \cup {k} ELSE C(k - 1)
    <3>1. \A i : i \in 1 .. k <=> i \in 1 .. k - 1 \/ i = k
      BY <2>4
    <3> QED
      BY <3>1
  <2>7. k \notin C(k - 1)
    BY <2>4
  <2> HIDE DEF C
  <2>8. CASE R(k)
    <3>1. C(k) = C(k - 1) \cup {k}
      BY <2>6, <2>8
    <3>2. IsFiniteSet(C(k)) /\ Cardinality(C(k)) = Cardinality(C(k - 1)) + 1
      BY <2>5, <2>7, <3>1, FS_AddElement
    <3>3. g[k] = g[k - 1] + 1
      BY <1>1, <1>8, <2>4, <2>8
    <3> QED
      BY <2>2, <2>5, <3>2, <3>3
  <2>9. CASE ~R(k)
    <3>1. C(k) = C(k - 1)
      BY <2>6, <2>9
    <3>2. g[k] = g[k - 1]
      BY <1>1, <1>8, <2>4, <2>9
    <3> QED
      BY <2>2, <2>5, <3>1, <3>2
  <2> QED
    BY <2>8, <2>9
<1>10. n \in 0 .. n
  OBVIOUS
<1>11. Cardinality(C(n)) = g[n] /\ pend[n] = f[n]
  BY <1>7, <1>9, <1>10
<1> QED
  BY <1>4, <1>11

\* ChunkChecks is a number, and none without calls and triples.
LEMMA ChecksNat ==
  /\ \A start \in Nat : \A seq \in Seq(DOMAIN Circuits) : ChunkChecks(start, seq) \in Nat
  /\ SumAnds(<< >>) = 0 /\ ChunkChecks(0, << >>) = 0
<1>1. ASSUME NEW start \in Nat, NEW seq \in Seq(DOMAIN Circuits)
      PROVE  ChunkChecks(start, seq) \in Nat
  <2>1. Len(seq) \in Nat /\ DOMAIN seq = 1 .. Len(seq) /\ \A i \in 1 .. Len(seq) : Ands(seq[i]) \in Nat
    BY AndsNat
  <2>2. PICK f, g : Filling(start, seq, Len(seq), f, g)
    BY <2>1, FillingExists
  <2>3. ChunkChecks(start, seq) = g[Len(seq)] + (IF f[Len(seq)] > 0 THEN 1 ELSE 0)
    BY <2>1, <2>2, ChecksAre
  <2>4. g[Len(seq)] \in Nat
    BY <2>1, <2>2 DEF Filling
  <2> QED
    BY <2>3, <2>4
<1>2. SumAnds(<< >>) = 0 /\ ChunkChecks(0, << >>) = 0
  <2> DEFINE z == [i \in 0 .. 0 |-> 0]
  <2>1. z \in [0 .. 0 -> Nat] /\ z[0] = 0 /\ 1 .. 0 = {} /\ Len(<< >>) = 0 /\ DOMAIN << >> = 1 .. 0 /\ 0 \in Nat
    OBVIOUS
  <2> HIDE DEF z
  <2>2. Filling(0, << >>, 0, z, z)
    BY <2>1 DEF Filling
  <2>3. ChunkChecks(0, << >>) = z[0] + (IF z[0] > 0 THEN 1 ELSE 0)
    BY ONLY <2>1, <2>2, ChecksAre
  <2>4. SumAnds(<< >>) = z[0]
    BY ONLY <2>1, SumAndsIs
  <2> QED
    BY <2>1, <2>3, <2>4
<1> QED
  BY <1>1, <1>2

\* A batch of n triples is checked when c is left of the chunk.
Full(n, c) == n >= BatchSize \/ (c = << >> /\ n > 0)

\* The first batch of a chunk c that begins with `start` triples: n calls,
\* after which t triples wait.
FirstBatch(start, c, n, t, rest) ==
  /\ start \in Nat /\ start < BatchSize /\ n \in 1 .. Len(c)
  /\ \A m \in 1 .. n - 1 : start + SumAnds(SubSeq(c, 1, m)) < BatchSize
  /\ t = start + SumAnds(SubSeq(c, 1, n)) /\ (t >= BatchSize \/ n = Len(c))
  /\ rest = SubSeq(c, n + 1, Len(c))

\* Whole calls until the batch is full or the chunk ends make one check, if
\* there is anything to check, and the rest makes its own.
ChecksAfter(t, rest) ==
  IF Full(t, rest) THEN 1 + ChunkChecks(0, rest) ELSE ChunkChecks(t, rest)

LEMMA ChecksSplit ==
  ASSUME NEW c \in Seq(DOMAIN Circuits), NEW start, NEW n, NEW t, NEW rest,
         FirstBatch(start, c, n, t, rest)
  PROVE  ChunkChecks(start, c) = ChecksAfter(t, rest)
<1> SUFFICES ASSUME start \in Nat, start < BatchSize, n \in 1 .. Len(c),
                    \A m \in 1 .. n - 1 : start + SumAnds(SubSeq(c, 1, m)) < BatchSize,
                    t = start + SumAnds(SubSeq(c, 1, n)), t >= BatchSize \/ n = Len(c),
                    rest = SubSeq(c, n + 1, Len(c))
             PROVE  ChunkChecks(start, c) = IF Full(t, rest) THEN 1 + ChunkChecks(0, rest)
                                            ELSE ChunkChecks(t, rest)
  BY DEF FirstBatch, ChecksAfter
<1> DEFINE N == Len(c)
<1>1. /\ N \in Nat /\ DOMAIN c = 1 .. N /\ \A i \in 1 .. N : Ands(c[i]) \in Nat
      /\ BatchSize \in Nat /\ BatchSize > 0
  <2>1. N \in Nat /\ DOMAIN c = 1 .. N /\ \A i \in 1 .. N : c[i] \in DOMAIN Circuits
    OBVIOUS
  <2>2. BatchSize \in Nat /\ BatchSize > 0
    BY ConstantsOK
  <2> HIDE DEF N
  <2>3. \A i \in 1 .. N : Ands(c[i]) \in Nat
    BY <2>1, AndsNat
  <2> QED
    BY <2>1, <2>2, <2>3
<1>2. PICK f, g : Filling(start, c, N, f, g)
  BY <1>1, FillingExists, ZenonT(30)
<1>3. ChunkChecks(start, c) = g[N] + (IF f[N] > 0 THEN 1 ELSE 0)
  BY <1>1, <1>2, ChecksAre, ZenonT(30)
<1>4. PICK s \in [0 .. N -> Nat] :
           /\ s[0] = 0
           /\ \A i \in 1 .. N : s[i] = s[i - 1] + Ands(c[i])
           /\ \A i \in 0 .. N : SumAnds(SubSeq(c, 1, i)) = s[i]
  BY PrefixSums
<1>5. rest \in Seq(DOMAIN Circuits) /\ Len(rest) = N - n /\ \A i \in 1 .. N - n : rest[i] = c[n + i]
  BY ONLY c \in Seq(DOMAIN Circuits), n \in 1 .. Len(c), rest = SubSeq(c, n + 1, Len(c))
<1> HIDE DEF N
<1>6. /\ f \in [0 .. N -> Nat] /\ g \in [0 .. N -> Nat] /\ f[0] = start /\ g[0] = 0
      /\ \A i \in 1 .. N :
           IF f[i - 1] + Ands(c[i]) >= BatchSize THEN f[i] = 0 /\ g[i] = g[i - 1] + 1
           ELSE f[i] = f[i - 1] + Ands(c[i]) /\ g[i] = g[i - 1]
  BY <1>2 DEF Filling
<1>7. n \in 1 .. N /\ n \in Nat /\ n \in 0 .. N /\ n - 1 \in 0 .. N /\ n - 1 \in 0 .. n - 1 /\ N - n \in Nat
  BY ONLY n \in 1 .. Len(c), Len(c) \in Nat, <1>1 DEF N
<1>8. t = start + s[n] /\ s[n] \in Nat /\ \A m \in 1 .. n - 1 : start + s[m] < BatchSize
  <2>1. \A m \in 1 .. n - 1 : m \in 0 .. N
    BY <1>1, <1>7
  <2> QED
    BY <1>4, <1>7, <2>1
<1>9. \A i \in 0 .. n - 1 : f[i] = start + s[i] /\ g[i] = 0
  <2> DEFINE Bad == {i \in 0 .. n - 1 : ~(f[i] = start + s[i] /\ g[i] = 0)}
  <2>1. SUFFICES ASSUME Bad # {} PROVE FALSE
    OBVIOUS
  <2>2. PICK k \in Bad : \A i \in Bad : ~(i < k)
    <3>1. Bad \in SUBSET Nat
      BY <1>7
    <3> HIDE DEF Bad
    <3> QED
      BY <2>1, <3>1, LeastNumber
  <2>3. k # 0
    BY <1>4, <1>6, <2>2
  <2>4. k - 1 \in 0 .. n - 1 /\ k - 1 < k /\ k \in 1 .. n - 1 /\ k \in 1 .. N /\ k \in 0 .. N /\ k - 1 \in 0 .. N
    BY <1>1, <1>7, <2>2, <2>3
  <2>5. f[k - 1] = start + s[k - 1] /\ g[k - 1] = 0
    BY <2>2, <2>4
  <2>6. s[k] = s[k - 1] + Ands(c[k]) /\ s[k] \in Nat /\ s[k - 1] \in Nat /\ Ands(c[k]) \in Nat
    BY <1>1, <1>4, <2>4
  <2>7. f[k - 1] + Ands(c[k]) = start + s[k] /\ start + s[k] < BatchSize
    BY <1>8, <2>4, <2>5, <2>6
  <2>8. f[k] = f[k - 1] + Ands(c[k]) /\ g[k] = g[k - 1]
    <3>1. ~(f[k - 1] + Ands(c[k]) >= BatchSize)
      BY <1>1, <2>6, <2>7
    <3> QED
      BY <1>6, <2>4, <3>1
  <2> QED
    BY <2>2, <2>5, <2>7, <2>8
<1>10. f[n - 1] + Ands(c[n]) = t /\ g[n - 1] = 0
  <2>1. f[n - 1] = start + s[n - 1] /\ g[n - 1] = 0
    BY <1>7, <1>9
  <2>2. s[n] = s[n - 1] + Ands(c[n]) /\ s[n - 1] \in Nat /\ Ands(c[n]) \in Nat
    BY <1>1, <1>4, <1>7
  <2> QED
    BY <1>8, <2>1, <2>2
<1>11. CASE t >= BatchSize
  <2>1. f[n] = 0 /\ g[n] = 1
    BY <1>6, <1>7, <1>10, <1>11
  <2> DEFINE f2 == [i \in 0 .. N - n |-> f[n + i]]
             g2 == [i \in 0 .. N - n |-> g[n + i] - 1]
             Above == {i \in 0 .. N - n : ~(g[n + i] >= 1)}
  <2>2. \A i \in 0 .. N - n : n + i \in 0 .. N
    BY <1>1, <1>7
  <2>3. ASSUME NEW i \in 1 .. N - n
        PROVE  /\ i \in 0 .. N - n /\ i - 1 \in 0 .. N - n /\ n + (i - 1) = n + i - 1
               /\ n + i \in 1 .. N /\ n + i - 1 \in 0 .. N /\ n + i \in 0 .. N
               /\ IF f[n + i - 1] + Ands(rest[i]) >= BatchSize
                  THEN f[n + i] = 0 /\ g[n + i] = g[n + i - 1] + 1
                  ELSE f[n + i] = f[n + i - 1] + Ands(rest[i]) /\ g[n + i] = g[n + i - 1]
    <3>1. /\ i \in 0 .. N - n /\ i - 1 \in 0 .. N - n /\ n + (i - 1) = n + i - 1
          /\ n + i \in 1 .. N /\ n + i - 1 \in 0 .. N /\ n + i \in 0 .. N
      BY <1>1, <1>7
    <3>2. rest[i] = c[n + i]
      BY <1>5
    <3>3. IF f[n + i - 1] + Ands(c[n + i]) >= BatchSize
          THEN f[n + i] = 0 /\ g[n + i] = g[n + i - 1] + 1
          ELSE f[n + i] = f[n + i - 1] + Ands(c[n + i]) /\ g[n + i] = g[n + i - 1]
      BY <1>6, <3>1
    <3> QED
      BY ONLY <3>1, <3>2, <3>3
  <2>4. Above = {}
    <3>1. SUFFICES ASSUME Above # {} PROVE FALSE
      OBVIOUS
    <3>2. PICK k \in Above : \A i \in Above : ~(i < k)
      <4>1. Above \in SUBSET Nat
        BY <1>7
      <4> HIDE DEF Above
      <4> QED
        BY <3>1, <4>1, LeastNumber
    <3>3. k # 0
      BY <1>7, <2>1, <3>2
    <3>4. k \in 1 .. N - n /\ k - 1 < k
      BY <3>2, <3>3
    <3>5. g[n + k - 1] >= 1 /\ g[n + k - 1] \in Nat
      BY <1>6, <2>3, <3>2, <3>4
    <3>6. g[n + k] = g[n + k - 1] \/ g[n + k] = g[n + k - 1] + 1
      BY <2>3, <3>4
    <3> QED
      BY <3>2, <3>5, <3>6
  <2>5. \A i \in 0 .. N - n : g[n + i] - 1 \in Nat /\ f[n + i] \in Nat
    <3>1. \A i \in 0 .. N - n : g[n + i] >= 1 /\ g[n + i] \in Nat /\ f[n + i] \in Nat
      BY <1>6, <2>2, <2>4
    <3> QED
      BY <3>1
  <2> HIDE DEF Above
  <2>6. /\ f2 \in [0 .. N - n -> Nat] /\ g2 \in [0 .. N - n -> Nat]
        /\ \A i \in 0 .. N - n : f2[i] = f[n + i] /\ g2[i] = g[n + i] - 1
    BY <2>5
  <2> HIDE DEF f2, g2
  <2>7. f2[0] = 0 /\ g2[0] = 0 /\ f2[N - n] = f[N] /\ g2[N - n] = g[N] - 1
    <3>1. 0 \in 0 .. N - n /\ N - n \in 0 .. N - n /\ n + 0 = n /\ n + (N - n) = N
      BY <1>1, <1>7
    <3> QED
      BY <2>1, <2>6, <3>1
  <2>8. ASSUME NEW i \in 1 .. N - n
        PROVE  IF f2[i - 1] + Ands(rest[i]) >= BatchSize THEN f2[i] = 0 /\ g2[i] = g2[i - 1] + 1
               ELSE f2[i] = f2[i - 1] + Ands(rest[i]) /\ g2[i] = g2[i - 1]
    <3>1. f2[i] = f[n + i] /\ g2[i] = g[n + i] - 1 /\ f2[i - 1] = f[n + i - 1] /\ g2[i - 1] = g[n + i - 1] - 1
      BY <2>3, <2>6
    <3>2. g[n + i] \in Nat /\ g[n + i - 1] \in Nat
      BY <1>6, <2>3
    <3> DEFINE a == f[n + i - 1] + Ands(rest[i])
               x == g[n + i]
               y == g[n + i - 1]
    <3>3. IF a >= BatchSize THEN f[n + i] = 0 /\ x = y + 1 ELSE f[n + i] = a /\ x = y
      BY <2>3
    <3>4. f2[i] = f[n + i] /\ f2[i - 1] + Ands(rest[i]) = a /\ g2[i] = x - 1 /\ g2[i - 1] = y - 1
      BY <3>1
    <3>5. x \in Nat /\ y \in Nat
      BY <3>2
    <3> HIDE DEF a, x, y
    <3>6. CASE a >= BatchSize
      <4>1. x - 1 = (y - 1) + 1
        BY <3>3, <3>5, <3>6
      <4> QED
        BY <3>3, <3>4, <3>6, <4>1
    <3>7. CASE ~(a >= BatchSize)
      BY <3>3, <3>4, <3>7
    <3> QED
      BY <3>6, <3>7
  <2>9. Filling(0, rest, N - n, f2, g2)
    BY <2>6, <2>7, <2>8 DEF Filling
  <2>10. ChunkChecks(0, rest) = g2[N - n] + (IF f2[N - n] > 0 THEN 1 ELSE 0)
    <3>1. 0 \in Nat /\ N - n \in Nat /\ Len(rest) = N - n /\ DOMAIN rest = 1 .. N - n
      BY <1>5, <1>7
    <3> QED
      BY ONLY <2>9, <3>1, ChecksAre
  <2>11. g[N] \in Nat
    BY <1>1, <1>6
  <2>12. Full(t, rest)
    BY <1>11 DEF Full
  <2> QED
    BY <1>3, <2>7, <2>10, <2>11, <2>12
<1>12. CASE ~(t >= BatchSize)
  <2>1. n = N /\ rest = << >>
    BY <1>5, <1>12 DEF N
  <2>2. f[n] = t /\ g[n] = 0
    BY <1>6, <1>7, <1>10, <1>12
  <2>3. t \in Nat
    BY <1>8
  <2>4. ChunkChecks(start, c) = IF t > 0 THEN 1 ELSE 0
    BY ONLY <1>3, <2>1, <2>2, <2>3
  <2>5. Full(t, rest) <=> t > 0
    BY ONLY <1>1, <1>12, <2>1, <2>3 DEF Full
  <2>6. CASE t > 0
    BY ONLY <2>1, <2>4, <2>5, <2>6, ChecksNat
  <2>7. CASE ~(t > 0)
    <3>1. t = 0
      BY ONLY <2>3, <2>7
    <3> QED
      BY ONLY <2>1, <2>4, <2>5, <2>7, <3>1, ChecksNat
  <2> QED
    BY <2>6, <2>7
<1> QED
  BY <1>11, <1>12
-----------------------------------------------------------------------------
(***************************************************************************)
(* The inductive invariant of the OTs.                                     *)
(***************************************************************************)

\* Inputs that need MACs and keys of their own, and the addresses that may
\* have one while the party is at l.
Owned(v) == v.vis.private \cup v.vis.blind

Keyed(v, l) ==
  v.vis.public \cup v.outputs \cup v.committed \cup (IF l = "sync" THEN v.flush.commit ELSE {})

\* Of a view, and of the addresses that have a MAC or a key: an input without
\* visibility has none, and what waits to be committed gets one just before
\* the flush messages.
ViewSettled(v) ==
  /\ v.inputs \cap v.outputs = {} /\ Owned(v) \subseteq v.inputs
  /\ Owned(v) \cap v.vis.uninit = {} /\ Owned(v) \cap v.vis.public = {}
  /\ IsFiniteSet(Owned(v))
  /\ v.committed \subseteq v.vis.public \cup Owned(v)
  /\ v.flush.commit \subseteq Owned(v) \ v.committed

AuthSettled(v, l, D) ==
  D \subseteq Keyed(v, l) /\ (l = "sync" => v.flush.commit \subseteq D)

\* The checks execute still makes, from l on.
ChecksLeft(l, n, c) ==
  IF l \in {"tasks", "check"} /\ Full(n, c) THEN 1 + ChunkChecks(0, c) ELSE ChunkChecks(n, c)

\* OTs that are there or will be made, and what they are for: registered
\* gates and checks, inputs, the chunk and its checks.
Balanced(o, g, c, h, s, d) ==
  o.pending + Len(o.pool) = g + c * CheckOts + h + s + d * CheckOts

OtType(o) ==
  /\ o = [pending |-> o.pending, offset |-> o.offset, pool |-> o.pool]
  /\ o.pending \in Nat /\ IsQueue(o.pool)

\* Where OTs are consumed none waits to be made.
OtState(p) ==
  /\ OtType(ot[p]) /\ gates[p] \in Nat /\ checks[p] \in Nat
  /\ Balanced(ot[p], gates[p], checks[p], Cardinality(Owned(view[p]) \ DOMAIN auth[p]),
              SumAnds(chunk[p]), ChecksLeft(pc[p], Len(check[p]), chunk[p]))
  /\ pc[p] \in {"commit", "sync", "batch", "tasks", "check"} => ot[p].pending = 0

Reserved(T, n) == \A k \in DOMAIN T : T[k].idx \in Nat /\ T[k].idx + Ands(k) <= n

\* A chunk and its triples: between its staging and its end.
Staging(l, r, n, c, T) ==
  /\ l \notin {"batch", "tasks", "check"} => n = 0
  /\ c # << >> => l \in {"batch", "tasks", "check"} \/ (l \in {"flush", "commit", "sync"} /\ r = "batch")
  /\ l = "batch" => n < BatchSize
  /\ l = "check" => Full(n, c)
  /\ l # "tasks" => DOMAIN T = {}
  /\ Reserved(T, n)

Account(p) ==
  /\ ViewSettled(view[p]) /\ AuthSettled(view[p], pc[p], DOMAIN auth[p])
  /\ OtState(p)
  /\ IsQueue(check[p]) /\ Staging(pc[p], ret[p], Len(check[p]), chunk[p], tasks[p])

BudgetInv ==
  /\ PerRole(view) /\ PerRole(ot) /\ PerRole(gates) /\ PerRole(checks)
  /\ view["p"].vis.public = view["v"].vis.public
  /\ \A p \in Roles : Account(p)

\* What the account of a party depends on.
Books(p) ==
  <<view[p], auth[p], pc[p], ret[p], ot[p], gates[p], checks[p], check[p], chunk[p], tasks[p]>>
-----------------------------------------------------------------------------
\* An account nobody touches.
LEMMA AccountSame ==
  ASSUME NEW p \in Roles, Account(p), UNCHANGED Books(p) PROVE Account(p)'
BY DEF Account, Books, OtState

\* A step of one party.
LEMMA BudgetStep ==
  ASSUME BudgetInv, NEW p \in Roles, Account(p)', \A q \in Roles : q # p => UNCHANGED Books(q),
         PerRole(view'), PerRole(ot'), PerRole(gates'), PerRole(checks'),
         \A q \in Roles : view'[q].vis.public = view[q].vis.public
  PROVE  BudgetInv'
<1>1. \A q \in Roles : Account(q)'
  BY AccountSame DEF BudgetInv
<1>2. view'["p"].vis.public = view'["v"].vis.public
  BY DEF BudgetInv, Roles
<1> QED
  BY <1>1, <1>2 DEF BudgetInv

\* Nobody's books change.
LEMMA BudgetSame ==
  ASSUME BudgetInv, \A q \in Roles : UNCHANGED Books(q),
         PerRole(view'), PerRole(ot'), PerRole(gates'), PerRole(checks')
  PROVE  BudgetInv'
<1>1. \A q \in Roles : Account(q)' /\ view'[q] = view[q]
  BY AccountSame DEF BudgetInv, Books
<1> QED
  BY <1>1 DEF BudgetInv, Roles

\* What alloc, flush and the consumption of OTs do.
LEMMA OtFacts ==
  ASSUME NEW o, OtType(o), NEW n \in Nat
  PROVE  /\ Len(o.pool) \in Nat
         /\ LET a == OtAlloc(o, n) IN
              OtType(a) /\ a.pending = o.pending + n /\ Len(a.pool) = Len(o.pool)
         /\ \A off : LET a == OtFlushed(o, off) IN
              OtType(a) /\ a.pending = 0 /\ Len(a.pool) = Len(o.pool) + o.pending
         /\ OtHas(o, n) => LET a == OtTake(o, n) IN
              OtType(a) /\ a.pending = o.pending /\ Len(a.pool) = Len(o.pool) - n
<1> DEFINE x == o.pending
           y == o.offset
           q == o.pool
<1>1. o = [pending |-> x, offset |-> y, pool |-> q] /\ x \in Nat /\ IsQueue(q) /\ Len(q) \in Nat
  BY QueueFacts DEF OtType
<1> HIDE DEF x, y, q
<1>2. o.pending = x /\ o.offset = y /\ o.pool = q
  BY DEF x, y, q
<1>3. LET a == OtAlloc(o, n) IN
        OtType(a) /\ a.pending = x + n /\ Len(a.pool) = Len(q)
  <2> DEFINE a == OtAlloc(o, n)
  <2>1. a = [pending |-> x + n, offset |-> y, pool |-> q]
    BY <1>1 DEF OtAlloc
  <2> HIDE DEF a
  <2>2. OtType(a) /\ a.pending = x + n /\ Len(a.pool) = Len(q)
    BY <1>1, <2>1 DEF OtType
  <2> QED
    BY <2>2 DEF a
<1>4. ASSUME NEW off
      PROVE  LET a == OtFlushed(o, off) IN
               OtType(a) /\ a.pending = 0 /\ Len(a.pool) = Len(q) + x
  <2> DEFINE a == OtFlushed(o, off)
             W(i) == off + i
             r == [i \in 1 .. x |-> W(i)]
  <2>1. a = [pending |-> 0, offset |-> off + x, pool |-> q \o r]
    BY <1>2 DEF OtFlushed
  <2> HIDE DEF W
  <2>2. r \in Seq({r[i] : i \in 1 .. x}) /\ Len(r) = x
    BY <1>1
  <2> HIDE DEF a, r
  <2>3. Joined(q, r, q \o r)
    BY <1>1, <2>2, QueueOf, QueueConcat
  <2>4. OtType(a) /\ a.pending = 0 /\ Len(a.pool) = Len(q) + x
    BY <2>1, <2>2, <2>3 DEF OtType, Joined
  <2> QED
    BY <2>4 DEF a
<1>5. ASSUME OtHas(o, n)
      PROVE  LET a == OtTake(o, n) IN
               OtType(a) /\ a.pending = x /\ Len(a.pool) = Len(q) - n
  <2> DEFINE a == OtTake(o, n)
             r == SubSeq(q, 1, Len(q) - n)
  <2>0. a = [o EXCEPT !.pool = r]
    BY <1>2 DEF OtTake
  <2> HIDE DEF r
  <2>1. a = [pending |-> x, offset |-> y, pool |-> r]
    BY <1>1, <2>0
  <2>2. 1 \in 1 .. Len(q) + 1 /\ Len(q) - n \in 1 - 1 .. Len(q) /\ Len(q) - n - 1 + 1 = Len(q) - n
    BY <1>1, <1>2, <1>5 DEF OtHas
  <2>3. CutOut(q, 1, Len(q) - n, r)
    BY <1>1, <2>2, QueueSub DEF r
  <2> HIDE DEF a
  <2>4. OtType(a) /\ a.pending = x /\ Len(a.pool) = Len(q) - n
    BY <1>1, <2>1, <2>2, <2>3 DEF OtType, CutOut
  <2> QED
    BY <2>4 DEF a
<1> QED
  BY <1>1, <1>2, <1>3, <1>4, <1>5

\* Nothing is owed at first.
LEMMA BudgetInit == Init => BudgetInv
<1> SUFFICES ASSUME Init PROVE BudgetInv
  OBVIOUS
<1>1. /\ PerRole(view) /\ PerRole(ot) /\ PerRole(gates) /\ PerRole(checks)
      /\ \A p \in Roles :
           /\ view[p] = NewView /\ auth[p] = EmptyStore /\ pc[p] = "idle" /\ ret[p] = "idle"
           /\ ot[p] = [pending |-> 0, offset |-> 0, pool |-> << >>] /\ gates[p] = 0 /\ checks[p] = 0
           /\ check[p] = << >> /\ chunk[p] = << >> /\ tasks[p] = EmptyStore
  BY DEF Init, PerRole
<1>2. DOMAIN EmptyStore = {} /\ IsQueue(<< >>) /\ Len(<< >>) = 0
  <2>1. << >> \in Seq({}) /\ Len(<< >>) = 0
    OBVIOUS
  <2> QED
    BY <2>1, QueueOf DEF EmptyStore
<1>3. IsFiniteSet({}) /\ Cardinality({}) = 0
  BY FS_EmptySet
<1>4. ASSUME NEW p \in Roles PROVE Account(p)
  <2>1. Owned(view[p]) = {} /\ ViewSettled(view[p]) /\ AuthSettled(view[p], pc[p], DOMAIN auth[p])
    <3>1. Owned(NewView) = {}
      BY DEF Owned, NewView, NewVisibility
    <3>2. ViewSettled(NewView)
      BY <1>3, <3>1 DEF ViewSettled, NewView, NewVisibility, EmptyFlush
    <3>3. AuthSettled(NewView, "idle", {})
      BY DEF AuthSettled
    <3> QED
      BY <1>1, <1>2, <3>1, <3>2, <3>3
  <2>2. OtType(ot[p])
    BY <1>1, <1>2 DEF OtType
  <2>3. SumAnds(chunk[p]) = 0 /\ ChecksLeft(pc[p], Len(check[p]), chunk[p]) = 0
    BY <1>1, <1>2, ChecksNat DEF ChecksLeft
  <2>4. Cardinality(Owned(view[p]) \ DOMAIN auth[p]) = 0
    BY <1>3, <2>1
  <2>5. OtState(p)
    <3>1. 0 * CheckOts = 0
      BY ConstantsOK
    <3>2. Balanced(ot[p], 0, 0, 0, 0, 0)
      BY <1>1, <1>2, <3>1 DEF Balanced
    <3> QED
      BY <1>1, <2>2, <2>3, <2>4, <3>2 DEF OtState
  <2>6. Staging(pc[p], ret[p], Len(check[p]), chunk[p], tasks[p])
    BY <1>1, <1>2 DEF Staging, Reserved
  <2> QED
    BY <1>1, <1>2, <2>1, <2>5, <2>6 DEF Account
<1>5. view["p"].vis.public = view["v"].vis.public
  BY <1>1 DEF Roles
<1> QED
  BY <1>1, <1>4, <1>5 DEF BudgetInv
-----------------------------------------------------------------------------
(***************************************************************************)
(* flush and execute keep the accounts.                                    *)
(***************************************************************************)

\* A party moves on, with no chunk, to where it allocates and consumes none.
LEMMA AccountMoved ==
  ASSUME NEW p \in Roles, Account(p), chunk[p] = << >>,
         pc[p] \in {"idle", "loop", "stage"}, pc'[p] \in {"idle", "loop", "stage", "flush"},
         UNCHANGED <<view[p], auth[p], ot[p], gates[p], checks[p], check[p], chunk[p], tasks[p]>>
  PROVE  Account(p)'
<1>1. AuthSettled(view'[p], pc'[p], DOMAIN auth'[p])
  BY DEF Account, AuthSettled, Keyed
<1>2. ChecksLeft(pc'[p], Len(check'[p]), chunk'[p]) = ChecksLeft(pc[p], Len(check[p]), chunk[p])
  BY DEF ChecksLeft
<1>3. OtState(p)'
  BY <1>2 DEF Account, OtState
<1>4. Staging(pc'[p], ret'[p], Len(check'[p]), chunk'[p], tasks'[p])
  BY DEF Account, Staging
<1> QED
  BY <1>1, <1>3, <1>4 DEF Account

\* Fail.
LEMMA FailBudget ==
  ASSUME BudgetInv, NEW p \in Roles, Fail(p) PROVE BudgetInv'
BY BudgetSame DEF Fail, Books, stores, decodes, supply, checking, control, BudgetInv

\* The OTs are made.
LEMMA FlushedBudget ==
  ASSUME SoundInv, BudgetInv, NEW p \in Roles, NEW off, pc[p] = "flush",
         ot' = Sets(ot, p, OtFlushed(ot[p], off)), pc' = Sets(pc, p, "commit"),
         UNCHANGED <<view, auth, ret, gates, checks, check, chunk, tasks>>
  PROVE  BudgetInv'
<1> DEFINE o == OtFlushed(ot[p], off)
<1>1. PerRole(ot') /\ ot'[p] = o /\ \A q \in Roles : q # p => ot'[q] = ot[q]
  BY PerRoleExcept DEF BudgetInv, Only
<1>2. pc'[p] = "commit" /\ \A q \in Roles : q # p => pc'[q] = pc[q]
  BY PerRoleExcept DEF SoundInv, Shape, Only
<1>3. Account(p) /\ OtType(ot[p]) /\ ot[p].pending \in Nat
  BY DEF BudgetInv, Account, OtState, OtType
<1>4. OtType(o) /\ o.pending = 0 /\ Len(o.pool) = Len(ot[p].pool) + ot[p].pending /\ Len(ot[p].pool) \in Nat
  BY <1>3, OtFacts
<1> HIDE DEF o
<1>5. AuthSettled(view[p], "commit", DOMAIN auth[p])
  BY <1>3 DEF Account, AuthSettled, Keyed
<1>6. ChecksLeft("commit", Len(check[p]), chunk[p]) = ChecksLeft(pc[p], Len(check[p]), chunk[p])
  BY DEF ChecksLeft
<1>7. OtState(p)'
  BY <1>1, <1>2, <1>3, <1>4, <1>6 DEF Account, OtState, Balanced
<1>8. Staging("commit", ret[p], Len(check[p]), chunk[p], tasks[p])
  BY <1>3 DEF Account, Staging
<1>9. Account(p)'
  BY <1>2, <1>3, <1>5, <1>7, <1>8 DEF Account
<1>10. PerRole(view') /\ PerRole(gates') /\ PerRole(checks') /\ \A q \in Roles : view'[q] = view[q]
  BY DEF BudgetInv
<1> QED
  BY <1>1, <1>2, <1>9, <1>10, BudgetStep DEF Books

\* flush of the RCOTs: both parties make as many as they asked for.
LEMMA OtFlushBudget ==
  ASSUME SoundInv, BudgetInv, VerifierOtFlush \/ ProverOtFlush PROVE BudgetInv'
<1>0. "p" \in Roles /\ "v" \in Roles
  BY DEF Roles
<1>1. CASE VerifierOtFlush
  <2>1. /\ pc["v"] = "flush" /\ ot' = Sets(ot, "v", OtFlushed(ot["v"], ot["v"].offset))
        /\ pc' = Sets(pc, "v", "commit")
        /\ UNCHANGED <<view, auth, ret, gates, checks, check, chunk, tasks>>
    BY <1>1 DEF VerifierOtFlush, Goto, Sets, stores, checking, control
  <2> QED
    BY <1>0, <2>1, FlushedBudget
<1>2. CASE ProverOtFlush
  <2>1. CASE Fail("p")
    BY <1>0, <2>1, FailBudget
  <2>2. CASE ~Fail("p")
    <3>1. /\ pc["p"] = "flush" /\ ot' = Sets(ot, "p", OtFlushed(ot["p"], Head(net["p"]).offset))
          /\ pc' = Sets(pc, "p", "commit")
          /\ UNCHANGED <<view, auth, ret, gates, checks, check, chunk, tasks>>
      BY <1>2, <2>2 DEF ProverOtFlush, Goto, Sets, stores, checking, control
    <3> QED
      BY <1>0, <3>1, FlushedBudget
  <2> QED
    BY <2>1, <2>2
<1> QED
  BY <1>1, <1>2

\* The next step of execute_all, and the beginning of an operation.
LEMMA ExecuteAllBudget ==
  ASSUME SoundInv, BudgetInv, NEW p \in Roles, ExecuteAll(p) PROVE BudgetInv'
<1>1. PICK l \in {"flush", "stage", "idle"} : pc' = Sets(pc, p, l)
  BY DEF ExecuteAll, Goto, Sets
<1>2. pc'[p] = l /\ \A q \in Roles : q # p => pc'[q] = pc[q]
  BY <1>1, PerRoleExcept DEF SoundInv, Shape, Only
<1>3. ret' = Sets(ret, p, "loop")
  BY DEF ExecuteAll, Sets
<1>4. \A q \in Roles : q # p => ret'[q] = ret[q]
  BY <1>3, PerRoleExcept DEF SoundInv, Shape, Only
<1>5. UNCHANGED <<view, auth, ot, gates, checks, check, chunk, tasks>> /\ pc[p] = "loop"
  BY DEF ExecuteAll, stores, supply, checking
<1>6. Account(p) /\ chunk[p] = << >>
  BY <1>5 DEF BudgetInv, Account, Staging
<1>7. Account(p)'
  BY <1>2, <1>5, <1>6, AccountMoved
<1>8. PerRole(view') /\ PerRole(ot') /\ PerRole(gates') /\ PerRole(checks') /\ \A q \in Roles : view'[q] = view[q]
  BY <1>5 DEF BudgetInv
<1> QED
  BY <1>2, <1>4, <1>5, <1>7, <1>8, BudgetStep DEF Books

\* flush, execute and execute_all begin.
LEMMA StartBudget ==
  ASSUME SoundInv, BudgetInv, StartFlush \/ StartExecute \/ StartExecuteAll PROVE BudgetInv'
<1>1. PICK l \in {"flush", "stage", "loop"}, r \in {"idle", "loop"} : StartJoint(l, r, r)
  BY DEF StartFlush, StartExecute, StartExecuteAll
<1>2. /\ pc' = [p \in Roles |-> l] /\ \A p \in Roles : pc[p] = "idle"
      /\ UNCHANGED <<view, auth, ot, gates, checks, check, chunk, tasks>>
  BY <1>1 DEF StartJoint, Idle, stores, supply, checking
<1>3. ASSUME NEW p \in Roles PROVE Account(p)'
  <2>1. Account(p) /\ chunk[p] = << >> /\ pc'[p] = l
    BY <1>2 DEF BudgetInv, Account, Staging
  <2> QED
    BY <1>2, <2>1, AccountMoved
<1> QED
  BY <1>2, <1>3 DEF BudgetInv

\* Inputs that get their MACs and keys are counted no more.
Fewer(H, D, S) ==
  /\ Cardinality(H \ D) \in Nat /\ Cardinality(S) \in Nat
  /\ Cardinality(S) <= Cardinality(H \ D)
  /\ Cardinality(H \ (D \cup S)) = Cardinality(H \ D) - Cardinality(S)

LEMMA OwnedLess ==
  ASSUME NEW H, IsFiniteSet(H), NEW D, NEW S, S \subseteq H \ D PROVE Fewer(H, D, S)
<1> DEFINE R == H \ D
<1>1. IsFiniteSet(R) /\ Cardinality(R) \in Nat
  <2>1. R \in SUBSET H
    OBVIOUS
  <2> QED
    BY <2>1, FS_Subset, FS_CardinalityType
<1>2. IsFiniteSet(S) /\ Cardinality(S) \in Nat /\ Cardinality(S) <= Cardinality(R)
  <2>1. S \in SUBSET R
    OBVIOUS
  <2> HIDE DEF R
  <2> QED
    BY <1>1, <2>1, FS_Subset, FS_CardinalityType
<1>3. R \ S = H \ (D \cup S) /\ R \cap S = S
  OBVIOUS
<1> HIDE DEF R
<1>4. Cardinality(R \ S) = Cardinality(R) - Cardinality(R \cap S)
  BY <1>1, FS_Difference
<1> QED
  BY <1>1, <1>2, <1>3, <1>4 DEF R, Fewer

\* A flush goes on with the messages or returns.
LEMMA ContinueStaging ==
  ASSUME NEW l0 \in {"flush", "commit", "sync"}, NEW r, NEW h, NEW c, Flow(l0, r, h, c),
         NEW l \in {"sync", r}, NEW n, NEW T, Staging(l0, r, n, c, T)
  PROVE  Staging(l, r, n, c, T) /\ ChecksLeft(l, n, c) = ChecksLeft(l0, n, c) /\ n = 0
<1>1. r \in {"idle", "loop", "batch"} /\ n = 0 /\ (c # << >> => r = "batch")
  BY DEF Flow, Staging
<1>2. 0 < BatchSize
  BY ConstantsOK
<1> QED
  BY <1>1, <1>2 DEF Staging, ChecksLeft

\* What a chunk and its checks take are numbers.
Numbers(p) ==
  /\ gates[p] \in Nat /\ checks[p] \in Nat /\ CheckOts \in Nat /\ Len(ot[p].pool) \in Nat
  /\ ot[p].pending \in Nat /\ Len(check[p]) \in Nat
  /\ SumAnds(chunk[p]) \in Nat /\ ChecksLeft(pc[p], Len(check[p]), chunk[p]) \in Nat
  /\ Cardinality(Owned(view[p]) \ DOMAIN auth[p]) \in Nat

LEMMA NumbersFacts ==
  ASSUME SoundInv, BudgetInv, NEW p \in Roles PROVE Numbers(p)
<1>1. chunk[p] \in Seq(DOMAIN Circuits)
  BY DEF SoundInv, Scheduled, Staged
<1>2. Account(p) /\ Len(check[p]) \in Nat
  BY QueueFacts DEF BudgetInv, Account
<1>3. SumAnds(chunk[p]) \in Nat
  BY <1>1, BatchSums
<1>4. ChecksLeft(pc[p], Len(check[p]), chunk[p]) \in Nat
  <2>1. ChunkChecks(0, chunk[p]) \in Nat /\ ChunkChecks(Len(check[p]), chunk[p]) \in Nat
    BY <1>1, <1>2, ChecksNat
  <2> QED
    BY <2>1 DEF ChecksLeft
<1>5. Cardinality(Owned(view[p]) \ DOMAIN auth[p]) \in Nat
  <2>1. {} \subseteq Owned(view[p]) \ DOMAIN auth[p] /\ IsFiniteSet(Owned(view[p]))
    BY <1>2 DEF Account, ViewSettled
  <2> QED
    BY <2>1, OwnedLess DEF Fewer
<1>6. Len(ot[p].pool) \in Nat
  BY <1>2, QueueFacts DEF Account, OtState, OtType
<1> QED
  BY <1>2, <1>3, <1>4, <1>5, <1>6, ConstantsOK DEF Numbers, Account, OtState, OtType

\* set_macs and set_keys take one OT for every input that waits to be
\* committed.
LEMMA SetAuthBudget ==
  ASSUME SoundInv, BudgetInv, NEW p \in Roles, SetAuth(p) PROVE BudgetInv'
<1>1. CASE Fail(p)
  BY <1>1, FailBudget
<1>2. CASE ~Fail(p)
  <2> DEFINE v == view[p]
             S == v.flush.commit
             n == Cardinality(S)
             D == DOMAIN auth[p]
             o == OtTake(ot[p], n)
             l == IF ViewWantsFlush(v) THEN "sync" ELSE ret[p]
  <2>1. PICK new : auth' = Sets(auth, p, TrySet(auth[p], S, new))
    BY <1>2 DEF SetAuth, Sets
  <2>2. /\ pc[p] \in {"flush", "commit"} /\ (pc[p] = "flush" => ~(ot[p].pending > 0))
        /\ OtHas(ot[p], n) /\ ot' = Sets(ot, p, o) /\ pc' = Sets(pc, p, l)
        /\ UNCHANGED <<view, gates, checks, check, ret, chunk, tasks>>
    BY <1>2 DEF SetAuth, OtWantsFlush, Continue, Goto, Sets, checking, control
  <2>3. Account(p) /\ OtType(ot[p]) /\ ot[p].pending = 0
    <3>1. Account(p) /\ OtType(ot[p])
      BY DEF BudgetInv, Account, OtState
    <3>2. ot[p].pending \in Nat /\ (pc[p] = "commit" => ot[p].pending = 0)
      BY <3>1 DEF Account, OtState, OtType
    <3> QED
      BY <2>2, <3>1, <3>2
  <2>4. S \subseteq Owned(v) \ D /\ IsFiniteSet(Owned(v)) /\ D \subseteq Keyed(v, pc[p])
    BY <2>2, <2>3 DEF Account, ViewSettled, AuthSettled, Keyed
  <2>5. /\ Cardinality(Owned(v) \ D) \in Nat /\ n \in Nat
        /\ Cardinality(Owned(v) \ (D \cup S)) = Cardinality(Owned(v) \ D) - n
    <3> HIDE DEF S, D
    <3>1. Fewer(Owned(v), D, S)
      BY <2>4, OwnedLess
    <3> QED
      BY <3>1 DEF Fewer
  <2>6. PerRole(auth') /\ auth'[p] = TrySet(auth[p], S, new) /\ \A q \in Roles : q # p => auth'[q] = auth[q]
    BY <2>1, PerRoleExcept DEF SoundInv, Shape, Only
  <2>7. DOMAIN auth'[p] = D \cup S
    <3> HIDE DEF S
    <3>1. Written(auth[p], S, new, auth'[p])
      BY <2>6, TrySetFacts
    <3> QED
      BY <3>1 DEF Written
  <2>8. PerRole(ot') /\ ot'[p] = o /\ \A q \in Roles : q # p => ot'[q] = ot[q]
    BY <2>2, PerRoleExcept DEF BudgetInv, Only
  <2>9. OtType(o) /\ o.pending = 0 /\ Len(o.pool) = Len(ot[p].pool) - n /\ Len(ot[p].pool) \in Nat
    BY <2>2, <2>3, <2>5, OtFacts
  <2>10. pc'[p] = l /\ \A q \in Roles : q # p => pc'[q] = pc[q]
    BY <2>2, PerRoleExcept DEF SoundInv, Shape, Only
  <2>11. Flow(pc[p], ret[p], home[p], chunk[p])
    BY DEF SoundInv, Scheduled
  <2>12. l \in {"sync", ret[p]}
    OBVIOUS
  <2>13. AuthSettled(v, l, D \cup S)
    <3>1. CASE l = "sync"
      BY <2>2, <2>4, <3>1 DEF AuthSettled, Keyed
    <3>2. CASE l # "sync"
      <4>1. S = {}
        BY <3>2 DEF ViewWantsFlush, EmptyFlush
      <4> QED
        BY <2>2, <2>4, <3>2, <4>1 DEF AuthSettled, Keyed
    <3> QED
      BY <3>1, <3>2
  <2> HIDE DEF l, o, n, S, D
  <2>14. /\ Staging(l, ret[p], Len(check[p]), chunk[p], tasks[p])
         /\ ChecksLeft(l, Len(check[p]), chunk[p]) = ChecksLeft(pc[p], Len(check[p]), chunk[p])
    BY <2>2, <2>3, <2>11, <2>12, ContinueStaging DEF Account
  <2>15. OtState(p)'
    <3>1. Balanced(o, gates[p], checks[p], Cardinality(Owned(v) \ (D \cup S)),
                   SumAnds(chunk[p]), ChecksLeft(l, Len(check[p]), chunk[p]))
      <4>1. Balanced(ot[p], gates[p], checks[p], Cardinality(Owned(v) \ D),
                     SumAnds(chunk[p]), ChecksLeft(pc[p], Len(check[p]), chunk[p]))
        BY <2>3 DEF Account, OtState, D
      <4>2. Numbers(p)
        BY NumbersFacts
      <4> DEFINE h == Cardinality(Owned(v) \ D)
                 h2 == Cardinality(Owned(v) \ (D \cup S))
                 s == SumAnds(chunk[p])
                 d == ChecksLeft(pc[p], Len(check[p]), chunk[p])
      <4>3. h \in Int /\ s \in Int /\ d \in Int /\ n \in Int /\ h2 = h - n
        BY <2>5, <4>2 DEF Numbers
      <4> HIDE DEF h, h2, s, d
      <4>5. CheckOts \in Int /\ gates[p] \in Int /\ checks[p] \in Int
        BY <4>2 DEF Numbers
      <4>6. Balanced(ot[p], gates[p], checks[p], h, s, d)
        BY <4>1 DEF h, s, d
      <4> DEFINE ck == checks[p] * CheckOts
                 dk == d * CheckOts
                 x == Len(ot[p].pool)
                 y == Len(o.pool)
                 g == gates[p]
      <4>7. ck \in Int /\ dk \in Int /\ x = g + ck + h + s + dk /\ y = x - n /\ x \in Int /\ g \in Int
        BY <2>3, <2>9, <4>3, <4>5, <4>6 DEF Balanced
      <4> HIDE DEF ck, dk, x, y, g
      <4>8. y = g + ck + h2 + s + dk /\ y \in Int
        BY <4>3, <4>7
      <4>9. Balanced(o, gates[p], checks[p], h2, s, d)
        BY <2>9, <4>8 DEF Balanced, ck, dk, y, g
      <4> QED
        BY <2>14, <4>9 DEF h2, s, d
    <3> QED
      BY <2>2, <2>3, <2>7, <2>8, <2>9, <2>10, <3>1 DEF Account, OtState
  <2>16. Account(p)'
    BY <2>2, <2>3, <2>7, <2>10, <2>13, <2>14, <2>15 DEF Account
  <2>17. PerRole(view') /\ PerRole(gates') /\ PerRole(checks') /\ \A q \in Roles : view'[q] = view[q]
    BY <2>2 DEF BudgetInv
  <2> QED
    BY <2>2, <2>6, <2>8, <2>10, <2>16, <2>17, BudgetStep DEF Books
<1> QED
  BY <1>1, <1>2
-----------------------------------------------------------------------------
(***************************************************************************)
(* execute keeps the accounts: it allocates what was not registered.       *)
(***************************************************************************)

\* Registered OTs cover a part of what a chunk takes.
LEMMA DemandIs ==
  ASSUME NEW p \in Roles, gates[p] \in Nat, checks[p] \in Nat, NEW g \in Nat, NEW c \in Nat
  PROVE  \E a, b \in Nat :
           /\ a = AtMost(gates[p], g) /\ b = AtMost(checks[p], c)
           /\ a <= g /\ a <= gates[p] /\ b <= c /\ b <= checks[p]
           /\ Demand(p, g, c) = (g - a) + (c - b) * CheckOts /\ Demand(p, g, c) \in Nat
<1> DEFINE a == AtMost(gates[p], g)
           b == AtMost(checks[p], c)
<1>1. a \in Nat /\ b \in Nat /\ a <= g /\ a <= gates[p] /\ b <= c /\ b <= checks[p]
  BY DEF AtMost
<1>2. Demand(p, g, c) = (g - a) + (c - b) * CheckOts
  BY DEF Demand
<1> HIDE DEF a, b
<1>3. (c - b) * CheckOts \in Nat /\ g - a \in Nat
  <2>1. c - b \in Nat /\ CheckOts \in Nat
    BY <1>1, ConstantsOK
  <2> DEFINE m == c - b
  <2>2. m \in Nat
    BY <2>1
  <2> HIDE DEF m
  <2>3. m * CheckOts \in Nat
    BY <2>1, <2>2
  <2> QED
    BY <1>1, <2>3 DEF m
<1> DEFINE mk == (c - b) * CheckOts
<1>4. mk \in Nat /\ Demand(p, g, c) = (g - a) + mk
  BY <1>2, <1>3
<1> HIDE DEF mk
<1>5. Demand(p, g, c) \in Nat
  BY <1>3, <1>4
<1> QED
  BY <1>1, <1>2, <1>5 DEF a, b

\* execute stages a chunk.
LEMMA StageBudget ==
  ASSUME SoundInv, BudgetInv, NEW p \in Roles, StageChunk(p) PROVE BudgetInv'
<1> DEFINE c == ExtractIf(p).chunk
           l == IF c = << >> THEN home[p] ELSE "flush"
           n == Len(check[p])
           g == SumAnds(c)
           k == ChunkChecks(n, c)
           o == OtAlloc(ot[p], Demand(p, g, k))
           h == Cardinality(Owned(view[p]) \ DOMAIN auth[p])
<1>1. /\ pc[p] = "stage" /\ chunk' = Sets(chunk, p, c) /\ ot' = Sets(ot, p, o)
      /\ gates' = Sets(gates, p, gates[p] - AtMost(gates[p], g))
      /\ checks' = Sets(checks, p, checks[p] - AtMost(checks[p], k))
      /\ ret' = Sets(ret, p, "batch") /\ pc' = Sets(pc, p, l)
      /\ UNCHANGED <<view, auth, check, tasks>>
  BY DEF StageChunk, Goto, Sets, stores, checking
<1>2. Account(p) /\ n = 0 /\ chunk[p] = << >> /\ DOMAIN tasks[p] = {}
  <2>1. Account(p)
    BY DEF BudgetInv
  <2> QED
    BY <1>1, <2>1 DEF Account, Staging
<1>3. c \in Seq(DOMAIN Circuits) /\ home[p] \in {"idle", "loop"}
  <2>1. stack[p] \in Seq(DOMAIN Circuits) /\ home[p] \in {"idle", "loop"}
    BY DEF SoundInv, Scheduled, Staged, Flow
  <2>2. c \in Seq({j \in DOMAIN Circuits : Ready(p, j)})
    BY <2>1, ExtractFacts
  <2> HIDE DEF c
  <2>3. c \in Seq(DOMAIN Circuits)
    BY <2>2
  <2> QED
    BY <2>1, <2>3
<1> HIDE DEF c
<1>4. g \in Nat /\ k \in Nat /\ k = ChunkChecks(0, c)
  BY <1>2, <1>3, BatchSums, ChecksNat
<1>5. Numbers(p)
  BY NumbersFacts
<1>6. PICK a \in Nat, b \in Nat :
        /\ a = AtMost(gates[p], g) /\ b = AtMost(checks[p], k)
        /\ a <= g /\ a <= gates[p] /\ b <= k /\ b <= checks[p]
        /\ Demand(p, g, k) = (g - a) + (k - b) * CheckOts /\ Demand(p, g, k) \in Nat
  <2> HIDE DEF g, k
  <2> QED
    BY <1>4, <1>5, DemandIs DEF Numbers
<1>7. OtType(o) /\ o.pending = ot[p].pending + Demand(p, g, k) /\ Len(o.pool) = Len(ot[p].pool)
  BY <1>2, <1>6, OtFacts DEF Account, OtState
<1>8. /\ Only(chunk, chunk', p, c) /\ Only(ret, ret', p, "batch") /\ Only(pc, pc', p, l)
      /\ Only(ot, ot', p, o)
      /\ Only(gates, gates', p, gates[p] - a) /\ Only(checks, checks', p, checks[p] - b)
  BY <1>1, <1>6, PerRoleExcept DEF BudgetInv, SoundInv, Shape
<1>9. l \in {"idle", "loop", "flush"} /\ (c # << >> => l = "flush")
  BY <1>3
<1> HIDE DEF l, o, g, k, n, h
<1>10. AuthSettled(view[p], l, DOMAIN auth[p])
  BY <1>1, <1>2, <1>9 DEF Account, AuthSettled, Keyed
<1>11. Staging(l, "batch", n, c, tasks[p])
  BY <1>2, <1>9 DEF Account, Staging, Reserved
<1>12. ChecksLeft(l, n, c) = k
  BY <1>2, <1>4, <1>9 DEF ChecksLeft
<1>13. Balanced(o, gates[p] - a, checks[p] - b, h, g, k)
  <2>1. Balanced(ot[p], gates[p], checks[p], h, 0, 0)
    <3>1. SumAnds(chunk[p]) = 0 /\ ChecksLeft(pc[p], n, chunk[p]) = 0
      BY <1>1, <1>2, ChecksNat DEF ChecksLeft
    <3> QED
      BY <1>2, <3>1 DEF Account, OtState, h, n
  <2> DEFINE x == ot[p].pending
             z == Len(ot[p].pool)
             y == o.pending
             G == gates[p]
             C == checks[p]
             CK == C * CheckOts
             BK == b * CheckOts
             KK == k * CheckOts
  <2>2. /\ x \in Int /\ z \in Int /\ G \in Int /\ C \in Int /\ h \in Int /\ CheckOts \in Int
        /\ CK \in Int /\ BK \in Int /\ KK \in Int /\ 0 * CheckOts = 0
    BY <1>4, <1>5 DEF Numbers, h
  <2>3. (k - b) * CheckOts = KK - BK /\ (C - b) * CheckOts = CK - BK
    <3> HIDE DEF C
    <3> QED
      BY <1>4, <2>2
  <2>4. x + z = G + CK + h
    BY <2>1, <2>2 DEF Balanced
  <2>5. y = x + ((g - a) + (KK - BK))
    BY <1>6, <1>7, <2>3
  <2>6. Len(o.pool) = z /\ g \in Int /\ a \in Int
    BY <1>4, <1>7
  <2> HIDE DEF x, z, y, G, C, CK, BK, KK
  <2>7. y + z = (G - a) + (CK - BK) + h + g + KK
    BY <2>2, <2>4, <2>5, <2>6
  <2> QED
    BY <2>3, <2>6, <2>7 DEF Balanced, y, z, G, C, KK
<1>14. gates[p] - a \in Nat /\ checks[p] - b \in Nat
  BY <1>5, <1>6 DEF Numbers
<1>15. OtState(p)'
  BY <1>1, <1>7, <1>8, <1>9, <1>12, <1>13, <1>14 DEF OtState, Only, n, h, g
<1>16. Account(p)'
  BY <1>1, <1>2, <1>8, <1>10, <1>11, <1>15 DEF Account, Only, n
<1>17. PerRole(view') /\ \A q \in Roles : view'[q] = view[q]
  BY <1>1 DEF BudgetInv
<1> QED
  BY <1>1, <1>8, <1>16, <1>17, BudgetStep DEF Books, Only

\* A batch is the shortest beginning of the chunk that fills up.
LEMMA BatchLenLeast ==
  ASSUME NEW p \in Roles, chunk[p] \in Seq(DOMAIN Circuits), chunk[p] # << >>, Len(check[p]) \in Nat
  PROVE  LET n == BatchLen(p)
             total(m) == Len(check[p]) + SumAnds(SubSeq(chunk[p], 1, m))
         IN  /\ n \in 1 .. Len(chunk[p])
             /\ total(n) >= BatchSize \/ n = Len(chunk[p])
             /\ \A m \in 1 .. n - 1 : total(m) < BatchSize
<1> DEFINE c == chunk[p]
           x == Len(check[p])
           s(m) == SumAnds(SubSeq(c, 1, m))
<1>1. Len(c) \in Nat /\ Len(c) > 0 /\ x \in Nat /\ BatchSize \in Nat
  BY ConstantsOK
<1>2. BatchEnds(p) = {m \in 1 .. Len(c) : s(m) >= BatchSize - x \/ m = Len(c)}
  BY DEF BatchEnds
<1>3. \A m \in 1 .. Len(c) : s(m) \in Nat
  <2> SUFFICES ASSUME NEW m \in 1 .. Len(c) PROVE s(m) \in Nat
    OBVIOUS
  <2>1. SubSeq(c, 1, m) \in Seq(DOMAIN Circuits)
    BY <1>1
  <2> QED
    BY <2>1, BatchSums
<1> HIDE DEF s, x
<1>4. \A m \in 1 .. Len(c) : m \in BatchEnds(p) <=> x + s(m) >= BatchSize \/ m = Len(c)
  BY <1>1, <1>2, <1>3
<1> HIDE DEF c
<1>5. BatchEnds(p) \in SUBSET Nat /\ BatchEnds(p) # {} /\ BatchEnds(p) \subseteq 1 .. Len(c)
  <2>1. Len(c) \in 1 .. Len(c)
    BY <1>1
  <2> QED
    BY <1>1, <1>2, <1>4, <2>1
<1>6. PICK k \in BatchEnds(p) : \A m \in BatchEnds(p) : ~(m < k)
  BY <1>5, LeastNumber
<1>7. \A m \in BatchEnds(p) : k <= m
  BY <1>5, <1>6
<1> DEFINE n == BatchLen(p)
<1>8. n \in BatchEnds(p) /\ \A m \in BatchEnds(p) : n <= m
  BY <1>7 DEF BatchLen
<1> HIDE DEF n
<1>9. n \in 1 .. Len(c) /\ (x + s(n) >= BatchSize \/ n = Len(c))
  BY <1>4, <1>5, <1>8
<1>10. ASSUME NEW m \in 1 .. n - 1 PROVE x + s(m) < BatchSize
  <2>1. m \in 1 .. Len(c) /\ ~(n <= m)
    BY <1>1, <1>9
  <2>2. ~(x + s(m) >= BatchSize)
    BY <1>4, <1>8, <2>1
  <2> QED
    BY <1>1, <1>3, <2>1, <2>2
<1> QED
  BY <1>9, <1>10 DEF n, c, x, s

\* Check::reserve: a batch takes the OTs of its gates.
LEMMA StartBatchBudget ==
  ASSUME SoundInv, BudgetInv, NEW p \in Roles, StartBatch(p) PROVE BudgetInv'
<1>1. CASE Fail(p)
  BY <1>1, FailBudget
<1>2. CASE ~Fail(p)
  <2> DEFINE c == chunk[p]
             x == Len(check[p])
             n == BatchLen(p)
             seq == SubSeq(c, 1, n)
             P == Plan(p, seq)
             m == SumAnds(seq)
             blank == [i \in 1 .. m |-> NoTriple]
             more == check[p] \o blank
             rest == SubSeq(c, n + 1, Len(c))
             o == OtTake(ot[p], m)
             t == x + m
             h == Cardinality(Owned(view[p]) \ DOMAIN auth[p])
  <2>1. /\ pc[p] = "batch" /\ pc' = Sets(pc, p, "tasks") /\ OtHas(ot[p], m)
        /\ tasks' = Sets(tasks, p, P) /\ check' = Sets(check, p, more)
        /\ chunk' = Sets(chunk, p, rest) /\ ot' = Sets(ot, p, o)
        /\ UNCHANGED <<view, auth, gates, checks, ret>>
    BY <1>2 DEF StartBatch, Goto, Sets, stores
  <2>2. c \in Seq(DOMAIN Circuits) /\ c # << >> /\ Len(c) \in Nat
    <3>1. Flow(pc[p], ret[p], home[p], chunk[p]) /\ Staged(stack[p], chunk[p], tasks[p])
      BY DEF SoundInv, Scheduled
    <3> QED
      BY <2>1, <3>1 DEF Flow, Staged
  <2>3. Account(p) /\ IsQueue(check[p]) /\ x \in Nat /\ x < BatchSize /\ Numbers(p)
    <3>1. Account(p) /\ IsQueue(check[p]) /\ x < BatchSize
      BY <2>1 DEF BudgetInv, Account, Staging
    <3> QED
      BY <3>1, QueueFacts, NumbersFacts
  <2>4. /\ n \in 1 .. Len(c) /\ (t >= BatchSize \/ n = Len(c))
        /\ \A i \in 1 .. n - 1 : x + SumAnds(SubSeq(c, 1, i)) < BatchSize
    BY <2>2, <2>3, BatchLenLeast
  <2> HIDE DEF n, x, c
  <2>5. seq \in Seq(DOMAIN Circuits) /\ rest \in Seq(DOMAIN Circuits)
    BY <2>2, <2>4
  <2>6. SumAnds(c) = m + SumAnds(rest) /\ m \in Nat /\ SumAnds(rest) \in Nat
    <3>1. n \in 0 .. Len(c)
      BY <2>2, <2>4
    <3>2. SumAnds(c) = m + SumAnds(rest)
      BY <2>2, <3>1, SumSplit
    <3> HIDE DEF rest, seq
    <3> QED
      BY <2>5, <3>2, BatchSums
  <2>7. ChunkChecks(x, c) = ChecksAfter(t, rest)
    <3>1. FirstBatch(x, c, n, t, rest)
      BY <2>3, <2>4 DEF FirstBatch
    <3> HIDE DEF t, rest
    <3> QED
      BY <2>2, <3>1, ChecksSplit
  <2> HIDE DEF rest, seq
  <2>8. \A k \in DOMAIN P : P[k].idx \in Nat /\ P[k].idx + Ands(k) <= t
    <3>1. /\ m \in Nat
          /\ \A k \in DOMAIN P :
               /\ P[k].idx = Len(check[p]) + Before(seq, k)
               /\ Before(seq, k) \in Nat /\ Ands(k) \in Nat /\ Before(seq, k) + Ands(k) <= m
      BY <2>5, PlanFacts
    <3> HIDE DEF P, m
    <3> QED
      BY <2>3, <3>1 DEF x
  <2>9. IsQueue(more) /\ Len(more) = t
    <3>1. blank \in Seq({NoTriple}) /\ Len(blank) = m
      BY <2>6
    <3>2. IsQueue(blank)
      BY <3>1, QueueOf
    <3> HIDE DEF blank
    <3>3. Joined(check[p], blank, more)
      BY <2>3, <3>2, QueueConcat
    <3> QED
      BY <3>1, <3>3 DEF Joined, x
  <2> HIDE DEF P, m, more
  <2>10. OtType(o) /\ o.pending = 0 /\ Len(o.pool) = Len(ot[p].pool) - m
    <3>1. OtType(ot[p]) /\ ot[p].pending = 0
      BY <2>1, <2>3 DEF Account, OtState
    <3> QED
      BY <2>1, <2>6, <3>1, OtFacts
  <2> HIDE DEF o
  <2>11. /\ Only(chunk, chunk', p, rest) /\ Only(check, check', p, more) /\ Only(pc, pc', p, "tasks")
         /\ Only(ot, ot', p, o) /\ Only(tasks, tasks', p, P)
    BY <2>1, PerRoleExcept DEF BudgetInv, SoundInv, Shape
  <2>12. AuthSettled(view[p], "tasks", DOMAIN auth[p])
    BY <2>1, <2>3 DEF Account, AuthSettled, Keyed
  <2>13. Staging("tasks", ret[p], t, rest, P)
    BY <2>8 DEF Staging, Reserved
  <2>14. ChecksLeft("tasks", t, rest) = ChecksLeft("batch", x, c)
    BY <2>7 DEF ChecksLeft, ChecksAfter
  <2> DEFINE s == SumAnds(c)
             s2 == SumAnds(rest)
             d == ChecksLeft("batch", x, c)
  <2>15. Balanced(o, gates[p], checks[p], h, s2, d)
    <3>1. Balanced(ot[p], gates[p], checks[p], h, s, d) /\ ot[p].pending = 0
      BY <2>1, <2>3 DEF Account, OtState, c, x
    <3>2. /\ h \in Int /\ s \in Int /\ d \in Int /\ Len(ot[p].pool) \in Int /\ gates[p] \in Int
          /\ checks[p] * CheckOts \in Int /\ d * CheckOts \in Int
      <4>1. h \in Int /\ s \in Int /\ d \in Int /\ checks[p] \in Int /\ CheckOts \in Int
        BY <2>1, <2>3 DEF Numbers, c, x
      <4> HIDE DEF d
      <4>2. checks[p] * CheckOts \in Int /\ d * CheckOts \in Int
        BY <4>1
      <4> QED
        BY <2>3, <4>1, <4>2 DEF Numbers
    <3> DEFINE y == Len(ot[p].pool)
               G == gates[p]
               CK == checks[p] * CheckOts
               DK == d * CheckOts
               z == Len(o.pool)
    <3>3. y = G + CK + h + s + DK /\ z = y - m
      BY <2>10, <3>1, <3>2 DEF Balanced
    <3>4. y \in Int /\ G \in Int /\ CK \in Int /\ DK \in Int /\ h \in Int /\ s \in Int /\ m \in Int /\ s2 \in Int /\ s = m + s2
      BY <2>6, <3>2
    <3> HIDE DEF y, G, CK, DK, z, h, s, s2, d
    <3>5. z = G + CK + h + s2 + DK /\ z \in Int
      BY <3>3, <3>4
    <3> QED
      BY <2>10, <3>5 DEF Balanced, z, G, CK, DK
  <2>16. OtState(p)'
    BY <2>1, <2>3, <2>9, <2>10, <2>11, <2>14, <2>15 DEF Account, OtState, Only
  <2>17. Account(p)'
    BY <2>1, <2>3, <2>9, <2>11, <2>12, <2>13, <2>16 DEF Account, Only
  <2>18. PerRole(view') /\ PerRole(gates') /\ PerRole(checks') /\ \A q \in Roles : view'[q] = view[q]
    BY <2>1 DEF BudgetInv
  <2> QED
    BY <2>1, <2>11, <2>17, <2>18, BudgetStep DEF Books, Only
<1> QED
  BY <1>1, <1>2

\* The outputs of a batch get their MACs and keys, and no input does.
LEMMA EndBatchBudget ==
  ASSUME Inv, SoundInv, BudgetInv, NEW p \in Roles, EndBatch(p) PROVE BudgetInv'
<1>1. CASE Fail(p)
  BY <1>1, FailBudget
<1>2. CASE ~Fail(p)
  <2> DEFINE S == {Out(k) : k \in DOMAIN tasks[p]}
             v == view[p]
             w == SetOutput(v, S)
             D == DOMAIN auth[p]
             n == Len(check[p])
             c == chunk[p]
             l == IF WantsCheck(p) THEN "check" ELSE AfterCheck(p)
  <2>1. PICK outs : auth' = Sets(auth, p, TrySet(auth[p], S, outs))
    BY <1>2 DEF EndBatch, Sets
  <2>2. /\ pc[p] = "tasks" /\ S \subseteq v.outputs
        /\ view' = Sets(view, p, w) /\ tasks' = Sets(tasks, p, EmptyStore) /\ pc' = Sets(pc, p, l)
        /\ UNCHANGED <<ot, gates, checks, check, ret, chunk>>
    BY <1>2 DEF EndBatch, Sets, Goto, supply, checking
  <2>3. Account(p) /\ v \in ViewType /\ n \in Nat /\ (c # << >> \/ home[p] \in {"idle", "loop"})
        /\ (check[p] = << >> <=> n = 0)
    <3>1. Account(p) /\ v \in ViewType /\ home[p] \in {"idle", "loop"}
      BY DEF BudgetInv, Inv, Pair, Roles, SoundInv, Scheduled, Flow
    <3> QED
      BY <3>1, QueueFacts DEF Account
  <2>4. S \in Addr /\ v.outputs \in Addr
    BY <2>2, <2>3 DEF ViewType, Addr
  <2> HIDE DEF S
  <2>5. /\ SameMemory(v, w) /\ w.vis = v.vis /\ w.committed = v.committed
        /\ w.flush.commit = v.flush.commit
    BY <2>3, <2>4, OutputFields
  <2> HIDE DEF w
  <2>6. Only(view, view', p, w) /\ Only(pc, pc', p, l) /\ Only(tasks, tasks', p, EmptyStore)
    BY <2>2, PerRoleExcept DEF BudgetInv, SoundInv, Shape
  <2>7. DOMAIN auth'[p] = S \cup D /\ \A q \in Roles : q # p => auth'[q] = auth[q]
    <3>1. Only(auth, auth', p, TrySet(auth[p], S, outs))
      BY <2>1, PerRoleExcept DEF SoundInv, Shape
    <3>2. Written(auth[p], S, outs, TrySet(auth[p], S, outs))
      BY TrySetFacts
    <3> QED
      BY <3>1, <3>2 DEF Written, Only
  <2>8. IF Full(n, c) THEN l = "check" ELSE l = IF c = << >> THEN home[p] ELSE "batch"
    BY <2>3 DEF WantsCheck, AfterCheck, Full
  <2> HIDE DEF l, n
  <2>9. ViewSettled(w) /\ Owned(w) = Owned(v)
    <3>1. ViewSettled(v)
      BY <2>3 DEF Account
    <3> QED
      BY <2>5, <3>1 DEF ViewSettled, SameMemory, Owned
  <2>10. Owned(v) \ (S \cup D) = Owned(v) \ D
    BY <2>2, <2>3 DEF Account, ViewSettled
  <2>11. l # "sync"
    BY <2>3, <2>8
  <2>12. AuthSettled(w, l, S \cup D)
    BY <2>2, <2>3, <2>5, <2>11 DEF Account, AuthSettled, Keyed, SameMemory
  <2>13. ChecksLeft(l, n, c) = ChecksLeft("tasks", n, c)
    BY <2>3, <2>8 DEF ChecksLeft
  <2>14. Staging(l, ret[p], n, c, EmptyStore)
    <3>1. Reserved(EmptyStore, n) /\ DOMAIN EmptyStore = {}
      BY DEF Reserved, EmptyStore
    <3>2. BatchSize \in Nat
      BY ConstantsOK
    <3>3. /\ l \notin {"batch", "tasks", "check"} => n = 0
          /\ c # << >> => l \in {"batch", "check"}
          /\ l = "batch" => n < BatchSize
          /\ l = "check" => Full(n, c)
      BY <2>3, <2>8, <3>2 DEF Full
    <3> QED
      BY <3>1, <3>3 DEF Staging
  <2>15. OtState(p)'
    <3>1. l \notin {"commit", "sync", "tasks"} /\ ot[p].pending = 0
      BY <2>2, <2>3, <2>8 DEF Account, OtState
    <3> QED
      BY <2>2, <2>3, <2>6, <2>7, <2>9, <2>10, <2>13, <3>1 DEF Account, OtState, Only, n
  <2>16. Account(p)'
    BY <2>2, <2>3, <2>6, <2>7, <2>9, <2>12, <2>14, <2>15 DEF Account, Only, n
  <2>17. /\ PerRole(view') /\ PerRole(ot') /\ PerRole(gates') /\ PerRole(checks')
         /\ \A q \in Roles : view'[q].vis.public = view[q].vis.public
    BY <2>2, <2>5, <2>6 DEF BudgetInv, Only
  <2> QED
    BY <2>2, <2>6, <2>7, <2>16, <2>17, BudgetStep DEF Books, Only
<1> QED
  BY <1>1, <1>2

\* A check takes its OTs.
LEMMA EndCheckBudget ==
  ASSUME SoundInv, BudgetInv, NEW p \in Roles, NEW uv, EndCheck(p, uv), pc[p] = "check",
         OtHas(ot[p], CheckOts)
  PROVE  BudgetInv'
<1> DEFINE o == OtTake(ot[p], CheckOts)
           c == chunk[p]
           l == AfterCheck(p)
           h == Cardinality(Owned(view[p]) \ DOMAIN auth[p])
           s == SumAnds(c)
           k == ChunkChecks(0, c)
<1>1. /\ ot' = Sets(ot, p, o) /\ check' = Sets(check, p, << >>) /\ pc' = Sets(pc, p, l)
      /\ UNCHANGED <<view, auth, gates, checks, ret, chunk, tasks>>
  BY DEF EndCheck, Sets, Goto, stores, control
<1>2. Account(p) /\ Full(Len(check[p]), c) /\ DOMAIN tasks[p] = {} /\ home[p] \in {"idle", "loop"}
      /\ OtType(ot[p]) /\ ot[p].pending = 0 /\ Numbers(p) /\ c \in Seq(DOMAIN Circuits)
  <2>1. Account(p) /\ home[p] \in {"idle", "loop"} /\ Numbers(p) /\ c \in Seq(DOMAIN Circuits)
    BY NumbersFacts DEF BudgetInv, SoundInv, Scheduled, Flow, Staged
  <2> QED
    BY <2>1 DEF Account, Staging, OtState
<1>3. CheckOts \in Nat /\ BatchSize \in Nat /\ 0 < BatchSize /\ k \in Nat
  BY <1>2, ConstantsOK, ChecksNat
<1>4. OtType(o) /\ o.pending = 0 /\ Len(o.pool) = Len(ot[p].pool) - CheckOts
  BY <1>2, <1>3, OtFacts
<1>5. l = IF c = << >> THEN home[p] ELSE "batch"
  BY DEF AfterCheck
<1> HIDE DEF o, l, k, h, s
<1>6. Only(ot, ot', p, o) /\ Only(check, check', p, << >>) /\ Only(pc, pc', p, l)
  BY <1>1, PerRoleExcept DEF BudgetInv, SoundInv, Shape
<1>7. IsQueue(<< >>) /\ Len(<< >>) = 0
  <2>1. << >> \in Seq({}) /\ Len(<< >>) = 0
    OBVIOUS
  <2> QED
    BY <2>1, QueueOf
<1>8. AuthSettled(view[p], l, DOMAIN auth[p])
  BY <1>1, <1>2, <1>5 DEF Account, AuthSettled, Keyed
<1>9. Staging(l, ret[p], 0, c, tasks[p])
  BY <1>2, <1>3, <1>5 DEF Staging, Reserved
<1>10. ChecksLeft(l, 0, c) = k /\ ChecksLeft(pc[p], Len(check[p]), c) = 1 + k
  BY <1>2, <1>5 DEF ChecksLeft, k
<1>11. Balanced(o, gates[p], checks[p], h, s, k)
  <2> DEFINE y == Len(ot[p].pool)
             z == Len(o.pool)
             G == gates[p]
             CK == checks[p] * CheckOts
             KK == k * CheckOts
  <2>1. Balanced(ot[p], gates[p], checks[p], h, s, 1 + k)
    BY <1>2, <1>10 DEF Account, OtState, h, s
  <2>2. /\ y \in Int /\ G \in Int /\ h \in Int /\ s \in Int /\ CK \in Int /\ KK \in Int
        /\ (1 + k) * CheckOts = CheckOts + KK
    <3>1. /\ y \in Int /\ G \in Int /\ h \in Int /\ s \in Int /\ checks[p] \in Int /\ k \in Int
          /\ CheckOts \in Int
      BY <1>2, <1>3 DEF Numbers, h, s
    <3> QED
      BY <3>1
  <2>3. y = G + CK + h + s + (CheckOts + KK) /\ z = y - CheckOts
    BY <1>2, <1>4, <2>1, <2>2 DEF Balanced
  <2> HIDE DEF y, z, G, CK, KK
  <2>4. z = G + CK + h + s + KK /\ z \in Int
    BY <1>3, <2>2, <2>3
  <2> QED
    BY <1>4, <2>4 DEF Balanced, z, G, CK, KK
<1>12. OtState(p)'
  BY <1>1, <1>2, <1>4, <1>6, <1>7, <1>10, <1>11 DEF Account, OtState, Only, h, s
<1>13. Account(p)'
  BY <1>1, <1>2, <1>6, <1>7, <1>8, <1>9, <1>12 DEF Account, Only
<1>14. PerRole(view') /\ PerRole(gates') /\ PerRole(checks') /\ \A q \in Roles : view'[q] = view[q]
  BY <1>1 DEF BudgetInv
<1> QED
  BY <1>1, <1>6, <1>13, <1>14, BudgetStep DEF Books, Only

\* Check::finish on both sides.
LEMMA CheckBudget ==
  ASSUME SoundInv, BudgetInv, ProverCheck \/ VerifierCheck PROVE BudgetInv'
<1>0. "p" \in Roles /\ "v" \in Roles
  BY DEF Roles
<1>1. CASE Fail("p") \/ Fail("v")
  BY <1>0, <1>1, FailBudget
<1>2. CASE ~(Fail("p") \/ Fail("v"))
  <2>1. PICK p \in Roles :
           pc[p] = "check" /\ OtHas(ot[p], CheckOts) /\ \E uv : EndCheck(p, uv)
    BY <1>0, <1>2 DEF ProverCheck, VerifierCheck
  <2> QED
    BY <2>1, EndCheckBudget
<1> QED
  BY <1>1, <1>2

\* A call writes its triples where they were reserved.
LEMMA FinishBudget ==
  ASSUME SoundInv, BudgetInv, NEW p \in Roles, NEW k \in DOMAIN tasks[p], NEW feed, NEW adjust,
         FinishTask(p, k, feed, adjust), pc[p] = "tasks"
  PROVE  BudgetInv'
<1> DEFINE T == tasks[p]
           c == check[p]
           tr == Triples(Circuits[k], feed, adjust)
           out == Output(Circuits[k], feed)
           U == [T EXCEPT ![k].out = <<out>>]
           idx == T[k].idx
           s == SubSeq(c, 1, idx) \o tr \o SubSeq(c, idx + Ands(k) + 1, Len(c))
<1>1. DOMAIN T \subseteq DOMAIN Circuits /\ IsTask(T[k])
  BY DEF SoundInv, Scheduled, Staged
<1>2. Account(p) /\ IsQueue(c) /\ Reserved(T, Len(c))
  BY DEF BudgetInv, Account, Staging
<1>3. /\ tasks' = Sets(tasks, p, U) /\ check' = Sets(check, p, s)
      /\ UNCHANGED <<view, auth, ot, gates, checks, pc, ret, chunk>>
  BY DEF FinishTask, Sets, stores, supply
<1>4. Finished(T, k, <<out>>, U)
  <2>1. k \in DOMAIN T
    OBVIOUS
  <2> HIDE DEF T, out
  <2> QED
    BY <1>1, <2>1, FinishFacts
<1>5. IsQueue(tr) /\ Len(tr) = Ands(k)
  <2>1. k \in DOMAIN Circuits
    BY <1>1
  <2> QED
    BY <2>1, TriplesFacts
<1>6. IsQueue(s) /\ Len(s) = Len(c)
  <2>1. idx \in Nat /\ idx + Len(tr) <= Len(c)
    BY <1>2, <1>5 DEF Reserved
  <2>2. s = SubSeq(c, 1, idx) \o tr \o SubSeq(c, idx + Len(tr) + 1, Len(c))
    BY <1>5
  <2> HIDE DEF s, tr, idx, c
  <2>3. Spliced(c, idx, tr, s)
    BY <1>2, <1>5, <2>1, <2>2, SpliceFacts
  <2> QED
    BY <2>3 DEF Spliced
<1> HIDE DEF s, U, tr, out
<1>7. Only(tasks, tasks', p, U) /\ Only(check, check', p, s)
  BY <1>3, PerRoleExcept DEF SoundInv, Shape
<1>8. Reserved(U, Len(c))
  BY <1>2, <1>4 DEF Reserved, Finished
<1>9. Staging(pc[p], ret[p], Len(s), chunk[p], U)
  BY <1>2, <1>6, <1>8 DEF Account, Staging
<1>10. OtState(p)'
  BY <1>2, <1>3, <1>6, <1>7 DEF Account, OtState, Only
<1>11. Account(p)'
  BY <1>2, <1>3, <1>6, <1>7, <1>9, <1>10 DEF Account, Only
<1>12. /\ PerRole(view') /\ PerRole(ot') /\ PerRole(gates') /\ PerRole(checks')
       /\ \A q \in Roles : view'[q] = view[q]
  BY <1>3 DEF BudgetInv
<1> QED
  BY <1>3, <1>7, <1>11, <1>12, BudgetStep DEF Books, Only

\* The calls of both parties.
LEMMA TaskBudget ==
  ASSUME SoundInv, BudgetInv,
         \/ \E k \in DOMAIN tasks["p"] : \E w \in WrongGates(k) : ProverTask(k, w)
         \/ \E k \in DOMAIN tasks["v"] : VerifierTask(k)
  PROVE  BudgetInv'
<1>0. "p" \in Roles /\ "v" \in Roles
  BY DEF Roles
<1>1. PICK p \in Roles :
        pc[p] = "tasks" /\ \E k \in DOMAIN tasks[p] : \E feed, adjust : FinishTask(p, k, feed, adjust)
  BY <1>0 DEF ProverTask, VerifierTask, Running
<1> QED
  BY <1>1, FinishBudget
-----------------------------------------------------------------------------
(***************************************************************************)
(* The flush messages keep the accounts.                                   *)
(***************************************************************************)

\* What was exchanged is committed.
LEMMA SyncBudget ==
  ASSUME Inv, SoundInv, BudgetInv, NEW p \in Roles, pc[p] = "sync",
         NEW w, w = CompleteFlush(view[p]), Continue(p, w), view' = Sets(view, p, w),
         DOMAIN auth'[p] = DOMAIN auth[p], \A q \in Roles : q # p => auth'[q] = auth[q],
         UNCHANGED <<ret, ot, gates, checks, check, chunk, tasks>>
  PROVE  BudgetInv'
<1> DEFINE v == view[p]
           D == DOMAIN auth[p]
           l == IF ViewWantsFlush(w) THEN "sync" ELSE ret[p]
<1>1. Account(p) /\ v \in ViewType
  BY DEF BudgetInv, Inv, Pair, Roles
<1>2. /\ SameMemory(v, w) /\ w.vis = v.vis /\ w.committed = v.committed \cup v.flush.commit
      /\ w.flush.commit = {}
  BY <1>1, CompleteFields
<1>3. pc' = Sets(pc, p, l) /\ l \in {"sync", ret[p]}
  BY DEF Continue, Goto, Sets
<1>4. Only(view, view', p, w) /\ Only(pc, pc', p, l)
  BY <1>3, PerRoleExcept DEF BudgetInv, SoundInv, Shape
<1>5. ViewSettled(w) /\ Owned(w) = Owned(v)
  <2>1. ViewSettled(v)
    BY <1>1 DEF Account
  <2>2. Owned(w) = Owned(v)
    BY <1>2 DEF Owned
  <2> QED
    BY <1>2, <2>1, <2>2 DEF ViewSettled, SameMemory
<1>6. AuthSettled(w, l, D)
  BY <1>1, <1>2 DEF Account, AuthSettled, Keyed, SameMemory
<1>7. Flow(pc[p], ret[p], home[p], chunk[p])
  BY DEF SoundInv, Scheduled
<1> HIDE DEF l
<1>8. /\ Staging(l, ret[p], Len(check[p]), chunk[p], tasks[p])
      /\ ChecksLeft(l, Len(check[p]), chunk[p]) = ChecksLeft(pc[p], Len(check[p]), chunk[p])
  BY <1>1, <1>3, <1>7, ContinueStaging DEF Account
<1>9. OtState(p)'
  BY <1>1, <1>4, <1>5, <1>8 DEF Account, OtState, Only
<1>10. Account(p)'
  BY <1>1, <1>4, <1>5, <1>6, <1>8, <1>9 DEF Account, Only
<1>11. /\ PerRole(view') /\ PerRole(ot') /\ PerRole(gates') /\ PerRole(checks')
       /\ \A q \in Roles : view'[q].vis.public = view[q].vis.public
  BY <1>2, <1>4 DEF BudgetInv, Only
<1> QED
  BY <1>4, <1>10, <1>11, BudgetStep DEF Books, Only

\* send_flush: no MAC comes or goes.
LEMMA SendFlushBudget ==
  ASSUME Inv, SoundInv, BudgetInv, ProverSendFlush PROVE BudgetInv'
<1>0. "p" \in Roles
  BY DEF Roles
<1>1. CASE Fail("p")
  BY <1>0, <1>1, FailBudget
<1>2. CASE ~Fail("p")
  <2>1. /\ pc["p"] = "sync" /\ Continue("p", CompleteFlush(view["p"]))
        /\ view' = Sets(view, "p", CompleteFlush(view["p"]))
        /\ UNCHANGED <<auth, ret, ot, gates, checks, check, chunk, tasks>>
    BY <1>2 DEF ProverSendFlush, Sets, stores, supply, control
  <2> QED
    BY <1>0, <2>1, SyncBudget
<1> QED
  BY <1>1, <1>2

\* receive_flush: the keys that are adjusted were there.
LEMMA ReceiveFlushBudget ==
  ASSUME Inv, SoundInv, BudgetInv, VerifierReceiveFlush PROVE BudgetInv'
<1>0. "v" \in Roles
  BY DEF Roles
<1>1. CASE Fail("v")
  BY <1>0, <1>1, FailBudget
<1>2. CASE ~Fail("v")
  <2> DEFINE msg == Head(net["v"])
             S == view["v"].flush.commit
             keys == AdjustedKeys(auth["v"], msg.view.commit, msg.adjust)
             new == [a \in S |-> AdjustKey(auth["v"][a], Spread(S, msg.adjust)[a])]
             w == CompleteFlush(view["v"])
  <2>1. /\ pc["v"] = "sync" /\ Continue("v", w) /\ view' = Sets(view, "v", w)
        /\ msg.view.commit = S /\ auth' = Sets(auth, "v", keys)
        /\ UNCHANGED <<ret, ot, gates, checks, check, chunk, tasks>>
    <3>1. VerifierAccepts(msg)
      BY <1>2 DEF VerifierReceiveFlush
    <3>2. msg.view.commit = S
      BY <3>1 DEF VerifierAccepts
    <3> QED
      BY <1>2, <3>2 DEF VerifierReceiveFlush, Sets, supply, control
  <2>2. keys = TrySet(auth["v"], S, new)
    BY <2>1 DEF AdjustedKeys
  <2>3. S \subseteq DOMAIN auth["v"]
    BY <1>0, <2>1 DEF BudgetInv, Account, AuthSettled
  <2> HIDE DEF new, S, keys, w
  <2>4. Written(auth["v"], S, new, keys)
    BY <2>2, TrySetFacts
  <2>5. Only(auth, auth', "v", keys)
    BY <1>0, <2>1, PerRoleExcept DEF SoundInv, Shape
  <2>6. DOMAIN auth'["v"] = DOMAIN auth["v"] /\ \A q \in Roles : q # "v" => auth'[q] = auth[q]
    BY <2>3, <2>4, <2>5 DEF Written, Only
  <2>7. w = CompleteFlush(view["v"])
    BY DEF w
  <2> QED
    BY <1>0, <2>1, <2>6, <2>7, SyncBudget
<1> QED
  BY <1>1, <1>2
-----------------------------------------------------------------------------
(***************************************************************************)
(* The memory operations of the applications keep the accounts.            *)
(***************************************************************************)

\* An account between two operations.
IdleAccount(p) ==
  /\ ViewSettled(view[p]) /\ DOMAIN auth[p] \subseteq Keyed(view[p], "idle")
  /\ OtType(ot[p]) /\ gates[p] \in Nat /\ checks[p] \in Nat
  /\ Balanced(ot[p], gates[p], checks[p], Cardinality(Owned(view[p]) \ DOMAIN auth[p]), 0, 0)

LEMMA IdleFacts ==
  ASSUME BudgetInv, Idle, NEW p \in Roles
  PROVE  /\ IdleAccount(p) /\ pc[p] = "idle" /\ chunk[p] = << >> /\ Len(check[p]) = 0
         /\ SumAnds(chunk[p]) = 0 /\ ChecksLeft(pc[p], Len(check[p]), chunk[p]) = 0
<1>1. Account(p) /\ pc[p] = "idle"
  BY DEF BudgetInv, Idle
<1>2. chunk[p] = << >> /\ Len(check[p]) = 0
  BY <1>1 DEF Account, Staging
<1>3. SumAnds(chunk[p]) = 0 /\ ChecksLeft(pc[p], Len(check[p]), chunk[p]) = 0
  BY <1>1, <1>2, ChecksNat DEF ChecksLeft
<1>4. IdleAccount(p)
  BY <1>1, <1>3 DEF Account, OtState, AuthSettled, IdleAccount
<1> QED
  BY <1>1, <1>2, <1>3, <1>4

LEMMA IdleBudget ==
  ASSUME BudgetInv, Idle, UNCHANGED <<pc, ret, check, chunk, tasks>>,
         PerRole(view'), PerRole(ot'), PerRole(gates'), PerRole(checks'),
         view'["p"].vis.public = view'["v"].vis.public, \A p \in Roles : IdleAccount(p)'
  PROVE  BudgetInv'
<1>1. ASSUME NEW p \in Roles PROVE Account(p)'
  <2>1. Account(p)
    BY DEF BudgetInv
  <2>2. /\ pc[p] = "idle" /\ SumAnds(chunk[p]) = 0
        /\ ChecksLeft(pc[p], Len(check[p]), chunk[p]) = 0
    BY IdleFacts
  <2>3. IdleAccount(p)'
    OBVIOUS
  <2>4. AuthSettled(view'[p], pc'[p], DOMAIN auth'[p])
    BY <2>2, <2>3 DEF IdleAccount, AuthSettled
  <2>5. OtState(p)'
    BY <2>2, <2>3 DEF IdleAccount, OtState
  <2> QED
    BY <2>1, <2>3, <2>4, <2>5 DEF Account, IdleAccount
<1> QED
  BY <1>1 DEF BudgetInv

\* No OT is asked for.
LEMMA IdleViews ==
  ASSUME BudgetInv, Idle, UNCHANGED <<pc, ret, ot, gates, checks, check, chunk, tasks>>,
         PerRole(view'), view'["p"].vis.public = view'["v"].vis.public,
         \A p \in Roles :
           /\ ViewSettled(view'[p]) /\ DOMAIN auth'[p] \subseteq Keyed(view'[p], "idle")
           /\ Owned(view'[p]) \ DOMAIN auth'[p] = Owned(view[p]) \ DOMAIN auth[p]
  PROVE  BudgetInv'
<1>1. ASSUME NEW p \in Roles PROVE IdleAccount(p)'
  <2>1. IdleAccount(p)
    BY IdleFacts
  <2> QED
    BY <2>1 DEF IdleAccount
<1>2. PerRole(ot') /\ PerRole(gates') /\ PerRole(checks')
  BY DEF BudgetInv
<1> QED
  BY <1>1, <1>2, IdleBudget

\* What is allocated has no visibility.
LEMMA AllocSettled ==
  ASSUME NEW v \in ViewType, ViewInv(v), ViewSettled(v), NEW n \in Nat,
         NEW w \in {AllocInput(v, n), AllocOutput(v, n)}
  PROVE  /\ ViewSettled(w) /\ Owned(w) = Owned(v) /\ w.vis.public = v.vis.public
         /\ Keyed(v, "idle") \subseteq Keyed(w, "idle")
<1> DEFINE S == Slice(v.len, n)
<1>1. /\ SameProgress(v, w) /\ \A a \in S : v.len <= a
      /\ w.vis.uninit = v.vis.uninit \cup S /\ w.vis.public = v.vis.public
      /\ w.vis.blind = v.vis.blind /\ v.inputs \subseteq w.inputs /\ v.outputs \subseteq w.outputs
      /\ \/ w.inputs = v.inputs \cup S /\ w.outputs = v.outputs
         \/ w.inputs = v.inputs /\ w.outputs = v.outputs \cup S
  <2>0. S = Slice(v.len, n)
    OBVIOUS
  <2> HIDE DEF S
  <2>1. /\ AllocInput(v, n).inputs = v.inputs \cup S /\ AllocInput(v, n).outputs = v.outputs
        /\ AllocOutput(v, n).inputs = v.inputs /\ AllocOutput(v, n).outputs = v.outputs \cup S
    BY <2>0, AllocFields
  <2>2. /\ SameProgress(v, w) /\ \A a \in S : v.len <= a
        /\ w.vis.uninit = v.vis.uninit \cup S /\ w.vis.public = v.vis.public
        /\ w.vis.blind = v.vis.blind
    <3>1. /\ SameProgress(v, w) /\ \A a \in S : v.len <= a /\ a < v.len + n
          /\ w.vis.uninit = v.vis.uninit \cup S /\ w.vis.public = v.vis.public
          /\ w.vis.blind = v.vis.blind
      BY <2>0, AllocFields
    <3> QED
      BY <3>1
  <2>3. w = AllocInput(v, n) \/ w = AllocOutput(v, n)
    OBVIOUS
  <2>4. \/ w.inputs = v.inputs \cup S /\ w.outputs = v.outputs
        \/ w.inputs = v.inputs /\ w.outputs = v.outputs \cup S
    BY ONLY <2>1, <2>3
  <2> QED
    BY ONLY <2>2, <2>4
<1>2. w.vis.private = v.vis.private
  <2> DEFINE vis == VisAlloc(v.vis, S)
  <2>1. vis.private = v.vis.private
    BY DEF VisAlloc, VisType, ViewType
  <2>2. w.vis = vis
    BY DEF AllocInput, AllocOutput, ViewType
  <2> QED
    BY <2>1, <2>2
<1>3. \A a \in v.inputs \cup v.outputs : a \notin S
  <2>1. \A a \in v.inputs \cup v.outputs : a < v.len /\ a \in Int /\ v.len \in Int
    BY DEF ViewInv, Below, ViewType, Addr
  <2>2. \A a \in S : a \in Int
    BY DEF Slice
  <2> HIDE DEF S
  <2> QED
    BY <1>1, <2>1, <2>2
<1> HIDE DEF S
<1>4. Owned(w) = Owned(v)
  BY <1>1, <1>2 DEF Owned
<1>5. ViewSettled(w)
  BY <1>1, <1>3, <1>4 DEF ViewSettled, SameProgress
<1>6. Keyed(v, "idle") \subseteq Keyed(w, "idle")
  BY <1>1 DEF Keyed, SameProgress
<1> QED
  BY <1>1, <1>4, <1>5, <1>6

\* alloc_raw.
LEMMA AllocRawBudget ==
  ASSUME Inv, BudgetInv, AllocRaw PROVE BudgetInv'
<1> DEFINE n == InputSizes[Cardinality(Allocated) + 1]
<1>1. /\ Idle /\ view' = [p \in Roles |-> AllocInput(view[p], n)]
      /\ UNCHANGED <<auth, pc, ret, ot, gates, checks, check, chunk, tasks>>
  BY DEF AllocRaw, stores, supply, checking, control
<1>2. n \in Nat
  BY NextSize
<1> HIDE DEF n
<1>3. \A p \in Roles : view'[p] = AllocInput(view[p], n)
  BY <1>1
<1>4. ASSUME NEW p \in Roles
      PROVE  /\ ViewSettled(view'[p]) /\ DOMAIN auth'[p] \subseteq Keyed(view'[p], "idle")
             /\ Owned(view'[p]) = Owned(view[p]) /\ view'[p].vis.public = view[p].vis.public
  <2>1. view[p] \in ViewType /\ ViewInv(view[p])
    BY DEF Inv, Pair, Roles
  <2>2. ViewSettled(view[p]) /\ DOMAIN auth[p] \subseteq Keyed(view[p], "idle")
    BY <1>1, IdleFacts DEF IdleAccount
  <2>3. view'[p] \in {AllocInput(view[p], n), AllocOutput(view[p], n)}
    BY <1>3
  <2>4. /\ ViewSettled(view'[p]) /\ Owned(view'[p]) = Owned(view[p])
        /\ view'[p].vis.public = view[p].vis.public
        /\ Keyed(view[p], "idle") \subseteq Keyed(view'[p], "idle")
    BY <1>2, <2>1, <2>2, <2>3, AllocSettled
  <2> QED
    BY <1>1, <2>2, <2>4
<1>5. view'["p"].vis.public = view'["v"].vis.public
  BY <1>4 DEF BudgetInv, Roles
<1>6. PerRole(view')
  BY <1>1 DEF PerRole
<1> QED
  BY <1>1, <1>4, <1>5, <1>6, IdleViews

\* decode_raw.
LEMMA DecodeRawBudget ==
  ASSUME Inv, BudgetInv, NEW S \in Addr, DecodeRaw(S) PROVE BudgetInv'
<1>1. /\ Idle /\ view' = [p \in Roles |-> Decode(view[p], p, S)]
      /\ UNCHANGED <<auth, pc, ret, ot, gates, checks, check, chunk, tasks>>
  BY DEF DecodeRaw, stores, supply, checking, control
<1>2. \A p \in Roles : view'[p] = Decode(view[p], p, S)
  BY <1>1
<1>3. ASSUME NEW p \in Roles
      PROVE  /\ ViewSettled(view'[p]) /\ DOMAIN auth'[p] \subseteq Keyed(view'[p], "idle")
             /\ Owned(view'[p]) = Owned(view[p]) /\ view'[p].vis.public = view[p].vis.public
  <2> DEFINE v == view[p]
             w == view'[p]
  <2>1. v \in ViewType
    BY DEF Inv, Pair, Roles
  <2>2. ViewSettled(v) /\ DOMAIN auth[p] \subseteq Keyed(v, "idle")
    BY <1>1, IdleFacts DEF IdleAccount
  <2>3. /\ SameMemory(v, w) /\ w.vis = v.vis /\ w.committed = v.committed
        /\ w.flush.commit = v.flush.commit
    BY <1>2, <2>1, DecodeFields
  <2> HIDE DEF w, v
  <2>4. Owned(w) = Owned(v) /\ Keyed(w, "idle") = Keyed(v, "idle")
    BY <2>3 DEF Owned, Keyed, SameMemory
  <2>5. ViewSettled(w)
    BY <2>2, <2>3, <2>4 DEF ViewSettled, SameMemory
  <2> QED
    BY <1>1, <2>2, <2>3, <2>4, <2>5 DEF v, w
<1>4. view'["p"].vis.public = view'["v"].vis.public
  BY <1>3 DEF BudgetInv, Roles
<1>5. PerRole(view')
  BY <1>1 DEF PerRole
<1> QED
  BY <1>1, <1>3, <1>4, <1>5, IdleViews

\* commit_raw: public data is committed at once, what needs MACs and keys
\* waits for them.
LEMMA CommitRawBudget ==
  ASSUME Inv, BudgetInv, NEW S \in Addr, CommitRaw(S) PROVE BudgetInv'
<1>1. /\ Idle /\ view' = [p \in Roles |-> Commit(view[p], p, S)]
      /\ \A p \in Roles : CanCommit(view[p], S)
      /\ UNCHANGED <<auth, pc, ret, ot, gates, checks, check, chunk, tasks>>
  BY DEF CommitRaw, stores, supply, checking, control
<1>2. \A p \in Roles : view'[p] = Commit(view[p], p, S)
  BY <1>1
<1>3. ASSUME NEW p \in Roles
      PROVE  /\ ViewSettled(view'[p]) /\ DOMAIN auth'[p] \subseteq Keyed(view'[p], "idle")
             /\ Owned(view'[p]) = Owned(view[p]) /\ view'[p].vis.public = view[p].vis.public
  <2> DEFINE v == view[p]
             w == view'[p]
             mine == IF p = "p" THEN v.vis.private ELSE v.vis.blind
  <2>1. v \in ViewType
    BY DEF Inv, Pair, Roles
  <2>2. ViewSettled(v) /\ DOMAIN auth[p] \subseteq Keyed(v, "idle")
    BY <1>1, IdleFacts DEF IdleAccount
  <2>3. /\ SameMemory(v, w) /\ w.vis = v.vis /\ w.committed = v.committed \cup (S \cap v.vis.public)
        /\ w.flush.commit = v.flush.commit \cup (S \cap mine)
    BY <1>2, <2>1, CommitFields
  <2>4. mine \subseteq Owned(v) /\ S \cap v.committed = {}
    BY <1>1 DEF Owned, CanCommit
  <2> HIDE DEF w, v, mine
  <2>5. Owned(w) = Owned(v) /\ Keyed(v, "idle") \subseteq Keyed(w, "idle")
    BY <2>3 DEF Owned, Keyed, SameMemory
  <2>6. ViewSettled(w)
    BY <2>2, <2>3, <2>4, <2>5 DEF ViewSettled, SameMemory
  <2> QED
    BY <1>1, <2>2, <2>3, <2>5, <2>6 DEF v, w
<1>4. view'["p"].vis.public = view'["v"].vis.public
  BY <1>3 DEF BudgetInv, Roles
<1>5. PerRole(view')
  BY <1>1 DEF PerRole
<1> QED
  BY <1>1, <1>3, <1>4, <1>5, IdleViews

\* mark_public, mark_private and mark_blind: an input that had no visibility,
\* no MAC and no key.
LEMMA MarkOwned ==
  ASSUME NEW v \in ViewType, ViewInv(v), ViewSettled(v), NEW S \in Addr, IsFiniteSet(S),
         CanMark(v, S), Below(S, v.len),
         NEW w \in {MarkPublic(v, S), MarkPrivate(v, S), MarkBlind(v, S)}
  PROVE  /\ ViewSettled(w) /\ Keyed(v, "idle") \subseteq Keyed(w, "idle")
         /\ S \cap Owned(v) = {} /\ S \cap Keyed(v, "idle") = {}
         /\ w = MarkPublic(v, S) => Owned(w) = Owned(v) /\ w.vis.public = v.vis.public \cup S
         /\ w \in {MarkPrivate(v, S), MarkBlind(v, S)} =>
              Owned(w) = Owned(v) \cup S /\ w.vis.public = v.vis.public
<1>1. S \subseteq v.vis.uninit /\ S \subseteq v.inputs
  BY DEF CanMark, VisIsSetAny, Below, ViewInv
<1>2. /\ S \cap v.vis.public = {} /\ S \cap v.vis.private = {} /\ S \cap v.vis.blind = {}
      /\ S \cap Owned(v) = {} /\ S \cap v.committed = {} /\ S \cap v.outputs = {}
  BY <1>1 DEF ViewInv, ViewSettled, Owned
<1>3. SameMemory(v, w) /\ SameProgress(v, w) /\ w.vis.uninit = v.vis.uninit \ S
  <2>1. w \in ViewType /\ SameMemory(v, w) /\ SameProgress(v, w)
    BY MarkFields
  <2>2. w.vis \in {SetPublic(v.vis, S), SetPrivate(v.vis, S), SetBlind(v.vis, S)}
    BY DEF MarkPublic, MarkPrivate, MarkBlind, ViewType
  <2>3. w.vis.uninit = v.vis.uninit \ S
    BY <2>2 DEF SetPublic, SetPrivate, SetBlind
  <2> QED
    BY <2>1, <2>3
<1>4. /\ MarkPublic(v, S).vis = SetPublic(v.vis, S) /\ MarkPrivate(v, S).vis = SetPrivate(v.vis, S)
      /\ MarkBlind(v, S).vis = SetBlind(v.vis, S)
  BY DEF MarkPublic, MarkPrivate, MarkBlind, ViewType
<1>5. w = MarkPublic(v, S) => Owned(w) = Owned(v) /\ w.vis.public = v.vis.public \cup S
  <2> SUFFICES ASSUME w = MarkPublic(v, S)
               PROVE  Owned(w) = Owned(v) /\ w.vis.public = v.vis.public \cup S
    OBVIOUS
  <2>1. /\ w.vis.public = v.vis.public \cup S /\ w.vis.private = v.vis.private \ S
        /\ w.vis.blind = v.vis.blind \ S
    BY <1>4 DEF SetPublic
  <2> QED
    BY <1>2, <2>1 DEF Owned
<1>6. w \in {MarkPrivate(v, S), MarkBlind(v, S)} =>
        Owned(w) = Owned(v) \cup S /\ w.vis.public = v.vis.public
  <2>1. CASE w = MarkPrivate(v, S)
    <3>1. /\ w.vis.public = v.vis.public \ S /\ w.vis.private = v.vis.private \cup S
          /\ w.vis.blind = v.vis.blind \ S
      BY <1>4, <2>1 DEF SetPrivate
    <3> QED
      BY <1>2, <3>1 DEF Owned
  <2>2. CASE w = MarkBlind(v, S)
    <3>1. /\ w.vis.public = v.vis.public \ S /\ w.vis.private = v.vis.private \ S
          /\ w.vis.blind = v.vis.blind \cup S
      BY <1>4, <2>2 DEF SetBlind
    <3> QED
      BY <1>2, <3>1 DEF Owned
  <2> QED
    BY <2>1, <2>2
<1>7. IsFiniteSet(Owned(v) \cup S)
  BY FS_Union DEF ViewSettled
<1>8. \/ Owned(w) = Owned(v) /\ w.vis.public = v.vis.public \cup S
      \/ Owned(w) = Owned(v) \cup S /\ w.vis.public = v.vis.public
  BY <1>5, <1>6
<1>9. ViewSettled(w)
  BY <1>1, <1>2, <1>3, <1>7, <1>8 DEF ViewSettled, SameMemory, SameProgress
<1>10. S \cap Keyed(v, "idle") = {} /\ Keyed(v, "idle") \subseteq Keyed(w, "idle")
  BY <1>2, <1>3, <1>8 DEF Keyed, SameMemory, SameProgress
<1> QED
  BY <1>2, <1>5, <1>6, <1>9, <1>10

\* A set of inputs that needs OTs is added.
More(H, D, S) == Cardinality((H \cup S) \ D) = Cardinality(H \ D) + Cardinality(S)

LEMMA OwnedMore ==
  ASSUME NEW H, IsFiniteSet(H), NEW D, NEW S, IsFiniteSet(S), S \cap H = {}, S \cap D = {}
  PROVE  More(H, D, S)
<1> DEFINE R == H \ D
<1>1. IsFiniteSet(R) /\ Cardinality(R) \in Nat /\ Cardinality(S) \in Nat
  <2>1. R \in SUBSET H
    OBVIOUS
  <2> QED
    BY <2>1, FS_Subset, FS_CardinalityType
<1>2. R \cup S = (H \cup S) \ D /\ R \cap S = {}
  OBVIOUS
<1> HIDE DEF R
<1>3. Cardinality(R \cup S) = Cardinality(R) + Cardinality(S) - Cardinality(R \cap S)
  BY <1>1, FS_Union
<1>4. Cardinality({}) = 0
  BY FS_EmptySet
<1>5. Cardinality(R \cap S) = 0
  BY <1>2, <1>4
<1>6. Cardinality(R \cup S) = Cardinality(R) + Cardinality(S)
  BY <1>1, <1>3, <1>5
<1> QED
  BY <1>2, <1>6 DEF R, More

\* mark_raw asks for one OT for every address that is not public.
LEMMA MarkRawBudget ==
  ASSUME Inv, BudgetInv, NEW i \in Allocated, MarkRaw(i) PROVE BudgetInv'
<1> DEFINE S == InputSlice(i)
           n == Cardinality(S)
<1>1. /\ Idle /\ \A p \in Roles : CanMark(view[p], S)
      /\ UNCHANGED <<auth, pc, ret, gates, checks, check, chunk, tasks>>
      /\ \/ /\ view' = [p \in Roles |-> MarkPublic(view[p], S)] /\ ot' = ot
         \/ /\ view' = [p \in Roles |-> IF p = "p" THEN MarkPrivate(view[p], S)
                                                   ELSE MarkBlind(view[p], S)]
            /\ ot' = [p \in Roles |-> OtAlloc(ot[p], n)]
  BY DEF MarkRaw, stores, checking, control
<1>2. S \in Addr /\ Below(S, view["p"].len) /\ IsFiniteSet(S) /\ n \in Nat
  <2>1. S \in Addr /\ Below(S, view["p"].len)
    BY InputAddr
  <2>2. i \in DOMAIN InputSizes
    BY DEF Allocated
  <2>3. S \subseteq 0 .. NumInputs - 1 /\ NumInputs \in Nat
    BY <2>2, InputAddresses
  <2> HIDE DEF S
  <2>4. IsFiniteSet(0 .. NumInputs - 1)
    BY <2>3, FS_Interval
  <2>5. S \in SUBSET (0 .. NumInputs - 1)
    BY <2>3
  <2>6. IsFiniteSet(S)
    BY <2>4, <2>5, FS_Subset
  <2> QED
    BY <2>1, <2>6, FS_CardinalityType
<1> HIDE DEF S, n
<1>3. ASSUME NEW p \in Roles
      PROVE  /\ view[p] \in ViewType /\ ViewInv(view[p]) /\ Below(S, view[p].len)
             /\ ViewSettled(view[p]) /\ IdleAccount(p) /\ CanMark(view[p], S)
  <2>1. view[p] \in ViewType /\ ViewInv(view[p]) /\ view[p].len = view["p"].len
    BY DEF Inv, Pair, Roles
  <2> QED
    BY <1>1, <1>2, <2>1, IdleFacts DEF IdleAccount
<1>4. /\ PerRole(view') /\ PerRole(ot') /\ PerRole(gates') /\ PerRole(checks')
  BY <1>1 DEF PerRole, BudgetInv
<1>5. CASE ot' = ot /\ view' = [p \in Roles |-> MarkPublic(view[p], S)]
  <2>1. ASSUME NEW p \in Roles
        PROVE  /\ IdleAccount(p)' /\ view'[p].vis.public = view[p].vis.public \cup S
    <3> DEFINE v == view[p]
               w == MarkPublic(v, S)
    <3>1. view'[p] = w /\ w \in {MarkPublic(v, S), MarkPrivate(v, S), MarkBlind(v, S)}
      BY <1>5
    <3>2. /\ ViewSettled(w) /\ Keyed(v, "idle") \subseteq Keyed(w, "idle")
          /\ Owned(w) = Owned(v) /\ w.vis.public = v.vis.public \cup S
      BY <1>2, <1>3, <3>1, MarkOwned
    <3> HIDE DEF w
    <3> QED
      BY <1>1, <1>3, <1>5, <3>1, <3>2 DEF IdleAccount
  <2>2. view'["p"].vis.public = view'["v"].vis.public
    BY <2>1 DEF BudgetInv, Roles
  <2> QED
    BY <1>1, <1>4, <2>1, <2>2, IdleBudget
<1>6. CASE /\ view' = [p \in Roles |-> IF p = "p" THEN MarkPrivate(view[p], S)
                                                  ELSE MarkBlind(view[p], S)]
           /\ ot' = [p \in Roles |-> OtAlloc(ot[p], n)]
  <2>1. ASSUME NEW p \in Roles
        PROVE  /\ IdleAccount(p)' /\ view'[p].vis.public = view[p].vis.public
    <3> DEFINE v == view[p]
               w == view'[p]
               o == OtAlloc(ot[p], n)
               D == DOMAIN auth[p]
    <3>1. /\ w \in {MarkPrivate(v, S), MarkBlind(v, S)} /\ ot'[p] = o
          /\ w \in {MarkPublic(v, S), MarkPrivate(v, S), MarkBlind(v, S)}
      BY <1>6
    <3>2. /\ ViewSettled(w) /\ Keyed(v, "idle") \subseteq Keyed(w, "idle")
          /\ S \cap Owned(v) = {} /\ S \cap Keyed(v, "idle") = {}
          /\ Owned(w) = Owned(v) \cup S /\ w.vis.public = v.vis.public
      <4> HIDE DEF w, v
      <4> QED
        BY <1>2, <1>3, <3>1, MarkOwned DEF v
    <3>3. D \subseteq Keyed(v, "idle") /\ IsFiniteSet(Owned(v)) /\ OtType(ot[p])
      BY <1>3 DEF IdleAccount, ViewSettled
    <3>4. Cardinality(Owned(w) \ D) = Cardinality(Owned(v) \ D) + n
      <4> HIDE DEF w, v, D
      <4>1. S \cap D = {}
        BY <3>2, <3>3
      <4>2. More(Owned(v), D, S)
        BY <1>2, <3>2, <3>3, <4>1, OwnedMore
      <4> QED
        BY <3>2, <4>2 DEF More, n
    <3>5. OtType(o) /\ o.pending = ot[p].pending + n /\ Len(o.pool) = Len(ot[p].pool)
      BY <1>2, <3>3, OtFacts
    <3> HIDE DEF o
    <3>6. Balanced(o, gates[p], checks[p], Cardinality(Owned(w) \ D), 0, 0)
      <4> DEFINE h == Cardinality(Owned(v) \ D)
                 h2 == Cardinality(Owned(w) \ D)
                 x == ot[p].pending
                 y == Len(ot[p].pool)
                 x2 == o.pending
                 y2 == Len(o.pool)
                 g == gates[p]
                 ck == checks[p] * CheckOts
      <4>1. /\ x \in Nat /\ y \in Nat /\ h \in Nat /\ g \in Nat /\ ck \in Int /\ 0 * CheckOts = 0
            /\ x + y = g + ck + h
        <5>1. x \in Nat /\ y \in Nat /\ g \in Nat /\ checks[p] \in Nat /\ CheckOts \in Nat
          BY <1>2, <1>3, <3>3, OtFacts, ConstantsOK DEF IdleAccount, OtType
        <5>2. h \in Nat
          <6>1. {} \subseteq Owned(v) \ D
            OBVIOUS
          <6> HIDE DEF v, D
          <6>2. Fewer(Owned(v), D, {})
            BY <3>3, <6>1, OwnedLess
          <6> QED
            BY <6>2 DEF Fewer
        <5>3. Balanced(ot[p], g, checks[p], h, 0, 0)
          BY <1>3 DEF IdleAccount
        <5> HIDE DEF h
        <5>4. ck \in Int /\ 0 * CheckOts = 0
          BY <5>1
        <5> QED
          BY <5>1, <5>2, <5>3, <5>4 DEF Balanced
      <4>2. x2 = x + n /\ y2 = y /\ h2 = h + n
        BY <3>4, <3>5
      <4>3. 0 * CheckOts = 0
        BY <4>1
      <4> HIDE DEF x, y, x2, y2, h, h2, g, ck
      <4>4. x2 + y2 = g + ck + h2 + 0 + 0 /\ h2 \in Int
        BY <1>2, <4>1, <4>2
      <4> QED
        BY <4>3, <4>4 DEF Balanced, x2, y2, h2, g, ck
    <3> QED
      BY <1>1, <1>3, <3>1, <3>2, <3>3, <3>5, <3>6 DEF IdleAccount
  <2>2. view'["p"].vis.public = view'["v"].vis.public
    BY <2>1 DEF BudgetInv, Roles
  <2> QED
    BY <1>1, <1>4, <2>1, <2>2, IdleBudget
<1> QED
  BY <1>1, <1>5, <1>6

\* assign_raw: public data gets its MACs and keys, and needs no OT.
LEMMA AssignRawBudget ==
  ASSUME Inv, BudgetInv, NEW i \in Allocated, AssignRaw(InputSlice(i)) PROVE BudgetInv'
<1> DEFINE S == InputSlice(i)
           U == S \cap view["p"].vis.public
<1>1. /\ Idle /\ PerRole(view')
      /\ \A p \in Roles : view'[p] \in {view[p], Assign(view[p], S)}
      /\ \A p \in Roles : \E new : auth'[p] = TrySet(auth[p], U, new)
      /\ UNCHANGED <<pc, ret, ot, gates, checks, check, chunk, tasks>>
  <2> DEFINE new(p) == [a \in U |-> IF p = "p" THEN MacPublic(Value[a]) ELSE KeyPublic(Value[a])]
             seers == {p \in Roles : CanAssign(view[p], S)}
  <2>1. /\ Idle
        /\ view' = [p \in Roles |-> IF p \in seers THEN Assign(view[p], S) ELSE view[p]]
        /\ auth' = [p \in Roles |-> TrySet(auth[p], U, new(p))]
        /\ UNCHANGED <<pc, ret, ot, gates, checks, check, chunk, tasks>>
    BY DEF AssignRaw, supply, checking, control
  <2> HIDE DEF new, U, S, seers
  <2>2. \A p \in Roles : auth'[p] = TrySet(auth[p], U, new(p))
    BY <2>1
  <2>3. PerRole(view') /\ \A p \in Roles : view'[p] \in {view[p], Assign(view[p], S)}
    BY <2>1 DEF PerRole
  <2> QED
    BY <2>1, <2>2, <2>3
<1>2. S \in Addr
  BY InputAddr
<1> HIDE DEF S
<1>3. ASSUME NEW p \in Roles
      PROVE  /\ ViewSettled(view'[p]) /\ DOMAIN auth'[p] \subseteq Keyed(view'[p], "idle")
             /\ Owned(view'[p]) \ DOMAIN auth'[p] = Owned(view[p]) \ DOMAIN auth[p]
             /\ view'[p].vis.public = view[p].vis.public
  <2> DEFINE v == view[p]
             w == view'[p]
  <2>1. v \in ViewType /\ U \subseteq v.vis.public
    BY DEF Inv, Pair, BudgetInv, Roles
  <2>2. ViewSettled(v) /\ DOMAIN auth[p] \subseteq Keyed(v, "idle")
    BY <1>1, IdleFacts DEF IdleAccount
  <2>3. SameMemory(v, w) /\ w.vis = v.vis /\ w.committed = v.committed /\ w.flush = v.flush
    <3>1. CASE w = v
      BY <3>1 DEF SameMemory
    <3>2. CASE w = Assign(v, S)
      BY <1>2, <2>1, <3>2, AssignFields
    <3> QED
      BY <1>1, <3>1, <3>2
  <2>4. DOMAIN auth'[p] = U \cup DOMAIN auth[p]
    <3>1. PICK new : auth'[p] = TrySet(auth[p], U, new)
      BY <1>1
    <3> HIDE DEF U
    <3>2. Written(auth[p], U, new, auth'[p])
      BY <3>1, TrySetFacts
    <3> QED
      BY <3>2 DEF Written
  <2> HIDE DEF w, v, U
  <2>5. Owned(w) = Owned(v) /\ Keyed(w, "idle") = Keyed(v, "idle") /\ v.vis.public \subseteq Keyed(v, "idle")
    BY <2>3 DEF Owned, Keyed, SameMemory
  <2>6. ViewSettled(w)
    BY <2>2, <2>3, <2>5 DEF ViewSettled, SameMemory
  <2>7. Owned(v) \ (U \cup DOMAIN auth[p]) = Owned(v) \ DOMAIN auth[p]
    BY <2>1, <2>2 DEF ViewSettled
  <2> QED
    BY <2>1, <2>2, <2>3, <2>4, <2>5, <2>6, <2>7 DEF v, w
<1>4. view'["p"].vis.public = view'["v"].vis.public
  BY <1>3 DEF BudgetInv, Roles
<1> QED
  BY <1>1, <1>3, <1>4, IdleViews

\* The checks of a call are a number.
LEMMA CallChecksNat ==
  ASSUME NEW s \in Nat, NEW count \in Nat, count > 0
  PROVE  CallChecks(s % BatchSize, count) \in Nat
<1>1. BatchSize \in Nat /\ BatchSize > 0
  BY ConstantsOK
<1>2. s % BatchSize \in Nat
  BY <1>1
<1> DEFINE a == s % BatchSize
           m == a + count - 1
<1>3. m \in Nat
  BY <1>2
<1> HIDE DEF m
<1>4. m \div BatchSize \in Nat
  BY <1>1, <1>3
<1> QED
  BY <1>4 DEF CallChecks, m

\* call_raw asks for as many OTs as it registers gates and checks for.
LEMMA CallRawBudget ==
  ASSUME Inv, SoundInv, BudgetInv, CallRaw PROVE BudgetInv'
<1> DEFINE count == Ands(calls + 1)
           new(p) == IF count = 0 THEN 0 ELSE CallChecks(SumAnds(stack[p]) % BatchSize, count)
           fits(p) == count > 0 /\ gates[p] + count <= ChunkCap
           extra(p) == IF fits(p) THEN count ELSE 0
           o(p) == OtAlloc(ot[p], extra(p) + CheckOts * new(p))
<1>1. /\ Idle /\ calls < Len(Circuits)
      /\ view' = [p \in Roles |-> AllocOutput(view[p], 1)]
      /\ gates' = [p \in Roles |-> IF fits(p) THEN gates[p] + count ELSE gates[p]]
      /\ checks' = [p \in Roles |-> checks[p] + new(p)]
      /\ ot' = [p \in Roles |-> o(p)]
      /\ UNCHANGED <<auth, pc, ret, check, chunk, tasks>>
  BY DEF CallRaw, stores, checking, control
<1>2. count \in Nat
  <2>1. calls \in Nat /\ Len(Circuits) \in Nat /\ DOMAIN Circuits = 1 .. Len(Circuits)
    BY CircuitsOK DEF SoundInv, Scheduled
  <2>2. calls + 1 \in DOMAIN Circuits
    BY <1>1, <2>1
  <2> QED
    BY <2>2, AndsNat
<1> HIDE DEF count
<1>3. ASSUME NEW p \in Roles PROVE new(p) \in Nat /\ extra(p) \in Nat
  <2>1. SumAnds(stack[p]) \in Nat
    <3>1. stack[p] \in Seq(DOMAIN Circuits)
      BY DEF SoundInv, Scheduled, Staged
    <3> QED
      BY <3>1, BatchSums
  <2>2. count > 0 => CallChecks(SumAnds(stack[p]) % BatchSize, count) \in Nat
    BY <1>2, <2>1, CallChecksNat
  <2> QED
    BY <1>2, <2>2
<1>4. /\ PerRole(view') /\ PerRole(ot') /\ PerRole(gates') /\ PerRole(checks')
      /\ \A p \in Roles :
           /\ view'[p] = AllocOutput(view[p], 1) /\ ot'[p] = o(p)
           /\ gates'[p] = IF fits(p) THEN gates[p] + count ELSE gates[p]
           /\ checks'[p] = checks[p] + new(p)
  <2> HIDE DEF o, new, fits
  <2> QED
    BY <1>1 DEF PerRole
<1>5. ASSUME NEW p \in Roles
      PROVE  IdleAccount(p)' /\ view'[p].vis.public = view[p].vis.public
  <2> DEFINE v == view[p]
             w == view'[p]
             e == extra(p)
             k == new(p)
             a == o(p)
             h == Cardinality(Owned(v) \ DOMAIN auth[p])
             ek == CheckOts * k
  <2>1. IdleAccount(p) /\ v \in ViewType /\ ViewInv(v) /\ CheckOts \in Nat
    BY <1>1, IdleFacts, ConstantsOK DEF Inv, Pair, Roles
  <2>2. /\ ViewSettled(w) /\ Owned(w) = Owned(v) /\ w.vis.public = v.vis.public
        /\ Keyed(v, "idle") \subseteq Keyed(w, "idle")
    <3>1. w \in {AllocInput(v, 1), AllocOutput(v, 1)} /\ ViewSettled(v)
      BY <1>4, <2>1 DEF IdleAccount
    <3> HIDE DEF w, v
    <3> QED
      BY <2>1, <3>1, AllocSettled
  <2>3. e \in Nat /\ k \in Nat /\ a = OtAlloc(ot[p], e + ek)
    BY <1>3
  <2>4. gates'[p] = gates[p] + e /\ checks'[p] = checks[p] + k /\ ot'[p] = a
        /\ gates[p] \in Nat /\ checks[p] \in Nat /\ OtType(ot[p])
    BY <1>2, <1>4, <2>1 DEF IdleAccount
  <2> HIDE DEF e, k, a
  <2>5. ek \in Nat /\ (checks[p] + k) * CheckOts = checks[p] * CheckOts + ek
        /\ checks[p] * CheckOts \in Nat /\ 0 * CheckOts = 0
    BY <2>1, <2>3, <2>4
  <2> HIDE DEF ek
  <2>6. /\ OtType(a) /\ a.pending = ot[p].pending + (e + ek) /\ Len(a.pool) = Len(ot[p].pool)
        /\ Len(ot[p].pool) \in Nat /\ ot[p].pending \in Nat
    <3>1. e + ek \in Nat
      BY <2>3, <2>5
    <3> QED
      BY <2>3, <2>4, <3>1, OtFacts DEF OtType
  <2>7. h \in Nat
    <3>1. {} \subseteq Owned(v) \ DOMAIN auth[p] /\ IsFiniteSet(Owned(v))
      BY <2>1 DEF IdleAccount, ViewSettled
    <3>2. Fewer(Owned(v), DOMAIN auth[p], {})
      BY <3>1, OwnedLess
    <3> QED
      BY <3>2 DEF Fewer
  <2> HIDE DEF h
  <2>8. Balanced(a, gates[p] + e, checks[p] + k, h, 0, 0)
    <3> DEFINE x == ot[p].pending
               y == Len(ot[p].pool)
               x2 == a.pending
               y2 == Len(a.pool)
               g == gates[p]
               ck == checks[p] * CheckOts
    <3>1. x + y = g + ck + h /\ x2 = x + (e + ek) /\ y2 = y /\ g \in Nat /\ ck \in Nat
          /\ x \in Nat /\ y \in Nat
      <4>1. Balanced(ot[p], gates[p], checks[p], h, 0, 0)
        BY <2>1 DEF IdleAccount, h
      <4> QED
        BY <2>4, <2>5, <2>6, <2>7, <4>1 DEF Balanced
    <3> HIDE DEF x, y, x2, y2, g, ck
    <3>2. x2 + y2 = (g + e) + (ck + ek) + h + 0 + 0
      BY <2>3, <2>5, <2>7, <3>1
    <3> QED
      BY <2>5, <3>2 DEF Balanced, x2, y2, g, ck
  <2>9. gates[p] + e \in Nat /\ checks[p] + k \in Nat
    BY <2>3, <2>4
  <2> HIDE DEF w
  <2>10. IdleAccount(p)'
    BY <1>1, <2>1, <2>2, <2>4, <2>6, <2>8, <2>9 DEF IdleAccount, h, w
  <2> QED
    BY <2>2, <2>10 DEF w
<1>6. view'["p"].vis.public = view'["v"].vis.public
  BY <1>5 DEF BudgetInv, Roles
<1> QED
  BY <1>1, <1>4, <1>5, <1>6, IdleBudget
-----------------------------------------------------------------------------
(***************************************************************************)
(* Every step keeps the accounts.                                          *)
(***************************************************************************)

\* What both machines do in flush and execute.
LEMMA PartyBudget ==
  ASSUME Inv, SoundInv, BudgetInv, NEW p \in Roles, Party(p) PROVE BudgetInv'
BY SetAuthBudget, ExecuteAllBudget, StageBudget, StartBatchBudget, EndBatchBudget DEF Party

\* Every operation of the applications, and every step of a machine.
LEMMA BudgetNext ==
  ASSUME Inv, SoundInv, BudgetInv, [Next]_vars PROVE BudgetInv'
<1>1. CASE UNCHANGED vars
  BY <1>1, BudgetSame DEF vars, stores, supply, checking, control, Books, BudgetInv
<1>2. CASE Application
  <2>1. ASSUME NEW S \in Slices \cup {Slice(Out(k), 1) : k \in 1 .. calls}, DecodeRaw(S)
        PROVE  BudgetInv'
    BY <2>1, DecodeRawBudget, SliceAddr
  <2>2. ASSUME NEW S \in Slices, CommitRaw(S) PROVE BudgetInv'
    BY <2>2, CommitRawBudget, SliceAddr
  <2> QED
    BY <1>2, <2>1, <2>2, AllocRawBudget, MarkRawBudget, AssignRawBudget, CallRawBudget, StartBudget
       DEF Application
<1>3. CASE Prover
  BY <1>3, PartyBudget, OtFlushBudget, SendFlushBudget, CheckBudget, TaskBudget DEF Prover, Roles
<1>4. CASE Verifier
  BY <1>4, PartyBudget, OtFlushBudget, ReceiveFlushBudget, CheckBudget, TaskBudget
     DEF Verifier, Roles
<1> QED
  BY <1>1, <1>2, <1>3, <1>4 DEF Next

\* The accounts between two chunks.
LEMMA BudgetBalanced == SoundInv /\ BudgetInv => OtsBalanced
<1> SUFFICES ASSUME SoundInv, BudgetInv, NEW p \in Roles, pc[p] \in {"idle", "loop", "stage"}
             PROVE  ot[p].pending + Len(ot[p].pool)
                      = gates[p] + checks[p] * CheckOts
                          + Cardinality((view[p].vis.private \cup view[p].vis.blind)
                                          \ DOMAIN auth[p])
  BY DEF OtsBalanced
<1>1. Account(p) /\ Numbers(p) /\ chunk[p] = << >> /\ Len(check[p]) = 0
  BY NumbersFacts DEF BudgetInv, Account, Staging
<1>2. SumAnds(chunk[p]) = 0 /\ ChecksLeft(pc[p], Len(check[p]), chunk[p]) = 0
  BY <1>1, ChecksNat DEF ChecksLeft
<1> DEFINE h == Cardinality(Owned(view[p]) \ DOMAIN auth[p])
<1>3. Balanced(ot[p], gates[p], checks[p], h, 0, 0)
  BY <1>1, <1>2 DEF Account, OtState
<1>4. h \in Nat /\ CheckOts \in Nat /\ checks[p] \in Nat /\ gates[p] \in Nat
  BY <1>1 DEF Numbers
<1> HIDE DEF h
<1>5. ot[p].pending + Len(ot[p].pool) = gates[p] + checks[p] * CheckOts + h
  BY <1>3, <1>4 DEF Balanced
<1> QED
  BY <1>5 DEF h, Owned

\* Where OTs are taken the account is that of the pool alone, so what is owed
\* is there.
Owed(p) ==
  \E ck, dk \in Nat :
    /\ dk = ChecksLeft(pc[p], Len(check[p]), chunk[p]) * CheckOts
    /\ Len(ot[p].pool) = gates[p] + ck + Cardinality(Owned(view[p]) \ DOMAIN auth[p])
                           + SumAnds(chunk[p]) + dk

LEMMA OwedFacts ==
  ASSUME SoundInv, BudgetInv, NEW p \in Roles, ot[p].pending = 0 PROVE Owed(p)
<1>1. Account(p) /\ Numbers(p)
  BY NumbersFacts DEF BudgetInv
<1> DEFINE ck == checks[p] * CheckOts
           d == ChecksLeft(pc[p], Len(check[p]), chunk[p])
           dk == d * CheckOts
           h == Cardinality(Owned(view[p]) \ DOMAIN auth[p])
           s == SumAnds(chunk[p])
           x == Len(ot[p].pool)
           g == gates[p]
<1>2. ck \in Nat /\ dk \in Nat /\ h \in Nat /\ s \in Nat /\ x \in Nat /\ g \in Nat
  <2>1. /\ d \in Nat /\ CheckOts \in Nat /\ checks[p] \in Nat
        /\ h \in Nat /\ s \in Nat /\ x \in Nat /\ g \in Nat
    BY <1>1 DEF Numbers
  <2> HIDE DEF d, h, s, x, g
  <2> QED
    BY <2>1
<1>3. 0 + x = g + ck + h + s + dk
  BY <1>1 DEF Account, OtState, Balanced
<1> HIDE DEF ck, dk, h, s, x, g
<1>4. x = g + ck + h + s + dk
  BY <1>2, <1>3
<1> QED
  BY <1>2, <1>4 DEF Owed, ck, dk, h, s, x, g, d

\* The accounts where OTs are taken.
LEMMA BudgetSuffices == SoundInv /\ BudgetInv => OtsSuffice
<1> SUFFICES ASSUME SoundInv, BudgetInv, NEW p \in Roles
             PROVE  /\ pc[p] = "commit" \/ (pc[p] = "flush" /\ ~OtWantsFlush(p))
                         => OtHas(ot[p], Cardinality(view[p].flush.commit))
                    /\ pc[p] = "batch" => OtHas(ot[p], SumAnds(SubSeq(chunk[p], 1, BatchLen(p))))
                    /\ pc[p] = "check" => OtHas(ot[p], CheckOts)
  BY DEF OtsSuffice
<1> DEFINE c == chunk[p]
           x == Len(check[p])
           D == DOMAIN auth[p]
           d == ChecksLeft(pc[p], x, c)
           h == Cardinality(Owned(view[p]) \ D)
           s == SumAnds(c)
           y == Len(ot[p].pool)
           g == gates[p]
<1>1. Account(p) /\ Numbers(p) /\ c \in Seq(DOMAIN Circuits)
      /\ Flow(pc[p], ret[p], home[p], c)
  BY NumbersFacts DEF BudgetInv, SoundInv, Scheduled, Staged
<1>2. /\ d \in Nat /\ h \in Nat /\ s \in Nat /\ y \in Nat /\ g \in Nat
      /\ CheckOts \in Nat /\ x \in Nat /\ ot[p].pending \in Nat
  BY <1>1 DEF Numbers
<1>3. ASSUME ot[p].pending = 0
      PROVE  \E ck, dk \in Nat : dk = d * CheckOts /\ y = g + ck + h + s + dk
  BY <1>3, OwedFacts DEF Owed
<1>4. ASSUME pc[p] = "commit" \/ (pc[p] = "flush" /\ ~OtWantsFlush(p))
      PROVE  OtHas(ot[p], Cardinality(view[p].flush.commit))
  <2> DEFINE v == view[p]
             S == v.flush.commit
             n == Cardinality(S)
  <2>1. ot[p].pending = 0
    BY <1>1, <1>2, <1>4 DEF Account, OtState, OtWantsFlush
  <2>2. S \subseteq Owned(v) \ D /\ IsFiniteSet(Owned(v))
    BY <1>1, <1>4 DEF Account, ViewSettled, AuthSettled, Keyed
  <2>3. n <= h /\ n \in Nat
    <3> HIDE DEF S, D
    <3>1. Fewer(Owned(v), D, S)
      BY <2>2, OwnedLess
    <3> QED
      BY <3>1 DEF Fewer
  <2> HIDE DEF n, h, s, y, g, d
  <2>4. PICK ck, dk \in Nat : y = g + ck + h + s + dk
    BY <1>3, <2>1
  <2>5. n <= y
    BY <1>2, <2>3, <2>4
  <2> QED
    BY <2>5 DEF OtHas, n, y
<1>5. ASSUME pc[p] = "batch" PROVE OtHas(ot[p], SumAnds(SubSeq(c, 1, BatchLen(p))))
  <2> DEFINE n == BatchLen(p)
             m == SumAnds(SubSeq(c, 1, n))
             r == SumAnds(SubSeq(c, n + 1, Len(c)))
  <2>1. ot[p].pending = 0 /\ c # << >> /\ Len(c) \in Nat
    BY <1>1, <1>5 DEF Account, OtState, Flow
  <2>2. n \in 1 .. Len(c)
    BY <1>1, <1>2, <2>1, BatchLenLeast
  <2> HIDE DEF n, c
  <2>3. /\ SubSeq(c, 1, n) \in Seq(DOMAIN Circuits)
        /\ SubSeq(c, n + 1, Len(c)) \in Seq(DOMAIN Circuits)
    BY <1>1, <2>1, <2>2
  <2>4. m \in Nat /\ r \in Nat
    BY <2>3, BatchSums
  <2>5. s = m + r
    <3>1. n \in 0 .. Len(c)
      BY <2>1, <2>2
    <3> QED
      BY <1>1, <3>1, SumSplit
  <2> HIDE DEF h, s, y, g, d, m, r
  <2>6. PICK ck, dk \in Nat : y = g + ck + h + s + dk
    BY <1>3, <2>1
  <2>7. m <= y
    BY <1>2, <2>4, <2>5, <2>6
  <2> QED
    BY <2>7 DEF OtHas, m, n, c, y
<1>6. ASSUME pc[p] = "check" PROVE OtHas(ot[p], CheckOts)
  <2>1. ot[p].pending = 0 /\ Full(x, c)
    BY <1>1, <1>6 DEF Account, OtState, Staging
  <2> DEFINE k == ChunkChecks(0, c)
             kk == k * CheckOts
  <2>2. d = 1 + k /\ k \in Nat
    BY <1>1, <1>6, <2>1, ChecksNat DEF ChecksLeft
  <2> HIDE DEF h, s, y, g, d, k
  <2>3. PICK ck, dk \in Nat : dk = d * CheckOts /\ y = g + ck + h + s + dk
    BY <1>3, <2>1
  <2>4. kk \in Nat /\ dk = CheckOts + kk
    BY <1>2, <2>2, <2>3
  <2> HIDE DEF kk
  <2>5. CheckOts <= y
    BY <1>2, <2>3, <2>4
  <2> QED
    BY <2>5 DEF OtHas, y
<1> QED
  BY <1>4, <1>5, <1>6

\* What the accounts rest on is an invariant too.
LEMMA BudgetSteps == Inv /\ SoundInv /\ BudgetInv /\ [Next]_vars => (Inv /\ SoundInv /\ BudgetInv)'
BY InvNext, SoundNext, BudgetNext

\* The OTs never run short and are never made in vain: between two chunks those
\* a machine has or will make are exactly those its registered gates and checks
\* and its inputs without MACs will consume (call_raw, mark_private_raw,
\* mark_blind_raw, execute), and whenever a machine takes some, for the inputs
\* a flush commits, the gates of a batch or a check, they have been made
\* (set_macs, set_keys, execute, Check::finish), although they were allocated
\* call by call and chunk by chunk and batches end elsewhere.  For every layout
\* of the memory, every circuit, every batch and chunk size, every number of
\* OTs a check takes and any number of faults.
THEOREM OtsBudgeted == Spec => []OtBudget
<1>1. Init => Inv /\ SoundInv /\ BudgetInv
  BY InitInv, SoundInit, BudgetInit
<1>2. Inv /\ SoundInv /\ BudgetInv => OtBudget
  BY BudgetBalanced, BudgetSuffices DEF OtBudget
<1> QED
  BY <1>1, <1>2, BudgetSteps, PTL DEF Spec
=============================================================================
