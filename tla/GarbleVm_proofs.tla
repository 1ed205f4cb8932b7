--------------------------- MODULE GarbleVm_proofs ---------------------------
(***************************************************************************)
(* Proofs about the garbled-circuit machine, for any memory layout, any    *)
(* circuits, any number of operations and any interleaving of the parties: *)
(* nothing is revealed that nobody asked for (OnlyDecodedRevealed), no     *)
(* operation fails (OperationsSucceed), no decode operation is forgotten   *)
(* (DecodesRemembered) and what is decoded is what the circuits compute    *)
(* (DecodesRightly).                                                       *)
(*                                                                         *)
(* The first theorem needs little of the views (Inv).  The others need     *)
(* to know that the parties agree.  The rest of the module builds their    *)
(* inductive invariant InStep part by part: each party by itself           *)
(* (PartiesInv), both parties and the messages in flight (Agree), nothing  *)
(* asked for twice (FreshInv), garbling in the order of dependencies       *)
(* (IndependentInv), what the stores hold (Holds) and what still waits     *)
(* (Waiting).  The last theorem adds TruthInv: every bit that a party      *)
(* holds, hashes into a MAC, sends or returns is the one the inputs        *)
(* determine.                                                              *)
(***************************************************************************)
EXTENDS GarbleVm, FiniteSetTheorems, WellFoundedInduction, TLAPS

(***************************************************************************)
(* The inductive invariant.  Of a view: visibility is only ever set for    *)
(* allocated addresses and only once, and whatever is informed, decoded or *)
(* waiting in the flush view to be so was asked for.                       *)
(***************************************************************************)
Addr == SUBSET Int

VisType ==
  [uninit : Addr, public : Addr, private : Addr, blind : Addr, visible : Addr]

FlushType == [macs : Addr, ot : Addr, info : Addr, decode : Addr]

ViewType ==
  [len : Int, vis : VisType,
   assigned : Addr, committed : Addr, inputs : Addr,
   preprocessed : Addr, executed : Addr, outputs : Addr,
   informed : Addr, decoded : Addr, decode : Addr,
   flush : FlushType]

Below(S, n) == \A a \in S : a < n

ViewInv(v) ==
  /\ v.vis.visible \cap v.vis.uninit = {}
  /\ Below(v.vis.visible \cup v.vis.uninit, v.len)
  /\ v.informed \cup v.decoded \subseteq v.decode
  /\ v.flush.info \cup v.flush.decode \subseteq v.decode

TypeOK ==
  /\ view \in [Roles -> ViewType]
  /\ data = [p \in Roles |-> data[p]]
  /\ view["e"].len = view["g"].len

Inv == TypeOK /\ (\A p \in Roles : ViewInv(view[p])) /\ OnlyDecoded

\* What every operation on a view does: nothing visible is hidden, nothing
\* asked for is withdrawn.
Grows(v, w) ==
  /\ w \in ViewType /\ ViewInv(w)
  /\ v.vis.visible \subseteq w.vis.visible
  /\ v.decode \subseteq w.decode
-----------------------------------------------------------------------------
(***************************************************************************)
(* The operations of the view (garble-core/src/view.rs).                   *)
(***************************************************************************)

\* alloc_input and alloc_output: new addresses have no visibility yet.
LEMMA AllocGrows ==
  ASSUME NEW v \in ViewType, ViewInv(v), NEW n \in Nat
  PROVE  /\ Grows(v, AllocInput(v, n)) /\ AllocInput(v, n).len = v.len + n
         /\ Grows(v, AllocOutput(v, n)) /\ AllocOutput(v, n).len = v.len + n
<1> DEFINE S == Slice(v.len, n)
<1>1. S \in Addr /\ Below(S, v.len + n) /\ \A a \in S : v.len <= a
  BY DEF Slice, Below, Addr, ViewType
<1>2. VisAlloc(v.vis, S) \in VisType
  BY <1>1 DEF VisAlloc, VisType, ViewType, Addr
<1>3. VisAlloc(v.vis, S).visible = v.vis.visible /\ VisAlloc(v.vis, S).uninit = v.vis.uninit \cup S
  BY DEF VisAlloc, VisType, ViewType
<1> DEFINE vis == VisAlloc(v.vis, S)
<1> HIDE DEF S, vis
<1>4. AllocInput(v, n) = [v EXCEPT !.len = v.len + n, !.vis = vis, !.inputs = v.inputs \cup S]
  BY DEF AllocInput, S, vis
<1>5. AllocOutput(v, n) = [v EXCEPT !.len = v.len + n, !.vis = vis, !.outputs = v.outputs \cup S]
  BY DEF AllocOutput, S, vis
<1>6. vis \in VisType
  BY <1>2 DEF vis
<1>7. vis.visible = v.vis.visible /\ vis.uninit = v.vis.uninit \cup S
  BY <1>3 DEF vis
<1>8. vis.visible \cap vis.uninit = {}
  BY <1>1, <1>7 DEF ViewInv, Below, ViewType, VisType, Addr
<1>9. Below(vis.visible \cup vis.uninit, v.len + n)
  <2>1. v.len \in Int /\ v.vis.visible \cup v.vis.uninit \subseteq Int
    BY DEF ViewType, VisType, Addr
  <2>2. ASSUME NEW a \in v.vis.visible \cup v.vis.uninit PROVE a < v.len + n
    <3>1. a < v.len /\ a \in Int
      BY <2>1, <2>2 DEF ViewInv, Below
    <3> QED
      BY <2>1, <3>1
  <2>3. vis.visible \cup vis.uninit = (v.vis.visible \cup v.vis.uninit) \cup S
    BY <1>7
  <2> QED
    BY <1>1, <2>2, <2>3 DEF Below
<1>10. Grows(v, AllocInput(v, n)) /\ AllocInput(v, n).len = v.len + n
  <2> DEFINE w == AllocInput(v, n)
  <2>0. v.len + n \in Int /\ v.inputs \cup S \in Addr
    <3>1. v.len \in Int /\ v.inputs \in Addr
      BY DEF ViewType
    <3>2. v.len + n \in Int
      BY <3>1
    <3>3. v.inputs \cup S \in Addr
      BY <1>1, <3>1 DEF Addr
    <3> QED
      BY <3>2, <3>3
  <2>1. w \in ViewType /\ w.len = v.len + n /\ w.vis = vis
    BY <1>4, <1>6, <2>0 DEF ViewType
  <2>2. /\ w.informed = v.informed /\ w.decoded = v.decoded /\ w.decode = v.decode
        /\ w.flush = v.flush
    BY <1>4 DEF ViewType
  <2> HIDE DEF w
  <2>3. ViewInv(w)
    BY <1>8, <1>9, <2>1, <2>2 DEF ViewInv
  <2> QED
    BY <1>7, <2>1, <2>2, <2>3 DEF Grows, w
<1>11. Grows(v, AllocOutput(v, n)) /\ AllocOutput(v, n).len = v.len + n
  <2> DEFINE w == AllocOutput(v, n)
  <2>0. v.len + n \in Int /\ v.outputs \cup S \in Addr
    <3>1. v.len \in Int /\ v.outputs \in Addr
      BY DEF ViewType
    <3>2. v.len + n \in Int
      BY <3>1
    <3>3. v.outputs \cup S \in Addr
      BY <1>1, <3>1 DEF Addr
    <3> QED
      BY <3>2, <3>3
  <2>1. w \in ViewType /\ w.len = v.len + n /\ w.vis = vis
    BY <1>5, <1>6, <2>0 DEF ViewType
  <2>2. /\ w.informed = v.informed /\ w.decoded = v.decoded /\ w.decode = v.decode
        /\ w.flush = v.flush
    BY <1>5 DEF ViewType
  <2> HIDE DEF w
  <2>3. ViewInv(w)
    BY <1>8, <1>9, <2>1, <2>2 DEF ViewInv
  <2> QED
    BY <1>7, <2>1, <2>2, <2>3 DEF Grows, w
<1> QED
  BY <1>10, <1>11

\* mark_public, mark_private and mark_blind: an address whose visibility is
\* set is refused, so marking blind hides nothing.
LEMMA MarkGrows ==
  ASSUME NEW v \in ViewType, ViewInv(v), NEW S \in Addr, CanMark(v, S), Below(S, v.len)
  PROVE  /\ Grows(v, MarkPublic(v, S)) /\ MarkPublic(v, S).len = v.len
         /\ Grows(v, MarkPrivate(v, S)) /\ MarkPrivate(v, S).len = v.len
         /\ Grows(v, MarkBlind(v, S)) /\ MarkBlind(v, S).len = v.len
<1>1. S \subseteq v.vis.uninit
  BY DEF CanMark, VisIsSetAny, Below
<1>2. ASSUME NEW vis \in VisType,
             v.vis.visible \subseteq vis.visible, vis.uninit = v.vis.uninit \ S,
             vis.visible \subseteq v.vis.visible \cup S
      PROVE  Grows(v, [v EXCEPT !.vis = vis]) /\ [v EXCEPT !.vis = vis].len = v.len
  <2>1. vis.visible \cap vis.uninit = {} /\ Below(vis.visible \cup vis.uninit, v.len)
    BY <1>1, <1>2 DEF ViewInv, Below
  <2> QED
    BY <1>2, <2>1 DEF Grows, ViewType, ViewInv
<1>3. Grows(v, MarkPublic(v, S)) /\ MarkPublic(v, S).len = v.len
  BY <1>2 DEF MarkPublic, SetPublic, VisType, ViewType, Addr
<1>4. Grows(v, MarkPrivate(v, S)) /\ MarkPrivate(v, S).len = v.len
  BY <1>2 DEF MarkPrivate, SetPrivate, VisType, ViewType, Addr
<1>5. Grows(v, MarkBlind(v, S)) /\ MarkBlind(v, S).len = v.len
  <2>1. v.vis.visible \subseteq v.vis.visible \ S
    BY <1>1 DEF ViewInv
  <2> QED
    BY <1>2, <2>1 DEF MarkBlind, SetBlind, VisType, ViewType, Addr
<1> QED
  BY <1>3, <1>4, <1>5

\* assign, commit and the completion of calls.
LEMMA StoreGrows ==
  ASSUME NEW v \in ViewType, ViewInv(v), NEW S \in Addr, NEW r \in Roles
  PROVE  /\ Grows(v, Assign(v, S)) /\ Assign(v, S).len = v.len
         /\ Grows(v, Commit(v, r, S)) /\ Commit(v, r, S).len = v.len
         /\ Grows(v, SetPreprocessed(v, S)) /\ SetPreprocessed(v, S).len = v.len
         /\ Grows(v, SetOutput(v, S)) /\ SetOutput(v, S).len = v.len
<1>2. Grows(v, Assign(v, S)) /\ Assign(v, S).len = v.len
  BY DEF Assign, Grows, ViewType, ViewInv, Addr
<1>3. Grows(v, Commit(v, r, S)) /\ Commit(v, r, S).len = v.len
  <2>1. /\ Commit(v, r, S) \in ViewType
        /\ Commit(v, r, S).flush.info = v.flush.info
        /\ Commit(v, r, S).flush.decode = v.flush.decode
    BY DEF Commit, ViewType, VisType, FlushType, Addr
  <2>2. /\ Commit(v, r, S).len = v.len /\ Commit(v, r, S).vis = v.vis
        /\ Commit(v, r, S).informed = v.informed /\ Commit(v, r, S).decoded = v.decoded
        /\ Commit(v, r, S).decode = v.decode
    BY DEF Commit, ViewType
  <2> QED
    BY <2>1, <2>2 DEF Grows, ViewInv
<1>4. Grows(v, SetPreprocessed(v, S)) /\ SetPreprocessed(v, S).len = v.len
  <2>1. /\ SetPreprocessed(v, S) \in ViewType
        /\ SetPreprocessed(v, S).flush.info \subseteq v.flush.info \cup v.decode
        /\ SetPreprocessed(v, S).flush.decode = v.flush.decode
    BY DEF SetPreprocessed, ViewType, FlushType, Addr
  <2>2. LET w == SetPreprocessed(v, S) IN
        /\ w.len = v.len /\ w.vis = v.vis /\ w.informed = v.informed
        /\ w.decoded = v.decoded /\ w.decode = v.decode
    BY DEF SetPreprocessed, ViewType
  <2> QED
    BY <2>1, <2>2 DEF Grows, ViewInv
<1>5. Grows(v, SetOutput(v, S)) /\ SetOutput(v, S).len = v.len
  <2>1. /\ SetOutput(v, S) \in ViewType
        /\ SetOutput(v, S).flush.info \subseteq v.flush.info \cup v.decode
        /\ SetOutput(v, S).flush.decode \subseteq v.flush.decode \cup v.informed
    BY DEF SetOutput, ViewType, FlushType, Addr
  <2>2. LET w == SetOutput(v, S) IN
        /\ w.len = v.len /\ w.vis = v.vis /\ w.informed = v.informed
        /\ w.decoded = v.decoded /\ w.decode = v.decode
    BY DEF SetOutput, ViewType
  <2> QED
    BY <2>1, <2>2 DEF Grows, ViewInv
<1> QED
  BY <1>2, <1>3, <1>4, <1>5

\* decode: whatever is put into the flush view was asked for, now or before.
LEMMA DecodeGrows ==
  ASSUME NEW v \in ViewType, ViewInv(v), NEW S \in Addr, NEW r \in Roles
  PROVE  Grows(v, Decode(v, r, S)) /\ Decode(v, r, S).len = v.len
<1>1. CASE S \ v.decoded = {}
  BY <1>1 DEF Decode, Grows
<1>2. CASE S \ v.decoded # {}
  <2>1. /\ Decode(v, r, S) \in ViewType
        /\ Decode(v, r, S).decode = v.decode \cup (S \ v.decoded)
    <3> DEFINE told == (((S \cap v.inputs) \cap (IF r = "g" THEN v.vis.private ELSE v.vis.blind))
                          \cup ((S \cap v.outputs) \cap v.preprocessed)) \ v.informed
               provable == IF r = "g" THEN (S \cap v.inputs) \ v.vis.visible
                                      ELSE (S \cap v.inputs) \cap v.vis.private
    <3>1. /\ v.decode \cup (S \ v.decoded) \in Addr
          /\ v.flush.info \cup told \in Addr
          /\ v.flush.decode \cup (provable \cap v.committed) \cup ((S \cap v.outputs) \cap v.executed) \in Addr
      BY DEF ViewType, VisType, FlushType, Addr
    <3> DEFINE f == [v.flush EXCEPT !.info = v.flush.info \cup told,
                       !.decode = v.flush.decode \cup (provable \cap v.committed)
                                    \cup ((S \cap v.outputs) \cap v.executed)]
    <3>2. Decode(v, r, S) = [v EXCEPT !.decode = v.decode \cup (S \ v.decoded), !.flush = f]
      BY <1>2 DEF Decode, ViewType, FlushType
    <3> HIDE DEF told, provable
    <3>3. f \in FlushType
      BY <3>1 DEF ViewType, FlushType
    <3> HIDE DEF f
    <3> QED
      BY <3>1, <3>2, <3>3 DEF ViewType
  <2>2. /\ Decode(v, r, S).flush.info \subseteq v.flush.info \cup S
        /\ Decode(v, r, S).flush.decode \subseteq v.flush.decode \cup S
    BY <1>2 DEF Decode, ViewType, VisType, FlushType, Addr
  <2>3. LET w == Decode(v, r, S) IN
        /\ w.len = v.len /\ w.vis = v.vis /\ w.informed = v.informed /\ w.decoded = v.decoded
    BY <1>2 DEF Decode, ViewType
  <2> QED
    BY <2>1, <2>2, <2>3 DEF Grows, ViewInv
<1> QED
  BY <1>1, <1>2

\* complete_flush.
LEMMA CompleteGrows ==
  ASSUME NEW v \in ViewType, ViewInv(v)
  PROVE  /\ Grows(v, CompleteFlush(v)) /\ CompleteFlush(v).len = v.len
         /\ CompleteFlush(v).decode = v.decode
<1>1. /\ CompleteFlush(v) \in ViewType
      /\ CompleteFlush(v).flush.info = {}
      /\ CompleteFlush(v).flush.decode \subseteq v.decode \cup v.flush.info
  BY DEF CompleteFlush, EmptyFlush, ViewType, FlushType, Addr
<1>2. LET w == CompleteFlush(v) IN
      /\ w.len = v.len /\ w.vis = v.vis /\ w.decode = v.decode
      /\ w.informed = v.informed \cup v.flush.info
      /\ w.decoded = v.decoded \cup v.flush.decode
  BY DEF CompleteFlush, ViewType
<1> QED
  BY <1>1, <1>2 DEF Grows, ViewInv
-----------------------------------------------------------------------------
(***************************************************************************)
(* The steps of the machine.                                               *)
(***************************************************************************)

\* A step is harmless when the views only grow and every bit or piece of
\* decode info it stores is of an address that is visible or asked for.
LEMMA HarmlessStep ==
  ASSUME Inv,
         \A p \in Roles : Grows(view[p], view'[p]),
         view' = [p \in Roles |-> view'[p]],
         view'["e"].len = view'["g"].len,
         data' = [p \in Roles |-> data'[p]],
         \A p \in Roles :
           DOMAIN data'[p] \subseteq DOMAIN data[p] \cup view'[p].vis.visible \cup view'[p].decode,
         DOMAIN info' \subseteq DOMAIN info \cup view'["e"].decode
  PROVE  Inv'
<1>1. view' \in [Roles -> ViewType] /\ \A p \in Roles : ViewInv(view'[p])
  BY DEF Grows
<1>2. DOMAIN info' \subseteq view'["e"].decode
  BY DEF Inv, OnlyDecoded, Grows, Roles
<1>3. ASSUME NEW p \in Roles
      PROVE  DOMAIN data'[p] \ view'[p].vis.visible \subseteq view'[p].decode
  BY DEF Inv, OnlyDecoded, Grows
<1> QED
  BY <1>1, <1>2, <1>3 DEF Inv, TypeOK, OnlyDecoded

\* A view that stays as it is.
LEMMA SameGrows ==
  ASSUME NEW v \in ViewType, ViewInv(v) PROVE Grows(v, v)
BY DEF Grows

\* Steps that leave views and stores alone.
LEMMA QuietStep ==
  ASSUME Inv, UNCHANGED <<view, data, info>> PROVE Inv'
BY DEF Inv, TypeOK, OnlyDecoded

\* A step of one machine that only touches its view.
LEMMA ViewStep ==
  ASSUME Inv, NEW p \in Roles, NEW w, Grows(view[p], w), w.len = view[p].len,
         view' = [view EXCEPT ![p] = w], UNCHANGED <<data, info>>
  PROVE  Inv'
<1>1. /\ view'[p] = w /\ view' = [q \in Roles |-> view'[q]]
      /\ \A q \in Roles : q # p => view'[q] = view[q]
  BY DEF Inv, TypeOK
<1>2. \A q \in Roles : Grows(view[q], view'[q])
  BY <1>1, SameGrows DEF Inv, TypeOK
<1>3. view'["e"].len = view'["g"].len
  BY <1>1 DEF Inv, TypeOK, Roles
<1>4. data' = [q \in Roles |-> data'[q]]
  BY DEF Inv, TypeOK
<1> QED
  BY <1>1, <1>2, <1>3, <1>4, HarmlessStep

\* A step of the evaluator that completes calls or a flush: it decodes what
\* it has both the MAC and the decode info of.
LEMMA DecodingStep ==
  ASSUME Inv, NEW w, Grows(view["e"], w), w.len = view["e"].len,
         NEW m, NEW i, DOMAIN i \subseteq DOMAIN info \cup view["e"].flush.info,
         view' = [view EXCEPT !["e"] = w],
         data' = [data EXCEPT !["e"] = DecodeMacs(m, i)], info' = i
  PROVE  Inv'
<1>1. /\ view'["e"] = w /\ view'["g"] = view["g"] /\ view' = [q \in Roles |-> view'[q]]
      /\ data'["e"] = DecodeMacs(m, i) /\ data'["g"] = data["g"]
      /\ data' = [q \in Roles |-> data'[q]]
  BY DEF Inv, TypeOK, Roles
<1>2. \A q \in Roles : Grows(view[q], view'[q])
  BY <1>1, SameGrows DEF Inv, TypeOK, Roles
<1>3. view'["e"].len = view'["g"].len
  BY <1>1 DEF Inv, TypeOK, Roles
<1>4. DOMAIN DecodeMacs(m, i) \subseteq DOMAIN data["e"] \cup DOMAIN i
  <2> DEFINE bits == [a \in Decodable(m, i) |-> DecodedBit(m, i, a)]
  <2>1. DOMAIN bits \subseteq DOMAIN i
    BY DEF Decodable
  <2>2. DecodeMacs(m, i) = Overlay(bits, data["e"])
    BY DEF DecodeMacs
  <2> HIDE DEF bits
  <2>3. DOMAIN Overlay(bits, data["e"]) = DOMAIN bits \cup DOMAIN data["e"]
    BY DEF Overlay
  <2> QED
    BY <2>1, <2>2, <2>3
<1>5. DOMAIN i \subseteq w.decode
  BY DEF Inv, OnlyDecoded, Grows, ViewInv, Roles
<1>6. \A q \in Roles :
        DOMAIN data'[q] \subseteq DOMAIN data[q] \cup view'[q].vis.visible \cup view'[q].decode
  BY <1>1, <1>4, <1>5 DEF Roles
<1> QED
  BY <1>1, <1>2, <1>3, <1>5, <1>6, HarmlessStep

\* Outputs and the slices applications hold are sets of addresses.
LEMMA OutputAddr ==
  ASSUME NEW k PROVE OutputSlice(k) \in Addr
BY DEF OutputSlice, Slice, Addr

\* The bounds grow, and there is a next input to allocate.
LEMMA BoundsGrow ==
  /\ Len(Bounds) \in Nat /\ Len(Bounds) > 0
  /\ \A i \in 1 .. Len(Bounds) : Bounds[i] \in Nat
  /\ \A i, j \in 1 .. Len(Bounds) : i < j => Bounds[i] < Bounds[j]
  /\ NumInputs \in Nat /\ Bounds[1] = 0
BY ConstantsOK DEF NumInputs

\* A slice is a range of addresses of one input.
LEMMA SliceAddr ==
  ASSUME NEW S \in Slices
  PROVE  /\ S \in Addr /\ S \subseteq Nat
         /\ \E i \in Inputs : S \subseteq InputSlice(i) /\ \E a, b \in Int : S = a .. b
<1>0. PICK i \in 1 .. Len(Bounds) - 1 : \E a, b \in Bounds[i] .. Bounds[i + 1] - 1 : S = a .. b
  BY ConstantsOK DEF Slices
<1>1. PICK a \in Bounds[i] .. Bounds[i + 1] - 1 : \E b \in Bounds[i] .. Bounds[i + 1] - 1 : S = a .. b
  BY <1>0
<1>6. PICK b \in Bounds[i] .. Bounds[i + 1] - 1 : S = a .. b
  BY <1>1
<1>2. i \in 1 .. Len(Bounds) /\ i + 1 \in 1 .. Len(Bounds)
  BY BoundsGrow
<1>3. Bounds[i] \in Nat /\ Bounds[i + 1] \in Nat
  BY <1>2, BoundsGrow
<1>4. a \in Nat /\ b \in Nat /\ \A c \in a .. b : c \in Bounds[i] .. Bounds[i + 1] - 1
  BY <1>1, <1>3
<1>5. S \subseteq InputSlice(i)
  <2>1. InputSlice(i) = Bounds[i] .. (Bounds[i] + (Bounds[i + 1] - Bounds[i]) - 1)
    BY DEF InputSlice, Slice
  <2> QED
    BY <1>6, <1>3, <1>4, <2>1
<1> QED
  BY <1>6, <1>4, <1>5 DEF Inputs, Addr

\* The size of the input that is allocated next.
NextSize == LET i == Cardinality(Allocated) + 1 IN Bounds[i + 1] - Bounds[i]

\* See BoundsGrow.
LEMMA NextInput ==
  ASSUME Allocated # Inputs
  PROVE  /\ Cardinality(Allocated) \in Nat /\ Cardinality(Allocated) + 1 \in Inputs
         /\ NextSize \in Nat
<1>1. /\ Allocated \subseteq Inputs /\ Len(Bounds) \in Nat /\ Len(Bounds) > 0
  BY BoundsGrow DEF Allocated
<1>2. IsFiniteSet(Inputs) /\ Cardinality(Inputs) = Len(Bounds) - 1
  <2>1. Cardinality(1 .. Len(Bounds) - 1) = IF 1 > Len(Bounds) - 1 THEN 0 ELSE Len(Bounds) - 1 - 1 + 1
    BY <1>1, FS_Interval
  <2> QED
    BY <1>1, <2>1, FS_Interval DEF Inputs
<1>3. /\ IsFiniteSet(Allocated) /\ Cardinality(Allocated) <= Cardinality(Inputs)
      /\ Cardinality(Allocated) # Cardinality(Inputs)
  BY <1>1, <1>2, FS_Subset
<1>4. Cardinality(Allocated) \in Nat
  BY <1>3, FS_CardinalityType
<1>5. Cardinality(Allocated) + 1 \in 1 .. Len(Bounds) - 1
  BY <1>1, <1>2, <1>3, <1>4
<1>6. NextSize \in Nat
  <2> DEFINE i == Cardinality(Allocated) + 1
  <2>1. i \in 1 .. Len(Bounds) /\ i + 1 \in 1 .. Len(Bounds) /\ i < i + 1
    BY <1>1, <1>4, <1>5
  <2>2. Bounds[i] \in Nat /\ Bounds[i + 1] \in Nat /\ Bounds[i] < Bounds[i + 1]
    BY <2>1, BoundsGrow
  <2> HIDE DEF i
  <2>3. Bounds[i + 1] - Bounds[i] \in Nat
    BY <2>2
  <2> QED
    BY <2>3 DEF NextSize, i
<1> QED
  BY <1>4, <1>5, <1>6 DEF Inputs

\* The memory operations of the applications.
LEMMA ApplicationSafe ==
  ASSUME Inv, Application PROVE Inv'
<1> USE DEF Addr
<1>0. /\ \A p \in Roles : view[p] \in ViewType /\ ViewInv(view[p])
      /\ "g" \in Roles /\ "e" \in Roles
  BY DEF Inv, TypeOK, Roles
<1>1. ASSUME AllocRaw PROVE Inv'
  <2> DEFINE n == NextSize
  <2>1. n \in Nat
    BY <1>1, NextInput DEF AllocRaw
  <2>2. /\ view' = [p \in Roles |-> AllocInput(view[p], n)]
        /\ UNCHANGED <<data, info>>
    BY <1>1 DEF AllocRaw, NextSize
  <2> HIDE DEF n
  <2>3. \A p \in Roles : Grows(view[p], view'[p]) /\ view'[p].len = view[p].len + n
    BY <1>0, <2>1, <2>2, AllocGrows
  <2>4. view'["e"].len = view'["g"].len
    BY <1>0, <2>3 DEF Inv, TypeOK
  <2> QED
    BY <2>2, <2>3, <2>4, HarmlessStep DEF Inv, TypeOK
<1>2. ASSUME NEW i \in Allocated, MarkRaw(i) PROVE Inv'
  <2> DEFINE S == InputSlice(i)
             W(p) == IF Owner[i] = "public" THEN MarkPublic(view[p], S)
                     ELSE IF Owner[i] = p THEN MarkPrivate(view[p], S)
                     ELSE MarkBlind(view[p], S)
  <2>1. S \in Addr /\ \A p \in Roles : Below(S, view[p].len)
    BY <1>0 DEF InputSlice, Slice, Allocated, Below, Inv, TypeOK, Roles
  <2>2. /\ view' = [p \in Roles |-> W(p)]
        /\ UNCHANGED <<data, info>> /\ \A p \in Roles : CanMark(view[p], S)
    BY <1>2 DEF MarkRaw, stores
  <2> HIDE DEF S
  <2>3. \A p \in Roles : Grows(view[p], W(p)) /\ W(p).len = view[p].len
    BY <1>0, <2>1, <2>2, MarkGrows
  <2> HIDE DEF W
  <2>4. \A p \in Roles : view'[p] = W(p)
    BY <2>2
  <2>5. view'["e"].len = view'["g"].len
    BY <1>0, <2>3, <2>4 DEF Inv, TypeOK
  <2> QED
    BY <2>2, <2>3, <2>4, <2>5, HarmlessStep DEF Inv, TypeOK
<1>3. ASSUME NEW S \in Slices, NEW bits \in Values, AssignRaw(S, bits) PROVE Inv'
  <2> DEFINE seers == {p \in Roles : CanAssign(view[p], S)}
             W(p) == IF p \in seers THEN Assign(view[p], S) ELSE view[p]
             D(p) == IF p \in seers THEN TrySet(data[p], S, bits) ELSE data[p]
  <2>1. S \in Addr
    BY SliceAddr
  <2>2. /\ view' = [p \in Roles |-> W(p)] /\ data' = [p \in Roles |-> D(p)]
        /\ UNCHANGED info
    BY <1>3 DEF AssignRaw
  <2>3. ASSUME NEW p \in Roles
        PROVE  /\ Grows(view[p], W(p)) /\ W(p).len = view[p].len
               /\ W(p).vis = view[p].vis
    <3>1. /\ Grows(view[p], Assign(view[p], S)) /\ Assign(view[p], S).len = view[p].len
          /\ Grows(view[p], view[p])
      BY <1>0, <2>1, StoreGrows, SameGrows
    <3>2. Assign(view[p], S).vis = view[p].vis
      BY <1>0 DEF Assign, ViewType
    <3> QED
      BY <3>1, <3>2
  <2>4. ASSUME NEW p \in Roles
        PROVE  DOMAIN D(p) \subseteq DOMAIN data[p] \cup view[p].vis.visible
    <3>1. DOMAIN TrySet(data[p], S, bits) = S \cup DOMAIN data[p]
      BY DEF TrySet, Overlay
    <3>2. p \in seers => S \subseteq view[p].vis.visible
      BY DEF CanAssign
    <3> QED
      BY <3>1, <3>2
  <2> HIDE DEF W, D
  <2>5. \A p \in Roles : view'[p] = W(p) /\ data'[p] = D(p)
    BY <2>2
  <2>6. view'["e"].len = view'["g"].len
    BY <1>0, <2>3, <2>5 DEF Inv, TypeOK
  <2>7. view' = [p \in Roles |-> view'[p]] /\ data' = [p \in Roles |-> data'[p]]
    BY <2>2
  <2>8. \A p \in Roles : Grows(view[p], view'[p])
    BY <2>3, <2>5
  <2>9. \A p \in Roles :
          DOMAIN data'[p] \subseteq DOMAIN data[p] \cup view'[p].vis.visible \cup view'[p].decode
    BY <2>3, <2>4, <2>5
  <2> QED
    BY <2>2, <2>6, <2>7, <2>8, <2>9, HarmlessStep
<1>4. ASSUME NEW S \in Slices, CommitRaw(S) PROVE Inv'
  <2>1. S \in Addr
    BY SliceAddr
  <2>2. view' = [p \in Roles |-> Commit(view[p], p, S)] /\ UNCHANGED <<data, info>>
    BY <1>4 DEF CommitRaw, stores
  <2>3. \A p \in Roles : Grows(view[p], view'[p]) /\ view'[p].len = view[p].len
    BY <1>0, <2>1, <2>2, StoreGrows
  <2>4. view'["e"].len = view'["g"].len
    BY <1>0, <2>3 DEF Inv, TypeOK
  <2> QED
    BY <2>2, <2>3, <2>4, HarmlessStep DEF Inv, TypeOK
<1>5. ASSUME NEW S \in Slices \cup {OutputSlice(k) : k \in 1 .. calls}, DecodeRaw(S) PROVE Inv'
  <2>1. S \in Addr
    BY SliceAddr, OutputAddr
  <2>2. view' = [p \in Roles |-> Decode(view[p], p, S)] /\ UNCHANGED <<data, info>>
    BY <1>5 DEF DecodeRaw, stores
  <2>3. \A p \in Roles : Grows(view[p], view'[p]) /\ view'[p].len = view[p].len
    BY <1>0, <2>1, <2>2, DecodeGrows
  <2>4. view'["e"].len = view'["g"].len
    BY <1>0, <2>3 DEF Inv, TypeOK
  <2> QED
    BY <2>2, <2>3, <2>4, HarmlessStep DEF Inv, TypeOK
<1>6. ASSUME CallRaw PROVE Inv'
  <2>2. view' = [p \in Roles |-> AllocOutput(view[p], 1)] /\ UNCHANGED <<data, info>>
    BY <1>6 DEF CallRaw, stores
  <2>3. \A p \in Roles : Grows(view[p], view'[p]) /\ view'[p].len = view[p].len + 1
    BY <1>0, <2>2, AllocGrows
  <2>4. view'["e"].len = view'["g"].len
    BY <1>0, <2>3 DEF Inv, TypeOK
  <2> QED
    BY <2>2, <2>3, <2>4, HarmlessStep DEF Inv, TypeOK
<1>7. ASSUME StartFlush \/ StartPreprocess \/ StartExecuteAll PROVE Inv'
  BY <1>7, QuietStep DEF StartFlush, StartPreprocess, StartExecuteAll, stores
<1> QED
  BY <1>1, <1>2, <1>3, <1>4, <1>5, <1>6, <1>7 DEF Application

\* The joint operations, at either party.
LEMMA PartySafe ==
  ASSUME Inv, NEW p \in Roles, Party(p) PROVE Inv'
<1>0. view[p] \in ViewType /\ ViewInv(view[p]) /\ view["e"] \in ViewType /\ ViewInv(view["e"])
  BY DEF Inv, TypeOK, Roles
<1>1. ASSUME PreprocessEnd(p) PROVE Inv'
  <2> DEFINE outs == UNION {OutputSlice(k) : k \in taken[p]}
  <2>1. outs \in Addr
    BY OutputAddr DEF Addr
  <2>2. CASE p = "e"
    <3>1. view' = [view EXCEPT !["e"] = SetPreprocessed(view["e"], outs)] /\ UNCHANGED <<data, info>>
      BY <1>1, <2>2 DEF PreprocessEnd, MarkPreprocessed, stores
    <3> HIDE DEF outs
    <3> QED
      BY <1>0, <2>1, <2>2, <3>1, StoreGrows, ViewStep
  <2>3. CASE p # "e"
    BY <1>1, <2>3, QuietStep DEF PreprocessEnd, stores, Inv, TypeOK
  <2> QED
    BY <2>2, <2>3
<1>2. ASSUME ExecutePreprocessed(p) PROVE Inv'
  <2> DEFINE ready == {k \in pre[p] : Ready(p, k)}
             outs  == UNION {OutputSlice(k) : k \in ready}
             m == Overlay([a \in outs |->
                             EvaluatedMac(CHOOSE k \in ready : Out(k) = a, macs)], macs)
  <2>1. outs \in Addr
    BY OutputAddr DEF Addr
  <2>2. \/ Fail("e")
        \/ /\ p = "g" /\ view' = [view EXCEPT !["g"] = SetOutput(view["g"], outs)]
           /\ UNCHANGED <<data, info>>
        \/ /\ p = "e" /\ view' = [view EXCEPT !["e"] = SetOutput(view["e"], outs)]
           /\ data' = [data EXCEPT !["e"] = DecodeMacs(m, info)] /\ info' = info
    BY <1>2 DEF ExecutePreprocessed, stores, Roles
  <2> HIDE DEF outs, ready, m
  <2>3. CASE Fail("e")
    BY <2>3, QuietStep DEF Fail, stores
  <2>4. Grows(view[p], SetOutput(view[p], outs)) /\ SetOutput(view[p], outs).len = view[p].len
    BY <1>0, <2>1, StoreGrows
  <2> QED
    BY <2>2, <2>3, <2>4, ViewStep, DecodingStep
<1>3. ASSUME ExecuteEnd(p) PROVE Inv'
  <2>1. \/ UNCHANGED <<view, data, info>>
        \/ /\ view' = [view EXCEPT !["e"] = view["e"]]
           /\ data' = [data EXCEPT !["e"] = DecodeMacs(macs, info)] /\ info' = info
    BY <1>3 DEF ExecuteEnd, Fail, stores, Roles, Inv, TypeOK
  <2> QED
    BY <1>0, <2>1, QuietStep, DecodingStep, SameGrows
<1>4. ASSUME PreprocessBatch(p) \/ ExecuteAll(p) \/ ExecuteBatch(p) PROVE Inv'
  BY <1>4, QuietStep DEF PreprocessBatch, ExecuteAll, ExecuteBatch, stores
<1> QED
  BY <1>1, <1>2, <1>3, <1>4 DEF Party

\* The garbler stores bits of what its flush view asks for.
LEMMA GarblerSafe ==
  ASSUME Inv, Garbler PROVE Inv'
<1>0. "g" \in Roles /\ view["g"] \in ViewType /\ ViewInv(view["g"])
  BY DEF Inv, TypeOK, Roles
<1>1. ASSUME GarblerSendFlush PROVE Inv'
  BY <1>1, QuietStep DEF GarblerSendFlush, Fail, stores
<1>2. ASSUME GarblerReceiveFlush PROVE Inv'
  <2> DEFINE v == view["g"]
             bits == IF Len(Head(net["g"]).proof.bits) > 0
                     THEN TrySet(data["g"], v.flush.decode,
                                 VerifiedBits(v.flush.decode, Head(net["g"]).proof.bits))
                     ELSE data["g"]
  <2>1. CASE Fail("g")
    BY <2>1, QuietStep DEF Fail, stores
  <2>2. CASE /\ view' = [view EXCEPT !["g"] = CompleteFlush(v)]
             /\ data' = [data EXCEPT !["g"] = bits] /\ info' = info
    <3>1. DOMAIN bits \subseteq DOMAIN data["g"] \cup v.flush.decode
      BY DEF TrySet, Overlay
    <3> HIDE DEF bits
    <3>2. /\ Grows(v, CompleteFlush(v)) /\ CompleteFlush(v).len = v.len
          /\ CompleteFlush(v).decode = v.decode
      BY <1>0, CompleteGrows
    <3>3. /\ view'["g"] = CompleteFlush(v) /\ view'["e"] = view["e"]
          /\ view' = [q \in Roles |-> view'[q]]
          /\ data'["g"] = bits /\ data'["e"] = data["e"] /\ data' = [q \in Roles |-> data'[q]]
      BY <2>2 DEF Inv, TypeOK, Roles
    <3>4. \A q \in Roles : Grows(view[q], view'[q])
      BY <3>2, <3>3, SameGrows DEF Inv, TypeOK, Roles
    <3>5. view'["e"].len = view'["g"].len
      BY <3>2, <3>3 DEF Inv, TypeOK
    <3>6. v.flush.decode \subseteq view'["g"].decode
      BY <1>0, <3>2, <3>3 DEF ViewInv
    <3>7. \A q \in Roles :
            DOMAIN data'[q] \subseteq DOMAIN data[q] \cup view'[q].vis.visible \cup view'[q].decode
      BY <3>1, <3>3, <3>6 DEF Roles
    <3> QED
      BY <2>2, <3>3, <3>4, <3>5, <3>7, HarmlessStep
  <2> QED
    BY <1>2, <2>1, <2>2 DEF GarblerReceiveFlush
<1>3. ASSUME NEW k, Generate(k) PROVE Inv'
  <2> DEFINE w1 == SetPreprocessed(view["g"], OutputSlice(k))
             w2 == SetOutput(w1, OutputSlice(k))
  <2>1. Grows(view["g"], w1) /\ w1.len = view["g"].len
    BY <1>0, OutputAddr, StoreGrows
  <2>2. Grows(w1, w2) /\ w2.len = w1.len
    BY <2>1, <1>0, OutputAddr, StoreGrows DEF Grows
  <2>3. Grows(view["g"], w2) /\ w2.len = view["g"].len
    BY <2>1, <2>2 DEF Grows
  <2>4. \/ Fail("g")
        \/ /\ \/ view' = [view EXCEPT !["g"] = w1]
              \/ view' = [view EXCEPT !["g"] = w2]
           /\ UNCHANGED <<data, info>>
    BY <1>3 DEF Generate, stores
  <2> HIDE DEF w1, w2
  <2>5. CASE Fail("g")
    BY <2>5, QuietStep DEF Fail, stores
  <2> QED
    BY <1>0, <2>1, <2>3, <2>4, <2>5, ViewStep
<1> QED
  BY <1>0, <1>1, <1>2, <1>3, PartySafe DEF Garbler

\* The evaluator stores bits it has decode info of.
LEMMA EvaluatorSafe ==
  ASSUME Inv, Evaluator PROVE Inv'
<1>0. "e" \in Roles /\ view["e"] \in ViewType /\ ViewInv(view["e"])
  BY DEF Inv, TypeOK, Roles
<1>1. ASSUME EvaluatorSendFlush PROVE Inv'
  BY <1>1, QuietStep DEF EvaluatorSendFlush, Fail, stores
<1>2. ASSUME EvaluatorReceiveFlush PROVE Inv'
  <2> DEFINE v == view["e"]
             m == ReceivedMacs(v, Head(net["e"]))
             i == ReceivedInfo(v, Head(net["e"]))
  <2>1. \/ Fail("e")
        \/ /\ view' = [view EXCEPT !["e"] = CompleteFlush(v)]
           /\ data' = [data EXCEPT !["e"] = DecodeMacs(m, i)] /\ info' = i
    BY <1>2 DEF EvaluatorReceiveFlush
  <2>2. CASE Fail("e")
    BY <2>2, QuietStep DEF Fail, stores
  <2>3. DOMAIN i \subseteq DOMAIN info \cup v.flush.info
    BY DEF ReceivedInfo, Overlay
  <2>4. Grows(v, CompleteFlush(v)) /\ CompleteFlush(v).len = v.len
    BY <1>0, CompleteGrows
  <2> HIDE DEF m, i
  <2> QED
    BY <2>1, <2>2, <2>3, <2>4, DecodingStep
<1>3. ASSUME NEW k, ReceiveGarbledCircuit(k) PROVE Inv'
  BY <1>3, QuietStep DEF ReceiveGarbledCircuit, stores
<1>4. ASSUME NEW k, Evaluate(k) PROVE Inv'
  <2>1. \/ Fail("e")
        \/ /\ view' = [view EXCEPT !["e"] = SetOutput(view["e"], OutputSlice(k))]
           /\ UNCHANGED <<data, info>>
    BY <1>4 DEF Evaluate
  <2>2. CASE Fail("e")
    BY <2>2, QuietStep DEF Fail, stores
  <2>3. /\ Grows(view["e"], SetOutput(view["e"], OutputSlice(k)))
        /\ SetOutput(view["e"], OutputSlice(k)).len = view["e"].len
    BY <1>0, OutputAddr, StoreGrows
  <2> QED
    BY <1>0, <2>1, <2>2, <2>3, ViewStep
<1> QED
  BY <1>0, <1>1, <1>2, <1>3, <1>4, PartySafe DEF Evaluator
-----------------------------------------------------------------------------
\* The invariant holds in every reachable state.
LEMMA InvInit == Init => Inv
<1> SUFFICES ASSUME Init PROVE Inv
  OBVIOUS
<1>1. NewView \in ViewType /\ ViewInv(NewView)
  BY DEF NewView, NewVisibility, EmptyFlush, ViewType, VisType, FlushType, ViewInv, Below, Addr
<1>2. TypeOK /\ \A p \in Roles : ViewInv(view[p])
  BY <1>1 DEF Init, TypeOK, Roles
<1>3. OnlyDecoded
  BY DEF Init, OnlyDecoded, EmptyStore, Roles
<1> QED
  BY <1>2, <1>3 DEF Inv

\* See InvInit.
LEMMA InvStep == Inv /\ [Next]_vars => Inv'
BY ApplicationSafe, GarblerSafe, EvaluatorSafe, QuietStep DEF Next, vars, stores

\* See InvInit.
LEMMA AlwaysInv == Spec => []Inv
BY InvInit, InvStep, PTL DEF Spec

\* For any memory layout, any circuits and any interleaving of the two
\* machines, nothing is revealed that was not asked for: the evaluator holds
\* decode info, and either party a bit it could not see, only of addresses
\* some decode_raw named (GarblerStore and EvaluatorStore).
THEOREM OnlyDecodedRevealed == Spec => []OnlyDecoded
<1>1. Inv => OnlyDecoded
  BY DEF Inv
<1> QED
  BY <1>1, AlwaysInv, PTL
-----------------------------------------------------------------------------
(***************************************************************************)
(* The two machines keep step.                                             *)
(*                                                                         *)
(* First a view by itself.  Shape says which sets of addresses a view can  *)
(* hold.  Duty says that a view never forgets: what was asked for and can  *)
(* be proven, or needs decode information, is decoded, informed, or waits  *)
(* in the flush view.                                                      *)
(***************************************************************************)

\* Addresses with a visibility.
Settled(v) == v.vis.visible \cup v.vis.blind

VisShape(v) ==
  /\ v.len \in Nat /\ v.inputs \cap v.outputs = {} /\ v.inputs \cup v.outputs = 0 .. v.len - 1
  /\ v.vis.visible = v.vis.public \cup v.vis.private
  /\ v.vis.public \cap v.vis.private = {} /\ v.vis.blind \cap v.vis.visible = {}
  /\ v.vis.uninit \cap Settled(v) = {}
  /\ v.inputs \subseteq v.vis.uninit \cup Settled(v)
  /\ Settled(v) \subseteq v.inputs /\ v.outputs \subseteq v.vis.uninit
  /\ v.vis.uninit \subseteq v.inputs \cup v.outputs

Committing(v) == v.committed \cup v.flush.macs \cup v.flush.ot

UseShape(v) ==
  /\ Committing(v) \subseteq Settled(v)
  /\ v.assigned \subseteq v.vis.visible
  /\ Committing(v) \cap v.vis.visible \subseteq v.assigned
  /\ v.executed \subseteq v.preprocessed /\ v.preprocessed \subseteq v.outputs
  /\ v.decode \subseteq Settled(v) \cup v.outputs
  /\ v.informed \cup v.decoded \cup v.flush.info \cup v.flush.decode \subseteq v.decode
  /\ v.outputs \cap (v.informed \cup v.flush.info) \subseteq v.preprocessed
  /\ v.outputs \cap (v.decoded \cup v.flush.decode) \subseteq v.informed \cup v.flush.info

\* The inputs of the garbler and of the evaluator, as role r sees them.
Garblers(v, r) == IF r = "g" THEN v.vis.private ELSE v.vis.blind

Evaluators(v, r) == IF r = "g" THEN v.vis.blind ELSE v.vis.private

Duty(v, r) ==
  /\ v.flush.macs \cap Evaluators(v, r) = {} /\ v.flush.ot \subseteq Evaluators(v, r)
  /\ v.decode \cap v.committed \cap Evaluators(v, r) \subseteq v.decoded \cup v.flush.decode
  /\ v.decode \cap v.executed \subseteq v.decoded \cup v.flush.decode \cup v.flush.info
  /\ v.decode \cap (Garblers(v, r) \cup v.preprocessed) \subseteq v.informed \cup v.flush.info

Good(v, r) == v \in ViewType /\ VisShape(v) /\ UseShape(v) /\ Duty(v, r)

\* What most operations leave alone.
SameMemory(v, w) ==
  w.len = v.len /\ w.vis = v.vis /\ w.inputs = v.inputs /\ w.outputs = v.outputs

SameProgress(v, w) ==
  /\ w.committed = v.committed /\ w.preprocessed = v.preprocessed /\ w.executed = v.executed
  /\ w.informed = v.informed /\ w.decoded = v.decoded /\ w.decode = v.decode

\* Each operation, field by field.
LEMMA AssignFields ==
  ASSUME NEW v \in ViewType, NEW S \in Addr
  PROVE  LET w == Assign(v, S) IN
         /\ w \in ViewType /\ SameMemory(v, w) /\ SameProgress(v, w)
         /\ w.flush = v.flush /\ w.assigned = v.assigned \cup S
BY DEF Assign, ViewType, Addr, SameMemory, SameProgress

\* See AssignFields.
LEMMA CommitFields ==
  ASSUME NEW v \in ViewType, NEW S \in Addr, NEW r \in Roles
  PROVE  LET w == Commit(v, r, S) IN
         /\ w \in ViewType /\ SameMemory(v, w) /\ SameProgress(v, w) /\ w.assigned = v.assigned
         /\ w.flush.macs = v.flush.macs \cup (S \cap (v.vis.public \cup Garblers(v, r)))
         /\ w.flush.ot = v.flush.ot \cup (S \cap Evaluators(v, r))
         /\ w.flush.info = v.flush.info /\ w.flush.decode = v.flush.decode
<1> DEFINE w == Commit(v, r, S)
<1>1. /\ w \in ViewType
      /\ w.flush.macs = v.flush.macs \cup (S \cap (v.vis.public \cup Garblers(v, r)))
      /\ w.flush.ot = v.flush.ot \cup (S \cap Evaluators(v, r))
      /\ w.flush.info = v.flush.info /\ w.flush.decode = v.flush.decode
  BY DEF Commit, ViewType, VisType, FlushType, Addr, Garblers, Evaluators
<1>2. SameMemory(v, w) /\ SameProgress(v, w) /\ w.assigned = v.assigned
  BY DEF Commit, ViewType, SameMemory, SameProgress
<1> QED
  BY <1>1, <1>2

\* See AssignFields.
LEMMA PreprocessedFields ==
  ASSUME NEW v \in ViewType, NEW S \in Addr
  PROVE  LET w == SetPreprocessed(v, S) IN
         /\ w \in ViewType /\ SameMemory(v, w) /\ w.assigned = v.assigned
         /\ w.committed = v.committed /\ w.executed = v.executed
         /\ w.preprocessed = v.preprocessed \cup S
         /\ w.informed = v.informed /\ w.decoded = v.decoded /\ w.decode = v.decode
         /\ w.flush.macs = v.flush.macs /\ w.flush.ot = v.flush.ot
         /\ w.flush.info = v.flush.info \cup ((S \cap v.decode) \ v.decoded)
         /\ w.flush.decode = v.flush.decode
<1> DEFINE w == SetPreprocessed(v, S)
<1>1. /\ w \in ViewType /\ w.flush.macs = v.flush.macs /\ w.flush.ot = v.flush.ot
      /\ w.flush.info = v.flush.info \cup ((S \cap v.decode) \ v.decoded)
      /\ w.flush.decode = v.flush.decode
  BY DEF SetPreprocessed, ViewType, FlushType, Addr
<1>2. /\ SameMemory(v, w) /\ w.assigned = v.assigned
      /\ w.committed = v.committed /\ w.executed = v.executed
      /\ w.preprocessed = v.preprocessed \cup S
      /\ w.informed = v.informed /\ w.decoded = v.decoded /\ w.decode = v.decode
  BY DEF SetPreprocessed, ViewType, SameMemory
<1> QED
  BY <1>1, <1>2

\* See AssignFields.
LEMMA OutputFields ==
  ASSUME NEW v \in ViewType, NEW S \in Addr
  PROVE  LET w == SetOutput(v, S) IN
         /\ w \in ViewType /\ SameMemory(v, w) /\ w.assigned = v.assigned
         /\ w.committed = v.committed
         /\ w.executed = v.executed \cup S /\ w.preprocessed = v.preprocessed \cup S
         /\ w.informed = v.informed /\ w.decoded = v.decoded /\ w.decode = v.decode
         /\ w.flush.macs = v.flush.macs /\ w.flush.ot = v.flush.ot
         /\ w.flush.info = v.flush.info \cup ((S \cap v.decode) \ v.informed)
         /\ w.flush.decode = v.flush.decode \cup ((S \cap v.informed) \ v.decoded)
<1> DEFINE w == SetOutput(v, S)
<1>1. /\ w \in ViewType /\ w.flush.macs = v.flush.macs /\ w.flush.ot = v.flush.ot
      /\ w.flush.info = v.flush.info \cup ((S \cap v.decode) \ v.informed)
      /\ w.flush.decode = v.flush.decode \cup ((S \cap v.informed) \ v.decoded)
  BY DEF SetOutput, ViewType, FlushType, Addr
<1>2. /\ SameMemory(v, w) /\ w.assigned = v.assigned
      /\ w.committed = v.committed
      /\ w.executed = v.executed \cup S /\ w.preprocessed = v.preprocessed \cup S
      /\ w.informed = v.informed /\ w.decoded = v.decoded /\ w.decode = v.decode
  BY DEF SetOutput, ViewType, SameMemory
<1> QED
  BY <1>1, <1>2

\* See AssignFields.
LEMMA CompleteFields ==
  ASSUME NEW v \in ViewType
  PROVE  LET w == CompleteFlush(v) IN
         /\ w \in ViewType /\ SameMemory(v, w) /\ w.assigned = v.assigned
         /\ w.committed = Committing(v)
         /\ w.executed = v.executed /\ w.preprocessed = v.preprocessed
         /\ w.informed = v.informed \cup v.flush.info /\ w.decoded = v.decoded \cup v.flush.decode
         /\ w.decode = v.decode
         /\ w.flush.macs = {} /\ w.flush.ot = {} /\ w.flush.info = {}
         /\ w.flush.decode = (v.flush.ot \cap v.decode)
                               \cup ((v.flush.info \cap v.executed) \ (v.decoded \cup v.flush.decode))
<1> DEFINE w == CompleteFlush(v)
<1>1. /\ w \in ViewType /\ w.flush.macs = {} /\ w.flush.ot = {} /\ w.flush.info = {}
      /\ w.flush.decode = (v.flush.ot \cap v.decode)
                            \cup ((v.flush.info \cap v.executed) \ (v.decoded \cup v.flush.decode))
  BY DEF CompleteFlush, EmptyFlush, ViewType, FlushType, Addr
<1>2. /\ SameMemory(v, w) /\ w.assigned = v.assigned
      /\ w.committed = Committing(v)
      /\ w.executed = v.executed /\ w.preprocessed = v.preprocessed
      /\ w.informed = v.informed \cup v.flush.info /\ w.decoded = v.decoded \cup v.flush.decode
      /\ w.decode = v.decode
  BY DEF CompleteFlush, ViewType, SameMemory, Committing
<1> QED
  BY <1>1, <1>2

\* See AssignFields.
LEMMA DecodeFields ==
  ASSUME NEW v \in ViewType, NEW S \in Addr, NEW r \in Roles, VisShape(v),
         S \subseteq v.outputs \/ VisIsSet(v.vis, v.len, S), ~(S \subseteq v.decoded)
  PROVE  LET w == Decode(v, r, S) IN
         /\ w \in ViewType /\ SameMemory(v, w) /\ w.assigned = v.assigned
         /\ w.committed = v.committed /\ w.executed = v.executed
         /\ w.preprocessed = v.preprocessed
         /\ w.informed = v.informed /\ w.decoded = v.decoded
         /\ w.decode = v.decode \cup (S \ v.decoded)
         /\ w.flush.macs = v.flush.macs /\ w.flush.ot = v.flush.ot
         /\ w.flush.info = v.flush.info \cup
              ((S \cap (Garblers(v, r) \cup (v.outputs \cap v.preprocessed))) \ v.informed)
         /\ w.flush.decode = v.flush.decode \cup (S \cap Evaluators(v, r) \cap v.committed)
                               \cup (S \cap v.outputs \cap v.executed)
<1> USE DEF Addr
<1> DEFINE w == Decode(v, r, S)
           told == (((S \cap v.inputs) \cap Garblers(v, r))
                          \cup ((S \cap v.outputs) \cap v.preprocessed)) \ v.informed
           provable == IF r = "g" THEN (S \cap v.inputs) \ v.vis.visible
                                  ELSE (S \cap v.inputs) \cap v.vis.private
           proven == v.flush.decode \cup (provable \cap v.committed)
                       \cup ((S \cap v.outputs) \cap v.executed)
           f == [v.flush EXCEPT !.info = v.flush.info \cup told, !.decode = proven]
<1>0. v.flush \in FlushType /\ v.vis \in VisType
  BY DEF ViewType
<1>1. w = [v EXCEPT !.decode = v.decode \cup (S \ v.decoded), !.flush = f]
  BY DEF Decode, ViewType, FlushType, Garblers
<1>2. told = (S \cap (Garblers(v, r) \cup (v.outputs \cap v.preprocessed))) \ v.informed
  BY DEF VisShape, Settled, Garblers, Roles
<1>3. provable = S \cap Evaluators(v, r)
  <2>1. Settled(v) \subseteq v.inputs /\ v.outputs \cap v.inputs = {}
    BY DEF VisShape
  <2>2. S \subseteq v.outputs => S \cap v.inputs = {}
    BY <2>1
  <2>3. VisIsSet(v.vis, v.len, S) => S \cap v.inputs \subseteq Settled(v)
    BY DEF VisShape, VisIsSet
  <2>4. (S \cap v.inputs) \ v.vis.visible = S \cap v.vis.blind
    BY <2>1, <2>2, <2>3 DEF VisShape, Settled
  <2>5. (S \cap v.inputs) \cap v.vis.private = S \cap v.vis.private
    BY <2>1 DEF VisShape, Settled
  <2> QED
    BY <2>4, <2>5 DEF Evaluators
<1>4. told \in Addr /\ proven \in Addr /\ v.decode \cup (S \ v.decoded) \in Addr
  <2>1. v.flush.decode \in Addr /\ v.inputs \in Addr /\ v.outputs \in Addr /\ v.decode \in Addr
    BY <1>0 DEF ViewType, FlushType
  <2> QED
    BY <2>1
<1>5. proven = v.flush.decode \cup (S \cap Evaluators(v, r) \cap v.committed)
                 \cup (S \cap v.outputs \cap v.executed)
  BY <1>3
<1> HIDE DEF told, provable, proven
<1>6. f \in FlushType
  BY <1>0, <1>4 DEF FlushType
<1>7. f.macs = v.flush.macs /\ f.ot = v.flush.ot /\ f.info = v.flush.info \cup told /\ f.decode = proven
  BY <1>0, <1>4 DEF FlushType
<1> HIDE DEF f
<1>8. w \in ViewType /\ w.flush = f
  BY <1>1, <1>4, <1>6 DEF ViewType
<1>9. /\ SameMemory(v, w) /\ w.assigned = v.assigned
      /\ w.committed = v.committed /\ w.executed = v.executed
      /\ w.preprocessed = v.preprocessed
      /\ w.informed = v.informed /\ w.decoded = v.decoded
      /\ w.decode = v.decode \cup (S \ v.decoded)
  BY <1>1 DEF ViewType, SameMemory
<1> HIDE DEF w
<1>10. /\ w.flush.macs = v.flush.macs /\ w.flush.ot = v.flush.ot
       /\ w.flush.info = v.flush.info \cup
            ((S \cap (Garblers(v, r) \cup (v.outputs \cap v.preprocessed))) \ v.informed)
       /\ w.flush.decode = v.flush.decode \cup (S \cap Evaluators(v, r) \cap v.committed)
                             \cup (S \cap v.outputs \cap v.executed)
  BY <1>2, <1>5, <1>7, <1>8
<1> QED
  BY <1>8, <1>9, <1>10 DEF w

\* What a view is good for depends on these fields.
LEMMA GoodSets ==
  ASSUME NEW v, NEW r \in Roles, Good(v, r)
  PROVE  v.vis.visible = v.vis.public \cup v.vis.private
         /\ Evaluators(v, r) \cap Garblers(v, r) = {} /\ v.vis.public \cap Evaluators(v, r) = {}
         /\ Settled(v) = v.vis.public \cup Evaluators(v, r) \cup Garblers(v, r)
         /\ Settled(v) \cap v.outputs = {}
BY DEF Good, VisShape, Settled, Evaluators, Garblers

\* assign_raw
LEMMA AssignGood ==
  ASSUME NEW v, NEW r \in Roles, Good(v, r), NEW S \in Addr, CanAssign(v, S)
  PROVE  Good(Assign(v, S), r)
<1> DEFINE w == Assign(v, S)
<1>1. /\ w \in ViewType /\ SameMemory(v, w) /\ SameProgress(v, w)
      /\ w.flush = v.flush /\ w.assigned = v.assigned \cup S
  BY AssignFields DEF Good
<1> HIDE DEF w
<1>2. VisShape(w) /\ Duty(w, r)
  BY <1>1 DEF Good, VisShape, Duty, Settled, SameMemory, SameProgress, Evaluators, Garblers
<1>3. UseShape(w)
  BY <1>1 DEF Good, UseShape, Settled, Committing, SameMemory, SameProgress, CanAssign
<1> QED
  BY <1>1, <1>2, <1>3 DEF Good, w

\* commit_raw: what is public or private to this party has been assigned.
LEMMA CommitGood ==
  ASSUME NEW v, NEW r \in Roles, Good(v, r), NEW S \in Addr, CanCommit(v, S)
  PROVE  Good(Commit(v, r, S), r)
<1> DEFINE w == Commit(v, r, S)
<1>1. /\ w \in ViewType /\ SameMemory(v, w) /\ SameProgress(v, w) /\ w.assigned = v.assigned
      /\ w.flush.macs = v.flush.macs \cup (S \cap (v.vis.public \cup Garblers(v, r)))
      /\ w.flush.ot = v.flush.ot \cup (S \cap Evaluators(v, r))
      /\ w.flush.info = v.flush.info /\ w.flush.decode = v.flush.decode
  BY CommitFields DEF Good
<1> HIDE DEF w
<1>2. VisShape(w) /\ Settled(w) = Settled(v)
      /\ Evaluators(w, r) = Evaluators(v, r) /\ Garblers(w, r) = Garblers(v, r)
  BY <1>1 DEF Good, VisShape, Settled, SameMemory, Evaluators, Garblers
<1>3. Duty(w, r)
  BY <1>1, <1>2, GoodSets DEF Good, Duty, SameProgress
<1>4. Committing(w) \subseteq Committing(v) \cup (S \cap Settled(v))
  BY <1>1, GoodSets DEF Committing, SameProgress
<1>5. S \cap v.vis.visible \subseteq v.assigned
  BY GoodSets DEF CanCommit
<1>6. UseShape(w)
  BY <1>1, <1>2, <1>4, <1>5 DEF Good, UseShape, SameMemory, SameProgress
<1> QED
  BY <1>1, <1>2, <1>3, <1>6 DEF Good, w

\* set_preprocessed
LEMMA PreprocessedGood ==
  ASSUME NEW v, NEW r \in Roles, Good(v, r), NEW S \in Addr, S \subseteq v.outputs
  PROVE  Good(SetPreprocessed(v, S), r)
<1> DEFINE w == SetPreprocessed(v, S)
<1>1. /\ w \in ViewType /\ SameMemory(v, w) /\ w.assigned = v.assigned
      /\ w.committed = v.committed /\ w.executed = v.executed
      /\ w.preprocessed = v.preprocessed \cup S
      /\ w.informed = v.informed /\ w.decoded = v.decoded /\ w.decode = v.decode
      /\ w.flush.macs = v.flush.macs /\ w.flush.ot = v.flush.ot
      /\ w.flush.info = v.flush.info \cup ((S \cap v.decode) \ v.decoded)
      /\ w.flush.decode = v.flush.decode
  BY PreprocessedFields DEF Good
<1> HIDE DEF w
<1>2. VisShape(w) /\ Settled(w) = Settled(v) /\ Committing(w) = Committing(v)
      /\ Evaluators(w, r) = Evaluators(v, r) /\ Garblers(w, r) = Garblers(v, r)
  BY <1>1 DEF Good, VisShape, Settled, Committing, SameMemory, Evaluators, Garblers
<1>3. S \cap v.decode \subseteq w.informed \cup w.flush.info
  BY <1>1 DEF Good, UseShape
<1>4. Duty(w, r)
  BY <1>1, <1>2, <1>3 DEF Good, Duty
<1>5. UseShape(w)
  BY <1>1, <1>2 DEF Good, UseShape, SameMemory
<1> QED
  BY <1>1, <1>2, <1>4, <1>5 DEF Good, w

\* set_output
LEMMA OutputGood ==
  ASSUME NEW v, NEW r \in Roles, Good(v, r), NEW S \in Addr, S \subseteq v.outputs
  PROVE  Good(SetOutput(v, S), r)
<1> DEFINE w == SetOutput(v, S)
<1>1. /\ w \in ViewType /\ SameMemory(v, w) /\ w.assigned = v.assigned
      /\ w.committed = v.committed
      /\ w.executed = v.executed \cup S /\ w.preprocessed = v.preprocessed \cup S
      /\ w.informed = v.informed /\ w.decoded = v.decoded /\ w.decode = v.decode
      /\ w.flush.macs = v.flush.macs /\ w.flush.ot = v.flush.ot
      /\ w.flush.info = v.flush.info \cup ((S \cap v.decode) \ v.informed)
      /\ w.flush.decode = v.flush.decode \cup ((S \cap v.informed) \ v.decoded)
  BY OutputFields DEF Good
<1> HIDE DEF w
<1>2. VisShape(w) /\ Settled(w) = Settled(v) /\ Committing(w) = Committing(v)
      /\ Evaluators(w, r) = Evaluators(v, r) /\ Garblers(w, r) = Garblers(v, r)
  BY <1>1 DEF Good, VisShape, Settled, Committing, SameMemory, Evaluators, Garblers
<1>3. Duty(w, r)
  BY <1>1, <1>2 DEF Good, Duty
<1>4. UseShape(w)
  BY <1>1, <1>2 DEF Good, UseShape, SameMemory
<1> QED
  BY <1>1, <1>2, <1>3, <1>4 DEF Good, w

\* complete_flush
LEMMA CompleteGood ==
  ASSUME NEW v, NEW r \in Roles, Good(v, r)
  PROVE  Good(CompleteFlush(v), r)
<1> DEFINE w == CompleteFlush(v)
<1>1. /\ w \in ViewType /\ SameMemory(v, w) /\ w.assigned = v.assigned
      /\ w.committed = Committing(v)
      /\ w.executed = v.executed /\ w.preprocessed = v.preprocessed
      /\ w.informed = v.informed \cup v.flush.info /\ w.decoded = v.decoded \cup v.flush.decode
      /\ w.decode = v.decode
      /\ w.flush.macs = {} /\ w.flush.ot = {} /\ w.flush.info = {}
      /\ w.flush.decode = (v.flush.ot \cap v.decode)
                            \cup ((v.flush.info \cap v.executed) \ (v.decoded \cup v.flush.decode))
  BY CompleteFields DEF Good
<1> HIDE DEF w
<1>2. VisShape(w) /\ Settled(w) = Settled(v) /\ Committing(w) = Committing(v)
      /\ Evaluators(w, r) = Evaluators(v, r) /\ Garblers(w, r) = Garblers(v, r)
  BY <1>1 DEF Good, VisShape, Settled, Committing, SameMemory, Evaluators, Garblers
<1>3. Duty(w, r)
  BY <1>1, <1>2 DEF Good, Duty, Committing
<1>4. v.flush.ot \cap v.outputs = {}
  BY GoodSets DEF Good, UseShape, Committing
<1>5. UseShape(w)
  BY <1>1, <1>2, <1>4 DEF Good, UseShape, SameMemory
<1> QED
  BY <1>1, <1>2, <1>3, <1>5 DEF Good, w

\* decode
LEMMA DecodeGood ==
  ASSUME NEW v, NEW r \in Roles, Good(v, r), NEW S \in Addr, S \subseteq Nat,
         S \subseteq v.outputs \/ VisIsSet(v.vis, v.len, S)
  PROVE  Good(Decode(v, r, S), r)
<1>1. CASE S \subseteq v.decoded
  BY <1>1 DEF Decode
<1>2. CASE ~(S \subseteq v.decoded)
  <2> DEFINE w == Decode(v, r, S)
  <2>1. /\ w \in ViewType /\ SameMemory(v, w) /\ w.assigned = v.assigned
        /\ w.committed = v.committed /\ w.executed = v.executed
        /\ w.preprocessed = v.preprocessed
        /\ w.informed = v.informed /\ w.decoded = v.decoded
        /\ w.decode = v.decode \cup (S \ v.decoded)
        /\ w.flush.macs = v.flush.macs /\ w.flush.ot = v.flush.ot
        /\ w.flush.info = v.flush.info \cup
             ((S \cap (Garblers(v, r) \cup (v.outputs \cap v.preprocessed))) \ v.informed)
        /\ w.flush.decode = v.flush.decode \cup (S \cap Evaluators(v, r) \cap v.committed)
                              \cup (S \cap v.outputs \cap v.executed)
    BY <1>2, DecodeFields DEF Good
  <2> HIDE DEF w
  <2>2. VisShape(w) /\ Settled(w) = Settled(v) /\ Committing(w) = Committing(v)
        /\ Evaluators(w, r) = Evaluators(v, r) /\ Garblers(w, r) = Garblers(v, r)
    BY <2>1 DEF Good, VisShape, Settled, Committing, SameMemory, Evaluators, Garblers
  <2>3. S \subseteq Settled(v) \cup v.outputs
    <3>1. v.len \in Nat /\ v.inputs \cup v.outputs = 0 .. v.len - 1
          /\ v.inputs \subseteq v.vis.uninit \cup Settled(v)
      BY DEF Good, VisShape
    <3>2. ASSUME VisIsSet(v.vis, v.len, S), NEW a \in S
          PROVE  a \in 0 .. v.len - 1 /\ a \notin v.vis.uninit
      <4>1. a < v.len /\ a \notin v.vis.uninit
        BY <3>2 DEF VisIsSet
      <4>2. a \in Nat
        OBVIOUS
      <4> QED
        BY <3>1, <4>1, <4>2
    <3> QED
      BY <3>1, <3>2
  <2>4. w.decode = v.decode \cup S
    BY <2>1 DEF Good, UseShape
  <2>5. Duty(w, r)
    BY <2>1, <2>2, <2>4 DEF Good, Duty, UseShape
  <2>6. UseShape(w)
    <3>1. /\ Garblers(v, r) \cap v.outputs = {} /\ Evaluators(v, r) \cap v.outputs = {}
          /\ v.executed \subseteq v.preprocessed /\ v.preprocessed \subseteq v.outputs
      BY GoodSets DEF Good, UseShape
    <3>2. /\ w.flush.info \subseteq v.flush.info \cup S /\ w.flush.decode \subseteq v.flush.decode \cup S
          /\ w.outputs \cap w.flush.info \subseteq v.flush.info \cup v.preprocessed
          /\ w.outputs \cap w.flush.decode \subseteq v.flush.decode \cup w.informed \cup w.flush.info
      BY <2>1, <3>1 DEF SameMemory
    <3>3. v.flush.info \subseteq w.flush.info /\ w.outputs = v.outputs
      BY <2>1 DEF SameMemory
    <3>4. UseShape(v)
      BY DEF Good
    <3>5. /\ w.informed \cup w.decoded \cup w.flush.info \cup w.flush.decode \subseteq w.decode
          /\ w.decode \subseteq Settled(w) \cup w.outputs
      BY <2>1, <2>2, <2>3, <2>4, <3>2, <3>3, <3>4 DEF UseShape
    <3>6. /\ w.outputs \cap (w.informed \cup w.flush.info) \subseteq w.preprocessed
          /\ w.outputs \cap (w.decoded \cup w.flush.decode) \subseteq w.informed \cup w.flush.info
      BY <2>1, <3>2, <3>3, <3>4 DEF UseShape
    <3> QED
      BY <2>1, <2>2, <3>4, <3>5, <3>6 DEF UseShape, SameMemory
  <2> QED
    BY <2>1, <2>2, <2>5, <2>6 DEF Good, w
<1> QED
  BY <1>1, <1>2

\* alloc_input and alloc_output: new addresses have no visibility yet.
LEMMA AllocFields ==
  ASSUME NEW v \in ViewType, NEW n \in Nat, NEW S, S = Slice(v.len, n),
         NEW w \in {AllocInput(v, n), AllocOutput(v, n)}
  PROVE  /\ w \in ViewType /\ SameProgress(v, w) /\ w.assigned = v.assigned /\ w.flush = v.flush
         /\ w.len = v.len + n
         /\ w.vis.uninit = v.vis.uninit \cup S /\ w.vis.public = v.vis.public
         /\ w.vis.private = v.vis.private
         /\ w.vis.blind = v.vis.blind /\ w.vis.visible = v.vis.visible
         /\ w.inputs \cup w.outputs = (v.inputs \cup v.outputs) \cup S
         /\ v.inputs \subseteq w.inputs /\ v.outputs \subseteq w.outputs
         /\ AllocInput(v, n).inputs = v.inputs \cup S /\ AllocInput(v, n).outputs = v.outputs
         /\ AllocOutput(v, n).inputs = v.inputs /\ AllocOutput(v, n).outputs = v.outputs \cup S
<1>1. v.len \in Int /\ v.vis \in VisType /\ v.inputs \in Addr /\ v.outputs \in Addr
  BY DEF ViewType
<1>2. S \in Addr
  BY <1>1 DEF Slice, Addr
<1>3. v.len + n \in Int
  BY <1>1
<1>4. v.inputs \cup S \in Addr /\ v.outputs \cup S \in Addr
  BY <1>1, <1>2 DEF Addr
<1> DEFINE vis == VisAlloc(v.vis, S)
<1>5. /\ vis \in VisType /\ vis.uninit = v.vis.uninit \cup S /\ vis.private = v.vis.private
      /\ vis.public = v.vis.public /\ vis.blind = v.vis.blind /\ vis.visible = v.vis.visible
  BY <1>1, <1>2 DEF VisAlloc, VisType, Addr
<1> HIDE DEF vis
<1>6. /\ AllocInput(v, n) = [v EXCEPT !.len = v.len + n, !.vis = vis, !.inputs = v.inputs \cup S]
      /\ AllocOutput(v, n) = [v EXCEPT !.len = v.len + n, !.vis = vis, !.outputs = v.outputs \cup S]
  BY DEF AllocInput, AllocOutput, vis
<1>7. w \in ViewType
  <2>1. AllocInput(v, n) \in ViewType
    BY <1>3, <1>4, <1>5, <1>6 DEF ViewType
  <2>2. AllocOutput(v, n) \in ViewType
    BY <1>3, <1>4, <1>5, <1>6 DEF ViewType
  <2> QED
    BY <2>1, <2>2
<1> DEFINE Kept(x) == /\ SameProgress(v, x) /\ x.assigned = v.assigned /\ x.flush = v.flush
                      /\ x.len = v.len + n /\ x.vis = vis
<1>8. Kept(w)
  <2>1. Kept(AllocInput(v, n))
    BY <1>6 DEF ViewType, SameProgress
  <2>2. Kept(AllocOutput(v, n))
    BY <1>6 DEF ViewType, SameProgress
  <2> QED
    BY <2>1, <2>2
<1>9. /\ AllocInput(v, n).inputs = v.inputs \cup S /\ AllocInput(v, n).outputs = v.outputs
      /\ AllocOutput(v, n).inputs = v.inputs /\ AllocOutput(v, n).outputs = v.outputs \cup S
  BY <1>6 DEF ViewType
<1>10. /\ w.inputs \cup w.outputs = (v.inputs \cup v.outputs) \cup S
       /\ v.inputs \subseteq w.inputs /\ v.outputs \subseteq w.outputs
  BY <1>9
<1> QED
  BY <1>5, <1>7, <1>8, <1>9, <1>10

\* See AllocFields: the length and the two sets of slices the calls extend.
LEMMA AllocLists ==
  ASSUME NEW v \in ViewType, NEW n \in Nat
  PROVE  /\ AllocInput(v, n).inputs = v.inputs \cup Slice(v.len, n)
         /\ AllocInput(v, n).outputs = v.outputs /\ AllocInput(v, n).len = v.len + n
         /\ AllocOutput(v, n).inputs = v.inputs
         /\ AllocOutput(v, n).outputs = v.outputs \cup Slice(v.len, n)
         /\ AllocOutput(v, n).len = v.len + n
<1>1. AllocInput(v, n).len = v.len + n
  BY DEF AllocInput, ViewType
<1>2. AllocOutput(v, n).len = v.len + n
  BY DEF AllocOutput, ViewType
<1>3. AllocInput(v, n).inputs = v.inputs \cup Slice(v.len, n) /\ AllocInput(v, n).outputs = v.outputs
  BY DEF AllocInput, ViewType
<1>4. AllocOutput(v, n).inputs = v.inputs /\ AllocOutput(v, n).outputs = v.outputs \cup Slice(v.len, n)
  BY DEF AllocOutput, ViewType
<1> QED
  BY <1>1, <1>2, <1>3, <1>4

\* See AllocFields.
LEMMA AllocGood ==
  ASSUME NEW v, NEW r \in Roles, Good(v, r), NEW n \in Nat,
         NEW w \in {AllocInput(v, n), AllocOutput(v, n)}
  PROVE  Good(w, r) /\ w.len = v.len + n
<1> DEFINE S == Slice(v.len, n)
<1>1. v \in ViewType /\ VisShape(v) /\ UseShape(v) /\ Duty(v, r)
  BY DEF Good
<1>2. v.len \in Nat
  BY <1>1 DEF VisShape
<1>3. /\ S = v.len .. v.len + n - 1
      /\ (0 .. v.len - 1) \cap S = {} /\ (0 .. v.len - 1) \cup S = 0 .. (v.len + n) - 1
  <2>1. S = v.len .. v.len + n - 1
    BY <1>2 DEF Slice
  <2>2. (0 .. v.len - 1) \cap (v.len .. v.len + n - 1) = {}
    BY <1>2
  <2>3. (0 .. v.len - 1) \cup (v.len .. v.len + n - 1) = 0 .. (v.len + n) - 1
    BY <1>2
  <2> QED
    BY <2>1, <2>2, <2>3
<1>a. S = Slice(v.len, n)
  OBVIOUS
<1> HIDE DEF S
<1>4. /\ w \in ViewType /\ SameProgress(v, w) /\ w.assigned = v.assigned /\ w.flush = v.flush
      /\ w.len = v.len + n
      /\ w.vis.uninit = v.vis.uninit \cup S /\ w.vis.public = v.vis.public
      /\ w.vis.private = v.vis.private
      /\ w.vis.blind = v.vis.blind /\ w.vis.visible = v.vis.visible
      /\ w.inputs \cup w.outputs = (v.inputs \cup v.outputs) \cup S
      /\ v.inputs \subseteq w.inputs /\ v.outputs \subseteq w.outputs
  BY <1>1, <1>a, AllocFields
<1>5. \/ w.inputs = v.inputs \cup S /\ w.outputs = v.outputs
      \/ w.inputs = v.inputs /\ w.outputs = v.outputs \cup S
  BY <1>1, <1>a, AllocFields
<1>6. w.len \in Nat /\ w.inputs \cup w.outputs = 0 .. w.len - 1
  BY <1>1, <1>2, <1>3, <1>4 DEF VisShape
<1>7. S \cap (v.inputs \cup v.outputs) = {}
  BY <1>1, <1>3 DEF VisShape
<1>8. /\ Settled(w) = Settled(v) /\ Committing(w) = Committing(v)
      /\ Evaluators(w, r) = Evaluators(v, r) /\ Garblers(w, r) = Garblers(v, r)
  BY <1>4 DEF Settled, Committing, SameProgress, Evaluators, Garblers
<1>9. VisShape(w)
  BY <1>1, <1>4, <1>5, <1>6, <1>7, <1>8 DEF VisShape
<1>10. Duty(w, r)
  BY <1>1, <1>4, <1>8 DEF Duty, SameProgress
<1>11. UseShape(w)
  BY <1>1, <1>4, <1>5, <1>7, <1>8 DEF UseShape, VisShape, SameProgress
<1> QED
  BY <1>4, <1>9, <1>10, <1>11 DEF Good

\* mark_public, mark_private and mark_blind.
LEMMA MarkFields ==
  ASSUME NEW v \in ViewType, NEW S \in Addr,
         NEW w \in {MarkPublic(v, S), MarkPrivate(v, S), MarkBlind(v, S)}
  PROVE  /\ w \in ViewType /\ SameProgress(v, w) /\ w.assigned = v.assigned /\ w.flush = v.flush
         /\ w.len = v.len /\ w.inputs = v.inputs /\ w.outputs = v.outputs
         /\ w.vis \in {SetPublic(v.vis, S), SetPrivate(v.vis, S), SetBlind(v.vis, S)}
         /\ MarkPublic(v, S).vis = SetPublic(v.vis, S)
         /\ MarkPrivate(v, S).vis = SetPrivate(v.vis, S)
         /\ MarkBlind(v, S).vis = SetBlind(v.vis, S)
<1>1. /\ SetPublic(v.vis, S) \in VisType /\ SetPrivate(v.vis, S) \in VisType
      /\ SetBlind(v.vis, S) \in VisType
  BY DEF SetPublic, SetPrivate, SetBlind, ViewType, VisType, Addr
<1> DEFINE Kept(x, vis) == /\ x \in ViewType /\ SameProgress(v, x)
                           /\ x.assigned = v.assigned /\ x.flush = v.flush
                           /\ x.len = v.len /\ x.inputs = v.inputs /\ x.outputs = v.outputs
                           /\ x.vis = vis
<1>2. ASSUME NEW vis \in VisType PROVE Kept([v EXCEPT !.vis = vis], vis)
  BY DEF ViewType, SameProgress
<1>3. /\ MarkPublic(v, S) = [v EXCEPT !.vis = SetPublic(v.vis, S)]
      /\ MarkPrivate(v, S) = [v EXCEPT !.vis = SetPrivate(v.vis, S)]
      /\ MarkBlind(v, S) = [v EXCEPT !.vis = SetBlind(v.vis, S)]
  BY DEF MarkPublic, MarkPrivate, MarkBlind
<1> HIDE DEF Kept
<1>4. /\ Kept(MarkPublic(v, S), SetPublic(v.vis, S))
      /\ Kept(MarkPrivate(v, S), SetPrivate(v.vis, S))
      /\ Kept(MarkBlind(v, S), SetBlind(v.vis, S))
  BY <1>1, <1>2, <1>3
<1>5. \E vis \in {SetPublic(v.vis, S), SetPrivate(v.vis, S), SetBlind(v.vis, S)} : Kept(w, vis)
  BY <1>4
<1> QED
  BY <1>4, <1>5 DEF Kept

\* Only inputs without visibility are marked.
LEMMA MarkGood ==
  ASSUME NEW v, NEW r \in Roles, Good(v, r), NEW S \in Addr, Below(S, v.len), CanMark(v, S),
         NEW w \in {MarkPublic(v, S), MarkPrivate(v, S), MarkBlind(v, S)}
  PROVE  Good(w, r)
<1>1. v \in ViewType /\ VisShape(v) /\ UseShape(v) /\ Duty(v, r)
  BY DEF Good
<1>2. S \subseteq v.vis.uninit /\ S \cap v.outputs = {}
  BY DEF CanMark, VisIsSetAny, Below
<1>3. S \subseteq v.inputs /\ S \cap Settled(v) = {}
  BY <1>1, <1>2 DEF VisShape
<1>4. S \cap v.vis.public = {} /\ S \cap v.vis.private = {} /\ S \cap v.vis.blind = {}
      /\ S \cap v.vis.visible = {}
  BY <1>1, <1>3 DEF VisShape, Settled
<1>5. /\ w \in ViewType /\ SameProgress(v, w) /\ w.assigned = v.assigned /\ w.flush = v.flush
      /\ w.len = v.len /\ w.inputs = v.inputs /\ w.outputs = v.outputs
      /\ w.vis \in {SetPublic(v.vis, S), SetPrivate(v.vis, S), SetBlind(v.vis, S)}
  BY <1>1, MarkFields
<1>a. w.vis.uninit = v.vis.uninit \ S
  BY <1>5 DEF SetPublic, SetPrivate, SetBlind
<1>6. \/ /\ w.vis.public = v.vis.public \cup S /\ w.vis.private = v.vis.private
         /\ w.vis.blind = v.vis.blind /\ w.vis.visible = v.vis.visible \cup S
      \/ /\ w.vis.public = v.vis.public /\ w.vis.private = v.vis.private \cup S
         /\ w.vis.blind = v.vis.blind /\ w.vis.visible = v.vis.visible \cup S
      \/ /\ w.vis.public = v.vis.public /\ w.vis.private = v.vis.private
         /\ w.vis.blind = v.vis.blind \cup S /\ w.vis.visible = v.vis.visible
  <2>1. CASE w.vis = SetPublic(v.vis, S)
    BY <1>4, <2>1 DEF SetPublic
  <2>2. CASE w.vis = SetPrivate(v.vis, S)
    BY <1>4, <2>2 DEF SetPrivate
  <2>3. CASE w.vis = SetBlind(v.vis, S)
    BY <1>4, <2>3 DEF SetBlind
  <2> QED
    BY <1>5, <2>1, <2>2, <2>3
<1>7. Settled(w) = Settled(v) \cup S /\ Committing(w) = Committing(v)
  BY <1>5, <1>6 DEF Settled, Committing, SameProgress
<1>8. VisShape(w)
  <2>1. w.vis.visible = w.vis.public \cup w.vis.private
    BY <1>1, <1>6 DEF VisShape
  <2>2. w.vis.public \cap w.vis.private = {} /\ w.vis.blind \cap w.vis.visible = {}
    BY <1>1, <1>4, <1>6 DEF VisShape
  <2> QED
    BY <1>1, <1>2, <1>3, <1>5, <1>a, <1>7, <2>1, <2>2 DEF VisShape
<1>9. Committing(v) \cap S = {} /\ v.decode \cap S = {}
  BY <1>1, <1>2, <1>3 DEF UseShape
<1>10. w.vis.visible \subseteq v.vis.visible \cup S /\ v.vis.visible \subseteq w.vis.visible
  BY <1>6
<1>11. UseShape(w)
  BY <1>1, <1>5, <1>7, <1>9, <1>10 DEF UseShape, SameProgress
<1>12. /\ Evaluators(v, r) \subseteq Evaluators(w, r) /\ Evaluators(w, r) \subseteq Evaluators(v, r) \cup S
       /\ Garblers(w, r) \subseteq Garblers(v, r) \cup S
  BY <1>6 DEF Evaluators, Garblers
<1>13. Duty(w, r)
  BY <1>1, <1>5, <1>9, <1>12 DEF Duty, SameProgress, Committing
<1> QED
  BY <1>5, <1>8, <1>11, <1>13 DEF Good
-----------------------------------------------------------------------------
(***************************************************************************)
(* The machine of one party: where its calls are.  Calls that have been    *)
(* preprocessed come before those that have not, so executing the latter   *)
(* never makes one of the former executable.                               *)
(***************************************************************************)
Outs(K) == {Out(k) : k \in K}

\* The layout of the memory after n calls.
Layout(v, n) ==
  /\ n \in Nat /\ n <= Len(CallInputs)
  /\ v.outputs = Outs(1 .. n)
  /\ \E b \in 1 .. Len(Bounds) :
       v.inputs = 0 .. Bounds[b] - 1 /\ v.len = Bounds[b] + n /\ (n > 0 => b = Len(Bounds))

IsReady(v, k) == CallInputs[k] \subseteq v.committed \cup v.executed

Labels == {"idle", "flush", "await", "garble", "loop", "marking", "execute", "remarking"}

\* Each call that has not been executed is in one of these places.
Places(n, v, prep, todo, gone, busy) ==
  /\ prep \cup todo \cup gone \cup busy = {k \in 1 .. n : Out(k) \notin v.executed}
  /\ \A k \in prep : Out(k) \in v.preprocessed
  /\ \A k \in todo \cup busy : Out(k) \notin v.preprocessed
  /\ todo \cap busy = {}
  /\ \A j \in prep : \A k \in todo \cup gone \cup busy : j < k

Garbling(p, v, todo, gone, busy, left, label) ==
  IF label = "garble"
  THEN /\ todo = {} /\ left \cup busy \subseteq gone /\ left \cap busy = {}
       /\ \A k \in gone : Out(k) \notin v.preprocessed <=> (p = "e" \/ k \in left \cup busy)
  ELSE left = {} /\ gone = {} /\ (label # "execute" => busy = {})

Executable(v, prep, todo, busy, label) ==
  /\ label = "execute" => \A k \in busy : IsReady(v, k)
  /\ label \in {"execute", "remarking"} => \A k \in prep : ~IsReady(v, k)
  /\ label = "remarking" => \A k \in todo : ~IsReady(v, k)

Works(p, n, v, prep, todo, gone, busy, left, label) ==
  /\ Places(n, v, prep, todo, gone, busy)
  /\ Garbling(p, v, todo, gone, busy, left, label)
  /\ Executable(v, prep, todo, busy, label)

\* One output per call, after the inputs.
LEMMA OutFacts ==
  /\ \A k \in Nat : Out(k) \in Int /\ OutputSlice(k) = {Out(k)}
  /\ \A j, k \in Nat : (Out(j) = Out(k) => j = k) /\ (j < k => Out(j) < Out(k))
<1>1. NumInputs \in Nat
  BY BoundsGrow
<1>2. \A k \in Nat : Out(k) = NumInputs + k - 1
  BY DEF Out
<1>3. \A k \in Nat : Out(k) \in Int /\ Out(k) .. (Out(k) + 1 - 1) = {Out(k)}
  BY <1>1, <1>2
<1> QED
  BY <1>1, <1>2, <1>3 DEF OutputSlice, Slice

\* See OutFacts.
LEMMA OutsFacts ==
  ASSUME NEW K \in SUBSET Nat
  PROVE  /\ Outs(K) \in Addr /\ UNION {OutputSlice(k) : k \in K} = Outs(K)
         /\ \A k \in Nat : Out(k) \in Outs(K) <=> k \in K
BY OutFacts DEF Outs, Addr

\* A call reads no output of its own or of a later call.
LEMMA InputsEarlier ==
  ASSUME NEW n \in Nat, n <= Len(CallInputs), NEW j \in 1 .. n, NEW k \in Nat, j <= k
  PROVE  Out(k) \notin CallInputs[j]
<1>1. NumInputs \in Nat /\ j \in DOMAIN CallInputs
  BY BoundsGrow, ConstantsOK
<1>2. \A a \in CallInputs[j] : a \in Int /\ a < NumInputs + j - 1
  BY <1>1, ConstantsOK DEF NumInputs
<1>3. Out(k) = NumInputs + k - 1
  BY DEF Out
<1> QED
  BY <1>1, <1>2, <1>3

\* A party counts a call as ready if its inputs are committed or executed.
LEMMA ReadyFacts ==
  \A p, k : Ready(p, k) <=> IsReady(view[p], k)
BY DEF Ready, IsReady, IsCommitted

\* Calls that are executed leave their place, and no preprocessed call
\* becomes ready by the execution of one that was not.
LEMMA ExecuteWorks ==
  ASSUME NEW p, NEW n \in Nat, n <= Len(CallInputs),
         NEW v, NEW prep, NEW todo, NEW gone, NEW busy, NEW left, NEW label, NEW w, NEW K,
         Works(p, n, v, prep, todo, gone, busy, left, label),
         (K \subseteq prep /\ label = "marking") \/ (K \subseteq busy /\ label = "execute"),
         w.committed = v.committed, w.executed = v.executed \cup Outs(K),
         w.preprocessed = v.preprocessed \cup Outs(K)
  PROVE  Works(p, n, w, prep \ K, todo, gone, busy \ K, left, label)
<1>1. prep \cup todo \cup gone \cup busy \subseteq 1 .. n /\ gone = {} /\ K \subseteq 1 .. n
  BY DEF Works, Places, Garbling
<1>2. /\ K \in SUBSET Nat /\ prep \cup todo \cup gone \cup busy \subseteq Nat
      /\ \A k \in Nat : Out(k) \in Outs(K) <=> k \in K
  BY <1>1, OutsFacts
<1>3. (K \subseteq prep => busy \cap K = {} \/ label # "marking") /\ (K \subseteq busy => prep \cap K = {})
      /\ K \cap todo = {}
  BY DEF Works, Places, Garbling
<1>4. (prep \ K) \cup todo \cup gone \cup (busy \ K) = {k \in 1 .. n : Out(k) \notin w.executed}
  BY <1>1, <1>2, <1>3 DEF Works, Places
<1>5. Places(n, w, prep \ K, todo, gone, busy \ K)
  BY <1>1, <1>2, <1>3, <1>4 DEF Works, Places
<1>6. Garbling(p, w, todo, gone, busy \ K, left, label)
  BY DEF Works, Garbling
<1>7. Executable(w, prep \ K, todo, busy \ K, label)
  <2>1. CASE label = "marking"
    BY <2>1 DEF Executable
  <2>2. CASE label = "execute" /\ K \subseteq busy
    <3>1. \A k \in busy \ K : IsReady(w, k)
      BY <2>2 DEF Works, Executable, IsReady
    <3>2. ASSUME NEW j \in prep PROVE ~IsReady(w, j)
      <4>1. ~IsReady(v, j) /\ j \in 1 .. n /\ \A k \in K : j < k
        BY <1>1, <2>2 DEF Works, Executable, Places
      <4>2. \A k \in K : Out(k) \notin CallInputs[j]
        BY <1>1, <1>2, <4>1, InputsEarlier
      <4> QED
        BY <4>1, <4>2 DEF IsReady, Outs
    <3> QED
      BY <2>2, <3>1, <3>2 DEF Executable
  <2> QED
    BY <2>1, <2>2
<1> QED
  BY <1>5, <1>6, <1>7 DEF Works

\* A step that leaves the calls where they are, and moves to a place where
\* readiness does not matter.
LEMMA QuietWorks ==
  ASSUME NEW p, NEW n, NEW v, NEW prep, NEW todo, NEW gone, NEW busy, NEW left, NEW label,
         NEW w, NEW m,
         Works(p, n, v, prep, todo, gone, busy, left, label),
         w.executed = v.executed, w.preprocessed = v.preprocessed,
         label \notin {"garble", "execute"} \/ (label = "execute" /\ busy = {}),
         m \in {"idle", "flush", "await", "loop", "marking"}
  PROVE  Works(p, n, w, prep, todo, gone, busy, left, m)
BY DEF Works, Places, Garbling, Executable
-----------------------------------------------------------------------------
(***************************************************************************)
(* Each party keeps its view and its calls in order, step by step.         *)
(***************************************************************************)
Sound(p, n, v, prep, todo, gone, busy, left, label) ==
  /\ v \in ViewType /\ label \in Labels
  /\ prep \in SUBSET Nat /\ todo \in SUBSET Nat /\ gone \in SUBSET Nat
  /\ busy \in SUBSET Nat /\ left \in SUBSET Nat
  /\ Good(v, p) /\ Layout(v, n)
  /\ Works(p, n, v, prep, todo, gone, busy, left, label)

PartyInv(p) ==
  Sound(p, calls, view[p], pre[p], stack[p], taken[p], batch[p], rest[p], pc[p])

Tables ==
  /\ view = [p \in Roles |-> view[p]] /\ pre = [p \in Roles |-> pre[p]]
  /\ stack = [p \in Roles |-> stack[p]] /\ taken = [p \in Roles |-> taken[p]]
  /\ batch = [p \in Roles |-> batch[p]] /\ rest = [p \in Roles |-> rest[p]]
  /\ pc = [p \in Roles |-> pc[p]] /\ ret \in [Roles -> {"idle", "loop"}]

PartiesInv == Tables /\ \A p \in Roles : PartyInv(p)

\* What a step of one party writes.
Writes(p, v, prep, todo, gone, busy, left, label) ==
  /\ view' = [view EXCEPT ![p] = v]
  /\ pre' = [pre EXCEPT ![p] = prep] /\ stack' = [stack EXCEPT ![p] = todo]
  /\ taken' = [taken EXCEPT ![p] = gone] /\ batch' = [batch EXCEPT ![p] = busy]
  /\ rest' = [rest EXCEPT ![p] = left] /\ pc' = [pc EXCEPT ![p] = label]
  /\ ret' = ret /\ calls' = calls

\* A step of one party leaves the other's calls and view alone.
LEMMA OneParty ==
  ASSUME PartiesInv, NEW p \in Roles,
         NEW v, NEW prep, NEW todo, NEW gone, NEW busy, NEW left, NEW label,
         Writes(p, v, prep, todo, gone, busy, left, label),
         Sound(p, calls, v, prep, todo, gone, busy, left, label)
  PROVE  PartiesInv'
<1>1. Tables'
  BY DEF PartiesInv, Tables, Writes
<1>2. /\ view'[p] = v /\ pre'[p] = prep /\ stack'[p] = todo /\ taken'[p] = gone
      /\ batch'[p] = busy /\ rest'[p] = left /\ pc'[p] = label /\ calls' = calls
  BY DEF PartiesInv, Tables, Writes
<1>3. ASSUME NEW q \in Roles, q # p
      PROVE  /\ view'[q] = view[q] /\ pre'[q] = pre[q] /\ stack'[q] = stack[q]
             /\ taken'[q] = taken[q] /\ batch'[q] = batch[q] /\ rest'[q] = rest[q]
             /\ pc'[q] = pc[q] /\ calls' = calls
  BY <1>3 DEF PartiesInv, Tables, Writes
<1>4. ASSUME NEW q \in Roles PROVE PartyInv(q)'
  <2>1. CASE q = p
    BY <1>2, <2>1, Zenon DEF PartyInv
  <2>2. CASE q # p
    BY <1>3, <2>2, Zenon DEF PartyInv, PartiesInv
  <2> QED
    BY <2>1, <2>2
<1> QED
  BY <1>1, <1>4 DEF PartiesInv

\* See OneParty: a step that changes none of this.
LEMMA NoParty ==
  ASSUME PartiesInv, UNCHANGED <<view, pre, stack, taken, batch, rest, pc, ret, calls>>
  PROVE  PartiesInv'
BY Zenon DEF PartiesInv, Tables, PartyInv

\* The outputs of calls of a party are outputs of its view.
LEMMA CallsOut ==
  ASSUME NEW v, NEW n, Layout(v, n), NEW K \in SUBSET (1 .. n)
  PROVE  /\ Outs(K) \subseteq v.outputs /\ Outs(K) \in Addr
         /\ UNION {OutputSlice(k) : k \in K} = Outs(K)
<1>1. K \in SUBSET Nat /\ v.outputs = Outs(1 .. n)
  BY DEF Layout
<1> QED
  BY <1>1, OutsFacts DEF Outs

\* Layout only looks at where the memory ends.
LEMMA SameLayout ==
  ASSUME NEW v, NEW w, NEW n, Layout(v, n), SameMemory(v, w) PROVE Layout(w, n)
BY DEF Layout, SameMemory

\* set_preprocessed and set_output, as the machine calls them.
LEMMA CallsGood ==
  ASSUME NEW p \in Roles, NEW v, NEW n, Good(v, p), Layout(v, n), NEW K \in SUBSET (1 .. n)
  PROVE  /\ Good(SetPreprocessed(v, Outs(K)), p) /\ Layout(SetPreprocessed(v, Outs(K)), n)
         /\ Good(SetOutput(v, Outs(K)), p) /\ Layout(SetOutput(v, Outs(K)), n)
<1>1. Outs(K) \in Addr /\ Outs(K) \subseteq v.outputs /\ v \in ViewType
  BY CallsOut DEF Good
<1>2. Good(SetPreprocessed(v, Outs(K)), p) /\ Good(SetOutput(v, Outs(K)), p)
  BY <1>1, PreprocessedGood, OutputGood
<1>3. SameMemory(v, SetPreprocessed(v, Outs(K))) /\ SameMemory(v, SetOutput(v, Outs(K)))
  BY <1>1, PreprocessedFields, OutputFields
<1> QED
  BY <1>2, <1>3, SameLayout
-----------------------------------------------------------------------------
\* preprocess: take a batch, garble or receive its calls, put them back.
LEMMA BatchSound ==
  ASSUME NEW p \in Roles, NEW n, NEW v, NEW prep, NEW todo, NEW gone, NEW left,
         Sound(p, n, v, prep, todo, gone, {}, left, "garble"), NEW K \in SUBSET left
  PROVE  Sound(p, n, v, prep, todo, gone, K, left \ K, "garble")
<1>1. Works(p, n, v, prep, todo, gone, K, left \ K, "garble")
  BY DEF Sound, Works, Places, Garbling, Executable
<1> QED
  BY <1>1 DEF Sound

\* See BatchSound.
LEMMA EndSound ==
  ASSUME NEW p \in Roles, NEW n, NEW v, NEW prep, NEW todo, NEW gone,
         Sound(p, n, v, prep, todo, gone, {}, {}, "garble"),
         NEW w, w = (IF p = "e" THEN SetPreprocessed(v, Outs(gone)) ELSE v)
  PROVE  Sound(p, n, w, prep \cup gone, todo, {}, {}, {}, "idle")
<1>1. gone \in SUBSET (1 .. n) /\ gone \in SUBSET Nat
  BY DEF Sound, Works, Places
<1>2. Good(w, p) /\ Layout(w, n) /\ w \in ViewType
  BY <1>1, CallsGood DEF Sound, Good
<1>3. /\ w.executed = v.executed
      /\ w.preprocessed = v.preprocessed \cup (IF p = "e" THEN Outs(gone) ELSE {})
  BY <1>1, OutsFacts, PreprocessedFields DEF Sound
<1>4. \A k \in Nat : Out(k) \in Outs(gone) <=> k \in gone
  BY <1>1, OutsFacts
<1>5. \A k \in gone : Out(k) \in w.preprocessed
  BY <1>1, <1>3, <1>4 DEF Sound, Works, Garbling, Roles
<1>6. Works(p, n, w, prep \cup gone, todo, {}, {}, {}, "idle")
  BY <1>3, <1>5 DEF Sound, Works, Places, Garbling, Executable
<1> QED
  BY <1>1, <1>2, <1>6 DEF Sound, Labels

\* See BatchSound: the garbler garbles a call, or the evaluator receives it.
LEMMA GarbledSound ==
  ASSUME NEW p \in Roles, NEW n, NEW v, NEW prep, NEW todo, NEW gone, NEW busy, NEW left,
         Sound(p, n, v, prep, todo, gone, busy, left, "garble"), NEW k \in busy,
         NEW w, w = (IF p = "g" THEN SetPreprocessed(v, Outs({k})) ELSE v)
  PROVE  Sound(p, n, w, prep, todo, gone, busy \ {k}, left, "garble")
<1>1. {k} \in SUBSET (1 .. n) /\ {k} \in SUBSET Nat /\ gone \cup busy \cup left \subseteq Nat
      /\ left \cup busy \subseteq gone /\ left \cap busy = {} /\ todo = {}
  BY DEF Sound, Works, Places, Garbling
<1>2. Good(w, p) /\ Layout(w, n) /\ w \in ViewType
  BY <1>1, CallsGood DEF Sound, Good
<1>3. /\ w.executed = v.executed
      /\ w.preprocessed = v.preprocessed \cup (IF p = "g" THEN Outs({k}) ELSE {})
  BY <1>1, OutsFacts, PreprocessedFields DEF Sound
<1>4. \A j \in Nat : Out(j) \in Outs({k}) <=> j = k
  BY <1>1, OutsFacts
<1>5. Places(n, w, prep, todo, gone, busy \ {k})
  BY <1>1, <1>3, <1>4 DEF Sound, Works, Places
<1>6. Garbling(p, w, todo, gone, busy \ {k}, left, "garble")
  <2>1. ASSUME NEW j \in gone
        PROVE  Out(j) \notin w.preprocessed <=> (p = "e" \/ j \in left \cup (busy \ {k}))
    <3>1. Out(j) \notin v.preprocessed <=> (p = "e" \/ j \in left \cup busy)
      BY DEF Sound, Works, Garbling
    <3>2. Out(j) \in w.preprocessed <=> Out(j) \in v.preprocessed \/ (p = "g" /\ j = k)
      BY <1>1, <1>3, <1>4
    <3> QED
      BY <1>1, <3>1, <3>2 DEF Roles
  <2> QED
    BY <1>1, <2>1 DEF Garbling
<1>7. Works(p, n, w, prep, todo, gone, busy \ {k}, left, "garble")
  BY <1>5, <1>6 DEF Sound, Works, Executable
<1> QED
  BY <1>2, <1>7 DEF Sound

\* execute_all: calls are executed where they are.
LEMMA ExecutedSound ==
  ASSUME NEW p \in Roles, NEW n, NEW v, NEW prep, NEW todo, NEW gone, NEW busy, NEW left,
         NEW label, NEW K,
         Sound(p, n, v, prep, todo, gone, busy, left, label),
         (K \subseteq prep /\ label = "marking") \/ (K \subseteq busy /\ label = "execute")
  PROVE  /\ Sound(p, n, SetOutput(v, Outs(K)), prep \ K, todo, gone, busy \ K, left, label)
         /\ Sound(p, n, SetOutput(SetPreprocessed(v, Outs(K)), Outs(K)),
                  prep \ K, todo, gone, busy \ K, left, label)
<1> SUFFICES ASSUME NEW w \in {SetOutput(v, Outs(K)), SetOutput(SetPreprocessed(v, Outs(K)), Outs(K))}
             PROVE  Sound(p, n, w, prep \ K, todo, gone, busy \ K, left, label)
  OBVIOUS
<1>1. K \in SUBSET (1 .. n) /\ n \in Nat /\ n <= Len(CallInputs)
  BY DEF Sound, Works, Places, Layout
<1>2. K \in SUBSET Nat /\ Outs(K) \in Addr
  BY <1>1, OutsFacts
<1> DEFINE u == SetPreprocessed(v, Outs(K))
<1>3. Good(u, p) /\ Layout(u, n) /\ Good(v, p) /\ Layout(v, n)
  BY <1>1, CallsGood DEF Sound
<1>4. /\ u \in ViewType /\ u.committed = v.committed /\ u.executed = v.executed
      /\ u.preprocessed = v.preprocessed \cup Outs(K)
  BY <1>2, PreprocessedFields DEF Sound
<1> HIDE DEF u
<1>5. Good(w, p) /\ Layout(w, n)
  <2>1. CASE w = SetOutput(v, Outs(K))
    BY <1>1, <1>3, <2>1, CallsGood
  <2>2. CASE w = SetOutput(u, Outs(K))
    BY <1>1, <1>3, <2>2, CallsGood
  <2> QED
    BY <2>1, <2>2 DEF u
<1>6. /\ w.committed = v.committed /\ w.executed = v.executed \cup Outs(K)
      /\ w.preprocessed = v.preprocessed \cup Outs(K)
  <2>1. CASE w = SetOutput(v, Outs(K))
    BY <1>2, <2>1, OutputFields DEF Sound
  <2>2. CASE w = SetOutput(u, Outs(K))
    <3>1. /\ w.committed = u.committed /\ w.executed = u.executed \cup Outs(K)
          /\ w.preprocessed = u.preprocessed \cup Outs(K)
      BY <1>2, <1>4, <2>2, OutputFields
    <3> QED
      BY <1>4, <3>1
  <2> QED
    BY <2>1, <2>2 DEF u
<1>7. Works(p, n, v, prep, todo, gone, busy, left, label)
  BY DEF Sound
<1>8. Works(p, n, w, prep \ K, todo, gone, busy \ K, left, label)
  BY <1>1, <1>6, <1>7, ExecuteWorks
<1> QED
  BY <1>5, <1>8 DEF Sound, Good

\* execute_all: the next batch, and the end of it.
LEMMA TakeSound ==
  ASSUME NEW p \in Roles, NEW n, NEW v, NEW prep, NEW todo, NEW gone, NEW left, NEW label,
         Sound(p, n, v, prep, todo, gone, {}, left, label),
         label \in {"marking", "execute"}, \A k \in prep : ~IsReady(v, k),
         NEW K, K = {k \in todo : IsReady(v, k)}
  PROVE  /\ Sound(p, n, v, prep, todo \ K, gone, K, left, "execute")
         /\ K = {} => Sound(p, n, v, prep, todo, gone, {}, left, "remarking")
<1>1. Works(p, n, v, prep, todo \ K, gone, K, left, "execute")
  BY DEF Sound, Works, Places, Garbling, Executable
<1>2. K = {} => Works(p, n, v, prep, todo, gone, {}, left, "remarking")
  BY DEF Sound, Works, Places, Garbling, Executable
<1> QED
  BY <1>1, <1>2 DEF Sound, Labels

\* A step that leaves the calls where they are.
LEMMA QuietSound ==
  ASSUME NEW p \in Roles, NEW n, NEW v, NEW prep, NEW todo, NEW gone, NEW busy, NEW left,
         NEW label, NEW w, NEW m,
         Sound(p, n, v, prep, todo, gone, busy, left, label),
         Good(w, p), Layout(w, n), w.executed = v.executed, w.preprocessed = v.preprocessed,
         label \notin {"garble", "execute"} \/ (label = "execute" /\ busy = {}),
         m \in {"idle", "flush", "await", "loop", "marking"}
  PROVE  Sound(p, n, w, prep, todo, gone, busy, left, m)
<1>1. Works(p, n, v, prep, todo, gone, busy, left, label)
  BY DEF Sound
<1>2. Works(p, n, w, prep, todo, gone, busy, left, m)
  BY <1>1, QuietWorks
<1> QED
  BY <1>2 DEF Sound, Labels, Good

\* The calls start to be garbled.
LEMMA StartSound ==
  ASSUME NEW p \in Roles, NEW n, NEW v, NEW prep, NEW todo, NEW gone, NEW busy, NEW left,
         Sound(p, n, v, prep, todo, gone, busy, left, "idle")
  PROVE  Sound(p, n, v, prep, {}, todo, busy, todo, "garble")
<1>1. gone = {} /\ busy = {} /\ left = {} /\ \A k \in todo : Out(k) \notin v.preprocessed
  BY DEF Sound, Works, Garbling, Places
<1>2. /\ Places(n, v, prep, {}, todo, busy) /\ Executable(v, prep, {}, busy, "garble")
  BY <1>1 DEF Sound, Works, Places, Executable
<1>3. Garbling(p, v, {}, todo, busy, todo, "garble")
  BY <1>1 DEF Garbling
<1>4. Works(p, n, v, prep, {}, todo, busy, todo, "garble")
  BY <1>2, <1>3 DEF Works
<1> QED
  BY <1>4 DEF Sound, Labels
-----------------------------------------------------------------------------
(***************************************************************************)
(* Where the views are heading.  Executing every call that can be executed *)
(* comes to the same view whatever the order: Finish(v).                   *)
(***************************************************************************)
Closed(v, Z) ==
  \A k \in Nat : Out(k) \in v.outputs /\ CallInputs[k] \subseteq v.committed \cup Z => Out(k) \in Z

\* The outputs that follow from what is committed and executed.
Reach(v) ==
  {a \in v.outputs : \A Z \in SUBSET v.outputs : v.executed \subseteq Z /\ Closed(v, Z) => a \in Z}

Finish(v) == SetOutput(v, Reach(v) \ v.executed)

\* What execute_all does to a view, or, returning, flush.
Loop(v, where) == IF WantsFlush(v) \/ where = "idle" THEN v ELSE Finish(v)

\* Two views of the same memory, by the two parties.
Twin(v, w) ==
  /\ w.len = v.len /\ w.inputs = v.inputs /\ w.outputs = v.outputs
  /\ w.committed = v.committed /\ w.preprocessed = v.preprocessed /\ w.executed = v.executed
  /\ w.informed = v.informed /\ w.decoded = v.decoded /\ w.decode = v.decode
  /\ w.flush = v.flush
  /\ w.vis.public = v.vis.public /\ w.vis.private = v.vis.blind /\ w.vis.blind = v.vis.private

\* Records with the same fields are the same.
LEMMA FlushEqual ==
  ASSUME NEW f \in FlushType, NEW h \in FlushType,
         f.macs = h.macs, f.ot = h.ot, f.info = h.info, f.decode = h.decode
  PROVE  f = h
BY DEF FlushType

\* See FlushEqual.
LEMMA ViewEqual ==
  ASSUME NEW v \in ViewType, NEW w \in ViewType, SameMemory(v, w), SameProgress(v, w),
         v.assigned = w.assigned,
         v.flush.macs = w.flush.macs, v.flush.ot = w.flush.ot,
         v.flush.info = w.flush.info, v.flush.decode = w.flush.decode
  PROVE  v = w
<1>1. v.flush = w.flush
  BY FlushEqual DEF ViewType
<1> QED
  BY <1>1 DEF ViewType, SameMemory, SameProgress

\* Reach lies between what is executed and all outputs, and what is ready is
\* within reach.
LEMMA ReachFacts ==
  ASSUME NEW v, v.executed \subseteq v.outputs
  PROVE  /\ v.executed \subseteq Reach(v) /\ Reach(v) \subseteq v.outputs
         /\ \A k \in Nat : Out(k) \in v.outputs /\ IsReady(v, k) => Out(k) \in Reach(v)
         /\ Closed(v, v.executed) => Reach(v) = v.executed
<1>1. v.executed \subseteq Reach(v) /\ Reach(v) \subseteq v.outputs
  BY DEF Reach
<1>2. ASSUME NEW k \in Nat, Out(k) \in v.outputs, IsReady(v, k) PROVE Out(k) \in Reach(v)
  <2>1. ASSUME NEW Z \in SUBSET v.outputs, v.executed \subseteq Z, Closed(v, Z) PROVE Out(k) \in Z
    BY <1>2, <2>1 DEF IsReady, Closed
  <2> QED
    BY <1>2, <2>1 DEF Reach
<1>3. ASSUME Closed(v, v.executed) PROVE Reach(v) = v.executed
  BY <1>1, <1>3 DEF Reach
<1> QED
  BY <1>1, <1>2, <1>3

\* Executing what is within reach does not change the reach.
LEMMA ReachSame ==
  ASSUME NEW v, NEW w, w.outputs = v.outputs, w.committed = v.committed,
         v.executed \subseteq w.executed, w.executed \subseteq Reach(v)
  PROVE  Reach(w) = Reach(v)
<1>1. \A Z : Closed(w, Z) <=> Closed(v, Z)
  BY DEF Closed
<1>2. ASSUME NEW a \in Reach(v) PROVE a \in Reach(w)
  BY <1>1 DEF Reach
<1>3. ASSUME NEW a \in Reach(w) PROVE a \in Reach(v)
  <2>1. ASSUME NEW Z \in SUBSET v.outputs, v.executed \subseteq Z, Closed(v, Z) PROVE a \in Z
    <3>1. Reach(v) \subseteq Z
      BY <2>1 DEF Reach
    <3> QED
      BY <1>1, <2>1, <3>1 DEF Reach
  <2> QED
    BY <2>1 DEF Reach
<1> QED
  BY <1>2, <1>3

\* set_output in parts, and of nothing.
LEMMA OutputParts ==
  ASSUME NEW v \in ViewType, NEW S \in Addr, NEW T \in Addr
  PROVE  /\ SetOutput(SetOutput(v, S), T) = SetOutput(v, S \cup T)
         /\ SetOutput(v, {}) = v
<1> DEFINE u == SetOutput(v, S)
           w == SetOutput(u, T)
           x == SetOutput(v, S \cup T)
<1>1. /\ u \in ViewType /\ SameMemory(v, u) /\ u.assigned = v.assigned
      /\ u.committed = v.committed
      /\ u.executed = v.executed \cup S /\ u.preprocessed = v.preprocessed \cup S
      /\ u.informed = v.informed /\ u.decoded = v.decoded /\ u.decode = v.decode
      /\ u.flush.macs = v.flush.macs /\ u.flush.ot = v.flush.ot
      /\ u.flush.info = v.flush.info \cup ((S \cap v.decode) \ v.informed)
      /\ u.flush.decode = v.flush.decode \cup ((S \cap v.informed) \ v.decoded)
  BY OutputFields
<1> HIDE DEF u
<1>2. /\ w \in ViewType /\ SameMemory(u, w) /\ w.assigned = u.assigned
      /\ w.committed = u.committed
      /\ w.executed = u.executed \cup T /\ w.preprocessed = u.preprocessed \cup T
      /\ w.informed = u.informed /\ w.decoded = u.decoded /\ w.decode = u.decode
      /\ w.flush.macs = u.flush.macs /\ w.flush.ot = u.flush.ot
      /\ w.flush.info = u.flush.info \cup ((T \cap u.decode) \ u.informed)
      /\ w.flush.decode = u.flush.decode \cup ((T \cap u.informed) \ u.decoded)
  BY <1>1, OutputFields
<1>3. S \cup T \in Addr
  BY DEF Addr
<1>4. /\ x \in ViewType /\ SameMemory(v, x) /\ x.assigned = v.assigned
      /\ x.committed = v.committed
      /\ x.executed = v.executed \cup (S \cup T) /\ x.preprocessed = v.preprocessed \cup (S \cup T)
      /\ x.informed = v.informed /\ x.decoded = v.decoded /\ x.decode = v.decode
      /\ x.flush.macs = v.flush.macs /\ x.flush.ot = v.flush.ot
      /\ x.flush.info = v.flush.info \cup (((S \cup T) \cap v.decode) \ v.informed)
      /\ x.flush.decode = v.flush.decode \cup (((S \cup T) \cap v.informed) \ v.decoded)
  BY <1>3, OutputFields
<1> HIDE DEF w, x
<1>5. SameMemory(w, x) /\ SameProgress(w, x) /\ w.assigned = x.assigned
  BY <1>1, <1>2, <1>4 DEF SameMemory, SameProgress
<1>6. /\ w.flush.macs = x.flush.macs /\ w.flush.ot = x.flush.ot
      /\ w.flush.info = x.flush.info /\ w.flush.decode = x.flush.decode
  BY <1>1, <1>2, <1>4
<1>7. w = x
  BY <1>2, <1>4, <1>5, <1>6, ViewEqual
<1>8. SetOutput(v, {}) = v
  <2> DEFINE y == SetOutput(v, {})
  <2>1. {} \in Addr
    BY DEF Addr
  <2>2. /\ y \in ViewType /\ SameMemory(v, y) /\ y.assigned = v.assigned
        /\ y.committed = v.committed
        /\ y.executed = v.executed \cup {} /\ y.preprocessed = v.preprocessed \cup {}
        /\ y.informed = v.informed /\ y.decoded = v.decoded /\ y.decode = v.decode
        /\ y.flush.macs = v.flush.macs /\ y.flush.ot = v.flush.ot
        /\ y.flush.info = v.flush.info \cup (({} \cap v.decode) \ v.informed)
        /\ y.flush.decode = v.flush.decode \cup (({} \cap v.informed) \ v.decoded)
    BY <2>1, OutputFields
  <2> HIDE DEF y
  <2>3. SameProgress(v, y) /\ y.flush.info = v.flush.info /\ y.flush.decode = v.flush.decode
    BY <2>2 DEF SameProgress
  <2>4. v = y
    BY <2>2, <2>3, ViewEqual
  <2> QED
    BY <2>4 DEF y
<1> QED
  BY <1>7, <1>8 DEF u, w, x
-----------------------------------------------------------------------------
\* Executing what is within reach leads to the same end, and with nothing
\* ready this is the end.
LEMMA FinishSame ==
  ASSUME NEW v \in ViewType, v.executed \subseteq v.outputs,
         NEW S, S \subseteq Reach(v), S \cap v.executed = {}
  PROVE  Finish(SetOutput(v, S)) = Finish(v)
<1> DEFINE u == SetOutput(v, S)
           R == Reach(v)
<1>1. R \subseteq v.outputs /\ v.executed \subseteq R /\ v.outputs \in Addr
  BY ReachFacts DEF ViewType
<1>2. S \in Addr /\ R \ (v.executed \cup S) \in Addr
  BY <1>1 DEF Addr
<1>3. u.outputs = v.outputs /\ u.committed = v.committed /\ u.executed = v.executed \cup S
  BY <1>2, OutputFields DEF SameMemory
<1>4. Reach(u) = R
  BY <1>1, <1>3, ReachSame
<1>5. Finish(u) = SetOutput(u, R \ (v.executed \cup S))
  BY <1>3, <1>4 DEF Finish
<1>6. S \cup (R \ (v.executed \cup S)) = R \ v.executed
  OBVIOUS
<1> HIDE DEF R
<1>7. SetOutput(u, R \ (v.executed \cup S)) = SetOutput(v, R \ v.executed)
  BY <1>2, <1>6, OutputParts
<1> QED
  BY <1>5, <1>7 DEF R, Finish

\* See FinishSame.
LEMMA FinishDone ==
  ASSUME NEW v \in ViewType, v.executed \subseteq v.outputs, Closed(v, v.executed)
  PROVE  Finish(v) = v
<1>1. Reach(v) = v.executed
  BY ReachFacts
<1>2. Reach(v) \ v.executed = {}
  BY <1>1
<1> QED
  BY <1>2, OutputParts DEF Finish, Addr

\* set_preprocessed in parts, and of nothing.
LEMMA PreprocessedParts ==
  ASSUME NEW v \in ViewType, NEW S \in Addr, NEW T \in Addr
  PROVE  /\ SetPreprocessed(SetPreprocessed(v, S), T) = SetPreprocessed(v, S \cup T)
         /\ SetPreprocessed(v, {}) = v
<1> DEFINE u == SetPreprocessed(v, S)
           w == SetPreprocessed(u, T)
           x == SetPreprocessed(v, S \cup T)
<1>1. /\ u \in ViewType /\ SameMemory(v, u) /\ u.assigned = v.assigned
      /\ u.committed = v.committed /\ u.executed = v.executed
      /\ u.preprocessed = v.preprocessed \cup S
      /\ u.informed = v.informed /\ u.decoded = v.decoded /\ u.decode = v.decode
      /\ u.flush.macs = v.flush.macs /\ u.flush.ot = v.flush.ot
      /\ u.flush.info = v.flush.info \cup ((S \cap v.decode) \ v.decoded)
      /\ u.flush.decode = v.flush.decode
  BY PreprocessedFields
<1> HIDE DEF u
<1>2. /\ w \in ViewType /\ SameMemory(u, w) /\ w.assigned = u.assigned
      /\ w.committed = u.committed /\ w.executed = u.executed
      /\ w.preprocessed = u.preprocessed \cup T
      /\ w.informed = u.informed /\ w.decoded = u.decoded /\ w.decode = u.decode
      /\ w.flush.macs = u.flush.macs /\ w.flush.ot = u.flush.ot
      /\ w.flush.info = u.flush.info \cup ((T \cap u.decode) \ u.decoded)
      /\ w.flush.decode = u.flush.decode
  BY <1>1, PreprocessedFields
<1>3. S \cup T \in Addr
  BY DEF Addr
<1>4. /\ x \in ViewType /\ SameMemory(v, x) /\ x.assigned = v.assigned
      /\ x.committed = v.committed /\ x.executed = v.executed
      /\ x.preprocessed = v.preprocessed \cup (S \cup T)
      /\ x.informed = v.informed /\ x.decoded = v.decoded /\ x.decode = v.decode
      /\ x.flush.macs = v.flush.macs /\ x.flush.ot = v.flush.ot
      /\ x.flush.info = v.flush.info \cup (((S \cup T) \cap v.decode) \ v.decoded)
      /\ x.flush.decode = v.flush.decode
  BY <1>3, PreprocessedFields
<1> HIDE DEF w, x
<1>5. SameMemory(w, x) /\ SameProgress(w, x) /\ w.assigned = x.assigned
  BY <1>1, <1>2, <1>4 DEF SameMemory, SameProgress
<1>6. /\ w.flush.macs = x.flush.macs /\ w.flush.ot = x.flush.ot
      /\ w.flush.info = x.flush.info /\ w.flush.decode = x.flush.decode
  BY <1>1, <1>2, <1>4
<1>7. w = x
  BY <1>2, <1>4, <1>5, <1>6, ViewEqual
<1>8. SetPreprocessed(v, {}) = v
  <2> DEFINE y == SetPreprocessed(v, {})
  <2>1. {} \in Addr
    BY DEF Addr
  <2>2. /\ y \in ViewType /\ SameMemory(v, y) /\ y.assigned = v.assigned
        /\ y.committed = v.committed /\ y.executed = v.executed
        /\ y.preprocessed = v.preprocessed \cup {}
        /\ y.informed = v.informed /\ y.decoded = v.decoded /\ y.decode = v.decode
        /\ y.flush.macs = v.flush.macs /\ y.flush.ot = v.flush.ot
        /\ y.flush.info = v.flush.info \cup (({} \cap v.decode) \ v.decoded)
        /\ y.flush.decode = v.flush.decode
    BY <2>1, PreprocessedFields
  <2> HIDE DEF y
  <2>3. SameProgress(v, y) /\ y.flush.info = v.flush.info
    BY <2>2 DEF SameProgress
  <2>4. v = y
    BY <2>2, <2>3, ViewEqual
  <2> QED
    BY <2>4 DEF y
<1> QED
  BY <1>7, <1>8 DEF u, w, x

\* The garbler sets the output of a call it garbles and executes at once
\* preprocessed first: nothing is asked for twice by that.
LEMMA OutputAtOnce ==
  ASSUME NEW v \in ViewType, NEW S \in Addr, S \cap v.informed = {}
  PROVE  SetOutput(SetPreprocessed(v, S), S) = SetOutput(v, S)
<1> DEFINE u == SetPreprocessed(v, S)
           w == SetOutput(u, S)
           x == SetOutput(v, S)
<1>1. /\ u \in ViewType /\ SameMemory(v, u) /\ u.assigned = v.assigned
      /\ u.committed = v.committed /\ u.executed = v.executed
      /\ u.preprocessed = v.preprocessed \cup S
      /\ u.informed = v.informed /\ u.decoded = v.decoded /\ u.decode = v.decode
      /\ u.flush.macs = v.flush.macs /\ u.flush.ot = v.flush.ot
      /\ u.flush.info = v.flush.info \cup ((S \cap v.decode) \ v.decoded)
      /\ u.flush.decode = v.flush.decode
  BY PreprocessedFields
<1> HIDE DEF u
<1>2. /\ w \in ViewType /\ SameMemory(u, w) /\ w.assigned = u.assigned
      /\ w.committed = u.committed
      /\ w.executed = u.executed \cup S /\ w.preprocessed = u.preprocessed \cup S
      /\ w.informed = u.informed /\ w.decoded = u.decoded /\ w.decode = u.decode
      /\ w.flush.macs = u.flush.macs /\ w.flush.ot = u.flush.ot
      /\ w.flush.info = u.flush.info \cup ((S \cap u.decode) \ u.informed)
      /\ w.flush.decode = u.flush.decode \cup ((S \cap u.informed) \ u.decoded)
  BY <1>1, OutputFields
<1>3. /\ x \in ViewType /\ SameMemory(v, x) /\ x.assigned = v.assigned
      /\ x.committed = v.committed
      /\ x.executed = v.executed \cup S /\ x.preprocessed = v.preprocessed \cup S
      /\ x.informed = v.informed /\ x.decoded = v.decoded /\ x.decode = v.decode
      /\ x.flush.macs = v.flush.macs /\ x.flush.ot = v.flush.ot
      /\ x.flush.info = v.flush.info \cup ((S \cap v.decode) \ v.informed)
      /\ x.flush.decode = v.flush.decode \cup ((S \cap v.informed) \ v.decoded)
  BY OutputFields
<1> HIDE DEF w, x
<1>4. SameMemory(w, x) /\ SameProgress(w, x) /\ w.assigned = x.assigned
  BY <1>1, <1>2, <1>3 DEF SameMemory, SameProgress
<1>5. /\ w.flush.macs = x.flush.macs /\ w.flush.ot = x.flush.ot
      /\ w.flush.info = x.flush.info /\ w.flush.decode = x.flush.decode
  BY <1>1, <1>2, <1>3
<1>6. w = x
  BY <1>2, <1>3, <1>4, <1>5, ViewEqual
<1> QED
  BY <1>6 DEF u, w, x

\* What a party's calls in progress will make of its view.
Goal(p, v, gone, busy, left, label) ==
  IF label \in {"idle", "flush", "await"} THEN v
  ELSE IF label = "loop" THEN Loop(v, "loop")
  ELSE IF label = "garble" THEN SetPreprocessed(v, Outs(IF p = "g" THEN left \cup busy ELSE gone))
  ELSE Finish(v)

\* With no call ready there is nothing left to reach.
LEMMA NothingReady ==
  ASSUME NEW p, NEW n, NEW v, NEW prep, NEW todo, NEW label,
         Sound(p, n, v, prep, todo, {}, {}, {}, label), label # "garble",
         \A k \in prep \cup todo : ~IsReady(v, k)
  PROVE  Finish(v) = v
<1>1. v \in ViewType /\ v.executed \subseteq v.outputs /\ v.outputs = Outs(1 .. n)
  BY DEF Sound, Good, UseShape, Layout
<1>2. ASSUME NEW k \in Nat, Out(k) \in v.outputs, CallInputs[k] \subseteq v.committed \cup v.executed
      PROVE  Out(k) \in v.executed
  <2>1. 1 .. n \in SUBSET Nat
    BY DEF Sound, Layout
  <2>2. k \in 1 .. n
    BY <1>1, <1>2, <2>1, OutsFacts
  <2>3. prep \cup todo = {j \in 1 .. n : Out(j) \notin v.executed}
    BY DEF Sound, Works, Places
  <2> QED
    BY <1>2, <2>2, <2>3 DEF IsReady
<1>3. Closed(v, v.executed)
  BY <1>2 DEF Closed
<1> QED
  BY <1>1, <1>3, FinishDone
-----------------------------------------------------------------------------
(***************************************************************************)
(* The parties agree.  Either they are level, with one message in flight   *)
(* from each party that awaits the other's; or party p is behind: it still *)
(* awaits a message that the other party sent before it completed the same *)
(* flush, and perhaps a second one of the flush after that.  Whoever is    *)
(* ahead, the views are heading for the same memory.                       *)
(***************************************************************************)
Bits == {0, 1}

Pointers(S) == [a \in S |-> KeyPointer(a)]

Own(S) == [a \in S |-> a]

MacsOf(b) == [a \in DOMAIN b |-> Mac(a, b[a])]

\* The messages a party with view v sends: what they carry is determined by
\* its flush view and the bits.
ProofFits(m, S) ==
  \E b \in [S -> Bits] :
    /\ m.proof.bits = Collect(S, [a \in S |-> MacPointer(Mac(a, b[a]))])
    /\ m.proof.hash = Collect(S, MacsOf(b))

MacsFit(m, f) ==
  /\ \E b \in [f.macs -> Bits] : m.macs = Collect(f.macs, MacsOf(b))
  /\ m.ot = Collect(f.ot, Own(f.ot))
  /\ m.info = Collect(f.info, Pointers(f.info)) /\ m.commitments = Collect(f.info, Own(f.info))

\* A message to p fits the flush view f.
Fits(p, m, f) == IF p = "g" THEN ProofFits(m, f.decode) ELSE MacsFit(m, f)

Target(p) == Goal(p, view[p], taken[p], batch[p], rest[p], pc[p])

\* Where a party that awaits a message is heading for.
After(p) == Loop(CompleteFlush(view[p]), ret[p])

InFlight(p) ==
  IF pc[Peer(p)] = "await"
  THEN \E m : net[p] = <<m>> /\ Fits(p, m, view[Peer(p)].flush)
  ELSE net[p] = <<>>

Level ==
  /\ Twin(Target("g"), Target("e")) /\ Twin(Target("e"), Target("g"))
  /\ \A p \in Roles : InFlight(p)

Behind(p) ==
  /\ pc[p] = "await" /\ net[Peer(p)] = <<>>
  /\ Twin(After(p), Target(Peer(p))) /\ Twin(Target(Peer(p)), After(p))
  /\ \E m : /\ Fits(p, m, view[p].flush)
            /\ IF pc[Peer(p)] = "await"
               THEN \E n : net[p] = <<m, n>> /\ Fits(p, n, view[Peer(p)].flush)
               ELSE net[p] = <<m>>

Agree ==
  /\ Level \/ \E p \in Roles : Behind(p)
  /\ ret["g"] = ret["e"] /\ net = [p \in Roles |-> net[p]]

\* Sequences of one and two messages.
LEMMA ShortQueues ==
  ASSUME NEW a, NEW b
  PROVE  /\ Append(<<>>, a) = <<a>> /\ Append(<<a>>, b) = <<a, b>>
         /\ Tail(<<a>>) = <<>> /\ Tail(<<a, b>>) = <<b>>
         /\ Head(<<a>>) = a /\ Head(<<a, b>>) = a /\ <<a>> # <<>> /\ <<a, b>> # <<>>
<1> DEFINE S == {a, b}
           s == Append(<<a>>, b)
<1>1. <<a>> \in Seq(S) /\ Len(<<a>>) = 1 /\ b \in S
  OBVIOUS
<1>2. s \in Seq(S) /\ Len(s) = 2 /\ s[1] = a /\ s[2] = b
  BY <1>1
<1> HIDE DEF s
<1>3. s = [i \in 1 .. 2 |-> s[i]]
  BY <1>2
<1>4. <<a, b>> = [i \in 1 .. 2 |-> IF i = 1 THEN a ELSE b]
  OBVIOUS
<1>5. \A i \in 1 .. 2 : s[i] = (IF i = 1 THEN a ELSE b)
  BY <1>2
<1>6. [i \in 1 .. 2 |-> s[i]] = [i \in 1 .. 2 |-> IF i = 1 THEN a ELSE b]
  BY <1>5
<1>7. Append(<<a>>, b) = <<a, b>>
  BY <1>3, <1>4, <1>6, Zenon DEF s
<1>8. Append(<<>>, a) = <<a>> /\ Tail(<<a>>) = <<>> /\ Tail(<<a, b>>) = <<b>>
  OBVIOUS
<1>9. Head(<<a>>) = a /\ Head(<<a, b>>) = a /\ <<a>> # <<>> /\ <<a, b>> # <<>>
  OBVIOUS
<1> QED
  BY <1>7, <1>8, <1>9

\* The other party.
LEMMA PeerFacts ==
  /\ Peer("g") = "e" /\ Peer("e") = "g" /\ "g" \in Roles /\ "e" \in Roles
  /\ \A p \in Roles : Peer(p) \in Roles /\ Peer(p) # p /\ Peer(Peer(p)) = p
  /\ \A p \in Roles : \A q \in Roles : q = p \/ q = Peer(p)
BY DEF Roles, Peer

\* What a step leaves alone.
Still(p) ==
  /\ view'[p] = view[p] /\ taken'[p] = taken[p] /\ batch'[p] = batch[p] /\ rest'[p] = rest[p]
  /\ pc'[p] = pc[p] /\ ret'[p] = ret[p]

\* See Still.
LEMMA StillHeading ==
  ASSUME NEW p \in Roles, Still(p) PROVE Target(p)' = Target(p) /\ After(p)' = After(p)
<1>1. Target(p)' = Goal(p, view'[p], taken'[p], batch'[p], rest'[p], pc'[p])
      /\ After(p)' = Loop(CompleteFlush(view'[p]), ret'[p])
  BY DEF Target, After
<1> QED
  BY <1>1, Zenon DEF Still, Target, After

\* The cases of Agree, from the point of view of party p.
LEMMA AgreeCases ==
  ASSUME Agree, NEW p \in Roles PROVE Level \/ Behind(p) \/ Behind(Peer(p))
BY PeerFacts DEF Agree

\* Level from the point of view of party p.
LEMMA LevelFor ==
  ASSUME NEW p \in Roles
  PROVE  Level <=> /\ Twin(Target(p), Target(Peer(p))) /\ Twin(Target(Peer(p)), Target(p))
                   /\ InFlight(p) /\ InFlight(Peer(p))
<1>1. CASE p = "g"
  BY <1>1, PeerFacts DEF Level, Roles
<1>2. CASE p = "e"
  BY <1>2, PeerFacts DEF Level, Roles
<1> QED
  BY <1>1, <1>2 DEF Roles
-----------------------------------------------------------------------------
\* A party works by itself towards where it is heading.
LEMMA AgreeAlone ==
  ASSUME Agree, NEW p \in Roles, pc[p] # "await", pc'[p] # "await", net' = net,
         ret' = ret, Target(p)' = Target(p), Still(Peer(p))
  PROVE  Agree'
<1> DEFINE q == Peer(p)
<1>0. q \in Roles /\ Peer(q) = p
  BY PeerFacts
<1>1. /\ pc'[q] = pc[q] /\ view'[q] = view[q] /\ Target(q)' = Target(q) /\ After(q)' = After(q)
  BY <1>0, StillHeading DEF Still
<1>2. CASE Level
  <2>1. /\ Twin(Target(p), Target(q)) /\ Twin(Target(q), Target(p))
        /\ InFlight(p) /\ InFlight(q)
    BY <1>2, LevelFor
  <2>2. InFlight(p)' /\ InFlight(q)'
    BY <1>0, <1>1, <2>1 DEF InFlight
  <2>3. Twin(Target(p), Target(q))' /\ Twin(Target(q), Target(p))'
    <3>1. Twin(Target(p)', Target(q)') /\ Twin(Target(q)', Target(p)')
      BY <1>1, <2>1
    <3> QED
      BY <3>1
  <2>4. Level'
    <3>1. CASE p = "g"
      BY <2>2, <2>3, <3>1, PeerFacts DEF Level
    <3>2. CASE p = "e"
      BY <2>2, <2>3, <3>2, PeerFacts DEF Level
    <3> QED
      BY <3>1, <3>2 DEF Roles
  <2> QED
    BY <2>4 DEF Agree
<1>3. CASE Behind(q)
  <2>1. Behind(q)'
    <3>1. Twin(After(q)', Target(p)') /\ Twin(Target(p)', After(q)')
      BY <1>0, <1>1, <1>3 DEF Behind
    <3>2. Twin(After(q), Target(p))' /\ Twin(Target(p), After(q))'
      BY <3>1
    <3> QED
      BY <1>0, <1>1, <1>3, <3>2 DEF Behind
  <2> QED
    BY <1>0, <2>1 DEF Agree
<1> QED
  BY <1>2, <1>3, AgreeCases DEF Behind

\* What a step has to keep.
Onward == PartiesInv' /\ (Agree => Agree')

\* See OneParty: the party was not waiting and still heads for the same view.
LEMMA OneOnward ==
  ASSUME PartiesInv, NEW p \in Roles,
         NEW v, NEW prep, NEW todo, NEW gone, NEW busy, NEW left, NEW label,
         Writes(p, v, prep, todo, gone, busy, left, label), net' = net,
         Sound(p, calls, v, prep, todo, gone, busy, left, label),
         pc[p] # "await", label # "await",
         Goal(p, v, gone, busy, left, label) = Target(p)
  PROVE  Onward
<1>1. PartiesInv'
  BY OneParty
<1>2. ret' = ret /\ pc'[p] = label /\ view'[p] = v /\ taken'[p] = gone /\ batch'[p] = busy /\ rest'[p] = left
  BY DEF PartiesInv, Tables, Writes
<1>3. Target(p)' = Target(p)
  <2>1. Target(p)' = Goal(p, view'[p], taken'[p], batch'[p], rest'[p], pc'[p])
    BY DEF Target
  <2> QED
    BY <1>2, <2>1, Zenon
<1>4. Still(Peer(p))
  BY PeerFacts DEF Still, Writes, PartiesInv, Tables
<1>5. Agree => Agree'
  BY <1>2, <1>3, <1>4, AgreeAlone
<1> QED
  BY <1>1, <1>5 DEF Onward

\* What the steps of a party leave alone when it fails.
Quiet == UNCHANGED <<view, pre, stack, taken, batch, rest, pc, ret, calls, net>>

\* See NoParty.
LEMMA QuietOnward ==
  ASSUME PartiesInv, Quiet PROVE Onward
<1>1. PartiesInv'
  BY NoParty DEF Quiet
<1>2. \A p \in Roles : Target(p)' = Target(p) /\ After(p)' = After(p)
  BY StillHeading DEF Still, Quiet
<1>3. ASSUME Agree, NEW p \in Roles, NEW q, q = Peer(p), Behind(p) PROVE Behind(p)'
  <2>1. q \in Roles
    BY <1>3, PeerFacts
  <2>2. Twin(After(p)', Target(q)') /\ Twin(Target(q)', After(p)')
    BY <1>2, <1>3, <2>1 DEF Behind
  <2>3. Twin(After(p), Target(q))' /\ Twin(Target(q), After(p))'
    BY <2>2
  <2> QED
    BY <1>3, <2>3 DEF Behind, Quiet
<1>4. ASSUME Agree, Level PROVE Level'
  <2>1. Twin(Target("g")', Target("e")') /\ Twin(Target("e")', Target("g")')
    BY <1>2, <1>4 DEF Level, Roles
  <2>2. Twin(Target("g"), Target("e"))' /\ Twin(Target("e"), Target("g"))'
    BY <2>1
  <2>3. \A p \in Roles : InFlight(p)'
    BY <1>4 DEF Level, InFlight, Quiet
  <2> QED
    BY <2>2, <2>3 DEF Level
<1>5. Agree => Agree'
  BY <1>3, <1>4 DEF Agree, Quiet
<1> QED
  BY <1>1, <1>5 DEF Onward
-----------------------------------------------------------------------------
\* What is not written stays.
LEMMA Unwritten ==
  ASSUME PartiesInv, NEW p \in Roles
  PROVE  /\ view = [view EXCEPT ![p] = view[p]] /\ pre = [pre EXCEPT ![p] = pre[p]]
         /\ stack = [stack EXCEPT ![p] = stack[p]] /\ taken = [taken EXCEPT ![p] = taken[p]]
         /\ batch = [batch EXCEPT ![p] = batch[p]] /\ rest = [rest EXCEPT ![p] = rest[p]]
         /\ pc = [pc EXCEPT ![p] = pc[p]]
         /\ PartyInv(p) /\ pc[p] \in Labels /\ ret[p] \in {"idle", "loop"}
BY DEF PartiesInv, Tables, PartyInv, Sound

\* preprocess.
LEMMA PreprocessParty ==
  ASSUME PartiesInv, NEW p \in Roles, PreprocessBatch(p) \/ PreprocessEnd(p)
  PROVE  Onward
<1>1. CASE PreprocessBatch(p)
  <2> DEFINE K == TakePreprocessCalls(rest[p])
  <2>1. /\ Writes(p, view[p], pre[p], stack[p], taken[p], K, rest[p] \ K, "garble")
        /\ batch[p] = {} /\ pc[p] = "garble" /\ net' = net
    BY <1>1, Unwritten DEF PreprocessBatch, Writes, machine
  <2>2. K \in SUBSET rest[p]
    BY DEF TakePreprocessCalls
  <2>3. Sound(p, calls, view[p], pre[p], stack[p], taken[p], {}, rest[p], "garble")
    BY <2>1, Unwritten, Zenon DEF PartyInv
  <2>4. Sound(p, calls, view[p], pre[p], stack[p], taken[p], K, rest[p] \ K, "garble")
    BY <2>2, <2>3, BatchSound
  <2>5. (rest[p] \ K) \cup K = rest[p] \cup batch[p]
    BY <2>1, <2>2
  <2>6. Goal(p, view[p], taken[p], K, rest[p] \ K, "garble") = Target(p)
    BY <2>1, <2>5 DEF Goal, Target
  <2> QED
    BY <2>1, <2>4, <2>6, OneOnward
<1>2. CASE PreprocessEnd(p)
  <2> DEFINE w == IF p = "e" THEN SetPreprocessed(view[p], Outs(taken[p])) ELSE view[p]
  <2>1. batch[p] = {} /\ rest[p] = {} /\ pc[p] = "garble" /\ net' = net
    BY <1>2 DEF PreprocessEnd
  <2>2. Sound(p, calls, view[p], pre[p], stack[p], taken[p], {}, {}, "garble")
    BY <2>1, Unwritten, Zenon DEF PartyInv
  <2>3. taken[p] \in SUBSET Nat
    BY <2>2 DEF Sound
  <2>4. MarkPreprocessed(view[p], taken[p]) = SetPreprocessed(view[p], Outs(taken[p]))
    BY <2>3, OutsFacts DEF MarkPreprocessed
  <2>5. Writes(p, w, pre[p] \cup taken[p], stack[p], {}, {}, {}, "idle")
    <3>1. /\ view' = [view EXCEPT ![p] = w] /\ pc' = [pc EXCEPT ![p] = "idle"]
          /\ pre' = [pre EXCEPT ![p] = pre[p] \cup taken[p]]
      BY <1>2, <2>4 DEF PreprocessEnd, Return
    <3>2. /\ stack' = stack /\ batch' = batch /\ rest' = rest /\ ret' = ret /\ calls' = calls
          /\ taken' = [taken EXCEPT ![p] = {}]
      BY <1>2 DEF PreprocessEnd
    <3> QED
      BY <2>1, <3>1, <3>2, Unwritten DEF Writes
  <2>6. Sound(p, calls, w, pre[p] \cup taken[p], stack[p], {}, {}, {}, "idle")
    BY <2>2, EndSound
  <2>7. Goal(p, w, {}, {}, {}, "idle") = Target(p)
    <3>1. Outs({}) = {} /\ view[p] \in ViewType
      BY <2>2 DEF Outs, Sound
    <3>2. SetPreprocessed(view[p], Outs({})) = view[p]
      BY <3>1, PreprocessedParts DEF Addr
    <3>3. Target(p) = SetPreprocessed(view[p], Outs(IF p = "g" THEN {} ELSE taken[p]))
      BY <2>1 DEF Target, Goal
    <3> QED
      BY <3>2, <3>3 DEF Goal, Roles
  <2> QED
    BY <2>1, <2>5, <2>6, <2>7, OneOnward
<1> QED
  BY <1>1, <1>2

\* execute_all: where it goes on.
LEMMA LoopParty ==
  ASSUME PartiesInv, NEW p \in Roles, ExecuteAll(p)
  PROVE  Onward
<1> PICK m \in {"idle", "flush", "marking"} : pc' = [pc EXCEPT ![p] = m]
  BY DEF ExecuteAll, Return
<1>1. Writes(p, view[p], pre[p], stack[p], taken[p], batch[p], rest[p], m)
  BY Unwritten DEF ExecuteAll, Writes, machine, tasks
<1>2. pc[p] \in {"loop", "remarking"}
  BY DEF ExecuteAll
<1>3. Sound(p, calls, view[p], pre[p], stack[p], taken[p], batch[p], rest[p], pc[p])
  BY Unwritten, Zenon DEF PartyInv
<1>4. Sound(p, calls, view[p], pre[p], stack[p], taken[p], batch[p], rest[p], m)
  <2>1. Works(p, calls, view[p], pre[p], stack[p], taken[p], batch[p], rest[p], m)
    BY <1>2, <1>3 DEF Sound, Works, Places, Garbling, Executable
  <2> QED
    BY <1>3, <2>1 DEF Sound, Labels
<1>5. Goal(p, view[p], taken[p], batch[p], rest[p], m) = Target(p)
  <2> DEFINE v == view[p]
  <2>1. m = (IF WantsFlush(v) THEN "flush" ELSE IF WantsExecute(p) THEN "marking" ELSE "idle")
    <3>1. pc' = [pc EXCEPT ![p] = IF WantsFlush(v) THEN "flush" ELSE IF WantsExecute(p) THEN "marking" ELSE "idle"]
      BY DEF ExecuteAll, Return
    <3> QED
      BY <3>1 DEF PartiesInv, Tables
  <2>2. Goal(p, v, taken[p], batch[p], rest[p], m) = (IF m = "marking" THEN Finish(v) ELSE v)
    BY <2>1 DEF Goal
  <2>3. taken[p] = {} /\ batch[p] = {} /\ rest[p] = {}
    BY <1>2, <1>3 DEF Sound, Works, Garbling
  <2>4. Sound(p, calls, v, pre[p], stack[p], {}, {}, {}, pc[p])
    BY <1>3, <2>3, Zenon
  <2>5. CASE pc[p] = "loop"
    <3>1. Target(p) = (IF WantsFlush(v) THEN v ELSE Finish(v))
      BY <2>5 DEF Target, Goal, Loop
    <3>2. ~WantsExecute(p) => Finish(v) = v
      <4>1. ~WantsExecute(p) => \A k \in pre[p] \cup stack[p] : ~IsReady(v, k)
        BY ReadyFacts DEF WantsExecute
      <4> QED
        BY <1>2, <2>4, <4>1, NothingReady
    <3> QED
      BY <2>1, <2>2, <3>1, <3>2
  <2>6. CASE pc[p] = "remarking"
    <3>1. Target(p) = Finish(v)
      BY <2>6 DEF Target, Goal
    <3>2. \A k \in pre[p] \cup stack[p] : ~IsReady(v, k)
      BY <1>3, <2>6 DEF Sound, Works, Executable
    <3>3. Finish(v) = v
      BY <1>2, <2>4, <3>2, NothingReady
    <3> QED
      BY <2>2, <3>1, <3>3
  <2> QED
    BY <1>2, <2>5, <2>6
<1>6. net' = net /\ pc[p] # "await" /\ m # "await"
  BY <1>2 DEF ExecuteAll
<1> QED
  BY <1>1, <1>4, <1>5, <1>6, OneOnward

\* Executing calls that are ready leads where the party is heading anyway.
LEMMA GoalSame ==
  ASSUME NEW p \in Roles, Sound(p, calls, view[p], pre[p], stack[p], taken[p], batch[p], rest[p], pc[p]),
         pc[p] \in {"marking", "execute"}, NEW K \in SUBSET (1 .. calls), NEW busy,
         \A k \in K : IsReady(view[p], k) /\ Out(k) \notin view[p].executed
  PROVE  Goal(p, SetOutput(view[p], Outs(K)), taken[p], busy, rest[p], pc[p]) = Target(p)
<1> DEFINE v == view[p]
<1>1. Goal(p, SetOutput(v, Outs(K)), taken[p], busy, rest[p], pc[p]) = Finish(SetOutput(v, Outs(K)))
      /\ Target(p) = Finish(v)
  BY DEF Goal, Target
<1>2. v \in ViewType /\ Layout(v, calls) /\ v.executed \subseteq v.outputs
  BY DEF Sound, Good, UseShape
<1>3. Outs(K) \subseteq v.outputs
  BY <1>2, CallsOut
<1>4. Outs(K) \subseteq Reach(v) /\ Outs(K) \cap v.executed = {}
  <2>1. ASSUME NEW k \in K PROVE Out(k) \in Reach(v)
    <3>1. k \in Nat /\ Out(k) \in v.outputs
      BY <1>2, <1>3 DEF Layout, Outs
    <3> QED
      BY <1>2, <3>1, ReachFacts
  <2> QED
    BY <2>1 DEF Outs
<1> HIDE DEF v
<1>5. Finish(SetOutput(v, Outs(K))) = Finish(v)
  BY <1>2, <1>4, FinishSame
<1> QED
  BY <1>1, <1>5 DEF v

\* execute_preprocessed and mark_executed.
LEMMA MarkingParty ==
  ASSUME PartiesInv, NEW p \in Roles, ExecutePreprocessed(p)
  PROVE  Onward
<1> DEFINE K == {k \in pre[p] : Ready(p, k)}
           w == SetOutput(view[p], Outs(K))
<1>1. Sound(p, calls, view[p], pre[p], stack[p], taken[p], batch[p], rest[p], pc[p])
  BY Unwritten, Zenon DEF PartyInv
<1>2. /\ pc[p] = "marking" /\ K \in SUBSET Nat /\ K \subseteq pre[p]
      /\ \A k \in K : IsReady(view[p], k)
  <2>1. pc[p] \in {"marking", "remarking"} /\ K # {}
    BY DEF ExecutePreprocessed
  <2>2. \A k \in K : k \in pre[p] /\ IsReady(view[p], k)
    BY ReadyFacts
  <2>3. pc[p] = "remarking" => \A k \in pre[p] : ~IsReady(view[p], k)
    BY <1>1 DEF Sound, Works, Executable
  <2>4. pre[p] \in SUBSET Nat
    BY <1>1 DEF Sound
  <2> QED
    BY <2>1, <2>2, <2>3, <2>4
<1>3. UNION {OutputSlice(k) : k \in K} = Outs(K)
  BY <1>2, OutsFacts
<1>4. CASE err' # err
  <2>1. Quiet
    BY <1>4 DEF ExecutePreprocessed, Fail, machine, tasks, Quiet
  <2> QED
    BY <2>1, QuietOnward
<1>5. CASE err' = err
  <2>1. /\ net' = net
        /\ \/ UNCHANGED <<view, machine, tasks, pc, ret>>
           \/ /\ view' = [view EXCEPT ![p] = w] /\ pre' = [pre EXCEPT ![p] = pre[p] \ K]
              /\ UNCHANGED <<stack, calls, pc, ret, tasks>>
    BY <1>3 DEF ExecutePreprocessed, Fail
  <2>2. CASE UNCHANGED <<view, machine, tasks, pc, ret>>
    <3>1. Quiet
      BY <2>1, <2>2 DEF machine, tasks, Quiet
    <3> QED
      BY <3>1, QuietOnward
  <2>3. CASE /\ view' = [view EXCEPT ![p] = w] /\ pre' = [pre EXCEPT ![p] = pre[p] \ K]
             /\ UNCHANGED <<stack, calls, pc, ret, tasks>>
    <3>1. batch[p] \ K = batch[p]
      BY <1>1, <1>2 DEF Sound, Works, Garbling
    <3>2. Writes(p, w, pre[p] \ K, stack[p], taken[p], batch[p] \ K, rest[p], pc[p])
      BY <2>3, <3>1, Unwritten DEF Writes, tasks
    <3>3. Sound(p, calls, w, pre[p] \ K, stack[p], taken[p], batch[p] \ K, rest[p], pc[p])
      <4>1. Sound(p, calls, view[p], pre[p], stack[p], taken[p], batch[p], rest[p], "marking")
        BY <1>1, <1>2, Zenon
      <4> HIDE DEF K
      <4>2. Sound(p, calls, w, pre[p] \ K, stack[p], taken[p], batch[p] \ K, rest[p], "marking")
        <5>1. (K \subseteq pre[p] /\ "marking" = "marking") \/ (K \subseteq batch[p] /\ "marking" = "execute")
          BY <1>2
        <5> QED
          BY <4>1, <5>1, ExecutedSound
      <4> QED
        BY <1>2, <4>2, Zenon
    <3>4. \A k \in K : Out(k) \notin view[p].executed /\ k \in 1 .. calls
      BY <1>1, <1>2 DEF Sound, Works, Places
    <3>5. Goal(p, w, taken[p], batch[p] \ K, rest[p], pc[p]) = Target(p)
      BY <1>1, <1>2, <3>4, GoalSame
    <3> QED
      BY <1>2, <2>1, <3>2, <3>3, <3>5, OneOnward
  <2> QED
    BY <2>1, <2>2, <2>3
<1> QED
  BY <1>4, <1>5

\* take_execute_calls, and the end of execute_all.
LEMMA ExecuteParty ==
  ASSUME PartiesInv, NEW p \in Roles, ExecuteBatch(p) \/ ExecuteEnd(p)
  PROVE  Onward
<1> DEFINE K == {k \in stack[p] : Ready(p, k)}
<1>1. Sound(p, calls, view[p], pre[p], stack[p], taken[p], batch[p], rest[p], pc[p])
  BY Unwritten, Zenon DEF PartyInv
<1>2. /\ pc[p] \in {"marking", "execute"} /\ batch[p] = {}
      /\ pc[p] = "marking" => \A k \in pre[p] : ~Ready(p, k)
  BY DEF ExecuteBatch, ExecuteEnd, Executing, Marked
<1>3. \A k \in pre[p] : ~IsReady(view[p], k)
  BY <1>1, <1>2, ReadyFacts DEF Sound, Works, Executable
<1>4. K = {k \in stack[p] : IsReady(view[p], k)}
  BY ReadyFacts
<1>5. Sound(p, calls, view[p], pre[p], stack[p], taken[p], {}, rest[p], pc[p])
  BY <1>1, <1>2, Zenon
<1>6. /\ Sound(p, calls, view[p], pre[p], stack[p] \ K, taken[p], K, rest[p], "execute")
      /\ K = {} => Sound(p, calls, view[p], pre[p], stack[p], taken[p], {}, rest[p], "remarking")
  BY <1>2, <1>3, <1>4, <1>5, TakeSound
<1>0. net' = net
  BY DEF ExecuteBatch, ExecuteEnd, Fail
<1>9. Target(p) = Finish(view[p])
  BY <1>2 DEF Target, Goal
<1>7. CASE ExecuteBatch(p)
  <2>1. Writes(p, view[p], pre[p], stack[p] \ K, taken[p], K, rest[p], "execute")
    BY <1>7, Unwritten DEF ExecuteBatch, Writes, Return
  <2>2. Goal(p, view[p], taken[p], K, rest[p], "execute") = Finish(view[p])
    BY DEF Goal
  <2> QED
    BY <1>0, <1>2, <1>6, <1>9, <2>1, <2>2, OneOnward
<1>8. CASE ExecuteEnd(p) /\ p = "g"
  <2>1. K = {}
    BY <1>8 DEF ExecuteEnd
  <2>2. Writes(p, view[p], pre[p], stack[p], taken[p], {}, rest[p], "remarking")
    BY <1>2, <1>8, Unwritten DEF ExecuteEnd, Writes, machine, tasks, Return
  <2>3. Goal(p, view[p], taken[p], {}, rest[p], "remarking") = Finish(view[p])
    BY DEF Goal
  <2> QED
    BY <1>0, <1>2, <1>6, <1>9, <2>1, <2>2, <2>3, OneOnward
<1>10. CASE ExecuteEnd(p) /\ p = "e"
  <2>1. \/ UNCHANGED <<view, machine, tasks, pc, ret>>
        \/ pc' = [pc EXCEPT ![p] = "loop"] /\ UNCHANGED <<view, machine, tasks, ret>>
    BY <1>10 DEF ExecuteEnd, Return, Fail
  <2>2. CASE UNCHANGED <<view, machine, tasks, pc, ret>>
    <3>1. Quiet
      BY <1>0, <2>2 DEF machine, tasks, Quiet
    <3> QED
      BY <3>1, QuietOnward
  <2>3. CASE pc' = [pc EXCEPT ![p] = "loop"] /\ UNCHANGED <<view, machine, tasks, ret>>
    <3>1. Writes(p, view[p], pre[p], stack[p], taken[p], {}, rest[p], "loop")
      BY <1>2, <2>3, Unwritten DEF Writes, machine, tasks
    <3>2. Sound(p, calls, view[p], pre[p], stack[p], taken[p], {}, rest[p], "loop")
      BY <1>2, <1>5, QuietSound DEF Sound
    <3>3. Finish(view[p]) = view[p]
      <4>1. \A k \in pre[p] \cup stack[p] : ~IsReady(view[p], k)
        BY <1>3, <1>10, ReadyFacts DEF ExecuteEnd
      <4>2. rest[p] = {} /\ taken[p] = {}
        BY <1>2, <1>5 DEF Sound, Works, Garbling
      <4>3. Sound(p, calls, view[p], pre[p], stack[p], {}, {}, {}, pc[p])
        BY <1>5, <4>2, Zenon
      <4> QED
        BY <1>2, <4>1, <4>3, NothingReady
    <3>4. Goal(p, view[p], taken[p], {}, rest[p], "loop") = Target(p)
      BY <1>9, <3>3 DEF Goal, Loop
    <3> QED
      BY <1>0, <1>2, <3>1, <3>2, <3>4, OneOnward
  <2> QED
    BY <2>1, <2>2, <2>3
<1> QED
  BY <1>7, <1>8, <1>10 DEF Roles
-----------------------------------------------------------------------------
\* flush: a message is sent, or received.
LEMMA FlushParty ==
  ASSUME PartiesInv, NEW p \in Roles,
         view' \in {view, [view EXCEPT ![p] = CompleteFlush(view[p])]},
         \/ pc[p] = "flush" /\ view' = view /\ pc' = [pc EXCEPT ![p] = "await"]
         \/ /\ pc[p] = "await" /\ view' = [view EXCEPT ![p] = CompleteFlush(view[p])]
            /\ EndFlush(p, CompleteFlush(view[p])),
         UNCHANGED <<machine, tasks, ret>>
  PROVE  PartiesInv'
<1> DEFINE m == IF pc[p] = "flush" THEN "await"
                ELSE IF WantsFlush(CompleteFlush(view[p])) THEN "flush" ELSE ret[p]
           w == IF pc[p] = "flush" THEN view[p] ELSE CompleteFlush(view[p])
<1>1. Writes(p, w, pre[p], stack[p], taken[p], batch[p], rest[p], m)
  BY Unwritten DEF Writes, machine, tasks, EndFlush, Return
<1>2. Sound(p, calls, view[p], pre[p], stack[p], taken[p], batch[p], rest[p], pc[p])
  BY Unwritten, Zenon DEF PartyInv
<1>3. pc[p] \in {"flush", "await"} /\ m \in {"flush", "await", "idle", "loop"}
  BY Unwritten
<1>4. /\ Good(w, p) /\ Layout(w, calls)
      /\ w.executed = view[p].executed /\ w.preprocessed = view[p].preprocessed
  <2>1. Good(view[p], p) /\ Layout(view[p], calls) /\ view[p] \in ViewType
    BY <1>2 DEF Sound
  <2>2. /\ SameMemory(view[p], CompleteFlush(view[p]))
        /\ CompleteFlush(view[p]).executed = view[p].executed
        /\ CompleteFlush(view[p]).preprocessed = view[p].preprocessed
    BY <2>1, CompleteFields
  <2>3. Good(CompleteFlush(view[p]), p) /\ Layout(CompleteFlush(view[p]), calls)
    BY <2>1, <2>2, CompleteGood, SameLayout
  <2> QED
    BY <2>1, <2>2, <2>3
<1> HIDE DEF m, w
<1>5. Sound(p, calls, w, pre[p], stack[p], taken[p], batch[p], rest[p], m)
  BY <1>2, <1>3, <1>4, QuietSound
<1> QED
  BY <1>1, <1>5, OneParty


\* The output of a call that is garbled now has not been used before.
LEMMA GeneratedAtOnce ==
  ASSUME NEW p \in Roles, NEW n, NEW v, NEW prep, NEW todo, NEW gone, NEW busy, NEW left, NEW label,
         Sound(p, n, v, prep, todo, gone, busy, left, label), NEW k \in busy,
         p = "g" \/ label # "garble"
  PROVE  /\ SetOutput(SetPreprocessed(v, Outs({k})), Outs({k})) = SetOutput(v, Outs({k}))
         /\ Outs({k}) \subseteq v.outputs /\ Outs({k}) \cap v.preprocessed = {} /\ k \in 1 .. n
<1> DEFINE S == Outs({k})
<1>1. k \in 1 .. n /\ Out(k) \notin v.preprocessed
  BY DEF Sound, Works, Places
<1>2. S = {Out(k)} /\ Out(k) \in v.outputs /\ Out(k) \in Int
  <2>1. k \in Nat
    BY <1>1 DEF Sound
  <2> QED
    BY <1>1, <2>1, OutFacts DEF Sound, Layout, Outs
<1>3. v \in ViewType /\ v.outputs \cap v.informed \subseteq v.preprocessed
  BY DEF Sound, Good, UseShape
<1>4. S \in Addr /\ S \cap v.informed = {} /\ S \subseteq v.outputs /\ S \cap v.preprocessed = {}
  BY <1>1, <1>2, <1>3 DEF Addr
<1> HIDE DEF S
<1>5. SetOutput(SetPreprocessed(v, S), S) = SetOutput(v, S)
  BY <1>3, <1>4, OutputAtOnce
<1> QED
  BY <1>1, <1>4, <1>5 DEF S

\* generate.
LEMMA GenerateParty ==
  ASSUME PartiesInv, NEW k \in batch["g"], Generate(k)
  PROVE  Onward
<1> DEFINE v == view["g"]
<1>1. Sound("g", calls, v, pre["g"], stack["g"], taken["g"], batch["g"], rest["g"], pc["g"])
  BY Unwritten, Zenon DEF PartyInv, Roles
<1>2. k \in Nat /\ OutputSlice(k) = Outs({k})
  <2>1. batch["g"] \in SUBSET Nat
    BY <1>1 DEF Sound
  <2> QED
    BY <2>1, OutFacts DEF Outs
<1>0. net' = net
  BY DEF Generate, Fail
<1>3. CASE err' # err
  <2>1. Quiet
    BY <1>3 DEF Generate, Fail, Quiet, machine, tasks
  <2> QED
    BY <2>1, QuietOnward
<1>4. CASE err' = err /\ pc["g"] = "garble"
  <2>1. \/ UNCHANGED <<view, machine, tasks, pc, ret>>
        \/ /\ view' = [view EXCEPT !["g"] = SetPreprocessed(v, Outs({k}))]
           /\ batch' = [batch EXCEPT !["g"] = @ \ {k}]
           /\ UNCHANGED <<machine, pc, ret, rest, taken>>
    BY <1>2, <1>4 DEF Generate, Fail, FinishTask
  <2>2. CASE UNCHANGED <<view, machine, tasks, pc, ret>>
    <3>1. Quiet
      BY <1>0, <2>2 DEF machine, tasks, Quiet
    <3> QED
      BY <3>1, QuietOnward
  <2>3. CASE /\ view' = [view EXCEPT !["g"] = SetPreprocessed(v, Outs({k}))]
             /\ batch' = [batch EXCEPT !["g"] = @ \ {k}]
             /\ UNCHANGED <<machine, pc, ret, rest, taken>>
    <3>1. Writes("g", SetPreprocessed(v, Outs({k})), pre["g"], stack["g"], taken["g"],
                 batch["g"] \ {k}, rest["g"], "garble")
      BY <1>4, <2>3, Unwritten DEF Writes, machine, Roles
    <3>2. Sound("g", calls, v, pre["g"], stack["g"], taken["g"], batch["g"], rest["g"], "garble")
      BY <1>1, <1>4, Zenon
    <3>3. Sound("g", calls, SetPreprocessed(v, Outs({k})), pre["g"], stack["g"], taken["g"],
                batch["g"] \ {k}, rest["g"], "garble")
      BY <3>2, GarbledSound DEF Roles
    <3>4. Goal("g", SetPreprocessed(v, Outs({k})), taken["g"], batch["g"] \ {k}, rest["g"], "garble")
            = Target("g")
      <4> DEFINE K == rest["g"] \cup (batch["g"] \ {k})
                 L == rest["g"] \cup batch["g"]
      <4>1. v \in ViewType /\ {k} \in SUBSET Nat /\ K \in SUBSET Nat
        BY <1>1, <1>2 DEF Sound
      <4>2. Outs({k}) \in Addr /\ Outs(K) \in Addr
        BY <4>1, OutsFacts
      <4>3. Outs({k}) \cup Outs(K) = Outs(L)
        BY DEF Outs
      <4> DEFINE S == Outs({k})
                 T == Outs(K)
      <4> HIDE DEF K, L
      <4>4. SetPreprocessed(SetPreprocessed(v, S), T) = SetPreprocessed(v, Outs(L))
        <5>1. S \in Addr /\ T \in Addr /\ S \cup T = Outs(L)
          BY <4>2, <4>3
        <5> HIDE DEF S, T
        <5>2. SetPreprocessed(SetPreprocessed(v, S), T) = SetPreprocessed(v, S \cup T)
          BY <4>1, <5>1, PreprocessedParts
        <5> QED
          BY <5>1, <5>2
      <4>5. Target("g") = SetPreprocessed(v, Outs(L))
        BY <1>4 DEF Target, Goal, L
      <4>6. Goal("g", SetPreprocessed(v, Outs({k})), taken["g"], batch["g"] \ {k}, rest["g"], "garble")
              = SetPreprocessed(SetPreprocessed(v, Outs({k})), Outs(K))
        BY DEF Goal, K
      <4> QED
        BY <4>4, <4>5, <4>6
    <3> QED
      BY <1>0, <1>4, <3>1, <3>3, <3>4, OneOnward DEF Roles
  <2> QED
    BY <2>1, <2>2, <2>3
<1>5. CASE err' = err /\ pc["g"] = "execute"
  <2> DEFINE w == SetOutput(SetPreprocessed(v, Outs({k})), Outs({k}))
  <2>1. \/ UNCHANGED <<view, machine, tasks, pc, ret>>
        \/ /\ view' = [view EXCEPT !["g"] = w]
           /\ batch' = [batch EXCEPT !["g"] = @ \ {k}]
           /\ UNCHANGED <<machine, pc, ret, rest, taken>>
    BY <1>2, <1>5 DEF Generate, Fail, FinishTask
  <2>2. CASE UNCHANGED <<view, machine, tasks, pc, ret>>
    <3>1. Quiet
      BY <1>0, <2>2 DEF machine, tasks, Quiet
    <3> QED
      BY <3>1, QuietOnward
  <2>3. CASE /\ view' = [view EXCEPT !["g"] = w]
             /\ batch' = [batch EXCEPT !["g"] = @ \ {k}]
             /\ UNCHANGED <<machine, pc, ret, rest, taken>>
    <3>1. pre["g"] \ {k} = pre["g"]
      BY <1>1, <1>5 DEF Sound, Works, Executable
    <3>2. Writes("g", w, pre["g"] \ {k}, stack["g"], taken["g"],
                 batch["g"] \ {k}, rest["g"], "execute")
      BY <1>5, <2>3, <3>1, Unwritten DEF Writes, machine, Roles
    <3>3. Sound("g", calls, v, pre["g"], stack["g"], taken["g"], batch["g"], rest["g"], "execute")
      BY <1>1, <1>5, Zenon
    <3>4. ({k} \subseteq pre["g"] /\ "execute" = "marking") \/ ({k} \subseteq batch["g"] /\ "execute" = "execute")
      OBVIOUS
    <3>5. Sound("g", calls, w, pre["g"] \ {k}, stack["g"], taken["g"],
                batch["g"] \ {k}, rest["g"], "execute")
      BY <3>3, <3>4, ExecutedSound DEF Roles
    <3>6. w = SetOutput(v, Outs({k}))
      BY <1>1, GeneratedAtOnce DEF Roles
    <3>7. Goal("g", w, taken["g"], batch["g"] \ {k}, rest["g"], "execute") = Target("g")
      <4>1. {k} \in SUBSET (1 .. calls) /\ IsReady(v, k) /\ Out(k) \notin v.executed
        BY <1>1, <1>5 DEF Sound, Works, Places, Executable
      <4> QED
        BY <1>1, <1>5, <3>6, <4>1, GoalSame DEF Roles
    <3> QED
      BY <1>0, <1>5, <3>2, <3>5, <3>7, OneOnward DEF Roles
  <2> QED
    BY <2>1, <2>2, <2>3
<1> QED
  BY <1>3, <1>4, <1>5 DEF Generate

\* receive_garbled_circuit, in preprocess, and evaluate.
LEMMA EvaluateParty ==
  ASSUME PartiesInv, NEW k \in batch["e"], ReceiveGarbledCircuit(k) \/ Evaluate(k)
  PROVE  Onward
<1> DEFINE v == view["e"]
<1>1. Sound("e", calls, v, pre["e"], stack["e"], taken["e"], batch["e"], rest["e"], pc["e"])
  BY Unwritten, Zenon DEF PartyInv, Roles
<1>2. k \in Nat /\ OutputSlice(k) = Outs({k})
  <2>1. batch["e"] \in SUBSET Nat
    BY <1>1 DEF Sound
  <2> QED
    BY <2>1, OutFacts DEF Outs
<1>0. net' = net
  BY DEF ReceiveGarbledCircuit, Evaluate, Fail
<1>3. CASE ReceiveGarbledCircuit(k)
  <2>1. /\ Writes("e", v, pre["e"], stack["e"], taken["e"], batch["e"] \ {k}, rest["e"], "garble")
        /\ pc["e"] = "garble"
    BY <1>3, Unwritten DEF ReceiveGarbledCircuit, FinishTask, Writes, machine, Roles
  <2>4. Goal("e", v, taken["e"], batch["e"] \ {k}, rest["e"], "garble") = Target("e")
    BY <2>1 DEF Goal, Target
  <2>2. Sound("e", calls, v, pre["e"], stack["e"], taken["e"], batch["e"], rest["e"], "garble")
    BY <1>1, <2>1, Zenon
  <2>3. Sound("e", calls, v, pre["e"], stack["e"], taken["e"], batch["e"] \ {k}, rest["e"], "garble")
    BY <2>2, GarbledSound DEF Roles
  <2> QED
    BY <1>0, <2>1, <2>3, <2>4, OneOnward DEF Roles
<1>4. CASE Evaluate(k)
  <2> DEFINE w == SetOutput(v, Outs({k}))
  <2>1. /\ pc["e"] = "execute"
        /\ \/ UNCHANGED <<view, machine, tasks, pc, ret>>
           \/ /\ view' = [view EXCEPT !["e"] = w]
              /\ batch' = [batch EXCEPT !["e"] = @ \ {k}]
              /\ UNCHANGED <<machine, pc, ret, rest, taken>>
    BY <1>2, <1>4 DEF Evaluate, Fail, FinishTask
  <2>2. CASE UNCHANGED <<view, machine, tasks, pc, ret>>
    <3>1. Quiet
      BY <1>0, <2>2 DEF machine, tasks, Quiet
    <3> QED
      BY <3>1, QuietOnward
  <2>3. CASE /\ view' = [view EXCEPT !["e"] = w]
             /\ batch' = [batch EXCEPT !["e"] = @ \ {k}]
             /\ UNCHANGED <<machine, pc, ret, rest, taken>>
    <3>1. pre["e"] \ {k} = pre["e"]
      BY <1>1, <2>1 DEF Sound, Works, Executable
    <3>2. Writes("e", w, pre["e"] \ {k}, stack["e"], taken["e"],
                 batch["e"] \ {k}, rest["e"], "execute")
      BY <2>1, <2>3, <3>1, Unwritten DEF Writes, machine, Roles
    <3>3. Sound("e", calls, v, pre["e"], stack["e"], taken["e"], batch["e"], rest["e"], "execute")
      BY <1>1, <2>1, Zenon
    <3>4. ({k} \subseteq pre["e"] /\ "execute" = "marking") \/ ({k} \subseteq batch["e"] /\ "execute" = "execute")
      OBVIOUS
    <3>5. Sound("e", calls, w, pre["e"] \ {k}, stack["e"], taken["e"],
                batch["e"] \ {k}, rest["e"], "execute")
      BY <3>3, <3>4, ExecutedSound DEF Roles
    <3>6. Goal("e", w, taken["e"], batch["e"] \ {k}, rest["e"], "execute") = Target("e")
      <4>1. {k} \in SUBSET (1 .. calls) /\ IsReady(v, k) /\ Out(k) \notin v.executed
        BY <1>1, <2>1 DEF Sound, Works, Places, Executable
      <4> QED
        BY <1>1, <2>1, <4>1, GoalSame DEF Roles
    <3> QED
      BY <1>0, <2>1, <3>2, <3>5, <3>6, OneOnward DEF Roles
  <2> QED
    BY <2>1, <2>2, <2>3
<1> QED
  BY <1>3, <1>4
-----------------------------------------------------------------------------
\* The two views of the same memory stay so, whichever operation both
\* undergo.
LEMMA TwinSwap ==
  ASSUME NEW v, NEW w, Twin(v, w) PROVE Twin(w, v) /\ (WantsFlush(v) <=> WantsFlush(w))
BY DEF Twin, WantsFlush

\* See TwinSwap: complete_flush.
LEMMA TwinComplete ==
  ASSUME NEW v \in ViewType, NEW w \in ViewType, Twin(v, w)
  PROVE  Twin(CompleteFlush(v), CompleteFlush(w))
<1> DEFINE x == CompleteFlush(v)
           y == CompleteFlush(w)
<1>1. /\ x \in ViewType /\ SameMemory(v, x) /\ x.committed = Committing(v)
      /\ x.executed = v.executed /\ x.preprocessed = v.preprocessed
      /\ x.informed = v.informed \cup v.flush.info /\ x.decoded = v.decoded \cup v.flush.decode
      /\ x.decode = v.decode
      /\ x.flush.macs = {} /\ x.flush.ot = {} /\ x.flush.info = {}
      /\ x.flush.decode = (v.flush.ot \cap v.decode)
                            \cup ((v.flush.info \cap v.executed) \ (v.decoded \cup v.flush.decode))
  BY CompleteFields
<1>2. /\ y \in ViewType /\ SameMemory(w, y) /\ y.committed = Committing(w)
      /\ y.executed = w.executed /\ y.preprocessed = w.preprocessed
      /\ y.informed = w.informed \cup w.flush.info /\ y.decoded = w.decoded \cup w.flush.decode
      /\ y.decode = w.decode
      /\ y.flush.macs = {} /\ y.flush.ot = {} /\ y.flush.info = {}
      /\ y.flush.decode = (w.flush.ot \cap w.decode)
                            \cup ((w.flush.info \cap w.executed) \ (w.decoded \cup w.flush.decode))
  BY CompleteFields
<1> HIDE DEF x, y
<1>3. Committing(v) = Committing(w)
  BY DEF Twin, Committing
<1>4. x.flush = y.flush
  <2>1. x.flush.decode = y.flush.decode
    BY <1>1, <1>2 DEF Twin
  <2>2. x.flush \in FlushType /\ y.flush \in FlushType
    BY <1>1, <1>2 DEF ViewType
  <2>3. x.flush.macs = y.flush.macs /\ x.flush.ot = y.flush.ot /\ x.flush.info = y.flush.info
    BY <1>1, <1>2
  <2> QED
    BY <2>1, <2>2, <2>3, FlushEqual
<1>5. Twin(x, y)
  BY <1>1, <1>2, <1>3, <1>4 DEF Twin, SameMemory
<1> QED
  BY <1>5 DEF x, y

\* See TwinSwap: set_output.
LEMMA TwinOutput ==
  ASSUME NEW v \in ViewType, NEW w \in ViewType, Twin(v, w), NEW S \in Addr
  PROVE  Twin(SetOutput(v, S), SetOutput(w, S))
<1> DEFINE x == SetOutput(v, S)
           y == SetOutput(w, S)
<1>1. /\ x \in ViewType /\ SameMemory(v, x) /\ x.committed = v.committed
      /\ x.executed = v.executed \cup S /\ x.preprocessed = v.preprocessed \cup S
      /\ x.informed = v.informed /\ x.decoded = v.decoded /\ x.decode = v.decode
      /\ x.flush.macs = v.flush.macs /\ x.flush.ot = v.flush.ot
      /\ x.flush.info = v.flush.info \cup ((S \cap v.decode) \ v.informed)
      /\ x.flush.decode = v.flush.decode \cup ((S \cap v.informed) \ v.decoded)
  BY OutputFields
<1>2. /\ y \in ViewType /\ SameMemory(w, y) /\ y.committed = w.committed
      /\ y.executed = w.executed \cup S /\ y.preprocessed = w.preprocessed \cup S
      /\ y.informed = w.informed /\ y.decoded = w.decoded /\ y.decode = w.decode
      /\ y.flush.macs = w.flush.macs /\ y.flush.ot = w.flush.ot
      /\ y.flush.info = w.flush.info \cup ((S \cap w.decode) \ w.informed)
      /\ y.flush.decode = w.flush.decode \cup ((S \cap w.informed) \ w.decoded)
  BY OutputFields
<1> HIDE DEF x, y
<1>3. x.flush = y.flush
  <2>1. x.flush.macs = y.flush.macs /\ x.flush.ot = y.flush.ot
    BY <1>1, <1>2 DEF Twin
  <2>2. x.flush.info = y.flush.info /\ x.flush.decode = y.flush.decode
    BY <1>1, <1>2 DEF Twin
  <2> QED
    BY <1>1, <1>2, <2>1, <2>2, FlushEqual DEF ViewType
<1>4. Twin(x, y)
  BY <1>1, <1>2, <1>3 DEF Twin, SameMemory
<1> QED
  BY <1>4 DEF x, y

\* See TwinSwap: set_preprocessed.
LEMMA TwinPreprocessed ==
  ASSUME NEW v \in ViewType, NEW w \in ViewType, Twin(v, w), NEW S \in Addr
  PROVE  Twin(SetPreprocessed(v, S), SetPreprocessed(w, S))
<1> DEFINE x == SetPreprocessed(v, S)
           y == SetPreprocessed(w, S)
<1>1. /\ x \in ViewType /\ SameMemory(v, x)
      /\ x.committed = v.committed /\ x.executed = v.executed
      /\ x.preprocessed = v.preprocessed \cup S
      /\ x.informed = v.informed /\ x.decoded = v.decoded /\ x.decode = v.decode
      /\ x.flush.macs = v.flush.macs /\ x.flush.ot = v.flush.ot
      /\ x.flush.info = v.flush.info \cup ((S \cap v.decode) \ v.decoded)
      /\ x.flush.decode = v.flush.decode
  BY PreprocessedFields
<1>2. /\ y \in ViewType /\ SameMemory(w, y)
      /\ y.committed = w.committed /\ y.executed = w.executed
      /\ y.preprocessed = w.preprocessed \cup S
      /\ y.informed = w.informed /\ y.decoded = w.decoded /\ y.decode = w.decode
      /\ y.flush.macs = w.flush.macs /\ y.flush.ot = w.flush.ot
      /\ y.flush.info = w.flush.info \cup ((S \cap w.decode) \ w.decoded)
      /\ y.flush.decode = w.flush.decode
  BY PreprocessedFields
<1> HIDE DEF x, y
<1>3. x.flush = y.flush
  <2>1. x.flush.macs = y.flush.macs /\ x.flush.ot = y.flush.ot
    BY <1>1, <1>2 DEF Twin
  <2>2. x.flush.info = y.flush.info /\ x.flush.decode = y.flush.decode
    BY <1>1, <1>2 DEF Twin
  <2> QED
    BY <1>1, <1>2, <2>1, <2>2, FlushEqual DEF ViewType
<1>4. Twin(x, y)
  BY <1>1, <1>2, <1>3 DEF Twin, SameMemory
<1> QED
  BY <1>4 DEF x, y

\* See TwinSwap: execute_all, to its end.
LEMMA TwinLoop ==
  ASSUME NEW v \in ViewType, NEW w \in ViewType, Twin(v, w), v.executed \subseteq v.outputs, NEW where
  PROVE  Twin(Finish(v), Finish(w)) /\ Twin(Loop(v, where), Loop(w, where))
<1>1. Reach(v) = Reach(w)
  <2>1. \A Z : Closed(v, Z) <=> Closed(w, Z)
    BY DEF Closed, Twin
  <2> QED
    BY <2>1 DEF Reach, Twin
<1>2. Reach(v) \ v.executed \in Addr
  BY ReachFacts DEF ViewType, Addr
<1>3. v.executed = w.executed
  BY DEF Twin
<1>4. Twin(Finish(v), Finish(w))
  BY <1>1, <1>2, <1>3, TwinOutput DEF Finish
<1>5. WantsFlush(v) <=> WantsFlush(w)
  BY TwinSwap
<1> QED
  BY <1>4, <1>5 DEF Loop

\* See TwinSwap: alloc_input and alloc_output.
LEMMA TwinAlloc ==
  ASSUME NEW v \in ViewType, NEW w \in ViewType, Twin(v, w), NEW n \in Nat
  PROVE  Twin(AllocInput(v, n), AllocInput(w, n)) /\ Twin(AllocOutput(v, n), AllocOutput(w, n))
<1>0. ASSUME NEW u \in ViewType, NEW z \in {AllocInput(u, n), AllocOutput(u, n)},
             NEW S, S = Slice(u.len, n)
      PROVE  /\ SameProgress(u, z) /\ z.flush = u.flush /\ z.len = u.len + n
             /\ z.vis.public = u.vis.public /\ z.vis.private = u.vis.private
             /\ z.vis.blind = u.vis.blind
             /\ AllocInput(u, n).inputs = u.inputs \cup S /\ AllocInput(u, n).outputs = u.outputs
             /\ AllocOutput(u, n).inputs = u.inputs /\ AllocOutput(u, n).outputs = u.outputs \cup S
  BY <1>0, AllocFields
<1>1. ASSUME NEW x, NEW y,
             \/ x = AllocInput(v, n) /\ y = AllocInput(w, n)
             \/ x = AllocOutput(v, n) /\ y = AllocOutput(w, n)
      PROVE  Twin(x, y)
  <2> DEFINE S == Slice(v.len, n)
  <2>1. S = Slice(v.len, n) /\ S = Slice(w.len, n)
    BY DEF Twin
  <2> HIDE DEF S
  <2>2. /\ x \in {AllocInput(v, n), AllocOutput(v, n)}
        /\ y \in {AllocInput(w, n), AllocOutput(w, n)}
    BY <1>1
  <2>3. /\ SameProgress(v, x) /\ x.flush = v.flush /\ x.len = v.len + n
        /\ x.vis.public = v.vis.public /\ x.vis.private = v.vis.private /\ x.vis.blind = v.vis.blind
        /\ AllocInput(v, n).inputs = v.inputs \cup S /\ AllocInput(v, n).outputs = v.outputs
        /\ AllocOutput(v, n).inputs = v.inputs /\ AllocOutput(v, n).outputs = v.outputs \cup S
    BY <2>1, <2>2, <1>0
  <2>4. /\ SameProgress(w, y) /\ y.flush = w.flush /\ y.len = w.len + n
        /\ y.vis.public = w.vis.public /\ y.vis.private = w.vis.private /\ y.vis.blind = w.vis.blind
        /\ AllocInput(w, n).inputs = w.inputs \cup S /\ AllocInput(w, n).outputs = w.outputs
        /\ AllocOutput(w, n).inputs = w.inputs /\ AllocOutput(w, n).outputs = w.outputs \cup S
    BY <2>1, <2>2, <1>0
  <2>5. x.inputs = y.inputs /\ x.outputs = y.outputs
    BY <1>1, <2>3, <2>4 DEF Twin
  <2> QED
    BY <2>3, <2>4, <2>5 DEF Twin, SameProgress
<1> QED
  BY <1>1

\* See TwinSwap: mark_raw, one party's private input is blind to the other.
LEMMA TwinMark ==
  ASSUME NEW v \in ViewType, NEW w \in ViewType, Twin(v, w), NEW S \in Addr
  PROVE  /\ Twin(MarkPublic(v, S), MarkPublic(w, S))
         /\ Twin(MarkPrivate(v, S), MarkBlind(w, S)) /\ Twin(MarkBlind(v, S), MarkPrivate(w, S))
<1>1. ASSUME NEW u \in ViewType
      PROVE  /\ \A x \in {MarkPublic(u, S), MarkPrivate(u, S), MarkBlind(u, S)} :
                  /\ SameProgress(u, x) /\ x.flush = u.flush
                  /\ x.len = u.len /\ x.inputs = u.inputs /\ x.outputs = u.outputs
             /\ MarkPublic(u, S).vis = SetPublic(u.vis, S)
             /\ MarkPrivate(u, S).vis = SetPrivate(u.vis, S)
             /\ MarkBlind(u, S).vis = SetBlind(u.vis, S)
  BY MarkFields
<1>2. ASSUME NEW x \in {MarkPublic(v, S), MarkPrivate(v, S), MarkBlind(v, S)},
             NEW y \in {MarkPublic(w, S), MarkPrivate(w, S), MarkBlind(w, S)},
             y.vis.public = x.vis.public, y.vis.private = x.vis.blind, y.vis.blind = x.vis.private
      PROVE  Twin(x, y)
  <2>1. /\ SameProgress(v, x) /\ x.flush = v.flush
        /\ x.len = v.len /\ x.inputs = v.inputs /\ x.outputs = v.outputs
    BY <1>1
  <2>2. /\ SameProgress(w, y) /\ y.flush = w.flush
        /\ y.len = w.len /\ y.inputs = w.inputs /\ y.outputs = w.outputs
    BY <1>1
  <2> QED
    BY <1>2, <2>1, <2>2 DEF Twin, SameProgress
<1>3. \A u \in ViewType :
        /\ MarkPublic(u, S).vis = SetPublic(u.vis, S)
        /\ MarkPrivate(u, S).vis = SetPrivate(u.vis, S)
        /\ MarkBlind(u, S).vis = SetBlind(u.vis, S)
  BY <1>1
<1>4. w.vis.public = v.vis.public /\ w.vis.private = v.vis.blind /\ w.vis.blind = v.vis.private
  BY DEF Twin
<1>5. Twin(MarkPublic(v, S), MarkPublic(w, S))
  <2>1. /\ SetPublic(w.vis, S).public = SetPublic(v.vis, S).public
        /\ SetPublic(w.vis, S).private = SetPublic(v.vis, S).blind
        /\ SetPublic(w.vis, S).blind = SetPublic(v.vis, S).private
    BY <1>4 DEF SetPublic
  <2> QED
    BY <1>2, <1>3, <2>1
<1>6. Twin(MarkPrivate(v, S), MarkBlind(w, S))
  <2>1. /\ SetBlind(w.vis, S).public = SetPrivate(v.vis, S).public
        /\ SetBlind(w.vis, S).private = SetPrivate(v.vis, S).blind
        /\ SetBlind(w.vis, S).blind = SetPrivate(v.vis, S).private
    BY <1>4 DEF SetPrivate, SetBlind
  <2> QED
    BY <1>2, <1>3, <2>1
<1>7. Twin(MarkBlind(v, S), MarkPrivate(w, S))
  <2>1. /\ SetPrivate(w.vis, S).public = SetBlind(v.vis, S).public
        /\ SetPrivate(w.vis, S).private = SetBlind(v.vis, S).blind
        /\ SetPrivate(w.vis, S).blind = SetBlind(v.vis, S).private
    BY <1>4 DEF SetPrivate, SetBlind
  <2> QED
    BY <1>2, <1>3, <2>1
<1> QED
  BY <1>5, <1>6, <1>7

\* See TwinSwap: commit, by the garbler and by the evaluator.
LEMMA TwinCommit ==
  ASSUME NEW v \in ViewType, NEW w \in ViewType, Twin(v, w), NEW S \in Addr
  PROVE  Twin(Commit(v, "g", S), Commit(w, "e", S))
<1> DEFINE x == Commit(v, "g", S)
           y == Commit(w, "e", S)
<1>1. /\ x \in ViewType /\ SameMemory(v, x) /\ SameProgress(v, x)
      /\ x.flush.macs = v.flush.macs \cup (S \cap (v.vis.public \cup Garblers(v, "g")))
      /\ x.flush.ot = v.flush.ot \cup (S \cap Evaluators(v, "g"))
      /\ x.flush.info = v.flush.info /\ x.flush.decode = v.flush.decode
  BY CommitFields DEF Roles
<1>2. /\ y \in ViewType /\ SameMemory(w, y) /\ SameProgress(w, y)
      /\ y.flush.macs = w.flush.macs \cup (S \cap (w.vis.public \cup Garblers(w, "e")))
      /\ y.flush.ot = w.flush.ot \cup (S \cap Evaluators(w, "e"))
      /\ y.flush.info = w.flush.info /\ y.flush.decode = w.flush.decode
  BY CommitFields DEF Roles
<1> HIDE DEF x, y
<1>3. Garblers(v, "g") = Garblers(w, "e") /\ Evaluators(v, "g") = Evaluators(w, "e")
  BY DEF Garblers, Evaluators, Twin
<1>4. x.flush = y.flush
  <2>1. /\ x.flush.macs = y.flush.macs /\ x.flush.ot = y.flush.ot
        /\ x.flush.info = y.flush.info /\ x.flush.decode = y.flush.decode
    BY <1>1, <1>2, <1>3 DEF Twin
  <2> QED
    BY <1>1, <1>2, <2>1, FlushEqual DEF ViewType
<1>5. Twin(x, y)
  BY <1>1, <1>2, <1>4 DEF Twin, SameMemory, SameProgress
<1> QED
  BY <1>5 DEF x, y

\* See TwinSwap: decode, by the garbler and by the evaluator.
LEMMA TwinDecode ==
  ASSUME NEW v, NEW w, Good(v, "g"), Good(w, "e"), Twin(v, w), NEW S \in Addr,
         S \subseteq Nat,
         S \subseteq v.outputs \/ VisIsSet(v.vis, v.len, S),
         S \subseteq w.outputs \/ VisIsSet(w.vis, w.len, S)
  PROVE  Twin(Decode(v, "g", S), Decode(w, "e", S))
<1>1. CASE S \subseteq v.decoded
  BY <1>1 DEF Decode, Twin
<1>2. CASE ~(S \subseteq v.decoded)
  <2> DEFINE x == Decode(v, "g", S)
             y == Decode(w, "e", S)
  <2>0. ~(S \subseteq w.decoded)
    BY <1>2 DEF Twin
  <2>1. /\ x \in ViewType /\ SameMemory(v, x)
        /\ x.committed = v.committed /\ x.executed = v.executed
        /\ x.preprocessed = v.preprocessed
        /\ x.informed = v.informed /\ x.decoded = v.decoded
        /\ x.decode = v.decode \cup (S \ v.decoded)
        /\ x.flush.macs = v.flush.macs /\ x.flush.ot = v.flush.ot
        /\ x.flush.info = v.flush.info \cup
             ((S \cap (Garblers(v, "g") \cup (v.outputs \cap v.preprocessed))) \ v.informed)
        /\ x.flush.decode = v.flush.decode \cup (S \cap Evaluators(v, "g") \cap v.committed)
                              \cup (S \cap v.outputs \cap v.executed)
    BY <1>2, DecodeFields DEF Good, Roles
  <2>2. /\ y \in ViewType /\ SameMemory(w, y)
        /\ y.committed = w.committed /\ y.executed = w.executed
        /\ y.preprocessed = w.preprocessed
        /\ y.informed = w.informed /\ y.decoded = w.decoded
        /\ y.decode = w.decode \cup (S \ w.decoded)
        /\ y.flush.macs = w.flush.macs /\ y.flush.ot = w.flush.ot
        /\ y.flush.info = w.flush.info \cup
             ((S \cap (Garblers(w, "e") \cup (w.outputs \cap w.preprocessed))) \ w.informed)
        /\ y.flush.decode = w.flush.decode \cup (S \cap Evaluators(w, "e") \cap w.committed)
                              \cup (S \cap w.outputs \cap w.executed)
    <3>1. w \in ViewType /\ VisShape(w) /\ "e" \in Roles
      BY DEF Good, Roles
    <3> QED
      BY <2>0, <3>1, DecodeFields
  <2> HIDE DEF x, y
  <2>3. Garblers(v, "g") = Garblers(w, "e") /\ Evaluators(v, "g") = Evaluators(w, "e")
    BY DEF Garblers, Evaluators, Twin
  <2>4. x.flush = y.flush
    <3>1. x.flush.macs = y.flush.macs /\ x.flush.ot = y.flush.ot
      BY <2>1, <2>2 DEF Twin
    <3>2. x.flush.info = y.flush.info /\ x.flush.decode = y.flush.decode
      BY <2>1, <2>2, <2>3 DEF Twin
    <3> QED
      BY <2>1, <2>2, <3>1, <3>2, FlushEqual DEF ViewType
  <2>5. Twin(x, y)
    <3>1. x.decode = y.decode
      BY <2>1, <2>2 DEF Twin
    <3> QED
      BY <2>1, <2>2, <2>4, <3>1 DEF Twin, SameMemory
  <2> QED
    BY <2>5 DEF x, y
<1> QED
  BY <1>1, <1>2
-----------------------------------------------------------------------------
\* A party sends its flush message.
LEMMA AgreeSend ==
  ASSUME Agree, NEW p \in Roles, NEW m, Fits(Peer(p), m, view[p].flush),
         pc[p] = "flush", pc'[p] = "await", view'[p] = view[p], ret' = ret,
         net' = [net EXCEPT ![Peer(p)] = Append(@, m)], Still(Peer(p))
  PROVE  Agree'
<1> DEFINE q == Peer(p)
<1>0. q \in Roles /\ Peer(q) = p /\ p # q
  BY PeerFacts
<1>1. /\ pc'[q] = pc[q] /\ view'[q] = view[q] /\ Target(q)' = Target(q) /\ After(q)' = After(q)
  BY <1>0, StillHeading DEF Still
<1>2. Target(p) = view[p] /\ Target(p)' = view'[p]
  BY DEF Target, Goal
<1>3. net'[q] = Append(net[q], m) /\ net'[p] = net[p] /\ net' = [r \in Roles |-> net'[r]]
  BY <1>0 DEF Agree
<1>4. CASE Level
  <2>1. /\ Twin(Target(p), Target(q)) /\ Twin(Target(q), Target(p))
        /\ InFlight(p) /\ InFlight(q)
    BY <1>4, LevelFor
  <2>2. net[q] = <<>> /\ net'[q] = <<m>>
    <3>1. net[q] = <<>>
      BY <1>0, <2>1 DEF InFlight
    <3> QED
      BY <1>3, <3>1, ShortQueues
  <2>3. InFlight(q)'
    BY <1>0, <2>2 DEF InFlight
  <2>4. InFlight(p)'
    BY <1>1, <1>3, <2>1 DEF InFlight
  <2>5. Twin(Target(p), Target(q))' /\ Twin(Target(q), Target(p))'
    <3>1. Twin(Target(p)', Target(q)') /\ Twin(Target(q)', Target(p)')
      BY <1>1, <1>2, <2>1
    <3> QED
      BY <3>1
  <2>6. Level'
    <3>1. CASE p = "g"
      BY <2>3, <2>4, <2>5, <3>1, PeerFacts DEF Level
    <3>2. CASE p = "e"
      BY <2>3, <2>4, <2>5, <3>2, PeerFacts DEF Level
    <3> QED
      BY <3>1, <3>2 DEF Roles
  <2> QED
    BY <1>3, <2>6 DEF Agree
<1>5. CASE Behind(q)
  <2>1. PICK m1 : Fits(q, m1, view[q].flush) /\ net[q] = <<m1>>
    BY <1>0, <1>5 DEF Behind
  <2>2. net'[q] = <<m1, m>>
    BY <1>3, <2>1, ShortQueues
  <2>3. Twin(After(q), Target(p))' /\ Twin(Target(p), After(q))'
    <3>1. Twin(After(q)', Target(p)') /\ Twin(Target(p)', After(q)')
      BY <1>0, <1>1, <1>2, <1>5 DEF Behind
    <3> QED
      BY <3>1
  <2>4. pc'[q] = "await" /\ net'[p] = <<>>
    BY <1>0, <1>1, <1>3, <1>5 DEF Behind
  <2>5. Fits(q, m1, view'[q].flush) /\ Fits(q, m, view'[p].flush)
    BY <1>1, <2>1
  <2>6. Behind(q)'
    BY <1>0, <2>2, <2>3, <2>4, <2>5 DEF Behind
  <2> QED
    BY <1>0, <1>3, <2>6 DEF Agree
<1> QED
  BY <1>4, <1>5, AgreeCases DEF Behind

\* The message a party receives fits its own flush view.
LEMMA ReceivedFits ==
  ASSUME Agree, NEW p \in Roles, pc[p] = "await", net[p] # <<>>
  PROVE  Fits(p, Head(net[p]), view[p].flush)
<1> DEFINE q == Peer(p)
<1>0. q \in Roles /\ Peer(q) = p /\ p # q
  BY PeerFacts
<1>1. CASE Level
  <2>1. /\ Twin(Target(p), Target(q)) /\ InFlight(p)
    BY <1>1, LevelFor
  <2>2. PICK m : net[p] = <<m>> /\ Fits(p, m, view[q].flush)
    BY <2>1 DEF InFlight
  <2>3. pc[q] = "await"
    BY <2>1 DEF InFlight
  <2>4. Target(p) = view[p] /\ Target(q) = view[q]
    BY <2>3 DEF Target, Goal
  <2>5. view[p].flush = view[q].flush
    BY <2>1, <2>4 DEF Twin
  <2> QED
    BY <2>2, <2>5, ShortQueues
<1>2. CASE Behind(p)
  BY <1>2, ShortQueues DEF Behind
<1> QED
  BY <1>0, <1>1, <1>2, AgreeCases DEF Behind

\* A party receives a message and completes its flush.
LEMMA AgreeReceive ==
  ASSUME PartiesInv, Agree, NEW p \in Roles, pc[p] = "await", net[p] # <<>>,
         view'[p] = CompleteFlush(view[p]), EndFlush(p, CompleteFlush(view[p])), ret' = ret,
         net' = [net EXCEPT ![p] = Tail(@)], Still(Peer(p))
  PROVE  Agree'
<1> DEFINE q == Peer(p)
           w == CompleteFlush(view[p])
<1>0. q \in Roles /\ Peer(q) = p /\ p # q
  BY PeerFacts
<1>1. /\ pc'[q] = pc[q] /\ view'[q] = view[q] /\ Target(q)' = Target(q) /\ After(q)' = After(q)
  BY <1>0, StillHeading DEF Still
<1>2. pc'[p] = (IF WantsFlush(w) THEN "flush" ELSE ret[p]) /\ ret[p] \in {"idle", "loop"}
  BY Unwritten DEF EndFlush, Return, PartiesInv, Tables
<1>3. Target(p)' = After(p)
  <2>1. Target(p)' = Goal(p, w, taken'[p], batch'[p], rest'[p], pc'[p])
    BY DEF Target
  <2>2. After(p) = Loop(w, ret[p])
    BY DEF After
  <2> HIDE DEF w
  <2>3. CASE WantsFlush(w)
    BY <1>2, <2>1, <2>2, <2>3 DEF Goal, Loop
  <2>4. CASE ~WantsFlush(w)
    BY <1>2, <2>1, <2>2, <2>4 DEF Goal, Loop
  <2> QED
    BY <2>3, <2>4
<1>4. net'[p] = Tail(net[p]) /\ net'[q] = net[q] /\ net' = [r \in Roles |-> net'[r]]
  BY <1>0 DEF Agree
<1>5. pc'[p] # "await"
  BY <1>2
<1>6. CASE Level
  <2>1. /\ Twin(Target(p), Target(q)) /\ Twin(Target(q), Target(p))
        /\ InFlight(p) /\ InFlight(q)
    BY <1>6, LevelFor
  <2>2. pc[q] = "await" /\ net'[p] = <<>>
    BY <1>4, <2>1, ShortQueues DEF InFlight
  <2>3. Target(p) = view[p] /\ Target(q) = view[q]
    BY <2>2 DEF Target, Goal
  <2>4. PICK m : net[q] = <<m>> /\ Fits(q, m, view[p].flush)
    BY <1>0, <2>1 DEF InFlight
  <2>5. view[p].flush = view[q].flush
    BY <2>1, <2>3 DEF Twin
  <2>6. Twin(After(p), After(q)) /\ Twin(After(q), After(p))
    <3>1. /\ view[p] \in ViewType /\ view[q] \in ViewType
          /\ Good(w, p) /\ Good(CompleteFlush(view[q]), q)
      BY <1>0, CompleteGood DEF PartiesInv, PartyInv, Sound
    <3>2. /\ w \in ViewType /\ CompleteFlush(view[q]) \in ViewType
          /\ w.executed \subseteq w.outputs
          /\ CompleteFlush(view[q]).executed \subseteq CompleteFlush(view[q]).outputs
      BY <3>1 DEF Good, UseShape
    <3>3. Twin(w, CompleteFlush(view[q])) /\ Twin(CompleteFlush(view[q]), w)
      BY <2>1, <2>3, <3>1, TwinComplete
    <3>4. ret[p] = ret[q]
      BY <1>0 DEF Agree, Roles, Peer
    <3> QED
      BY <3>2, <3>3, <3>4, TwinLoop DEF After
  <2>7. Twin(After(q), Target(p))' /\ Twin(Target(p), After(q))'
    <3>1. Twin(After(q)', Target(p)') /\ Twin(Target(p)', After(q)')
      BY <1>1, <1>3, <2>6
    <3> QED
      BY <3>1
  <2>8. Fits(q, m, view'[q].flush) /\ net'[q] = <<m>> /\ pc'[q] = "await"
    BY <1>1, <1>4, <2>2, <2>4, <2>5
  <2>9. Behind(q)'
    BY <1>0, <1>5, <2>2, <2>7, <2>8 DEF Behind
  <2> QED
    BY <1>0, <1>4, <2>9 DEF Agree
<1>7. CASE Behind(p)
  <2>1. PICK m : IF pc[q] = "await" THEN \E n : net[p] = <<m, n>> /\ Fits(p, n, view[q].flush)
                 ELSE net[p] = <<m>>
    BY <1>7 DEF Behind
  <2>2. InFlight(p)'
    <3>1. CASE pc[q] = "await"
      <4>1. PICK n : net[p] = <<m, n>> /\ Fits(p, n, view[q].flush)
        BY <2>1, <3>1
      <4>2. net'[p] = <<n>> /\ Fits(p, n, view'[q].flush)
        BY <1>1, <1>4, <4>1, ShortQueues
      <4> QED
        BY <1>1, <3>1, <4>2 DEF InFlight
    <3>2. CASE pc[q] # "await"
      BY <1>1, <1>4, <2>1, <3>2, ShortQueues DEF InFlight
    <3> QED
      BY <3>1, <3>2
  <2>3. InFlight(q)'
    BY <1>0, <1>4, <1>5, <1>7 DEF InFlight, Behind
  <2>4. Twin(Target(p), Target(q))' /\ Twin(Target(q), Target(p))'
    <3>1. Twin(Target(p)', Target(q)') /\ Twin(Target(q)', Target(p)')
      BY <1>1, <1>3, <1>7 DEF Behind
    <3> QED
      BY <3>1
  <2>5. Level'
    <3>1. CASE p = "g"
      BY <2>2, <2>3, <2>4, <3>1, PeerFacts DEF Level
    <3>2. CASE p = "e"
      BY <2>2, <2>3, <2>4, <3>2, PeerFacts DEF Level
    <3> QED
      BY <3>1, <3>2 DEF Roles
  <2> QED
    BY <1>4, <2>5 DEF Agree
<1> QED
  BY <1>0, <1>6, <1>7, AgreeCases DEF Behind

\* Two idle parties are level.
LEMMA AgreeIdle ==
  ASSUME Agree, \A p \in Roles : pc[p] = "idle"
  PROVE  Twin(view["g"], view["e"]) /\ Twin(view["e"], view["g"]) /\ \A p \in Roles : net[p] = <<>>
<1>1. Level
  BY DEF Agree, Behind
<1>2. Target("g") = view["g"] /\ Target("e") = view["e"]
  BY DEF Target, Goal, Roles
<1>3. \A p \in Roles : net[p] = <<>>
  BY <1>1, PeerFacts DEF Level, InFlight
<1> QED
  BY <1>1, <1>2, <1>3 DEF Level

\* Two idle parties that start the same stay level.
LEMMA AgreeTogether ==
  ASSUME Agree, \A p \in Roles : pc[p] = "idle", \A p \in Roles : pc'[p] # "await",
         net' = net, ret'["g"] = ret'["e"],
         Twin(Target("g")', Target("e")'), Twin(Target("e")', Target("g")')
  PROVE  Agree'
<1>1. Twin(Target("g"), Target("e"))' /\ Twin(Target("e"), Target("g"))'
  OBVIOUS
<1>2. \A p \in Roles : net[p] = <<>>
  BY AgreeIdle
<1>3. \A p \in Roles : InFlight(p)'
  BY <1>2, PeerFacts DEF InFlight
<1>4. Level'
  BY <1>1, <1>3 DEF Level
<1> QED
  BY <1>4 DEF Agree
-----------------------------------------------------------------------------
\* The operations of the applications, on both views alike.  What is
\* allocated is the first inputs, or all inputs and some outputs.
LEMMA AllocatedUpTo ==
  ASSUME NEW b \in 1 .. Len(Bounds), view["g"].len = Bounds[b]
  PROVE  Allocated = 1 .. b - 1
<1>1. Len(Bounds) \in Nat /\ \A i \in 1 .. Len(Bounds) : Bounds[i] \in Nat
  BY BoundsGrow
<1>2. ASSUME NEW i \in Inputs, i < b PROVE i \in Allocated
  <2>1. /\ i \in 1 .. Len(Bounds) /\ i + 1 \in 1 .. Len(Bounds)
        /\ (i + 1 < b \/ i + 1 = b)
    BY <1>1, <1>2 DEF Inputs
  <2>2. Bounds[i + 1] <= Bounds[b] /\ Bounds[i] \in Nat /\ Bounds[i + 1] \in Nat /\ Bounds[b] \in Nat
    BY <1>1, <2>1, BoundsGrow
  <2>3. \A a \in InputSlice(i) : a < Bounds[b]
    BY <2>2 DEF InputSlice, Slice
  <2> QED
    BY <2>3 DEF Allocated
<1>3. ASSUME NEW i \in Inputs, i >= b PROVE i \notin Allocated
  <2>1. i \in 1 .. Len(Bounds) /\ i + 1 \in 1 .. Len(Bounds) /\ (b < i \/ b = i)
    BY <1>1, <1>3 DEF Inputs
  <2>2. /\ Bounds[b] <= Bounds[i] /\ Bounds[i] < Bounds[i + 1]
        /\ Bounds[i] \in Nat /\ Bounds[i + 1] \in Nat /\ Bounds[b] \in Nat
    BY <1>1, <2>1, BoundsGrow
  <2>3. Bounds[i] \in InputSlice(i)
    BY <2>2 DEF InputSlice, Slice
  <2> QED
    BY <2>2, <2>3 DEF Allocated
<1>4. \A i \in Inputs : i \in Allocated <=> i < b
  BY <1>1, <1>2, <1>3 DEF Inputs
<1>5. Inputs = 1 .. Len(Bounds) - 1
  BY DEF Inputs
<1>6. Allocated \subseteq Inputs
  BY DEF Allocated
<1>7. 1 .. b - 1 \subseteq Inputs /\ \A i \in 1 .. b - 1 : i < b
  BY <1>1, <1>5
<1>8. \A i \in Inputs : i < b => i \in 1 .. b - 1
  BY <1>1, <1>5
<1> QED
  BY <1>4, <1>6, <1>7, <1>8

\* Every input is allocated once there is a call.
LEMMA CallsAfterInputs ==
  ASSUME NEW n \in Nat, n > 0, Layout(view["g"], n) PROVE Allocated = Inputs
<1>1. view["g"].len = Bounds[Len(Bounds)] + n
  BY DEF Layout
<1>2. ASSUME NEW i \in Inputs PROVE i \in Allocated
  <2>1. /\ Len(Bounds) \in Nat /\ i + 1 \in 1 .. Len(Bounds) /\ i \in 1 .. Len(Bounds)
        /\ Len(Bounds) \in 1 .. Len(Bounds) /\ (i + 1 < Len(Bounds) \/ i + 1 = Len(Bounds))
    BY BoundsGrow DEF Inputs
  <2>2. /\ Bounds[i + 1] <= Bounds[Len(Bounds)] /\ Bounds[i] \in Nat /\ Bounds[i + 1] \in Nat
        /\ Bounds[Len(Bounds)] \in Nat
    BY <2>1, BoundsGrow
  <2>3. \A a \in InputSlice(i) : a < Bounds[Len(Bounds)] + n
    BY <2>2 DEF InputSlice, Slice
  <2> QED
    BY <1>1, <2>3 DEF Allocated
<1> QED
  BY <1>2 DEF Allocated

\* alloc_raw of an input.
LEMMA InputLayout ==
  ASSUME Inv, PartiesInv, Allocated # Inputs, NEW p \in Roles
  PROVE  Layout(AllocInput(view[p], NextSize), calls) /\ NextSize \in Nat
<1>1. /\ \A q \in Roles : Layout(view[q], calls) /\ Good(view[q], q)
      /\ "g" \in Roles /\ view[p].len = view["g"].len
  BY DEF PartiesInv, PartyInv, Sound, Roles, Inv, TypeOK
<1>2. calls = 0
  BY <1>1, CallsAfterInputs DEF Layout
<1>3. PICK b \in 1 .. Len(Bounds) : view["g"].inputs = 0 .. Bounds[b] - 1 /\ view["g"].len = Bounds[b] + calls
  BY <1>1 DEF Layout
<1>4. Len(Bounds) \in Nat /\ Bounds[b] \in Nat /\ view["g"].len = Bounds[b]
  BY <1>2, <1>3, BoundsGrow
<1>5. Allocated = 1 .. b - 1
  BY <1>4, AllocatedUpTo
<1>6. b < Len(Bounds)
  BY <1>4, <1>5 DEF Inputs
<1>7. Cardinality(Allocated) + 1 = b
  <2>1. Cardinality(1 .. b - 1) = b - 1
    BY <1>4, FS_Interval
  <2> QED
    BY <1>5, <2>1
<1>8. b + 1 \in 1 .. Len(Bounds) /\ Bounds[b + 1] \in Nat /\ Bounds[b] < Bounds[b + 1]
  BY <1>4, <1>6, BoundsGrow
<1>9. NextSize = Bounds[b + 1] - Bounds[b] /\ NextSize \in Nat
  BY <1>4, <1>7, <1>8 DEF NextSize
<1>10. view[p].inputs = 0 .. Bounds[b] - 1 /\ view[p].len = Bounds[b] /\ view[p].outputs = Outs(1 .. 0)
  <2>1. PICK c \in 1 .. Len(Bounds) : view[p].inputs = 0 .. Bounds[c] - 1 /\ view[p].len = Bounds[c] + calls
    BY <1>1 DEF Layout
  <2>2. Bounds[c] \in Nat
    BY BoundsGrow
  <2>3. Bounds[c] = Bounds[b]
    BY <1>1, <1>2, <1>4, <2>1, <2>2
  <2> QED
    BY <1>1, <1>2, <1>4, <2>1, <2>3 DEF Layout
<1> DEFINE w == AllocInput(view[p], NextSize)
           S == Slice(view[p].len, NextSize)
<1>11. w.inputs = view[p].inputs \cup S /\ w.outputs = view[p].outputs /\ w.len = view[p].len + NextSize
  <2>1. view[p] \in ViewType /\ NextSize \in Nat
    BY <1>1, <1>9 DEF Good
  <2> QED
    BY <2>1, AllocLists
<1>12. /\ (0 .. Bounds[b] - 1) \cup S = 0 .. Bounds[b + 1] - 1
       /\ w.len = Bounds[b + 1] + calls
  BY <1>2, <1>4, <1>8, <1>9, <1>10, <1>11 DEF Slice
<1> HIDE DEF w, S
<1>13. Layout(w, calls)
  BY <1>1, <1>2, <1>8, <1>10, <1>11, <1>12 DEF Layout
<1> QED
  BY <1>9, <1>13 DEF w

\* call_raw allocates its output.
LEMMA OutputLayout ==
  ASSUME Inv, PartiesInv, Allocated = Inputs, calls < Len(CallInputs), NEW p \in Roles
  PROVE  Layout(AllocOutput(view[p], 1), calls + 1)
<1>1. /\ \A q \in Roles : Layout(view[q], calls) /\ Good(view[q], q)
      /\ "g" \in Roles /\ view[p].len = view["g"].len
  BY DEF PartiesInv, PartyInv, Sound, Roles, Inv, TypeOK
<1>2. calls \in Nat /\ Len(Bounds) \in Nat /\ Len(Bounds) > 0 /\ NumInputs \in Nat /\ Len(CallInputs) \in Nat
  BY <1>1, BoundsGrow, ConstantsOK DEF Layout
<1>3. PICK b \in 1 .. Len(Bounds) :
        view["g"].len = Bounds[b] + calls /\ (calls > 0 => b = Len(Bounds))
  BY <1>1 DEF Layout
<1>4. b = Len(Bounds)
  <2>1. CASE calls = 0
    <3>1. view["g"].len = Bounds[b]
      BY <1>3, <2>1, BoundsGrow
    <3>2. 1 .. b - 1 = 1 .. Len(Bounds) - 1
      BY <3>1, AllocatedUpTo DEF Inputs
    <3>3. b < Len(Bounds) => b \in 1 .. Len(Bounds) - 1 /\ b \notin 1 .. b - 1
      BY <1>2
    <3> QED
      BY <1>2, <3>2, <3>3
  <2> QED
    BY <1>2, <1>3, <2>1
<1>5. view[p].len = NumInputs + calls
  BY <1>1, <1>3, <1>4 DEF NumInputs
<1>6. view[p].inputs = 0 .. NumInputs - 1 /\ view[p].outputs = Outs(1 .. calls)
  <2>1. PICK c \in 1 .. Len(Bounds) :
          /\ view[p].inputs = 0 .. Bounds[c] - 1 /\ view[p].len = Bounds[c] + calls
          /\ (calls > 0 => c = Len(Bounds))
    BY <1>1 DEF Layout
  <2>2. Bounds[c] \in Nat
    BY BoundsGrow
  <2>3. Bounds[c] = NumInputs
    BY <1>2, <1>5, <2>1, <2>2
  <2> QED
    BY <1>1, <2>1, <2>3 DEF Layout
<1> DEFINE w == AllocOutput(view[p], 1)
           S == Slice(view[p].len, 1)
<1>7. w.inputs = view[p].inputs /\ w.outputs = view[p].outputs \cup S /\ w.len = view[p].len + 1
  <2>1. view[p] \in ViewType /\ 1 \in Nat
    BY <1>1 DEF Good
  <2> QED
    BY <2>1, AllocLists
<1>8. S = {Out(calls + 1)}
  BY <1>2, <1>5 DEF Slice, Out
<1>9. Outs(1 .. calls) \cup {Out(calls + 1)} = Outs(1 .. calls + 1)
  <2>1. 1 .. calls + 1 = (1 .. calls) \cup {calls + 1}
    BY <1>2
  <2> QED
    BY <2>1 DEF Outs
<1>10. w.len = NumInputs + (calls + 1) /\ Len(Bounds) \in 1 .. Len(Bounds)
  BY <1>2, <1>5, <1>7
<1> HIDE DEF w, S
<1>11. Layout(w, calls + 1)
  <2>1. w.inputs = 0 .. Bounds[Len(Bounds)] - 1 /\ w.len = Bounds[Len(Bounds)] + (calls + 1)
    BY <1>6, <1>7, <1>10 DEF NumInputs
  <2>2. w.outputs = Outs(1 .. calls + 1)
    BY <1>6, <1>7, <1>8, <1>9
  <2>3. calls + 1 \in Nat /\ calls + 1 <= Len(CallInputs)
    BY <1>2
  <2> QED
    BY <1>10, <2>1, <2>2, <2>3 DEF Layout
<1> QED
  BY <1>11 DEF w
-----------------------------------------------------------------------------
\* A memory operation leaves the calls where they are.
LEMMA MemoryParties ==
  ASSUME PartiesInv, Idle, view' = [p \in Roles |-> view'[p]],
         \A p \in Roles : /\ Good(view'[p], p) /\ Layout(view'[p], calls)
                          /\ view'[p].executed = view[p].executed
                          /\ view'[p].preprocessed = view[p].preprocessed,
         UNCHANGED <<machine, pc, ret, tasks>>
  PROVE  PartiesInv'
<1>1. Tables'
  BY DEF PartiesInv, Tables, machine, tasks
<1>2. ASSUME NEW p \in Roles PROVE PartyInv(p)'
  <2>1. Sound(p, calls, view[p], pre[p], stack[p], taken[p], batch[p], rest[p], "idle")
    <3>1. pc[p] = "idle"
      BY DEF Idle
    <3> QED
      BY <3>1, Unwritten, Zenon DEF PartyInv
  <2>2. Sound(p, calls, view'[p], pre[p], stack[p], taken[p], batch[p], rest[p], "idle")
    BY <2>1, QuietSound
  <2>3. /\ calls' = calls /\ pre'[p] = pre[p] /\ stack'[p] = stack[p] /\ taken'[p] = taken[p]
        /\ batch'[p] = batch[p] /\ rest'[p] = rest[p] /\ pc'[p] = "idle"
    BY DEF machine, tasks, Idle
  <2> QED
    BY <2>2, <2>3, Zenon DEF PartyInv
<1> QED
  BY <1>1, <1>2 DEF PartiesInv

\* alloc_raw and mark_raw.
LEMMA LayoutParties ==
  ASSUME Inv, PartiesInv, AllocRaw \/ \E i \in Allocated : MarkRaw(i)
  PROVE  PartiesInv'
<1>0. \A p \in Roles : /\ Good(view[p], p) /\ Layout(view[p], calls) /\ view[p] \in ViewType
                       /\ view[p].len = view["g"].len
  BY DEF PartiesInv, PartyInv, Sound, Inv, TypeOK, Roles
<1>1. CASE AllocRaw
  <2>1. /\ Idle /\ Allocated # Inputs /\ UNCHANGED <<machine, pc, ret, tasks>>
        /\ view' = [p \in Roles |-> AllocInput(view[p], NextSize)]
    BY <1>1 DEF AllocRaw, NextSize
  <2>2. ASSUME NEW p \in Roles
        PROVE  /\ Good(view'[p], p) /\ Layout(view'[p], calls)
               /\ view'[p].executed = view[p].executed
               /\ view'[p].preprocessed = view[p].preprocessed
    <3> DEFINE w == AllocInput(view[p], NextSize)
    <3>1. Layout(w, calls) /\ NextSize \in Nat
      BY <2>1, InputLayout
    <3>2. w \in {AllocInput(view[p], NextSize), AllocOutput(view[p], NextSize)}
      OBVIOUS
    <3>3. view'[p] = w
      BY <2>1
    <3> HIDE DEF w
    <3>4. Good(w, p) /\ SameProgress(view[p], w)
      BY <1>0, <3>1, <3>2, AllocGood, AllocFields
    <3> QED
      BY <3>1, <3>3, <3>4 DEF SameProgress
  <2> QED
    BY <2>1, <2>2, MemoryParties
<1>2. ASSUME NEW i \in Allocated, MarkRaw(i) PROVE PartiesInv'
  <2> DEFINE S == InputSlice(i)
  <2>1. /\ Idle /\ UNCHANGED <<machine, pc, ret, tasks>>
        /\ \A p \in Roles : CanMark(view[p], S)
        /\ view' = [p \in Roles |-> view'[p]]
        /\ \A p \in Roles : view'[p] \in
             {MarkPublic(view[p], S), MarkPrivate(view[p], S), MarkBlind(view[p], S)}
    BY <1>2 DEF MarkRaw
  <2>2. S \in Addr /\ \A p \in Roles : Below(S, view[p].len)
    BY <1>0 DEF InputSlice, Slice, Allocated, Below, Addr
  <2> HIDE DEF S
  <2>3. ASSUME NEW p \in Roles
        PROVE  /\ Good(view'[p], p) /\ Layout(view'[p], calls)
               /\ view'[p].executed = view[p].executed
               /\ view'[p].preprocessed = view[p].preprocessed
    <3>1. Good(view'[p], p)
      BY <1>0, <2>1, <2>2, MarkGood
    <3>2. /\ SameProgress(view[p], view'[p]) /\ view'[p].len = view[p].len
          /\ view'[p].inputs = view[p].inputs /\ view'[p].outputs = view[p].outputs
      BY <1>0, <2>1, <2>2, MarkFields
    <3> QED
      BY <1>0, <3>1, <3>2 DEF SameProgress, Layout
  <2> QED
    BY <2>1, <2>3, MemoryParties
<1> QED
  BY <1>1, <1>2

\* See OutputAddr.
LEMMA DecodedAddr ==
  ASSUME NEW S \in Slices \cup {OutputSlice(k) : k \in 1 .. calls}, calls \in Nat
  PROVE  S \in Addr /\ S \subseteq Nat
<1>1. CASE S \in Slices
  BY <1>1, SliceAddr
<1>2. ASSUME NEW k \in 1 .. calls, S = OutputSlice(k) PROVE S \in Addr /\ S \subseteq Nat
  <2>1. k \in Nat /\ S = {Out(k)} /\ NumInputs \in Nat /\ k > 0
    BY <1>2, OutFacts, BoundsGrow
  <2>2. Out(k) \in Nat
    BY <2>1 DEF Out
  <2> QED
    BY <2>1, <2>2 DEF Addr
<1> QED
  BY <1>1, <1>2

\* decode leaves calls and memory alone.
LEMMA DecodeKeeps ==
  ASSUME NEW v \in ViewType, NEW r, NEW S
  PROVE  LET w == Decode(v, r, S) IN
         SameMemory(v, w) /\ w.executed = v.executed /\ w.preprocessed = v.preprocessed
BY DEF Decode, SameMemory, ViewType

\* assign_raw, commit_raw and decode_raw.
LEMMA ValueParties ==
  ASSUME Inv, PartiesInv,
         \/ \E S \in Slices, bits \in Values : AssignRaw(S, bits)
         \/ \E S \in Slices : CommitRaw(S)
         \/ \E S \in Slices \cup {OutputSlice(k) : k \in 1 .. calls} : DecodeRaw(S)
  PROVE  PartiesInv'
<1>0. \A p \in Roles : /\ Good(view[p], p) /\ Layout(view[p], calls) /\ view[p] \in ViewType
                       /\ view = [q \in Roles |-> view[q]]
  BY DEF PartiesInv, PartyInv, Sound, Tables
<1>1. ASSUME Idle, UNCHANGED <<machine, pc, ret, tasks>>, view' = [p \in Roles |-> view'[p]],
             \A p \in Roles : /\ Good(view'[p], p) /\ SameMemory(view[p], view'[p])
                              /\ view'[p].executed = view[p].executed
                              /\ view'[p].preprocessed = view[p].preprocessed
      PROVE  PartiesInv'
  <2>1. \A p \in Roles : /\ Good(view'[p], p) /\ Layout(view'[p], calls)
                         /\ view'[p].executed = view[p].executed
                         /\ view'[p].preprocessed = view[p].preprocessed
    BY <1>0, <1>1, SameLayout
  <2> QED
    BY <1>1, <2>1, MemoryParties
<1>2. ASSUME NEW S \in Slices, NEW bits \in Values, AssignRaw(S, bits) PROVE PartiesInv'
  <2>1. /\ Idle /\ UNCHANGED <<machine, pc, ret, tasks>> /\ view' = [p \in Roles |-> view'[p]]
        /\ \A p \in Roles : IF CanAssign(view[p], S) THEN view'[p] = Assign(view[p], S)
                            ELSE view'[p] = view[p]
    BY <1>2 DEF AssignRaw
  <2>2. S \in Addr
    BY SliceAddr
  <2>3. ASSUME NEW p \in Roles
        PROVE  /\ Good(view'[p], p) /\ SameMemory(view[p], view'[p])
               /\ view'[p].executed = view[p].executed
               /\ view'[p].preprocessed = view[p].preprocessed
    <3>1. CASE CanAssign(view[p], S)
      BY <1>0, <2>1, <2>2, <3>1, AssignGood, AssignFields DEF SameProgress
    <3>2. CASE ~CanAssign(view[p], S)
      BY <1>0, <2>1, <3>2 DEF SameMemory
    <3> QED
      BY <3>1, <3>2
  <2> QED
    BY <1>1, <2>1, <2>3
<1>3. ASSUME NEW S \in Slices, CommitRaw(S) PROVE PartiesInv'
  <2>1. /\ Idle /\ UNCHANGED <<machine, pc, ret, tasks>> /\ view' = [p \in Roles |-> view'[p]]
        /\ \A p \in Roles : CanCommit(view[p], S) /\ view'[p] = Commit(view[p], p, S)
    BY <1>3 DEF CommitRaw
  <2>2. S \in Addr
    BY SliceAddr
  <2>3. \A p \in Roles : /\ Good(view'[p], p) /\ SameMemory(view[p], view'[p])
                         /\ view'[p].executed = view[p].executed
                         /\ view'[p].preprocessed = view[p].preprocessed
    BY <1>0, <2>1, <2>2, CommitGood, CommitFields DEF SameProgress
  <2> QED
    BY <1>1, <2>1, <2>3
<1>4. ASSUME NEW S \in Slices \cup {OutputSlice(k) : k \in 1 .. calls}, DecodeRaw(S)
      PROVE  PartiesInv'
  <2>1. /\ Idle /\ UNCHANGED <<machine, pc, ret, tasks>> /\ view' = [p \in Roles |-> view'[p]]
        /\ \A p \in Roles : /\ S \subseteq view[p].outputs \/ VisIsSet(view[p].vis, view[p].len, S)
                            /\ view'[p] = Decode(view[p], p, S)
    BY <1>4 DEF DecodeRaw
  <2>2. S \in Addr /\ S \subseteq Nat
    <3>1. calls \in Nat
      BY <1>0 DEF Layout, Roles
    <3> QED
      BY <3>1, DecodedAddr
  <2>3. \A p \in Roles : /\ Good(view'[p], p) /\ SameMemory(view[p], view'[p])
                         /\ view'[p].executed = view[p].executed
                         /\ view'[p].preprocessed = view[p].preprocessed
    BY <1>0, <2>1, <2>2, DecodeGood, DecodeKeeps
  <2> QED
    BY <1>1, <2>1, <2>3
<1> QED
  BY <1>2, <1>3, <1>4
-----------------------------------------------------------------------------
\* call_raw: the call waits on the stack.
LEMMA CallParties ==
  ASSUME Inv, PartiesInv, CallRaw PROVE PartiesInv'
<1> DEFINE n == calls + 1
<1>0. \A p \in Roles : /\ Good(view[p], p) /\ Layout(view[p], calls) /\ view[p] \in ViewType
                       /\ pc[p] = "idle"
  BY DEF PartiesInv, PartyInv, Sound, CallRaw, Idle
<1>1. /\ Allocated = Inputs /\ calls < Len(CallInputs) /\ calls' = n
      /\ view' = [p \in Roles |-> AllocOutput(view[p], 1)]
      /\ stack' = [p \in Roles |-> stack[p] \cup {n}]
      /\ UNCHANGED <<pre, pc, ret, tasks>>
  BY DEF CallRaw
<1>2. Tables'
  BY <1>1 DEF PartiesInv, Tables, tasks
<1>3. ASSUME NEW p \in Roles PROVE PartyInv(p)'
  <2> DEFINE w == AllocOutput(view[p], 1)
  <2>1. Sound(p, calls, view[p], pre[p], stack[p], taken[p], batch[p], rest[p], "idle")
    BY <1>0, Unwritten, Zenon DEF PartyInv
  <2>2. Layout(w, n) /\ calls \in Nat /\ n \in Nat
    BY <1>0, <1>1, OutputLayout DEF Layout
  <2>3. w \in {AllocInput(view[p], 1), AllocOutput(view[p], 1)}
    OBVIOUS
  <2> HIDE DEF w
  <2>4. Good(w, p) /\ SameProgress(view[p], w) /\ w \in ViewType
    <3> DEFINE size == 1
    <3>1. size \in Nat /\ w \in {AllocInput(view[p], size), AllocOutput(view[p], size)}
      BY <2>3
    <3> HIDE DEF size
    <3> QED
      BY <1>0, <3>1, AllocGood, AllocFields
  <2>5. Out(n) \notin view[p].outputs /\ view[p].executed \subseteq view[p].preprocessed
        /\ view[p].preprocessed \subseteq view[p].outputs
    <3>1. 1 .. calls \in SUBSET Nat /\ n \notin 1 .. calls
      BY <2>2
    <3> QED
      BY <1>0, <2>2, <3>1, OutsFacts DEF Layout, Good, UseShape
  <2>6. Works(p, n, w, pre[p], stack[p] \cup {n}, taken[p], batch[p], rest[p], "idle")
    <3>1. /\ taken[p] = {} /\ batch[p] = {} /\ rest[p] = {}
          /\ pre[p] \cup stack[p] = {k \in 1 .. calls : Out(k) \notin view[p].executed}
          /\ \A k \in pre[p] : Out(k) \in view[p].preprocessed
          /\ \A k \in stack[p] : Out(k) \notin view[p].preprocessed
          /\ \A j \in pre[p] : \A k \in stack[p] : j < k
      BY <2>1 DEF Sound, Works, Places, Garbling
    <3>2. w.executed = view[p].executed /\ w.preprocessed = view[p].preprocessed
      BY <2>4 DEF SameProgress
    <3>3. 1 .. n = (1 .. calls) \cup {n} /\ \A j \in 1 .. calls : j < n
      BY <2>2
    <3>4. pre[p] \cup (stack[p] \cup {n}) = {k \in 1 .. n : Out(k) \notin w.executed}
      BY <2>5, <3>1, <3>2, <3>3
    <3>5. Places(n, w, pre[p], stack[p] \cup {n}, {}, {})
      BY <2>5, <3>1, <3>2, <3>3, <3>4 DEF Places
    <3>6. Garbling(p, w, stack[p] \cup {n}, {}, {}, {}, "idle") /\ Executable(w, pre[p], stack[p] \cup {n}, {}, "idle")
      BY DEF Garbling, Executable
    <3> QED
      BY <3>1, <3>5, <3>6 DEF Works
  <2>7. stack[p] \cup {n} \in SUBSET Nat
    BY <2>1, <2>2 DEF Sound
  <2>8. Sound(p, n, w, pre[p], stack[p] \cup {n}, taken[p], batch[p], rest[p], "idle")
    BY <2>1, <2>2, <2>4, <2>6, <2>7 DEF Sound
  <2>9. /\ calls' = n /\ view'[p] = w /\ stack'[p] = stack[p] \cup {n} /\ pre'[p] = pre[p]
        /\ taken'[p] = taken[p] /\ batch'[p] = batch[p] /\ rest'[p] = rest[p] /\ pc'[p] = "idle"
    BY <1>0, <1>1 DEF tasks, w
  <2> QED
    BY <2>8, <2>9, Zenon DEF PartyInv
<1> QED
  BY <1>2, <1>3 DEF PartiesInv

\* flush, execute_all and preprocess start.
LEMMA StartParties ==
  ASSUME PartiesInv, StartFlush \/ StartExecuteAll \/ StartPreprocess PROVE PartiesInv'
<1>0. /\ \A p \in Roles : Good(view[p], p) /\ Layout(view[p], calls) /\ pc[p] = "idle"
      /\ UNCHANGED <<view, pre, batch, calls>>
      /\ ret' \in [Roles -> {"idle", "loop"}]
  BY DEF PartiesInv, PartyInv, Sound, StartFlush, StartExecuteAll, StartPreprocess, StartJoint,
         Idle, machine, tasks
<1>1. ASSUME NEW p \in Roles
      PROVE  Sound(p, calls, view[p], pre[p], stack[p], taken[p], batch[p], rest[p], "idle")
  BY <1>0, Unwritten, Zenon DEF PartyInv
<1>2. CASE StartFlush \/ StartExecuteAll
  <2>1. /\ UNCHANGED <<stack, taken, rest>> /\ pc' = [p \in Roles |-> pc'[p]]
        /\ \A p \in Roles : pc'[p] \in {"idle", "flush", "loop"}
    BY <1>2 DEF StartFlush, StartExecuteAll, machine, tasks
  <2>2. Tables'
    BY <1>0, <2>1 DEF PartiesInv, Tables
  <2>3. ASSUME NEW p \in Roles PROVE PartyInv(p)'
    <3>1. Sound(p, calls, view[p], pre[p], stack[p], taken[p], batch[p], rest[p], pc'[p])
      BY <1>0, <1>1, <2>1, QuietSound
    <3>2. /\ calls' = calls /\ view'[p] = view[p] /\ pre'[p] = pre[p] /\ stack'[p] = stack[p]
          /\ taken'[p] = taken[p] /\ batch'[p] = batch[p] /\ rest'[p] = rest[p]
      BY <1>0, <2>1
    <3> QED
      BY <3>1, <3>2, Zenon DEF PartyInv
  <2> QED
    BY <2>2, <2>3 DEF PartiesInv
<1>3. CASE StartPreprocess
  <2>1. /\ pc' = [p \in Roles |-> "garble"] /\ stack' = [p \in Roles |-> {}]
        /\ rest' = stack /\ taken' = stack
    BY <1>3 DEF StartPreprocess
  <2>2. Tables'
    BY <1>0, <2>1 DEF PartiesInv, Tables
  <2>3. ASSUME NEW p \in Roles PROVE PartyInv(p)'
    <3>1. Sound(p, calls, view[p], pre[p], {}, stack[p], batch[p], stack[p], "garble")
      BY <1>1, StartSound
    <3>2. /\ calls' = calls /\ view'[p] = view[p] /\ pre'[p] = pre[p] /\ stack'[p] = {}
          /\ taken'[p] = stack[p] /\ batch'[p] = batch[p] /\ rest'[p] = stack[p]
          /\ pc'[p] = "garble"
      BY <1>0, <2>1
    <3> QED
      BY <3>1, <3>2, Zenon DEF PartyInv
  <2> QED
    BY <2>2, <2>3 DEF PartiesInv
<1> QED
  BY <1>2, <1>3

\* The flush steps of the garbler and of the evaluator.
LEMMA FlushSteps ==
  ASSUME PartiesInv,
         GarblerSendFlush \/ GarblerReceiveFlush \/ EvaluatorSendFlush \/ EvaluatorReceiveFlush
  PROVE  PartiesInv' \/ Quiet
<1>1. ASSUME NEW p \in Roles,
             \/ pc[p] = "flush" /\ view' = view /\ pc' = [pc EXCEPT ![p] = "await"]
             \/ /\ pc[p] = "await" /\ view' = [view EXCEPT ![p] = CompleteFlush(view[p])]
                /\ EndFlush(p, CompleteFlush(view[p])),
             UNCHANGED <<machine, tasks, ret>>
      PROVE  PartiesInv'
  BY <1>1, FlushParty
<1>2. \/ Quiet
      \/ /\ \/ pc["g"] = "flush" /\ view' = view /\ pc' = [pc EXCEPT !["g"] = "await"]
            \/ /\ pc["g"] = "await" /\ view' = [view EXCEPT !["g"] = CompleteFlush(view["g"])]
               /\ EndFlush("g", CompleteFlush(view["g"]))
         /\ UNCHANGED <<machine, tasks, ret>>
      \/ /\ \/ pc["e"] = "flush" /\ view' = view /\ pc' = [pc EXCEPT !["e"] = "await"]
            \/ /\ pc["e"] = "await" /\ view' = [view EXCEPT !["e"] = CompleteFlush(view["e"])]
               /\ EndFlush("e", CompleteFlush(view["e"]))
         /\ UNCHANGED <<machine, tasks, ret>>
  <2>1. CASE GarblerSendFlush
    BY <2>1 DEF GarblerSendFlush, Fail, Return, Quiet, machine, tasks
  <2>2. CASE GarblerReceiveFlush
    BY <2>2 DEF GarblerReceiveFlush, Fail, Quiet, machine, tasks
  <2>3. CASE EvaluatorSendFlush
    BY <2>3 DEF EvaluatorSendFlush, Fail, Return, Quiet, machine, tasks
  <2>4. CASE EvaluatorReceiveFlush
    BY <2>4 DEF EvaluatorReceiveFlush, Fail, Quiet, machine, tasks
  <2> QED
    BY <2>1, <2>2, <2>3, <2>4
<1> QED
  BY <1>1, <1>2 DEF Roles

\* Every step keeps both parties in order.
LEMMA PartiesStep ==
  ASSUME Inv, PartiesInv, [Next]_vars PROVE PartiesInv'
<1>1. Quiet \/ Onward => PartiesInv'
  BY NoParty DEF Quiet, Onward
<1>2. CASE UNCHANGED vars
  BY <1>2, NoParty DEF vars, machine, tasks
<1>3. CASE Application
  BY <1>3, LayoutParties, ValueParties, CallParties, StartParties DEF Application
<1>4. ASSUME NEW p \in Roles, Party(p) PROVE PartiesInv'
  BY <1>1, <1>4, PreprocessParty, LoopParty, MarkingParty, ExecuteParty DEF Party
<1>5. CASE Garbler
  BY <1>1, <1>4, <1>5, FlushSteps, GenerateParty DEF Garbler, Roles
<1>6. CASE Evaluator
  BY <1>1, <1>4, <1>6, FlushSteps, EvaluateParty DEF Evaluator, Roles
<1> QED
  BY <1>2, <1>3, <1>5, <1>6 DEF Next

\* At the start there is neither memory nor a call.
LEMMA PartiesInit ==
  ASSUME Init PROVE PartiesInv
<1>1. NewView \in ViewType
  BY DEF NewView, ViewType, NewVisibility, VisType, EmptyFlush, FlushType, Addr
<1>2. VisShape(NewView) /\ Settled(NewView) = {}
  BY DEF NewView, NewVisibility, VisShape, Settled
<1>3. ASSUME NEW p \in Roles PROVE Good(NewView, p)
  BY <1>1, <1>2 DEF NewView, NewVisibility, EmptyFlush, Good, UseShape, Duty, Committing, Evaluators, Garblers
<1>4. Layout(NewView, 0)
  <2>1. 0 .. Bounds[1] - 1 = {} /\ 1 \in 1 .. Len(Bounds) /\ 1 .. 0 = {} /\ Len(CallInputs) \in Nat
        /\ Bounds[1] = 0
    BY BoundsGrow, ConstantsOK
  <2>2. NewView.outputs = {} /\ NewView.inputs = {} /\ NewView.len = 0
    BY DEF NewView
  <2>3. Outs(1 .. 0) = {}
    BY <2>1 DEF Outs
  <2> QED
    BY <2>1, <2>2, <2>3 DEF Layout
<1>5. ASSUME NEW p \in Roles PROVE Works(p, 0, NewView, {}, {}, {}, {}, {}, "idle")
  BY DEF Works, Places, Garbling, Executable
<1>6. ASSUME NEW p \in Roles PROVE PartyInv(p)
  <2>1. Sound(p, 0, NewView, {}, {}, {}, {}, {}, "idle")
    BY <1>1, <1>3, <1>4, <1>5 DEF Sound, Labels
  <2>2. /\ calls = 0 /\ view[p] = NewView /\ pre[p] = {} /\ stack[p] = {} /\ taken[p] = {}
        /\ batch[p] = {} /\ rest[p] = {} /\ pc[p] = "idle"
    BY DEF Init
  <2> QED
    BY <2>1, <2>2, Zenon DEF PartyInv
<1>7. Tables
  BY DEF Init, Tables
<1> QED
  BY <1>6, <1>7 DEF PartiesInv
-----------------------------------------------------------------------------
\* A memory operation of both applications: the views stay alike.
LEMMA AgreeMemory ==
  ASSUME Agree, Idle, UNCHANGED <<pc, ret, net>>,
         Twin(view'["g"], view'["e"]), Twin(view'["e"], view'["g"])
  PROVE  Agree'
<1>1. \A p \in Roles : pc[p] = "idle" /\ pc'[p] = "idle"
  BY DEF Idle
<1>2. \A p \in Roles : Target(p)' = view'[p]
  <2>1. \A p \in Roles : Target(p)' = Goal(p, view'[p], taken'[p], batch'[p], rest'[p], pc'[p])
    BY DEF Target
  <2> QED
    BY <1>1, <2>1 DEF Goal
<1>3. Twin(Target("g")', Target("e")') /\ Twin(Target("e")', Target("g")')
  BY <1>2, PeerFacts
<1>4. ret'["g"] = ret'["e"] /\ net' = net
  BY DEF Agree
<1>5. \A p \in Roles : pc'[p] # "await"
  BY <1>1
<1> QED
  BY <1>1, <1>3, <1>4, <1>5, AgreeTogether

\* alloc_raw, mark_raw and the allocation of call_raw.
LEMMA AgreeLayout ==
  ASSUME PartiesInv, Agree, AllocRaw \/ (\E i \in Allocated : MarkRaw(i)) \/ CallRaw
  PROVE  Agree'
<1>0. /\ Idle /\ UNCHANGED <<pc, ret, net>>
      /\ \A p \in Roles : view[p] \in ViewType /\ pc[p] = "idle"
  BY DEF AllocRaw, MarkRaw, CallRaw, Idle, PartiesInv, PartyInv, Sound
<1>1. Twin(view["g"], view["e"]) /\ Twin(view["e"], view["g"])
  BY <1>0, AgreeIdle
<1>2. CASE AllocRaw
  <2>1. NextSize \in Nat /\ view' = [p \in Roles |-> AllocInput(view[p], NextSize)]
    BY <1>2, NextInput DEF AllocRaw, NextSize
  <2>2. /\ Twin(AllocInput(view["g"], NextSize), AllocInput(view["e"], NextSize))
        /\ Twin(AllocInput(view["e"], NextSize), AllocInput(view["g"], NextSize))
    BY <1>0, <1>1, <2>1, TwinAlloc, PeerFacts
  <2> QED
    BY <1>0, <2>1, <2>2, AgreeMemory, PeerFacts
<1>3. ASSUME NEW i \in Allocated, MarkRaw(i) PROVE Agree'
  <2> DEFINE S == InputSlice(i)
  <2>1. S \in Addr /\ Owner[i] \in {"g", "e", "public"}
    BY ConstantsOK DEF InputSlice, Slice, Addr, Allocated, Inputs
  <2>2. \/ view'["g"] = MarkPublic(view["g"], S) /\ view'["e"] = MarkPublic(view["e"], S)
        \/ view'["g"] = MarkPrivate(view["g"], S) /\ view'["e"] = MarkBlind(view["e"], S)
        \/ view'["g"] = MarkBlind(view["g"], S) /\ view'["e"] = MarkPrivate(view["e"], S)
    BY <1>3, <2>1 DEF MarkRaw, Roles
  <2> HIDE DEF S
  <2>3. Twin(view'["g"], view'["e"]) /\ Twin(view'["e"], view'["g"])
    <3>1. view["g"] \in ViewType /\ view["e"] \in ViewType
      BY <1>0, PeerFacts
    <3> QED
      BY <1>1, <2>1, <2>2, <3>1, TwinMark
  <2> QED
    BY <1>0, <2>3, AgreeMemory
<1>4. CASE CallRaw
  <2> DEFINE size == 1
  <2>1. size \in Nat /\ view' = [p \in Roles |-> AllocOutput(view[p], size)]
    BY <1>4 DEF CallRaw
  <2> HIDE DEF size
  <2>2. /\ Twin(AllocOutput(view["g"], size), AllocOutput(view["e"], size))
        /\ Twin(AllocOutput(view["e"], size), AllocOutput(view["g"], size))
    BY <1>0, <1>1, <2>1, TwinAlloc, PeerFacts
  <2> QED
    BY <1>0, <2>1, <2>2, AgreeMemory, PeerFacts
<1> QED
  BY <1>2, <1>3, <1>4

\* assign_raw, commit_raw and decode_raw.
LEMMA AgreeValue ==
  ASSUME PartiesInv, Agree,
         \/ \E S \in Slices, bits \in Values : AssignRaw(S, bits)
         \/ \E S \in Slices : CommitRaw(S)
         \/ \E S \in Slices \cup {OutputSlice(k) : k \in 1 .. calls} : DecodeRaw(S)
  PROVE  Agree'
<1>0. /\ Idle /\ UNCHANGED <<pc, ret, net>>
      /\ \A p \in Roles : Good(view[p], p) /\ view[p] \in ViewType /\ pc[p] = "idle"
      /\ calls \in Nat
  BY DEF AssignRaw, CommitRaw, DecodeRaw, Idle, PartiesInv, PartyInv, Sound, Layout, Roles
<1>1. Twin(view["g"], view["e"]) /\ Twin(view["e"], view["g"])
  BY <1>0, AgreeIdle
<1>2. ASSUME Twin(view'["g"], view'["e"]) PROVE Agree'
  BY <1>0, <1>2, TwinSwap, AgreeMemory
<1>3. ASSUME NEW S \in Slices, NEW bits \in Values, AssignRaw(S, bits) PROVE Agree'
  <2>1. S \in Addr
    BY SliceAddr
  <2>2. ASSUME NEW p \in Roles
        PROVE  /\ SameMemory(view[p], view'[p]) /\ SameProgress(view[p], view'[p])
               /\ view'[p].flush = view[p].flush
    <3>1. view'[p] \in {Assign(view[p], S), view[p]}
      BY <1>3 DEF AssignRaw
    <3>2. /\ SameMemory(view[p], Assign(view[p], S)) /\ SameProgress(view[p], Assign(view[p], S))
          /\ Assign(view[p], S).flush = view[p].flush
      BY <1>0, <2>1, AssignFields
    <3> QED
      BY <3>1, <3>2 DEF SameMemory, SameProgress
  <2>3. Twin(view'["g"], view'["e"])
    BY <1>1, <2>2, PeerFacts DEF Twin, SameMemory, SameProgress
  <2> QED
    BY <1>2, <2>3
<1>4. ASSUME NEW S \in Slices, CommitRaw(S) PROVE Agree'
  <2>1. S \in Addr
    BY SliceAddr
  <2>2. view'["g"] = Commit(view["g"], "g", S) /\ view'["e"] = Commit(view["e"], "e", S)
    BY <1>4 DEF CommitRaw, Roles
  <2> QED
    BY <1>0, <1>1, <1>2, <2>1, <2>2, TwinCommit, PeerFacts
<1>5. ASSUME NEW S \in Slices \cup {OutputSlice(k) : k \in 1 .. calls}, DecodeRaw(S) PROVE Agree'
  <2>1. S \in Addr /\ S \subseteq Nat
    BY <1>0, DecodedAddr
  <2>2. /\ view'["g"] = Decode(view["g"], "g", S) /\ view'["e"] = Decode(view["e"], "e", S)
        /\ \A p \in Roles : S \subseteq view[p].outputs \/ VisIsSet(view[p].vis, view[p].len, S)
    BY <1>5 DEF DecodeRaw, Roles
  <2>3. Twin(Decode(view["g"], "g", S), Decode(view["e"], "e", S))
    BY <1>0, <1>1, <2>1, <2>2, TwinDecode, PeerFacts
  <2> QED
    BY <1>2, <2>2, <2>3
<1> QED
  BY <1>3, <1>4, <1>5

\* flush, execute_all and preprocess start on both sides alike.
LEMMA AgreeStart ==
  ASSUME PartiesInv, Agree, StartFlush \/ StartExecuteAll \/ StartPreprocess
  PROVE  Agree'
<1>0. /\ UNCHANGED <<view, net, batch>> /\ ret'["g"] = ret'["e"]
      /\ \A p \in Roles : /\ view[p] \in ViewType /\ Good(view[p], p) /\ pc[p] = "idle"
                          /\ view[p].executed \subseteq view[p].outputs
                          /\ pc'[p] \in {"idle", "flush", "loop", "garble"}
  BY DEF StartFlush, StartExecuteAll, StartPreprocess, StartJoint, Idle, PartiesInv, PartyInv, Sound,
         Good, UseShape, Roles, tasks
<1>1. Twin(view["g"], view["e"]) /\ Twin(view["e"], view["g"])
  BY <1>0, AgreeIdle
<1>2. \A p \in Roles : Target(p)' = Goal(p, view[p], taken'[p], batch'[p], rest'[p], pc'[p])
  BY <1>0 DEF Target
<1>3. ASSUME Twin(Target("g")', Target("e")') PROVE Agree'
  <2>1. Twin(Target("e")', Target("g")')
    BY <1>3, TwinSwap
  <2>2. \A p \in Roles : pc'[p] # "await"
    BY <1>0
  <2> QED
    BY <1>0, <1>3, <2>1, <2>2, AgreeTogether
<1>4. CASE StartFlush
  <2>1. \A p \in Roles : pc'[p] \in {"flush", "idle"}
    BY <1>4 DEF StartFlush
  <2>2. \A p \in Roles : Target(p)' = view[p]
    BY <1>2, <2>1 DEF Goal
  <2> QED
    BY <1>1, <1>3, <2>2, PeerFacts
<1>5. CASE StartExecuteAll
  <2>1. \A p \in Roles : pc'[p] = "loop"
    BY <1>5 DEF StartExecuteAll
  <2>2. \A p \in Roles : Target(p)' = Loop(view[p], "loop")
    BY <1>2, <2>1 DEF Goal
  <2>3. Twin(Loop(view["g"], "loop"), Loop(view["e"], "loop"))
    BY <1>0, <1>1, TwinLoop, PeerFacts
  <2> QED
    BY <1>3, <2>2, <2>3, PeerFacts
<1>6. CASE StartPreprocess
  <2>1. \A p \in Roles : pc'[p] = "garble" /\ rest' = stack /\ taken' = stack
    BY <1>6 DEF StartPreprocess
  <2>2. ASSUME NEW p \in Roles
        PROVE  /\ batch[p] = {} /\ stack[p] \in SUBSET Nat
               /\ stack[p] = {k \in 1 .. calls : Out(k) \notin view[p].preprocessed}
    <3>1. Sound(p, calls, view[p], pre[p], stack[p], taken[p], batch[p], rest[p], "idle")
      BY <1>0, Unwritten, Zenon DEF PartyInv
    <3>2. batch[p] = {} /\ taken[p] = {}
      BY <3>1 DEF Sound, Works, Garbling
    <3>3. Places(calls, view[p], pre[p], stack[p], {}, {})
      BY <3>1, <3>2, Zenon DEF Sound, Works
    <3>4. view[p].executed \subseteq view[p].preprocessed
      BY <1>0 DEF Good, UseShape
    <3> QED
      BY <3>1, <3>2, <3>3, <3>4 DEF Places, Sound
  <2>3. stack["g"] = stack["e"]
    BY <1>1, <2>2, PeerFacts DEF Twin
  <2>4. Target("g")' = SetPreprocessed(view["g"], Outs(stack["g"]))
        /\ Target("e")' = SetPreprocessed(view["e"], Outs(stack["g"]))
    <3>1. rest'["g"] \cup batch'["g"] = stack["g"]
      BY <1>0, <2>1, <2>2, PeerFacts
    <3>2. Target("g")' = SetPreprocessed(view["g"], Outs(rest'["g"] \cup batch'["g"]))
      BY <1>2, <2>1, PeerFacts DEF Goal
    <3>3. Target("e")' = SetPreprocessed(view["e"], Outs(taken'["e"]))
      BY <1>2, <2>1, PeerFacts DEF Goal
    <3> QED
      BY <2>1, <2>3, <3>1, <3>2, <3>3, PeerFacts
  <2>5. Outs(stack["g"]) \in Addr
    BY <2>2, OutsFacts, PeerFacts
  <2>6. Twin(SetPreprocessed(view["g"], Outs(stack["g"])), SetPreprocessed(view["e"], Outs(stack["g"])))
    BY <1>0, <1>1, <2>5, TwinPreprocessed, PeerFacts
  <2> QED
    BY <1>3, <2>4, <2>6
<1> QED
  BY <1>4, <1>5, <1>6
-----------------------------------------------------------------------------
(***************************************************************************)
(* Nothing is asked for twice.  The flush view of a party names only what  *)
(* has not been exchanged; of the addresses to be proven, each stands      *)
(* beside one that has not been, because the slices the applications       *)
(* decode are ranges of one input, all of it one party's.                  *)
(***************************************************************************)
Fresh(v, r) ==
  /\ v.committed \cap (v.flush.macs \cup v.flush.ot) = {}
  /\ v.informed \cap v.flush.info = {}
  /\ v.decoded \cup v.flush.decode \subseteq v.committed \cup v.executed
  /\ v.flush.decode \subseteq Evaluators(v, r) \cup v.outputs
  /\ \A a \in v.flush.decode : \E lo, hi \in Int :
       a \in lo .. hi /\ lo .. hi \subseteq v.flush.decode /\ ~(lo .. hi \subseteq v.decoded)

Owned(p, v) ==
  \A i \in Inputs :
    /\ InputSlice(i) \cap v.vis.public # {} => Owner[i] = "public"
    /\ InputSlice(i) \cap v.vis.private # {} => Owner[i] = p
    /\ InputSlice(i) \cap v.vis.blind # {} => Owner[i] = Peer(p)

\* The least that Fresh depends on.
LEMMA FreshKeeps ==
  ASSUME NEW v, NEW w, NEW r, Fresh(v, r), w.committed = v.committed, w.executed = v.executed,
         w.informed = v.informed, w.decoded = v.decoded, w.flush = v.flush,
         Evaluators(v, r) \subseteq Evaluators(w, r), v.outputs \subseteq w.outputs
  PROVE  Fresh(w, r)
BY DEF Fresh

\* alloc_input, alloc_output and assign.
LEMMA FreshAlloc ==
  ASSUME NEW v \in ViewType, NEW r \in Roles, Fresh(v, r), NEW n \in Nat,
         NEW w \in {AllocInput(v, n), AllocOutput(v, n)}
  PROVE  /\ Fresh(w, r) /\ \A p : Owned(p, v) => Owned(p, w)
<1> DEFINE S == Slice(v.len, n)
<1>1. /\ SameProgress(v, w) /\ w.flush = v.flush /\ v.outputs \subseteq w.outputs
      /\ w.vis.public = v.vis.public /\ w.vis.private = v.vis.private /\ w.vis.blind = v.vis.blind
  BY AllocFields
<1> QED
  BY <1>1, FreshKeeps DEF SameProgress, Evaluators, Owned

\* See FreshAlloc.
LEMMA FreshAssign ==
  ASSUME NEW v \in ViewType, NEW r \in Roles, Fresh(v, r), NEW S \in Addr
  PROVE  Fresh(Assign(v, S), r) /\ \A p : Owned(p, v) => Owned(p, Assign(v, S))
<1>1. /\ SameMemory(v, Assign(v, S)) /\ SameProgress(v, Assign(v, S))
      /\ Assign(v, S).flush = v.flush
  BY AssignFields
<1> QED
  BY <1>1, FreshKeeps DEF SameMemory, SameProgress, Evaluators, Owned

\* mark_raw: an input is marked for its owner.
LEMMA FreshMark ==
  ASSUME NEW v, NEW p \in Roles, Good(v, p), Fresh(v, p), Owned(p, v), NEW i \in Inputs,
         NEW S, S = InputSlice(i), Below(S, v.len), CanMark(v, S),
         NEW w, w = (IF Owner[i] = "public" THEN MarkPublic(v, S)
                     ELSE IF Owner[i] = p THEN MarkPrivate(v, S) ELSE MarkBlind(v, S))
  PROVE  Fresh(w, p) /\ Owned(p, w)
<1>0. v \in ViewType /\ S \in Addr
  BY DEF Good, InputSlice, Slice, Addr
<1>1. S \subseteq v.vis.uninit /\ S \cap Settled(v) = {}
  BY DEF CanMark, VisIsSetAny, Below, Good, VisShape
<1>2. /\ SameProgress(v, w) /\ w.flush = v.flush /\ w.outputs = v.outputs
      /\ w.vis = (IF Owner[i] = "public" THEN SetPublic(v.vis, S)
                  ELSE IF Owner[i] = p THEN SetPrivate(v.vis, S) ELSE SetBlind(v.vis, S))
  BY <1>0, MarkFields
<1>3. /\ w.vis.public = (IF Owner[i] = "public" THEN v.vis.public \cup S ELSE v.vis.public \ S)
      /\ w.vis.private = (IF Owner[i] = p /\ Owner[i] # "public" THEN v.vis.private \cup S
                          ELSE v.vis.private \ S)
      /\ w.vis.blind = (IF Owner[i] = p \/ Owner[i] = "public" THEN v.vis.blind \ S
                        ELSE v.vis.blind \cup S)
  <2>0. p # "public"
    BY DEF Roles
  <2>1. CASE Owner[i] = "public"
    BY <1>2, <2>0, <2>1 DEF SetPublic
  <2>2. CASE Owner[i] = p
    BY <1>2, <2>0, <2>2 DEF SetPrivate
  <2>3. CASE Owner[i] # "public" /\ Owner[i] # p
    BY <1>2, <2>0, <2>3 DEF SetBlind
  <2> QED
    BY <2>1, <2>2, <2>3
<1>4. v.vis.public \cap S = {} /\ v.vis.private \cap S = {} /\ v.vis.blind \cap S = {}
  BY <1>1, GoodSets DEF Settled
<1>5. Fresh(w, p)
  BY <1>2, <1>3, <1>4, FreshKeeps DEF SameProgress, Evaluators
<1>6. \A j \in Inputs : j # i => InputSlice(j) \cap S = {}
  <2> SUFFICES ASSUME NEW j \in Inputs, j # i, NEW a \in InputSlice(j), a \in S PROVE FALSE
    OBVIOUS
  <2>1. /\ i \in 1 .. Len(Bounds) /\ i + 1 \in 1 .. Len(Bounds)
        /\ j \in 1 .. Len(Bounds) /\ j + 1 \in 1 .. Len(Bounds)
    BY BoundsGrow DEF Inputs
  <2>2. /\ Bounds[i] \in Nat /\ Bounds[i + 1] \in Nat /\ Bounds[j] \in Nat /\ Bounds[j + 1] \in Nat
        /\ i + 1 < j => Bounds[i + 1] < Bounds[j]
        /\ j + 1 < i => Bounds[j + 1] < Bounds[i]
    BY <2>1, BoundsGrow
  <2>3. a \in Int /\ Bounds[i] <= a /\ a < Bounds[i + 1] /\ Bounds[j] <= a /\ a < Bounds[j + 1]
    <3>1. /\ InputSlice(i) = Bounds[i] .. (Bounds[i] + (Bounds[i + 1] - Bounds[i]) - 1)
          /\ InputSlice(j) = Bounds[j] .. (Bounds[j] + (Bounds[j + 1] - Bounds[j]) - 1)
      BY DEF InputSlice, Slice
    <3> QED
      BY <2>2, <3>1
  <2>4. i + 1 = j => Bounds[i + 1] = Bounds[j]
    OBVIOUS
  <2>5. j + 1 = i => Bounds[j + 1] = Bounds[i]
    OBVIOUS
  <2>6. i + 1 < j \/ i + 1 = j \/ j + 1 < i \/ j + 1 = i
    BY <2>1
  <2> QED
    BY <2>2, <2>3, <2>4, <2>5, <2>6
<1>7. Owner[i] \in {"g", "e", "public"}
  BY ConstantsOK DEF Inputs
<1>8. ASSUME NEW j \in Inputs
      PROVE  /\ InputSlice(j) \cap w.vis.public # {} => Owner[j] = "public"
             /\ InputSlice(j) \cap w.vis.private # {} => Owner[j] = p
             /\ InputSlice(j) \cap w.vis.blind # {} => Owner[j] = Peer(p)
  <2>1. CASE j = i
    BY <1>3, <1>4, <1>7, <2>1 DEF Roles, Peer
  <2>2. CASE j # i
    <3>1. /\ InputSlice(j) \cap w.vis.public = InputSlice(j) \cap v.vis.public
          /\ InputSlice(j) \cap w.vis.private = InputSlice(j) \cap v.vis.private
          /\ InputSlice(j) \cap w.vis.blind = InputSlice(j) \cap v.vis.blind
      BY <1>3, <1>4, <1>6, <2>2
    <3> QED
      BY <3>1 DEF Owned
  <2> QED
    BY <2>1, <2>2
<1> QED
  BY <1>5, <1>8 DEF Owned

\* The operations that leave the visibility alone.
LEMMA OwnedKeeps ==
  ASSUME NEW v, NEW w, NEW p, Owned(p, v), w.vis = v.vis PROVE Owned(p, w)
BY DEF Owned

\* commit: what has not been committed.
LEMMA FreshCommit ==
  ASSUME NEW v \in ViewType, NEW r \in Roles, Fresh(v, r), NEW S \in Addr, CanCommit(v, S)
  PROVE  Fresh(Commit(v, r, S), r)
<1> DEFINE w == Commit(v, r, S)
<1>1. /\ SameMemory(v, w) /\ SameProgress(v, w)
      /\ w.flush.macs = v.flush.macs \cup (S \cap (v.vis.public \cup Garblers(v, r)))
      /\ w.flush.ot = v.flush.ot \cup (S \cap Evaluators(v, r))
      /\ w.flush.info = v.flush.info /\ w.flush.decode = v.flush.decode
  BY CommitFields
<1>2. S \cap v.committed = {}
  BY DEF CanCommit
<1> HIDE DEF w
<1>3. Fresh(w, r)
  BY <1>1, <1>2 DEF Fresh, SameMemory, SameProgress, Evaluators
<1> QED
  BY <1>3 DEF w

\* set_preprocessed of outputs that are not.
LEMMA FreshPreprocessed ==
  ASSUME NEW v, NEW r \in Roles, Good(v, r), Fresh(v, r), NEW S \in Addr,
         S \subseteq v.outputs, S \cap v.preprocessed = {}
  PROVE  Fresh(SetPreprocessed(v, S), r)
<1> DEFINE w == SetPreprocessed(v, S)
<1>0. v \in ViewType /\ v.outputs \cap v.informed \subseteq v.preprocessed
  BY DEF Good, UseShape
<1>1. /\ SameMemory(v, w) /\ w.committed = v.committed /\ w.executed = v.executed
      /\ w.informed = v.informed /\ w.decoded = v.decoded
      /\ w.flush.macs = v.flush.macs /\ w.flush.ot = v.flush.ot
      /\ w.flush.info = v.flush.info \cup ((S \cap v.decode) \ v.decoded)
      /\ w.flush.decode = v.flush.decode
  BY <1>0, PreprocessedFields
<1> HIDE DEF w
<1>2. Fresh(w, r)
  BY <1>0, <1>1 DEF Fresh, SameMemory, Evaluators
<1> QED
  BY <1>2 DEF w

\* One address by itself.
LEMMA Alone ==
  ASSUME NEW a \in Int PROVE a .. a = {a} /\ a \in a .. a
OBVIOUS

\* set_output
LEMMA FreshOutput ==
  ASSUME NEW v, NEW r \in Roles, Good(v, r), Fresh(v, r), NEW S \in Addr, S \subseteq v.outputs
  PROVE  Fresh(SetOutput(v, S), r)
<1> DEFINE w == SetOutput(v, S)
<1>0. v \in ViewType
  BY DEF Good
<1>1. /\ SameMemory(v, w) /\ w.committed = v.committed /\ w.executed = v.executed \cup S
      /\ w.informed = v.informed /\ w.decoded = v.decoded
      /\ w.flush.macs = v.flush.macs /\ w.flush.ot = v.flush.ot
      /\ w.flush.info = v.flush.info \cup ((S \cap v.decode) \ v.informed)
      /\ w.flush.decode = v.flush.decode \cup ((S \cap v.informed) \ v.decoded)
  BY <1>0, OutputFields
<1> HIDE DEF w
<1>2. ASSUME NEW a \in w.flush.decode
      PROVE  \E lo, hi \in Int :
               a \in lo .. hi /\ lo .. hi \subseteq w.flush.decode /\ ~(lo .. hi \subseteq w.decoded)
  <2>1. CASE a \in v.flush.decode
    BY <1>1, <2>1 DEF Fresh
  <2>2. CASE a \notin v.flush.decode
    <3>1. a \in Int /\ a \notin w.decoded
      BY <1>1, <1>2, <2>2 DEF Addr
    <3>2. a .. a \subseteq w.flush.decode /\ ~(a .. a \subseteq w.decoded) /\ a \in a .. a
      BY <1>2, <3>1, Alone
    <3> QED
      BY <3>1, <3>2
  <2> QED
    BY <2>1, <2>2
<1>3. Evaluators(w, r) = Evaluators(v, r) /\ w.outputs = v.outputs
  BY <1>1 DEF SameMemory, Evaluators
<1>4. /\ w.committed \cap (w.flush.macs \cup w.flush.ot) = {} /\ w.informed \cap w.flush.info = {}
      /\ w.decoded \cup w.flush.decode \subseteq w.committed \cup w.executed
      /\ w.flush.decode \subseteq Evaluators(w, r) \cup w.outputs
  BY <1>1, <1>3 DEF Fresh
<1>5. Fresh(w, r)
  BY <1>2, <1>4 DEF Fresh
<1> QED
  BY <1>5 DEF w
-----------------------------------------------------------------------------
\* complete_flush: what waits for the next flush is neither decoded nor
\* being decoded by this one.
LEMMA FreshComplete ==
  ASSUME NEW v, NEW r \in Roles, Good(v, r), Fresh(v, r)
  PROVE  Fresh(CompleteFlush(v), r)
<1> DEFINE w == CompleteFlush(v)
<1>0. v \in ViewType
  BY DEF Good
<1>1. /\ SameMemory(v, w) /\ w.committed = Committing(v) /\ w.executed = v.executed
      /\ w.informed = v.informed \cup v.flush.info /\ w.decoded = v.decoded \cup v.flush.decode
      /\ w.flush.macs = {} /\ w.flush.ot = {} /\ w.flush.info = {}
      /\ w.flush.decode = (v.flush.ot \cap v.decode)
                            \cup ((v.flush.info \cap v.executed) \ (v.decoded \cup v.flush.decode))
  BY <1>0, CompleteFields
<1> HIDE DEF w
<1>2. /\ v.flush.ot \subseteq Evaluators(v, r) /\ v.executed \subseteq v.outputs
      /\ Committing(v) \subseteq Settled(v) /\ Settled(v) \cap v.outputs = {}
  BY GoodSets DEF Good, UseShape, Duty
<1>3. v.flush.ot \cap v.executed = {}
  BY <1>2 DEF Committing
<1>4. v.flush.ot \cap (v.decoded \cup v.flush.decode) = {}
  BY <1>3 DEF Fresh
<1>5. w.flush.decode \cap w.decoded = {}
  BY <1>1, <1>4
<1>6. ASSUME NEW a \in w.flush.decode
      PROVE  \E lo, hi \in Int :
               a \in lo .. hi /\ lo .. hi \subseteq w.flush.decode /\ ~(lo .. hi \subseteq w.decoded)
  <2>1. a \in Int
    BY <1>0, <1>1, <1>6 DEF ViewType, FlushType, Addr
  <2>2. a .. a \subseteq w.flush.decode /\ ~(a .. a \subseteq w.decoded) /\ a \in a .. a
    BY <1>5, <1>6, <2>1, Alone
  <2> QED
    BY <2>1, <2>2
<1>7. Evaluators(w, r) = Evaluators(v, r) /\ w.outputs = v.outputs
  BY <1>1 DEF SameMemory, Evaluators
<1>8. /\ w.committed \cap (w.flush.macs \cup w.flush.ot) = {} /\ w.informed \cap w.flush.info = {}
      /\ w.flush.decode \subseteq Evaluators(w, r) \cup w.outputs
  BY <1>1, <1>2, <1>7
<1>9. w.decoded \cup w.flush.decode \subseteq w.committed \cup w.executed
  BY <1>1 DEF Fresh, Committing
<1>10. Fresh(w, r)
  BY <1>6, <1>8, <1>9 DEF Fresh
<1> QED
  BY <1>10 DEF w

\* decode: a slice of which a part is decoded is committed, or executed, as
\* a whole.
LEMMA FreshDecode ==
  ASSUME NEW v, NEW r \in Roles, Good(v, r), Fresh(v, r), NEW S \in Addr, S \subseteq Nat,
         S \subseteq v.outputs \/ VisIsSet(v.vis, v.len, S),
         S \cap v.decoded = {} \/ IsCommitted(v, S),
         NEW lo \in Int, NEW hi \in Int, S = lo .. hi,
         S \subseteq Settled(v) /\ S \cap Evaluators(v, r) # {} => S \subseteq Evaluators(v, r)
  PROVE  Fresh(Decode(v, r, S), r)
<1> DEFINE w == Decode(v, r, S)
           new == (S \cap Evaluators(v, r) \cap v.committed) \cup (S \cap v.outputs \cap v.executed)
<1>0. v \in ViewType /\ VisShape(v)
  BY DEF Good
<1>1. CASE S \subseteq v.decoded
  <2>1. w = v
    BY <1>1 DEF Decode
  <2> QED
    BY <2>1
<1>2. CASE ~(S \subseteq v.decoded)
  <2>1. /\ SameMemory(v, w) /\ w.committed = v.committed /\ w.executed = v.executed
        /\ w.informed = v.informed /\ w.decoded = v.decoded
        /\ w.flush.macs = v.flush.macs /\ w.flush.ot = v.flush.ot
        /\ w.flush.info = v.flush.info \cup
             ((S \cap (Garblers(v, r) \cup (v.outputs \cap v.preprocessed))) \ v.informed)
        /\ w.flush.decode = v.flush.decode \cup (S \cap Evaluators(v, r) \cap v.committed)
                              \cup (S \cap v.outputs \cap v.executed)
    BY <1>0, <1>2, DecodeFields
  <2> HIDE DEF w
  <2>2. Evaluators(w, r) = Evaluators(v, r) /\ w.outputs = v.outputs /\ w.flush.decode = v.flush.decode \cup new
    BY <2>1 DEF SameMemory, Evaluators
  <2>3. IsCommitted(v, S) /\ new # {} => new = S
    <3>1. /\ v.executed \subseteq v.outputs /\ v.committed \subseteq Settled(v)
          /\ Settled(v) \cap v.outputs = {}
      BY GoodSets DEF Good, UseShape, Committing
    <3>2. ASSUME S \subseteq v.executed PROVE new = S
      BY <3>1, <3>2
    <3>3. ASSUME S \subseteq v.committed, new # {} PROVE new = S
      <4>1. S \subseteq Settled(v) /\ S \cap Evaluators(v, r) # {}
        BY <3>1, <3>3
      <4>2. S \subseteq Evaluators(v, r)
        BY <4>1
      <4> QED
        BY <3>3, <4>2
    <3> QED
      BY <3>2, <3>3 DEF IsCommitted
  <2>4. ASSUME NEW a \in w.flush.decode
        PROVE  \E l, h \in Int : a \in l .. h /\ l .. h \subseteq w.flush.decode /\ ~(l .. h \subseteq w.decoded)
    <3>1. CASE a \in v.flush.decode
      BY <2>1, <3>1 DEF Fresh
    <3>2. CASE a \in new /\ S \cap v.decoded = {}
      <4>1. a \in Int /\ a \notin w.decoded
        BY <2>1, <3>2
      <4>2. a .. a \subseteq w.flush.decode /\ ~(a .. a \subseteq w.decoded) /\ a \in a .. a
        BY <2>4, <4>1, Alone
      <4> QED
        BY <4>1, <4>2
    <3>3. CASE a \in new /\ IsCommitted(v, S)
      <4>1. new = S
        BY <2>3, <3>3
      <4>2. a \in lo .. hi /\ lo .. hi \subseteq w.flush.decode /\ ~(lo .. hi \subseteq w.decoded)
        BY <1>2, <2>1, <2>2, <3>3, <4>1
      <4> QED
        BY <4>2
    <3> QED
      BY <2>2, <3>1, <3>2, <3>3
  <2>5. /\ w.committed \cap (w.flush.macs \cup w.flush.ot) = {} /\ w.informed \cap w.flush.info = {}
        /\ w.decoded \cup w.flush.decode \subseteq w.committed \cup w.executed
        /\ w.flush.decode \subseteq Evaluators(w, r) \cup w.outputs
    BY <2>1, <2>2 DEF Fresh
  <2>6. Fresh(w, r)
    BY <2>4, <2>5 DEF Fresh
  <2> QED
    BY <2>6 DEF w
<1> QED
  BY <1>1, <1>2

\* A slice that is marked is marked for one party.
LEMMA OneOwner ==
  ASSUME NEW v, NEW p \in Roles, Good(v, p), Owned(p, v), NEW i \in Inputs, NEW S, S \subseteq InputSlice(i),
         S \subseteq Settled(v)
  PROVE  /\ S \cap Evaluators(v, p) # {} => S \subseteq Evaluators(v, p)
         /\ S \cap v.vis.public # {} => S \subseteq v.vis.public
<1>1. Settled(v) = v.vis.public \cup v.vis.private \cup v.vis.blind
  BY GoodSets DEF Settled
<1>2. /\ InputSlice(i) \cap v.vis.public # {} => Owner[i] = "public"
      /\ InputSlice(i) \cap v.vis.private # {} => Owner[i] = p
      /\ InputSlice(i) \cap v.vis.blind # {} => Owner[i] = Peer(p)
  BY DEF Owned
<1>3. p # "public" /\ Peer(p) # "public" /\ p # Peer(p)
  BY DEF Roles, Peer
<1>4. \/ Owner[i] = "public" /\ S \subseteq v.vis.public
      \/ Owner[i] = p /\ S \subseteq v.vis.private
      \/ Owner[i] = Peer(p) /\ S \subseteq v.vis.blind
      \/ S = {}
  BY <1>1, <1>2, <1>3
<1>5. v.vis.public \cap (v.vis.private \cup v.vis.blind) = {} /\ v.vis.private \cap v.vis.blind = {}
  BY GoodSets DEF Good, VisShape
<1> QED
  BY <1>4, <1>5 DEF Evaluators
-----------------------------------------------------------------------------
\* What the steps of the machines do to a view.
Worked(v, w, n) ==
  \/ w = v \/ w = CompleteFlush(v)
  \/ \E K \in SUBSET (1 .. n) :
       \/ w = SetPreprocessed(v, Outs(K)) /\ Outs(K) \cap v.preprocessed = {}
       \/ w = SetOutput(v, Outs(K))

\* See Worked.
LEMMA MachineWorks ==
  ASSUME PartiesInv, Garbler \/ Evaluator, NEW p \in Roles
  PROVE  Worked(view[p], view'[p], calls) /\ calls' = calls
<1>0. /\ view = [q \in Roles |-> view[q]]
      /\ \A q \in Roles : Sound(q, calls, view[q], pre[q], stack[q], taken[q], batch[q], rest[q], pc[q])
  BY Zenon DEF PartiesInv, Tables, PartyInv
<1>1. \/ UNCHANGED view
      \/ \E q \in Roles : \/ view' = [view EXCEPT ![q] = CompleteFlush(view[q])]
                          \/ (PreprocessEnd(q) /\ q = "e") \/ ExecutePreprocessed(q)
      \/ \E k \in batch["g"] : Generate(k)
      \/ \E k \in batch["e"] : Evaluate(k)
  <2>1. CASE GarblerSendFlush \/ EvaluatorSendFlush
    BY <2>1 DEF GarblerSendFlush, EvaluatorSendFlush, Fail
  <2>2. CASE GarblerReceiveFlush
    BY <2>2 DEF GarblerReceiveFlush, Fail, Roles
  <2>3. CASE EvaluatorReceiveFlush
    BY <2>3 DEF EvaluatorReceiveFlush, Fail, Roles
  <2>4. ASSUME NEW k, ReceiveGarbledCircuit(k) PROVE UNCHANGED view
    BY <2>4 DEF ReceiveGarbledCircuit
  <2>5. ASSUME NEW q \in Roles, Party(q)
        PROVE  \/ UNCHANGED view \/ ExecutePreprocessed(q)
               \/ PreprocessEnd(q) /\ q = "e"
    <3>1. CASE PreprocessBatch(q) \/ ExecuteAll(q) \/ ExecuteBatch(q)
      BY <3>1 DEF PreprocessBatch, ExecuteAll, ExecuteBatch
    <3>2. CASE ExecuteEnd(q)
      BY <3>2 DEF ExecuteEnd, Fail
    <3>3. CASE PreprocessEnd(q) /\ q = "g"
      BY <1>0, <3>3 DEF PreprocessEnd
    <3> QED
      BY <2>5, <3>1, <3>2, <3>3 DEF Party, Roles
  <2> QED
    BY <2>1, <2>2, <2>3, <2>4, <2>5 DEF Garbler, Evaluator, Roles
<1>2. ASSUME UNCHANGED view PROVE Worked(view[p], view'[p], calls)
  <2>1. view'[p] = view[p]
    BY <1>2
  <2> QED
    BY <2>1, Zenon DEF Worked
<1>3. ASSUME NEW q \in Roles, view' = [view EXCEPT ![q] = CompleteFlush(view[q])]
      PROVE  Worked(view[p], view'[p], calls)
  BY <1>0, <1>3 DEF Worked
<1>4. ASSUME NEW q \in Roles, NEW K \in SUBSET (1 .. calls), NEW w, view' = [view EXCEPT ![q] = w],
             \/ w = SetPreprocessed(view[q], Outs(K)) /\ Outs(K) \cap view[q].preprocessed = {}
             \/ w = SetOutput(view[q], Outs(K))
      PROVE  Worked(view[p], view'[p], calls)
  <2>1. CASE p = q
    BY <1>0, <1>4, <2>1 DEF Worked
  <2>2. CASE p # q
    BY <1>0, <1>4, <2>2 DEF Worked
  <2> QED
    BY <2>1, <2>2
<1>5. ASSUME PreprocessEnd("e") PROVE Worked(view[p], view'[p], calls)
  <2> DEFINE K == taken["e"]
  <2>1. pc["e"] = "garble" /\ view' = [view EXCEPT !["e"] = MarkPreprocessed(view["e"], K)]
    BY <1>5 DEF PreprocessEnd
  <2>2. K \in SUBSET (1 .. calls) /\ \A k \in K : Out(k) \notin view["e"].preprocessed
    BY <1>0, <2>1, PeerFacts DEF Sound, Works, Places, Garbling
  <2>3. UNION {OutputSlice(k) : k \in K} = Outs(K)
    BY <1>0, <2>2, CallsOut, PeerFacts DEF Sound
  <2>4. Outs(K) \cap view["e"].preprocessed = {}
    BY <2>2 DEF Outs
  <2>5. MarkPreprocessed(view["e"], K) = SetPreprocessed(view["e"], Outs(K))
    BY <2>3 DEF MarkPreprocessed
  <2> QED
    BY <1>4, <2>1, <2>2, <2>4, <2>5, PeerFacts
<1>6. ASSUME NEW q \in Roles, ExecutePreprocessed(q) PROVE Worked(view[p], view'[p], calls)
  <2> DEFINE K == {k \in pre[q] : Ready(q, k)}
  <2>1. K \in SUBSET (1 .. calls)
    BY <1>0 DEF Sound, Works, Places
  <2>2. UNION {OutputSlice(k) : k \in K} = Outs(K)
    <3> HIDE DEF K
    <3> QED
      BY <1>0, <2>1, CallsOut DEF Sound
  <2>3. UNCHANGED view \/ view' = [view EXCEPT ![q] = SetOutput(view[q], Outs(K))]
    BY <1>6, <2>2 DEF ExecutePreprocessed, Fail
  <2> HIDE DEF K
  <2> QED
    BY <1>2, <1>4, <2>1, <2>3
<1>7. ASSUME NEW k \in batch["g"], Generate(k) PROVE Worked(view[p], view'[p], calls)
  <2>1. /\ SetOutput(SetPreprocessed(view["g"], Outs({k})), Outs({k})) = SetOutput(view["g"], Outs({k}))
        /\ Outs({k}) \cap view["g"].preprocessed = {} /\ k \in 1 .. calls
    BY <1>0, GeneratedAtOnce, PeerFacts
  <2>2. OutputSlice(k) = Outs({k})
    BY <1>0, <2>1, OutFacts, PeerFacts DEF Outs, Sound, Layout
  <2>3. \/ UNCHANGED view
        \/ view' = [view EXCEPT !["g"] = SetPreprocessed(view["g"], Outs({k}))]
        \/ view' = [view EXCEPT !["g"] = SetOutput(view["g"], Outs({k}))]
    BY <1>7, <2>1, <2>2 DEF Generate, Fail
  <2>4. {k} \in SUBSET (1 .. calls)
    BY <2>1
  <2> QED
    BY <1>2, <1>4, <2>1, <2>3, <2>4, PeerFacts
<1>8. ASSUME NEW k \in batch["e"], Evaluate(k) PROVE Worked(view[p], view'[p], calls)
  <2>1. k \in 1 .. calls /\ {k} \in SUBSET (1 .. calls)
    BY <1>0, PeerFacts DEF Sound, Works, Places
  <2>2. OutputSlice(k) = Outs({k})
    BY <1>0, <2>1, OutFacts, PeerFacts DEF Outs, Sound, Layout
  <2>3. UNCHANGED view \/ view' = [view EXCEPT !["e"] = SetOutput(view["e"], Outs({k}))]
    BY <1>8, <2>2 DEF Evaluate, Fail
  <2> QED
    BY <1>2, <1>4, <2>1, <2>3, PeerFacts
<1>9. calls' = calls
  <2>1. ASSUME NEW q \in Roles, Party(q) PROVE calls' = calls
    BY <2>1 DEF Party, PreprocessBatch, PreprocessEnd, ExecuteAll, ExecutePreprocessed, ExecuteBatch,
                ExecuteEnd, Fail, machine
  <2>2. ASSUME NEW k, Generate(k) \/ ReceiveGarbledCircuit(k) \/ Evaluate(k) PROVE calls' = calls
    BY <2>2 DEF Generate, ReceiveGarbledCircuit, Evaluate, Fail, machine
  <2>3. CASE GarblerSendFlush \/ GarblerReceiveFlush \/ EvaluatorSendFlush \/ EvaluatorReceiveFlush
    BY <2>3 DEF GarblerSendFlush, GarblerReceiveFlush, EvaluatorSendFlush, EvaluatorReceiveFlush, Fail, machine
  <2> QED
    BY <2>1, <2>2, <2>3, PeerFacts DEF Garbler, Evaluator
<1> QED
  BY <1>1, <1>2, <1>3, <1>5, <1>6, <1>7, <1>8, <1>9

FreshInv == \A p \in Roles : Fresh(view[p], p) /\ Owned(p, view[p])

\* Nothing is asked for twice, whatever the machines do.
LEMMA FreshWorked ==
  ASSUME NEW p \in Roles, NEW v, NEW n, Good(v, p), Layout(v, n), Fresh(v, p), Owned(p, v),
         NEW w, Worked(v, w, n)
  PROVE  Fresh(w, p) /\ Owned(p, w)
<1>1. v \in ViewType
  BY DEF Good
<1>3. CASE w = v
  BY <1>3
<1>4. CASE w = CompleteFlush(v)
  <2>1. w.vis = v.vis
    BY <1>1, <1>4, CompleteFields DEF SameMemory
  <2>2. Fresh(w, p)
    BY <1>4, FreshComplete
  <2> QED
    BY <2>1, <2>2, OwnedKeeps
<1>5. ASSUME NEW K \in SUBSET (1 .. n),
             \/ w = SetPreprocessed(v, Outs(K)) /\ Outs(K) \cap v.preprocessed = {}
             \/ w = SetOutput(v, Outs(K))
      PROVE  Fresh(w, p) /\ Owned(p, w)
  <2>1. Outs(K) \in Addr /\ Outs(K) \subseteq v.outputs
    BY CallsOut
  <2>2. w.vis = v.vis
    BY <1>1, <1>5, <2>1, PreprocessedFields, OutputFields DEF SameMemory
  <2>3. Fresh(w, p)
    BY <1>5, <2>1, FreshPreprocessed, FreshOutput
  <2> QED
    BY <2>2, <2>3, OwnedKeeps
<1> QED
  BY <1>3, <1>4, <1>5 DEF Worked

\* See FreshWorked.
LEMMA FreshMachines ==
  ASSUME PartiesInv, FreshInv, Garbler \/ Evaluator PROVE FreshInv'
<1>1. ASSUME NEW p \in Roles PROVE Fresh(view'[p], p) /\ Owned(p, view'[p])
  <2>1. /\ Good(view[p], p) /\ Layout(view[p], calls)
        /\ Fresh(view[p], p) /\ Owned(p, view[p])
    BY DEF PartiesInv, PartyInv, Sound, FreshInv
  <2>2. Worked(view[p], view'[p], calls)
    BY MachineWorks
  <2> QED
    BY <2>1, <2>2, FreshWorked
<1> QED
  BY <1>1 DEF FreshInv
-----------------------------------------------------------------------------
\* What is decoded is a range, all of it outputs or all of it one party's.
LEMMA DecodedRange ==
  ASSUME PartiesInv, FreshInv, NEW p \in Roles,
         NEW S \in Slices \cup {OutputSlice(k) : k \in 1 .. calls}
  PROVE  /\ \E lo, hi \in Int : S = lo .. hi
         /\ S \subseteq Settled(view[p]) =>
              /\ S \cap Evaluators(view[p], p) # {} => S \subseteq Evaluators(view[p], p)
              /\ S \cap view[p].vis.public # {} => S \subseteq view[p].vis.public
<1>0. Good(view[p], p) /\ Layout(view[p], calls) /\ Owned(p, view[p])
  BY DEF PartiesInv, PartyInv, Sound, FreshInv
<1>1. CASE S \in Slices
  <2>1. PICK i \in Inputs : S \subseteq InputSlice(i) /\ \E a, b \in Int : S = a .. b
    BY <1>1, SliceAddr
  <2>2. S \subseteq Settled(view[p]) =>
          /\ S \cap Evaluators(view[p], p) # {} => S \subseteq Evaluators(view[p], p)
          /\ S \cap view[p].vis.public # {} => S \subseteq view[p].vis.public
    BY <1>0, <2>1, OneOwner
  <2> QED
    BY <2>1, <2>2
<1>2. ASSUME NEW k \in 1 .. calls, S = OutputSlice(k)
      PROVE  /\ \E lo, hi \in Int : S = lo .. hi
             /\ S \subseteq Settled(view[p]) =>
                  /\ S \cap Evaluators(view[p], p) # {} => S \subseteq Evaluators(view[p], p)
                  /\ S \cap view[p].vis.public # {} => S \subseteq view[p].vis.public
  <2>1. k \in Nat /\ calls \in Nat /\ Out(k) \in Int /\ S = {Out(k)}
    BY <1>0, <1>2, OutFacts DEF Layout
  <2>2. S = Out(k) .. Out(k)
    BY <2>1, Alone
  <2>3. Out(k) \in view[p].outputs /\ Settled(view[p]) \cap view[p].outputs = {}
    BY <1>0, GoodSets DEF Layout, Outs
  <2> QED
    BY <2>1, <2>2, <2>3
<1> QED
  BY <1>1, <1>2

\* See FreshInv: the operations of the applications.
LEMMA FreshApplication ==
  ASSUME Inv, PartiesInv, FreshInv, Application PROVE FreshInv'
<1>0. \A p \in Roles : /\ Good(view[p], p) /\ Layout(view[p], calls) /\ view[p] \in ViewType
                       /\ view[p].len = view["g"].len /\ Fresh(view[p], p) /\ Owned(p, view[p])
  BY DEF PartiesInv, PartyInv, Sound, Inv, TypeOK, Roles, FreshInv
<1>1. CASE AllocRaw \/ CallRaw
  <2>1. PICK n \in Nat : \A p \in Roles : view'[p] \in {AllocInput(view[p], n), AllocOutput(view[p], n)}
    <3>1. ASSUME AllocRaw
          PROVE  NextSize \in Nat /\ \A p \in Roles : view'[p] = AllocInput(view[p], NextSize)
      BY <3>1, NextInput DEF AllocRaw, NextSize
    <3>2. ASSUME CallRaw
          PROVE  1 \in Nat /\ \A p \in Roles : view'[p] = AllocOutput(view[p], 1)
      BY <3>2 DEF CallRaw
    <3> QED
      BY <1>1, <3>1, <3>2
  <2> QED
    BY <1>0, <2>1, FreshAlloc DEF FreshInv
<1>2. ASSUME NEW i \in Allocated, MarkRaw(i) PROVE FreshInv'
  <2> DEFINE S == InputSlice(i)
  <2>1. \A p \in Roles : CanMark(view[p], S)
    BY <1>2 DEF MarkRaw
  <2>2. \A p \in Roles : Below(S, view[p].len) /\ i \in Inputs
    BY <1>0 DEF Allocated, Below
  <2>3. \A p \in Roles : view'[p] = (IF Owner[i] = "public" THEN MarkPublic(view[p], S)
                                     ELSE IF Owner[i] = p THEN MarkPrivate(view[p], S)
                                     ELSE MarkBlind(view[p], S))
    BY <1>2 DEF MarkRaw
  <2>4. \A p \in Roles : Fresh(view'[p], p) /\ Owned(p, view'[p])
    BY <1>0, <2>1, <2>2, <2>3, FreshMark
  <2> QED
    BY <2>4 DEF FreshInv
<1>3. ASSUME NEW S \in Slices, NEW bits \in Values, AssignRaw(S, bits) PROVE FreshInv'
  <2>1. S \in Addr /\ \A p \in Roles : view'[p] = Assign(view[p], S) \/ view'[p] = view[p]
    BY <1>3, SliceAddr DEF AssignRaw
  <2>2. \A p \in Roles : Fresh(view'[p], p) /\ Owned(p, view'[p])
    BY <1>0, <2>1, FreshAssign
  <2> QED
    BY <2>2 DEF FreshInv
<1>4. ASSUME NEW S \in Slices, CommitRaw(S) PROVE FreshInv'
  <2>1. S \in Addr /\ \A p \in Roles : CanCommit(view[p], S) /\ view'[p] = Commit(view[p], p, S)
    BY <1>4, SliceAddr DEF CommitRaw
  <2>2. \A p \in Roles : Fresh(view'[p], p) /\ view'[p].vis = view[p].vis
    BY <1>0, <2>1, FreshCommit, CommitFields DEF SameMemory
  <2> QED
    BY <1>0, <2>2, OwnedKeeps DEF FreshInv
<1>5. ASSUME NEW S \in Slices \cup {OutputSlice(k) : k \in 1 .. calls}, DecodeRaw(S) PROVE FreshInv'
  <2>1. \A p \in Roles : /\ S \subseteq view[p].outputs \/ VisIsSet(view[p].vis, view[p].len, S)
                         /\ S \cap view[p].decoded = {} \/ IsCommitted(view[p], S)
                         /\ view'[p] = Decode(view[p], p, S)
    BY <1>5 DEF DecodeRaw
  <2>2. S \in Addr /\ S \subseteq Nat
    BY <1>0, DecodedAddr, PeerFacts DEF Layout
  <2>3. ASSUME NEW p \in Roles PROVE Fresh(view'[p], p) /\ Owned(p, view'[p])
    <3>1. PICK lo \in Int : \E hi \in Int : S = lo .. hi
      BY DecodedRange
    <3>2. PICK hi \in Int : S = lo .. hi
      BY <3>1
    <3>3. S \subseteq Settled(view[p]) /\ S \cap Evaluators(view[p], p) # {}
            => S \subseteq Evaluators(view[p], p)
      BY DecodedRange
    <3>4. Fresh(Decode(view[p], p, S), p)
      BY <1>0, <2>1, <2>2, <3>2, <3>3, FreshDecode
    <3>5. Decode(view[p], p, S).vis = view[p].vis
      BY <1>0, DecodeKeeps DEF SameMemory
    <3> QED
      BY <1>0, <2>1, <3>4, <3>5, OwnedKeeps
  <2> QED
    BY <2>3 DEF FreshInv
<1>6. CASE StartFlush \/ StartPreprocess \/ StartExecuteAll
  <2>1. view' = view
    BY <1>6 DEF StartFlush, StartPreprocess, StartExecuteAll
  <2> QED
    BY <2>1 DEF FreshInv
<1> QED
  BY <1>1, <1>2, <1>3, <1>4, <1>5, <1>6 DEF Application

\* See FreshInv: at the start.
LEMMA FreshInit == ASSUME Init PROVE FreshInv
BY DEF Init, FreshInv, NewView, NewVisibility, EmptyFlush, Fresh, Owned, Roles

\* See FreshInv.
LEMMA FreshStep ==
  ASSUME Inv, PartiesInv, FreshInv, [Next]_vars PROVE FreshInv'
<1>1. ASSUME UNCHANGED vars PROVE FreshInv'
  BY <1>1 DEF vars, FreshInv
<1> QED
  BY <1>1, FreshApplication, FreshMachines DEF Next
-----------------------------------------------------------------------------
(***************************************************************************)
(* take_preprocess_calls leaves out the calls that depend on one still to  *)
(* be garbled, so the calls being garbled never read an output without a   *)
(* key.                                                                    *)
(***************************************************************************)
Independent(p) ==
  pc[p] = "garble" =>
    \A k \in batch[p], j \in batch[p] \cup rest[p] : j < k => Out(j) \notin CallInputs[k]

IndependentInv == \A p \in Roles : Independent(p)

\* Calls leave the batch, or preprocess ends.
LEMMA IndependentKeeps ==
  ASSUME NEW p \in Roles, Independent(p),
         \/ pc'[p] # "garble" \/ batch'[p] = {}
         \/ pc'[p] = pc[p] /\ batch'[p] \subseteq batch[p] /\ rest'[p] \subseteq rest[p]
  PROVE  Independent(p)'
<1>1. CASE pc'[p] # "garble" \/ batch'[p] = {}
  BY <1>1 DEF Independent
<1>2. CASE pc'[p] = pc[p] /\ batch'[p] \subseteq batch[p] /\ rest'[p] \subseteq rest[p]
  BY <1>2 DEF Independent, Out, NumInputs
<1> QED
  BY <1>1, <1>2

\* What a step of party q leaves of this: it moves no call of the other.
LEMMA TasksStep ==
  ASSUME PartiesInv, NEW q \in Roles, NEW p \in Roles, Party(q), ~(PreprocessBatch(q) /\ p = q)
  PROVE  \/ pc'[p] # "garble" \/ batch'[p] = {}
         \/ pc'[p] = pc[p] /\ batch'[p] \subseteq batch[p] /\ rest'[p] \subseteq rest[p]
<1>0. Tables
  BY DEF PartiesInv
<1>1. ASSUME PreprocessBatch(q), p # q
      PROVE  pc'[p] = pc[p] /\ batch'[p] = batch[p] /\ rest'[p] = rest[p]
  BY <1>0, <1>1 DEF PreprocessBatch, Tables
<1>2. ASSUME \/ PreprocessEnd(q) \/ ExecuteAll(q) \/ ExecutePreprocessed(q)
             \/ ExecuteBatch(q) \/ ExecuteEnd(q)
      PROVE  /\ rest' = rest
             /\ \/ batch' = batch /\ pc' = pc
                \/ \E w \in Labels \ {"garble"} : pc' = [pc EXCEPT ![q] = w] /\ batch' = batch
                \/ pc' = [pc EXCEPT ![q] = "execute"] /\ \E B : batch' = [batch EXCEPT ![q] = B]
  <2>1. CASE PreprocessEnd(q)
    BY <2>1 DEF PreprocessEnd, Return, Labels
  <2>2. CASE ExecuteAll(q)
    <3> DEFINE w == CASE WantsFlush(view[q]) -> "flush"
                      [] ~WantsFlush(view[q]) /\ WantsExecute(q) -> "marking"
                      [] OTHER -> "idle"
    <3>1. w \in Labels \ {"garble"}
      BY DEF Labels
    <3>2. pc' = [pc EXCEPT ![q] = w] /\ batch' = batch /\ rest' = rest
      BY <2>2 DEF ExecuteAll, Return, tasks
    <3> QED
      BY <3>1, <3>2
  <2>3. CASE ExecutePreprocessed(q)
    BY <2>3 DEF ExecutePreprocessed, Fail, tasks
  <2>4. CASE ExecuteBatch(q)
    BY <2>4 DEF ExecuteBatch, Return
  <2>5. CASE ExecuteEnd(q)
    <3>1. \/ pc' = [pc EXCEPT ![q] = "remarking"] \/ pc' = [pc EXCEPT ![q] = "loop"] \/ pc' = pc
      <4>1. CASE q = "g"
        BY <2>5, <4>1 DEF ExecuteEnd, Return
      <4>2. CASE q = "e" /\ CommitmentsHold(macs, info)
        BY <2>5, <4>2 DEF ExecuteEnd, Return
      <4>3. CASE q = "e" /\ ~CommitmentsHold(macs, info)
        BY <2>5, <4>3 DEF ExecuteEnd, Fail
      <4> QED
        BY <4>1, <4>2, <4>3 DEF Roles
    <3>2. batch' = batch /\ rest' = rest
      BY <2>5 DEF ExecuteEnd, Fail, tasks
    <3> QED
      BY <3>1, <3>2 DEF Labels
  <2> QED
    BY <1>2, <2>1, <2>2, <2>3, <2>4, <2>5
<1>3. ASSUME \/ batch' = batch /\ pc' = pc
             \/ \E w \in Labels \ {"garble"} : pc' = [pc EXCEPT ![q] = w] /\ batch' = batch
             \/ pc' = [pc EXCEPT ![q] = "execute"] /\ \E B : batch' = [batch EXCEPT ![q] = B],
             rest' = rest
      PROVE  \/ pc'[p] # "garble"
             \/ pc'[p] = pc[p] /\ batch'[p] \subseteq batch[p] /\ rest'[p] \subseteq rest[p]
  BY <1>0, <1>3 DEF Tables
<1> QED
  BY <1>1, <1>2, <1>3 DEF Party

\* See Independent.
LEMMA IndependentStep ==
  ASSUME PartiesInv, IndependentInv, [Next]_vars PROVE IndependentInv'
<1> SUFFICES ASSUME NEW p \in Roles PROVE Independent(p)'
  BY DEF IndependentInv
<1>0. Independent(p) /\ Tables
  BY DEF IndependentInv, PartiesInv
<1>1. ASSUME pc' = pc, batch' = batch, rest' = rest PROVE Independent(p)'
  BY <1>0, <1>1, IndependentKeeps
<1>2. CASE UNCHANGED vars
  BY <1>1, <1>2 DEF vars, tasks
<1>3. ASSUME NEW q \in Roles, Party(q) PROVE Independent(p)'
  <2>1. CASE ~(PreprocessBatch(q) /\ p = q)
    BY <1>0, <1>3, <2>1, TasksStep, IndependentKeeps
  <2>2. CASE PreprocessBatch(q) /\ p = q
    <3>1. /\ batch'[p] = TakePreprocessCalls(rest[p]) /\ rest'[p] = rest[p] \ TakePreprocessCalls(rest[p])
      BY <1>0, <2>2 DEF PreprocessBatch, Tables
    <3>2. batch'[p] \cup rest'[p] = rest[p]
      BY <3>1 DEF TakePreprocessCalls
    <3>3. \A k \in batch'[p], j \in batch'[p] \cup rest'[p] : j < k => Out(j) \notin CallInputs[k]
      BY <3>1, <3>2 DEF TakePreprocessCalls
    <3> QED
      BY <3>3 DEF Independent, Out, NumInputs
  <2> QED
    BY <2>1, <2>2
<1>4. ASSUME GarblerSendFlush \/ GarblerReceiveFlush \/ EvaluatorSendFlush \/ EvaluatorReceiveFlush
      PROVE  Independent(p)'
  <2>1. batch' = batch /\ rest' = rest
    BY <1>4 DEF GarblerSendFlush, GarblerReceiveFlush, EvaluatorSendFlush, EvaluatorReceiveFlush,
                Fail, tasks
  <2>2. pc' = pc \/ \E q \in Roles, w \in {"await", "flush", ret["g"], ret["e"]} : pc' = [pc EXCEPT ![q] = w]
    BY <1>4, PeerFacts DEF GarblerSendFlush, GarblerReceiveFlush, EvaluatorSendFlush,
                EvaluatorReceiveFlush, Fail, Return, EndFlush
  <2>3. ret["g"] \in {"idle", "loop"} /\ ret["e"] \in {"idle", "loop"}
    BY <1>0, PeerFacts DEF Tables
  <2>4. pc'[p] # "garble" \/ pc'[p] = pc[p]
    BY <1>0, <2>2, <2>3 DEF Tables
  <2> QED
    BY <1>0, <2>1, <2>4, IndependentKeeps
<1>5. ASSUME NEW k, Generate(k) \/ ReceiveGarbledCircuit(k) \/ Evaluate(k) PROVE Independent(p)'
  <2>1. /\ pc' = pc /\ rest' = rest
        /\ batch' = batch \/ \E q \in Roles : batch' = [batch EXCEPT ![q] = batch[q] \ {k}]
    BY <1>5, PeerFacts DEF Generate, ReceiveGarbledCircuit, Evaluate, Fail, FinishTask, tasks
  <2>2. batch'[p] \subseteq batch[p]
    BY <1>0, <2>1 DEF Tables
  <2> QED
    BY <1>0, <2>1, <2>2, IndependentKeeps
<1>6. ASSUME Application PROVE Independent(p)'
  <2>1. CASE StartFlush \/ StartExecuteAll
    <3>1. pc'[p] # "garble"
      BY <2>1 DEF StartFlush, StartExecuteAll
    <3> QED
      BY <1>0, <3>1, IndependentKeeps
  <2>2. CASE StartPreprocess
    <3>1. pc[p] = "idle" /\ batch' = batch
      BY <2>2 DEF StartPreprocess, StartJoint, Idle
    <3>2. batch[p] = {}
      BY <3>1 DEF PartiesInv, PartyInv, Sound, Works, Garbling
    <3> QED
      BY <1>0, <3>1, <3>2, IndependentKeeps
  <2>3. CASE AllocRaw \/ (\E i \in Allocated : MarkRaw(i)) \/ CallRaw
    BY <1>1, <2>3 DEF AllocRaw, MarkRaw, CallRaw, tasks
  <2>4. CASE \/ \E S \in Slices, bits \in Values : AssignRaw(S, bits)
             \/ \E S \in Slices : CommitRaw(S)
             \/ \E S \in Slices \cup {OutputSlice(k) : k \in 1 .. calls} : DecodeRaw(S)
    BY <1>1, <2>4 DEF AssignRaw, CommitRaw, DecodeRaw, tasks
  <2> QED
    BY <1>6, <2>1, <2>2, <2>3, <2>4 DEF Application
<1> QED
  BY <1>2, <1>3, <1>4, <1>5, <1>6, PeerFacts DEF Next, Garbler, Evaluator
-----------------------------------------------------------------------------
(***************************************************************************)
(* What is collected address by address and spread again is the same.      *)
(***************************************************************************)
LEMMA RankFacts ==
  ASSUME NEW S \in Addr, IsFiniteSet(S)
  PROVE  /\ Cardinality(S) \in Nat
         /\ \A a \in S : Rank(S, a) \in 1 .. Cardinality(S)
         /\ \A a, b \in S : Rank(S, a) = Rank(S, b) => a = b
         /\ \A i \in 1 .. Cardinality(S) : \E a \in S : Rank(S, a) = i
<1> DEFINE n == Cardinality(S)
           upTo(a) == {b \in S : b <= a}
<1>1. n \in Nat
  BY FS_CardinalityType
<1>2. ASSUME NEW a \in S PROVE IsFiniteSet(upTo(a)) /\ Rank(S, a) \in 1 .. n
  <2>1. upTo(a) \in SUBSET S /\ a \in upTo(a)
    BY DEF Addr
  <2>2. IsFiniteSet(upTo(a)) /\ Cardinality(upTo(a)) <= n
    BY <2>1, FS_Subset
  <2>3. Cardinality(upTo(a)) \in Nat /\ Cardinality(upTo(a)) # 0
    BY <2>1, <2>2, FS_CardinalityType, FS_EmptySet
  <2>4. Rank(S, a) = Cardinality(upTo(a))
    BY DEF Rank
  <2> HIDE DEF upTo, n
  <2> QED
    BY <1>1, <2>2, <2>3, <2>4
<1>3. ASSUME NEW a \in S, NEW b \in S, a < b PROVE Rank(S, a) # Rank(S, b)
  <2>1. upTo(a) \in SUBSET upTo(b) /\ b \in upTo(b) /\ b \notin upTo(a)
    <3>1. a \in Int /\ b \in Int /\ \A c \in S : c \in Int
      BY DEF Addr
    <3>2. \A c \in S : c <= a => c <= b
      BY <1>3, <3>1
    <3>3. b <= b /\ ~(b <= a)
      BY <1>3, <3>1
    <3> QED
      BY <3>2, <3>3
  <2>2. Cardinality(upTo(a)) # Cardinality(upTo(b))
    <3> HIDE DEF upTo
    <3>1. IsFiniteSet(upTo(b))
      BY <1>2
    <3> QED
      BY <2>1, <3>1, FS_Subset
  <2> QED
    BY <2>2 DEF Rank
<1>4. ASSUME NEW a \in S, NEW b \in S, Rank(S, a) = Rank(S, b) PROVE a = b
  <2>1. a \in Int /\ b \in Int
    BY DEF Addr
  <2>2. ~(a < b) /\ ~(b < a)
    BY <1>3, <1>4
  <2> QED
    BY <2>1, <2>2
<1>5. \A i \in 1 .. n : \E a \in S : Rank(S, a) = i
  <2> DEFINE f == [a \in S |-> Rank(S, a)]
  <2>1. f \in [S -> 1 .. n]
    BY <1>2
  <2>2. f \in Injection(S, 1 .. n)
    BY <1>4, <2>1 DEF Injection, IsInjective
  <2>3. IsFiniteSet(1 .. n) /\ Cardinality(1 .. n) = n
    <3>1. IsFiniteSet(1 .. n) /\ Cardinality(1 .. n) = IF 1 > n THEN 0 ELSE n - 1 + 1
      BY <1>1, FS_Interval
    <3> QED
      BY <1>1, <3>1
  <2>4. f \in Surjection(S, 1 .. n)
    <3> HIDE DEF f
    <3> QED
      BY <2>2, <2>3, FS_Injection
  <2>5. \A i \in 1 .. n : \E a \in S : f[a] = i
    BY <2>4 DEF Surjection
  <2> QED
    BY <2>5
<1> QED
  BY <1>1, <1>2, <1>4, <1>5

\* See RankFacts.
LEMMA CollectFacts ==
  ASSUME NEW S \in Addr, IsFiniteSet(S), NEW f
  PROVE  /\ Len(Collect(S, f)) = Cardinality(S)
         /\ Spread(S, Collect(S, f)) = [a \in S |-> f[a]]
<1> DEFINE n == Cardinality(S)
           seq == Collect(S, f)
<1>0. n \in Nat
  BY RankFacts
<1>1. seq = [i \in 1 .. n |-> f[CHOOSE a \in S : Rank(S, a) = i]]
  BY DEF Collect
<1>2. Len(seq) = n
  <2> HIDE DEF n
  <2> QED
    BY <1>0, <1>1
<1>3. ASSUME NEW a \in S PROVE seq[Rank(S, a)] = f[a]
  <2>1. Rank(S, a) \in 1 .. n
    BY RankFacts
  <2>2. (CHOOSE b \in S : Rank(S, b) = Rank(S, a)) = a
    BY RankFacts
  <2> QED
    BY <1>1, <2>1, <2>2
<1>4. Spread(S, seq) = [a \in S |-> f[a]]
  BY <1>3 DEF Spread
<1> QED
  BY <1>2, <1>4

\* Only what S maps to is collected.
LEMMA CollectSame ==
  ASSUME NEW S \in Addr, IsFiniteSet(S), NEW f, NEW h, \A a \in S : f[a] = h[a]
  PROVE  Collect(S, f) = Collect(S, h)
<1>1. ASSUME NEW i \in 1 .. Cardinality(S)
      PROVE  (CHOOSE a \in S : Rank(S, a) = i) \in S
  BY RankFacts
<1> QED
  BY <1>1 DEF Collect

\* A slice around an address of S, of which S is the union of the runs.
LEMMA RunAround ==
  ASSUME NEW S \in Addr, NEW R \in Runs(S)
  PROVE  \E a \in S : \A lo, hi \in Int : a \in lo .. hi /\ lo .. hi \subseteq S => lo .. hi \subseteq R
<1>1. PICK a \in S : R = {b \in S : (a .. b) \cup (b .. a) \subseteq S}
  BY DEF Runs
<1>2. ASSUME NEW lo \in Int, NEW hi \in Int, a \in lo .. hi, lo .. hi \subseteq S, NEW b \in lo .. hi
      PROVE  b \in R
  <2>1. a .. b \subseteq lo .. hi /\ b .. a \subseteq lo .. hi
    BY <1>2
  <2> QED
    BY <1>1, <1>2, <2>1
<1> QED
  BY <1>2

\* What a view holds is finite.
LEMMA Finite ==
  ASSUME NEW v, NEW r \in Roles, Good(v, r), NEW S, S \subseteq v.inputs \cup v.outputs
  PROVE  IsFiniteSet(S) /\ S \in Addr
<1>1. v.len \in Int /\ S \subseteq 0 .. v.len - 1
  BY DEF Good, VisShape
<1>2. IsFiniteSet(0 .. v.len - 1)
  BY <1>1, FS_Interval
<1>3. IsFiniteSet(S)
  BY <1>1, <1>2, FS_Subset
<1> QED
  BY <1>1, <1>3 DEF Addr

\* The flush view in particular.
LEMMA FiniteFlush ==
  ASSUME NEW v, NEW r \in Roles, Good(v, r)
  PROVE  \A S \in {v.flush.macs, v.flush.ot, v.flush.info, v.flush.decode} : IsFiniteSet(S) /\ S \in Addr
<1>1. Settled(v) \cup v.outputs \subseteq v.inputs \cup v.outputs
  BY DEF Good, VisShape
<1>2. \A S \in {v.flush.macs, v.flush.ot, v.flush.info, v.flush.decode} : S \subseteq v.inputs \cup v.outputs
  BY <1>1 DEF Good, UseShape, Committing
<1> QED
  BY <1>2, Finite
-----------------------------------------------------------------------------
(***************************************************************************)
(* What the stores hold.  A party knows the bits it assigned and those it  *)
(* decoded; the garbler has keys of inputs and of preprocessed outputs,    *)
(* used up once committed; the evaluator has the MACs of what is committed *)
(* or executed, each of the address's own key, and genuine decode          *)
(* information of what is informed.  Only during the calls of execute_all  *)
(* may an address be decodable and not decoded.                            *)
(***************************************************************************)
GarblerHolds(v, d, k, u, label) ==
  /\ v.assigned \cup v.decoded \subseteq DOMAIN d
  /\ DOMAIN d \subseteq v.vis.visible \cup v.decoded
  /\ k = v.inputs \cup v.preprocessed
  /\ u = v.committed \cup (IF label = "await" THEN FlushKeys(v) ELSE {})
  /\ \A a \in DOMAIN d : d[a] \in Bits

Genuine(m, i) ==
  /\ \A a \in DOMAIN m : a \in Int /\ \E b \in Bits : m[a] = Mac(a, b)
  /\ \A a \in DOMAIN i : i[a] = [bit |-> KeyPointer(a), commitment |-> a]

EvaluatorHolds(v, d, m, i, label) ==
  /\ v.assigned \subseteq DOMAIN d
  /\ DOMAIN m = v.committed \cup v.executed /\ DOMAIN i = v.informed
  /\ label # "execute" => DOMAIN m \cap DOMAIN i \subseteq DOMAIN d
  /\ \A a \in DOMAIN d : d[a] \in Bits
  /\ Genuine(m, i)

Holds ==
  /\ GarblerHolds(view["g"], data["g"], keys, keyUsed, pc["g"])
  /\ EvaluatorHolds(view["e"], data["e"], macs, info, pc["e"])

\* Pointer bits hide a bit and reveal it again.
LEMMA Unmask ==
  ASSUME NEW a \in Int, NEW b \in Bits
  PROVE  /\ Xor(KeyPointer(a), b) \in Bits
         /\ Xor(KeyPointer(a), Xor(KeyPointer(a), b)) = b
         /\ Xor(Xor(KeyPointer(a), b), KeyPointer(a)) = b
         /\ MacPointer(Mac(a, b)) = Xor(KeyPointer(a), b)
<1>1. KeyPointer(a) \in {0, 1}
  BY DEF KeyPointer
<1>2. MacPointer(Mac(a, b)) = Xor(KeyPointer(a), b)
  BY DEF MacPointer, Mac
<1> HIDE DEF KeyPointer
<1>3. Xor(0, 0) = 0 /\ Xor(0, 1) = 1 /\ Xor(1, 0) = 1 /\ Xor(1, 1) = 0
  BY DEF Xor
<1> QED
  BY <1>1, <1>2, <1>3 DEF Bits

\* Writing over a store.
LEMMA OverlayFacts ==
  ASSUME NEW new, NEW store
  PROVE  /\ DOMAIN Overlay(new, store) = DOMAIN new \cup DOMAIN store
         /\ \A a \in DOMAIN new : Overlay(new, store)[a] = new[a]
         /\ \A a \in DOMAIN store \ DOMAIN new : Overlay(new, store)[a] = store[a]
BY DEF Overlay

\* Genuine MACs and decode information decode to what was authenticated.
LEMMA DecodesGenuine ==
  ASSUME NEW m, NEW i, Genuine(m, i), \A a \in DOMAIN data["e"] : data["e"][a] \in Bits
  PROVE  /\ CommitmentsHold(m, i)
         /\ DOMAIN DecodeMacs(m, i) = DOMAIN data["e"] \cup (DOMAIN m \cap DOMAIN i)
         /\ \A a \in DOMAIN DecodeMacs(m, i) : DecodeMacs(m, i)[a] \in Bits
<1>1. ASSUME NEW a \in Decodable(m, i)
      PROVE  DecodedBit(m, i, a) \in Bits /\ m[a] = Mac(i[a].commitment, DecodedBit(m, i, a))
  <2>1. a \in Int /\ i[a] = [bit |-> KeyPointer(a), commitment |-> a]
    BY DEF Decodable, Genuine
  <2>2. PICK b \in Bits : m[a] = Mac(a, b)
    BY DEF Decodable, Genuine
  <2>3. DecodedBit(m, i, a) = Xor(Xor(KeyPointer(a), b), KeyPointer(a))
    <3>1. MacPointer(m[a]) = Xor(KeyPointer(a), b) /\ i[a].bit = KeyPointer(a)
      BY <2>1, <2>2, Unmask
    <3> QED
      BY <3>1 DEF DecodedBit
  <2>4. DecodedBit(m, i, a) = b
    BY <2>1, <2>3, Unmask
  <2> QED
    BY <2>1, <2>2, <2>4
<1>2. CommitmentsHold(m, i)
  BY <1>1 DEF CommitmentsHold
<1> DEFINE new == [a \in Decodable(m, i) |-> DecodedBit(m, i, a)]
<1>3. DecodeMacs(m, i) = Overlay(new, data["e"]) /\ DOMAIN new = Decodable(m, i)
      /\ \A a \in Decodable(m, i) : new[a] \in Bits
  BY <1>1 DEF DecodeMacs
<1> HIDE DEF new
<1> DEFINE old == data["e"]
<1> HIDE DEF old
<1>6. /\ DOMAIN Overlay(new, old) = DOMAIN new \cup DOMAIN old
      /\ \A a \in DOMAIN new : Overlay(new, old)[a] = new[a]
      /\ \A a \in DOMAIN old \ DOMAIN new : Overlay(new, old)[a] = old[a]
  BY OverlayFacts
<1>7. DecodeMacs(m, i) = Overlay(new, old)
  BY <1>3 DEF old
<1>8. \A a \in DOMAIN old : old[a] \in Bits
  BY DEF old
<1>4. DOMAIN DecodeMacs(m, i) = Decodable(m, i) \cup DOMAIN old
  BY <1>3, <1>6, <1>7
<1>5. \A a \in DOMAIN DecodeMacs(m, i) : DecodeMacs(m, i)[a] \in Bits
  BY <1>3, <1>6, <1>7, <1>8
<1> QED
  BY <1>2, <1>4, <1>5 DEF Decodable, old
-----------------------------------------------------------------------------
\* The garbler's flush: every MAC it sends is of an unused key and of a bit
\* it knows.
LEMMA GarblerSends ==
  ASSUME NEW v, Good(v, "g"), Fresh(v, "g"), GarblerHolds(v, data["g"], keys, keyUsed, "flush")
  PROVE  /\ GarblerCanSend(v) /\ MacsFit(GarblerFlush(v), v.flush)
         /\ GarblerHolds(v, data["g"], keys, keyUsed \cup FlushKeys(v), "await")
<1> DEFINE d == data["g"]
<1>0. "g" \in Roles
  BY DEF Roles
<1>1. /\ v.assigned \cup v.decoded \subseteq DOMAIN d
      /\ keys = v.inputs \cup v.preprocessed /\ keyUsed = v.committed
      /\ \A a \in DOMAIN d : d[a] \in Bits
  BY DEF GarblerHolds
<1>2. /\ FlushKeys(v) \subseteq Settled(v) /\ Settled(v) \subseteq v.inputs
      /\ Committing(v) \cap v.vis.visible \subseteq v.assigned
      /\ v.flush.info \subseteq Settled(v) \cup v.outputs
      /\ v.outputs \cap v.flush.info \subseteq v.preprocessed
      /\ FlushKeys(v) \subseteq Committing(v)
  BY DEF Good, VisShape, UseShape, FlushKeys, Committing
<1>3. v.flush.macs \subseteq v.vis.visible
  BY <1>0, <1>2, GoodSets DEF Good, Duty, Garblers, Evaluators, FlushKeys
<1>4. v.flush.macs \subseteq DOMAIN d
  BY <1>1, <1>2, <1>3 DEF FlushKeys
<1>5. GarblerCanSend(v)
  BY <1>1, <1>2, <1>4 DEF GarblerCanSend, Fresh, FlushKeys
<1>6. MacsFit(GarblerFlush(v), v.flush)
  <2> DEFINE b == [a \in v.flush.macs |-> d[a]]
  <2>1. b \in [v.flush.macs -> Bits] /\ MacsOf(b) = [a \in v.flush.macs |-> Mac(a, d[a])]
    BY <1>1, <1>4 DEF MacsOf
  <2>2. GarblerFlush(v).macs = Collect(v.flush.macs, MacsOf(b))
    BY <2>1 DEF GarblerFlush
  <2>3. /\ GarblerFlush(v).ot = Collect(v.flush.ot, Own(v.flush.ot))
        /\ GarblerFlush(v).info = Collect(v.flush.info, Pointers(v.flush.info))
        /\ GarblerFlush(v).commitments = Collect(v.flush.info, Own(v.flush.info))
    BY DEF GarblerFlush, Own, Pointers
  <2> HIDE DEF b
  <2> QED
    BY <2>1, <2>2, <2>3 DEF MacsFit
<1>7. GarblerHolds(v, d, keys, keyUsed \cup FlushKeys(v), "await")
  BY <1>1 DEF GarblerHolds
<1> QED
  BY <1>5, <1>6, <1>7

\* The evaluator's flush: it has the bits it chooses by and the MACs it
\* proves.
LEMMA EvaluatorSends ==
  ASSUME NEW v, Good(v, "e"), Fresh(v, "e"), NEW label, EvaluatorHolds(v, data["e"], macs, info, label)
  PROVE  /\ v.flush.ot \subseteq DOMAIN data["e"]
         /\ EvaluatorCanSend(v) /\ ProofFits(EvaluatorFlush(v), v.flush.decode)
<1> DEFINE S == v.flush.decode
<1>0. "e" \in Roles
  BY DEF Roles
<1>1. /\ v.assigned \subseteq DOMAIN data["e"] /\ DOMAIN macs = v.committed \cup v.executed
      /\ \A a \in DOMAIN macs : a \in Int /\ \E b \in Bits : macs[a] = Mac(a, b)
  BY DEF EvaluatorHolds, Genuine
<1>2. v.flush.ot \subseteq DOMAIN data["e"]
  <2>1. v.flush.ot \subseteq v.vis.private /\ v.vis.visible = v.vis.public \cup v.vis.private
    BY <1>0, GoodSets DEF Good, Duty, Evaluators
  <2>2. Committing(v) \cap v.vis.visible \subseteq v.assigned /\ v.flush.ot \subseteq Committing(v)
    BY DEF Good, UseShape, Committing
  <2> QED
    BY <1>1, <2>1, <2>2
<1>3. S \subseteq DOMAIN macs /\ IsFiniteSet(S) /\ S \in Addr
  BY <1>0, <1>1, FiniteFlush DEF Fresh
<1>4. ProofFits(EvaluatorFlush(v), S)
  <2> DEFINE b == [a \in S |-> macs[a].bit]
  <2>1. ASSUME NEW a \in S PROVE b[a] \in Bits /\ macs[a] = Mac(a, b[a])
    <3>1. PICK c \in Bits : macs[a] = Mac(a, c)
      BY <1>1, <1>3
    <3> QED
      BY <3>1 DEF Mac
  <2>2. b \in [S -> Bits] /\ \A a \in S : MacsOf(b)[a] = macs[a]
    BY <2>1 DEF MacsOf
  <2>3. [a \in S |-> MacPointer(macs[a])] = [a \in S |-> MacPointer(Mac(a, b[a]))]
    BY <2>1
  <2> HIDE DEF b
  <2>4. Collect(S, macs) = Collect(S, MacsOf(b))
    BY <1>3, <2>2, CollectSame
  <2>5. /\ EvaluatorFlush(v).proof.bits = Collect(S, [a \in S |-> MacPointer(Mac(a, b[a]))])
        /\ EvaluatorFlush(v).proof.hash = Collect(S, MacsOf(b))
    BY <2>3, <2>4 DEF EvaluatorFlush, Prove
  <2> QED
    BY <2>2, <2>5 DEF ProofFits
<1> QED
  BY <1>2, <1>3, <1>4 DEF EvaluatorCanSend
-----------------------------------------------------------------------------
\* What the garbler's store is after a flush message.
GarblerBits(v, m) ==
  IF Len(m.proof.bits) > 0
  THEN TrySet(data["g"], v.flush.decode, VerifiedBits(v.flush.decode, m.proof.bits))
  ELSE data["g"]

\* A proof that fits verifies, and gives the bits it was made of.
LEMMA ProofVerifies ==
  ASSUME NEW S \in Addr, IsFiniteSet(S), NEW m, ProofFits(m, S)
  PROVE  /\ Verify(S, m.proof) /\ Len(m.proof.bits) = Cardinality(S)
         /\ DOMAIN VerifiedBits(S, m.proof.bits) = S
         /\ \A a \in S : VerifiedBits(S, m.proof.bits)[a] \in Bits
         /\ \E b \in [S -> Bits] :
              m.proof.hash = Collect(S, MacsOf(b)) /\ \A a \in S : VerifiedBits(S, m.proof.bits)[a] = b[a]
<1>1. PICK b \in [S -> Bits] :
        /\ m.proof.bits = Collect(S, [a \in S |-> MacPointer(Mac(a, b[a]))])
        /\ m.proof.hash = Collect(S, MacsOf(b))
  BY DEF ProofFits
<1> DEFINE f == [a \in S |-> MacPointer(Mac(a, b[a]))]
           auth == Authenticated(S, m.proof.bits)
<1>2. Len(m.proof.bits) = Cardinality(S) /\ Spread(S, m.proof.bits) = [a \in S |-> f[a]]
  <2> HIDE DEF f
  <2> QED
    BY <1>1, CollectFacts DEF f
<1>3. ASSUME NEW a \in S PROVE auth[a] = b[a]
  <2>1. a \in Int /\ b[a] \in Bits
    BY <1>1 DEF Addr
  <2>2. f[a] = Xor(KeyPointer(a), b[a])
    BY <2>1, Unmask
  <2>3. auth[a] = Xor(KeyPointer(a), f[a])
    BY <1>2 DEF Authenticated
  <2> QED
    BY <2>1, <2>2, <2>3, Unmask
<1>4. DOMAIN auth = S
  BY DEF Authenticated
<1> HIDE DEF auth, f
<1>5. Verify(S, m.proof)
  <2> DEFINE h == [a \in S |-> Mac(a, auth[a])]
  <2>1. \A a \in S : MacsOf(b)[a] = h[a]
    BY <1>1, <1>3 DEF MacsOf
  <2> HIDE DEF h
  <2>2. Collect(S, MacsOf(b)) = Collect(S, h)
    BY <2>1, CollectSame
  <2>3. m.proof.hash = Collect(S, [a \in S |-> Mac(a, Authenticated(S, m.proof.bits)[a])])
    BY <1>1, <2>2 DEF h, auth
  <2> QED
    BY <1>2, <2>3 DEF Verify
<1>6. \A a \in S : auth[a] \in Bits
  BY <1>1, <1>3
<1>7. \E c \in [S -> Bits] : m.proof.hash = Collect(S, MacsOf(c)) /\ \A a \in S : auth[a] = c[a]
  BY <1>1, <1>3
<1>8. VerifiedBits(S, m.proof.bits) = auth
  BY DEF VerifiedBits, auth
<1> QED
  BY <1>2, <1>4, <1>5, <1>6, <1>7, <1>8

\* The evaluator's proof verifies, and of every range of bits the garbler
\* learns one it did not know.
LEMMA GarblerReceives ==
  ASSUME NEW v, Good(v, "g"), Fresh(v, "g"), GarblerHolds(v, data["g"], keys, keyUsed, "await"),
         NEW m, ProofFits(m, v.flush.decode), NEW label, label # "await"
  PROVE  /\ GarblerAccepts(v, m)
         /\ GarblerHolds(CompleteFlush(v), GarblerBits(v, m), keys, keyUsed, label)
<1> DEFINE d == data["g"]
           S == v.flush.decode
           w == CompleteFlush(v)
           new == VerifiedBits(S, m.proof.bits)
<1>0. "g" \in Roles /\ v \in ViewType
  BY DEF Roles, Good
<1>1. /\ v.assigned \cup v.decoded \subseteq DOMAIN d /\ DOMAIN d \subseteq v.vis.visible \cup v.decoded
      /\ keys = v.inputs \cup v.preprocessed /\ keyUsed = Committing(v)
      /\ \A a \in DOMAIN d : d[a] \in Bits
  BY DEF GarblerHolds, Committing, FlushKeys
<1>2. S \in Addr /\ IsFiniteSet(S)
  BY <1>0, FiniteFlush
<1>3. /\ Verify(S, m.proof) /\ Len(m.proof.bits) = Cardinality(S)
      /\ DOMAIN new = S /\ \A a \in S : new[a] \in Bits
  BY <1>2, ProofVerifies
<1>4. CanSetRuns(d, S)
  <2> SUFFICES ASSUME NEW R \in Runs(S), R \subseteq DOMAIN d PROVE FALSE
    BY DEF CanSetRuns, CanSet, StoreIsSet
  <2>1. PICK a \in S : \A lo, hi \in Int : a \in lo .. hi /\ lo .. hi \subseteq S => lo .. hi \subseteq R
    BY <1>2, RunAround
  <2>2. \E lo, hi \in Int : a \in lo .. hi /\ lo .. hi \subseteq S /\ ~(lo .. hi \subseteq v.decoded)
    BY DEF Fresh
  <2>3. PICK c \in R : c \in S /\ c \notin v.decoded
    BY <2>1, <2>2
  <2>4. c \in Evaluators(v, "g") \cup v.outputs
    BY <2>3 DEF Fresh
  <2>5. c \notin v.vis.visible
    <3>1. v.vis.visible \subseteq Settled(v) /\ v.vis.blind \cap v.vis.visible = {}
          /\ Settled(v) \cap v.outputs = {} /\ Evaluators(v, "g") = v.vis.blind
      BY <1>0, GoodSets DEF Good, VisShape, Evaluators, Settled
    <3> QED
      BY <2>4, <3>1
  <2> QED
    BY <1>1, <2>3, <2>5
<1>5. GarblerAccepts(v, m)
  BY <1>3, <1>4 DEF GarblerAccepts
<1>6. DOMAIN GarblerBits(v, m) = DOMAIN d \cup S /\ \A a \in DOMAIN GarblerBits(v, m) : GarblerBits(v, m)[a] \in Bits
  <2>1. CASE Len(m.proof.bits) > 0
    <3> DEFINE put == [a \in S |-> new[a]]
    <3>1. GarblerBits(v, m) = Overlay(put, d) /\ DOMAIN put = S /\ \A a \in S : put[a] \in Bits
      BY <1>3, <2>1 DEF GarblerBits, TrySet
    <3> HIDE DEF put, d, new
    <3>2. /\ DOMAIN Overlay(put, d) = DOMAIN put \cup DOMAIN d
          /\ \A a \in DOMAIN put : Overlay(put, d)[a] = put[a]
          /\ \A a \in DOMAIN d \ DOMAIN put : Overlay(put, d)[a] = d[a]
      BY OverlayFacts
    <3> QED
      BY <1>1, <3>1, <3>2
  <2>2. CASE ~(Len(m.proof.bits) > 0)
    <3>1. Cardinality(S) = 0
      <4>1. Cardinality(S) \in Nat
        BY <1>2, FS_CardinalityType
      <4> QED
        BY <1>3, <2>2, <4>1
    <3>2. S = {}
      BY <1>2, <3>1, FS_EmptySet
    <3> QED
      BY <1>1, <2>2, <3>2 DEF GarblerBits
  <2> QED
    BY <2>1, <2>2
<1>7. /\ SameMemory(v, w) /\ w.assigned = v.assigned /\ w.committed = Committing(v)
      /\ w.preprocessed = v.preprocessed /\ w.decoded = v.decoded \cup S
  BY <1>0, CompleteFields
<1> HIDE DEF d, S, w, new
<1>8. GarblerHolds(w, GarblerBits(v, m), keys, keyUsed, label)
  BY <1>1, <1>6, <1>7 DEF GarblerHolds, SameMemory
<1> QED
  BY <1>5, <1>8 DEF w
-----------------------------------------------------------------------------
\* Runs of what is not in a store can be set.
LEMMA RunsFree ==
  ASSUME NEW S \in Addr, NEW store, S \cap DOMAIN store = {} PROVE CanSetRuns(store, S)
<1> SUFFICES ASSUME NEW R \in Runs(S), R \subseteq DOMAIN store PROVE FALSE
  BY DEF CanSetRuns, CanSet, StoreIsSet
<1>1. PICK a \in S : R = {b \in S : (a .. b) \cup (b .. a) \subseteq S}
  BY DEF Runs
<1>2. a \in Int
  BY DEF Addr
<1>3. a .. a = {a}
  BY <1>2, Alone
<1>4. a \in R
  BY <1>1, <1>3
<1> QED
  BY <1>1, <1>4

\* The MACs and the decode information a flush message brings.
LEMMA MessageHolds ==
  ASSUME NEW v, NEW msg, MacsFit(msg, v.flush),
         NEW r \in Roles, Good(v, r), v.flush.ot \subseteq DOMAIN data["e"],
         \A a \in DOMAIN data["e"] : data["e"][a] \in Bits, Genuine(macs, info)
  PROVE  /\ Len(msg.macs) = Cardinality(v.flush.macs) /\ Len(msg.ot) = Cardinality(v.flush.ot)
         /\ Len(msg.info) = Cardinality(v.flush.info)
         /\ DOMAIN ReceivedMacs(v, msg) = v.flush.macs \cup v.flush.ot \cup DOMAIN macs
         /\ DOMAIN ReceivedInfo(v, msg) = v.flush.info \cup DOMAIN info
         /\ Genuine(ReceivedMacs(v, msg), ReceivedInfo(v, msg))
<1> DEFINE A == v.flush.macs
           B == v.flush.ot
           C == v.flush.info
           d == data["e"]
<1>0. /\ A \in Addr /\ IsFiniteSet(A) /\ B \in Addr /\ IsFiniteSet(B) /\ C \in Addr /\ IsFiniteSet(C)
  BY FiniteFlush
<1>1. PICK b \in [A -> Bits] : msg.macs = Collect(A, MacsOf(b))
  BY DEF MacsFit
<1>2. /\ msg.ot = Collect(B, Own(B)) /\ msg.info = Collect(C, Pointers(C))
      /\ msg.commitments = Collect(C, Own(C))
  BY DEF MacsFit
<1>3. /\ \A a \in DOMAIN macs : a \in Int /\ \E c \in Bits : macs[a] = Mac(a, c)
      /\ \A a \in DOMAIN info : info[a] = [bit |-> KeyPointer(a), commitment |-> a]
  BY DEF Genuine
<1>4. B \subseteq DOMAIN d /\ \A a \in DOMAIN d : d[a] \in Bits
  OBVIOUS
<1> DEFINE gotMacs == Spread(A, msg.macs)
           gotOt == [a \in B |-> Mac(Spread(B, msg.ot)[a], d[a])]
           gotInfo == [a \in C |-> [bit |-> Spread(C, msg.info)[a],
                                    commitment |-> Spread(C, msg.commitments)[a]]]
<1>5. ReceivedMacs(v, msg) = Overlay(gotMacs, Overlay(gotOt, macs))
  BY DEF ReceivedMacs
<1>6. ReceivedInfo(v, msg) = Overlay(gotInfo, info)
  BY DEF ReceivedInfo
<1> HIDE DEF A, B, C, d
<1>7. Len(msg.macs) = Cardinality(A) /\ gotMacs = [a \in A |-> MacsOf(b)[a]]
  BY <1>0, <1>1, CollectFacts
<1>8. Len(msg.ot) = Cardinality(B) /\ Spread(B, msg.ot) = [a \in B |-> Own(B)[a]]
  BY <1>0, <1>2, CollectFacts
<1>9. Len(msg.info) = Cardinality(C) /\ Spread(C, msg.info) = [a \in C |-> Pointers(C)[a]]
  BY <1>0, <1>2, CollectFacts
<1>10. Spread(C, msg.commitments) = [a \in C |-> Own(C)[a]]
  BY <1>0, <1>2, CollectFacts
<1>11. DOMAIN gotMacs = A /\ \A a \in A : gotMacs[a] = Mac(a, b[a]) /\ b[a] \in Bits
  BY <1>1, <1>7 DEF MacsOf
<1>12. DOMAIN gotOt = B /\ \A a \in B : gotOt[a] = Mac(a, d[a]) /\ d[a] \in Bits
  BY <1>4, <1>8 DEF Own
<1>13. DOMAIN gotInfo = C /\ \A a \in C : gotInfo[a] = [bit |-> KeyPointer(a), commitment |-> a]
  BY <1>9, <1>10 DEF Own, Pointers
<1> HIDE DEF gotMacs, gotOt, gotInfo
<1> DEFINE inner == Overlay(gotOt, macs)
<1>14. /\ DOMAIN inner = B \cup DOMAIN macs
       /\ \A a \in B : inner[a] = gotOt[a]
       /\ \A a \in DOMAIN macs \ B : inner[a] = macs[a]
  <2>1. /\ DOMAIN inner = DOMAIN gotOt \cup DOMAIN macs
        /\ \A a \in DOMAIN gotOt : inner[a] = gotOt[a]
        /\ \A a \in DOMAIN macs \ DOMAIN gotOt : inner[a] = macs[a]
    BY OverlayFacts
  <2> HIDE DEF inner
  <2> QED
    BY <1>12, <2>1
<1>15. \A a \in DOMAIN inner : a \in Int /\ \E c \in Bits : inner[a] = Mac(a, c)
  <2> SUFFICES ASSUME NEW a \in DOMAIN inner PROVE a \in Int /\ \E c \in Bits : inner[a] = Mac(a, c)
    OBVIOUS
  <2>1. CASE a \in B
    <3>1. inner[a] = Mac(a, d[a]) /\ d[a] \in Bits /\ a \in Int
      BY <1>0, <1>12, <1>14, <2>1 DEF Addr
    <3> QED
      BY <3>1
  <2>2. CASE a \notin B
    <3>1. a \in DOMAIN macs /\ inner[a] = macs[a]
      BY <1>14, <2>2
    <3> QED
      BY <1>3, <3>1
  <2> QED
    BY <2>1, <2>2
<1> HIDE DEF inner
<1> DEFINE all == Overlay(gotMacs, inner)
           told == Overlay(gotInfo, info)
<1>16. /\ DOMAIN all = A \cup DOMAIN inner
       /\ \A a \in A : all[a] = gotMacs[a]
       /\ \A a \in DOMAIN inner \ A : all[a] = inner[a]
  <2>1. /\ DOMAIN all = DOMAIN gotMacs \cup DOMAIN inner
        /\ \A a \in DOMAIN gotMacs : all[a] = gotMacs[a]
        /\ \A a \in DOMAIN inner \ DOMAIN gotMacs : all[a] = inner[a]
    BY OverlayFacts
  <2> HIDE DEF all
  <2> QED
    BY <1>11, <2>1
<1>22. /\ DOMAIN told = C \cup DOMAIN info
       /\ \A a \in C : told[a] = gotInfo[a]
       /\ \A a \in DOMAIN info \ C : told[a] = info[a]
  <2>1. /\ DOMAIN told = DOMAIN gotInfo \cup DOMAIN info
        /\ \A a \in DOMAIN gotInfo : told[a] = gotInfo[a]
        /\ \A a \in DOMAIN info \ DOMAIN gotInfo : told[a] = info[a]
    BY OverlayFacts
  <2> HIDE DEF told
  <2> QED
    BY <1>13, <2>1
<1> HIDE DEF all, told
<1>17. ASSUME NEW a \in DOMAIN all PROVE a \in Int /\ \E c \in Bits : all[a] = Mac(a, c)
  <2>1. CASE a \in A
    <3>1. all[a] = Mac(a, b[a]) /\ b[a] \in Bits /\ a \in Int
      BY <1>0, <1>11, <1>16, <2>1 DEF Addr
    <3> QED
      BY <3>1
  <2>2. CASE a \notin A
    <3>1. a \in DOMAIN inner /\ all[a] = inner[a]
      BY <1>16, <1>17, <2>2
    <3> QED
      BY <1>15, <3>1
  <2> QED
    BY <2>1, <2>2
<1>18. ASSUME NEW a \in DOMAIN told PROVE told[a] = [bit |-> KeyPointer(a), commitment |-> a]
  <2>1. CASE a \in C
    BY <1>13, <1>22, <2>1
  <2>2. CASE a \notin C
    <3>1. a \in DOMAIN info /\ told[a] = info[a]
      BY <1>18, <1>22, <2>2
    <3> QED
      BY <1>3, <3>1
  <2> QED
    BY <2>1, <2>2
<1>19. Genuine(all, told)
  BY <1>17, <1>18 DEF Genuine
<1>20. DOMAIN all = A \cup B \cup DOMAIN macs
  BY <1>14, <1>16
<1>21. ReceivedMacs(v, msg) = all /\ ReceivedInfo(v, msg) = told
  BY <1>5, <1>6 DEF inner, all, told
<1> QED
  BY <1>7, <1>8, <1>9, <1>19, <1>20, <1>21, <1>22 DEF A, B, C

\* The evaluator expects as much as the garbler sent, and what it decodes
\* matches the commitments.
LEMMA EvaluatorReceives ==
  ASSUME NEW v, Good(v, "e"), Fresh(v, "e"), EvaluatorHolds(v, data["e"], macs, info, "await"),
         NEW msg, MacsFit(msg, v.flush), NEW label,
         NEW m, m = ReceivedMacs(v, msg), NEW i, i = ReceivedInfo(v, msg)
  PROVE  /\ EvaluatorExpects(v, msg) /\ CommitmentsHold(m, i)
         /\ EvaluatorHolds(CompleteFlush(v), DecodeMacs(m, i), m, i, label)
<1> DEFINE w == CompleteFlush(v)
           bits == DecodeMacs(m, i)
<1>0. "e" \in Roles /\ v \in ViewType
  BY DEF Roles, Good
<1>1. /\ v.assigned \subseteq DOMAIN data["e"] /\ DOMAIN macs = v.committed \cup v.executed
      /\ DOMAIN info = v.informed /\ \A a \in DOMAIN data["e"] : data["e"][a] \in Bits
      /\ Genuine(macs, info)
  BY DEF EvaluatorHolds
<1>2. v.flush.ot \subseteq DOMAIN data["e"]
  BY EvaluatorSends
<1>3. /\ Len(msg.macs) = Cardinality(v.flush.macs) /\ Len(msg.ot) = Cardinality(v.flush.ot)
      /\ Len(msg.info) = Cardinality(v.flush.info)
      /\ DOMAIN m = v.flush.macs \cup v.flush.ot \cup DOMAIN macs
      /\ DOMAIN i = v.flush.info \cup DOMAIN info
      /\ Genuine(m, i)
  BY <1>0, <1>1, <1>2, MessageHolds
<1>4. CanSetRuns(macs, v.flush.macs) /\ CanSetRuns(macs, v.flush.ot) /\ CanSetRuns(info, v.flush.info)
  <2>1. /\ Committing(v) \cap v.outputs = {} /\ v.executed \subseteq v.outputs
    BY <1>0, GoodSets DEF Good, UseShape
  <2>2. /\ v.flush.macs \cap DOMAIN macs = {} /\ v.flush.ot \cap DOMAIN macs = {}
        /\ v.flush.info \cap DOMAIN info = {}
    BY <1>1, <2>1 DEF Fresh, Committing
  <2>3. v.flush.macs \in Addr /\ v.flush.ot \in Addr /\ v.flush.info \in Addr
    BY <1>0, FiniteFlush
  <2> QED
    BY <2>2, <2>3, RunsFree
<1>5. /\ CommitmentsHold(m, i) /\ DOMAIN bits = DOMAIN data["e"] \cup (DOMAIN m \cap DOMAIN i)
      /\ \A a \in DOMAIN bits : bits[a] \in Bits
  BY <1>1, <1>3, DecodesGenuine
<1>6. /\ w.assigned = v.assigned /\ w.committed = Committing(v)
      /\ w.executed = v.executed /\ w.informed = v.informed \cup v.flush.info
  BY <1>0, CompleteFields
<1> HIDE DEF w, bits
<1>7. EvaluatorHolds(w, bits, m, i, label)
  BY <1>1, <1>3, <1>5, <1>6 DEF EvaluatorHolds, Committing
<1> QED
  BY <1>3, <1>4, <1>5, <1>7 DEF EvaluatorExpects, w, bits
-----------------------------------------------------------------------------
\* What a call reads: inputs, and outputs of earlier calls.
LEMMA CallReads ==
  ASSUME NEW n \in Nat, n <= Len(CallInputs), NEW k \in 1 .. n
  PROVE  /\ IsFiniteSet(CallInputs[k])
         /\ \A a \in CallInputs[k] : a \in 0 .. NumInputs - 1 \/ \E j \in 1 .. k - 1 : a = Out(j)
<1>1. k \in DOMAIN CallInputs /\ CallInputs[k] \in SUBSET Nat /\ NumInputs \in Nat
  BY ConstantsOK, BoundsGrow
<1>2. \A a \in CallInputs[k] : a < NumInputs + k - 1
  BY <1>1, ConstantsOK DEF NumInputs
<1>3. IsFiniteSet(CallInputs[k])
  <2>1. CallInputs[k] \in SUBSET (0 .. NumInputs + k - 1)
    BY <1>1, <1>2
  <2>2. IsFiniteSet(0 .. NumInputs + k - 1)
    BY <1>1, FS_Interval
  <2> QED
    BY <2>1, <2>2, FS_Subset
<1>4. ASSUME NEW a \in CallInputs[k], a \notin 0 .. NumInputs - 1 PROVE \E j \in 1 .. k - 1 : a = Out(j)
  <2> DEFINE j == a - NumInputs + 1
  <2>1. j \in 1 .. k - 1 /\ a = NumInputs + j - 1
    BY <1>1, <1>2, <1>4
  <2> QED
    BY <2>1 DEF Out
<1> QED
  BY <1>3, <1>4

\* A call that is preprocessed reads what the garbler has keys of.
LEMMA GarbledReads ==
  ASSUME NEW n, NEW v, NEW prep, NEW todo, NEW gone, NEW busy, NEW left,
         Sound("g", n, v, prep, todo, gone, busy, left, "garble"), NEW k \in busy,
         \A j \in busy \cup left : j < k => Out(j) \notin CallInputs[k]
  PROVE  CallInputs[k] \subseteq v.inputs \cup v.preprocessed
<1>1. /\ n \in Nat /\ n <= Len(CallInputs) /\ k \in 1 .. n
      /\ prep \cup todo \cup gone \cup busy = {j \in 1 .. n : Out(j) \notin v.executed}
      /\ \A j \in prep : Out(j) \in v.preprocessed
      /\ todo = {} /\ left \cup busy \subseteq gone
      /\ \A j \in gone : Out(j) \notin v.preprocessed => j \in left \cup busy
      /\ v.executed \subseteq v.preprocessed
  BY DEF Sound, Layout, Works, Places, Garbling, Good, UseShape
<1>2. v.inputs = 0 .. NumInputs - 1
  BY <1>1 DEF Sound, Layout, NumInputs
<1>3. ASSUME NEW j \in 1 .. k - 1, Out(j) \in CallInputs[k] PROVE Out(j) \in v.preprocessed
  <2>1. j \in 1 .. n /\ j < k
    BY <1>1
  <2> SUFFICES ASSUME Out(j) \notin v.preprocessed PROVE FALSE
    OBVIOUS
  <2>2. j \in gone \cup busy
    BY <1>1, <2>1
  <2>3. j \in left \cup busy
    BY <1>1, <2>2
  <2> QED
    BY <1>3, <2>1, <2>3
<1> QED
  BY <1>1, <1>2, <1>3, CallReads

\* generate: the keys of what the call reads are there, those of its output
\* are not.
LEMMA Generates ==
  ASSUME PartiesInv, IndependentInv, Holds, NEW k \in batch["g"], pc["g"] \in {"garble", "execute"}
  PROVE  /\ GarblerCanGenerate(k) /\ k \in 1 .. calls /\ OutputSlice(k) = Outs({k})
         /\ Outs({k}) \in Addr
<1> DEFINE v == view["g"]
<1>0. "g" \in Roles
  BY DEF Roles
<1>1. /\ Sound("g", calls, v, pre["g"], stack["g"], taken["g"], batch["g"], rest["g"], pc["g"])
      /\ Good(v, "g") /\ Layout(v, calls) /\ keys = v.inputs \cup v.preprocessed
  BY <1>0 DEF PartiesInv, PartyInv, Sound, Holds, GarblerHolds
<1> HIDE DEF v
<1>2. k \in 1 .. calls /\ Outs({k}) \subseteq v.outputs /\ Outs({k}) \cap v.preprocessed = {}
  BY <1>0, <1>1, GeneratedAtOnce
<1>3. OutputSlice(k) = Outs({k}) /\ Out(k) \in Outs({k}) /\ Outs({k}) \in Addr
  BY <1>1, <1>2, OutFacts DEF Outs, Layout, Addr
<1>4. CallInputs[k] \subseteq v.inputs \cup v.preprocessed
  <2>1. CASE pc["g"] = "garble"
    <3>1. \A j \in batch["g"] \cup rest["g"] : j < k => Out(j) \notin CallInputs[k]
      BY <1>0, <2>1 DEF IndependentInv, Independent
    <3> QED
      BY <1>1, <2>1, <3>1, GarbledReads
  <2>2. CASE pc["g"] = "execute"
    <3>1. CallInputs[k] \subseteq v.committed \cup v.executed
      BY <1>1, <2>2 DEF Sound, Works, Executable, IsReady
    <3>2. v.committed \subseteq v.inputs /\ v.executed \subseteq v.preprocessed
      BY <1>1 DEF Good, VisShape, UseShape, Committing
    <3> QED
      BY <3>1, <3>2
  <2> QED
    BY <2>1, <2>2
<1>5. v.inputs \cap v.outputs = {}
  BY <1>1 DEF Good, VisShape
<1>6. ~(OutputSlice(k) \subseteq keys)
  BY <1>1, <1>2, <1>3, <1>5
<1> QED
  BY <1>1, <1>2, <1>3, <1>4, <1>6 DEF GarblerCanGenerate
-----------------------------------------------------------------------------
\* Evaluating a call whose inputs have genuine MACs gives a genuine MAC of
\* its output.
LEMMA EvaluatesGenuine ==
  ASSUME Genuine(macs, info), NEW n \in Nat, n <= Len(CallInputs), NEW k \in 1 .. n,
         CallInputs[k] \subseteq DOMAIN macs
  PROVE  \E b \in Bits : EvaluatedMac(k, macs) = Mac(Out(k), b)
<1>1. \A a \in CallInputs[k] : macs[a].key = a
  BY DEF Genuine, Mac
<1> DEFINE bits == [a \in CallInputs[k] |-> macs[a].bit]
           ones == {a \in CallInputs[k] : bits[a] = 1}
<1>2. EvaluatedMac(k, macs) = Mac(Out(k), Circuit(k, bits))
  BY <1>1 DEF EvaluatedMac
<1>3. Circuit(k, bits) = Cardinality(ones) % 2
  BY DEF Circuit
<1>4. ones \in SUBSET CallInputs[k] /\ IsFiniteSet(CallInputs[k])
  BY CallReads
<1> HIDE DEF bits, ones
<1>5. Cardinality(ones) \in Nat
  BY <1>4, FS_Subset, FS_CardinalityType
<1>6. Circuit(k, bits) \in Bits
  BY <1>3, <1>5 DEF Bits
<1> QED
  BY <1>2, <1>6

\* The evaluator's MACs after a set K of calls.
MacsAfter(K) ==
  Overlay([a \in Outs(K) |-> EvaluatedMac(CHOOSE k \in K : Out(k) = a, macs)], macs)

\* evaluate and execute_preprocessed: the MACs of what a call reads are
\* there, that of its output is not.
LEMMA Evaluates ==
  ASSUME PartiesInv, Holds, NEW K, K \subseteq pre["e"] \cup batch["e"],
         \A k \in K : IsReady(view["e"], k)
  PROVE  /\ \A k \in K : EvaluatorCanEvaluate(k)
         /\ Genuine(MacsAfter(K), info) /\ DOMAIN MacsAfter(K) = DOMAIN macs \cup Outs(K)
         /\ K \in SUBSET (1 .. calls) /\ UNION {OutputSlice(k) : k \in K} = Outs(K)
<1> DEFINE v == view["e"]
           m == MacsAfter(K)
<1>0. "e" \in Roles
  BY DEF Roles
<1>1. /\ Sound("e", calls, v, pre["e"], stack["e"], taken["e"], batch["e"], rest["e"], pc["e"])
      /\ Good(v, "e") /\ Layout(v, calls)
      /\ DOMAIN macs = v.committed \cup v.executed /\ Genuine(macs, info)
  BY <1>0 DEF PartiesInv, PartyInv, Sound, Holds, EvaluatorHolds
<1> HIDE DEF v
<1>2. /\ calls \in Nat /\ calls <= Len(CallInputs) /\ K \in SUBSET (1 .. calls)
      /\ \A k \in K : Out(k) \notin v.executed
  BY <1>1 DEF Sound, Layout, Works, Places
<1>3. UNION {OutputSlice(k) : k \in K} = Outs(K) /\ Outs(K) \subseteq v.outputs /\ Outs(K) \in Addr
  BY <1>1, <1>2, CallsOut
<1>4. \A k \in K : CallInputs[k] \subseteq DOMAIN macs
  BY <1>1 DEF IsReady, v
<1>5. v.committed \cap v.outputs = {}
  BY <1>0, <1>1, GoodSets DEF Good, UseShape, Committing
<1>6. ASSUME NEW k \in K PROVE EvaluatorCanEvaluate(k)
  <2>1. OutputSlice(k) = {Out(k)} /\ Out(k) \in Outs(K)
    BY <1>2, OutFacts DEF Outs
  <2>2. Out(k) \notin DOMAIN macs
    BY <1>1, <1>2, <1>3, <1>5, <2>1
  <2> QED
    BY <1>4, <2>1, <2>2 DEF EvaluatorCanEvaluate, CanSet, StoreIsSet
<1> DEFINE new == [a \in Outs(K) |-> EvaluatedMac(CHOOSE k \in K : Out(k) = a, macs)]
<1>7. ASSUME NEW a \in Outs(K) PROVE a \in Int /\ \E b \in Bits : new[a] = Mac(a, b)
  <2>1. \E k \in K : Out(k) = a
    BY DEF Outs
  <2> DEFINE k == CHOOSE j \in K : Out(j) = a
  <2>2. k \in K /\ Out(k) = a /\ new[a] = EvaluatedMac(k, macs)
    BY <2>1
  <2> HIDE DEF k, new
  <2>3. \E b \in Bits : EvaluatedMac(k, macs) = Mac(Out(k), b)
    BY <1>1, <1>2, <1>4, <2>2, EvaluatesGenuine
  <2> QED
    BY <1>3, <2>2, <2>3 DEF Addr
<1>8. m = Overlay(new, macs) /\ DOMAIN new = Outs(K)
  BY DEF MacsAfter
<1> HIDE DEF new, m
<1>9. /\ DOMAIN Overlay(new, macs) = DOMAIN new \cup DOMAIN macs
      /\ \A a \in DOMAIN new : Overlay(new, macs)[a] = new[a]
      /\ \A a \in DOMAIN macs \ DOMAIN new : Overlay(new, macs)[a] = macs[a]
  BY OverlayFacts
<1>10. Genuine(m, info)
  <2> SUFFICES ASSUME NEW a \in DOMAIN m PROVE a \in Int /\ \E b \in Bits : m[a] = Mac(a, b)
    BY <1>1 DEF Genuine
  <2>1. CASE a \in Outs(K)
    <3>1. m[a] = new[a]
      BY <1>8, <1>9, <2>1
    <3> QED
      BY <1>7, <2>1, <3>1
  <2>2. CASE a \notin Outs(K)
    <3>1. a \in DOMAIN macs /\ m[a] = macs[a]
      BY <1>8, <1>9, <2>2
    <3> QED
      BY <1>1, <3>1 DEF Genuine
  <2> QED
    BY <2>1, <2>2
<1>11. DOMAIN m = DOMAIN macs \cup Outs(K)
  BY <1>8, <1>9
<1> QED
  BY <1>2, <1>3, <1>6, <1>10, <1>11 DEF m

\* What the evaluator's stores hold after these calls.
LEMMA EvaluatedHolds ==
  ASSUME PartiesInv, Holds, NEW K, K \subseteq pre["e"] \cup batch["e"],
         \A k \in K : IsReady(view["e"], k), NEW label
  PROVE  LET m == MacsAfter(K)
             w == SetOutput(view["e"], Outs(K))
         IN  /\ CommitmentsHold(m, info)
             /\ EvaluatorHolds(w, DecodeMacs(m, info), m, info, label)
             /\ EvaluatorHolds(w, data["e"], m, info, "execute")
<1> DEFINE v == view["e"]
           m == MacsAfter(K)
           w == SetOutput(v, Outs(K))
           bits == DecodeMacs(m, info)
<1>0. "e" \in Roles
  BY DEF Roles
<1>1. /\ v \in ViewType /\ Layout(v, calls) /\ v.assigned \subseteq DOMAIN data["e"]
      /\ DOMAIN macs = v.committed \cup v.executed /\ DOMAIN info = v.informed
      /\ \A a \in DOMAIN data["e"] : data["e"][a] \in Bits
  BY <1>0 DEF PartiesInv, PartyInv, Sound, Holds, EvaluatorHolds
<1>2. /\ Genuine(m, info) /\ DOMAIN m = DOMAIN macs \cup Outs(K) /\ K \in SUBSET (1 .. calls)
  BY Evaluates
<1>3. Outs(K) \in Addr
  BY <1>1, <1>2, CallsOut
<1>4. /\ w.assigned = v.assigned /\ w.committed = v.committed
      /\ w.executed = v.executed \cup Outs(K) /\ w.informed = v.informed
  BY <1>1, <1>3, OutputFields
<1> HIDE DEF m, v, w
<1>5. /\ CommitmentsHold(m, info) /\ DOMAIN bits = DOMAIN data["e"] \cup (DOMAIN m \cap DOMAIN info)
      /\ \A a \in DOMAIN bits : bits[a] \in Bits
  BY <1>1, <1>2, DecodesGenuine
<1> HIDE DEF bits
<1>6. EvaluatorHolds(w, bits, m, info, label)
  BY <1>1, <1>2, <1>4, <1>5 DEF EvaluatorHolds
<1>7. EvaluatorHolds(w, data["e"], m, info, "execute")
  BY <1>1, <1>2, <1>4 DEF EvaluatorHolds
<1> QED
  BY <1>5, <1>6, <1>7 DEF m, v, w, bits
-----------------------------------------------------------------------------
(***************************************************************************)
(* The whole inductive invariant: each party keeps its view and its calls  *)
(* in order, the parties agree, nothing is asked for twice, the stores     *)
(* hold what the views say, and a decode operation that waits still waits  *)
(* for something.  Under it no operation fails.                            *)
(***************************************************************************)
Waits(v, d, w) == \A s \in w : s \subseteq v.decode /\ ~(s \subseteq DOMAIN d)

Waiting ==
  /\ ops = [p \in Roles |-> ops[p]]
  /\ \A p \in Roles : Waits(view[p], data[p], ops[p])
  /\ (\A p \in Roles : ops[p] = {}) \/ Assigned

InStep ==
  /\ Inv /\ PartiesInv /\ Agree /\ FreshInv /\ IndependentInv
  /\ Holds /\ Waiting /\ NoFailure

\* A party that changes its data resolves the operations this completes.
Resolved ==
  \/ UNCHANGED <<data, ops>>
  \/ \E p \in Roles :
       /\ data' = [data EXCEPT ![p] = data'[p]]
       /\ ops' = [ops EXCEPT ![p] = {s \in ops[p] : ~StoreIsSet(data'[p], s)}]

\* What is left to show of a step of the machines.
Kept == Holds' /\ err' = err /\ Resolved

\* The flush steps: a message is sent.
LEMMA SendKept ==
  ASSUME InStep, GarblerSendFlush \/ EvaluatorSendFlush PROVE Kept /\ Agree'
<1>0. /\ "g" \in Roles /\ "e" \in Roles /\ Peer("g") = "e" /\ Peer("e") = "g"
      /\ Tables /\ Good(view["g"], "g") /\ Good(view["e"], "e")
      /\ Fresh(view["g"], "g") /\ Fresh(view["e"], "e")
  BY PeerFacts DEF InStep, PartiesInv, PartyInv, Sound, FreshInv
<1>1. /\ GarblerHolds(view["g"], data["g"], keys, keyUsed, pc["g"])
      /\ EvaluatorHolds(view["e"], data["e"], macs, info, pc["e"])
  BY DEF InStep, Holds
<1>2. CASE GarblerSendFlush
  <2> DEFINE v == view["g"]
  <2>1. pc["g"] = "flush"
    BY <1>2 DEF GarblerSendFlush
  <2>2. /\ GarblerCanSend(v) /\ MacsFit(GarblerFlush(v), v.flush)
        /\ GarblerHolds(v, data["g"], keys, keyUsed \cup FlushKeys(v), "await")
    BY <1>0, <1>1, <2>1, GarblerSends
  <2>3. /\ net' = [net EXCEPT !["e"] = Append(@, GarblerFlush(v))]
        /\ keyUsed' = keyUsed \cup FlushKeys(v) /\ pc' = [pc EXCEPT !["g"] = "await"]
        /\ UNCHANGED <<view, data, keys, macs, info, ops, ret, tasks, err>>
    BY <1>2, <2>2 DEF GarblerSendFlush, Return, decodes
  <2>4. pc'["g"] = "await" /\ pc'["e"] = pc["e"]
    BY <1>0, <2>3 DEF Tables
  <2>5. Holds'
    BY <1>1, <2>2, <2>3, <2>4, Zenon DEF Holds
  <2>6. Still("e")
    BY <2>3, <2>4 DEF Still, tasks
  <2> DEFINE m == GarblerFlush(v)
  <2>7. Fits("e", m, v.flush)
    BY <2>2 DEF Fits
  <2>8. view'["g"] = view["g"]
    BY <2>3
  <2> HIDE DEF m, v
  <2>9. Agree'
    <3>1. net' = [net EXCEPT !["e"] = Append(@, m)] /\ ret' = ret /\ Agree
      BY <2>3 DEF m, InStep
    <3>2. Fits("e", m, view["g"].flush)
      BY <2>7 DEF v
    <3> QED
      BY <1>0, <2>1, <2>4, <2>6, <2>8, <3>1, <3>2, AgreeSend
  <2> QED
    BY <2>3, <2>5, <2>9 DEF Kept, Resolved
<1>3. CASE EvaluatorSendFlush
  <2> DEFINE v == view["e"]
  <2>1. pc["e"] = "flush"
    BY <1>3 DEF EvaluatorSendFlush
  <2>2. EvaluatorCanSend(v) /\ ProofFits(EvaluatorFlush(v), v.flush.decode)
    BY <1>0, <1>1, EvaluatorSends
  <2>3. /\ net' = [net EXCEPT !["g"] = Append(@, EvaluatorFlush(v))]
        /\ pc' = [pc EXCEPT !["e"] = "await"]
        /\ UNCHANGED <<view, data, keys, keyUsed, macs, info, ops, ret, tasks, err>>
    BY <1>3, <2>2 DEF EvaluatorSendFlush, Return, decodes, stores
  <2>4. pc'["e"] = "await" /\ pc'["g"] = pc["g"]
    BY <1>0, <2>3 DEF Tables
  <2>5. Holds'
    <3>1. EvaluatorHolds(view["e"], data["e"], macs, info, "await")
      BY <1>1, <2>1 DEF EvaluatorHolds
    <3> QED
      BY <1>1, <2>3, <2>4, <3>1, Zenon DEF Holds
  <2>6. Still("g")
    BY <2>3, <2>4 DEF Still, tasks
  <2> DEFINE m == EvaluatorFlush(v)
  <2>7. Fits("g", m, v.flush)
    BY <2>2 DEF Fits
  <2>8. view'["e"] = view["e"]
    BY <2>3
  <2> HIDE DEF m, v
  <2>9. Agree'
    <3>1. net' = [net EXCEPT !["g"] = Append(@, m)] /\ ret' = ret /\ Agree
      BY <2>3 DEF m, InStep
    <3>2. Fits("g", m, view["e"].flush)
      BY <2>7 DEF v
    <3> QED
      BY <1>0, <2>1, <2>4, <2>6, <2>8, <3>1, <3>2, AgreeSend
  <2> QED
    BY <2>3, <2>5, <2>9 DEF Kept, Resolved
<1> QED
  BY <1>2, <1>3

\* The flush steps: a message is received.
LEMMA GarblerReceiveKept ==
  ASSUME InStep, GarblerReceiveFlush PROVE Kept /\ Agree'
<1> DEFINE v == view["g"]
           m == Head(net["g"])
<1>0. /\ "g" \in Roles /\ "e" \in Roles /\ Peer("g") = "e" /\ Tables /\ Good(v, "g") /\ Fresh(v, "g")
      /\ data = [p \in Roles |-> data[p]] /\ PartiesInv /\ Agree
  BY PeerFacts DEF InStep, Inv, TypeOK, PartiesInv, PartyInv, Sound, FreshInv
<1>1. pc["g"] = "await" /\ net["g"] # <<>>
  BY DEF GarblerReceiveFlush, NoMsg
<1>2. /\ GarblerHolds(v, data["g"], keys, keyUsed, "await")
      /\ EvaluatorHolds(view["e"], data["e"], macs, info, pc["e"])
  BY <1>1 DEF InStep, Holds
<1>3. ProofFits(m, v.flush.decode)
  <2>1. Fits("g", m, v.flush)
    BY <1>0, <1>1, ReceivedFits
  <2> QED
    BY <2>1 DEF Fits
<1> DEFINE label == IF WantsFlush(CompleteFlush(v)) THEN "flush" ELSE ret["g"]
           bits == GarblerBits(v, m)
<1>4. label # "await"
  BY <1>0 DEF Tables
<1>5. /\ GarblerAccepts(v, m)
      /\ GarblerHolds(CompleteFlush(v), bits, keys, keyUsed, label)
  <2> HIDE DEF label, m, v
  <2> QED
    BY <1>0, <1>2, <1>3, <1>4, GarblerReceives
<1>6. /\ net' = [net EXCEPT !["g"] = Tail(@)] /\ data' = [data EXCEPT !["g"] = bits]
      /\ view' = [view EXCEPT !["g"] = CompleteFlush(v)]
      /\ ops' = [ops EXCEPT !["g"] = {s \in ops["g"] : ~StoreIsSet(bits, s)}]
      /\ EndFlush("g", CompleteFlush(v)) /\ pc' = [pc EXCEPT !["g"] = label]
      /\ UNCHANGED <<keyUsed, keys, macs, info, ret, tasks, err>>
  BY <1>5 DEF GarblerReceiveFlush, GarblerBits, Resolve, EndFlush, Return
<1> HIDE DEF bits, label, m, v
<1>7. /\ data'["g"] = bits /\ data'["e"] = data["e"] /\ view'["g"] = CompleteFlush(v)
      /\ view'["e"] = view["e"] /\ pc'["g"] = label /\ pc'["e"] = pc["e"]
  BY <1>0, <1>6 DEF Tables
<1>8. Holds'
  BY <1>2, <1>5, <1>6, <1>7, Zenon DEF Holds
<1>9. Still("e")
  BY <1>6, <1>7 DEF Still, tasks
<1>10. Agree'
  <2>1. view'["g"] = CompleteFlush(view["g"]) /\ EndFlush("g", CompleteFlush(view["g"])) /\ ret' = ret
    BY <1>6, <1>7 DEF v
  <2> QED
    BY <1>0, <1>1, <1>6, <1>9, <2>1, AgreeReceive
<1>11. Resolved
  BY <1>0, <1>6, <1>7 DEF Resolved
<1> QED
  BY <1>6, <1>8, <1>10, <1>11 DEF Kept

\* See GarblerReceiveKept.
LEMMA EvaluatorReceiveKept ==
  ASSUME InStep, EvaluatorReceiveFlush PROVE Kept /\ Agree'
<1> DEFINE v == view["e"]
           msg == Head(net["e"])
           m == ReceivedMacs(v, msg)
           i == ReceivedInfo(v, msg)
<1>0. /\ "g" \in Roles /\ "e" \in Roles /\ Peer("e") = "g" /\ Tables /\ Good(v, "e") /\ Fresh(v, "e")
      /\ data = [p \in Roles |-> data[p]] /\ PartiesInv /\ Agree
  BY PeerFacts DEF InStep, Inv, TypeOK, PartiesInv, PartyInv, Sound, FreshInv
<1>1. pc["e"] = "await" /\ net["e"] # <<>>
  BY DEF EvaluatorReceiveFlush, NoMsg
<1>2. /\ GarblerHolds(view["g"], data["g"], keys, keyUsed, pc["g"])
      /\ EvaluatorHolds(v, data["e"], macs, info, "await")
  BY <1>1 DEF InStep, Holds
<1>3. MacsFit(msg, v.flush)
  <2>1. Fits("e", msg, v.flush)
    BY <1>0, <1>1, ReceivedFits
  <2> QED
    BY <2>1 DEF Fits
<1> DEFINE label == IF WantsFlush(CompleteFlush(v)) THEN "flush" ELSE ret["e"]
           bits == DecodeMacs(m, i)
<1>5. /\ EvaluatorExpects(v, msg) /\ CommitmentsHold(m, i)
      /\ EvaluatorHolds(CompleteFlush(v), bits, m, i, label)
  <2> HIDE DEF label, msg, v
  <2> QED
    BY <1>0, <1>2, <1>3, EvaluatorReceives
<1>6. /\ net' = [net EXCEPT !["e"] = Tail(@)] /\ data' = [data EXCEPT !["e"] = bits]
      /\ view' = [view EXCEPT !["e"] = CompleteFlush(v)] /\ macs' = m /\ info' = i
      /\ ops' = [ops EXCEPT !["e"] = {s \in ops["e"] : ~StoreIsSet(bits, s)}]
      /\ EndFlush("e", CompleteFlush(v)) /\ pc' = [pc EXCEPT !["e"] = label]
      /\ UNCHANGED <<keyUsed, keys, ret, tasks, err>>
  <2> HIDE DEF msg, v, m, i, bits, label
  <2>1. /\ net' = [net EXCEPT !["e"] = Tail(@)] /\ data' = [data EXCEPT !["e"] = bits]
        /\ view' = [view EXCEPT !["e"] = CompleteFlush(v)] /\ macs' = m /\ info' = i
        /\ Resolve("e", ops["e"], bits) /\ EndFlush("e", CompleteFlush(v))
        /\ UNCHANGED <<keyUsed, keys, ret, tasks, err>>
    BY <1>5 DEF EvaluatorReceiveFlush, msg, v, m, i, bits
  <2> QED
    BY <2>1 DEF Resolve, EndFlush, Return, label
<1> HIDE DEF bits, label, m, i, msg, v
<1>7. /\ data'["e"] = bits /\ data'["g"] = data["g"] /\ view'["e"] = CompleteFlush(v)
      /\ view'["g"] = view["g"] /\ pc'["e"] = label /\ pc'["g"] = pc["g"]
  BY <1>0, <1>6 DEF Tables
<1>8. Holds'
  BY <1>2, <1>5, <1>6, <1>7, Zenon DEF Holds
<1>9. Still("g")
  BY <1>6, <1>7 DEF Still, tasks
<1>10. Agree'
  <2>1. view'["e"] = CompleteFlush(view["e"]) /\ EndFlush("e", CompleteFlush(view["e"])) /\ ret' = ret
    BY <1>6, <1>7 DEF v
  <2> QED
    BY <1>0, <1>1, <1>6, <1>9, <2>1, AgreeReceive
<1>11. Resolved
  BY <1>0, <1>6, <1>7 DEF Resolved
<1> QED
  BY <1>6, <1>8, <1>10, <1>11 DEF Kept
-----------------------------------------------------------------------------
\* Where a party is matters to its stores only while it awaits a message or
\* executes.
LEMMA LabelHolds ==
  ASSUME NEW v, NEW d, NEW k, NEW u, NEW m, NEW i, NEW l, NEW n
  PROVE  /\ GarblerHolds(v, d, k, u, l) /\ l # "await" /\ n # "await" => GarblerHolds(v, d, k, u, n)
         /\ EvaluatorHolds(v, d, m, i, l) /\ (l # "execute" \/ n = "execute") => EvaluatorHolds(v, d, m, i, n)
BY DEF GarblerHolds, EvaluatorHolds

\* A step of one party that writes neither a view nor a store.
LEMMA QuietKept ==
  ASSUME InStep, UNCHANGED <<view, stores, ops, err>>,
         NEW p \in Roles, NEW label, pc' = [pc EXCEPT ![p] = label],
         pc[p] # "await" /\ label # "await", p = "e" => pc[p] # "execute" \/ label = "execute"
  PROVE  Kept
<1>0. Tables
  BY DEF InStep, PartiesInv
<1>1. \A q \in Roles : q # p => pc'[q] = pc[q]
  BY <1>0 DEF Tables
<1>2. pc'[p] = label
  BY <1>0 DEF Tables
<1>3. /\ GarblerHolds(view["g"], data["g"], keys, keyUsed, pc["g"])
      /\ EvaluatorHolds(view["e"], data["e"], macs, info, pc["e"])
  BY DEF InStep, Holds
<1>4. GarblerHolds(view["g"], data["g"], keys, keyUsed, pc'["g"])
  BY <1>1, <1>2, <1>3, LabelHolds, PeerFacts
<1>5. EvaluatorHolds(view["e"], data["e"], macs, info, pc'["e"])
  BY <1>1, <1>2, <1>3, LabelHolds, PeerFacts
<1>6. Holds'
  <2>1. view' = view /\ data' = data /\ keys' = keys /\ keyUsed' = keyUsed /\ macs' = macs /\ info' = info
    BY DEF stores
  <2> QED
    BY <1>4, <1>5, <2>1, Zenon DEF Holds
<1> QED
  BY <1>6 DEF Kept, Resolved, stores

\* preprocess.
LEMMA PreprocessKept ==
  ASSUME InStep, NEW p \in Roles, PreprocessBatch(p) \/ PreprocessEnd(p) PROVE Kept
<1>0. Tables /\ pc[p] = "garble" /\ pc = [pc EXCEPT ![p] = pc[p]]
  BY DEF InStep, PartiesInv, Tables, PreprocessBatch, PreprocessEnd
<1>1. CASE PreprocessBatch(p)
  <2>1. UNCHANGED <<view, stores, ops, err>> /\ pc' = [pc EXCEPT ![p] = "garble"]
    BY <1>0, <1>1 DEF PreprocessBatch, decodes
  <2> QED
    BY <1>0, <2>1, QuietKept
<1>2. CASE PreprocessEnd(p) /\ p = "g"
  <2>1. UNCHANGED <<view, stores, ops, err>> /\ pc' = [pc EXCEPT ![p] = "idle"]
    BY <1>0, <1>2 DEF PreprocessEnd, decodes, Return, Tables
  <2> QED
    BY <1>0, <2>1, QuietKept
<1>3. CASE PreprocessEnd(p) /\ p = "e"
  <2> DEFINE v == view["e"]
             K == taken["e"]
             w == SetPreprocessed(v, Outs(K))
  <2>0. "e" \in Roles /\ "g" \in Roles
    BY DEF Roles
  <2>1. /\ Sound("e", calls, v, pre["e"], stack["e"], K, batch["e"], rest["e"], "garble")
        /\ v \in ViewType /\ Layout(v, calls)
    BY <1>0, <1>3, <2>0 DEF InStep, PartiesInv, PartyInv, Sound
  <2>2. K \in SUBSET (1 .. calls)
    BY <2>1 DEF Sound, Works, Places
  <2> HIDE DEF K
  <2>3. Outs(K) \in Addr /\ UNION {OutputSlice(k) : k \in K} = Outs(K)
    BY <2>1, <2>2, CallsOut
  <2>4. /\ view' = [view EXCEPT !["e"] = MarkPreprocessed(v, K)] /\ pc' = [pc EXCEPT !["e"] = "idle"]
        /\ UNCHANGED <<stores, ops, err>>
    BY <1>3 DEF PreprocessEnd, decodes, Return, K
  <2>5. view'["e"] = w /\ view'["g"] = view["g"] /\ pc'["e"] = "idle" /\ pc'["g"] = pc["g"]
    BY <1>0, <2>0, <2>3, <2>4 DEF Tables, MarkPreprocessed
  <2>6. /\ w.assigned = v.assigned /\ w.committed = v.committed
        /\ w.executed = v.executed /\ w.informed = v.informed
    BY <2>1, <2>3, PreprocessedFields
  <2> HIDE DEF v, w
  <2>7. /\ GarblerHolds(view["g"], data["g"], keys, keyUsed, pc["g"])
        /\ EvaluatorHolds(v, data["e"], macs, info, "garble")
    BY <1>0, <1>3 DEF InStep, Holds, v
  <2>8. EvaluatorHolds(w, data["e"], macs, info, "idle")
    BY <2>6, <2>7 DEF EvaluatorHolds
  <2>9. data' = data /\ keys' = keys /\ keyUsed' = keyUsed /\ macs' = macs /\ info' = info /\ ops' = ops
    BY <2>4 DEF stores
  <2>10. Holds'
    BY <2>5, <2>7, <2>8, <2>9, Zenon DEF Holds
  <2> QED
    BY <2>4, <2>9, <2>10 DEF Kept, Resolved
<1> QED
  BY <1>1, <1>2, <1>3 DEF Roles

\* execute_all: where it goes on, and the next batch.
LEMMA LoopKept ==
  ASSUME InStep, NEW p \in Roles, ExecuteAll(p) \/ ExecuteBatch(p) PROVE Kept
<1>1. CASE ExecuteAll(p)
  <2> DEFINE label == CASE WantsFlush(view[p]) -> "flush"
                        [] ~WantsFlush(view[p]) /\ WantsExecute(p) -> "marking"
                        [] OTHER -> "idle"
  <2>1. /\ UNCHANGED <<view, stores, ops, err>> /\ pc' = [pc EXCEPT ![p] = label]
        /\ pc[p] \in {"loop", "remarking"}
    BY <1>1 DEF ExecuteAll, decodes, Return
  <2>2. label # "await"
    OBVIOUS
  <2> HIDE DEF label
  <2> QED
    BY <2>1, <2>2, QuietKept
<1>2. CASE ExecuteBatch(p)
  <2>1. /\ UNCHANGED <<view, stores, ops, err>> /\ pc' = [pc EXCEPT ![p] = "execute"]
        /\ pc[p] \in {"execute", "marking"}
    BY <1>2 DEF ExecuteBatch, Executing, decodes, Return
  <2> QED
    BY <2>1, QuietKept
<1> QED
  BY <1>1, <1>2

\* execute_all: its end, where the evaluator decodes.
LEMMA EndKept ==
  ASSUME InStep, NEW p \in Roles, ExecuteEnd(p) PROVE Kept
<1>0. Tables /\ pc[p] \in {"execute", "marking"} /\ data = [q \in Roles |-> data[q]]
      /\ "g" \in Roles /\ "e" \in Roles
  BY DEF InStep, PartiesInv, Inv, TypeOK, ExecuteEnd, Executing, Roles
<1>1. CASE p = "g"
  <2>1. UNCHANGED <<view, stores, ops, err>> /\ pc' = [pc EXCEPT ![p] = "remarking"]
    BY <1>1 DEF ExecuteEnd, Return, decodes
  <2> QED
    BY <1>0, <1>1, <2>1, QuietKept
<1>2. CASE p = "e"
  <2> DEFINE v == view["e"]
             bits == DecodeMacs(macs, info)
  <2>1. /\ GarblerHolds(view["g"], data["g"], keys, keyUsed, pc["g"])
        /\ EvaluatorHolds(v, data["e"], macs, info, pc["e"])
    BY DEF InStep, Holds
  <2>2. /\ CommitmentsHold(macs, info)
        /\ DOMAIN bits = DOMAIN data["e"] \cup (DOMAIN macs \cap DOMAIN info)
        /\ \A a \in DOMAIN bits : bits[a] \in Bits
    BY <2>1, DecodesGenuine DEF EvaluatorHolds
  <2>3. EvaluatorHolds(v, bits, macs, info, "loop")
    <3> HIDE DEF v, bits
    <3> QED
      BY <2>1, <2>2 DEF EvaluatorHolds
  <2>4. /\ pc' = [pc EXCEPT !["e"] = "loop"] /\ data' = [data EXCEPT !["e"] = bits]
        /\ Resolve("e", ops["e"], bits)
        /\ UNCHANGED <<view, keyUsed, keys, macs, info, err>>
    BY <1>2, <2>2 DEF ExecuteEnd, Return
  <2> HIDE DEF bits
  <2>5. /\ data'["e"] = bits /\ data'["g"] = data["g"] /\ pc'["e"] = "loop" /\ pc'["g"] = pc["g"]
        /\ ops' = [ops EXCEPT !["e"] = {s \in ops["e"] : ~StoreIsSet(bits, s)}]
    BY <1>0, <2>4 DEF Tables, Resolve
  <2>6. Holds'
    BY <2>1, <2>3, <2>4, <2>5, Zenon DEF Holds
  <2>7. Resolved
    BY <1>0, <2>4, <2>5 DEF Resolved
  <2> QED
    BY <2>4, <2>6, <2>7 DEF Kept
<1> QED
  BY <1>1, <1>2 DEF Roles
-----------------------------------------------------------------------------
\* mark_executed and execute_preprocessed.
LEMMA MarkingKept ==
  ASSUME InStep, NEW p \in Roles, ExecutePreprocessed(p) PROVE Kept
<1> DEFINE v == view[p]
           K == {k \in pre[p] : Ready(p, k)}
           outs == UNION {OutputSlice(k) : k \in K}
<1>0. /\ Tables /\ pc[p] \in {"marking", "remarking"} /\ data = [q \in Roles |-> data[q]]
      /\ "g" \in Roles /\ "e" \in Roles
      /\ Sound(p, calls, v, pre[p], stack[p], taken[p], batch[p], rest[p], pc[p])
      /\ v \in ViewType /\ Layout(v, calls)
      /\ PartiesInv /\ Holds
  BY DEF InStep, PartiesInv, PartyInv, Sound, Inv, TypeOK, ExecutePreprocessed, Roles
<1>1. /\ GarblerHolds(view["g"], data["g"], keys, keyUsed, pc["g"])
      /\ EvaluatorHolds(view["e"], data["e"], macs, info, pc["e"])
  BY <1>0 DEF Holds
<1>2. K \in SUBSET (1 .. calls) /\ \A k \in K : Out(k) \in v.preprocessed
  BY <1>0 DEF Sound, Works, Places
<1>3. K \subseteq pre[p] /\ \A k \in K : IsReady(v, k)
  BY ReadyFacts
<1> DEFINE m == Overlay([a \in outs |-> EvaluatedMac(CHOOSE k \in K : Out(k) = a, macs)], macs)
<1>4. \/ p = "e" /\ ~(/\ \A k \in K : EvaluatorCanEvaluate(k)
                      /\ CommitmentsHold(m, info))
      \/ /\ view' = [view EXCEPT ![p] = SetOutput(v, outs)]
         /\ IF p = "g"
            THEN UNCHANGED <<stores, decodes>>
            ELSE /\ macs' = m
                 /\ data' = [data EXCEPT !["e"] = DecodeMacs(m, info)]
                 /\ Resolve("e", ops["e"], DecodeMacs(m, info))
                 /\ UNCHANGED <<keyUsed, keys, info>>
         /\ UNCHANGED <<pc, err>>
  BY DEF ExecutePreprocessed
<1> HIDE DEF K
<1>5. outs = Outs(K) /\ Outs(K) \in Addr /\ Outs(K) \subseteq v.outputs
  BY <1>0, <1>2, CallsOut
<1>6. CASE p = "g"
  <2> DEFINE w == SetOutput(v, Outs(K))
  <2>1. view' = [view EXCEPT !["g"] = w] /\ UNCHANGED <<stores, ops, pc, err>>
    BY <1>4, <1>5, <1>6 DEF decodes
  <2>2. /\ SameMemory(v, w) /\ w.assigned = v.assigned /\ w.committed = v.committed
        /\ w.preprocessed = v.preprocessed \cup Outs(K) /\ w.decoded = v.decoded
    BY <1>0, <1>5, OutputFields
  <2>3. w.preprocessed = v.preprocessed
    BY <1>2, <2>2 DEF Outs
  <2>4. view'["g"] = w /\ view'["e"] = view["e"]
    BY <1>0, <2>1 DEF Tables
  <2> HIDE DEF w
  <2>5. GarblerHolds(w, data["g"], keys, keyUsed, pc["g"])
    BY <1>0, <1>1, <1>6, <2>2, <2>3 DEF GarblerHolds, SameMemory
  <2>6. /\ data' = data /\ keys' = keys /\ keyUsed' = keyUsed /\ macs' = macs /\ info' = info
        /\ ops' = ops /\ pc' = pc
    BY <2>1 DEF stores
  <2>7. Holds'
    BY <1>1, <2>4, <2>5, <2>6, Zenon DEF Holds
  <2> QED
    BY <2>1, <2>6, <2>7 DEF Kept, Resolved
<1>7. CASE p = "e"
  <2> DEFINE w == SetOutput(v, Outs(K))
             bits == DecodeMacs(m, info)
  <2>1. m = MacsAfter(K)
    BY <1>5 DEF MacsAfter
  <2>2. K \subseteq pre["e"] \cup batch["e"] /\ \A k \in K : IsReady(view["e"], k)
    BY <1>3, <1>7
  <2>3. \A k \in K : EvaluatorCanEvaluate(k)
    BY <1>0, <2>2, Evaluates
  <2> HIDE DEF m
  <2>4. /\ CommitmentsHold(m, info)
        /\ EvaluatorHolds(w, bits, m, info, pc["e"])
    BY <1>0, <1>7, <2>1, <2>2, EvaluatedHolds
  <2>5. /\ view' = [view EXCEPT !["e"] = w] /\ macs' = m
        /\ data' = [data EXCEPT !["e"] = bits]
        /\ Resolve("e", ops["e"], bits)
        /\ UNCHANGED <<keyUsed, keys, info, pc, err>>
    BY <1>4, <1>5, <1>7, <2>3, <2>4
  <2> HIDE DEF bits, w
  <2>6. /\ view'["e"] = w /\ view'["g"] = view["g"] /\ data'["e"] = bits /\ data'["g"] = data["g"]
        /\ ops' = [ops EXCEPT !["e"] = {s \in ops["e"] : ~StoreIsSet(bits, s)}]
    BY <1>0, <2>5 DEF Tables, Resolve
  <2>7. Holds'
    BY <1>1, <2>4, <2>5, <2>6, Zenon DEF Holds
  <2>8. Resolved
    BY <1>0, <2>5, <2>6 DEF Resolved
  <2> QED
    BY <2>5, <2>7, <2>8 DEF Kept
<1> QED
  BY <1>6, <1>7 DEF Roles

\* generate.
LEMMA GenerateKept ==
  ASSUME InStep, NEW k \in batch["g"], Generate(k) PROVE Kept
<1> DEFINE v == view["g"]
           S == Outs({k})
           w == IF pc["g"] = "garble" THEN SetPreprocessed(v, S)
                ELSE SetOutput(SetPreprocessed(v, S), S)
<1>0. /\ Tables /\ pc["g"] \in {"garble", "execute"}
      /\ "g" \in Roles /\ "e" \in Roles
      /\ PartiesInv /\ IndependentInv /\ Holds /\ v \in ViewType
  BY DEF InStep, PartiesInv, PartyInv, Sound, Generate, Roles
<1>1. /\ GarblerHolds(v, data["g"], keys, keyUsed, pc["g"])
      /\ EvaluatorHolds(view["e"], data["e"], macs, info, pc["e"])
  BY <1>0 DEF Holds
<1>2. GarblerCanGenerate(k) /\ k \in 1 .. calls /\ OutputSlice(k) = S /\ S \in Addr
  BY <1>0, Generates
<1>3. /\ keys' = keys \cup S /\ view' = [view EXCEPT !["g"] = w]
      /\ UNCHANGED <<data, keyUsed, macs, info, ops, pc, err>>
  BY <1>2 DEF Generate, decodes
<1>4. /\ SameMemory(v, w) /\ w.assigned = v.assigned /\ w.committed = v.committed
      /\ w.preprocessed = v.preprocessed \cup S /\ w.decoded = v.decoded
  <2> DEFINE u == SetPreprocessed(v, S)
             x == SetOutput(u, S)
  <2> HIDE DEF v, S
  <2>1. /\ u \in ViewType /\ SameMemory(v, u) /\ u.assigned = v.assigned /\ u.committed = v.committed
        /\ u.preprocessed = v.preprocessed \cup S /\ u.decoded = v.decoded
    BY <1>0, <1>2, PreprocessedFields
  <2> HIDE DEF u
  <2>2. /\ SameMemory(u, x) /\ x.assigned = u.assigned /\ x.committed = u.committed
        /\ x.preprocessed = u.preprocessed \cup S /\ x.decoded = u.decoded
    BY <1>2, <2>1, OutputFields
  <2>3. /\ SameMemory(v, x) /\ x.assigned = v.assigned /\ x.committed = v.committed
        /\ x.preprocessed = v.preprocessed \cup S /\ x.decoded = v.decoded
    BY <2>1, <2>2 DEF SameMemory
  <2>4. w = u \/ w = x
    BY DEF u
  <2> QED
    BY <2>1, <2>3, <2>4
<1>5. view'["g"] = w /\ view'["e"] = view["e"]
  BY <1>0, <1>3 DEF Tables
<1> HIDE DEF v, S, w
<1>6. GarblerHolds(w, data["g"], keys \cup S, keyUsed, pc["g"])
  BY <1>0, <1>1, <1>4 DEF GarblerHolds, SameMemory
<1>7. Holds'
  BY <1>1, <1>3, <1>5, <1>6, Zenon DEF Holds
<1> QED
  BY <1>3, <1>7 DEF Kept, Resolved

\* receive_garbled_circuit and evaluate.
LEMMA EvaluateKept ==
  ASSUME InStep, NEW k \in batch["e"], ReceiveGarbledCircuit(k) \/ Evaluate(k) PROVE Kept
<1> DEFINE v == view["e"]
           K == {k}
<1>0. /\ Tables /\ "g" \in Roles /\ "e" \in Roles /\ PartiesInv /\ Holds
      /\ Sound("e", calls, v, pre["e"], stack["e"], taken["e"], batch["e"], rest["e"], pc["e"])
      /\ calls \in Nat /\ batch["e"] \in SUBSET (1 .. calls)
  BY DEF InStep, PartiesInv, PartyInv, Sound, Layout, Works, Places, Roles
<1>1. /\ GarblerHolds(view["g"], data["g"], keys, keyUsed, pc["g"])
      /\ EvaluatorHolds(view["e"], data["e"], macs, info, pc["e"])
  BY <1>0 DEF Holds
<1>2. CASE ReceiveGarbledCircuit(k)
  <2>1. pc["e"] = "garble" /\ UNCHANGED <<view, stores, ops, err>> /\ pc' = [pc EXCEPT !["e"] = "garble"]
    BY <1>0, <1>2 DEF ReceiveGarbledCircuit, decodes, Tables
  <2> QED
    BY <1>0, <2>1, QuietKept
<1>3. CASE Evaluate(k)
  <2>1. pc["e"] = "execute"
    BY <1>3 DEF Evaluate
  <2>2. K \subseteq pre["e"] \cup batch["e"] /\ \A j \in K : IsReady(v, j)
    BY <1>0, <2>1 DEF Sound, Works, Executable
  <2>3. OutputSlice(k) = Outs(K)
    BY <1>0, OutFacts DEF Outs
  <2> DEFINE m == Overlay([a \in OutputSlice(k) |-> EvaluatedMac(k, macs)], macs)
             w == SetOutput(v, Outs(K))
  <2>4. m = MacsAfter(K)
    <3>1. [a \in Outs(K) |-> EvaluatedMac(k, macs)]
            = [a \in Outs(K) |-> EvaluatedMac(CHOOSE j \in K : Out(j) = a, macs)]
      <4>1. \A a \in Outs(K) : (CHOOSE j \in K : Out(j) = a) = k
        BY DEF Outs
      <4> QED
        BY <4>1
    <3> QED
      BY <2>3, <3>1 DEF MacsAfter
  <2>5. EvaluatorCanEvaluate(k)
    <3>1. \A j \in K : EvaluatorCanEvaluate(j)
      <4> HIDE DEF K
      <4> QED
        BY <1>0, <2>2, Evaluates
    <3> QED
      BY <3>1
  <2>6. EvaluatorHolds(w, data["e"], m, info, "execute")
    <3> HIDE DEF K, m
    <3> QED
      BY <1>0, <2>2, <2>4, EvaluatedHolds
  <2>7. /\ view' = [view EXCEPT !["e"] = w] /\ macs' = m
        /\ UNCHANGED <<data, keyUsed, keys, info, ops, pc, err>>
    BY <1>3, <2>3, <2>5 DEF Evaluate, decodes
  <2> HIDE DEF m, w
  <2>8. view'["e"] = w /\ view'["g"] = view["g"]
    BY <1>0, <2>7 DEF Tables
  <2>9. Holds'
    BY <1>1, <2>1, <2>6, <2>7, <2>8, Zenon DEF Holds
  <2> QED
    BY <2>7, <2>9 DEF Kept, Resolved
<1> QED
  BY <1>2, <1>3
-----------------------------------------------------------------------------
\* The machines withdraw nothing that was asked for and assign nothing.
LEMMA WorkedKeeps ==
  ASSUME NEW p \in Roles, NEW v, NEW n, Good(v, p), Layout(v, n), NEW w, Worked(v, w, n)
  PROVE  w.decode = v.decode /\ w.assigned = v.assigned
<1>1. v \in ViewType
  BY DEF Good
<1>2. CASE w = v
  BY <1>2
<1>3. CASE w = CompleteFlush(v)
  BY <1>1, <1>3, CompleteFields
<1>4. ASSUME NEW K \in SUBSET (1 .. n), w = SetPreprocessed(v, Outs(K)) \/ w = SetOutput(v, Outs(K))
      PROVE  w.decode = v.decode /\ w.assigned = v.assigned
  <2>1. Outs(K) \in Addr
    BY CallsOut
  <2> QED
    BY <1>1, <1>4, <2>1, PreprocessedFields, OutputFields
<1> QED
  BY <1>2, <1>3, <1>4 DEF Worked

\* A decode operation waits until its slice is set.
LEMMA WaitingMachines ==
  ASSUME InStep, Garbler \/ Evaluator, Resolved PROVE Waiting'
<1>0. /\ ops = [p \in Roles |-> ops[p]] /\ data = [p \in Roles |-> data[p]]
      /\ \A p \in Roles : Waits(view[p], data[p], ops[p])
      /\ (\A p \in Roles : ops[p] = {}) \/ Assigned
  BY DEF InStep, Waiting, Inv, TypeOK
<1>1. ASSUME NEW p \in Roles
      PROVE  view'[p].decode = view[p].decode /\ view'[p].assigned = view[p].assigned
  <2>1. Good(view[p], p) /\ Layout(view[p], calls) /\ Worked(view[p], view'[p], calls)
    BY MachineWorks DEF InStep, PartiesInv, PartyInv, Sound
  <2> QED
    BY <2>1, WorkedKeeps
<1>2. Assigned' <=> Assigned
  <2>1. /\ view'["g"].assigned = view["g"].assigned
        /\ view'["e"].assigned = view["e"].assigned
    BY <1>1, PeerFacts
  <2> QED
    BY <2>1 DEF Assigned, NumInputs
<1>3. CASE UNCHANGED <<data, ops>>
  <2>1. \A p \in Roles : Waits(view'[p], data'[p], ops'[p])
    BY <1>0, <1>1, <1>3 DEF Waits
  <2> QED
    BY <1>0, <1>2, <1>3, <2>1 DEF Waiting
<1>4. ASSUME NEW q \in Roles, data' = [data EXCEPT ![q] = data'[q]],
             ops' = [ops EXCEPT ![q] = {s \in ops[q] : ~StoreIsSet(data'[q], s)}]
      PROVE  Waiting'
  <2>1. \A p \in Roles : p # q => ops'[p] = ops[p] /\ data'[p] = data[p]
    BY <1>0, <1>4
  <2>2. ops'[q] = {s \in ops[q] : ~StoreIsSet(data'[q], s)}
    BY <1>0, <1>4
  <2>3. Waits(view'[q], data'[q], ops'[q])
    BY <1>0, <1>1, <2>2 DEF Waits, StoreIsSet
  <2>4. \A p \in Roles : Waits(view'[p], data'[p], ops'[p])
    BY <1>0, <1>1, <2>1, <2>3 DEF Waits
  <2>5. ops' = [p \in Roles |-> ops'[p]]
    BY <1>0, <1>4
  <2>6. (\A p \in Roles : ops'[p] = {}) \/ Assigned
    BY <1>0, <2>1, <2>2
  <2> QED
    BY <1>2, <2>4, <2>5, <2>6 DEF Waiting
<1> QED
  BY <1>3, <1>4 DEF Resolved

\* The machines.
LEMMA MachineStep ==
  ASSUME InStep, Garbler \/ Evaluator
  PROVE  Agree' /\ Holds' /\ Waiting' /\ NoFailure'
<1>0. PartiesInv /\ Agree
  BY DEF InStep
<1>1. ASSUME NEW p \in Roles, Party(p) PROVE Kept /\ Agree'
  <2>1. CASE PreprocessBatch(p) \/ PreprocessEnd(p)
    BY <1>0, <2>1, PreprocessKept, PreprocessParty DEF Onward
  <2>2. CASE ExecuteAll(p)
    BY <1>0, <2>2, LoopKept, LoopParty DEF Onward
  <2>3. CASE ExecutePreprocessed(p)
    BY <1>0, <2>3, MarkingKept, MarkingParty DEF Onward
  <2>4. CASE ExecuteBatch(p)
    BY <1>0, <2>4, LoopKept, ExecuteParty DEF Onward
  <2>5. CASE ExecuteEnd(p)
    BY <1>0, <2>5, EndKept, ExecuteParty DEF Onward
  <2> QED
    BY <1>1, <2>1, <2>2, <2>3, <2>4, <2>5 DEF Party
<1>2. ASSUME NEW k \in batch["g"], Generate(k) PROVE Kept /\ Agree'
  BY <1>0, <1>2, GenerateKept, GenerateParty DEF Onward
<1>3. ASSUME NEW k \in batch["e"], ReceiveGarbledCircuit(k) \/ Evaluate(k) PROVE Kept /\ Agree'
  BY <1>0, <1>3, EvaluateKept, EvaluateParty DEF Onward
<1>4. Kept /\ Agree'
  BY <1>1, <1>2, <1>3, SendKept, GarblerReceiveKept, EvaluatorReceiveKept, PeerFacts DEF Garbler, Evaluator
<1>5. Waiting'
  BY <1>4, WaitingMachines DEF Kept
<1>6. NoFailure'
  BY <1>4 DEF Kept, NoFailure, InStep
<1> QED
  BY <1>4, <1>5, <1>6 DEF Kept
-----------------------------------------------------------------------------
\* An operation on the memory that leaves what was exchanged and assigned.
LEMMA MemoryHolds ==
  ASSUME InStep, Idle, UNCHANGED <<keyUsed, macs, info, pc, data>>,
         \A p \in Roles : /\ view'[p].committed = view[p].committed
                          /\ view'[p].executed = view[p].executed
                          /\ view'[p].informed = view[p].informed
                          /\ view'[p].decoded = view[p].decoded
                          /\ view'[p].assigned = view[p].assigned
                          /\ view[p].vis.visible \subseteq view'[p].vis.visible,
         keys' = view'["g"].inputs \cup view'["g"].preprocessed
  PROVE  Holds'
<1>0. "g" \in Roles /\ "e" \in Roles /\ pc["g"] = "idle" /\ pc["e"] = "idle"
  BY DEF Idle, Roles
<1>1. /\ GarblerHolds(view["g"], data["g"], keys, keyUsed, "idle")
      /\ EvaluatorHolds(view["e"], data["e"], macs, info, "idle")
  BY <1>0 DEF InStep, Holds
<1>2. GarblerHolds(view'["g"], data["g"], keys', keyUsed, "idle")
  <2> DEFINE v == view["g"]
             w == view'["g"]
  <2>1. /\ w.committed = v.committed /\ w.decoded = v.decoded /\ w.assigned = v.assigned
        /\ v.vis.visible \subseteq w.vis.visible /\ keys' = w.inputs \cup w.preprocessed
    BY <1>0
  <2>2. GarblerHolds(v, data["g"], keys, keyUsed, "idle")
    BY <1>1
  <2> HIDE DEF v, w
  <2>3. GarblerHolds(w, data["g"], keys', keyUsed, "idle")
    BY <2>1, <2>2 DEF GarblerHolds
  <2> QED
    BY <2>3 DEF w
<1>3. EvaluatorHolds(view'["e"], data["e"], macs, info, "idle")
  <2> DEFINE v == view["e"]
             w == view'["e"]
  <2>1. /\ w.committed = v.committed /\ w.executed = v.executed /\ w.informed = v.informed
        /\ w.assigned = v.assigned
    BY <1>0
  <2>2. EvaluatorHolds(v, data["e"], macs, info, "idle")
    BY <1>1
  <2> HIDE DEF v, w
  <2>3. EvaluatorHolds(w, data["e"], macs, info, "idle")
    BY <2>1, <2>2 DEF EvaluatorHolds
  <2> QED
    BY <2>3 DEF w
<1> QED
  <2>1. data' = data /\ keyUsed' = keyUsed /\ macs' = macs /\ info' = info /\ pc'["g"] = "idle" /\ pc'["e"] = "idle"
    BY <1>0
  <2> QED
    BY <1>2, <1>3, <2>1, Zenon DEF Holds

\* See MemoryHolds: nothing is decoded, and what waits goes on waiting.
LEMMA MemoryKept ==
  ASSUME InStep, Idle, UNCHANGED <<data, ops, err>>, Holds',
         \A p \in Roles : /\ view'[p].assigned = view[p].assigned
                          /\ view[p].decode \subseteq view'[p].decode
  PROVE  Holds' /\ Waiting' /\ NoFailure'
<1>0. "g" \in Roles /\ "e" \in Roles
  BY DEF Roles
<1>5. Assigned' <=> Assigned
  <2>1. /\ view'["g"].assigned = view["g"].assigned
        /\ view'["e"].assigned = view["e"].assigned
    BY <1>0
  <2> QED
    BY <2>1 DEF Assigned, NumInputs
<1>6. \A p \in Roles : Waits(view'[p], data'[p], ops'[p])
  BY DEF InStep, Waiting, Waits
<1>7. Waiting'
  BY <1>5, <1>6 DEF InStep, Waiting
<1>8. NoFailure'
  BY DEF InStep, NoFailure
<1> QED
  BY <1>7, <1>8

\* Views whose addresses all have a place: the inputs' come first.
LEMMA InputAddrs ==
  ASSUME NEW i \in Inputs PROVE InputSlice(i) \subseteq 0 .. NumInputs - 1
<1>1. /\ i \in 1 .. Len(Bounds) /\ i + 1 \in 1 .. Len(Bounds) /\ Len(Bounds) \in 1 .. Len(Bounds)
  BY BoundsGrow DEF Inputs
<1>2. /\ Bounds[i] \in Nat /\ Bounds[i + 1] \in Nat /\ NumInputs \in Nat
      /\ i + 1 = Len(Bounds) \/ Bounds[i + 1] < Bounds[Len(Bounds)]
  BY <1>1, BoundsGrow
<1>3. Bounds[i + 1] <= NumInputs
  <2>1. CASE i + 1 = Len(Bounds)
    BY <1>2, <2>1 DEF NumInputs
  <2>2. CASE Bounds[i + 1] < Bounds[Len(Bounds)]
    BY <1>2, <2>2 DEF NumInputs
  <2> QED
    BY <1>2, <2>1, <2>2
<1>4. InputSlice(i) = Bounds[i] .. (Bounds[i] + (Bounds[i + 1] - Bounds[i]) - 1)
  BY DEF InputSlice, Slice
<1> QED
  BY <1>2, <1>3, <1>4

\* Once every input is assigned no application assigns one again: what is
\* public is assigned by both, what is private by its owner alone.
LEMMA AssignedOnce ==
  ASSUME InStep, Assigned, NEW S \in Slices, NEW bits, AssignRaw(S, bits) PROVE FALSE
<1>0. /\ "g" \in Roles /\ "e" \in Roles
      /\ \A p \in Roles : /\ Good(view[p], p) /\ Owned(p, view[p]) /\ pc[p] = "idle"
                          /\ view[p].assigned \subseteq DOMAIN data[p]
  BY DEF InStep, PartiesInv, PartyInv, Sound, FreshInv, Holds, GarblerHolds, EvaluatorHolds, Roles,
         AssignRaw, Idle
<1>1. /\ \A p \in Roles : CanAssign(view[p], S) => ~(S \subseteq DOMAIN data[p]) /\ S \cap DOMAIN data[p] = {}
      /\ \E p \in Roles : CanAssign(view[p], S)
  BY DEF AssignRaw, CanSet, StoreIsSet
<1>2. PICK p \in Roles : CanAssign(view[p], S)
  BY <1>1
<1>3. PICK a \in S : a \notin DOMAIN data[p]
  BY <1>1, <1>2
<1>4. PICK i \in Inputs : S \subseteq InputSlice(i)
  BY SliceAddr
<1>5. a \in view["g"].assigned \cup view["e"].assigned
  BY <1>4, InputAddrs DEF Assigned
<1> DEFINE q == Peer(p)
<1>6. q \in Roles /\ p # q /\ \A x \in Roles : x = p \/ x = q
  BY PeerFacts
<1>7. a \in view[q].assigned
  BY <1>0, <1>3, <1>5, <1>6
<1>8. a \in view[q].vis.visible /\ S \subseteq view[p].vis.visible /\ S \cap view[p].outputs = {}
  BY <1>0, <1>2, <1>6, <1>7 DEF CanAssign, Good, UseShape
<1>9. /\ view[q].outputs = view[p].outputs /\ view[q].vis.public = view[p].vis.public
      /\ view[q].vis.blind = view[p].vis.private
  BY <1>0, <1>6, AgreeIdle DEF InStep, Twin, Roles
<1>10. /\ view[p].vis.visible = view[p].vis.public \cup view[p].vis.private
       /\ view[q].vis.visible = view[q].vis.public \cup view[q].vis.private
       /\ view[q].vis.blind \cap view[q].vis.visible = {}
       /\ view[p].vis.visible \subseteq Settled(view[p])
  BY <1>0, <1>6 DEF Good, VisShape, Settled
<1>11. a \in view[p].vis.public
  BY <1>8, <1>9, <1>10
<1>12. S \subseteq view[p].vis.public
  BY <1>0, <1>4, <1>8, <1>10, <1>11, OneOwner
<1>13. CanAssign(view[q], S)
  BY <1>8, <1>9, <1>10, <1>12 DEF CanAssign
<1>14. a \in DOMAIN data[q]
  BY <1>0, <1>6, <1>7
<1> QED
  BY <1>1, <1>6, <1>13, <1>14
-----------------------------------------------------------------------------
\* alloc_raw, mark_raw, commit_raw and call_raw.
LEMMA LayoutKept ==
  ASSUME InStep,
         AllocRaw \/ (\E i \in Allocated : MarkRaw(i)) \/ (\E S \in Slices : CommitRaw(S)) \/ CallRaw
  PROVE  Holds' /\ Waiting' /\ NoFailure'
<1>0. /\ "g" \in Roles /\ "e" \in Roles /\ keys = view["g"].inputs \cup view["g"].preprocessed
      /\ \A p \in Roles : view[p] \in ViewType /\ ViewInv(view[p]) /\ view[p].len = view["g"].len
  BY DEF InStep, Holds, GarblerHolds, Inv, TypeOK, Roles
<1>1. Idle /\ UNCHANGED <<keyUsed, macs, info, pc, data, ops, err>>
  BY DEF AllocRaw, MarkRaw, CommitRaw, CallRaw, stores, decodes
<1>2. ASSUME \A p \in Roles :
               /\ SameProgress(view[p], view'[p]) /\ view'[p].assigned = view[p].assigned
               /\ view[p].vis.visible \subseteq view'[p].vis.visible,
             keys' = view'["g"].inputs \cup view'["g"].preprocessed
      PROVE  Holds' /\ Waiting' /\ NoFailure'
  <2>1. Holds'
    BY <1>1, <1>2, MemoryHolds DEF SameProgress
  <2> QED
    BY <1>1, <1>2, <2>1, MemoryKept DEF SameProgress
<1>3. ASSUME AllocRaw PROVE Holds' /\ Waiting' /\ NoFailure'
  <2> DEFINE S == Slice(view["g"].len, NextSize)
  <2>1. /\ NextSize \in Nat /\ view' = [p \in Roles |-> AllocInput(view[p], NextSize)]
        /\ keys' = keys \cup S
    BY <1>3, NextInput DEF AllocRaw, NextSize
  <2>2. ASSUME NEW p \in Roles
        PROVE  /\ SameProgress(view[p], view'[p]) /\ view'[p].assigned = view[p].assigned
               /\ view[p].vis.visible \subseteq view'[p].vis.visible
               /\ view'[p].inputs = view[p].inputs \cup S
    <3> DEFINE w == AllocInput(view[p], NextSize)
    <3>1. view'[p] = w /\ w \in {AllocInput(view[p], NextSize), AllocOutput(view[p], NextSize)}
      BY <2>1
    <3>2. S = Slice(view[p].len, NextSize)
      BY <1>0
    <3>3. view[p] \in ViewType
      BY <1>0
    <3> HIDE DEF w, S
    <3>4. /\ SameProgress(view[p], w) /\ w.assigned = view[p].assigned
          /\ w.vis.visible = view[p].vis.visible
          /\ AllocInput(view[p], NextSize).inputs = view[p].inputs \cup S
      BY <2>1, <3>1, <3>2, <3>3, AllocFields
    <3> QED
      BY <3>1, <3>4 DEF w
  <2>3. view'["g"].inputs = view["g"].inputs \cup S /\ view'["g"].preprocessed = view["g"].preprocessed
    BY <1>0, <2>2 DEF SameProgress
  <2> QED
    BY <1>0, <1>2, <2>1, <2>2, <2>3
<1>4. ASSUME NEW i \in Allocated, MarkRaw(i) PROVE Holds' /\ Waiting' /\ NoFailure'
  <2> DEFINE S == InputSlice(i)
  <2>1. \A p \in Roles : /\ CanMark(view[p], S)
                         /\ view'[p] \in {MarkPublic(view[p], S), MarkPrivate(view[p], S), MarkBlind(view[p], S)}
    BY <1>4 DEF MarkRaw
  <2>2. S \in Addr /\ \A p \in Roles : Below(S, view[p].len)
    BY <1>0 DEF InputSlice, Slice, Allocated, Below, Addr
  <2>3. keys' = keys
    BY <1>4 DEF MarkRaw, stores
  <2> HIDE DEF S
  <2>4. ASSUME NEW p \in Roles
        PROVE  /\ SameProgress(view[p], view'[p]) /\ view'[p].assigned = view[p].assigned
               /\ view[p].vis.visible \subseteq view'[p].vis.visible
               /\ view'[p].inputs = view[p].inputs
    <3>1. /\ SameProgress(view[p], view'[p]) /\ view'[p].assigned = view[p].assigned
          /\ view'[p].inputs = view[p].inputs
      BY <1>0, <2>1, <2>2, MarkFields
    <3>2. Grows(view[p], view'[p])
      BY <1>0, <2>1, <2>2, MarkGrows
    <3> QED
      BY <3>1, <3>2 DEF Grows
  <2> QED
    BY <1>0, <1>2, <2>3, <2>4 DEF SameProgress
<1>5. ASSUME NEW S \in Slices, CommitRaw(S) PROVE Holds' /\ Waiting' /\ NoFailure'
  <2>1. S \in Addr /\ keys' = keys /\ \A p \in Roles : view'[p] = Commit(view[p], p, S)
    BY <1>5, SliceAddr DEF CommitRaw, stores
  <2>2. ASSUME NEW p \in Roles
        PROVE  /\ SameProgress(view[p], view'[p]) /\ view'[p].assigned = view[p].assigned
               /\ SameMemory(view[p], view'[p])
    BY <1>0, <2>1, CommitFields
  <2> QED
    BY <1>0, <1>2, <2>1, <2>2 DEF SameProgress, SameMemory
<1>6. ASSUME CallRaw PROVE Holds' /\ Waiting' /\ NoFailure'
  <2> DEFINE size == 1
  <2>1. size \in Nat /\ keys' = keys /\ \A p \in Roles : view'[p] = AllocOutput(view[p], size)
    BY <1>6 DEF CallRaw, stores
  <2> HIDE DEF size
  <2>2. ASSUME NEW p \in Roles
        PROVE  /\ SameProgress(view[p], view'[p]) /\ view'[p].assigned = view[p].assigned
               /\ view'[p].vis.visible = view[p].vis.visible
               /\ view'[p].inputs = view[p].inputs
    <3> DEFINE w == AllocOutput(view[p], size)
               S == Slice(view[p].len, size)
    <3>1. view'[p] = w /\ w \in {AllocInput(view[p], size), AllocOutput(view[p], size)}
      BY <2>1
    <3>2. S = Slice(view[p].len, size) /\ view[p] \in ViewType
      BY <1>0
    <3> HIDE DEF w, S
    <3>4. /\ SameProgress(view[p], w) /\ w.assigned = view[p].assigned
          /\ w.vis.visible = view[p].vis.visible
          /\ AllocOutput(view[p], size).inputs = view[p].inputs
      BY <2>1, <3>1, <3>2, AllocFields
    <3> QED
      BY <3>1, <3>4 DEF w
  <2> QED
    BY <1>0, <1>2, <2>1, <2>2 DEF SameProgress
<1> QED
  BY <1>3, <1>4, <1>5, <1>6

\* assign_raw: the parties that see the slice hold its bits.
LEMMA AssignKept ==
  ASSUME InStep, NEW S \in Slices, NEW bits \in Values, AssignRaw(S, bits)
  PROVE  Holds' /\ Waiting' /\ NoFailure'
<1>0. /\ "g" \in Roles /\ "e" \in Roles /\ pc["g"] = "idle" /\ pc["e"] = "idle" /\ pc' = pc
      /\ UNCHANGED <<keyUsed, keys, macs, info, ops, err>>
      /\ \A p \in Roles : view[p] \in ViewType
  BY DEF AssignRaw, Idle, Roles, InStep, Inv, TypeOK, decodes
<1>1. S \in Addr /\ \A a \in S : bits[a] \in Bits
  <2>1. PICK i \in Inputs : S \subseteq InputSlice(i)
    BY SliceAddr
  <2>2. S \subseteq 0 .. Bounds[Len(Bounds)] - 1
    BY <2>1, InputAddrs DEF NumInputs
  <2>3. bits \in [0 .. Bounds[Len(Bounds)] - 1 -> {0, 1}]
    BY ConstantsOK
  <2> QED
    BY <2>2, <2>3, SliceAddr DEF Bits
<1>2. ASSUME NEW p \in Roles
      PROVE  \/ view'[p] = view[p] /\ data'[p] = data[p]
             \/ /\ S \subseteq view[p].vis.visible
                /\ view'[p] = Assign(view[p], S) /\ data'[p] = TrySet(data[p], S, bits)
  BY DEF AssignRaw, CanAssign
<1>3. ASSUME NEW v, NEW d, NEW w, w = Assign(v, S), NEW b, b = TrySet(d, S, bits), v \in ViewType,
             S \subseteq v.vis.visible
      PROVE  /\ SameMemory(v, w) /\ SameProgress(v, w) /\ w.assigned = v.assigned \cup S
             /\ DOMAIN b = DOMAIN d \cup S
             /\ (\A a \in DOMAIN d : d[a] \in Bits) => \A a \in DOMAIN b : b[a] \in Bits
  <2>1. SameMemory(v, w) /\ SameProgress(v, w) /\ w.assigned = v.assigned \cup S
    BY <1>1, <1>3, AssignFields
  <2> DEFINE new == [a \in S |-> bits[a]]
  <2>2. DOMAIN new = S /\ \A a \in S : new[a] \in Bits
    BY <1>1
  <2>3. b = Overlay(new, d)
    BY <1>3 DEF TrySet
  <2> HIDE DEF new
  <2>4. /\ DOMAIN b = S \cup DOMAIN d /\ \A a \in S : b[a] = new[a]
        /\ \A a \in DOMAIN d \ S : b[a] = d[a]
    <3>1. /\ DOMAIN Overlay(new, d) = DOMAIN new \cup DOMAIN d
          /\ \A a \in DOMAIN new : Overlay(new, d)[a] = new[a]
          /\ \A a \in DOMAIN d \ DOMAIN new : Overlay(new, d)[a] = d[a]
      BY OverlayFacts
    <3> QED
      BY <2>2, <2>3, <3>1
  <2> QED
    BY <2>1, <2>2, <2>4
<1>4. /\ GarblerHolds(view["g"], data["g"], keys, keyUsed, "idle")
      /\ EvaluatorHolds(view["e"], data["e"], macs, info, "idle")
  BY <1>0 DEF InStep, Holds
<1>5. GarblerHolds(view'["g"], data'["g"], keys, keyUsed, "idle")
  <2>1. CASE view'["g"] = view["g"] /\ data'["g"] = data["g"]
    BY <1>4, <2>1, Zenon
  <2>2. ASSUME view'["g"] = Assign(view["g"], S), data'["g"] = TrySet(data["g"], S, bits),
               S \subseteq view["g"].vis.visible
        PROVE  GarblerHolds(view'["g"], data'["g"], keys, keyUsed, "idle")
    <3> DEFINE v == view["g"]
               d == data["g"]
               w == view'["g"]
               b == data'["g"]
    <3>1. /\ SameMemory(v, w) /\ SameProgress(v, w) /\ w.assigned = v.assigned \cup S
          /\ DOMAIN b = DOMAIN d \cup S
          /\ (\A a \in DOMAIN d : d[a] \in Bits) => \A a \in DOMAIN b : b[a] \in Bits
      BY <1>0, <1>3, <2>2
    <3>2. GarblerHolds(v, d, keys, keyUsed, "idle") /\ S \subseteq v.vis.visible
      BY <1>4, <2>2
    <3> HIDE DEF v, d, w, b
    <3>3. GarblerHolds(w, b, keys, keyUsed, "idle")
      BY <3>1, <3>2 DEF GarblerHolds, SameMemory, SameProgress
    <3> QED
      BY <3>3 DEF w, b
  <2> QED
    BY <1>0, <1>2, <2>1, <2>2
<1>6. EvaluatorHolds(view'["e"], data'["e"], macs, info, "idle")
  <2>1. CASE view'["e"] = view["e"] /\ data'["e"] = data["e"]
    BY <1>4, <2>1, Zenon
  <2>2. ASSUME view'["e"] = Assign(view["e"], S), data'["e"] = TrySet(data["e"], S, bits),
               S \subseteq view["e"].vis.visible
        PROVE  EvaluatorHolds(view'["e"], data'["e"], macs, info, "idle")
    <3> DEFINE v == view["e"]
               d == data["e"]
               w == view'["e"]
               b == data'["e"]
    <3>1. /\ SameProgress(v, w) /\ w.assigned = v.assigned \cup S
          /\ DOMAIN b = DOMAIN d \cup S
          /\ (\A a \in DOMAIN d : d[a] \in Bits) => \A a \in DOMAIN b : b[a] \in Bits
      BY <1>0, <1>3, <2>2
    <3>2. EvaluatorHolds(v, d, macs, info, "idle")
      BY <1>4
    <3> HIDE DEF v, d, w, b
    <3>3. EvaluatorHolds(w, b, macs, info, "idle")
      BY <3>1, <3>2 DEF EvaluatorHolds, SameProgress
    <3> QED
      BY <3>3 DEF w, b
  <2> QED
    BY <1>0, <1>2, <2>1, <2>2
<1>7. Holds'
  <2>1. keyUsed' = keyUsed /\ keys' = keys /\ macs' = macs /\ info' = info /\ pc'["g"] = "idle" /\ pc'["e"] = "idle"
    BY <1>0
  <2> QED
    BY <1>5, <1>6, <2>1, Zenon DEF Holds
<1>8. Waiting'
  <2>1. \A p \in Roles : ops[p] = {}
    BY AssignedOnce DEF InStep, Waiting
  <2> QED
    BY <1>0, <2>1 DEF InStep, Waiting, Waits
<1>9. NoFailure'
  BY <1>0 DEF InStep, NoFailure
<1> QED
  BY <1>7, <1>8, <1>9

\* decode_raw: what is not known yet waits.
LEMMA DecodeKept ==
  ASSUME InStep, Assigned, NEW S \in Slices \cup {OutputSlice(k) : k \in 1 .. calls}, DecodeRaw(S)
  PROVE  Holds' /\ Waiting' /\ NoFailure'
<1>0. /\ "g" \in Roles /\ "e" \in Roles /\ keys = view["g"].inputs \cup view["g"].preprocessed
      /\ \A p \in Roles : /\ view[p] \in ViewType /\ VisShape(view[p])
                          /\ view[p].decoded \subseteq view[p].decode
      /\ calls \in Nat
  BY DEF InStep, Holds, GarblerHolds, Inv, TypeOK, Roles, PartiesInv, PartyInv, Sound, Good, UseShape,
         Layout
<1>1. /\ Idle /\ UNCHANGED <<keyUsed, keys, macs, info, pc, data, err>>
      /\ \A p \in Roles : /\ S \subseteq view[p].outputs \/ VisIsSet(view[p].vis, view[p].len, S)
                          /\ view'[p] = Decode(view[p], p, S)
      /\ ops' = [p \in Roles |-> IF StoreIsSet(data[p], S) THEN ops[p] ELSE ops[p] \cup {S}]
  BY DEF DecodeRaw, stores
<1>2. S \in Addr
  BY <1>0, DecodedAddr
<1>3. ASSUME NEW p \in Roles
      PROVE  /\ SameMemory(view[p], view'[p]) /\ view'[p].assigned = view[p].assigned
             /\ view'[p].committed = view[p].committed /\ view'[p].executed = view[p].executed
             /\ view'[p].preprocessed = view[p].preprocessed
             /\ view'[p].informed = view[p].informed /\ view'[p].decoded = view[p].decoded
             /\ view[p].decode \cup S \subseteq view'[p].decode
  <2>1. CASE S \subseteq view[p].decoded
    <3>1. view'[p] = view[p]
      BY <1>1, <2>1 DEF Decode
    <3> QED
      BY <1>0, <2>1, <3>1 DEF SameMemory
  <2>2. CASE ~(S \subseteq view[p].decoded)
    BY <1>0, <1>1, <1>2, <2>2, DecodeFields
  <2> QED
    BY <2>1, <2>2
<1>4. Holds'
  <2>1. keys' = view'["g"].inputs \cup view'["g"].preprocessed
    BY <1>0, <1>1, <1>3 DEF SameMemory
  <2> QED
    BY <1>1, <1>3, <2>1, MemoryHolds DEF SameMemory
<1>5. Waiting'
  <2>1. Assigned'
    <3>1. view'["g"].assigned = view["g"].assigned /\ view'["e"].assigned = view["e"].assigned
      BY <1>0, <1>3
    <3> QED
      BY <3>1 DEF Assigned, NumInputs
  <2>2. ASSUME NEW p \in Roles PROVE Waits(view'[p], data'[p], ops'[p])
    <3>1. Waits(view[p], data[p], ops[p]) /\ data' = data
      BY <1>1 DEF InStep, Waiting
    <3>2. \A s \in ops'[p] : s \in ops[p] \/ (s = S /\ ~(S \subseteq DOMAIN data[p]))
      BY <1>1 DEF StoreIsSet
    <3> QED
      BY <1>3, <3>1, <3>2 DEF Waits
  <2> QED
    BY <1>1, <2>1, <2>2 DEF Waiting
<1>6. NoFailure'
  BY <1>1 DEF InStep, NoFailure
<1> QED
  BY <1>4, <1>5, <1>6

\* flush, execute_all and preprocess start.
LEMMA StartKept ==
  ASSUME InStep, StartFlush \/ StartExecuteAll \/ StartPreprocess
  PROVE  Holds' /\ Waiting' /\ NoFailure'
<1>0. /\ "g" \in Roles /\ "e" \in Roles /\ pc["g"] = "idle" /\ pc["e"] = "idle"
      /\ UNCHANGED <<view, data, keyUsed, keys, macs, info, ops, err>>
      /\ pc'["g"] # "await" /\ pc'["e"] # "await"
  BY DEF StartFlush, StartExecuteAll, StartPreprocess, StartJoint, Idle, Roles, stores, decodes
<1>1. /\ GarblerHolds(view["g"], data["g"], keys, keyUsed, "idle")
      /\ EvaluatorHolds(view["e"], data["e"], macs, info, "idle")
  BY <1>0 DEF InStep, Holds
<1>2. /\ GarblerHolds(view["g"], data["g"], keys, keyUsed, pc'["g"])
      /\ EvaluatorHolds(view["e"], data["e"], macs, info, pc'["e"])
  BY <1>0, <1>1, LabelHolds
<1>3. Holds'
  BY <1>0, <1>2, Zenon DEF Holds
<1>4. Waiting'
  <2>1. Assigned' <=> Assigned
    BY <1>0 DEF Assigned, NumInputs
  <2> QED
    BY <1>0, <2>1 DEF InStep, Waiting
<1>5. NoFailure'
  BY <1>0 DEF InStep, NoFailure
<1> QED
  BY <1>3, <1>4, <1>5

\* The applications.
LEMMA ApplicationStep ==
  ASSUME InStep, Application
  PROVE  Agree' /\ Holds' /\ Waiting' /\ NoFailure'
<1>0. PartiesInv /\ Agree
  BY DEF InStep
<1>1. CASE AllocRaw \/ (\E i \in Allocated : MarkRaw(i)) \/ CallRaw
  BY <1>0, <1>1, LayoutKept, AgreeLayout
<1>2. ASSUME NEW S \in Slices, NEW bits \in Values, AssignRaw(S, bits)
      PROVE  Agree' /\ Holds' /\ Waiting' /\ NoFailure'
  BY <1>0, <1>2, AssignKept, AgreeValue
<1>3. ASSUME NEW S \in Slices, CommitRaw(S) PROVE Agree' /\ Holds' /\ Waiting' /\ NoFailure'
  BY <1>0, <1>3, LayoutKept, AgreeValue
<1>4. ASSUME NEW S \in Slices \cup {OutputSlice(k) : k \in 1 .. calls}, Assigned, DecodeRaw(S)
      PROVE  Agree' /\ Holds' /\ Waiting' /\ NoFailure'
  BY <1>0, <1>4, DecodeKept, AgreeValue
<1>5. CASE StartFlush \/ StartExecuteAll \/ StartPreprocess
  BY <1>0, <1>5, StartKept, AgreeStart
<1> QED
  BY <1>1, <1>2, <1>3, <1>4, <1>5 DEF Application

\* A step that changes nothing.
LEMMA UnchangedStep ==
  ASSUME InStep, UNCHANGED vars PROVE Agree' /\ Holds' /\ Waiting' /\ NoFailure'
<1>0. UNCHANGED <<view, data, keyUsed, keys, macs, info, ops, err, pc, ret, rest, batch, taken, net>>
  BY DEF vars, stores, decodes, tasks
<1>1. \A p \in Roles : Target(p)' = Target(p) /\ After(p)' = After(p)
  BY <1>0, StillHeading DEF Still
<1>2. \A p \in Roles : InFlight(p)' <=> InFlight(p)
  BY <1>0 DEF InFlight
<1>3. \A p \in Roles : Behind(p) => Behind(p)'
  <2>1. ASSUME NEW p \in Roles, Behind(p) PROVE Behind(p)'
    <3>1. Twin(After(p)', Target(Peer(p))') /\ Twin(Target(Peer(p))', After(p)')
      BY <1>1, <2>1, PeerFacts DEF Behind
    <3>2. Twin(After(p), Target(Peer(p)))' /\ Twin(Target(Peer(p)), After(p))'
      BY <3>1
    <3> QED
      BY <1>0, <2>1, <3>2 DEF Behind
  <2> QED
    BY <2>1
<1>4. Level => Level'
  <2>1. ASSUME Level PROVE Level'
    <3>1. Twin(Target("g")', Target("e")') /\ Twin(Target("e")', Target("g")')
      BY <1>1, <2>1, PeerFacts DEF Level
    <3>2. Twin(Target("g"), Target("e"))' /\ Twin(Target("e"), Target("g"))'
      BY <3>1
    <3> QED
      BY <1>2, <2>1, <3>2 DEF Level
  <2> QED
    BY <2>1
<1>5. Agree'
  BY <1>0, <1>3, <1>4 DEF InStep, Agree
<1>6. Holds'
  BY <1>0, Zenon DEF InStep, Holds
<1>7. Waiting'
  <2>1. Assigned' <=> Assigned
    BY <1>0 DEF Assigned, NumInputs
  <2> QED
    BY <1>0, <2>1 DEF InStep, Waiting
<1>8. NoFailure'
  BY <1>0 DEF InStep, NoFailure
<1> QED
  BY <1>5, <1>6, <1>7, <1>8
-----------------------------------------------------------------------------
\* At the start the parties are level and hold nothing.
LEMMA InStepInit ==
  ASSUME Init PROVE InStep
<1>1. Inv /\ PartiesInv /\ FreshInv
  BY InvInit, PartiesInit, FreshInit
<1>2. /\ "g" \in Roles /\ "e" \in Roles
      /\ view["g"] = NewView /\ view["e"] = NewView
      /\ pc["g"] = "idle" /\ pc["e"] = "idle"
  BY DEF Init, Roles
<1>3. Agree
  <2>1. \A p \in Roles : Target(p) = NewView
    BY DEF Init, Target, Goal
  <2>2. Twin(NewView, NewView)
    BY DEF Twin, NewView, NewVisibility
  <2>3. \A p \in Roles : InFlight(p)
    BY PeerFacts DEF Init, InFlight, NoMsg
  <2>4. Level
    BY <1>2, <2>1, <2>2, <2>3 DEF Level
  <2> QED
    BY <1>2, <2>4 DEF Init, Agree
<1>4. IndependentInv
  BY DEF Init, IndependentInv, Independent
<1>5. Holds
  <2>1. GarblerHolds(NewView, EmptyStore, {}, {}, "idle")
    BY DEF GarblerHolds, NewView, NewVisibility, EmptyStore
  <2>2. EvaluatorHolds(NewView, EmptyStore, EmptyStore, EmptyStore, "idle")
    BY DEF EvaluatorHolds, Genuine, NewView, EmptyStore
  <2>3. /\ data["g"] = EmptyStore /\ data["e"] = EmptyStore /\ keys = {} /\ keyUsed = {}
        /\ macs = EmptyStore /\ info = EmptyStore
    BY DEF Init, Roles
  <2> QED
    BY <1>2, <2>1, <2>2, <2>3, Zenon DEF Holds
<1>6. Waiting
  BY DEF Init, Waiting, Waits
<1>7. NoFailure
  BY DEF Init, NoFailure
<1> QED
  BY <1>1, <1>3, <1>4, <1>5, <1>6, <1>7 DEF InStep

\* Always.
LEMMA InStepAlways == Spec => []InStep
<1>1. Init => InStep
  BY InStepInit
<1>2. ASSUME InStep, [Next]_vars PROVE InStep'
  <2>0. Inv /\ PartiesInv /\ FreshInv /\ IndependentInv
    BY <1>2 DEF InStep
  <2>1. Inv'
    BY <1>2, <2>0, InvStep
  <2>2. PartiesInv' /\ FreshInv' /\ IndependentInv'
    BY <1>2, <2>0, PartiesStep, FreshStep, IndependentStep
  <2>3. Agree' /\ Holds' /\ Waiting' /\ NoFailure'
    BY <1>2, ApplicationStep, MachineStep, UnchangedStep DEF Next
  <2> QED
    BY <2>1, <2>2, <2>3 DEF InStep
<1>3. InStep /\ [Next]_vars => InStep'
  BY <1>2
<1> QED
  BY <1>1, <1>3, PTL DEF Spec

\* Whatever the applications allocate, assign, commit, decode and call, as
\* long as both issue the same operations, and however flush, preprocess and
\* execute_all interleave, no operation of either machine fails: the messages
\* have the length and the order the receiver expects, no key is used twice,
\* no store refuses and every MAC proof and commitment holds.
THEOREM OperationsSucceed == Spec => []NoFailure
<1>1. InStep => NoFailure
  BY DEF InStep
<1> QED
  BY <1>1, InStepAlways, PTL

\* What the garbler has no bit of, and nothing more to do for, is not
\* committed.
LEMMA GarblerDecodes ==
  ASSUME InStep, NEW a \in view["g"].decode, ~WantsFlush(view["g"]), IsCommitted(view["g"], {a})
  PROVE  a \in DOMAIN data["g"]
<1> DEFINE v == view["g"]
<1>0. VisShape(v) /\ UseShape(v) /\ Duty(v, "g") /\ GarblerHolds(v, data["g"], keys, keyUsed, pc["g"])
  BY DEF InStep, PartiesInv, PartyInv, Sound, Good, Holds, Roles
<1>1. v.flush = EmptyFlush /\ a \in v.decode
  BY DEF WantsFlush
<1>2. a \in v.committed \/ a \in v.executed
  BY DEF IsCommitted
<1> HIDE DEF v
<1>3. /\ v.flush.macs = {} /\ v.flush.ot = {} /\ v.flush.info = {} /\ v.flush.decode = {}
  BY <1>1 DEF EmptyFlush
<1>4. /\ v.decode \cap v.committed \cap v.vis.blind \subseteq v.decoded
      /\ v.decode \cap v.executed \subseteq v.decoded
  BY <1>0, <1>3 DEF Duty, Evaluators
<1>5. /\ v.committed \subseteq v.vis.visible \cup v.vis.blind
      /\ v.committed \cap v.vis.visible \subseteq v.assigned
  BY <1>0, <1>3 DEF UseShape, Committing, Settled
<1>6. v.assigned \cup v.decoded \subseteq DOMAIN data["g"]
  BY <1>0 DEF GarblerHolds
<1> QED
  BY <1>1, <1>2, <1>4, <1>5, <1>6

\* See GarblerDecodes.
LEMMA EvaluatorDecodes ==
  ASSUME InStep, NEW a \in view["e"].decode, pc["e"] = "idle", ~WantsFlush(view["e"]),
         IsCommitted(view["e"], {a})
  PROVE  a \in DOMAIN data["e"]
<1> DEFINE v == view["e"]
<1>0. VisShape(v) /\ UseShape(v) /\ Duty(v, "e") /\ EvaluatorHolds(v, data["e"], macs, info, "idle")
  BY DEF InStep, PartiesInv, PartyInv, Sound, Good, Holds, Roles
<1>1. v.flush = EmptyFlush /\ a \in v.decode
  BY DEF WantsFlush
<1>2. a \in v.committed \/ a \in v.executed
  BY DEF IsCommitted
<1> HIDE DEF v
<1>3. /\ v.flush.macs = {} /\ v.flush.ot = {} /\ v.flush.info = {} /\ v.flush.decode = {}
  BY <1>1 DEF EmptyFlush
<1>4. v.decode \cap (v.vis.blind \cup v.preprocessed) \subseteq v.informed
  BY <1>0, <1>3 DEF Duty, Garblers
<1>5. /\ v.committed \subseteq v.vis.visible \cup v.vis.blind
      /\ v.committed \cap v.vis.visible \subseteq v.assigned
      /\ v.executed \subseteq v.preprocessed
  BY <1>0, <1>3 DEF UseShape, Committing, Settled
<1>6. /\ v.assigned \subseteq DOMAIN data["e"]
      /\ (v.committed \cup v.executed) \cap v.informed \subseteq DOMAIN data["e"]
  BY <1>0 DEF EvaluatorHolds
<1> QED
  BY <1>1, <1>2, <1>4, <1>5, <1>6

\* For any memory layout, circuits and interleaving, a decode operation is
\* never forgotten: when nothing is left to flush or to execute, each slice
\* that still waits has an address that is not committed or not executed
\* (complete_flush, set_output and decode).
THEOREM DecodesRemembered == Spec => []NoDecodeForgotten
<1>1. InStep => NoDecodeForgotten
  <2> SUFFICES ASSUME InStep, NEW p \in Roles, Idle, ~WantsFlush(view[p]), NEW s \in ops[p]
               PROVE  \E a \in s : ~IsCommitted(view[p], {a})
    BY DEF NoDecodeForgotten
  <2>1. s \subseteq view[p].decode /\ ~(s \subseteq DOMAIN data[p]) /\ pc[p] = "idle"
    BY DEF InStep, Waiting, Waits, Idle
  <2>2. PICK a \in s : a \notin DOMAIN data[p]
    BY <2>1
  <2>3. ~IsCommitted(view[p], {a})
    BY <2>1, <2>2, GarblerDecodes, EvaluatorDecodes DEF Roles
  <2> QED
    BY <2>3
<1> QED
  BY <1>1, InStepAlways, PTL
-----------------------------------------------------------------------------
(***************************************************************************)
(* The bits the memory stands for.  A call reads smaller addresses than it *)
(* writes, so the inputs determine every bit.                              *)
(***************************************************************************)
TruthRule(inputs, bit, a) ==
  IF a < NumInputs
  THEN inputs[a]
  ELSE Cardinality({b \in CallInputs[a - NumInputs + 1] : bit[b] = 1}) % 2

\* The bits of the first n addresses.
TruthUpTo(inputs, f, n) ==
  f = [a \in 0 .. n - 1 |-> TruthRule(inputs, f, a)]

\* How many addresses there are.
NumAddresses == NumInputs + Len(CallInputs)

\* An address is an input's, or the output of a call that reads smaller ones.
LEMMA RuleReads ==
  /\ NumAddresses \in Nat /\ Addresses = 0 .. NumAddresses - 1
  /\ \A a \in Addresses : a >= NumInputs =>
       \A b \in CallInputs[a - NumInputs + 1] : b \in 0 .. a - 1
<1>1. NumInputs \in Nat /\ Len(CallInputs) \in Nat /\ DOMAIN CallInputs = 1 .. Len(CallInputs)
  BY BoundsGrow, ConstantsOK
<1>2. NumAddresses \in Nat /\ Addresses = 0 .. NumAddresses - 1
  BY <1>1 DEF NumAddresses, Addresses
<1>3. ASSUME NEW a \in Addresses, a >= NumInputs, NEW b \in CallInputs[a - NumInputs + 1]
      PROVE  b \in 0 .. a - 1
  <2> DEFINE k == a - NumInputs + 1
  <2>1. k \in 1 .. Len(CallInputs) /\ a = NumInputs + k - 1
    BY <1>1, <1>3 DEF Addresses
  <2> HIDE DEF k
  <2>2. CallInputs[k] \in SUBSET Nat /\ \A c \in CallInputs[k] : c < NumInputs + k - 1
    BY <1>1, <2>1, ConstantsOK DEF NumInputs
  <2>3. b \in CallInputs[k]
    BY <1>3 DEF k
  <2> QED
    BY <1>1, <2>1, <2>2, <2>3
<1> QED
  BY <1>2, <1>3

\* One address after another, the inputs determine every bit.
LEMMA TruthGrows ==
  ASSUME NEW inputs, NEW n \in 0 .. NumAddresses - 1, NEW f, TruthUpTo(inputs, f, n)
  PROVE  \E g : TruthUpTo(inputs, g, n + 1)
<1> DEFINE g == [a \in 0 .. n |-> IF a = n THEN TruthRule(inputs, f, n) ELSE f[a]]
<1>1. NumAddresses \in Nat /\ n \in Nat /\ n + 1 - 1 = n /\ NumInputs \in Nat
  BY RuleReads, BoundsGrow
<1>2. DOMAIN g = 0 .. n /\ g[n] = TruthRule(inputs, f, n) /\ \A a \in 0 .. n - 1 : g[a] = f[a]
  BY <1>1
<1> HIDE DEF g
<1>3. ASSUME NEW a \in 0 .. n PROVE TruthRule(inputs, g, a) = TruthRule(inputs, f, a)
  <2>1. CASE a < NumInputs
    BY <2>1 DEF TruthRule
  <2>2. CASE ~(a < NumInputs)
    <3>1. a \in Addresses /\ a >= NumInputs /\ \A b \in 0 .. a - 1 : b \in 0 .. n - 1
      BY <1>1, <2>2, RuleReads
    <3>2. \A b \in CallInputs[a - NumInputs + 1] : g[b] = f[b]
      BY <1>2, <3>1, RuleReads
    <3>3. {b \in CallInputs[a - NumInputs + 1] : g[b] = 1} = {b \in CallInputs[a - NumInputs + 1] : f[b] = 1}
      BY <3>2
    <3> QED
      BY <2>2, <3>3 DEF TruthRule
  <2> QED
    BY <2>1, <2>2
<1>4. ASSUME NEW a \in 0 .. n PROVE g[a] = TruthRule(inputs, g, a)
  <2>1. CASE a = n
    BY <1>2, <1>3, <2>1
  <2>2. CASE a # n
    <3>1. a \in 0 .. n - 1
      BY <1>1, <2>2
    <3> QED
      BY <1>2, <1>3, <3>1 DEF TruthUpTo
  <2> QED
    BY <2>1, <2>2
<1>5. TruthUpTo(inputs, g, n + 1)
  <2>1. g = [a \in 0 .. n |-> g[a]]
    BY DEF g
  <2> QED
    BY <1>1, <1>4, <2>1 DEF TruthUpTo
<1> QED
  BY <1>5

\* See TruthGrows.
LEMMA TruthExists ==
  ASSUME NEW inputs PROVE \E f : TruthUpTo(inputs, f, NumAddresses)
<1> DEFINE U == {n \in 0 .. NumAddresses : ~\E f : TruthUpTo(inputs, f, n)}
<1>1. NumAddresses \in Nat
  BY RuleReads
<1>2. SUFFICES ASSUME U # {} PROVE FALSE
  BY <1>1
<1>3. U \subseteq Nat
  BY <1>1
<1>4. PICK n \in U : \A y \in U : ~(<<y, n>> \in OpToRel(<, Nat))
  <2> HIDE DEF U
  <2> QED
    BY <1>2, <1>3, NatLessThanWellFounded, WFMin, Zenon
<1>5. \A y \in U : ~(y < n)
  BY <1>3, <1>4 DEF OpToRel
<1>6. n # 0
  <2> DEFINE f == [a \in {} |-> 0]
  <2>1. 0 .. 0 - 1 = {}
    OBVIOUS
  <2>2. TruthUpTo(inputs, f, 0)
    BY <2>1 DEF TruthUpTo
  <2> QED
    BY <2>2
<1>7. n - 1 \in 0 .. NumAddresses - 1 /\ n - 1 < n /\ n - 1 + 1 = n /\ n - 1 \in 0 .. NumAddresses
  BY <1>1, <1>6
<1>8. PICK f : TruthUpTo(inputs, f, n - 1)
  BY <1>5, <1>7
<1>9. \E g : TruthUpTo(inputs, g, n)
  BY <1>7, <1>8, TruthGrows
<1> QED
  BY <1>9

\* Truth is what the inputs determine.
LEMMA TruthFacts ==
  ASSUME NEW inputs
  PROVE  \A a \in Addresses : TruthOf(inputs)[a] = TruthRule(inputs, TruthOf(inputs), a)
<1>1. PICK f : TruthUpTo(inputs, f, NumAddresses)
  BY TruthExists
<1>2. f = [a \in Addresses |-> IF a < NumInputs THEN inputs[a]
             ELSE Cardinality({b \in CallInputs[a - NumInputs + 1] : f[b] = 1}) % 2]
  BY <1>1, RuleReads DEF TruthUpTo, TruthRule
<1> DEFINE t == TruthOf(inputs)
<1>3. t = [a \in Addresses |-> IF a < NumInputs THEN inputs[a]
             ELSE Cardinality({b \in CallInputs[a - NumInputs + 1] : t[b] = 1}) % 2]
  BY <1>2 DEF TruthOf
<1> HIDE DEF t
<1>4. \A a \in Addresses : t[a] = TruthRule(inputs, t, a)
  BY <1>3 DEF TruthRule
<1> QED
  BY <1>4 DEF t
-----------------------------------------------------------------------------
(***************************************************************************)
(* What is shown to either party is true to the bits T the memory stands   *)
(* for: the bits it holds, the bit each MAC authenticates, in the store or *)
(* in a message, and what the decode futures resolved to.                  *)
(***************************************************************************)
RightBits(T, d) == \A a \in DOMAIN d : d[a] = T[a]

RightMacs(T, m) == \A a \in DOMAIN m : m[a].bit = T[a]

\* MACs on their way carry the address of their key.
RightTags(T, seq) == \A i \in DOMAIN seq : seq[i].bit = T[seq[i].key]

RightSent(T, p, msgs) ==
  \A i \in DOMAIN msgs : RightTags(T, IF p = "e" THEN msgs[i].macs ELSE msgs[i].proof.hash)

RightResults(T, r) == \A p \in Roles : \A x \in r[p] : \A a \in x[1] : x[2][a] = T[a]

Right(T, d, m, n, r) ==
  /\ \A p \in Roles : RightBits(T, d[p]) /\ RightSent(T, p, n[p])
  /\ RightMacs(T, m) /\ RightResults(T, r)

\* Before every input is assigned nothing has been exchanged or decoded.
Nothing ==
  /\ \A p \in Roles : /\ pc[p] = "idle" /\ net[p] = <<>> /\ results[p] = {}
                      /\ DOMAIN data[p] \subseteq view[p].assigned
  /\ DOMAIN macs = {}

\* What is assigned is held by the party whose bits count.
Held == \A p \in Roles : \A a \in view[p].assigned : a \in DOMAIN data[Holder(a)]

TruthInv ==
  /\ Held /\ (Assigned \/ Nothing)
  /\ Right(Truth, data, macs, net, results)
  /\ results = [p \in Roles |-> results[p]]

\* Each input address is of one input.
LEMMA HolderFacts ==
  ASSUME NEW i \in Inputs, NEW a \in InputSlice(i)
  PROVE  a \in 0 .. NumInputs - 1 /\ Holder(a) = (IF Owner[i] = "e" THEN "e" ELSE "g")
<1>1. a \in 0 .. NumInputs - 1
  BY InputAddrs
<1>2. ASSUME NEW j \in Inputs, NEW k \in Inputs, j < k, a \in InputSlice(j), a \in InputSlice(k) PROVE FALSE
  <2>1. /\ j \in 1 .. Len(Bounds) /\ k \in 1 .. Len(Bounds)
        /\ j + 1 \in 1 .. Len(Bounds) /\ k + 1 \in 1 .. Len(Bounds)
        /\ j + 1 < k \/ j + 1 = k
    BY <1>2, BoundsGrow DEF Inputs
  <2>2. /\ Bounds[j] \in Nat /\ Bounds[k] \in Nat /\ Bounds[j + 1] \in Nat /\ Bounds[k + 1] \in Nat
        /\ Bounds[j + 1] <= Bounds[k]
    BY <2>1, BoundsGrow
  <2>3. /\ a \in Bounds[j] .. Bounds[j] + (Bounds[j + 1] - Bounds[j]) - 1
        /\ a \in Bounds[k] .. Bounds[k] + (Bounds[k + 1] - Bounds[k]) - 1
    BY <1>2 DEF InputSlice, Slice
  <2> QED
    BY <2>2, <2>3
<1>3. \A j \in Inputs : a \in InputSlice(j) => j = i
  <2> SUFFICES ASSUME NEW j \in Inputs, a \in InputSlice(j) PROVE j = i
    OBVIOUS
  <2>1. j \in Int /\ i \in Int
    BY DEF Inputs
  <2>2. ~(j < i) /\ ~(i < j)
    BY <1>2
  <2> QED
    BY <2>1, <2>2
<1>4. (CHOOSE j \in Inputs : a \in InputSlice(j)) = i
  BY <1>3
<1>5. OwnerOf[a] = Owner[i]
  BY <1>1, <1>4 DEF OwnerOf
<1> QED
  BY <1>1, <1>5 DEF Holder

\* The party whose bits count is one of the two.
LEMMA HolderRole ==
  ASSUME NEW a PROVE Holder(a) \in Roles
BY DEF Holder, Roles

\* See TruthFacts: of the inputs.
LEMMA TruthInputs ==
  ASSUME NEW inputs PROVE \A a \in 0 .. NumInputs - 1 : a \in Addresses /\ TruthOf(inputs)[a] = inputs[a]
<1>1. NumInputs \in Nat /\ Len(CallInputs) \in Nat
  BY BoundsGrow, ConstantsOK
<1>2. ASSUME NEW a \in 0 .. NumInputs - 1 PROVE a \in Addresses /\ a < NumInputs
  BY <1>1 DEF Addresses
<1> QED
  BY <1>2, TruthFacts DEF TruthRule

\* Truth is what the holders hold, and what the calls compute of it.
LEMMA TruthBits ==
  /\ \A a \in 0 .. NumInputs - 1 : a \in Addresses /\ Truth[a] = data[Holder(a)][a]
  /\ \A k \in 1 .. Len(CallInputs) :
       Truth[Out(k)] = Cardinality({b \in CallInputs[k] : Truth[b] = 1}) % 2
<1> DEFINE t == TruthOf(InputBits)
<1>0. /\ NumInputs \in Nat /\ Len(CallInputs) \in Nat /\ Truth = t
      /\ \A a \in Addresses : t[a] = TruthRule(InputBits, t, a)
  BY BoundsGrow, ConstantsOK, TruthFacts DEF Truth
<1>1. ASSUME NEW a \in 0 .. NumInputs - 1 PROVE a \in Addresses /\ t[a] = data[Holder(a)][a]
  <2>1. a \in Addresses /\ t[a] = InputBits[a]
    BY TruthInputs
  <2> QED
    BY <2>1 DEF InputBits
<1> HIDE DEF t
<1>2. ASSUME NEW k \in 1 .. Len(CallInputs) PROVE t[Out(k)] = Cardinality({b \in CallInputs[k] : t[b] = 1}) % 2
  <2>1. Out(k) \in Addresses /\ ~(Out(k) < NumInputs) /\ Out(k) - NumInputs + 1 = k
    BY <1>0 DEF Addresses, Out
  <2> QED
    BY <1>0, <2>1 DEF TruthRule
<1> QED
  BY <1>0, <1>1, <1>2

\* Once every input is assigned, what is shown afterwards does not change
\* the bits the memory stands for.
LEMMA TruthKept ==
  ASSUME Held, Assigned, \A p \in Roles : DOMAIN data[p] \subseteq DOMAIN data'[p],
         \A p \in Roles : RightBits(Truth, data'[p])
  PROVE  Truth' = Truth
<1>1. ASSUME NEW a \in 0 .. NumInputs - 1 PROVE data'[Holder(a)][a] = data[Holder(a)][a]
  <2>1. a \in DOMAIN data[Holder(a)]
    <3>1. a \in view["g"].assigned \/ a \in view["e"].assigned
      BY DEF Assigned
    <3> QED
      BY <3>1 DEF Held, Roles
  <2>2. data'[Holder(a)][a] = Truth[a]
    BY <2>1, HolderRole DEF RightBits
  <2> QED
    BY <2>2, TruthBits
<1>2. InputBits' = InputBits
  <2>1. InputBits' = [a \in 0 .. NumInputs - 1 |-> data'[Holder(a)][a]]
    BY DEF InputBits, NumInputs, Holder, OwnerOf, Inputs, InputSlice
  <2> QED
    BY <1>1, <2>1 DEF InputBits
<1> QED
  BY <1>2 DEF Truth

\* What a step of the machines has to keep.
RightStep ==
  /\ \A p \in Roles : DOMAIN data[p] \subseteq DOMAIN data'[p]
  /\ Right(Truth, data', macs', net', results')
  /\ results' = [p \in Roles |-> results'[p]]

\* See RightStep.
LEMMA StepTruth ==
  ASSUME TruthInv, Assigned, \A p \in Roles : view'[p].assigned = view[p].assigned, RightStep
  PROVE  TruthInv'
<1>1. Truth' = Truth
  BY TruthKept DEF TruthInv, RightStep, Right
<1>2. Assigned'
  <2>1. view'["g"].assigned = view["g"].assigned /\ view'["e"].assigned = view["e"].assigned
    BY DEF Roles
  <2> QED
    BY <2>1 DEF Assigned, NumInputs
<1>3. Held'
  <2> SUFFICES ASSUME NEW p \in Roles, NEW a \in view'[p].assigned PROVE a \in DOMAIN data'[Holder(a)]
    BY DEF Held, Holder, OwnerOf, NumInputs, Inputs, InputSlice
  <2>1. a \in DOMAIN data[Holder(a)]
    BY DEF TruthInv, Held
  <2> QED
    BY <2>1, HolderRole DEF RightStep
<1>4. Right(Truth', data', macs', net', results')
  BY <1>1 DEF RightStep
<1>5. Right(Truth, data, macs, net, results)'
  BY <1>4 DEF Right, RightBits, RightMacs, RightSent, RightTags, RightResults
<1> QED
  BY <1>2, <1>3, <1>5 DEF TruthInv, RightStep

\* A step that shows nothing and assigns nothing.
LEMMA QuietTruth ==
  ASSUME TruthInv, UNCHANGED <<data, macs, net, results>>,
         \A p \in Roles : view'[p].assigned = view[p].assigned,
         Assigned \/ pc' = pc
  PROVE  TruthInv'
<1>1. Right(Truth, data', macs', net', results') /\ results' = [p \in Roles |-> results'[p]]
  BY DEF TruthInv
<1>2. \A p \in Roles : DOMAIN data[p] \subseteq DOMAIN data'[p]
  OBVIOUS
<1>3. CASE Assigned
  BY <1>1, <1>2, <1>3, StepTruth DEF RightStep
<1>4. CASE ~Assigned
  <2>1. Nothing'
    BY <1>4 DEF TruthInv, Nothing
  <2>2. Held'
    BY DEF TruthInv, Held, Holder, OwnerOf, NumInputs, Inputs, InputSlice
  <2>3. Truth' = Truth
    <3>1. InputBits' = InputBits
      BY DEF InputBits, NumInputs, Holder, OwnerOf, Inputs, InputSlice
    <3> QED
      BY <3>1 DEF Truth
  <2>4. Right(Truth', data', macs', net', results')
    BY <1>1, <2>3
  <2>5. Right(Truth, data, macs, net, results)'
    BY <2>4 DEF Right, RightBits, RightMacs, RightSent, RightTags, RightResults
  <2> QED
    BY <1>1, <2>1, <2>2, <2>5 DEF TruthInv
<1> QED
  BY <1>3, <1>4

\* See RightStep: a step that shows nothing.
LEMMA QuietRight ==
  ASSUME TruthInv, UNCHANGED <<data, macs, net, results>> PROVE RightStep
BY DEF TruthInv, RightStep

\* What is in a channel after a message is sent or received.
LEMMA QueueFacts ==
  ASSUME Agree, NEW p \in Roles
  PROVE  /\ \A x : \A i \in DOMAIN Append(net[p], x) :
              Append(net[p], x)[i] = x \/ \E j \in DOMAIN net[p] : Append(net[p], x)[i] = net[p][j]
         /\ net[p] # <<>> => \E j \in DOMAIN net[p] : Head(net[p]) = net[p][j]
         /\ net[p] # <<>> => \A i \in DOMAIN Tail(net[p]) : \E j \in DOMAIN net[p] : Tail(net[p])[i] = net[p][j]
<1>1. net[p] = <<>> \/ (\E m : net[p] = <<m>>) \/ (\E m, n : net[p] = <<m, n>>)
  <2>1. CASE Level
    BY <2>1 DEF Level, InFlight
  <2>2. ASSUME NEW q \in Roles, Behind(q)
        PROVE  net[p] = <<>> \/ (\E m : net[p] = <<m>>) \/ (\E m, n : net[p] = <<m, n>>)
    <3>1. p = q \/ p = Peer(q)
      BY PeerFacts
    <3> QED
      BY <2>2, <3>1 DEF Behind
  <2> QED
    BY <2>1, <2>2 DEF Agree
<1>2. PICK S : net[p] \in Seq(S)
  <2>1. CASE net[p] = <<>>
    <3>1. net[p] \in Seq({})
      BY <2>1
    <3> QED
      BY <3>1
  <2>2. ASSUME NEW m, net[p] = <<m>> PROVE \E S : net[p] \in Seq(S)
    <3>1. net[p] \in Seq({m})
      BY <2>2
    <3> QED
      BY <3>1
  <2>3. ASSUME NEW m, NEW n, net[p] = <<m, n>> PROVE \E S : net[p] \in Seq(S)
    <3>1. net[p] \in Seq({m, n})
      BY <2>3
    <3> QED
      BY <3>1
  <2> QED
    BY <1>1, <2>1, <2>2, <2>3
<1> DEFINE s == net[p]
<1>3. ASSUME NEW x, NEW i \in DOMAIN Append(s, x)
      PROVE  Append(s, x)[i] = x \/ \E j \in DOMAIN s : Append(s, x)[i] = s[j]
  <2> DEFINE R == S \cup {x}
  <2>1. s \in Seq(R) /\ x \in R
    BY <1>2
  <2> HIDE DEF s, R
  <2>2. /\ DOMAIN Append(s, x) = 1 .. Len(s) + 1 /\ DOMAIN s = 1 .. Len(s) /\ Len(s) \in Nat
        /\ Append(s, x)[Len(s) + 1] = x /\ \A j \in 1 .. Len(s) : Append(s, x)[j] = s[j]
    BY <2>1
  <2>3. i = Len(s) + 1 \/ i \in 1 .. Len(s)
    BY <2>2
  <2> QED
    BY <2>2, <2>3
<1>4. ASSUME s # <<>> PROVE \E j \in DOMAIN s : Head(s) = s[j]
  <2> HIDE DEF s
  <2>1. s \in Seq(S)
    BY <1>2 DEF s
  <2>2. 1 \in DOMAIN s /\ Head(s) = s[1]
    BY <1>4, <2>1
  <2> QED
    BY <2>2
<1>5. ASSUME s # <<>>, NEW i \in DOMAIN Tail(s) PROVE \E j \in DOMAIN s : Tail(s)[i] = s[j]
  <2> HIDE DEF s
  <2>1. s \in Seq(S)
    BY <1>2 DEF s
  <2>2. i + 1 \in DOMAIN s /\ Tail(s)[i] = s[i + 1]
    BY <1>5, <2>1
  <2> QED
    BY <2>2
<1> QED
  BY <1>3, <1>4, <1>5

\* Collected MACs are true if each of them is, and the other way round.
LEMMA TagsSent ==
  ASSUME NEW S \in Addr, IsFiniteSet(S), NEW T, NEW f, \A a \in S : f[a] = Mac(a, T[a])
  PROVE  RightTags(T, Collect(S, f))
<1>1. ASSUME NEW i \in DOMAIN Collect(S, f)
      PROVE  Collect(S, f)[i].bit = T[Collect(S, f)[i].key]
  <2>1. i \in 1 .. Cardinality(S) /\ Collect(S, f)[i] = f[CHOOSE a \in S : Rank(S, a) = i]
    BY <1>1 DEF Collect
  <2>2. PICK c \in S : c = CHOOSE a \in S : Rank(S, a) = i
    BY <2>1, RankFacts
  <2>3. Collect(S, f)[i] = Mac(c, T[c])
    BY <2>1, <2>2
  <2> QED
    BY <2>3 DEF Mac
<1> QED
  BY <1>1 DEF RightTags

\* See TagsSent.
LEMMA TagsReceived ==
  ASSUME NEW S \in Addr, IsFiniteSet(S), NEW T, NEW b, DOMAIN b = S, RightTags(T, Collect(S, MacsOf(b)))
  PROVE  \A a \in S : b[a] = T[a]
<1> SUFFICES ASSUME NEW a \in S PROVE b[a] = T[a]
  OBVIOUS
<1> DEFINE f == MacsOf(b)
           seq == Collect(S, f)
<1>1. f[a] = Mac(a, b[a])
  BY DEF MacsOf
<1>2. Spread(S, seq) = [c \in S |-> f[c]] /\ Rank(S, a) \in 1 .. Cardinality(S)
  <2> HIDE DEF f
  <2> QED
    BY CollectFacts, RankFacts
<1>3. seq[Rank(S, a)] = Mac(a, b[a])
  BY <1>1, <1>2 DEF Spread
<1>4. Rank(S, a) \in DOMAIN seq
  BY <1>2 DEF Collect
<1>5. Mac(a, b[a]).bit = T[Mac(a, b[a]).key]
  BY <1>3, <1>4 DEF RightTags
<1> QED
  BY <1>5 DEF Mac
-----------------------------------------------------------------------------
\* A decode operation resolves to the bits of the store.
LEMMA ResolvesRight ==
  ASSUME TruthInv, NEW p \in Roles, NEW bits, RightBits(Truth, bits), Resolve(p, ops[p], bits)
  PROVE  RightResults(Truth, results') /\ results' = [q \in Roles |-> results'[q]]
<1> DEFINE T == Truth
           more == {<<s, [a \in s |-> bits[a]]>> : s \in {w \in ops[p] : StoreIsSet(bits, w)}}
<1>1. RightResults(T, results) /\ results = [q \in Roles |-> results[q]]
  BY DEF TruthInv, Right
<1>2. results' = [results EXCEPT ![p] = @ \cup more]
  BY DEF Resolve
<1>3. ASSUME NEW x \in more, NEW a \in x[1] PROVE x[2][a] = T[a]
  <2>1. PICK s \in ops[p] : s \subseteq DOMAIN bits /\ x = <<s, [c \in s |-> bits[c]]>>
    BY DEF StoreIsSet
  <2>2. x[2][a] = bits[a] /\ a \in DOMAIN bits
    BY <2>1
  <2> QED
    BY <2>2 DEF RightBits
<1> HIDE DEF T, more
<1>4. \A q \in Roles : \A x \in results'[q] : x \in results[q] \/ x \in more
  BY <1>1, <1>2
<1>5. RightResults(T, results')
  BY <1>1, <1>3, <1>4 DEF RightResults
<1> QED
  BY <1>1, <1>2, <1>5 DEF T

\* Genuine MACs that are true decode to true bits.
LEMMA DecodesRight ==
  ASSUME NEW T, NEW m, NEW i, Genuine(m, i), RightMacs(T, m), RightBits(T, data["e"])
  PROVE  RightBits(T, DecodeMacs(m, i)) /\ DOMAIN data["e"] \subseteq DOMAIN DecodeMacs(m, i)
<1> DEFINE new == [a \in Decodable(m, i) |-> DecodedBit(m, i, a)]
           old == data["e"]
<1>1. ASSUME NEW a \in Decodable(m, i) PROVE DecodedBit(m, i, a) = T[a]
  <2>1. a \in Int /\ i[a] = [bit |-> KeyPointer(a), commitment |-> a] /\ m[a].bit = T[a]
    BY DEF Decodable, Genuine, RightMacs
  <2>2. PICK b \in Bits : m[a] = Mac(a, b)
    BY DEF Decodable, Genuine
  <2>3. MacPointer(m[a]) = Xor(KeyPointer(a), b) /\ i[a].bit = KeyPointer(a)
    BY <2>1, <2>2, Unmask
  <2>4. DecodedBit(m, i, a) = Xor(Xor(KeyPointer(a), b), KeyPointer(a))
    BY <2>3 DEF DecodedBit
  <2>5. DecodedBit(m, i, a) = b
    BY <2>1, <2>4, Unmask
  <2> QED
    BY <2>1, <2>2, <2>5 DEF Mac
<1>2. DecodeMacs(m, i) = Overlay(new, old) /\ DOMAIN new = Decodable(m, i)
      /\ \A a \in DOMAIN new : new[a] = T[a]
  BY <1>1 DEF DecodeMacs
<1>3. \A a \in DOMAIN old : old[a] = T[a]
  BY DEF RightBits
<1> HIDE DEF new, old
<1>4. /\ DOMAIN Overlay(new, old) = DOMAIN new \cup DOMAIN old
      /\ \A a \in DOMAIN new : Overlay(new, old)[a] = new[a]
      /\ \A a \in DOMAIN old \ DOMAIN new : Overlay(new, old)[a] = old[a]
  BY OverlayFacts
<1>5. RightBits(T, DecodeMacs(m, i)) /\ DOMAIN old \subseteq DOMAIN DecodeMacs(m, i)
  BY <1>2, <1>3, <1>4 DEF RightBits
<1> QED
  BY <1>5 DEF old

\* The evaluator gets MACs, decodes what it can and resolves what waited.
LEMMA DecodingRight ==
  ASSUME InStep, TruthInv, NEW m, NEW i, Genuine(m, i), RightMacs(Truth, m),
         data' = [data EXCEPT !["e"] = DecodeMacs(m, i)], macs' = m,
         Resolve("e", ops["e"], DecodeMacs(m, i)), \A p \in Roles : RightSent(Truth, p, net'[p])
  PROVE  RightStep
<1> DEFINE T == Truth
           bits == DecodeMacs(m, i)
<1>0. /\ "e" \in Roles /\ "g" \in Roles /\ data = [p \in Roles |-> data[p]]
      /\ \A p \in Roles : RightBits(T, data[p])
  BY DEF Roles, InStep, Inv, TypeOK, TruthInv, Right
<1> HIDE DEF T
<1>1. RightBits(T, bits) /\ DOMAIN data["e"] \subseteq DOMAIN bits
  BY <1>0, DecodesRight DEF T
<1>2. data' = [data EXCEPT !["e"] = bits]
  OBVIOUS
<1>3. RightResults(T, results') /\ results' = [q \in Roles |-> results'[q]]
  BY <1>0, <1>1, ResolvesRight DEF T
<1> HIDE DEF bits
<1>4. \A p \in Roles : data'[p] = data[p] \/ (p = "e" /\ data'[p] = bits)
  BY <1>0, <1>2
<1>5. \A p \in Roles : RightBits(T, data'[p]) /\ DOMAIN data[p] \subseteq DOMAIN data'[p]
  BY <1>0, <1>1, <1>4
<1> QED
  BY <1>3, <1>5 DEF RightStep, Right, T

\* Sending a flush message.
LEMMA SendsRight ==
  ASSUME InStep, TruthInv, GarblerSendFlush \/ EvaluatorSendFlush PROVE RightStep
<1> DEFINE T == Truth
<1>0. /\ "g" \in Roles /\ "e" \in Roles /\ net = [p \in Roles |-> net[p]] /\ Agree
      /\ Good(view["g"], "g") /\ Good(view["e"], "e")
      /\ \A p \in Roles : RightBits(T, data[p]) /\ RightSent(T, p, net[p])
      /\ RightMacs(T, macs) /\ RightResults(T, results) /\ results = [p \in Roles |-> results[p]]
  BY DEF InStep, Agree, PartiesInv, PartyInv, Sound, TruthInv, Right, Roles
<1> HIDE DEF T
<1>1. ASSUME NEW p \in Roles, NEW x, net' = [net EXCEPT ![p] = Append(@, x)],
             UNCHANGED <<data, macs, results>>,
             RightTags(T, IF p = "e" THEN x.macs ELSE x.proof.hash)
      PROVE  RightStep
  <2>1. ASSUME NEW q \in Roles PROVE RightSent(T, q, net'[q])
    <3>1. CASE q # p
      BY <1>0, <1>1, <3>1
    <3>2. CASE q = p
      <4>1. net'[p] = Append(net[p], x)
        BY <1>0, <1>1
      <4>2. \A i \in DOMAIN net'[p] : net'[p][i] = x \/ \E j \in DOMAIN net[p] : net'[p][i] = net[p][j]
        BY <1>0, <4>1, QueueFacts
      <4> QED
        BY <1>0, <1>1, <3>2, <4>2 DEF RightSent
    <3> QED
      BY <3>1, <3>2
  <2>2. Right(T, data', macs', net', results') /\ results' = [q \in Roles |-> results'[q]]
    BY <1>0, <1>1, <2>1 DEF Right
  <2>3. \A q \in Roles : DOMAIN data[q] \subseteq DOMAIN data'[q]
    BY <1>1
  <2> QED
    BY <2>2, <2>3 DEF RightStep, T
<1>2. CASE GarblerSendFlush
  <2> DEFINE v == view["g"]
             S == v.flush.macs
             f == [a \in S |-> Mac(a, data["g"][a])]
             x == GarblerFlush(v)
  <2>1. CASE GarblerCanSend(v)
    <3>1. S \subseteq DOMAIN data["g"]
      BY <2>1 DEF GarblerCanSend
    <3>2. IsFiniteSet(S) /\ S \in Addr
      BY <1>0, FiniteFlush
    <3>3. \A a \in S : f[a] = Mac(a, T[a])
      BY <1>0, <3>1 DEF RightBits
    <3>4. x.macs = Collect(S, f)
      BY DEF GarblerFlush
    <3>5. net' = [net EXCEPT !["e"] = Append(@, x)] /\ UNCHANGED <<data, macs, results>>
      BY <1>2, <2>1 DEF GarblerSendFlush, decodes
    <3> HIDE DEF S, f, x
    <3>6. RightTags(T, x.macs)
      BY <3>2, <3>3, <3>4, TagsSent
    <3> QED
      BY <1>0, <1>1, <3>5, <3>6
  <2>2. CASE ~GarblerCanSend(v)
    <3>1. UNCHANGED <<data, macs, net, results>>
      BY <1>2, <2>2 DEF GarblerSendFlush, Fail, stores, decodes
    <3> QED
      BY <3>1, QuietRight
  <2> QED
    BY <2>1, <2>2
<1>3. CASE EvaluatorSendFlush
  <2> DEFINE v == view["e"]
             S == v.flush.decode
             x == EvaluatorFlush(v)
  <2>1. CASE EvaluatorCanSend(v)
    <3>1. S \subseteq DOMAIN macs
      BY <2>1 DEF EvaluatorCanSend
    <3>2. IsFiniteSet(S) /\ S \in Addr
      BY <1>0, FiniteFlush
    <3>3. ASSUME NEW a \in S PROVE macs[a] = Mac(a, T[a])
      <4>1. PICK b \in Bits : macs[a] = Mac(a, b)
        BY <3>1 DEF InStep, Holds, EvaluatorHolds, Genuine
      <4>2. macs[a].bit = T[a]
        BY <1>0, <3>1 DEF RightMacs
      <4> QED
        BY <4>1, <4>2 DEF Mac
    <3>4. x.proof.hash = Collect(S, macs)
      BY DEF EvaluatorFlush, Prove
    <3>5. net' = [net EXCEPT !["g"] = Append(@, x)] /\ UNCHANGED <<data, macs, results>>
      BY <1>3, <2>1 DEF EvaluatorSendFlush, stores, decodes
    <3> HIDE DEF S, x
    <3>6. RightTags(T, x.proof.hash)
      BY <3>2, <3>3, <3>4, TagsSent
    <3> QED
      BY <1>0, <1>1, <3>5, <3>6
  <2>2. CASE ~EvaluatorCanSend(v)
    <3>1. UNCHANGED <<data, macs, net, results>>
      BY <1>3, <2>2 DEF EvaluatorSendFlush, Fail, stores, decodes
    <3> QED
      BY <3>1, QuietRight
  <2> QED
    BY <2>1, <2>2
<1> QED
  BY <1>2, <1>3

\* What is received is as true as what was sent.
LEMMA ReceivedRight ==
  ASSUME InStep, TruthInv, NEW p \in Roles, pc[p] = "await", net[p] # <<>>
  PROVE  /\ Fits(p, Head(net[p]), view[p].flush)
         /\ RightTags(Truth, IF p = "e" THEN Head(net[p]).macs ELSE Head(net[p]).proof.hash)
         /\ net' = [net EXCEPT ![p] = Tail(@)] => \A q \in Roles : RightSent(Truth, q, net'[q])
<1> DEFINE T == Truth
<1>0. Agree /\ net = [q \in Roles |-> net[q]] /\ \A q \in Roles : RightSent(T, q, net[q])
  BY DEF InStep, Agree, TruthInv, Right
<1> HIDE DEF T
<1>1. Fits(p, Head(net[p]), view[p].flush)
  BY <1>0, ReceivedFits
<1>2. RightTags(T, IF p = "e" THEN Head(net[p]).macs ELSE Head(net[p]).proof.hash)
  <2>1. PICK j \in DOMAIN net[p] : Head(net[p]) = net[p][j]
    BY <1>0, QueueFacts
  <2> QED
    BY <1>0, <2>1 DEF RightSent
<1>3. ASSUME net' = [net EXCEPT ![p] = Tail(@)], NEW q \in Roles PROVE RightSent(T, q, net'[q])
  <2>1. CASE q # p
    BY <1>0, <1>3, <2>1
  <2>2. CASE q = p
    <3>1. net'[p] = Tail(net[p])
      BY <1>0, <1>3
    <3>2. \A i \in DOMAIN net'[p] : \E j \in DOMAIN net[p] : net'[p][i] = net[p][j]
      BY <1>0, <3>1, QueueFacts
    <3> QED
      BY <1>0, <2>2, <3>2 DEF RightSent
  <2> QED
    BY <2>1, <2>2
<1> QED
  BY <1>1, <1>2, <1>3 DEF T

\* The bits the garbler reads from a proof are those of the MACs.
LEMMA GarblerReceiveRight ==
  ASSUME InStep, TruthInv, GarblerReceiveFlush PROVE RightStep
<1> DEFINE T == Truth
           v == view["g"]
           d == data["g"]
           S == v.flush.decode
           m == Head(net["g"])
           new == VerifiedBits(S, m.proof.bits)
           bits == GarblerBits(v, m)
<1>0. /\ "g" \in Roles /\ "e" \in Roles /\ Good(v, "g") /\ data = [p \in Roles |-> data[p]]
      /\ \A p \in Roles : RightBits(T, data[p])
      /\ RightMacs(T, macs) /\ RightResults(T, results)
  BY DEF InStep, Inv, TypeOK, PartiesInv, PartyInv, Sound, TruthInv, Right, Roles
<1>1. pc["g"] = "await" /\ net["g"] # <<>>
  BY DEF GarblerReceiveFlush, NoMsg
<1>2. /\ ProofFits(m, S) /\ RightTags(T, m.proof.hash)
      /\ net' = [net EXCEPT !["g"] = Tail(@)] => \A q \in Roles : RightSent(T, q, net'[q])
  BY <1>0, <1>1, ReceivedRight DEF Fits
<1>3. IsFiniteSet(S) /\ S \in Addr
  BY <1>0, FiniteFlush
<1>4. \/ UNCHANGED <<data, macs, net, results>>
      \/ /\ net' = [net EXCEPT !["g"] = Tail(@)] /\ data' = [data EXCEPT !["g"] = bits]
         /\ Resolve("g", ops["g"], bits) /\ macs' = macs
  BY DEF GarblerReceiveFlush, GarblerBits, Fail, stores, decodes
<1> HIDE DEF T, S, m
<1>5. DOMAIN new = S /\ \A a \in S : new[a] = T[a]
  <2>1. /\ DOMAIN new = S
        /\ \E c \in [S -> Bits] :
             m.proof.hash = Collect(S, MacsOf(c)) /\ \A a \in S : new[a] = c[a]
    BY <1>2, <1>3, ProofVerifies
  <2>2. PICK c \in [S -> Bits] :
          m.proof.hash = Collect(S, MacsOf(c)) /\ \A a \in S : new[a] = c[a]
    BY <2>1
  <2>3. DOMAIN c = S /\ RightTags(T, Collect(S, MacsOf(c)))
    BY <1>2, <2>2
  <2>4. \A a \in S : c[a] = T[a]
    BY <1>3, <2>3, TagsReceived
  <2> QED
    BY <2>1, <2>2, <2>4
<1>6. RightBits(T, bits) /\ DOMAIN d \subseteq DOMAIN bits
  <2>1. CASE Len(m.proof.bits) > 0
    <3> DEFINE put == [a \in S |-> new[a]]
    <3>1. bits = Overlay(put, d) /\ DOMAIN put = S /\ \A a \in S : put[a] = T[a]
      BY <1>5, <2>1 DEF GarblerBits, TrySet, S
    <3>2. \A a \in DOMAIN d : d[a] = T[a]
      BY <1>0 DEF RightBits
    <3> HIDE DEF put, d, bits, new
    <3>3. /\ DOMAIN Overlay(put, d) = DOMAIN put \cup DOMAIN d
          /\ \A a \in DOMAIN put : Overlay(put, d)[a] = put[a]
          /\ \A a \in DOMAIN d \ DOMAIN put : Overlay(put, d)[a] = d[a]
      BY OverlayFacts
    <3> QED
      BY <3>1, <3>2, <3>3 DEF RightBits
  <2>2. CASE ~(Len(m.proof.bits) > 0)
    BY <1>0, <2>2 DEF GarblerBits
  <2> QED
    BY <2>1, <2>2
<1> HIDE DEF bits, d, new
<1>7. CASE UNCHANGED <<data, macs, net, results>>
  BY <1>7, QuietRight
<1>8. ASSUME net' = [net EXCEPT !["g"] = Tail(@)], data' = [data EXCEPT !["g"] = bits],
             Resolve("g", ops["g"], bits), macs' = macs
      PROVE  RightStep
  <2>1. RightResults(T, results') /\ results' = [q \in Roles |-> results'[q]]
    BY <1>0, <1>6, <1>8, ResolvesRight DEF T
  <2>2. \A p \in Roles : data'[p] = data[p] \/ (p = "g" /\ data'[p] = bits)
    BY <1>0, <1>8
  <2>3. \A p \in Roles : RightBits(T, data'[p]) /\ DOMAIN data[p] \subseteq DOMAIN data'[p]
    BY <1>0, <1>6, <2>2 DEF d
  <2> QED
    BY <1>0, <1>2, <1>8, <2>1, <2>3 DEF RightStep, Right, T
<1> QED
  BY <1>4, <1>7, <1>8

\* The MACs of a flush message, and those the oblivious transfer returns.
LEMMA MessageRight ==
  ASSUME NEW T, NEW v, NEW msg, MacsFit(msg, v.flush), RightTags(T, msg.macs),
         NEW r \in Roles, Good(v, r), v.flush.ot \subseteq DOMAIN data["e"],
         RightBits(T, data["e"]), RightMacs(T, macs)
  PROVE  RightMacs(T, ReceivedMacs(v, msg))
<1> DEFINE A == v.flush.macs
           B == v.flush.ot
           d == data["e"]
           gotMacs == Spread(A, msg.macs)
           gotOt == [a \in B |-> Mac(Spread(B, msg.ot)[a], d[a])]
<1>0. /\ A \in Addr /\ IsFiniteSet(A) /\ B \in Addr /\ IsFiniteSet(B)
  BY FiniteFlush
<1>1. PICK b \in [A -> Bits] : msg.macs = Collect(A, MacsOf(b))
  BY DEF MacsFit
<1>2. msg.ot = Collect(B, Own(B)) /\ DOMAIN b = A
  BY <1>1 DEF MacsFit
<1>3. B \subseteq DOMAIN d /\ \A a \in DOMAIN d : d[a] = T[a]
  BY DEF RightBits
<1>4. ReceivedMacs(v, msg) = Overlay(gotMacs, Overlay(gotOt, macs))
  BY DEF ReceivedMacs
<1> HIDE DEF A, B, d
<1>5. gotMacs = [a \in A |-> MacsOf(b)[a]]
  BY <1>0, <1>1, CollectFacts
<1>6. \A a \in A : b[a] = T[a]
  BY <1>0, <1>1, <1>2, TagsReceived
<1>7. DOMAIN gotMacs = A /\ \A a \in A : gotMacs[a] = Mac(a, T[a])
  BY <1>2, <1>5, <1>6 DEF MacsOf
<1>8. Spread(B, msg.ot) = [a \in B |-> Own(B)[a]]
  BY <1>0, <1>2, CollectFacts
<1>9. DOMAIN gotOt = B /\ \A a \in B : gotOt[a] = Mac(a, T[a])
  BY <1>3, <1>8 DEF Own
<1> HIDE DEF gotMacs, gotOt
<1>10. \A a, x : Mac(a, x).bit = x
  BY DEF Mac
<1> DEFINE inner == Overlay(gotOt, macs)
<1>11. RightMacs(T, inner)
  <2>1. /\ DOMAIN inner = DOMAIN gotOt \cup DOMAIN macs
        /\ \A a \in DOMAIN gotOt : inner[a] = gotOt[a]
        /\ \A a \in DOMAIN macs \ DOMAIN gotOt : inner[a] = macs[a]
    BY OverlayFacts
  <2> HIDE DEF inner
  <2> QED
    BY <1>9, <1>10, <2>1 DEF RightMacs
<1> HIDE DEF inner
<1> DEFINE all == Overlay(gotMacs, inner)
<1>12. RightMacs(T, all)
  <2>1. /\ DOMAIN all = DOMAIN gotMacs \cup DOMAIN inner
        /\ \A a \in DOMAIN gotMacs : all[a] = gotMacs[a]
        /\ \A a \in DOMAIN inner \ DOMAIN gotMacs : all[a] = inner[a]
    BY OverlayFacts
  <2> HIDE DEF all
  <2> QED
    BY <1>7, <1>10, <1>11, <2>1 DEF RightMacs
<1> QED
  BY <1>4, <1>12 DEF inner

\* See GarblerReceiveRight.
LEMMA EvaluatorReceiveRight ==
  ASSUME InStep, TruthInv, EvaluatorReceiveFlush PROVE RightStep
<1> DEFINE T == Truth
           v == view["e"]
           msg == Head(net["e"])
           m == ReceivedMacs(v, msg)
           i == ReceivedInfo(v, msg)
           bits == DecodeMacs(m, i)
<1>0. /\ "e" \in Roles /\ Good(v, "e") /\ Fresh(v, "e")
      /\ RightBits(T, data["e"]) /\ RightMacs(T, macs)
  BY DEF InStep, PartiesInv, PartyInv, Sound, FreshInv, TruthInv, Right, Roles
<1>1. pc["e"] = "await" /\ net["e"] # <<>>
  BY DEF EvaluatorReceiveFlush, NoMsg
<1>2. /\ MacsFit(msg, v.flush) /\ RightTags(T, msg.macs)
      /\ net' = [net EXCEPT !["e"] = Tail(@)] => \A q \in Roles : RightSent(T, q, net'[q])
  BY <1>0, <1>1, ReceivedRight DEF Fits
<1>3. /\ EvaluatorHolds(v, data["e"], macs, info, pc["e"])
      /\ \A a \in DOMAIN data["e"] : data["e"][a] \in Bits
      /\ Genuine(macs, info)
  BY DEF InStep, Holds, EvaluatorHolds
<1>4. \/ UNCHANGED <<data, macs, net, results>>
      \/ /\ net' = [net EXCEPT !["e"] = Tail(@)] /\ data' = [data EXCEPT !["e"] = bits]
         /\ Resolve("e", ops["e"], bits) /\ macs' = m
  <2> HIDE DEF T
  <2> QED
    BY DEF EvaluatorReceiveFlush, Fail, stores, decodes
<1> HIDE DEF T, v, msg
<1>5. v.flush.ot \subseteq DOMAIN data["e"]
  BY <1>0, <1>3, EvaluatorSends
<1>6. Genuine(m, i)
  BY <1>0, <1>2, <1>3, <1>5, MessageHolds
<1>7. RightMacs(T, m)
  BY <1>0, <1>2, <1>5, MessageRight
<1> HIDE DEF m, i
<1>8. CASE UNCHANGED <<data, macs, net, results>>
  BY <1>8, QuietRight
<1>9. ASSUME net' = [net EXCEPT !["e"] = Tail(@)], data' = [data EXCEPT !["e"] = bits],
             Resolve("e", ops["e"], bits), macs' = m
      PROVE  RightStep
  BY <1>2, <1>6, <1>7, <1>9, DecodingRight DEF T
<1> QED
  BY <1>4, <1>8, <1>9
-----------------------------------------------------------------------------
\* The MAC of a call's output authenticates what the call computes.
LEMMA EvaluatesRight ==
  ASSUME InStep, TruthInv, NEW k \in 1 .. calls, CallInputs[k] \subseteq DOMAIN macs
  PROVE  EvaluatedMac(k, macs) = Mac(Out(k), Truth[Out(k)])
<1> DEFINE T == Truth
           bits == [a \in CallInputs[k] |-> macs[a].bit]
<1>1. /\ \A a \in DOMAIN macs : macs[a].bit = T[a] /\ macs[a].key = a
      /\ k \in 1 .. Len(CallInputs)
  <2>1. \A a \in DOMAIN macs : macs[a].bit = T[a]
    BY DEF TruthInv, Right, RightMacs
  <2>2. \A a \in DOMAIN macs : \E b \in Bits : macs[a] = Mac(a, b)
    BY DEF InStep, Holds, EvaluatorHolds, Genuine
  <2>3. \A a \in DOMAIN macs : macs[a].key = a
    BY <2>2 DEF Mac
  <2>4. Layout(view["g"], calls)
    BY DEF InStep, PartiesInv, PartyInv, Sound, Roles
  <2>5. calls \in Nat /\ calls <= Len(CallInputs) /\ Len(CallInputs) \in Nat
    BY <2>4, ConstantsOK DEF Layout
  <2> QED
    BY <2>1, <2>3, <2>5
<1>2. EvaluatedMac(k, macs) = Mac(Out(k), Circuit(k, bits))
  BY <1>1 DEF EvaluatedMac
<1>3. T[Out(k)] = Cardinality({b \in CallInputs[k] : T[b] = 1}) % 2
  BY <1>1, TruthBits
<1> HIDE DEF T
<1>4. {b \in CallInputs[k] : bits[b] = 1} = {b \in CallInputs[k] : T[b] = 1}
  BY <1>1
<1>5. Circuit(k, bits) = T[Out(k)]
  BY <1>3, <1>4 DEF Circuit
<1> QED
  BY <1>2, <1>5 DEF T

\* So do the MACs after a set of calls.
LEMMA CallsRight ==
  ASSUME InStep, TruthInv, NEW K, K \subseteq pre["e"] \cup batch["e"],
         \A k \in K : IsReady(view["e"], k)
  PROVE  RightMacs(Truth, MacsAfter(K)) /\ Genuine(MacsAfter(K), info)
<1> DEFINE T == Truth
           new == [a \in Outs(K) |-> EvaluatedMac(CHOOSE k \in K : Out(k) = a, macs)]
<1>0. PartiesInv /\ Holds
  BY DEF InStep
<1>1. /\ \A k \in K : EvaluatorCanEvaluate(k)
      /\ Genuine(MacsAfter(K), info) /\ K \in SUBSET (1 .. calls)
  BY <1>0, Evaluates
<1>2. \A k \in K : EvaluatedMac(k, macs) = Mac(Out(k), T[Out(k)])
  BY <1>1, EvaluatesRight DEF EvaluatorCanEvaluate
<1> HIDE DEF T
<1>3. ASSUME NEW a \in Outs(K) PROVE new[a].bit = T[a]
  <2>1. PICK k \in K : k = (CHOOSE j \in K : Out(j) = a) /\ Out(k) = a
    BY DEF Outs
  <2>2. new[a] = Mac(a, T[a])
    BY <1>2, <2>1
  <2> QED
    BY <2>2 DEF Mac
<1>4. MacsAfter(K) = Overlay(new, macs) /\ DOMAIN new = Outs(K)
  BY DEF MacsAfter
<1>5. \A a \in DOMAIN macs : macs[a].bit = T[a]
  BY DEF TruthInv, Right, RightMacs, T
<1> HIDE DEF new
<1>6. /\ DOMAIN Overlay(new, macs) = DOMAIN new \cup DOMAIN macs
      /\ \A a \in DOMAIN new : Overlay(new, macs)[a] = new[a]
      /\ \A a \in DOMAIN macs \ DOMAIN new : Overlay(new, macs)[a] = macs[a]
  BY OverlayFacts
<1>7. RightMacs(T, MacsAfter(K))
  BY <1>3, <1>4, <1>5, <1>6 DEF RightMacs
<1> QED
  BY <1>1, <1>7 DEF T

\* mark_executed and execute_preprocessed.
LEMMA MarkingRight ==
  ASSUME InStep, TruthInv, NEW p \in Roles, ExecutePreprocessed(p) PROVE RightStep
<1> DEFINE K == {k \in pre[p] : Ready(p, k)}
           outs == UNION {OutputSlice(k) : k \in K}
           m == Overlay([a \in outs |-> EvaluatedMac(CHOOSE k \in K : Out(k) = a, macs)], macs)
<1>1. K \subseteq pre[p] /\ \A k \in K : IsReady(view[p], k)
  BY ReadyFacts
<1>2. \/ UNCHANGED <<data, macs, net, results>>
      \/ /\ p = "e" /\ macs' = m /\ data' = [data EXCEPT !["e"] = DecodeMacs(m, info)]
         /\ Resolve("e", ops["e"], DecodeMacs(m, info)) /\ net' = net
  BY DEF ExecutePreprocessed, Fail, stores, decodes, Roles
<1> HIDE DEF K
<1>3. CASE UNCHANGED <<data, macs, net, results>>
  BY <1>3, QuietRight
<1>4. ASSUME p = "e", macs' = m, data' = [data EXCEPT !["e"] = DecodeMacs(m, info)],
             Resolve("e", ops["e"], DecodeMacs(m, info)), net' = net
      PROVE  RightStep
  <2>1. K \in SUBSET (1 .. calls)
    BY <1>1, <1>4, Evaluates DEF InStep
  <2>2. outs = Outs(K)
    BY <1>1, <1>4, Evaluates DEF InStep
  <2>3. m = MacsAfter(K)
    BY <2>2 DEF MacsAfter
  <2> HIDE DEF m, outs
  <2>4. RightMacs(Truth, m) /\ Genuine(m, info)
    BY <1>1, <1>4, <2>3, CallsRight
  <2>5. \A q \in Roles : RightSent(Truth, q, net'[q])
    BY <1>4 DEF TruthInv, Right
  <2> QED
    BY <1>4, <2>4, <2>5, DecodingRight
<1> QED
  BY <1>2, <1>3, <1>4

\* evaluate.
LEMMA EvaluateRight ==
  ASSUME InStep, TruthInv, NEW k \in batch["e"], Evaluate(k) PROVE RightStep
<1> DEFINE K == {k}
           m == Overlay([a \in OutputSlice(k) |-> EvaluatedMac(k, macs)], macs)
<1>0. /\ Sound("e", calls, view["e"], pre["e"], stack["e"], taken["e"], batch["e"], rest["e"], pc["e"])
      /\ pc["e"] = "execute"
  BY DEF InStep, PartiesInv, PartyInv, Evaluate, Roles
<1>1. calls \in Nat /\ batch["e"] \in SUBSET (1 .. calls)
  BY <1>0 DEF Sound, Layout, Works, Places
<1>2. K \subseteq pre["e"] \cup batch["e"] /\ \A j \in K : IsReady(view["e"], j)
  BY <1>0 DEF Sound, Works, Executable
<1>3. OutputSlice(k) = Outs(K)
  BY <1>1, OutFacts DEF Outs
<1>4. m = MacsAfter(K)
  <2>1. \A a \in Outs(K) : (CHOOSE j \in K : Out(j) = a) = k
    BY DEF Outs
  <2>2. [a \in Outs(K) |-> EvaluatedMac(k, macs)]
          = [a \in Outs(K) |-> EvaluatedMac(CHOOSE j \in K : Out(j) = a, macs)]
    BY <2>1
  <2> QED
    BY <1>3, <2>2 DEF MacsAfter
<1>5. \/ UNCHANGED <<data, macs, net, results>>
      \/ macs' = m /\ UNCHANGED <<data, net, results>>
  BY DEF Evaluate, Fail, stores, decodes
<1> HIDE DEF K, m
<1>6. RightMacs(Truth, m)
  BY <1>2, <1>4, CallsRight
<1>7. CASE UNCHANGED <<data, macs, net, results>>
  BY <1>7, QuietRight
<1>8. CASE macs' = m /\ UNCHANGED <<data, net, results>>
  BY <1>6, <1>8 DEF RightStep, Right, TruthInv
<1> QED
  BY <1>5, <1>7, <1>8

\* The end of execute_all, where the evaluator decodes.
LEMMA EndRight ==
  ASSUME InStep, TruthInv, NEW p \in Roles, ExecuteEnd(p) PROVE RightStep
<1>1. \/ UNCHANGED <<data, macs, net, results>>
      \/ /\ p = "e" /\ macs' = macs /\ data' = [data EXCEPT !["e"] = DecodeMacs(macs, info)]
         /\ Resolve("e", ops["e"], DecodeMacs(macs, info)) /\ net' = net
  BY DEF ExecuteEnd, Fail, stores, decodes, Roles
<1>2. CASE UNCHANGED <<data, macs, net, results>>
  BY <1>2, QuietRight
<1>3. ASSUME macs' = macs, data' = [data EXCEPT !["e"] = DecodeMacs(macs, info)],
             Resolve("e", ops["e"], DecodeMacs(macs, info)), net' = net
      PROVE  RightStep
  <2>1. Genuine(macs, info) /\ RightMacs(Truth, macs)
    BY DEF InStep, Holds, EvaluatorHolds, TruthInv, Right
  <2>2. \A q \in Roles : RightSent(Truth, q, net'[q])
    BY <1>3 DEF TruthInv, Right
  <2> QED
    BY <1>3, <2>1, <2>2, DecodingRight
<1> QED
  BY <1>1, <1>2, <1>3

\* No machine moves before every input is assigned.
LEMMA MachinesAssigned ==
  ASSUME TruthInv, Garbler \/ Evaluator PROVE Assigned
<1> SUFFICES ASSUME pc["g"] = "idle", pc["e"] = "idle" PROVE FALSE
  BY DEF TruthInv, Nothing, Roles
<1>1. ASSUME NEW p \in Roles, Party(p) PROVE FALSE
  <2>1. pc[p] = "idle"
    BY DEF Roles
  <2> QED
    BY <1>1, <2>1 DEF Party, PreprocessBatch, PreprocessEnd, ExecuteAll, ExecutePreprocessed,
                      ExecuteBatch, ExecuteEnd, Executing
<1>2. ASSUME GarblerSendFlush \/ GarblerReceiveFlush \/ EvaluatorSendFlush \/ EvaluatorReceiveFlush PROVE FALSE
  BY <1>2 DEF GarblerSendFlush, GarblerReceiveFlush, EvaluatorSendFlush, EvaluatorReceiveFlush
<1>3. ASSUME NEW k, Generate(k) \/ ReceiveGarbledCircuit(k) \/ Evaluate(k) PROVE FALSE
  BY <1>3 DEF Generate, ReceiveGarbledCircuit, Evaluate
<1> QED
  BY <1>1, <1>2, <1>3 DEF Garbler, Evaluator, Roles

\* The machines.
LEMMA MachineTruth ==
  ASSUME InStep, TruthInv, Garbler \/ Evaluator PROVE TruthInv'
<1>1. RightStep
  <2>1. ASSUME NEW p \in Roles, Party(p) PROVE RightStep
    <3>1. CASE PreprocessBatch(p) \/ PreprocessEnd(p) \/ ExecuteAll(p) \/ ExecuteBatch(p)
      <4>1. UNCHANGED <<data, macs, net, results>>
        BY <3>1 DEF PreprocessBatch, PreprocessEnd, ExecuteAll, ExecuteBatch, stores, decodes
      <4> QED
        BY <4>1, QuietRight
    <3> QED
      BY <2>1, <3>1, MarkingRight, EndRight DEF Party
  <2>2. ASSUME NEW k, Generate(k) \/ ReceiveGarbledCircuit(k) PROVE RightStep
    <3>1. UNCHANGED <<data, macs, net, results>>
      BY <2>2 DEF Generate, ReceiveGarbledCircuit, Fail, stores, decodes
    <3> QED
      BY <3>1, QuietRight
  <2> QED
    BY <2>1, <2>2, SendsRight, GarblerReceiveRight, EvaluatorReceiveRight, EvaluateRight, PeerFacts
       DEF Garbler, Evaluator
<1>2. ASSUME NEW p \in Roles PROVE view'[p].assigned = view[p].assigned
  <2>1. Good(view[p], p) /\ Layout(view[p], calls) /\ Worked(view[p], view'[p], calls)
    BY MachineWorks DEF InStep, PartiesInv, PartyInv, Sound
  <2> QED
    BY <2>1, WorkedKeeps
<1> QED
  BY <1>1, <1>2, MachinesAssigned, StepTruth
-----------------------------------------------------------------------------
\* Who sees a slice, when it is assigned, and who holds it.
LEMMA SeersHold ==
  ASSUME InStep, TruthInv, ~Assigned, NEW S \in Slices, NEW bits \in Values, AssignRaw(S, bits)
  PROVE  /\ \A p \in Roles : S \cap DOMAIN data[p] = {}
         /\ \A p \in Roles : CanAssign(view[p], S) => \A a \in S : CanAssign(view[Holder(a)], S)
<1>0. /\ "g" \in Roles /\ "e" \in Roles
      /\ \A p \in Roles : Good(view[p], p) /\ Owned(p, view[p]) /\ pc[p] = "idle"
  BY DEF InStep, PartiesInv, PartyInv, Sound, FreshInv, Roles, AssignRaw, Idle
<1>1. /\ \A p \in Roles : CanAssign(view[p], S) => ~(S \subseteq DOMAIN data[p]) /\ S \cap DOMAIN data[p] = {}
      /\ \E p \in Roles : CanAssign(view[p], S)
  BY DEF AssignRaw, CanSet, StoreIsSet
<1>2. PICK i \in Inputs : S \subseteq InputSlice(i)
  BY SliceAddr
<1>3. \A a \in S : Holder(a) = IF Owner[i] = "e" THEN "e" ELSE "g"
  BY <1>2, HolderFacts
<1>4. ASSUME NEW p \in Roles
      PROVE  LET q == Peer(p) IN
             /\ q \in Roles /\ p # q /\ view[q].outputs = view[p].outputs
             /\ view[q].vis.public = view[p].vis.public
             /\ view[q].vis.private = view[p].vis.blind /\ view[q].vis.blind = view[p].vis.private
  BY <1>0, PeerFacts, AgreeIdle DEF InStep, Twin, Roles
<1>5. \A p \in Roles : view[p].vis.visible = view[p].vis.public \cup view[p].vis.private
  BY <1>0, GoodSets DEF Good, VisShape
<1>6. \A p \in Roles : /\ InputSlice(i) \cap view[p].vis.public # {} => Owner[i] = "public"
                       /\ InputSlice(i) \cap view[p].vis.private # {} => Owner[i] = p
                       /\ InputSlice(i) \cap view[p].vis.blind # {} => Owner[i] = Peer(p)
  BY <1>0, <1>2 DEF Owned
<1>7. \A p \in Roles : p # "public" /\ Peer(p) # "public"
  BY DEF Roles, Peer
<1>8. ASSUME NEW p \in Roles, CanAssign(view[p], S), NEW a \in S PROVE CanAssign(view[Holder(a)], S)
  <2>1. S \subseteq view[p].vis.public \cup view[p].vis.private /\ S \cap view[p].outputs = {}
    BY <1>5, <1>8 DEF CanAssign
  <2>2. CASE Owner[i] = "public"
    <3>1. S \subseteq view[p].vis.public
      BY <1>2, <1>6, <1>7, <2>1, <2>2
    <3>2. \A q \in Roles : S \subseteq view[q].vis.visible /\ S \cap view[q].outputs = {}
      BY <1>4, <1>5, <2>1, <3>1, PeerFacts
    <3> QED
      BY <3>2, HolderRole DEF CanAssign
  <2>3. CASE Owner[i] # "public"
    <3>1. Owner[i] = p
      BY <1>2, <1>6, <1>8, <2>1, <2>3
    <3>2. Holder(a) = p
      BY <1>3, <3>1 DEF Roles
    <3> QED
      BY <1>8, <3>2
  <2> QED
    BY <2>2, <2>3
<1>9. ASSUME NEW p \in Roles, NEW a \in S, a \in DOMAIN data[p] PROVE FALSE
  <2>1. a \in view[p].assigned /\ view[p].assigned \subseteq view[p].vis.visible
    BY <1>0, <1>9 DEF TruthInv, Nothing, Good, UseShape
  <2>2. ~CanAssign(view[p], S)
    BY <1>1, <1>9
  <2>3. PICK q \in Roles : CanAssign(view[q], S)
    BY <1>1
  <2>4. q = Peer(p)
    BY <2>2, <2>3, PeerFacts
  <2>5. S \subseteq view[p].vis.public \cup view[p].vis.blind /\ S \cap view[p].outputs = {}
    BY <1>4, <1>5, <2>3, <2>4 DEF CanAssign
  <2>6. Owner[i] # Peer(p)
    <3>1. a \in view[p].vis.public \/ a \in view[p].vis.private
      BY <1>5, <2>1
    <3> QED
      BY <1>2, <1>4, <1>6, <1>7, <3>1
  <2>7. S \subseteq view[p].vis.public
    BY <1>2, <1>6, <2>5, <2>6
  <2> QED
    BY <1>5, <2>2, <2>5, <2>7 DEF CanAssign
<1> QED
  BY <1>8, <1>9

\* assign_raw: what was held stays, and what is assigned is held by its
\* holder.
LEMMA AssignTruth ==
  ASSUME InStep, TruthInv, NEW S \in Slices, NEW bits \in Values, AssignRaw(S, bits)
  PROVE  TruthInv'
<1> DEFINE new == [a \in S |-> bits[a]]
           Sees(p) == CanAssign(view[p], S)
<1>0. ~Assigned /\ S \in Addr /\ Nothing
  BY AssignedOnce, SliceAddr DEF TruthInv
<1>1. /\ UNCHANGED <<pc, net, macs, results>>
      /\ \A p \in Roles : view[p] \in ViewType /\ Good(view[p], p) /\ Layout(view[p], calls)
  BY DEF AssignRaw, decodes, InStep, PartiesInv, PartyInv, Sound
<1>2. ASSUME NEW p \in Roles
      PROVE  IF Sees(p) THEN view'[p] = Assign(view[p], S) /\ data'[p] = Overlay(new, data[p])
             ELSE view'[p] = view[p] /\ data'[p] = data[p]
  BY DEF AssignRaw, TrySet
<1>3. /\ \A p \in Roles : S \cap DOMAIN data[p] = {}
      /\ \A p \in Roles : Sees(p) => \A a \in S : Sees(Holder(a))
  BY <1>0, SeersHold
<1>4. DOMAIN new = S /\ \A a \in S : new[a] = bits[a]
  OBVIOUS
<1> HIDE DEF new, Sees
<1>5. ASSUME NEW p \in Roles
      PROVE  /\ Sees(p) => DOMAIN data'[p] = S \cup DOMAIN data[p] /\ view'[p].assigned = view[p].assigned \cup S
             /\ ~Sees(p) => DOMAIN data'[p] = DOMAIN data[p] /\ view'[p].assigned = view[p].assigned
             /\ Sees(p) => \A a \in S : data'[p][a] = bits[a]
             /\ \A a \in DOMAIN data[p] : data'[p][a] = data[p][a]
  <2>1. CASE Sees(p)
    <3>1. /\ DOMAIN Overlay(new, data[p]) = DOMAIN new \cup DOMAIN data[p]
          /\ \A a \in DOMAIN new : Overlay(new, data[p])[a] = new[a]
          /\ \A a \in DOMAIN data[p] \ DOMAIN new : Overlay(new, data[p])[a] = data[p][a]
      BY OverlayFacts
    <3>2. Assign(view[p], S).assigned = view[p].assigned \cup S
      BY <1>0, <1>1, AssignFields
    <3> QED
      BY <1>2, <1>3, <1>4, <2>1, <3>1, <3>2
  <2>2. CASE ~Sees(p)
    BY <1>2, <2>2
  <2> QED
    BY <2>1, <2>2
<1>6. Nothing'
  <2>1. ASSUME NEW p \in Roles PROVE DOMAIN data'[p] \subseteq view'[p].assigned
    BY <1>0, <1>5 DEF Nothing
  <2> QED
    BY <1>0, <1>1, <2>1 DEF Nothing
<1>7. Held'
  <2> SUFFICES ASSUME NEW p \in Roles, NEW a \in view'[p].assigned PROVE a \in DOMAIN data'[Holder(a)]
    BY DEF Held, Holder, OwnerOf, NumInputs, Inputs, InputSlice
  <2>1. CASE a \in view[p].assigned
    <3>1. a \in DOMAIN data[Holder(a)] /\ Holder(a) \in Roles
      BY <2>1, HolderRole DEF TruthInv, Held
    <3> QED
      BY <1>5, <3>1
  <2>2. CASE a \notin view[p].assigned
    <3>1. a \in S /\ Sees(p)
      BY <1>5, <2>2
    <3>2. Sees(Holder(a)) /\ Holder(a) \in Roles
      BY <1>3, <3>1, HolderRole
    <3> QED
      BY <1>5, <3>1, <3>2
  <2> QED
    BY <2>1, <2>2
<1>8. ASSUME NEW p \in Roles, NEW a \in DOMAIN data'[p] PROVE a \in 0 .. NumInputs - 1
  <2>1. CASE a \in S
    <3>1. PICK i \in Inputs : S \subseteq InputSlice(i)
      BY SliceAddr
    <3> QED
      BY <2>1, <3>1, InputAddrs
  <2>2. CASE a \notin S
    <3>1. a \in DOMAIN data[p]
      BY <1>5, <1>8, <2>2
    <3>2. a \in view[p].inputs
      BY <1>0, <1>1, <3>1 DEF Nothing, Good, UseShape, VisShape, Settled
    <3>3. PICK b \in 1 .. Len(Bounds) : view[p].inputs = 0 .. Bounds[b] - 1
      BY <1>1 DEF Layout
    <3>4. /\ Len(Bounds) \in 1 .. Len(Bounds) /\ (b = Len(Bounds) \/ b < Len(Bounds))
          /\ Bounds[b] \in Nat
      BY BoundsGrow
    <3>5. Bounds[b] <= NumInputs /\ NumInputs \in Nat
      BY <3>4, BoundsGrow DEF NumInputs
    <3> QED
      BY <3>2, <3>3, <3>4, <3>5
  <2> QED
    BY <2>1, <2>2
<1>9. ASSUME NEW p \in Roles, NEW a \in DOMAIN data'[p] PROVE data'[p][a] = data'[Holder(a)][a]
  <2>0. Holder(a) \in Roles
    BY HolderRole
  <2>1. CASE a \in S
    <3>1. Sees(p)
      BY <1>3, <1>5, <1>9, <2>1
    <3> QED
      BY <1>3, <1>5, <2>0, <2>1, <3>1
  <2>2. CASE a \notin S
    <3>1. a \in DOMAIN data[p]
      BY <1>5, <1>9, <2>2
    <3>2. a \in DOMAIN data[Holder(a)]
      BY <1>0, <3>1 DEF Nothing, TruthInv, Held
    <3>3. a \in 0 .. NumInputs - 1
      BY <1>8, <1>9
    <3>4. data[p][a] = Truth[a] /\ Truth[a] = data[Holder(a)][a]
      BY <3>1, <3>3, TruthBits DEF TruthInv, Right, RightBits
    <3> QED
      BY <1>5, <2>0, <3>1, <3>2, <3>4
  <2> QED
    BY <2>1, <2>2
<1>10. \A p \in Roles : RightBits(Truth', data'[p])
  <2> SUFFICES ASSUME NEW p \in Roles, NEW a \in DOMAIN data'[p] PROVE Truth'[a] = data'[p][a]
    BY DEF RightBits
  <2>1. a \in 0 .. NumInputs - 1
    BY <1>8
  <2>2. InputBits' = [b \in 0 .. NumInputs - 1 |-> data'[Holder(b)][b]]
    BY DEF InputBits, NumInputs, Holder, OwnerOf, Inputs, InputSlice
  <2> DEFINE inputs == InputBits'
  <2>3. Truth' = TruthOf(inputs)
    BY DEF Truth
  <2>4. inputs[a] = data'[p][a]
    BY <1>9, <2>1, <2>2
  <2> HIDE DEF inputs
  <2>5. TruthOf(inputs)[a] = inputs[a]
    BY <2>1, TruthInputs
  <2> QED
    BY <2>3, <2>4, <2>5
<1>11. Right(Truth', data', macs', net', results')
  <2>1. \A p \in Roles : RightSent(Truth', p, net'[p])
    BY <1>0, <1>1 DEF RightSent, Nothing
  <2> QED
    BY <1>0, <1>1, <1>10, <2>1 DEF Right, RightMacs, RightResults, Nothing
<1>12. Right(Truth, data, macs, net, results)'
  BY <1>11 DEF Right, RightBits, RightMacs, RightSent, RightTags, RightResults
<1> QED
  BY <1>1, <1>6, <1>7, <1>12 DEF TruthInv
-----------------------------------------------------------------------------
\* alloc_raw, mark_raw, commit_raw and call_raw show nothing.
LEMMA LayoutTruth ==
  ASSUME InStep, TruthInv,
         AllocRaw \/ (\E i \in Allocated : MarkRaw(i)) \/ (\E S \in Slices : CommitRaw(S)) \/ CallRaw
  PROVE  TruthInv'
<1>0. UNCHANGED <<data, macs, net, results, pc>> /\ \A p \in Roles : view[p] \in ViewType /\ view[p].len = view["g"].len
  BY DEF AllocRaw, MarkRaw, CommitRaw, CallRaw, stores, decodes, InStep, Inv, TypeOK, Roles
<1>1. ASSUME \A p \in Roles : view'[p].assigned = view[p].assigned PROVE TruthInv'
  BY <1>0, <1>1, QuietTruth
<1>2. ASSUME NEW n \in Nat,
             \A p \in Roles : view'[p] \in {AllocInput(view[p], n), AllocOutput(view[p], n)}
      PROVE  TruthInv'
  <2>1. \A p \in Roles : view'[p].assigned = view[p].assigned
    BY <1>0, <1>2, AllocFields
  <2> QED
    BY <1>1, <2>1
<1>3. CASE AllocRaw
  <2>1. NextSize \in Nat /\ view' = [p \in Roles |-> AllocInput(view[p], NextSize)]
    BY <1>3, NextInput DEF AllocRaw, NextSize
  <2> QED
    BY <1>2, <2>1
<1>4. CASE CallRaw
  <2> DEFINE one == 1
  <2>1. one \in Nat /\ \A p \in Roles : view'[p] = AllocOutput(view[p], one)
    BY <1>4 DEF CallRaw
  <2> HIDE DEF one
  <2> QED
    BY <1>2, <2>1
<1>5. ASSUME NEW i \in Allocated, MarkRaw(i) PROVE TruthInv'
  <2> DEFINE S == InputSlice(i)
  <2>1. \A p \in Roles : /\ CanMark(view[p], S)
                         /\ view'[p] \in {MarkPublic(view[p], S), MarkPrivate(view[p], S), MarkBlind(view[p], S)}
    BY <1>5 DEF MarkRaw
  <2>2. S \in Addr /\ \A p \in Roles : Below(S, view[p].len)
    BY <1>0 DEF InputSlice, Slice, Allocated, Below, Addr
  <2> HIDE DEF S
  <2>3. \A p \in Roles : view'[p].assigned = view[p].assigned
    BY <1>0, <2>1, <2>2, MarkFields
  <2> QED
    BY <1>1, <2>3
<1>6. ASSUME NEW S \in Slices, CommitRaw(S) PROVE TruthInv'
  <2>1. S \in Addr /\ \A p \in Roles : view'[p] = Commit(view[p], p, S)
    BY <1>6, SliceAddr DEF CommitRaw
  <2>2. \A p \in Roles : view'[p].assigned = view[p].assigned
    BY <1>0, <2>1, CommitFields
  <2> QED
    BY <1>1, <2>2
<1> QED
  BY <1>3, <1>4, <1>5, <1>6

\* decode_raw: what is known already resolves at once.
LEMMA DecodeTruth ==
  ASSUME InStep, TruthInv, Assigned, NEW S \in Slices \cup {OutputSlice(k) : k \in 1 .. calls}, DecodeRaw(S)
  PROVE  TruthInv'
<1> DEFINE T == Truth
           More(p) == {<<S, [a \in S |-> data[p][a]]>>}
<1>0. \A p \in Roles : view[p] \in ViewType /\ VisShape(view[p]) /\ calls \in Nat
  BY DEF InStep, Inv, TypeOK, PartiesInv, PartyInv, Sound, Good, Layout
<1>1. /\ UNCHANGED <<data, macs, net>>
      /\ \A p \in Roles : /\ S \subseteq view[p].outputs \/ VisIsSet(view[p].vis, view[p].len, S)
                          /\ view'[p] = Decode(view[p], p, S)
      /\ results' = [p \in Roles |-> IF StoreIsSet(data[p], S) THEN results[p] \cup More(p) ELSE results[p]]
  BY DEF DecodeRaw, stores
<1>2. S \in Addr
  BY <1>0, DecodedAddr DEF Roles
<1>3. ASSUME NEW p \in Roles PROVE view'[p].assigned = view[p].assigned
  <2>1. CASE S \subseteq view[p].decoded
    <3>1. view'[p] = view[p]
      BY <1>1, <2>1 DEF Decode
    <3> QED
      BY <3>1
  <2>2. CASE ~(S \subseteq view[p].decoded)
    BY <1>0, <1>1, <1>2, <2>2, DecodeFields
  <2> QED
    BY <2>1, <2>2
<1>4. /\ \A p \in Roles : RightBits(T, data[p]) /\ RightSent(T, p, net[p])
      /\ RightMacs(T, macs) /\ RightResults(T, results)
  BY DEF TruthInv, Right
<1> HIDE DEF T
<1>5. ASSUME NEW p \in Roles, StoreIsSet(data[p], S), NEW x \in More(p), NEW a \in x[1] PROVE x[2][a] = T[a]
  <2>1. x[1] = S /\ x[2] = [c \in S |-> data[p][c]]
    OBVIOUS
  <2>2. x[2][a] = data[p][a] /\ a \in DOMAIN data[p]
    BY <1>5, <2>1 DEF StoreIsSet
  <2> QED
    BY <1>4, <2>2 DEF RightBits
<1> HIDE DEF More
<1>6. ASSUME NEW p \in Roles, NEW x \in results'[p] PROVE \A a \in x[1] : x[2][a] = T[a]
  <2>1. x \in results[p] \/ (StoreIsSet(data[p], S) /\ x \in More(p))
    BY <1>1, <1>6
  <2> QED
    BY <1>4, <1>5, <2>1 DEF RightResults
<1>7. RightResults(T, results') /\ results' = [p \in Roles |-> results'[p]]
  BY <1>1, <1>6 DEF RightResults
<1>8. RightStep
  BY <1>1, <1>4, <1>7 DEF RightStep, Right, T
<1> QED
  BY <1>3, <1>8, StepTruth

\* The applications.
LEMMA ApplicationTruth ==
  ASSUME InStep, TruthInv, Application PROVE TruthInv'
<1>1. CASE StartFlush \/ StartExecuteAll \/ StartPreprocess
  <2>1. Assigned /\ UNCHANGED <<view, data, macs, net, results>>
    BY <1>1 DEF StartFlush, StartExecuteAll, StartPreprocess, StartJoint, stores, decodes
  <2> QED
    BY <2>1, QuietTruth
<1> QED
  BY <1>1, LayoutTruth, AssignTruth, DecodeTruth DEF Application

\* Nothing is held at the start.
LEMMA TruthInit ==
  ASSUME Init PROVE TruthInv
<1>1. \A p \in Roles : /\ data[p] = EmptyStore /\ net[p] = <<>> /\ results[p] = {} /\ pc[p] = "idle"
                       /\ view[p] = NewView
  BY DEF Init, NoMsg
<1>2. DOMAIN EmptyStore = {} /\ macs = EmptyStore /\ NewView.assigned = {} /\ DOMAIN <<>> = {}
  BY DEF Init, EmptyStore, NewView
<1>3. Held /\ Nothing
  BY <1>1, <1>2 DEF Held, Nothing
<1>4. Right(Truth, data, macs, net, results)
  BY <1>1, <1>2 DEF Right, RightBits, RightMacs, RightSent, RightResults
<1>5. results = [p \in Roles |-> results[p]]
  BY DEF Init
<1> QED
  BY <1>3, <1>4, <1>5 DEF TruthInv

\* Whatever the applications allocate, assign, commit, decode and call, and
\* however flush, preprocess and execute_all interleave, what a decode future
\* of either party resolves to is the bit its owner assigned or the bit the
\* circuits compute of those (decode_macs, KeyStore::verify and evaluate).
THEOREM DecodesRightly == Spec => []DecodesTruth
<1>1. Init => TruthInv
  BY TruthInit
<1>2. ASSUME InStep, TruthInv, [Next]_vars PROVE TruthInv'
  <2>1. CASE UNCHANGED vars
    <3>1. UNCHANGED <<view, data, macs, net, results, pc>>
      BY <2>1 DEF vars, stores, decodes
    <3> QED
      BY <1>2, <3>1, QuietTruth
  <2> QED
    BY <1>2, <2>1, ApplicationTruth, MachineTruth DEF Next
<1>3. TruthInv => DecodesTruth
  BY DEF TruthInv, Right, RightResults, DecodesTruth
<1>4. InStep /\ TruthInv /\ [Next]_vars => TruthInv'
  BY <1>2
<1> QED
  BY <1>1, <1>3, <1>4, InStepAlways, PTL DEF Spec
=============================================================================
