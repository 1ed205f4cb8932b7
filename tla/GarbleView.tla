----------------------------- MODULE GarbleView -----------------------------
(***************************************************************************)
(* What one party of the garbled-circuit VM knows about every address of   *)
(* the shared memory, and what its next flush has to carry                 *)
(* (crates/garble-core/src/view.rs).  The garbler is "g", the evaluator    *)
(* "e"; each keeps a view of its own and the flush messages carry no       *)
(* addresses, so the two flush views have to be equal by construction.     *)
(***************************************************************************)
EXTENDS MemoryCore

EmptyFlush == [macs |-> {}, ot |-> {}, info |-> {}, decode |-> {}]

\* input.{assigned,complete,all}, output.{preprocessed,complete,all} and
\* decode.{decode_info,complete,all} of the code, in this order.
NewView ==
  [len |-> 0, vis |-> NewVisibility,
   assigned |-> {}, committed |-> {}, inputs |-> {},
   preprocessed |-> {}, executed |-> {}, outputs |-> {},
   informed |-> {}, decoded |-> {}, decode |-> {},
   flush |-> EmptyFlush]

WantsFlush(v) == v.flush # EmptyFlush

-----------------------------------------------------------------------------
\* Allocation.

AllocInput(v, size) ==
  LET S == Slice(v.len, size)
  IN  [v EXCEPT !.len = @ + size, !.vis = VisAlloc(@, S),
                !.inputs = @ \cup S]

AllocOutput(v, size) ==
  LET S == Slice(v.len, size)
  IN  [v EXCEPT !.len = @ + size, !.vis = VisAlloc(@, S),
                !.outputs = @ \cup S]

-----------------------------------------------------------------------------
\* mark_public, mark_private, mark_blind: only once, never for outputs.

CanMark(v, S) == ~VisIsSetAny(v.vis, v.len, S) /\ S \cap v.outputs = {}

MarkPublic(v, S) == [v EXCEPT !.vis = SetPublic(@, S)]

MarkPrivate(v, S) == [v EXCEPT !.vis = SetPrivate(@, S)]

MarkBlind(v, S) == [v EXCEPT !.vis = SetBlind(@, S)]

-----------------------------------------------------------------------------
\* assign and commit.  A committed range waits in the flush view until both
\* parties have exchanged what it needs.

CanAssign(v, S) == S \subseteq v.vis.visible /\ S \cap v.outputs = {}

Assign(v, S) == [v EXCEPT !.assigned = @ \cup S]

IsCommitted(v, S) == S \subseteq v.committed \/ S \subseteq v.executed

CanCommit(v, S) ==
  /\ VisIsSet(v.vis, v.len, S)
  /\ S \cap v.outputs = {}
  /\ S \cap v.committed = {}
  /\ S \cap (v.vis.public \cup v.vis.private) \subseteq v.assigned

\* Wrong on purpose: the evaluator forgets that its own inputs arrive by OT.
CommitWithoutOt(v, role, S) ==
  IF role = "g"
  THEN [v EXCEPT !.flush.macs = @ \cup (S \cap v.vis.visible),
                 !.flush.ot = @ \cup (S \cap v.vis.blind)]
  ELSE [v EXCEPT !.flush.macs = @ \cup (S \ v.vis.private)]

Commit(v, role, S) ==
  LET blind   == S \cap v.vis.blind
      private == S \cap v.vis.private
      public  == S \cap v.vis.public
  IN  IF role = "g"
      THEN [v EXCEPT !.flush.macs = @ \cup public \cup private,
                     !.flush.ot = @ \cup blind]
      ELSE [v EXCEPT !.flush.macs = @ \cup public \cup blind,
                     !.flush.ot = @ \cup private]

-----------------------------------------------------------------------------
\* Outputs: the garbler has keys (preprocessed), the call has been executed.

\* Wrong on purpose: decode info is transferred for outputs nobody decodes.
SetPreprocessedInfo(v, S) ==
  [v EXCEPT !.preprocessed = @ \cup S,
            !.flush.info = @ \cup (S \ v.decoded)]

SetPreprocessed(v, S) ==
  [v EXCEPT !.preprocessed = @ \cup S,
            !.flush.info = @ \cup ((S \cap v.decode) \ v.decoded)]

SetOutput(v, S) ==
  [v EXCEPT !.preprocessed = @ \cup S,
            !.executed = @ \cup S,
            !.flush.info = @ \cup ((S \cap v.decode) \ v.informed),
            !.flush.decode = @ \cup ((S \cap v.informed) \ v.decoded)]

-----------------------------------------------------------------------------
\* decode.  The evaluator needs decode info for outputs and the garbler's
\* inputs; the garbler needs proven MACs for outputs and the evaluator's.

Decode(v, role, S) ==
  LET undecoded == S \ v.decoded
      input     == S \cap v.inputs
      output    == S \cap v.outputs
      garblers  == IF role = "g" THEN v.vis.private ELSE v.vis.blind
      decodable == (input \cap garblers) \cup (output \cap v.preprocessed)
      provable  == IF role = "g" THEN input \ v.vis.visible
                                 ELSE input \cap v.vis.private
  IN  IF undecoded = {} THEN v
      ELSE [v EXCEPT
              !.decode = @ \cup undecoded,
              !.flush.info = @ \cup (decodable \ v.informed),
              !.flush.decode = @ \cup (provable \cap v.committed)
                                 \cup (output \cap v.executed)]

-----------------------------------------------------------------------------
\* complete_flush: what was exchanged is complete, and what becomes
\* decodable by it waits for the next flush.

\* Wrong on purpose: the flush view is not cleared.
CompleteFlushAgain(v) ==
  [v EXCEPT !.committed = @ \cup v.flush.macs \cup v.flush.ot,
            !.informed = @ \cup v.flush.info,
            !.decoded = @ \cup v.flush.decode]

\* Wrong on purpose: the evaluator's inputs that became decodable are forgotten.
CompleteFlushForgets(v) ==
  LET informed == v.informed \cup v.flush.info
      decoded  == v.decoded \cup v.flush.decode
  IN  [v EXCEPT !.committed = @ \cup v.flush.macs \cup v.flush.ot,
                !.informed = informed,
                !.decoded = decoded,
                !.flush = [EmptyFlush EXCEPT
                  !.decode = (v.flush.info \cap v.executed) \ decoded]]

CompleteFlush(v) ==
  LET informed == v.informed \cup v.flush.info
      decoded  == v.decoded \cup v.flush.decode
      ready    == (v.flush.ot \cap v.decode)
                    \cup ((v.flush.info \cap v.executed) \ decoded)
  IN  [v EXCEPT !.committed = @ \cup v.flush.macs \cup v.flush.ot,
                !.informed = informed,
                !.decoded = decoded,
                !.flush = [EmptyFlush EXCEPT !.decode = ready]]
=============================================================================
