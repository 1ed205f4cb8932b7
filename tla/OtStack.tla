------------------------------- MODULE OtStack -------------------------------
(***************************************************************************)
(* The oblivious-transfer protocols, stacked as an application stacks them *)
(* and run by two parties.  Party A is the sender of the random and        *)
(* correlated OTs, hence the receiver of the base OT below them; party B   *)
(* the other way round.  A stack is                                        *)
(*   top   what the application calls: the chosen OT, the correlated OT,   *)
(*         the middle layer itself, or the coin toss,                      *)
(*   mid   the correlations below: ideal rcot or rot, emp, kos, a Ferret   *)
(*         configuration, none,                                            *)
(*   base  the chosen OT underneath: ideal, co, none; below Ferret, the    *)
(*         RCOT it bootstraps from: rcot,                                  *)
(*   maps  how the outputs of the middle layer are mapped: rand, any.      *)
(* A call is one step.  A flush is cut at every await; what happens        *)
(* between two awaits is one step.                                         *)
(***************************************************************************)
EXTENDS Ferret, Kos, LockStep

-----------------------------------------------------------------------------
(***************************************************************************)
(* The derandomized correlated OT (ot-core/src/cot/derandomize.rs), on any *)
(* of the random correlated OTs.                                           *)
(***************************************************************************)
\* try_send_rcot and try_recv_rcot of the RCOT underneath.
RcotTry(kind, s, r, n) ==
  CASE kind = "rcot" -> RcotSenderTry(s, r, n)
    [] kind = "emp"  -> EmpSenderTry(s, r, n)
    [] kind = "kos"  -> KosSenderTry(s, r, n)
    [] OTHER -> FerretSenderTry(FerretConfigs[kind], s, r, n)
RcotTryRecv(kind, s, r, n) ==
  CASE kind = "rcot" -> RcotReceiverTry(s, r, n)
    [] kind = "emp"  -> EmpReceiverTry(s, r, n)
    [] kind = "kos"  -> KosReceiverTry(s, r, n)
    [] OTHER -> FerretReceiverTry(FerretConfigs[kind], s, r, n)
RcotAvailable(kind, s) ==
  IF kind \in DOMAIN FerretConfigs THEN FerretAvailable(FerretConfigs[kind], s) ELSE Len(s.pool)

DerandSenderInit   == [adjust |-> <<>>, queue |-> <<>>, done |-> <<>>]
DerandReceiverInit == [derand |-> <<>>, queue |-> <<>>, done |-> <<>>]

DerandQueueSend(d, r, keys) ==
  [d EXCEPT !.adjust = @ \o keys, !.queue = Append(@, [req |-> r, count |-> Len(keys)])]
DerandQueueRecv(d, r, choices) ==
  [d EXCEPT !.derand = @ \o choices, !.queue = Append(@, [req |-> r, count |-> Len(choices)])]

DerandSenderWantsAdjust(d)   == d.adjust # <<>>
DerandReceiverWantsAdjust(d) == d.derand # <<>>

\* DerandCOTReceiver::adjust: each queued request masks its choices with the
\* bits of as many RCOTs, until the RCOTs run out.
DerandReceiverAdjust(kind, d, s) ==
  LET Step(acc, q) ==
        LET from == acc.count
            Masked(t, got) ==
              [acc EXCEPT !.rcot  = t,
                          !.flip  = [i \in 1..Len(@) |->
                                       IF i \in from + 1..from + q.count
                                       THEN @[i] # got.data[i - from].c ELSE @[i]],
                          !.cots  = Append(@, [id |-> got.id, msgs |-> [i \in 1..q.count |-> got.data[i].m]]),
                          !.count = @ + q.count]
            Taken(t) == Masked(t, Last(t.done))
        IN  IF acc.stop \/ RcotAvailable(kind, acc.rcot) < q.count THEN [acc EXCEPT !.stop = TRUE]
            ELSE Taken(RcotTryRecv(kind, acc.rcot, q.req, q.count))
  IN  FoldLeft(Step, [rcot |-> s, flip |-> d.derand, cots |-> <<>>, count |-> 0, stop |-> FALSE], d.queue)

\* DerandCOTSender::adjust: the caller's keys, masked by the RCOT keys and
\* by delta where the receiver's choice differs from its RCOT bit.
DerandSenderAdjust(kind, d, s, flip) ==
  LET Step(acc, q) ==
        LET from == Len(acc.adjust)
            Masked(t, got) ==
              [acc EXCEPT !.rcot   = t,
                          !.adjust = @ \o [i \in 1..q.count |->
                             BXor(BXor(d.adjust[from + i], got.data[i]),
                                  MaskBit(flip[from + i], DeltaBlock))],
                          !.done   = Append(@, [req |-> q.req, id |-> got.id, data |-> <<>>])]
            Taken(t) == Masked(t, Last(t.done))
        IN  IF acc.bad \/ RcotAvailable(kind, acc.rcot) < q.count THEN [acc EXCEPT !.bad = TRUE]
            ELSE Taken(RcotTry(kind, acc.rcot, q.req, q.count))
      start == [rcot |-> s, adjust |-> <<>>, done |-> d.done, bad |-> FALSE]
  IN  IF Len(flip) # Len(d.adjust) THEN [start EXCEPT !.bad = TRUE]
      ELSE FoldLeft(Step, start, d.queue)

\* ReceiveAdjust::receive
DerandReceive(d, cots, adjust) ==
  LET start(k) == FoldSeq(LAMBDA c, n : Len(c.msgs) + n, 0, SubSeq(cots, 1, k - 1))
  IN  [d EXCEPT !.queue = SubSeq(@, Len(cots) + 1, Len(@)),
                !.done  = @ \o [k \in 1..Len(cots) |->
                  [req |-> d.queue[k].req, id |-> cots[k].id,
                   data |-> [i \in 1..Len(cots[k].msgs) |->
                     BXor(cots[k].msgs[i], adjust[start(k) + i])]]]]

-----------------------------------------------------------------------------
CONSTANTS
  Stacks,     \* the stacks to run
  MaxCount,   \* largest count of one call
  AllocAdds   \* the application counts on an allocation to add to what is there

VARIABLES
  stk,        \* the stack
  party,      \* the state of each party
  honest      \* the receiver has not deviated

vars == <<linkVars, stk, party, honest>>

Kosy == stk.mid = "kos"
Ferrety == stk.mid \in DOMAIN FerretConfigs
Conf == FerretConfigs[stk.mid]

\* Inputs of the application to request r.
OtMsgs(r, n)  == [k \in 1..n |-> << Term(<<"m0", r, k, 0>>), Term(<<"m1", r, k, 0>>) >>]
CotKeys(r, n) == [k \in 1..n |-> Term(<<"key", r, k, 0>>)]
ChoiceBits(r, n) == [k \in 1..n |-> (r + k) % 2 = 0]

------------------------------- \* Initial state

Init ==
  /\ LinkInit
  /\ stk \in Stacks
  /\ honest = TRUE
  /\ party = [p \in Party |->
       [pc   |-> "idle", sent |-> <<>>, adj |-> <<>>,
        base |-> CASE stk.base = "ideal" -> BatchInit
                   [] stk.base = "co" -> IF p = "A" THEN CoReceiverInit ELSE CoSenderInit
                   [] stk.base = "rcot" -> IF p = "A" THEN RcotSenderInit ELSE RcotReceiverInit
                   [] OTHER -> [done |-> <<>>],
        mid  |-> CASE stk.mid = "kos" -> IF p = "A" THEN KosSenderInit ELSE KosReceiverInit
                   [] stk.mid = "emp" -> EmpRcotInit
                   [] stk.mid = "rot" -> IF p = "A" THEN RotSenderInit ELSE RotReceiverInit
                   [] stk.mid = "rcot" -> IF p = "A" THEN RcotSenderInit ELSE RcotReceiverInit
                   [] Ferrety -> IF p = "A" THEN FerretSenderInit ELSE FerretReceiverInit
                   [] OTHER -> EmptyPool,
        cot  |-> CASE stk.top # "cot" -> [done |-> <<>>]
                   [] stk.mid = "none" -> BatchInit
                   [] OTHER -> IF p = "A" THEN DerandSenderInit ELSE DerandReceiverInit]]

------------------------------- \* Calls that do not wait

Alloc(p, s, n) ==
  CASE stk.mid = "kos" -> IF p = "A" THEN KosSenderAlloc(s, n) ELSE KosReceiverAlloc(s, n)
    [] stk.mid = "rot" -> IF p = "A" THEN RotSenderAlloc(s, n) ELSE RotReceiverAlloc(s, n)
    [] Ferrety -> IF p = "A" THEN FerretSenderAlloc(s, n) ELSE FerretReceiverAlloc(s, n)
    [] OTHER -> IF p = "A" THEN RcotSenderAlloc(s, n) ELSE RcotReceiverAlloc(s, n)

Queue(p, s, r, n) ==
  CASE stk.mid = "kos" -> IF p = "A" THEN KosSenderQueue(s, r, n) ELSE KosReceiverQueue(s, r, n)
    [] stk.mid = "emp" -> IF p = "A" THEN EmpSenderQueue(s, r, n) ELSE EmpReceiverQueue(s, r, n)
    [] stk.mid = "rot" -> IF p = "A" THEN RotSenderQueue(s, r, n) ELSE RotReceiverQueue(s, r, n)
    [] Ferrety -> IF p = "A" THEN FerretSenderQueue(Conf, s, r, n) ELSE FerretReceiverQueue(Conf, s, r, n)
    [] OTHER -> IF p = "A" THEN RcotSenderQueue(s, r, n) ELSE RcotReceiverQueue(s, r, n)

Try(p, s, r, n) ==
  CASE stk.mid = "rot" -> IF p = "A" THEN RotSenderTry(s, r, n) ELSE RotReceiverTry(s, r, n)
    [] OTHER -> IF p = "A" THEN RcotTry(stk.mid, s, r, n) ELSE RcotTryRecv(stk.mid, s, r, n)

\* The chosen OT's sender is B, on the stack of its own as below KOS.
BaseQueue(p, s, r, n) ==
  CASE p = "A" /\ stk.base = "co" -> CoQueueRecv(s, r, ChoiceBits(r, n))
    [] p = "A" -> OtQueueRecv(s, r, ChoiceBits(r, n))
    [] p = "B" /\ stk.base = "co" -> CoQueueSend(s, r, OtMsgs(r, n))
    [] OTHER -> OtQueueSend(s, r, OtMsgs(r, n))

CotQueue(p, s, r, n) ==
  CASE p = "A" /\ stk.mid = "none" -> CotQueueSend(s, r, CotKeys(r, n))
    [] p = "A" -> DerandQueueSend(s, r, CotKeys(r, n))
    [] p = "B" /\ stk.mid = "none" -> CotQueueRecv(s, r, ChoiceBits(r, n))
    [] OTHER -> DerandQueueRecv(s, r, ChoiceBits(r, n))

\* set_choices: the receiver of the ideal ROT fixes the bits of its next flush.
ForceChoices(p, s, n) ==
  IF p = "A" THEN s ELSE [s EXCEPT !.forced = [k \in 1..n |-> TRUE]]

Called(p, P, c, r) ==
  CASE c.op = "alloc" -> [P EXCEPT !.mid = Alloc(p, @, c.n)]
    [] c.op = "force" -> [P EXCEPT !.mid = ForceChoices(p, Alloc(p, @, c.n), c.n)]
    [] c.op = "try"   -> [P EXCEPT !.mid = Try(p, @, r, c.n)]
    [] c.op = "queue" /\ stk.top = "ot"  -> [P EXCEPT !.base = BaseQueue(p, @, r, c.n)]
    [] c.op = "queue" /\ stk.top = "cot" -> [P EXCEPT !.cot = CotQueue(p, @, r, c.n)]
    [] OTHER -> [P EXCEPT !.mid = Queue(p, @, r, c.n)]

------------------------------- \* Flush of party A

Fails(P) == [P EXCEPT !.pc = "error", !.sent = <<>>]
Emit(P, m) == [P EXCEPT !.sent = Append(@, m)]

\* The party fails with its component s, or goes on.
GoOn(P, s, Then(_)) == IF s.phase = "error" THEN Fails(P) ELSE Then(s)
Accept(P, s, Then(_)) == IF s.bad THEN Fails(P) ELSE Then(s)

\* cointoss_sender and cointoss_receiver, up to their first await; A is the
\* toss receiver.  The coins are the output of the call.
TossSeeds(who, r, n) == [k \in 1..n |-> Term(<<who, r, k, 0>>)]
TossStartA(P, r, n) == [P EXCEPT !.pc = "ct_commit", !.adj = [req |-> r, toss |-> TossSeeds("tossA", r, n)]]
TossStartB(P, r, n) ==
  LET t == TossSend(TossSeeds("tossB", r, n), r)
  IN  Emit([P EXCEPT !.pc = "ct_share", !.adj = [req |-> r, toss |-> t]], Commit(t.opening))
Tossed(P, coins) ==
  [P EXCEPT !.pc = "idle", !.adj = <<>>,
            !.cot.done = Append(@, [req |-> P.adj.req, id |-> 0, data |-> coins])]

\* DerandCOTSender::flush after the RCOTs are there.
AfterMidA(P) == [P EXCEPT !.pc = IF stk.top = "cot" /\ DerandSenderWantsAdjust(P.cot) THEN "adjust" ELSE "idle"]

\* The loop of Sender::flush, up to the seed of the check.
KosExtendA(P) ==
  IF P.mid.phase = "error" THEN Fails(P)
  ELSE IF KosSenderWantsExtend(P.mid) THEN [P EXCEPT !.pc = "extend"]
  ELSE Emit([P EXCEPT !.pc = "check", !.mid = KosCheckStart(@)], "chi")

\* ... after the base OT, or at once when it has run.
KosFlushA(P) ==
  IF ~ KosSenderWantsExtend(P.mid) THEN AfterMidA(P) ELSE KosExtendA(P)

AfterBaseA(P) ==
  IF stk.top = "ot" THEN [P EXCEPT !.pc = "idle"]
  ELSE KosFlushA([P EXCEPT !.mid = KosSenderSetup(@, Last(P.base.done).data)])

\* Receiver::flush of the base OT, to its first await.
CoFlushA(P) ==
  CASE P.base.phase = "initialized" -> [P EXCEPT !.pc = "co_setup"]
    [] ~ CoWantsFlush(P.base) -> AfterBaseA(P)
    [] OTHER -> Emit([P EXCEPT !.pc = "co_payload", !.base = CoChoose(@)], CoChoosePayload(P.base))

\* IdealOTReceiver::flush waits if it wants one.
IdealOtFlushA(P) == IF OtReceiverWantsFlush(P.base) THEN [P EXCEPT !.pc = "ot_msg"] ELSE AfterBaseA(P)

BaseFlushA(P) == IF stk.base = "co" THEN CoFlushA(P) ELSE IdealOtFlushA(P)

\* Flush of the ideal ROT and RCOT senders, and of emp's.
RotFlushA(P) ==
  AfterMidA(IF RotSenderWantsFlush(P.mid)
            THEN Emit([P EXCEPT !.mid = RotSenderFlush(@)], RotFlushMsg(P.mid)) ELSE P)
RcotFlushA(P) ==
  AfterMidA(IF P.mid.pending > 0
            THEN Emit([P EXCEPT !.mid = RcotSenderFlush(@)], RcotFlushMsg(P.mid))
            ELSE [P EXCEPT !.mid = RcotSenderFlush(@)])
EmpFlushA(P) == AfterMidA([P EXCEPT !.mid = EmpSenderFlush(@)])

\* Kos::Sender::flush: its base OT first, with the bits of delta as choices.
KosStartA(P) ==
  IF P.mid.phase # "initialized" THEN KosFlushA(P)
  ELSE BaseFlushA([P EXCEPT !.base =
         IF stk.base = "co" THEN CoQueueRecv(@, 0, DeltaBits) ELSE OtQueueRecv(@, 0, DeltaBits)])

\* Ferret's Sender::flush: the bootstrap below if the buffer is short, then
\* extensions until what is allocated is available.
FerretLoopA(P) ==
  LET Begun(s) == [P EXCEPT !.pc = "f_extend", !.mid = s,
                            !.base = FerretInnerAfter(Conf, FerretSenderBases(Conf, P.mid), @)]
  IN  IF ~ FerretWantsExtend(Conf, P.mid) THEN AfterMidA(P)
      ELSE GoOn(P, FerretSenderStart(Conf, P.mid, P.base), Begun)
FerretFlushA(P) ==
  LET Booted(inner) == Emit(FerretLoopA([P EXCEPT !.base = RcotSenderFlush(inner)]), RcotFlushMsg(inner))
  IN  IF ~ FerretWantsBootstrap(Conf, P.mid) THEN FerretLoopA(P)
      ELSE Booted(FerretSenderBootstrap(Conf, P.mid, P.base))

MidFlushA(P) ==
  CASE Kosy -> KosStartA(P)
    [] Ferrety -> FerretFlushA(P)
    [] stk.mid = "emp" -> EmpFlushA(P)
    [] stk.mid = "rot" -> RotFlushA(P)
    [] OTHER -> RcotFlushA(P)

MidWantsFlushA(P) ==
  CASE Kosy -> P.mid.phase = "initialized" \/ KosSenderWantsExtend(P.mid)
    [] Ferrety -> FerretWantsExtend(Conf, P.mid)
    [] OTHER -> RcotSenderWantsFlush(P.mid)

IdealCotFlushA(P) ==
  IF CotSenderWantsFlush(P.cot) THEN Emit([P EXCEPT !.cot = CotSenderFlush(@)], CotFlushMsg(P.cot)) ELSE P

\* DerandCOTSender::flush: the RCOTs below first.
DerandFlushA(P) == IF MidWantsFlushA(P) THEN MidFlushA(P) ELSE AfterMidA(P)

FlushA(P) ==
  CASE stk.top = "ot" -> BaseFlushA(P)
    [] stk.top = "cot" -> IF stk.mid = "none" THEN IdealCotFlushA(P) ELSE DerandFlushA(P)
    [] OTHER -> MidFlushA(P)

ReceiveA(P, m) ==
  CASE P.pc = "co_setup"   -> CoFlushA([P EXCEPT !.base = CoReceiverSetup(@)])
    [] P.pc = "co_payload" -> GoOn(P, CoReceive(P.base, m), LAMBDA b : AfterBaseA([P EXCEPT !.base = b]))
    [] P.pc = "ot_msg"     -> Accept(P, OtReceiverFlush(P.base, m), LAMBDA b : AfterBaseA([P EXCEPT !.base = b]))
    [] P.pc = "extend"     -> KosExtendA([P EXCEPT !.mid = KosSenderExtend(@, m)])
    [] P.pc = "check"      -> GoOn(P, KosSenderCheck(P.mid, m), LAMBDA s : AfterMidA([P EXCEPT !.mid = s]))
    [] P.pc = "f_extend"   -> GoOn(P, FerretSenderExtend(Conf, P.mid, m),
                                   LAMBDA s : Emit([P EXCEPT !.pc = "f_check", !.mid = s],
                                                   FerretSenderExtendMsg(Conf, P.mid, m)))
    [] P.pc = "f_check"    -> GoOn(P, FerretSenderCheck(Conf, P.mid, m),
                                   LAMBDA s : FerretLoopA(Emit([P EXCEPT !.mid = FerretSenderFinish(Conf, s)],
                                                               FerretSenderCheckMsg(P.mid, m))))
    [] P.pc = "ct_commit"  -> Emit([P EXCEPT !.pc = "ct_open", !.adj.toss = TossReveal(@, m)], P.adj.toss)
    [] P.pc = "ct_open"    -> IF ~ TossOpens(P.adj.toss, m) THEN Fails(P)
                              ELSE Tossed(P, TossFinal(P.adj.toss, m))
    [] P.pc = "adjust"     -> Accept(P, DerandSenderAdjust(stk.mid, P.cot, P.mid, m),
                                     LAMBDA a : Emit([P EXCEPT !.pc = "idle", !.mid = a.rcot,
                                                        !.cot = [adjust |-> <<>>, queue |-> <<>>, done |-> a.done]],
                                                     a.adjust))

------------------------------- \* Flush of party B

\* DerandCOTReceiver::flush after the RCOTs are there: the masked choices
\* go out, the RCOTs that mask them are kept across the await.
AfterMidB(P) ==
  IF stk.top = "cot" /\ DerandReceiverWantsAdjust(P.cot)
  THEN LET Masked(a) ==
             Emit([P EXCEPT !.pc = "adjust", !.mid = a.rcot, !.cot.derand = <<>>, !.adj = a.cots], a.flip)
       IN  Masked(DerandReceiverAdjust(stk.mid, P.cot, P.mid))
  ELSE [P EXCEPT !.pc = "idle"]

\* The loop of Receiver::flush: every extension is sent before the await.
KosExtendB(P) ==
  LET Extend(Q, k) == IF KosReceiverWantsExtend(Q.mid)
                      THEN Emit([Q EXCEPT !.mid = KosReceiverExtend(@)], KosExtendMsg(Q.mid))
                      ELSE Q
  IN  [FoldLeft(Extend, P, [k \in 1..P.mid.alloc |-> k]) EXCEPT !.pc = "chi"]

KosFlushB(P) == IF ~ KosReceiverWantsExtend(P.mid) THEN AfterMidB(P) ELSE KosExtendB(P)

AfterBaseB(P) == IF stk.top = "ot" THEN [P EXCEPT !.pc = "idle"] ELSE KosFlushB(P)

\* Sender::flush of the base OT: publishes its key, waits for the choices.
CoFlushB(P) ==
  LET Await(Q) == IF CoWantsRecv(Q.base) THEN [Q EXCEPT !.pc = "co_choose"] ELSE AfterBaseB(Q)
  IN  Await(IF P.base.phase # "initialized" THEN P
            ELSE Emit([P EXCEPT !.base = CoSenderSetup(@)], "co_key"))

IdealOtFlushB(P) ==
  AfterBaseB(IF OtSenderWantsFlush(P.base)
             THEN Emit([P EXCEPT !.base = OtSenderFlush(@)], OtFlushMsg(P.base)) ELSE P)

BaseFlushB(P) == IF stk.base = "co" THEN CoFlushB(P) ELSE IdealOtFlushB(P)

RotFlushB(P)  == IF RotReceiverWantsFlush(P.mid) THEN [P EXCEPT !.pc = "rot_msg"] ELSE AfterMidB(P)
RcotFlushB(P) == IF RcotReceiverWantsFlush(P.mid) THEN [P EXCEPT !.pc = "rcot_msg"] ELSE AfterMidB(P)
EmpFlushB(P)  == AfterMidB([P EXCEPT !.mid = EmpReceiverFlush(@)])
IdealCotFlushB(P) == IF CotReceiverWantsFlush(P.cot) THEN [P EXCEPT !.pc = "cot_msg"] ELSE P

\* Kos::Receiver::flush: the seeds go through the base OT first.
KosStartB(P) ==
  IF P.mid.phase # "initialized" THEN KosFlushB(P)
  ELSE BaseFlushB([P EXCEPT !.mid  = KosReceiverSetup(@, Seeds),
                            !.base = IF stk.base = "co" THEN CoQueueSend(@, 0, Seeds)
                                                        ELSE OtQueueSend(@, 0, Seeds)])

\* Ferret's Receiver::flush.
FerretLoopB(P) ==
  LET Begun(s) ==
        Emit([P EXCEPT !.pc = "f_extend", !.mid = s,
                       !.base = FerretReceiverInnerAfter(Conf, FerretReceiverBases(Conf, P.mid), @)],
             FerretStartMsg(s))
  IN  IF ~ FerretWantsExtend(Conf, P.mid) THEN AfterMidB(P)
      ELSE GoOn(P, FerretReceiverStart(Conf, P.mid, P.base), Begun)
FerretFlushB(P) ==
  IF FerretWantsBootstrap(Conf, P.mid)
  THEN [P EXCEPT !.pc = "f_boot", !.base = FerretReceiverBootstrap(Conf, P.mid, @)]
  ELSE FerretLoopB(P)

MidFlushB(P) ==
  CASE Kosy -> KosStartB(P)
    [] Ferrety -> FerretFlushB(P)
    [] stk.mid = "emp" -> EmpFlushB(P)
    [] stk.mid = "rot" -> RotFlushB(P)
    [] OTHER -> RcotFlushB(P)

MidWantsFlushB(P) ==
  CASE Kosy -> P.mid.phase = "initialized" \/ KosReceiverWantsExtend(P.mid)
    [] Ferrety -> FerretWantsExtend(Conf, P.mid)
    [] OTHER -> RcotReceiverWantsFlush(P.mid)

DerandFlushB(P) == IF MidWantsFlushB(P) THEN MidFlushB(P) ELSE AfterMidB(P)

FlushB(P) ==
  CASE stk.top = "ot" -> BaseFlushB(P)
    [] stk.top = "cot" -> IF stk.mid = "none" THEN IdealCotFlushB(P) ELSE DerandFlushB(P)
    [] OTHER -> MidFlushB(P)

ReceiveB(P, m) ==
  CASE P.pc = "co_choose" ->
         GoOn(P, CoSend(P.base, m), LAMBDA b : AfterBaseB(Emit([P EXCEPT !.base = b], CoSendPayload(P.base, m))))
    [] P.pc = "chi" ->
         GoOn(P, KosReceiverCheck(P.mid), LAMBDA s : AfterMidB(Emit([P EXCEPT !.mid = s], KosCheckMsg(P.mid))))
    [] P.pc = "rcot_msg" -> Accept(P, RcotReceiverFlush(P.mid, m), LAMBDA s : AfterMidB([P EXCEPT !.mid = s]))
    [] P.pc = "rot_msg"  -> Accept(P, RotReceiverFlush(P.mid, m), LAMBDA s : AfterMidB([P EXCEPT !.mid = s]))
    [] P.pc = "cot_msg"  -> Accept(P, CotReceiverFlush(P.cot, m), LAMBDA s : [P EXCEPT !.cot = s, !.pc = "idle"])
    [] P.pc = "f_boot"   -> Accept(P, RcotReceiverFlush(P.base, m), LAMBDA b : FerretLoopB([P EXCEPT !.base = b]))
    [] P.pc = "f_extend" -> GoOn(P, FerretReceiverExtend(Conf, P.mid, m),
                                 LAMBDA s : Emit([P EXCEPT !.pc = "f_finish", !.mid = s], FerretCheckMsg(Conf, P.mid)))
    [] P.pc = "f_finish" -> GoOn(P, FerretReceiverFinish(Conf, P.mid, m), LAMBDA s : FerretLoopB([P EXCEPT !.mid = s]))
    [] P.pc = "ct_share" ->
         IF ~ TossReceives(P.adj.toss, m) THEN Fails(P)
         ELSE Emit(Tossed(P, TossCoins(P.adj.toss, m)), P.adj.toss.opening)
    [] P.pc = "adjust" ->
         IF Len(m) # FoldSeq(LAMBDA c, n : Len(c.msgs) + n, 0, P.adj) THEN Fails(P)
         ELSE [P EXCEPT !.cot = DerandReceive(@, P.adj, m), !.adj = <<>>, !.pc = "idle"]

------------------------------- \* The two parties

\* What p may still ask for: allocated, and neither handed out nor promised.
\* Ferret extends to what is allocated, not by it: allocations do not add to
\* what is available.
Budget(p) ==
  LET m == party[p].mid
      have == IF Ferrety THEN FerretAvailable(Conf, m) ELSE 0
      free == CASE Kosy -> IF m.extended THEN Len(m.pool) ELSE m.alloc - Ssp
                [] Ferrety /\ AllocAdds -> have + m.alloc
                [] Ferrety -> IF m.alloc > have THEN m.alloc ELSE have
                [] OTHER -> m.pending + Len(m.pool)
  IN  free - Sum(m.queue) - (IF stk.top = "cot" THEN Sum(party[p].cot.queue) ELSE 0)

Op(o, n) == [op |-> o, n |-> n]
Ops == {Op(o, n) : o \in {"alloc", "force", "try", "queue"}, n \in 1..MaxCount}
Tosses == {Op("toss", n) : n \in 1..MaxCount}

\* Calls that follow the interface: enough is allocated, forced choices have
\* the length of the flush they are for.
Legal(p, c) ==
  /\ pos[p] > 1 => script[pos[p] - 1].op # "force"
  /\ CASE c.op = "alloc" -> stk.mid # "none"
       [] c.op = "force" -> stk.mid = "rot" /\ party[p].mid.pending = 0
       [] c.op = "try"   -> stk.top = "mid" /\ c.n <= IF Ferrety THEN FerretAvailable(Conf, party[p].mid) ELSE Budget(p)
       [] OTHER -> stk.top # "coin" /\ (stk.mid # "none" => c.n <= Budget(p))

\* P is what party p becomes; what it sends goes out or fails.
Becomes(p, P) ==
  party' = [party EXCEPT ![p] = IF P.sent # <<>> /\ ~ up THEN Fails(P) ELSE [P EXCEPT !.sent = <<>>]]

Call(p) ==
  /\ party[p].pc = "idle"
  /\ \E c \in Ops : /\ Legal(p, c)
                     /\ Calls(p, c)
                     /\ party' = [party EXCEPT ![p] = Called(p, @, c, pos[p])]
  /\ UNCHANGED <<chan, up, stk, honest>>

Flush(p) ==
  /\ stk.top # "coin" /\ party[p].pc = "idle"
  /\ Calls(p, Op("flush", 0))
  /\ \E P \in {IF p = "A" THEN FlushA(party[p]) ELSE FlushB(party[p])} : Becomes(p, P) /\ Sends(p, P.sent)
  /\ UNCHANGED <<up, stk, honest>>

Toss(p) ==
  /\ stk.top = "coin" /\ party[p].pc = "idle"
  /\ \E c \in Tosses :
       /\ Calls(p, c)
       /\ \E P \in {IF p = "A" THEN TossStartA(party[p], pos[p], c.n) ELSE TossStartB(party[p], pos[p], c.n)} :
            Becomes(p, P) /\ Sends(p, P.sent)
  /\ UNCHANGED <<up, stk, honest>>

Waits(p) == party[p].pc \notin {"idle", "error"}

Receive(p) ==
  /\ Waits(p) /\ chan[p] # <<>>
  /\ \E P \in {IF p = "A" THEN ReceiveA(party[p], Head(chan[p])) ELSE ReceiveB(party[p], Head(chan[p]))} :
       Becomes(p, P) /\ Exchanges(p, P.sent)
  /\ UNCHANGED <<script, pos, up, stk, honest>>

\* The link is down and there is nothing left to receive.
ReceiveFails(p) ==
  /\ Waits(p) /\ chan[p] = <<>> /\ ~ up
  /\ party' = [party EXCEPT ![p] = Fails(@)]
  /\ UNCHANGED <<linkVars, stk, honest>>

LinkFails == LinkDown /\ UNCHANGED <<stk, party, honest>>

\* A receiver that deviates: row i of a column of its extension is wrong.
Deviate ==
  /\ Faults /\ honest /\ party["A"].pc = "extend" /\ chan["A"] # <<>>
  /\ \E i \in Rows : chan' = [chan EXCEPT !["A"][1][1][i] = Plus(@, {One})]
  /\ honest' = FALSE
  /\ UNCHANGED <<script, pos, up, stk, party>>

\* A party that deviates in Ferret or in the coin toss: a wrong choice bit, a
\* wrong correction, an opening of something else.
DeviateFerret ==
  /\ Faults /\ honest
  /\ \/ party["A"].pc = "f_extend" /\ chan["A"] # <<>> /\ chan' = [chan EXCEPT !["A"][1].flip[1] = ~ @]
     \/ party["B"].pc = "f_extend" /\ chan["B"] # <<>>
          /\ \E j \in DOMAIN chan["B"][1].cs : chan' = [chan EXCEPT !["B"][1].cs[j][2] = Plus(@, {One})]
     \/ party["A"].pc = "f_check" /\ chan["A"] # <<>>
          /\ chan' = [chan EXCEPT !["A"][1].opening.data = <<ZeroBlock>>]
     \/ party["A"].pc = "ct_open" /\ chan["A"] # <<>>
          /\ chan' = [chan EXCEPT !["A"][1].data[1] = ZeroBlock]
  /\ honest' = FALSE
  /\ UNCHANGED <<script, pos, up, stk, party>>

Over(p) == party[p].pc = "error" \/ (party[p].pc = "idle" /\ ProgramOver(p))
Terminating == (\A p \in Party : Over(p)) /\ UNCHANGED vars

Next == \/ \E p \in Party : Call(p) \/ Flush(p) \/ Toss(p) \/ Receive(p) \/ ReceiveFails(p)
        \/ LinkFails \/ Deviate \/ DeviateFerret \/ Terminating

Spec == Init /\ [][Next]_vars

------------------------------- \* Properties

\* What the application of party p has been given.
Mapped(p, out) ==
  FoldLeft(LAMBDA o, f : CASE f = "rand" -> IF p = "A" THEN RandomizeSender(o) ELSE RandomizeReceiver(o)
                           [] f = "any"  -> IF p = "A" THEN AnySender(o) ELSE AnyReceiver(o),
           out, stk.maps)
Outputs(p) ==
  CASE stk.top = "ot"  -> party[p].base.done
    [] stk.top \in {"cot", "coin"} -> party[p].cot.done
    [] OTHER -> [k \in 1..Len(party[p].mid.done) |-> Mapped(p, party[p].mid.done[k])]

\* What the two halves of an output must satisfy.
Related(a, b, n) ==
  CASE stk.top = "ot"  -> b.data = [k \in 1..n |-> OtMsgs(a.req, n)[k][IF ChoiceBits(a.req, n)[k] THEN 2 ELSE 1]]
    [] stk.top = "cot" -> b.data = [k \in 1..n |-> BXor(CotKeys(a.req, n)[k],
                                                      MaskBit(ChoiceBits(a.req, n)[k], DeltaBlock))]
    [] stk.top = "coin" -> a.data = b.data
    [] stk.maps = <<>> /\ stk.mid # "rot" ->
         \A k \in 1..n : b.data[k].m = BXor(a.data[k], MaskBit(b.data[k].c, DeltaBlock))
    [] OTHER -> \A k \in 1..n : b.data[k].m = a.data[k][IF b.data[k].c THEN 2 ELSE 1]

\* The two halves of every request agree: same transfer id, same length, and
\* the correlation of the functionality - for requests served at once, from
\* the queue, or across several extensions, whichever party is ahead, also
\* when the receiver deviated or the link failed in between.
Correlated ==
  LET to == IF stk.top = "ot" THEN "A" ELSE "B"
      Agree(a, b) == a.req = b.req => /\ a.id = b.id
                                      /\ Len(b.data) = script[b.req].n
                                      /\ Related(a, b, script[b.req].n)
      sent == Outputs(Other(to))
      received == Outputs(to)
  IN  \A i \in DOMAIN sent, j \in DOMAIN received : Agree(sent[i], received[j])

\* No correlation is used twice: what the application or the
\* derandomization was given, what waits in the buffer, and what Ferret holds
\* back for its next round are all different - for every serving order, and
\* across extensions.  A key that masks two messages would reveal their sum.
NoReuse ==
  \A p \in Party :
    LET m == party[p].mid
        blocks(q) == IF p = "B" THEN [k \in DOMAIN q |-> q[k].m] ELSE q
        given == FoldLeft(LAMBDA acc, d : acc \o blocks(d.data), <<>>, m.done)
        held  == IF Ferrety THEN m.pool \o m.next ELSE blocks(m.pool)
    IN  Cardinality(ToSet(given) \cup ToSet(held)) = Len(given) + Len(held)

\* Two honest parties that make the same legal calls over a link that works
\* never see an error.
NoFault == up /\ honest => \A p \in Party : party[p].pc # "error"

\* When a flush has returned, every request queued before it is answered, and
\* a request that succeeded was answered exactly once.
Answered ==
  \A p \in Party :
    LET outs == Outputs(p)
        reqs == {outs[k].req : k \in DOMAIN outs}
    IN  /\ Cardinality(reqs) = Len(outs)
        /\ party[p].pc = "idle" /\ pos[p] > 1 /\ script[pos[p] - 1].op = "flush" =>
             {r \in 1..pos[p] - 1 : script[r].op = "queue"} \subseteq reqs

\* A flush returns: while the link works, a party that waits for a message
\* has a peer that can still move - one with a message of its own to handle,
\* or one whose program has not come to this flush yet.
NoStall ==
  \A p \in Party : LET o == Other(p)
                    IN  up /\ honest /\ Waits(p) /\ chan[p] = <<>> =>
                          \/ Waits(o) /\ chan[o] # <<>>
                          \/ party[o].pc = "idle" /\ pos[o] < pos[p]

=============================================================================
