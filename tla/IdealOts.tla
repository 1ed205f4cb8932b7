------------------------------ MODULE IdealOts ------------------------------
(***************************************************************************)
(* The ideal functionalities of ot-core/src/ideal (chosen OT, correlated   *)
(* OT, random correlated OT, random OT, and emp-ot's seeded random         *)
(* correlated OT), each as a pair of endpoints that exchange one message   *)
(* per flush.  A handler takes the state of an endpoint to its next state; *)
(* a flush that fails sets `bad', a call that only returns an error leaves *)
(* the state as it is.  With them, the maps of their outputs: the random   *)
(* OTs that hash the correlation away (rot/randomize.rs) and expand each   *)
(* key to a value of another type (rot/any.rs).                            *)
(***************************************************************************)
EXTENDS OtBlocks

------------------------------- \* Chosen OT and correlated OT: batches

BatchInit == [batches |-> <<>>, tid |-> 0, done |-> <<>>, bad |-> FALSE]

\* queue_send_ot / queue_recv_ot: v is the message pairs or the choices.
OtQueueSend(s, r, msgs)    == [s EXCEPT !.batches = Append(@, [req |-> r, v |-> msgs])]
OtQueueRecv(s, r, choices) == [s EXCEPT !.batches = Append(@, [req |-> r, v |-> choices])]

OtSenderWantsFlush(s)   == s.batches # <<>>
OtReceiverWantsFlush(s) == s.batches # <<>>

\* IdealOTSender::flush: every batch goes into the message, its future gets
\* an id.
OtSenderFlush(s) ==
  [s EXCEPT !.batches = <<>>, !.tid = @ + Len(s.batches),
            !.done = @ \o [k \in 1..Len(s.batches) |->
                             [req |-> s.batches[k].req, id |-> s.tid + k - 1, data |-> <<>>]]]
OtFlushMsg(s) == [k \in 1..Len(s.batches) |-> s.batches[k].v]

\* IdealOTReceiver::flush: message k of a batch is the one its choice names.
OtReceiverFlush(s, msg) ==
  IF Len(msg) # Len(s.batches) \/ \E k \in 1..Len(msg) : Len(msg[k]) # Len(s.batches[k].v)
  THEN [s EXCEPT !.bad = TRUE]
  ELSE [s EXCEPT !.batches = <<>>, !.tid = @ + Len(msg),
                 !.done = @ \o [k \in 1..Len(msg) |->
                   [req |-> s.batches[k].req, id |-> s.tid + k - 1,
                    data |-> [i \in 1..Len(msg[k]) |->
                      IF s.batches[k].v[i] THEN msg[k][i][2] ELSE msg[k][i][1]]]]]

CotQueueSend(s, r, keys)    == [s EXCEPT !.batches = Append(@, [req |-> r, v |-> keys])]
CotQueueRecv(s, r, choices) == [s EXCEPT !.batches = Append(@, [req |-> r, v |-> choices])]

CotSenderWantsFlush(s)   == s.batches # <<>>
CotReceiverWantsFlush(s) == s.batches # <<>>

CotSenderFlush(s) ==
  [s EXCEPT !.batches = <<>>, !.tid = @ + Len(s.batches),
            !.done = @ \o [k \in 1..Len(s.batches) |->
                             [req |-> s.batches[k].req, id |-> s.tid + k - 1, data |-> <<>>]]]
CotFlushMsg(s) == [delta |-> DeltaBlock, batches |-> [k \in 1..Len(s.batches) |-> s.batches[k].v]]

\* IdealCOTReceiver::flush: key, or key ^ delta where the choice is set.
CotReceiverFlush(s, msg) ==
  LET b == msg.batches
  IN  IF Len(b) # Len(s.batches) \/ \E k \in 1..Len(b) : Len(b[k]) # Len(s.batches[k].v)
      THEN [s EXCEPT !.bad = TRUE]
      ELSE [s EXCEPT !.batches = <<>>, !.tid = @ + Len(b),
                     !.done = @ \o [k \in 1..Len(b) |->
                       [req |-> s.batches[k].req, id |-> s.tid + k - 1,
                        data |-> [i \in 1..Len(b[k]) |->
                          BXor(b[k][i], MaskBit(s.batches[k].v[i], msg.delta))]]]]

------------------------------- \* Random correlated OT

RcotSenderInit   == EmptyPool @@ [offset |-> 0, pending |-> 0, bad |-> FALSE]
RcotReceiverInit == EmptyPool @@ [drawn |-> 0, pending |-> 0, bad |-> FALSE]

RcotKeyAt(j) == Term(<<"rcot", j, 0, 0>>)

RcotSenderAlloc(s, n)   == [s EXCEPT !.pending = @ + n]
RcotReceiverAlloc(s, n) == [s EXCEPT !.pending = @ + n]

RcotAlwaysWantsFlush(s) == s.pending > 0 \/ s.queue # <<>> \/ s.pool # <<>>  \* mutant: waits in vain
RcotSenderWantsFlush(s)   == s.pending > 0 \/ s.queue # <<>>
RcotReceiverWantsFlush(s) == s.pending > 0 \/ s.queue # <<>>

\* try_send_rcot / try_recv_rcot, from the back.
RcotSenderTry(s, r, n)   == IF n > Len(s.pool) THEN s ELSE TakeBack(s, r, n)
RcotReceiverTry(s, r, n) == IF n > Len(s.pool) THEN s ELSE TakeBack(s, r, n)

\* queue_send_rcot / queue_recv_rcot: at once if the pool has enough.
RcotSenderQueue(s, r, n) ==
  IF Len(s.pool) >= n THEN TakeBack(s, r, n)
  ELSE [s EXCEPT !.queue = Append(@, [req |-> r, count |-> n])]
RcotReceiverQueue(s, r, n) ==
  IF Len(s.pool) >= n THEN TakeBack(s, r, n)
  ELSE [s EXCEPT !.queue = Append(@, [req |-> r, count |-> n])]

\* The queue served from the back, oldest request first; split_off panics
\* when the pool is too small.
ServeBack(s) ==
  IF ~ Covers(s) THEN [s EXCEPT !.bad = TRUE]
  ELSE [FoldLeft(LAMBDA acc, q : TakeBack(acc, q.req, q.count), s, s.queue) EXCEPT !.queue = <<>>]

\* IdealRCOTSender::flush, with and without new allocations.
RcotSenderFlush(s) ==
  ServeBack([s EXCEPT !.pool = @ \o [k \in 1..s.pending |-> RcotKeyAt(s.offset + k)],
                      !.offset = @ + s.pending, !.pending = 0])
RcotFlushMsg(s) == [offset |-> s.offset, count |-> s.pending, delta |-> DeltaBlock]

RcotReceiverFlush(s, msg) ==
  IF msg.count # s.pending THEN [s EXCEPT !.bad = TRUE]
  ELSE ServeBack([s EXCEPT
         !.pool = @ \o [k \in 1..msg.count |->
                    [c |-> RandomBit(s.drawn + k),
                     m |-> BXor(RcotKeyAt(msg.offset + k), MaskBit(RandomBit(s.drawn + k), msg.delta))]],
         !.drawn = @ + msg.count, !.pending = 0])

------------------------------- \* emp-ot's seeded RCOT: no message at all

EmpRcotInit == EmptyPool @@ [offset |-> 0, pending |-> 0, bad |-> FALSE]

EmpKeyAt(j)    == Term(<<"emp", j, 0, 0>>)
EmpChoiceAt(j) == RandomBit(j)

EmpSenderFlush(s) ==
  IF s.pending = 0 THEN s
  ELSE ServeBack([s EXCEPT !.pool = @ \o [k \in 1..s.pending |-> EmpKeyAt(s.offset + k)],
                           !.offset = @ + s.pending, !.pending = 0])
EmpReceiverFlushOnly(s) ==  \* mutant: the queue is not served
  [s EXCEPT !.pool = @ \o [k \in 1..s.pending |->
                    [c |-> EmpChoiceAt(s.offset + k),
                     m |-> BXor(EmpKeyAt(s.offset + k), MaskBit(EmpChoiceAt(s.offset + k), DeltaBlock))]],
            !.offset = @ + s.pending, !.pending = 0]
EmpReceiverFlush(s) ==
  IF s.pending = 0 THEN s
  ELSE ServeBack([s EXCEPT
         !.pool = @ \o [k \in 1..s.pending |->
                    [c |-> EmpChoiceAt(s.offset + k),
                     m |-> BXor(EmpKeyAt(s.offset + k), MaskBit(EmpChoiceAt(s.offset + k), DeltaBlock))]],
         !.offset = @ + s.pending, !.pending = 0])

EmpSenderQueue(s, r, n) ==
  IF Len(s.pool) >= n THEN TakeBack(s, r, n)
  ELSE [s EXCEPT !.queue = Append(@, [req |-> r, count |-> n])]
EmpReceiverQueue(s, r, n) ==
  IF Len(s.pool) >= n THEN TakeBack(s, r, n)
  ELSE [s EXCEPT !.queue = Append(@, [req |-> r, count |-> n])]

EmpSenderTry(s, r, n)   == IF n > Len(s.pool) THEN s ELSE TakeBack(s, r, n)
EmpReceiverTry(s, r, n) == IF n > Len(s.pool) THEN s ELSE TakeBack(s, r, n)

------------------------------- \* Random OT

RotSenderInit   == EmptyPool @@ [offset |-> 0, pending |-> 0, bad |-> FALSE]
RotReceiverInit == EmptyPool @@ [drawn |-> 0, pending |-> 0, bad |-> FALSE, forced |-> <<>>]

\* generate_keys: seed + 3 idx and seed + 3 idx + 1.
RotKeysAt(j) == << Term(<<"rot", 3 * j, 0, 0>>), Term(<<"rot", 3 * j + 1, 0, 0>>) >>

RotSenderAlloc(s, n)   == [s EXCEPT !.pending = @ + n]
RotReceiverAlloc(s, n) == [s EXCEPT !.pending = @ + n]
RotSenderWantsFlush(s)   == s.pending > 0 \/ s.queue # <<>>
RotReceiverWantsFlush(s) == s.pending > 0 \/ s.queue # <<>>

RotSenderTry(s, r, n)   == IF n > Len(s.pool) THEN s ELSE TakeFront(s, r, n)
RotReceiverTry(s, r, n) == IF n > Len(s.pool) THEN s ELSE TakeFront(s, r, n)

RotSenderQueue(s, r, n) ==
  IF Len(s.pool) >= n THEN TakeFront(s, r, n)
  ELSE [s EXCEPT !.queue = Append(@, [req |-> r, count |-> n])]
RotReceiverQueue(s, r, n) ==
  IF Len(s.pool) >= n THEN TakeFront(s, r, n)
  ELSE [s EXCEPT !.queue = Append(@, [req |-> r, count |-> n])]

\* The queue served from the front; drain panics when the pool is too small.
ServeFront(s) ==
  IF ~ Covers(s) THEN [s EXCEPT !.bad = TRUE]
  ELSE [FoldLeft(LAMBDA acc, q : TakeFront(acc, q.req, q.count), s, s.queue) EXCEPT !.queue = <<>>]

RotSenderFlush(s) ==
  ServeFront([s EXCEPT !.pool = @ \o [k \in 1..s.pending |-> RotKeysAt(s.offset + k)],
                       !.offset = @ + s.pending, !.pending = 0])
RotFlushMsg(s) == [offset |-> s.offset, count |-> s.pending]

\* IdealROTReceiver::flush: forced choices must have the flushed length, and
\* are used once.
RotReceiverFlushKeeps(s, msg) ==  \* mutant: forced choices stay
  LET choice(k) == IF s.forced = <<>> THEN RandomBit(s.drawn + k) ELSE s.forced[k]
      pair(k)   == RotKeysAt(msg.offset + k)
  IN  IF \/ msg.count # s.pending
         \/ msg.count > 0 /\ s.forced # <<>> /\ Len(s.forced) # msg.count
      THEN [s EXCEPT !.bad = TRUE]
      ELSE ServeFront([s EXCEPT
             !.pool = @ \o [k \in 1..msg.count |->
                        [c |-> choice(k), m |-> IF choice(k) THEN pair(k)[2] ELSE pair(k)[1]]],
             !.drawn = @ + msg.count, !.pending = 0])
RotReceiverFlush(s, msg) ==
  LET choice(k) == IF s.forced = <<>> THEN RandomBit(s.drawn + k) ELSE s.forced[k]
      pair(k)   == RotKeysAt(msg.offset + k)
  IN  IF \/ msg.count # s.pending
         \/ msg.count > 0 /\ s.forced # <<>> /\ Len(s.forced) # msg.count
      THEN [s EXCEPT !.bad = TRUE]
      ELSE ServeFront([s EXCEPT
             !.pool = @ \o [k \in 1..msg.count |->
                        [c |-> choice(k), m |-> IF choice(k) THEN pair(k)[2] ELSE pair(k)[1]]],
             !.drawn = IF s.forced = <<>> THEN @ + msg.count ELSE @,
             !.forced = IF msg.count > 0 THEN <<>> ELSE @,
             !.pending = 0])

------------------------------- \* Maps of the outputs

\* randomize_sender / randomize_receiver: the fixed-key cipher under the
\* tweak (transfer id, index).
Tccr(id, i, block) == <<"tccr", id, i, block>>
RandomizeSender(out) ==
  [out EXCEPT !.data = [i \in 1..Len(@) |->
     << Tccr(out.id, i, @[i]), Tccr(out.id, i, BXor(@[i], DeltaBlock)) >>]]
RandomizeReceiver(out) ==
  [out EXCEPT !.data = [i \in 1..Len(@) |-> [c |-> @[i].c, m |-> Tccr(out.id, i, @[i].m)]]]

\* map_sender / map_receiver: a value drawn from a generator seeded by a key.
Draw(key) == <<"draw", key>>
AnySender(out)   == [out EXCEPT !.data = [i \in 1..Len(@) |-> << Draw(@[i][1]), Draw(@[i][2]) >>]]
AnyReceiver(out) == [out EXCEPT !.data = [i \in 1..Len(@) |-> [c |-> @[i].c, m |-> Draw(@[i].m)]]]

=============================================================================
