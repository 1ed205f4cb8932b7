--------------------------------- MODULE Kos ---------------------------------
(***************************************************************************)
(* The KOS15 random correlated OT extension (ot-core/src/kos).  The        *)
(* receiver expands Csp pairs of seeds and its choices into rows; the      *)
(* sender, who got one seed of each pair by base OT, expands that one.     *)
(* Columns are correlations, the last Ssp of them pay for the consistency  *)
(* check.  The check's random linear combinations agree, except with       *)
(* negligible probability, exactly when every column agrees: the check     *)
(* message stands for the receiver's columns.                              *)
(***************************************************************************)
EXTENDS OtBlocks

-----------------------------------------------------------------------------
(***************************************************************************)
(* The Chou-Orlandi oblivious transfer (ot-core/src/chou_orlandi and       *)
(* ot/src/chou_orlandi).  The sender's key pair is (a, A = g^a); a blinded *)
(* choice is B = g^b or A g^b for a fresh b.  A group element A^(b + k a)  *)
(* hashed with a tweak is the term <<b, k, tweak>>.                        *)
(***************************************************************************)
CoSenderInit   == [phase |-> "initialized", queue |-> <<>>, msgs |-> <<>>,
                   tid |-> 0, counter |-> 0, done |-> <<>>]
CoReceiverInit == [phase |-> "initialized", queue |-> <<>>, choices |-> <<>>, keys |-> <<>>,
                   tid |-> 0, counter |-> 0, nonce |-> 0, done |-> <<>>]

\* hash_point
HashPoint(b, k, tweak) == Term(<<"dh", b, k, tweak>>)

CoQueueSend(s, r, msgs) ==
  [s EXCEPT !.msgs = @ \o msgs, !.queue = Append(@, [req |-> r])]
CoQueueRecv(s, r, choices) ==
  [s EXCEPT !.choices = @ \o choices, !.queue = Append(@, [req |-> r, count |-> Len(choices)])]

\* Sender::setup publishes A; Receiver::setup stores it.
CoSenderSetup(s)   == [s EXCEPT !.phase = "setup"]
CoReceiverSetup(s) == [s EXCEPT !.phase = "setup"]

CoWantsRecv(s)  == s.queue # <<>>
CoWantsFlush(s) == s.choices # <<>>

\* compute_decryption_keys: A^b for a fresh b, under the next tweak.
DecryptionKey(s, i) == [c |-> s.choices[i], key |-> HashPoint(s.nonce + i, 0, s.counter + i)]
BlindedChoice(s, i) == [b |-> s.nonce + i, c |-> s.choices[i]]

\* Receiver::choose
CoChoose(s) ==
  [s EXCEPT !.choices = <<>>,
            !.keys    = @ \o [i \in 1..Len(s.choices) |-> DecryptionKey(s, i)],
            !.counter = @ + Len(s.choices),
            !.nonce   = @ + Len(s.choices)]
CoChoosePayload(s) == [i \in 1..Len(s.choices) |-> BlindedChoice(s, i)]

\* compute_encryption_keys: B^a and (B/A)^a.
EncryptionKeys(s, payload, i) ==
  LET e == IF payload[i].c THEN 1 ELSE 0
  IN  << HashPoint(payload[i].b, e, s.counter + i), HashPoint(payload[i].b, e - 1, s.counter + i) >>

\* Sender::send
CoSend(s, payload) ==
  IF Len(s.msgs) # Len(payload) THEN [s EXCEPT !.phase = "error", !.msgs = <<>>]
  ELSE [s EXCEPT !.msgs    = <<>>,
                 !.counter = @ + Len(s.msgs),
                 !.queue   = <<>>,
                 !.tid     = @ + Len(s.queue),
                 !.done    = @ \o [k \in 1..Len(s.queue) |->
                               [req |-> s.queue[k].req, id |-> s.tid + k - 1, data |-> <<>>]]]
CoSendPayload(s, payload) ==
  [i \in 1..Len(payload) |->
     << BXor(s.msgs[i][1], EncryptionKeys(s, payload, i)[1]),
        BXor(s.msgs[i][2], EncryptionKeys(s, payload, i)[2]) >>]

\* Receiver::receive: the queued requests take their messages in turn.
CoReceive(s, payload) ==
  LET msg(i)   == BXor(s.keys[i].key, payload[i][IF s.keys[i].c THEN 2 ELSE 1])
      start(k) == Sum(SubSeq(s.queue, 1, k - 1))
  IN  IF Len(payload) # Len(s.keys) THEN [s EXCEPT !.phase = "error"]
      ELSE [s EXCEPT !.keys  = <<>>,
                     !.queue = <<>>,
                     !.tid   = @ + Len(s.queue),
                     !.done  = @ \o [k \in 1..Len(s.queue) |->
                       [req |-> s.queue[k].req, id |-> s.tid + k - 1,
                        data |-> [i \in 1..s.queue[k].count |-> msg(start(k) + i)]]]]

-----------------------------------------------------------------------------
CONSTANTS
  Ssp,        \* sacrificed columns (SSP = 128 in the code)
  BatchSize   \* columns of one extension (config batch_size)

ASSUME KosAssumption == Ssp \in Nat \ {0} /\ BatchSize \in Nat \ {0}

KosSenderInit   == EmptyPool @@ [phase |-> "initialized", alloc |-> Ssp, extended |-> FALSE,
                                 seeds |-> <<>>, stream |-> 0, unchecked |-> <<>>, chi |-> FALSE]
KosReceiverInit == EmptyPool @@ [phase |-> "initialized", alloc |-> Ssp, extended |-> FALSE,
                                 seeds |-> <<>>, stream |-> 0, unchecked |-> <<>>]

\* Sender::setup with the seeds of the base OT, Receiver::setup with all.
KosSenderSetup(s, seeds)   == [s EXCEPT !.phase = "extension", !.seeds = seeds]
KosReceiverSetup(s, seeds) == [s EXCEPT !.phase = "extension", !.seeds = seeds]

\* The receiver's seeds, and what both want next.
Seeds == [i \in Rows |-> << Term(<<"seed", i, 0, 0>>), Term(<<"seed", i, 1, 0>>) >>]

KosSenderWantsExtend(s)   == s.alloc # 0
KosReceiverWantsExtend(s) == s.alloc # 0 /\ ~ s.extended
KosSenderWantsCheck(s)    == s.alloc = 0 /\ ~ s.extended
KosReceiverWantsCheck(s)  == s.alloc = 0 /\ ~ s.extended

\* The columns of one extension: a batch, rounded up to a multiple of Ssp.
RoundUp(n) == ((n + Ssp - 1) \div Ssp) * Ssp
ExtendCount(s) == RoundUp(IF BatchSize < s.alloc THEN BatchSize ELSE s.alloc)
SaturatingSub(a, b) == IF a < b THEN 0 ELSE a - b

\* Receiver::extend: column j is its choice c and t0 = m; u = t0 + t1 + c goes
\* on the wire.
ReceiverColumn(s, j) == [c |-> RandomBit(j), m |-> [i \in Rows |-> PrgBit(s.seeds[i][1], j)]]
ExtendColumn(s, j) ==
  [i \in Rows |-> Plus(Plus(PrgBit(s.seeds[i][1], j), PrgBit(s.seeds[i][2], j)),
                       IF RandomBit(j) THEN {One} ELSE {})]
KosReceiverExtend(s) ==
  [s EXCEPT !.unchecked = @ \o [k \in 1..ExtendCount(s) |-> ReceiverColumn(s, s.stream + k)],
            !.stream    = @ + ExtendCount(s),
            !.alloc     = SaturatingSub(@, ExtendCount(s))]
KosExtendMsg(s) == [k \in 1..ExtendCount(s) |-> ExtendColumn(s, s.stream + k)]

\* Sender::extend: q is the sender's stream, plus u in the rows where delta
\* is set.
SenderColumn(s, u, j) ==
  [i \in Rows |-> IF DeltaBits[i] THEN Plus(PrgBit(s.seeds[i], j), u[i]) ELSE PrgBit(s.seeds[i], j)]
KosSenderExtend(s, us) ==
  IF s.extended \/ Len(us) # ExtendCount(s) THEN [s EXCEPT !.phase = "error"]
  ELSE [s EXCEPT !.unchecked = @ \o [k \in 1..Len(us) |-> SenderColumn(s, us[k], s.stream + k)],
                 !.stream    = @ + Len(us),
                 !.alloc     = SaturatingSub(@, Len(us))]

KosCheckStart(s) == [s EXCEPT !.chi = TRUE]

\* Columns left after the check, and the queued requests served from the
\* front (the slice panics when the columns do not suffice).
Checked(s) ==
  LET t == [s EXCEPT !.pool      = @ \o SubSeq(s.unchecked, 1, Len(s.unchecked) - Ssp),
                     !.unchecked = <<>>,
                     !.extended  = TRUE]
  IN  IF ~ Covers(t) THEN [t EXCEPT !.phase = "error"]
      ELSE [FoldLeft(LAMBDA acc, q : TakeFront(acc, q.req, q.count), t, t.queue) EXCEPT !.queue = <<>>]

\* Receiver::check; the check message.
KosReceiverCheck(s) ==
  IF ~ KosReceiverWantsCheck(s) THEN [s EXCEPT !.phase = "error"]
  ELSE Checked(s)
KosCheckMsg(s) == s.unchecked

\* Sender::check
KosConsistent(s, check) ==
  /\ Len(check) = Len(s.unchecked)
  /\ \A k \in 1..Len(check) :
       s.unchecked[k] = BXor(check[k].m, MaskBit(check[k].c, DeltaBlock))
KosSenderCheck(s, check) ==
  IF ~ KosSenderWantsCheck(s) \/ ~ s.chi \/ ~ KosConsistent(s, check)
  THEN [s EXCEPT !.phase = "error"]
  ELSE Checked([s EXCEPT !.chi = FALSE])

\* alloc, try and queue, before and after the extension.
KosSenderAlloc(s, n)   == IF s.extended THEN s ELSE [s EXCEPT !.alloc = @ + n]
KosReceiverAlloc(s, n) == IF s.extended THEN s ELSE [s EXCEPT !.alloc = @ + n]
KosSenderTry(s, r, n)   == IF Len(s.pool) < n THEN s ELSE TakeFront(s, r, n)
KosReceiverTry(s, r, n) == IF Len(s.pool) < n THEN s ELSE TakeFront(s, r, n)
KosSenderQueue(s, r, n) ==
  IF Len(s.pool) >= n /\ s.phase = "extension" THEN TakeFront(s, r, n)
  ELSE IF ~ s.extended THEN [s EXCEPT !.queue = Append(@, [req |-> r, count |-> n])]
  ELSE s
KosReceiverQueue(s, r, n) ==
  IF Len(s.pool) >= n /\ s.phase = "extension" THEN TakeFront(s, r, n)
  ELSE IF ~ s.extended THEN [s EXCEPT !.queue = Append(@, [req |-> r, count |-> n])]
  ELSE s

=============================================================================
