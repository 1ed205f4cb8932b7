--------------------------- MODULE ShareConversion ---------------------------
(***************************************************************************)
(* Conversion between additive and multiplicative shares                   *)
(* (share-conversion-core): the sender and the receiver over ROLE, and the *)
(* ideal functionality.  The operators that take ROLEs get them as `got',  *)
(* what try_send_role or try_recv_role returned.                           *)
(***************************************************************************)
EXTENDS Role

ConvInit == [queue_a2m |-> <<>>, queue_m2a |-> <<>>, a2m_inputs |-> <<>>, m2a_inputs |-> <<>>,
             a2m_adjust |-> <<>>, m2a_adjust |-> <<>>, done |-> <<>>, bad |-> FALSE]

QueueA2M(c, r, inputs) ==
  [c EXCEPT !.a2m_inputs = @ \o inputs, !.queue_a2m = Append(@, [req |-> r, count |-> Len(inputs)])]
QueueM2A(c, r, inputs) ==
  [c EXCEPT !.m2a_inputs = @ \o inputs, !.queue_m2a = Append(@, [req |-> r, count |-> Len(inputs)])]

WantsA2M(c) == c.a2m_inputs # <<>>
WantsM2A(c) == c.m2a_inputs # <<>>

\* The outputs handed to the queued requests, in order.
Answer(done, queue, outputs) ==
  FoldLeft(LAMBDA acc, q : [left |-> SubSeq(acc.left, q.count + 1, Len(acc.left)),
                            done |-> Append(acc.done, [req |-> q.req, id |-> 0,
                                                       data |-> SubSeq(acc.left, 1, q.count)])],
           [left |-> outputs, done |-> done], queue).done

------------------------------- \* Multiplicative to additive, over ROLE

\* send_m2a of either party: an adjustment per input; the offsets go out.
SendM2A(c, got) ==
  [c EXCEPT !.m2a_inputs = <<>>,
            !.m2a_adjust = @ \o [k \in 1..Len(got) |-> [share |-> got[k], target |-> c.m2a_inputs[k]]]]
M2AOffsets(c, got) == [k \in 1..Len(got) |-> Offset(got[k], c.m2a_inputs[k])]

\* recv_m2a of the sender, and of the receiver.
SenderRecvM2A(c, offsets) ==
  IF Len(offsets) # Len(c.m2a_adjust) THEN [c EXCEPT !.bad = TRUE]
  ELSE LET out == [k \in 1..Len(offsets) |->
                     SenderFinish(c.m2a_adjust[k].share, c.m2a_adjust[k].target, offsets[k]).add]
       IN  [c EXCEPT !.m2a_adjust = <<>>, !.queue_m2a = <<>>, !.done = Answer(@, c.queue_m2a, out)]
ReceiverRecvM2A(c, offsets) ==
  IF Len(offsets) # Len(c.m2a_adjust) THEN [c EXCEPT !.bad = TRUE]
  ELSE LET out == [k \in 1..Len(offsets) |->
                     ReceiverFinish(c.m2a_adjust[k].share, c.m2a_adjust[k].target, offsets[k]).add]
       IN  [c EXCEPT !.m2a_adjust = <<>>, !.queue_m2a = <<>>, !.done = Answer(@, c.queue_m2a, out)]

------------------------------- \* Additive to multiplicative, over ROLE

\* send_a2m of the receiver: A2MReceiverDerand::offset per input.
ReceiverSendA2M(c, got) ==
  [c EXCEPT !.a2m_inputs = <<>>, !.a2m_adjust = @ \o [k \in 1..Len(got) |-> got[k].add]]
ReceiverA2MOffsets(c, got) == [k \in 1..Len(got) |-> FSub(c.a2m_inputs[k], got[k].mul)]

\* recv_a2m of the sender: A2MSenderDerand::offset per input.
SenderRecvA2M(c, got, offsets) ==
  [c EXCEPT !.a2m_inputs = <<>>,
            !.a2m_adjust = @ \o [k \in 1..Len(got) |->
              [input |-> c.a2m_inputs[k], mul |-> got[k].mul,
               add |-> FAdd(got[k].add, FMul(got[k].mul, offsets[k]))]]]

\* send_a2m of the sender: fails on a mul that is zero, the adjustments
\* drained; otherwise its output is the inverse of mul.
SenderSendA2M(c) ==
  IF \E k \in DOMAIN c.a2m_adjust : c.a2m_adjust[k].mul = 0
  THEN [c EXCEPT !.a2m_adjust = <<>>, !.bad = TRUE]
  ELSE [c EXCEPT !.a2m_adjust = <<>>, !.queue_a2m = <<>>,
                 !.done = Answer(@, c.queue_a2m, [k \in DOMAIN c.a2m_adjust |-> FInverse(c.a2m_adjust[k].mul)])]
A2MMasked(c) ==
  [k \in DOMAIN c.a2m_adjust |-> FAdd(FMul(c.a2m_adjust[k].input, c.a2m_adjust[k].mul), c.a2m_adjust[k].add)]

\* recv_a2m of the receiver.
ReceiverRecvA2M(c, masked) ==
  IF Len(masked) # Len(c.a2m_adjust) THEN [c EXCEPT !.bad = TRUE]
  ELSE [c EXCEPT !.a2m_adjust = <<>>, !.queue_a2m = <<>>,
                 !.done = Answer(@, c.queue_a2m, [k \in DOMAIN masked |-> FAdd(c.a2m_adjust[k], masked[k])])]

------------------------------- \* The ideal functionality

IdealConvState == ConvInit @@ [a2m_alloc |-> 0, m2a_alloc |-> 0, drawn |-> 0]
IdealConvInit == [A |-> IdealConvState, B |-> IdealConvState]

\* alloc replaces the count.
IdealAllocA2M(s, n) == [s EXCEPT !.a2m_alloc = n]
IdealAllocM2A(s, n) == [s EXCEPT !.m2a_alloc = n]

IdealConvWantsFlush(f) ==
  \E p \in {"A", "B"} : f[p].queue_a2m # <<>> \/ f[p].queue_m2a # <<>>

\* Inner::flush: the sender's outputs are drawn, the receiver's follow.  A
\* drawn zero has no inverse; a receiver with more inputs than the sender
\* runs out of outputs.
IdealConvFlush(f) ==
  LET n  == Len(f.A.a2m_inputs)
      m  == Len(f.A.m2a_inputs)
      nB == Len(f.B.a2m_inputs)
      mB == Len(f.B.m2a_inputs)
      a == [k \in 1..n |-> FRand(7 * (f.A.drawn + k))]
      x == [k \in 1..m |-> FRand(7 * (f.A.drawn + n + k))]
      b == [k \in 1..nB |-> FMul(FAdd(f.A.a2m_inputs[k], f.B.a2m_inputs[k]), FInverse(a[k]))]
      y == [k \in 1..mB |-> FSub(FMul(f.A.m2a_inputs[k], f.B.m2a_inputs[k]), x[k])]
      Served(s, a2m, m2a) ==
        [s EXCEPT !.queue_a2m = <<>>, !.queue_m2a = <<>>, !.a2m_inputs = <<>>, !.m2a_inputs = <<>>,
                  !.a2m_alloc = 0, !.m2a_alloc = 0, !.drawn = @ + n + m,
                  !.done = Answer(Answer(@, s.queue_a2m, a2m), s.queue_m2a, m2a)]
  IN  IF \/ ~ IdealConvWantsFlush(f)
         \/ f.A.a2m_alloc # f.B.a2m_alloc \/ f.A.m2a_alloc # f.B.m2a_alloc
         \/ nB > n \/ mB > m \/ \E k \in 1..nB : a[k] = 0
      THEN [f EXCEPT !.A.bad = TRUE, !.B.bad = TRUE]
      ELSE [A |-> Served(f.A, a, x), B |-> Served(f.B, b, y)]

=============================================================================
