-------------------------------- MODULE Role --------------------------------
(***************************************************************************)
(* Random oblivious linear evaluation (ole-core): the sender and receiver  *)
(* over random OT, and the ideal functionality both parties share.  The    *)
(* halves of a ROLE satisfy a * b = x + y: a, x the sender's mul and add,  *)
(* b, y the receiver's.  A share carries the number of the ROLE it is half *)
(* of, and an endpoint the numbers it has given away: neither is in the    *)
(* code, both are there to state that no share is used twice.              *)
(***************************************************************************)
EXTENDS IdealOts

(***************************************************************************)
(* The prime field, as fields/src/p256.rs offers it through the Field      *)
(* trait, with a small modulus.  An element has BitSize bits, and          *)
(* 2^BitSize may exceed the modulus, as it does for P256: a bit string is  *)
(* then reduced.                                                           *)
(***************************************************************************)
CONSTANTS
  Modulus,   \* a prime
  BitSize,   \* bits of an element
  Tape       \* the values the generators of the program draw, in a circle

ASSUME FieldAssumption ==
  /\ Modulus \in Nat /\ Modulus > 1
  /\ \A d \in 2..Modulus - 1 : Modulus % d # 0
  /\ BitSize \in Nat \ {0} /\ 2^BitSize >= Modulus
  /\ DOMAIN Tape = 1..17 /\ \A k \in 1..17 : Tape[k] \in 0..Modulus - 1

FAdd(a, b) == (a + b) % Modulus
FSub(a, b) == (a + Modulus - b) % Modulus
FMul(a, b) == (a * b) % Modulus
FNeg(a)    == (Modulus - a) % Modulus
TwoPow(i)  == 2^i % Modulus

\* The inverse of an element that is not zero.
FInverse(a) == CHOOSE b \in 1..Modulus - 1 : FMul(a, b) = 1

\* Value j of a generator.
FRand(j) == Tape[1 + (j % 17)]

\* The sum of 2^i * v[i] over the bits i of an element; v counts from 1.
BitSum(v) == FoldLeft(FAdd, 0, [i \in 1..BitSize |-> FMul(TwoPow(i - 1), v[i])])

------------------------------- \* Shares

\* OLEShare::new_ole_sender: the share, and what the receiver is sent.
NewOleSender(input, masks) ==
  [mul |-> input, add |-> FNeg(BitSum([i \in 1..BitSize |-> masks[i][1]]))]
MaskedCorrelation(input, masks) ==
  [i \in 1..BitSize |-> FAdd(FSub(masks[i][1], masks[i][2]), input)]

\* OLEShare::new_ole_receiver: with the choice bits of the OT, not those of
\* the element they are reduced to.
FromReducedBits(bits, masks, corr) ==  \* mutant: the bits of the reduced element
  LET b == BitSum([i \in 1..BitSize |-> IF bits[i] THEN 1 ELSE 0])
  IN  [mul |-> b,
       add |-> BitSum([i \in 1..BitSize |-> FAdd(masks[i], FMul((b \div 2^(i - 1)) % 2, corr[i]))])]
NewOleReceiver(bits, masks, corr) ==
  [mul |-> BitSum([i \in 1..BitSize |-> IF bits[i] THEN 1 ELSE 0]),
   add |-> BitSum([i \in 1..BitSize |-> FAdd(masks[i], IF bits[i] THEN corr[i] ELSE 0)])]

\* Adjust: the offset to a chosen mul, and both ends of the adjustment.
Offset(share, target) == FAdd(share.mul, target)
SenderFinish(share, target, offset)   == [mul |-> target, add |-> FSub(share.add, FMul(share.mul, offset))]
ReceiverFinish(share, target, offset) == [mul |-> target, add |-> FAdd(share.add, FMul(offset, target))]

------------------------------- \* Handing shares out

\* OLEId::next.
NextOleId(id) == id + 1

RoleOutput(r, id, shares) == [req |-> r, id |-> id, data |-> shares]
Tags(shares) == [k \in DOMAIN shares |-> shares[k].tag]

\* Request r takes the first n shares of the pool.
TakeShares(s, r, n) ==
  [s EXCEPT !.role = SubSeq(@, n + 1, Len(@)), !.id = NextOleId(@),
            !.used = @ \o Tags(SubSeq(s.role, 1, n)),
            !.done = Append(@, RoleOutput(r, s.id, SubSeq(s.role, 1, n)))]

\* The queue is served from the new shares; what is left joins the pool.
ServeNewKeep(s, new) ==  \* mutant: the served shares join the pool too
  [FoldLeft(LAMBDA acc, q : TakeShares(acc, q.req, q.count), [s EXCEPT !.role = new], s.queue)
     EXCEPT !.role = s.role \o new, !.queue = <<>>, !.alloc = 0, !.pending = 0]
ServeNew(s, new) ==
  LET t == FoldLeft(LAMBDA acc, q : TakeShares(acc, q.req, q.count), [s EXCEPT !.role = new], s.queue)
  IN  [t EXCEPT !.role = s.role \o t.role, !.queue = <<>>, !.alloc = 0, !.pending = 0]

------------------------------- \* ROLE over random OT

RoleInit == [id |-> 0, alloc |-> 0, pending |-> 0, queue |-> <<>>, role |-> <<>>,
             made |-> 0, used |-> <<>>, done |-> <<>>, bad |-> FALSE]
RoleSenderInit   == RoleInit @@ [rot |-> RotSenderInit]
RoleReceiverInit == RoleInit @@ [rot |-> RotReceiverInit]

RoleSenderAlloc(s, n)   == [s EXCEPT !.rot = RotSenderAlloc(@, n * BitSize), !.alloc = @ + n]
RoleReceiverAlloc(s, n) == [s EXCEPT !.rot = RotReceiverAlloc(@, n * BitSize), !.alloc = @ + n]

RoleSenderQueue(s, r, n) ==
  [s EXCEPT !.pending = @ + n, !.queue = Append(@, [req |-> r, count |-> n])]
RoleReceiverQueue(s, r, n) ==
  [s EXCEPT !.pending = @ + n, !.queue = Append(@, [req |-> r, count |-> n])]

\* try_send_role and try_recv_role fail when the pool is too small.
RoleSenderTry(s, r, n)   == IF n > Len(s.role) THEN [s EXCEPT !.bad = TRUE] ELSE TakeShares(s, r, n)
RoleReceiverTry(s, r, n) == IF n > Len(s.role) THEN [s EXCEPT !.bad = TRUE] ELSE TakeShares(s, r, n)

RoleWantsSend(s) == s.alloc > 0
RoleWantsRecv(s) == s.alloc > 0

\* What the random OT gives for the allocated ROLEs: field elements drawn
\* from a generator seeded with each key.
KeyNumber(draw) == (CHOOSE t \in draw[2][1] : TRUE)[2]
RoleKeys(s) ==
  LET out == AnySender(Last(RotSenderTry(s.rot, 0, s.alloc * BitSize).done)).data
  IN  [k \in 1..Len(out) |-> <<FRand(KeyNumber(out[k][1])), FRand(KeyNumber(out[k][2]))>>]
RoleMsgs(s) ==
  LET out == AnyReceiver(Last(RotReceiverTry(s.rot, 0, s.alloc * BitSize).done)).data
  IN  [k \in 1..Len(out) |-> [c |-> out[k].c, m |-> FRand(KeyNumber(out[k].m))]]
Chunk(seq, k) == SubSeq(seq, (k - 1) * BitSize + 1, k * BitSize)

\* The random OTs of the allocated ROLEs are used up.
RotTaken(rot, n) == [rot EXCEPT !.pool = SubSeq(@, n * BitSize + 1, Len(@)), !.tid = NextId(rot)]

RoleSenderShort(s) == s.pending > s.alloc \/ s.alloc * BitSize > Len(s.rot.pool)
RoleInput(s, k) == FRand(5 * (s.made + k))

\* Sender::send, and the message it returns.
RoleSendPending(s) ==  \* mutant: the count of queued ROLEs is not reset
  IF RoleSenderShort(s) THEN [s EXCEPT !.bad = TRUE]
  ELSE LET keys == RoleKeys(s)
       IN  [ServeNew([s EXCEPT !.rot = RotTaken(@, s.alloc), !.made = @ + s.alloc],
                     [k \in 1..s.alloc |-> NewOleSender(RoleInput(s, k), Chunk(keys, k)) @@ [tag |-> s.made + k]])
              EXCEPT !.pending = s.pending]
RoleSend(s) ==
  IF RoleSenderShort(s) THEN [s EXCEPT !.bad = TRUE]
  ELSE LET keys == RoleKeys(s)
       IN  ServeNew([s EXCEPT !.rot = RotTaken(@, s.alloc), !.made = @ + s.alloc],
                    [k \in 1..s.alloc |-> NewOleSender(RoleInput(s, k), Chunk(keys, k)) @@ [tag |-> s.made + k]])
SenderMasks(s) ==
  LET keys == RoleKeys(s) IN [k \in 1..s.alloc |-> MaskedCorrelation(RoleInput(s, k), Chunk(keys, k))]

\* Receiver::recv.
RoleRecv(s, masks) ==
  IF s.pending > s.alloc \/ Len(masks) # s.alloc \/ s.alloc * BitSize > Len(s.rot.pool)
  THEN [s EXCEPT !.bad = TRUE]
  ELSE LET msgs == RoleMsgs(s)
           share(k) == NewOleReceiver([i \in 1..BitSize |-> Chunk(msgs, k)[i].c],
                                      [i \in 1..BitSize |-> Chunk(msgs, k)[i].m], masks[k])
       IN  ServeNew([s EXCEPT !.rot = RotTaken(@, s.alloc), !.made = @ + s.alloc],
                    [k \in 1..s.alloc |-> share(k) @@ [tag |-> s.made + k]])

------------------------------- \* The ideal functionality

\* f holds both parties' halves; A is the sender.
IdealRoleInit == [A |-> RoleInit, B |-> RoleInit]

IdealSenderAlloc(f, n)   == [f EXCEPT !.A.alloc = @ + n]
IdealReceiverAlloc(f, n) == [f EXCEPT !.B.alloc = @ + n]

IdealRoleWantsFlush(f) == f.A.alloc > 0 \/ f.B.alloc > 0

IdealSenderQueue(f, r, n) ==
  IF Len(f.A.role) >= n THEN [f EXCEPT !.A = TakeShares(@, r, n)]
  ELSE [f EXCEPT !.A.queue = Append(@, [req |-> r, count |-> n])]
IdealReceiverQueue(f, r, n) ==
  IF Len(f.B.role) >= n THEN [f EXCEPT !.B = TakeShares(@, r, n)]
  ELSE [f EXCEPT !.B.queue = Append(@, [req |-> r, count |-> n])]

IdealSenderTry(f, r, n) ==
  IF n > Len(f.A.role) THEN [f EXCEPT !.A.bad = TRUE] ELSE [f EXCEPT !.A = TakeShares(@, r, n)]

\* try_recv_role takes its id from the sender's counter.
IdealReceiverTry(f, r, n) ==
  IF n > Len(f.B.role) THEN [f EXCEPT !.B.bad = TRUE]
  ELSE LET t == TakeShares([f.B EXCEPT !.id = f.A.id], r, n)
       IN  [A |-> [f.A EXCEPT !.id = NextOleId(@)], B |-> [t EXCEPT !.id = f.B.id]]

\* role_shares: a, b and x drawn, y = a * b - x.
RoleShares(j) ==
  LET a == FRand(3 * j)  b == FRand(3 * j + 1)  x == FRand(3 * j + 2)
  IN  <<[mul |-> a, add |-> x, tag |-> j], [mul |-> b, add |-> FSub(FMul(a, b), x), tag |-> j]>>

\* IdealROLE::flush: one half of the queue after the other; slicing panics
\* when the pool does not cover the queue.
IdealRoleFlush(f) ==
  LET n == f.A.alloc
      Short(s) == Sum(s.queue) > Len(s.role) + n
      Serve(s, half) ==
        [FoldLeft(LAMBDA acc, q : TakeShares(acc, q.req, q.count),
                  [s EXCEPT !.role = @ \o [k \in 1..n |-> RoleShares(s.made + k)[half]]], s.queue)
           EXCEPT !.queue = <<>>, !.alloc = 0, !.made = @ + n]
  IN  IF f.A.alloc # f.B.alloc \/ Short(f.A) \/ Short(f.B) THEN [f EXCEPT !.A.bad = TRUE, !.B.bad = TRUE]
      ELSE [A |-> Serve(f.A, 1), B |-> Serve(f.B, 2)]

=============================================================================
