------------------------------ MODULE OleStack ------------------------------
(***************************************************************************)
(* ROLE and share conversion run by two parties (ole, share-conversion).   *)
(* Party A is the sender.  A stack is                                      *)
(*   top   what the application calls: role or conv,                       *)
(*   by    rot    over the random OT of IdealOts,                          *)
(*         role   conversion over the ideal ROLE,                          *)
(*         ideal  the ideal functionality itself.                          *)
(* The two ends of an ideal functionality share its state, func; a flush   *)
(* of it is a call that both parties make together (CallSync): each waits  *)
(* at a barrier, the last to arrive makes the call, and each waits again.  *)
(* The link does not fail here.                                            *)
(***************************************************************************)
EXTENDS ShareConversion, LockStep

CONSTANTS
  Stacks,     \* the stacks to run
  MaxCount    \* largest count of one call

VARIABLES
  stk,        \* the stack
  party,      \* the state of each party; field func only within a step
  func,       \* the state of the ideal functionality
  bar         \* who waits at the barrier of CallSync

vars == <<linkVars, stk, party, func, bar>>

Conv  == stk.top = "conv"
Ideal == stk.by = "ideal"

\* The input of party p to value k of request r.
Inputs(p, r, n) == [k \in 1..n |-> (r * k + (IF p = "A" THEN 1 ELSE 3)) % Modulus]

Init ==
  /\ LinkInit
  /\ stk \in Stacks
  /\ bar = {}
  /\ func = IF Conv /\ Ideal THEN IdealConvInit ELSE IdealRoleInit
  /\ party = [p \in Party |->
       [pc |-> "idle", sent |-> <<>>, func |-> <<>>, conv |-> ConvInit, a2m |-> FALSE,
        role |-> IF p = "A" THEN RoleSenderInit ELSE RoleReceiverInit]]

Fails(P)   == [P EXCEPT !.pc = "error", !.sent = <<>>]
Emit(P, m) == [P EXCEPT !.sent = Append(@, m)]

------------------------------- \* Calls that do not wait

RoleAlloc(p, P, n) ==
  CASE stk.by # "rot" /\ p = "A" -> [P EXCEPT !.func = IdealSenderAlloc(@, n)]
    [] stk.by # "rot" -> [P EXCEPT !.func = IdealReceiverAlloc(@, n)]
    [] p = "A" -> [P EXCEPT !.role = RoleSenderAlloc(@, n)]
    [] OTHER -> [P EXCEPT !.role = RoleReceiverAlloc(@, n)]

RoleQueue(p, P, r, n) ==
  CASE Ideal /\ p = "A" -> [P EXCEPT !.func = IdealSenderQueue(@, r, n)]
    [] Ideal -> [P EXCEPT !.func = IdealReceiverQueue(@, r, n)]
    [] p = "A" -> [P EXCEPT !.role = RoleSenderQueue(@, r, n)]
    [] OTHER -> [P EXCEPT !.role = RoleReceiverQueue(@, r, n)]

RoleTry(p, P, r, n) ==
  CASE stk.by # "rot" /\ p = "A" -> [P EXCEPT !.func = IdealSenderTry(@, r, n)]
    [] stk.by # "rot" -> [P EXCEPT !.func = IdealReceiverTry(@, r, n)]
    [] p = "A" -> [P EXCEPT !.role = RoleSenderTry(@, r, n)]
    [] OTHER -> [P EXCEPT !.role = RoleReceiverTry(@, r, n)]

RoleEnd(p, P) == IF stk.by = "rot" THEN P.role ELSE P.func[p]

Called(p, P, c, r) ==
  CASE c.op = "alloc_a2m" /\ Ideal -> [P EXCEPT !.func[p] = IdealAllocA2M(@, c.n)]
    [] c.op = "alloc_m2a" /\ Ideal -> [P EXCEPT !.func[p] = IdealAllocM2A(@, c.n)]
    [] c.op \in {"alloc", "alloc_a2m", "alloc_m2a"} -> RoleAlloc(p, P, c.n)
    [] c.op = "queue" -> RoleQueue(p, P, r, c.n)
    [] c.op = "try" -> RoleTry(p, P, r, c.n)
    [] c.op = "a2m" /\ Ideal -> [P EXCEPT !.func[p] = QueueA2M(@, r, Inputs(p, r, c.n))]
    [] c.op = "m2a" /\ Ideal -> [P EXCEPT !.func[p] = QueueM2A(@, r, Inputs(p, r, c.n))]
    [] c.op = "a2m" -> [P EXCEPT !.conv = QueueA2M(@, r, Inputs(p, r, c.n))]
    [] OTHER -> [P EXCEPT !.conv = QueueM2A(@, r, Inputs(p, r, c.n))]

------------------------------- \* Flush of the sender

\* The ROLEs for n conversions; `bad' if there are not enough.
ConvTakes(p, P, n) == RoleTry(p, P, 0, n)
Got(p, P) == Last(RoleEnd(p, P).done).data
ConvShort(p, P, n) == n > Len(RoleEnd(p, P).role)

\* ShareConversionSender::flush when the ROLEs are there; whether it wants
\* A2M is read before M2A runs.
AfterRoleAForgets(P) ==  \* mutant: A2M is forgotten when there is M2A
  LET n == Len(P.conv.m2a_inputs)
      Q == ConvTakes("A", [P EXCEPT !.a2m = FALSE], n)
      got == Got("A", Q)
  IN  CASE ~ Conv -> [P EXCEPT !.pc = "idle"]
        [] WantsM2A(P.conv) /\ ConvShort("A", P, n) -> Fails(P)
        [] WantsM2A(P.conv) -> Emit([Q EXCEPT !.pc = "m2a", !.conv = SendM2A(@, got)], M2AOffsets(P.conv, got))
        [] OTHER -> [P EXCEPT !.pc = IF WantsA2M(P.conv) THEN "a2m" ELSE "idle"]
AfterRoleA(P) ==
  LET n == Len(P.conv.m2a_inputs)
      Q == ConvTakes("A", [P EXCEPT !.a2m = WantsA2M(P.conv)], n)
      got == Got("A", Q)
  IN  CASE ~ Conv -> [P EXCEPT !.pc = "idle"]
        [] WantsM2A(P.conv) /\ ConvShort("A", P, n) -> Fails(P)
        [] WantsM2A(P.conv) -> Emit([Q EXCEPT !.pc = "m2a", !.conv = SendM2A(@, got)], M2AOffsets(P.conv, got))
        [] OTHER -> [P EXCEPT !.pc = IF WantsA2M(P.conv) THEN "a2m" ELSE "idle"]

\* ole Sender::flush: the random OT first, then the masks.
RoleFlushA(P) ==
  LET Q == IF RotSenderWantsFlush(P.role.rot)
           THEN Emit([P EXCEPT !.role.rot = RotSenderFlush(@)], RotFlushMsg(P.role.rot)) ELSE P
  IN  IF ~ RoleWantsSend(Q.role) THEN AfterRoleA(Q)
      ELSE IF RoleSend(Q.role).bad THEN Fails(Q)
      ELSE AfterRoleA(Emit([Q EXCEPT !.role = RoleSend(@)], SenderMasks(Q.role)))

ReceiveA(P, m) ==
  CASE P.pc = "m2a" -> LET c == SenderRecvM2A(P.conv, m)
                       IN  IF c.bad THEN Fails(P)
                           ELSE [P EXCEPT !.conv = c, !.pc = IF P.a2m THEN "a2m" ELSE "idle"]
    [] P.pc = "a2m" -> LET n == Len(P.conv.a2m_inputs)
                           Q == ConvTakes("A", P, n)
                           c == SenderRecvA2M(P.conv, Got("A", Q), m)
                       IN  IF Len(m) # n \/ ConvShort("A", P, n) THEN Fails(P)
                           ELSE IF SenderSendA2M(c).bad
                           THEN Fails([Q EXCEPT !.conv = SenderSendA2M(c)])
                           ELSE Emit([Q EXCEPT !.conv = SenderSendA2M(c), !.pc = "idle"], A2MMasked(c))

------------------------------- \* Flush of the receiver

\* ShareConversionReceiver::flush: both requests go out before either answer
\* is awaited.
SendA2MB(P) ==
  LET n == Len(P.conv.a2m_inputs)
      Q == ConvTakes("B", P, n)
      got == Got("B", Q)
  IN  IF ~ WantsA2M(P.conv) THEN P
      ELSE IF ConvShort("B", P, n) THEN Fails(P)
      ELSE Emit([Q EXCEPT !.conv = ReceiverSendA2M(@, got)], ReceiverA2MOffsets(P.conv, got))
SendM2AB(P) ==
  LET n == Len(P.conv.m2a_inputs)
      Q == ConvTakes("B", P, n)
      got == Got("B", Q)
  IN  IF ~ WantsM2A(P.conv) THEN P
      ELSE IF ConvShort("B", P, n) THEN Fails(P)
      ELSE Emit([Q EXCEPT !.conv = SendM2A(@, got)], M2AOffsets(P.conv, got))
AfterRoleB(P) ==
  LET wants == [P EXCEPT !.a2m = WantsA2M(P.conv),
                         !.pc = IF WantsM2A(P.conv) THEN "m2a" ELSE IF WantsA2M(P.conv) THEN "a2m" ELSE "idle"]
      Q == IF Conv THEN SendM2AB(wants) ELSE wants
  IN  IF ~ Conv \/ Q.pc = "error" THEN Q ELSE SendA2MB(Q)

\* ole Receiver::flush.
AfterRotB(P) == IF RoleWantsRecv(P.role) THEN [P EXCEPT !.pc = "masks"] ELSE AfterRoleB(P)
RoleFlushB(P) == IF RotReceiverWantsFlush(P.role.rot) THEN [P EXCEPT !.pc = "rot"] ELSE AfterRotB(P)

ReceiveB(P, m) ==
  CASE P.pc = "rot" -> LET s == RotReceiverFlush(P.role.rot, m)
                       IN  IF s.bad THEN Fails(P) ELSE AfterRotB([P EXCEPT !.role.rot = s])
    [] P.pc = "masks" -> LET s == RoleRecv(P.role, m)
                         IN  IF s.bad THEN Fails(P) ELSE AfterRoleB([P EXCEPT !.role = s])
    [] P.pc = "m2a" -> LET c == ReceiverRecvM2A(P.conv, m)
                       IN  IF c.bad THEN Fails(P)
                           ELSE [P EXCEPT !.conv = c, !.pc = IF P.a2m THEN "a2m" ELSE "idle"]
    [] P.pc = "a2m" -> LET c == ReceiverRecvA2M(P.conv, m)
                       IN  IF c.bad THEN Fails(P) ELSE [P EXCEPT !.conv = c, !.pc = "idle"]

------------------------------- \* Legal calls

Op(o, n) == [op |-> o, n |-> n]
Ops == {Op(o, n) : o \in {"alloc", "alloc_a2m", "alloc_m2a", "try", "queue", "a2m", "m2a"}, n \in 1..MaxCount}

\* ROLEs that p has allocated, and that nothing has been promised yet.  The
\* ROLE over OT answers its queue from the ROLEs of the same flush only.
Budget(p) ==
  LET e == IF stk.by = "rot" THEN party[p].role ELSE func[p]
      c == party[p].conv
  IN  CASE Conv -> Len(e.role) + e.alloc - Len(c.a2m_inputs) - Len(c.m2a_inputs)
        [] Ideal -> Len(e.role) + e.alloc - Sum(e.queue)
        [] OTHER -> e.alloc - Sum(e.queue)

\* ... enough is allocated, and a flush has something to do.
Legal(p, c) ==
  CASE c.op \in {"alloc", "try", "queue"} ->
         /\ ~ Conv
         /\ c.op = "queue" => c.n <= Budget(p)
         /\ c.op = "try" => LET e == IF stk.by = "rot" THEN party[p].role ELSE func[p]
                            IN  c.n <= Len(e.role) /\ (Ideal => c.n <= Budget(p))
    [] c.op \in {"alloc_a2m", "alloc_m2a"} -> Conv
    [] OTHER -> Conv /\ (~ Ideal => c.n <= Budget(p))

RoleWantsFlush(p) == IF stk.by = "rot" THEN party[p].role.alloc > 0 ELSE IdealRoleWantsFlush(func)
FuncWantsFlush == IF Conv THEN IdealConvWantsFlush(func) ELSE IdealRoleWantsFlush(func)

HasWork(p) ==
  CASE Conv /\ Ideal -> func[p].queue_a2m # <<>> \/ func[p].queue_m2a # <<>>
    [] Ideal -> func[p].alloc > 0
    [] Conv -> WantsA2M(party[p].conv) \/ WantsM2A(party[p].conv)
    [] OTHER -> party[p].role.alloc > 0

------------------------------- \* Steps of the two parties

View(p) == [party[p] EXCEPT !.func = func]

\* Party p becomes P, its copy of the functionality the functionality.
Becomes(p, P) ==
  /\ party' = [party EXCEPT ![p] = [P EXCEPT !.sent = <<>>, !.func = <<>>]]
  /\ func' = P.func

Call(p) ==
  /\ party[p].pc = "idle"
  /\ \E c \in Ops : /\ Legal(p, c)
                     /\ Calls(p, c)
                     /\ Becomes(p, Called(p, View(p), c, pos[p]))
  /\ UNCHANGED <<chan, up, stk, bar>>

\* A flush that calls the ideal functionality, on its own or for the ROLEs
\* of a conversion.
Synchronizes(p) == stk.by # "rot" /\ (IF Ideal THEN FuncWantsFlush ELSE RoleWantsFlush(p))

Flush(p) ==
  /\ party[p].pc = "idle" /\ HasWork(p) /\ ~ Synchronizes(p)
  /\ Calls(p, Op("flush", 0))
  /\ \E P \in {CASE Ideal -> View(p)
                  [] RoleWantsFlush(p) -> IF p = "A" THEN RoleFlushA(View(p)) ELSE RoleFlushB(View(p))
                  [] OTHER -> IF p = "A" THEN AfterRoleA(View(p)) ELSE AfterRoleB(View(p))} :
       Becomes(p, P) /\ Sends(p, P.sent)
  /\ UNCHANGED <<up, stk, bar>>

\* CallSync::call, the first to arrive.
Arrive(p) ==
  /\ party[p].pc = "idle" /\ HasWork(p) /\ Synchronizes(p) /\ bar = {}
  /\ Calls(p, Op("flush", 0))
  /\ party' = [party EXCEPT ![p].pc = "first"]
  /\ bar' = {p}
  /\ UNCHANGED <<chan, up, stk, func>>

\* The last to arrive is the leader: it calls, then waits for the other; if
\* the call panics it never gets there.
Lead(p) ==
  /\ party[p].pc = "idle" /\ HasWork(p) /\ Synchronizes(p) /\ bar = {Other(p)} /\ party[Other(p)].pc = "first"
  /\ Calls(p, Op("flush", 0))
  /\ func' = IF Conv /\ Ideal THEN IdealConvFlush(func) ELSE IdealRoleFlush(func)
  /\ party' = [party EXCEPT ![p].pc = IF func'.A.bad THEN "error" ELSE "second", ![Other(p)].pc = "woken"]
  /\ bar' = IF func'.A.bad THEN {} ELSE {p}
  /\ UNCHANGED <<chan, up, stk>>

\* The other arrives a second time: both return from the call.
Wake(p) ==
  /\ party[p].pc = "woken" /\ bar = {Other(p)}
  /\ bar' = {}
  /\ party' = [q \in Party |-> [party[q] EXCEPT !.pc = "synced"]]
  /\ UNCHANGED <<linkVars, stk, func>>

\* ... and go on with the conversion, if that is what called.
Resume(p) ==
  /\ party[p].pc = "synced"
  /\ \E P \in {IF p = "A" THEN AfterRoleA(View(p)) ELSE AfterRoleB(View(p))} :
       IF Ideal THEN party' = [party EXCEPT ![p].pc = "idle"] /\ UNCHANGED <<func, chan>>
                ELSE Becomes(p, P) /\ Sends(p, P.sent)
  /\ UNCHANGED <<script, pos, up, stk, bar>>

Waits(p) == party[p].pc \in {"rot", "masks", "m2a", "a2m"}

Receive(p) ==
  /\ Waits(p) /\ chan[p] # <<>>
  /\ \E P \in {IF p = "A" THEN ReceiveA(View(p), Head(chan[p])) ELSE ReceiveB(View(p), Head(chan[p]))} :
       Becomes(p, P) /\ Exchanges(p, P.sent)
  /\ UNCHANGED <<script, pos, up, stk, bar>>

\* The sender's half of an A2M was zero, and has no inverse.
Unlucky ==
  \/ party["A"].conv.bad
  \/ /\ Conv /\ Ideal /\ func.A.bad
     /\ \E k \in 1..Len(func.A.a2m_inputs) : FRand(7 * (func.A.drawn + k)) = 0

\* Both programs are over, or the peer of the sender that failed on a zero
\* waits for ever.
Terminating ==
  /\ Unlucky \/ \A p \in Party : party[p].pc = "idle" /\ ProgramOver(p)
  /\ UNCHANGED vars

Next == \/ \E p \in Party : Call(p) \/ Flush(p) \/ Arrive(p) \/ Lead(p) \/ Wake(p) \/ Resume(p) \/ Receive(p)
        \/ Terminating

Spec == Init /\ [][Next]_vars

------------------------------- \* Properties

Outputs(p) == CASE Ideal -> func[p].done [] Conv -> party[p].conv.done [] OTHER -> party[p].role.done

\* The two halves of an output.
Related(a, b) ==
  LET n == script[a.req].n
  IN  /\ Len(a.data) = n /\ Len(b.data) = n
      /\ \A k \in 1..n :
           LET x == Inputs("A", a.req, n)[k]
               y == Inputs("B", a.req, n)[k]
           IN  CASE ~ Conv -> FMul(a.data[k].mul, b.data[k].mul) = FAdd(a.data[k].add, b.data[k].add)
                 [] script[a.req].op = "a2m" -> FMul(a.data[k], b.data[k]) = FAdd(x, y)
                 [] OTHER -> FAdd(a.data[k], b.data[k]) = FMul(x, y)

\* Whatever mix of conversions and ROLEs is queued, taken and flushed, and
\* whichever party is ahead, the halves of every request belong together:
\* a * b = x + y for a ROLE, x + y as a product for an A2M, x * y as a sum
\* for an M2A.
Correlated ==
  \A i \in DOMAIN Outputs("A"), j \in DOMAIN Outputs("B") :
    Outputs("A")[i].req = Outputs("B")[j].req => Related(Outputs("A")[i], Outputs("B")[j])

\* No ROLE is used for two requests or two conversions, and both parties use
\* them in the same order: a share used twice reveals the difference of two
\* secret inputs.
SharesUsedOnce ==
  ~ (Conv /\ Ideal) =>
    LET u(p) == IF stk.by = "rot" THEN party[p].role.used ELSE func[p].used
    IN  /\ \A p \in Party : \A i, j \in DOMAIN u(p) : i # j => u(p)[i] # u(p)[j]
        /\ \A i \in DOMAIN u("A") \cap DOMAIN u("B") : u("A")[i] = u("B")[i]

\* Parties that make the same legal calls never fail, except the sender of an
\* A2M whose share is zero.
NoFault == Unlucky \/ \A p \in Party : party[p].pc # "error"

\* When a flush has returned, everything queued before it is answered, once.
Answered ==
  \A p \in Party :
    LET reqs == {Outputs(p)[k].req : k \in DOMAIN Outputs(p)}
    IN  /\ Cardinality(reqs) = Len(Outputs(p))
        /\ party[p].pc = "idle" /\ pos[p] > 1 /\ script[pos[p] - 1].op = "flush" =>
             {r \in 1..pos[p] - 1 : script[r].op \in {"queue", "a2m", "m2a"}} \subseteq reqs
=============================================================================
