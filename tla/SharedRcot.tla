----------------------------- MODULE SharedRcot -----------------------------
(***************************************************************************)
(* SharedRCOTSender and SharedRCOTReceiver (crates/ot/src/rcot/shared):    *)
(* clones of one handle share a single random correlated OT and set it up  *)
(* together.  `flush` is collective: the instances of a party meet at an   *)
(* AdaptiveBarrier, the leader sets up everybody's OTs with one flush of   *)
(* the inner protocol, distributes them, and lets the others go.           *)
(*                                                                         *)
(* Both parties are modelled.  Instance i of the sender and instance i of  *)
(* the receiver are the two ends of one logical thread, so they run the    *)
(* same client program.  The two sides differ only in what they carry for  *)
(* an OT (keys, or choices and macs, moved in parallel), so an OT is its   *)
(* index in the inner protocol and both sides are one definition.          *)
(***************************************************************************)
EXTENDS BarrierState, SequencesExt

CONSTANTS
    N,             \* instances per party
    Programs,      \* the client programs instances may run
    MaxFailures    \* bound: failures of the inner flush

ASSUME SharedRcotAssumption == N \in Nat \ {0} /\ MaxFailures \in Nat

Parties   == {"S", "R"}
Instances == 0 .. N - 1

VARIABLES
    program,    \* program[i]: what the client of instance i does, on both sides
    ip,         \* ip[p][i]: the operation its client is at
    pc,         \* pc[p][i]: where it is inside `flush`
    bar,        \* bar[p]: the barrier
    flushing,   \* flushing[p]: State::flushing
    buffers,    \* buffers[p][i]: State::buffers
    mine,       \* mine[p][i]: the OTs the instance holds (keys, or inputs and macs)
    queue,      \* queue[p][i]: counts of queued requests
    out,        \* out[p][i]: outputs handed to the client, in order
    inner,      \* inner[p]: the inner RCOT
    failures    \* failures of the inner flush so far

vars == << program, ip, pc, bar, flushing, buffers, mine, queue, out, inner, failures >>
local == << mine, queue, out >>

(* pc "run": outside flush.  "enter": decided to flush, not at the barrier *)
(* yet.  "waiting", "elected", "parked", "released": as in AdaptiveBarrier.*)
(* "inner": the leader inside the inner flush.  "distribute", "proceed":   *)
(* the leader after it.  "collect": about to pick its OTs up.  "failed":   *)
(* flush returned an error and the client gave up.  "dropped".             *)
Busy(p) == { i \in Instances : pc[p][i] # "dropped" }

NoBuffer == [present |-> FALSE, count |-> 0, ots |-> << >>]

Goto(p, i, l) == pc' = [pc EXCEPT ![p][i] = l]
Advance(p, i) == ip' = [ip EXCEPT ![p][i] = @ + 1]
Op(p, i)      == program[i][ip[p][i]]
At(p, i, o)   == /\ pc[p][i] = "run"
                 /\ ip[p][i] <= Len(program[i])
                 /\ Op(p, i).op = o

(* The concatenation every hand-over uses: the shorter list is copied, so  *)
(* the order of the result depends on the lengths.                         *)
Merge(old, new) == IF Len(new) > Len(old) THEN new \o old ELSE old \o new

(* Vec::split_off(len - n). *)
Tailmost(s, n) == SubSeq(s, Len(s) - n + 1, Len(s))
Rest(s, n)     == SubSeq(s, 1, Len(s) - n)

Init ==
    /\ program \in [Instances -> Programs]
    /\ ip = [p \in Parties |-> [i \in Instances |-> 1]]
    /\ pc = [p \in Parties |-> [i \in Instances |-> "run"]]
    /\ bar = [p \in Parties |-> [EmptyBarrier EXCEPT !.alive = N, !.id_next = N]]
    /\ flushing = [p \in Parties |-> FALSE]
    /\ buffers = [p \in Parties |-> [i \in Instances |-> NoBuffer]]
    /\ mine = [p \in Parties |-> [i \in Instances |-> << >>]]
    /\ queue = [p \in Parties |-> [i \in Instances |-> << >>]]
    /\ out = [p \in Parties |-> [i \in Instances |-> << >>]]
    /\ inner = [p \in Parties |-> [alloc |-> 0, ready |-> 0, next |-> 0]]
    /\ failures = 0
-----------------------------------------------------------------------------
(* `alloc` by the client of instance i. *)
Alloc(p, i) ==
    /\ At(p, i, "alloc")
    /\ buffers' = [buffers EXCEPT ![p][i] =
                     IF Op(p, i).n = 0 THEN @
                     ELSE [@ EXCEPT !.present = TRUE, !.count = @ + Op(p, i).n]]
    /\ Advance(p, i)
    /\ UNCHANGED << program, pc, bar, flushing, local, inner, failures >>

(* A served request: the output takes the next transfer id, which is its   *)
(* position in `out`, and the last n OTs held.                             *)
Served(outs, held, n) == Append(outs, Tailmost(held, n))

(* `queue_recv_rcot` / `queue_send_rcot`. *)
QueueRequest(p, i) ==
    LET n == Op(p, i).n IN
    /\ At(p, i, "request")
    /\ IF Len(mine[p][i]) >= n
       THEN /\ out' = [out EXCEPT ![p][i] = Served(@, mine[p][i], n)]
            /\ mine' = [mine EXCEPT ![p][i] = Rest(@, n)]
            /\ UNCHANGED queue
       ELSE /\ queue' = [queue EXCEPT ![p][i] = Append(@, n)]
            /\ UNCHANGED << out, mine >>
    /\ Advance(p, i)
    /\ UNCHANGED << program, pc, bar, flushing, buffers, inner, failures >>

WantsFlush(p) == \E i \in Instances : buffers[p][i].count > 0

(* `flush`, `enter_flush`: nothing to do, or commit to the flush. *)
EnterFlush(p, i) ==
    /\ At(p, i, "flush")
    /\ IF flushing[p] \/ WantsFlush(p)
       THEN /\ flushing' = [flushing EXCEPT ![p] = TRUE]
            /\ Goto(p, i, "enter")
            /\ UNCHANGED ip
       ELSE Advance(p, i) /\ UNCHANGED << flushing, pc >>
    /\ UNCHANGED << program, bar, buffers, local, inner, failures >>

(* `barrier.wait()` up to its suspension. *)
BarrierWait(p, i) ==
    LET b == Enter(bar[p], i) IN
    /\ pc[p][i] = "enter"
    /\ \/ /\ bar[p].alive = 1
          /\ Goto(p, i, "elected")
          /\ UNCHANGED bar
       \/ /\ bar[p].alive # 1 /\ ~IsReady(b)
          /\ bar' = [bar EXCEPT ![p] = b]
          /\ Goto(p, i, "waiting")
       \/ /\ bar[p].alive # 1 /\ IsReady(b)
          /\ bar' = [bar EXCEPT ![p] = Cleared(b)]
          /\ pc' = [pc EXCEPT ![p] =
                      [j \in Instances |-> IF j = LeaderOf(b).id THEN "elected"
                                           ELSE IF j \in Followers(b) THEN "parked"
                                           ELSE @[j]]]
    /\ UNCHANGED << program, ip, flushing, buffers, local, inner, failures >>

SumCounts(p) == FoldFunction(LAMBDA b, acc : b.count + acc, 0, buffers[p])

(* Wrong on purpose: only the leader's own count is allocated on one side. *)
LeaderAllocOwn(p, i) ==
    /\ pc[p][i] = "elected"
    /\ flushing' = [flushing EXCEPT ![p] = FALSE]
    /\ inner' = [inner EXCEPT ![p].alloc =
                   @ + IF p = "R" THEN buffers[p][i].count ELSE SumCounts(p)]
    /\ Goto(p, i, "inner")
    /\ UNCHANGED << program, ip, bar, buffers, local, failures >>

(* The leader: lock inner, clear the flag, allocate everybody's counts. *)
LeaderAlloc(p, i) ==
    /\ pc[p][i] = "elected"
    /\ flushing' = [flushing EXCEPT ![p] = FALSE]
    /\ inner' = [inner EXCEPT ![p].alloc = @ + SumCounts(p)]
    /\ Goto(p, i, "inner")
    /\ UNCHANGED << program, ip, bar, buffers, local, failures >>

Release(pcs, i, l) ==
    [j \in Instances |-> IF j = i THEN l ELSE IF pcs[j] = "parked" THEN "released" ELSE pcs[j]]

(* The inner flush: the two leaders run the inner protocol over the        *)
(* channel of their logical thread, so it only advances when they are the  *)
(* two ends of one.  A side that succeeds has what it had allocated; on a  *)
(* side that fails the leader returns early, which drops its barrier       *)
(* result and so releases the others.                                      *)
InnerFlush(i, failed) ==
    /\ \A p \in Parties : pc[p][i] = "inner"
    /\ failed = {} \/ failures < MaxFailures
    /\ failures' = IF failed = {} THEN failures ELSE failures + 1
    /\ inner' = [p \in Parties |->
                   IF p \in failed THEN inner[p]
                   ELSE [inner[p] EXCEPT !.ready = @ + inner[p].alloc, !.alloc = 0]]
    /\ pc' = [p \in Parties |-> IF p \in failed THEN Release(pc[p], i, "failed")
                                ELSE [pc[p] EXCEPT ![i] = "distribute"]]
    /\ UNCHANGED << program, ip, bar, flushing, buffers, local >>

(* Wrong on purpose: one side serves the instances in the map's order.     *)
FirstOtUnsorted(p, i) ==
    inner[p].next
      + FoldFunctionOnSet(LAMBDA b, acc : b.count + acc, 0, buffers[p],
                          IF p = "S" THEN i + 1 .. N - 1 ELSE 0 .. i - 1)

(* The first OT of instance i in this distribution: the inner protocol     *)
(* hands its OTs out in order, and the leader asks for them in the order   *)
(* of the instance ids.                                                    *)
FirstOt(p, i) ==
    inner[p].next
      + FoldFunctionOnSet(LAMBDA b, acc : b.count + acc, 0, buffers[p], 0 .. i - 1)

Fulfilled(p, i) ==
    LET b   == buffers[p][i]
        ots == [k \in 1 .. b.count |-> FirstOt(p, i) + k - 1]
    IN  IF b.count = 0 THEN b
        ELSE [b EXCEPT !.count = 0, !.ots = Merge(@, ots)]

(* The leader serves every outstanding buffer from the inner protocol. *)
Distribute(p, i) ==
    /\ pc[p][i] = "distribute"
    /\ SumCounts(p) <= inner[p].ready
    /\ buffers' = [buffers EXCEPT ![p] = [j \in Instances |-> Fulfilled(p, j)]]
    /\ inner' = [inner EXCEPT ![p].ready = @ - SumCounts(p), ![p].next = @ + SumCounts(p)]
    /\ Goto(p, i, "proceed")
    /\ UNCHANGED << program, ip, bar, flushing, local, failures >>

(* Wrong on purpose: the result is forgotten instead of dropped. *)
LeaderProceedForgets(p, i) ==
    /\ pc[p][i] = "proceed"
    /\ Goto(p, i, "collect")
    /\ UNCHANGED << program, ip, bar, flushing, buffers, local, inner, failures >>

(* `barrier_result.proceed()`. *)
LeaderProceed(p, i) ==
    /\ pc[p][i] = "proceed"
    /\ pc' = [pc EXCEPT ![p] = Release(@, i, "collect")]
    /\ UNCHANGED << program, ip, bar, flushing, buffers, local, inner, failures >>

(* Serving the queued requests in order until one of them cannot be: what  *)
(* is left of the queue is dropped with the error.                         *)
ServeQueue(outs, held, q) ==
    FoldLeft(LAMBDA st, n : IF st.ok /\ Len(st.held) >= n
                            THEN [outs |-> Served(st.outs, st.held, n),
                                  held |-> Rest(st.held, n), ok |-> TRUE]
                            ELSE [st EXCEPT !.ok = FALSE],
             [outs |-> outs, held |-> held, ok |-> TRUE], q)

(* Wrong on purpose: the buffer goes, with the count a failed flush left. *)
BufferLeftNothing(b) == NoBuffer

(* What the instance's buffer is after it picked its OTs up: discarded     *)
(* only when nothing is outstanding.                                       *)
BufferLeft(b) == IF b.count = 0 THEN NoBuffer ELSE [b EXCEPT !.ots = << >>]

(* The end of `flush`, for the leader and for the released instances. *)
Collect(p, i) ==
    LET b == buffers[p][i]
        r == ServeQueue(out[p][i], Merge(mine[p][i], b.ots), queue[p][i])
    IN
    /\ pc[p][i] \in {"collect", "released"}
    /\ buffers' = [buffers EXCEPT ![p][i] = IF b.present THEN BufferLeft(b) ELSE b]
    /\ mine' = [mine EXCEPT ![p][i] = r.held]
    /\ out' = [out EXCEPT ![p][i] = r.outs]
    /\ queue' = [queue EXCEPT ![p][i] = << >>]
    /\ IF r.ok THEN Goto(p, i, "run") /\ Advance(p, i)
       ELSE Goto(p, i, "failed") /\ UNCHANGED ip
    /\ UNCHANGED << program, bar, flushing, inner, failures >>

(* The client is done, or gave up, and drops its instance. *)
DropInstance(p, i) ==
    /\ \/ pc[p][i] = "run" /\ ip[p][i] > Len(program[i])
       \/ pc[p][i] = "failed"
    /\ bar' = [bar EXCEPT ![p] = Deregister(@)]
    /\ Goto(p, i, "dropped")
    /\ UNCHANGED << program, ip, flushing, buffers, local, inner, failures >>

Finished == (\A p \in Parties : Busy(p) = {}) /\ UNCHANGED vars

InstanceStep(p, i) ==
    \/ Alloc(p, i)
    \/ QueueRequest(p, i)
    \/ EnterFlush(p, i)
    \/ BarrierWait(p, i)
    \/ LeaderAlloc(p, i)
    \/ Distribute(p, i)
    \/ LeaderProceed(p, i)
    \/ Collect(p, i)
    \/ DropInstance(p, i)

Next ==
    \/ \E p \in Parties, i \in Instances : InstanceStep(p, i)
    \/ \E i \in Instances, failed \in SUBSET Parties : InnerFlush(i, failed)
    \/ Finished

(* Executors poll woken tasks, and a peer that is there answers. *)
Fairness ==
    /\ \A p \in Parties, i \in Instances : WF_vars(InstanceStep(p, i))
    /\ \A i \in Instances : WF_vars(InnerFlush(i, {}))

Spec == Init /\ [][Next]_vars /\ Fairness
-----------------------------------------------------------------------------
(* The two ends of a logical thread are handed the same OTs under the same *)
(* transfer ids, whatever the interleaving on either side: what one side   *)
(* has been given is a prefix of what the other has.                       *)
Correlated ==
    \A i \in Instances :
        IsPrefix(out["S"][i], out["R"][i]) \/ IsPrefix(out["R"][i], out["S"][i])

(* The leaders the two parties elect are the two ends of one logical       *)
(* thread and have allocated the same number of OTs, so the inner flush    *)
(* they run over that thread's channel is one protocol run.  (After a      *)
(* failure the session is over: Context::map says as much.)                *)
LeadersAgree ==
    \A i, j \in Instances :
        failures = 0 /\ pc["S"][i] = "inner" /\ pc["R"][j] = "inner" =>
            i = j /\ inner["S"].alloc = inner["R"].alloc

Handed(p, i) ==
    FlattenSeq(out[p][i]) \o mine[p][i] \o buffers[p][i].ots

NoReuse ==
    \A p \in Parties :
        LET all == FoldFunction(LAMBDA s, acc : acc \o s, << >>,
                                [i \in Instances |-> Handed(p, i)])
        IN  Cardinality(ToSet(all)) = Len(all)

Allocated(p, i) ==
    FoldLeft(LAMBDA acc, o : IF o.op = "alloc" THEN acc + o.n ELSE acc, 0,
             SubSeq(program[i], 1, ip[p][i] - 1))

AllocationsKept ==
    \A p \in Parties, i \in Instances :
        Allocated(p, i) = buffers[p][i].count + Len(Handed(p, i))

(* Every OT is accounted for.  A correlation is used once: none is ever    *)
(* held by, or handed to, two clients, or twice to one.  And no allocation *)
(* is lost, not even when the leader of a flush returns early: what an     *)
(* instance asked for with `alloc` is still outstanding or was delivered.  *)
OtsAccounted == NoReuse /\ AllocationsKept

(* If no inner flush fails, every client gets through its program. *)
FlushesReturn == <>(failures > 0 \/ \A p \in Parties : Busy(p) = {})
=============================================================================
