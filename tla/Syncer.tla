------------------------------- MODULE Syncer -------------------------------
(***************************************************************************)
(* The synchronized mutexes of mpz_common::sync: Mutex over Syncer, and    *)
(* AsyncMutex over AsyncSyncer (crates/common/src/sync/{mod,async_syncer,  *)
(* mutex,async_mutex}.rs).                                                 *)
(*                                                                         *)
(* A logical thread exists at both parties.  The leader's thread takes a   *)
(* ticket under the tick lock and sends it over the thread's own channel;  *)
(* the follower's thread receives it and may only run when the queue's     *)
(* tick has reached it.  What they run is the acquisition of the inner     *)
(* mutex.  Syncer sends, then blocks on the inner mutex; AsyncSyncer joins *)
(* the two.                                                                *)
(*                                                                         *)
(* A ticket is modelled by its position in the leader's order; the code    *)
(* sees the position only through Ticket, its value in wrapping u32        *)
(* arithmetic.                                                             *)
(***************************************************************************)
EXTENDS Naturals, Sequences, FiniteSets, SequencesExt

CONSTANTS
    Threads,        \* logical threads
    Rounds,         \* bound: acquisitions per thread
    Modulus,        \* 2^32 in the code
    MaxPending,     \* bound: tickets issued and not yet used by the follower
    MaxFailures     \* bound: failed or cancelled operations

ASSUME SyncerAssumption ==
    /\ Rounds \in Nat /\ Modulus \in Nat \ {0} /\ MaxPending \in Nat
    /\ MaxPending <= Modulus    \* fewer than 2^32 acquisitions are pending
    /\ MaxFailures \in Nat
    /\ "none" \notin Threads

Parties == {"leader", "follower"}

VARIABLES
    async,      \* AsyncMutex over AsyncSyncer, or Mutex over Syncer
    issued,     \* tickets the leader has handed out; its tick is Ticket(issued)
    tickLock,   \* the holder of the leader's tick lock
    queue,      \* the follower's Queue: used (its tick is Ticket(used)), lock, waiting
    chan,       \* chan[t]: tickets in flight on thread t's channel
    pc, pos,    \* pc[p][t], pos[p][t]: the place of a thread, and its ticket
    sent, got,  \* of the leader's thread t: the two branches of its join
    inner,      \* inner[p]: the holder of the protected mutex
    rounds,     \* rounds[p][t]: acquisitions done
    order,      \* history: the threads in the order of their tickets
    log,        \* log[p]: history, the acquisitions of party p in order
    failures

vars == << async, issued, tickLock, queue, chan, pc, pos, sent, got, inner, rounds, order, log, failures >>
leaderVars == << async, issued, tickLock, sent, got, order >>

(* Ticket::increment_in_place wraps around. *)
Ticket(n) == n % Modulus

Both(v) == [p \in Parties |-> [t \in Threads |-> v]]

Init ==
    /\ async \in BOOLEAN
    /\ issued = 0 /\ tickLock = "none"
    /\ queue = [used |-> 0, lock |-> "none", waiting |-> {}]
    /\ chan = [t \in Threads |-> << >>]
    /\ pc = Both("idle") /\ pos = Both(0) /\ rounds = Both(0)
    /\ sent = [t \in Threads |-> FALSE] /\ got = [t \in Threads |-> FALSE]
    /\ inner = [p \in Parties |-> "none"]
    /\ order = << >> /\ log = [p \in Parties |-> << >>]
    /\ failures = 0

At(p, t, l)   == pc[p][t] = l
Goto(p, t, l) == pc' = [pc EXCEPT ![p][t] = l]

(* The acquisition of the inner mutex by thread t of party p. *)
Acquire(p, t) ==
    /\ inner[p] = "none"
    /\ inner' = [inner EXCEPT ![p] = t]
    /\ log' = [log EXCEPT ![p] = Append(@, [thread |-> t, pos |-> pos[p][t]])]
-----------------------------------------------------------------------------
(* Wrong on purpose: the ticket is taken before the lock. *)
LeaderTicketUnlocked(t) ==
    /\ At("leader", t, "idle") /\ rounds["leader"][t] < Rounds
    /\ issued - queue.used < MaxPending
    /\ pos' = [pos EXCEPT !["leader"][t] = issued]
    /\ issued' = issued + 1
    /\ order' = Append(order, t)
    /\ Goto("leader", t, "join")
    /\ UNCHANGED << async, tickLock, queue, chan, sent, got, inner, rounds, log, failures >>

(* Leader::sync: lock the tick, take the ticket. *)
LeaderTicket(t) ==
    /\ At("leader", t, "idle") /\ rounds["leader"][t] < Rounds
    /\ issued - queue.used < MaxPending
    /\ tickLock = "none"
    /\ tickLock' = t
    /\ pos' = [pos EXCEPT !["leader"][t] = issued]
    /\ issued' = issued + 1
    /\ order' = Append(order, t)
    /\ Goto("leader", t, "join")
    /\ UNCHANGED << async, queue, chan, sent, got, inner, rounds, log, failures >>

(* The send completes. *)
LeaderSend(t) ==
    /\ At("leader", t, "join") /\ ~sent[t]
    /\ chan' = [chan EXCEPT ![t] = Append(@, pos["leader"][t])]
    /\ sent' = [sent EXCEPT ![t] = TRUE]
    /\ UNCHANGED << async, issued, tickLock, queue, pc, pos, got, inner, rounds, order, log, failures >>

(* The inner mutex is acquired: after the send, or concurrently with it. *)
LeaderAcquire(t) ==
    /\ At("leader", t, "join") /\ ~got[t]
    /\ async \/ sent[t]
    /\ Acquire("leader", t)
    /\ got' = [got EXCEPT ![t] = TRUE]
    /\ UNCHANGED << async, issued, tickLock, queue, chan, pc, pos, sent, rounds, order, failures >>

Reset(t) ==
    /\ tickLock' = IF tickLock = t THEN "none" ELSE tickLock
    /\ sent' = [sent EXCEPT ![t] = FALSE]
    /\ got' = [got EXCEPT ![t] = FALSE]

(* Both are done: the tick lock is dropped and `lock` returns the guard. *)
LeaderReturn(t) ==
    /\ At("leader", t, "join") /\ sent[t] /\ got[t]
    /\ Reset(t)
    /\ Goto("leader", t, "holding")
    /\ UNCHANGED << async, issued, queue, chan, pos, inner, rounds, order, log, failures >>

(* The send fails, or the future is dropped while sending: the message may *)
(* or may not have left, a guard acquired meanwhile is dropped, the ticket *)
(* is gone.                                                                *)
LeaderFail(t) ==
    /\ At("leader", t, "join") /\ ~sent[t]
    /\ failures < MaxFailures /\ failures' = failures + 1
    /\ chan' \in {chan, [chan EXCEPT ![t] = Append(@, pos["leader"][t])]}
    /\ inner' = IF got[t] THEN [inner EXCEPT !["leader"] = "none"] ELSE inner
    /\ Reset(t)
    /\ Goto("leader", t, "failed")
    /\ UNCHANGED << async, issued, queue, pos, rounds, order, log >>
-----------------------------------------------------------------------------
(* Follower::sync: receive the ticket. *)
FollowerReceive(t) ==
    /\ At("follower", t, "idle") /\ chan[t] # << >>
    /\ pos' = [pos EXCEPT !["follower"][t] = Head(chan[t])]
    /\ chan' = [chan EXCEPT ![t] = Tail(@)]
    /\ Goto("follower", t, "poll")
    /\ UNCHANGED << leaderVars, queue, inner, rounds, log, failures >>

MyTurn(t) == Ticket(queue.used) = Ticket(pos["follower"][t])

(* Wait::poll when the tick is another one: leave a waker (a HashMap keeps *)
(* one per ticket) and be pending.                                         *)
FollowerPollPending(t) ==
    LET k == Ticket(pos["follower"][t]) IN
    /\ At("follower", t, "poll") /\ queue.lock = "none" /\ ~MyTurn(t)
    /\ queue' = [queue EXCEPT !.waiting = { w \in @ : w.tick # k } \cup {[tick |-> k, thread |-> t]}]
    /\ Goto("follower", t, "waiting")
    /\ UNCHANGED << leaderVars, chan, pos, inner, rounds, log, failures >>

(* Wait::poll of Syncer when it is the thread's turn: it runs f with the   *)
(* queue locked, and f blocks until the inner mutex is free.               *)
FollowerPollBlock(t) ==
    /\ ~async
    /\ At("follower", t, "poll") /\ queue.lock = "none" /\ MyTurn(t)
    /\ queue' = [queue EXCEPT !.lock = t]
    /\ Goto("follower", t, "exec")
    /\ UNCHANGED << leaderVars, chan, pos, inner, rounds, log, failures >>

(* Wrong on purpose: the next waiter is looked for under the old tick. *)
FollowerAcquireWakesOld(t) ==
    LET woken == { w \in queue.waiting : w.tick = Ticket(queue.used) } IN
    /\ IF async THEN At("follower", t, "poll") /\ queue.lock = "none" /\ MyTurn(t)
                ELSE At("follower", t, "exec")
    /\ Acquire("follower", t)
    /\ queue' = [used |-> queue.used + 1, lock |-> "none", waiting |-> queue.waiting \ woken]
    /\ pc' = [pc EXCEPT !["follower"] =
                [u \in Threads |-> IF u = t THEN "holding"
                                   ELSE IF @[u] = "waiting" /\ \E w \in woken : w.thread = u
                                        THEN "poll" ELSE @[u]]]
    /\ UNCHANGED << leaderVars, chan, pos, rounds, failures >>

(* The inner mutex is acquired (by Syncer in the blocked poll, by          *)
(* AsyncSyncer in a poll at which it is free), the tick advances and the   *)
(* waker left for it fires.                                                *)
FollowerAcquire(t) ==
    LET woken == { w \in queue.waiting : w.tick = Ticket(queue.used + 1) } IN
    /\ IF async THEN At("follower", t, "poll") /\ queue.lock = "none" /\ MyTurn(t)
                ELSE At("follower", t, "exec")
    /\ Acquire("follower", t)
    /\ queue' = [used |-> queue.used + 1, lock |-> "none", waiting |-> queue.waiting \ woken]
    /\ pc' = [pc EXCEPT !["follower"] =
                [u \in Threads |-> IF u = t THEN "holding"
                                   ELSE IF @[u] = "waiting" /\ \E w \in woken : w.thread = u
                                        THEN "poll" ELSE @[u]]]
    /\ UNCHANGED << leaderVars, chan, pos, rounds, failures >>

(* A pending task is polled although nobody woke it (a join does that). *)
FollowerRepoll(t) ==
    /\ At("follower", t, "waiting")
    /\ Goto("follower", t, "poll")
    /\ UNCHANGED << leaderVars, queue, chan, pos, inner, rounds, log, failures >>

(* The receive fails, or the future is dropped while it is pending. *)
FollowerFail(t) ==
    /\ pc["follower"][t] \in {"idle", "poll", "waiting"}
    /\ failures < MaxFailures /\ failures' = failures + 1
    /\ Goto("follower", t, "failed")
    /\ UNCHANGED << leaderVars, queue, chan, pos, inner, rounds, log >>

(* The client drops the guard. *)
Release(p, t) ==
    /\ At(p, t, "holding")
    /\ inner' = [inner EXCEPT ![p] = "none"]
    /\ rounds' = [rounds EXCEPT ![p][t] = @ + 1]
    /\ Goto(p, t, "idle")
    /\ UNCHANGED << leaderVars, queue, chan, pos, log, failures >>
-----------------------------------------------------------------------------
AllDone == \A p \in Parties, t \in Threads : At(p, t, "idle") /\ rounds[p][t] = Rounds

Leader(t)   == LeaderTicket(t) \/ LeaderSend(t) \/ LeaderAcquire(t) \/ LeaderReturn(t)
Follower(t) == \/ FollowerReceive(t) \/ FollowerPollPending(t)
               \/ FollowerPollBlock(t) \/ FollowerAcquire(t)

Next ==
    \/ \E t \in Threads : Leader(t) \/ Follower(t) \/ FollowerRepoll(t)
    \/ \E t \in Threads : LeaderFail(t) \/ FollowerFail(t)
    \/ \E p \in Parties, t \in Threads : Release(p, t)
    \/ AllDone /\ UNCHANGED vars

(* Tasks that can run are polled, tokio's lock is fair, guards are dropped.*)
(* A spurious poll is never counted on.                                    *)
Fairness ==
    \A t \in Threads :
        /\ SF_vars(LeaderTicket(t)) /\ WF_vars(Leader(t)) /\ WF_vars(Follower(t))
        /\ \A p \in Parties : WF_vars(Release(p, t))

Spec == Init /\ [][Next]_vars /\ Fairness
-----------------------------------------------------------------------------
Promise == INSTANCE SameOrder WITH served <- log

(* The mutexes implement SameOrder: both parties acquire in the order of   *)
(* the tickets, also after sends that failed and operations that were      *)
(* cancelled.                                                              *)
ImplementsSameOrder == Promise!Spec

(* If nothing fails, every acquisition of every thread succeeds at both    *)
(* parties.                                                                *)
EveryoneServed == <>(AllDone \/ failures > 0)
=============================================================================
