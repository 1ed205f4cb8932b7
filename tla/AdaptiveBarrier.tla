-------------------------- MODULE AdaptiveBarrier ---------------------------
(***************************************************************************)
(* mpz_common::sync::AdaptiveBarrier (crates/common/src/sync/barrier.rs):  *)
(* a barrier whose number of participants is the number of live clones.    *)
(*                                                                         *)
(* An instance calls `wait`; the last to arrive makes the waiter with the  *)
(* highest id the leader by sending it the other waiters; the others are   *)
(* released only when the leader calls `proceed`, or drops the result.     *)
(*                                                                         *)
(* `Next` is the discipline the documentation asks for (no clone while     *)
(* instances wait) plus the one it does not mention and the code needs (no *)
(* instance is dropped, and no `wait` future cancelled, during a round).   *)
(* `NextDrop` adds drops during a round, which Rust lets a caller do.      *)
(***************************************************************************)
EXTENDS BarrierState

CONSTANT MaxInstances      \* bound: clones ever created

ASSUME MaxInstancesAssumption == MaxInstances \in Nat \ {0}

VARIABLES
    bar,        \* the shared `State`
    phase,      \* phase[i]: where instance i is
    held        \* the waiters inside the current leader's BarrierResult

vars == << bar, phase, held >>

Instances == 0 .. MaxInstances - 1

(* "absent": not created yet, or dropped.  "idle": not inside `wait`.      *)
(* "waiting": in bar.waiters.  "elected": the Leader message is in its     *)
(* channel.  "leader": it holds the Leader result.  "parked": it is inside *)
(* the leader's Waiters value.  "released": its channel has a Waiter       *)
(* message or is closed.                                                   *)
Phases == {"absent", "idle", "waiting", "elected", "leader", "parked", "released"}

In(ps) == { i \in Instances : phase[i] \in ps }
Live   == Instances \ In({"absent"})

(* AdaptiveBarrier::new. *)
Init ==
    /\ bar = Register(EmptyBarrier)
    /\ phase = [i \in Instances |-> IF i = 0 THEN "idle" ELSE "absent"]
    /\ held = {}

-----------------------------------------------------------------------------
(* The first poll of `wait`. *)

(* Early return: the only live instance is its own leader. *)
WaitAlone(i) ==
    /\ phase[i] = "idle"
    /\ bar.alive = 1
    /\ phase' = [phase EXCEPT ![i] = "leader"]
    /\ UNCHANGED << bar, held >>

(* The instance arrives and others are still expected. *)
WaitArrive(i) ==
    /\ phase[i] = "idle"
    /\ bar.alive # 1
    /\ ~IsReady(Enter(bar, i))
    /\ bar' = Enter(bar, i)
    /\ phase' = [phase EXCEPT ![i] = "waiting"]
    /\ UNCHANGED held

(* The instance is the last to arrive: `wake_leader`. *)
WaitLast(i) ==
    LET b == Enter(bar, i) IN
    /\ phase[i] = "idle"
    /\ bar.alive # 1
    /\ IsReady(b)
    /\ LeaderOf(b).open
    /\ bar' = Cleared(b)
    /\ phase' = [j \in Instances |->
                   IF j = LeaderOf(b).id THEN "elected"
                   ELSE IF j \in Followers(b) THEN "parked"
                   ELSE phase[j]]
    /\ held' = Followers(b)

(* The future is polled with a message, or the closing of the channel, in  *)
(* it: `wait` returns Leader(waiters) or Waiter.                           *)
WaitReturn(i) ==
    /\ phase[i] \in {"elected", "released"}
    /\ phase' = [phase EXCEPT ![i] = IF @ = "elected" THEN "leader" ELSE "idle"]
    /\ UNCHANGED << bar, held >>

(* Wrong on purpose: the leader goes on and its waiters are lost. *)
ProceedLosesWaiters(i) ==
    /\ phase[i] = "leader"
    /\ phase' = [phase EXCEPT ![i] = "idle"]
    /\ held' = {}
    /\ UNCHANGED bar

(* `BarrierResult::proceed`, or the drop of the result: either way every   *)
(* waiter's channel is resolved and `wait` returns Waiter.                 *)
Proceed(i) ==
    /\ phase[i] = "leader"
    /\ phase' = [j \in Instances |->
                   IF j = i THEN "idle"
                   ELSE IF j \in held THEN "released" ELSE phase[j]]
    /\ held' = {}
    /\ UNCHANGED bar

(* `clone` through instance i, which must not be borrowed by a `wait`. *)
Clone(i) ==
    /\ phase[i] \in {"idle", "leader"}
    /\ ~IsPending(bar)
    /\ bar.id_next < MaxInstances
    /\ bar' = Register(bar)
    /\ phase' = [phase EXCEPT ![bar.id_next] = "idle"]
    /\ UNCHANGED held

(* `drop` of an instance. *)
DropInstance(i) ==
    /\ phase[i] = "idle"
    /\ bar' = Deregister(bar)
    /\ phase' = [phase EXCEPT ![i] = "absent"]
    /\ UNCHANGED held

DropBetweenRounds(i) == ~IsPending(bar) /\ DropInstance(i)

DropDuringRound(i) == IsPending(bar) /\ DropInstance(i)

-----------------------------------------------------------------------------
(* Every instance is dropped: nothing can happen any more. *)
AllDropped == Live = {} /\ UNCHANGED vars

Step(i) ==
    \/ WaitAlone(i)
    \/ WaitArrive(i)
    \/ WaitLast(i)
    \/ WaitReturn(i)
    \/ Proceed(i)
    \/ Clone(i)
    \/ DropBetweenRounds(i)

Next       == (\E i \in Instances : Step(i)) \/ AllDropped
NextDrop   == Next \/ \E i \in Instances : DropDuringRound(i)

(* An executor polls a future whose waker fired, a caller that got the     *)
(* leader's result ends its critical section, and an instance takes part   *)
(* in a round that another one opened (the collective discipline).         *)
Fairness ==
    \A i \in Instances :
        /\ WF_vars(WaitReturn(i))
        /\ WF_vars(Proceed(i))
        /\ WF_vars(IsPending(bar) /\ (WaitArrive(i) \/ WaitLast(i)))

Spec       == Init /\ [][Next]_vars /\ Fairness
SpecDrop   == Init /\ [][NextDrop]_vars /\ Fairness
-----------------------------------------------------------------------------

TypeOK ==
    /\ bar \in BarrierType
    /\ phase \in [Instances -> Phases]
    /\ held \subseteq Instances

(* "Waits until all instances of the barrier have arrived": from the       *)
(* moment a leader is elected until it looks at its result, every other    *)
(* live instance is parked behind it.                                      *)
ElectionIsComplete ==
    \A i \in In({"elected"}) :
        /\ held = Live \ {i}
        /\ \A j \in held : phase[j] = "parked" /\ j < i

(* At most one instance is between election and `proceed`, and exactly     *)
(* the instances inside its result are parked: nobody is parked behind a   *)
(* result that no longer exists, and nobody overtakes the leader.          *)
OneLeader ==
    /\ \A i, j \in In({"elected", "leader"}) : i = j
    /\ In({"parked"}) = held
    /\ held # {} => In({"elected", "leader"}) # {}

(* The counters agree with the instances they count: `alive` with the live *)
(* clones; during a round `arrived` with the waiting ones and `expected`   *)
(* with those that must still come plus those that came.                   *)
CountersAgree ==
    /\ bar.alive = Cardinality(Live)
    /\ bar.arrived = Cardinality(In({"waiting"}))
    /\ IsPending(bar) => bar.expected = bar.alive

(* The round in progress is not complete: if every live instance waits at  *)
(* the barrier, the leader has been elected.  Otherwise nobody will ever   *)
(* wake anybody.                                                           *)
NoStrandedRound ==
    IsPending(bar) => \E i \in Live : phase[i] # "waiting"

(* Nobody waits for ever: an instance at the barrier gets past it. *)
WaitersReturn ==
    \A i \in Instances : phase[i] = "waiting" ~> phase[i] \in {"idle", "leader"}
=============================================================================
