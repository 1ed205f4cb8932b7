---------------------------- MODULE BarrierState ----------------------------
(***************************************************************************)
(* The mutex-protected `State` of mpz_common::sync::AdaptiveBarrier        *)
(* (crates/common/src/sync/barrier.rs) as a value, and the methods of      *)
(* `State` as operators on it.  Every method runs under the state's mutex, *)
(* so each of these operators is one atomic step wherever it is used: in   *)
(* AdaptiveBarrier (the barrier alone) and in SharedRcot (the barrier as   *)
(* the collective flush of the shared RCOT uses it).                       *)
(*                                                                         *)
(* A waiter is the pair of the instance's id and the sending half of a     *)
(* oneshot channel.  All that matters about the channel is whether its     *)
(* receiving half still exists: `open` is FALSE once the future returned   *)
(* by `wait` was dropped.                                                  *)
(***************************************************************************)
EXTENDS Naturals, Sequences, FiniteSets

Waiter == [id : Nat, open : BOOLEAN]

(* The `State` struct. *)
BarrierType ==
    [ alive    : Nat,          \* number of live clones
      id_next  : Nat,          \* next clone id
      arrived  : Nat,          \* clones that have arrived in this round
      expected : Nat,          \* clones expected to arrive in this round
      waiters  : Seq(Waiter) ]

EmptyBarrier ==
    [alive |-> 0, id_next |-> 0, arrived |-> 0, expected |-> 0, waiters |-> << >>]

IsPending(b) == b.arrived # 0

(* Wrong on purpose: the round opens when one instance is still missing. *)
IsReadyEarly(b) == b.arrived + 1 >= b.expected

IsReady(b) == b.arrived = b.expected

(* `register`, past its panic on a pending barrier: the new clone has id   *)
(* b.id_next.                                                              *)
Register(b) == [b EXCEPT !.id_next = @ + 1, !.alive = @ + 1]

(* `deregister`.  It adjusts the count of a round in progress and does     *)
(* nothing else: whether that makes the round complete is not looked at.   *)
Deregister(b) ==
    [b EXCEPT !.alive    = @ - 1,
              !.expected = IF IsPending(b) THEN @ - 1 ELSE @]

(* Wrong on purpose: `start` does not count the instance that starts. *)
EnterExpectsOneMore(b, i) ==
    [b EXCEPT !.arrived  = IF IsPending(b) THEN @ + 1 ELSE 1,
              !.expected = IF IsPending(b) THEN @ ELSE b.alive + 1,
              !.waiters  = Append(@, [id |-> i, open |-> TRUE])]

(* The locked section of `wait` up to the readiness test: `start` or       *)
(* `arrive`, then the push of a fresh waiter.                              *)
Enter(b, i) ==
    [b EXCEPT !.arrived  = IF IsPending(b) THEN @ + 1 ELSE 1,
              !.expected = IF IsPending(b) THEN @ ELSE b.alive,
              !.waiters  = Append(@, [id |-> i, open |-> TRUE])]

(* The index of the waiter `wake_leader` pops: the sort by id is stable,   *)
(* so it is the latest entry of the highest id.                            *)
LeaderIndex(b) ==
    CHOOSE k \in DOMAIN b.waiters :
        \A m \in DOMAIN b.waiters :
            \/ b.waiters[m].id < b.waiters[k].id
            \/ b.waiters[m].id = b.waiters[k].id /\ m <= k

LeaderOf(b) == b.waiters[LeaderIndex(b)]

(* The ids the leader's `Waiters` value can still wake. *)
Followers(b) ==
    { b.waiters[k].id : k \in { m \in DOMAIN b.waiters :
                                  m # LeaderIndex(b) /\ b.waiters[m].open } }

(* The state `wake_leader` leaves behind when the leader could be told. *)
Cleared(b) == [b EXCEPT !.arrived = 0, !.expected = 0, !.waiters = << >>]
=============================================================================
