----------------------------- MODULE SameOrder ------------------------------
(***************************************************************************)
(* What a synchronized mutex promises (crates/common/src/sync): there is   *)
(* one order, in which the logical threads ask for the lock, and both      *)
(* parties take the lock in it.  A party may have to pass over a place of  *)
(* the order, at most one for each operation that fails or is cancelled;   *)
(* it never takes a place out of turn, nor for another thread, whatever    *)
(* has failed.                                                             *)
(***************************************************************************)
EXTENDS Integers, Sequences, SequencesExt

CONSTANTS Threads, Parties

VARIABLES
    order,     \* the threads in the order in which they ask for the lock
    served,    \* served[p]: the threads party p has served, with their places
    failures   \* how many operations have failed

vars == << order, served, failures >>

Init ==
    /\ order = << >>
    /\ served = [p \in Parties |-> << >>]
    /\ failures = 0

Ask(t) ==
    /\ order' = Append(order, t)
    /\ UNCHANGED << served, failures >>

(* Party p takes the lock at place n, which lies after all it has served;  *)
(* n - Len(served[p]) places have been passed over.                        *)
Serve(p) ==
    \E n \in Len(served[p]) .. Len(served[p]) + failures :
        /\ n < Len(order)
        /\ served[p] # << >> => Last(served[p]).pos < n
        /\ served' = [served EXCEPT ![p] = Append(@, [thread |-> order[n + 1], pos |-> n])]
        /\ UNCHANGED << order, failures >>

Fail ==
    /\ failures' = failures + 1
    /\ UNCHANGED << order, served >>

Next == (\E t \in Threads : Ask(t)) \/ (\E p \in Parties : Serve(p)) \/ Fail

Spec == Init /\ [][Next]_vars
=============================================================================
