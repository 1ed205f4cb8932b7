---------------------------- MODULE MCSharedRcot ----------------------------
(* Client programs for SharedRcot: two flushes each, every flush after an  *)
(* allocation of the instance's own, as crates/ot/src/test.rs::test_rcot   *)
(* does, with requests before and after the flush and OTs left over from   *)
(* one round to the next.                                                  *)
EXTENDS SharedRcot

alloc(n)   == [op |-> "alloc", n |-> n]
request(n) == [op |-> "request", n |-> n]
flush      == [op |-> "flush", n |-> 0]

TwoRounds ==
    { << alloc(1), request(1), flush, alloc(2), flush, request(1) >>,
      << alloc(2), flush, alloc(1), request(2), request(1), flush >> }
=============================================================================
