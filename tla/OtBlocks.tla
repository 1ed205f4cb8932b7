------------------------------ MODULE OtBlocks ------------------------------
(***************************************************************************)
(* The data of the oblivious-transfer protocols, symbolically.  A 128-bit  *)
(* block is a vector of Csp rows; a row is a sum over GF(2) of independent *)
(* terms, so it is the set of the terms that occur in it an odd number of  *)
(* times.  Two blocks are equal exactly when the program's blocks are      *)
(* equal for every choice of the random values the terms stand for.       *)
(*                                                                         *)
(* An endpoint that hands out correlations is a record with a pool of them,*)
(* a queue of requests, the next transfer id and the outputs it has sent   *)
(* (`done': the values sent into the oneshot channels of the futures).     *)
(***************************************************************************)
EXTENDS Integers, SequencesExt

CONSTANTS
  Csp,        \* rows of a block (CSP = 128 in the code)
  DeltaBits   \* the sender's correlation, one bit per row

ASSUME OtBlocksAssumption == /\ Csp \in Nat \ {0}
                             /\ DeltaBits \in [1..Csp -> BOOLEAN]

Rows == 1..Csp
One  == <<"one", 0, 0, 0>>

\* Sum of two rows, and of two blocks.
Plus(a, b)  == (a \ b) \cup (b \ a)
BXor(a, b)  == [i \in Rows |-> Plus(a[i], b[i])]
ZeroBlock   == [i \in Rows |-> {}]
Term(a)     == [i \in Rows |-> {a}]
DeltaBlock  == [i \in Rows |-> IF DeltaBits[i] THEN {One} ELSE {}]
MaskBit(c, b) == IF c THEN b ELSE ZeroBlock

\* A bit of the stream that Prg::from_seed(seed) produces.
PrgBit(seed, j) == {<<"prg", seed, j, 0>>}

\* The bits a receiver draws; both values occur in every pair of draws.
RandomBit(j) == j % 2 = 1

\* TransferId::next: the id handed out, and the counter after it.
NextId(s) == s.tid + 1

\* Answers request r of n correlations from the front of the pool.
TakeFront(s, r, n) ==
  [s EXCEPT !.pool = SubSeq(@, n + 1, Len(@)),
            !.tid  = NextId(s),
            !.done = Append(@, [req |-> r, id |-> s.tid, data |-> SubSeq(s.pool, 1, n)])]

\* Answers request r of n correlations from the back of the pool.
TakeBack(s, r, n) ==
  [s EXCEPT !.pool = SubSeq(@, 1, Len(@) - n),
            !.tid  = NextId(s),
            !.done = Append(@, [req |-> r, id |-> s.tid,
                                data |-> SubSeq(s.pool, Len(s.pool) - n + 1, Len(s.pool))])]

\* The requests of a queue can all be answered from the pool.
Sum(q) == FoldSeq(LAMBDA e, acc : e.count + acc, 0, q)
Covers(s) == Sum(s.queue) <= Len(s.pool)

\* An endpoint with nothing in it.
EmptyPool == [pool |-> <<>>, queue |-> <<>>, tid |-> 0, done |-> <<>>]

=============================================================================
