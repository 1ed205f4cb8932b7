------------------------------ MODULE HashUse ------------------------------
(***************************************************************************)
(* Two parties hash one message on an ideal virtual machine.  They make    *)
(* the same calls in the same order - A decides, B follows, each at its    *)
(* own pace - and meet in execute_all, where the flushes cross.  Pieces of *)
(* the message are public or private to a party, and may be committed long *)
(* after they were hashed.                                                 *)
(***************************************************************************)
EXTENDS Hashers

CONSTANTS
  Sizes,        \* Sizes[algorithm]: sizes of the pieces, in units
  Kinds,        \* Kinds[algorithm]: their owners, and whether committed at once
  MaxPieces,    \* MaxPieces[algorithm]
  MaxFinals,    \* MaxFinals[algorithm]; only SHA-256 can be finalized twice
  Masks,        \* Masks[algorithm]: whether digests are decoded masked, in the clear, or both
  MaxRuns,      \* calls of execute_all
  MaxCalls,     \* calls in all
  Lag           \* calls A may be ahead of B

VARIABLES
  alg,      \* the hash function
  script,   \* the calls A decided on
  at,       \* at[p]: how many of them party p made
  vm,       \* vm[p]: its machine
  hasher,   \* hasher[p]
  pieces,   \* pieces[p]: the slices of the message, with owner and committed
  finals,   \* finals[p]: the units that were in at each finalize, and whether masked
  stage,    \* stage[p]: idle, run (inside execute_all) or sent (awaiting the flush)
  inbox     \* inbox[p]: flushes on their way to p

vars == <<alg, script, at, vm, hasher, pieces, finals, stage, inbox>>

Party == {"A", "B"}
Peer(p) == CHOOSE q \in Party : q # p
Algorithms == DOMAIN Sizes

Start(a) ==
  CASE a = "sha" -> [vm |-> NewVm, h |-> NewSha]
    [] a = "keccak" -> [vm |-> NewVm, h |-> NewKeccak]
    [] a = "blake3" -> NewBlake3(NewVm)

Init ==
  /\ alg \in Algorithms
  /\ script = <<>>
  /\ at = [p \in Party |-> 0]
  /\ vm = [p \in Party |-> Start(alg).vm]
  /\ hasher = [p \in Party |-> Start(alg).h]
  /\ pieces = [p \in Party |-> <<>>]
  /\ finals = [p \in Party |-> <<>>]
  /\ stage = [p \in Party |-> "idle"]
  /\ inbox = [p \in Party |-> <<>>]

-----------------------------------------------------------------------------
\* The calls.

Units(p) == FoldLeft(LAMBDA n, x : n + x.s.size, 0, pieces[p])
Uncommitted(p) == {i \in DOMAIN pieces[p] : ~pieces[p][i].committed}
Count(op) == Cardinality({i \in DOMAIN script : script[i].op = op})

\* Allocate, mark and, where it is visible, assign a piece of the message.
Place(p, call) ==
  LET a    == AllocRaw(vm[p], call.size)
      data == [i \in 1 .. call.size |-> <<"m", Units(p) + i>>]
      in   == CASE call.owner = "public" -> AssignRaw(MarkPublic(a.vm, a.s), a.s, data)
                [] call.owner = p -> AssignRaw(MarkPrivate(a.vm, a.s), a.s, data)
                [] OTHER -> MarkBlind(a.vm, a.s)
  IN  [vm |-> IF call.now THEN CommitRaw(in, a.s) ELSE in, s |-> a.s]

Absorb(v, h, s) ==
  CASE alg = "sha" -> ShaUpdate(v, h, s)
    [] alg = "keccak" -> KeccakUpdate(v, h, s)
    [] alg = "blake3" -> Blake3Update(v, h, s)

Digest(v, h) ==
  CASE alg = "sha" -> ShaFinalize(v, h)
    [] alg = "keccak" -> KeccakFinalize(v, h)
    [] alg = "blake3" -> Blake3Finalize(v, h)

Update(p, call) ==
  /\ call.op = "update"
  /\ \E in \in {Place(p, call)} :
     \E out \in {Absorb(in.vm, hasher[p], in.s)} :
       /\ vm' = [vm EXCEPT ![p] = out.vm]
       /\ hasher' = [hasher EXCEPT ![p] = out.h]
       /\ pieces' = [pieces EXCEPT ![p] =
                       Append(@, [s |-> in.s, owner |-> call.owner, committed |-> call.now])]
  /\ UNCHANGED <<finals, stage>>

\* The piece that waits longest is committed.
Commit(p, call) ==
  /\ call.op = "commit"
  /\ \E i \in Uncommitted(p) :
       /\ \A j \in Uncommitted(p) : i <= j
       /\ vm' = [vm EXCEPT ![p] = CommitRaw(@, pieces[p][i].s)]
       /\ pieces' = [pieces EXCEPT ![p][i].committed = TRUE]
  /\ UNCHANGED <<hasher, finals, stage>>

CompressNow(p, call) ==
  /\ call.op = "compress"
  /\ \E out \in {ShaCompress(vm[p], hasher[p])} :
       /\ vm' = [vm EXCEPT ![p] = out.vm]
       /\ hasher' = [hasher EXCEPT ![p] = out.h]
  /\ UNCHANGED <<pieces, finals, stage>>

\* A's pad for digest number i.
Pad(i) == <<"pad", i>>

Masked(p, o) ==
  IF p = "A" THEN MaskPrivate(o.vm, o.s, <<Pad(Len(finals[p]) + 1)>>) ELSE MaskBlind(o.vm, o.s)

\* finalize, and decode of the digest, or of the digest under A's pad.
Finalize(p, call) ==
  /\ call.op = "finalize"
  /\ \E dig \in {Digest(vm[p], hasher[p])} :
     \E out \in {IF call.mask THEN Masked(p, dig) ELSE dig} :
       /\ vm' = [vm EXCEPT ![p] = DecodeRaw(out.vm, out.s, Len(finals[p]) + 1)]
       /\ hasher' = [hasher EXCEPT ![p] = dig.h]
  /\ finals' = [finals EXCEPT ![p] = Append(@, [len |-> Units(p), mask |-> call.mask])]
  /\ UNCHANGED <<pieces, stage>>

Enter(p, call) ==
  /\ call.op = "execute"
  /\ stage' = [stage EXCEPT ![p] = "run"]
  /\ UNCHANGED <<vm, hasher, pieces, finals>>

Call(p, call) ==
  /\ stage[p] = "idle"
  /\ at' = [at EXCEPT ![p] = @ + 1]
  /\ \/ Update(p, call)
     \/ Commit(p, call)
     \/ CompressNow(p, call)
     \/ Finalize(p, call)
     \/ Enter(p, call)
  /\ UNCHANGED <<alg, inbox>>

\* What A may do next.  Keccak-256's finalize consumes the hasher, BLAKE3's
\* leaves it without its last chunk.
Open == alg = "sha" \/ Count("finalize") = 0

NextCalls ==
  IF Len(script) = MaxCalls THEN {}
  ELSE (IF Open /\ Count("update") < MaxPieces[alg]
        THEN {[op |-> "update", size |-> n, owner |-> k.owner, now |-> k.now] :
                n \in Sizes[alg], k \in Kinds[alg]}
        ELSE {})
       \cup [op : {"finalize"},
             mask : IF Count("finalize") < MaxFinals[alg] THEN Masks[alg] ELSE {}]
       \cup [op : (IF Uncommitted("A") # {} THEN {"commit"} ELSE {})
                  \cup (IF alg = "sha" /\ Count("compress") = 0 THEN {"compress"} ELSE {})
                  \cup (IF script # <<>> /\ Count("execute") < MaxRuns THEN {"execute"} ELSE {})]

Lead ==
  /\ at["A"] - at["B"] < Lag
  /\ \E call \in NextCalls : script' = Append(script, call) /\ Call("A", call)

Follow ==
  /\ at["B"] < Len(script)
  /\ Call("B", script[at["B"] + 1])
  /\ UNCHANGED script

-----------------------------------------------------------------------------
\* execute_all, by its awaits.

Unmoved == UNCHANGED <<alg, script, at, hasher, pieces, finals>>

FlushSend(p) ==
  /\ stage[p] = "run" /\ WantsFlush(vm[p])
  /\ inbox' = [inbox EXCEPT ![Peer(p)] = Append(@, FlushMsg(vm[p]))]
  /\ vm' = [vm EXCEPT ![p] = SendFlush(@)]
  /\ stage' = [stage EXCEPT ![p] = "sent"]
  /\ Unmoved

FlushReceive(p) ==
  /\ stage[p] = "sent" /\ inbox[p] # <<>>
  /\ vm' = [vm EXCEPT ![p] = ReceiveFlush(@, Head(inbox[p]))]
  /\ inbox' = [inbox EXCEPT ![p] = Tail(@)]
  /\ stage' = [stage EXCEPT ![p] = "run"]
  /\ Unmoved

RunCalls(p) ==
  /\ stage[p] = "run" /\ ~WantsFlush(vm[p]) /\ WantsExecute(vm[p])
  /\ vm' = [vm EXCEPT ![p] = Execute(@)]
  /\ UNCHANGED <<stage, inbox>>
  /\ Unmoved

Leave(p) ==
  /\ stage[p] = "run" /\ ~WantsFlush(vm[p]) /\ ~WantsExecute(vm[p])
  /\ stage' = [stage EXCEPT ![p] = "idle"]
  /\ UNCHANGED <<vm, inbox>>
  /\ Unmoved

Run(p) == FlushSend(p) \/ FlushReceive(p) \/ RunCalls(p) \/ Leave(p)

\* Every call was made and both are out of execute_all.
Finished ==
  /\ NextCalls = {} /\ at["B"] = Len(script) /\ \A p \in Party : stage[p] = "idle"
  /\ UNCHANGED vars

Next == Lead \/ Follow \/ (\E p \in Party : Run(p)) \/ Finished

Spec == Init /\ [][Next]_vars

-----------------------------------------------------------------------------
Reference(msg) ==
  CASE alg = "sha" -> ShaReference(msg)
    [] alg = "keccak" -> KeccakReference(msg)
    [] alg = "blake3" -> Blake3Reference(msg)

\* A digest that is handed out, at either party, is the hash of exactly the
\* units that were in at its finalize: however the message was cut into
\* pieces, whoever owned them, whatever was compressed or executed before;
\* under a one-time pad, it is that hash xored with the pad.
DigestsRight ==
  \A p \in Party : \A i \in DOMAIN vm[p].answers :
    LET a    == vm[p].answers[i]
        want == finals[p][a.id]
        hash == Reference([k \in 1 .. want.len |-> <<"m", k>>])
    IN  a.data = << IF want.mask THEN <<"xor", hash, Pad(a.id)>> ELSE hash >>

\* No call is refused, and when a party comes out of execute_all with every
\* piece committed, no digest it asked for is still waiting.
DecodesAnswered ==
  \A p \in Party :
    /\ ~vm[p].refused
    /\ (/\ stage[p] = "idle" /\ at[p] > 0 /\ Uncommitted(p) = {}
        /\ script[at[p]].op = "execute") => vm[p].decodes = <<>>
=============================================================================
