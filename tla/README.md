# A TLA+ development of mpz2

mpz2 is a collection of Rust crates for secure two-party computation: an
execution layer (contexts, threads, synchronisation), correlated randomness
(oblivious transfer, oblivious linear evaluation), and virtual machines whose
memory is shared by two parties (garbled circuits, zero knowledge). This
directory models the parts of it that are state machines, checks them with TLC
on small instances and proves theorems about them with TLAPS. `PROJECT.json`
lists components, runs, hazards, theorems, findings and, for every definition
that models code, the lines it models.

## The system

| Component | State | Operations | Talks to | What is hard |
|---|---|---|---|---|
| `common::sync::barrier` (`AdaptiveBarrier`) | live instances, round in progress, waiters | `wait`, `proceed`, clone, drop | instances of one handle, through a mutex and one-shot channels | number of participants changes; leader election; nobody may be left behind |
| `common::sync` (`Syncer`, `AsyncSyncer`, `Mutex`, `AsyncMutex`) | leader's tick, follower's queue of wakers | `sync`, `lock` | the same logical thread at the peer, by a ticket per operation | threads run in different orders at the two parties; wrap-around; wake-ups |
| `common::thread_pool` | injector, worker queues, parked flags, shutdown flag | spawn, schedule, steal, park, shutdown | tasks, workers | lost wake-ups, relaxed loads, shutdown racing everything |
| `common::{context,session,id,mux}` | context ids, fork counters, channels | `map`, `join`, `try_join*`, `new_context` | peer with the same program; thread pool | both parties must derive the same channels, also after failures and cancellation |
| `common::future` | a one-shot channel, maps over it | `try_recv`, poll, `map` | the protocol that sends | asked too early, dropped |
| `ot::rcot::shared` | inner RCOT, buffers per instance, barrier | `alloc`, `queue`, `flush`, clone, drop | all instances of the party, the peer | a collective flush with failures; who gets which OT |
| `memory-core` | stores, visibility, keys, MACs | `try_set`, `try_get`, `set_*`, `prove`, `verify` | the VMs | data set twice; bits and keys at the wrong address |
| `garble`, `garble-core`, `vm-core` | view, stores, call stack, preprocessed calls | `alloc`, `mark_*`, `assign`, `commit`, `decode`, `call`, `flush`, `preprocess`, `execute_all` | the other party; correlated OT | the two parties keep step although messages carry no addresses |
| `zk`, `zk-core` | view, stores, call stack, transcript | as above, with chunks and consistency checks | the other party; RCOT | accounting of OTs, equal chunks on both sides |
| `ideal-vm` | view, store, call stack | as above | the other party | decodes asked for before or after their call |
| `ot`, `ot-core` | allocated, available and queued OTs, protocol state | `alloc`, `queue_*`, `try_*`, `flush` | the other party, the OT below | state taken out during a flush; queues that drain in step; correlations used once |
| `ole`, `share-conversion` | queues over OTs and OLEs | `alloc`, `queue_*`, `flush` | the layer below | as above; shares without inverse |
| `cointoss` | typestate | commit, reveal, open | the other party | order of messages |
| `circuits-core` | builder, circuit | add inputs, gates and outputs, build, parse, evaluate | the VMs | constant folding and renumbering |
| `hash` | buffered blocks, chaining state, stack of subtrees | `update`, `compress`, `finalize` | a VM | block and chunk boundaries |
| `fields`, `clmul`, `core::block` | none | products, squares, inner products, inverses, in several backends | every protocol | carries, overflow and deferred steps that only rare operands show |
| `matrix-transpose` | two buffers, written in turn | `transpose_bits` | KOS | parity of the number of rounds; short rows |
| `lpn-estimator`, the rest of `core` | none to speak of | pure functions | - | arithmetic, not state |

What makes the modelled components correct:

* barrier: no leader before every live instance has arrived, and a complete
  round is opened;
* shared RCOT: both parties give an instance the same OTs, every OT is in one
  place and none is lost when a flush fails, and every flush returns;
* syncer: both parties run the protected operations in one order, also after
  failures, and every thread is served if nothing fails;
* thread pool: a runnable is run or cancelled once, scheduled tasks run,
  shutdown ends every worker;
* contexts: counterpart tasks share a channel that nobody else uses, work reads
  what its counterpart sent, operations return;
* OT, OLE, share conversion, coin toss: the two halves of every output belong
  together, nothing is used twice, honest parties do not fail, a flush answers
  what was queued;
* garbled-circuit VM: the parties decode what the inputs determine and nothing
  that was not asked for, never fail, and return; a garbled circuit yields the
  MACs of what the circuit computes;
* zero-knowledge VM: the verifier decodes only what the inputs determine, even
  from a prover that computes a gate wrongly; an honest prover never fails; OTs
  neither run out nor pile up;
* field arithmetic: all backends compute in the same field; a transposed bit
  is where it belongs;
* gadgets: a digest is the hash of what was put in, however it was cut; a
  circuit computes what its gates or its file say.

## Modules

| Module | Models | Uses |
|---|---|---|
| `BarrierState` | `State` of the barrier and its methods, as operators | |
| `AdaptiveBarrier` | every call on a barrier instance, as an action | `BarrierState` |
| `AdaptiveBarrier_proofs` | theorems about it | `AdaptiveBarrier` |
| `SharedRcot`, `MCSharedRcot` | both parties of the shared RCOT, with the barrier inside | `BarrierState` |
| `SameOrder` | abstract: what a synchronized mutex promises | |
| `Syncer` | both parties of the (async) syncer and mutex; implements `SameOrder` | `SameOrder` |
| `Syncer_proofs` | its invariant and the refinement | `Syncer` |
| `ThreadPool` | workers, clients, schedule callbacks, shutdown | |
| `ThreadPool_proofs` | no runnable is lost or duplicated | `ThreadPool` |
| `Context`, `MCContext` | sessions, contexts, forks and lanes of two parties | |
| `Context_proofs` | counterpart tasks share a channel; nothing below a refused operation is ever sent | `Context` |
| `ContextAnswers_proofs` | work reads what its counterpart sent, results come back in input order | `Context_proofs` |
| `OutputFuture` | outputs and maps over them | |
| `MemoryCore` | slices, stores, visibility, keys and MACs, as operators | |
| `GarbleView` | the memory view of one party, as operators | `MemoryCore` |
| `GarbleVm`, `MCGarble` | garbler and evaluator | `GarbleView` |
| `GarbleVm_proofs` | nothing is revealed that nobody asked for, no operation fails, no decode is forgotten, what is decoded is what the circuits compute | `GarbleVm` |
| `ZkCore` | blocks, MACs and keys, circuit evaluation on them, the consistency check, the memory view of one party, as operators | `MemoryCore` |
| `ZkVm`, `MCZk` | prover and verifier over the ideal RCOT | `ZkCore` |
| `ZkVm_proofs` | no decode is forgotten; what a verifier decodes is what the inputs determine, whatever the prover computes wrongly; OTs are neither short nor made in vain | `ZkVm` |
| `LockStep` | environment: two parties with one program over a link that may fail | |
| `OtBlocks` | symbolic blocks; pools and queues of correlations | |
| `IdealOts` | the ideal OT, ROT, COT, RCOT and emp's RCOT; randomization, `any` | `OtBlocks` |
| `Kos` | Chou-Orlandi base OT and the KOS extension, message by message, as operators | `OtBlocks` |
| `Ferret` | GGM tree, LPN encoder, single-point COT and its check; commitment and coin toss; Ferret, message by message, as operators | `IdealOts` |
| `OtStack`, `MCOtStack` | derandomization of ROTs and RCOTs; two parties running a stack of OT protocols | `Kos`, `Ferret`, `LockStep` |
| `BinaryField` | carry-less multiplication in four backends, `Block`'s field operations; GF(2^64) and GF(2^128) in three backends, done by all of them side by side | |
| `Transpose` | `transpose_bits`, round by round | |
| `Role`, `ShareConversion` | a small prime field, random OLE, its adjustment; A2M and M2A | `IdealOts` |
| `OleStack`, `MCOleStack` | two parties running these, and `CallSync` | `ShareConversion`, `LockStep` |
| `IdealVm` | the ideal machine of one party, one-time pads, as operators | |
| `Hashers`, `HashUse` | SHA-256, Keccak-256, BLAKE3 on it; two parties hashing | `IdealVm` |
| `Circuits` | builder, parser, evaluation, word gadgets | |
| `HalfGates` | garbling, batches, evaluation of a garbled circuit | `Circuits` |
| `HalfGates_proofs` | half gates are correct | `HalfGates` |
| `CircuitUse` | BLAKE3 compression as a circuit; circuits made by hand, from files and by gadgets | `HalfGates` |
| `Gadgets`, `MCGadgets` | hashing, circuits, binary fields and transposition in one specification | `HashUse`, `CircuitUse`, `BinaryField`, `Transpose` |

### AdaptiveBarrier

`bar` is the mutex-protected `State`; `phase[i]` says where instance `i` is in
`wait`, which stands for the state of its one-shot channel. A method that runs
under the mutex is one action. `Next` is the discipline the documentation asks
for plus one it does not mention (no drop during a round); `NextDrop` adds what
Rust allows. A `wait` that is dropped while it waits is not modelled.

### SharedRcot

Two parties with N instances each; instance `i` of both sides runs the same
client program. An OT is its index in the inner RCOT, so that "sender and
receiver hold the same OT" is equality. The leader's steps (lock, inner flush,
distribution, `proceed`) are actions of their own, because other instances run
in between. The inner flush is what it promises: both sides exchange, or one
side fails.

### Syncer

A ticket is its position in the leader's order; the code only sees
`Ticket(position)`, its value modulo `Modulus` (2^32 in the code, 3 in the run).
The tick lock, the channels and the waker map are explicit. A cancelled or
failed operation stops its thread. `order` and `log` are history: which thread
took each ticket, and what each party has served. `SameOrder` promises of them that
both parties serve the threads in the order of the tickets; each failure lets a
party pass over one place, and nothing else does.

### ThreadPool

One action per access to shared memory. SeqCst accesses are atomic; a Relaxed
load of `shutdown` may return the old value until the worker has consumed an
unpark token of `shutdown`. `async_task` and crossbeam are external.

### Context

A task is a piece of the program with a context: a channel, an id and a fork
counter. `map`, `join` and `try_join` fork child tasks, whose ids come from the
counter; the multiplexer pairs channels of the two parties by id and may refuse
to open one. Messages are the path of the work that sends them, so that a
message read by other work shows. Tasks of a pool interleave freely; a `try_join`
that fails drops its other branches wherever they are.

### OtStack and OleStack

Both parties make the same calls in the same order (`LockStep`), chosen by the
party that is ahead; how far it is ahead is bounded by messages only. A flush is
cut at every await. A block is a vector of rows, each a sum over GF(2) of
independent terms, modelled as the set of terms that occur in it; blocks of the
model are equal exactly if the program's are for every value of the random
terms. Checks by random linear combinations compare coefficient by coefficient.
A party may deviate once (KOS: a wrong row of an extension; Ferret: a
wrong choice bit, correction or opening; coin toss: another opening) and the link may fail once. `Role` and
`ShareConversion` compute in a field of 5 elements with 3 bits per element, so
that choice bits can spell numbers beyond the modulus.

### GarbleVm

The two applications call the same memory operations in the same order, and
these touch no shared state, so one action applies an operation to both
machines. `flush`, `preprocess` and `execute_all` then run per party: `pc[p]`
says where. Keys are identified with addresses; a MAC is a key and a bit; a
proof binds exactly the MACs it was made of, and a commitment exactly its key
and bit. Evaluating a garbled circuit on the right MACs gives the MAC of the
circuit's output bit, on any other MACs nothing useful. The messages are
sequences without addresses, as in the code: each side spreads what it receives
over its own ranges. An error stops the party (`err`).

### ZkVm

As in `GarbleVm`, one action applies a memory operation to both machines, and
`flush`, `execute` and `execute_all` run per party: `pc[p]` is the place in the
code, `ret[p]` where a flush returns to (the application, the loop of
`execute_all`, or the batches of a chunk), `home[p]` where `execute` returns to.
A block is a sum of independent terms and is modelled by the set of their names,
so that exclusive-or is symmetric difference and the code's blocks are equal
exactly if the model's are; pointer bits, `adjust` and the constants for public
data are kept as they are. Circuits are evaluated gate by gate on MACs and on
keys. The check is abstracted to what it tests: the random combination of the
gates' differences vanishes only if each difference does, given equal
transcripts and OTs on both sides. The calls of a batch are concurrent tasks that
finish in any order. A faulty prover claims the wrong output for an AND gate
and follows the protocol otherwise; `faults` counts this. The message with
adjustment bits of a call is one message (the code streams it in pieces of
8000 bits).

### HashUse and CircuitUse

Two ideal machines are driven by one script, one party ahead of the other, and
meet in `execute_all`. Message units and compression are symbolic, so a digest is
the tree of compressions that made it, and is compared with a reference written
from the definition of the hash function. Blocks are 2 or 3 units, chunks 4.

`CircuitUse` grows circuits gate by gate, line by line or gadget by gadget and
keeps beside every node the set of inputs on which it should be true. The
circuits are built or parsed, evaluated on every input, garbled with every
choice of pointer bits, sent in batches and evaluated on the MACs of every
input. BLAKE3 runs on words of 3 bits with its real permutation and round count.

### BinaryField and Transpose

A word is the set of its bits that are set, so that 64 and 128 bits are the
widths of the code and exclusive-or is symmetric difference. Integer
multiplication with wrap-around is computed with its carries. The instructions of
x86, ARM and WASM are what their manuals say (external). Every operation is done
by all backends and by the definition of the field (products of polynomials, and
remainders from a table of powers of x); inversion is run round by round.

`Transpose` moves symbolic bits: a bit is the place in the input it comes from,
so that one execution stands for every content of the matrix.

## Runs

| Run | Bounds | Properties |
|---|---|---|
| `barrier` | 5 instances | `ElectionIsComplete`, `NoStrandedRound`, `WaitersReturn` |
| `shared_rcot` | 2 instances per party, two rounds, 1 failure | `Correlated`, `LeadersAgree`, `OtsAccounted`, `FlushesReturn` |
| `pool` | 2 workers, 2 tasks, 2 schedules | `OneRunnable`, `ScheduledRuns`, `WorkersExit` |
| `pool_shutdown_race` (violation) | 1 worker | `NothingStranded`: a push that loses the race with `shutdown` stays queued |
| `syncer` | 3 threads, 2 rounds, modulus 3, 1 failure | `ImplementsSameOrder`, `EveryoneServed` |
| `context` | 12 sessions (`MCContext`), channels of 2 messages, 1 refused open | `RightAnswers`, `CounterpartsMeet`, `AllLanesOrNone`, `EveryOperationReturns` |
| `output_map` (violation) | 2 maps, 2 tries | `SentIsNotCanceled`: a mapped output tried too early is canceled for the reader, although it is sent |
| `ot` | 13 stacks, 5 calls of count 1 or 2, blocks of 2 rows, LPN parameters (8,2,2), (16,2,2), (16,2,4), 1 deviation, 1 link failure | `Correlated`, `NoReuse`, `NoFault`, `Answered`, `NoStall` |
| `ole` | 5 stacks, 5 calls of count 1 or 2, field of 5 | `Correlated`, `SharesUsedOnce`, `NoFault`, `Answered`, no deadlock |
| `garble` | inputs of 2, 1 and 1 addresses (garbler's, evaluator's, public), 2 dependent calls, 2 decodes, 2 joint operations | `NoFailure`, `DecodesTruth`, `OnlyDecoded`, `NoDecodeForgotten`, `Returns` |
| `zk` | a private input of 2 bits and a public one; 3 calls with 2, 1 and 0 AND gates, the last needs an output; window of 3 gates, batches of 2; 1 decode, 2 joint operations, at most 1 fault | `NoFailure`, `Soundness`, `OtBudget`, `NoDecodeForgotten`, `Returns` |
| `gadgets` | messages of up to 3 pieces ending before, at and after a boundary, up to 5 chunks; 2 executions; circuits of 2 inputs and 2 gates, files of 3 lines, words of 3 bits; 5 elements per binary field, vectors of up to 5, chunks of 2; matrices of 1 to 32 rows of 4 to 32 bytes, registers of 1, 16 and 32 bytes | `DigestsRight`, `DecodesAnswered`, `BuiltComputes`, `GarblingRight`, `BackendsRight` |

Why the bounds are enough to see the interesting cases. Five instances let
clones and drops happen before, between and after rounds with at least two
waiters besides the leader. Two instances and two rounds let leftovers of the
first round, its failure included, meet the allocations of the second. Two
workers suffice for every order of announce, test, park and unpark against a
push, and for stealing. Modulus 3 with at most two pending tickets wraps around
while both tickets are in use. The sessions of `context` hold more items than
lanes, an empty map, nesting inside a shared lane, failing branches with work
after them, two contexts, and the single-channel mode. Five calls are allocate,
queue, flush and two more, so that a second flush meets what the first left
over; counts of one and two with KOS batches of two and small LPN parameters give
requests that span extensions and Ferret rounds that bootstrap, extend and
extend again. In `garble`, an input of which a part can be
committed and decoded before the rest, one input of each owner, a call that
needs an earlier call's output, and two joint operations with decodes before,
between and after them reach every order in which decode, commit, preprocess
and execute can meet. In `zk`, calls of different sizes, of which some are ready and
some are not, give chunks with and without a partial batch, tasks that overlap,
OTs registered by `call_raw`, by `execute` and by both, and checks that `call_raw`
counts for a call that joins another batch in the end. In `gadgets`, five chunks
merge subtrees of both depths and leave one on the stack. In its field
arithmetic words with all bits set produce the most carries a multiplication
with holes can meet, and bits at the top of words everything the reductions
push out; five elements in chunks of two leave a short last chunk, and three
are below the threshold of two chunks. Products and sums are bilinear, so few
elements tell much, but this is not a check of all elements. In its
transpositions 8, 16 and 32 rows give odd and even numbers of rounds, and rows
are one, several or half a register long.

In `garble` every input is marked and assigned before the rest happens, and an
application does not decode a part of a slice a second time before the whole
slice is committed. In `ot` an application allocates what it uses (`AllocAdds =
FALSE`: Ferret's allocation is taken as the code takes it, see below). In `ole`
the link does not fail.

Deadlock checking is off where an execution may end: clients of `SharedRcot` and
`Syncer` finish their programs, readers of `OutputFuture` stop trying, tasks of
`Context` finish or wait for a peer that failed, and the applications of `GarbleVm` and
`ZkVm` run out of operations. `OtStack`, `OleStack` and `HashUse` have an explicit end
instead, so a flush that waits for ever shows as a deadlock.

### Fairness

* Barrier: a leader that was elected takes its message and proceeds, and an
  instance joins a round that another one opened; weak fairness is on
  the steps inside `wait` and `proceed`, which the executor polls until ready.
* Shared RCOT and syncer: weak fairness per instance or thread: a woken future is
  polled. `LeaderTicket` of the syncer is strongly fair, because it takes a lock
  that others take and release in between, and waiters of that lock queue.
* Thread pool: weak fairness per worker and per thread inside a callback: the
  operating system runs every thread.
* Context: weak fairness of the steps of all tasks together; steps are finite
  in number, so every task that can move does in the end. A refused open is
  never forced.
* Garbled-circuit and zero-knowledge VM: weak fairness per party: each party's
  future is polled until it returns. Nothing is assumed about the application.

Liveness is stated without failures where a failure legitimately stops a party.

## Proofs

Each theorem is stated for every value of the constants that satisfies the named
assumption of its module; TLC evaluates the same assumption in every run.

| Theorem | States | Assumption on the constants |
|---|---|---|
| `BarrierSafety` (`AdaptiveBarrier_proofs`) | `SpecDrop` keeps the type invariant, `ElectionIsComplete`, one leader, exact counters | `MaxInstances` in `Nat \ {0}` |
| `RoundsOpen` | `Spec` keeps `NoStrandedRound` | as above |
| `SyncerInvariant` (`Syncer_proofs`) | `Spec => []Inv`, the invariant below | `MaxPending <= Modulus`: fewer than 2^32 acquisitions are pending; `"none"` is no thread |
| `SyncerRefinement` | `Spec => ImplementsSameOrder` | as above |
| `PoolKeepsRunnables` (`ThreadPool_proofs`) | `Spec => []OneRunnable` | at least one worker; clients are not workers; `"none"` is no task |
| `RefusedSendNothing` (`Context_proofs`) | `Spec => []AllLanesOrNone` | `WorkAssumption`: the work below a piece of work is in `Work`; `SessionsAssumption`: what the caller does is in `Work`, a single-channel session has one context; at least one message fits a channel |
| `CounterpartsShareChannels` | `Spec => []CounterpartsMeet` | as above |
| `AnswersMatch` (`ContextAnswers_proofs`) | `Spec => []RightAnswers` | as above |
| `OnlyDecodedRevealed` (`GarbleVm_proofs`) | `Spec => []OnlyDecoded` | `ConstantsOK`: inputs of positive length, each with an owner; a handle is a range inside one input; values are bits; a call reads inputs and outputs of earlier calls |
| `OperationsSucceed` | `Spec => []NoFailure` | as above |
| `DecodesRemembered` | `Spec => []NoDecodeForgotten` | as above |
| `DecodesRightly` | `Spec => []DecodesTruth` | as above |
| `DecodesScheduled` (`ZkVm_proofs`) | `Spec => []NoDecodeForgotten` | `ConstantsOK`: inputs of positive length, each the prover's or public; `ChunkCap >= BatchSize > 0` |
| `DecodesSoundly` | `Spec => []Soundness` | `ConstantsOK` and `CircuitsOK`: a gate reads inputs and gates before it, a call reads inputs and outputs of calls before it; values are bits |
| `OtsBudgeted` | `Spec => []OtBudget` | as above, and a check takes at least one OT |
| `GateGarbledRight` (`HalfGates_proofs`) | one gate garbled and evaluated is the gate computed | none |

**Barrier.** The inductive invariant `IInv` adds what the state has to remember:
`WaitersInv` (the waiter list names the waiting instances, each once, all with open
channels), `IdsInv` (ids in use are below `id_next`), and that the parked
instances are the ones the leader holds. `ElectionIsComplete` alone is not
inductive: that a leader is elected by a full round follows from
`arrived` being the number of waiting instances and `expected` the number of live
ones, which is `CountersAgree` and needs the waiter list to be without
duplicates. One lemma per action shows `IInv` preserved; the `*Facts` lemmas say
what the operators of `BarrierState` do to each field.

**Syncer.** The order is the order of the tickets. `Owned(t)` are the tickets that
thread `t` took; `LeaderInv` says that the tick lock is held from taking a ticket
to being served or failing, so the leader serves in ticket order and passes over at
most as many tickets as operations have failed. `ChannelInv` and
`HeldInv` say that whatever is on the way to a thread of the follower, or held by
it, is a ticket of that thread that has been sent and not used, and in order;
`UsedInv` that the follower has used the first tickets, each for its own thread.
The follower compares values modulo `Modulus`; `TicketsDiffer` shows that this is
comparing tickets, because pending tickets lie within one `MaxPending`. This is
where the assumption is needed: with more pending tickets than the modulus two of them
look the same. For the refinement, taking a ticket is an `Ask` of `SameOrder`, an
acquisition of either party a `Serve`, a failure a `Fail`, and every other step
stutters. Neither the invariant nor the refinement supposes that nothing fails.

**Thread pool.** `OneRunnable` counts places, which is not inductive: a step must
know where the runnable is. `RunnableInv` says that a scheduled or running task is
in exactly one of the injector, one local queue, one `schedule` callback or one
hand, and once there, and that any other task is in none. It needs `HandInv` (a worker's
hand is empty when it looks for work) and `SchedInv` (a `schedule` is over before
its thread looks again), without which a runnable could be overwritten. The `Idx*`
lemmas say at which places of a queue a task is after a pop, a push, a batch or a
concatenation; `PlacesCounted` leads back to the count.

**Context.** The programs are arbitrary: `Work` is any set of pieces of work closed under
`subs`, so operations nest to any depth. A task is found under the path of its lane,
`<<root>>` or an operation's path and the lane's number; its items have paths of
their own below an operation. `LanesInv`, for each party alone, has three parts.

* `Apart`: queued items have different paths, and of two queued items neither is
  below the other, except that what a task in an operation has started (`Started`) is
  above the work of that operation's lanes.
* `Fresh`: no queued item, unless it is such an operation, is above anything that was
  sent, and no queued item is at, above or below an operation that was refused.
* `NothingSent`: no path that was sent is below one that was refused; this is
  `AllLanesOrNone`. `AllNumbered` says that every path begins with the number of a context
  that has been made.

`AllLanesOrNone` is not inductive without `Apart` and `Fresh`: that the work below a refused
operation never runs needs that no queued item is below it, and that stays so
because only the operation itself can fork such work and it has left its queue.
`NextStep` puts the actions into three kinds and shows `TypeOK`: a party's queues get shorter and tasks
disappear (`ProceedStep`), a task's lanes are added (`ForkStep`), or a context's
task is added (`RootStep`). `LaneWork` and `PlaceApart` say what the lanes of an operation
hold: item `l + (m - 1) * lanes` at place `m` of lane `l`, so that no item is in two
lanes. `PathSplit` and `PrefixAppend` are the facts about paths it comes down to.

`CounterpartsMeet` relates two tasks that may be far apart in time: when one party opens
a lane, the operation may be long over at the other, so no invariant about the live
tasks alone is inductive. The proof compares both with something that does not change:
`Plan(session)`, the least set of work items, each with a path, a channel and a fork
index, that holds what the caller does in every context (`IsRoot`) and, with an
operation, the items of its lanes (`IsLane`). The index of an item is the number of
operations before it in its queue (`OpsBefore`). `PlanLeast` gives what a least set
gives: to show something of every item of the plan, show that the items that have it are closed
under the two rules. So `OnePath` shows that an item is determined by its path, and
`OneFork` that an operation is determined by its channel and index. The invariant `ChanInv` says
that every task is the caller's or a lane of an operation of the plan, on the
channel the plan gives it, and that its queue is the rest of a queue of the plan,
with the fork counter at the number of operations before that rest (`On`): the
counter is advanced by an operation that fails as by one that succeeds, which is why a
refused open at one party does not shift the channels of the next operation.

**Context, what is read.** `RightAnswers` is about the moment at which a message is read,
and a message may have been sent long before, by a task that is gone. The proof splits
the program into lines of work (`Lines`): what the caller does in a context,
or the items of one lane. On a session a line has a channel of its own, the one
`CounterpartsMeet` gives its task at either party. `Before` is the order of the program on
paths. For every line `TwoHalves` relates, for each of the two parties, what it has sent of the
line, what it has left to do of it, what it is reading and what waits for it in the
line's channel (`Half`):

* what it has sent is closed downwards in the order, and before all it has left;
* while it has something to do and the peer has not given up, all of the line
  is sent or left: nothing is skipped;
* while both use the channel, the inbox holds, in the order of the program, what the peer
  has sent and the party has not read yet (`InSync`).

With both halves, a party that waits for the answer to item `e` has sent everything up to
`e` and read everything before it, and the peer's messages before `e` are among those, so
the head of the inbox is `e` (`HearingHalves`). The five lemmas `KeepingHalves`,
`StartingHalves`, `TalkingHalves`, `HearingHalves` and `LosingHalves` are the five kinds
of step a line can see; `Moves` and the `Scene*` lemmas sort every action into one of them, for
the line of the task that acts and for any other. That nothing is in the channel when
a task begins a line rests on `OpenedFor`: a party opens a line's channel
before the line's task exists, and only once.

The order of results is a fact about `Following`: each task holds the results of the first
items of its line, and the lanes of an operation are all there until it is joined. So when
lanes that have all ended are joined, item `i` is the result at place `LanePlace(i)` of
lane `LaneNo(i)` (`LaneItemAt`, the inverse of the dealing out done by `LaneQueue`).

A single channel carries the work of all tasks of a party. There the tasks form a chain in
which each waits for the next (`Chain`), so the work is done in the order of the
program and the same `TwoHalves` holds of the whole program, with what is below
the chain's items still to do (`LeftBelow`). It holds until something fails: the failing
item may have sent without reading or not have sent at all, and everything read afterwards may be
shifted, as `RightAnswers` allows (`m.late`).

**Garbled-circuit VM, what is revealed.** `ViewInv`: addresses with a visibility are
below the length and keep it (so an address marked once is never marked again), and
whatever is informed, decoded or waits in the flush view for either was asked for.
`Grows` is what every operation of the view does to those fields, shown by one
lemma per operation of `GarbleView`; the steps of the parties only move addresses
between sets that `Grows` bounds.

**Garbled-circuit VM, no failure and no decode forgotten.** Neither property is about one
party: a flush message carries no addresses, so it is only right if the receiver's
flush view is the sender's. The inductive invariant `InStep` has a part for each reason
an operation could fail.

* `PartiesInv` is about each party alone. `Good(v, r)`: the sets of a view are
  disjoint or included as `MemoryView` means them to be, and `Duty` says that what was
  asked for and can be informed or proven is done or waits in the flush view.
  `Works`: every call is in one place, on the stack, preprocessed, being garbled or
  done, and which place its output's flags name.
* `Agree` is about both. While a party works by itself its view is heading for a
  `Goal`: the view it has when it next stops, which does not depend on the order in
  which it takes ready calls (`Reach`, the least set of outputs that follow from what is
  committed). Either the parties are `Level`, heading for the same view with equal
  flush views, with one message in flight from each that awaits; or one is `Behind`: it
  still awaits a message of a flush the other has completed, and perhaps a second one
  of the flush after that. There are never more, which is why the messages in
  `net` can be matched with flush views. That both parties take the same number of rounds of
  flush and execute follows: `Loop` of equal views is equal.
* `FreshInv`: a flush view names only what has not been exchanged, so no key is used
  twice and no store refuses. For what is to be proven this needs that handles are ranges
  inside one input, of which all is one party's: `try_set` refuses only a range that is
  known as a whole.
* `IndependentInv`: calls garbled together do not read each other's outputs.
* `Holds`: the garbler's keys are those of inputs and preprocessed outputs, those of committed
  addresses used up; the evaluator's MACs are genuine and those of what is committed or
  executed; whoever assigned or decoded an address has its bit.
* `Waiting`: an operation that waits lacks a bit of an address it asked for.

A machine step either works towards the same goal (`AgreeAlone`), sends (`AgreeSend`) or
receives (`AgreeReceive`); that the messages then verify is `ProofVerifies`,
`MessageHolds` and `DecodesGenuine`. `OperationsSucceed` reads `NoFailure` off the
invariant. `DecodesRemembered` follows from `Duty`, `Holds` and `Waiting` with
an empty flush view. All of it rests on the applications' discipline in the
guards of `AssignRaw` and `DecodeRaw`, see Runs.

**Garbled-circuit VM, right results.** `DecodesTruth` compares what a decode future
returned with `Truth`, the bits that the inputs determine. `TruthInv` is kept by every step
of a state in `InStep`: each bit either store holds, the bit that each MAC authenticates, in the
evaluator's store or in a flush message, and each result is that of `Truth` at its
address. A MAC in a message carries no address but that of its key, so `RightTags` is stated of
that; that the receiver files it under the same address is part of `InStep`. Three
things make the argument go through.

* `Truth` exists: a call reads only smaller addresses (`RuleReads`), so the bits up
  to `n` extend to those up to `n + 1` (`TruthGrows`), and there is no least `n` where they
  stop (`TruthExists`, by the least element of a set of numbers).
* `Truth` does not move: it is read off the stores, which grow. While an input is not
  assigned nothing has been exchanged (`Nothing`, by the applications' discipline), and
  once all are (`Assigned`) no step changes what the holder of an input has
  (`TruthKept`).
* Whoever holds a bit holds the owner's: a store takes the bits of others only from
  verified MACs or through decode info (`ResolvesRight`, `DecodingRight`,
  `EvaluatesRight`), and the two parties are given the same public bits.

Half gates are taken at the granularity of a call here: that a garbled call computes its circuit
is `GateGarbledRight` and the run `gadgets`.

**Zero-knowledge VM.** An operation that waits asked for all its addresses
(`Waits`) and either lacks a bit or names one the next flush proves. That the next
flush resolves it needs facts of both parties: `ProverInv` (the prover knows the
bits of everything committed or executed), `VerifierInv` (anything asked for that
can be opened is known or waits to be proven) and that the two views have the
same memory (`Pair`). The theorem holds for a prover with any number of faults,
since faults change values and not what is scheduled. `NoDecodeForgotten` depends on the
application's discipline `Assigned`: inputs are allocated and assigned before
anything is committed, decoded or called. Without it a public input that is
decoded first, assigned and committed later, is answered only by the flush after the
next, see Findings.

**Zero-knowledge VM, soundness.** A prover may claim any number of wrong AND gates, and a
wrong output is stored, used by other calls and even scheduled for a proof before the check
that finds it. So nothing about the prover's bits alone is invariant. The inductive invariant
`SoundInv` says when they can be relied on: `Trusted` holds as long as no gate was wrong, or
nothing that shows one is left: no triple in the prover's check shows a wrong gate, no
message on its way to the verifier carries one, and the verifier has not failed. Its parts:

* `ProverState`: while `Trusted` holds, the pointer bit of each of the prover's MACs, each
  bit it stores and each output of a running call is that of `Truth` (`Right`). Every
  running call has reserved triples of its own (`Slotted`), which show nothing before it
  finishes, so that no call overwrites what another one revealed.
* `Scheduled`: outside a batch and its check the prover has no triples. This is the argument
  of the code: `execute` returns, and lets a flush begin, only when all was checked, and so a
  prover that sends a flush message has either sent what shows its wrong gates, or has none.
* `Messages`: a flush message proves the truth unless a message before it carries a
  wrong gate. The verifier takes messages in order and refuses one that shows a wrong
  gate (`VerifierCheckSound`), so what it has accepted is right (`ReceiveFlushSound`).
* `VerifierState`: the keys of whatever is committed or executed have a clear pointer bit, as
  the bit of a MAC is the bit it stands for only under such a key. A call runs only when its
  inputs are committed or executed, and keys that wait for their adjustment are not.

That a call's output is right if its inputs and gates are (`TaskRight`) needs what the
recursive functions `ProverFeed`, `VerifierFeed` and `CircuitBit` compute. `FeedExists`
shows that a function defined gate by gate exists, by the least gate where it would not;
`ProverFeeds`, `VerifierFeeds` and `PlainFeeds` are its instances and `ProverComputes` compares the
first with the last, by the least gate where they differ. `BatchSums` and `PlanFacts` say that the
triples reserved for the calls of a batch do not overlap, and `CollectFacts` that a proof spread over
the addresses it was collected from is what it was. `SoundInv` is inductive relative to the
invariant of `DecodesScheduled`, which knows the sets of a view.

**Zero-knowledge VM, OTs.** `call_raw` registers the OTs of a call while the window of the next
chunk has room, and `execute` registers what the chunk it stages needs beyond that; the inputs' OTs
are registered by `mark_private` and `mark_blind`. The two count checks by different rules:
`call_raw` from the AND gates on the stack, `execute` by filling batches of whole calls. The
inductive invariant `BudgetInv` is a balance of every party at every point of the code
(`Balanced`): the OTs made or asked for are those of the registered gates and checks, one for each
input without a MAC, and those of the calls left in the staged chunk and of the checks they will
make (`ChecksLeft`). `OtsBalanced` is this balance where no chunk is staged. The rest of `BudgetInv` is

* `AuthSettled` and `ViewSettled`: only inputs with private or blind visibility wait to be
  committed, and those that wait have no MAC before the flush gives them one, so that the balance counts
  each once;
* `Staging`: triples are there only between a batch and its check, and fewer than `BatchSize` of
  them when a batch begins;
* `OtState`: nothing waits to be made where OTs are taken, so what is owed is in the pool, which is
  `OtsSuffice`; `OtBudget` is both.

What a batch takes is compared with what the chunk was staged for by `ChecksSplit`: filling batches
with a whole chunk makes one check for the first batch, if it is full or the last, and
the checks of the rest. `ChunkChecks` is computed by a recursive function; `ChecksAre` gives its value by
the functions `Filling` describes. That there is one (`FillingExists`) follows from the least call
up to which there would be none, that there is no other from the least call where two differ, so no
induction over data is needed. `BudgetInv` is
inductive relative to the two invariants above.

**Half gates.** `InStep` says that the evaluator's label on every wire done so far is
the garbler's, offset by delta if the wire carries 1, and that the gate counters
agree. `GateGarbledRight` shows one gate of any kind to preserve this, with the
bit that the plain evaluation puts on the output. `HalfGateAlgebra` is the identity
of the half-gates paper over sets of terms, `LsbFlips` that the pointer bit of a
label flips with delta. That a whole circuit is right follows by induction over its gates,
which the prover cannot do; the run `gadgets` checks it as `GarblingRight`.

Only model-checked:

* liveness (`WaitersReturn`, `FlushesReturn`, `ScheduledRuns`, `WorkersExit`,
  `EveryoneServed`, `EveryOperationReturns`, `Returns`) and absence of deadlock:
  fairness and `ENABLED` are beyond the prover;
* what a fold over a sequence computes for every input, which is what the
  properties of the OT, OLE, hash and circuit modules and `OtsAccounted` are
  about: this needs induction over data;
* `NoFailure` of `ZkVm`, and `LeadersAgree`: no obstacle of principle, see the plan.

## Findings

Shown by a run, and quoted in `PROJECT.json` with the line they contradict:

* `pool_shutdown_race`: `schedule` can push after `shutdown` has drained the
  injector; the runnable is neither run nor dropped.
* `output_map`: `MapInner::try_recv` replaces itself by `Done` before it knows
  whether the value is there: an early try, the send, and a second try that
  answers `Canceled`.

Met while modelling, not shown by a run:

* `barrier.rs:187`: `deregister` lowers `expected` of a round in progress but never
  tests whether the round is complete (`NoStrandedRound` fails under `SpecDrop`); a
  dropped `wait` future stays counted in `arrived`.
* `memory-core/src/store.rs:218`: `try_set` refuses only a slice that is set as a
  whole, so a larger slice overwrites a part that was set; `lib.rs:641` counts the
  first element of a tuple twice in `to_raw`.
* `garble-core/src/view.rs:310`: decoding a slice of which a part is already being
  decoded asks for that part again, and the garbler refuses the flush.
* `zk/src/callstack.rs:44`: `extract_if` stops after the limit is met or exceeded,
  so a chunk can hold more than `chunk_cap` gates.
* `zk-core/src/store/verifier.rs:224`: a public slice decoded before it is assigned
  is resolved only by a later flush.
* `garble/src/protocol/semihonest/evaluator.rs:231`: `preprocess` takes the call
  stack before the exchange; a failed exchange loses the calls.
* `ot-core/src/ferret/sender.rs:107`: an allocation of Ferret is satisfied by what
  is available and reserved for others already, unlike that of the other RCOTs.
* `ole-core/src/ideal.rs:244`: the receiver of the ideal ROLE takes its id from the
  sender's counter.
* `clmul/src/backend.rs:18`: `reduce_gcm` takes the low half first, and every caller
  passes it first; its comment, and that at `core/src/block.rs:95`, say that x and y
  are the upper and lower bits.
* `matrix-transpose/src/scalar.rs:60`: with 1, 2 or 4 rows, which the comment at
  `lib.rs:30` allows and the checks let pass, the shifted row is longer than the
  row and `copy_from_slice` panics (step "panic" of `Transpose`).
* `circuits-core/src/builder.rs:213`: an output that is an input, a constant or
  listed twice is not numbered rightly.

## Not modelled

Curve arithmetic, GF(2), conversions of field elements to bytes and bits, AES and the
PRGs, the generated circuit files and the LPN estimator are pure functions that
unit tests compare with references; they appear in the models as the
functionality they provide. Also left out: the process-wide
thread pool, serialisation and its size limits, tracing, error wording,
recording and replaying test contexts, benchmarks, `new_from_state` of the hashers.
Transport failures inside
`GarbleVm` and `ZkVm` are left out (an error of a party is modelled, a lost connection is
not): the session ends there in any case.

## Plan

1. `ZkVm`: `NoFailure` with an invariant like `InStep` of `GarbleVm_proofs`, for a
   prover without faults; `BudgetInv` and `SoundInv` are two parts of it, what is left is
   that the transcripts and the messages of both parties agree.
2. `SharedRcot`: `LeadersAgree` from the barrier's invariant, then `OtsAccounted`.
3. `GarbleVm` and `ZkVm` shown to implement a machine like `IdealVm`.
