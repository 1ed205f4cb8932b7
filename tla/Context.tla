------------------------------ MODULE Context ------------------------------
(***************************************************************************)
(* Execution contexts (crates/common: context.rs, session.rs, id.rs,       *)
(* mux.rs).  Two parties run the same program; each keeps a tree of tasks, *)
(* every task owning a context - a channel, an identifier and a counter of *)
(* the forks made under it.  `map', `join' and `try_join' fork: the child  *)
(* contexts take their identifiers from the counter, so the channel a task *)
(* of one party talks on meets its counterpart only when both parties      *)
(* forked in the same order with the same number of lanes.                 *)
(*                                                                         *)
(* A program is a piece of work: "talk" sends one message on the channel   *)
(* of the context it is given and reads one; "bad" does the same and then  *)
(* fails at party B (a check of the received message); an operation forks  *)
(* over its `subs'.  Work is named by its path in the program, which is    *)
(* also the message it sends, so a message read by other work than its     *)
(* counterpart shows.                                                      *)
(***************************************************************************)
EXTENDS Integers, Sequences, FiniteSets, SequencesExt

CONSTANTS
    Work,        \* pieces of work: kind, and the work an operation forks over
    Sessions,    \* the sessions checked: mode, limit, a program per context
    Capacity,    \* messages a channel holds before a send has to wait
    MaxFaults    \* bound: opens the multiplexer refuses

VARIABLES
    session,     \* the session both parties built
    mux,         \* streams opened, and halves waiting for a party
    next,        \* Session::next_context, per party
    tasks,       \* the live tasks of each party, by path
    box,         \* messages waiting on each half of a channel
    closed,      \* halves whose context was dropped
    faults,      \* opens refused so far
    seen         \* history: see SeenInit

vars == <<session, mux, next, tasks, box, closed, faults, seen>>

Parties == {"A", "B"}
Peer(p) == IF p = "A" THEN "B" ELSE "A"
Ops == {"map", "join", "try"}

ASSUME WorkAssumption == \A w \in Work : w.subs \in Seq(Work)
ASSUME SessionsAssumption ==
    \A s \in Sessions : /\ s.limit \in Int /\ s.roots \in Seq(Seq(Work))
                        /\ s.mode = "single" => Len(s.roots) = 1
ASSUME CapacityAssumption == Capacity \in Nat \ {0}
ASSUME FaultAssumption == MaxFaults \in Nat

(* ContextId::default and ContextId::child *)
DefaultId == <<0>>
Child(id, index) == Append(id, index)

(* SessionBuilder::concurrency_limit *)
ConcurrencyLimit == IF session.limit < 1 THEN 1 ELSE session.limit
Single == session.mode = "single"

----------------------------------------------------------------------------
(* Tasks and boxes are functions that grow: f first, g where f is not defined. *)
One(k, v) == [x \in {k} |-> v]
Over(f, g) ==
    [x \in DOMAIN f \cup DOMAIN g |-> IF x \in DOMAIN f THEN f[x] ELSE g[x]]

(* A task: its context, the work it still has to do one after the other,   *)
(* the results so far, and the operation it is a lane of ("root": the      *)
(* caller of the session, who gives up at the first failure).              *)
NewTask(chan, kind, queue) ==
    [chan |-> chan, fork |-> 0, kind |-> kind, queue |-> queue, out |-> <<>>,
     phase |-> "run", cancelled |-> FALSE]

Works(path, subs) == [i \in DOMAIN subs |-> [path |-> Append(path, i), w |-> subs[i]]]
Finished(t) == t.queue = <<>>
Item(t) == Head(t.queue)
Failing(t) == \E r \in ToSet(t.out) : ~r.ok

----------------------------------------------------------------------------
(* TestFramedMux::open, here of `ids': the halves the peer left, or new     *)
(* streams; what this party has opened before is refused                    *)
CanOpen(m, p, id) == id \in m.waiting[p] \/ id \notin m.exists
Open(m, p, ids) ==
    [exists |-> m.exists \cup ids,
     waiting |-> [m.waiting EXCEPT ![p] = @ \ ids, ![Peer(p)] = @ \cup (ids \ m.exists)]]

(* Context::child for each lane in turn, up to the first refusal *)
OpenedLanes(m, p, ids) == {l \in DOMAIN ids : \A i \in 1..l : CanOpen(m, p, ids[i])}

----------------------------------------------------------------------------
(* How an operation is laid out over lanes *)

MapLanes(n) == IF n < ConcurrencyLimit THEN n ELSE ConcurrencyLimit
Lanes(w) == CASE Single -> 1
              [] ~Single /\ w.k = "map" -> MapLanes(Len(w.subs))
              [] OTHER -> Len(w.subs)

LaneQueueBlocks(items, l, lanes) ==    \* mutant: consecutive items share a lane
    LET size == (Len(items) + lanes - 1) \div lanes
    IN SubSeq(items, (l - 1) * size + 1,
              IF l * size < Len(items) THEN l * size ELSE Len(items))

(* the items of lane l, in order *)
LaneQueue(items, l, lanes) ==
    [j \in 1..Cardinality({i \in DOMAIN items : (i - 1) % lanes = l - 1}) |->
        items[l + (j - 1) * lanes]]

LaneKeys(path, lanes) == {Append(path, l) : l \in 1..lanes}

(* the channels of the lanes: next_fork, then one child per lane; a single *)
(* channel is shared by all work and nothing is forked                     *)
LaneIds(t, lanes) ==
    IF Single THEN <<>> ELSE [l \in 1..lanes |-> Child(Child(t.chan, t.fork), l - 1)]
LaneTask(t, it, l, lanes) ==
    NewTask(IF Single THEN t.chan ELSE LaneIds(t, lanes)[l], it.w.k,
            LaneQueue(Works(it.path, it.w.subs), l, lanes))

LaneResult(p, path, lanes, i) ==
    LET o == tasks[p][Append(path, ((i - 1) % lanes) + 1)].out
        j == (i - 1) \div lanes + 1
    IN IF j \in DOMAIN o THEN o[j] ELSE [path |-> <<>>, ok |-> FALSE]

ForkNotTaken(t) == t.fork     \* mutant: an operation that fails uses no index

(* the counter moves when the fork is made, whether or not it succeeds *)
NextFork(t) == IF Single THEN t.fork ELSE t.fork + 1
ForkAfterRefusal(t) == NextFork(t)

StartedAsOpened(opened) == opened    \* mutant: spawn each lane once opened

Waiting(t) == [t EXCEPT !.fork = NextFork(t), !.phase = "wait"]
LaneTasks(t, it, lanes) ==
    [c \in LaneKeys(it.path, lanes) |-> LaneTask(t, it, Last(c), lanes)]

(* the lanes that run when a lane's channel could not be opened: every      *)
(* channel is opened before any task is spawned                             *)
StartedOnRefusal(opened) == {}
CancelledLanes(t, it, lanes, started) ==
    [c \in {Append(it.path, l) : l \in started} |->
        [LaneTask(t, it, Last(c), lanes) EXCEPT !.cancelled = TRUE]]

----------------------------------------------------------------------------
(* The end of a piece of work.  A lane of try_join on a single channel, and *)
(* the caller, stop at the first failure.  A context is dropped with its    *)
(* task; the caller keeps its own until it gives up.                        *)
Finish(t, r) ==
    [t EXCEPT !.queue = IF ~r.ok /\ t.kind \in {"root", "try"} THEN <<>> ELSE Tail(@),
              !.out = Append(@, r),
              !.phase = "run"]
OwnsChannel(t) == ~Single \/ t.kind = "root"
DropsContext(t) == Finished(t) /\ OwnsChannel(t) /\ (t.kind = "root" => Failing(t))

ChannelLeaks(t) == {}                   \* mutant: the context outlives its task

(* dropping a cancelled task drops its context *)
ChannelOf(t) == IF OwnsChannel(t) THEN {t.chan} ELSE {}

(* what an observer notes of result r, `wrong' when it came from other work *)
Note(r, wrong) ==
    seen' = [seen EXCEPT !.trouble = @ \/ ~r.ok,
                         !.misread = @ \cup (IF wrong THEN {[path |-> r.path, late |-> seen.trouble]}
                                             ELSE {})]

(* task k of party p ends the work it is at with result r; `others' are the *)
(* other tasks of p after the step                                          *)
Ends(p, k, r, others) ==
    \E t \in {Finish(tasks[p][k], r)} :
    /\ tasks' = [tasks EXCEPT ![p] = Over(One(k, t), others)]
    /\ closed' = [closed EXCEPT ![p] = @ \cup (IF DropsContext(t) THEN {t.chan} ELSE {})]

----------------------------------------------------------------------------
SeenInit == [trouble |-> FALSE,   \* some work has failed
             misread |-> {},      \* work that got what belongs to other work
             refused |-> {},      \* operations a party could not open lanes for
             sent |-> {}]         \* work that has sent its message, per party

RootQueue(k) == Works(<<k>>, session.roots[k])

Init ==
    /\ session \in Sessions
    /\ mux = [exists |-> {}, waiting |-> [p \in Parties |-> {}]]
    /\ next = [p \in Parties |-> IF Single THEN 1 ELSE 0]
    /\ tasks = [p \in Parties |->
                  IF Single THEN One(<<1>>, NewTask(DefaultId, "root", RootQueue(1))) ELSE <<>>]
    /\ box = [p \in Parties |-> IF Single THEN One(DefaultId, <<>>) ELSE <<>>]
    /\ closed = [p \in Parties |-> {}]
    /\ faults = 0
    /\ seen = SeenInit

NewBoxes(p, ids) == box' = [box EXCEPT ![p] = Over(@, [id \in ids |-> <<>>]),
                                       ![Peer(p)] = Over(@, [id \in ids |-> <<>>])]

(* Session::new_context: the index is taken before the channel is opened *)
NewContext(p) ==
    LET index == next[p]
        id == Child(DefaultId, index)
    IN /\ index < Len(session.roots)
       /\ next' = [next EXCEPT ![p] = index + 1]
       /\ \/ /\ CanOpen(mux, p, id)
             /\ mux' = Open(mux, p, {id})
             /\ NewBoxes(p, {id})
             /\ tasks' = [tasks EXCEPT ![p] =
                            Over(One(<<index + 1>>, NewTask(id, "root", RootQueue(index + 1))), @)]
             /\ UNCHANGED <<faults, seen>>
          \/ /\ faults < MaxFaults
             /\ faults' = faults + 1
             /\ seen' = [seen EXCEPT !.trouble = TRUE]
             /\ UNCHANGED <<mux, box, tasks>>
       /\ UNCHANGED <<session, closed>>

(* the body of an item: send on the context's channel ... *)
Send(p, k) ==
    \E t \in {tasks[p][k]}, q \in {Peer(p)} :
       /\ ~Finished(t) /\ t.phase = "run" /\ Item(t).w.k \notin Ops
       /\ IF t.chan \in closed[q]
          THEN \E r \in {[path |-> Item(t).path, ok |-> FALSE]} :
                  /\ Ends(p, k, r, tasks[p])
                  /\ Note(r, FALSE)
                  /\ UNCHANGED box
          ELSE /\ Len(box[q][t.chan]) < Capacity
               /\ box' = [box EXCEPT ![q][t.chan] = Append(@, Item(t).path)]
               /\ tasks' = [tasks EXCEPT ![p][k].phase = "recv"]
               /\ seen' = [seen EXCEPT !.sent = @ \cup {<<p, Item(t).path>>}]
               /\ UNCHANGED closed
       /\ UNCHANGED <<session, mux, next, faults>>

(* ... and read what the counterpart sent, or the end of the stream *)
Receive(p, k) ==
    \E t \in {tasks[p][k]} : \E inbox \in {box[p][t.chan]} :
       /\ ~Finished(t) /\ t.phase = "recv"
       /\ inbox # <<>> \/ t.chan \in closed[Peer(p)]
       /\ \E r \in {[path |-> Item(t).path,
                     ok |-> inbox # <<>> /\ ~(Item(t).w.k = "bad" /\ p = "B")]} :
             /\ Ends(p, k, r, tasks[p])
             /\ Note(r, inbox # <<>> /\ Head(inbox) # r.path)
       /\ box' = IF inbox = <<>> THEN box ELSE [box EXCEPT ![p][t.chan] = Tail(@)]
       /\ UNCHANGED <<session, mux, next, faults>>

Forks(t) == ~Finished(t) /\ t.phase = "run" /\ Item(t).w.k \in Ops

(* map, join, try_join, try_join3, try_join4: every lane's channel is       *)
(* opened, then every lane is spawned, and the caller waits for them        *)
Fork(p, k) ==
    \E t \in {tasks[p][k]} :
       /\ Forks(t)
       /\ \E it \in {Item(t)} : \E lanes \in {Lanes(it.w)} :
          \E ids \in {LaneIds(t, lanes)} :
             /\ OpenedLanes(mux, p, ids) = DOMAIN ids
             /\ mux' = Open(mux, p, ToSet(ids))
             /\ NewBoxes(p, ToSet(ids))
             /\ tasks' = [tasks EXCEPT ![p] =
                            Over(One(k, Waiting(t)), Over(LaneTasks(t, it, lanes), @))]
       /\ UNCHANGED <<session, next, closed, faults, seen>>

(* the lanes opened when opening them stops: at a duplicate, or anywhere *)
(* once                                                                  *)
Refusals(p, ids) ==
    LET opened == OpenedLanes(mux, p, ids)
    IN IF opened # DOMAIN ids THEN {opened}
       ELSE {1..(cut - 1) : cut \in {l \in DOMAIN ids : faults < MaxFaults}}

(* a lane's channel is refused - by the multiplexer, at most MaxFaults      *)
(* times, or as a duplicate: the operation fails, the channels opened so    *)
(* far are dropped                                                          *)
ForkRefused(p, k) ==
    LET t == tasks[p][k]
        it == Item(t)
        lanes == Lanes(it.w)
        ids == LaneIds(t, lanes)
        after == Finish([t EXCEPT !.fork = ForkAfterRefusal(t)], [path |-> it.path, ok |-> FALSE])
    IN /\ Forks(t)
       /\ \E opened \in Refusals(p, ids) :
             LET open == {ids[l] : l \in opened}
                 started == StartedOnRefusal(opened)
             IN /\ mux' = Open(mux, p, open)
                /\ NewBoxes(p, open)
                /\ tasks' = [tasks EXCEPT ![p] =
                       Over(One(k, after), Over(CancelledLanes(t, it, lanes, started), @))]
                /\ closed' = [closed EXCEPT ![p] = @ \cup {ids[l] : l \in opened \ started} \cup
                                                   (IF DropsContext(after) THEN {t.chan} ELSE {})]
       /\ faults' = IF OpenedLanes(mux, p, ids) = DOMAIN ids THEN faults + 1 ELSE faults
       /\ seen' = [seen EXCEPT !.trouble = TRUE, !.refused = @ \cup {<<p, it.path>>}]
       /\ UNCHANGED <<session, next>>

(* the tasks of party p without those of lanes that are done *)
CancelRest(p, mine, done) ==
    [c \in DOMAIN tasks[p] \ done |->
        IF c \in mine THEN [tasks[p][c] EXCEPT !.cancelled = TRUE] ELSE tasks[p][c]]

(* the lanes are done - or, for try_join, one has failed: the results are   *)
(* put back in input order, lanes still running are cancelled               *)
JoinLanes(p, k) ==
    LET t == tasks[p][k]
        it == Item(t)
        lanes == Lanes(it.w)
        mine == LaneKeys(it.path, lanes)
        done == {c \in mine : Finished(tasks[p][c])}
        short == it.w.k = "try" /\ \E c \in done : Failing(tasks[p][c])
        results == [i \in DOMAIN it.w.subs |-> LaneResult(p, it.path, lanes, i)]
        r == [path |-> it.path, ok |-> ~short /\ \A x \in ToSet(results) : x.ok]
    IN /\ ~Finished(t) /\ t.phase = "wait"
       /\ short \/ done = mine
       /\ Ends(p, k, r, CancelRest(p, mine, done))
       /\ Note(r, ~short /\ \E i \in DOMAIN results : results[i].path # Append(it.path, i))
       /\ UNCHANGED <<session, mux, next, box, faults>>

(* a cancelled task is dropped, when a worker next takes it up, with its    *)
(* context and the tasks it was waiting for                                 *)
DropTask(p, k) ==
    LET t == tasks[p][k] IN
    /\ t.cancelled
    /\ tasks' = [tasks EXCEPT ![p] =
                   [c \in DOMAIN @ \ {k} |->
                      IF t.phase = "wait" /\ Front(c) = Item(t).path
                      THEN [@[c] EXCEPT !.cancelled = TRUE] ELSE @[c]]]
    /\ closed' = [closed EXCEPT ![p] = @ \cup ChannelOf(t)]
    /\ UNCHANGED <<session, mux, next, box, faults, seen>>

Step(p, k) == Send(p, k) \/ Receive(p, k) \/ Fork(p, k) \/ JoinLanes(p, k) \/ DropTask(p, k)

Next == \E p \in Parties :
           \/ NewContext(p)
           \/ \E k \in DOMAIN tasks[p] : Step(p, k) \/ ForkRefused(p, k)

(* Every task that can take a step is polled in the end: by the workers of  *)
(* the pool, or by the caller's own future.  Steps are finite in number, so *)
(* weak fairness of their disjunction is enough.                            *)
Progress == \E p \in Parties :
               NewContext(p) \/ \E k \in DOMAIN tasks[p] : Step(p, k)

Spec == Init /\ [][Next]_vars /\ WF_vars(Progress)

----------------------------------------------------------------------------
(* What must hold *)

(* Work reads what its counterpart sent, and the results of an operation    *)
(* come back in input order: on a session even after work has failed; on a  *)
(* single channel, where a skipped item shifts what the next one reads,     *)
(* until some work fails.                                                   *)
RightAnswers == \A m \in seen.misread : Single /\ m.late

(* Both parties give counterpart tasks the same channel and no two tasks    *)
(* share one, whatever was refused or cancelled before.                     *)
CounterpartsMeet ==
    ~Single =>
      /\ \A k \in DOMAIN tasks["A"] \cap DOMAIN tasks["B"] : tasks["A"][k].chan = tasks["B"][k].chan
      /\ \A p \in Parties : \A j, k \in DOMAIN tasks[p] : j # k => tasks[p][j].chan # tasks[p][k].chan

(* An operation whose lanes cannot all be opened has sent nothing: either   *)
(* every lane starts or none does.                                          *)
AllLanesOrNone ==
    \A f \in seen.refused : \A s \in seen.sent :
        s[1] = f[1] => ~IsStrictPrefix(f[2], s[2])

(* Every operation returns at both parties.  A branch that fails ends its   *)
(* siblings, and they theirs, at both parties; the one way to wait for ever *)
(* is on a channel that the peer, after something failed, never opens.      *)
Returned(p) == \A k \in DOMAIN session.roots :
                  <<k>> \in DOMAIN tasks[p] => Finished(tasks[p][<<k>>])
Abandoned(p) ==
    seen.trouble /\ \E k \in DOMAIN tasks[p] :
                       tasks[p][k].phase = "recv" /\ tasks[p][k].chan \in mux.waiting[Peer(p)]
EveryOperationReturns ==
    <>(\A p \in Parties : next[p] = Len(session.roots) /\ (Returned(p) \/ Abandoned(p)))

=============================================================================
