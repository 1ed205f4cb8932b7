----------------------------- MODULE ThreadPool -----------------------------
(***************************************************************************)
(* mpz_common::ThreadPool (crates/common/src/thread_pool.rs): worker       *)
(* threads with local queues that they fill from a shared injector and     *)
(* steal from each other; workers that find nothing park; the `schedule`   *)
(* callback of a task pushes its runnable and wakes one parked worker;     *)
(* `shutdown` cancels what is queued and lets the workers exit.            *)
(*                                                                         *)
(* One action per access to shared memory.  SeqCst accesses are atomic     *)
(* steps; the Relaxed loads of `shutdown` may read the old value until the *)
(* worker has synchronised with the store, which it does by consuming an   *)
(* unpark token of `shutdown`.  Tasks (async_task) and queues (crossbeam)  *)
(* are external: a runnable is scheduled at most once at a time, dropping  *)
(* it cancels its task, and a batch steal takes any nonempty prefix.       *)
(***************************************************************************)
EXTENDS Naturals, Sequences, FiniteSets

CONSTANTS
    NumThreads,    \* workers
    Tasks,
    Clients,       \* threads that spawn tasks, or wake them
    MaxSchedules   \* bound: calls of `schedule`, by a spawn or a wake-up

Workers == 0 .. NumThreads - 1
Actors  == Workers \cup Clients

ASSUME ThreadPoolAssumption ==
    /\ NumThreads \in Nat \ {0} /\ MaxSchedules \in Nat
    /\ Clients \cap Workers = {} /\ "none" \notin Tasks

VARIABLES
    injector,   \* Inner::injector
    worker,     \* worker[w]: its queue, WorkerState, parker, and place in worker_loop
    task,       \* task[t]: the state of the task
    sched,      \* sched[a]: the `schedule` callback that thread a is inside
    sdpc,       \* the place in Inner::shutdown; the flag is set iff it is not "none"
    schedules   \* calls of `schedule` so far

vars == << injector, worker, task, sched, sdpc, schedules >>

NewWorker ==
    [ local  |-> << >>,     \* the worker's own queue
      parked |-> FALSE,     \* WorkerState::parked
      token  |-> "none",    \* the parker's token, by whom it was left
      synced |-> FALSE,     \* it consumed a token of `shutdown`
      pc     |-> "unborn",
      stage  |-> 0,         \* in find_task: 0 own queue and injector, then the victims
      second |-> FALSE,     \* in find_task: the second look, after announcing
      cur    |-> "none" ]   \* the runnable in hand

NoSched == [pc |-> "none", task |-> "none", k |-> 0]

Init ==
    /\ injector = << >>
    /\ worker = [w \in Workers |-> NewWorker]
    /\ task = [t \in Tasks |-> "new"]
    /\ sched = [a \in Actors |-> NoSched]
    /\ sdpc = "none" /\ schedules = 0

shutdown == sdpc # "none"
Built    == \A w \in Workers : worker[w].pc # "unborn"
-----------------------------------------------------------------------------
(* ThreadPool::new starts the workers in order. *)
StartWorker(w) ==
    /\ ~shutdown
    /\ worker[w].pc = "unborn" /\ \A v \in 0 .. w - 1 : worker[v].pc # "unborn"
    /\ worker' = [worker EXCEPT ![w].pc = "loop"]
    /\ UNCHANGED << injector, task, sched, sdpc, schedules >>

(* The spawn callback failed, or `shutdown` is called, or the last handle  *)
(* dropped: Inner::shutdown stores the flag.                               *)
ShutdownStore ==
    /\ ~shutdown
    /\ sdpc' = "drain"
    /\ UNCHANGED << injector, worker, task, sched, schedules >>

(* One `steal` of the drain loop. *)
ShutdownDrain ==
    /\ sdpc = "drain"
    /\ IF injector = << >>
       THEN sdpc' = "unpark" /\ UNCHANGED << injector, task >>
       ELSE /\ task' = [task EXCEPT ![Head(injector)] = "cancelled"]
            /\ injector' = Tail(injector)
            /\ UNCHANGED sdpc
    /\ UNCHANGED << worker, sched, schedules >>

(* Wrong on purpose: the workers are not woken. *)
ShutdownUnparkNobody ==
    /\ sdpc = "unpark" /\ sdpc' = "done"
    /\ UNCHANGED << injector, worker, task, sched, schedules >>

(* The unpark loop: every worker gets a token. *)
ShutdownUnpark ==
    /\ sdpc = "unpark" /\ sdpc' = "done"
    /\ worker' = [w \in Workers |-> [worker[w] EXCEPT !.token = "shutdown"]]
    /\ UNCHANGED << injector, task, sched, schedules >>
-----------------------------------------------------------------------------
At(w, l)      == worker[w].pc = l
Goto(w, m)    == worker' = [worker EXCEPT ![w].pc = m]
Look(w, snd)  == worker' = [worker EXCEPT ![w].pc = "find", ![w].stage = 0, ![w].second = snd,
                                          ![w].parked = snd]

(* What a Relaxed load of `shutdown` may return to worker w. *)
RelaxedShutdown(w) == IF worker[w].synced THEN {shutdown} ELSE {FALSE, shutdown}

(* The condition of the worker's loop, once `run` is over. *)
LoopTest(w) ==
    /\ At(w, "loop") /\ sched[w].pc = "none"
    /\ \E down \in RelaxedShutdown(w) : IF down THEN Goto(w, "drain") ELSE Look(w, FALSE)
    /\ UNCHANGED << injector, task, sched, sdpc, schedules >>

(* Wrong on purpose: the batch is copied, its last runnable not removed. *)
BatchLeftKeeps(q, n) == SubSeq(q, n, Len(q))

(* What a batch steal of n runnables leaves in the queue. *)
BatchLeft(q, n) == SubSeq(q, n + 1, Len(q))

(* The worker after find_task returned the first of the n runnables at the *)
(* head of q, with the others in its queue.                                *)
Found(wk, q, n) ==
    [wk EXCEPT !.cur = Head(q), !.local = @ \o SubSeq(q, 2, n),
               !.pc = IF wk.second THEN "unannounce" ELSE "run",
               !.stage = 0, !.second = FALSE]

Running(q) == task' = [task EXCEPT ![Head(q)] = "running"]

(* A look of find_task that found nothing: on to the next place, or None. *)
Missed(wk) ==
    IF wk.stage < NumThreads - 1 THEN [wk EXCEPT !.stage = @ + 1]
    ELSE [wk EXCEPT !.stage = 0, !.second = FALSE,
                    !.pc = IF wk.second THEN "test" ELSE "announce"]

(* find_task, the worker's own queue. *)
FindLocal(w) ==
    LET q == worker[w].local IN
    /\ At(w, "find") /\ worker[w].stage = 0 /\ q # << >>
    /\ worker' = [worker EXCEPT ![w] = Found([@ EXCEPT !.local = Tail(q)], q, 1)]
    /\ Running(q)
    /\ UNCHANGED << injector, sched, sdpc, schedules >>

(* find_task, a batch from the injector.  That the own queue is empty can  *)
(* be seen in the same step: only the worker itself adds to it.            *)
FindInjected(w) ==
    /\ At(w, "find") /\ worker[w].stage = 0 /\ worker[w].local = << >>
    /\ \/ /\ injector = << >>
          /\ worker' = [worker EXCEPT ![w] = Missed(@)]
          /\ UNCHANGED << injector, task >>
       \/ \E n \in 1 .. Len(injector) :
            /\ worker' = [worker EXCEPT ![w] = Found(@, injector, n)]
            /\ injector' = BatchLeft(injector, n)
            /\ Running(injector)
    /\ UNCHANGED << sched, sdpc, schedules >>

(* find_task, a batch from the victim of the stage. *)
FindStolen(w) ==
    LET v == (w + worker[w].stage) % NumThreads
        q == worker[v].local
    IN
    /\ At(w, "find") /\ worker[w].stage > 0
    /\ \/ /\ q = << >>
          /\ worker' = [worker EXCEPT ![w] = Missed(@)]
          /\ UNCHANGED task
       \/ \E n \in 1 .. Len(q) :
            /\ worker' = [worker EXCEPT ![w] = Found(@, q, n), ![v].local = BatchLeft(q, n)]
            /\ Running(q)
    /\ UNCHANGED << injector, sched, sdpc, schedules >>

(* The slow path: announce, then look again. *)
Announce(w) ==
    /\ At(w, "announce")
    /\ Look(w, TRUE)
    /\ UNCHANGED << injector, task, sched, sdpc, schedules >>

(* The second look found a runnable, or `park` returned: not parked. *)
Unannounce(w) ==
    /\ At(w, "unannounce") \/ At(w, "unparked")
    /\ worker' = [worker EXCEPT ![w].parked = FALSE,
                                ![w].pc = IF @ = "unparked" THEN "loop" ELSE "run"]
    /\ UNCHANGED << injector, task, sched, sdpc, schedules >>

(* The last look at `shutdown` before parking. *)
ParkTest(w) ==
    /\ At(w, "test")
    /\ \E down \in RelaxedShutdown(w) :
         worker' = [worker EXCEPT ![w].pc = IF down THEN "drain" ELSE "park",
                                  ![w].parked = @ /\ ~down]
    /\ UNCHANGED << injector, task, sched, sdpc, schedules >>

(* `park` returns when there is a token, and takes it. *)
Park(w) ==
    /\ At(w, "park") /\ worker[w].token # "none"
    /\ worker' = [worker EXCEPT ![w].synced = @ \/ worker[w].token = "shutdown",
                                ![w].token = "none", ![w].pc = "unparked"]
    /\ UNCHANGED << injector, task, sched, sdpc, schedules >>

Begin(a, t) == sched' = [sched EXCEPT ![a] = [pc |-> "check", task |-> t, k |-> 0]]

(* `runnable.run()` polls the task, which completes, is pending, or was    *)
(* woken while it ran: then `run` itself calls `schedule`.                 *)
Run(w) ==
    LET t == worker[w].cur IN
    /\ At(w, "run")
    /\ \/ /\ \E outcome \in {"done", "idle"} : task' = [task EXCEPT ![t] = outcome]
          /\ UNCHANGED << sched, schedules >>
       \/ /\ schedules < MaxSchedules /\ schedules' = schedules + 1
          /\ task' = [task EXCEPT ![t] = "scheduled"]
          /\ Begin(w, t)
    /\ worker' = [worker EXCEPT ![w].cur = "none", ![w].pc = "loop"]
    /\ UNCHANGED << injector, sdpc >>

(* drain_local, one pop at a time, then the thread ends. *)
DrainLocal(w) ==
    /\ At(w, "drain")
    /\ IF worker[w].local = << >>
       THEN Goto(w, "exited") /\ UNCHANGED task
       ELSE /\ task' = [task EXCEPT ![Head(worker[w].local)] = "cancelled"]
            /\ worker' = [worker EXCEPT ![w].local = Tail(@)]
    /\ UNCHANGED << injector, sched, sdpc, schedules >>
-----------------------------------------------------------------------------
(* spawn_on: a client schedules a new task. *)
SpawnOn(c, t) ==
    /\ Built /\ task[t] = "new" /\ sched[c].pc = "none"
    /\ schedules < MaxSchedules /\ schedules' = schedules + 1
    /\ task' = [task EXCEPT ![t] = "scheduled"]
    /\ Begin(c, t)
    /\ UNCHANGED << injector, worker, sdpc >>

(* A client wakes (or cancels) a task that is pending. *)
Wake(c, t) ==
    /\ task[t] = "idle" /\ sched[c].pc = "none"
    /\ schedules < MaxSchedules /\ schedules' = schedules + 1
    /\ task' = [task EXCEPT ![t] = "scheduled"]
    /\ Begin(c, t)
    /\ UNCHANGED << injector, worker, sdpc >>

(* The callback: after shutdown the runnable is dropped. *)
ScheduleCheck(a) ==
    /\ sched[a].pc = "check"
    /\ IF shutdown
       THEN /\ task' = [task EXCEPT ![sched[a].task] = "cancelled"]
            /\ sched' = [sched EXCEPT ![a] = NoSched]
       ELSE sched' = [sched EXCEPT ![a].pc = "push"] /\ UNCHANGED task
    /\ UNCHANGED << injector, worker, sdpc, schedules >>

SchedulePush(a) ==
    /\ sched[a].pc = "push"
    /\ injector' = Append(injector, sched[a].task)
    /\ sched' = [sched EXCEPT ![a].pc = "scan", ![a].task = "none"]
    /\ UNCHANGED << worker, task, sdpc, schedules >>

(* The scan for a parked worker.  The load is only a filter for the        *)
(* compare_exchange, which is the access that counts: together one step.   *)
ScheduleScan(a) ==
    LET k == sched[a].k IN
    /\ sched[a].pc = "scan"
    /\ \/ /\ k = NumThreads
          /\ sched' = [sched EXCEPT ![a] = NoSched]
          /\ UNCHANGED worker
       \/ /\ k < NumThreads /\ worker[k].parked
          /\ worker' = [worker EXCEPT ![k].parked = FALSE]
          /\ sched' = [sched EXCEPT ![a].pc = "unpark"]
       \/ /\ k < NumThreads /\ ~worker[k].parked
          /\ sched' = [sched EXCEPT ![a].k = k + 1]
          /\ UNCHANGED worker
    /\ UNCHANGED << injector, task, sdpc, schedules >>

(* Wrong on purpose: a claimed worker is not unparked. *)
ScheduleUnparkNobody(a) ==
    /\ sched[a].pc = "unpark"
    /\ sched' = [sched EXCEPT ![a] = NoSched]
    /\ UNCHANGED << injector, worker, task, sdpc, schedules >>

ScheduleUnpark(a) ==
    /\ sched[a].pc = "unpark"
    /\ worker' = [worker EXCEPT ![sched[a].k].token = IF @ = "none" THEN "task" ELSE @]
    /\ sched' = [sched EXCEPT ![a] = NoSched]
    /\ UNCHANGED << injector, task, sdpc, schedules >>
-----------------------------------------------------------------------------
WorkerStep(w) ==
    \/ LoopTest(w) \/ FindLocal(w) \/ FindInjected(w) \/ FindStolen(w)
    \/ Announce(w) \/ Unannounce(w) \/ ParkTest(w) \/ Park(w)
    \/ Run(w) \/ DrainLocal(w)

Schedule(a) == ScheduleCheck(a) \/ SchedulePush(a) \/ ScheduleScan(a) \/ ScheduleUnpark(a)

Shutdown == ShutdownDrain \/ ShutdownUnpark

Asleep(w) == At(w, "park") /\ worker[w].token = "none"
Gone(w)   == worker[w].pc \in {"unborn", "exited"}

(* The workers sleep, or are gone, and nobody is doing anything. *)
Quiet ==
    /\ Built \/ sdpc = "done"
    /\ \A w \in Workers : Asleep(w) \/ Gone(w)
    /\ \A a \in Actors : sched[a].pc = "none"
    /\ UNCHANGED vars

Next ==
    \/ ShutdownStore \/ Shutdown
    \/ \E w \in Workers : StartWorker(w) \/ WorkerStep(w)
    \/ \E a \in Actors : Schedule(a)
    \/ \E c \in Clients, t \in Tasks : SpawnOn(c, t) \/ Wake(c, t)
    \/ Quiet

(* The threads run: each worker, each thread inside `schedule`, the thread *)
(* that builds the pool and the one inside `shutdown` take their steps.    *)
Fairness ==
    /\ WF_vars(Shutdown)
    /\ \A w \in Workers : WF_vars(StartWorker(w)) /\ WF_vars(WorkerStep(w))
    /\ \A a \in Actors : WF_vars(Schedule(a))

Spec == Init /\ [][Next]_vars /\ Fairness
-----------------------------------------------------------------------------
(* Where the runnable of t is: in a queue, in a thread's `schedule`, or in *)
(* a worker's hand.                                                        *)
Places(t) ==
    LET In(q) == { k \in DOMAIN q : q[k] = t } IN
    { << "injector", 0, k >> : k \in In(injector) }
      \cup (UNION { { << "local", w, k >> : k \in In(worker[w].local) } : w \in Workers })
      \cup { << "sched", a, 0 >> : a \in { a \in Actors : sched[a].task = t } }
      \cup { << "hand", w, 0 >> : w \in { w \in Workers : worker[w].cur = t } }

(* A runnable exists once: a task that is scheduled or running is in the   *)
(* hands of exactly one thread or in exactly one queue, whoever steals     *)
(* from whom; a task that is idle or over is nowhere.                      *)
OneRunnable ==
    \A t \in Tasks :
        Cardinality(Places(t)) = IF task[t] \in {"scheduled", "running"} THEN 1 ELSE 0

Terminated == sdpc = "done" /\ \A w \in Workers : Gone(w)

(* shutdown's "any tasks still pending are cancelled -- awaiters propagate *)
(* cancellation rather than hanging", and schedule's "any push that loses  *)
(* the race is then drained": once the pool is gone no runnable is left in *)
(* a queue, where nobody would ever run or drop it.                        *)
NothingStranded ==
    Terminated => injector = << >> /\ \A w \in Workers : worker[w].local = << >>

(* A task that is scheduled gets to run, unless the pool is shut down. *)
ScheduledRuns ==
    \A t \in Tasks : task[t] = "scheduled" ~> task[t] = "running" \/ shutdown

(* After shutdown all workers exit, although their loads of the flag are   *)
(* Relaxed and they may be about to park when it is set.                   *)
WorkersExit == shutdown ~> Terminated
=============================================================================
