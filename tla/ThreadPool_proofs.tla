------------------------- MODULE ThreadPool_proofs --------------------------
(***************************************************************************)
(* OneRunnable, for any number of workers, clients, tasks and wake-ups: a  *)
(* runnable is never lost and never in two places, whoever steals from     *)
(* whom.                                                                   *)
(*                                                                         *)
(* The queues are described by Idx, the places of a task in a queue.  A    *)
(* step moves at most one task between the four kinds of place, or a batch *)
(* between two queues; that the hand is empty when a worker looks for a    *)
(* runnable, and its `schedule` over before it looks, is what keeps a      *)
(* runnable from being overwritten.                                        *)
(***************************************************************************)
EXTENDS ThreadPool, SequenceTheorems, FiniteSetTheorems, TLAPS

Labels == {"unborn", "loop", "find", "announce", "unannounce", "unparked", "test", "park", "run",
           "drain", "exited"}

Worker ==
    [local : Seq(Tasks), parked : BOOLEAN, token : {"none", "task", "shutdown"},
     synced : BOOLEAN, pc : Labels, stage : Workers, second : BOOLEAN,
     cur : Tasks \cup {"none"}]

Callback ==
    [pc : {"none", "check", "push", "scan", "unpark"}, task : Tasks \cup {"none"},
     k : 0 .. NumThreads]

States == {"new", "scheduled", "running", "idle", "done", "cancelled"}

TypeOK ==
    /\ injector \in Seq(Tasks)
    /\ worker \in [Workers -> Worker]
    /\ task \in [Tasks -> States]
    /\ sched \in [Actors -> Callback]

(* A worker has a runnable in hand from finding it to running it. *)
HandInv == \A w \in Workers : worker[w].cur # "none" <=> worker[w].pc \in {"run", "unannounce"}

(* A thread has a runnable in `schedule` until it is pushed; it looks at   *)
(* an existing worker; and `run` is over before the worker looks again.    *)
SchedInv ==
    /\ \A a \in Actors : /\ sched[a].task # "none" <=> sched[a].pc \in {"check", "push"}
                         /\ sched[a].pc = "unpark" => sched[a].k < NumThreads
    /\ \A w \in Workers : worker[w].pc # "loop" => sched[w].pc = "none"

(* The places of t in the queue q. *)
Idx(q, t) == { k \in 1 .. Len(q) : q[k] = t }

Lone(S) == \E x : S = {x}

(* In the injector, in the local queues, in `schedule` and in the workers' *)
(* hands t is nowhere (0) or in one place (1).                             *)
Inj0(t) == Idx(injector, t) = {}
Inj1(t) == Lone(Idx(injector, t))
Loc0(t) == \A w \in Workers : Idx(worker[w].local, t) = {}
Loc1(t) == \E w \in Workers : /\ Lone(Idx(worker[w].local, t))
                              /\ \A v \in Workers \ {w} : Idx(worker[v].local, t) = {}
Sch0(t) == \A a \in Actors : sched[a].task # t
Sch1(t) == \E a \in Actors : \A b \in Actors : sched[b].task = t <=> b = a
Han0(t) == \A w \in Workers : worker[w].cur # t
Han1(t) == \E w \in Workers : \A v \in Workers : worker[v].cur = t <=> v = w

Nowhere(t) == Inj0(t) /\ Loc0(t) /\ Sch0(t) /\ Han0(t)

Somewhere(t) ==
    \/ Inj1(t) /\ Loc0(t) /\ Sch0(t) /\ Han0(t)
    \/ Inj0(t) /\ Loc1(t) /\ Sch0(t) /\ Han0(t)
    \/ Inj0(t) /\ Loc0(t) /\ Sch1(t) /\ Han0(t)
    \/ Inj0(t) /\ Loc0(t) /\ Sch0(t) /\ Han1(t)

Active(t) == task[t] \in {"scheduled", "running"}

RunnableInv == \A t \in Tasks : IF Active(t) THEN Somewhere(t) ELSE Nowhere(t)

Inv == TypeOK /\ HandInv /\ SchedInv /\ RunnableInv
-----------------------------------------------------------------------------
(* What a part of a queue holds of a task that is in the queue at most once. *)
LEMMA IdxSubSeq ==
    ASSUME NEW q \in Seq(Tasks), NEW t, NEW m \in Nat \ {0}, NEW n \in Nat, n <= Len(q)
    PROVE  /\ SubSeq(q, m, n) \in Seq(Tasks)
           /\ Idx(q, t) = {} => Idx(SubSeq(q, m, n), t) = {}
           /\ \A k : Idx(q, t) = {k} =>
                Idx(SubSeq(q, m, n), t) = IF k \in m .. n THEN {k - m + 1} ELSE {}
<1> DEFINE s == SubSeq(q, m, n)
           l == IF m <= n THEN n - m + 1 ELSE 0
<1>1. Len(q) \in Nat /\ \A i \in 1 .. Len(q) : q[i] \in Tasks BY LenProperties, ElementOfSeq
<1>2. \A i \in m .. n : i \in 1 .. Len(q) BY <1>1
<1>3. /\ s \in Seq(Tasks) /\ Len(s) = l
      /\ \A i \in 1 .. n - m + 1 : s[i] = q[m + i - 1]
      BY <1>1, <1>2, SubSeqProperties
<1>4. l \in Nat /\ \A i \in 1 .. l : i \in 1 .. n - m + 1 /\ m + i - 1 \in m .. n OBVIOUS
<1>5. \A k \in m .. n : k - m + 1 \in 1 .. l OBVIOUS
<1>6. \A k \in 1 .. l : s[k] = q[m + k - 1] BY <1>3, <1>4
<1> HIDE DEF s, l
<1>7. Idx(s, t) = { k \in 1 .. l : q[m + k - 1] = t } BY <1>3, <1>6 DEF Idx
<1>8. \A k \in 1 .. l : k \in Idx(s, t) <=> m + k - 1 \in Idx(q, t)
      BY <1>7, <1>4, <1>2 DEF Idx
<1>9. Idx(s, t) \subseteq 1 .. l BY <1>7
<1>10. Idx(q, t) = {} => Idx(s, t) = {} BY <1>8, <1>9
<1>11. ASSUME NEW k, Idx(q, t) = {k} PROVE Idx(s, t) = IF k \in m .. n THEN {k - m + 1} ELSE {}
  <2>1. k \in Nat BY <1>11, <1>1 DEF Idx
  <2>2. CASE k \in m .. n
    <3>1. k - m + 1 \in Idx(s, t)
      <4>1. k - m + 1 \in 1 .. l BY <2>2, <1>5
      <4>2. m + (k - m + 1) - 1 = k BY <2>1
      <4> QED BY <4>1, <4>2, <1>8, <1>11
    <3>2. \A j \in Idx(s, t) : j = k - m + 1
      <4>1. \A j \in Idx(s, t) : j \in 1 .. l /\ m + j - 1 = k BY <1>8, <1>9, <1>11
      <4> QED BY <4>1, <2>1, <1>4
    <3> QED BY <2>2, <3>1, <3>2
  <2>3. CASE k \notin m .. n
    <3>1. Idx(s, t) = {} BY <2>3, <1>4, <1>8, <1>9, <1>11
    <3> QED BY <2>3, <3>1
  <2> QED BY <2>2, <2>3
<1> QED BY <1>3, <1>10, <1>11 DEF s

(* What the rest of a queue holds, after its first n entries. *)
LEMMA IdxRest ==
    ASSUME NEW q \in Seq(Tasks), NEW t, NEW n \in 1 .. Len(q)
    PROVE  /\ SubSeq(q, n + 1, Len(q)) \in Seq(Tasks)
           /\ Idx(q, t) = {} => Idx(SubSeq(q, n + 1, Len(q)), t) = {}
           /\ \A k \in 1 .. n : Idx(q, t) = {k} => Idx(SubSeq(q, n + 1, Len(q)), t) = {}
           /\ \A k : Idx(q, t) = {k} /\ k > n => Lone(Idx(SubSeq(q, n + 1, Len(q)), t))
<1>1. Len(q) \in Nat /\ Len(q) <= Len(q) /\ n + 1 \in Nat \ {0} BY LenProperties
<1>2. /\ SubSeq(q, n + 1, Len(q)) \in Seq(Tasks)
      /\ Idx(q, t) = {} => Idx(SubSeq(q, n + 1, Len(q)), t) = {}
      /\ \A k : Idx(q, t) = {k} => Idx(SubSeq(q, n + 1, Len(q)), t)
                                   = IF k \in n + 1 .. Len(q) THEN {k - (n + 1) + 1} ELSE {}
      BY <1>1, IdxSubSeq
<1>3. \A k \in 1 .. n : k \notin n + 1 .. Len(q) BY <1>1
<1>4. \A k : Idx(q, t) = {k} /\ k > n => k \in n + 1 .. Len(q) BY <1>1 DEF Idx
<1> QED BY <1>2, <1>3, <1>4 DEF Lone

(* What a batch holds besides its first entry. *)
LEMMA IdxBatch ==
    ASSUME NEW q \in Seq(Tasks), NEW t, NEW n \in 1 .. Len(q)
    PROVE  /\ SubSeq(q, 2, n) \in Seq(Tasks)
           /\ Idx(q, t) = {} => Idx(SubSeq(q, 2, n), t) = {}
           /\ Idx(q, t) = {1} => Idx(SubSeq(q, 2, n), t) = {}
           /\ \A k \in 2 .. n : Idx(q, t) = {k} => Lone(Idx(SubSeq(q, 2, n), t))
           /\ \A k : Idx(q, t) = {k} /\ k > n => Idx(SubSeq(q, 2, n), t) = {}
<1>1. Len(q) \in Nat /\ n \in Nat /\ n <= Len(q) /\ 2 \in Nat \ {0} BY LenProperties
<1>2. /\ SubSeq(q, 2, n) \in Seq(Tasks)
      /\ Idx(q, t) = {} => Idx(SubSeq(q, 2, n), t) = {}
      /\ \A k : Idx(q, t) = {k} => Idx(SubSeq(q, 2, n), t)
                                   = IF k \in 2 .. n THEN {k - 2 + 1} ELSE {}
      BY <1>1, IdxSubSeq
<1>3. 1 \notin 2 .. n /\ \A k : k > n => k \notin 2 .. n BY <1>1
<1> QED BY <1>2, <1>3 DEF Lone

(* What is at the head of a queue. *)
LEMMA IdxHead ==
    ASSUME NEW q \in Seq(Tasks), q # << >>
    PROVE  /\ Head(q) \in Tasks /\ Len(q) \in Nat /\ Len(q) > 0
           /\ 1 \in Idx(q, Head(q))
           /\ \A t : t # Head(q) => 1 \notin Idx(q, t)
           /\ Tail(q) = SubSeq(q, 2, Len(q))
BY HeadTailProperties, TailIsSubSeq, EmptySeq DEF Idx

(* What a longer queue holds. *)
LEMMA IdxAppend ==
    ASSUME NEW q \in Seq(Tasks), NEW x \in Tasks, NEW t
    PROVE  /\ Append(q, x) \in Seq(Tasks)
           /\ t # x => Idx(Append(q, x), t) = Idx(q, t)
           /\ t = x /\ Idx(q, t) = {} => Lone(Idx(Append(q, x), t))
<1> DEFINE s == Append(q, x)
<1>1. /\ s \in Seq(Tasks) /\ Len(q) \in Nat /\ Len(s) = Len(q) + 1 /\ s[Len(q) + 1] = x
      /\ \A k \in 1 .. Len(q) : s[k] = q[k]
      OBVIOUS
<1> HIDE DEF s
<1>2. \A k \in 1 .. Len(s) : k \in 1 .. Len(q) \/ k = Len(q) + 1 BY <1>1
<1>3. 1 .. Len(q) \subseteq 1 .. Len(s) /\ Len(q) + 1 \in 1 .. Len(s) BY <1>1
<1>4. t # x => Idx(s, t) = Idx(q, t) BY <1>1, <1>2, <1>3 DEF Idx
<1>5. t = x /\ Idx(q, t) = {} => Idx(s, t) = {Len(q) + 1} BY <1>1, <1>2, <1>3 DEF Idx
<1> QED BY <1>1, <1>4, <1>5 DEF s, Lone

(* What two queues hold together. *)
LEMMA IdxConcat ==
    ASSUME NEW q \in Seq(Tasks), NEW r \in Seq(Tasks), NEW t
    PROVE  /\ q \o r \in Seq(Tasks)
           /\ Idx(r, t) = {} => Idx(q \o r, t) = Idx(q, t)
           /\ Idx(q, t) = {} /\ Lone(Idx(r, t)) => Lone(Idx(q \o r, t))
<1> DEFINE s == q \o r
<1>1. /\ s \in Seq(Tasks) /\ Len(q) \in Nat /\ Len(r) \in Nat /\ Len(s) = Len(q) + Len(r)
      /\ \A i \in 1 .. Len(q) + Len(r) : s[i] = IF i <= Len(q) THEN q[i] ELSE r[i - Len(q)]
      BY ConcatProperties, LenProperties
<1> HIDE DEF s
<1>2. \A i \in 1 .. Len(q) : i \in 1 .. Len(s) /\ s[i] = q[i] BY <1>1
<1>3. \A i \in 1 .. Len(r) : Len(q) + i \in 1 .. Len(s) /\ s[Len(q) + i] = r[i]
  <2> SUFFICES ASSUME NEW i \in 1 .. Len(r)
               PROVE  Len(q) + i \in 1 .. Len(s) /\ s[Len(q) + i] = r[i]
      OBVIOUS
  <2>1. /\ Len(q) + i \in 1 .. Len(q) + Len(r) /\ ~(Len(q) + i <= Len(q))
        /\ Len(q) + i - Len(q) = i
        BY <1>1
  <2> QED BY <2>1, <1>1
<1>4. \A i \in 1 .. Len(s) : i \in 1 .. Len(q) \/ \E j \in 1 .. Len(r) : i = Len(q) + j
  <2> SUFFICES ASSUME NEW i \in 1 .. Len(s), i \notin 1 .. Len(q)
               PROVE  \E j \in 1 .. Len(r) : i = Len(q) + j
      OBVIOUS
  <2>1. i - Len(q) \in 1 .. Len(r) /\ i = Len(q) + (i - Len(q)) BY <1>1
  <2> QED BY <2>1
<1>5. \A i \in 1 .. Len(q) : i \in Idx(s, t) <=> i \in Idx(q, t) BY <1>2 DEF Idx
<1>6. \A j \in 1 .. Len(r) : Len(q) + j \in Idx(s, t) <=> j \in Idx(r, t) BY <1>3 DEF Idx
<1>7. /\ Idx(q, t) \subseteq 1 .. Len(q) /\ Idx(r, t) \subseteq 1 .. Len(r)
      /\ Idx(s, t) \subseteq 1 .. Len(s)
      BY DEF Idx
<1>8. Idx(r, t) = {} => Idx(s, t) = Idx(q, t) BY <1>2, <1>4, <1>5, <1>6, <1>7
<1>9. ASSUME Idx(q, t) = {}, NEW k, Idx(r, t) = {k} PROVE Idx(s, t) = {Len(q) + k}
  <2>1. \A i \in Idx(s, t) : i = Len(q) + k BY <1>4, <1>5, <1>6, <1>7, <1>9
  <2>2. Len(q) + k \in Idx(s, t) BY <1>6, <1>7, <1>9
  <2> QED BY <2>1, <2>2
<1> QED BY <1>1, <1>8, <1>9 DEF s, Lone
-----------------------------------------------------------------------------
(* The pool starts empty. *)
LEMMA InvInit == Init => Inv
<1> SUFFICES ASSUME Init PROVE Inv OBVIOUS
<1> USE ThreadPoolAssumption DEF Init
<1>0. NumThreads \in Nat /\ NumThreads > 0 /\ 0 \in Workers BY DEF Workers
<1>1. NewWorker \in Worker /\ NewWorker.cur = "none" /\ NewWorker.local = << >>
      /\ NewWorker.pc = "unborn"
      BY <1>0 DEF NewWorker, Worker, Labels
<1>2. NoSched \in Callback /\ NoSched.task = "none" /\ NoSched.pc = "none"
      BY <1>0 DEF NoSched, Callback
<1> HIDE DEF NewWorker, NoSched
<1>3. TypeOK BY <1>1, <1>2 DEF TypeOK, States
<1>4. HandInv BY <1>1 DEF HandInv
<1>5. SchedInv
  <2>1. \A a \in Actors : sched[a] = NoSched OBVIOUS
  <2>2. Workers \subseteq Actors BY DEF Actors
  <2> HIDE DEF Init
  <2> QED BY <1>2, <2>1, <2>2 DEF SchedInv
<1>6. \A t : Idx(<< >>, t) = {} BY DEF Idx
<1>7. \A t \in Tasks : Nowhere(t) /\ ~Active(t)
      BY <1>1, <1>2, <1>6 DEF Nowhere, Inj0, Loc0, Sch0, Han0, Active
<1>8. RunnableInv BY <1>7 DEF RunnableInv
<1> QED BY <1>3, <1>4, <1>5, <1>8 DEF Inv

(* A step that moves no runnable and changes no task. *)
LEMMA NothingMoves ==
    ASSUME RunnableInv, injector' = injector, task' = task,
           \A w \in Workers : worker'[w].local = worker[w].local /\ worker'[w].cur = worker[w].cur,
           \A a \in Actors : sched'[a].task = sched[a].task
    PROVE  RunnableInv'
<1> SUFFICES ASSUME NEW t \in Tasks PROVE (IF Active(t) THEN Somewhere(t) ELSE Nowhere(t))'
    BY DEF RunnableInv
<1>1. (Inj0(t)' <=> Inj0(t)) /\ (Inj1(t)' <=> Inj1(t)) BY DEF Inj0, Inj1
<1>2. (Loc0(t)' <=> Loc0(t)) /\ (Loc1(t)' <=> Loc1(t)) BY DEF Loc0, Loc1
<1>3. (Sch0(t)' <=> Sch0(t)) /\ (Sch1(t)' <=> Sch1(t)) BY DEF Sch0, Sch1
<1>4. (Han0(t)' <=> Han0(t)) /\ (Han1(t)' <=> Han1(t)) BY DEF Han0, Han1
<1>5. Active(t)' <=> Active(t) BY DEF Active
<1> QED BY <1>1, <1>2, <1>3, <1>4, <1>5 DEF RunnableInv, Somewhere, Nowhere

(* A step that only moves workers in their loop, from and to places where  *)
(* they have as much in hand.                                              *)
LEMMA ControlStep ==
    ASSUME Inv, worker' \in [Workers -> Worker], UNCHANGED << injector, task, sched >>,
           \A v \in Workers :
              /\ worker'[v].local = worker[v].local /\ worker'[v].cur = worker[v].cur
              /\ worker'[v].pc \in {"run", "unannounce"} <=> worker[v].pc \in {"run", "unannounce"}
              /\ worker'[v].pc = "loop" \/ sched[v].pc = "none"
    PROVE  Inv'
<1>1. TypeOK' BY DEF Inv, TypeOK
<1>2. HandInv' BY DEF Inv, HandInv
<1>3. SchedInv' BY DEF Inv, SchedInv
<1>4. RunnableInv' BY NothingMoves DEF Inv
<1> QED BY <1>1, <1>2, <1>3, <1>4 DEF Inv

(* The numbers of the workers. *)
LEMMA WorkerNumbers == /\ NumThreads \in Nat /\ NumThreads > 0 /\ 0 \in Workers
                       /\ Workers \subseteq Actors /\ Workers \subseteq Nat
                       /\ \A n \in Workers : n < NumThreads - 1 => n + 1 \in Workers
BY ThreadPoolAssumption DEF Workers, Actors

(* The steps of a worker that move no runnable. *)
LEMMA WorkerControl ==
    ASSUME Inv, NEW w \in Workers,
           \/ StartWorker(w) \/ LoopTest(w) \/ Announce(w) \/ Unannounce(w)
           \/ ParkTest(w) \/ Park(w)
    PROVE  Inv'
<1>1. worker[w] \in Worker /\ worker \in [Workers -> Worker] BY DEF Inv, TypeOK
<1>2. \A v \in Workers : worker[v].pc = "loop" \/ sched[v].pc = "none" BY DEF Inv, SchedInv
<1>3. UNCHANGED << injector, task, sched >>
      BY DEF StartWorker, LoopTest, Announce, Unannounce, ParkTest, Park
<1> SUFFICES /\ worker' \in [Workers -> Worker]
             /\ \A v \in Workers :
                  /\ worker'[v].local = worker[v].local /\ worker'[v].cur = worker[v].cur
                  /\ worker'[v].pc \in {"run", "unannounce"}
                        <=> worker[v].pc \in {"run", "unannounce"}
                  /\ worker'[v].pc = "loop" \/ sched[v].pc = "none"
    BY <1>3, ControlStep
<1> USE <1>1, <1>2, WorkerNumbers DEF Worker, Labels, At, Goto, Look
<1>4. CASE StartWorker(w) BY <1>4 DEF StartWorker
<1>5. CASE LoopTest(w)
  <2>1. sched[w].pc = "none" /\ worker[w].pc = "loop" BY <1>5 DEF LoopTest
  <2>2. \/ worker' = [worker EXCEPT ![w].pc = "drain"]
        \/ worker' = [worker EXCEPT ![w].pc = "find", ![w].stage = 0, ![w].second = FALSE,
                                    ![w].parked = FALSE]
        BY <1>5 DEF LoopTest
  <2>3. CASE worker' = [worker EXCEPT ![w].pc = "drain"] BY <2>1, <2>3
  <2>4. CASE worker' = [worker EXCEPT ![w].pc = "find", ![w].stage = 0, ![w].second = FALSE,
                                      ![w].parked = FALSE]
        BY <2>1, <2>4
  <2> QED BY <2>2, <2>3, <2>4
<1>6. CASE Announce(w) BY <1>6 DEF Announce
<1>7. CASE Unannounce(w) BY <1>7 DEF Unannounce
<1>8. CASE ParkTest(w)
  <2>1. worker[w].pc = "test" BY <1>8 DEF ParkTest
  <2>2. PICK down \in RelaxedShutdown(w) :
             worker' = [worker EXCEPT ![w].pc = IF down THEN "drain" ELSE "park",
                                      ![w].parked = @ /\ ~down]
        BY <1>8 DEF ParkTest
  <2>3. down \in BOOLEAN BY DEF RelaxedShutdown, shutdown
  <2> QED BY <2>1, <2>2, <2>3
<1>9. CASE Park(w) BY <1>9 DEF Park
<1> QED BY <1>4, <1>5, <1>6, <1>7, <1>8, <1>9

(* The unpark loop of `shutdown`. *)
LEMMA ShutdownControl == ASSUME Inv, ShutdownStore \/ ShutdownUnpark PROVE Inv'
<1>1. worker \in [Workers -> Worker] BY DEF Inv, TypeOK
<1>2. \A v \in Workers : worker[v].pc = "loop" \/ sched[v].pc = "none" BY DEF Inv, SchedInv
<1>3. UNCHANGED << injector, task, sched >> BY DEF ShutdownStore, ShutdownUnpark
<1>4. /\ worker' \in [Workers -> Worker]
      /\ \A v \in Workers : /\ worker'[v].local = worker[v].local
                             /\ worker'[v].cur = worker[v].cur
                             /\ worker'[v].pc = worker[v].pc
  <2>1. CASE ShutdownStore BY <2>1, <1>1 DEF ShutdownStore
  <2>2. CASE ShutdownUnpark
    <3> DEFINE p(v) == [worker[v] EXCEPT !.token = "shutdown"]
    <3>1. \A v \in Workers : /\ p(v) \in Worker /\ p(v).local = worker[v].local
                             /\ p(v).cur = worker[v].cur /\ p(v).pc = worker[v].pc
          BY <1>1 DEF Worker
    <3>2. worker' = [v \in Workers |-> p(v)] BY <2>2 DEF ShutdownUnpark
    <3> HIDE DEF p
    <3> QED BY <3>1, <3>2
  <2> QED BY <2>1, <2>2
<1> QED BY <1>2, <1>3, <1>4, ControlStep

(* A look of find_task that found nothing. *)
LEMMA MissedControl ==
    ASSUME Inv, NEW w \in Workers, At(w, "find"), worker' = [worker EXCEPT ![w] = Missed(@)],
           UNCHANGED << injector, task, sched >>
    PROVE  Inv'
<1>1. worker[w] \in Worker /\ worker \in [Workers -> Worker] BY DEF Inv, TypeOK
<1>2. \A v \in Workers : worker[v].pc = "loop" \/ sched[v].pc = "none" BY DEF Inv, SchedInv
<1> DEFINE m == Missed(worker[w])
<1>3. /\ m \in Worker /\ m.local = worker[w].local /\ m.cur = worker[w].cur
      /\ m.pc \in {"find", "test", "announce"}
  <2>1. worker[w].stage \in Workers BY <1>1 DEF Worker
  <2>2. worker[w].stage < NumThreads - 1 => worker[w].stage + 1 \in Workers
        BY <2>1, WorkerNumbers
  <2> QED BY <1>1, <2>2, WorkerNumbers DEF Missed, Worker, Labels, At
<1> HIDE DEF m
<1>4. /\ worker' \in [Workers -> Worker] /\ worker'[w] = m
      /\ \A v \in Workers : v # w => worker'[v] = worker[v]
      BY <1>1, <1>3 DEF m
<1>5. worker[w].pc = "find" BY DEF At
<1> QED BY <1>2, <1>3, <1>4, <1>5, ControlStep

(* A step inside `schedule` that moves no runnable. *)
LEMMA ScheduleControl ==
    ASSUME Inv, NEW a \in Actors, ScheduleScan(a) \/ ScheduleUnpark(a)
    PROVE  Inv'
<1>1. sched[a] \in Callback /\ sched \in [Actors -> Callback] /\ worker \in [Workers -> Worker]
      BY DEF Inv, TypeOK
<1>2. UNCHANGED << injector, task >> BY DEF ScheduleScan, ScheduleUnpark
<1>3. sched[a].pc \in {"scan", "unpark"} /\ sched[a].task = "none"
      BY DEF ScheduleScan, ScheduleUnpark, Inv, SchedInv
<1>4. /\ sched' \in [Actors -> Callback] /\ sched'[a].task = "none"
      /\ \A b \in Actors : b # a => sched'[b] = sched[b]
      /\ sched'[a].pc \in {"none", "scan", "unpark"}
      /\ sched'[a].pc = "unpark" => sched'[a].k < NumThreads
  <2> USE <1>1, <1>3, WorkerNumbers DEF Callback, NoSched
  <2>1. CASE ScheduleScan(a)
    <3>1. sched[a].k \in 0 .. NumThreads BY DEF Callback
    <3>2. CASE sched' = [sched EXCEPT ![a] = NoSched] BY <3>2
    <3>3. CASE sched[a].k < NumThreads /\ sched' = [sched EXCEPT ![a].pc = "unpark"] BY <3>3
    <3>4. CASE sched[a].k < NumThreads /\ sched' = [sched EXCEPT ![a].k = sched[a].k + 1]
      <4>1. sched[a].k + 1 \in 0 .. NumThreads BY <3>1, <3>4
      <4>2. sched[a].pc = "scan" BY <2>1 DEF ScheduleScan
      <4> QED BY <3>4, <4>1, <4>2
    <3> QED BY <2>1, <3>2, <3>3, <3>4 DEF ScheduleScan
  <2>2. CASE ScheduleUnpark(a) BY <2>2 DEF ScheduleUnpark
  <2> QED BY <2>1, <2>2
<1>5. /\ worker' \in [Workers -> Worker]
      /\ \A v \in Workers : /\ worker'[v].local = worker[v].local
                             /\ worker'[v].cur = worker[v].cur
                             /\ worker'[v].pc = worker[v].pc
  <2>1. CASE ScheduleScan(a)
    <3>1. \/ worker' = worker
          \/ sched[a].k < NumThreads /\ worker' = [worker EXCEPT ![sched[a].k].parked = FALSE]
          BY <2>1 DEF ScheduleScan
    <3>2. sched[a].k < NumThreads => sched[a].k \in Workers BY <1>1, WorkerNumbers DEF Callback, Workers
    <3>3. CASE worker' = worker BY <3>3, <1>1
    <3>4. CASE sched[a].k < NumThreads /\ worker' = [worker EXCEPT ![sched[a].k].parked = FALSE]
      <4>1. PICK j \in Workers : j = sched[a].k BY <3>2, <3>4
      <4> DEFINE r == [worker[j] EXCEPT !.parked = FALSE]
      <4>2. /\ r \in Worker /\ r.local = worker[j].local /\ r.cur = worker[j].cur
            /\ r.pc = worker[j].pc
        <5>1. worker[j] \in Worker BY <1>1
        <5> QED BY <5>1 DEF Worker
      <4>3. worker' = [worker EXCEPT ![j] = r] BY <3>4, <4>1
      <4> HIDE DEF r
      <4> QED BY <4>2, <4>3, <1>1
    <3> QED BY <3>1, <3>3, <3>4
  <2>2. CASE ScheduleUnpark(a)
    <3>1. sched[a].k < NumThreads BY <2>2 DEF ScheduleUnpark, Inv, SchedInv
    <3>2. sched[a].k \in Workers BY <3>1, <1>1, WorkerNumbers DEF Callback, Workers
    <3> QED BY <2>2, <3>2, <1>1 DEF ScheduleUnpark, Worker
  <2> QED BY <2>1, <2>2
<1>6. TypeOK' BY <1>2, <1>4, <1>5 DEF Inv, TypeOK
<1>7. HandInv' BY <1>5 DEF Inv, HandInv
<1>8. SchedInv'
  <2>1. \A w \in Workers : worker[w].pc # "loop" => w # a
        BY <1>3, WorkerNumbers DEF Inv, SchedInv
  <2> QED BY <1>4, <1>5, <2>1, WorkerNumbers DEF Inv, SchedInv
<1>9. \A b \in Actors : sched'[b].task = sched[b].task BY <1>3, <1>4
<1>10. RunnableInv' BY <1>2, <1>5, <1>9, NothingMoves DEF Inv
<1> QED BY <1>6, <1>7, <1>8, <1>10 DEF Inv

-----------------------------------------------------------------------------
(* A step that moves the runnable of x and changes no other task. *)
LEMMA OneMoves ==
    ASSUME RunnableInv, NEW x \in Tasks, \A t \in Tasks \ {x} : task'[t] = task[t],
           \A t \in Tasks \ {x} : /\ Somewhere(t) => Somewhere(t)'
                                  /\ Nowhere(t) => Nowhere(t)',
           IF Active(x)' THEN Somewhere(x)' ELSE Nowhere(x)'
    PROVE  RunnableInv'
<1>1. \A t \in Tasks \ {x} : Active(t)' <=> Active(t) BY DEF Active
<1> QED BY <1>1 DEF RunnableInv

(* A task that is found in a queue is there once, and nowhere else. *)
LEMMA InInjector ==
    ASSUME RunnableInv, NEW t \in Tasks, ~Inj0(t)
    PROVE  Active(t) /\ Inj1(t) /\ Loc0(t) /\ Sch0(t) /\ Han0(t)
BY DEF RunnableInv, Somewhere, Nowhere

(* See InInjector: a worker's queue. *)
LEMMA InLocal ==
    ASSUME RunnableInv, NEW t \in Tasks, ~Loc0(t)
    PROVE  Active(t) /\ Inj0(t) /\ Loc1(t) /\ Sch0(t) /\ Han0(t)
BY DEF RunnableInv, Somewhere, Nowhere

(* A task that is in somebody's hands is nowhere else. *)
LEMMA InSched ==
    ASSUME RunnableInv, NEW t \in Tasks, ~Sch0(t)
    PROVE  Active(t) /\ Inj0(t) /\ Loc0(t) /\ Sch1(t) /\ Han0(t)
BY DEF RunnableInv, Somewhere, Nowhere

(* See InSched: a worker that runs it. *)
LEMMA InHand ==
    ASSUME RunnableInv, NEW t \in Tasks, ~Han0(t)
    PROVE  Active(t) /\ Inj0(t) /\ Loc0(t) /\ Sch0(t) /\ Han1(t)
BY DEF RunnableInv, Somewhere, Nowhere

(* `schedule` begins: by a spawn, a wake-up, or `run`. *)
LEMMA BeginMoves ==
    ASSUME Inv, NEW a \in Actors, NEW x \in Tasks, sched[a].pc = "none", Begin(a, x)
    PROVE  /\ sched' \in [Actors -> Callback]
           /\ sched'[a].task = x /\ sched'[a].pc = "check"
           /\ \A b \in Actors : b # a => sched'[b] = sched[b]
           /\ Sch0(x) => Sch1(x)'
           /\ \A t \in Tasks \ {x} : (Sch0(t) => Sch0(t)') /\ (Sch1(t) => Sch1(t)')
<1>1. sched[a].task = "none" BY DEF Inv, SchedInv
<1>2. sched \in [Actors -> Callback] BY DEF Inv, TypeOK
<1> DEFINE c == [pc |-> "check", task |-> x, k |-> 0]
<1>3. c \in Callback /\ c.task = x /\ c.pc = "check" BY WorkerNumbers DEF Callback
<1>4. sched' = [sched EXCEPT ![a] = c] BY DEF Begin
<1> HIDE DEF c
<1>5. /\ sched' \in [Actors -> Callback] /\ sched'[a] = c
      /\ \A b \in Actors : b # a => sched'[b] = sched[b]
      BY <1>2, <1>3, <1>4
<1>6. Sch0(x) => Sch1(x)' BY <1>3, <1>5 DEF Sch0, Sch1
<1>7. \A t \in Tasks \ {x} : \A b \in Actors : sched'[b].task = t <=> sched[b].task = t
      BY <1>1, <1>3, <1>5, ThreadPoolAssumption
<1>8. \A t \in Tasks \ {x} : (Sch0(t) => Sch0(t)') /\ (Sch1(t) => Sch1(t)')
      BY <1>7 DEF Sch0, Sch1
<1> QED BY <1>3, <1>5, <1>6, <1>8

(* A client spawns or wakes a task. *)
LEMMA ClientMoves ==
    ASSUME Inv, NEW c \in Clients, NEW x \in Tasks, SpawnOn(c, x) \/ Wake(c, x)
    PROVE  Inv'
<1>1. c \in Actors /\ c \notin Workers BY ThreadPoolAssumption DEF Actors
<1>2. /\ UNCHANGED << injector, worker >> /\ sched[c].pc = "none" /\ Begin(c, x)
      /\ task' = [task EXCEPT ![x] = "scheduled"] /\ task[x] \in {"new", "idle"}
      BY DEF SpawnOn, Wake
<1>3. task \in [Tasks -> States] BY DEF Inv, TypeOK
<1>4. /\ sched' \in [Actors -> Callback]
      /\ sched'[c].task = x /\ sched'[c].pc = "check"
      /\ \A b \in Actors : b # c => sched'[b] = sched[b]
      /\ Sch0(x) => Sch1(x)'
      /\ \A t \in Tasks \ {x} : (Sch0(t) => Sch0(t)') /\ (Sch1(t) => Sch1(t)')
      BY <1>1, <1>2, BeginMoves
<1>5. TypeOK' BY <1>2, <1>3, <1>4 DEF Inv, TypeOK, States
<1>6. HandInv' BY <1>2 DEF Inv, HandInv
<1>7. SchedInv' BY <1>1, <1>2, <1>4, WorkerNumbers, ThreadPoolAssumption DEF Inv, SchedInv
<1>8. RunnableInv'
  <2>1. \A t : /\ (Inj0(t)' <=> Inj0(t)) /\ (Inj1(t)' <=> Inj1(t))
               /\ (Loc0(t)' <=> Loc0(t)) /\ (Loc1(t)' <=> Loc1(t))
               /\ (Han0(t)' <=> Han0(t)) /\ (Han1(t)' <=> Han1(t))
        BY <1>2 DEF Inj0, Inj1, Loc0, Loc1, Han0, Han1
  <2>2. Nowhere(x) BY <1>2 DEF Inv, RunnableInv, Active
  <2>3. Somewhere(x)' BY <2>1, <2>2, <1>4 DEF Nowhere, Somewhere
  <2>4. Active(x)' BY <1>2, <1>3 DEF Active
  <2>5. \A t \in Tasks \ {x} : (Somewhere(t) => Somewhere(t)') /\ (Nowhere(t) => Nowhere(t)')
        BY <2>1, <1>4 DEF Nowhere, Somewhere
  <2>6. \A t \in Tasks \ {x} : task'[t] = task[t] BY <1>2, <1>3
  <2> QED BY <2>3, <2>4, <2>5, <2>6, OneMoves DEF Inv
<1> QED BY <1>5, <1>6, <1>7, <1>8 DEF Inv

(* The callback: the runnable is dropped, or pushed to the injector.       *)
LEMMA ScheduleMoves ==
    ASSUME Inv, NEW a \in Actors, ScheduleCheck(a) \/ SchedulePush(a)
    PROVE  Inv'
<1>1. sched[a] \in Callback /\ sched \in [Actors -> Callback] /\ task \in [Tasks -> States]
      /\ injector \in Seq(Tasks)
      BY DEF Inv, TypeOK
<1>2. PICK x \in Tasks : x = sched[a].task /\ x # "none" /\ sched[a].pc \in {"check", "push"}
      BY <1>1, ThreadPoolAssumption DEF ScheduleCheck, SchedulePush, Inv, SchedInv, Callback
<1>3. worker' = worker BY DEF ScheduleCheck, SchedulePush
<1>4. Active(x) /\ Inj0(x) /\ Loc0(x) /\ Sch1(x) /\ Han0(x)
      BY <1>2, InSched DEF Inv, Sch0
<1>5. HandInv' BY <1>3 DEF Inv, HandInv
<1>6. \A w \in Workers : worker[w].pc # "loop" => w # a
      BY <1>2, WorkerNumbers DEF Inv, SchedInv
<1>7. CASE ScheduleCheck(a) /\ ~shutdown
  <2>1. sched' = [sched EXCEPT ![a].pc = "push"] /\ UNCHANGED << injector, task >>
        BY <1>7 DEF ScheduleCheck
  <2>2. /\ sched' \in [Actors -> Callback] /\ sched'[a].task = x /\ sched'[a].pc = "push"
        /\ \A b \in Actors : b # a => sched'[b] = sched[b]
        BY <2>1, <1>1, <1>2 DEF Callback
  <2>3. SchedInv' BY <2>2, <1>2, <1>3, <1>6, WorkerNumbers DEF Inv, SchedInv
  <2>4. TypeOK' BY <2>1, <2>2, <1>3 DEF Inv, TypeOK
  <2>5. RunnableInv' BY <2>1, <2>2, <1>2, <1>3, NothingMoves DEF Inv
  <2> QED BY <2>3, <2>4, <2>5, <1>5 DEF Inv
<1>8. CASE SchedulePush(a) \/ (ScheduleCheck(a) /\ shutdown)
  <2>1. /\ sched' \in [Actors -> Callback]
        /\ sched'[a].task = "none" /\ sched'[a].pc \in {"none", "scan"}
        /\ \A b \in Actors : b # a => sched'[b] = sched[b]
    <3>1. CASE SchedulePush(a) BY <3>1, <1>1 DEF SchedulePush, Callback
    <3>2. CASE ScheduleCheck(a) /\ shutdown
          BY <3>2, <1>1, WorkerNumbers DEF ScheduleCheck, Callback, NoSched
    <3> QED BY <1>8, <3>1, <3>2
  <2>2. SchedInv' BY <2>1, <1>3, <1>6, WorkerNumbers DEF Inv, SchedInv
  <2>3. Sch0(x)'
    <3>1. \A b \in Actors : sched[b].task = x => b = a BY <1>2, <1>4 DEF Sch1
    <3> QED BY <2>1, <3>1, <1>2 DEF Sch0
  <2>4. \A t \in Tasks \ {x} : (Sch0(t) => Sch0(t)') /\ (Sch1(t) => Sch1(t)')
    <3>1. \A t \in Tasks \ {x} : \A b \in Actors : sched'[b].task = t <=> sched[b].task = t
          BY <2>1, <1>2, ThreadPoolAssumption
    <3> QED BY <3>1 DEF Sch0, Sch1
  <2>5. \A t : /\ (Loc0(t)' <=> Loc0(t)) /\ (Loc1(t)' <=> Loc1(t))
               /\ (Han0(t)' <=> Han0(t)) /\ (Han1(t)' <=> Han1(t))
        BY <1>3 DEF Loc0, Loc1, Han0, Han1
  <2>6. CASE SchedulePush(a)
    <3>1. injector' = Append(injector, x) /\ task' = task BY <2>6, <1>2 DEF SchedulePush
    <3>2. TypeOK' BY <3>1, <2>1, <1>1, <1>2, <1>3, IdxAppend DEF Inv, TypeOK
    <3>3. Inj1(x)' BY <3>1, <1>1, <1>2, <1>4, IdxAppend DEF Inj0, Inj1
    <3>4. \A t \in Tasks \ {x} : (Inj0(t)' <=> Inj0(t)) /\ (Inj1(t)' <=> Inj1(t))
          BY <3>1, <1>1, <1>2, IdxAppend DEF Inj0, Inj1
    <3>5. \A t \in Tasks \ {x} : (Somewhere(t) => Somewhere(t)') /\ (Nowhere(t) => Nowhere(t)')
          BY <3>4, <2>4, <2>5 DEF Somewhere, Nowhere
    <3>6. Somewhere(x)' BY <3>3, <2>3, <2>5, <1>4 DEF Somewhere
    <3>7. Active(x)' BY <3>1, <1>4 DEF Active
    <3>8. RunnableInv' BY <3>1, <3>5, <3>6, <3>7, <1>2, OneMoves DEF Inv
    <3> QED BY <3>2, <3>8, <2>2, <1>5 DEF Inv
  <2>7. CASE ScheduleCheck(a) /\ shutdown
    <3>1. injector' = injector /\ task' = [task EXCEPT ![x] = "cancelled"]
          BY <2>7, <1>2 DEF ScheduleCheck
    <3>2. TypeOK' BY <3>1, <2>1, <1>1, <1>2, <1>3 DEF Inv, TypeOK, States
    <3>3. \A t : (Inj0(t)' <=> Inj0(t)) /\ (Inj1(t)' <=> Inj1(t)) BY <3>1 DEF Inj0, Inj1
    <3>4. \A t \in Tasks \ {x} : (Somewhere(t) => Somewhere(t)') /\ (Nowhere(t) => Nowhere(t)')
          BY <3>3, <2>4, <2>5 DEF Somewhere, Nowhere
    <3>5. Nowhere(x)' BY <3>3, <2>3, <2>5, <1>4 DEF Nowhere
    <3>6. ~Active(x)' /\ \A t \in Tasks \ {x} : task'[t] = task[t]
          BY <3>1, <1>1, <1>2 DEF Active
    <3>7. RunnableInv' BY <3>4, <3>5, <3>6, <1>2, OneMoves DEF Inv
    <3> QED BY <3>2, <3>7, <2>2, <1>5 DEF Inv
  <2> QED BY <1>8, <2>6, <2>7
<1> QED BY <1>7, <1>8

(* `run` is over: the task is done, pending, or scheduled again. *)
LEMMA RunMoves == ASSUME Inv, NEW w \in Workers, Run(w) PROVE Inv'
<1>1. worker[w] \in Worker /\ worker \in [Workers -> Worker] /\ task \in [Tasks -> States]
      BY DEF Inv, TypeOK
<1>2. worker[w].pc = "run" /\ sched[w].pc = "none" /\ w \in Actors
      BY WorkerNumbers DEF Run, At, Inv, SchedInv
<1>3. PICK x \in Tasks : x = worker[w].cur /\ x # "none"
      BY <1>1, <1>2 DEF Inv, HandInv, Worker
<1> DEFINE r == [worker[w] EXCEPT !.cur = "none", !.pc = "loop"]
<1>4. r \in Worker /\ r.local = worker[w].local /\ r.cur = "none" /\ r.pc = "loop"
      BY <1>1 DEF Worker, Labels
<1>5. worker' = [worker EXCEPT ![w] = r] BY <1>1 DEF Run
<1> HIDE DEF r
<1>6. /\ worker' \in [Workers -> Worker] /\ worker'[w] = r
      /\ \A v \in Workers : v # w => worker'[v] = worker[v]
      BY <1>1, <1>4, <1>5
<1>7. HandInv' BY <1>4, <1>6 DEF Inv, HandInv
<1>8. Active(x) /\ Inj0(x) /\ Loc0(x) /\ Sch0(x) /\ Han1(x)
      BY <1>3, InHand DEF Inv, Han0
<1>9. Han0(x)'
  <2>1. \A v \in Workers : worker[v].cur = x => v = w BY <1>3, <1>8 DEF Han1
  <2> QED BY <2>1, <1>3, <1>4, <1>6 DEF Han0
<1>10. \A t \in Tasks \ {x} : (Han0(t) => Han0(t)') /\ (Han1(t) => Han1(t)')
  <2>1. \A t \in Tasks \ {x} : \A v \in Workers : worker'[v].cur = t <=> worker[v].cur = t
        BY <1>3, <1>4, <1>6, ThreadPoolAssumption
  <2> QED BY <2>1 DEF Han0, Han1
<1>11. \A t : (Loc0(t)' <=> Loc0(t)) /\ (Loc1(t)' <=> Loc1(t))
  <2>1. \A v \in Workers : worker'[v].local = worker[v].local BY <1>4, <1>6
  <2> QED BY <2>1 DEF Loc0, Loc1
<1>12. injector' = injector BY DEF Run
<1>13. \A t : (Inj0(t)' <=> Inj0(t)) /\ (Inj1(t)' <=> Inj1(t)) BY <1>12 DEF Inj0, Inj1
<1>14. CASE sched' = sched /\ \E outcome \in {"done", "idle"} : task' = [task EXCEPT ![x] = outcome]
  <2>1. TypeOK' BY <1>1, <1>3, <1>6, <1>12, <1>14 DEF Inv, TypeOK, States
  <2>2. SchedInv' BY <1>2, <1>6, <1>14 DEF Inv, SchedInv
  <2>3. \A t : (Sch0(t)' <=> Sch0(t)) /\ (Sch1(t)' <=> Sch1(t)) BY <1>14 DEF Sch0, Sch1
  <2>4. ~Active(x)' /\ \A t \in Tasks \ {x} : task'[t] = task[t]
        BY <1>1, <1>3, <1>14 DEF Active
  <2>5. Nowhere(x)' BY <2>3, <1>8, <1>9, <1>11, <1>13 DEF Nowhere
  <2>6. \A t \in Tasks \ {x} : (Somewhere(t) => Somewhere(t)') /\ (Nowhere(t) => Nowhere(t)')
        BY <2>3, <1>10, <1>11, <1>13 DEF Somewhere, Nowhere
  <2>7. RunnableInv' BY <2>4, <2>5, <2>6, OneMoves DEF Inv
  <2> QED BY <2>1, <2>2, <2>7, <1>7 DEF Inv
<1>15. CASE Begin(w, x) /\ task' = [task EXCEPT ![x] = "scheduled"]
  <2>1. /\ sched' \in [Actors -> Callback]
        /\ sched'[w].task = x /\ sched'[w].pc = "check"
        /\ \A b \in Actors : b # w => sched'[b] = sched[b]
        /\ Sch0(x) => Sch1(x)'
        /\ \A t \in Tasks \ {x} : (Sch0(t) => Sch0(t)') /\ (Sch1(t) => Sch1(t)')
        BY <1>2, <1>15, BeginMoves
  <2>2. TypeOK' BY <2>1, <1>1, <1>3, <1>6, <1>12, <1>15 DEF Inv, TypeOK, States
  <2>3. SchedInv' BY <2>1, <1>3, <1>4, <1>6, WorkerNumbers DEF Inv, SchedInv
  <2>4. Active(x)' /\ \A t \in Tasks \ {x} : task'[t] = task[t]
        BY <1>1, <1>3, <1>15 DEF Active
  <2>5. Somewhere(x)' BY <2>1, <1>8, <1>9, <1>11, <1>13 DEF Somewhere
  <2>6. \A t \in Tasks \ {x} : (Somewhere(t) => Somewhere(t)') /\ (Nowhere(t) => Nowhere(t)')
        BY <2>1, <1>10, <1>11, <1>13 DEF Somewhere, Nowhere
  <2>7. RunnableInv' BY <2>4, <2>5, <2>6, OneMoves DEF Inv
  <2> QED BY <2>2, <2>3, <2>7, <1>7 DEF Inv
<1> QED BY <1>3, <1>14, <1>15 DEF Run

(* One step of the drain loop of `shutdown`. *)
LEMMA ShutdownMoves == ASSUME Inv, ShutdownDrain PROVE Inv'
<1>1. injector \in Seq(Tasks) /\ task \in [Tasks -> States] BY DEF Inv, TypeOK
<1>2. UNCHANGED << worker, sched >> BY DEF ShutdownDrain
<1>3. HandInv' /\ SchedInv' BY <1>2 DEF Inv, HandInv, SchedInv
<1>4. CASE injector = << >>
  <2>1. UNCHANGED << injector, task >> BY <1>4 DEF ShutdownDrain
  <2>2. TypeOK' BY <1>2, <2>1 DEF Inv, TypeOK
  <2>3. RunnableInv' BY <1>2, <2>1, NothingMoves DEF Inv
  <2> QED BY <2>2, <2>3, <1>3 DEF Inv
<1>5. CASE injector # << >>
  <2>1. PICK x \in Tasks : x = Head(injector) BY <1>1, <1>5, IdxHead
  <2>2. task' = [task EXCEPT ![x] = "cancelled"] /\ injector' = SubSeq(injector, 2, Len(injector))
        BY <2>1, <1>1, <1>5, IdxHead DEF ShutdownDrain
  <2>3. /\ 1 \in Idx(injector, x) /\ \A t : t # x => 1 \notin Idx(injector, t)
        /\ Len(injector) \in Nat
        BY <2>1, <1>1, <1>5, IdxHead
  <2>4. \A t : \A k \in Idx(injector, t) : k \in 1 .. Len(injector) BY DEF Idx
  <2>5. Active(x) /\ Inj1(x) /\ Loc0(x) /\ Sch0(x) /\ Han0(x)
        BY <2>3, InInjector DEF Inv, Inj0
  <2>6. Idx(injector, x) = {1} BY <2>3, <2>5 DEF Inj1, Lone
  <2>a. 1 \in 1 .. Len(injector) /\ 1 + 1 = 2 BY <2>3, <2>4
  <2>b. \A t : /\ injector' \in Seq(Tasks)
               /\ Idx(injector, t) = {} => Idx(injector', t) = {}
               /\ \A k \in 1 .. 1 : Idx(injector, t) = {k} => Idx(injector', t) = {}
               /\ \A k : Idx(injector, t) = {k} /\ k > 1 => Lone(Idx(injector', t))
        BY <2>2, <2>a, <1>1, IdxRest
  <2>7. injector' \in Seq(Tasks) /\ Inj0(x)' BY <2>6, <2>b DEF Inj0
  <2>8. \A t \in Tasks \ {x} : Inj0(t) => Inj0(t)' BY <2>b DEF Inj0
  <2>9. ASSUME NEW t \in Tasks \ {x}, Inj1(t) PROVE Inj1(t)'
    <3>1. PICK k : Idx(injector, t) = {k} BY <2>9 DEF Inj1, Lone
    <3>2. k > 1 BY <3>1, <2>3, <2>4
    <3> QED BY <3>1, <3>2, <2>b DEF Inj1
  <2>10. \A t : /\ (Loc0(t)' <=> Loc0(t)) /\ (Loc1(t)' <=> Loc1(t))
                /\ (Han0(t)' <=> Han0(t)) /\ (Han1(t)' <=> Han1(t))
                /\ (Sch0(t)' <=> Sch0(t)) /\ (Sch1(t)' <=> Sch1(t))
         BY <1>2 DEF Loc0, Loc1, Han0, Han1, Sch0, Sch1
  <2>11. TypeOK' BY <2>2, <2>7, <1>1, <1>2 DEF Inv, TypeOK, States
  <2>12. Nowhere(x)' BY <2>5, <2>7, <2>10 DEF Nowhere
  <2>13. \A t \in Tasks \ {x} : (Somewhere(t) => Somewhere(t)') /\ (Nowhere(t) => Nowhere(t)')
         BY <2>8, <2>9, <2>10 DEF Somewhere, Nowhere
  <2>14. ~Active(x)' /\ \A t \in Tasks \ {x} : task'[t] = task[t]
         BY <2>2, <1>1 DEF Active
  <2>15. RunnableInv' BY <2>12, <2>13, <2>14, OneMoves DEF Inv
  <2> QED BY <2>11, <2>15, <1>3 DEF Inv
<1> QED BY <1>4, <1>5

(* The worker after find_task returned a runnable. *)
LEMMA FoundWorker ==
    ASSUME NEW wk \in Worker, NEW q \in Seq(Tasks), q # << >>, NEW n \in 1 .. Len(q)
    PROVE  /\ Found(wk, q, n) \in Worker /\ Found(wk, q, n).cur = Head(q)
           /\ Found(wk, q, n).local = wk.local \o SubSeq(q, 2, n)
           /\ Found(wk, q, n).pc \in {"run", "unannounce"}
<1>1. Head(q) \in Tasks BY IdxHead
<1>2. wk.local \in Seq(Tasks) BY DEF Worker
<1>3. SubSeq(q, 2, n) \in Seq(Tasks) BY IdxBatch
<1> DEFINE l == wk.local \o SubSeq(q, 2, n)
<1>4. l \in Seq(Tasks) BY <1>2, <1>3, ConcatProperties
<1>5. Found(wk, q, n) = [wk EXCEPT !.cur = Head(q), !.local = l,
               !.pc = IF wk.second THEN "unannounce" ELSE "run",
               !.stage = 0, !.second = FALSE] BY DEF Found
<1> HIDE DEF l
<1>6. /\ Found(wk, q, n) \in Worker /\ Found(wk, q, n).cur = Head(q)
      /\ Found(wk, q, n).local = l /\ Found(wk, q, n).pc \in {"run", "unannounce"}
      BY <1>1, <1>4, <1>5, WorkerNumbers DEF Worker, Labels
<1> QED BY <1>6 DEF l

(* A worker takes the runnable of x out of a queue, and others may move    *)
(* between the queues: the invariant holds again if they all arrive.       *)
LEMMA TakesRunnable ==
    ASSUME Inv, NEW w \in Workers, NEW x \in Tasks, At(w, "find"),
           injector' \in Seq(Tasks), worker' \in [Workers -> Worker], sched' = sched,
           task' = [task EXCEPT ![x] = "running"],
           worker'[w].cur = x, worker'[w].pc \in {"run", "unannounce"},
           \A v \in Workers \ {w} : worker'[v].cur = worker[v].cur /\ worker'[v].pc = worker[v].pc,
           Sch0(x), Han0(x), Inj0(x)', Loc0(x)',
           \A t \in Tasks \ {x} :
              /\ Inj0(t) /\ Loc0(t) => Inj0(t)' /\ Loc0(t)'
              /\ Inj1(t) /\ Loc0(t) => \/ Inj1(t)' /\ Loc0(t)'
                                       \/ Inj0(t)' /\ Loc1(t)'
              /\ Inj0(t) /\ Loc1(t) => Inj0(t)' /\ Loc1(t)'
    PROVE  Inv'
<1>1. task \in [Tasks -> States] BY DEF Inv, TypeOK
<1>2. worker[w].pc = "find" /\ worker[w].cur = "none" BY DEF At, Inv, HandInv
<1>3. TypeOK' BY <1>1 DEF Inv, TypeOK, States
<1>4. x # "none" BY ThreadPoolAssumption
<1>5. HandInv'
  <2>1. \A v \in Workers : worker'[v].cur # "none" <=> worker'[v].pc \in {"run", "unannounce"}
        BY <1>4 DEF Inv, HandInv
  <2> QED BY <2>1 DEF HandInv
<1>6. SchedInv'
  <2>1. \A v \in Workers : worker'[v].pc # "loop" => sched[v].pc = "none"
        BY <1>2 DEF Inv, SchedInv
  <2> QED BY <2>1 DEF Inv, SchedInv
<1>7. Han1(x)' BY DEF Han0, Han1
<1>8. \A t \in Tasks \ {x} : (Han0(t) => Han0(t)') /\ (Han1(t) => Han1(t)')
  <2>1. \A t \in Tasks \ {x} : \A v \in Workers : worker'[v].cur = t <=> worker[v].cur = t
        BY <1>2, ThreadPoolAssumption
  <2> QED BY <2>1 DEF Han0, Han1
<1>9. \A t : (Sch0(t)' <=> Sch0(t)) /\ (Sch1(t)' <=> Sch1(t)) BY DEF Sch0, Sch1
<1>10. Somewhere(x)' BY <1>7, <1>9 DEF Somewhere
<1>11. \A t \in Tasks \ {x} : (Somewhere(t) => Somewhere(t)') /\ (Nowhere(t) => Nowhere(t)')
       BY <1>8, <1>9 DEF Somewhere, Nowhere
<1>12. Active(x)' /\ \A t \in Tasks \ {x} : task'[t] = task[t] BY <1>1 DEF Active
<1>13. RunnableInv' BY <1>10, <1>11, <1>12, OneMoves DEF Inv
<1> QED BY <1>3, <1>5, <1>6, <1>13 DEF Inv

(* One entry less in a local queue: the others stay in it. *)
LEMMA LocalLoses ==
    ASSUME Inv, NEW w \in Workers, worker[w].local # << >>,
           \A v \in Workers \ {w} : worker'[v].local = worker[v].local,
           worker'[w].local = Tail(worker[w].local)
    PROVE  \E x \in Tasks :
              /\ x = Head(worker[w].local) /\ worker'[w].local \in Seq(Tasks)
              /\ Active(x) /\ Inj0(x) /\ Sch0(x) /\ Han0(x) /\ Loc0(x)'
              /\ \A t \in Tasks \ {x} : (Loc0(t) => Loc0(t)') /\ (Loc1(t) => Loc1(t)')
<1>1. PICK q \in Seq(Tasks) : q = worker[w].local BY DEF Inv, TypeOK, Worker
<1>2. PICK x \in Tasks : x = Head(q) BY <1>1, IdxHead
<1>3. /\ Len(q) \in Nat /\ 1 \in 1 .. Len(q) /\ 1 + 1 = 2 /\ 1 \in Idx(q, x)
      /\ \A t : t # x => 1 \notin Idx(q, t)
      /\ worker'[w].local = SubSeq(q, 2, Len(q))
      BY <1>1, <1>2, IdxHead
<1> DEFINE r == worker'[w].local
<1>4. \A t : /\ r \in Seq(Tasks)
             /\ Idx(q, t) = {} => Idx(r, t) = {}
             /\ \A k \in 1 .. 1 : Idx(q, t) = {k} => Idx(r, t) = {}
             /\ \A k : Idx(q, t) = {k} /\ k > 1 => Lone(Idx(r, t))
      BY <1>3, IdxRest
<1>5. Active(x) /\ Inj0(x) /\ Loc1(x) /\ Sch0(x) /\ Han0(x)
      BY <1>1, <1>3, InLocal DEF Inv, Loc0
<1>6. Idx(q, x) = {1} /\ \A v \in Workers \ {w} : Idx(worker[v].local, x) = {}
  <2>1. PICK u \in Workers : /\ Lone(Idx(worker[u].local, x))
                             /\ \A v \in Workers \ {u} : Idx(worker[v].local, x) = {}
        BY <1>5 DEF Loc1
  <2>2. u = w BY <2>1, <1>1, <1>3
  <2> QED BY <2>1, <2>2, <1>1, <1>3 DEF Lone
<1>7. Loc0(x)'
  <2>1. 1 \in 1 .. 1 OBVIOUS
  <2>2. Idx(r, x) = {} BY <2>1, <1>4, <1>6
  <2>3. \A v \in Workers : Idx(worker'[v].local, x) = {} BY <2>2, <1>6
  <2> QED BY <2>3 DEF Loc0
<1>8. \A t \in Tasks \ {x} : Loc0(t) => Loc0(t)' BY <1>1, <1>4 DEF Loc0
<1>9. ASSUME NEW t \in Tasks \ {x}, Loc1(t) PROVE Loc1(t)'
  <2>1. PICK u \in Workers : /\ Lone(Idx(worker[u].local, t))
                             /\ \A v \in Workers \ {u} : Idx(worker[v].local, t) = {}
        BY <1>9 DEF Loc1
  <2>2. CASE u = w
    <3>1. PICK k : Idx(q, t) = {k} BY <2>1, <2>2, <1>1 DEF Lone
    <3>2. k > 1 BY <3>1, <1>3 DEF Idx
    <3>3. Lone(Idx(worker'[w].local, t)) BY <3>1, <3>2, <1>4
    <3> QED BY <2>1, <2>2, <3>3 DEF Loc1
  <2>3. CASE u # w
    <3>1. Idx(worker'[w].local, t) = {} BY <2>1, <2>3, <1>1, <1>4
    <3>2. \A v \in Workers \ {u} : Idx(worker'[v].local, t) = {} BY <3>1, <2>1
    <3>3. Lone(Idx(worker'[u].local, t)) BY <2>1, <2>3
    <3> QED BY <3>2, <3>3 DEF Loc1
  <2> QED BY <2>2, <2>3
<1> QED BY <1>1, <1>2, <1>4, <1>5, <1>7, <1>8, <1>9

(* find_task takes from the worker's own queue. *)
LEMMA FindLocalMoves == ASSUME Inv, NEW w \in Workers, FindLocal(w) PROVE Inv'
<1>1. worker[w] \in Worker /\ worker \in [Workers -> Worker] /\ injector \in Seq(Tasks)
      BY DEF Inv, TypeOK
<1>2. PICK q \in Seq(Tasks) : q = worker[w].local BY <1>1 DEF Worker
<1>3. q # << >> /\ At(w, "find") BY <1>2 DEF FindLocal
<1>4. Tail(q) \in Seq(Tasks) /\ 1 \in 1 .. Len(q) BY <1>3, IdxHead, HeadTailProperties
<1> DEFINE wk == [worker[w] EXCEPT !.local = Tail(q)]
           r == Found(wk, q, 1)
<1>5. wk \in Worker /\ wk.local = Tail(q) BY <1>1, <1>4 DEF Worker
<1>6. worker' = [worker EXCEPT ![w] = r] BY <1>2 DEF FindLocal
<1> HIDE DEF wk
<1>7. /\ r \in Worker /\ r.cur = Head(q) /\ r.local = Tail(q) \o SubSeq(q, 2, 1)
      /\ r.pc \in {"run", "unannounce"}
  <2>1. /\ r \in Worker /\ r.cur = Head(q) /\ r.local = wk.local \o SubSeq(q, 2, 1)
        /\ r.pc \in {"run", "unannounce"}
        BY <1>3, <1>4, <1>5, FoundWorker, Zenon
  <2> QED BY <2>1, <1>5, Zenon
<1>8. r.local = Tail(q)
  <2>1. SubSeq(q, 2, 1) = << >> BY SubSeqEmpty
  <2> QED BY <1>4, <1>7, <2>1, ConcatEmptySeq
<1> HIDE DEF r
<1>9. /\ worker' \in [Workers -> Worker] /\ worker'[w] = r
      /\ \A v \in Workers \ {w} : worker'[v] = worker[v]
      BY <1>1, <1>6, <1>7
<1>10. PICK x \in Tasks :
         /\ x = Head(q)
         /\ Active(x) /\ Inj0(x) /\ Sch0(x) /\ Han0(x) /\ Loc0(x)'
         /\ \A t \in Tasks \ {x} : (Loc0(t) => Loc0(t)') /\ (Loc1(t) => Loc1(t)')
       BY <1>2, <1>3, <1>8, <1>9, LocalLoses
<1>11. injector' = injector /\ sched' = sched /\ task' = [task EXCEPT ![x] = "running"]
       BY <1>2, <1>10 DEF FindLocal, Running
<1>12. \A t : (Inj0(t)' <=> Inj0(t)) /\ (Inj1(t)' <=> Inj1(t)) BY <1>11 DEF Inj0, Inj1
<1> QED BY <1>1, <1>3, <1>7, <1>9, <1>10, <1>11, <1>12, TakesRunnable

(* A worker that exits drops what is in its queue. *)
LEMMA DrainMoves == ASSUME Inv, NEW w \in Workers, DrainLocal(w) PROVE Inv'
<1>1. worker[w] \in Worker /\ worker \in [Workers -> Worker] /\ injector \in Seq(Tasks)
      /\ task \in [Tasks -> States]
      BY DEF Inv, TypeOK
<1>2. worker[w].pc = "drain" /\ injector' = injector /\ sched' = sched BY DEF DrainLocal, At
<1>3. \A v \in Workers : worker[v].pc = "loop" \/ sched[v].pc = "none" BY DEF Inv, SchedInv
<1>4. CASE worker[w].local = << >>
  <2>1. task' = task /\ worker' = [worker EXCEPT ![w].pc = "exited"]
        BY <1>4 DEF DrainLocal, Goto
  <2>2. /\ worker' \in [Workers -> Worker]
        /\ \A v \in Workers :
              /\ worker'[v].local = worker[v].local /\ worker'[v].cur = worker[v].cur
              /\ worker'[v].pc \in {"run", "unannounce"} <=> worker[v].pc \in {"run", "unannounce"}
              /\ worker'[v].pc = "loop" \/ sched[v].pc = "none"
        BY <2>1, <1>1, <1>2, <1>3 DEF Worker, Labels
  <2> QED BY <2>1, <2>2, <1>2, ControlStep
<1>5. CASE worker[w].local # << >>
  <2>1. PICK q \in Seq(Tasks) : q = worker[w].local BY <1>1 DEF Worker
  <2> DEFINE r == [worker[w] EXCEPT !.local = Tail(q)]
  <2>2. Tail(q) \in Seq(Tasks) BY <2>1, <1>5, HeadTailProperties
  <2>3. r \in Worker /\ r.local = Tail(q) /\ r.cur = worker[w].cur /\ r.pc = worker[w].pc
        BY <2>2, <1>1 DEF Worker
  <2>4. worker' = [worker EXCEPT ![w] = r] BY <2>1, <1>1, <1>5 DEF DrainLocal
  <2> HIDE DEF r
  <2>5. /\ worker' \in [Workers -> Worker] /\ worker'[w] = r
        /\ \A v \in Workers \ {w} : worker'[v] = worker[v]
        BY <1>1, <2>3, <2>4
  <2>6. PICK x \in Tasks :
          /\ x = Head(q)
          /\ Active(x) /\ Inj0(x) /\ Sch0(x) /\ Han0(x) /\ Loc0(x)'
          /\ \A t \in Tasks \ {x} : (Loc0(t) => Loc0(t)') /\ (Loc1(t) => Loc1(t)')
        BY <2>1, <2>3, <2>5, <1>5, LocalLoses
  <2>7. task' = [task EXCEPT ![x] = "cancelled"] BY <2>1, <2>6, <1>5 DEF DrainLocal
  <2>8. TypeOK' BY <2>5, <2>7, <1>1, <1>2 DEF Inv, TypeOK, States
  <2>9. \A v \in Workers : worker'[v].cur = worker[v].cur /\ worker'[v].pc = worker[v].pc
        BY <2>3, <2>5
  <2>10. HandInv' /\ SchedInv' BY <2>9, <1>2 DEF Inv, HandInv, SchedInv
  <2>11. \A t : /\ (Inj0(t)' <=> Inj0(t)) /\ (Inj1(t)' <=> Inj1(t))
                /\ (Sch0(t)' <=> Sch0(t)) /\ (Sch1(t)' <=> Sch1(t))
                /\ (Han0(t)' <=> Han0(t)) /\ (Han1(t)' <=> Han1(t))
         BY <2>9, <1>2 DEF Inj0, Inj1, Sch0, Sch1, Han0, Han1
  <2>12. Nowhere(x)' BY <2>6, <2>11 DEF Nowhere
  <2>13. \A t \in Tasks \ {x} : (Somewhere(t) => Somewhere(t)') /\ (Nowhere(t) => Nowhere(t)')
         BY <2>6, <2>11 DEF Somewhere, Nowhere
  <2>14. ~Active(x)' /\ \A t \in Tasks \ {x} : task'[t] = task[t] BY <2>7, <1>1 DEF Active
  <2>15. RunnableInv' BY <2>12, <2>13, <2>14, OneMoves DEF Inv
  <2> QED BY <2>8, <2>10, <2>15 DEF Inv
<1> QED BY <1>4, <1>5

(* find_task takes a batch from the injector. *)
LEMMA FindInjectedMoves == ASSUME Inv, NEW w \in Workers, FindInjected(w) PROVE Inv'
<1>1. worker[w] \in Worker /\ worker \in [Workers -> Worker] BY DEF Inv, TypeOK
<1>2. At(w, "find") /\ worker[w].local = << >> /\ sched' = sched BY DEF FindInjected
<1>3. CASE worker' = [worker EXCEPT ![w] = Missed(@)] /\ UNCHANGED << injector, task >>
      BY <1>2, <1>3, MissedControl
<1>4. ASSUME NEW n \in 1 .. Len(injector),
             worker' = [worker EXCEPT ![w] = Found(@, injector, n)],
             injector' = BatchLeft(injector, n), Running(injector)
      PROVE  Inv'
  <2>1. PICK q \in Seq(Tasks) : q = injector BY DEF Inv, TypeOK
  <2>2. q # << >> BY <1>4, <2>1
  <2> DEFINE r == Found(worker[w], q, n)
  <2>3. /\ r \in Worker /\ r.cur = Head(q) /\ r.local = << >> \o SubSeq(q, 2, n)
        /\ r.pc \in {"run", "unannounce"}
    <3>1. /\ r \in Worker /\ r.cur = Head(q) /\ r.local = worker[w].local \o SubSeq(q, 2, n)
          /\ r.pc \in {"run", "unannounce"}
          BY <2>1, <2>2, <1>1, <1>4, FoundWorker, Zenon
    <3> QED BY <3>1, <1>2, Zenon
  <2>4. worker' = [worker EXCEPT ![w] = r] BY <1>4, <2>1
  <2> HIDE DEF r
  <2>5. /\ worker' \in [Workers -> Worker] /\ worker'[w] = r
        /\ \A v \in Workers \ {w} : worker'[v] = worker[v]
        BY <1>1, <2>3, <2>4
  <2>6. SubSeq(q, 2, n) \in Seq(Tasks) /\ r.local = SubSeq(q, 2, n)
    <3>1. SubSeq(q, 2, n) \in Seq(Tasks) BY <2>1, <1>4, IdxBatch
    <3> QED BY <3>1, <2>3, ConcatEmptySeq
  <2>7. injector' = SubSeq(q, n + 1, Len(q)) BY <1>4, <2>1 DEF BatchLeft
  <2>8. PICK x \in Tasks : x = Head(q) BY <2>2, IdxHead
  <2>9. task' = [task EXCEPT ![x] = "running"] BY <1>4, <2>1, <2>8 DEF Running
  <2>10. 1 \in Idx(q, x) /\ \A t : t # x => 1 \notin Idx(q, t) BY <2>2, <2>8, IdxHead
  <2>11. Active(x) /\ Inj1(x) /\ Loc0(x) /\ Sch0(x) /\ Han0(x)
         BY <2>1, <2>10, InInjector DEF Inv, Inj0
  <2>12. Idx(q, x) = {1} BY <2>1, <2>10, <2>11 DEF Inj1, Lone
  <2>13. \A t : /\ injector' \in Seq(Tasks)
                /\ Idx(q, t) = {} => Idx(injector', t) = {}
                /\ \A k \in 1 .. n : Idx(q, t) = {k} => Idx(injector', t) = {}
                /\ \A k : Idx(q, t) = {k} /\ k > n => Lone(Idx(injector', t))
         BY <2>1, <2>7, <1>4, IdxRest
  <2>14. \A t : /\ Idx(q, t) = {} => Idx(worker'[w].local, t) = {}
                /\ Idx(q, t) = {1} => Idx(worker'[w].local, t) = {}
                /\ \A k \in 2 .. n : Idx(q, t) = {k} => Lone(Idx(worker'[w].local, t))
                /\ \A k : Idx(q, t) = {k} /\ k > n => Idx(worker'[w].local, t) = {}
         BY <2>1, <2>5, <2>6, <1>4, IdxBatch
  <2>15. \A t : Idx(worker[w].local, t) = {} BY <1>2 DEF Idx
  <2>16. Inj0(x)' /\ Loc0(x)'
    <3>1. 1 \in 1 .. n BY <1>4, <2>1
    <3>2. Idx(injector', x) = {} BY <3>1, <2>12, <2>13
    <3>3. \A v \in Workers : Idx(worker'[v].local, x) = {} BY <2>5, <2>11, <2>12, <2>14 DEF Loc0
    <3> QED BY <3>2, <3>3 DEF Inj0, Loc0
  <2>17. ASSUME NEW t \in Tasks \ {x}
         PROVE  /\ Inj0(t) /\ Loc0(t) => Inj0(t)' /\ Loc0(t)'
                /\ Inj1(t) /\ Loc0(t) => \/ Inj1(t)' /\ Loc0(t)'
                                         \/ Inj0(t)' /\ Loc1(t)'
                /\ Inj0(t) /\ Loc1(t) => Inj0(t)' /\ Loc1(t)'
    <3>1. ASSUME Inj0(t) PROVE Inj0(t)' /\ Idx(worker'[w].local, t) = {}
          BY <3>1, <2>1, <2>13, <2>14 DEF Inj0
    <3>2. ASSUME Inj0(t), Loc0(t) PROVE Loc0(t)' BY <3>1, <3>2, <2>5 DEF Loc0
    <3>3. ASSUME Inj0(t), Loc1(t) PROVE Loc1(t)'
      <4>1. PICK u \in Workers : /\ Lone(Idx(worker[u].local, t))
                                 /\ \A v \in Workers \ {u} : Idx(worker[v].local, t) = {}
            BY <3>3 DEF Loc1
      <4>2. u # w BY <4>1, <2>15 DEF Lone
      <4>3. Lone(Idx(worker'[u].local, t)) /\ \A v \in Workers \ {u} : Idx(worker'[v].local, t) = {}
            BY <4>1, <4>2, <3>1, <3>3, <2>5
      <4> QED BY <4>3 DEF Loc1
    <3>4. ASSUME Inj1(t), Loc0(t)
          PROVE  (Inj1(t)' /\ Loc0(t)') \/ (Inj0(t)' /\ Loc1(t)')
      <4>1. PICK k : Idx(q, t) = {k} BY <3>4, <2>1 DEF Inj1, Lone
      <4>2. k \in Nat /\ k > 1 /\ n \in Nat BY <4>1, <2>10, <1>4 DEF Idx
      <4>3. CASE k > n
        <5>1. Lone(Idx(injector', t)) /\ Idx(worker'[w].local, t) = {}
              BY <4>1, <4>3, <2>13, <2>14
        <5>2. \A v \in Workers : Idx(worker'[v].local, t) = {} BY <5>1, <3>4, <2>5 DEF Loc0
        <5> QED BY <5>1, <5>2 DEF Inj1, Loc0
      <4>4. CASE k <= n
        <5>1. k \in 2 .. n /\ k \in 1 .. n BY <4>2, <4>4
        <5>2. Idx(injector', t) = {} /\ Lone(Idx(worker'[w].local, t))
              BY <4>1, <5>1, <2>13, <2>14
        <5>3. \A v \in Workers \ {w} : Idx(worker'[v].local, t) = {} BY <3>4, <2>5 DEF Loc0
        <5> QED BY <5>2, <5>3 DEF Inj0, Loc1
      <4> QED BY <4>2, <4>3, <4>4
    <3> QED BY <3>1, <3>2, <3>3, <3>4
  <2>18. \A v \in Workers \ {w} : worker'[v].cur = worker[v].cur /\ worker'[v].pc = worker[v].pc
         BY <2>5
  <2> QED BY <1>2, <2>3, <2>5, <2>8, <2>9, <2>11, <2>13, <2>16, <2>17, <2>18, TakesRunnable
<1> QED BY <1>3, <1>4 DEF FindInjected

(* The victims of a worker are the other workers. *)
LEMMA Victim ==
    ASSUME NEW w \in Workers, NEW k \in Workers, k > 0
    PROVE  (w + k) % NumThreads \in Workers \ {w}
<1>1. NumThreads \in Nat /\ NumThreads > 0 /\ w \in Nat /\ k \in Nat
      /\ w < NumThreads /\ k < NumThreads
      BY WorkerNumbers DEF Workers
<1> DEFINE m == (w + k) % NumThreads
           d == (w + k) \div NumThreads
<1>2. m \in Nat /\ m < NumThreads /\ d \in Int /\ w + k = NumThreads * d + m BY <1>1
<1> HIDE DEF m, d
<1>3. d >= 0
  <2>1. ASSUME d <= -1 PROVE FALSE
    <3>1. NumThreads * d <= NumThreads * (-1) BY <1>1, <1>2, <2>1
    <3> QED BY <3>1, <1>1, <1>2
  <2> QED BY <2>1, <1>2
<1>4. d < 2
  <2>1. ASSUME d >= 2 PROVE FALSE
    <3>1. NumThreads * d >= NumThreads * 2 BY <1>1, <1>2, <2>1
    <3> QED BY <3>1, <1>1, <1>2
  <2> QED BY <2>1, <1>2
<1>5. d = 0 \/ d = 1 BY <1>2, <1>3, <1>4
<1>6. NumThreads * 0 = 0 /\ NumThreads * 1 = NumThreads BY <1>1
<1>7. m # w BY <1>1, <1>2, <1>5, <1>6
<1>8. m \in Workers BY <1>1, <1>2 DEF Workers
<1> QED BY <1>7, <1>8 DEF m

(* find_task steals a batch from another worker. *)
LEMMA FindStolenMoves == ASSUME Inv, NEW w \in Workers, FindStolen(w) PROVE Inv'
<1>1. worker[w] \in Worker /\ worker \in [Workers -> Worker] BY DEF Inv, TypeOK
<1>2. At(w, "find") /\ worker[w].stage > 0 /\ sched' = sched /\ injector' = injector
      BY DEF FindStolen
<1>3. PICK v \in Workers \ {w} : v = (w + worker[w].stage) % NumThreads
  <2>1. worker[w].stage \in Workers BY <1>1 DEF Worker
  <2> QED BY <2>1, <1>2, Victim
<1>4. PICK q \in Seq(Tasks) : q = worker[v].local BY <1>1, <1>3 DEF Worker
<1>5. CASE worker' = [worker EXCEPT ![w] = Missed(@)] /\ task' = task
      BY <1>2, <1>5, MissedControl
<1>6. ASSUME NEW n \in 1 .. Len(q),
             worker' = [worker EXCEPT ![w] = Found(@, q, n), ![v].local = BatchLeft(q, n)],
             Running(q)
      PROVE  Inv'
  <2>2. q # << >> BY <1>6
  <2>3. PICK p \in Seq(Tasks) : p = worker[w].local BY <1>1 DEF Worker
  <2> DEFINE r == Found(worker[w], q, n)
             b == SubSeq(q, 2, n)
             c == SubSeq(q, n + 1, Len(q))
             s == [worker[v] EXCEPT !.local = c]
  <2>4. b \in Seq(Tasks) /\ c \in Seq(Tasks) BY <1>6, IdxBatch, IdxRest
  <2>5. /\ r \in Worker /\ r.cur = Head(q) /\ r.local = p \o b
        /\ r.pc \in {"run", "unannounce"}
    <3>1. /\ r \in Worker /\ r.cur = Head(q) /\ r.local = worker[w].local \o SubSeq(q, 2, n)
          /\ r.pc \in {"run", "unannounce"}
          BY <2>2, <1>1, <1>6, FoundWorker, Zenon
    <3> QED BY <3>1, <2>3, Zenon
  <2>6. s \in Worker /\ s.local = c /\ s.cur = worker[v].cur /\ s.pc = worker[v].pc
    <3>1. worker[v] \in Worker BY <1>1
    <3> HIDE DEF c
    <3> QED BY <3>1, <2>4 DEF Worker
  <2>7. worker' = [worker EXCEPT ![w] = r, ![v] = s]
    <3> HIDE DEF r
    <3> QED BY <1>1, <1>6 DEF BatchLeft, r
  <2> HIDE DEF r, s, b, c
  <2>8. /\ worker' \in [Workers -> Worker] /\ worker'[w] = r /\ worker'[v] = s
        /\ \A u \in Workers \ {w, v} : worker'[u] = worker[u]
        BY <1>1, <2>5, <2>6, <2>7
  <2>9. PICK x \in Tasks : x = Head(q) BY <2>2, IdxHead
  <2>10. task' = [task EXCEPT ![x] = "running"] BY <1>6, <2>9 DEF Running
  <2>11. 1 \in Idx(q, x) /\ \A t : t # x => 1 \notin Idx(q, t) BY <2>2, <2>9, IdxHead
  <2>12. Active(x) /\ Inj0(x) /\ Loc1(x) /\ Sch0(x) /\ Han0(x)
         BY <2>11, <1>4, InLocal DEF Inv, Loc0
  <2>13. Idx(q, x) = {1} /\ \A u \in Workers \ {v} : Idx(worker[u].local, x) = {}
    <3>1. PICK u \in Workers : /\ Lone(Idx(worker[u].local, x))
                               /\ \A o \in Workers \ {u} : Idx(worker[o].local, x) = {}
          BY <2>12 DEF Loc1
    <3>2. u = v BY <3>1, <1>4, <2>11
    <3> QED BY <3>1, <3>2, <1>4, <2>11 DEF Lone
  <2>14. \A t : /\ Idx(q, t) = {} => Idx(c, t) = {}
                /\ \A k \in 1 .. n : Idx(q, t) = {k} => Idx(c, t) = {}
                /\ \A k : Idx(q, t) = {k} /\ k > n => Lone(Idx(c, t))
         BY <1>6, IdxRest DEF c
  <2>15. \A t : /\ Idx(q, t) = {} => Idx(b, t) = {}
                /\ Idx(q, t) = {1} => Idx(b, t) = {}
                /\ \A k \in 2 .. n : Idx(q, t) = {k} => Lone(Idx(b, t))
                /\ \A k : Idx(q, t) = {k} /\ k > n => Idx(b, t) = {}
         BY <1>6, IdxBatch DEF b
  <2>16. \A t : /\ Idx(b, t) = {} => Idx(p \o b, t) = Idx(p, t)
                /\ Idx(p, t) = {} /\ Lone(Idx(b, t)) => Lone(Idx(p \o b, t))
         BY <2>3, <2>4, IdxConcat
  <2>17. worker'[w].local = p \o b /\ worker'[v].local = c
         /\ worker[w].local = p /\ worker[v].local = q
         BY <2>3, <2>5, <2>6, <2>8, <1>4
  <2>18. Loc0(x)'
    <3>1. 1 \in 1 .. n BY <1>6
    <3>2. Idx(c, x) = {} /\ Idx(b, x) = {} BY <3>1, <2>13, <2>14, <2>15
    <3>3. Idx(p, x) = {} BY <2>3, <2>13, <1>3
    <3>4. \A u \in Workers : Idx(worker'[u].local, x) = {}
          BY <3>2, <3>3, <2>8, <2>13, <2>16, <2>17
    <3> QED BY <3>4 DEF Loc0
  <2>19. ASSUME NEW t \in Tasks \ {x}, Loc0(t) PROVE Loc0(t)'
    <3>1. \A u \in Workers : Idx(worker[u].local, t) = {} BY <2>19 DEF Loc0
    <3>2. Idx(p, t) = {} /\ Idx(q, t) = {} BY <3>1, <2>3, <1>4
    <3>3. Idx(c, t) = {} /\ Idx(p \o b, t) = {} BY <3>2, <2>14, <2>15, <2>16
    <3>4. \A u \in Workers : Idx(worker'[u].local, t) = {} BY <3>1, <3>3, <2>8, <2>17
    <3> QED BY <3>4 DEF Loc0
  <2>20. ASSUME NEW t \in Tasks \ {x}, Loc1(t) PROVE Loc1(t)'
    <3>1. PICK u \in Workers : /\ Lone(Idx(worker[u].local, t))
                               /\ \A o \in Workers \ {u} : Idx(worker[o].local, t) = {}
          BY <2>20 DEF Loc1
    <3>2. CASE u = v
      <4>1. PICK k : Idx(q, t) = {k} BY <3>1, <3>2, <1>4 DEF Lone
      <4>2. k \in Nat /\ k > 1 /\ n \in Nat BY <4>1, <2>11, <1>6 DEF Idx
      <4>3. Idx(p, t) = {} BY <3>1, <3>2, <1>3, <2>3
      <4>4. CASE k > n
        <5>1. Lone(Idx(worker'[v].local, t)) /\ Idx(worker'[w].local, t) = {}
              BY <4>1, <4>3, <4>4, <2>14, <2>15, <2>16, <2>17
        <5>2. \A o \in Workers \ {v} : Idx(worker'[o].local, t) = {}
              BY <5>1, <3>1, <3>2, <2>8
        <5> QED BY <5>1, <5>2 DEF Loc1
      <4>5. CASE k <= n
        <5>1. k \in 2 .. n /\ k \in 1 .. n BY <4>2, <4>5
        <5>2. Lone(Idx(worker'[w].local, t)) /\ Idx(worker'[v].local, t) = {}
              BY <5>1, <4>1, <4>3, <2>14, <2>15, <2>16, <2>17
        <5>3. \A o \in Workers \ {w} : Idx(worker'[o].local, t) = {}
              BY <5>2, <3>1, <3>2, <2>8
        <5> QED BY <5>2, <5>3 DEF Loc1
      <4> QED BY <4>2, <4>4, <4>5
    <3>3. CASE u # v
      <4>1. Idx(q, t) = {} BY <3>1, <3>3, <1>4
      <4>2. Idx(c, t) = {} /\ Idx(p \o b, t) = Idx(p, t) BY <4>1, <2>14, <2>15, <2>16
      <4>3. \A o \in Workers : Idx(worker'[o].local, t) = Idx(worker[o].local, t)
            BY <4>1, <4>2, <2>8, <2>17
      <4> QED BY <4>3, <3>1 DEF Loc1
    <3> QED BY <3>2, <3>3
  <2>21. \A u \in Workers \ {w} : worker'[u].cur = worker[u].cur /\ worker'[u].pc = worker[u].pc
         BY <2>6, <2>8
  <2>22. \A t : (Inj0(t)' <=> Inj0(t)) /\ (Inj1(t)' <=> Inj1(t)) BY <1>2 DEF Inj0, Inj1
  <2>23. injector' \in Seq(Tasks) BY <1>2 DEF Inv, TypeOK
  <2>24. worker'[w].cur = x /\ worker'[w].pc \in {"run", "unannounce"} BY <2>5, <2>8, <2>9
  <2> QED BY <1>2, <2>8, <2>10, <2>12, <2>18, <2>19, <2>20, <2>21, <2>22, <2>23, <2>24,
             TakesRunnable
<1> QED BY <1>3, <1>4, <1>5, <1>6 DEF FindStolen

(* Every step of the pool keeps the invariant. *)
LEMMA InvStep == Inv /\ [Next]_vars => Inv'
<1> SUFFICES ASSUME Inv, [Next]_vars PROVE Inv' OBVIOUS
<1>1. CASE ShutdownStore \/ Shutdown
      BY <1>1, ShutdownControl, ShutdownMoves DEF Shutdown
<1>2. ASSUME NEW w \in Workers, StartWorker(w) \/ WorkerStep(w) PROVE Inv'
      BY <1>2, WorkerControl, FindLocalMoves, FindInjectedMoves, FindStolenMoves, RunMoves,
         DrainMoves DEF WorkerStep
<1>3. ASSUME NEW a \in Actors, Schedule(a) PROVE Inv'
      BY <1>3, ScheduleControl, ScheduleMoves DEF Schedule
<1>4. ASSUME NEW c \in Clients, NEW t \in Tasks, SpawnOn(c, t) \/ Wake(c, t) PROVE Inv'
      BY <1>4, ClientMoves
<1>5. CASE UNCHANGED vars
  <2>1. UNCHANGED << injector, worker, task, sched >> BY <1>5 DEF vars
  <2>2. TypeOK' /\ HandInv' /\ SchedInv' BY <2>1 DEF Inv, TypeOK, HandInv, SchedInv
  <2>3. RunnableInv' BY <2>1, NothingMoves DEF Inv
  <2> QED BY <2>2, <2>3 DEF Inv
<1> QED BY <1>1, <1>2, <1>3, <1>4, <1>5 DEF Next, Quiet

(* A task that is somewhere has one place, one that is nowhere has none. *)
LEMMA PlacesCounted ==
    ASSUME TypeOK, NEW t \in Tasks
    PROVE  /\ Nowhere(t) => Places(t) = {}
           /\ Somewhere(t) => Lone(Places(t))
<1> DEFINE i == { << "injector", 0, k >> : k \in Idx(injector, t) }
           l == UNION { { << "local", w, k >> : k \in Idx(worker[w].local, t) } : w \in Workers }
           s == { << "sched", a, 0 >> : a \in { a \in Actors : sched[a].task = t } }
           h == { << "hand", w, 0 >> : w \in { w \in Workers : worker[w].cur = t } }
<1>1. Places(t) = i \cup l \cup s \cup h
  <2>1. injector \in Seq(Tasks) /\ \A w \in Workers : worker[w].local \in Seq(Tasks)
        BY DEF TypeOK, Worker
  <2>2. DOMAIN injector = 1 .. Len(injector) BY <2>1, LenProperties
  <2>3. \A w \in Workers : DOMAIN worker[w].local = 1 .. Len(worker[w].local)
        BY <2>1, LenProperties
  <2> DEFINE In(q) == { k \in DOMAIN q : q[k] = t }
  <2>4. In(injector) = Idx(injector, t) BY <2>2 DEF Idx
  <2>5. \A w \in Workers : In(worker[w].local) = Idx(worker[w].local, t) BY <2>3 DEF Idx
  <2> DEFINE j == { << "injector", 0, k >> : k \in In(injector) }
             m == UNION { { << "local", w, k >> : k \in In(worker[w].local) } : w \in Workers }
  <2>6. j = i BY <2>4
  <2>7. Places(t) = j \cup m \cup s \cup h BY DEF Places
  <2> HIDE DEF In
  <2>8. m = l BY <2>5
  <2> HIDE DEF i, l, s, h, j, m
  <2> QED BY <2>6, <2>7, <2>8
<1>2. Inj0(t) => i = {} BY DEF Inj0
<1>3. Loc0(t) => l = {} BY DEF Loc0
<1>4. Sch0(t) => s = {} BY DEF Sch0
<1>5. Han0(t) => h = {} BY DEF Han0
<1>6. Inj1(t) => Lone(i)
  <2> SUFFICES ASSUME NEW k, Idx(injector, t) = {k} PROVE Lone(i) BY DEF Inj1, Lone
  <2>1. i = { << "injector", 0, k >> } OBVIOUS
  <2> QED BY <2>1 DEF Lone
<1>7. Loc1(t) => Lone(l)
  <2> SUFFICES ASSUME NEW w \in Workers, NEW k, Idx(worker[w].local, t) = {k},
                      \A v \in Workers \ {w} : Idx(worker[v].local, t) = {}
               PROVE  Lone(l)
      BY DEF Loc1, Lone
  <2>1. l = { << "local", w, k >> } OBVIOUS
  <2> QED BY <2>1 DEF Lone
<1>8. Sch1(t) => Lone(s)
  <2> SUFFICES ASSUME NEW a \in Actors, \A b \in Actors : sched[b].task = t <=> b = a
               PROVE  Lone(s)
      BY DEF Sch1
  <2>1. s = { << "sched", a, 0 >> } OBVIOUS
  <2> QED BY <2>1 DEF Lone
<1>9. Han1(t) => Lone(h)
  <2> SUFFICES ASSUME NEW w \in Workers, \A v \in Workers : worker[v].cur = t <=> v = w
               PROVE  Lone(h)
      BY DEF Han1
  <2>1. h = { << "hand", w, 0 >> } OBVIOUS
  <2> QED BY <2>1 DEF Lone
<1> HIDE DEF i, l, s, h
<1>10. Nowhere(t) => Places(t) = {} BY <1>1, <1>2, <1>3, <1>4, <1>5 DEF Nowhere
<1>11. Somewhere(t) => Lone(Places(t))
       BY <1>1, <1>2, <1>3, <1>4, <1>5, <1>6, <1>7, <1>8, <1>9 DEF Somewhere, Lone
<1> QED BY <1>10, <1>11

(* Between `schedule`, the injector, the workers' queues and their hands a *)
(* runnable is neither lost nor duplicated: not by batches stolen from the *)
(* injector or from another worker, nor by a shutdown that races with      *)
(* them.  For any pool, any clients and any number of tasks and wake-ups.  *)
THEOREM PoolKeepsRunnables == Spec => []OneRunnable
<1>1. Init => Inv BY InvInit
<1>2. Inv /\ [Next]_vars => Inv' BY InvStep
<1>3. Inv => OneRunnable
  <2> SUFFICES ASSUME Inv, NEW t \in Tasks
               PROVE  Cardinality(Places(t)) = IF Active(t) THEN 1 ELSE 0
      BY DEF OneRunnable, Active
  <2>1. CASE Active(t)
    <3>1. Lone(Places(t)) BY <2>1, PlacesCounted DEF Inv, RunnableInv
    <3> QED BY <2>1, <3>1, FS_Singleton DEF Lone
  <2>2. CASE ~Active(t)
    <3>1. Places(t) = {} BY <2>2, PlacesCounted DEF Inv, RunnableInv
    <3> QED BY <2>2, <3>1, FS_EmptySet
  <2> QED BY <2>1, <2>2
<1> QED BY <1>1, <1>2, <1>3, PTL DEF Spec
=============================================================================
