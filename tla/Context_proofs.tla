--------------------------- MODULE Context_proofs ---------------------------
(***************************************************************************)
(* Proofs about execution contexts, for any programs, concurrency limits   *)
(* and capacities and any number of refused opens: counterpart tasks of    *)
(* the two parties own the same channel and no two tasks share one, and an *)
(* operation whose lanes could not all be opened has sent nothing.         *)
(***************************************************************************)
EXTENDS Context, FiniteSetTheorems, TLAPS

Path == Seq(Nat)

-----------------------------------------------------------------------------
(***************************************************************************)
(* Paths.                                                                  *)
(***************************************************************************)
\* Paths are equal if their elements are.
LEMMA SamePath ==
  ASSUME NEW a \in Path, NEW b \in Path, Len(a) = Len(b), \A i \in 1 .. Len(a) : a[i] = b[i]
  PROVE  a = b
BY DEF Path

\* A path is a prefix of those that extend it.
LEMMA PrefixPointwise ==
  ASSUME NEW a \in Path, NEW b \in Path
  PROVE  IsPrefix(a, b) <=> Len(a) <= Len(b) /\ \A i \in 1 .. Len(a) : a[i] = b[i]
<1>1. Len(a) \in Nat /\ Len(b) \in Nat
  BY DEF Path
<1>2. Len(a) <= Len(b) =>
        /\ Len(SubSeq(a, 1, Len(a))) = Len(a) /\ Len(SubSeq(b, 1, Len(a))) = Len(a)
        /\ \A i \in 1 .. Len(a) : SubSeq(a, 1, Len(a))[i] = a[i] /\ SubSeq(b, 1, Len(a))[i] = b[i]
        /\ SubSeq(a, 1, Len(a)) \in Path /\ SubSeq(b, 1, Len(a)) \in Path
  BY <1>1 DEF Path
<1>3. ASSUME Len(a) <= Len(b), SubSeq(a, 1, Len(a)) = SubSeq(b, 1, Len(a))
      PROVE  \A i \in 1 .. Len(a) : a[i] = b[i]
  <2> SUFFICES ASSUME NEW i \in 1 .. Len(a) PROVE a[i] = b[i]
    OBVIOUS
  <2>1. SubSeq(a, 1, Len(a))[i] = a[i] /\ SubSeq(b, 1, Len(a))[i] = b[i]
    BY <1>2, <1>3
  <2> QED
    BY <1>3, <2>1
<1>4. ASSUME Len(a) <= Len(b), \A i \in 1 .. Len(a) : a[i] = b[i]
      PROVE  SubSeq(a, 1, Len(a)) = SubSeq(b, 1, Len(a))
  BY <1>1, <1>4 DEF Path
<1> QED
  BY <1>3, <1>4 DEF IsPrefix

\* Prefixes are ordered; two prefixes of one path are prefixes of each other.
LEMMA PrefixOrder ==
  ASSUME NEW a \in Path, NEW b \in Path, NEW c \in Path
  PROVE  /\ IsPrefix(a, a)
         /\ IsPrefix(a, b) /\ IsPrefix(b, c) => IsPrefix(a, c)
         /\ IsPrefix(a, c) /\ IsPrefix(b, c) => IsPrefix(a, b) \/ IsPrefix(b, a)
         /\ IsPrefix(a, b) /\ IsPrefix(b, a) => a = b
         /\ IsPrefix(a, b) => Len(a) <= Len(b)
<1>1. Len(a) \in Nat /\ Len(b) \in Nat /\ Len(c) \in Nat
  BY DEF Path
<1>2. IsPrefix(a, a)
  BY <1>1, PrefixPointwise
<1>3. IsPrefix(a, b) /\ IsPrefix(b, c) => IsPrefix(a, c)
  BY <1>1, PrefixPointwise
<1>4. IsPrefix(a, c) /\ IsPrefix(b, c) => IsPrefix(a, b) \/ IsPrefix(b, a)
  <2> SUFFICES ASSUME IsPrefix(a, c), IsPrefix(b, c) PROVE IsPrefix(a, b) \/ IsPrefix(b, a)
    OBVIOUS
  <2>1. /\ \A i \in 1 .. Len(a) : a[i] = c[i]
        /\ \A i \in 1 .. Len(b) : b[i] = c[i]
    BY PrefixPointwise
  <2>2. CASE Len(a) <= Len(b)
    <3>1. \A i \in 1 .. Len(a) : a[i] = b[i]
      BY <1>1, <2>1, <2>2
    <3> QED
      BY <2>2, <3>1, PrefixPointwise
  <2>3. CASE Len(b) <= Len(a)
    <3>1. \A i \in 1 .. Len(b) : b[i] = a[i]
      BY <1>1, <2>1, <2>3
    <3> QED
      BY <2>3, <3>1, PrefixPointwise
  <2> QED
    BY <1>1, <2>2, <2>3
<1>5. IsPrefix(a, b) /\ IsPrefix(b, a) => a = b
  <2> SUFFICES ASSUME IsPrefix(a, b), IsPrefix(b, a) PROVE a = b
    OBVIOUS
  <2>1. Len(a) = Len(b) /\ \A i \in 1 .. Len(a) : a[i] = b[i]
    BY <1>1, PrefixPointwise
  <2> QED
    BY <2>1 DEF Path
<1>6. IsPrefix(a, b) => Len(a) <= Len(b)
  BY PrefixPointwise
<1> QED
  BY <1>2, <1>3, <1>4, <1>5, <1>6

\* Only a path itself and its prefixes are prefixes of it: one step longer,
\* one prefix more.
LEMMA PrefixAppend ==
  ASSUME NEW a \in Path, NEW b \in Path, NEW n \in Nat
  PROVE  /\ Append(b, n) \in Path /\ Len(Append(b, n)) = Len(b) + 1
         /\ IsPrefix(a, Append(b, n)) <=> IsPrefix(a, b) \/ a = Append(b, n)
         /\ IsPrefix(Append(b, n), a) => IsPrefix(b, a)
         /\ Append(b, n) # b
<1> DEFINE e == Append(b, n)
<1>1. Len(a) \in Nat /\ Len(b) \in Nat
  BY DEF Path
<1>2. /\ e \in Path /\ Len(e) = Len(b) + 1 /\ e[Len(b) + 1] = n
      /\ \A i \in 1 .. Len(b) : e[i] = b[i]
  BY <1>1 DEF Path
<1> HIDE DEF e
<1>3. IsPrefix(b, e)
  BY <1>1, <1>2, PrefixPointwise
<1>4. IsPrefix(a, b) => IsPrefix(a, e)
  BY <1>2, <1>3, PrefixOrder
<1>5. ASSUME IsPrefix(a, e), a # e PROVE IsPrefix(a, b)
  <2>1. Len(a) <= Len(e) /\ \A i \in 1 .. Len(a) : a[i] = e[i]
    BY <1>2, <1>5, PrefixPointwise
  <2>2. Len(a) # Len(e)
    <3> SUFFICES ASSUME Len(a) = Len(e) PROVE a = e
      BY <1>5
    <3> QED
      BY <1>2, <2>1 DEF Path
  <2>3. Len(a) <= Len(b) /\ \A i \in 1 .. Len(a) : a[i] = b[i]
    BY <1>1, <1>2, <2>1, <2>2
  <2> QED
    BY <2>3, PrefixPointwise
<1>6. a = e => IsPrefix(a, e)
  BY <1>2, PrefixOrder
<1>7. IsPrefix(e, a) => IsPrefix(b, a)
  BY <1>2, <1>3, PrefixOrder
<1>8. e # b
  BY <1>1, <1>2
<1> QED
  BY <1>2, <1>4, <1>5, <1>6, <1>7, <1>8 DEF e

\* Two extensions of paths are equal only if both parts are.
LEMMA PathSplit ==
  ASSUME NEW a \in Path, NEW b \in Path, NEW m \in Nat, NEW n \in Nat, Append(a, m) = Append(b, n)
  PROVE  a = b /\ m = n
<1>1. Len(a) = Len(b) /\ Len(a) \in Nat
  BY DEF Path
<1>2. \A i \in 1 .. Len(a) : a[i] = b[i]
  <2> SUFFICES ASSUME NEW i \in 1 .. Len(a) PROVE a[i] = b[i]
    OBVIOUS
  <2>1. a[i] = Append(a, m)[i]
    BY DEF Path
  <2>2. b[i] = Append(b, n)[i]
    BY <1>1 DEF Path
  <2> QED
    BY <2>1, <2>2
<1>3. m = n
  <2>1. m = Append(a, m)[Len(a) + 1] /\ n = Append(b, n)[Len(a) + 1]
    BY <1>1 DEF Path
  <2> QED
    BY <2>1
<1>4. a = b
  BY <1>1, <1>2, SamePath
<1> QED
  BY <1>3, <1>4

-----------------------------------------------------------------------------
(***************************************************************************)
(* The items of a lane.                                                    *)
(***************************************************************************)
ItemSet == [path : Path, w : Work]

\* The items of an operation carry its path, and one index each.
LEMMA WorksItems ==
  ASSUME NEW path \in Path, NEW subs \in Seq(Work)
  PROVE  /\ Works(path, subs) \in Seq(ItemSet) /\ Len(Works(path, subs)) = Len(subs)
         /\ \A i \in 1 .. Len(subs) :
              Works(path, subs)[i] = [path |-> Append(path, i), w |-> subs[i]]
<1>1. Len(subs) \in Nat /\ DOMAIN subs = 1 .. Len(subs) /\ \A i \in 1 .. Len(subs) : subs[i] \in Work
  OBVIOUS
<1>2. \A i \in 1 .. Len(subs) : [path |-> Append(path, i), w |-> subs[i]] \in ItemSet
  BY <1>1, PrefixAppend DEF ItemSet
<1> QED
  BY <1>1, <1>2 DEF Works

\* Division with remainder.
LEMMA DivMod ==
  ASSUME NEW a \in Nat, NEW n \in Nat \ {0}
  PROVE  a = n * (a \div n) + (a % n) /\ a % n \in 0 .. n - 1 /\ a \div n \in Nat
BY SMT

\* A product of a smaller factor is smaller.
LEMMA LessFactor ==
  ASSUME NEW i \in Int, NEW j \in Int, NEW n \in Nat, n * i < n * j
  PROVE  i < j
<1> SUFFICES ASSUME j <= i PROVE FALSE
  OBVIOUS
<1>1. i - j \in Nat
  OBVIOUS
<1>2. n * (i - j) >= 0
  BY <1>1, SMT
<1>3. n * (i - j) = n * i - n * j
  BY SMT
<1> QED
  BY <1>2, <1>3, SMT

\* Positions of different lanes, or of one lane, are different.
LEMMA LaneApart ==
  ASSUME NEW n \in Nat \ {0}, NEW l \in 1 .. n, NEW m \in 1 .. n, NEW i \in Nat, NEW j \in Nat,
         l + i * n = m + j * n
  PROVE  l = m /\ i = j
<1>1. n * i - n * j = m - l
  BY SMT
<1>2. n * i - n * j < n * 1 /\ n * j - n * i < n * 1
  BY <1>1, SMT
<1>3. n * i < n * (j + 1) /\ n * j < n * (i + 1)
  <2>1. n * (j + 1) = n * j + n /\ n * (i + 1) = n * i + n
    BY SMT
  <2> QED
    BY <1>2, <2>1, SMT
<1>4. i < j + 1 /\ j < i + 1
  <2>1. i \in Int /\ j + 1 \in Int /\ n \in Nat /\ j \in Int /\ i + 1 \in Int
    OBVIOUS
  <2> QED
    BY <1>3, <2>1, LessFactor
<1>5. i = j
  BY <1>4
<1>6. l = m
  <2>1. n * i \in Int /\ n * j = n * i
    BY <1>5
  <2> QED
    BY <1>1, <2>1
<1> QED
  BY <1>5, <1>6

\* A lane holds only positions of the items.
LEMMA LaneCount ==
  ASSUME NEW k \in Nat, NEW n \in Nat \ {0}, NEW l \in 1 .. n,
         NEW D, D = {i \in 1 .. k : (i - 1) % n = l - 1}
  PROVE  /\ IsFiniteSet(D) /\ Cardinality(D) \in Nat
         /\ \A j \in 1 .. Cardinality(D) : l + (j - 1) * n \in 1 .. k
<1>1. IsFiniteSet(D)
  <2>1. 1 \in Int /\ k \in Int
    OBVIOUS
  <2>2. IsFiniteSet(1 .. k)
    BY <2>1, FS_Interval
  <2>3. D \in SUBSET (1 .. k)
    OBVIOUS
  <2> QED
    BY <2>2, <2>3, FS_Subset
<1>2. Cardinality(D) \in Nat
  BY <1>1, FS_CardinalityType
<1>3. ASSUME NEW j \in 1 .. Cardinality(D) PROVE l + (j - 1) * n \in 1 .. k
  <2> DEFINE d(i) == (i - 1) \div n
             f == [i \in D |-> d(i)]
  <2>1. ASSUME NEW i \in D PROVE d(i) \in Nat /\ i = l + d(i) * n
    <3>1. i \in 1 .. k /\ i - 1 \in Nat /\ (i - 1) % n = l - 1
      OBVIOUS
    <3>2. i - 1 = n * d(i) + ((i - 1) % n) /\ d(i) \in Nat
      BY <3>1, DivMod
    <3> HIDE DEF d
    <3> QED
      BY <3>1, <3>2, SMT
  <2> HIDE DEF d
  <2>2. l + (j - 1) * n >= 1
    <3>1. (j - 1) * n >= 0
      BY <1>2, SMT
    <3> QED
      BY <1>2, <3>1
  <2>3. ASSUME l + (j - 1) * n > k PROVE FALSE
    <3>1. ASSUME NEW i \in D PROVE d(i) \in 0 .. j - 2
      <4>1. d(i) * n < (j - 1) * n
        BY <1>2, <2>1, <2>3, <3>1, SMT
      <4>2. n * d(i) < n * (j - 1)
        BY <1>2, <2>1, <4>1, SMT
      <4>3. d(i) \in Int /\ j - 1 \in Int /\ n \in Nat
        BY <1>2, <2>1
      <4>4. d(i) < j - 1
        BY <4>2, <4>3, LessFactor
      <4> QED
        BY <1>2, <2>1, <4>4
    <3>2. f \in [D -> 0 .. j - 2]
      BY <3>1
    <3>3. \A x, y \in D : f[x] = f[y] => x = y
      BY <2>1
    <3>4. IsFiniteSet(0 .. j - 2) /\ Cardinality(0 .. j - 2) < Cardinality(D)
      <4>1. 0 \in Int /\ j - 2 \in Int
        BY <1>2
      <4>2. IsFiniteSet(0 .. j - 2) /\ Cardinality(0 .. j - 2) = IF 0 > j - 2 THEN 0 ELSE j - 2 - 0 + 1
        BY <4>1, FS_Interval
      <4> QED
        BY <1>2, <4>2
    <3> HIDE DEF f
    <3> QED
      BY <1>1, <3>2, <3>3, <3>4, FS_PigeonHole
  <2>4. (j - 1) * n \in Int
    BY <1>2
  <2> QED
    BY <1>2, <2>2, <2>3, <2>4
<1> QED
  BY <1>1, <1>2, <1>3

\* The items of a lane are items of the operation, every lanes-th one.
LEMMA LaneItems ==
  ASSUME NEW items \in Seq(ItemSet), NEW n \in Nat \ {0}, NEW l \in 1 .. n
  PROVE  /\ LaneQueue(items, l, n) \in Seq(ItemSet)
         /\ \A j \in 1 .. Len(LaneQueue(items, l, n)) :
              /\ l + (j - 1) * n \in 1 .. Len(items)
              /\ LaneQueue(items, l, n)[j] = items[l + (j - 1) * n]
<1> DEFINE k == Len(items)
           D == {i \in 1 .. k : (i - 1) % n = l - 1}
           m == Cardinality(D)
<1>1. k \in Nat /\ DOMAIN items = 1 .. k
  OBVIOUS
<1>2. m \in Nat /\ \A j \in 1 .. m : l + (j - 1) * n \in 1 .. k
  <2> HIDE DEF k
  <2> QED
    BY <1>1, LaneCount
<1>3. LaneQueue(items, l, n) = [j \in 1 .. m |-> items[l + (j - 1) * n]]
  BY <1>1 DEF LaneQueue
<1>4. \A j \in 1 .. m : items[l + (j - 1) * n] \in ItemSet
  BY <1>2
<1> HIDE DEF m
<1> QED
  BY <1>2, <1>3, <1>4

-----------------------------------------------------------------------------
(***************************************************************************)
(* The inductive invariant.  Types first.                                  *)
(***************************************************************************)
Kinds == {"root"} \cup {w.k : w \in Work}

ResultSet == [path : Path, ok : BOOLEAN]

TaskSet ==
  [chan : Path, fork : Nat, kind : Kinds, queue : Seq(ItemSet), out : Seq(ResultSet),
   phase : {"run", "recv", "wait"}, cancelled : BOOLEAN]

\* A task that waits for lanes is at an operation, and made its fork; one
\* that waits for a message is at other work.
PhaseFits(t) ==
  t.phase # "run" =>
    /\ t.queue # <<>>
    /\ t.phase = "wait" <=> Head(t.queue).w.k \in Ops
    /\ t.phase = "wait" /\ ~Single => t.fork > 0

IsTasks(T) ==
  /\ T = [k \in DOMAIN T |-> T[k]]
  /\ DOMAIN T \subseteq Path
  /\ \A k \in DOMAIN T : T[k] \in TaskSet /\ PhaseFits(T[k])

TypeOK ==
  /\ session \in Sessions
  /\ tasks = [p \in Parties |-> tasks[p]]
  /\ \A p \in Parties : IsTasks(tasks[p])
  /\ next \in [Parties -> Nat]
  /\ seen \in [trouble : BOOLEAN, misread : SUBSET [path : Path, late : BOOLEAN],
               refused : SUBSET (Parties \X Path), sent : SUBSET (Parties \X Path)]

\* Work to do.  Work that has not been forked yet is below no other work to
\* do, and above none.
Started(t, i) == t.phase = "wait" /\ i = 1

Apart(T) ==
  \A j, k \in DOMAIN T : \A m \in DOMAIN T[j].queue, n \in DOMAIN T[k].queue :
    ~Started(T[j], m) /\ IsPrefix(T[j].queue[m].path, T[k].queue[n].path) => j = k /\ m = n

\* Nothing was sent below work that has not been forked yet, and nothing is
\* to do at or below a refused operation.
Fresh(T, S, F) ==
  \A j \in DOMAIN T : \A m \in DOMAIN T[j].queue :
    /\ \A s \in S : ~Started(T[j], m) => ~IsStrictPrefix(T[j].queue[m].path, s)
    /\ \A f \in F : ~IsPrefix(f, T[j].queue[m].path)
    /\ \A f \in F : ~Started(T[j], m) => ~IsPrefix(T[j].queue[m].path, f)

NothingSent(S, F) == \A f \in F, s \in S : ~IsStrictPrefix(f, s)

\* Paths start with the number of their context.
Numbered(x, n) == Len(x) > 0 /\ x[1] <= n

AllNumbered(T, S, F, n) ==
  /\ \A x \in S \cup F : Numbered(x, n)
  /\ \A j \in DOMAIN T : \A m \in DOMAIN T[j].queue : Numbered(T[j].queue[m].path, n)

LanesInv(T, S, F, n) ==
  Apart(T) /\ Fresh(T, S, F) /\ NothingSent(S, F) /\ AllNumbered(T, S, F, n)

OfParty(E, p) == {e[2] : e \in {x \in E : x[1] = p}}
Sent(p) == OfParty(seen.sent, p)
Refused(p) == OfParty(seen.refused, p)

-----------------------------------------------------------------------------
\* u is t after some of its work was done.
Shrunk(u, t, d) ==
  \A i \in DOMAIN u.queue :
    /\ i + d \in DOMAIN t.queue /\ u.queue[i] = t.queue[i + d]
    /\ Started(t, i + d) => Started(u, i)

\* The work of a task has paths.
LEMMA QueuePaths ==
  ASSUME NEW t \in TaskSet
  PROVE  /\ t.queue \in Seq(ItemSet) /\ DOMAIN t.queue \subseteq Nat \ {0}
         /\ DOMAIN t.queue = 1 .. Len(t.queue) /\ Len(t.queue) \in Nat
         /\ \A i \in DOMAIN t.queue : t.queue[i] \in ItemSet /\ t.queue[i].path \in Path
<1>1. t.queue \in Seq(ItemSet)
  BY DEF TaskSet
<1>2. \A i \in DOMAIN t.queue : t.queue[i] \in ItemSet
  BY <1>1
<1> QED
  BY <1>1, <1>2 DEF ItemSet

\* Work that is done leaves the rest as it was.
LEMMA ShrinkLanes ==
  ASSUME NEW T, IsTasks(T), NEW S, NEW F, NEW n, LanesInv(T, S, F, n), NEW U,
         \A k \in DOMAIN U : k \in DOMAIN T /\ DOMAIN U[k].queue \subseteq Nat
                               /\ \E d \in Nat : Shrunk(U[k], T[k], d)
  PROVE  LanesInv(U, S, F, n)
<1>1. \A k \in DOMAIN U : k \in DOMAIN T /\ DOMAIN U[k].queue \subseteq Nat
  OBVIOUS
<1>2. Apart(U)
  <2> SUFFICES ASSUME NEW j \in DOMAIN U, NEW k \in DOMAIN U,
                      NEW m \in DOMAIN U[j].queue, NEW i \in DOMAIN U[k].queue,
                      ~Started(U[j], m), IsPrefix(U[j].queue[m].path, U[k].queue[i].path)
               PROVE  j = k /\ m = i
    BY DEF Apart
  <2>1. PICK d \in Nat : Shrunk(U[j], T[j], d)
    OBVIOUS
  <2>2. PICK e \in Nat : Shrunk(U[k], T[k], e) /\ (j = k => e = d)
    BY <2>1
  <2>3. /\ m + d \in DOMAIN T[j].queue /\ U[j].queue[m] = T[j].queue[m + d] /\ ~Started(T[j], m + d)
        /\ i + e \in DOMAIN T[k].queue /\ U[k].queue[i] = T[k].queue[i + e]
    BY <2>1, <2>2 DEF Shrunk
  <2>4. j = k /\ m + d = i + e
    BY <1>1, <2>3 DEF LanesInv, Apart
  <2>5. m \in Nat /\ i \in Nat
    BY <1>1
  <2> QED
    BY <2>2, <2>4, <2>5
<1>3. Fresh(U, S, F)
  <2> SUFFICES ASSUME NEW j \in DOMAIN U, NEW m \in DOMAIN U[j].queue
               PROVE  /\ \A s \in S : ~Started(U[j], m) => ~IsStrictPrefix(U[j].queue[m].path, s)
                      /\ \A f \in F : ~IsPrefix(f, U[j].queue[m].path)
                      /\ \A f \in F : ~Started(U[j], m) => ~IsPrefix(U[j].queue[m].path, f)
    BY DEF Fresh
  <2>1. PICK d \in Nat : Shrunk(U[j], T[j], d)
    OBVIOUS
  <2>2. /\ m + d \in DOMAIN T[j].queue /\ U[j].queue[m] = T[j].queue[m + d]
        /\ Started(T[j], m + d) => Started(U[j], m)
    BY <2>1 DEF Shrunk
  <2> QED
    BY <1>1, <2>2 DEF LanesInv, Fresh
<1>4. AllNumbered(U, S, F, n)
  <2>1. ASSUME NEW j \in DOMAIN U, NEW m \in DOMAIN U[j].queue PROVE Numbered(U[j].queue[m].path, n)
    <3>1. PICK d \in Nat : Shrunk(U[j], T[j], d)
      OBVIOUS
    <3>2. m + d \in DOMAIN T[j].queue /\ U[j].queue[m] = T[j].queue[m + d]
      BY <3>1 DEF Shrunk
    <3> QED
      BY <1>1, <3>2 DEF LanesInv, AllNumbered
  <2> QED
    BY <2>1 DEF LanesInv, AllNumbered
<1> QED
  BY <1>2, <1>3, <1>4 DEF LanesInv

\* Work that is not forked sends its message.
LEMMA SendLanes ==
  ASSUME NEW T, IsTasks(T), NEW S, NEW F, NEW n, LanesInv(T, S, F, n),
         NEW k \in DOMAIN T, 1 \in DOMAIN T[k].queue, ~Started(T[k], 1),
         NEW q, q = T[k].queue[1].path
  PROVE  LanesInv(T, S \cup {q}, F, n)
<1>1. \A j \in DOMAIN T : \A m \in DOMAIN T[j].queue :
         ~Started(T[j], m) => ~IsStrictPrefix(T[j].queue[m].path, q)
  BY DEF LanesInv, Apart, IsStrictPrefix
<1>2. Fresh(T, S \cup {q}, F)
  <2>1. Fresh(T, S, F)
    BY DEF LanesInv
  <2> QED
    BY <1>1, <2>1 DEF Fresh
<1>3. NothingSent(S \cup {q}, F)
  <2>1. \A f \in F : ~IsPrefix(f, q)
    BY DEF LanesInv, Fresh
  <2>2. NothingSent(S, F)
    BY DEF LanesInv
  <2> QED
    BY <2>1, <2>2 DEF NothingSent, IsStrictPrefix
<1>4. AllNumbered(T, S \cup {q}, F, n)
  <2>1. AllNumbered(T, S, F, n)
    BY DEF LanesInv
  <2> QED
    BY <2>1 DEF AllNumbered
<1> QED
  BY <1>2, <1>3, <1>4 DEF LanesInv

\* An operation that was not forked is refused, and done with.
LEMMA RefuseLanes ==
  ASSUME NEW T, IsTasks(T), NEW S, NEW F, NEW n, LanesInv(T, S, F, n),
         NEW k \in DOMAIN T, 1 \in DOMAIN T[k].queue, ~Started(T[k], 1),
         NEW q, q = T[k].queue[1].path, NEW U,
         \A j \in DOMAIN U : j \in DOMAIN T /\ DOMAIN U[j].queue \subseteq Nat \ {0}
                               /\ \E d \in Nat : Shrunk(U[j], T[j], d) /\ (j = k => d > 0)
  PROVE  LanesInv(U, S, F \cup {q}, n)
<1>1. LanesInv(U, S, F, n)
  BY ShrinkLanes
<1>2. ASSUME NEW j \in DOMAIN U, NEW m \in DOMAIN U[j].queue
      PROVE  /\ ~IsPrefix(q, U[j].queue[m].path)
             /\ ~Started(U[j], m) => ~IsPrefix(U[j].queue[m].path, q)
  <2>1. PICK d \in Nat : Shrunk(U[j], T[j], d) /\ (j = k => d > 0)
    OBVIOUS
  <2>2. /\ m + d \in DOMAIN T[j].queue /\ U[j].queue[m] = T[j].queue[m + d]
        /\ Started(T[j], m + d) => Started(U[j], m)
    BY <2>1 DEF Shrunk
  <2>3. ~(j = k /\ m + d = 1) /\ j \in DOMAIN T
    BY <2>1
  <2> QED
    BY <2>2, <2>3 DEF LanesInv, Apart
<1>3. Fresh(U, S, F \cup {q})
  <2>1. Fresh(U, S, F)
    BY <1>1 DEF LanesInv
  <2> QED
    BY <1>2, <2>1 DEF Fresh
<1>4. NothingSent(S, F \cup {q})
  <2>1. NothingSent(S, F)
    BY DEF LanesInv
  <2>2. \A s \in S : ~IsStrictPrefix(q, s)
    BY DEF LanesInv, Fresh
  <2> QED
    BY <2>1, <2>2 DEF NothingSent
<1>5. AllNumbered(U, S, F \cup {q}, n)
  <2>1. AllNumbered(U, S, F, n)
    BY <1>1 DEF LanesInv
  <2>2. Numbered(q, n)
    BY DEF LanesInv, AllNumbered
  <2> QED
    BY <2>1, <2>2 DEF AllNumbered
<1> QED
  BY <1>1, <1>3, <1>4, <1>5 DEF LanesInv

\* What is above and below one of the lanes' items, in terms of the operation.
LEMMA Branch ==
  ASSUME NEW q \in Path, NEW i \in Nat, NEW x \in Path
  PROVE  /\ Append(q, i) \in Path /\ Append(q, i) # q /\ ~IsPrefix(Append(q, i), q)
         /\ IsPrefix(Append(q, i), x) => IsPrefix(q, x) /\ x # q
         /\ IsPrefix(x, Append(q, i)) => IsPrefix(x, q) \/ x = Append(q, i)
         /\ IsPrefix(q, Append(q, i))
<1>1. Append(q, i) \in Path /\ Append(q, i) # q
  BY PrefixAppend
<1>2. IsPrefix(q, Append(q, i))
  BY PrefixAppend, PrefixOrder
<1>3. ~IsPrefix(Append(q, i), q)
  BY <1>1, <1>2, PrefixOrder
<1>4. IsPrefix(x, Append(q, i)) => IsPrefix(x, q) \/ x = Append(q, i)
  BY PrefixAppend
<1>5. IsPrefix(Append(q, i), x) => IsPrefix(q, x)
  BY PrefixAppend
<1> QED
  BY <1>1, <1>2, <1>3, <1>4, <1>5

\* The tasks New take over the work at q, that task k waits for.
HandsOver(T, U, New, k, q) ==
  /\ k \notin New /\ (k \in DOMAIN U => Started(U[k], 1))
  /\ \A j \in DOMAIN U \ New :
       /\ j \in DOMAIN T /\ U[j].queue = T[j].queue
       /\ \A i \in DOMAIN T[j].queue : Started(T[j], i) => Started(U[j], i)
  /\ \A j \in DOMAIN U \cap New : \A m \in DOMAIN U[j].queue :
       \E i \in Nat : U[j].queue[m].path = Append(q, i)
  /\ \A i, j \in DOMAIN U \cap New : \A m \in DOMAIN U[i].queue, o \in DOMAIN U[j].queue :
       U[i].queue[m].path = U[j].queue[o].path => i = j /\ m = o

\* An operation is forked: its lanes take over its work.
LEMMA ForkLanes ==
  ASSUME NEW T, IsTasks(T), NEW S \in SUBSET Path, NEW F \in SUBSET Path, NEW n,
         LanesInv(T, S, F, n),
         NEW k \in DOMAIN T, 1 \in DOMAIN T[k].queue, ~Started(T[k], 1),
         NEW q, q = T[k].queue[1].path, NEW U, NEW New, HandsOver(T, U, New, k, q)
  PROVE  LanesInv(U, S, F, n)
<1> USE DEF HandsOver
<1>1. q \in Path /\ IsPrefix(q, q)
  BY QueuePaths, PrefixOrder DEF IsTasks
<1>2. ASSUME NEW j \in DOMAIN U \ New, NEW m \in DOMAIN U[j].queue
      PROVE  /\ j \in DOMAIN T /\ m \in DOMAIN T[j].queue /\ U[j].queue[m] = T[j].queue[m]
             /\ ~Started(U[j], m) => ~Started(T[j], m)
             /\ U[j].queue[m].path \in Path
             /\ IsPrefix(q, U[j].queue[m].path) => j = k /\ m = 1
             /\ ~Started(U[j], m) => ~IsPrefix(U[j].queue[m].path, q)
  <2>1. /\ j \in DOMAIN T /\ m \in DOMAIN T[j].queue /\ U[j].queue[m] = T[j].queue[m]
        /\ ~Started(U[j], m) => ~Started(T[j], m)
    OBVIOUS
  <2>2. U[j].queue[m].path \in Path
    BY <2>1, QueuePaths DEF IsTasks
  <2>3. IsPrefix(q, U[j].queue[m].path) => j = k /\ m = 1
    BY <2>1 DEF LanesInv, Apart
  <2>4. ASSUME ~Started(U[j], m), IsPrefix(U[j].queue[m].path, q) PROVE FALSE
    <3>1. j = k /\ m = 1
      BY <2>1, <2>4 DEF LanesInv, Apart
    <3> QED
      BY <2>4, <3>1
  <2> QED
    BY <2>1, <2>2, <2>3, <2>4
<1>3. ASSUME NEW j \in DOMAIN U \cap New, NEW m \in DOMAIN U[j].queue
      PROVE  \E i \in Nat : U[j].queue[m].path = Append(q, i)
  OBVIOUS
<1> HIDE DEF HandsOver
<1>4. ASSUME NEW i \in Nat, NEW x \in Path
      PROVE  /\ Append(q, i) \in Path /\ Append(q, i) # q /\ ~IsPrefix(Append(q, i), q)
             /\ IsPrefix(Append(q, i), x) => IsPrefix(q, x) /\ x # q
             /\ IsPrefix(x, Append(q, i)) => IsPrefix(x, q) \/ x = Append(q, i)
             /\ IsPrefix(q, Append(q, i))
  BY <1>1, Branch
<1>5. Apart(U)
  <2> SUFFICES ASSUME NEW j \in DOMAIN U, NEW l \in DOMAIN U,
                      NEW m \in DOMAIN U[j].queue, NEW o \in DOMAIN U[l].queue,
                      ~Started(U[j], m), IsPrefix(U[j].queue[m].path, U[l].queue[o].path)
               PROVE  j = l /\ m = o
    BY DEF Apart
  <2>1. CASE j \notin New /\ l \notin New
    <3>1. /\ j \in DOMAIN T /\ m \in DOMAIN T[j].queue /\ U[j].queue[m] = T[j].queue[m]
          /\ ~Started(T[j], m)
      BY <1>2, <2>1
    <3>2. l \in DOMAIN T /\ o \in DOMAIN T[l].queue /\ U[l].queue[o] = T[l].queue[o]
      BY <1>2, <2>1
    <3>3. IsPrefix(T[j].queue[m].path, T[l].queue[o].path)
      BY <3>1, <3>2
    <3> QED
      BY <3>1, <3>2, <3>3 DEF LanesInv, Apart
  <2>2. CASE j \notin New /\ l \in New
    <3>1. PICK i \in Nat : U[l].queue[o].path = Append(q, i)
      BY <1>3, <2>2
    <3>2. U[j].queue[m].path \in Path /\ ~IsPrefix(U[j].queue[m].path, q)
      BY <1>2, <2>2
    <3>3. U[j].queue[m].path = Append(q, i)
      BY <1>4, <3>1, <3>2
    <3>4. IsPrefix(q, U[j].queue[m].path)
      BY <1>1, <1>4, <3>3
    <3>5. j = k /\ m = 1 /\ k \in DOMAIN U
      BY <1>2, <2>2, <3>4
    <3> QED
      BY <3>5 DEF HandsOver
  <2>3. CASE j \in New /\ l \notin New
    <3>1. PICK i \in Nat : U[j].queue[m].path = Append(q, i)
      BY <1>3, <2>3
    <3>2. IsPrefix(q, U[l].queue[o].path) /\ U[l].queue[o].path # q
      BY <1>2, <1>4, <2>3, <3>1
    <3>3. l = k /\ o = 1 /\ U[l].queue[o] = T[l].queue[o]
      BY <1>2, <2>3, <3>2
    <3> QED
      BY <3>2, <3>3
  <2>4. CASE j \in New /\ l \in New
    <3>1. PICK i \in Nat : U[j].queue[m].path = Append(q, i)
      BY <1>3, <2>4
    <3>2. PICK h \in Nat : U[l].queue[o].path = Append(q, h)
      BY <1>3, <2>4
    <3>3. IsPrefix(Append(q, i), Append(q, h)) /\ Append(q, i) \in Path /\ ~IsPrefix(Append(q, i), q)
      BY <1>1, <1>4, <3>1, <3>2
    <3>4. Append(q, i) = Append(q, h)
      BY <1>4, <3>3
    <3>5. U[j].queue[m].path = U[l].queue[o].path
      BY <3>1, <3>2, <3>4
    <3> QED
      BY <2>4, <3>5 DEF HandsOver
  <2> QED
    BY <2>1, <2>2, <2>3, <2>4
<1>6. Fresh(U, S, F)
  <2> SUFFICES ASSUME NEW j \in DOMAIN U, NEW m \in DOMAIN U[j].queue
               PROVE  /\ \A s \in S : ~Started(U[j], m) => ~IsStrictPrefix(U[j].queue[m].path, s)
                      /\ \A f \in F : ~IsPrefix(f, U[j].queue[m].path)
                      /\ \A f \in F : ~Started(U[j], m) => ~IsPrefix(U[j].queue[m].path, f)
    BY DEF Fresh
  <2>1. CASE j \notin New
    BY <1>2, <2>1 DEF LanesInv, Fresh
  <2>2. CASE j \in New
    <3>1. PICK i \in Nat : U[j].queue[m].path = Append(q, i)
      BY <1>3, <2>2
    <3>2. /\ \A s \in S : ~IsStrictPrefix(q, s)
          /\ \A f \in F : ~IsPrefix(f, q) /\ ~IsPrefix(q, f)
      BY DEF LanesInv, Fresh
    <3>3. ASSUME NEW s \in S PROVE ~IsPrefix(Append(q, i), s)
      BY <1>4, <3>2 DEF IsStrictPrefix
    <3>4. ASSUME NEW f \in F PROVE ~IsPrefix(f, Append(q, i)) /\ ~IsPrefix(Append(q, i), f)
      <4>1. f \in Path /\ ~IsPrefix(f, q) /\ ~IsPrefix(q, f)
        BY <3>2
      <4>2. f # Append(q, i)
        BY <1>1, <1>4, <4>1
      <4> QED
        BY <1>4, <4>1, <4>2
    <3> QED
      BY <3>1, <3>3, <3>4 DEF IsStrictPrefix
  <2> QED
    BY <2>1, <2>2
<1>7. AllNumbered(U, S, F, n)
  <2>1. ASSUME NEW j \in DOMAIN U, NEW m \in DOMAIN U[j].queue PROVE Numbered(U[j].queue[m].path, n)
    <3>1. CASE j \notin New
      BY <1>2, <3>1 DEF LanesInv, AllNumbered
    <3>2. CASE j \in New
      <4>1. PICK i \in Nat : U[j].queue[m].path = Append(q, i)
        BY <1>3, <3>2
      <4>2. Numbered(q, n)
        BY DEF LanesInv, AllNumbered
      <4>3. Len(q) \in Nat /\ Len(Append(q, i)) > 0 /\ Append(q, i)[1] = q[1]
        BY <1>1, <4>2 DEF Path, Numbered
      <4> QED
        BY <4>1, <4>2, <4>3 DEF Numbered
    <3> QED
      BY <3>1, <3>2
  <2> QED
    BY <2>1 DEF LanesInv, AllNumbered
<1>8. NothingSent(S, F)
  BY DEF LanesInv
<1> QED
  BY <1>5, <1>6, <1>7, <1>8 DEF LanesInv

\* The path of a context's m-th piece of work.
RootItem(n, m) == <<n, m>>

\* Task r is that of context n, and new.
Adds(T, U, r, n) ==
  /\ U[r].phase = "run" /\ U[r].queue \in Seq(ItemSet)
  /\ \A m \in DOMAIN U[r].queue : U[r].queue[m].path = RootItem(n, m)
  /\ \A j \in DOMAIN U \ {r} : j \in DOMAIN T /\ U[j] = T[j]

\* A new context: its number is new.
LEMMA RootLanes ==
  ASSUME NEW T, IsTasks(T), NEW S \in SUBSET Path, NEW F \in SUBSET Path, NEW n \in Nat,
         LanesInv(T, S, F, n), NEW U, NEW r, Adds(T, U, r, n + 1)
  PROVE  LanesInv(U, S, F, n + 1)
<1> USE DEF RootItem, Adds
<1>1. ASSUME NEW x \in Path, Numbered(x, n), NEW m \in Nat
      PROVE  Numbered(x, n + 1) /\ ~IsPrefix(x, <<n + 1, m>>) /\ ~IsPrefix(<<n + 1, m>>, x)
  <2>1. /\ <<n + 1, m>> \in Path /\ <<n + 1, m>>[1] = n + 1 /\ Len(<<n + 1, m>>) = 2
        /\ Len(x) \in Nat /\ Len(x) > 0 /\ x[1] \in Nat /\ x[1] <= n
    BY <1>1 DEF Path, Numbered
  <2>2. Numbered(x, n + 1) /\ 1 \in 1 .. Len(x) /\ 1 \in 1 .. 2 /\ x[1] # n + 1
    BY <2>1 DEF Numbered
  <2>3. ~IsPrefix(x, <<n + 1, m>>) /\ ~IsPrefix(<<n + 1, m>>, x)
    BY <2>1, <2>2, PrefixPointwise
  <2> QED
    BY <2>2, <2>3
<1>2. ASSUME NEW j \in DOMAIN U, j # r, NEW m \in DOMAIN U[j].queue
      PROVE  /\ j \in DOMAIN T /\ U[j] = T[j] /\ U[j].queue[m].path \in Path
             /\ Numbered(U[j].queue[m].path, n)
  <2>1. j \in DOMAIN T /\ U[j] = T[j]
    BY <1>2
  <2>2. U[j].queue[m].path \in Path
    BY <2>1, QueuePaths DEF IsTasks
  <2>3. Numbered(U[j].queue[m].path, n)
    BY <2>1 DEF LanesInv, AllNumbered
  <2> QED
    BY <2>1, <2>2, <2>3
<1>3. ASSUME NEW m \in DOMAIN U[r].queue
      PROVE  m \in Nat /\ m > 0 /\ U[r].queue[m].path = <<n + 1, m>> /\ Numbered(<<n + 1, m>>, n + 1)
  <2>1. m \in 1 .. Len(U[r].queue)
    OBVIOUS
  <2> QED
    BY <2>1 DEF Numbered
<1>4. Apart(U)
  <2> SUFFICES ASSUME NEW j \in DOMAIN U, NEW l \in DOMAIN U,
                      NEW m \in DOMAIN U[j].queue, NEW o \in DOMAIN U[l].queue,
                      ~Started(U[j], m), IsPrefix(U[j].queue[m].path, U[l].queue[o].path)
               PROVE  j = l /\ m = o
    BY DEF Apart
  <2>1. CASE j # r /\ l # r
    <3>1. j \in DOMAIN T /\ l \in DOMAIN T /\ U[j] = T[j] /\ U[l] = T[l]
      BY <1>2, <2>1
    <3> QED
      BY <3>1 DEF LanesInv, Apart
  <2>2. CASE j = r /\ l # r
    BY <1>1, <1>2, <1>3, <2>2
  <2>3. CASE j # r /\ l = r
    BY <1>1, <1>2, <1>3, <2>3
  <2>4. CASE j = r /\ l = r
    <3>1. m \in Nat /\ o \in Nat /\ IsPrefix(<<n + 1, m>>, <<n + 1, o>>)
      BY <1>3, <2>4
    <3>2. /\ <<n + 1, m>> \in Path /\ <<n + 1, o>> \in Path
          /\ Len(<<n + 1, m>>) = 2 /\ <<n + 1, m>>[2] = m /\ <<n + 1, o>>[2] = o
      BY <3>1 DEF Path
    <3>3. m = o
      BY <3>1, <3>2, PrefixPointwise
    <3> QED
      BY <2>4, <3>3
  <2> QED
    BY <2>1, <2>2, <2>3, <2>4
<1>5. \A x \in S \cup F : x \in Path /\ Numbered(x, n)
  BY DEF LanesInv, AllNumbered
<1>6. Fresh(U, S, F)
  <2> SUFFICES ASSUME NEW j \in DOMAIN U, NEW m \in DOMAIN U[j].queue
               PROVE  /\ \A s \in S : ~Started(U[j], m) => ~IsStrictPrefix(U[j].queue[m].path, s)
                      /\ \A f \in F : ~IsPrefix(f, U[j].queue[m].path)
                      /\ \A f \in F : ~Started(U[j], m) => ~IsPrefix(U[j].queue[m].path, f)
    BY DEF Fresh
  <2>1. CASE j # r
    BY <1>2, <2>1 DEF LanesInv, Fresh
  <2>2. CASE j = r
    <3>1. m \in Nat /\ U[r].queue[m].path = <<n + 1, m>>
      BY <1>3, <2>2
    <3> QED
      BY <1>1, <1>5, <2>2, <3>1 DEF IsStrictPrefix
  <2> QED
    BY <2>1, <2>2
<1>7. AllNumbered(U, S, F, n + 1)
  <2>1. \A x \in S \cup F : Numbered(x, n + 1)
    BY <1>1, <1>5
  <2>2. ASSUME NEW j \in DOMAIN U, NEW m \in DOMAIN U[j].queue PROVE Numbered(U[j].queue[m].path, n + 1)
    BY <1>1, <1>2, <1>3
  <2> QED
    BY <2>1, <2>2 DEF AllNumbered
<1>8. NothingSent(S, F)
  BY DEF LanesInv
<1> QED
  BY <1>4, <1>6, <1>7, <1>8 DEF LanesInv

-----------------------------------------------------------------------------
(***************************************************************************)
(* What a step does to the tasks of the party that takes it.               *)
(***************************************************************************)
\* The index the operation a task is at forks with.
Forked(t) == IF t.phase = "wait" THEN t.fork - 1 ELSE t.fork

Uses(it) == IF it.w.k \in Ops THEN 1 ELSE 0

Kept(u, t) ==
  /\ u.queue = t.queue /\ u.chan = t.chan /\ u.fork = t.fork
  /\ u.phase = "wait" <=> t.phase = "wait"

\* The work t is at ended, and u is what is left.
Ended(u, t) ==
  /\ t.queue # <<>> /\ u.queue \in {<<>>, Tail(t.queue)}
  /\ u.chan = t.chan /\ u.fork >= t.fork /\ u.phase = "run"
  /\ ~Single => Forked(u) = Forked(t) + Uses(Head(t.queue))

Proceeds(T, U) ==
  \A j \in DOMAIN U : j \in DOMAIN T /\ (Kept(U[j], T[j]) \/ Ended(U[j], T[j]))

\* Task k is at work it has not forked.
AtWork(T, k) == k \in DOMAIN T /\ T[k].queue # <<>> /\ T[k].phase = "run"

Quiet(p) == Sent(p)' = Sent(p) /\ Refused(p)' = Refused(p)

ProceedStep(p) ==
  /\ Proceeds(tasks[p], tasks'[p]) /\ next' = next
  /\ \/ Quiet(p)
     \/ /\ Refused(p)' = Refused(p)
        /\ \E k \in DOMAIN tasks[p] :
             AtWork(tasks[p], k) /\ Sent(p)' = Sent(p) \cup {Head(tasks[p][k].queue).path}
     \/ /\ Sent(p)' = Sent(p)
        /\ \E k \in DOMAIN tasks[p] :
             /\ AtWork(tasks[p], k) /\ Refused(p)' = Refused(p) \cup {Head(tasks[p][k].queue).path}
             /\ k \in DOMAIN tasks'[p] => Ended(tasks'[p][k], tasks[p][k])

\* Task k forks: it waits, and every lane has its task.
LaneOf(t, l) ==
  LET n == Lanes(Head(t.queue).w) IN LaneTask(t, Head(t.queue), l, n)

Spawned(T, U, k) ==
  LET t == T[k]
      it == Head(t.queue)
      keys == LaneKeys(it.path, Lanes(it.w))
  IN  /\ AtWork(T, k) /\ it.w.k \in Ops
      /\ DOMAIN U = DOMAIN T \cup keys
      /\ U[k] = [t EXCEPT !.fork = NextFork(t), !.phase = "wait"]
      /\ \A c \in keys \ {k} : U[c] = LaneOf(t, Last(c))
      /\ \A j \in DOMAIN U \ (keys \cup {k}) : U[j] = T[j]

ForkStep(p) ==
  /\ \E k \in DOMAIN tasks[p] : Spawned(tasks[p], tasks'[p], k)
  /\ Quiet(p) /\ next' = next

\* A new context, or one that could not be opened.
RootTask(n) == NewTask(Child(DefaultId, n), "root", RootQueue(n + 1))

RootStep(p) ==
  /\ Quiet(p) /\ next[p] < Len(session.roots)
  /\ next' = [next EXCEPT ![p] = @ + 1]
  /\ \/ tasks'[p] = tasks[p]
     \/ /\ DOMAIN tasks'[p] = DOMAIN tasks[p] \cup {<<next[p] + 1>>}
        /\ tasks'[p][<<next[p] + 1>>] = RootTask(next[p])
        /\ \A j \in DOMAIN tasks[p] \ {<<next[p] + 1>>} : tasks'[p][j] = tasks[p][j]

\* A step of party p.
StepOf(p) ==
  /\ session' = session
  /\ \A q \in Parties \ {p} : tasks'[q] = tasks[q] /\ Quiet(q)
  /\ ProceedStep(p) \/ ForkStep(p) \/ RootStep(p)

-----------------------------------------------------------------------------
\* The end of a piece of work.
LEMMA FinishFacts ==
  ASSUME NEW t \in TaskSet, t.queue # <<>>, NEW r \in ResultSet, NEW u, u = Finish(t, r)
  PROVE  /\ u \in TaskSet /\ u.queue \in {<<>>, Tail(t.queue)} /\ u.phase = "run"
         /\ u.chan = t.chan /\ u.fork = t.fork /\ PhaseFits(u)
<1>1. t.queue \in Seq(ItemSet) /\ t.out \in Seq(ResultSet)
  BY DEF TaskSet
<1>2. Tail(t.queue) \in Seq(ItemSet) /\ <<>> \in Seq(ItemSet) /\ Append(t.out, r) \in Seq(ResultSet)
  BY <1>1
<1>3. PICK q \in {<<>>, Tail(t.queue)}, o \in Seq(ResultSet) :
        u = [t EXCEPT !.queue = q, !.out = o, !.phase = "run"]
  BY <1>2 DEF Finish
<1>4. q \in Seq(ItemSet)
  BY <1>2
<1>5. u \in TaskSet /\ u.queue = q /\ u.phase = "run" /\ u.chan = t.chan /\ u.fork = t.fork
  BY <1>3, <1>4 DEF TaskSet
<1> QED
  BY <1>3, <1>5 DEF PhaseFits

\* The tasks after one of them ended its work.
LEMMA EndsFacts ==
  ASSUME TypeOK, NEW p \in Parties, NEW k \in Path, NEW t \in TaskSet, t = tasks[p][k],
         t.queue # <<>>, NEW r \in ResultSet, NEW others, IsTasks(others), Ends(p, k, r, others)
  PROVE  /\ tasks' = [q \in Parties |-> tasks'[q]]
         /\ \A q \in Parties \ {p} : tasks'[q] = tasks[q]
         /\ IsTasks(tasks'[p]) /\ DOMAIN tasks'[p] = {k} \cup DOMAIN others
         /\ tasks'[p][k] = Finish(t, r)
         /\ \A j \in DOMAIN others \ {k} : tasks'[p][j] = others[j]
<1> DEFINE u == Finish(t, r)
           U == Over(One(k, u), others)
<1>1. tasks' = [tasks EXCEPT ![p] = U]
  BY DEF Ends
<1>2. DOMAIN U = {k} \cup DOMAIN others /\ U[k] = u /\ \A j \in DOMAIN others \ {k} : U[j] = others[j]
  BY DEF Over, One
<1>3. u \in TaskSet /\ PhaseFits(u)
  BY FinishFacts
<1>4. U = [j \in DOMAIN U |-> U[j]]
  BY DEF Over, One
<1> HIDE DEF u, U
<1>5. IsTasks(U)
  BY <1>2, <1>3, <1>4 DEF IsTasks
<1>6. tasks'[p] = U /\ \A q \in Parties \ {p} : tasks'[q] = tasks[q]
  BY <1>1 DEF TypeOK
<1>7. tasks' = [q \in Parties |-> tasks'[q]]
  BY <1>1 DEF TypeOK
<1> QED
  BY <1>2, <1>5, <1>6, <1>7 DEF u

\* What an observer notes of a result.
LEMMA NoteFacts ==
  ASSUME TypeOK, NEW r \in ResultSet, NEW wrong \in BOOLEAN, Note(r, wrong)
  PROVE  /\ \A q \in Parties : Quiet(q)
         /\ seen' \in [trouble : BOOLEAN, misread : SUBSET [path : Path, late : BOOLEAN],
                       refused : SUBSET (Parties \X Path), sent : SUBSET (Parties \X Path)]
<1> DEFINE m == seen.misread \cup (IF wrong THEN {[path |-> r.path, late |-> seen.trouble]} ELSE {})
           b == seen.trouble \/ ~r.ok
<1>1. seen.trouble \in BOOLEAN /\ seen.misread \in SUBSET [path : Path, late : BOOLEAN]
  BY DEF TypeOK
<1>2. m \in SUBSET [path : Path, late : BOOLEAN] /\ b \in BOOLEAN
  BY <1>1 DEF ResultSet
<1>3. seen' = [seen EXCEPT !.trouble = b, !.misread = m]
  BY DEF Note
<1> HIDE DEF m, b
<1>4. seen'.sent = seen.sent /\ seen'.refused = seen.refused
  BY <1>3 DEF TypeOK
<1>5. \A q \in Parties : Quiet(q)
  BY <1>4 DEF Quiet, Sent, Refused
<1> QED
  BY <1>2, <1>3, <1>5 DEF TypeOK

-----------------------------------------------------------------------------
(***************************************************************************)
(* The steps keep the types, and are steps of one party as above.          *)
(***************************************************************************)
SeenSet == [trouble : BOOLEAN, misread : SUBSET [path : Path, late : BOOLEAN],
            refused : SUBSET (Parties \X Path), sent : SUBSET (Parties \X Path)]

\* One more entry of a party.
LEMMA ProjectAdd ==
  ASSUME NEW p \in Parties, NEW s \in Path, NEW x \in Parties, NEW E, NEW F, F = E \cup {<<p, s>>}
  PROVE  /\ x = p => OfParty(F, x) = OfParty(E, x) \cup {s}
         /\ x # p => OfParty(F, x) = OfParty(E, x)
<1> DEFINE old == {y \in E : y[1] = x}
           now == {y \in F : y[1] = x}
<1>1. OfParty(F, x) = {e[2] : e \in now} /\ OfParty(E, x) = {e[2] : e \in old}
  BY DEF OfParty
<1>2. CASE x = p
  <2>1. now = old \cup {<<p, s>>} /\ <<p, s>>[2] = s
    BY <1>2
  <2> HIDE DEF old, now
  <2>2. {e[2] : e \in now} = {e[2] : e \in old} \cup {s}
    BY <2>1
  <2> QED
    BY <1>1, <1>2, <2>2
<1>3. CASE x # p
  <2>1. now = old
    BY <1>3
  <2> HIDE DEF old, now
  <2> QED
    BY <1>1, <1>3, <2>1
<1> QED
  BY <1>2, <1>3

\* What the types say of a task.
LEMMA TaskFacts ==
  ASSUME TypeOK, NEW p \in Parties, NEW k \in DOMAIN tasks[p]
  PROVE  /\ k \in Path /\ tasks[p][k] \in TaskSet /\ PhaseFits(tasks[p][k]) /\ IsTasks(tasks[p])
         /\ ~Finished(tasks[p][k]) =>
              /\ tasks[p][k].queue # <<>> /\ 1 \in DOMAIN tasks[p][k].queue
              /\ Item(tasks[p][k]) = tasks[p][k].queue[1]
              /\ Item(tasks[p][k]) \in ItemSet /\ Item(tasks[p][k]).path \in Path
              /\ Item(tasks[p][k]).w \in Work /\ Item(tasks[p][k]).w.k \in Kinds
              /\ Item(tasks[p][k]).w.subs \in Seq(Work)
<1>1. k \in Path /\ tasks[p][k] \in TaskSet /\ PhaseFits(tasks[p][k]) /\ IsTasks(tasks[p])
  BY DEF TypeOK, IsTasks
<1>2. ASSUME ~Finished(tasks[p][k])
      PROVE  /\ tasks[p][k].queue # <<>> /\ 1 \in DOMAIN tasks[p][k].queue
             /\ Item(tasks[p][k]) = tasks[p][k].queue[1] /\ Item(tasks[p][k]) \in ItemSet
  <2>1. tasks[p][k].queue \in Seq(ItemSet) /\ tasks[p][k].queue # <<>>
    BY <1>1, <1>2 DEF TaskSet, Finished
  <2> QED
    BY <2>1 DEF Item
<1>3. \A it \in ItemSet : it.path \in Path /\ it.w \in Work /\ it.w.k \in Kinds /\ it.w.subs \in Seq(Work)
  BY WorkAssumption DEF ItemSet, Kinds
<1> QED
  BY <1>1, <1>2, <1>3

\* The types of the next state.
LEMMA TypeStep ==
  ASSUME TypeOK, session' = session, tasks' = [q \in Parties |-> tasks'[q]],
         \A q \in Parties : IsTasks(tasks'[q]), next' \in [Parties -> Nat], seen' \in SeenSet
  PROVE  TypeOK'
<1>1. \A q \in Parties : IsTasks(tasks[q])'
  BY DEF IsTasks, PhaseFits, Single
<1> QED
  BY <1>1 DEF TypeOK, SeenSet

\* A task ends its work, and the others are kept.
LEMMA EndsProceeds ==
  ASSUME TypeOK, NEW p \in Parties, NEW k \in DOMAIN tasks[p], NEW t \in TaskSet, t = tasks[p][k],
         t.queue # <<>>, NEW r \in ResultSet, NEW others, IsTasks(others), Ends(p, k, r, others),
         ~Single => Forked(t) + Uses(Head(t.queue)) = t.fork,
         \A j \in DOMAIN others : j \in DOMAIN tasks[p] /\ Kept(others[j], tasks[p][j]),
         session' = session, next' = next, seen' \in SeenSet, \A q \in Parties : Quiet(q)
  PROVE  TypeOK' /\ StepOf(p)
<1>1. k \in Path
  BY TaskFacts
<1>2. /\ tasks' = [q \in Parties |-> tasks'[q]]
      /\ \A q \in Parties \ {p} : tasks'[q] = tasks[q]
      /\ IsTasks(tasks'[p]) /\ DOMAIN tasks'[p] = {k} \cup DOMAIN others
      /\ tasks'[p][k] = Finish(t, r)
      /\ \A j \in DOMAIN others \ {k} : tasks'[p][j] = others[j]
  BY <1>1, EndsFacts
<1>3. TypeOK'
  <2>1. \A q \in Parties : IsTasks(tasks'[q])
    BY <1>2 DEF TypeOK
  <2>2. next' \in [Parties -> Nat]
    BY DEF TypeOK
  <2> QED
    BY <1>2, <2>1, <2>2, TypeStep
<1>4. Ended(tasks'[p][k], t)
  <2>0. PICK u : u = Finish(t, r)
    OBVIOUS
  <2>1. /\ u \in TaskSet /\ u.queue \in {<<>>, Tail(t.queue)} /\ u.phase = "run"
        /\ u.chan = t.chan /\ u.fork = t.fork
    BY <2>0, FinishFacts
  <2>2. Ended(u, t)
    BY <2>1 DEF Ended, Forked, TaskSet
  <2> QED
    BY <1>2, <2>0, <2>2
<1>5. Proceeds(tasks[p], tasks'[p])
  BY <1>2, <1>4 DEF Proceeds
<1> QED
  BY <1>2, <1>3, <1>5 DEF StepOf, ProceedStep

\* A message is sent, or the channel is closed.
LEMMA SendStep ==
  ASSUME TypeOK, NEW p \in Parties, NEW k \in DOMAIN tasks[p], Send(p, k)
  PROVE  TypeOK' /\ StepOf(p)
<1> DEFINE t == tasks[p][k]
           r == [path |-> Item(t).path, ok |-> FALSE]
           q == Peer(p)
<1>1. /\ ~Finished(t) /\ t.phase = "run" /\ Item(t).w.k \notin Ops
      /\ session' = session /\ next' = next
  BY DEF Send
<1>2. /\ k \in Path /\ t \in TaskSet /\ PhaseFits(t) /\ IsTasks(tasks[p])
      /\ t.queue # <<>> /\ 1 \in DOMAIN t.queue /\ Item(t) = t.queue[1]
      /\ Item(t).path \in Path
  BY <1>1, TaskFacts
<1>3. r \in ResultSet
  BY <1>2 DEF ResultSet
<1>4. CASE t.chan \in closed[q]
  <2>1. Ends(p, k, r, tasks[p]) /\ Note(r, FALSE)
    BY <1>4 DEF Send
  <2>2. /\ \A x \in Parties : Quiet(x)
        /\ seen' \in SeenSet
    BY <1>3, <2>1, NoteFacts DEF SeenSet
  <2>3. Forked(t) + Uses(Head(t.queue)) = t.fork
    BY <1>1, <1>2 DEF Forked, Uses, Item, TaskSet
  <2>4. \A j \in DOMAIN tasks[p] : Kept(tasks[p][j], tasks[p][j])
    BY DEF Kept
  <2> HIDE DEF t, r
  <2>5. t = tasks[p][k]
    BY DEF t
  <2> QED
    BY <1>1, <1>2, <1>3, <2>1, <2>2, <2>3, <2>4, <2>5, EndsProceeds
<1>5. CASE t.chan \notin closed[q]
  <2> DEFINE u == [t EXCEPT !.phase = "recv"]
             U == [tasks[p] EXCEPT ![k] = u]
             s == Item(t).path
  <2>1. tasks' = [tasks EXCEPT ![p] = U] /\ seen' = [seen EXCEPT !.sent = @ \cup {<<p, s>>}]
    BY <1>5 DEF Send
  <2>2. u \in TaskSet /\ PhaseFits(u) /\ Kept(u, t)
    BY <1>1, <1>2 DEF TaskSet, PhaseFits, Kept, Item
  <2>3. DOMAIN U = DOMAIN tasks[p] /\ U[k] = u /\ \A j \in DOMAIN tasks[p] \ {k} : U[j] = tasks[p][j]
    BY <1>2 DEF IsTasks
  <2>4. U = [j \in DOMAIN U |-> U[j]]
    OBVIOUS
  <2> HIDE DEF u, U
  <2>5. IsTasks(U)
    BY <1>2, <2>2, <2>3, <2>4 DEF IsTasks
  <2>6. /\ tasks'[p] = U /\ \A x \in Parties \ {p} : tasks'[x] = tasks[x]
        /\ tasks' = [x \in Parties |-> tasks'[x]]
    BY <2>1 DEF TypeOK
  <2>7. seen' \in SeenSet /\ seen'.refused = seen.refused /\ seen'.sent = seen.sent \cup {<<p, s>>}
    <3>1. seen \in SeenSet
      BY DEF TypeOK, SeenSet
    <3>2. <<p, s>> \in Parties \X Path
      BY <1>2
    <3> HIDE DEF s
    <3>3. seen.sent \cup {<<p, s>>} \in SUBSET (Parties \X Path)
      BY <3>1, <3>2 DEF SeenSet
    <3> DEFINE more == seen.sent \cup {<<p, s>>}
    <3>4. seen' = [seen EXCEPT !.sent = more]
      BY <2>1
    <3> HIDE DEF more
    <3>5. more \in SUBSET (Parties \X Path)
      BY <3>3 DEF more
    <3>6. seen' \in SeenSet /\ seen'.refused = seen.refused /\ seen'.sent = more
      BY <3>1, <3>4, <3>5 DEF SeenSet
    <3> QED
      BY <3>6 DEF more
  <2>8. TypeOK'
    <3>1. \A x \in Parties : IsTasks(tasks'[x])
      BY <2>5, <2>6 DEF TypeOK
    <3>2. next' \in [Parties -> Nat]
      BY <1>1 DEF TypeOK
    <3> QED
      BY <1>1, <2>6, <2>7, <3>1, <3>2, TypeStep
  <2>9. /\ \A x \in Parties : Refused(x)' = Refused(x)
        /\ \A x \in Parties \ {p} : Sent(x)' = Sent(x)
        /\ Sent(p)' = Sent(p) \cup {s}
    <3> HIDE DEF s
    <3>1. \A x \in Parties : Refused(x)' = Refused(x)
      BY <2>7 DEF Refused
    <3> DEFINE E == seen.sent
               F == seen'.sent
    <3>2. \A x \in Parties : Sent(x)' = OfParty(F, x) /\ Sent(x) = OfParty(E, x)
      BY DEF Sent
    <3>3. F = E \cup {<<p, s>>} /\ s \in Path
      BY <1>2, <2>7 DEF s
    <3> HIDE DEF E, F
    <3>4. ASSUME NEW x \in Parties
          PROVE  /\ x = p => OfParty(F, x) = OfParty(E, x) \cup {s}
                 /\ x # p => OfParty(F, x) = OfParty(E, x)
      BY <3>3, ProjectAdd
    <3> QED
      BY <3>1, <3>2, <3>4
  <2>10. Proceeds(tasks[p], tasks'[p])
    BY <2>2, <2>3, <2>6 DEF Proceeds, Kept
  <2>11. AtWork(tasks[p], k) /\ s = Head(tasks[p][k].queue).path
    BY <1>1, <1>2 DEF AtWork, Item
  <2>12. ProceedStep(p)
    BY <1>1, <2>9, <2>10, <2>11 DEF ProceedStep
  <2> QED
    BY <1>1, <2>6, <2>8, <2>9, <2>12 DEF StepOf, Quiet
<1> QED
  BY <1>4, <1>5

\* A message is read, or the channel ended.
LEMMA ReceiveStep ==
  ASSUME TypeOK, NEW p \in Parties, NEW k \in DOMAIN tasks[p], Receive(p, k)
  PROVE  TypeOK' /\ StepOf(p)
<1> DEFINE t == tasks[p][k]
<1>1. PICK inbox \in {box[p][t.chan]} :
        /\ ~Finished(t) /\ t.phase = "recv" /\ session' = session /\ next' = next
        /\ \E r \in {[path |-> Item(t).path,
                      ok |-> inbox # <<>> /\ ~(Item(t).w.k = "bad" /\ p = "B")]} :
             /\ Ends(p, k, r, tasks[p])
             /\ Note(r, inbox # <<>> /\ Head(inbox) # r.path)
  BY DEF Receive
<1>2. /\ k \in Path /\ t \in TaskSet /\ PhaseFits(t) /\ IsTasks(tasks[p])
      /\ t.queue # <<>> /\ Item(t).path \in Path
  BY <1>1, TaskFacts
<1>3. PICK r \in ResultSet, wrong \in BOOLEAN : Ends(p, k, r, tasks[p]) /\ Note(r, wrong)
  BY <1>1, <1>2 DEF ResultSet
<1>4. /\ \A x \in Parties : Quiet(x)
      /\ seen' \in SeenSet
  BY <1>3, NoteFacts DEF SeenSet
<1>5. Forked(t) + Uses(Head(t.queue)) = t.fork
  BY <1>1, <1>2 DEF Forked, Uses, PhaseFits, TaskSet
<1>6. \A j \in DOMAIN tasks[p] : Kept(tasks[p][j], tasks[p][j])
  BY DEF Kept
<1> HIDE DEF t
<1>7. t = tasks[p][k]
  BY DEF t
<1> QED
  BY <1>1, <1>2, <1>3, <1>4, <1>5, <1>6, <1>7, EndsProceeds

\* The lanes of an operation, and their tasks.
LEMMA LaneFacts ==
  ASSUME TypeOK, NEW t \in TaskSet, t.queue # <<>>, NEW it \in ItemSet, it = Head(t.queue),
         NEW n, n = Lanes(it.w), NEW c \in LaneKeys(it.path, n)
  PROVE  /\ n \in Nat /\ c \in Path /\ Last(c) \in 1 .. n /\ c = Append(it.path, Last(c))
         /\ LaneTask(t, it, Last(c), n) \in TaskSet /\ PhaseFits(LaneTask(t, it, Last(c), n))
         /\ LaneTask(t, it, Last(c), n).chan =
              IF Single THEN t.chan ELSE Append(Append(t.chan, t.fork), Last(c) - 1)
         /\ LaneTask(t, it, Last(c), n).queue = LaneQueue(Works(it.path, it.w.subs), Last(c), n)
         /\ LaneTask(t, it, Last(c), n).fork = 0 /\ LaneTask(t, it, Last(c), n).phase = "run"
<1>1. /\ it.path \in Path /\ it.w \in Work /\ it.w.subs \in Seq(Work) /\ it.w.k \in Kinds
      /\ t.chan \in Path /\ t.fork \in Nat
  BY WorkAssumption DEF ItemSet, Kinds, TaskSet
<1>2. n \in Nat
  <2>1. session.limit \in Int /\ Len(it.w.subs) \in Nat
    <3>1. session \in Sessions
      BY DEF TypeOK
    <3>2. Len(it.w.subs) \in Nat
      <4>1. PICK subs \in Seq(Work) : subs = it.w.subs
        BY <1>1
      <4> QED
        BY <4>1
    <3> QED
      BY <3>1, <3>2, SessionsAssumption, Zenon
  <2>2. ConcurrencyLimit \in Nat
    BY <2>1 DEF ConcurrencyLimit
  <2> QED
    BY <2>1, <2>2 DEF Lanes, MapLanes
<1>3. PICK l \in 1 .. n : c = Append(it.path, l)
  BY DEF LaneKeys
<1>4. l \in Nat /\ n \in Nat \ {0}
  BY <1>2
<1>5. c \in Path /\ Last(c) = l
  <2>1. PICK a \in Seq(Nat), b \in Nat : a = it.path /\ b = l
    BY <1>1, <1>4 DEF Path
  <2>2. PICK d : d = Append(a, b)
    OBVIOUS
  <2>3. d \in Seq(Nat) /\ Len(d) = Len(a) + 1 /\ d[Len(a) + 1] = b
    BY <2>2
  <2>4. d \in Path /\ Last(d) = b
    BY <2>3 DEF Last, Path
  <2> QED
    BY <1>3, <2>1, <2>2, <2>4
<1>6. LaneQueue(Works(it.path, it.w.subs), l, n) \in Seq(ItemSet)
  <2>1. Works(it.path, it.w.subs) \in Seq(ItemSet)
    BY <1>1, WorksItems
  <2> QED
    BY <1>4, <2>1, LaneItems
<1> DEFINE q == LaneQueue(Works(it.path, it.w.subs), l, n)
           chan == IF Single THEN t.chan ELSE Append(Append(t.chan, t.fork), l - 1)
<1>7. LaneTask(t, it, l, n) = NewTask(chan, it.w.k, q)
  <2>1. CASE Single
    BY <2>1 DEF LaneTask
  <2>2. CASE ~Single
    <3>1. LaneIds(t, n)[l] = Append(Append(t.chan, t.fork), l - 1)
      BY <1>4, <2>2 DEF LaneIds, Child
    <3> QED
      BY <2>2, <3>1 DEF LaneTask
  <2> QED
    BY <2>1, <2>2
<1>8. chan \in Path
  <2>1. Append(t.chan, t.fork) \in Path
    BY <1>1, PrefixAppend
  <2>2. l - 1 \in Nat
    BY <1>4
  <2>3. Append(Append(t.chan, t.fork), l - 1) \in Path
    BY <2>1, <2>2, PrefixAppend
  <2> QED
    BY <1>1, <2>3
<1>9. q \in Seq(ItemSet)
  BY <1>6
<1> HIDE DEF q, chan
<1>10. /\ NewTask(chan, it.w.k, q) \in TaskSet /\ PhaseFits(NewTask(chan, it.w.k, q))
       /\ NewTask(chan, it.w.k, q).chan = chan /\ NewTask(chan, it.w.k, q).queue = q
       /\ NewTask(chan, it.w.k, q).fork = 0 /\ NewTask(chan, it.w.k, q).phase = "run"
  BY <1>1, <1>8, <1>9 DEF NewTask, TaskSet, PhaseFits
<1>11. q = LaneQueue(Works(it.path, it.w.subs), l, n)
  BY DEF q
<1>12. chan = IF Single THEN t.chan ELSE Append(Append(t.chan, t.fork), l - 1)
  BY DEF chan
<1> QED
  BY <1>2, <1>3, <1>5, <1>7, <1>10, <1>11, <1>12

\* An operation is forked.
LEMMA ForkedStep ==
  ASSUME TypeOK, NEW p \in Parties, NEW k \in DOMAIN tasks[p], Fork(p, k)
  PROVE  TypeOK' /\ StepOf(p) /\ Spawned(tasks[p], tasks'[p], k)
<1> DEFINE t == tasks[p][k]
           it == Item(t)
           n == Lanes(it.w)
           keys == LaneKeys(it.path, n)
           u == Waiting(t)
           Ls == LaneTasks(t, it, n)
           U == Over(One(k, u), Over(Ls, tasks[p]))
<1>1. /\ Forks(t) /\ session' = session /\ next' = next /\ seen' = seen
      /\ tasks' = [tasks EXCEPT ![p] = U]
  BY DEF Fork
<1>2. /\ k \in Path /\ t \in TaskSet /\ PhaseFits(t) /\ IsTasks(tasks[p])
      /\ t.queue # <<>> /\ it \in ItemSet /\ it = Head(t.queue)
      /\ t.phase = "run" /\ it.w.k \in Ops
  BY <1>1, TaskFacts DEF Forks, Item
<1>3. u \in TaskSet /\ PhaseFits(u)
  <2>1. NextFork(t) \in Nat /\ (~Single => NextFork(t) > 0)
    BY <1>2 DEF NextFork, TaskSet
  <2> DEFINE f == NextFork(t)
  <2>2. u = [t EXCEPT !.fork = f, !.phase = "wait"]
    BY DEF Waiting
  <2> HIDE DEF f
  <2>3. f \in Nat /\ (~Single => f > 0)
    BY <2>1 DEF f
  <2>4. u \in TaskSet /\ u.phase = "wait" /\ u.queue = t.queue /\ u.fork = f
    BY <1>2, <2>2, <2>3 DEF TaskSet
  <2> QED
    BY <1>2, <2>3, <2>4 DEF PhaseFits
<1>4. \A c \in keys : c \in Path /\ Ls[c] \in TaskSet /\ PhaseFits(Ls[c])
  <2> SUFFICES ASSUME NEW c \in keys
               PROVE  c \in Path /\ LaneTask(t, it, Last(c), n) \in TaskSet
                        /\ PhaseFits(LaneTask(t, it, Last(c), n))
    BY DEF LaneTasks
  <2> HIDE DEF t, it
  <2> QED
    BY <1>2, LaneFacts
<1>5. /\ DOMAIN U = DOMAIN tasks[p] \cup keys /\ U[k] = u
      /\ \A c \in keys \ {k} : U[c] = Ls[c]
      /\ \A j \in DOMAIN U \ (keys \cup {k}) : U[j] = tasks[p][j]
  <2> HIDE DEF t, it, n, keys, u
  <2>1. DOMAIN Over(Ls, tasks[p]) = keys \cup DOMAIN tasks[p]
    BY DEF Over, LaneTasks, keys
  <2>2. /\ \A c \in keys : Over(Ls, tasks[p])[c] = Ls[c]
        /\ \A j \in DOMAIN tasks[p] \ keys : Over(Ls, tasks[p])[j] = tasks[p][j]
    BY DEF Over, LaneTasks, keys
  <2> DEFINE V == Over(Ls, tasks[p])
  <2> HIDE DEF V
  <2>3. DOMAIN Over(One(k, u), V) = {k} \cup DOMAIN V /\ Over(One(k, u), V)[k] = u
        /\ \A j \in DOMAIN V \ {k} : Over(One(k, u), V)[j] = V[j]
    BY DEF Over, One
  <2> QED
    BY <2>1, <2>2, <2>3 DEF V
<1>6. U = [j \in DOMAIN U |-> U[j]]
  BY DEF Over
<1>7. \A c \in keys \ {k} : U[c] = LaneTask(t, it, Last(c), n)
  BY <1>5 DEF LaneTasks
<1>8. Quiet(p) /\ \A q \in Parties : Quiet(q)
  BY <1>1 DEF Quiet, Sent, Refused
<1> HIDE DEF U, Ls, u
<1>9. IsTasks(U)
  <2>1. DOMAIN U \subseteq Path
    BY <1>2, <1>4, <1>5 DEF IsTasks
  <2>2. ASSUME NEW j \in DOMAIN U PROVE U[j] \in TaskSet /\ PhaseFits(U[j])
    <3> HIDE DEF keys, t
    <3>1. CASE j = k
      BY <1>3, <1>5, <3>1
    <3>2. CASE j \in keys \ {k}
      BY <1>4, <1>5, <3>2
    <3>3. CASE j \notin keys \cup {k}
      BY <1>2, <1>5, <3>3 DEF IsTasks
    <3> QED
      BY <3>1, <3>2, <3>3
  <2> QED
    BY <1>6, <2>1, <2>2 DEF IsTasks
<1>10. /\ tasks'[p] = U /\ \A x \in Parties \ {p} : tasks'[x] = tasks[x]
       /\ tasks' = [x \in Parties |-> tasks'[x]]
  BY <1>1 DEF TypeOK
<1>11. TypeOK'
  <2>1. \A x \in Parties : IsTasks(tasks'[x])
    BY <1>9, <1>10 DEF TypeOK
  <2>2. next' \in [Parties -> Nat] /\ seen' \in SeenSet
    BY <1>1 DEF TypeOK, SeenSet
  <2> QED
    BY <1>1, <1>10, <2>1, <2>2, TypeStep
<1>12. Spawned(tasks[p], U, k)
  <2>1. AtWork(tasks[p], k)
    BY <1>2 DEF AtWork
  <2>2. \A c \in keys \ {k} : U[c] = LaneOf(t, Last(c))
    BY <1>2, <1>7 DEF LaneOf
  <2>3. it = Head(tasks[p][k].queue)
    BY <1>2
  <2>4. U[k] = [t EXCEPT !.fork = NextFork(t), !.phase = "wait"]
    BY <1>5 DEF u, Waiting
  <2> QED
    BY <1>2, <1>5, <2>1, <2>2, <2>3, <2>4 DEF Spawned
<1> QED
  BY <1>1, <1>8, <1>10, <1>11, <1>12 DEF StepOf, ForkStep

\* One party's tasks are changed.
LEMMA OnlyTasks ==
  ASSUME TypeOK, NEW p \in Parties, NEW U, tasks' = [tasks EXCEPT ![p] = U], IsTasks(U),
         session' = session, next' \in [Parties -> Nat], seen' \in SeenSet
  PROVE  TypeOK' /\ tasks'[p] = U /\ \A q \in Parties \ {p} : tasks'[q] = tasks[q]
<1>1. /\ tasks'[p] = U /\ \A x \in Parties \ {p} : tasks'[x] = tasks[x]
      /\ tasks' = [x \in Parties |-> tasks'[x]]
  BY DEF TypeOK
<1>2. \A x \in Parties : IsTasks(tasks'[x])
  BY <1>1 DEF TypeOK
<1> QED
  BY <1>1, <1>2, TypeStep

\* What an observer notes of a refused operation.
LEMMA RefusalNoted ==
  ASSUME TypeOK, NEW p \in Parties, NEW s \in Path,
         seen' = [seen EXCEPT !.trouble = TRUE, !.refused = @ \cup {<<p, s>>}]
  PROVE  /\ seen' \in SeenSet
         /\ \A x \in Parties : Sent(x)' = Sent(x)
         /\ \A x \in Parties \ {p} : Refused(x)' = Refused(x)
         /\ Refused(p)' = Refused(p) \cup {s}
<1> DEFINE E == seen.refused
           F == E \cup {<<p, s>>}
<1>1. seen \in SeenSet /\ seen' = [seen EXCEPT !.trouble = TRUE, !.refused = F]
  BY DEF TypeOK, SeenSet
<1>2. F \in SUBSET (Parties \X Path)
  <2>1. E \in SUBSET (Parties \X Path)
    BY <1>1 DEF SeenSet
  <2> HIDE DEF E
  <2> QED
    BY <2>1
<1> HIDE DEF F
<1>3. seen' \in SeenSet /\ seen'.refused = F /\ seen'.sent = seen.sent
  BY <1>1, <1>2 DEF SeenSet
<1>4. \A x \in Parties : Sent(x)' = Sent(x)
  BY <1>3 DEF Sent
<1>5. \A x \in Parties : Refused(x)' = OfParty(F, x) /\ Refused(x) = OfParty(E, x)
  BY <1>3 DEF Refused
<1>6. F = E \cup {<<p, s>>}
  BY DEF F
<1> HIDE DEF E
<1>7. ASSUME NEW x \in Parties
      PROVE  /\ x = p => OfParty(F, x) = OfParty(E, x) \cup {s}
             /\ x # p => OfParty(F, x) = OfParty(E, x)
  BY <1>6, ProjectAdd
<1> QED
  BY <1>3, <1>4, <1>5, <1>7

\* An operation is refused a lane.
LEMMA ForkRefusedStep ==
  ASSUME TypeOK, NEW p \in Parties, NEW k \in DOMAIN tasks[p], ForkRefused(p, k)
  PROVE  TypeOK' /\ StepOf(p)
<1> DEFINE t == tasks[p][k]
           it == Item(t)
           f == NextFork(t)
           v == [t EXCEPT !.fork = f]
           r == [path |-> it.path, ok |-> FALSE]
           u == Finish(v, r)
<1>1. PICK New : /\ Forks(t) /\ session' = session /\ next' = next
                 /\ DOMAIN New = {}
                 /\ tasks' = [tasks EXCEPT ![p] = Over(One(k, u), Over(New, tasks[p]))]
                 /\ seen' = [seen EXCEPT !.trouble = TRUE, !.refused = @ \cup {<<p, it.path>>}]
  <2>1. Forks(t) /\ session' = session /\ next' = next
    BY DEF ForkRefused
  <2>2. PICK started \in {{}}, lanes \in {Lanes(it.w)} :
          tasks' = [tasks EXCEPT ![p] = Over(One(k, u), Over(CancelledLanes(t, it, lanes, started), tasks[p]))]
    BY DEF ForkRefused, StartedOnRefusal, ForkAfterRefusal
  <2>5. seen' = [seen EXCEPT !.trouble = TRUE, !.refused = @ \cup {<<p, it.path>>}]
    BY DEF ForkRefused
  <2> DEFINE New == CancelledLanes(t, it, lanes, started)
  <2>3. DOMAIN New = {}
    BY DEF CancelledLanes
  <2>4. tasks' = [tasks EXCEPT ![p] = Over(One(k, u), Over(New, tasks[p]))]
    BY <2>2
  <2> HIDE DEF New, u, it, t
  <2> QED
    BY <2>1, <2>3, <2>4, <2>5
<1>2. /\ k \in Path /\ t \in TaskSet /\ PhaseFits(t) /\ IsTasks(tasks[p])
      /\ t.queue # <<>> /\ it \in ItemSet /\ it = Head(t.queue) /\ it.path \in Path
      /\ t.phase = "run" /\ it.w.k \in Ops
  BY <1>1, TaskFacts DEF Forks, Item
<1>3. f \in Nat /\ (~Single => f = t.fork + 1) /\ f >= t.fork
  BY <1>2 DEF NextFork, TaskSet
<1>4. v \in TaskSet /\ v.queue = t.queue /\ v.chan = t.chan /\ v.fork = f
  <2> HIDE DEF f
  <2> QED
    BY <1>2, <1>3 DEF TaskSet
<1>5. r \in ResultSet
  BY <1>2 DEF ResultSet
<1>6. u \in TaskSet /\ PhaseFits(u) /\ Ended(u, t)
  <2> HIDE DEF v, r, f
  <2>1. /\ u \in TaskSet /\ u.queue \in {<<>>, Tail(v.queue)} /\ u.phase = "run"
        /\ u.chan = v.chan /\ u.fork = v.fork /\ PhaseFits(u)
    BY <1>2, <1>4, <1>5, FinishFacts
  <2> HIDE DEF u
  <2>2. Ended(u, t)
    <3>1. Uses(Head(t.queue)) = 1 /\ Forked(u) = f /\ Forked(t) = t.fork
      BY <1>2, <1>4, <2>1 DEF Uses, Forked
    <3> QED
      BY <1>2, <1>3, <1>4, <2>1, <3>1 DEF Ended
  <2> QED
    BY <2>1, <2>2
<1> DEFINE U == Over(One(k, u), Over(New, tasks[p]))
<1>7. /\ DOMAIN U = DOMAIN tasks[p] /\ U[k] = u
      /\ \A j \in DOMAIN tasks[p] \ {k} : U[j] = tasks[p][j]
      /\ U = [j \in DOMAIN U |-> U[j]]
  <2> HIDE DEF u
  <2> DEFINE V == Over(New, tasks[p])
  <2>1. DOMAIN V = DOMAIN tasks[p] /\ \A j \in DOMAIN tasks[p] : V[j] = tasks[p][j]
    BY <1>1 DEF Over
  <2> HIDE DEF V
  <2>2. DOMAIN Over(One(k, u), V) = {k} \cup DOMAIN V /\ Over(One(k, u), V)[k] = u
        /\ \A j \in DOMAIN V \ {k} : Over(One(k, u), V)[j] = V[j]
    BY DEF Over, One
  <2>3. U = [j \in DOMAIN U |-> U[j]]
    BY DEF Over
  <2> QED
    BY <2>1, <2>2, <2>3 DEF V
<1>8. tasks' = [tasks EXCEPT ![p] = U]
  BY <1>1
<1> HIDE DEF U, u
<1>9. IsTasks(U)
  BY <1>2, <1>6, <1>7 DEF IsTasks
<1>10. /\ seen' \in SeenSet
       /\ \A x \in Parties : Sent(x)' = Sent(x)
       /\ \A x \in Parties \ {p} : Refused(x)' = Refused(x)
       /\ Refused(p)' = Refused(p) \cup {it.path}
  <2> HIDE DEF it
  <2> QED
    BY <1>1, <1>2, RefusalNoted
<1>11. next' \in [Parties -> Nat]
  BY <1>1 DEF TypeOK
<1>12. TypeOK' /\ tasks'[p] = U /\ \A q \in Parties \ {p} : tasks'[q] = tasks[q]
  BY <1>1, <1>8, <1>9, <1>10, <1>11, OnlyTasks
<1>13. Proceeds(tasks[p], tasks'[p])
  BY <1>6, <1>7, <1>12 DEF Proceeds, Kept
<1>14. AtWork(tasks[p], k) /\ it.path = Head(tasks[p][k].queue).path /\ Ended(tasks'[p][k], tasks[p][k])
  BY <1>2, <1>6, <1>7, <1>12 DEF AtWork
<1>15. ProceedStep(p)
  BY <1>1, <1>10, <1>13, <1>14 DEF ProceedStep
<1> QED
  BY <1>1, <1>10, <1>12, <1>15 DEF StepOf, Quiet

\* Cancelling a task keeps its work.
LEMMA CancelFacts ==
  ASSUME NEW t \in TaskSet, PhaseFits(t), NEW u, u = [t EXCEPT !.cancelled = TRUE] \/ u = t
  PROVE  u \in TaskSet /\ PhaseFits(u) /\ Kept(u, t)
<1>1. u \in TaskSet
  BY DEF TaskSet
<1>2. u.queue = t.queue /\ u.phase = t.phase /\ u.chan = t.chan /\ u.fork = t.fork
  BY DEF TaskSet
<1> QED
  BY <1>1, <1>2 DEF PhaseFits, Kept

\* The lanes of an operation are joined.
LEMMA JoinStep ==
  ASSUME TypeOK, NEW p \in Parties, NEW k \in DOMAIN tasks[p], JoinLanes(p, k)
  PROVE  TypeOK' /\ StepOf(p)
<1> DEFINE t == tasks[p][k]
<1>1. ~Finished(t) /\ t.phase = "wait" /\ session' = session /\ next' = next
  BY DEF JoinLanes
<1>2. /\ k \in Path /\ t \in TaskSet /\ PhaseFits(t) /\ IsTasks(tasks[p])
      /\ t.queue # <<>> /\ Item(t) = Head(t.queue) /\ Item(t).path \in Path
  BY <1>1, TaskFacts DEF Item
<1> DEFINE lanes == Lanes(Item(t).w)
           mine == LaneKeys(Item(t).path, lanes)
           done == {c \in mine : Finished(tasks[p][c])}
           short == Item(t).w.k = "try" /\ \E c \in done : Failing(tasks[p][c])
           results == [i \in DOMAIN Item(t).w.subs |-> LaneResult(p, Item(t).path, lanes, i)]
           r == [path |-> Item(t).path, ok |-> ~short /\ \A x \in ToSet(results) : x.ok]
           wrong == ~short /\ \E i \in DOMAIN results : results[i].path # Append(Item(t).path, i)
<1>3. Ends(p, k, r, CancelRest(p, mine, done)) /\ Note(r, wrong)
  BY DEF JoinLanes
<1>4. r \in ResultSet /\ wrong \in BOOLEAN
  <2> DEFINE ok == ~short /\ \A x \in ToSet(results) : x.ok
  <2>1. ok \in BOOLEAN
    OBVIOUS
  <2> HIDE DEF ok
  <2>2. [path |-> Item(t).path, ok |-> ok] \in ResultSet
    BY <1>2, <2>1 DEF ResultSet
  <2>3. wrong \in BOOLEAN
    OBVIOUS
  <2> QED
    BY <2>2, <2>3 DEF ok
<1> HIDE DEF mine, done, r, wrong
<1> DEFINE others == CancelRest(p, mine, done)
<1>5. /\ \A x \in Parties : Quiet(x)
      /\ seen' \in SeenSet
  BY <1>3, <1>4, NoteFacts DEF SeenSet
<1>6. /\ IsTasks(others)
      /\ \A j \in DOMAIN others : j \in DOMAIN tasks[p] /\ Kept(others[j], tasks[p][j])
  <2>1. others = [j \in DOMAIN others |-> others[j]] /\ DOMAIN others = DOMAIN tasks[p] \ done
    BY DEF CancelRest
  <2>2. ASSUME NEW j \in DOMAIN tasks[p] \ done
        PROVE  others[j] \in TaskSet /\ PhaseFits(others[j]) /\ Kept(others[j], tasks[p][j])
    <3>1. tasks[p][j] \in TaskSet /\ PhaseFits(tasks[p][j])
      BY <1>2 DEF IsTasks
    <3>2. others[j] = [tasks[p][j] EXCEPT !.cancelled = TRUE] \/ others[j] = tasks[p][j]
      BY DEF CancelRest
    <3> DEFINE a == tasks[p][j]
               b == others[j]
    <3> HIDE DEF a, b
    <3>3. b \in TaskSet /\ PhaseFits(b) /\ Kept(b, a)
      <4>1. a \in TaskSet /\ PhaseFits(a)
        BY <3>1 DEF a
      <4>2. b = [a EXCEPT !.cancelled = TRUE] \/ b = a
        BY <3>2 DEF a, b
      <4> QED
        BY <4>1, <4>2, CancelFacts
    <3> QED
      BY <3>3 DEF a, b
  <2> HIDE DEF others
  <2> QED
    BY <1>2, <2>1, <2>2 DEF IsTasks
<1>7. ~Single => Forked(t) + Uses(Head(t.queue)) = t.fork
  BY <1>1, <1>2 DEF Forked, Uses, PhaseFits, TaskSet
<1>8. Ends(p, k, r, others)
  BY <1>3
<1> HIDE DEF t, others
<1>9. t = tasks[p][k]
  BY DEF t
<1> QED
  BY <1>1, <1>2, <1>4, <1>5, <1>6, <1>7, <1>8, <1>9, EndsProceeds

\* A cancelled task is dropped.
LEMMA DropStep ==
  ASSUME TypeOK, NEW p \in Parties, NEW k \in DOMAIN tasks[p], DropTask(p, k)
  PROVE  TypeOK' /\ StepOf(p)
<1> DEFINE t == tasks[p][k]
           U == [c \in DOMAIN tasks[p] \ {k} |->
                   IF t.phase = "wait" /\ Front(c) = Item(t).path
                   THEN [tasks[p][c] EXCEPT !.cancelled = TRUE] ELSE tasks[p][c]]
<1>1. tasks' = [tasks EXCEPT ![p] = U] /\ session' = session /\ next' = next /\ seen' = seen
  BY DEF DropTask
<1>2. IsTasks(tasks[p])
  BY TaskFacts
<1>3. /\ IsTasks(U)
      /\ \A j \in DOMAIN U : j \in DOMAIN tasks[p] /\ Kept(U[j], tasks[p][j])
  <2>1. U = [j \in DOMAIN U |-> U[j]] /\ DOMAIN U = DOMAIN tasks[p] \ {k}
    OBVIOUS
  <2>2. ASSUME NEW j \in DOMAIN tasks[p] \ {k}
        PROVE  U[j] \in TaskSet /\ PhaseFits(U[j]) /\ Kept(U[j], tasks[p][j])
    <3>1. tasks[p][j] \in TaskSet /\ PhaseFits(tasks[p][j])
      BY <1>2 DEF IsTasks
    <3>2. U[j] = [tasks[p][j] EXCEPT !.cancelled = TRUE] \/ U[j] = tasks[p][j]
      OBVIOUS
    <3> DEFINE a == tasks[p][j]
               b == U[j]
    <3> HIDE DEF a, b
    <3>3. b \in TaskSet /\ PhaseFits(b) /\ Kept(b, a)
      <4>1. a \in TaskSet /\ PhaseFits(a)
        BY <3>1 DEF a
      <4>2. b = [a EXCEPT !.cancelled = TRUE] \/ b = a
        BY <3>2 DEF a, b
      <4> QED
        BY <4>1, <4>2, CancelFacts
    <3> QED
      BY <3>3 DEF a, b
  <2> HIDE DEF U
  <2> QED
    BY <1>2, <2>1, <2>2 DEF IsTasks
<1> HIDE DEF U
<1>4. next' \in [Parties -> Nat] /\ seen' \in SeenSet
  BY <1>1 DEF TypeOK, SeenSet
<1>5. TypeOK' /\ tasks'[p] = U /\ \A q \in Parties \ {p} : tasks'[q] = tasks[q]
  BY <1>1, <1>3, <1>4, OnlyTasks
<1>6. \A q \in Parties : Quiet(q)
  BY <1>1 DEF Quiet, Sent, Refused
<1>7. Proceeds(tasks[p], tasks'[p])
  BY <1>3, <1>5 DEF Proceeds
<1> QED
  BY <1>1, <1>5, <1>6, <1>7 DEF StepOf, ProceedStep

\* What a path is extended to.
LEMMA AppendIs ==
  ASSUME NEW s \in Path, NEW d \in Path, NEW b \in Nat, Len(d) = Len(s) + 1,
         \A i \in 1 .. Len(s) : d[i] = s[i], d[Len(s) + 1] = b
  PROVE  Append(s, b) = d
<1> DEFINE e == Append(s, b)
<1>1. Len(s) \in Nat /\ e \in Path /\ Len(e) = Len(s) + 1
  BY DEF Path
<1>2. (\A i \in 1 .. Len(s) : e[i] = s[i]) /\ e[Len(s) + 1] = b
  BY DEF Path
<1> HIDE DEF e
<1>3. \A i \in 1 .. Len(e) : e[i] = d[i]
  BY <1>1, <1>2
<1>4. e = d
  BY <1>1, <1>3, SamePath
<1> QED
  BY <1>4 DEF e

\* One index and another make a path of two.
LEMMA PathOfTwo ==
  ASSUME NEW a \in Nat, NEW b \in Nat
  PROVE  Append(<<a>>, b) = <<a, b>>
<1> DEFINE s == <<a>>
           d == <<a, b>>
<1>1. s \in Path /\ Len(s) = 1 /\ s[1] = a
  BY DEF Path
<1>2. d \in Path /\ Len(d) = 2 /\ d[1] = a /\ d[2] = b
  BY DEF Path
<1>3. PICK x \in Path : x = s
  BY <1>1
<1>4. PICK y \in Path : y = d
  BY <1>2
<1>5. Len(x) = 1 /\ x[1] = a /\ Len(y) = 2 /\ y[1] = a /\ y[2] = b
  BY <1>1, <1>2, <1>3, <1>4
<1>6. Len(y) = Len(x) + 1 /\ (\A i \in 1 .. Len(x) : y[i] = x[i]) /\ y[Len(x) + 1] = b
  BY <1>5
<1>7. Append(x, b) = y
  BY <1>6, AppendIs
<1> QED
  BY <1>3, <1>4, <1>7

\* The task of a new context.
LEMMA RootFacts ==
  ASSUME TypeOK, NEW n \in Nat, n < Len(session.roots)
  PROVE  /\ RootTask(n) \in TaskSet /\ PhaseFits(RootTask(n)) /\ <<n + 1>> \in Path
         /\ RootTask(n).chan = <<0, n>> /\ RootTask(n).fork = 0 /\ RootTask(n).phase = "run"
         /\ RootTask(n).queue = RootQueue(n + 1)
         /\ \A m \in DOMAIN RootQueue(n + 1) : m \in Nat /\ RootQueue(n + 1)[m].path = RootItem(n + 1, m)
<1> USE DEF RootItem
<1>1. session.roots \in Seq(Seq(Work))
  <2>1. session \in Sessions
    BY DEF TypeOK
  <2> QED
    BY <2>1, SessionsAssumption
<1>2. session.roots[n + 1] \in Seq(Work) /\ <<n + 1>> \in Path
  BY <1>1 DEF Path
<1> DEFINE subs == session.roots[n + 1]
           q == Works(<<n + 1>>, subs)
<1>3. /\ q \in Seq(ItemSet) /\ Len(q) = Len(subs)
      /\ \A i \in 1 .. Len(subs) : q[i] = [path |-> Append(<<n + 1>>, i), w |-> subs[i]]
  <2> HIDE DEF subs
  <2>1. subs \in Seq(Work)
    BY <1>2 DEF subs
  <2> QED
    BY <1>2, <2>1, WorksItems
<1>4. \A m \in DOMAIN q : m \in Nat /\ q[m].path = <<n + 1, m>>
  <2>1. Len(subs) \in Nat /\ DOMAIN q = 1 .. Len(subs)
    BY <1>2, <1>3
  <2>2. \A m \in Nat : Append(<<n + 1>>, m) = <<n + 1, m>>
    BY PathOfTwo
  <2> HIDE DEF q, subs
  <2> QED
    BY <1>3, <2>1, <2>2
<1>5. RootQueue(n + 1) = q
  BY DEF RootQueue
<1>6. RootTask(n) = NewTask(<<0, n>>, "root", q)
  <2>1. Append(<<0>>, n) = <<0, n>>
    BY PathOfTwo
  <2> QED
    BY <1>5, <2>1 DEF RootTask, Child, DefaultId
<1> HIDE DEF q
<1>7. <<0, n>> \in Path /\ "root" \in Kinds
  BY DEF Path, Kinds
<1> DEFINE x == <<0, n>>
           u == NewTask(x, "root", q)
<1>8. u \in TaskSet /\ PhaseFits(u) /\ u.chan = x /\ u.fork = 0 /\ u.phase = "run" /\ u.queue = q
  <2>1. x \in Path
    BY <1>7
  <2> HIDE DEF x
  <2> QED
    BY <1>3, <1>7, <2>1 DEF NewTask, TaskSet, PhaseFits
<1> QED
  BY <1>2, <1>4, <1>5, <1>6, <1>8

\* A new context, or one that could not be opened.
LEMMA ContextStep ==
  ASSUME TypeOK, NEW p \in Parties, NewContext(p)
  PROVE  TypeOK' /\ StepOf(p)
<1> DEFINE n == next[p]
           U == Over(One(<<n + 1>>, RootTask(n)), tasks[p])
<1>1. /\ n < Len(session.roots) /\ next' = [next EXCEPT ![p] = n + 1] /\ session' = session
      /\ \/ tasks' = [tasks EXCEPT ![p] = U] /\ seen' = seen
         \/ tasks' = tasks /\ seen' = [seen EXCEPT !.trouble = TRUE]
  BY DEF NewContext, RootTask
<1>2. n \in Nat /\ next' \in [Parties -> Nat] /\ next' = [next EXCEPT ![p] = @ + 1]
  BY <1>1 DEF TypeOK
<1>3. seen' \in SeenSet /\ seen'.sent = seen.sent /\ seen'.refused = seen.refused
  BY <1>1 DEF TypeOK, SeenSet
<1>4. \A q \in Parties : Quiet(q)
  BY <1>3 DEF Quiet, Sent, Refused
<1>5. CASE tasks' = tasks
  <2>1. TypeOK'
    <3>1. tasks' = [q \in Parties |-> tasks'[q]] /\ \A q \in Parties : IsTasks(tasks'[q])
      BY <1>5 DEF TypeOK
    <3> QED
      BY <1>1, <1>2, <1>3, <3>1, TypeStep
  <2> QED
    BY <1>1, <1>2, <1>4, <1>5, <2>1 DEF StepOf, RootStep
<1>6. CASE tasks' = [tasks EXCEPT ![p] = U]
  <2>1. RootTask(n) \in TaskSet /\ PhaseFits(RootTask(n)) /\ <<n + 1>> \in Path
    <3> HIDE DEF n
    <3> QED
      BY <1>1, <1>2, RootFacts
  <2>2. IsTasks(tasks[p])
    BY DEF TypeOK
  <2> DEFINE r == <<n + 1>>
             u == RootTask(n)
             T == tasks[p]
             V == Over(One(r, u), T)
  <2>3. /\ DOMAIN V = {r} \cup DOMAIN T /\ V[r] = u
        /\ \A j \in DOMAIN T \ {r} : V[j] = T[j]
        /\ V = [j \in DOMAIN V |-> V[j]]
    <3> HIDE DEF r, u, T
    <3> QED
      BY DEF Over, One
  <2>4. IsTasks(V)
    <3>1. r \in Path /\ u \in TaskSet /\ PhaseFits(u) /\ IsTasks(T)
      BY <2>1, <2>2
    <3> HIDE DEF r, u, V, T
    <3> QED
      BY <2>3, <3>1 DEF IsTasks
  <2>5. U = V
    OBVIOUS
  <2> HIDE DEF U, V
  <2>6. TypeOK' /\ tasks'[p] = U /\ \A q \in Parties \ {p} : tasks'[q] = tasks[q]
    BY <1>1, <1>2, <1>3, <1>6, <2>4, <2>5, OnlyTasks
  <2>7. /\ DOMAIN tasks'[p] = DOMAIN tasks[p] \cup {<<next[p] + 1>>}
        /\ tasks'[p][<<next[p] + 1>>] = RootTask(next[p])
        /\ \A j \in DOMAIN tasks[p] \ {<<next[p] + 1>>} : tasks'[p][j] = tasks[p][j]
    BY <2>3, <2>5, <2>6
  <2> QED
    BY <1>1, <1>2, <1>4, <2>6, <2>7 DEF StepOf, RootStep
<1> QED
  BY <1>1, <1>5, <1>6

\* The empty path of tasks.
LEMMA NoTasks == IsTasks(<<>>) /\ DOMAIN <<>> = {}
BY DEF IsTasks

\* Initially there is at most the context of a single channel.
LEMMA InitFacts ==
  ASSUME Init
  PROVE  /\ TypeOK
         /\ \A p \in Parties : Sent(p) = {} /\ Refused(p) = {}
         /\ ~Single => \A p \in Parties : tasks[p] = <<>> /\ next[p] = 0
         /\ Single => \A p \in Parties :
              /\ next[p] = 1 /\ DOMAIN tasks[p] = {<<1>>}
              /\ tasks[p][<<1>>].queue = RootQueue(1) /\ tasks[p][<<1>>].phase = "run"
<1>1. session \in Sessions
  BY DEF Init
<1>2. seen \in SeenSet /\ seen.sent = {} /\ seen.refused = {}
  BY DEF Init, SeenInit, SeenSet
<1>3. next \in [Parties -> Nat] /\ \A p \in Parties : next[p] = IF Single THEN 1 ELSE 0
  BY DEF Init
<1>4. \A p \in Parties : Sent(p) = {} /\ Refused(p) = {}
  BY <1>2 DEF Sent, Refused, OfParty
<1> DEFINE u == NewTask(DefaultId, "root", RootQueue(1))
           T == IF Single THEN One(<<1>>, u) ELSE <<>>
<1>5. tasks = [p \in Parties |-> T] /\ \A p \in Parties : tasks[p] = T
  BY DEF Init
<1>6. Single => u \in TaskSet /\ PhaseFits(u) /\ u.queue = RootQueue(1) /\ u.phase = "run"
  <2> SUFFICES ASSUME Single
               PROVE  u \in TaskSet /\ PhaseFits(u) /\ u.queue = RootQueue(1) /\ u.phase = "run"
    OBVIOUS
  <2>1. Len(session.roots) = 1 /\ session.roots \in Seq(Seq(Work))
    BY <1>1, SessionsAssumption DEF Single
  <2>2. session.roots[1] \in Seq(Work) /\ <<1>> \in Path
    BY <2>1 DEF Path
  <2> DEFINE q == RootQueue(1)
  <2>3. q \in Seq(ItemSet)
    BY <2>2, WorksItems DEF RootQueue
  <2> HIDE DEF q
  <2>4. DefaultId \in Path /\ "root" \in Kinds
    BY DEF DefaultId, Path, Kinds
  <2> DEFINE v == NewTask(DefaultId, "root", q)
  <2>5. v \in TaskSet /\ PhaseFits(v) /\ v.queue = q /\ v.phase = "run"
    BY <2>3, <2>4 DEF NewTask, TaskSet, PhaseFits
  <2> QED
    BY <2>5 DEF q
<1>7. IsTasks(T) /\ (Single => DOMAIN T = {<<1>>} /\ T[<<1>>] = u) /\ (~Single => T = <<>>)
  <2>1. CASE ~Single
    BY <2>1, NoTasks
  <2>2. CASE Single
    <3>1. T = One(<<1>>, u) /\ <<1>> \in Path
      BY <2>2 DEF Path
    <3>2. u \in TaskSet /\ PhaseFits(u)
      BY <1>6, <2>2
    <3> DEFINE k == <<1>>
    <3> HIDE DEF u, k
    <3>3. DOMAIN One(k, u) = {k} /\ One(k, u)[k] = u /\ One(k, u) = [x \in {k} |-> One(k, u)[x]]
      BY DEF One
    <3>4. IsTasks(One(k, u))
      BY <3>1, <3>2, <3>3 DEF IsTasks, k
    <3> QED
      BY <2>2, <3>1, <3>3, <3>4 DEF k
  <2> QED
    BY <2>1, <2>2
<1>8. TypeOK
  <2> HIDE DEF T
  <2> QED
    BY <1>1, <1>2, <1>3, <1>5, <1>7 DEF TypeOK, SeenSet
<1> HIDE DEF T, u
<1> QED
  BY <1>3, <1>4, <1>5, <1>6, <1>7, <1>8

\* Every step keeps the types, and is the step of one party.
LEMMA NextStep ==
  ASSUME TypeOK, Next
  PROVE  TypeOK' /\ \E p \in Parties : StepOf(p)
<1>1. PICK p \in Parties : NewContext(p) \/ \E k \in DOMAIN tasks[p] : Step(p, k) \/ ForkRefused(p, k)
  BY DEF Next
<1>2. CASE NewContext(p)
  BY <1>2, ContextStep
<1>3. ASSUME NEW k \in DOMAIN tasks[p], Step(p, k) \/ ForkRefused(p, k)
      PROVE  TypeOK' /\ StepOf(p)
  <2>1. CASE Send(p, k)
    BY <2>1, SendStep
  <2>2. CASE Receive(p, k)
    BY <2>2, ReceiveStep
  <2>3. CASE Fork(p, k)
    BY <2>3, ForkedStep
  <2>4. CASE JoinLanes(p, k)
    BY <2>4, JoinStep
  <2>5. CASE DropTask(p, k)
    BY <2>5, DropStep
  <2>6. CASE ForkRefused(p, k)
    BY <2>6, ForkRefusedStep
  <2> QED
    BY <1>3, <2>1, <2>2, <2>3, <2>4, <2>5, <2>6 DEF Step
<1> QED
  BY <1>1, <1>2, <1>3

-----------------------------------------------------------------------------
(***************************************************************************)
(* The invariant of the work, and what it says of refused operations.      *)
(***************************************************************************)
\* What was sent and refused are paths.
LEMMA SentPaths ==
  ASSUME TypeOK, NEW p \in Parties
  PROVE  Sent(p) \in SUBSET Path /\ Refused(p) \in SUBSET Path
<1>1. seen.sent \in SUBSET (Parties \X Path) /\ seen.refused \in SUBSET (Parties \X Path)
  BY DEF TypeOK
<1>2. ASSUME NEW E \in SUBSET (Parties \X Path) PROVE OfParty(E, p) \in SUBSET Path
  BY DEF OfParty
<1> QED
  BY <1>1, <1>2 DEF Sent, Refused

\* A task that proceeds has less work.
LEMMA ProceedShrinks ==
  ASSUME NEW t \in TaskSet, NEW u \in TaskSet
  PROVE  /\ Kept(u, t) => Shrunk(u, t, 0)
         /\ Ended(u, t) => Shrunk(u, t, 1)
<1>1. t.queue \in Seq(ItemSet) /\ DOMAIN t.queue = 1 .. Len(t.queue) /\ Len(t.queue) \in Nat
  BY QueuePaths
<1>2. ASSUME Kept(u, t) PROVE Shrunk(u, t, 0)
  <2>1. \A i \in DOMAIN t.queue : i + 0 = i
    BY <1>1
  <2> QED
    BY <1>2, <2>1 DEF Kept, Shrunk, Started
<1>3. ASSUME Ended(u, t) PROVE Shrunk(u, t, 1)
  <2>1. CASE u.queue = <<>>
    BY <2>1 DEF Shrunk
  <2>2. CASE u.queue = Tail(t.queue)
    <3>1. t.queue # <<>>
      BY <1>3 DEF Ended
    <3>2. /\ DOMAIN Tail(t.queue) = 1 .. Len(t.queue) - 1
          /\ \A i \in 1 .. Len(t.queue) - 1 : Tail(t.queue)[i] = t.queue[i + 1]
      BY <1>1, <3>1
    <3>3. \A i \in 1 .. Len(t.queue) - 1 : i + 1 \in DOMAIN t.queue /\ i + 1 # 1
      BY <1>1
    <3> QED
      BY <2>2, <3>2, <3>3 DEF Shrunk, Started
  <2> QED
    BY <1>3, <2>1, <2>2 DEF Ended
<1> QED
  BY <1>2, <1>3

\* Tasks proceed.
LEMMA ProceedLanes ==
  ASSUME TypeOK, NEW p \in Parties, IsTasks(tasks[p])', ProceedStep(p),
         LanesInv(tasks[p], Sent(p), Refused(p), next[p])
  PROVE  LanesInv(tasks'[p], Sent(p)', Refused(p)', next'[p])
<1>1. PICK T : T = tasks[p] /\ IsTasks(T)
  BY DEF TypeOK
<1>2. PICK U : U = tasks'[p] /\ DOMAIN U \subseteq Path /\ \A k \in DOMAIN U : U[k] \in TaskSet
  BY DEF IsTasks
<1>3. PICK S, F, n : S = Sent(p) /\ F = Refused(p) /\ n = next[p]
  OBVIOUS
<1>4. LanesInv(T, S, F, n) /\ next'[p] = n /\ Proceeds(T, U)
  BY <1>1, <1>2, <1>3 DEF ProceedStep
<1>5. ASSUME NEW j \in DOMAIN U
      PROVE  /\ j \in DOMAIN T /\ DOMAIN U[j].queue \subseteq Nat \ {0}
             /\ \E d \in Nat : Shrunk(U[j], T[j], d) /\ (Ended(U[j], T[j]) => d > 0)
  <2>1. j \in DOMAIN T /\ U[j] \in TaskSet /\ T[j] \in TaskSet
    BY <1>1, <1>2, <1>4 DEF Proceeds, IsTasks
  <2>2. DOMAIN U[j].queue \subseteq Nat \ {0}
    BY <2>1, QueuePaths
  <2>3. CASE Ended(U[j], T[j])
    <3>1. Shrunk(U[j], T[j], 1)
      BY <2>1, <2>3, ProceedShrinks
    <3> QED
      BY <2>1, <2>2, <3>1
  <2>4. CASE ~Ended(U[j], T[j])
    <3>1. Kept(U[j], T[j])
      BY <1>4, <2>4 DEF Proceeds
    <3>2. Shrunk(U[j], T[j], 0)
      BY <2>1, <3>1, ProceedShrinks
    <3> QED
      BY <2>1, <2>2, <2>4, <3>2
  <2> QED
    BY <2>3, <2>4
<1>6. ASSUME NEW k \in DOMAIN T, AtWork(T, k)
      PROVE  1 \in DOMAIN T[k].queue /\ ~Started(T[k], 1) /\ Head(T[k].queue) = T[k].queue[1]
  <2>1. T[k].queue \in Seq(ItemSet)
    BY <1>1, QueuePaths DEF IsTasks
  <2> QED
    BY <1>6, <2>1 DEF AtWork, Started
<1>7. CASE Quiet(p)
  <2>1. LanesInv(U, S, F, n)
    BY <1>1, <1>4, <1>5, ShrinkLanes
  <2> QED
    BY <1>2, <1>3, <1>4, <1>7, <2>1 DEF Quiet
<1>8. ASSUME NEW k \in DOMAIN T, AtWork(T, k), Refused(p)' = F, Sent(p)' = S \cup {Head(T[k].queue).path}
      PROVE  LanesInv(U, Sent(p)', Refused(p)', n)
  <2>1. PICK R : R = S \cup {T[k].queue[1].path}
    OBVIOUS
  <2>2. LanesInv(T, R, F, n)
    BY <1>1, <1>4, <1>6, <1>8, <2>1, SendLanes
  <2>3. LanesInv(U, R, F, n)
    BY <1>1, <1>5, <2>2, ShrinkLanes
  <2> QED
    BY <1>6, <1>8, <2>1, <2>3
<1>9. ASSUME NEW k \in DOMAIN T, AtWork(T, k), Sent(p)' = S, Refused(p)' = F \cup {Head(T[k].queue).path},
             k \in DOMAIN U => Ended(U[k], T[k])
      PROVE  LanesInv(U, Sent(p)', Refused(p)', n)
  <2>1. PICK q : q = T[k].queue[1].path
    OBVIOUS
  <2>2. \A j \in DOMAIN U : j \in DOMAIN T /\ DOMAIN U[j].queue \subseteq Nat \ {0}
                              /\ \E d \in Nat : Shrunk(U[j], T[j], d) /\ (j = k => d > 0)
    BY <1>5, <1>9
  <2>3. LanesInv(U, S, F \cup {q}, n)
    BY <1>1, <1>4, <1>6, <1>9, <2>1, <2>2, RefuseLanes
  <2> QED
    BY <1>6, <1>9, <2>1, <2>3
<1>10. \/ Quiet(p)
       \/ /\ Refused(p)' = F
          /\ \E k \in DOMAIN T : AtWork(T, k) /\ Sent(p)' = S \cup {Head(T[k].queue).path}
       \/ /\ Sent(p)' = S
          /\ \E k \in DOMAIN T :
               /\ AtWork(T, k) /\ Refused(p)' = F \cup {Head(T[k].queue).path}
               /\ k \in DOMAIN U => Ended(U[k], T[k])
  BY <1>1, <1>2, <1>3 DEF ProceedStep
<1> QED
  BY <1>2, <1>4, <1>7, <1>8, <1>9, <1>10

\* The place of a lane's m-th item among the operation's.
Place(l, m, n) == l + (m - 1) * n

\* A place is one lane's, once.
LEMMA PlaceApart ==
  ASSUME NEW n \in Nat \ {0}, NEW l \in 1 .. n, NEW h \in 1 .. n, NEW m \in Nat \ {0}, NEW o \in Nat \ {0},
         Place(l, m, n) = Place(h, o, n)
  PROVE  l = h /\ m = o
<1>1. m - 1 \in Nat /\ o - 1 \in Nat
  OBVIOUS
<1>2. PICK i \in Nat, j \in Nat : i = m - 1 /\ j = o - 1
  BY <1>1
<1>3. l + i * n = h + j * n
  BY <1>2 DEF Place
<1>4. l = h /\ i = j
  BY <1>3, LaneApart
<1> QED
  BY <1>2, <1>4

\* u is the task of lane c of an operation at q, over n lanes: its items are
\* the operation's, at the lane's places.
LaneIs(t, q, n, c, u) ==
  /\ n \in Nat \ {0} /\ c \in Path /\ Last(c) \in 1 .. n /\ c = Append(q, Last(c)) /\ q \in Path
  /\ u \in TaskSet /\ u.phase = "run" /\ u.fork = 0
  /\ u.chan = IF Single THEN t.chan ELSE Append(Append(t.chan, t.fork), Last(c) - 1)
  /\ u.queue = LaneQueue(Works(q, Head(t.queue).w.subs), Last(c), n)
  /\ DOMAIN u.queue \subseteq Nat \ {0}
  /\ \A m \in DOMAIN u.queue :
       /\ Place(Last(c), m, n) \in 1 .. Len(Head(t.queue).w.subs) /\ Place(Last(c), m, n) \in Nat
       /\ u.queue[m].path = Append(q, Place(Last(c), m, n))
       /\ u.queue[m].w = Head(t.queue).w.subs[Place(Last(c), m, n)]

\* The tasks of the lanes are that.
LEMMA LaneWork ==
  ASSUME TypeOK, NEW t \in TaskSet, t.queue # <<>>,
         NEW c \in LaneKeys(Head(t.queue).path, Lanes(Head(t.queue).w))
  PROVE  LaneIs(t, Head(t.queue).path, Lanes(Head(t.queue).w), c, LaneOf(t, Last(c)))
<1>0. PICK n, q, l, u : n = Lanes(Head(t.queue).w) /\ q = Head(t.queue).path /\ l = Last(c) /\ u = LaneOf(t, l)
  OBVIOUS
<1>1. PICK it \in ItemSet : it = Head(t.queue)
  BY QueuePaths
<1>3. u = LaneTask(t, it, l, n) /\ n = Lanes(it.w) /\ c \in LaneKeys(it.path, n)
  BY <1>0, <1>1 DEF LaneOf
<1>2. PICK v : v = LaneTask(t, it, l, n)
  OBVIOUS
<1>4. /\ n \in Nat /\ c \in Path /\ l \in 1 .. n /\ c = Append(it.path, l) /\ u \in TaskSet
      /\ u.chan = (IF Single THEN t.chan ELSE Append(Append(t.chan, t.fork), l - 1))
      /\ u.queue = LaneQueue(Works(it.path, it.w.subs), l, n) /\ u.fork = 0 /\ u.phase = "run"
  <2>1. /\ n \in Nat /\ c \in Path /\ Last(c) \in 1 .. n /\ c = Append(it.path, Last(c))
        /\ LaneTask(t, it, Last(c), n) \in TaskSet
    BY <1>1, <1>3, LaneFacts
  <2>2. /\ LaneTask(t, it, Last(c), n).chan =
             IF Single THEN t.chan ELSE Append(Append(t.chan, t.fork), Last(c) - 1)
        /\ LaneTask(t, it, Last(c), n).queue = LaneQueue(Works(it.path, it.w.subs), Last(c), n)
        /\ LaneTask(t, it, Last(c), n).fork = 0 /\ LaneTask(t, it, Last(c), n).phase = "run"
    BY <1>1, <1>3, LaneFacts
  <2>3. v = LaneTask(t, it, Last(c), n) /\ u = v
    BY <1>0, <1>2, <1>3
  <2>4. /\ n \in Nat /\ c \in Path /\ l \in 1 .. n /\ c = Append(it.path, l) /\ u \in TaskSet
    BY <1>0, <2>1, <2>3
  <2>5. /\ u.chan = (IF Single THEN t.chan ELSE Append(Append(t.chan, t.fork), l - 1))
        /\ u.queue = LaneQueue(Works(it.path, it.w.subs), l, n) /\ u.fork = 0 /\ u.phase = "run"
    BY <1>0, <2>2, <2>3
  <2> QED
    BY <2>4, <2>5
<1>5. n \in Nat \ {0}
  BY <1>4
<1>6. it.path \in Path /\ it.w.subs \in Seq(Work)
  BY WorkAssumption DEF ItemSet
<1>7. PICK items : items = Works(it.path, it.w.subs)
  OBVIOUS
<1>8. /\ items \in Seq(ItemSet) /\ Len(items) = Len(it.w.subs)
      /\ \A i \in 1 .. Len(it.w.subs) : items[i] = [path |-> Append(it.path, i), w |-> it.w.subs[i]]
  BY <1>6, <1>7, WorksItems
<1>9. \A j \in 1 .. Len(LaneQueue(items, l, n)) :
        Place(l, j, n) \in 1 .. Len(items) /\ LaneQueue(items, l, n)[j] = items[Place(l, j, n)]
  BY <1>4, <1>5, <1>8, LaneItems DEF Place
<1>10. /\ DOMAIN u.queue = 1 .. Len(u.queue) /\ Len(u.queue) \in Nat
       /\ DOMAIN u.queue \subseteq Nat \ {0}
  BY <1>4, QueuePaths
<1>11. ASSUME NEW m \in DOMAIN u.queue
       PROVE  /\ Place(l, m, n) \in 1 .. Len(it.w.subs) /\ Place(l, m, n) \in Nat
              /\ u.queue[m].path = Append(it.path, Place(l, m, n))
              /\ u.queue[m].w = it.w.subs[Place(l, m, n)]
  <2>2. PICK i : i = Place(l, m, n)
    OBVIOUS
  <2>3. i \in 1 .. Len(it.w.subs) /\ u.queue[m] = items[i]
    BY <1>4, <1>7, <1>8, <1>9, <1>10, <2>2
  <2>4. items[i].path = Append(it.path, i) /\ items[i].w = it.w.subs[i]
    <3>1. items[i] = [path |-> Append(it.path, i), w |-> it.w.subs[i]]
      BY <1>8, <2>3
    <3> QED
      BY <3>1
  <2> QED
    BY <2>2, <2>3, <2>4
<1> QED
  <2>1. LaneIs(t, q, n, c, u)
    BY <1>0, <1>1, <1>4, <1>5, <1>6, <1>10, <1>11 DEF LaneIs
  <2> QED
    BY <1>0, <2>1

\* An operation is forked.
LEMMA SpawnLanes ==
  ASSUME TypeOK, NEW p \in Parties, ForkStep(p),
         LanesInv(tasks[p], Sent(p), Refused(p), next[p])
  PROVE  LanesInv(tasks'[p], Sent(p)', Refused(p)', next'[p])
<1>1. PICK T : T = tasks[p] /\ IsTasks(T)
  BY DEF TypeOK
<1>2. PICK U : U = tasks'[p]
  OBVIOUS
<1>3. PICK S \in SUBSET Path, F \in SUBSET Path, n \in Nat : S = Sent(p) /\ F = Refused(p) /\ n = next[p]
  BY SentPaths DEF TypeOK
<1>4. PICK k \in DOMAIN T : Spawned(T, U, k)
  BY <1>1, <1>2 DEF ForkStep
<1>5. PICK t \in TaskSet : t = T[k]
  BY <1>1 DEF IsTasks
<1>6. PICK it, q, l : it = Head(t.queue) /\ q = it.path /\ l = Lanes(it.w)
  OBVIOUS
<1>7. PICK keys : keys = LaneKeys(q, l)
  OBVIOUS
<1>8. /\ AtWork(T, k) /\ DOMAIN U = DOMAIN T \cup keys
      /\ U[k] = [t EXCEPT !.fork = NextFork(t), !.phase = "wait"]
      /\ \A c \in keys \ {k} : U[c] = LaneOf(t, Last(c))
      /\ \A j \in DOMAIN U \ (keys \cup {k}) : U[j] = T[j]
  BY <1>4, <1>5, <1>6, <1>7 DEF Spawned
<1>9. /\ 1 \in DOMAIN T[k].queue /\ ~Started(T[k], 1) /\ q = T[k].queue[1].path /\ q \in Path
      /\ t.queue # <<>>
  <2>1. T[k].queue \in Seq(ItemSet) /\ T[k].queue # <<>> /\ T[k].phase = "run"
    BY <1>5, <1>8, QueuePaths DEF AtWork
  <2>2. 1 \in DOMAIN T[k].queue /\ Head(T[k].queue) = T[k].queue[1]
    BY <2>1
  <2> QED
    BY <1>5, <1>6, <2>1, <2>2, QueuePaths DEF Started
<1>10. U[k].queue = t.queue /\ U[k].phase = "wait"
  BY <1>8 DEF TaskSet
<1>11. PICK New : New = keys \ {k}
  OBVIOUS
<1>12. \A j \in DOMAIN U \ New :
         /\ j \in DOMAIN T /\ U[j].queue = T[j].queue
         /\ \A i \in DOMAIN T[j].queue : Started(T[j], i) => Started(U[j], i)
  <2> SUFFICES ASSUME NEW j \in DOMAIN U \ New
               PROVE  /\ j \in DOMAIN T /\ U[j].queue = T[j].queue
                      /\ \A i \in DOMAIN T[j].queue : Started(T[j], i) => Started(U[j], i)
    OBVIOUS
  <2>1. CASE j = k
    BY <1>5, <1>10, <2>1 DEF Started
  <2>2. CASE j # k
    <3>1. j \in DOMAIN T /\ U[j] = T[j]
      BY <1>8, <1>11, <2>2
    <3> QED
      BY <3>1
  <2> QED
    BY <2>1, <2>2
<1>13. ASSUME NEW j \in DOMAIN U \cap New
       PROVE  /\ l \in Nat \ {0} /\ j = Append(q, Last(j)) /\ Last(j) \in 1 .. l
              /\ \A m \in DOMAIN U[j].queue :
                   /\ m \in Nat \ {0} /\ Place(Last(j), m, l) \in Nat
                   /\ U[j].queue[m].path = Append(q, Place(Last(j), m, l))
  <2>1. U[j] = LaneOf(t, Last(j)) /\ j \in LaneKeys(Head(t.queue).path, Lanes(Head(t.queue).w))
    BY <1>6, <1>7, <1>8, <1>11
  <2>2. LaneIs(t, Head(t.queue).path, Lanes(Head(t.queue).w), j, LaneOf(t, Last(j)))
    BY <1>9, <2>1, LaneWork
  <2>3. LaneIs(t, q, l, j, U[j])
    BY <1>6, <2>1, <2>2
  <2> QED
    BY <2>3 DEF LaneIs
<1>14. ASSUME NEW i \in DOMAIN U \cap New, NEW j \in DOMAIN U \cap New,
              NEW m \in DOMAIN U[i].queue, NEW o \in DOMAIN U[j].queue,
              U[i].queue[m].path = U[j].queue[o].path
       PROVE  i = j /\ m = o
  <2>2. PICK a, b : a = Last(i) /\ b = Last(j)
    OBVIOUS
  <2>3. /\ l \in Nat \ {0} /\ i = Append(q, a) /\ a \in 1 .. l
        /\ m \in Nat \ {0} /\ Place(a, m, l) \in Nat /\ U[i].queue[m].path = Append(q, Place(a, m, l))
    BY <1>13, <2>2
  <2>4. /\ j = Append(q, b) /\ b \in 1 .. l
        /\ o \in Nat \ {0} /\ Place(b, o, l) \in Nat /\ U[j].queue[o].path = Append(q, Place(b, o, l))
    BY <1>13, <2>2
  <2>5. Append(q, Place(a, m, l)) = Append(q, Place(b, o, l))
    BY <1>14, <2>3, <2>4
  <2> QED
    <3>1. PICK x \in Nat, y \in Nat : x = Place(a, m, l) /\ y = Place(b, o, l)
      BY <2>3, <2>4
    <3>2. q \in Path /\ Append(q, x) = Append(q, y)
      BY <1>9, <2>5, <3>1
    <3>3. x = y
      BY <3>2, PathSplit
    <3>4. a = b /\ m = o
      BY <2>3, <2>4, <3>1, <3>3, PlaceApart
    <3> QED
      BY <2>3, <2>4, <3>4
<1>15. k \notin New /\ (k \in DOMAIN U => Started(U[k], 1)) /\ LanesInv(T, S, F, n)
  BY <1>1, <1>3, <1>10, <1>11 DEF Started
<1>18. \A j \in DOMAIN U \cap New : \A m \in DOMAIN U[j].queue :
         \E i \in Nat : U[j].queue[m].path = Append(q, i)
  BY <1>13
<1>19. HandsOver(T, U, New, k, q)
  BY <1>12, <1>14, <1>15, <1>18 DEF HandsOver
<1>16. LanesInv(U, S, F, n)
  BY <1>1, <1>9, <1>15, <1>19, ForkLanes
<1>17. Sent(p)' = S /\ Refused(p)' = F /\ next'[p] = n
  BY <1>3 DEF ForkStep, Quiet
<1> QED
  BY <1>2, <1>16, <1>17

\* A new context, or its number only.
LEMMA ContextLanes ==
  ASSUME TypeOK, NEW p \in Parties, RootStep(p),
         LanesInv(tasks[p], Sent(p), Refused(p), next[p])
  PROVE  LanesInv(tasks'[p], Sent(p)', Refused(p)', next'[p])
<1>1. PICK T : T = tasks[p] /\ IsTasks(T)
  BY DEF TypeOK
<1>2. PICK U : U = tasks'[p]
  OBVIOUS
<1>3. PICK S \in SUBSET Path, F \in SUBSET Path, n \in Nat : S = Sent(p) /\ F = Refused(p) /\ n = next[p]
  BY SentPaths DEF TypeOK
<1>4. Sent(p)' = S /\ Refused(p)' = F /\ next'[p] = n + 1 /\ LanesInv(T, S, F, n) /\ n < Len(session.roots)
  BY <1>1, <1>3 DEF RootStep, Quiet, TypeOK
<1>5. CASE U = T
  <2>1. ASSUME NEW x \in Path, Numbered(x, n) PROVE Numbered(x, n + 1)
    <3>1. x[1] \in Nat
      BY <2>1 DEF Path, Numbered
    <3> QED
      BY <2>1, <3>1 DEF Numbered
  <2>2. ASSUME NEW j \in DOMAIN T, NEW m \in DOMAIN T[j].queue PROVE Numbered(T[j].queue[m].path, n + 1)
    <3>1. T[j].queue[m].path \in Path /\ Numbered(T[j].queue[m].path, n)
      BY <1>1, <1>4, QueuePaths DEF IsTasks, LanesInv, AllNumbered
    <3> QED
      BY <2>1, <3>1
  <2>3. AllNumbered(T, S, F, n + 1)
    BY <1>4, <2>1, <2>2 DEF LanesInv, AllNumbered
  <2> QED
    BY <1>2, <1>4, <1>5, <2>3 DEF LanesInv
<1>6. ASSUME U # T PROVE LanesInv(U, S, F, n + 1)
  <2>1. PICK r : r = <<n + 1>>
    OBVIOUS
  <2>2. U[r] = RootTask(n) /\ \A j \in DOMAIN U \ {r} : j \in DOMAIN T /\ U[j] = T[j]
    BY <1>1, <1>2, <1>3, <1>6, <2>1 DEF RootStep
  <2>3. /\ U[r].phase = "run" /\ U[r].queue \in Seq(ItemSet)
        /\ \A m \in DOMAIN U[r].queue : U[r].queue[m].path = RootItem(n + 1, m)
    <3>1. /\ U[r].phase = "run" /\ U[r] \in TaskSet /\ U[r].queue = RootQueue(n + 1)
          /\ \A m \in DOMAIN RootQueue(n + 1) : RootQueue(n + 1)[m].path = RootItem(n + 1, m)
      BY <1>4, <2>2, RootFacts
    <3> QED
      BY <3>1, QueuePaths
  <2>4. n + 1 \in Nat /\ r \in DOMAIN U
    BY <1>1, <1>2, <1>3, <1>6, <2>1 DEF RootStep
  <2> QED
    <3>1. Adds(T, U, r, n + 1)
      BY <2>2, <2>3 DEF Adds
    <3> QED
      BY <1>1, <1>4, <3>1, RootLanes
<1> QED
  BY <1>2, <1>4, <1>5, <1>6

\* The inductive invariant of the work of both parties.
WorkInv == TypeOK /\ \A p \in Parties : LanesInv(tasks[p], Sent(p), Refused(p), next[p])

\* Initially it holds.
LEMMA WorkInit == Init => WorkInv
<1> SUFFICES ASSUME Init, NEW p \in Parties
             PROVE  TypeOK /\ LanesInv(tasks[p], Sent(p), Refused(p), next[p])
  BY InitFacts DEF WorkInv
<1>1. TypeOK /\ Sent(p) = {} /\ Refused(p) = {}
  BY InitFacts
<1>2. PICK E : E = <<>> /\ IsTasks(E) /\ DOMAIN E = {}
  BY NoTasks
<1>3. LanesInv(E, {}, {}, 0)
  BY <1>2 DEF LanesInv, Apart, Fresh, NothingSent, AllNumbered
<1>4. CASE ~Single
  BY <1>1, <1>2, <1>3, <1>4, InitFacts
<1>5. CASE Single
  <2>1. PICK U : U = tasks[p]
    OBVIOUS
  <2>2. PICK r : r = <<1>>
    OBVIOUS
  <2>3. next[p] = 1 /\ DOMAIN U = {r} /\ U[r].queue = RootQueue(1) /\ U[r].phase = "run"
    BY <1>5, <2>1, <2>2, InitFacts
  <2>4. Len(session.roots) = 1
    BY <1>1, <1>5, SessionsAssumption DEF TypeOK, Single
  <2>5. PICK z \in Nat : z = 0
    OBVIOUS
  <2>6. PICK y \in Nat : y = z + 1
    OBVIOUS
  <2>7. y = 1 /\ z < Len(session.roots)
    BY <2>4, <2>5, <2>6
  <2>8. RootTask(z).queue \in Seq(ItemSet) /\ RootTask(z).queue = RootQueue(z + 1)
        /\ \A m \in DOMAIN RootQueue(z + 1) : RootQueue(z + 1)[m].path = RootItem(z + 1, m)
    BY <1>1, <2>7, RootFacts DEF TaskSet
  <2>9. U[r].queue \in Seq(ItemSet) /\ \A m \in DOMAIN U[r].queue : U[r].queue[m].path = RootItem(z + 1, m)
    BY <2>3, <2>6, <2>7, <2>8
  <2>10. LanesInv(U, {}, {}, z + 1)
    <3>1. LanesInv(E, {}, {}, z) /\ {} \in SUBSET Path /\ \A j \in DOMAIN U \ {r} : j \in DOMAIN E /\ U[j] = E[j]
      BY <1>3, <2>3, <2>5
    <3> QED
      <4>1. Adds(E, U, r, z + 1)
        BY <2>3, <2>9, <3>1 DEF Adds
      <4> QED
        BY <1>2, <3>1, <4>1, RootLanes
  <2> QED
    BY <1>1, <2>1, <2>3, <2>6, <2>7, <2>10
<1> QED
  BY <1>1, <1>4, <1>5

\* Every step keeps it.
LEMMA WorkNext == WorkInv /\ [Next]_vars => WorkInv'
<1> SUFFICES ASSUME WorkInv, [Next]_vars PROVE WorkInv'
  OBVIOUS
<1>1. CASE Next
  <2>1. TypeOK' /\ \E p \in Parties : StepOf(p)
    BY <1>1, NextStep DEF WorkInv
  <2>2. PICK p \in Parties : StepOf(p)
    BY <2>1
  <2>3. LanesInv(tasks'[p], Sent(p)', Refused(p)', next'[p])
    <3>1. LanesInv(tasks[p], Sent(p), Refused(p), next[p]) /\ TypeOK
      BY DEF WorkInv
    <3>2. CASE ProceedStep(p)
      <4>1. IsTasks(tasks[p])'
        BY <2>1 DEF TypeOK
      <4> QED
        BY <3>1, <3>2, <4>1, ProceedLanes
    <3>3. CASE ForkStep(p)
      BY <3>1, <3>3, SpawnLanes
    <3>4. CASE RootStep(p)
      BY <3>1, <3>4, ContextLanes
    <3> QED
      BY <2>2, <3>2, <3>3, <3>4 DEF StepOf
  <2>4. ASSUME NEW q \in Parties \ {p}
        PROVE  LanesInv(tasks'[q], Sent(q)', Refused(q)', next'[q])
    <3>1. tasks'[q] = tasks[q] /\ Sent(q)' = Sent(q) /\ Refused(q)' = Refused(q)
      BY <2>2 DEF StepOf, Quiet
    <3>2. next'[q] = next[q]
      BY <2>2 DEF StepOf, ProceedStep, ForkStep, RootStep, WorkInv, TypeOK
    <3> QED
      BY <3>1, <3>2 DEF WorkInv
  <2>5. \A q \in Parties : LanesInv(tasks'[q], Sent(q)', Refused(q)', next'[q])
    BY <2>3, <2>4
  <2> QED
    BY <2>1, <2>5 DEF WorkInv, LanesInv, Apart, Fresh, NothingSent, AllNumbered
<1>2. CASE UNCHANGED vars
  BY <1>2 DEF vars, WorkInv, TypeOK, IsTasks, PhaseFits, Single, LanesInv, Apart, Fresh, NothingSent,
              AllNumbered, Sent, Refused
<1> QED
  BY <1>1, <1>2

\* Always, an operation whose lanes could not all be opened (Context::map,
\* join, try_join) has sent nothing: no work below it ever started.
THEOREM RefusedSendNothing == Spec => []AllLanesOrNone
<1>1. WorkInv => AllLanesOrNone
  <2> SUFFICES ASSUME WorkInv, NEW f \in seen.refused, NEW s \in seen.sent, s[1] = f[1]
               PROVE  ~IsStrictPrefix(f[2], s[2])
    BY DEF AllLanesOrNone
  <2>1. f \in Parties \X Path /\ s \in Parties \X Path
    BY DEF WorkInv, TypeOK
  <2>2. f[1] \in Parties /\ f[2] \in Refused(f[1]) /\ s[2] \in Sent(f[1])
    BY <2>1 DEF Refused, Sent, OfParty
  <2>3. NothingSent(Sent(f[1]), Refused(f[1]))
    BY <2>2 DEF WorkInv, LanesInv
  <2> QED
    BY <2>2, <2>3 DEF NothingSent
<1> QED
  BY <1>1, WorkInit, WorkNext, PTL DEF Spec

-----------------------------------------------------------------------------
(***************************************************************************)
(* Channels.  A program fixes the channel of every piece of work, and the  *)
(* index its operation forks with: that of a context's work is the         *)
(* context's, that of a lane's work is its operation's, with the index of  *)
(* the operation and the lane.  The plan of a session is the least set of  *)
(* work, with channel and index, that these two rules make; what an item   *)
(* of the plan is follows from its path, and from its channel and index.   *)
(***************************************************************************)
EntrySet == [path : Path, chan : Path, index : Nat, w : Work]

\* The operations before the j-th item of q.
OpsIn(q, j) == {h \in 1 .. j - 1 : q[h].w.k \in Ops}
OpsBefore(q, j) == Cardinality(OpsIn(q, j))

\* The j-th item of q, done on channel c.
Entry(q, j, c) == [path |-> q[j].path, chan |-> c, index |-> OpsBefore(q, j), w |-> q[j].w]

\* Lanes, for a session with several channels.
LimitOf(s) == IF s.limit < 1 THEN 1 ELSE s.limit
LanesOf(s, w) ==
  IF s.mode = "single" THEN 1
  ELSE IF w.k = "map" /\ ~(Len(w.subs) < LimitOf(s)) THEN LimitOf(s) ELSE Len(w.subs)

\* e is work of the caller of context r, or of lane l of the operation d.
RootChan(r) == <<0, r - 1>>
RootItems(s, r) == Works(<<r>>, s.roots[r])
IsRoot(s, e) ==
  \E r \in DOMAIN s.roots : \E j \in DOMAIN RootItems(s, r) : e = Entry(RootItems(s, r), j, RootChan(r))

LaneChan(d, l) == Append(Append(d.chan, d.index), l - 1)
ItemsOfLane(s, d, l) == LaneQueue(Works(d.path, d.w.subs), l, LanesOf(s, d.w))
IsLane(s, d, e) ==
  /\ d.w.k \in Ops
  /\ \E l \in 1 .. LanesOf(s, d.w) :
       \E j \in DOMAIN ItemsOfLane(s, d, l) : e = Entry(ItemsOfLane(s, d, l), j, LaneChan(d, l))

Closed(s, R) ==
  \A e \in EntrySet : (IsRoot(s, e) \/ \E d \in R : IsLane(s, d, e)) => e \in R

Plan(s) == {e \in EntrySet : \A R \in SUBSET EntrySet : Closed(s, R) => e \in R}

\* The plan follows the rules, is within every set that does, and holds
\* nothing else.
LEMMA PlanLeast ==
  ASSUME NEW s
  PROVE  /\ Plan(s) \subseteq EntrySet /\ Closed(s, Plan(s))
         /\ \A R \in SUBSET EntrySet : Closed(s, R) => Plan(s) \subseteq R
         /\ \A e \in Plan(s) : IsRoot(s, e) \/ \E d \in Plan(s) : IsLane(s, d, e)
<1>1. Plan(s) \subseteq EntrySet /\ \A R \in SUBSET EntrySet : Closed(s, R) => Plan(s) \subseteq R
  BY DEF Plan
<1>2. Closed(s, Plan(s))
  <2> SUFFICES ASSUME NEW e \in EntrySet, IsRoot(s, e) \/ \E d \in Plan(s) : IsLane(s, d, e),
                      NEW R \in SUBSET EntrySet, Closed(s, R)
               PROVE  e \in R
    BY DEF Closed, Plan
  <2>1. Plan(s) \subseteq R
    BY <1>1
  <2> QED
    BY <2>1 DEF Closed
<1>3. PICK R : R = {e \in Plan(s) : IsRoot(s, e) \/ \E d \in Plan(s) : IsLane(s, d, e)}
  OBVIOUS
<1>4. Closed(s, R)
  <2> SUFFICES ASSUME NEW e \in EntrySet, IsRoot(s, e) \/ \E d \in R : IsLane(s, d, e)
               PROVE  e \in R
    BY DEF Closed
  <2>1. IsRoot(s, e) \/ \E d \in Plan(s) : IsLane(s, d, e)
    BY <1>3
  <2>2. e \in Plan(s)
    BY <1>2, <2>1 DEF Closed
  <2> QED
    BY <1>3, <2>1, <2>2
<1>5. Plan(s) \subseteq R
  BY <1>1, <1>3, <1>4
<1> QED
  BY <1>1, <1>2, <1>3, <1>5

\* Operations are counted.
LEMMA OpsCount ==
  ASSUME NEW q \in Seq(ItemSet), NEW m \in Nat \ {0}
  PROVE  /\ OpsBefore(q, 1) = 0 /\ OpsBefore(q, m) \in Nat /\ IsFiniteSet(OpsIn(q, m))
         /\ OpsBefore(q, m + 1) = OpsBefore(q, m) + Uses(q[m])
<1>1. ASSUME NEW j \in Nat \ {0} PROVE IsFiniteSet(OpsIn(q, j)) /\ OpsBefore(q, j) \in Nat
  <2>1. IsFiniteSet(1 .. j - 1)
    BY FS_Interval
  <2>2. OpsIn(q, j) \in SUBSET (1 .. j - 1)
    BY DEF OpsIn
  <2>3. IsFiniteSet(OpsIn(q, j))
    BY <2>1, <2>2, FS_Subset
  <2> QED
    BY <2>3, FS_CardinalityType DEF OpsBefore
<1>2. OpsBefore(q, 1) = 0
  <2>1. OpsIn(q, 1) = {}
    BY DEF OpsIn
  <2> QED
    BY <2>1, FS_EmptySet DEF OpsBefore
<1>3. CASE q[m].w.k \in Ops
  <2>1. PICK D : D = OpsIn(q, m)
    OBVIOUS
  <2>2. OpsIn(q, m + 1) = D \cup {m} /\ m \notin D
    BY <1>3, <2>1 DEF OpsIn
  <2>3. Cardinality(D \cup {m}) = Cardinality(D) + 1
    BY <1>1, <2>1, <2>2, FS_AddElement
  <2> QED
    BY <1>1, <1>2, <1>3, <2>1, <2>2, <2>3 DEF OpsBefore, Uses
<1>4. CASE q[m].w.k \notin Ops
  <2>1. OpsIn(q, m + 1) = OpsIn(q, m)
    BY <1>4 DEF OpsIn
  <2> QED
    BY <1>1, <1>2, <1>4, <2>1 DEF OpsBefore, Uses
<1> QED
  BY <1>3, <1>4

\* Two operations of a queue have different numbers of operations before.
LEMMA OpsApart ==
  ASSUME NEW q \in Seq(ItemSet), NEW i \in Nat \ {0}, NEW j \in Nat \ {0},
         q[i].w.k \in Ops, q[j].w.k \in Ops, OpsBefore(q, i) = OpsBefore(q, j)
  PROVE  i = j
<1>1. ASSUME NEW g \in Nat \ {0}, NEW h \in Nat \ {0}, g < h, q[g].w.k \in Ops
      PROVE  OpsBefore(q, g) < OpsBefore(q, h)
  <2>1. OpsBefore(q, g + 1) = OpsBefore(q, g) + 1 /\ OpsBefore(q, g) \in Nat
    BY <1>1, OpsCount DEF Uses
  <2>2. IsFiniteSet(OpsIn(q, h)) /\ OpsBefore(q, h) \in Nat
    BY <1>1, OpsCount
  <2>3. \A x \in 1 .. (g + 1) - 1 : x \in 1 .. h - 1
    BY <1>1
  <2>4. OpsIn(q, g + 1) \in SUBSET OpsIn(q, h)
    BY <2>3 DEF OpsIn
  <2>5. Cardinality(OpsIn(q, g + 1)) <= Cardinality(OpsIn(q, h))
    BY <2>2, <2>4, FS_Subset
  <2>6. OpsBefore(q, g + 1) <= OpsBefore(q, h)
    BY <2>5 DEF OpsBefore
  <2> QED
    BY <2>1, <2>2, <2>6
<1>2. OpsBefore(q, i) \in Nat
  BY OpsCount
<1> QED
  BY <1>1, <1>2

\* The work of the caller of a context.
LEMMA RootList ==
  ASSUME NEW s \in Sessions, NEW r \in DOMAIN s.roots
  PROVE  /\ r \in Nat \ {0} /\ r - 1 \in Nat /\ RootChan(r) \in Path /\ RootItems(s, r) \in Seq(ItemSet)
         /\ \A j \in DOMAIN RootItems(s, r) :
              j \in Nat \ {0} /\ RootItems(s, r)[j].path = RootItem(r, j)
<1>1. s.roots \in Seq(Seq(Work))
  BY SessionsAssumption
<1>2. r \in Nat \ {0} /\ r - 1 \in Nat /\ s.roots[r] \in Seq(Work)
  BY <1>1
<1>3. PICK subs \in Seq(Work) : subs = s.roots[r]
  BY <1>2
<1>4. <<r>> \in Path /\ RootChan(r) \in Path
  BY <1>2 DEF Path, RootChan
<1>5. PICK q : q = Works(<<r>>, subs)
  OBVIOUS
<1>6. /\ q \in Seq(ItemSet) /\ Len(q) = Len(subs)
      /\ \A i \in 1 .. Len(subs) : q[i] = [path |-> Append(<<r>>, i), w |-> subs[i]]
  BY <1>4, <1>5, WorksItems
<1>7. \A j \in DOMAIN q : j \in Nat \ {0} /\ q[j].path = RootItem(r, j)
  <2>1. Len(subs) \in Nat /\ DOMAIN q = 1 .. Len(subs)
    BY <1>6
  <2>2. \A m \in Nat : Append(<<r>>, m) = <<r, m>>
    BY <1>2, PathOfTwo
  <2> QED
    BY <1>6, <2>1, <2>2 DEF RootItem
<1>8. RootItems(s, r) = q
  BY <1>3, <1>5 DEF RootItems
<1> QED
  BY <1>2, <1>4, <1>6, <1>7, <1>8

\* The work of a lane.
LaneHas(d, n, l, q) ==
  /\ n \in Nat \ {0} /\ l \in 1 .. n /\ l - 1 \in Nat /\ LaneChan(d, l) \in Path /\ q \in Seq(ItemSet)
  /\ \A j \in DOMAIN q : /\ j \in Nat \ {0} /\ Place(l, j, n) \in Nat
                         /\ q[j].path = Append(d.path, Place(l, j, n))

\* A lane of a planned operation has its share of the work, in order.
LEMMA LaneList ==
  ASSUME NEW s \in Sessions, NEW d \in EntrySet, NEW l \in 1 .. LanesOf(s, d.w)
  PROVE  LaneHas(d, LanesOf(s, d.w), l, ItemsOfLane(s, d, l))
<1>1. d.path \in Path /\ d.chan \in Path /\ d.index \in Nat /\ d.w.subs \in Seq(Work)
  BY WorkAssumption DEF EntrySet
<1>2. LimitOf(s) \in Nat \ {0}
  <2>1. s.limit \in Int
    BY SessionsAssumption
  <2> QED
    BY <2>1 DEF LimitOf
<1>3. LanesOf(s, d.w) \in Nat \ {0}
  <2>1. Len(d.w.subs) \in Nat
    BY <1>1
  <2>2. LanesOf(s, d.w) \in Nat
    BY <1>2, <2>1 DEF LanesOf
  <2> QED
    BY <2>2
<1>4. PICK n \in Nat \ {0} : n = LanesOf(s, d.w)
  BY <1>3
<1>5. l \in 1 .. n /\ l - 1 \in Nat
  BY <1>4
<1>6. LaneChan(d, l) \in Path
  BY <1>1, <1>5 DEF LaneChan, Path
<1>7. PICK items : items = Works(d.path, d.w.subs)
  OBVIOUS
<1>8. /\ items \in Seq(ItemSet) /\ Len(items) = Len(d.w.subs)
      /\ \A i \in 1 .. Len(d.w.subs) : items[i] = [path |-> Append(d.path, i), w |-> d.w.subs[i]]
  BY <1>1, <1>7, WorksItems
<1>9. PICK q : q = LaneQueue(items, l, n)
  OBVIOUS
<1>10. /\ q \in Seq(ItemSet)
       /\ \A j \in 1 .. Len(q) : Place(l, j, n) \in 1 .. Len(items) /\ q[j] = items[Place(l, j, n)]
  BY <1>5, <1>8, <1>9, LaneItems DEF Place
<1>11. ASSUME NEW j \in DOMAIN q
       PROVE  /\ j \in Nat \ {0} /\ Place(l, j, n) \in Nat
              /\ q[j].path = Append(d.path, Place(l, j, n))
  <2>1. PICK i : i = Place(l, j, n)
    OBVIOUS
  <2>2. j \in 1 .. Len(q) /\ Len(q) \in Nat /\ Len(items) \in Nat
    BY <1>8, <1>10
  <2>3. i \in 1 .. Len(d.w.subs) /\ q[j] = items[i]
    BY <1>8, <1>10, <2>1, <2>2
  <2>4. items[i] = [path |-> Append(d.path, i), w |-> d.w.subs[i]]
    BY <1>8, <2>3
  <2>5. q[j].path = Append(d.path, i)
    BY <2>3, <2>4
  <2> QED
    BY <1>8, <2>1, <2>2, <2>3, <2>5
<1>12. LaneHas(d, n, l, q)
  BY <1>5, <1>6, <1>10, <1>11 DEF LaneHas
<1> QED
  BY <1>4, <1>7, <1>9, <1>12 DEF ItemsOfLane

\* An item of a queue is one.
LEMMA EntryIs ==
  ASSUME NEW q \in Seq(ItemSet), NEW j \in DOMAIN q, NEW c \in Path
  PROVE  /\ Entry(q, j, c) \in EntrySet /\ j \in Nat \ {0}
         /\ Entry(q, j, c).path = q[j].path /\ Entry(q, j, c).chan = c
         /\ Entry(q, j, c).index = OpsBefore(q, j) /\ Entry(q, j, c).w = q[j].w
<1>1. j \in Nat \ {0} /\ q[j] \in ItemSet
  OBVIOUS
<1>2. OpsBefore(q, j) \in Nat
  BY <1>1, OpsCount
<1>3. q[j].path \in Path /\ q[j].w \in Work
  BY <1>1 DEF ItemSet
<1> QED
  BY <1>1, <1>2, <1>3 DEF Entry, EntrySet

\* Where operations are, and where they fork, they are one.
SameOp(e, f) == e.w.k \in Ops /\ f.w.k \in Ops /\ e.chan = f.chan /\ e.index = f.index

\* Two items of one queue.
LEMMA QueueApart ==
  ASSUME NEW q \in Seq(ItemSet), NEW i \in DOMAIN q, NEW j \in DOMAIN q, NEW c \in Path,
         SameOp(Entry(q, i, c), Entry(q, j, c))
  PROVE  i = j
<1>1. q[i].w.k \in Ops /\ q[j].w.k \in Ops /\ OpsBefore(q, i) = OpsBefore(q, j)
  BY EntryIs DEF SameOp
<1>2. i \in Nat \ {0} /\ j \in Nat \ {0}
  BY EntryIs
<1> QED
  BY <1>1, <1>2, OpsApart

\* Two items of callers.
LEMMA RootsApart ==
  ASSUME NEW s \in Sessions, NEW e, NEW f, IsRoot(s, e), IsRoot(s, f), e.path = f.path \/ SameOp(e, f)
  PROVE  e = f
<1>0. PICK r \in DOMAIN s.roots : \E i \in DOMAIN RootItems(s, r) : e = Entry(RootItems(s, r), i, RootChan(r))
  BY DEF IsRoot
<1>1. PICK i \in DOMAIN RootItems(s, r) : e = Entry(RootItems(s, r), i, RootChan(r))
  BY <1>0
<1>8. PICK t \in DOMAIN s.roots : \E j \in DOMAIN RootItems(s, t) : f = Entry(RootItems(s, t), j, RootChan(t))
  BY DEF IsRoot
<1>2. PICK j \in DOMAIN RootItems(s, t) : f = Entry(RootItems(s, t), j, RootChan(t))
  BY <1>8
<1>3. /\ RootChan(r) \in Path /\ RootItems(s, r) \in Seq(ItemSet) /\ r \in Nat \ {0} /\ r - 1 \in Nat
      /\ RootItems(s, r)[i].path = RootItem(r, i)
  BY RootList
<1>4. /\ RootChan(t) \in Path /\ RootItems(s, t) \in Seq(ItemSet) /\ t \in Nat \ {0} /\ t - 1 \in Nat
      /\ RootItems(s, t)[j].path = RootItem(t, j)
  BY RootList
<1>5. e.path = RootItem(r, i) /\ e.chan = RootChan(r) /\ f.path = RootItem(t, j) /\ f.chan = RootChan(t)
  BY <1>1, <1>2, <1>3, <1>4, EntryIs
<1>6. CASE e.path = f.path
  <2>1. r = t /\ i = j
    BY <1>5, <1>6 DEF RootItem
  <2> QED
    BY <1>1, <1>2, <2>1
<1>7. CASE SameOp(e, f)
  <2>1. r - 1 = t - 1
    BY <1>5, <1>7 DEF SameOp, RootChan
  <2>2. r = t
    BY <1>3, <1>4, <2>1
  <2>3. i = j
    BY <1>1, <1>2, <1>3, <1>7, <2>2, QueueApart
  <2> QED
    BY <1>1, <1>2, <2>2, <2>3
<1> QED
  BY <1>6, <1>7

\* Items of the plan have a path of two or more, and so have their channels.
Long(e) == Len(e.path) >= 2 /\ Len(e.chan) >= 2

\* What an item of a lane has from its operation.
LEMMA LaneItemIs ==
  ASSUME NEW s \in Sessions, NEW d \in EntrySet, NEW e, IsLane(s, d, e)
  PROVE  \E n \in Nat \ {0}, l \in Nat \ {0} : \E q \in Seq(ItemSet) : \E j \in DOMAIN q :
           /\ d.w.k \in Ops /\ n = LanesOf(s, d.w) /\ q = ItemsOfLane(s, d, l) /\ e = Entry(q, j, LaneChan(d, l))
           /\ LaneHas(d, n, l, q) /\ e.path = Append(d.path, Place(l, j, n)) /\ e.chan = LaneChan(d, l)
<1>1. PICK l \in 1 .. LanesOf(s, d.w) :
        \E j \in DOMAIN ItemsOfLane(s, d, l) : e = Entry(ItemsOfLane(s, d, l), j, LaneChan(d, l))
  BY DEF IsLane
<1>2. PICK q : q = ItemsOfLane(s, d, l)
  OBVIOUS
<1>3. PICK n : n = LanesOf(s, d.w)
  OBVIOUS
<1>4. LaneHas(d, n, l, q)
  BY <1>1, <1>2, <1>3, LaneList
<1>5. n \in Nat \ {0} /\ l \in Nat \ {0} /\ q \in Seq(ItemSet) /\ LaneChan(d, l) \in Path
  BY <1>4 DEF LaneHas
<1>6. PICK j \in DOMAIN q : e = Entry(q, j, LaneChan(d, l))
  BY <1>1, <1>2
<1>7. e.path = q[j].path /\ e.chan = LaneChan(d, l)
  BY <1>5, <1>6, EntryIs
<1>8. e.path = Append(d.path, Place(l, j, n))
  BY <1>4, <1>7 DEF LaneHas
<1>9. d.w.k \in Ops
  BY DEF IsLane
<1> QED
  BY <1>2, <1>3, <1>4, <1>5, <1>6, <1>7, <1>8, <1>9

\* An item of a caller and one of a lane.
LEMMA RootNotLane ==
  ASSUME NEW s \in Sessions, NEW e, IsRoot(s, e), NEW d \in EntrySet, Long(d), NEW f, IsLane(s, d, f)
  PROVE  e.path # f.path /\ e.chan # f.chan
<1>1. PICK r \in DOMAIN s.roots : \E i \in DOMAIN RootItems(s, r) : e = Entry(RootItems(s, r), i, RootChan(r))
  BY DEF IsRoot
<1>2. PICK i \in DOMAIN RootItems(s, r) : e = Entry(RootItems(s, r), i, RootChan(r))
  BY <1>1
<1>3. RootChan(r) \in Path /\ RootItems(s, r) \in Seq(ItemSet) /\ RootItems(s, r)[i].path = RootItem(r, i)
  BY RootList
<1>4. e.path = RootItem(r, i) /\ e.chan = RootChan(r)
  BY <1>2, <1>3, EntryIs
<1>5. PICK n \in Nat \ {0}, l \in Nat \ {0}, q \in Seq(ItemSet) : \E j \in DOMAIN q :
        LaneHas(d, n, l, q) /\ f.path = Append(d.path, Place(l, j, n)) /\ f.chan = LaneChan(d, l)
  BY LaneItemIs
<1>6. PICK j \in DOMAIN q :
        LaneHas(d, n, l, q) /\ f.path = Append(d.path, Place(l, j, n)) /\ f.chan = LaneChan(d, l)
  BY <1>5
<1>7. PICK m \in Nat : m = Place(l, j, n)
  BY <1>6 DEF LaneHas
<1>8. d.path \in Path /\ d.chan \in Path /\ d.index \in Nat /\ l - 1 \in Nat
  BY <1>6 DEF EntrySet, LaneHas
<1>9. Len(Append(d.path, m)) = Len(d.path) + 1 /\ Len(d.path) \in Nat
  BY <1>8 DEF Path
<1>10. Len(Append(Append(d.chan, d.index), l - 1)) = Len(d.chan) + 2 /\ Len(d.chan) \in Nat
  BY <1>8 DEF Path
<1>11. Len(e.path) = 2 /\ Len(e.chan) = 2
  BY <1>4 DEF RootItem, RootChan
<1>12. Len(f.path) # 2 /\ Len(f.chan) # 2
  BY <1>6, <1>7, <1>9, <1>10 DEF Long, LaneChan
<1> QED
  BY <1>11, <1>12

\* Items of lanes that are in the same place, or operations that fork alike,
\* are of one operation; ...
LEMMA LaneParents ==
  ASSUME NEW s \in Sessions, NEW d \in EntrySet, NEW g \in EntrySet, NEW e, NEW f,
         IsLane(s, d, e), IsLane(s, g, f)
  PROVE  /\ e.path = f.path => d.path = g.path
         /\ SameOp(e, f) => SameOp(d, g)
<1>1. PICK n \in Nat \ {0}, l \in Nat \ {0}, q \in Seq(ItemSet) : \E j \in DOMAIN q :
        /\ d.w.k \in Ops /\ LaneHas(d, n, l, q)
        /\ e.path = Append(d.path, Place(l, j, n)) /\ e.chan = LaneChan(d, l)
  BY LaneItemIs
<1>2. PICK j \in DOMAIN q :
        /\ d.w.k \in Ops /\ LaneHas(d, n, l, q)
        /\ e.path = Append(d.path, Place(l, j, n)) /\ e.chan = LaneChan(d, l)
  BY <1>1
<1>3. PICK m \in Nat : m = Place(l, j, n)
  BY <1>2 DEF LaneHas
<1>4. PICK o \in Nat \ {0}, h \in Nat \ {0}, u \in Seq(ItemSet) : \E i \in DOMAIN u :
        /\ g.w.k \in Ops /\ LaneHas(g, o, h, u)
        /\ f.path = Append(g.path, Place(h, i, o)) /\ f.chan = LaneChan(g, h)
  BY LaneItemIs
<1>5. PICK i \in DOMAIN u :
        /\ g.w.k \in Ops /\ LaneHas(g, o, h, u)
        /\ f.path = Append(g.path, Place(h, i, o)) /\ f.chan = LaneChan(g, h)
  BY <1>4
<1>6. PICK p \in Nat : p = Place(h, i, o)
  BY <1>5 DEF LaneHas
<1>7. /\ d.path \in Path /\ d.chan \in Path /\ d.index \in Nat /\ l - 1 \in Nat
      /\ g.path \in Path /\ g.chan \in Path /\ g.index \in Nat /\ h - 1 \in Nat
  BY <1>2, <1>5 DEF EntrySet, LaneHas
<1>8. ASSUME e.path = f.path PROVE d.path = g.path
  <2>1. PICK a \in Path, b \in Path : a = d.path /\ b = g.path
    BY <1>7
  <2>2. Append(a, m) = Append(b, p)
    BY <1>2, <1>3, <1>5, <1>6, <1>8, <2>1
  <2>3. a = b
    BY <2>2, PathSplit
  <2> QED
    BY <2>1, <2>3
<1>9. ASSUME SameOp(e, f) PROVE SameOp(d, g)
  <2>1. PICK a \in Path, x \in Nat, y \in Nat : a = d.chan /\ x = d.index /\ y = l - 1
    BY <1>7
  <2>2. PICK b \in Path, v \in Nat, z \in Nat : b = g.chan /\ v = g.index /\ z = h - 1
    BY <1>7
  <2>3. Append(Append(a, x), y) = Append(Append(b, v), z)
    BY <1>2, <1>5, <1>9, <2>1, <2>2 DEF SameOp, LaneChan
  <2>4. Append(a, x) \in Path /\ Append(b, v) \in Path
    BY DEF Path
  <2>5. Append(a, x) = Append(b, v)
    <3>1. PICK c \in Path, w \in Path : c = Append(a, x) /\ w = Append(b, v)
      BY <2>4
    <3>2. Append(c, y) = Append(w, z)
      BY <2>3, <3>1
    <3>3. c = w
      BY <3>2, PathSplit
    <3> QED
      BY <3>1, <3>3
  <2>6. a = b /\ x = v
    BY <2>5, PathSplit
  <2> QED
    BY <1>2, <1>5, <2>1, <2>2, <2>6 DEF SameOp
<1> QED
  BY <1>8, <1>9

\* ... and two of one operation are one.
LEMMA LanesApart ==
  ASSUME NEW s \in Sessions, NEW d \in EntrySet, NEW e, NEW f, IsLane(s, d, e), IsLane(s, d, f),
         e.path = f.path \/ SameOp(e, f)
  PROVE  e = f
<1>1. PICK n \in Nat \ {0}, l \in Nat \ {0} : \E q \in Seq(ItemSet) : \E j \in DOMAIN q :
        /\ n = LanesOf(s, d.w) /\ q = ItemsOfLane(s, d, l) /\ e = Entry(q, j, LaneChan(d, l))
        /\ LaneHas(d, n, l, q) /\ e.path = Append(d.path, Place(l, j, n)) /\ e.chan = LaneChan(d, l)
  BY LaneItemIs
<1>2. PICK q \in Seq(ItemSet) : \E j \in DOMAIN q :
        /\ n = LanesOf(s, d.w) /\ q = ItemsOfLane(s, d, l) /\ e = Entry(q, j, LaneChan(d, l))
        /\ LaneHas(d, n, l, q) /\ e.path = Append(d.path, Place(l, j, n)) /\ e.chan = LaneChan(d, l)
  BY <1>1
<1>3. PICK j \in DOMAIN q :
        /\ n = LanesOf(s, d.w) /\ q = ItemsOfLane(s, d, l) /\ e = Entry(q, j, LaneChan(d, l))
        /\ LaneHas(d, n, l, q) /\ e.path = Append(d.path, Place(l, j, n)) /\ e.chan = LaneChan(d, l)
  BY <1>2
<1>4. PICK o \in Nat \ {0}, h \in Nat \ {0} : \E u \in Seq(ItemSet) : \E i \in DOMAIN u :
        /\ o = LanesOf(s, d.w) /\ u = ItemsOfLane(s, d, h) /\ f = Entry(u, i, LaneChan(d, h))
        /\ LaneHas(d, o, h, u) /\ f.path = Append(d.path, Place(h, i, o)) /\ f.chan = LaneChan(d, h)
  BY LaneItemIs
<1>5. PICK u \in Seq(ItemSet) : \E i \in DOMAIN u :
        /\ o = LanesOf(s, d.w) /\ u = ItemsOfLane(s, d, h) /\ f = Entry(u, i, LaneChan(d, h))
        /\ LaneHas(d, o, h, u) /\ f.path = Append(d.path, Place(h, i, o)) /\ f.chan = LaneChan(d, h)
  BY <1>4
<1>6. PICK i \in DOMAIN u :
        /\ o = LanesOf(s, d.w) /\ u = ItemsOfLane(s, d, h) /\ f = Entry(u, i, LaneChan(d, h))
        /\ LaneHas(d, o, h, u) /\ f.path = Append(d.path, Place(h, i, o)) /\ f.chan = LaneChan(d, h)
  BY <1>5
<1>7. PICK m \in Nat, p \in Nat : m = Place(l, j, n) /\ p = Place(h, i, o)
  BY <1>3, <1>6 DEF LaneHas
<1>8. /\ d.path \in Path /\ d.chan \in Path /\ d.index \in Nat /\ LaneChan(d, l) \in Path
      /\ l \in 1 .. n /\ h \in 1 .. n /\ n = o /\ l - 1 \in Nat /\ h - 1 \in Nat
      /\ j \in Nat \ {0} /\ i \in Nat \ {0}
  BY <1>3, <1>6 DEF EntrySet, LaneHas
<1>9. CASE e.path = f.path
  <2>1. Append(d.path, m) = Append(d.path, p)
    BY <1>3, <1>6, <1>7, <1>9
  <2>2. m = p
    BY <1>8, <2>1, PathSplit
  <2>3. l = h /\ j = i
    BY <1>7, <1>8, <2>2, PlaceApart
  <2> QED
    BY <1>3, <1>6, <2>3
<1>10. CASE SameOp(e, f)
  <2>1. Append(Append(d.chan, d.index), l - 1) = Append(Append(d.chan, d.index), h - 1)
    BY <1>3, <1>6, <1>10 DEF SameOp, LaneChan
  <2>2. Append(d.chan, d.index) \in Path
    BY <1>8 DEF Path
  <2>3. l - 1 = h - 1
    BY <1>8, <2>1, <2>2, PathSplit
  <2>4. l = h
    BY <1>8, <2>3
  <2>5. q = u
    BY <1>3, <1>6, <2>4
  <2>6. SameOp(Entry(q, j, LaneChan(d, l)), Entry(q, i, LaneChan(d, l)))
    BY <1>3, <1>6, <1>10, <2>4, <2>5
  <2>7. j = i
    BY <1>8, <2>5, <2>6, QueueApart
  <2> QED
    BY <1>3, <1>6, <2>4, <2>5, <2>7
<1> QED
  BY <1>9, <1>10

\* The items of the plan have long paths and channels.
LEMMA PlanLong ==
  ASSUME NEW s \in Sessions, NEW e \in Plan(s)
  PROVE  Long(e)
<1>1. PICK R : R = {f \in EntrySet : Long(f)}
  OBVIOUS
<1>2. ASSUME NEW f \in EntrySet, IsRoot(s, f) PROVE Long(f)
  <2>1. PICK r \in DOMAIN s.roots : \E i \in DOMAIN RootItems(s, r) : f = Entry(RootItems(s, r), i, RootChan(r))
    BY <1>2 DEF IsRoot
  <2>2. PICK i \in DOMAIN RootItems(s, r) : f = Entry(RootItems(s, r), i, RootChan(r))
    BY <2>1
  <2>3. RootChan(r) \in Path /\ RootItems(s, r) \in Seq(ItemSet) /\ RootItems(s, r)[i].path = RootItem(r, i)
    BY RootList
  <2>4. f.path = RootItem(r, i) /\ f.chan = RootChan(r)
    BY <2>2, <2>3, EntryIs
  <2>5. Len(RootItem(r, i)) = 2 /\ Len(RootChan(r)) = 2
    BY DEF RootItem, RootChan
  <2> QED
    BY <2>4, <2>5 DEF Long
<1>3. ASSUME NEW f \in EntrySet, NEW d \in R, IsLane(s, d, f) PROVE Long(f)
  <2>1. d \in EntrySet /\ Long(d)
    BY <1>1
  <2>2. PICK n \in Nat \ {0}, l \in Nat \ {0}, q \in Seq(ItemSet) : \E j \in DOMAIN q :
          LaneHas(d, n, l, q) /\ f.path = Append(d.path, Place(l, j, n)) /\ f.chan = LaneChan(d, l)
    BY <1>3, <2>1, LaneItemIs
  <2>3. PICK j \in DOMAIN q :
          LaneHas(d, n, l, q) /\ f.path = Append(d.path, Place(l, j, n)) /\ f.chan = LaneChan(d, l)
    BY <2>2
  <2>4. PICK m \in Nat : m = Place(l, j, n)
    BY <2>3 DEF LaneHas
  <2>5. d.path \in Path /\ d.chan \in Path /\ d.index \in Nat /\ l - 1 \in Nat
    BY <2>1, <2>3 DEF EntrySet, LaneHas
  <2>6. Len(Append(d.path, m)) = Len(d.path) + 1 /\ Len(d.path) \in Nat
    BY <2>5 DEF Path
  <2>7. Len(Append(Append(d.chan, d.index), l - 1)) = Len(d.chan) + 2 /\ Len(d.chan) \in Nat
    BY <2>5 DEF Path
  <2> QED
    BY <2>1, <2>3, <2>4, <2>6, <2>7 DEF Long, LaneChan
<1>4. Closed(s, R)
  <2> SUFFICES ASSUME NEW f \in EntrySet, IsRoot(s, f) \/ \E d \in R : IsLane(s, d, f)
               PROVE  f \in R
    BY DEF Closed
  <2> QED
    BY <1>1, <1>2, <1>3
<1>5. R \in SUBSET EntrySet
  BY <1>1
<1>6. Plan(s) \subseteq R
  BY <1>4, <1>5, PlanLeast
<1> QED
  BY <1>1, <1>6

\* An item of the plan is the only one at its path.
LEMMA OnePath ==
  ASSUME NEW s \in Sessions, NEW e \in Plan(s), NEW f \in Plan(s), e.path = f.path
  PROVE  e = f
<1>1. PICK R : R = {g \in Plan(s) : \A h \in Plan(s) : g.path = h.path => g = h}
  OBVIOUS
<1>2. ASSUME NEW g \in EntrySet, IsRoot(s, g), NEW h \in Plan(s), g.path = h.path PROVE g = h
  <2>1. CASE IsRoot(s, h)
    BY <1>2, <2>1, RootsApart
  <2>2. CASE ~IsRoot(s, h)
    <3>1. PICK d \in Plan(s) : IsLane(s, d, h)
      BY <2>2, PlanLeast
    <3>2. d \in EntrySet /\ Long(d)
      BY PlanLong, PlanLeast
    <3> QED
      BY <1>2, <3>1, <3>2, RootNotLane
  <2> QED
    BY <2>1, <2>2
<1>3. ASSUME NEW g \in EntrySet, NEW d \in R, IsLane(s, d, g), NEW h \in Plan(s), g.path = h.path
      PROVE  g = h
  <2>1. /\ d \in Plan(s) /\ d \in EntrySet /\ Long(d)
        /\ \A b \in Plan(s) : d.path = b.path => d = b
    BY <1>1, PlanLong, PlanLeast
  <2>2. CASE IsRoot(s, h)
    BY <1>3, <2>1, <2>2, RootNotLane
  <2>3. CASE ~IsRoot(s, h)
    <3>1. PICK b \in Plan(s) : IsLane(s, b, h)
      BY <2>3, PlanLeast
    <3>2. b \in EntrySet
      BY PlanLeast
    <3>3. d.path = b.path
      BY <1>3, <2>1, <3>1, <3>2, LaneParents
    <3>4. d = b
      BY <2>1, <3>3
    <3> QED
      BY <1>3, <2>1, <3>1, <3>4, LanesApart
  <2> QED
    BY <2>2, <2>3
<1>4. Closed(s, R)
  <2> SUFFICES ASSUME NEW g \in EntrySet, IsRoot(s, g) \/ \E d \in R : IsLane(s, d, g)
               PROVE  g \in R
    BY DEF Closed
  <2>1. g \in Plan(s)
    BY <1>1, PlanLeast DEF Closed
  <2>2. \A h \in Plan(s) : g.path = h.path => g = h
    BY <1>2, <1>3
  <2> QED
    BY <1>1, <2>1, <2>2
<1>5. R \in SUBSET EntrySet
  BY <1>1, PlanLeast
<1>6. Plan(s) \subseteq R
  BY <1>4, <1>5, PlanLeast
<1> QED
  BY <1>1, <1>6

\* An operation of the plan is the only one that forks from its channel with
\* its index.
LEMMA OneFork ==
  ASSUME NEW s \in Sessions, NEW e \in Plan(s), NEW f \in Plan(s), SameOp(e, f)
  PROVE  e = f
<1>1. PICK R : R = {g \in Plan(s) : \A h \in Plan(s) : SameOp(g, h) => g = h}
  OBVIOUS
<1>2. ASSUME NEW g \in EntrySet, IsRoot(s, g), NEW h \in Plan(s), SameOp(g, h) PROVE g = h
  <2>1. CASE IsRoot(s, h)
    BY <1>2, <2>1, RootsApart
  <2>2. CASE ~IsRoot(s, h)
    <3>1. PICK d \in Plan(s) : IsLane(s, d, h)
      BY <2>2, PlanLeast
    <3>2. d \in EntrySet /\ Long(d)
      BY PlanLong, PlanLeast
    <3> QED
      BY <1>2, <3>1, <3>2, RootNotLane DEF SameOp
  <2> QED
    BY <2>1, <2>2
<1>3. ASSUME NEW g \in EntrySet, NEW d \in R, IsLane(s, d, g), NEW h \in Plan(s), SameOp(g, h)
      PROVE  g = h
  <2>1. /\ d \in Plan(s) /\ d \in EntrySet /\ Long(d)
        /\ \A b \in Plan(s) : SameOp(d, b) => d = b
    BY <1>1, PlanLong, PlanLeast
  <2>2. CASE IsRoot(s, h)
    <3>1. h.chan = g.chan
      BY <1>3 DEF SameOp
    <3> QED
      BY <1>3, <2>1, <2>2, <3>1, RootNotLane
  <2>3. CASE ~IsRoot(s, h)
    <3>1. PICK b \in Plan(s) : IsLane(s, b, h)
      BY <2>3, PlanLeast
    <3>2. b \in EntrySet
      BY PlanLeast
    <3>3. SameOp(d, b)
      BY <1>3, <2>1, <3>1, <3>2, LaneParents
    <3>4. d = b
      BY <2>1, <3>3
    <3> QED
      BY <1>3, <2>1, <3>1, <3>4, LanesApart
  <2> QED
    BY <2>2, <2>3
<1>4. Closed(s, R)
  <2> SUFFICES ASSUME NEW g \in EntrySet, IsRoot(s, g) \/ \E d \in R : IsLane(s, d, g)
               PROVE  g \in R
    BY DEF Closed
  <2>1. g \in Plan(s)
    BY <1>1, PlanLeast DEF Closed
  <2>2. \A h \in Plan(s) : SameOp(g, h) => g = h
    BY <1>2, <1>3
  <2> QED
    BY <1>1, <2>1, <2>2
<1>5. R \in SUBSET EntrySet
  BY <1>1, PlanLeast
<1>6. Plan(s) \subseteq R
  BY <1>4, <1>5, PlanLeast
<1> QED
  BY <1>1, <1>6

-----------------------------------------------------------------------------
(***************************************************************************)
(* Tasks follow the plan of the session.                                   *)
(***************************************************************************)
\* Task t has the items of q after the first m to do, all in the plan.
On(s, t, q, m) ==
  /\ \A j \in DOMAIN q : Entry(q, j, t.chan) \in Plan(s)
  /\ t.queue # <<>> =>
       /\ Forked(t) = OpsBefore(q, m + 1) /\ Len(q) = m + Len(t.queue)
       /\ \A j \in DOMAIN t.queue : t.queue[j] = q[m + j]

Laid(s, t) == \E q \in Seq(ItemSet), m \in Nat : On(s, t, q, m)

\* Task k, on channel c, is that of a context, or of a lane of an operation.
IsCaller(k, c) == \E r \in Nat \ {0} : k = <<r>> /\ c = RootChan(r)
IsLaneTask(s, k, c) ==
  \E d \in Plan(s), l \in Nat \ {0} : d.w.k \in Ops /\ k = Append(d.path, l) /\ c = LaneChan(d, l)

TaskLaid(s, k, t) == (IsCaller(k, t.chan) \/ IsLaneTask(s, k, t.chan)) /\ Laid(s, t)

AllLaid(s, T) == \A k \in DOMAIN T : TaskLaid(s, k, T[k])

\* Tasks that go on stay on the plan.
LEMMA KeptLaid ==
  ASSUME NEW s, NEW t, NEW u, Kept(u, t), Laid(s, t)
  PROVE  Laid(s, u)
<1>1. PICK q \in Seq(ItemSet), m \in Nat : On(s, t, q, m)
  BY DEF Laid
<1>2. u.queue = t.queue /\ u.chan = t.chan /\ Forked(u) = Forked(t)
  BY DEF Kept, Forked
<1>3. On(s, u, q, m)
  BY <1>1, <1>2 DEF On
<1> QED
  BY <1>3 DEF Laid

\* So do tasks that ended a piece of work.
LEMMA EndedLaid ==
  ASSUME ~Single, NEW s, NEW t \in TaskSet, NEW u \in TaskSet, Ended(u, t), Laid(s, t)
  PROVE  Laid(s, u)
<1>1. PICK q \in Seq(ItemSet), m \in Nat : On(s, t, q, m)
  BY DEF Laid
<1>2. CASE u.queue = <<>>
  <2>1. On(s, u, q, m)
    BY <1>1, <1>2 DEF On, Ended
  <2> QED
    BY <2>1 DEF Laid
<1>3. CASE u.queue # <<>>
  <2>1. PICK a \in Seq(ItemSet), b \in Seq(ItemSet) : a = t.queue /\ b = u.queue
    BY QueuePaths
  <2>2. a # <<>> /\ b = Tail(a) /\ u.chan = t.chan /\ Forked(u) = Forked(t) + Uses(Head(a))
    BY <1>3, <2>1 DEF Ended
  <2>3. /\ \A j \in DOMAIN q : Entry(q, j, t.chan) \in Plan(s)
        /\ Forked(t) = OpsBefore(q, m + 1) /\ Len(q) = m + Len(a)
        /\ \A j \in DOMAIN a : a[j] = q[m + j]
    BY <1>1, <2>1, <2>2 DEF On
  <2>4. /\ Head(a) = a[1] /\ 1 \in DOMAIN a /\ Len(b) = Len(a) - 1 /\ Len(a) \in Nat
        /\ \A j \in DOMAIN b : j \in Nat /\ j + 1 \in DOMAIN a /\ b[j] = a[j + 1]
    BY <2>2
  <2>5. PICK o \in Nat : o = m + 1
    OBVIOUS
  <2>6. Forked(u) = OpsBefore(q, o + 1)
    <3>1. a[1] = q[m + 1]
      BY <2>3, <2>4
    <3>2. o \in Nat \ {0} /\ Head(a) = q[o]
      BY <2>4, <2>5, <3>1
    <3> QED
      BY <2>2, <2>3, <2>5, <3>2, OpsCount
  <2>7. Len(q) = o + Len(b)
    BY <2>3, <2>4, <2>5
  <2>8. \A j \in DOMAIN b : b[j] = q[o + j]
    <3> SUFFICES ASSUME NEW j \in DOMAIN b PROVE b[j] = q[o + j]
      OBVIOUS
    <3>1. b[j] = q[m + (j + 1)]
      BY <2>3, <2>4
    <3>2. m + (j + 1) = o + j
      BY <2>4, <2>5
    <3> QED
      BY <3>1, <3>2
  <2>9. On(s, u, q, o)
    BY <2>1, <2>2, <2>3, <2>6, <2>7, <2>8 DEF On
  <2> QED
    BY <2>9 DEF Laid
<1> QED
  BY <1>2, <1>3

\* The task of a new context is on the plan.
LEMMA RootLaid ==
  ASSUME TypeOK, NEW n \in Nat, n < Len(session.roots)
  PROVE  TaskLaid(session, <<n + 1>>, RootTask(n))
<1>1. PICK s \in Sessions : s = session
  BY DEF TypeOK
<1>2. PICK r : r = n + 1 /\ r \in Nat \ {0} /\ r - 1 = n /\ r \in DOMAIN s.roots
  BY <1>1, SessionsAssumption
<1>3. PICK q : q = RootItems(s, r)
  OBVIOUS
<1>4. q \in Seq(ItemSet) /\ RootChan(r) \in Path
  BY <1>2, <1>3, RootList
<1>5. PICK t \in TaskSet : t = RootTask(n)
  BY RootFacts
<1>6. t.chan = RootChan(r) /\ t.fork = 0 /\ t.phase = "run" /\ t.queue = q
  BY <1>1, <1>2, <1>3, <1>5, RootFacts DEF RootQueue, RootItems, RootChan
<1>7. ASSUME NEW j \in DOMAIN q PROVE Entry(q, j, RootChan(r)) \in Plan(s)
  <2>1. Entry(q, j, RootChan(r)) \in EntrySet
    BY <1>4, EntryIs
  <2>2. IsRoot(s, Entry(q, j, RootChan(r)))
    BY <1>2, <1>3 DEF IsRoot
  <2> QED
    BY <2>1, <2>2, PlanLeast DEF Closed
<1>8. Forked(t) = OpsBefore(q, 0 + 1)
  BY <1>4, <1>6, OpsCount DEF Forked
<1>9. On(s, t, q, 0)
  BY <1>4, <1>6, <1>7, <1>8 DEF On
<1>10. Laid(s, t)
  BY <1>4, <1>9 DEF Laid
<1>11. IsCaller(<<r>>, t.chan)
  BY <1>2, <1>6 DEF IsCaller
<1> QED
  BY <1>1, <1>2, <1>5, <1>10, <1>11 DEF TaskLaid

\* The lanes of an operation are as many as the plan says.
LEMMA LanesPlanned ==
  ASSUME NEW w
  PROVE  Lanes(w) = LanesOf(session, w)
<1>1. CASE session.mode = "single"
  BY <1>1 DEF Lanes, LanesOf, Single
<1>2. CASE session.mode # "single"
  <2>1. ~Single
    BY <1>2 DEF Single
  <2>2. LanesOf(session, w) = IF w.k = "map" /\ ~(Len(w.subs) < LimitOf(session))
                              THEN LimitOf(session) ELSE Len(w.subs)
    BY <1>2 DEF LanesOf
  <2> QED
    BY <2>1, <2>2 DEF Lanes, MapLanes, ConcurrencyLimit, LimitOf
<1> QED
  BY <1>1, <1>2

\* The task of a lane is on the plan.
LEMMA LaneLaid ==
  ASSUME TypeOK, ~Single, NEW t \in TaskSet, t.queue # <<>>, t.phase = "run",
         Head(t.queue).w.k \in Ops, Laid(session, t),
         NEW c \in LaneKeys(Head(t.queue).path, Lanes(Head(t.queue).w))
  PROVE  TaskLaid(session, c, LaneOf(t, Last(c)))
<1>1. PICK s \in Sessions : s = session
  BY DEF TypeOK
<1>2. PICK q \in Seq(ItemSet), m \in Nat : On(s, t, q, m)
  BY <1>1 DEF Laid
<1>3. PICK o : o = m + 1
  OBVIOUS
<1>4. o \in DOMAIN q /\ o \in Nat \ {0} /\ Head(t.queue) = q[o] /\ t.fork = OpsBefore(q, o) /\ t.chan \in Path
  <2>1. PICK a \in Seq(ItemSet) : a = t.queue
    BY QueuePaths
  <2>2. Head(a) = a[1] /\ 1 \in DOMAIN a /\ Len(a) \in Nat \ {0}
    BY <2>1
  <2>3. Len(q) = m + Len(a) /\ a[1] = q[o] /\ t.fork = OpsBefore(q, o)
    BY <1>2, <1>3, <2>1, <2>2 DEF On, Forked
  <2> QED
    BY <1>3, <2>1, <2>2, <2>3 DEF TaskSet
<1>5. PICK d \in Plan(s) : d = Entry(q, o, t.chan)
  BY <1>2, <1>4 DEF On
<1>6. /\ d \in EntrySet /\ d.path = Head(t.queue).path /\ d.w = Head(t.queue).w
      /\ d.chan = t.chan /\ d.index = t.fork
  BY <1>4, <1>5, EntryIs
<1>7. PICK n, l, u : n = LanesOf(s, d.w) /\ l = Last(c) /\ u = LaneOf(t, Last(c))
  OBVIOUS
<1>8. LaneIs(t, d.path, n, c, u)
  <2>1. Lanes(Head(t.queue).w) = n
    BY <1>1, <1>6, <1>7, LanesPlanned
  <2>2. LaneIs(t, Head(t.queue).path, Lanes(Head(t.queue).w), c, LaneOf(t, Last(c)))
    BY LaneWork
  <2> QED
    BY <1>6, <1>7, <2>1, <2>2
<1>9. /\ l \in 1 .. n /\ c = Append(d.path, l) /\ u.chan = LaneChan(d, l) /\ u.queue = ItemsOfLane(s, d, l)
      /\ u.phase = "run" /\ u.fork = 0 /\ n \in Nat
  BY <1>6, <1>7, <1>8 DEF LaneIs, LaneChan, ItemsOfLane
<1>10. PICK v : v = ItemsOfLane(s, d, l)
  OBVIOUS
<1>11. v \in Seq(ItemSet) /\ LaneChan(d, l) \in Path
  BY <1>6, <1>7, <1>9, <1>10, LaneList DEF LaneHas
<1>12. ASSUME NEW j \in DOMAIN v PROVE Entry(v, j, u.chan) \in Plan(s)
  <2>1. Entry(v, j, u.chan) \in EntrySet
    BY <1>9, <1>11, EntryIs
  <2>2. d.w.k \in Ops /\ l \in 1 .. LanesOf(s, d.w)
    BY <1>6, <1>7, <1>9
  <2>3. IsLane(s, d, Entry(v, j, u.chan))
    BY <1>9, <1>10, <2>2 DEF IsLane
  <2> QED
    BY <2>1, <2>3, PlanLeast DEF Closed
<1>13. On(s, u, v, 0)
  <2>1. OpsBefore(v, 1) = 0
    BY <1>11, OpsCount
  <2>2. Forked(u) = OpsBefore(v, 0 + 1)
    BY <1>9, <2>1 DEF Forked
  <2>3. u.queue = v
    BY <1>9, <1>10
  <2>4. Len(v) = 0 + Len(v) /\ \A j \in DOMAIN v : v[j] = v[0 + j]
    BY <1>11
  <2> QED
    BY <1>12, <2>2, <2>3, <2>4 DEF On
<1>14. Laid(s, u)
  BY <1>11, <1>13 DEF Laid
<1>15. IsLaneTask(s, c, u.chan)
  <2>1. l \in Nat \ {0} /\ d.w.k \in Ops
    BY <1>6, <1>9
  <2> QED
    BY <1>5, <1>9, <2>1 DEF IsLaneTask
<1> QED
  BY <1>1, <1>7, <1>14, <1>15 DEF TaskLaid

\* The tasks of the party that takes a step stay on the plan.
LEMMA StepLaid ==
  ASSUME TypeOK, TypeOK', ~Single, NEW p \in Parties, AllLaid(session, tasks[p]),
         ProceedStep(p) \/ ForkStep(p) \/ RootStep(p)
  PROVE  AllLaid(session, tasks'[p])
<1>1. PICK T, U : T = tasks[p] /\ U = tasks'[p]
  OBVIOUS
<1>2. /\ \A k \in DOMAIN T : T[k] \in TaskSet /\ TaskLaid(session, k, T[k])
      /\ \A k \in DOMAIN U : U[k] \in TaskSet
  BY <1>1 DEF TypeOK, IsTasks, AllLaid
<1>3. SUFFICES ASSUME NEW j \in DOMAIN U PROVE TaskLaid(session, j, U[j])
  BY <1>1 DEF AllLaid
<1>4. CASE ProceedStep(p)
  <2>1. j \in DOMAIN T /\ (Kept(U[j], T[j]) \/ Ended(U[j], T[j]))
    BY <1>1, <1>4 DEF ProceedStep, Proceeds
  <2>2. U[j].chan = T[j].chan
    BY <2>1 DEF Kept, Ended
  <2>3. Laid(session, U[j])
    <3>1. T[j] \in TaskSet /\ U[j] \in TaskSet /\ Laid(session, T[j])
      BY <1>2, <2>1 DEF TaskLaid
    <3>2. CASE Kept(U[j], T[j])
      BY <3>1, <3>2, KeptLaid
    <3>3. CASE Ended(U[j], T[j])
      BY <3>1, <3>3, EndedLaid
    <3> QED
      BY <2>1, <3>2, <3>3
  <2> QED
    BY <1>2, <2>1, <2>2, <2>3 DEF TaskLaid
<1>5. CASE ForkStep(p)
  <2>1. PICK k \in DOMAIN T : Spawned(T, U, k)
    BY <1>1, <1>5 DEF ForkStep
  <2>2. PICK t \in TaskSet : t = T[k]
    BY <1>2
  <2>3. PICK keys : keys = LaneKeys(Head(t.queue).path, Lanes(Head(t.queue).w))
    OBVIOUS
  <2>4. /\ AtWork(T, k) /\ Head(t.queue).w.k \in Ops /\ DOMAIN U = DOMAIN T \cup keys
        /\ U[k] = [t EXCEPT !.fork = NextFork(t), !.phase = "wait"]
        /\ \A c \in keys \ {k} : U[c] = LaneOf(t, Last(c))
        /\ \A i \in DOMAIN U \ (keys \cup {k}) : U[i] = T[i]
    BY <2>1, <2>2, <2>3 DEF Spawned
  <2>5. t.queue # <<>> /\ t.phase = "run" /\ TaskLaid(session, k, t)
    BY <1>2, <2>2, <2>4 DEF AtWork
  <2>6. CASE j = k
    <3>1. PICK u : u = U[k]
      OBVIOUS
    <3>2. u.queue = t.queue /\ u.chan = t.chan /\ u.fork = t.fork + 1 /\ u.phase = "wait"
      BY <2>4, <3>1 DEF TaskSet, NextFork
    <3>3. Forked(u) = Forked(t)
      <4>1. PICK f \in Nat : f = t.fork
        BY DEF TaskSet
      <4>2. Forked(u) = (f + 1) - 1 /\ Forked(t) = f
        BY <2>5, <3>2, <4>1 DEF Forked
      <4> QED
        BY <4>2
    <3>4. Laid(session, u)
      <4>1. PICK q \in Seq(ItemSet), m \in Nat : On(session, t, q, m)
        BY <2>5 DEF TaskLaid, Laid
      <4>2. On(session, u, q, m)
        BY <3>2, <3>3, <4>1 DEF On
      <4> QED
        BY <4>2 DEF Laid
    <3> QED
      BY <2>5, <2>6, <3>1, <3>2, <3>4 DEF TaskLaid
  <2>7. CASE j \in keys \ {k}
    <3>1. TaskLaid(session, j, LaneOf(t, Last(j)))
      BY <2>3, <2>4, <2>5, <2>7, LaneLaid DEF TaskLaid
    <3> QED
      BY <2>4, <2>7, <3>1
  <2>8. CASE j \notin keys \cup {k}
    BY <1>2, <2>4, <2>8
  <2> QED
    BY <2>6, <2>7, <2>8
<1>6. CASE RootStep(p)
  <2>1. PICK n \in Nat : n = next[p] /\ n < Len(session.roots)
    BY <1>6 DEF TypeOK, RootStep
  <2>2. PICK r : r = <<n + 1>>
    OBVIOUS
  <2>3. \/ U = T
        \/ /\ DOMAIN U = DOMAIN T \cup {r} /\ U[r] = RootTask(n)
           /\ \A i \in DOMAIN T \ {r} : U[i] = T[i]
    BY <1>1, <1>6, <2>1, <2>2 DEF RootStep
  <2>4. TaskLaid(session, r, RootTask(n))
    BY <2>1, <2>2, RootLaid
  <2> QED
    BY <1>2, <2>3, <2>4
<1> QED
  BY <1>4, <1>5, <1>6

\* The inductive invariant of channels.
ChanInv == TypeOK /\ (~Single => \A p \in Parties : AllLaid(session, tasks[p]))

\* Every step keeps it.
LEMMA ChanNext == ChanInv /\ [Next]_vars => ChanInv'
<1> SUFFICES ASSUME ChanInv, [Next]_vars PROVE ChanInv'
  OBVIOUS
<1>1. CASE Next
  <2>1. TypeOK /\ TypeOK' /\ \E p \in Parties : StepOf(p)
    BY <1>1, NextStep DEF ChanInv
  <2>2. PICK p \in Parties : StepOf(p)
    BY <2>1
  <2>3. session' = session /\ Single' = Single
    BY <2>2 DEF StepOf, Single
  <2>4. ASSUME ~Single, NEW q \in Parties PROVE AllLaid(session, tasks'[q])
    <3>1. AllLaid(session, tasks[q])
      BY <2>4 DEF ChanInv
    <3>2. CASE q = p
      <4>1. ProceedStep(p) \/ ForkStep(p) \/ RootStep(p)
        BY <2>2 DEF StepOf
      <4> QED
        BY <2>1, <2>4, <3>1, <3>2, <4>1, StepLaid
    <3>3. CASE q # p
      <4>1. tasks'[q] = tasks[q]
        BY <2>2, <3>3 DEF StepOf
      <4> QED
        BY <3>1, <4>1
    <3> QED
      BY <3>2, <3>3
  <2>5. ~Single => \A q \in Parties : AllLaid(session, tasks[q])'
    <3>1. ASSUME NEW q \in Parties, AllLaid(session, tasks'[q]) PROVE AllLaid(session, tasks[q])'
      BY <2>3, <3>1
    <3> QED
      BY <2>4, <3>1
  <2> QED
    BY <2>1, <2>3, <2>5 DEF ChanInv
<1>2. CASE UNCHANGED vars
  <2>1. session' = session /\ tasks' = tasks /\ Single' = Single
    BY <1>2 DEF vars, Single
  <2>2. TypeOK'
    BY <1>2 DEF vars, ChanInv, TypeOK, IsTasks, PhaseFits, Single
  <2>3. \A p \in Parties : AllLaid(session, tasks[p]) => AllLaid(session, tasks[p])'
    BY <2>1
  <2> QED
    BY <2>1, <2>2, <2>3 DEF ChanInv
<1> QED
  BY <1>1, <1>2

\* Always, counterpart tasks of the two parties own the same channel
\* (Context::child takes its index from the counter of the forks made) and no
\* two tasks of a party own one channel.
THEOREM CounterpartsShareChannels == Spec => []CounterpartsMeet
<1>1. Init => ChanInv
  <2> SUFFICES ASSUME Init, ~Single, NEW p \in Parties PROVE AllLaid(session, tasks[p])
    BY InitFacts DEF ChanInv
  <2>1. PICK E : E = <<>> /\ DOMAIN E = {}
    BY NoTasks
  <2>2. AllLaid(session, E)
    BY <2>1 DEF AllLaid
  <2> QED
    BY <2>1, <2>2, InitFacts
<1>2. ASSUME NEW s \in Sessions, NEW j \in Path, NEW k \in Path, NEW c, NEW e,
             IsCaller(j, c) \/ IsLaneTask(s, j, c), IsCaller(k, e) \/ IsLaneTask(s, k, e)
      PROVE  (j = k => c = e) /\ (c = e => j = k)
  <2>1. CASE IsCaller(j, c) /\ IsCaller(k, e)
    <3>1. PICK r \in Nat \ {0} : j = <<r>> /\ c = RootChan(r)
      BY <2>1 DEF IsCaller
    <3>2. PICK t \in Nat \ {0} : k = <<t>> /\ e = RootChan(t)
      BY <2>1 DEF IsCaller
    <3>3. j = k => r = t
      BY <3>1, <3>2
    <3>4. c = e => r = t
      BY <3>1, <3>2 DEF RootChan
    <3> QED
      BY <3>1, <3>2, <3>3, <3>4
  <2>2. ASSUME NEW x \in Path, NEW a, NEW y \in Path, NEW b, IsCaller(x, a), IsLaneTask(s, y, b)
        PROVE  x # y /\ a # b
    <3>1. PICK r \in Nat \ {0} : x = <<r>> /\ a = RootChan(r)
      BY <2>2 DEF IsCaller
    <3>2. PICK d \in Plan(s), l \in Nat \ {0} : y = Append(d.path, l) /\ b = LaneChan(d, l)
      BY <2>2 DEF IsLaneTask
    <3>3. Long(d) /\ d.path \in Path /\ d.chan \in Path /\ d.index \in Nat /\ l - 1 \in Nat
      BY PlanLong, PlanLeast DEF EntrySet
    <3>4. Len(y) = Len(d.path) + 1 /\ Len(d.path) \in Nat
      BY <3>2, <3>3 DEF Path
    <3>5. Len(b) = Len(d.chan) + 2 /\ Len(d.chan) \in Nat
      BY <3>2, <3>3 DEF Path, LaneChan
    <3>6. Len(x) = 1 /\ Len(a) = 2
      BY <3>1 DEF RootChan
    <3>7. Len(y) # 1 /\ Len(b) # 2
      BY <3>3, <3>4, <3>5 DEF Long
    <3> QED
      BY <3>6, <3>7
  <2>3. CASE IsLaneTask(s, j, c) /\ IsLaneTask(s, k, e)
    <3>1. PICK d \in Plan(s), l \in Nat \ {0} : d.w.k \in Ops /\ j = Append(d.path, l) /\ c = LaneChan(d, l)
      BY <2>3 DEF IsLaneTask
    <3>2. PICK g \in Plan(s), h \in Nat \ {0} : g.w.k \in Ops /\ k = Append(g.path, h) /\ e = LaneChan(g, h)
      BY <2>3 DEF IsLaneTask
    <3>3. PICK a \in Path, x \in Path, i \in Nat, m \in Nat :
            a = d.path /\ x = d.chan /\ i = d.index /\ m = l - 1
      BY <3>1, PlanLeast DEF EntrySet
    <3>4. PICK b \in Path, y \in Path, n \in Nat, o \in Nat :
            b = g.path /\ y = g.chan /\ n = g.index /\ o = h - 1
      BY <3>2, PlanLeast DEF EntrySet
    <3>5. ASSUME j = k PROVE c = e
      <4>1. a = b /\ l = h
        <5>1. Append(a, l) = Append(b, h)
          BY <3>1, <3>2, <3>3, <3>4, <3>5
        <5>2. l \in Nat /\ h \in Nat
          OBVIOUS
        <5> QED
          BY <5>1, <5>2, PathSplit
      <4>2. d = g
        BY <3>3, <3>4, <4>1, OnePath
      <4> QED
        BY <3>1, <3>2, <4>1, <4>2
    <3>6. ASSUME c = e PROVE j = k
      <4>1. PICK v \in Path, w \in Path : v = Append(x, i) /\ w = Append(y, n)
        <5>1. Append(x, i) \in Path
          BY DEF Path
        <5>2. Append(y, n) \in Path
          BY DEF Path
        <5> QED
          BY <5>1, <5>2
      <4>2. Append(v, m) = Append(w, o)
        BY <3>1, <3>2, <3>3, <3>4, <3>6, <4>1 DEF LaneChan
      <4>3. v = w /\ m = o
        BY <4>2, PathSplit
      <4>4. x = y /\ i = n
        <5>1. Append(x, i) = Append(y, n)
          BY <4>1, <4>3
        <5> QED
          BY <5>1, PathSplit
      <4>5. d = g
        BY <3>1, <3>2, <3>3, <3>4, <4>4, OneFork DEF SameOp
      <4>6. l = h
        BY <3>3, <3>4, <4>3
      <4> QED
        BY <3>1, <3>2, <4>5, <4>6
    <3> QED
      BY <3>5, <3>6
  <2> QED
    BY <1>2, <2>1, <2>2, <2>3
<1>3. ChanInv => CounterpartsMeet
  <2> SUFFICES ASSUME ChanInv, ~Single
               PROVE  /\ \A k \in DOMAIN tasks["A"] \cap DOMAIN tasks["B"] :
                           tasks["A"][k].chan = tasks["B"][k].chan
                      /\ \A p \in Parties : \A j, k \in DOMAIN tasks[p] :
                           j # k => tasks[p][j].chan # tasks[p][k].chan
    BY DEF CounterpartsMeet
  <2>1. ASSUME NEW p \in Parties, NEW k \in DOMAIN tasks[p]
        PROVE  k \in Path /\ (IsCaller(k, tasks[p][k].chan) \/ IsLaneTask(session, k, tasks[p][k].chan))
    BY DEF ChanInv, AllLaid, TaskLaid, TypeOK, IsTasks
  <2>2. session \in Sessions /\ "A" \in Parties /\ "B" \in Parties
    BY DEF ChanInv, TypeOK, Parties
  <2>3. ASSUME NEW k \in DOMAIN tasks["A"] \cap DOMAIN tasks["B"]
        PROVE  tasks["A"][k].chan = tasks["B"][k].chan
    <3>1. PICK c, e : c = tasks["A"][k].chan /\ e = tasks["B"][k].chan
      OBVIOUS
    <3>2. k \in Path /\ (IsCaller(k, c) \/ IsLaneTask(session, k, c))
      BY <2>1, <2>2, <3>1
    <3>3. IsCaller(k, e) \/ IsLaneTask(session, k, e)
      BY <2>1, <2>2, <3>1
    <3>4. c = e
      BY <1>2, <2>2, <3>2, <3>3
    <3> QED
      BY <3>1, <3>4
  <2>4. ASSUME NEW p \in Parties, NEW j \in DOMAIN tasks[p], NEW k \in DOMAIN tasks[p], j # k
        PROVE  tasks[p][j].chan # tasks[p][k].chan
    <3>1. PICK c, e : c = tasks[p][j].chan /\ e = tasks[p][k].chan
      OBVIOUS
    <3>2. j \in Path /\ (IsCaller(j, c) \/ IsLaneTask(session, j, c))
      BY <2>1, <3>1
    <3>3. k \in Path /\ (IsCaller(k, e) \/ IsLaneTask(session, k, e))
      BY <2>1, <3>1
    <3>4. c # e
      BY <1>2, <2>2, <2>4, <3>2, <3>3
    <3> QED
      BY <3>1, <3>4
  <2> QED
    BY <2>3, <2>4
<1> QED
  BY <1>1, <1>3, ChanNext, PTL DEF Spec
=============================================================================
