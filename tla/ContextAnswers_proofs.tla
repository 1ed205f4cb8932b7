------------------------ MODULE ContextAnswers_proofs ------------------------
(***************************************************************************)
(* Proof that work of a session reads what its counterpart sent and that   *)
(* the results of an operation come back in input order (RightAnswers of   *)
(* Context).  The invariant has one part for each line of work: what a     *)
(* party has sent on it, what it has still to do and what waits in the     *)
(* line's channel fit together.                                            *)
(***************************************************************************)
EXTENDS Context_proofs

-----------------------------------------------------------------------------
(* The order of the program *)

\* Path a comes before path b, and neither is below the other.
Before(a, b) ==
  \E i \in 1 .. Len(a) : /\ i <= Len(b) /\ a[i] < b[i]
                         /\ \A h \in 1 .. i - 1 : a[h] = b[h]

\* Of two paths only one comes before the other.
LEMMA BeforeOnce ==
  ASSUME NEW a \in Path, NEW b \in Path, Before(a, b)
  PROVE  ~Before(b, a) /\ a # b
<1>1. PICK i \in 1 .. Len(a) : i <= Len(b) /\ a[i] < b[i] /\ \A h \in 1 .. i - 1 : a[h] = b[h]
  BY DEF Before
<1>2. Len(a) \in Nat /\ Len(b) \in Nat /\ \A h \in 1 .. Len(a) : a[h] \in Nat
  BY DEF Path
<1>3. \A h \in 1 .. Len(b) : b[h] \in Nat
  BY DEF Path
<1>4. i \in 1 .. Len(b) /\ i \in Nat /\ a[i] \in Nat /\ b[i] \in Nat
  BY <1>1, <1>2, <1>3
<1>5. a # b
  BY <1>1, <1>4
<1>6. ASSUME NEW j \in 1 .. Len(b), j <= Len(a), b[j] < a[j], \A h \in 1 .. j - 1 : b[h] = a[h]
      PROVE  FALSE
  <2>1. j \in Nat /\ j \in 1 .. Len(a) /\ a[j] \in Nat /\ b[j] \in Nat
    BY <1>2, <1>3, <1>6
  <2>2. CASE i = j
    BY <1>1, <1>4, <1>6, <2>1, <2>2
  <2>3. CASE i < j
    <3>1. i \in 1 .. j - 1
      BY <1>4, <2>1, <2>3
    <3> QED
      BY <1>1, <1>4, <1>6, <3>1
  <2>4. CASE j < i
    <3>1. j \in 1 .. i - 1
      BY <1>4, <2>1, <2>4
    <3> QED
      BY <1>1, <1>6, <2>1, <3>1
  <2> QED
    BY <1>4, <2>1, <2>2, <2>3, <2>4
<1> QED
  BY <1>5, <1>6 DEF Before

\* What is below an earlier item comes before what is below a later one.
LEMMA BranchesBefore ==
  ASSUME NEW d \in Path, NEW x \in Nat, NEW y \in Nat, x < y, NEW a \in Path, NEW b \in Path,
         IsPrefix(Append(d, x), a), IsPrefix(Append(d, y), b)
  PROVE  Before(a, b)
<1>1. PICK u \in Path : u = Append(d, x)
  BY PrefixAppend
<1>2. PICK v \in Path : v = Append(d, y)
  BY PrefixAppend
<1>3. PICK n \in Nat : n = Len(d) + 1
  BY DEF Path
<1>4. /\ Len(u) = n /\ Len(v) = n /\ u[n] = x /\ v[n] = y
      /\ \A h \in 1 .. n - 1 : u[h] = v[h]
  BY <1>1, <1>2, <1>3 DEF Path
<1>5. /\ Len(u) <= Len(a) /\ \A h \in 1 .. Len(u) : u[h] = a[h]
      /\ Len(v) <= Len(b) /\ \A h \in 1 .. Len(v) : v[h] = b[h]
  <2>1. IsPrefix(u, a) /\ IsPrefix(v, b)
    BY <1>1, <1>2
  <2>2. \A h \in Path, o \in Path :
          IsPrefix(h, o) => Len(h) <= Len(o) /\ \A m \in 1 .. Len(h) : h[m] = o[m]
    BY PrefixPointwise
  <2> QED
    BY <2>1, <2>2
<1>6. /\ Len(a) \in Nat /\ Len(b) \in Nat /\ n <= Len(a) /\ n <= Len(b)
      /\ \A h \in 1 .. n : u[h] = a[h] /\ v[h] = b[h]
  BY <1>4, <1>5 DEF Path
<1>7. n \in 1 .. Len(a) /\ n \in 1 .. n /\ \A h \in 1 .. n - 1 : h \in 1 .. n
  BY <1>3, <1>6
<1>8. a[n] < b[n] /\ \A h \in 1 .. n - 1 : a[h] = b[h]
  BY <1>4, <1>6, <1>7
<1> QED
  BY <1>6, <1>7, <1>8 DEF Before

-----------------------------------------------------------------------------
(* What is in a channel *)

\* Channel B holds, in the order of the program, what of S is not in R.
InSync(B, S, R) ==
  /\ B \in Seq(Path) /\ R \subseteq S
  /\ \A i \in 1 .. Len(B) : B[i] \in S \ R
  /\ \A a \in S \ R : \E i \in 1 .. Len(B) : B[i] = a
  /\ \A i, j \in 1 .. Len(B) : i < j => Before(B[i], B[j])

\* The party at the other end sends the next message.
LEMMA SyncAppend ==
  ASSUME NEW B, NEW S, NEW R, InSync(B, S, R), NEW y \in Path, y \notin S,
         \A a \in S : Before(a, y)
  PROVE  InSync(Append(B, y), S \cup {y}, R)
<1>1. PICK n \in Nat : n = Len(B)
  BY DEF InSync
<1>2. PICK C : C = Append(B, y)
  OBVIOUS
<1>3. /\ C \in Seq(Path) /\ Len(C) = n + 1 /\ C[n + 1] = y
      /\ \A i \in 1 .. n : C[i] = B[i]
  BY <1>1, <1>2 DEF InSync
<1>4. \A i \in 1 .. n + 1 : i \in 1 .. n \/ i = n + 1
  OBVIOUS
<1>5. \A i \in 1 .. n : C[i] \in S \ R
  BY <1>1, <1>3 DEF InSync
<1>6. \A i \in 1 .. n + 1 : C[i] \in (S \cup {y}) \ R
  BY <1>3, <1>4, <1>5 DEF InSync
<1>7. \A a \in (S \cup {y}) \ R : \E i \in 1 .. n + 1 : C[i] = a
  <2> SUFFICES ASSUME NEW a \in (S \cup {y}) \ R PROVE \E i \in 1 .. n + 1 : C[i] = a
    OBVIOUS
  <2>1. CASE a = y
    BY <1>3, <2>1
  <2>2. CASE a # y
    <3>1. PICK i \in 1 .. n : B[i] = a
      BY <1>1, <2>2 DEF InSync
    <3>2. i \in 1 .. n + 1
      OBVIOUS
    <3> QED
      BY <1>3, <3>1, <3>2
  <2> QED
    BY <2>1, <2>2
<1>8. ASSUME NEW i \in 1 .. n + 1, NEW j \in 1 .. n + 1, i < j PROVE Before(C[i], C[j])
  <2>1. i \in 1 .. n
    BY <1>8
  <2>2. CASE j = n + 1
    BY <1>3, <1>5, <2>1, <2>2
  <2>3. CASE j \in 1 .. n
    <3>1. Before(B[i], B[j])
      BY <1>1, <1>8, <2>1, <2>3 DEF InSync
    <3> QED
      BY <1>3, <2>1, <2>3, <3>1
  <2> QED
    BY <1>4, <2>2, <2>3
<1>9. R \subseteq S \cup {y}
  BY DEF InSync
<1> QED
  BY <1>2, <1>3, <1>6, <1>7, <1>8, <1>9 DEF InSync

\* The party at this end reads while it is at e: it reads e.
LEMMA SyncHead ==
  ASSUME NEW B, NEW S \in SUBSET Path, NEW R, InSync(B, S, R), B # <<>>, NEW e \in Path, e \notin R,
         \A a \in S : a \in R \/ a = e \/ (Before(e, a) /\ e \in S)
  PROVE  Head(B) = e /\ InSync(Tail(B), S, R \cup {e})
<1>1. PICK n \in Nat : n = Len(B) /\ n > 0
  BY DEF InSync
<1>2. B \in Seq(Path) /\ Head(B) = B[1] /\ 1 \in 1 .. n
  BY <1>1 DEF InSync
<1>3. \A i \in 1 .. n : B[i] \in S /\ B[i] \notin R
  BY <1>1 DEF InSync
<1>4. e \in S
  BY <1>2, <1>3
<1>5. PICK i \in 1 .. n : B[i] = e
  BY <1>1, <1>4 DEF InSync
<1>6. B[1] = e
  <2> SUFFICES ASSUME B[1] # e PROVE FALSE
    OBVIOUS
  <2>1. 1 < i
    BY <1>5
  <2>2. Before(B[1], e)
    BY <1>1, <1>2, <1>5, <2>1 DEF InSync
  <2>3. B[1] \in Path /\ Before(e, B[1])
    BY <1>2, <1>3
  <2> QED
    BY <2>2, <2>3, BeforeOnce
<1>7. PICK C : C = Tail(B)
  OBVIOUS
<1>8. C \in Seq(Path) /\ Len(C) = n - 1 /\ \A h \in 1 .. n - 1 : C[h] = B[h + 1] /\ h + 1 \in 1 .. n
  BY <1>1, <1>2, <1>7
<1>9. \A h \in 1 .. n - 1 : C[h] \in S \ (R \cup {e})
  <2> SUFFICES ASSUME NEW h \in 1 .. n - 1 PROVE C[h] \in S \ (R \cup {e})
    OBVIOUS
  <2>1. C[h] = B[h + 1] /\ h + 1 \in 1 .. n /\ 1 < h + 1
    BY <1>8
  <2>2. Before(B[1], B[h + 1])
    BY <1>1, <1>2, <2>1 DEF InSync
  <2>3. B[h + 1] \in S /\ B[h + 1] \notin R /\ B[h + 1] \in Path
    BY <1>3, <2>1
  <2>4. B[h + 1] # e
    BY <1>6, <2>2, <2>3, BeforeOnce
  <2> QED
    BY <2>1, <2>3, <2>4
<1>10. ASSUME NEW a \in S \ (R \cup {e}) PROVE \E h \in 1 .. n - 1 : C[h] = a
  <2>1. PICK h \in 1 .. n : B[h] = a
    BY <1>1 DEF InSync
  <2>2. h # 1 /\ h - 1 \in 1 .. n - 1 /\ (h - 1) + 1 = h
    BY <1>6, <2>1
  <2> QED
    BY <1>8, <2>1, <2>2
<1>11. ASSUME NEW h \in 1 .. n - 1, NEW j \in 1 .. n - 1, h < j PROVE Before(C[h], C[j])
  <2>1. C[h] = B[h + 1] /\ C[j] = B[j + 1] /\ h + 1 \in 1 .. n /\ j + 1 \in 1 .. n /\ h + 1 < j + 1
    BY <1>8, <1>11
  <2> QED
    BY <1>1, <2>1 DEF InSync
<1>12. R \cup {e} \subseteq S
  BY <1>4 DEF InSync
<1>13. InSync(C, S, R \cup {e})
  BY <1>8, <1>9, <1>10, <1>11, <1>12 DEF InSync
<1> QED
  BY <1>2, <1>6, <1>7, <1>13

-----------------------------------------------------------------------------
(* The two halves of a channel.  A view is what one party knows: what of   *)
(* the work G it has sent, what it has left to send, what it is reading,   *)
(* whether it has anything to do, the channels it has opened and closed,   *)
(* and what waits for it in channel c.                                     *)

DownClosed(S, G) == \A a \in S, b \in G : Before(b, a) => b \in S

\* As long as the peer can be heard: nobody has given up on the channel, or
\* the party has sent its message and is still to read.
Heard(c, v, w) == c \notin w.closed \/ v.reads # {}

Half(G, c, v, w) ==
  /\ v.sent \subseteq G /\ DownClosed(v.sent, G)
  /\ c \notin v.opened => v.sent = {}
  /\ v.reads \subseteq v.sent
  /\ \A a \in v.sent, b \in v.left : Before(a, b)
  /\ v.todo # {} /\ Heard(c, v, w) => G \subseteq v.sent \cup v.left
  /\ c \notin v.closed /\ Heard(c, v, w) => InSync(v.inbox, w.sent, v.sent \ v.reads)

\* What grows at most: the channels opened and closed.
Grown(c, v, u) == (c \in v.opened => c \in u.opened) /\ (c \in v.closed => c \in u.closed)

\* Nothing is skipped of the work that sends as long as there is work.
Later(G, v, u) == u.left \subseteq v.left /\ (u.todo # {} => v.todo # {} /\ v.left \cap G \subseteq u.left)

\* Work that does not send ends, a task is dropped, the peer gives up.
LEMMA HalfKeeps ==
  ASSUME NEW G, NEW c, NEW v, NEW w, NEW v1, NEW w1, Half(G, c, v, w),
         v1.sent = v.sent, v1.inbox = v.inbox, w1.sent = w.sent,
         Grown(c, v, v1), Grown(c, w, w1), Later(G, v, v1),
         v1.reads = v.reads \/ (v1.reads = {} /\ v1.todo = {} /\ c \in v1.closed)
  PROVE  Half(G, c, v1, w1)
<1>1. c \notin v1.closed => v1.reads = v.reads
  OBVIOUS
<1>2. v1.todo # {} => v1.reads = v.reads /\ v.todo # {} /\ v.left \cap G \subseteq v1.left
  BY DEF Later
<1>3. v1.reads = v.reads /\ Heard(c, v1, w1) => Heard(c, v, w)
  BY DEF Heard, Grown
<1>4. v1.todo # {} /\ Heard(c, v1, w1) => G \subseteq v1.sent \cup v1.left
  BY <1>2, <1>3 DEF Half
<1>5. c \notin v1.closed /\ Heard(c, v1, w1) => InSync(v1.inbox, w1.sent, v1.sent \ v1.reads)
  BY <1>1, <1>3 DEF Half, Grown
<1>6. v1.reads \subseteq v1.sent
  BY DEF Half
<1>7. \A a \in v1.sent, b \in v1.left : Before(a, b)
  BY DEF Half, Later
<1>8. v1.sent \subseteq G /\ DownClosed(v1.sent, G) /\ (c \notin v1.opened => v1.sent = {})
  BY DEF Half, Grown
<1> QED
  BY <1>4, <1>5, <1>6, <1>7, <1>8 DEF Half

\* A task is given the whole work of a channel that was not open before.
LEMMA HalfNew ==
  ASSUME NEW G, NEW c, NEW v, NEW w, NEW v1, NEW w1, Half(G, c, v, w), c \notin v.opened,
         c \notin v.closed, v.reads = {}, v1.reads = {}, v1.sent = v.sent, v1.inbox = v.inbox,
         w1.sent = w.sent, Grown(c, w, w1), G \subseteq v1.left
  PROVE  Half(G, c, v1, w1)
<1>1. v.sent = {}
  BY DEF Half
<1>2. Heard(c, v1, w1) => Heard(c, v, w)
  BY DEF Heard, Grown
<1>3. c \notin v1.closed /\ Heard(c, v1, w1) => InSync(v1.inbox, w1.sent, v1.sent \ v1.reads)
  BY <1>2 DEF Half
<1> QED
  BY <1>1, <1>3 DEF Half, DownClosed

\* A party sends e.
LEMMA HalfSend ==
  ASSUME NEW G \in SUBSET Path, NEW c, NEW v, NEW w, NEW v1, NEW w1, Half(G, c, v, w), NEW e \in G,
         e \in v.left, v.todo # {}, v.reads = {}, c \notin v.closed, c \notin w.closed, c \in v1.opened,
         v1.sent = v.sent \cup {e}, v1.reads = {e}, v1.inbox = v.inbox, w1.sent = w.sent,
         v1.left \subseteq v.left, v.left \cap G \subseteq v1.left \cup {e}, \A b \in v.left : b = e \/ Before(e, b),
         e \notin v1.left
  PROVE  Half(G, c, v1, w1)
<1>1. Heard(c, v, w)
  BY DEF Heard
<1>2. G \subseteq v.sent \cup v.left /\ InSync(v.inbox, w.sent, v.sent)
  <2>1. v.sent \ v.reads = v.sent
    OBVIOUS
  <2> QED
    BY <1>1, <2>1 DEF Half
<1>3. \A a \in v.sent : Before(a, e) /\ a \in Path
  BY DEF Half
<1>4. e \notin v.sent
  BY <1>3, BeforeOnce
<1>5. v1.sent \ v1.reads = v.sent
  BY <1>4
<1>6. DownClosed(v1.sent, G)
  <2> SUFFICES ASSUME NEW a \in v1.sent, NEW b \in G, Before(b, a) PROVE b \in v1.sent
    BY DEF DownClosed
  <2>1. CASE a \in v.sent
    BY <2>1 DEF Half, DownClosed
  <2>2. CASE a = e
    <3>1. b # e /\ ~Before(e, b)
      BY <2>2, BeforeOnce
    <3> QED
      BY <1>2, <3>1
  <2> QED
    BY <2>1, <2>2
<1>7. \A a \in v1.sent, b \in v1.left : Before(a, b)
  BY DEF Half
<1>8. G \subseteq v1.sent \cup v1.left
  BY <1>2
<1> QED
  BY <1>2, <1>5, <1>6, <1>7, <1>8 DEF Half

\* The other end of it.
LEMMA HalfSendPeer ==
  ASSUME NEW G \in SUBSET Path, NEW c, NEW v, NEW w, NEW v1, NEW w1, Half(G, c, v, w), Half(G, c, w, v),
         NEW e \in G, e \in v.left, c \notin v.closed, c \notin w.closed, v1.sent = v.sent \cup {e},
         c \notin v1.closed, w1.sent = w.sent, w1.left = w.left, w1.reads = w.reads, w1.todo = w.todo,
         Grown(c, w, w1), w1.inbox = Append(w.inbox, e)
  PROVE  Half(G, c, w1, v1)
<1>1. Heard(c, w, v)
  BY DEF Heard
<1>2. InSync(w.inbox, v.sent, w.sent \ w.reads)
  BY <1>1 DEF Half
<1>3. \A a \in v.sent : Before(a, e) /\ a \in Path
  BY DEF Half
<1>4. e \notin v.sent
  BY <1>3, BeforeOnce
<1>5. InSync(w1.inbox, v1.sent, w1.sent \ w1.reads)
  <2>1. InSync(Append(w.inbox, e), v.sent \cup {e}, w.sent \ w.reads)
    BY <1>2, <1>3, <1>4, SyncAppend
  <2> QED
    BY <2>1
<1>6. w.todo # {} => G \subseteq w.sent \cup w.left
  BY <1>1 DEF Half
<1> QED
  BY <1>5, <1>6 DEF Half, Grown

\* A party that has sent e reads: it reads e.
LEMMA HalfRead ==
  ASSUME NEW G \in SUBSET Path, NEW c, NEW v, NEW w, NEW v1, NEW w1, Half(G, c, v, w), Half(G, c, w, v),
         NEW e, v.reads = {e}, v.todo # {}, c \notin v.closed, v.inbox # <<>>,
         v1.sent = v.sent, v1.reads = {}, v1.inbox = Tail(v.inbox), w1.sent = w.sent,
         Grown(c, v, v1), Grown(c, w, w1), Later(G, v, v1)
  PROVE  Head(v.inbox) = e /\ Half(G, c, v1, w1)
<1>1. Heard(c, v, w)
  BY DEF Heard
<1>2. e \in v.sent /\ e \in G /\ e \in Path /\ w.sent \in SUBSET Path
  BY DEF Half
<1>3. InSync(v.inbox, w.sent, v.sent \ {e}) /\ G \subseteq v.sent \cup v.left
  BY <1>1 DEF Half
<1>4. \A b \in v.left : Before(e, b)
  BY <1>2 DEF Half
<1>5. \A a \in w.sent : a \in v.sent \ {e} \/ a = e \/ (Before(e, a) /\ e \in w.sent)
  <2> SUFFICES ASSUME NEW a \in w.sent, a \notin v.sent PROVE Before(e, a) /\ e \in w.sent
    OBVIOUS
  <2>1. a \in v.left
    BY <1>3 DEF Half
  <2>2. Before(e, a)
    BY <1>4, <2>1
  <2> QED
    BY <1>2, <2>2 DEF Half, DownClosed
<1>6. Head(v.inbox) = e /\ InSync(Tail(v.inbox), w.sent, (v.sent \ {e}) \cup {e})
  <2>1. PICK S \in SUBSET Path : S = w.sent
    BY <1>2
  <2>2. PICK R, B : R = v.sent \ {e} /\ B = v.inbox
    OBVIOUS
  <2>3. InSync(B, S, R) /\ e \notin R /\ B # <<>>
    BY <1>3, <2>1, <2>2
  <2>4. \A a \in S : a \in R \/ a = e \/ (Before(e, a) /\ e \in S)
    BY <1>5, <2>1, <2>2
  <2>5. Head(B) = e /\ InSync(Tail(B), S, R \cup {e})
    BY <1>2, <2>3, <2>4, SyncHead
  <2> QED
    BY <2>1, <2>2, <2>5
<1>7. (v.sent \ {e}) \cup {e} = v1.sent \ v1.reads
  BY <1>2
<1>8. InSync(v1.inbox, w1.sent, v1.sent \ v1.reads)
  BY <1>6, <1>7
<1>9. v1.todo # {} => G \subseteq v1.sent \cup v1.left
  BY <1>3 DEF Later
<1>10. \A a \in v1.sent, b \in v1.left : Before(a, b)
  BY DEF Half, Later
<1> QED
  BY <1>6, <1>8, <1>9, <1>10 DEF Half, Grown

\* Work fails because the peer has given up on the channel.
LEMMA HalfFail ==
  ASSUME NEW G, NEW c, NEW v, NEW w, NEW v1, NEW w1, Half(G, c, v, w), c \in w1.closed,
         v1.sent = v.sent, v1.reads = {}, w1.sent = w.sent, Grown(c, v, v1), v1.left \subseteq v.left
  PROVE  Half(G, c, v1, w1)
<1>1. ~Heard(c, v1, w1)
  BY DEF Heard
<1> QED
  BY <1>1 DEF Half, Grown

-----------------------------------------------------------------------------
(***************************************************************************)
(* Lines of work: what the caller does in a context, or the items of a     *)
(* lane.  A line is done by the task under its key, on its channel.        *)
(***************************************************************************)
RootLine(s, r) ==
  [key |-> <<r>>, base |-> <<r>>, chan |-> RootChan(r), kind |-> "root", items |-> RootItems(s, r)]
LaneLine(s, d, l) ==
  [key |-> Append(d.path, l), base |-> d.path, chan |-> LaneChan(d, l), kind |-> d.w.k,
   items |-> ItemsOfLane(s, d, l)]

\* The operations of the plan.
Operations(s) == {d \in Plan(s) : d.w.k \in Ops}

Lines(s) ==
  {RootLine(s, r) : r \in DOMAIN s.roots}
    \cup UNION {{LaneLine(s, d, l) : l \in 1 .. LanesOf(s, d.w)} : d \in Operations(s)}

\* A line is one of the two.
LEMMA LineIs ==
  ASSUME NEW s, NEW x \in Lines(s)
  PROVE  \/ \E r \in DOMAIN s.roots : x = RootLine(s, r)
         \/ \E d \in Operations(s) : \E l \in 1 .. LanesOf(s, d.w) : x = LaneLine(s, d, l)
BY DEF Lines

\* The items of a line, in the order of their paths.
Ordered(base, q) ==
  /\ \A j \in DOMAIN q : \E n \in Nat : q[j].path = Append(base, n)
  /\ \A i, j \in DOMAIN q :
       i < j => \E m, n \in Nat : m < n /\ q[i].path = Append(base, m) /\ q[j].path = Append(base, n)

LineOK(s, x) ==
  /\ x.key \in Path /\ x.base \in Path /\ x.chan \in Path /\ x.items \in Seq(ItemSet)
  /\ Len(x.key) > 0 /\ Len(x.key) <= Len(x.base) + 1
  /\ \A j \in DOMAIN x.items : Entry(x.items, j, x.chan) \in Plan(s)
  /\ Ordered(x.base, x.items)

\* A later place of a lane is a later item.
LEMMA PlaceGrows ==
  ASSUME NEW n \in Nat \ {0}, NEW l \in Nat, NEW i \in Nat \ {0}, NEW j \in Nat \ {0}, i < j
  PROVE  Place(l, i, n) < Place(l, j, n)
<1>1. PICK a \in Nat, b \in Nat, c \in Nat : a = i - 1 /\ b = j - 1 /\ b = a + c + 1 /\ c = j - i - 1
  <2>1. i - 1 \in Nat /\ j - 1 \in Nat /\ j - i - 1 \in Nat /\ j - 1 = (i - 1) + (j - i - 1) + 1
    OBVIOUS
  <2> QED
    BY <2>1
<1>2. b * n = a * n + c * n + n
  <2>1. (a + c + 1) * n = a * n + c * n + n
    BY SMT
  <2> QED
    BY <1>1, <2>1
<1>3. a * n \in Nat /\ c * n \in Nat
  BY SMT
<1>4. a * n < b * n /\ a * n \in Nat /\ b * n \in Nat
  <2>1. PICK u \in Nat, v \in Nat : u = a * n /\ v = c * n
    BY <1>3
  <2>2. b * n = u + v + n
    BY <1>2, <2>1
  <2> QED
    BY <2>1, <2>2
<1>5. Place(l, i, n) = l + a * n /\ Place(l, j, n) = l + b * n
  BY <1>1 DEF Place
<1>6. PICK u \in Nat, v \in Nat : u = a * n /\ v = b * n
  BY <1>4
<1>7. u < v /\ Place(l, i, n) = l + u /\ Place(l, j, n) = l + v
  BY <1>4, <1>5, <1>6
<1> QED
  BY <1>7

\* What the caller does in a context is a line.
LEMMA RootLineOK ==
  ASSUME NEW s \in Sessions, NEW r \in DOMAIN s.roots
  PROVE  LineOK(s, RootLine(s, r))
<1>1. PICK q, c : q = RootItems(s, r) /\ c = RootChan(r)
  OBVIOUS
<1>2. /\ r \in Nat \ {0} /\ c \in Path /\ q \in Seq(ItemSet)
      /\ \A j \in DOMAIN q : j \in Nat \ {0} /\ q[j].path = RootItem(r, j)
  BY <1>1, RootList
<1>3. PICK b : b = <<r>>
  OBVIOUS
<1>4. b \in Path /\ Len(b) = 1
  BY <1>2, <1>3 DEF Path
<1>5. \A j \in DOMAIN q : j \in Nat /\ q[j].path = Append(b, j)
  <2> SUFFICES ASSUME NEW j \in DOMAIN q PROVE j \in Nat /\ q[j].path = Append(b, j)
    OBVIOUS
  <2>1. j \in Nat /\ q[j].path = <<r, j>>
    BY <1>2 DEF RootItem
  <2>2. Append(<<r>>, j) = <<r, j>>
    BY <1>2, <2>1, PathOfTwo
  <2> QED
    BY <1>3, <2>1, <2>2
<1>6. Ordered(b, q)
  BY <1>5 DEF Ordered
<1>7. ASSUME NEW j \in DOMAIN q PROVE Entry(q, j, c) \in Plan(s)
  <2>1. Entry(q, j, c) \in EntrySet
    BY <1>2, EntryIs
  <2>2. IsRoot(s, Entry(q, j, c))
    BY <1>1 DEF IsRoot
  <2> QED
    BY <2>1, <2>2, PlanLeast DEF Closed
<1> QED
  BY <1>1, <1>2, <1>3, <1>4, <1>6, <1>7 DEF LineOK, RootLine

\* The items of a lane are a line.
LEMMA LaneLineOK ==
  ASSUME NEW s \in Sessions, NEW d \in Operations(s), NEW l \in 1 .. LanesOf(s, d.w)
  PROVE  LineOK(s, LaneLine(s, d, l))
<1>1. d \in Plan(s) /\ d \in EntrySet /\ d.w.k \in Ops /\ d.path \in Path
  BY PlanLeast DEF Operations, EntrySet
<1>2. PICK q, n : q = ItemsOfLane(s, d, l) /\ n = LanesOf(s, d.w)
  OBVIOUS
<1>3. LaneHas(d, n, l, q)
  BY <1>1, <1>2, LaneList
<1>4. PICK b \in Path, c \in Path : b = d.path /\ c = LaneChan(d, l)
  BY <1>1, <1>3 DEF LaneHas
<1>5. /\ n \in Nat \ {0} /\ l \in Nat \ {0} /\ q \in Seq(ItemSet)
      /\ \A j \in DOMAIN q : j \in Nat \ {0} /\ Place(l, j, n) \in Nat /\ q[j].path = Append(b, Place(l, j, n))
  BY <1>3, <1>4 DEF LaneHas
<1>6. PICK k : k = Append(b, l)
  OBVIOUS
<1>7. k \in Path /\ Len(k) = Len(b) + 1 /\ Len(b) \in Nat
  BY <1>5, <1>6, PrefixAppend DEF Path
<1>8. Ordered(b, q)
  <2>1. \A i, j \in DOMAIN q : i < j => Place(l, i, n) < Place(l, j, n)
    BY <1>5, PlaceGrows
  <2> QED
    BY <1>5, <2>1 DEF Ordered
<1>9. ASSUME NEW j \in DOMAIN q PROVE Entry(q, j, c) \in Plan(s)
  <2>1. Entry(q, j, c) \in EntrySet
    BY <1>4, <1>5, EntryIs
  <2>2. IsLane(s, d, Entry(q, j, c))
    BY <1>1, <1>2, <1>4 DEF IsLane
  <2> QED
    BY <1>1, <2>1, <2>2, PlanLeast DEF Closed
<1> QED
  BY <1>2, <1>4, <1>5, <1>6, <1>7, <1>8, <1>9 DEF LineOK, LaneLine

\* What is known of a line.
LEMMA LineFacts ==
  ASSUME NEW s \in Sessions, NEW x \in Lines(s)
  PROVE  LineOK(s, x)
BY LineIs, RootLineOK, LaneLineOK

\* An operation's path and channel are longer than a context's.
LEMMA OperationFacts ==
  ASSUME NEW s \in Sessions, NEW d \in Operations(s)
  PROVE  /\ d \in Plan(s) /\ d \in EntrySet /\ d.w.k \in Ops /\ d.path \in Path /\ d.chan \in Path
         /\ d.index \in Nat /\ Len(d.path) >= 2 /\ Len(d.chan) >= 2
BY PlanLeast, PlanLong DEF Operations, EntrySet, Long

\* A line has a key, and a channel, of its own.
LEMMA LaneLineApart ==
  ASSUME NEW s \in Sessions, NEW d \in Operations(s), NEW l \in Nat \ {0},
         NEW g \in Operations(s), NEW m \in Nat \ {0},
         Append(d.path, l) = Append(g.path, m) \/ LaneChan(d, l) = LaneChan(g, m)
  PROVE  d = g /\ l = m
<1>1. /\ d \in Plan(s) /\ d.path \in Path /\ d.chan \in Path /\ d.index \in Nat /\ d.w.k \in Ops
      /\ g \in Plan(s) /\ g.path \in Path /\ g.chan \in Path /\ g.index \in Nat /\ g.w.k \in Ops
  BY OperationFacts
<1>2. CASE Append(d.path, l) = Append(g.path, m)
  <2>1. d.path = g.path /\ l = m
    <3>1. PICK u \in Path, v \in Path : u = d.path /\ v = g.path
      BY <1>1
    <3>2. Append(u, l) = Append(v, m) /\ l \in Nat /\ m \in Nat
      BY <1>2, <3>1
    <3>3. u = v /\ l = m
      BY <3>2, PathSplit
    <3> QED
      BY <3>1, <3>3
  <2> QED
    BY <1>1, <2>1, OnePath
<1>3. CASE LaneChan(d, l) = LaneChan(g, m)
  <2>1. PICK u \in Path, v \in Path : u = Append(d.chan, d.index) /\ v = Append(g.chan, g.index)
    BY <1>1, PrefixAppend
  <2>2. PICK o \in Nat, h \in Nat : o = l - 1 /\ h = m - 1
    OBVIOUS
  <2>3. u = v /\ o = h
    <3>1. Append(u, o) = Append(v, h)
      BY <1>3, <2>1, <2>2 DEF LaneChan
    <3> QED
      BY <3>1, PathSplit
  <2>4. d.chan = g.chan /\ d.index = g.index
    <3>1. PICK b \in Path, c \in Path : b = d.chan /\ c = g.chan
      BY <1>1
    <3>2. PICK i \in Nat, j \in Nat : i = d.index /\ j = g.index
      BY <1>1
    <3>3. Append(b, i) = Append(c, j)
      BY <2>1, <2>3, <3>1, <3>2
    <3>4. b = c /\ i = j
      BY <3>3, PathSplit
    <3> QED
      BY <3>1, <3>2, <3>4
  <2>5. l = m
    BY <2>2, <2>3
  <2>6. SameOp(d, g)
    BY <1>1, <2>4 DEF SameOp
  <2> QED
    BY <1>1, <2>5, <2>6, OneFork
<1> QED
  BY <1>2, <1>3

\* The key and the channel of a lane are longer than those of a context.
LEMMA LaneLong ==
  ASSUME NEW s \in Sessions, NEW d \in Operations(s), NEW l \in Nat \ {0}, NEW r \in Nat \ {0}
  PROVE  Append(d.path, l) # <<r>> /\ LaneChan(d, l) # RootChan(r)
<1>1. /\ d.path \in Path /\ d.chan \in Path /\ d.index \in Nat /\ Len(d.path) >= 2 /\ Len(d.chan) >= 2
  BY OperationFacts
<1>2. PICK a : a = Append(d.path, l)
  OBVIOUS
<1>3. Len(a) = Len(d.path) + 1 /\ Len(d.path) \in Nat
  BY <1>1, <1>2, PrefixAppend DEF Path
<1>4. Len(<<r>>) = 1
  OBVIOUS
<1>5. PICK u \in Path : u = Append(d.chan, d.index) /\ Len(u) = Len(d.chan) + 1
  BY <1>1, PrefixAppend
<1>6. PICK c : c = Append(u, l - 1)
  OBVIOUS
<1>7. Len(c) = Len(u) + 1 /\ Len(d.chan) \in Nat
  BY <1>1, <1>5, <1>6, PrefixAppend DEF Path
<1>8. c = LaneChan(d, l)
  BY <1>5, <1>6 DEF LaneChan
<1>9. Len(RootChan(r)) = 2
  BY DEF RootChan
<1>10. a # <<r>>
  <2>1. Len(a) # 1
    BY <1>1, <1>3
  <2> QED
    BY <1>4, <2>1
<1>11. c # RootChan(r)
  <2>1. Len(c) # 2
    BY <1>1, <1>5, <1>7
  <2> QED
    BY <1>9, <2>1
<1> QED
  BY <1>2, <1>8, <1>10, <1>11

\* Lines of the same key, or of the same channel, are the same.
LEMMA LinesApart ==
  ASSUME NEW s \in Sessions, NEW x \in Lines(s), NEW y \in Lines(s), x.key = y.key \/ x.chan = y.chan
  PROVE  x = y
<1>1. \A r \in DOMAIN s.roots : r \in Nat \ {0}
  BY SessionsAssumption
<1>2. \A d \in Operations(s) : \A l \in 1 .. LanesOf(s, d.w) : l \in Nat \ {0}
  BY OperationFacts, LaneList DEF LaneHas
<1>3. ASSUME NEW r \in DOMAIN s.roots, x = RootLine(s, r), NEW t \in DOMAIN s.roots, y = RootLine(s, t)
      PROVE  x = y
  <2>1. r \in Nat \ {0} /\ t \in Nat \ {0} /\ (<<r>> = <<t>> \/ RootChan(r) = RootChan(t))
    BY <1>1, <1>3 DEF RootLine
  <2>2. r = t
    <3>1. CASE <<r>> = <<t>>
      BY <3>1
    <3>2. CASE RootChan(r) = RootChan(t)
      <4>1. RootChan(r)[2] = r - 1 /\ RootChan(t)[2] = t - 1
        BY DEF RootChan
      <4> QED
        BY <2>1, <3>2, <4>1
    <3> QED
      BY <2>1, <3>1, <3>2
  <2> QED
    BY <1>3, <2>2
<1>4. ASSUME NEW u \in Lines(s), NEW v \in Lines(s), u.key = v.key \/ u.chan = v.chan,
             NEW r \in DOMAIN s.roots, u = RootLine(s, r),
             NEW d \in Operations(s), NEW l \in 1 .. LanesOf(s, d.w), v = LaneLine(s, d, l)
      PROVE  FALSE
  <2>1. Append(d.path, l) = <<r>> \/ LaneChan(d, l) = RootChan(r)
    BY <1>4 DEF RootLine, LaneLine
  <2> QED
    BY <1>1, <1>2, <2>1, LaneLong
<1>5. ASSUME NEW d \in Operations(s), NEW l \in 1 .. LanesOf(s, d.w), x = LaneLine(s, d, l),
             NEW g \in Operations(s), NEW m \in 1 .. LanesOf(s, g.w), y = LaneLine(s, g, m)
      PROVE  x = y
  <2>1. Append(d.path, l) = Append(g.path, m) \/ LaneChan(d, l) = LaneChan(g, m)
    BY <1>5 DEF LaneLine
  <2>2. d = g /\ l = m
    BY <1>2, <2>1, LaneLineApart
  <2> QED
    BY <1>5, <2>2
<1>6. CASE \E r \in DOMAIN s.roots : x = RootLine(s, r)
  BY <1>3, <1>4, <1>6, LineIs
<1>7. CASE \E d \in Operations(s) : \E l \in 1 .. LanesOf(s, d.w) : x = LaneLine(s, d, l)
  BY <1>4, <1>5, <1>7, LineIs
<1> QED
  BY <1>6, <1>7, LineIs

\* An earlier item of a line, and what is below it, comes before a later one.
LEMMA LineBefore ==
  ASSUME NEW s \in Sessions, NEW x \in Lines(s), NEW i \in DOMAIN x.items, NEW j \in DOMAIN x.items, i < j,
         NEW a \in Path, NEW b \in Path, IsPrefix(x.items[i].path, a), IsPrefix(x.items[j].path, b)
  PROVE  Before(a, b)
<1>1. x.base \in Path /\ Ordered(x.base, x.items)
  BY LineFacts DEF LineOK
<1>2. PICK m \in Nat, n \in Nat : /\ m < n /\ x.items[i].path = Append(x.base, m)
                                  /\ x.items[j].path = Append(x.base, n)
  BY <1>1 DEF Ordered
<1> QED
  BY <1>1, <1>2, BranchesBefore

\* An item is in one line, once.
LEMMA ItemsApart ==
  ASSUME NEW s \in Sessions, NEW x \in Lines(s), NEW y \in Lines(s),
         NEW i \in DOMAIN x.items, NEW j \in DOMAIN y.items, x.items[i].path = y.items[j].path
  PROVE  x = y /\ i = j
<1>1. LineOK(s, x) /\ LineOK(s, y)
  BY LineFacts
<1>2. PICK q \in Seq(ItemSet), o \in Seq(ItemSet) : q = x.items /\ o = y.items
  BY <1>1 DEF LineOK
<1>3. x.chan \in Path /\ y.chan \in Path /\ i \in DOMAIN q /\ j \in DOMAIN o
  BY <1>1, <1>2 DEF LineOK
<1>4. PICK e \in Plan(s), f \in Plan(s) : e = Entry(q, i, x.chan) /\ f = Entry(o, j, y.chan)
  BY <1>1, <1>2 DEF LineOK
<1>5. e.path = q[i].path /\ e.chan = x.chan /\ f.path = o[j].path /\ f.chan = y.chan
  BY <1>3, <1>4, EntryIs
<1>6. e = f
  BY <1>2, <1>4, <1>5, OnePath
<1>7. x = y
  BY <1>5, <1>6, LinesApart
<1>8. i \in Nat /\ j \in Nat /\ q[i].path \in Path /\ q[i] \in ItemSet
  <2>1. q[i] \in ItemSet /\ i \in Nat /\ j \in Nat
    BY <1>3
  <2> QED
    BY <2>1 DEF ItemSet
<1>9. IsPrefix(q[i].path, q[i].path)
  BY <1>8, PrefixOrder
<1>10. ~(i < j) /\ ~(j < i)
  <2>1. i < j => Before(q[i].path, q[i].path)
    BY <1>2, <1>7, <1>8, <1>9, LineBefore
  <2>2. j < i => Before(q[i].path, q[i].path)
    BY <1>2, <1>7, <1>8, <1>9, LineBefore
  <2> QED
    BY <1>8, <2>1, <2>2, BeforeOnce
<1> QED
  BY <1>7, <1>8, <1>10

-----------------------------------------------------------------------------
(* Tasks and lines *)

\* What task t still has to do of line x.
RestOf(x, t) ==
  /\ Len(x.items) = Len(t.out) + Len(t.queue)
  /\ \A j \in DOMAIN t.queue : t.queue[j] = x.items[Len(t.out) + j]

\* The task has done the first items of the line and has the others to do,
\* unless it gave up after a failure.
Follows(x, t) ==
  /\ t.kind = x.kind /\ Len(t.out) <= Len(x.items)
  /\ \A i \in 1 .. Len(t.out) : t.out[i].path = x.items[i].path
  /\ t.queue # <<>> => RestOf(x, t)
  /\ t.queue = <<>> => Len(t.out) = Len(x.items) \/ (Failing(t) /\ t.kind \in {"root", "try"})

AllFollow(s, T) == \A k \in DOMAIN T : \E x \in Lines(s) : x.key = k /\ Follows(x, T[k])

\* The lanes a waiting task waits for are there.
LanesAt(T) ==
  \A k \in DOMAIN T : T[k].phase = "wait" =>
    \A c \in LaneKeys(Head(T[k].queue).path, Lanes(Head(T[k].queue).w)) : c \in DOMAIN T /\ ~T[c].cancelled

\* A task is as far as before.
Idle(u, t) == u.queue = t.queue /\ u.out = t.out /\ u.kind = t.kind

\* A task ends the item it is at with result r.
Done(u, t, r) ==
  /\ t.queue # <<>> /\ r \in ResultSet /\ r.path = Head(t.queue).path
  /\ u.queue = IF ~r.ok /\ t.kind \in {"root", "try"} THEN <<>> ELSE Tail(t.queue)
  /\ u.out = Append(t.out, r) /\ u.kind = t.kind /\ u.chan = t.chan
  /\ u.phase = "run" /\ u.cancelled = t.cancelled

\* A task that begins line x.
Begins(x, u) ==
  /\ u.queue = x.items /\ u.out = <<>> /\ u.kind = x.kind /\ u.phase = "run" /\ ~u.cancelled

\* A task that does nothing to its work stays on its line.
LEMMA IdleFollows ==
  ASSUME NEW x, NEW t, NEW u, Follows(x, t), Idle(u, t)
  PROVE  Follows(x, u)
BY DEF Follows, Idle, RestOf, Failing

\* A task that begins a line is on it.
LEMMA BeginsFollows ==
  ASSUME NEW s \in Sessions, NEW x \in Lines(s), NEW u, Begins(x, u)
  PROVE  Follows(x, u)
<1>1. PICK q \in Seq(ItemSet) : q = x.items
  BY LineFacts DEF LineOK
<1>2. u.queue = q /\ u.out = <<>> /\ u.kind = x.kind /\ Len(u.out) = 0 /\ Len(q) \in Nat
  BY <1>1 DEF Begins
<1>3. \A j \in DOMAIN q : q[j] = q[0 + j]
  OBVIOUS
<1>4. u.queue = <<>> => Len(u.out) = Len(q)
  BY <1>2
<1> QED
  BY <1>1, <1>2, <1>3, <1>4 DEF Follows, RestOf

\* A task that ends an item stays on its line.
LEMMA DoneFollows ==
  ASSUME NEW s \in Sessions, NEW x \in Lines(s), NEW t \in TaskSet, NEW u, NEW r,
         Follows(x, t), Done(u, t, r)
  PROVE  Follows(x, u)
<1>1. PICK items \in Seq(ItemSet) : items = x.items
  BY LineFacts DEF LineOK
<1>2. PICK q \in Seq(ItemSet), o \in Seq(ResultSet) : q = t.queue /\ o = t.out
  BY DEF TaskSet
<1>3. PICK n \in Nat, m \in Nat : n = Len(o) /\ m = Len(q) /\ m > 0 /\ q # <<>>
  BY <1>2 DEF Done
<1>4. r \in ResultSet /\ r.path = Head(q).path /\ Head(q) = q[1] /\ 1 \in DOMAIN q
  BY <1>2, <1>3 DEF Done
<1>5. /\ Len(items) = n + m /\ \A j \in 1 .. m : q[j] = items[n + j]
      /\ \A i \in 1 .. n : o[i].path = items[i].path
  <2>1. RestOf(x, t) /\ \A i \in 1 .. Len(t.out) : t.out[i].path = x.items[i].path
    BY <1>2, <1>3 DEF Follows
  <2>2. /\ Len(items) = Len(o) + Len(q) /\ \A j \in DOMAIN q : q[j] = items[Len(o) + j]
        /\ \A i \in 1 .. Len(o) : o[i].path = items[i].path
    BY <1>1, <1>2, <2>1 DEF RestOf
  <2>3. DOMAIN q = 1 .. m
    BY <1>3
  <2> QED
    BY <1>3, <2>2, <2>3
<1>6. PICK v : v = Append(o, r)
  OBVIOUS
<1>7. v \in Seq(ResultSet) /\ Len(v) = n + 1 /\ v[n + 1] = r /\ \A i \in 1 .. n : v[i] = o[i]
  BY <1>3, <1>4, <1>6
<1>8. u.out = v /\ u.kind = x.kind /\ u.kind = t.kind
  BY <1>2, <1>6 DEF Done, Follows
<1>9. n + 1 <= n + m
  BY <1>3
<1>10. \A i \in 1 .. n + 1 : v[i].path = items[i].path
  <2>1. v[n + 1].path = items[n + 1].path
    BY <1>3, <1>4, <1>5, <1>7
  <2>2. \A i \in 1 .. n + 1 : i \in 1 .. n \/ i = n + 1
    OBVIOUS
  <2> QED
    BY <1>5, <1>7, <2>1, <2>2
<1>11. CASE ~r.ok /\ t.kind \in {"root", "try"}
  <2>1. u.queue = <<>>
    BY <1>11 DEF Done
  <2>2. r \in ToSet(v)
    BY <1>7 DEF ToSet
  <2>3. Failing(u)
    BY <1>8, <1>11, <2>2 DEF Failing
  <2> QED
    BY <1>1, <1>5, <1>7, <1>8, <1>9, <1>10, <1>11, <2>1, <2>3 DEF Follows
<1>12. CASE ~(~r.ok /\ t.kind \in {"root", "try"})
  <2>1. PICK y : y = Tail(q)
    OBVIOUS
  <2>2. u.queue = y
    BY <1>2, <1>12, <2>1 DEF Done
  <2>3. y \in Seq(ItemSet) /\ Len(y) = m - 1 /\ \A j \in 1 .. m - 1 : y[j] = q[j + 1]
    BY <1>3, <2>1
  <2>4. y = <<>> => n + 1 = Len(items)
    <3> SUFFICES ASSUME y = <<>> PROVE n + 1 = Len(items)
      OBVIOUS
    <3>1. Len(y) = 0
      OBVIOUS
    <3>2. m - 1 = 0
      BY <2>3, <3>1
    <3>3. m = 1
      BY <3>2
    <3> QED
      BY <1>5, <3>3
  <2>5. Len(items) = (n + 1) + (m - 1)
    BY <1>5
  <2>6. \A j \in 1 .. m - 1 : y[j] = items[(n + 1) + j]
    <3> SUFFICES ASSUME NEW j \in 1 .. m - 1 PROVE y[j] = items[(n + 1) + j]
      OBVIOUS
    <3>1. j + 1 \in 1 .. m /\ n + (j + 1) = (n + 1) + j
      BY <1>3
    <3> QED
      BY <1>5, <2>3, <3>1
  <2>7. DOMAIN y = 1 .. m - 1
    BY <2>3
  <2>8. RestOf(x, u)
    BY <1>1, <1>7, <1>8, <2>2, <2>3, <2>5, <2>6, <2>7 DEF RestOf
  <2> QED
    BY <1>1, <1>5, <1>7, <1>8, <1>9, <1>10, <2>2, <2>4, <2>8 DEF Follows
<1> QED
  BY <1>11, <1>12

\* The item a task is at is one of its line.
LEMMA HeadOf ==
  ASSUME NEW s \in Sessions, NEW x \in Lines(s), NEW t \in TaskSet, Follows(x, t), t.queue # <<>>
  PROVE  /\ Len(t.out) + 1 \in DOMAIN x.items /\ Head(t.queue) = x.items[Len(t.out) + 1]
         /\ Head(t.queue) = t.queue[1] /\ 1 \in DOMAIN t.queue
         /\ \A j \in DOMAIN t.queue : /\ j \in Nat \ {0} /\ Len(t.out) + j \in DOMAIN x.items
                                      /\ t.queue[j] = x.items[Len(t.out) + j] /\ t.queue[j].path \in Path
<1>1. PICK items \in Seq(ItemSet) : items = x.items
  BY LineFacts DEF LineOK
<1>2. PICK q \in Seq(ItemSet), o \in Seq(ResultSet) : q = t.queue /\ o = t.out
  BY DEF TaskSet
<1>3. PICK n \in Nat, m \in Nat : n = Len(o) /\ m = Len(q) /\ m > 0
  BY <1>2
<1>4. Len(items) = n + m /\ \A j \in 1 .. m : q[j] = items[n + j]
  <2>1. RestOf(x, t)
    BY DEF Follows
  <2>2. Len(items) = Len(o) + Len(q) /\ \A j \in DOMAIN q : q[j] = items[Len(o) + j]
    BY <1>1, <1>2, <2>1 DEF RestOf
  <2>3. DOMAIN q = 1 .. m
    BY <1>3
  <2> QED
    BY <1>3, <2>2, <2>3
<1>5. Head(q) = q[1] /\ 1 \in 1 .. m /\ DOMAIN q = 1 .. m /\ DOMAIN items = 1 .. n + m
  BY <1>3, <1>4
<1>6. \A j \in 1 .. m : j \in Nat \ {0} /\ n + j \in 1 .. n + m
  OBVIOUS
<1>7. \A j \in 1 .. m : q[j] \in ItemSet
  BY <1>3
<1>8. \A j \in 1 .. m : q[j].path \in Path
  BY <1>7 DEF ItemSet
<1> QED
  BY <1>1, <1>2, <1>3, <1>4, <1>5, <1>6, <1>8

\* Two tasks are not at the same item.
LEMMA HeadsApart ==
  ASSUME NEW s \in Sessions, NEW T, IsTasks(T), AllFollow(s, T), NEW j \in DOMAIN T, NEW k \in DOMAIN T,
         T[j].queue # <<>>, T[k].queue # <<>>, Head(T[j].queue).path = Head(T[k].queue).path
  PROVE  j = k
<1>1. PICK x \in Lines(s) : x.key = j /\ Follows(x, T[j])
  BY DEF AllFollow
<1>2. PICK y \in Lines(s) : y.key = k /\ Follows(y, T[k])
  BY DEF AllFollow
<1>3. PICK t \in TaskSet, u \in TaskSet : t = T[j] /\ u = T[k]
  BY DEF IsTasks
<1>4. PICK m, n : m = Len(t.out) + 1 /\ n = Len(u.out) + 1
  OBVIOUS
<1>5. m \in DOMAIN x.items /\ Head(t.queue) = x.items[m] /\ n \in DOMAIN y.items /\ Head(u.queue) = y.items[n]
  BY <1>1, <1>2, <1>3, <1>4, HeadOf
<1>6. x = y
  BY <1>3, <1>5, ItemsApart
<1> QED
  BY <1>1, <1>2, <1>6

-----------------------------------------------------------------------------
(***************************************************************************)
(* What the steps do.                                                      *)
(***************************************************************************)
ShapeOK ==
  /\ closed = [p \in Parties |-> closed[p]] /\ box = [p \in Parties |-> box[p]]
  /\ mux.waiting = [p \in Parties |-> mux.waiting[p]]

\* A task but for its fork counter and its being cancelled.
Copied(u, t) ==
  /\ u.queue = t.queue /\ u.out = t.out /\ u.kind = t.kind /\ u.chan = t.chan /\ u.phase = t.phase

\* Task k ends its item with result r, tasks D go, tasks M may be cancelled.
Ending(T, U, k, r, D, M) ==
  /\ k \in DOMAIN T /\ k \notin D /\ DOMAIN U = DOMAIN T \ D
  /\ Done(U[k], T[k], r)
  /\ \A j \in DOMAIN U \ {k} : Copied(U[j], T[j]) /\ (U[j].cancelled = T[j].cancelled \/ j \in M)

\* The same of party p, which closes channels N and, if task k is done, its.
EndStep(p, k, r, D, M, N) ==
  /\ Ending(tasks[p], tasks'[p], k, r, D, M)
  /\ \A q \in Parties \ {p} : tasks'[q] = tasks[q] /\ closed'[q] = closed[q]
  /\ closed' = [q \in Parties |-> closed'[q]]
  /\ \E C \in {{}, {tasks[p][k].chan}} :
       /\ closed'[p] = closed[p] \cup N \cup C
       /\ C # {} => tasks'[p][k].queue = <<>> /\ (Single => Failing(tasks'[p][k]))
  /\ \A q \in Parties : Sent(q)' = Sent(q)

\* Finish is the end of an item.
LEMMA FinishDone ==
  ASSUME NEW t \in TaskSet, t.queue # <<>>, NEW r \in ResultSet, r.path = Head(t.queue).path,
         NEW u, u = Finish(t, r)
  PROVE  Done(u, t, r)
<1>1. PICK q, o : /\ q = IF ~r.ok /\ t.kind \in {"root", "try"} THEN <<>> ELSE Tail(t.queue)
                  /\ o = Append(t.out, r)
  OBVIOUS
<1>2. u = [t EXCEPT !.queue = q, !.out = o, !.phase = "run"]
  BY <1>1 DEF Finish
<1>3. /\ u.queue = q /\ u.out = o /\ u.kind = t.kind /\ u.chan = t.chan /\ u.phase = "run"
      /\ u.cancelled = t.cancelled
  BY <1>2 DEF TaskSet
<1> QED
  BY <1>1, <1>3 DEF Done

\* A context that is dropped on a single channel is the caller's that gave up.
LEMMA DropsFacts ==
  ASSUME NEW t, DropsContext(t)
  PROVE  t.queue = <<>> /\ (Single => Failing(t))
BY DEF DropsContext, Finished, OwnsChannel

\* Ends, whatever becomes of the other tasks, is a step of the kind above.
LEMMA EndsEffect ==
  ASSUME TypeOK, ShapeOK, NEW p \in Parties, NEW k \in DOMAIN tasks[p], NEW t \in TaskSet, t = tasks[p][k],
         t.queue # <<>>, NEW r \in ResultSet, r.path = Head(t.queue).path,
         NEW others, IsTasks(others), Ends(p, k, r, others), NEW D, NEW M, k \notin D,
         DOMAIN others = DOMAIN tasks[p] \ D,
         \A j \in DOMAIN others : /\ Copied(others[j], tasks[p][j])
                                  /\ others[j].cancelled = tasks[p][j].cancelled \/ j \in M,
         \A q \in Parties : Sent(q)' = Sent(q)
  PROVE  EndStep(p, k, r, D, M, {})
<1>1. k \in Path
  BY TaskFacts
<1>2. /\ \A q \in Parties \ {p} : tasks'[q] = tasks[q]
      /\ DOMAIN tasks'[p] = {k} \cup DOMAIN others
      /\ tasks'[p][k] = Finish(t, r)
      /\ \A j \in DOMAIN others \ {k} : tasks'[p][j] = others[j]
  BY <1>1, EndsFacts
<1>3. PICK u : u = Finish(t, r)
  OBVIOUS
<1>4. Done(u, t, r)
  BY <1>3, FinishDone
<1>5. Ending(tasks[p], tasks'[p], k, r, D, M)
  BY <1>2, <1>3, <1>4 DEF Ending
<1>6. PICK C : C = IF DropsContext(u) THEN {u.chan} ELSE {}
  OBVIOUS
<1>7. closed' = [closed EXCEPT ![p] = @ \cup C]
  BY <1>3, <1>6 DEF Ends
<1>8. closed'[p] = closed[p] \cup C /\ \A q \in Parties \ {p} : closed'[q] = closed[q]
  BY <1>7 DEF ShapeOK
<1>9. closed' = [q \in Parties |-> closed'[q]]
  BY <1>7 DEF ShapeOK
<1>10. C \in {{}, {t.chan}} /\ (C # {} => u.queue = <<>> /\ (Single => Failing(u)))
  BY <1>4, <1>6, DropsFacts DEF Done
<1>11. \E A \in {{}, {tasks[p][k].chan}} :
         /\ closed'[p] = closed[p] \cup {} \cup A
         /\ A # {} => tasks'[p][k].queue = <<>> /\ (Single => Failing(tasks'[p][k]))
  BY <1>2, <1>3, <1>8, <1>10
<1> QED
  BY <1>2, <1>5, <1>8, <1>9, <1>11 DEF EndStep

\* What an observer notes.
LEMMA NoteIs ==
  ASSUME TypeOK, NEW r \in ResultSet, NEW wrong \in BOOLEAN, Note(r, wrong)
  PROVE  /\ \A q \in Parties : Sent(q)' = Sent(q)
         /\ seen'.trouble = (seen.trouble \/ ~r.ok)
         /\ seen'.misread = seen.misread \cup (IF wrong THEN {[path |-> r.path, late |-> seen.trouble]} ELSE {})
<1>1. PICK m, b : /\ m = seen.misread \cup (IF wrong THEN {[path |-> r.path, late |-> seen.trouble]} ELSE {})
                  /\ b = (seen.trouble \/ ~r.ok)
  OBVIOUS
<1>2. seen' = [seen EXCEPT !.trouble = b, !.misread = m]
  BY <1>1 DEF Note
<1>3. seen'.trouble = b /\ seen'.misread = m
  BY <1>2 DEF TypeOK
<1>4. \A q \in Parties : Sent(q)' = Sent(q)
  BY NoteFacts DEF Quiet
<1> QED
  BY <1>1, <1>3, <1>4

\* Task k sends the path of its item.
Sending(p, k) ==
  LET t == tasks[p][k]
      e == Head(t.queue).path
      q == Peer(p)
      U == tasks'[p]
  IN  /\ t.queue # <<>> /\ t.phase = "run" /\ Head(t.queue).w.k \notin Ops /\ t.chan \notin closed[q]
      /\ DOMAIN U = DOMAIN tasks[p] /\ Idle(U[k], t) /\ U[k].chan = t.chan /\ U[k].phase = "recv"
      /\ U[k].cancelled = t.cancelled
      /\ \A j \in DOMAIN U \ {k} : U[j] = tasks[p][j]
      /\ tasks'[q] = tasks[q]
      /\ box' = [box EXCEPT ![q] = [box[q] EXCEPT ![t.chan] = Append(box[q][t.chan], e)]]
      /\ Sent(p)' = Sent(p) \cup {e} /\ Sent(q)' = Sent(q)
      /\ closed' = closed /\ mux' = mux
      /\ seen'.misread = seen.misread /\ seen'.trouble = seen.trouble

\* Task k fails to send: the peer has given up on the channel.
SendFails(p, k) ==
  LET t == tasks[p][k]
  IN  /\ t.phase = "run" /\ Head(t.queue).w.k \notin Ops /\ t.chan \in closed[Peer(p)]
      /\ \E r \in ResultSet : ~r.ok /\ EndStep(p, k, r, {}, {}, {})
      /\ box' = box /\ mux' = mux /\ seen'.misread = seen.misread /\ seen'.trouble

\* Send writes the message of the item, or fails because the peer has closed.
LEMMA SendEffect ==
  ASSUME TypeOK, ShapeOK, NEW p \in Parties, NEW k \in DOMAIN tasks[p], Send(p, k)
  PROVE  session' = session /\ next' = next /\ (Sending(p, k) \/ SendFails(p, k))
<1>1. PICK t, q : t = tasks[p][k] /\ q = Peer(p)
  OBVIOUS
<1>2. /\ ~Finished(t) /\ t.phase = "run" /\ Item(t).w.k \notin Ops
      /\ session' = session /\ next' = next /\ mux' = mux
  BY <1>1 DEF Send
<1>3. /\ k \in Path /\ t \in TaskSet /\ PhaseFits(t) /\ IsTasks(tasks[p])
      /\ t.queue # <<>> /\ Item(t) = Head(t.queue) /\ Item(t).path \in Path
  BY <1>1, <1>2, TaskFacts DEF Item
<1>4. q \in Parties /\ q # p /\ Parties = {p, q}
  BY <1>1 DEF Peer, Parties
<1>5. CASE t.chan \in closed[q]
  <2>1. PICK r : r = [path |-> Item(t).path, ok |-> FALSE]
    OBVIOUS
  <2>2. r \in ResultSet /\ ~r.ok /\ r.path = Head(t.queue).path
    BY <1>3, <2>1 DEF ResultSet
  <2>3. Ends(p, k, r, tasks[p]) /\ Note(r, FALSE) /\ box' = box
    BY <1>1, <1>5, <2>1 DEF Send
  <2>4. /\ \A x \in Parties : Sent(x)' = Sent(x)
        /\ seen'.trouble /\ seen'.misread = seen.misread
    BY <2>2, <2>3, NoteIs
  <2>5. \A j \in DOMAIN tasks[p] : Copied(tasks[p][j], tasks[p][j])
    BY DEF Copied
  <2>6. DOMAIN tasks[p] = DOMAIN tasks[p] \ {} /\ k \notin {}
    OBVIOUS
  <2>7. EndStep(p, k, r, {}, {}, {})
    BY <1>1, <1>3, <2>2, <2>3, <2>4, <2>5, <2>6, EndsEffect
  <2>8. SendFails(p, k)
    BY <1>1, <1>2, <1>3, <1>5, <2>2, <2>3, <2>4, <2>7 DEF SendFails
  <2> QED
    BY <1>2, <2>8
<1>6. CASE t.chan \notin closed[q]
  <2>1. PICK e, u, U : /\ e = Item(t).path /\ u = [t EXCEPT !.phase = "recv"]
                       /\ U = [tasks[p] EXCEPT ![k] = u]
    OBVIOUS
  <2>2. /\ tasks' = [tasks EXCEPT ![p] = U] /\ closed' = closed
        /\ seen' = [seen EXCEPT !.sent = @ \cup {<<p, e>>}]
        /\ box' = [box EXCEPT ![q] = [box[q] EXCEPT ![t.chan] = Append(box[q][t.chan], e)]]
    BY <1>1, <1>6, <2>1 DEF Send
  <2>3. Idle(u, t) /\ u.chan = t.chan /\ u.phase = "recv" /\ u.cancelled = t.cancelled
    BY <1>3, <2>1 DEF TaskSet, Idle
  <2>4. DOMAIN U = DOMAIN tasks[p] /\ U[k] = u /\ \A j \in DOMAIN tasks[p] \ {k} : U[j] = tasks[p][j]
    BY <1>3, <2>1 DEF IsTasks
  <2>5. tasks'[p] = U /\ tasks'[q] = tasks[q]
    BY <1>4, <2>2 DEF TypeOK
  <2>6. PICK E, F : E = seen.sent /\ F = E \cup {<<p, e>>}
    OBVIOUS
  <2>7. seen'.sent = F /\ seen'.misread = seen.misread /\ seen'.trouble = seen.trouble
    BY <2>2, <2>6 DEF TypeOK
  <2>8. Sent(p)' = Sent(p) \cup {e} /\ Sent(q)' = Sent(q)
    <3>1. \A x \in Parties : Sent(x)' = OfParty(F, x) /\ Sent(x) = OfParty(E, x)
      BY <2>6, <2>7 DEF Sent
    <3>2. e \in Path
      BY <1>3, <2>1
    <3>3. ASSUME NEW x \in Parties
          PROVE  /\ x = p => OfParty(F, x) = OfParty(E, x) \cup {e}
                 /\ x # p => OfParty(F, x) = OfParty(E, x)
      BY <2>6, <3>2, ProjectAdd
    <3> QED
      BY <1>4, <3>1, <3>3
  <2>9. e = Head(t.queue).path
    BY <1>3, <2>1
  <2>10. box' = [box EXCEPT ![Peer(p)] = [box[Peer(p)] EXCEPT
                   ![tasks[p][k].chan] = Append(box[Peer(p)][tasks[p][k].chan], Head(tasks[p][k].queue).path)]]
    BY <1>1, <2>2, <2>9, Zenon
  <2>11. /\ DOMAIN tasks'[p] = DOMAIN tasks[p] /\ Idle(tasks'[p][k], t) /\ tasks'[p][k].chan = t.chan
         /\ tasks'[p][k].phase = "recv" /\ tasks'[p][k].cancelled = t.cancelled
         /\ \A j \in DOMAIN tasks'[p] \ {k} : tasks'[p][j] = tasks[p][j]
    BY <2>3, <2>4, <2>5, Zenon
  <2>12. Sending(p, k)
    BY <1>1, <1>2, <1>3, <1>6, <2>2, <2>5, <2>7, <2>8, <2>9, <2>10, <2>11, Zenon DEF Sending
  <2> QED
    BY <1>2, <2>12
<1> QED
  BY <1>5, <1>6

\* Task k reads, or finds that the peer has given up on the channel.
Reading(p, k, r) ==
  LET t == tasks[p][k]
      inbox == box[p][t.chan]
  IN  /\ t.queue # <<>> /\ t.phase = "recv" /\ EndStep(p, k, r, {}, {}, {}) /\ mux' = mux
      /\ seen'.trouble = (seen.trouble \/ ~r.ok)
      /\ \/ /\ inbox # <<>>
            /\ box' = [box EXCEPT ![p] = [box[p] EXCEPT ![t.chan] = Tail(inbox)]]
            /\ seen'.misread = seen.misread \cup (IF Head(inbox) # r.path
                                                  THEN {[path |-> r.path, late |-> seen.trouble]} ELSE {})
         \/ /\ inbox = <<>> /\ t.chan \in closed[Peer(p)] /\ ~r.ok
            /\ box' = box /\ seen'.misread = seen.misread

\* Receive takes the head of the inbox, whichever result it gives.
LEMMA ReceiveEffect ==
  ASSUME TypeOK, ShapeOK, NEW p \in Parties, NEW k \in DOMAIN tasks[p], Receive(p, k)
  PROVE  session' = session /\ next' = next /\ \E r \in ResultSet : Reading(p, k, r)
<1>1. PICK t, inbox : t = tasks[p][k] /\ inbox = box[p][t.chan]
  OBVIOUS
<1>2. PICK r : r = [path |-> Item(t).path, ok |-> inbox # <<>> /\ ~(Item(t).w.k = "bad" /\ p = "B")]
  OBVIOUS
<1>3. PICK wrong : wrong = (inbox # <<>> /\ Head(inbox) # r.path)
  OBVIOUS
<1>4. /\ ~Finished(t) /\ t.phase = "recv" /\ (inbox # <<>> \/ t.chan \in closed[Peer(p)])
      /\ session' = session /\ next' = next /\ mux' = mux
      /\ Ends(p, k, r, tasks[p]) /\ Note(r, wrong)
      /\ box' = IF inbox = <<>> THEN box ELSE [box EXCEPT ![p] = [box[p] EXCEPT ![t.chan] = Tail(inbox)]]
  BY <1>1, <1>2, <1>3 DEF Receive
<1>5. /\ k \in Path /\ t \in TaskSet /\ PhaseFits(t) /\ IsTasks(tasks[p])
      /\ t.queue # <<>> /\ Item(t) = Head(t.queue) /\ Item(t).path \in Path
  BY <1>1, <1>4, TaskFacts DEF Item
<1>6. r \in ResultSet /\ wrong \in BOOLEAN /\ r.path = Head(t.queue).path
  BY <1>2, <1>3, <1>5 DEF ResultSet
<1>7. /\ \A x \in Parties : Sent(x)' = Sent(x)
      /\ seen'.trouble = (seen.trouble \/ ~r.ok)
      /\ seen'.misread = seen.misread \cup (IF wrong THEN {[path |-> r.path, late |-> seen.trouble]} ELSE {})
  BY <1>4, <1>6, NoteIs
<1>8. \A j \in DOMAIN tasks[p] : Copied(tasks[p][j], tasks[p][j])
  BY DEF Copied
<1>9. DOMAIN tasks[p] = DOMAIN tasks[p] \ {} /\ k \notin {}
  OBVIOUS
<1>10. EndStep(p, k, r, {}, {}, {})
  BY <1>1, <1>4, <1>5, <1>6, <1>7, <1>8, <1>9, EndsEffect
<1>11. CASE inbox # <<>>
  <2>1. /\ box' = [box EXCEPT ![p] = [box[p] EXCEPT ![t.chan] = Tail(inbox)]]
        /\ wrong = (Head(inbox) # r.path)
    BY <1>3, <1>4, <1>11
  <2>2. Reading(p, k, r)
    BY <1>1, <1>4, <1>5, <1>7, <1>10, <1>11, <2>1 DEF Reading
  <2> QED
    BY <1>4, <1>6, <2>2
<1>12. CASE inbox = <<>>
  <2>1. box' = box /\ ~wrong /\ t.chan \in closed[Peer(p)] /\ ~r.ok
    BY <1>2, <1>3, <1>4, <1>12
  <2>2. Reading(p, k, r)
    BY <1>1, <1>4, <1>5, <1>7, <1>10, <1>12, <2>1 DEF Reading
  <2> QED
    BY <1>4, <1>6, <2>2
<1> QED
  BY <1>11, <1>12


-----------------------------------------------------------------------------
(* Channels: what a party has opened, what waits in a box. *)
Opened(p) == mux.exists \ mux.waiting[p]
Inbox(p, c) == IF c \in DOMAIN box[p] THEN box[p][c] ELSE <<>>

\* Party p opens channels `ids'.
Opens(p, ids) ==
  /\ Opened(p)' = Opened(p) \cup ids /\ \A q \in Parties \ {p} : Opened(q)' = Opened(q)
  /\ \A q \in Parties : /\ DOMAIN box'[q] = DOMAIN box[q] \cup ids
                        /\ \A c : Inbox(q, c)' = Inbox(q, c)

\* A channel can be opened if the party has not opened it.
LEMMA CanOpenIs ==
  ASSUME NEW p, NEW id
  PROVE  CanOpen(mux, p, id) <=> id \notin Opened(p)
BY DEF CanOpen, Opened

\* What the multiplexer does for one party changes nothing for the other.
LEMMA OpenEffect ==
  ASSUME ShapeOK, NEW p \in Parties, NEW ids, mux' = Open(mux, p, ids), NewBoxes(p, ids)
  PROVE  Opens(p, ids)
<1>1. PICK q : q = Peer(p)
  OBVIOUS
<1>2. q \in Parties /\ q # p /\ Parties = {p, q}
  BY <1>1 DEF Peer, Parties
<1>3. PICK E, W : E = mux.exists /\ W = mux.waiting
  OBVIOUS
<1>4. mux' = [exists |-> E \cup ids, waiting |-> [W EXCEPT ![p] = @ \ ids, ![q] = @ \cup (ids \ E)]]
  BY <1>1, <1>3 DEF Open
<1>5. W = [x \in Parties |-> W[x]]
  BY <1>3 DEF ShapeOK
<1>6. mux'.exists = E \cup ids /\ mux'.waiting[p] = W[p] \ ids /\ mux'.waiting[q] = W[q] \cup (ids \ E)
  BY <1>2, <1>4, <1>5
<1>7. /\ Opened(p) = E \ W[p] /\ Opened(p)' = (E \cup ids) \ (W[p] \ ids)
      /\ Opened(q) = E \ W[q] /\ Opened(q)' = (E \cup ids) \ (W[q] \cup (ids \ E))
  BY <1>3, <1>6 DEF Opened
<1>8. Opened(p)' = Opened(p) \cup ids /\ Opened(q)' = Opened(q)
  BY <1>7
<1>9. PICK b : b = [id \in ids |-> <<>>]
  OBVIOUS
<1>10. box' = [box EXCEPT ![p] = Over(@, b), ![q] = Over(@, b)]
  BY <1>1, <1>9 DEF NewBoxes
<1>11. \A x \in Parties : box'[x] = Over(box[x], b)
  BY <1>2, <1>10 DEF ShapeOK
<1>12. ASSUME NEW x \in Parties
       PROVE  /\ DOMAIN box'[x] = DOMAIN box[x] \cup ids
              /\ \A c : Inbox(x, c)' = Inbox(x, c)
  <2>1. DOMAIN b = ids /\ \A c \in ids : b[c] = <<>>
    BY <1>9
  <2>2. PICK f, g : f = box[x] /\ g = Over(f, b)
    OBVIOUS
  <2>3. DOMAIN g = DOMAIN f \cup ids /\ \A c \in DOMAIN g : g[c] = IF c \in DOMAIN f THEN f[c] ELSE b[c]
    BY <2>1, <2>2 DEF Over
  <2>4. \A c : (IF c \in DOMAIN g THEN g[c] ELSE <<>>) = (IF c \in DOMAIN f THEN f[c] ELSE <<>>)
    BY <2>1, <2>3
  <2>5. box'[x] = g
    BY <1>11, <2>2
  <2> QED
    BY <2>2, <2>3, <2>4, <2>5 DEF Inbox
<1> QED
  BY <1>2, <1>8, <1>12 DEF Opens

\* Nothing is opened.
LEMMA NoneOpened ==
  ASSUME NEW p \in Parties, mux' = mux, box' = box
  PROVE  Opens(p, {})
BY DEF Opens, Opened, Inbox

\* What a step does to the boxes when a message is put or taken.
LEMMA BoxEffect ==
  ASSUME ShapeOK, mux' = mux, NEW q \in Parties, NEW c \in DOMAIN box[q], NEW m,
         box' = [box EXCEPT ![q] = [box[q] EXCEPT ![c] = m]]
  PROVE  /\ Inbox(q, c)' = m /\ Inbox(q, c) = box[q][c]
         /\ \A x \in Parties : \A d : x # q \/ d # c => Inbox(x, d)' = Inbox(x, d)
         /\ \A x \in Parties : DOMAIN box'[x] = DOMAIN box[x] /\ Opened(x)' = Opened(x)
<1>1. PICK f, g : f = box[q] /\ g = [f EXCEPT ![c] = m]
  OBVIOUS
<1>2. box'[q] = g /\ \A x \in Parties \ {q} : box'[x] = box[x]
  BY <1>1 DEF ShapeOK
<1>3. DOMAIN g = DOMAIN f /\ g[c] = m /\ \A d \in DOMAIN f \ {c} : g[d] = f[d]
  BY <1>1
<1>4. Inbox(q, c)' = m /\ Inbox(q, c) = box[q][c]
  BY <1>1, <1>2, <1>3 DEF Inbox
<1>5. \A d : d # c => Inbox(q, d)' = Inbox(q, d)
  BY <1>1, <1>2, <1>3 DEF Inbox
<1>6. \A x \in Parties \ {q} : \A d : Inbox(x, d)' = Inbox(x, d)
  BY <1>2 DEF Inbox
<1>7. \A x \in Parties : DOMAIN box'[x] = DOMAIN box[x]
  BY <1>1, <1>2, <1>3
<1>8. \A x \in Parties : Opened(x)' = Opened(x)
  BY DEF Opened
<1> QED
  BY <1>4, <1>5, <1>6, <1>7, <1>8

\* The parties stay two.
LEMMA ShapeNext ==
  ASSUME ShapeOK, [Next]_vars
  PROVE  ShapeOK'
<1>1. ASSUME NEW p \in Parties, NEW ids, mux' = Open(mux, p, ids)
      PROVE  mux'.waiting = [q \in Parties |-> mux'.waiting[q]]
  <2>1. PICK W : W = mux.waiting
    OBVIOUS
  <2>2. mux'.waiting = [W EXCEPT ![p] = @ \ ids, ![Peer(p)] = @ \cup (ids \ mux.exists)]
    BY <1>1, <2>1 DEF Open
  <2>3. W = [q \in Parties |-> W[q]]
    BY <2>1 DEF ShapeOK
  <2> QED
    BY <2>2, <2>3
<1>2. ASSUME NEW p \in Parties, NEW ids, NewBoxes(p, ids) PROVE box' = [q \in Parties |-> box'[q]]
  BY <1>2 DEF NewBoxes, ShapeOK
<1>3. ASSUME NEW p \in Parties, NEW N, closed' = [closed EXCEPT ![p] = N]
      PROVE  closed' = [q \in Parties |-> closed'[q]]
  BY <1>3 DEF ShapeOK
<1>4. ASSUME NEW p \in Parties, NEW k, NEW r, NEW others, Ends(p, k, r, others)
      PROVE  closed' = [q \in Parties |-> closed'[q]]
  BY <1>3, <1>4 DEF Ends
<1>5. ASSUME NEW p \in Parties, NEW b, box' = [box EXCEPT ![p] = b]
      PROVE  box' = [q \in Parties |-> box'[q]]
  BY <1>5 DEF ShapeOK
<1>6. mux' = mux => mux'.waiting = [q \in Parties |-> mux'.waiting[q]]
  BY DEF ShapeOK
<1>7. box' = box => box' = [q \in Parties |-> box'[q]]
  BY DEF ShapeOK
<1>8. closed' = closed => closed' = [q \in Parties |-> closed'[q]]
  BY DEF ShapeOK
<1>9. CASE UNCHANGED vars
  BY <1>6, <1>7, <1>8, <1>9 DEF vars, ShapeOK
<1>10. ASSUME NEW p \in Parties, NewContext(p) PROVE ShapeOK'
  BY <1>1, <1>2, <1>6, <1>7, <1>8, <1>10 DEF NewContext, ShapeOK
<1>11. ASSUME NEW p \in Parties, NEW k \in DOMAIN tasks[p], Send(p, k) PROVE ShapeOK'
  <2>1. Peer(p) \in Parties
    BY DEF Peer, Parties
  <2>2. closed' = [q \in Parties |-> closed'[q]]
    BY <1>4, <1>8, <1>11 DEF Send
  <2>3. box' = [q \in Parties |-> box'[q]]
    <3>1. box' = box \/ \E b : box' = [box EXCEPT ![Peer(p)] = b]
      BY <1>11 DEF Send
    <3> QED
      BY <1>5, <1>7, <2>1, <3>1
  <2>4. mux' = mux
    BY <1>11 DEF Send
  <2> QED
    BY <1>6, <2>2, <2>3, <2>4 DEF ShapeOK
<1>12. ASSUME NEW p \in Parties, NEW k \in DOMAIN tasks[p], Receive(p, k) PROVE ShapeOK'
  <2>1. closed' = [q \in Parties |-> closed'[q]]
    BY <1>4, <1>12 DEF Receive
  <2>2. box' = [q \in Parties |-> box'[q]]
    <3>1. box' = box \/ \E b : box' = [box EXCEPT ![p] = b]
      BY <1>12 DEF Receive
    <3> QED
      BY <1>5, <1>7, <3>1
  <2>3. mux' = mux
    BY <1>12 DEF Receive
  <2> QED
    BY <1>6, <2>1, <2>2, <2>3 DEF ShapeOK
<1>13. ASSUME NEW p \in Parties, NEW k \in DOMAIN tasks[p], Fork(p, k) PROVE ShapeOK'
  <2>1. closed' = closed /\ \E ids : mux' = Open(mux, p, ids) /\ NewBoxes(p, ids)
    BY <1>13 DEF Fork
  <2> QED
    BY <1>1, <1>2, <1>8, <2>1 DEF ShapeOK
<1>14. ASSUME NEW p \in Parties, NEW k \in DOMAIN tasks[p], ForkRefused(p, k) PROVE ShapeOK'
  <2>1. /\ \E N : closed' = [closed EXCEPT ![p] = N]
        /\ \E ids : mux' = Open(mux, p, ids) /\ NewBoxes(p, ids)
    BY <1>14 DEF ForkRefused
  <2> QED
    BY <1>1, <1>2, <1>3, <2>1 DEF ShapeOK
<1>15. ASSUME NEW p \in Parties, NEW k \in DOMAIN tasks[p], JoinLanes(p, k) PROVE ShapeOK'
  <2>1. /\ \E r, others : Ends(p, k, r, others)
        /\ mux' = mux /\ box' = box
    BY <1>15 DEF JoinLanes
  <2> QED
    BY <1>4, <1>6, <1>7, <2>1 DEF ShapeOK
<1>16. ASSUME NEW p \in Parties, NEW k \in DOMAIN tasks[p], DropTask(p, k) PROVE ShapeOK'
  <2>1. mux' = mux /\ box' = box /\ \E N : closed' = [closed EXCEPT ![p] = N]
    BY <1>16 DEF DropTask
  <2> QED
    BY <1>3, <1>6, <1>7, <2>1 DEF ShapeOK
<1> QED
  BY <1>9, <1>10, <1>11, <1>12, <1>13, <1>14, <1>15, <1>16 DEF Next, Step

-----------------------------------------------------------------------------
(* Operations: refused, forked, joined. *)

\* Task k is refused a lane.
Refusing(p, k, open) ==
  LET t == tasks[p][k]
  IN  /\ ~Single /\ t.queue # <<>> /\ t.phase = "run" /\ Head(t.queue).w.k \in Ops
      /\ \E r \in ResultSet : ~r.ok /\ EndStep(p, k, r, {}, {}, open)
      /\ Opens(p, open) /\ open \cap Opened(p) = {}
      /\ seen'.misread = seen.misread /\ seen'.trouble

\* The channels that are opened before a refusal are new.
LEMMA RefusedOpens ==
  ASSUME NEW p, NEW ids, NEW n \in Nat, DOMAIN ids = 1 .. n, NEW opened \in Refusals(p, ids), NEW l \in opened
  PROVE  ids[l] \notin Opened(p)
<1>1. PICK m : m = OpenedLanes(mux, p, ids)
  OBVIOUS
<1>2. m \subseteq 1 .. n /\ \A h \in m : \A i \in 1 .. h : CanOpen(mux, p, ids[i])
  BY <1>1 DEF OpenedLanes
<1>3. \A h \in m : CanOpen(mux, p, ids[h])
  <2> SUFFICES ASSUME NEW h \in m PROVE CanOpen(mux, p, ids[h])
    OBVIOUS
  <2>1. h \in 1 .. h
    BY <1>2
  <2> QED
    BY <1>2, <2>1
<1>4. CASE m # 1 .. n
  <2>1. opened = m
    BY <1>1, <1>4 DEF Refusals
  <2> QED
    BY <1>3, <2>1, CanOpenIs
<1>5. CASE m = 1 .. n
  <2>1. PICK cut \in 1 .. n : opened = 1 .. (cut - 1)
    BY <1>1, <1>5 DEF Refusals
  <2>2. l \in m
    BY <1>5, <2>1
  <2> QED
    BY <1>3, <2>2, CanOpenIs
<1> QED
  BY <1>4, <1>5

\* Nothing is refused on a single channel: nothing is opened there.
LEMMA NoneRefused ==
  ASSUME NEW p, NEW ids, ids = <<>>
  PROVE  Refusals(p, ids) = {}
BY DEF Refusals, OpenedLanes

\* ForkRefused opens some of the lanes' channels and fails the operation.
LEMMA RefuseEffect ==
  ASSUME TypeOK, ShapeOK, NEW p \in Parties, NEW k \in DOMAIN tasks[p], ForkRefused(p, k)
  PROVE  session' = session /\ next' = next /\ \E open : Refusing(p, k, open)
<1>1. PICK t, it, n, ids, r, v, u :
        /\ t = tasks[p][k] /\ it = Item(t) /\ n = Lanes(it.w) /\ ids = LaneIds(t, n)
        /\ r = [path |-> it.path, ok |-> FALSE] /\ v = [t EXCEPT !.fork = NextFork(t)] /\ u = Finish(v, r)
  OBVIOUS
<1>2. Forks(t) /\ session' = session /\ next' = next
  BY <1>1 DEF ForkRefused
<1>3. PICK opened, open, New :
        /\ opened \in Refusals(p, ids)
        /\ open = {ids[l] : l \in opened} /\ mux' = Open(mux, p, open) /\ NewBoxes(p, open)
        /\ New = CancelledLanes(t, it, n, {})
        /\ tasks' = [tasks EXCEPT ![p] = Over(One(k, u), Over(New, @))]
        /\ closed' = [closed EXCEPT ![p] = @ \cup {ids[l] : l \in opened \ {}} \cup
                                           (IF DropsContext(u) THEN {t.chan} ELSE {})]
  <2> DEFINE tt == tasks[p][k]
             ii == Item(tt)
             nn == Lanes(ii.w)
             ss == LaneIds(tt, nn)
             uu == Finish([tt EXCEPT !.fork = NextFork(tt)], [path |-> ii.path, ok |-> FALSE])
  <2>1. PICK opened \in Refusals(p, ss) :
          /\ mux' = Open(mux, p, {ss[l] : l \in opened}) /\ NewBoxes(p, {ss[l] : l \in opened})
          /\ tasks' = [tasks EXCEPT ![p] = Over(One(k, uu), Over(CancelledLanes(tt, ii, nn, {}), @))]
          /\ closed' = [closed EXCEPT ![p] = @ \cup {ss[l] : l \in opened \ {}} \cup
                                           (IF DropsContext(uu) THEN {tt.chan} ELSE {})]
    BY DEF ForkRefused, StartedOnRefusal, ForkAfterRefusal
  <2>2. t = tt /\ it = ii /\ n = nn /\ ids = ss /\ u = uu
    BY <1>1
  <2> HIDE DEF tt, ii, nn, ss, uu
  <2>3. PICK open, New : open = {ss[l] : l \in opened} /\ New = CancelledLanes(tt, ii, nn, {})
    OBVIOUS
  <2>4. opened \in Refusals(p, ids) /\ open = {ids[l] : l \in opened} /\ New = CancelledLanes(t, it, n, {})
    BY <2>1, <2>2, <2>3
  <2>5. mux' = Open(mux, p, open) /\ NewBoxes(p, open)
    BY <2>1, <2>3
  <2>6. tasks' = [tasks EXCEPT ![p] = Over(One(k, u), Over(New, @))]
    BY <2>1, <2>2, <2>3
  <2>7. closed' = [closed EXCEPT ![p] = @ \cup {ids[l] : l \in opened \ {}} \cup
                                           (IF DropsContext(u) THEN {t.chan} ELSE {})]
    BY <2>1, <2>2
  <2> QED
    BY <2>4, <2>5, <2>6, <2>7
<1>4. seen' = [seen EXCEPT !.trouble = TRUE, !.refused = @ \cup {<<p, it.path>>}]
  BY <1>1 DEF ForkRefused
<1>5. /\ k \in Path /\ t \in TaskSet /\ PhaseFits(t) /\ IsTasks(tasks[p])
      /\ t.queue # <<>> /\ it \in ItemSet /\ it = Head(t.queue) /\ it.path \in Path
      /\ t.phase = "run" /\ it.w.k \in Ops
  BY <1>1, <1>2, TaskFacts DEF Forks, Item
<1>6. ~Single
  BY <1>1, <1>3, NoneRefused DEF LaneIds
<1>7. DOMAIN ids = 1 .. n
  BY <1>1, <1>6 DEF LaneIds
<1>8. n \in Nat
  <2>1. ConcurrencyLimit \in Nat
    BY SessionsAssumption DEF ConcurrencyLimit, TypeOK
  <2>2. it.w \in Work /\ Len(it.w.subs) \in Nat
    BY <1>5, WorkAssumption DEF ItemSet
  <2> QED
    BY <1>1, <1>6, <2>1, <2>2 DEF Lanes, MapLanes
<1>9. open \cap Opened(p) = {}
  <2>0. opened \in Refusals(p, ids)
    BY <1>3
  <2>1. \A l \in opened : ids[l] \notin Opened(p)
    BY <1>7, <1>8, <2>0, RefusedOpens
  <2> QED
    BY <1>3, <2>1
<1>10. Opens(p, open)
  BY <1>3, OpenEffect
<1>11. r \in ResultSet /\ ~r.ok /\ r.path = Head(t.queue).path
  BY <1>1, <1>5 DEF ResultSet
<1>12. Done(u, t, r)
  <2>1. PICK f \in Nat : f = NextFork(t)
    BY <1>5 DEF NextFork, TaskSet
  <2>2. /\ v \in TaskSet /\ v.queue = t.queue /\ v.out = t.out /\ v.kind = t.kind /\ v.chan = t.chan
        /\ v.cancelled = t.cancelled
    BY <1>1, <1>5, <2>1 DEF TaskSet
  <2>3. Done(u, v, r)
    BY <1>1, <1>5, <1>11, <2>2, FinishDone
  <2> QED
    BY <2>2, <2>3 DEF Done
<1>13. PICK U : U = Over(One(k, u), Over(New, tasks[p]))
  OBVIOUS
<1>14. /\ DOMAIN U = DOMAIN tasks[p] /\ U[k] = u
       /\ \A j \in DOMAIN tasks[p] \ {k} : U[j] = tasks[p][j]
  <2>1. PICK V : V = Over(New, tasks[p])
    OBVIOUS
  <2>2. DOMAIN New = {}
    BY <1>3 DEF CancelledLanes
  <2>3. DOMAIN V = DOMAIN tasks[p] /\ \A j \in DOMAIN tasks[p] : V[j] = tasks[p][j]
    BY <2>1, <2>2 DEF Over
  <2>4. /\ DOMAIN Over(One(k, u), V) = {k} \cup DOMAIN V /\ Over(One(k, u), V)[k] = u
        /\ \A j \in DOMAIN V \ {k} : Over(One(k, u), V)[j] = V[j]
    BY DEF Over, One
  <2> QED
    BY <1>13, <2>1, <2>3, <2>4
<1>15. tasks'[p] = U /\ \A q \in Parties \ {p} : tasks'[q] = tasks[q]
  BY <1>3, <1>13 DEF TypeOK
<1>16. Ending(tasks[p], tasks'[p], k, r, {}, {})
  BY <1>1, <1>12, <1>14, <1>15 DEF Ending, Copied
<1>17. PICK C : C = IF DropsContext(u) THEN {t.chan} ELSE {}
  OBVIOUS
<1>18. closed' = [closed EXCEPT ![p] = @ \cup open \cup C]
  <2>1. opened \ {} = opened
    OBVIOUS
  <2> QED
    BY <1>3, <1>17, <2>1
<1>19. /\ closed'[p] = closed[p] \cup open \cup C /\ \A q \in Parties \ {p} : closed'[q] = closed[q]
       /\ closed' = [q \in Parties |-> closed'[q]]
  BY <1>18 DEF ShapeOK
<1>20. C \in {{}, {t.chan}} /\ (C # {} => u.queue = <<>> /\ (Single => Failing(u)))
  BY <1>17, DropsFacts
<1>21. \A q \in Parties : Sent(q)' = Sent(q)
  BY <1>4, <1>5, RefusalNoted
<1>22. EndStep(p, k, r, {}, {}, open)
  <2>1. tasks'[p][k] = u
    BY <1>14, <1>15
  <2> QED
    BY <1>1, <1>15, <1>16, <1>19, <1>20, <1>21, <2>1 DEF EndStep
<1>23. seen'.misread = seen.misread /\ seen'.trouble
  BY <1>4 DEF TypeOK
<1> QED
  BY <1>1, <1>2, <1>5, <1>6, <1>9, <1>10, <1>11, <1>22, <1>23 DEF Refusing

\* Task k forks: every lane's channel is new.
Forking(p, k) ==
  LET t == tasks[p][k]
      ids == IF Single THEN {} ELSE {LaneOf(t, l).chan : l \in 1 .. Lanes(Head(t.queue).w)}
  IN  /\ Spawned(tasks[p], tasks'[p], k) /\ \A q \in Parties \ {p} : tasks'[q] = tasks[q]
      /\ Opens(p, ids) /\ ids \cap Opened(p) = {}
      /\ closed' = closed /\ seen' = seen

\* Fork opens the lanes' channels and starts a task on each.
LEMMA ForkEffect ==
  ASSUME TypeOK, ShapeOK, NEW p \in Parties, NEW k \in DOMAIN tasks[p], Fork(p, k)
  PROVE  session' = session /\ next' = next /\ Forking(p, k)
<1>1. PICK t, it, n, ids : t = tasks[p][k] /\ it = Item(t) /\ n = Lanes(it.w) /\ ids = LaneIds(t, n)
  OBVIOUS
<1>2. /\ Forks(t) /\ session' = session /\ next' = next /\ closed' = closed /\ seen' = seen
      /\ OpenedLanes(mux, p, ids) = DOMAIN ids
      /\ mux' = Open(mux, p, ToSet(ids)) /\ NewBoxes(p, ToSet(ids))
  BY <1>1 DEF Fork
<1>3. it = Head(t.queue) /\ it \in ItemSet
  BY <1>1, <1>2, TaskFacts DEF Forks, Item
<1>4. Opens(p, ToSet(ids))
  BY <1>2, OpenEffect
<1>5. Spawned(tasks[p], tasks'[p], k) /\ \A q \in Parties \ {p} : tasks'[q] = tasks[q]
  BY ForkedStep DEF StepOf
<1>6. CASE Single
  <2>1. ToSet(ids) = {}
    BY <1>1, <1>6 DEF LaneIds, ToSet
  <2> QED
    BY <1>2, <1>4, <1>5, <1>6, <2>1 DEF Forking
<1>7. CASE ~Single
  <2>1. DOMAIN ids = 1 .. n
    BY <1>1, <1>7 DEF LaneIds
  <2>2. \A l \in 1 .. n : LaneOf(t, l).chan = ids[l]
    BY <1>1, <1>3, <1>7 DEF LaneOf, LaneTask, NewTask
  <2>3. ToSet(ids) = {ids[l] : l \in 1 .. n}
    BY <2>1 DEF ToSet
  <2>4. ToSet(ids) = {LaneOf(t, l).chan : l \in 1 .. n}
    BY <2>2, <2>3
  <2>5. ASSUME NEW l \in 1 .. n PROVE ids[l] \notin Opened(p)
    <3>1. l \in 1 .. l
      OBVIOUS
    <3>2. CanOpen(mux, p, ids[l])
      BY <1>2, <2>1, <3>1 DEF OpenedLanes
    <3> QED
      BY <3>2, CanOpenIs
  <2>6. ToSet(ids) \cap Opened(p) = {}
    BY <2>3, <2>5
  <2>7. PICK I : I = {LaneOf(tasks[p][k], l).chan : l \in 1 .. Lanes(Head(tasks[p][k].queue).w)}
    OBVIOUS
  <2>8. I = ToSet(ids)
    BY <1>1, <1>3, <2>4, <2>7
  <2>9. Opens(p, I) /\ I \cap Opened(p) = {}
    BY <1>4, <2>6, <2>8
  <2> QED
    BY <1>2, <1>5, <1>7, <2>7, <2>9 DEF Forking
<1> QED
  BY <1>2, <1>6, <1>7

\* A context is made, or refused.
Adding(p) ==
  LET r == <<next[p] + 1>>
      u == RootTask(next[p])
  IN  /\ next[p] < Len(session.roots) /\ next' = [next EXCEPT ![p] = next[p] + 1]
      /\ \A q \in Parties \ {p} : tasks'[q] = tasks[q]
      /\ closed' = closed /\ \A q \in Parties : Sent(q)' = Sent(q)
      /\ \/ tasks'[p] = tasks[p] /\ Opens(p, {}) /\ seen'.trouble /\ seen'.misread = seen.misread
         \/ /\ DOMAIN tasks'[p] = DOMAIN tasks[p] \cup {r} /\ tasks'[p][r] = u
            /\ \A j \in DOMAIN tasks[p] \ {r} : tasks'[p][j] = tasks[p][j]
            /\ u.chan \notin Opened(p) /\ Opens(p, {u.chan}) /\ seen' = seen

\* NewContext opens one channel and starts a task on it.
LEMMA ContextEffect ==
  ASSUME TypeOK, ShapeOK, NEW p \in Parties, NewContext(p)
  PROVE  session' = session /\ Adding(p)
<1>1. PICK n, id, r, u : n = next[p] /\ id = Child(DefaultId, n) /\ r = <<n + 1>> /\ u = RootTask(n)
  OBVIOUS
<1>2. /\ n < Len(session.roots) /\ next' = [next EXCEPT ![p] = n + 1] /\ session' = session /\ closed' = closed
      /\ \/ /\ CanOpen(mux, p, id) /\ mux' = Open(mux, p, {id}) /\ NewBoxes(p, {id})
            /\ tasks' = [tasks EXCEPT ![p] = Over(One(r, u), @)] /\ seen' = seen
         \/ mux' = mux /\ box' = box /\ tasks' = tasks /\ seen' = [seen EXCEPT !.trouble = TRUE]
  BY <1>1 DEF NewContext, RootTask
<1>3. u.chan = id
  BY <1>1 DEF RootTask, NewTask
<1>4. seen'.sent = seen.sent
  BY <1>2 DEF TypeOK
<1>5. \A q \in Parties : Sent(q)' = Sent(q)
  BY <1>4 DEF Sent
<1>6. CASE /\ CanOpen(mux, p, id) /\ mux' = Open(mux, p, {id}) /\ NewBoxes(p, {id})
           /\ tasks' = [tasks EXCEPT ![p] = Over(One(r, u), @)] /\ seen' = seen
  <2>1. id \notin Opened(p) /\ Opens(p, {id})
    BY <1>6, CanOpenIs, OpenEffect
  <2>2. PICK T, V : T = tasks[p] /\ V = Over(One(r, u), T)
    OBVIOUS
  <2>3. /\ DOMAIN V = {r} \cup DOMAIN T /\ V[r] = u
        /\ \A j \in DOMAIN T \ {r} : V[j] = T[j]
    BY <2>2 DEF Over, One
  <2>4. tasks'[p] = V /\ \A q \in Parties \ {p} : tasks'[q] = tasks[q]
    BY <1>6, <2>2 DEF TypeOK
  <2> QED
    BY <1>1, <1>2, <1>3, <1>5, <1>6, <2>1, <2>2, <2>3, <2>4 DEF Adding
<1>7. CASE mux' = mux /\ box' = box /\ tasks' = tasks /\ seen' = [seen EXCEPT !.trouble = TRUE]
  <2>1. Opens(p, {})
    BY <1>7, NoneOpened
  <2>2. seen'.trouble /\ seen'.misread = seen.misread
    BY <1>7 DEF TypeOK
  <2> QED
    BY <1>1, <1>2, <1>5, <1>7, <2>1, <2>2 DEF Adding
<1> QED
  BY <1>2, <1>6, <1>7

\* A cancelled task is dropped, what it waits for is cancelled.
Dropping(p, k) ==
  LET t == tasks[p][k]
      T == tasks[p]
      U == tasks'[p]
  IN  /\ t.cancelled /\ DOMAIN U = DOMAIN T \ {k}
      /\ \A j \in DOMAIN U : /\ Copied(U[j], T[j])
                             /\ \/ U[j].cancelled = T[j].cancelled
                                \/ t.phase = "wait" /\ Front(j) = Head(t.queue).path
      /\ \A q \in Parties \ {p} : tasks'[q] = tasks[q] /\ closed'[q] = closed[q]
      /\ closed'[p] = closed[p] \cup ChannelOf(t)
      /\ Opens(p, {}) /\ seen' = seen

\* DropTask removes a cancelled task and may cancel those it waits for.
LEMMA DropEffect ==
  ASSUME TypeOK, ShapeOK, NEW p \in Parties, NEW k \in DOMAIN tasks[p], DropTask(p, k)
  PROVE  session' = session /\ next' = next /\ Dropping(p, k)
<1>1. PICK T, t : T = tasks[p] /\ t = T[k]
  OBVIOUS
<1>2. PICK U : U = [c \in DOMAIN T \ {k} |->
                      IF t.phase = "wait" /\ Front(c) = Item(t).path
                      THEN [T[c] EXCEPT !.cancelled = TRUE] ELSE T[c]]
  OBVIOUS
<1>3. /\ t.cancelled /\ tasks' = [tasks EXCEPT ![p] = U] /\ seen' = seen
      /\ session' = session /\ next' = next /\ mux' = mux /\ box' = box
      /\ closed' = [closed EXCEPT ![p] = @ \cup ChannelOf(t)]
  BY <1>1, <1>2 DEF DropTask
<1>4. IsTasks(T) /\ t \in TaskSet /\ PhaseFits(t)
  BY <1>1, TaskFacts
<1>5. tasks'[p] = U /\ \A q \in Parties \ {p} : tasks'[q] = tasks[q]
  BY <1>3 DEF TypeOK
<1>6. DOMAIN U = DOMAIN T \ {k}
  BY <1>2
<1>7. ASSUME NEW j \in DOMAIN T \ {k}
      PROVE  /\ Copied(U[j], T[j])
             /\ \/ U[j].cancelled = T[j].cancelled
                \/ t.phase = "wait" /\ Front(j) = Head(t.queue).path
  <2>1. PICK a, b : a = T[j] /\ b = U[j]
    OBVIOUS
  <2>2. a \in TaskSet
    BY <1>4, <2>1 DEF IsTasks
  <2>3. b = a \/ (b = [a EXCEPT !.cancelled = TRUE] /\ t.phase = "wait" /\ Front(j) = Item(t).path)
    BY <1>2, <2>1
  <2>4. Copied(b, a)
    BY <2>2, <2>3 DEF TaskSet, Copied
  <2> QED
    BY <2>1, <2>3, <2>4 DEF Item
<1>8. /\ closed'[p] = closed[p] \cup ChannelOf(t)
      /\ \A q \in Parties \ {p} : closed'[q] = closed[q]
  BY <1>3 DEF ShapeOK
<1>9. Opens(p, {})
  BY <1>3, NoneOpened
<1> QED
  BY <1>1, <1>3, <1>5, <1>6, <1>7, <1>8, <1>9 DEF Dropping

-----------------------------------------------------------------------------
(***************************************************************************)
(* Tasks follow their lines, and the lanes of an operation are there until *)
(* it is joined: whatever is refused, dropped or cancelled.                *)
(***************************************************************************)
Following(T) == AllFollow(session, T) /\ LanesAt(T)

\* The keys of the lanes of the operation task t is at.
KeysOf(t) == LaneKeys(Head(t.queue).path, Lanes(Head(t.queue).w))

\* What is appended can be taken away.
LEMMA FrontAppend ==
  ASSUME NEW q \in Path, NEW l \in Nat
  PROVE  Front(Append(q, l)) = q
<1>1. PICK m \in Nat : m = Len(q)
  BY DEF Path
<1>2. PICK c \in Path : c = Append(q, l)
  BY PrefixAppend
<1>3. Len(c) = m + 1 /\ \A i \in 1 .. m : c[i] = q[i]
  BY <1>1, <1>2 DEF Path
<1>4. PICK v : v = SubSeq(c, 1, m)
  OBVIOUS
<1>5. m \in 1 - 1 .. Len(c) /\ 1 \in 1 .. Len(c) + 1 /\ Len(c) \in Nat
  BY <1>3
<1>6. v \in Seq(Nat) /\ Len(v) = m /\ \A i \in 1 .. m : v[i] = c[i]
  <2>1. \A i \in 1 .. m : c[i] \in Nat
    BY <1>3 DEF Path
  <2>2. c \in Seq(Nat)
    BY DEF Path
  <2> QED
    BY <1>4, <1>5, <2>1, <2>2
<1>7. v = q
  BY <1>1, <1>3, <1>6, SamePath DEF Path
<1>8. (m + 1) - 1 = m
  OBVIOUS
<1> QED
  BY <1>2, <1>3, <1>4, <1>7, <1>8 DEF Front

\* The key of a lane is the path of the operation and the lane's number.
LEMMA KeyIs ==
  ASSUME TypeOK, NEW t \in TaskSet, t.queue # <<>>, NEW c \in KeysOf(t)
  PROVE  /\ c \in Path /\ Head(t.queue).path \in Path /\ Last(c) \in Nat \ {0}
         /\ Last(c) \in 1 .. Lanes(Head(t.queue).w) /\ Lanes(Head(t.queue).w) \in Nat
         /\ c = Append(Head(t.queue).path, Last(c)) /\ Front(c) = Head(t.queue).path
         /\ Len(c) = Len(Head(t.queue).path) + 1
<1>1. PICK q, n, l : q = Head(t.queue).path /\ n = Lanes(Head(t.queue).w) /\ l = Last(c)
  OBVIOUS
<1>2. LaneIs(t, q, n, c, LaneOf(t, l))
  BY <1>1, LaneWork DEF KeysOf
<1>3. n \in Nat /\ c \in Path /\ l \in 1 .. n /\ c = Append(q, l) /\ q \in Path /\ l \in Nat \ {0}
  <2>1. /\ n \in Nat \ {0} /\ c \in Path /\ Last(c) \in 1 .. n
        /\ c = Append(q, Last(c)) /\ q \in Path
    BY <1>2 DEF LaneIs
  <2>2. n \in Nat /\ l \in 1 .. n
    BY <1>1, <2>1
  <2>3. l \in Nat \ {0}
    BY <2>2
  <2> QED
    BY <1>1, <2>1, <2>2, <2>3
<1>4. Front(c) = q
  BY <1>3, FrontAppend
<1>5. Len(c) = Len(q) + 1
  BY <1>3, PrefixAppend
<1> QED
  BY <1>1, <1>3, <1>4, <1>5

\* A task is no lane of its own.
LEMMA KeyNotLane ==
  ASSUME TypeOK, NEW T, IsTasks(T), AllFollow(session, T), NEW k \in DOMAIN T, T[k].queue # <<>>
  PROVE  k \notin KeysOf(T[k])
<1>1. PICK s \in Sessions : s = session
  BY DEF TypeOK
<1>2. PICK t \in TaskSet : t = T[k]
  BY DEF IsTasks
<1>3. PICK x \in Lines(s) : x.key = k /\ Follows(x, t)
  BY <1>1, <1>2 DEF AllFollow
<1>4. LineOK(s, x)
  BY LineFacts
<1>5. PICK b \in Path, q \in Path, n \in Nat : b = x.base /\ q = Head(t.queue).path /\ q = Append(b, n)
  <2>1. Len(t.out) + 1 \in DOMAIN x.items /\ Head(t.queue) = x.items[Len(t.out) + 1]
    BY <1>2, <1>3, HeadOf
  <2>2. PICK b \in Path : b = x.base
    BY <1>4 DEF LineOK
  <2>3. PICK n \in Nat : Head(t.queue).path = Append(b, n)
    BY <1>4, <2>1, <2>2 DEF LineOK, Ordered
  <2> QED
    BY <2>2, <2>3, PrefixAppend
<1>6. Len(q) = Len(b) + 1 /\ Len(b) \in Nat /\ Len(k) <= Len(b) + 1
  <2>1. Len(x.key) <= Len(x.base) + 1
    BY <1>4 DEF LineOK
  <2>2. Len(q) = Len(b) + 1
    BY <1>5, PrefixAppend
  <2>3. Len(b) \in Nat
    BY <1>5 DEF Path
  <2> QED
    BY <1>3, <1>5, <2>1, <2>2, <2>3
<1>7. ASSUME k \in KeysOf(t) PROVE FALSE
  <2>1. Len(k) = Len(q) + 1
    BY <1>2, <1>5, <1>7, KeyIs
  <2> QED
    BY <1>6, <2>1
<1> QED
  BY <1>2, <1>7

\* Lanes belong to one task.
LEMMA LanesOwn ==
  ASSUME TypeOK, NEW T, IsTasks(T), AllFollow(session, T), NEW j \in DOMAIN T, NEW k \in DOMAIN T,
         T[j].queue # <<>>, T[k].queue # <<>>, NEW c \in KeysOf(T[j]),
         c \in KeysOf(T[k]) \/ Front(c) = Head(T[k].queue).path
  PROVE  j = k
<1>1. PICK s \in Sessions : s = session
  BY DEF TypeOK
<1>2. PICK t \in TaskSet, u \in TaskSet : t = T[j] /\ u = T[k]
  BY DEF IsTasks
<1>3. Front(c) = Head(t.queue).path
  BY <1>2, KeyIs
<1>4. Front(c) = Head(u.queue).path
  BY <1>2, KeyIs
<1> QED
  BY <1>1, <1>2, <1>3, <1>4, HeadsApart

\* The end of an item keeps Following.
LEMMA FollowEnds ==
  ASSUME TypeOK, NEW T, IsTasks(T), Following(T), NEW U, NEW k, NEW r, NEW D, NEW M,
         Ending(T, U, k, r, D, M), D \cup M \subseteq KeysOf(T[k])
  PROVE  Following(U)
<1>1. PICK s \in Sessions : s = session
  BY DEF TypeOK
<1>2. k \in DOMAIN T /\ T[k].queue # <<>> /\ k \notin D /\ k \in DOMAIN U /\ Done(U[k], T[k], r)
  BY DEF Ending, Done
<1>3. ASSUME NEW j \in DOMAIN U PROVE \E x \in Lines(s) : x.key = j /\ Follows(x, U[j])
  <2>1. j \in DOMAIN T
    BY DEF Ending
  <2>2. PICK t, u : t \in TaskSet /\ t = T[j] /\ u = U[j]
    BY <2>1 DEF IsTasks
  <2>3. PICK x \in Lines(s) : x.key = j /\ Follows(x, t)
    BY <1>1, <2>1, <2>2 DEF Following, AllFollow
  <2>4. CASE j = k
    <3>1. Done(u, t, r)
      BY <1>2, <2>2, <2>4
    <3>2. Follows(x, u)
      BY <2>2, <2>3, <3>1, DoneFollows
    <3> QED
      BY <2>2, <2>3, <3>2
  <2>5. CASE j # k
    <3>1. Idle(u, t)
      BY <2>2, <2>5 DEF Ending, Copied, Idle
    <3>2. Follows(x, u)
      BY <2>3, <3>1, IdleFollows
    <3> QED
      BY <2>2, <2>3, <3>2
  <2> QED
    BY <2>4, <2>5
<1>4. ASSUME NEW j \in DOMAIN U, U[j].phase = "wait", NEW c \in KeysOf(U[j])
      PROVE  c \in DOMAIN U /\ ~U[c].cancelled
  <2>1. j # k /\ j \in DOMAIN T
    BY <1>2, <1>4 DEF Done, Ending
  <2>2. U[j].queue = T[j].queue /\ T[j].phase = "wait"
    BY <1>4, <2>1 DEF Ending, Copied
  <2>3. T[j].queue # <<>> /\ c \in KeysOf(T[j])
    BY <1>4, <2>1, <2>2 DEF KeysOf, IsTasks, PhaseFits
  <2>4. c \in DOMAIN T /\ ~T[c].cancelled
    BY <2>1, <2>2, <2>3 DEF Following, LanesAt, KeysOf
  <2>5. c \notin D /\ c \notin M
    BY <1>2, <2>1, <2>3, LanesOwn DEF Following
  <2>6. c \in DOMAIN U
    BY <2>4, <2>5 DEF Ending
  <2>7. U[c].cancelled = T[c].cancelled
    BY <1>2, <2>5, <2>6 DEF Ending, Done
  <2> QED
    BY <2>4, <2>6, <2>7
<1> QED
  BY <1>1, <1>3, <1>4 DEF Following, AllFollow, LanesAt, KeysOf

\* The removal of a cancelled task keeps Following.
LEMMA FollowDrops ==
  ASSUME TypeOK, NEW T, IsTasks(T), Following(T), NEW U, NEW k \in DOMAIN T, T[k].cancelled,
         DOMAIN U = DOMAIN T \ {k},
         \A j \in DOMAIN U : /\ Copied(U[j], T[j])
                             /\ \/ U[j].cancelled = T[j].cancelled
                                \/ T[k].phase = "wait" /\ Front(j) = Head(T[k].queue).path
  PROVE  Following(U)
<1>1. PICK s \in Sessions : s = session
  BY DEF TypeOK
<1>2. ASSUME NEW j \in DOMAIN U PROVE \E x \in Lines(s) : x.key = j /\ Follows(x, U[j])
  <2>1. PICK x \in Lines(s) : x.key = j /\ Follows(x, T[j])
    BY <1>1 DEF Following, AllFollow
  <2>2. Idle(U[j], T[j])
    BY DEF Copied, Idle
  <2> QED
    BY <2>1, <2>2, IdleFollows
<1>3. ASSUME NEW j \in DOMAIN U, U[j].phase = "wait", NEW c \in KeysOf(U[j])
      PROVE  c \in DOMAIN U /\ ~U[c].cancelled
  <2>1. j # k /\ j \in DOMAIN T /\ U[j].queue = T[j].queue /\ T[j].phase = "wait"
    BY <1>3 DEF Copied
  <2>2. T[j].queue # <<>> /\ c \in KeysOf(T[j])
    BY <1>3, <2>1 DEF KeysOf, IsTasks, PhaseFits
  <2>3. c \in DOMAIN T /\ ~T[c].cancelled
    BY <2>1, <2>2 DEF Following, LanesAt, KeysOf
  <2>4. c \in DOMAIN U
    BY <2>3
  <2>5. ASSUME T[k].phase = "wait", Front(c) = Head(T[k].queue).path PROVE FALSE
    <3>1. T[k].queue # <<>>
      BY <2>5 DEF IsTasks, PhaseFits
    <3> QED
      BY <2>1, <2>2, <2>5, <3>1, LanesOwn DEF Following
  <2> QED
    BY <2>3, <2>4, <2>5
<1> QED
  BY <1>1, <1>2, <1>3 DEF Following, AllFollow, LanesAt, KeysOf

\* Lane c of the operation task t is at, once spawned, begins its line.
LaneBegun(s, t, c) ==
  \E d \in Operations(s) : \E l \in 1 .. LanesOf(s, d.w) :
     /\ d.path = Head(t.queue).path /\ d.w = Head(t.queue).w /\ l = Last(c) /\ c = Append(d.path, l)
     /\ LaneLine(s, d, l) \in Lines(s) /\ LaneLine(s, d, l).key = c
     /\ Begins(LaneLine(s, d, l), LaneOf(t, l))

\* A lane that is spawned begins its line.
LEMMA LaneBegins ==
  ASSUME TypeOK, NEW s \in Sessions, s = session, NEW x \in Lines(s), NEW t \in TaskSet, Follows(x, t),
         t.queue # <<>>, Head(t.queue).w.k \in Ops, NEW c \in KeysOf(t)
  PROVE  LaneBegun(s, t, c)
<1>1. PICK n, it : n = Len(t.out) + 1 /\ it = Head(t.queue)
  OBVIOUS
<1>2. n \in DOMAIN x.items /\ it = x.items[n]
  BY <1>1, HeadOf
<1>3. LineOK(s, x)
  BY LineFacts
<1>4. PICK q \in Seq(ItemSet), h \in Path : q = x.items /\ h = x.chan
  BY <1>3 DEF LineOK
<1>5. PICK d \in Plan(s) : d = Entry(q, n, h)
  BY <1>2, <1>3, <1>4 DEF LineOK
<1>6. d.path = it.path /\ d.w = it.w
  BY <1>2, <1>4, <1>5, EntryIs
<1>7. d \in Operations(s)
  BY <1>1, <1>6 DEF Operations
<1>8. PICK l, m : l = Last(c) /\ m = Lanes(it.w)
  OBVIOUS
<1>9. l \in 1 .. m /\ c = Append(it.path, l)
  BY <1>1, <1>8, KeyIs
<1>10. m = LanesOf(s, d.w)
  BY <1>6, <1>8, LanesPlanned
<1>11. PICK u : u = LaneOf(t, l)
  OBVIOUS
<1>12. /\ u.queue = LaneQueue(Works(it.path, it.w.subs), l, m) /\ u.out = <<>> /\ u.kind = it.w.k
       /\ u.phase = "run" /\ u.cancelled = FALSE
  BY <1>1, <1>8, <1>11 DEF LaneOf, LaneTask, NewTask
<1>13. u.queue = ItemsOfLane(s, d, l)
  BY <1>6, <1>10, <1>12 DEF ItemsOfLane
<1>14. PICK y : y = LaneLine(s, d, l)
  OBVIOUS
<1>15. y \in Lines(s)
  BY <1>7, <1>9, <1>10, <1>14 DEF Lines
<1>16. y.key = c /\ y.items = u.queue /\ y.kind = u.kind
  BY <1>6, <1>9, <1>12, <1>13, <1>14 DEF LaneLine
<1>17. Begins(y, u)
  BY <1>12, <1>16 DEF Begins
<1>18. \E e \in Operations(s) : \E m1 \in 1 .. LanesOf(s, e.w) :
          /\ e.path = Head(t.queue).path /\ e.w = Head(t.queue).w /\ m1 = Last(c) /\ c = Append(e.path, m1)
          /\ LaneLine(s, e, m1) \in Lines(s) /\ LaneLine(s, e, m1).key = c
          /\ Begins(LaneLine(s, e, m1), LaneOf(t, m1))
  BY <1>1, <1>6, <1>7, <1>8, <1>9, <1>10, <1>11, <1>14, <1>15, <1>16, <1>17
<1> QED
  BY <1>18 DEF LaneBegun

\* So does the caller's task of a context that is made.
LEMMA RootBegins ==
  ASSUME TypeOK, NEW n \in Nat, n < Len(session.roots)
  PROVE  /\ RootLine(session, n + 1) \in Lines(session) /\ RootLine(session, n + 1).key = <<n + 1>>
         /\ Begins(RootLine(session, n + 1), RootTask(n))
<1>1. PICK s \in Sessions : s = session
  BY DEF TypeOK
<1>2. n + 1 \in DOMAIN s.roots
  BY <1>1, SessionsAssumption
<1>3. PICK u, y : u = RootTask(n) /\ y = RootLine(s, n + 1)
  OBVIOUS
<1>4. /\ u.queue = RootItems(s, n + 1) /\ u.out = <<>> /\ u.kind = "root" /\ u.phase = "run" /\ u.cancelled = FALSE
  BY <1>1, <1>3 DEF RootTask, NewTask, RootQueue, RootItems
<1>5. y.key = <<n + 1>> /\ y.items = u.queue /\ y.kind = u.kind
  BY <1>3, <1>4 DEF RootLine
<1>6. y \in Lines(s)
  BY <1>2, <1>3 DEF Lines
<1> QED
  BY <1>1, <1>3, <1>4, <1>5, <1>6 DEF Begins

\* The start of the lanes keeps Following.
LEMMA FollowForks ==
  ASSUME TypeOK, NEW T, IsTasks(T), Following(T), NEW U, NEW k \in DOMAIN T, Spawned(T, U, k)
  PROVE  Following(U)
<1>1. PICK s \in Sessions : s = session
  BY DEF TypeOK
<1>2. PICK t \in TaskSet : t = T[k]
  BY DEF IsTasks
<1>3. /\ t.queue # <<>> /\ t.phase = "run" /\ Head(t.queue).w.k \in Ops
      /\ DOMAIN U = DOMAIN T \cup KeysOf(t)
      /\ U[k] = [t EXCEPT !.fork = NextFork(t), !.phase = "wait"]
      /\ \A c \in KeysOf(t) \ {k} : U[c] = LaneOf(t, Last(c))
      /\ \A j \in DOMAIN U \ (KeysOf(t) \cup {k}) : U[j] = T[j]
  BY <1>2 DEF Spawned, AtWork, KeysOf
<1>4. Idle(U[k], t) /\ U[k].cancelled = t.cancelled
  <2>1. PICK f \in Nat : f = NextFork(t)
    BY DEF NextFork, TaskSet
  <2>2. U[k] = [t EXCEPT !.fork = f, !.phase = "wait"]
    BY <1>3, <2>1
  <2> QED
    BY <2>2 DEF TaskSet, Idle
<1>5. PICK x \in Lines(s) : x.key = k /\ Follows(x, t)
  BY <1>1, <1>2 DEF Following, AllFollow
<1>6. k \notin KeysOf(t)
  BY <1>2, <1>3, KeyNotLane DEF Following
<1>7. ASSUME NEW c \in KeysOf(t)
      PROVE  /\ c \in DOMAIN U /\ U[c] = LaneOf(t, Last(c))
             /\ \E y \in Lines(s) : y.key = c /\ Begins(y, U[c])
  <2>1. c \in DOMAIN U /\ U[c] = LaneOf(t, Last(c))
    BY <1>3, <1>6
  <2>2. LaneBegun(s, t, c)
    BY <1>1, <1>3, <1>5, LaneBegins
  <2> QED
    BY <2>1, <2>2 DEF LaneBegun
<1>8. ASSUME NEW j \in DOMAIN U PROVE \E y \in Lines(s) : y.key = j /\ Follows(y, U[j])
  <2>1. CASE j = k
    BY <1>4, <1>5, <2>1, IdleFollows
  <2>2. CASE j \in KeysOf(t)
    BY <1>7, <2>2, BeginsFollows
  <2>3. CASE j \notin KeysOf(t) \cup {k}
    BY <1>1, <1>3, <2>3 DEF Following, AllFollow
  <2> QED
    BY <2>1, <2>2, <2>3
<1>9. ASSUME NEW j \in DOMAIN U, U[j].phase = "wait", NEW c \in KeysOf(U[j])
      PROVE  c \in DOMAIN U /\ ~U[c].cancelled
  <2>1. CASE j = k
    <3>1. c \in KeysOf(t)
      BY <1>4, <1>9, <2>1 DEF Idle, KeysOf
    <3> QED
      BY <1>7, <3>1 DEF Begins
  <2>2. CASE j \in KeysOf(t)
    BY <1>7, <1>9, <2>2 DEF Begins
  <2>3. CASE j \notin KeysOf(t) \cup {k}
    <3>1. c \in DOMAIN T /\ ~T[c].cancelled
      BY <1>3, <1>9, <2>3 DEF Following, LanesAt, KeysOf
    <3>2. CASE c \in KeysOf(t)
      BY <1>7, <3>2 DEF Begins
    <3>3. CASE c = k
      BY <1>2, <1>3, <1>4, <3>1, <3>3
    <3>4. CASE c \notin KeysOf(t) \cup {k}
      BY <1>3, <3>1, <3>4
    <3> QED
      BY <3>2, <3>3, <3>4
  <2> QED
    BY <2>1, <2>2, <2>3
<1> QED
  BY <1>1, <1>8, <1>9 DEF Following, AllFollow, LanesAt, KeysOf

\* A task that is added follows its line.
LEMMA FollowAdds ==
  ASSUME TypeOK, NEW T, Following(T), NEW U, NEW r, DOMAIN U = DOMAIN T \cup {r},
         \A j \in DOMAIN T \ {r} : U[j] = T[j],
         NEW y \in Lines(session), y.key = r, Begins(y, U[r])
  PROVE  Following(U)
<1>1. PICK s \in Sessions : s = session
  BY DEF TypeOK
<1>2. ASSUME NEW j \in DOMAIN U PROVE \E z \in Lines(s) : z.key = j /\ Follows(z, U[j])
  <2>1. CASE j = r
    BY <1>1, <2>1, BeginsFollows
  <2>2. CASE j # r
    BY <1>1, <2>2 DEF Following, AllFollow
  <2> QED
    BY <2>1, <2>2
<1>3. ASSUME NEW j \in DOMAIN U, U[j].phase = "wait", NEW c \in KeysOf(U[j])
      PROVE  c \in DOMAIN U /\ ~U[c].cancelled
  <2>1. j # r
    BY <1>3 DEF Begins
  <2>2. c \in DOMAIN T /\ ~T[c].cancelled
    BY <1>3, <2>1 DEF Following, LanesAt, KeysOf
  <2> QED
    BY <2>2 DEF Begins
<1> QED
  BY <1>1, <1>2, <1>3 DEF Following, AllFollow, LanesAt, KeysOf

-----------------------------------------------------------------------------
(* The results of an operation come back in input order. *)

\* The place of an item of a lane leaves the lane's number.
LEMMA PlaceLane ==
  ASSUME NEW n \in Nat \ {0}, NEW l \in 1 .. n, NEW m \in Nat \ {0}
  PROVE  Place(l, m, n) \in Nat \ {0} /\ (Place(l, m, n) - 1) % n = l - 1
<1>1. PICK b \in Nat : b = m - 1
  <2>1. m - 1 \in Nat
    OBVIOUS
  <2> QED
    BY <2>1
<1>2. b * n \in Nat
  BY SMT
<1>3. PICK w \in Nat : w = b * n
  BY <1>2
<1>4. Place(l, m, n) = l + w
  BY <1>1, <1>3 DEF Place
<1>5. PICK a \in Nat : a = (l + w) - 1
  <2>1. (l + w) - 1 \in Nat
    BY <1>3
  <2> QED
    BY <2>1
<1>6. PICK d \in Nat, r \in 0 .. n - 1 : a = n * d + r /\ r = a % n
  BY DivMod
<1>7. d * n \in Nat /\ n * d = d * n
  BY SMT
<1>8. PICK z \in Nat : z = d * n
  BY <1>7
<1>9. l + w = (r + 1) + z
  <2>1. a = z + r
    BY <1>6, <1>7, <1>8
  <2> QED
    BY <1>5, <1>6, <2>1
<1>10. r + 1 \in 1 .. n
  BY <1>6
<1>11. l + b * n = (r + 1) + d * n
  BY <1>3, <1>8, <1>9
<1>12. l = r + 1
  BY <1>10, <1>11, LaneApart
<1>13. (l + w) - 1 = a /\ l + w \in Nat \ {0} /\ r = l - 1
  BY <1>5, <1>6, <1>12
<1> QED
  BY <1>4, <1>6, <1>13

\* The lane of item i of an operation with n lanes, and its place there.
LaneNo(i, n) == ((i - 1) % n) + 1
LanePlace(i, n) == ((i - 1) \div n) + 1

\* The number of items, of N, in lane l of n.
LaneSize(N, l, n) == Cardinality({h \in 1 .. N : (h - 1) % n = l - 1})

\* Item i has place j of lane l.
Laying(N, n, i, l, j) ==
  l \in 1 .. n /\ j \in Nat \ {0} /\ Place(l, j, n) = i /\ j <= LaneSize(N, l, n)

\* Every item has its place in its lane.
LEMMA LaneFull ==
  ASSUME NEW N \in Nat, NEW n \in Nat \ {0}, NEW i \in 1 .. N
  PROVE  Laying(N, n, i, LaneNo(i, n), LanePlace(i, n))
<1>0. PICK l, j : l = LaneNo(i, n) /\ j = LanePlace(i, n)
  OBVIOUS
<1>1. PICK a \in Nat : a = i - 1
  <2>1. i - 1 \in Nat
    OBVIOUS
  <2> QED
    BY <2>1
<1>2. PICK d \in Nat, r \in 0 .. n - 1 : a = n * d + r /\ r = a % n /\ d = a \div n
  BY DivMod
<1>3. l = r + 1 /\ j = d + 1 /\ l \in 1 .. n /\ j \in Nat \ {0}
  <2>1. l = r + 1 /\ j = d + 1
    BY <1>0, <1>1, <1>2 DEF LaneNo, LanePlace
  <2>2. r + 1 \in 1 .. n /\ d + 1 \in Nat \ {0}
    OBVIOUS
  <2> QED
    BY <2>1, <2>2
<1>4. Place(l, j, n) = i
  <2>1. n * d = d * n /\ d * n \in Nat
    BY SMT
  <2>2. PICK z \in Nat : z = d * n
    BY <2>1
  <2>3. a = z + r
    BY <1>2, <2>1, <2>2
  <2>4. j - 1 = d
    BY <1>3
  <2>5. Place(l, j, n) = l + z
    BY <2>2, <2>4 DEF Place
  <2>6. l + z = i
    BY <1>1, <1>2, <1>3, <2>3
  <2> QED
    BY <2>5, <2>6
<1>5. PICK D : D = {h \in 1 .. N : (h - 1) % n = l - 1}
  OBVIOUS
<1>6. IsFiniteSet(D) /\ Cardinality(D) \in Nat
  BY <1>3, <1>5, LaneCount
<1>7. ASSUME NEW m \in 1 .. j PROVE Place(l, m, n) \in D
  <2>1. m \in Nat \ {0} /\ (m = j \/ m < j)
    BY <1>3
  <2>2. Place(l, m, n) \in Nat \ {0} /\ (Place(l, m, n) - 1) % n = l - 1
    BY <1>3, <2>1, PlaceLane
  <2>3. Place(l, m, n) <= i
    <3>1. CASE m = j
      BY <1>4, <2>2, <3>1
    <3>2. CASE m < j
      <4>1. Place(l, m, n) < Place(l, j, n)
        BY <1>3, <2>1, <3>2, PlaceGrows
      <4>2. PICK u \in Nat : u = Place(l, m, n)
        BY <2>2
      <4> QED
        BY <1>4, <4>1, <4>2
    <3> QED
      BY <2>1, <3>1, <3>2
  <2>4. PICK u \in Nat \ {0} : u = Place(l, m, n)
    BY <2>2
  <2>5. u \in 1 .. N
    BY <2>3, <2>4
  <2> QED
    BY <1>5, <2>2, <2>4, <2>5
<1>8. ASSUME Cardinality(D) < j PROVE FALSE
  <2>1. PICK J, f : J = 1 .. j /\ f = [m \in J |-> Place(l, m, n)]
    OBVIOUS
  <2>2. IsFiniteSet(J) /\ Cardinality(J) = j
    <3>1. 1 \in Int /\ j \in Int /\ ~(1 > j)
      BY <1>3
    <3>2. IsFiniteSet(1 .. j) /\ Cardinality(1 .. j) = j - 1 + 1
      BY <3>1, FS_Interval
    <3> QED
      BY <1>3, <2>1, <3>2
  <2>3. f \in [J -> D]
    BY <1>7, <2>1
  <2>4. PICK x \in J, y \in J : x # y /\ f[x] = f[y]
    BY <1>6, <1>8, <2>2, <2>3, FS_PigeonHole
  <2>5. Place(l, x, n) = Place(l, y, n) /\ x \in Nat \ {0} /\ y \in Nat \ {0}
    BY <2>1, <2>4
  <2> QED
    BY <1>3, <2>4, <2>5, PlaceApart
<1>9. j <= LaneSize(N, l, n)
  <2>1. j <= Cardinality(D)
    BY <1>3, <1>6, <1>8
  <2> QED
    BY <1>5, <2>1 DEF LaneSize
<1>10. Laying(N, n, i, l, j)
  BY <1>3, <1>4, <1>9 DEF Laying
<1> QED
  BY <1>0, <1>10

\* An item is where its lane and its place say.
ItemAt(q, subs, n, i, l, j, v) ==
  /\ q \in Path /\ subs \in Seq(Work) /\ n \in Nat \ {0} /\ i \in DOMAIN subs
  /\ l = LaneNo(i, n) /\ j = LanePlace(i, n) /\ v = LaneQueue(Works(q, subs), l, n)

\* Item i of an operation is item LanePlace of lane LaneNo, under its own path.
LEMMA LaneItemAt ==
  ASSUME NEW q, NEW subs, NEW n, NEW i, NEW l, NEW j, NEW v, ItemAt(q, subs, n, i, l, j, v)
  PROVE  l \in 1 .. n /\ j \in 1 .. Len(v) /\ v[j].path = Append(q, i)
<1> SUFFICES ASSUME q \in Path, subs \in Seq(Work), n \in Nat \ {0}, i \in DOMAIN subs,
                    l = LaneNo(i, n), j = LanePlace(i, n), v = LaneQueue(Works(q, subs), l, n)
             PROVE  l \in 1 .. n /\ j \in 1 .. Len(v) /\ v[j].path = Append(q, i)
  BY DEF ItemAt
<1>0. PICK N \in Nat : N = Len(subs) /\ DOMAIN subs = 1 .. N
  OBVIOUS
<1>1. i \in 1 .. N
  BY <1>0
<1>2. l \in 1 .. n /\ j \in Nat \ {0} /\ Place(l, j, n) = i /\ j <= LaneSize(N, l, n)
  <2>1. Laying(N, n, i, LaneNo(i, n), LanePlace(i, n))
    BY <1>1, LaneFull
  <2> QED
    BY <2>1 DEF Laying
<1>3. PICK items : items = Works(q, subs)
  OBVIOUS
<1>4. items \in Seq(ItemSet) /\ Len(items) = N /\ \A h \in 1 .. N : items[h] = [path |-> Append(q, h), w |-> subs[h]]
  BY <1>0, <1>3, WorksItems
<1>5. \A h \in 1 .. N : items[h].path = Append(q, h)
  BY <1>4
<1>6. PICK C \in Nat : C = LaneSize(N, l, n)
  <2>1. PICK D : D = {h \in 1 .. N : (h - 1) % n = l - 1}
    OBVIOUS
  <2>2. Cardinality(D) \in Nat
    BY <1>2, <2>1, LaneCount
  <2> QED
    BY <2>1, <2>2 DEF LaneSize
<1>7. v = [h \in 1 .. C |-> items[Place(l, h, n)]]
  <2>1. DOMAIN items = 1 .. N
    BY <1>4
  <2>2. v = [h \in 1 .. LaneSize(N, l, n) |-> items[l + (h - 1) * n]]
    BY <1>3, <2>1 DEF LaneQueue, LaneSize
  <2>3. \A h : Place(l, h, n) = l + (h - 1) * n
    BY DEF Place
  <2> QED
    BY <1>6, <2>2, <2>3
<1>8. j \in 1 .. C
  BY <1>2, <1>6
<1>9. Len(v) = C
  BY <1>7
<1>10. v[j] = items[i]
  BY <1>2, <1>7, <1>8
<1>11. v[j].path = Append(q, i)
  BY <1>1, <1>5, <1>10
<1> QED
  BY <1>2, <1>8, <1>9, <1>11

\* Lane c of item it of the tasks T is done, and has not given up.
LaneDone(T, it, c) ==
  c \in DOMAIN T /\ T[c].queue = <<>> /\ (it.w.k = "try" => ~Failing(T[c]))

\* A lane that is done, and has not given up, has its results in order.
LaneAnswer(T, k, t, it, n, i, c) ==
  /\ IsTasks(T) /\ Following(T) /\ k \in DOMAIN T /\ t \in TaskSet /\ t = T[k]
  /\ t.queue # <<>> /\ Head(t.queue).w.k \in Ops /\ it \in ItemSet /\ it = Head(t.queue)
  /\ n = Lanes(it.w) /\ i \in DOMAIN it.w.subs /\ c = Append(it.path, LaneNo(i, n))
  /\ c \in KeysOf(t) => LaneDone(T, it, c)

\* A lane that has ended holds the answer of each of its items at its place.
LEMMA LaneAnswers ==
  ASSUME TypeOK, NEW T, NEW k, NEW t, NEW it, NEW n, NEW i, NEW c, LaneAnswer(T, k, t, it, n, i, c)
  PROVE  LanePlace(i, n) \in DOMAIN T[c].out /\ T[c].out[LanePlace(i, n)].path = Append(it.path, i)
<1> SUFFICES ASSUME IsTasks(T), Following(T), k \in DOMAIN T, t \in TaskSet, t = T[k],
                    t.queue # <<>>, Head(t.queue).w.k \in Ops, it \in ItemSet, it = Head(t.queue),
                    n = Lanes(it.w), i \in DOMAIN it.w.subs, c = Append(it.path, LaneNo(i, n)),
                    c \in KeysOf(t) => LaneDone(T, it, c)
             PROVE  LanePlace(i, n) \in DOMAIN T[c].out /\ T[c].out[LanePlace(i, n)].path = Append(it.path, i)
  BY DEF LaneAnswer
<1>1. PICK s \in Sessions : s = session
  BY DEF TypeOK
<1>0. it.path \in Path /\ it.w \in Work /\ it.w.subs \in Seq(Work)
  BY WorkAssumption DEF ItemSet
<1>2. PICK q, subs, l, j, v :
        /\ q = it.path /\ q \in Path /\ subs = it.w.subs /\ subs \in Seq(Work)
        /\ l = LaneNo(i, n) /\ j = LanePlace(i, n) /\ v = LaneQueue(Works(q, subs), l, n)
  BY <1>0
<1>3. n \in Nat \ {0} /\ n = LanesOf(s, it.w)
  <2>1. n = LanesOf(s, it.w)
    BY <1>1, LanesPlanned
  <2>2. LimitOf(s) \in Nat \ {0}
    BY SessionsAssumption DEF LimitOf
  <2>3. PICK m : m = Len(it.w.subs) /\ m \in Nat \ {0}
    <3>1. it.w.subs # <<>>
      OBVIOUS
    <3> QED
      BY <1>0, <3>1
  <2>4. n \in Nat \ {0}
    BY <2>1, <2>2, <2>3 DEF LanesOf
  <2> QED
    BY <2>1, <2>4
<1>4. l \in 1 .. n /\ j \in 1 .. Len(v) /\ v[j].path = Append(q, i)
  <2>1. i \in DOMAIN subs /\ n \in Nat \ {0}
    BY <1>2, <1>3
  <2>2. ItemAt(q, subs, n, i, l, j, v)
    BY <1>2, <2>1 DEF ItemAt
  <2> QED
    BY <2>2, LaneItemAt
<1>5. c = Append(q, l) /\ c \in KeysOf(t)
  BY <1>2, <1>4 DEF KeysOf, LaneKeys
<1>6. c \in DOMAIN T /\ T[c].queue = <<>> /\ (it.w.k = "try" => ~Failing(T[c]))
  BY <1>5 DEF LaneDone
<1>7. PICK x \in Lines(s) : x.key = k /\ Follows(x, t)
  BY <1>1 DEF Following, AllFollow
<1>8. LaneBegun(s, t, c)
  <2>1. TypeOK /\ s = session /\ Follows(x, t) /\ t.queue # <<>> /\ Head(t.queue).w.k \in Ops /\ c \in KeysOf(t)
    BY <1>1, <1>5, <1>7
  <2> QED
    BY <2>1, LaneBegins
<1>9. PICK d \in Operations(s) : \E m \in 1 .. LanesOf(s, d.w) :
        /\ d.path = it.path /\ d.w = it.w /\ c = Append(d.path, m)
        /\ LaneLine(s, d, m) \in Lines(s) /\ LaneLine(s, d, m).key = c
  BY <1>8 DEF LaneBegun
<1>91. PICK m \in 1 .. LanesOf(s, d.w) :
        /\ d.path = it.path /\ d.w = it.w /\ c = Append(d.path, m)
        /\ LaneLine(s, d, m) \in Lines(s) /\ LaneLine(s, d, m).key = c
  BY <1>9
<1>10. m = l
  <2>1. m \in 1 .. n
    BY <1>3, <1>91
  <2>2. m \in Nat /\ l \in Nat
    BY <1>3, <1>4, <2>1
  <2>3. Append(q, m) = Append(q, l)
    BY <1>2, <1>5, <1>91
  <2> QED
    BY <2>2, <2>3, PathSplit
<1>11. PICK y \in Lines(s) : y = LaneLine(s, d, l) /\ y.key = c
  BY <1>91, <1>10
<1>12. PICK z \in Lines(s) : z.key = c /\ Follows(z, T[c])
  BY <1>1, <1>6 DEF Following, AllFollow
<1>13. z = y
  BY <1>11, <1>12, LinesApart
<1>14. y.items = v /\ y.kind = it.w.k
  BY <1>2, <1>3, <1>91, <1>11 DEF LaneLine, ItemsOfLane
<1>15. PICK u \in TaskSet : u = T[c]
  BY <1>6 DEF IsTasks
<1>16. Follows(y, u) /\ u.queue = <<>> /\ (it.w.k = "try" => ~Failing(u))
  BY <1>6, <1>12, <1>13, <1>15
<1>17. Len(u.out) = Len(v)
  <2>1. u.kind = it.w.k /\ u.kind # "root"
    BY <1>14, <1>16 DEF Follows, Ops
  <2>2. ~(Failing(u) /\ u.kind \in {"root", "try"})
    BY <1>16, <2>1
  <2>3. Len(u.out) = Len(y.items) \/ (Failing(u) /\ u.kind \in {"root", "try"})
    BY <1>16 DEF Follows
  <2> QED
    BY <1>14, <2>2, <2>3
<1>18. j \in 1 .. Len(u.out) /\ u.out[j].path = v[j].path
  <2>1. \A h \in 1 .. Len(u.out) : u.out[h].path = y.items[h].path
    BY <1>16 DEF Follows
  <2> QED
    BY <1>4, <1>14, <1>17, <2>1
<1>19. DOMAIN u.out = 1 .. Len(u.out)
  <2>1. u.out \in Seq(ResultSet)
    BY DEF TaskSet
  <2> QED
    BY <2>1
<1> QED
  BY <1>2, <1>4, <1>15, <1>18, <1>19

\* The lanes of task k are joined.
Joining(p, k, r, D, M) ==
  LET t == tasks[p][k]
  IN  /\ t.queue # <<>> /\ t.phase = "wait" /\ EndStep(p, k, r, D, M, {}) /\ Opens(p, {})
      /\ D \cup M \subseteq KeysOf(t) /\ \A c \in D : c \in DOMAIN tasks[p] /\ tasks[p][c].queue = <<>>
      /\ M # {} \/ D # KeysOf(t) => \E c \in D : Failing(tasks[p][c])
      /\ seen'.misread = seen.misread /\ seen'.trouble = (seen.trouble \/ ~r.ok)

\* JoinLanes collects the lanes, if their answers are all there, and removes them.
LEMMA JoinEffect ==
  ASSUME TypeOK, ShapeOK, NEW p \in Parties, Following(tasks[p]), NEW k \in DOMAIN tasks[p], JoinLanes(p, k)
  PROVE  session' = session /\ next' = next /\ \E r \in ResultSet : \E D, M : Joining(p, k, r, D, M)
<1>1. PICK T, t, it, n, mine :
        T = tasks[p] /\ t = T[k] /\ it = Item(t) /\ n = Lanes(it.w) /\ mine = LaneKeys(it.path, n)
  OBVIOUS
<1>2. PICK done, short, results :
        /\ done = {c \in mine : Finished(T[c])}
        /\ short = (it.w.k = "try" /\ \E c \in done : Failing(T[c]))
        /\ results = [i \in DOMAIN it.w.subs |-> LaneResult(p, it.path, n, i)]
  OBVIOUS
<1>3. PICK r, wrong, others :
        /\ r = [path |-> it.path, ok |-> ~short /\ \A x \in ToSet(results) : x.ok]
        /\ wrong = (~short /\ \E i \in DOMAIN results : results[i].path # Append(it.path, i))
        /\ others = CancelRest(p, mine, done)
  OBVIOUS
<1>4. /\ ~Finished(t) /\ t.phase = "wait" /\ (short \/ done = mine)
      /\ Ends(p, k, r, others) /\ Note(r, wrong)
      /\ session' = session /\ next' = next /\ mux' = mux /\ box' = box
  <2> DEFINE tt == tasks[p][k]
             ii == Item(tt)
             nn == Lanes(ii.w)
             mm == LaneKeys(ii.path, nn)
             dd == {c \in mm : Finished(tasks[p][c])}
             sh == ii.w.k = "try" /\ \E c \in dd : Failing(tasks[p][c])
             re == [i \in DOMAIN ii.w.subs |-> LaneResult(p, ii.path, nn, i)]
             rr == [path |-> ii.path, ok |-> ~sh /\ \A x \in ToSet(re) : x.ok]
             wr == ~sh /\ \E i \in DOMAIN re : re[i].path # Append(ii.path, i)
             oo == CancelRest(p, mm, dd)
  <2>1. /\ ~Finished(tt) /\ tt.phase = "wait" /\ (sh \/ dd = mm)
        /\ Ends(p, k, rr, oo) /\ Note(rr, wr)
        /\ session' = session /\ next' = next /\ mux' = mux /\ box' = box
    BY DEF JoinLanes
  <2>2. T = tasks[p] /\ t = tt /\ it = ii /\ n = nn /\ mine = mm
    BY <1>1
  <2> HIDE DEF tt, ii, nn, mm
  <2>3. done = dd
    BY <1>2, <2>2
  <2> HIDE DEF dd
  <2>4. short = sh
    BY <1>2, <2>2, <2>3
  <2>5. results = re
    BY <1>2, <2>2
  <2> HIDE DEF sh, re
  <2>6. r = rr
    BY <1>3, <2>2, <2>4, <2>5
  <2>7. wrong = wr
    BY <1>3, <2>2, <2>4, <2>5
  <2>8. others = oo
    BY <1>3, <2>2, <2>3
  <2> HIDE DEF rr, wr, oo
  <2> QED
    BY <2>1, <2>2, <2>3, <2>4, <2>6, <2>7, <2>8
<1>5. /\ k \in Path /\ t \in TaskSet /\ PhaseFits(t) /\ IsTasks(T) /\ t.queue # <<>>
      /\ it = Head(t.queue) /\ it \in ItemSet /\ it.path \in Path /\ it.w.subs \in Seq(Work)
  BY <1>1, <1>4, TaskFacts DEF Item
<1>6. mine = KeysOf(t) /\ it.w.k \in Ops
  BY <1>1, <1>4, <1>5 DEF KeysOf, PhaseFits
<1>7. \A c \in mine : c \in DOMAIN T /\ ~T[c].cancelled
  BY <1>1, <1>4, <1>5, <1>6 DEF Following, LanesAt, KeysOf
<1>8. done \subseteq mine /\ \A c \in done : T[c].queue = <<>>
  BY <1>2 DEF Finished
<1>9. short \in BOOLEAN
  BY <1>2
<1>10. r \in ResultSet /\ r.path = Head(t.queue).path /\ wrong \in BOOLEAN
  <2>1. PICK ok \in BOOLEAN : ok = (~short /\ \A x \in ToSet(results) : x.ok)
    OBVIOUS
  <2>2. r = [path |-> it.path, ok |-> ok]
    BY <1>3, <2>1
  <2>3. r \in ResultSet /\ r.path = it.path
    BY <1>5, <2>1, <2>2 DEF ResultSet
  <2> QED
    BY <1>3, <1>5, <2>3
<1>11. ~wrong
  <2> SUFFICES ASSUME ~short, NEW i \in DOMAIN results PROVE results[i].path = Append(it.path, i)
    BY <1>3
  <2>1. done = mine
    BY <1>4
  <2>2. PICK c, j : c = Append(it.path, LaneNo(i, n)) /\ j = LanePlace(i, n)
    OBVIOUS
  <2>3. i \in DOMAIN it.w.subs /\ results[i] = LaneResult(p, it.path, n, i)
    BY <1>2
  <2>4. c \in KeysOf(t) => LaneDone(T, it, c)
    BY <1>2, <1>5, <1>6, <1>7, <1>8, <2>1 DEF LaneDone
  <2>5. /\ TypeOK /\ IsTasks(T) /\ Following(T) /\ k \in DOMAIN T /\ t = T[k] /\ t.queue # <<>>
        /\ Head(t.queue).w.k \in Ops /\ it = Head(t.queue) /\ n = Lanes(it.w)
    BY <1>1, <1>5, <1>6
  <2>6. j \in DOMAIN T[c].out /\ T[c].out[j].path = Append(it.path, i)
    <3>1. LanePlace(i, n) \in DOMAIN T[c].out /\ T[c].out[LanePlace(i, n)].path = Append(it.path, i)
      <4>1. i \in DOMAIN it.w.subs /\ c = Append(it.path, LaneNo(i, n)) /\ t \in TaskSet /\ it \in ItemSet
        BY <1>5, <2>2, <2>3
      <4>2. LaneAnswer(T, k, t, it, n, i, c)
        BY <2>4, <2>5, <4>1 DEF LaneAnswer
      <4> QED
        BY <4>2, LaneAnswers
    <3> QED
      BY <2>2, <3>1
  <2>7. PICK o : o = tasks[p][c].out
    OBVIOUS
  <2>8. LaneResult(p, it.path, n, i) = IF j \in DOMAIN o THEN o[j] ELSE [path |-> <<>>, ok |-> FALSE]
    BY <2>2, <2>7 DEF LaneResult, LaneNo, LanePlace
  <2> QED
    BY <1>1, <2>3, <2>6, <2>7, <2>8
<1>12. others = [j \in DOMAIN T \ done |-> IF j \in mine THEN [T[j] EXCEPT !.cancelled = TRUE] ELSE T[j]]
  BY <1>1, <1>3 DEF CancelRest
<1>13. PICK M : M = mine \ done
  OBVIOUS
<1>14. ASSUME NEW j \in DOMAIN T \ done
       PROVE  /\ others[j] \in TaskSet /\ PhaseFits(others[j]) /\ Copied(others[j], T[j])
              /\ others[j].cancelled = T[j].cancelled \/ j \in M
  <2>1. PICK a, b : a = T[j] /\ b = others[j]
    OBVIOUS
  <2>2. a \in TaskSet /\ PhaseFits(a)
    BY <1>5, <2>1 DEF IsTasks
  <2>3. b = [a EXCEPT !.cancelled = TRUE] \/ b = a
    BY <1>12, <2>1
  <2>4. b \in TaskSet /\ PhaseFits(b)
    BY <2>2, <2>3, CancelFacts
  <2>5. Copied(b, a)
    BY <2>2, <2>3 DEF TaskSet, Copied
  <2>6. b = a \/ j \in M
    BY <1>12, <1>13, <2>1
  <2> QED
    BY <2>1, <2>4, <2>5, <2>6
<1>15. IsTasks(others) /\ DOMAIN others = DOMAIN T \ done
  <2>1. DOMAIN others = DOMAIN T \ done /\ others = [j \in DOMAIN others |-> others[j]]
    BY <1>12
  <2>2. DOMAIN T \subseteq Path
    BY <1>5 DEF IsTasks
  <2> QED
    BY <1>14, <2>1, <2>2 DEF IsTasks
<1>16. k \notin done
  <2>1. k \notin KeysOf(T[k])
    BY <1>1, <1>5, KeyNotLane DEF Following
  <2> QED
    BY <1>1, <1>6, <1>8, <2>1
<1>17. /\ \A q \in Parties : Sent(q)' = Sent(q)
       /\ seen'.trouble = (seen.trouble \/ ~r.ok) /\ seen'.misread = seen.misread
  BY <1>4, <1>10, <1>11, NoteIs
<1>18. EndStep(p, k, r, done, M, {})
  <2>1. DOMAIN others = DOMAIN tasks[p] \ done
    BY <1>1, <1>15
  <2>2. \A j \in DOMAIN others : /\ Copied(others[j], tasks[p][j])
                                 /\ others[j].cancelled = tasks[p][j].cancelled \/ j \in M
    BY <1>1, <1>14, <1>15
  <2>3. t = tasks[p][k]
    BY <1>1
  <2> QED
    BY <1>4, <1>5, <1>10, <1>15, <1>16, <1>17, <2>1, <2>2, <2>3, EndsEffect
<1>19. Opens(p, {})
  BY <1>4, NoneOpened
<1>20. M # {} \/ done # KeysOf(t) => \E c \in done : Failing(T[c])
  BY <1>2, <1>4, <1>6, <1>13
<1>21. Joining(p, k, r, done, M)
  BY <1>1, <1>4, <1>5, <1>6, <1>7, <1>8, <1>13, <1>17, <1>18, <1>19, <1>20 DEF Joining
<1> QED
  BY <1>4, <1>10, <1>21

-----------------------------------------------------------------------------
(* Every step, as what it does to one party. *)

\* Task k of party p takes a step.
Working(p, k) ==
  \/ Sending(p, k) \/ SendFails(p, k) \/ \E r \in ResultSet : Reading(p, k, r)
  \/ Forking(p, k) \/ Dropping(p, k)
  \/ \E r \in ResultSet : \E D, M : Joining(p, k, r, D, M)
  \/ \E open : Refusing(p, k, open)

Moves(p) ==
  session' = session /\ (Adding(p) \/ (next' = next /\ \E k \in DOMAIN tasks[p] : Working(p, k)))

\* A step is one party's.
LEMMA NextMoves ==
  ASSUME TypeOK, ShapeOK, \A p \in Parties : Following(tasks[p]), Next
  PROVE  \E p \in Parties : Moves(p)
<1>1. PICK p \in Parties : NewContext(p) \/ \E k \in DOMAIN tasks[p] : Step(p, k) \/ ForkRefused(p, k)
  BY DEF Next
<1>2. CASE NewContext(p)
  BY <1>2, ContextEffect DEF Moves
<1>3. CASE \E k \in DOMAIN tasks[p] : Step(p, k) \/ ForkRefused(p, k)
  <2>1. PICK k \in DOMAIN tasks[p] : Step(p, k) \/ ForkRefused(p, k)
    BY <1>3
  <2>2. CASE Send(p, k)
    BY <2>2, SendEffect DEF Moves, Working
  <2>3. CASE Receive(p, k)
    BY <2>3, ReceiveEffect DEF Moves, Working
  <2>4. CASE Fork(p, k)
    BY <2>4, ForkEffect DEF Moves, Working
  <2>5. CASE JoinLanes(p, k)
    BY <2>5, JoinEffect DEF Moves, Working
  <2>6. CASE DropTask(p, k)
    BY <2>6, DropEffect DEF Moves, Working
  <2>7. CASE ForkRefused(p, k)
    BY <2>7, RefuseEffect DEF Moves, Working
  <2> QED
    BY <2>1, <2>2, <2>3, <2>4, <2>5, <2>6, <2>7 DEF Step
<1> QED
  BY <1>1, <1>2, <1>3

\* A message that is sent leaves every task as far as it is.
LEMMA FollowSends ==
  ASSUME TypeOK, NEW T, IsTasks(T), Following(T), NEW U, NEW k \in DOMAIN T, DOMAIN U = DOMAIN T,
         Idle(U[k], T[k]), U[k].phase = "recv", U[k].cancelled = T[k].cancelled,
         \A j \in DOMAIN U \ {k} : U[j] = T[j]
  PROVE  Following(U)
<1>1. PICK s \in Sessions : s = session
  BY DEF TypeOK
<1>2. ASSUME NEW j \in DOMAIN U PROVE \E x \in Lines(s) : x.key = j /\ Follows(x, U[j])
  <2>1. CASE j = k
    BY <1>1, <2>1, IdleFollows DEF Following, AllFollow
  <2>2. CASE j # k
    BY <1>1, <2>2 DEF Following, AllFollow
  <2> QED
    BY <2>1, <2>2
<1>3. ASSUME NEW j \in DOMAIN U, U[j].phase = "wait", NEW c \in KeysOf(U[j])
      PROVE  c \in DOMAIN U /\ ~U[c].cancelled
  <2>1. j # k
    BY <1>3
  <2>2. c \in DOMAIN T /\ ~T[c].cancelled
    BY <1>3, <2>1 DEF Following, LanesAt, KeysOf
  <2> QED
    BY <2>2
<1> QED
  BY <1>1, <1>2, <1>3 DEF Following, AllFollow, LanesAt, KeysOf

\* The tasks of the party that takes a step follow their lines, the others
\* do not change.
LEMMA MoveFollows ==
  ASSUME TypeOK, NEW p \in Parties, Following(tasks[p]), Moves(p)
  PROVE  Following(tasks'[p]) /\ \A q \in Parties \ {p} : tasks'[q] = tasks[q]
<1>1. PICK T, U : T = tasks[p] /\ U = tasks'[p]
  OBVIOUS
<1>2. IsTasks(T) /\ Following(T)
  BY <1>1 DEF TypeOK
<1>3. CASE Adding(p)
  <2>1. PICK n \in Nat : n = next[p]
    BY DEF TypeOK
  <2>2. PICK r, y : r = <<n + 1>> /\ y = RootLine(session, n + 1)
    OBVIOUS
  <2>3. \/ U = T
        \/ DOMAIN U = DOMAIN T \cup {r} /\ U[r] = RootTask(n) /\ \A j \in DOMAIN T \ {r} : U[j] = T[j]
    BY <1>1, <1>3, <2>1, <2>2 DEF Adding
  <2>4. n < Len(session.roots)
    BY <1>3, <2>1 DEF Adding
  <2>5. y \in Lines(session) /\ y.key = r /\ Begins(y, RootTask(n))
    BY <2>2, <2>4, RootBegins
  <2>6. Following(U)
    BY <1>2, <2>3, <2>5, FollowAdds
  <2>7. \A q \in Parties \ {p} : tasks'[q] = tasks[q]
    BY <1>3 DEF Adding
  <2> QED
    BY <1>1, <2>6, <2>7
<1>4. CASE \E k \in DOMAIN tasks[p] : Working(p, k)
  <2>1. PICK k \in DOMAIN T : Working(p, k)
    BY <1>1, <1>4
  <2>2. ASSUME NEW r, NEW D, NEW M, NEW N, EndStep(p, k, r, D, M, N), D \cup M \subseteq KeysOf(T[k])
        PROVE  Following(U) /\ \A q \in Parties \ {p} : tasks'[q] = tasks[q]
    <3>1. Ending(T, U, k, r, D, M)
      BY <1>1, <2>2 DEF EndStep
    <3>2. Following(U)
      BY <1>2, <2>2, <3>1, FollowEnds
    <3> QED
      BY <2>2, <3>2 DEF EndStep
  <2>3. {} \cup {} \subseteq KeysOf(T[k])
    OBVIOUS
  <2>4. CASE Sending(p, k)
    <3>1. /\ DOMAIN U = DOMAIN T /\ Idle(U[k], T[k]) /\ U[k].phase = "recv"
          /\ U[k].cancelled = T[k].cancelled /\ \A j \in DOMAIN U \ {k} : U[j] = T[j]
          /\ tasks'[Peer(p)] = tasks[Peer(p)]
      BY <1>1, <2>4 DEF Sending
    <3>2. Following(U)
      BY <1>2, <3>1, FollowSends
    <3>3. \A q \in Parties \ {p} : q = Peer(p)
      BY DEF Parties, Peer
    <3> QED
      BY <1>1, <3>1, <3>2, <3>3
  <2>5. CASE SendFails(p, k)
    BY <1>1, <2>2, <2>3, <2>5 DEF SendFails
  <2>6. CASE \E r \in ResultSet : Reading(p, k, r)
    BY <1>1, <2>2, <2>3, <2>6 DEF Reading
  <2>7. CASE Forking(p, k)
    <3>1. Spawned(T, U, k) /\ \A q \in Parties \ {p} : tasks'[q] = tasks[q]
      BY <1>1, <2>7 DEF Forking
    <3>2. Following(U)
      BY <1>2, <3>1, FollowForks
    <3> QED
      BY <1>1, <3>1, <3>2
  <2>8. CASE Dropping(p, k)
    <3>1. /\ T[k].cancelled /\ DOMAIN U = DOMAIN T \ {k}
          /\ \A j \in DOMAIN U : /\ Copied(U[j], T[j])
                                 /\ \/ U[j].cancelled = T[j].cancelled
                                    \/ T[k].phase = "wait" /\ Front(j) = Head(T[k].queue).path
          /\ \A q \in Parties \ {p} : tasks'[q] = tasks[q]
      BY <1>1, <2>8 DEF Dropping
    <3>2. Following(U)
      BY <1>2, <3>1, FollowDrops
    <3> QED
      BY <1>1, <3>1, <3>2
  <2>9. CASE \E r \in ResultSet : \E D, M : Joining(p, k, r, D, M)
    <3>1. PICK r, D, M : Joining(p, k, r, D, M)
      BY <2>9
    <3> QED
      BY <1>1, <2>2, <3>1 DEF Joining
  <2>10. CASE \E open : Refusing(p, k, open)
    <3>1. PICK open : Refusing(p, k, open)
      BY <2>10
    <3>2. PICK r \in ResultSet : EndStep(p, k, r, {}, {}, open)
      BY <3>1 DEF Refusing
    <3> QED
      BY <1>1, <2>2, <2>3, <3>2
  <2> QED
    BY <2>1, <2>4, <2>5, <2>6, <2>7, <2>8, <2>9, <2>10 DEF Working
<1> QED
  BY <1>3, <1>4 DEF Moves

\* The invariant of the tasks.
FollowInv == \A p \in Parties : Following(tasks[p])

\* Every step keeps it.
LEMMA FollowNext ==
  ASSUME TypeOK, ShapeOK, FollowInv, [Next]_vars
  PROVE  FollowInv'
<1>1. CASE Next
  <2>1. PICK p \in Parties : Moves(p)
    BY <1>1, NextMoves DEF FollowInv
  <2>2. session' = session /\ Following(tasks'[p]) /\ \A q \in Parties \ {p} : tasks'[q] = tasks[q]
    BY <2>1, MoveFollows DEF FollowInv, Moves
  <2>3. \A q \in Parties : Following(tasks'[q])
    BY <2>2 DEF FollowInv
  <2>4. \A w : Lanes(w)' = Lanes(w)
    BY <2>2 DEF Lanes, MapLanes, ConcurrencyLimit, Single
  <2>5. \A q \in Parties : Following(tasks[q])'
    BY <2>2, <2>3, <2>4 DEF Following, LanesAt
  <2> QED
    BY <2>5 DEF FollowInv
<1>2. CASE UNCHANGED vars
  BY <1>2 DEF FollowInv, Following, LanesAt, Lanes, MapLanes, ConcurrencyLimit, Single, vars
<1> QED
  BY <1>1, <1>2

-----------------------------------------------------------------------------
(* The channels of the tasks. *)

\* The channel of a task has a box at both ends.
BoxOK == \A p, o \in Parties : \A k \in DOMAIN tasks[p] : tasks[p][k].chan \in DOMAIN box[o]

\* Party p opens `ids'; its tasks have the channels they had, or new ones.
Chans(p, ids) ==
  /\ ids \cap Opened(p) = {}
  /\ Opened(p)' = Opened(p) \cup ids /\ \A q \in Parties \ {p} : Opened(q)' = Opened(q)
  /\ \A q \in Parties : DOMAIN box'[q] = DOMAIN box[q] \cup ids
  /\ \A k \in DOMAIN tasks'[p] : \/ k \in DOMAIN tasks[p] /\ tasks'[p][k].chan = tasks[p][k].chan
                                 \/ ~Single /\ tasks'[p][k].chan \in ids
                                 \/ Single /\ \E j \in DOMAIN tasks[p] : tasks'[p][k].chan = tasks[p][j].chan

\* What a task has left keeps its channel.
LEMMA EndChans ==
  ASSUME NEW p \in Parties, NEW k, NEW r, NEW D, NEW M, NEW N, EndStep(p, k, r, D, M, N)
  PROVE  \A j \in DOMAIN tasks'[p] : j \in DOMAIN tasks[p] /\ tasks'[p][j].chan = tasks[p][j].chan
BY DEF EndStep, Ending, Done, Copied

\* Whatever the step, a task keeps its channel, or has one that was just opened.
LEMMA MoveChans ==
  ASSUME TypeOK, ShapeOK, BoxOK, NEW p \in Parties, FollowInv, Moves(p), Single => next[p] = Len(session.roots)
  PROVE  \E ids : Chans(p, ids)
<1>1. PICK T, U : T = tasks[p] /\ U = tasks'[p]
  OBVIOUS
<1>2. ASSUME NEW ids, Opens(p, ids), ids \cap Opened(p) = {},
             \A k \in DOMAIN U : \/ k \in DOMAIN T /\ U[k].chan = T[k].chan
                                 \/ ~Single /\ U[k].chan \in ids
                                 \/ Single /\ \E j \in DOMAIN T : U[k].chan = T[j].chan
      PROVE  Chans(p, ids)
  BY <1>1, <1>2 DEF Opens, Chans
<1>3. {} \cap Opened(p) = {}
  OBVIOUS
<1>4. CASE Adding(p)
  <2>1. PICK r, u : r = <<next[p] + 1>> /\ u = RootTask(next[p])
    OBVIOUS
  <2>2. CASE U = T /\ Opens(p, {})
    BY <1>2, <1>3, <2>2
  <2>3. CASE /\ DOMAIN U = DOMAIN T \cup {r} /\ U[r] = u /\ \A j \in DOMAIN T \ {r} : U[j] = T[j]
             /\ u.chan \notin Opened(p) /\ Opens(p, {u.chan})
    <3>1. ~Single
      <4>1. next[p] \in Nat /\ next[p] < Len(session.roots)
        BY <1>4 DEF Adding, TypeOK
      <4> QED
        BY <4>1
    <3>2. {u.chan} \cap Opened(p) = {}
      BY <2>3
    <3> QED
      BY <1>2, <2>3, <3>1, <3>2
  <2> QED
    BY <1>1, <1>4, <2>1, <2>2, <2>3 DEF Adding
<1>5. CASE \E k \in DOMAIN tasks[p] : Working(p, k)
  <2>1. PICK k \in DOMAIN T : Working(p, k)
    BY <1>1, <1>5
  <2>2. ASSUME \A j \in DOMAIN U : j \in DOMAIN T /\ U[j].chan = T[j].chan,
               \/ Opens(p, {})
               \/ mux' = mux /\ \E q \in Parties : \E m : \E c \in DOMAIN box[q] :
                                  box' = [box EXCEPT ![q] = [box[q] EXCEPT ![c] = m]]
        PROVE  Chans(p, {})
    <3>1. CASE Opens(p, {})
      BY <1>2, <1>3, <2>2, <3>1
    <3>2. CASE mux' = mux /\ \E q \in Parties : \E m : \E c \in DOMAIN box[q] :
                               box' = [box EXCEPT ![q] = [box[q] EXCEPT ![c] = m]]
      <4>1. \A x \in Parties : DOMAIN box'[x] = DOMAIN box[x] /\ Opened(x)' = Opened(x)
        BY <3>2, BoxEffect
      <4> QED
        BY <1>1, <1>3, <2>2, <4>1 DEF Chans
    <3> QED
      BY <2>2, <3>1, <3>2
  <2>3. PICK t \in TaskSet : t = T[k]
    BY <1>1 DEF TypeOK, IsTasks
  <2>4. CASE Sending(p, k)
    <3>1. \A j \in DOMAIN U : j \in DOMAIN T /\ U[j].chan = T[j].chan
      BY <1>1, <2>4 DEF Sending
    <3>2. Peer(p) \in Parties
      BY DEF Peer, Parties
    <3>3. t.chan \in DOMAIN box[Peer(p)]
      BY <1>1, <2>3, <3>2 DEF BoxOK
    <3>4. PICK m : box' = [box EXCEPT ![Peer(p)] = [box[Peer(p)] EXCEPT ![t.chan] = m]]
      BY <1>1, <2>3, <2>4 DEF Sending
    <3>5. mux' = mux
      BY <2>4 DEF Sending
    <3> QED
      BY <2>2, <3>1, <3>2, <3>3, <3>4, <3>5
  <2>5. CASE SendFails(p, k)
    <3>1. \A j \in DOMAIN U : j \in DOMAIN T /\ U[j].chan = T[j].chan
      BY <1>1, <2>5, EndChans DEF SendFails
    <3>2. Opens(p, {})
      BY <2>5, NoneOpened DEF SendFails
    <3> QED
      BY <2>2, <3>1, <3>2
  <2>6. CASE \E r \in ResultSet : Reading(p, k, r)
    <3>1. PICK r \in ResultSet : Reading(p, k, r)
      BY <2>6
    <3>2. \A j \in DOMAIN U : j \in DOMAIN T /\ U[j].chan = T[j].chan
      BY <1>1, <3>1, EndChans DEF Reading
    <3>3. CASE box' = box
      <4>1. Opens(p, {})
        BY <3>1, <3>3, NoneOpened DEF Reading
      <4> QED
        BY <2>2, <3>2, <4>1
    <3>4. CASE box' # box
      <4>1. PICK m : box' = [box EXCEPT ![p] = [box[p] EXCEPT ![t.chan] = m]]
        BY <1>1, <2>3, <3>1, <3>4 DEF Reading
      <4>2. t.chan \in DOMAIN box[p]
        BY <1>1, <2>3 DEF BoxOK
      <4>3. mux' = mux
        BY <3>1 DEF Reading
      <4> QED
        BY <2>2, <3>2, <4>1, <4>2, <4>3
    <3> QED
      BY <3>3, <3>4
  <2>7. CASE Forking(p, k)
    <3>1. PICK ids : ids = IF Single THEN {} ELSE {LaneOf(t, l).chan : l \in 1 .. Lanes(Head(t.queue).w)}
      OBVIOUS
    <3>2. Spawned(T, U, k) /\ Opens(p, ids) /\ ids \cap Opened(p) = {}
      BY <1>1, <2>3, <2>7, <3>1 DEF Forking
    <3>3. /\ t.queue # <<>> /\ DOMAIN U = DOMAIN T \cup KeysOf(t)
          /\ U[k] = [t EXCEPT !.fork = NextFork(t), !.phase = "wait"]
          /\ \A c \in KeysOf(t) \ {k} : U[c] = LaneOf(t, Last(c))
          /\ \A j \in DOMAIN U \ (KeysOf(t) \cup {k}) : U[j] = T[j]
      BY <2>3, <3>2 DEF Spawned, AtWork, KeysOf
    <3>4. U[k].chan = T[k].chan
      <4>1. PICK f : f = NextFork(t)
        OBVIOUS
      <4>2. U[k] = [t EXCEPT !.fork = f, !.phase = "wait"]
        BY <3>3, <4>1
      <4> QED
        BY <2>3, <4>2 DEF TaskSet
    <3>5. ASSUME NEW c \in KeysOf(t), c # k
          PROVE  (~Single /\ U[c].chan \in ids) \/ (Single /\ U[c].chan = T[k].chan)
      <4>1. Last(c) \in 1 .. Lanes(Head(t.queue).w) /\ U[c] = LaneOf(t, Last(c))
        BY <3>3, <3>5, KeyIs
      <4>2. CASE Single
        BY <2>3, <4>1, <4>2 DEF LaneOf, LaneTask, NewTask
      <4>3. CASE ~Single
        BY <3>1, <4>1, <4>3
      <4> QED
        BY <4>2, <4>3
    <3>6. \A j \in DOMAIN U : \/ j \in DOMAIN T /\ U[j].chan = T[j].chan
                              \/ ~Single /\ U[j].chan \in ids
                              \/ Single /\ \E i \in DOMAIN T : U[j].chan = T[i].chan
      BY <3>3, <3>4, <3>5
    <3> QED
      BY <1>2, <3>2, <3>6
  <2>8. CASE Dropping(p, k)
    <3>1. \A j \in DOMAIN U : j \in DOMAIN T /\ U[j].chan = T[j].chan
      BY <1>1, <2>8 DEF Dropping, Copied
    <3> QED
      BY <2>2, <2>8, <3>1 DEF Dropping
  <2>9. CASE \E r \in ResultSet : \E D, M : Joining(p, k, r, D, M)
    <3>1. PICK r, D, M : r \in ResultSet /\ Joining(p, k, r, D, M)
      BY <2>9
    <3>2. \A j \in DOMAIN U : j \in DOMAIN T /\ U[j].chan = T[j].chan
      BY <1>1, <3>1, EndChans DEF Joining
    <3> QED
      BY <2>2, <3>1, <3>2 DEF Joining
  <2>10. CASE \E open : Refusing(p, k, open)
    <3>1. PICK open : Refusing(p, k, open)
      BY <2>10
    <3>2. \A j \in DOMAIN U : j \in DOMAIN T /\ U[j].chan = T[j].chan
      BY <1>1, <3>1, EndChans DEF Refusing
    <3>3. Opens(p, open) /\ open \cap Opened(p) = {}
      BY <3>1 DEF Refusing
    <3> QED
      BY <1>2, <3>2, <3>3
  <2> QED
    BY <2>1, <2>4, <2>5, <2>6, <2>7, <2>8, <2>9, <2>10 DEF Working
<1> QED
  BY <1>4, <1>5 DEF Moves

-----------------------------------------------------------------------------
(* On a session, where every line has a channel of its own. *)

\* The task of a line has the line's channel.
LEMMA ChanLine ==
  ASSUME NEW s \in Sessions, NEW x \in Lines(s), NEW k, k = x.key, NEW c,
         IsCaller(k, c) \/ IsLaneTask(s, k, c)
  PROVE  c = x.chan
<1>1. PICK y : y \in Lines(s) /\ y.key = k /\ y.chan = c
  <2>1. CASE IsCaller(k, c)
    <3>1. PICK r \in Nat \ {0} : k = <<r>> /\ c = RootChan(r)
      BY <2>1 DEF IsCaller
    <3>2. CASE \E i \in DOMAIN s.roots : x = RootLine(s, i)
      <4>1. PICK i \in DOMAIN s.roots : x = RootLine(s, i)
        BY <3>2
      <4>2. x.key = <<i>>
        BY <4>1 DEF RootLine
      <4>3. i = r
        <5>1. <<r>> = <<i>>
          BY <3>1, <4>2
        <5>2. <<r>>[1] = r /\ <<i>>[1] = i
          OBVIOUS
        <5> QED
          BY <5>1, <5>2
      <4>4. RootLine(s, r).chan = c
        BY <3>1 DEF RootLine
      <4> QED
        BY <4>1, <4>3, <4>4
    <3>3. CASE \E d \in Operations(s) : \E l \in 1 .. LanesOf(s, d.w) : x = LaneLine(s, d, l)
      <4>1. PICK d \in Operations(s) : \E l \in 1 .. LanesOf(s, d.w) : x = LaneLine(s, d, l)
        BY <3>3
      <4>2. PICK l \in 1 .. LanesOf(s, d.w) : x = LaneLine(s, d, l)
        BY <4>1
      <4>3. l \in Nat \ {0} /\ x.key = Append(d.path, l)
        BY <4>2 DEF LaneLine
      <4>4. Append(d.path, l) # <<r>>
        BY <4>3, LaneLong
      <4> QED
        BY <3>1, <4>3, <4>4
    <3> QED
      BY <3>2, <3>3, LineIs
  <2>2. CASE IsLaneTask(s, k, c)
    <3>1. PICK d \in Plan(s), l \in Nat \ {0} : d.w.k \in Ops /\ k = Append(d.path, l) /\ c = LaneChan(d, l)
      BY <2>2 DEF IsLaneTask
    <3>2. d \in Operations(s)
      BY <3>1 DEF Operations
    <3>3. CASE \E i \in DOMAIN s.roots : x = RootLine(s, i)
      <4>1. PICK i \in DOMAIN s.roots : x = RootLine(s, i)
        BY <3>3
      <4>2. x.key = <<i>> /\ i \in Nat \ {0}
        BY <4>1, SessionsAssumption DEF RootLine
      <4>3. Append(d.path, l) # <<i>>
        BY <3>2, <4>2, LaneLong
      <4> QED
        BY <3>1, <4>2, <4>3
    <3>4. CASE \E g \in Operations(s) : \E m \in 1 .. LanesOf(s, g.w) : x = LaneLine(s, g, m)
      <4>1. PICK g \in Operations(s) : \E m \in 1 .. LanesOf(s, g.w) : x = LaneLine(s, g, m)
        BY <3>4
      <4>2. PICK m \in 1 .. LanesOf(s, g.w) : x = LaneLine(s, g, m)
        BY <4>1
      <4>3. m \in Nat \ {0} /\ x.key = Append(g.path, m) /\ x.chan = LaneChan(g, m)
        BY <4>2 DEF LaneLine
      <4>4. d = g /\ l = m
        <5>1. Append(d.path, l) = Append(g.path, m)
          BY <3>1, <4>3
        <5>2. m \in Nat \ {0}
          BY <4>3
        <5> QED
          BY <3>2, <5>1, <5>2, LaneLineApart
      <4> QED
        BY <3>1, <4>3, <4>4
    <3> QED
      BY <3>3, <3>4, LineIs
  <2> QED
    BY <2>1, <2>2
<1>2. y = x
  BY <1>1, LinesApart
<1> QED
  BY <1>1, <1>2

\* On many channels a task is on the line of its key, and has its channel.
LEMMA TaskLine ==
  ASSUME ChanInv, ~Single, FollowInv, NEW p \in Parties, NEW k \in DOMAIN tasks[p]
  PROVE  \E x \in Lines(session) : x.key = k /\ Follows(x, tasks[p][k]) /\ x.chan = tasks[p][k].chan
<1>1. PICK s \in Sessions : s = session
  BY DEF ChanInv, TypeOK
<1>2. PICK x \in Lines(s) : x.key = k /\ Follows(x, tasks[p][k])
  BY <1>1 DEF FollowInv, Following, AllFollow
<1>3. PICK c : c = tasks[p][k].chan
  OBVIOUS
<1>4. IsCaller(k, c) \/ IsLaneTask(s, k, c)
  BY <1>1, <1>3 DEF ChanInv, AllLaid, TaskLaid
<1>5. c = x.chan
  BY <1>2, <1>4, ChanLine
<1> QED
  BY <1>1, <1>2, <1>3, <1>5

\* No two tasks of a party share a channel.
LEMMA TasksApart ==
  ASSUME ChanInv, ~Single, FollowInv, NEW p \in Parties, NEW j \in DOMAIN tasks[p], NEW k \in DOMAIN tasks[p],
         tasks[p][j].chan = tasks[p][k].chan
  PROVE  j = k
<1>1. PICK s \in Sessions : s = session
  BY DEF ChanInv, TypeOK
<1>2. PICK x \in Lines(s) : x.key = j /\ x.chan = tasks[p][j].chan
  BY <1>1, TaskLine
<1>3. PICK y \in Lines(s) : y.key = k /\ y.chan = tasks[p][k].chan
  BY <1>1, TaskLine
<1>4. x = y
  BY <1>2, <1>3, LinesApart
<1> QED
  BY <1>2, <1>3, <1>4

\* Party p gives up channels N that it has just opened, and C that a task had
\* that has nothing left to do.
Gives(p, N, C, k) ==
  /\ closed'[p] = closed[p] \cup N \cup C
  /\ N \subseteq Opened(p)' /\ N \cap Opened(p) = {}
  /\ N # {} => \A j \in DOMAIN tasks'[p] : j \in DOMAIN tasks[p] /\ tasks'[p][j].chan = tasks[p][j].chan
  /\ C # {} => /\ k \in DOMAIN tasks[p] /\ C = {tasks[p][k].chan}
               /\ k \in DOMAIN tasks'[p] => tasks'[p][k].queue = <<>>

\* A task that has nothing to do has nothing to do after the step.
StaysIdle(p) ==
  \A j \in DOMAIN tasks'[p] :
     j \in DOMAIN tasks[p] /\ tasks[p][j].queue = <<>> /\ tasks'[p][j].chan \in Opened(p)
        => tasks'[p][j].queue = <<>>

\* The end of an item gives up channels only of what it ends.
LEMMA EndGives ==
  ASSUME NEW p \in Parties, NEW k, NEW r, NEW D, NEW M, NEW N, EndStep(p, k, r, D, M, N),
         N \subseteq Opened(p)', N \cap Opened(p) = {}
  PROVE  /\ \E A, C : Gives(p, A, C, k)
         /\ StaysIdle(p) /\ \A q \in Parties \ {p} : closed'[q] = closed[q]
<1>1. PICK C \in {{}, {tasks[p][k].chan}} :
         /\ closed'[p] = closed[p] \cup N \cup C
         /\ C # {} => tasks'[p][k].queue = <<>>
  BY DEF EndStep
<1>2. k \in DOMAIN tasks[p]
  BY DEF EndStep, Ending
<1>3. \A j \in DOMAIN tasks'[p] : j \in DOMAIN tasks[p] /\ tasks'[p][j].chan = tasks[p][j].chan
  BY EndChans
<1>4. Gives(p, N, C, k)
  BY <1>1, <1>2, <1>3 DEF Gives
<1>5. StaysIdle(p)
  BY DEF StaysIdle, EndStep, Ending, Done, Copied
<1> QED
  BY <1>4, <1>5 DEF EndStep

\* What a step gives up.
LEMMA MoveGives ==
  ASSUME TypeOK, ShapeOK, ~Single, NEW p \in Parties, Moves(p)
  PROVE  /\ \E N, C, k : Gives(p, N, C, k)
         /\ StaysIdle(p) /\ \A q \in Parties \ {p} : closed'[q] = closed[q]
<1>1. PICK T, U : T = tasks[p] /\ U = tasks'[p]
  OBVIOUS
<1>2. ASSUME closed' = closed PROVE \E N, C, k : Gives(p, N, C, k)
  <2>1. Gives(p, {}, {}, <<>>)
    BY <1>2 DEF Gives
  <2> QED
    BY <2>1
<1>3. CASE Adding(p)
  <2>1. closed' = closed
    BY <1>3 DEF Adding
  <2>2. PICK r, u : r = <<next[p] + 1>> /\ u = RootTask(next[p])
    OBVIOUS
  <2>3. \/ U = T
        \/ DOMAIN U = DOMAIN T \cup {r} /\ U[r] = u /\ (\A j \in DOMAIN T \ {r} : U[j] = T[j]) /\ u.chan \notin Opened(p)
    BY <1>1, <1>3, <2>2 DEF Adding
  <2>4. StaysIdle(p)
    BY <1>1, <2>3 DEF StaysIdle
  <2> QED
    BY <1>2, <2>1, <2>4
<1>4. CASE \E k \in DOMAIN tasks[p] : Working(p, k)
  <2>1. PICK k \in DOMAIN T : Working(p, k)
    BY <1>1, <1>4
  <2>2. {} \subseteq Opened(p)' /\ {} \cap Opened(p) = {}
    OBVIOUS
  <2>4. CASE Sending(p, k)
    <3>1. StaysIdle(p) /\ closed' = closed
      BY <2>4 DEF Sending, StaysIdle, Idle
    <3> QED
      BY <1>2, <3>1
  <2>5. CASE SendFails(p, k)
    BY <2>2, <2>5, EndGives DEF SendFails
  <2>6. CASE \E r \in ResultSet : Reading(p, k, r)
    BY <2>2, <2>6, EndGives DEF Reading
  <2>7. CASE Forking(p, k)
    <3>1. PICK t \in TaskSet : t = T[k]
      BY <1>1 DEF TypeOK, IsTasks
    <3>2. PICK ids : ids = {LaneOf(t, l).chan : l \in 1 .. Lanes(Head(t.queue).w)}
      OBVIOUS
    <3>3. Spawned(T, U, k) /\ ids \cap Opened(p) = {} /\ closed' = closed
      BY <1>1, <2>7, <3>1, <3>2 DEF Forking
    <3>4. /\ t.queue # <<>> /\ DOMAIN U = DOMAIN T \cup KeysOf(t)
          /\ \A c \in KeysOf(t) \ {k} : U[c] = LaneOf(t, Last(c))
          /\ \A j \in DOMAIN U \ (KeysOf(t) \cup {k}) : U[j] = T[j]
      BY <3>1, <3>3 DEF Spawned, AtWork, KeysOf
    <3>5. ASSUME NEW c \in KeysOf(t), c # k PROVE U[c].chan \notin Opened(p)
      <4>1. Last(c) \in 1 .. Lanes(Head(t.queue).w) /\ U[c] = LaneOf(t, Last(c))
        BY <3>4, <3>5, KeyIs
      <4> QED
        BY <3>2, <3>3, <4>1
    <3>6. StaysIdle(p)
      BY <1>1, <3>1, <3>4, <3>5 DEF StaysIdle
    <3> QED
      BY <1>2, <3>3, <3>6
  <2>8. CASE Dropping(p, k)
    <3>1. closed'[p] = closed[p] \cup {} \cup {T[k].chan} /\ k \notin DOMAIN U
      BY <1>1, <2>8 DEF Dropping, ChannelOf, OwnsChannel
    <3>2. Gives(p, {}, {T[k].chan}, k)
      BY <1>1, <3>1 DEF Gives
    <3>3. StaysIdle(p)
      BY <2>8 DEF Dropping, StaysIdle, Copied
    <3> QED
      BY <2>8, <3>2, <3>3 DEF Dropping
  <2>9. CASE \E r \in ResultSet : \E D, M : Joining(p, k, r, D, M)
    <3>1. PICK r, D, M : EndStep(p, k, r, D, M, {})
      BY <2>9 DEF Joining
    <3> QED
      BY <2>2, <3>1, EndGives
  <2>10. CASE \E open : Refusing(p, k, open)
    <3>1. PICK open : Refusing(p, k, open)
      BY <2>10
    <3>2. open \subseteq Opened(p)' /\ open \cap Opened(p) = {}
      BY <3>1 DEF Refusing, Opens
    <3>3. PICK r : EndStep(p, k, r, {}, {}, open)
      BY <3>1 DEF Refusing
    <3> QED
      BY <3>2, <3>3, EndGives
  <2> QED
    BY <2>1, <2>4, <2>5, <2>6, <2>7, <2>8, <2>9, <2>10 DEF Working
<1> QED
  BY <1>3, <1>4 DEF Moves

\* On a session a party has opened every channel it has given up and every
\* channel a task has; a task whose channel is given up has nothing to do.
OpenedFor(p) ==
  /\ closed[p] \subseteq Opened(p)
  /\ \A k \in DOMAIN tasks[p] : /\ tasks[p][k].chan \in Opened(p)
                                /\ tasks[p][k].chan \in closed[p] => tasks[p][k].queue = <<>>

\* No step of either party takes away from what has been opened for a task.
LEMMA MoveOpened ==
  ASSUME ChanInv, ShapeOK, ~Single, BoxOK, FollowInv, NEW p \in Parties, Moves(p),
         NEW q \in Parties, OpenedFor(q)
  PROVE  OpenedFor(q)'
<1>1. PICK ids : Chans(p, ids)
  BY MoveChans DEF ChanInv
<1>2. PICK N, C, k : Gives(p, N, C, k)
  BY MoveGives DEF ChanInv
<1>3. StaysIdle(p) /\ \A x \in Parties \ {p} : closed'[x] = closed[x]
  BY MoveGives DEF ChanInv
<1>4. CASE q # p
  <2>1. tasks'[q] = tasks[q]
    BY <1>4, MoveFollows DEF ChanInv, FollowInv
  <2>2. Opened(q)' = Opened(q) /\ closed'[q] = closed[q]
    BY <1>1, <1>3, <1>4 DEF Chans
  <2> QED
    BY <2>1, <2>2 DEF OpenedFor
<1>5. CASE q = p
  <2>1. PICK T, U, Z, A, B :
          T = tasks[p] /\ U = tasks'[p] /\ Z = Opened(p) /\ A = closed[p] /\ B = closed'[p]
    OBVIOUS
  <2>2. PICK Y : Y = Opened(p)' /\ Y = Z \cup ids /\ ids \cap Z = {}
    BY <1>1, <2>1 DEF Chans
  <2>3. A \subseteq Z /\ \A j \in DOMAIN T : T[j].chan \in Z /\ (T[j].chan \in A => T[j].queue = <<>>)
    BY <1>5, <2>1 DEF OpenedFor
  <2>4. /\ B = A \cup N \cup C /\ N \subseteq Y /\ N \cap Z = {}
        /\ N # {} => \A j \in DOMAIN U : j \in DOMAIN T /\ U[j].chan = T[j].chan
        /\ C # {} => /\ k \in DOMAIN T /\ C = {T[k].chan}
                     /\ k \in DOMAIN U => U[k].queue = <<>>
    BY <1>2, <2>1, <2>2 DEF Gives
  <2>5. B \subseteq Y
    BY <2>2, <2>3, <2>4
  <2>6. ASSUME NEW j \in DOMAIN U PROVE U[j].chan \in Y /\ (U[j].chan \in B => U[j].queue = <<>>)
    <3>1. CASE j \in DOMAIN T /\ U[j].chan = T[j].chan
      <4>1. U[j].chan \in Z
        BY <2>3, <3>1
      <4>2. ASSUME U[j].chan \in A PROVE U[j].queue = <<>>
        BY <1>3, <2>1, <2>3, <3>1, <4>1, <4>2 DEF StaysIdle
      <4>3. ASSUME U[j].chan \in C PROVE U[j].queue = <<>>
        <5>1. k \in DOMAIN T /\ T[k].chan = T[j].chan
          BY <2>4, <3>1, <4>3
        <5>2. k = j
          BY <2>1, <3>1, <5>1, TasksApart
        <5> QED
          BY <2>4, <4>3, <5>2
      <4> QED
        BY <2>2, <2>4, <4>1, <4>2, <4>3
    <3>2. CASE ~(j \in DOMAIN T /\ U[j].chan = T[j].chan)
      <4>1. U[j].chan \in ids
        BY <1>1, <2>1, <3>2 DEF Chans
      <4>2. N = {}
        BY <2>4, <3>2
      <4> QED
        BY <2>2, <2>3, <2>4, <4>1, <4>2
    <3> QED
      BY <3>1, <3>2
  <2> QED
    BY <1>5, <2>1, <2>2, <2>5, <2>6 DEF OpenedFor
<1> QED
  BY <1>4, <1>5

-----------------------------------------------------------------------------
(* What is left of a line of work. *)

\* The work of a line that sends.
Talks(x) == {x.items[j].path : j \in {i \in DOMAIN x.items : x.items[i].w.k \notin Ops}}

\* Task k of T: what it has not begun, has not ended, and is reading.
LeftIn(T, k) ==
  IF k \in DOMAIN T
  THEN {T[k].queue[i].path : i \in {h \in DOMAIN T[k].queue : h # 1 \/ T[k].phase = "run"}}
  ELSE {}
TodoIn(T, k) == IF k \in DOMAIN T THEN DOMAIN T[k].queue ELSE {}
ReadsIn(T, k) == IF k \in DOMAIN T /\ T[k].phase = "recv" THEN {Head(T[k].queue).path} ELSE {}

\* Nothing changes for task k.
SameWork(T, U, k) ==
  LeftIn(U, k) = LeftIn(T, k) /\ TodoIn(U, k) = TodoIn(T, k) /\ ReadsIn(U, k) = ReadsIn(T, k)

\* A task that is copied, or absent before and after, has the same work.
LEMMA CopiedWork ==
  ASSUME NEW T, NEW U, NEW k,
         \/ k \notin DOMAIN T /\ k \notin DOMAIN U
         \/ k \in DOMAIN T /\ k \in DOMAIN U /\ (U[k] = T[k] \/ Copied(U[k], T[k]))
  PROVE  SameWork(T, U, k)
<1>1. CASE k \notin DOMAIN T /\ k \notin DOMAIN U
  BY <1>1 DEF SameWork, LeftIn, TodoIn, ReadsIn
<1>2. CASE k \in DOMAIN T /\ k \in DOMAIN U /\ (U[k] = T[k] \/ Copied(U[k], T[k]))
  <2>1. PICK t, u : t = T[k] /\ u = U[k]
    OBVIOUS
  <2>2. u.queue = t.queue /\ u.phase = t.phase
    BY <1>2, <2>1 DEF Copied
  <2> QED
    BY <1>2, <2>1, <2>2 DEF SameWork, LeftIn, TodoIn, ReadsIn
<1> QED
  BY <1>1, <1>2

\* Talks are in the plan's order of the line and are no operations.
LEMMA TalkIs ==
  ASSUME NEW s \in Sessions, NEW x \in Lines(s), NEW j \in DOMAIN x.items
  PROVE  /\ x.items[j].path \in Talks(x) <=> x.items[j].w.k \notin Ops
         /\ Talks(x) \subseteq Path /\ x.items[j].path \in Path
<1>1. x.items \in Seq(ItemSet)
  BY LineFacts DEF LineOK
<1>2. ASSUME x.items[j].path \in Talks(x) PROVE x.items[j].w.k \notin Ops
  <2>1. PICK i \in DOMAIN x.items : x.items[i].w.k \notin Ops /\ x.items[i].path = x.items[j].path
    BY <1>2 DEF Talks
  <2>2. i = j
    BY <2>1, ItemsApart
  <2> QED
    BY <2>1, <2>2
<1>3. \A i \in DOMAIN x.items : x.items[i].path \in Path
  <2>1. PICK q \in Seq(ItemSet) : q = x.items
    BY <1>1
  <2>2. \A i \in DOMAIN q : q[i] \in ItemSet
    OBVIOUS
  <2>3. \A i \in DOMAIN q : q[i].path \in Path
    BY <2>2 DEF ItemSet
  <2> QED
    BY <2>1, <2>3
<1>4. ASSUME x.items[j].w.k \notin Ops PROVE x.items[j].path \in Talks(x)
  <2>1. j \in {i \in DOMAIN x.items : x.items[i].w.k \notin Ops}
    BY <1>4
  <2> QED
    BY <2>1 DEF Talks
<1>5. Talks(x) \subseteq Path
  BY <1>3 DEF Talks
<1> QED
  BY <1>2, <1>3, <1>4, <1>5

\* Task t is at line x under key k.
AtLine(s, x, T, k, t) ==
  /\ s \in Sessions /\ x \in Lines(s) /\ k = x.key /\ k \in DOMAIN T /\ t = T[k] /\ t \in TaskSet
  /\ PhaseFits(t) /\ Follows(x, t)

\* What the queue of a task is in its line.
LEMMA QueueIs ==
  ASSUME NEW s, NEW x, NEW T, NEW k, NEW t, AtLine(s, x, T, k, t), t.queue # <<>>
  PROVE  /\ 1 \in DOMAIN t.queue /\ Head(t.queue) = t.queue[1] /\ Head(t.queue).path \in Path
         /\ Head(t.queue).path \in Talks(x) <=> Head(t.queue).w.k \notin Ops
         /\ \A j \in DOMAIN t.queue :
              /\ j \in Nat \ {0} /\ t.queue[j].path \in Path
              /\ j > 1 => Before(Head(t.queue).path, t.queue[j].path)
<1>1. s \in Sessions /\ x \in Lines(s) /\ t \in TaskSet /\ Follows(x, t)
  BY DEF AtLine
<1>2. /\ Len(t.out) + 1 \in DOMAIN x.items /\ Head(t.queue) = x.items[Len(t.out) + 1]
      /\ Head(t.queue) = t.queue[1] /\ 1 \in DOMAIN t.queue
      /\ \A j \in DOMAIN t.queue : /\ j \in Nat \ {0} /\ Len(t.out) + j \in DOMAIN x.items
                                   /\ t.queue[j] = x.items[Len(t.out) + j] /\ t.queue[j].path \in Path
  BY <1>1, HeadOf
<1>3. PICK n \in Nat : n = Len(t.out)
  BY <1>1 DEF TaskSet
<1>4. PICK h : h = n + 1 /\ h \in DOMAIN x.items /\ Head(t.queue) = x.items[h]
  BY <1>2, <1>3
<1>5. Head(t.queue).path \in Path /\ (Head(t.queue).path \in Talks(x) <=> Head(t.queue).w.k \notin Ops)
  BY <1>1, <1>4, TalkIs
<1>6. ASSUME NEW j \in DOMAIN t.queue, j > 1 PROVE Before(Head(t.queue).path, t.queue[j].path)
  <2>1. PICK i : i = n + j /\ i \in DOMAIN x.items /\ t.queue[j] = x.items[i] /\ j \in Nat
    BY <1>2, <1>3
  <2>2. h < i
    BY <1>4, <1>6, <2>1
  <2>3. PICK a \in Path, b \in Path : a = x.items[h].path /\ b = x.items[i].path
    BY <1>1, <1>4, <2>1, TalkIs
  <2>4. IsPrefix(a, a) /\ IsPrefix(b, b)
    BY PrefixOrder
  <2>5. Before(a, b)
    BY <1>1, <1>4, <2>1, <2>2, <2>3, <2>4, LineBefore
  <2> QED
    BY <1>4, <2>1, <2>3, <2>5
<1> QED
  BY <1>2, <1>5, <1>6

\* The task ends an item: nothing that sends is skipped, but that item.
LEMMA EndsWork ==
  ASSUME NEW s, NEW x, NEW T, NEW k, NEW t, AtLine(s, x, T, k, t), NEW U, k \in DOMAIN U, NEW r, Done(U[k], t, r)
  PROVE  /\ LeftIn(U, k) \subseteq LeftIn(T, k) /\ ReadsIn(U, k) = {} /\ TodoIn(T, k) # {}
         /\ TodoIn(U, k) # {} /\ (t.phase # "run" \/ Head(t.queue).w.k \in Ops)
              => LeftIn(T, k) \cap Talks(x) \subseteq LeftIn(U, k)
<1>1. PICK u : u = U[k]
  OBVIOUS
<1>2. /\ t.queue # <<>> /\ u.phase = "run" /\ (u.queue = <<>> \/ u.queue = Tail(t.queue))
      /\ k \in DOMAIN T /\ t = T[k] /\ t \in TaskSet
  BY <1>1 DEF Done, AtLine
<1>3. /\ 1 \in DOMAIN t.queue /\ Head(t.queue) = t.queue[1]
      /\ Head(t.queue).path \in Talks(x) <=> Head(t.queue).w.k \notin Ops
  BY <1>2, QueueIs
<1>4. ReadsIn(U, k) = {} /\ TodoIn(T, k) # {}
  BY <1>1, <1>2, <1>3 DEF ReadsIn, TodoIn
<1>5. PICK a, b : a = t.queue /\ b = u.queue /\ a \in Seq(ItemSet)
  BY <1>2 DEF TaskSet
<1>6. /\ LeftIn(T, k) = {a[i].path : i \in {h \in DOMAIN a : h # 1 \/ t.phase = "run"}}
      /\ LeftIn(U, k) = {b[i].path : i \in DOMAIN b} /\ TodoIn(U, k) = DOMAIN b
  BY <1>1, <1>2, <1>5 DEF LeftIn, TodoIn
<1>7. CASE b = <<>>
  BY <1>4, <1>6, <1>7
<1>8. CASE b # <<>>
  <2>1. b = Tail(a) /\ a # <<>>
    BY <1>2, <1>5, <1>8
  <2>2. /\ \A j \in DOMAIN b : j \in Nat /\ j + 1 \in DOMAIN a /\ j + 1 # 1 /\ b[j] = a[j + 1]
        /\ \A i \in DOMAIN a : i # 1 => \E j \in DOMAIN b : i = j + 1
    <3>1. Len(b) = Len(a) - 1 /\ DOMAIN b = 1 .. Len(b) /\ DOMAIN a = 1 .. Len(a) /\ Len(a) \in Nat \ {0}
      BY <1>5, <2>1
    <3>2. \A j \in DOMAIN b : b[j] = a[j + 1]
      BY <1>5, <2>1
    <3>3. \A i \in DOMAIN a : i # 1 => i - 1 \in DOMAIN b /\ i = (i - 1) + 1
      BY <3>1
    <3> QED
      BY <3>1, <3>2, <3>3
  <2>3. LeftIn(U, k) \subseteq LeftIn(T, k)
    <3>1. ASSUME NEW j \in DOMAIN b PROVE b[j].path \in LeftIn(T, k)
      <4>1. PICK i \in DOMAIN a : i = j + 1 /\ i # 1 /\ b[j] = a[i]
        BY <2>2
      <4> QED
        BY <1>6, <4>1
    <3> QED
      BY <1>6, <3>1
  <2>4. ASSUME t.phase # "run" \/ Head(t.queue).w.k \in Ops, NEW y \in LeftIn(T, k) \cap Talks(x)
        PROVE  y \in LeftIn(U, k)
    <3>1. PICK i \in DOMAIN a : (i # 1 \/ t.phase = "run") /\ y = a[i].path
      BY <1>6, <2>4
    <3>2. i # 1
      BY <1>3, <1>5, <2>4, <3>1
    <3>3. PICK j \in DOMAIN b : i = j + 1
      BY <2>2, <3>2
    <3>4. b[j] = a[i]
      BY <2>2, <3>3
    <3> QED
      BY <1>6, <3>1, <3>4
  <2> QED
    BY <1>4, <2>3, <2>4
<1> QED
  BY <1>7, <1>8

\* The task goes on to the second phase of its item, sends it or forks.
LEMMA GoesOnWork ==
  ASSUME NEW s, NEW x, NEW T, NEW k, NEW t, AtLine(s, x, T, k, t), NEW U, k \in DOMAIN U,
         t.queue # <<>>, t.phase = "run", U[k].queue = t.queue, U[k].phase # "run"
  PROVE  /\ LeftIn(U, k) \subseteq LeftIn(T, k) /\ TodoIn(U, k) = TodoIn(T, k) /\ TodoIn(T, k) # {}
         /\ LeftIn(T, k) \subseteq LeftIn(U, k) \cup {Head(t.queue).path} /\ ReadsIn(T, k) = {}
         /\ Head(t.queue).path \in LeftIn(T, k) /\ Head(t.queue).path \notin LeftIn(U, k)
         /\ \A b \in LeftIn(T, k) : b = Head(t.queue).path \/ Before(Head(t.queue).path, b)
         /\ ReadsIn(U, k) = IF U[k].phase = "recv" THEN {Head(t.queue).path} ELSE {}
<1>1. PICK u, a, e : u = U[k] /\ a = t.queue /\ e = Head(t.queue).path
  OBVIOUS
<1>2. k \in DOMAIN T /\ t = T[k]
  BY DEF AtLine
<1>3. /\ 1 \in DOMAIN a /\ e = a[1].path /\ e \in Path
      /\ \A j \in DOMAIN a : j \in Nat \ {0} /\ a[j].path \in Path /\ (j > 1 => Before(e, a[j].path))
  BY <1>1, QueueIs
<1>4. /\ LeftIn(T, k) = {a[i].path : i \in DOMAIN a} /\ TodoIn(T, k) = DOMAIN a /\ ReadsIn(T, k) = {}
  BY <1>1, <1>2 DEF LeftIn, TodoIn, ReadsIn
<1>5. /\ LeftIn(U, k) = {a[i].path : i \in {h \in DOMAIN a : h # 1}} /\ TodoIn(U, k) = DOMAIN a
      /\ ReadsIn(U, k) = IF u.phase = "recv" THEN {e} ELSE {}
  BY <1>1 DEF LeftIn, TodoIn, ReadsIn
<1>6. \A j \in DOMAIN a : j = 1 \/ j > 1
  BY <1>3
<1>7. \A b \in LeftIn(T, k) : b = e \/ Before(e, b)
  BY <1>3, <1>4, <1>6
<1>8. e \notin LeftIn(U, k)
  <2> SUFFICES ASSUME NEW i \in DOMAIN a, i # 1, a[i].path = e PROVE FALSE
    BY <1>5
  <2>1. PICK b \in Path : b = a[i].path
    BY <1>3
  <2>2. Before(e, b)
    BY <1>3, <1>6, <2>1
  <2>3. e # b
    BY <1>3, <2>2, BeforeOnce
  <2> QED
    BY <2>1, <2>3
<1>9. e \in LeftIn(T, k) /\ LeftIn(U, k) \subseteq LeftIn(T, k) /\ LeftIn(T, k) \subseteq LeftIn(U, k) \cup {e}
  BY <1>3, <1>4, <1>5
<1>10. TodoIn(U, k) = TodoIn(T, k) /\ TodoIn(T, k) # {}
  BY <1>3, <1>4, <1>5
<1> QED
  BY <1>1, <1>4, <1>5, <1>7, <1>8, <1>9, <1>10

\* A task that begins has all of its line left.
LEMMA BeginsWork ==
  ASSUME NEW s \in Sessions, NEW x \in Lines(s), NEW U, x.key \in DOMAIN U, Begins(x, U[x.key])
  PROVE  Talks(x) \subseteq LeftIn(U, x.key) /\ ReadsIn(U, x.key) = {}
<1>1. PICK u, k : k = x.key /\ u = U[k]
  OBVIOUS
<1>2. u.queue = x.items /\ u.phase = "run"
  BY <1>1 DEF Begins
<1>3. LeftIn(U, k) = {x.items[i].path : i \in DOMAIN x.items}
  BY <1>1, <1>2 DEF LeftIn
<1> QED
  BY <1>1, <1>2, <1>3 DEF Talks, ReadsIn

\* A task that is gone has nothing left.
LEMMA GoneWork ==
  ASSUME NEW T, NEW k, k \notin DOMAIN T \/ (T[k].queue = <<>> /\ PhaseFits(T[k]))
  PROVE  LeftIn(T, k) = {} /\ TodoIn(T, k) = {} /\ ReadsIn(T, k) = {}
BY DEF LeftIn, TodoIn, ReadsIn, PhaseFits

-----------------------------------------------------------------------------
(* The two halves of a line when party p, whose view goes from v to v1,     *)
(* takes a step; the peer's view is w, and w1 after.                        *)

\* The peer does nothing.
Still(w, w1) ==
  /\ w1.sent = w.sent /\ w1.left = w.left /\ w1.todo = w.todo /\ w1.reads = w.reads
  /\ w1.opened = w.opened /\ w1.closed = w.closed

\* Nothing of the line is sent or read.
Keeping(G, c, v, w, v1, w1) ==
  /\ v1.sent = v.sent /\ v1.inbox = v.inbox /\ w1.inbox = w.inbox /\ Later(G, v, v1)
  /\ v1.reads = v.reads \/ (v1.reads = {} /\ v1.todo = {} /\ c \in v1.closed)

\* A task begins the line.
Starting(G, c, v, w, v1, w1) ==
  /\ v1.sent = v.sent /\ v1.inbox = v.inbox /\ w1.inbox = w.inbox /\ G \subseteq v1.left
  /\ v.reads = {} /\ v1.reads = {} /\ c \notin v.opened /\ c \notin v.closed

\* The line's task sends e.
Talking(G, c, v, w, v1, w1, e) ==
  /\ e \in G /\ e \in v.left /\ v.todo # {} /\ v.reads = {}
  /\ c \notin v.closed /\ c \notin w.closed /\ c \notin v1.closed /\ c \in v1.opened
  /\ v1.sent = v.sent \cup {e} /\ v1.reads = {e} /\ v1.inbox = v.inbox /\ w1.inbox = Append(w.inbox, e)
  /\ v1.left \subseteq v.left /\ v.left \cap G \subseteq v1.left \cup {e} /\ e \notin v1.left
  /\ \A b \in v.left : b = e \/ Before(e, b)

\* It reads the answer to e.
Hearing(G, c, v, w, v1, w1, e) ==
  /\ v.reads = {e} /\ v.todo # {} /\ c \notin v.closed /\ v.inbox # <<>>
  /\ v1.sent = v.sent /\ v1.reads = {} /\ v1.inbox = Tail(v.inbox) /\ w1.inbox = w.inbox
  /\ Later(G, v, v1)

\* It fails: the peer has given up.
Losing(G, c, v, w, v1, w1) ==
  /\ c \in w1.closed /\ v1.sent = v.sent /\ v1.inbox = v.inbox /\ w1.inbox = w.inbox
  /\ v1.reads = {} /\ v1.left \subseteq v.left

TwoHalves(G, c, v, w) == Half(G, c, v, w) /\ Half(G, c, w, v)

\* The peer's half is kept as long as nothing is sent to it.
LEMMA StillKeeps ==
  ASSUME NEW G, NEW c, NEW v, NEW w, NEW v1, NEW w1, Half(G, c, w, v), Still(w, w1),
         Grown(c, v, v1), v1.sent = v.sent, w1.inbox = w.inbox
  PROVE  Half(G, c, w1, v1)
<1>1. Grown(c, w, w1) /\ Later(G, w, w1)
  BY DEF Grown, Later, Still
<1>2. w1.sent = w.sent /\ w1.reads = w.reads
  BY DEF Still
<1> QED
  BY <1>1, <1>2, HalfKeeps

\* Both halves are kept by a step that says and reads nothing.
LEMMA KeepingHalves ==
  ASSUME NEW G, NEW c, NEW v, NEW w, NEW v1, NEW w1, TwoHalves(G, c, v, w), Still(w, w1), Grown(c, v, v1),
         Keeping(G, c, v, w, v1, w1)
  PROVE  TwoHalves(G, c, v1, w1)
<1>1. Half(G, c, v, w) /\ Half(G, c, w, v)
  BY DEF TwoHalves
<1>2. Grown(c, w, w1) /\ w1.sent = w.sent
  BY DEF Still, Grown
<1>3. /\ v1.sent = v.sent /\ v1.inbox = v.inbox /\ w1.inbox = w.inbox /\ Later(G, v, v1)
      /\ v1.reads = v.reads \/ (v1.reads = {} /\ v1.todo = {} /\ c \in v1.closed)
  BY DEF Keeping
<1>4. Half(G, c, v1, w1)
  BY <1>1, <1>2, <1>3, HalfKeeps
<1>5. Half(G, c, w1, v1)
  BY <1>1, <1>3, StillKeeps
<1> QED
  BY <1>4, <1>5 DEF TwoHalves

\* Both halves are kept when a task begins the line.
LEMMA StartingHalves ==
  ASSUME NEW G, NEW c, NEW v, NEW w, NEW v1, NEW w1, TwoHalves(G, c, v, w), Still(w, w1), Grown(c, v, v1),
         Starting(G, c, v, w, v1, w1)
  PROVE  TwoHalves(G, c, v1, w1)
<1>1. Half(G, c, v, w) /\ Half(G, c, w, v)
  BY DEF TwoHalves
<1>2. Grown(c, w, w1) /\ w1.sent = w.sent
  BY DEF Still, Grown
<1>3. /\ v1.sent = v.sent /\ v1.inbox = v.inbox /\ w1.inbox = w.inbox /\ G \subseteq v1.left
      /\ v.reads = {} /\ v1.reads = {} /\ c \notin v.opened /\ c \notin v.closed
  BY DEF Starting
<1>4. Half(G, c, v1, w1)
  BY <1>1, <1>2, <1>3, HalfNew
<1>5. Half(G, c, w1, v1)
  BY <1>1, <1>3, StillKeeps
<1> QED
  BY <1>4, <1>5 DEF TwoHalves

\* Both halves are kept by a send.
LEMMA TalkingHalves ==
  ASSUME NEW G \in SUBSET Path, NEW c, NEW v, NEW w, NEW v1, NEW w1, TwoHalves(G, c, v, w), Still(w, w1),
         NEW e, Talking(G, c, v, w, v1, w1, e)
  PROVE  TwoHalves(G, c, v1, w1)
<1>1. Half(G, c, v, w) /\ Half(G, c, w, v)
  BY DEF TwoHalves
<1>2. /\ Grown(c, w, w1) /\ w1.sent = w.sent /\ w1.left = w.left /\ w1.reads = w.reads /\ w1.todo = w.todo
  BY DEF Still, Grown
<1>3. /\ e \in G /\ e \in v.left /\ v.todo # {} /\ v.reads = {}
      /\ c \notin v.closed /\ c \notin w.closed /\ c \notin v1.closed /\ c \in v1.opened
      /\ v1.sent = v.sent \cup {e} /\ v1.reads = {e} /\ v1.inbox = v.inbox /\ w1.inbox = Append(w.inbox, e)
      /\ v1.left \subseteq v.left /\ v.left \cap G \subseteq v1.left \cup {e} /\ e \notin v1.left
      /\ \A b \in v.left : b = e \/ Before(e, b)
  BY DEF Talking
<1>4. Half(G, c, v1, w1)
  BY <1>1, <1>2, <1>3, HalfSend
<1>5. Half(G, c, w1, v1)
  BY <1>1, <1>2, <1>3, HalfSendPeer
<1> QED
  BY <1>4, <1>5 DEF TwoHalves

\* Both halves are kept by a read, and what is read is the answer awaited.
LEMMA HearingHalves ==
  ASSUME NEW G \in SUBSET Path, NEW c, NEW v, NEW w, NEW v1, NEW w1, TwoHalves(G, c, v, w), Still(w, w1),
         Grown(c, v, v1), NEW e, Hearing(G, c, v, w, v1, w1, e)
  PROVE  TwoHalves(G, c, v1, w1) /\ Head(v.inbox) = e
<1>1. Half(G, c, v, w) /\ Half(G, c, w, v)
  BY DEF TwoHalves
<1>2. Grown(c, w, w1) /\ w1.sent = w.sent
  BY DEF Still, Grown
<1>3. /\ v.reads = {e} /\ v.todo # {} /\ c \notin v.closed /\ v.inbox # <<>>
      /\ v1.sent = v.sent /\ v1.reads = {} /\ v1.inbox = Tail(v.inbox) /\ w1.inbox = w.inbox
      /\ Later(G, v, v1)
  BY DEF Hearing
<1>4. Half(G, c, v1, w1) /\ Head(v.inbox) = e
  BY <1>1, <1>2, <1>3, HalfRead
<1>5. Half(G, c, w1, v1)
  BY <1>1, <1>3, StillKeeps
<1> QED
  BY <1>4, <1>5 DEF TwoHalves

\* Both halves are kept when the task fails because its peer gave up.
LEMMA LosingHalves ==
  ASSUME NEW G, NEW c, NEW v, NEW w, NEW v1, NEW w1, TwoHalves(G, c, v, w), Still(w, w1), Grown(c, v, v1),
         Losing(G, c, v, w, v1, w1)
  PROVE  TwoHalves(G, c, v1, w1)
<1>1. Half(G, c, v, w) /\ Half(G, c, w, v)
  BY DEF TwoHalves
<1>2. w1.sent = w.sent
  BY DEF Still
<1>3. /\ c \in w1.closed /\ v1.sent = v.sent /\ v1.inbox = v.inbox /\ w1.inbox = w.inbox
      /\ v1.reads = {} /\ v1.left \subseteq v.left
  BY DEF Losing
<1>4. Half(G, c, v1, w1)
  BY <1>1, <1>2, <1>3, HalfFail
<1>5. Half(G, c, w1, v1)
  BY <1>1, <1>3, StillKeeps
<1> QED
  BY <1>4, <1>5 DEF TwoHalves

-----------------------------------------------------------------------------
(* What a party knows of a line, and what a step does to it. *)

Sight(S, T, O, C, I, x) ==
  [sent |-> S \cap Talks(x), left |-> LeftIn(T, x.key), todo |-> TodoIn(T, x.key),
   reads |-> ReadsIn(T, x.key), opened |-> O, closed |-> C, inbox |-> I]
View(p, x) == Sight(Sent(p), tasks[p], Opened(p), closed[p], Inbox(p, x.chan), x)

\* The fields of a view.
Sees(v, S, T, O, C, I, x) ==
  /\ v.sent = S \cap Talks(x) /\ v.left = LeftIn(T, x.key) /\ v.todo = TodoIn(T, x.key)
  /\ v.reads = ReadsIn(T, x.key) /\ v.opened = O /\ v.closed = C /\ v.inbox = I

\* Party p takes a step, and x is a line.
Scene(p, q, s, x, c, v, w, v1, w1) ==
  /\ ChanInv /\ ShapeOK /\ BoxOK /\ FollowInv /\ ~Single /\ OpenedFor(p)
  /\ p \in Parties /\ q = Peer(p) /\ s \in Sessions /\ s = session /\ x \in Lines(s) /\ c = x.chan
  /\ Sees(v, Sent(p), tasks[p], Opened(p), closed[p], Inbox(p, c), x)
  /\ Sees(v1, Sent(p)', tasks'[p], Opened(p)', closed'[p], Inbox(p, c)', x)
  /\ Sees(w, Sent(q), tasks[q], Opened(q), closed[q], Inbox(q, c), x)
  /\ Sees(w1, Sent(q)', tasks'[q], Opened(q)', closed'[q], Inbox(q, c)', x)
  /\ Still(w, w1) /\ Grown(c, v, v1) /\ TwoHalves(Talks(x), c, v, w)

\* Nothing is sent, put into a box or taken out of one.
Silent == \A o \in Parties : Sent(o)' = Sent(o) /\ \A c : Inbox(o, c)' = Inbox(o, c)

\* The task of the line, if there is one, is at the line.
LEMMA TaskAtLine ==
  ASSUME ChanInv, ~Single, FollowInv, NEW p \in Parties, NEW s \in Sessions, s = session,
         NEW x \in Lines(s), NEW k, k = x.key, k \in DOMAIN tasks[p]
  PROVE  AtLine(s, x, tasks[p], k, tasks[p][k]) /\ tasks[p][k].chan = x.chan
<1>1. PICK y \in Lines(s) : y.key = k /\ Follows(y, tasks[p][k]) /\ y.chan = tasks[p][k].chan
  BY TaskLine
<1>2. y = x
  BY <1>1, LinesApart
<1>3. tasks[p][k] \in TaskSet /\ PhaseFits(tasks[p][k])
  BY DEF ChanInv, TypeOK, IsTasks
<1> QED
  BY <1>1, <1>2, <1>3 DEF AtLine

\* A line whose task is as before.
LEMMA SceneSame ==
  ASSUME NEW p, NEW q, NEW s, NEW x, NEW c, NEW v, NEW w, NEW v1, NEW w1,
         Scene(p, q, s, x, c, v, w, v1, w1), SameWork(tasks[p], tasks'[p], x.key),
         v1.sent = v.sent, v1.inbox = v.inbox, w1.inbox = w.inbox
  PROVE  TwoHalves(Talks(x), c, v1, w1)
<1>1. v1.left = v.left /\ v1.todo = v.todo /\ v1.reads = v.reads
  BY DEF Scene, Sees, SameWork
<1>2. Later(Talks(x), v, v1)
  BY <1>1 DEF Later
<1>3. Keeping(Talks(x), c, v, w, v1, w1)
  BY <1>1, <1>2 DEF Keeping
<1>4. TwoHalves(Talks(x), c, v, w) /\ Still(w, w1) /\ Grown(c, v, v1)
  BY DEF Scene
<1> QED
  BY <1>3, <1>4, KeepingHalves

\* A silent step leaves what both views have of messages.
LEMMA SilentScene ==
  ASSUME NEW p, NEW q, NEW s, NEW x, NEW c, NEW v, NEW w, NEW v1, NEW w1,
         Scene(p, q, s, x, c, v, w, v1, w1), Silent
  PROVE  v1.sent = v.sent /\ v1.inbox = v.inbox /\ w1.inbox = w.inbox
<1>1. p \in Parties /\ q \in Parties
  BY DEF Scene, Parties, Peer
<1>2. Sent(p)' = Sent(p) /\ Inbox(p, c)' = Inbox(p, c) /\ Inbox(q, c)' = Inbox(q, c)
  BY <1>1 DEF Silent
<1> QED
  BY <1>2 DEF Scene, Sees

\* Tasks other than the one whose item ends are as before.
LEMMA EndOthers ==
  ASSUME TypeOK, NEW p \in Parties, NEW k, NEW r, NEW D, NEW M, NEW N, EndStep(p, k, r, D, M, N),
         \A d \in D : d \in DOMAIN tasks[p] /\ tasks[p][d].queue = <<>>, NEW j, j # k
  PROVE  SameWork(tasks[p], tasks'[p], j)
<1>1. PICK T, U : T = tasks[p] /\ U = tasks'[p]
  OBVIOUS
<1>2. /\ DOMAIN U = DOMAIN T \ D /\ \A i \in DOMAIN U \ {k} : Copied(U[i], T[i])
      /\ \A d \in D : d \in DOMAIN T /\ T[d].queue = <<>>
  BY <1>1 DEF EndStep, Ending
<1>3. CASE j \in D
  <2>1. PhaseFits(T[j]) /\ T[j].queue = <<>> /\ j \notin DOMAIN U
    BY <1>1, <1>2, <1>3 DEF TypeOK, IsTasks
  <2>2. LeftIn(T, j) = {} /\ TodoIn(T, j) = {} /\ ReadsIn(T, j) = {}
    BY <2>1, GoneWork
  <2>3. LeftIn(U, j) = {} /\ TodoIn(U, j) = {} /\ ReadsIn(U, j) = {}
    BY <2>1, GoneWork
  <2> QED
    BY <1>1, <2>2, <2>3 DEF SameWork
<1>4. CASE j \notin D
  <2>1. \/ j \notin DOMAIN T /\ j \notin DOMAIN U
        \/ j \in DOMAIN T /\ j \in DOMAIN U /\ Copied(U[j], T[j])
    BY <1>2, <1>4
  <2>2. SameWork(T, U, j)
    BY <2>1, CopiedWork
  <2> QED
    BY <1>1, <2>2
<1> QED
  BY <1>3, <1>4

\* An operation ends: joined or refused.
LEMMA SceneEnds ==
  ASSUME NEW p, NEW q, NEW s, NEW x, NEW c, NEW v, NEW w, NEW v1, NEW w1,
         Scene(p, q, s, x, c, v, w, v1, w1), Silent,
         NEW k, NEW r, NEW D, NEW M, NEW N, EndStep(p, k, r, D, M, N),
         \A d \in D : d \in DOMAIN tasks[p] /\ tasks[p][d].queue = <<>>,
         tasks[p][k].phase \in {"run", "wait"}, Head(tasks[p][k].queue).w.k \in Ops
  PROVE  TwoHalves(Talks(x), c, v1, w1)
<1>1. v1.sent = v.sent /\ v1.inbox = v.inbox /\ w1.inbox = w.inbox
  BY SilentScene
<1>2. CASE x.key # k
  <2>1. TypeOK /\ p \in Parties
    BY DEF Scene, ChanInv
  <2>2. SameWork(tasks[p], tasks'[p], x.key)
    BY <1>2, <2>1, EndOthers
  <2> QED
    BY <1>1, <2>2, SceneSame
<1>3. CASE x.key = k
  <2>1. PICK T, U, t : T = tasks[p] /\ U = tasks'[p] /\ t = T[k]
    OBVIOUS
  <2>2. k \in DOMAIN T /\ k \in DOMAIN U /\ Done(U[k], t, r)
    BY <2>1 DEF EndStep, Ending
  <2>3. AtLine(s, x, T, k, t)
    BY <1>3, <2>1, <2>2, TaskAtLine DEF Scene
  <2>4. /\ LeftIn(U, k) \subseteq LeftIn(T, k) /\ ReadsIn(U, k) = {} /\ TodoIn(T, k) # {}
        /\ TodoIn(U, k) # {} => LeftIn(T, k) \cap Talks(x) \subseteq LeftIn(U, k)
    BY <2>1, <2>2, <2>3, EndsWork
  <2>5. ReadsIn(T, k) = {}
    BY <2>1 DEF ReadsIn
  <2>6. /\ v.left = LeftIn(T, k) /\ v.todo = TodoIn(T, k) /\ v.reads = ReadsIn(T, k)
        /\ v1.left = LeftIn(U, k) /\ v1.todo = TodoIn(U, k) /\ v1.reads = ReadsIn(U, k)
    BY <1>3, <2>1 DEF Scene, Sees
  <2>7. Later(Talks(x), v, v1)
    BY <2>4, <2>6 DEF Later
  <2>8. Keeping(Talks(x), c, v, w, v1, w1)
    BY <1>1, <2>4, <2>5, <2>6, <2>7 DEF Keeping
  <2>9. TwoHalves(Talks(x), c, v, w) /\ Still(w, w1) /\ Grown(c, v, v1)
    BY DEF Scene
  <2> QED
    BY <2>8, <2>9, KeepingHalves
<1> QED
  BY <1>2, <1>3

\* What a task is at is not work of another line.
LEMMA HeadElsewhere ==
  ASSUME NEW s, NEW y, NEW T, NEW k, NEW t, AtLine(s, y, T, k, t), t.queue # <<>>,
         NEW x \in Lines(s), x.key # k
  PROVE  Head(t.queue).path \notin Talks(x) /\ y.chan # x.chan
<1>1. s \in Sessions /\ y \in Lines(s) /\ t \in TaskSet /\ Follows(y, t) /\ y.key = k
  BY DEF AtLine
<1>2. PICK n : n = Len(t.out) + 1 /\ n \in DOMAIN y.items /\ Head(t.queue) = y.items[n]
  BY <1>1, HeadOf
<1>3. ASSUME Head(t.queue).path \in Talks(x) PROVE FALSE
  <2>1. PICK j \in DOMAIN x.items : x.items[j].path = y.items[n].path
    BY <1>2, <1>3 DEF Talks
  <2>2. x = y
    BY <1>1, <1>2, <2>1, ItemsApart
  <2> QED
    BY <1>1, <2>2
<1>4. y.chan # x.chan
  BY <1>1, LinesApart
<1> QED
  BY <1>3, <1>4

\* A message is sent.
LEMMA SceneSends ==
  ASSUME NEW p, NEW q, NEW s, NEW x, NEW c, NEW v, NEW w, NEW v1, NEW w1,
         Scene(p, q, s, x, c, v, w, v1, w1), NEW k \in DOMAIN tasks[p], Sending(p, k)
  PROVE  TwoHalves(Talks(x), c, v1, w1)
<1>1. PICK T, U, t, e, d : T = tasks[p] /\ U = tasks'[p] /\ t = T[k] /\ e = Head(t.queue).path /\ d = t.chan
  OBVIOUS
<1>2. /\ t.queue # <<>> /\ t.phase = "run" /\ Head(t.queue).w.k \notin Ops /\ d \notin closed[q]
      /\ DOMAIN U = DOMAIN T /\ Idle(U[k], t) /\ U[k].phase = "recv"
      /\ \A j \in DOMAIN U \ {k} : U[j] = T[j]
      /\ box' = [box EXCEPT ![q] = [box[q] EXCEPT ![d] = Append(box[q][d], e)]]
      /\ Sent(p)' = Sent(p) \cup {e} /\ closed' = closed /\ mux' = mux
  BY <1>1 DEF Sending, Scene
<1>3. p \in Parties /\ q \in Parties /\ p # q /\ q = Peer(p)
  BY DEF Scene, Parties, Peer
<1>4. d \in DOMAIN box[q]
  BY <1>1, <1>3 DEF Scene, BoxOK
<1>5. PICK m : m = Append(box[q][d], e)
  OBVIOUS
<1>6. /\ Inbox(q, d)' = m /\ Inbox(q, d) = box[q][d]
      /\ \A o \in Parties : \A f : o # q \/ f # d => Inbox(o, f)' = Inbox(o, f)
  <2>1. box' = [box EXCEPT ![q] = [box[q] EXCEPT ![d] = m]]
    BY <1>2, <1>5
  <2>2. ShapeOK /\ mux' = mux
    BY <1>2 DEF Scene
  <2> QED
    BY <1>3, <1>4, <2>1, <2>2, BoxEffect
<1>7. PICK y \in Lines(s) : y.key = k
  BY TaskLine DEF Scene
<1>8. AtLine(s, y, T, k, t) /\ d = y.chan
  BY <1>1, <1>7, TaskAtLine DEF Scene
<1>9. TwoHalves(Talks(x), c, v, w) /\ Still(w, w1) /\ Grown(c, v, v1)
  BY DEF Scene
<1>10. CASE x.key # k
  <2>1. e \notin Talks(x) /\ d # c
    BY <1>1, <1>2, <1>8, <1>10, HeadElsewhere DEF Scene
  <2>2. v1.sent = v.sent
    BY <1>2, <2>1 DEF Scene, Sees
  <2>3. v1.inbox = v.inbox /\ w1.inbox = w.inbox
    BY <1>3, <1>6, <2>1 DEF Scene, Sees
  <2>4. SameWork(T, U, x.key)
    BY <1>2, <1>10, CopiedWork
  <2> QED
    BY <1>1, <2>2, <2>3, <2>4, SceneSame
<1>11. CASE x.key = k
  <2>1. x = y /\ c = d
    BY <1>7, <1>8, <1>11, LinesApart DEF Scene
  <2>2. U[k].queue = t.queue /\ U[k].phase # "run" /\ k \in DOMAIN U
    BY <1>1, <1>2 DEF Idle
  <2>3. /\ LeftIn(U, k) \subseteq LeftIn(T, k) /\ TodoIn(U, k) = TodoIn(T, k) /\ TodoIn(T, k) # {}
        /\ LeftIn(T, k) \subseteq LeftIn(U, k) \cup {e} /\ ReadsIn(T, k) = {}
        /\ e \in LeftIn(T, k) /\ e \notin LeftIn(U, k)
        /\ \A b \in LeftIn(T, k) : b = e \/ Before(e, b)
        /\ ReadsIn(U, k) = IF U[k].phase = "recv" THEN {e} ELSE {}
    BY <1>1, <1>2, <1>8, <2>2, GoesOnWork
  <2>4. /\ v.left = LeftIn(T, k) /\ v.todo = TodoIn(T, k) /\ v.reads = ReadsIn(T, k)
        /\ v1.left = LeftIn(U, k) /\ v1.todo = TodoIn(U, k) /\ v1.reads = ReadsIn(U, k)
    BY <1>1, <1>11 DEF Scene, Sees
  <2>5. e \in Talks(x)
    BY <1>1, <1>2, <1>8, <2>1, QueueIs
  <2>6. v1.sent = v.sent \cup {e}
    BY <1>2, <2>5 DEF Scene, Sees
  <2>7. v1.inbox = v.inbox /\ w1.inbox = Append(w.inbox, e)
    <3>1. Inbox(p, c)' = Inbox(p, c) /\ Inbox(q, c)' = Append(Inbox(q, c), e)
      BY <1>3, <1>5, <1>6, <2>1
    <3> QED
      BY <3>1 DEF Scene, Sees
  <2>8. c \notin w.closed /\ v1.closed = v.closed
    BY <1>2, <2>1 DEF Scene, Sees
  <2>9. c \notin v.closed /\ c \in v.opened
    <3>1. d \in Opened(p) /\ (d \in closed[p] => t.queue = <<>>)
      BY <1>1 DEF Scene, OpenedFor
    <3> QED
      BY <1>2, <2>1, <3>1 DEF Scene, Sees
  <2>10. c \in v1.opened
    BY <1>9, <2>9 DEF Grown
  <2>11. Talking(Talks(x), c, v, w, v1, w1, e)
    BY <1>2, <2>3, <2>4, <2>5, <2>6, <2>7, <2>8, <2>9, <2>10 DEF Talking
  <2>12. Talks(x) \in SUBSET Path
    <3>1. 1 \in DOMAIN t.queue
      BY <1>2, <1>8, QueueIs
    <3>2. Len(t.out) + 1 \in DOMAIN y.items
      BY <1>2, <1>8, HeadOf DEF AtLine
    <3> QED
      BY <1>8, <2>1, <3>2, TalkIs DEF AtLine
  <2> QED
    BY <1>9, <2>11, <2>12, TalkingHalves
<1> QED
  BY <1>10, <1>11

\* Work fails because the peer has given up on the channel.
LEMMA SceneFails ==
  ASSUME NEW p, NEW q, NEW s, NEW x, NEW c, NEW v, NEW w, NEW v1, NEW w1,
         Scene(p, q, s, x, c, v, w, v1, w1), Silent, NEW k, NEW r, EndStep(p, k, r, {}, {}, {}),
         tasks[p][k].chan \in closed[q]
  PROVE  TwoHalves(Talks(x), c, v1, w1)
<1>1. v1.sent = v.sent /\ v1.inbox = v.inbox /\ w1.inbox = w.inbox
  BY SilentScene
<1>2. CASE x.key # k
  <2>1. TypeOK /\ p \in Parties
    BY DEF Scene, ChanInv
  <2>2. SameWork(tasks[p], tasks'[p], x.key)
    <3>1. PICK D : D = {} /\ EndStep(p, k, r, D, {}, {})
      OBVIOUS
    <3>2. \A d \in D : d \in DOMAIN tasks[p] /\ tasks[p][d].queue = <<>>
      BY <3>1
    <3> QED
      BY <1>2, <2>1, <3>1, <3>2, EndOthers
  <2> QED
    BY <1>1, <2>2, SceneSame
<1>3. CASE x.key = k
  <2>1. PICK T, U, t : T = tasks[p] /\ U = tasks'[p] /\ t = T[k]
    OBVIOUS
  <2>2. k \in DOMAIN T /\ k \in DOMAIN U /\ Done(U[k], t, r)
    BY <2>1 DEF EndStep, Ending
  <2>3. AtLine(s, x, T, k, t) /\ t.chan = c
    BY <1>3, <2>1, <2>2, TaskAtLine DEF Scene
  <2>4. LeftIn(U, k) \subseteq LeftIn(T, k) /\ ReadsIn(U, k) = {}
    BY <2>1, <2>2, <2>3, EndsWork
  <2>5. v.left = LeftIn(T, k) /\ v1.left = LeftIn(U, k) /\ v1.reads = ReadsIn(U, k)
    BY <1>3, <2>1 DEF Scene, Sees
  <2>6. c \in w1.closed
    <3>1. w1.closed = w.closed /\ w.closed = closed[q]
      BY DEF Scene, Sees, Still
    <3> QED
      BY <2>1, <2>3, <3>1
  <2>7. Losing(Talks(x), c, v, w, v1, w1)
    BY <1>1, <2>4, <2>5, <2>6 DEF Losing
  <2>8. TwoHalves(Talks(x), c, v, w) /\ Still(w, w1) /\ Grown(c, v, v1)
    BY DEF Scene
  <2> QED
    BY <2>7, <2>8, LosingHalves
<1> QED
  BY <1>2, <1>3

\* A message is read, and it is the right one.
LEMMA SceneReads ==
  ASSUME NEW p, NEW q, NEW s, NEW x, NEW c, NEW v, NEW w, NEW v1, NEW w1,
         Scene(p, q, s, x, c, v, w, v1, w1), NEW k \in DOMAIN tasks[p], NEW r, Reading(p, k, r),
         box[p][tasks[p][k].chan] # <<>>
  PROVE  /\ TwoHalves(Talks(x), c, v1, w1)
         /\ x.key = k => Head(box[p][tasks[p][k].chan]) = r.path
<1>1. PICK T, U, t, d, inbox : T = tasks[p] /\ U = tasks'[p] /\ t = T[k] /\ d = t.chan /\ inbox = box[p][d]
  OBVIOUS
<1>2. /\ t.queue # <<>> /\ t.phase = "recv" /\ EndStep(p, k, r, {}, {}, {}) /\ mux' = mux
      /\ inbox # <<>> /\ box' = [box EXCEPT ![p] = [box[p] EXCEPT ![d] = Tail(inbox)]]
  BY <1>1 DEF Reading
<1>3. p \in Parties /\ q \in Parties /\ p # q /\ q = Peer(p)
  BY DEF Scene, Parties, Peer
<1>4. d \in DOMAIN box[p]
  BY <1>1, <1>3 DEF Scene, BoxOK
<1>5. PICK m : m = Tail(inbox)
  OBVIOUS
<1>6. /\ Inbox(p, d)' = m /\ Inbox(p, d) = inbox
      /\ \A o \in Parties : \A f : o # p \/ f # d => Inbox(o, f)' = Inbox(o, f)
  <2>1. box' = [box EXCEPT ![p] = [box[p] EXCEPT ![d] = m]]
    BY <1>2, <1>5
  <2>2. ShapeOK /\ mux' = mux
    BY <1>2 DEF Scene
  <2>3. /\ Inbox(p, d)' = m /\ Inbox(p, d) = box[p][d]
        /\ \A o \in Parties : \A f : o # p \/ f # d => Inbox(o, f)' = Inbox(o, f)
    BY <1>3, <1>4, <2>1, <2>2, BoxEffect
  <2> QED
    BY <1>1, <2>3
<1>7. PICK y \in Lines(s) : y.key = k
  BY TaskLine DEF Scene
<1>8. AtLine(s, y, T, k, t) /\ d = y.chan
  BY <1>1, <1>7, TaskAtLine DEF Scene
<1>9. TwoHalves(Talks(x), c, v, w) /\ Still(w, w1) /\ Grown(c, v, v1)
  BY DEF Scene
<1>10. Sent(p)' = Sent(p)
  BY <1>2, <1>3 DEF EndStep
<1>11. v1.sent = v.sent
  BY <1>10 DEF Scene, Sees
<1>12. CASE x.key # k
  <2>1. d # c
    BY <1>1, <1>2, <1>8, <1>12, HeadElsewhere DEF Scene
  <2>2. v1.inbox = v.inbox /\ w1.inbox = w.inbox
    BY <1>3, <1>6, <2>1 DEF Scene, Sees
  <2>3. TypeOK
    BY DEF Scene, ChanInv
  <2>4. SameWork(tasks[p], tasks'[p], x.key)
    <3>1. PICK D : D = {} /\ EndStep(p, k, r, D, {}, {})
      BY <1>2
    <3>2. \A f \in D : f \in DOMAIN tasks[p] /\ tasks[p][f].queue = <<>>
      BY <3>1
    <3> QED
      BY <1>3, <1>12, <2>3, <3>1, <3>2, EndOthers
  <2> QED
    BY <1>11, <1>12, <2>2, <2>4, SceneSame
<1>13. CASE x.key = k
  <2>1. x = y /\ c = d
    BY <1>7, <1>8, <1>13, LinesApart DEF Scene
  <2>2. k \in DOMAIN U /\ Done(U[k], t, r)
    BY <1>1, <1>2 DEF EndStep, Ending
  <2>3. /\ LeftIn(U, k) \subseteq LeftIn(T, k) /\ ReadsIn(U, k) = {} /\ TodoIn(T, k) # {}
        /\ TodoIn(U, k) # {} => LeftIn(T, k) \cap Talks(x) \subseteq LeftIn(U, k)
    BY <1>2, <1>8, <2>1, <2>2, EndsWork
  <2>4. /\ v.left = LeftIn(T, k) /\ v.todo = TodoIn(T, k) /\ v.reads = ReadsIn(T, k)
        /\ v1.left = LeftIn(U, k) /\ v1.todo = TodoIn(U, k) /\ v1.reads = ReadsIn(U, k)
    BY <1>1, <1>13 DEF Scene, Sees
  <2>5. PICK e : e = Head(t.queue).path
    OBVIOUS
  <2>6. ReadsIn(T, k) = {e} /\ r.path = e
    BY <1>1, <1>2, <2>2, <2>5 DEF ReadsIn, Done
  <2>7. v.inbox = inbox /\ v1.inbox = Tail(v.inbox) /\ w1.inbox = w.inbox
    BY <1>3, <1>5, <1>6, <2>1 DEF Scene, Sees
  <2>8. c \notin v.closed
    <3>1. d \in closed[p] => t.queue = <<>>
      BY <1>1 DEF Scene, OpenedFor
    <3> QED
      BY <1>2, <2>1, <3>1 DEF Scene, Sees
  <2>9. Later(Talks(x), v, v1)
    BY <2>3, <2>4 DEF Later
  <2>10. Hearing(Talks(x), c, v, w, v1, w1, e)
    BY <1>2, <1>11, <2>3, <2>4, <2>6, <2>7, <2>8, <2>9 DEF Hearing
  <2>11. Talks(x) \in SUBSET Path
    <3>1. Len(t.out) + 1 \in DOMAIN y.items
      BY <1>2, <1>8, HeadOf DEF AtLine
    <3> QED
      BY <1>8, <2>1, <3>1, TalkIs DEF AtLine
  <2>12. TwoHalves(Talks(x), c, v1, w1) /\ Head(v.inbox) = e
    BY <1>9, <2>10, <2>11, HearingHalves
  <2> QED
    BY <1>1, <2>6, <2>7, <2>12
<1> QED
  BY <1>12, <1>13

\* A line is begun whose channel was not open.
LEMMA SceneBegins ==
  ASSUME NEW p, NEW q, NEW s, NEW x, NEW c, NEW v, NEW w, NEW v1, NEW w1,
         Scene(p, q, s, x, c, v, w, v1, w1), Silent, x.key \in DOMAIN tasks'[p],
         Begins(x, tasks'[p][x.key]), c \notin Opened(p)
  PROVE  TwoHalves(Talks(x), c, v1, w1)
<1>1. v1.sent = v.sent /\ v1.inbox = v.inbox /\ w1.inbox = w.inbox
  BY SilentScene
<1>2. PICK T, U, k : T = tasks[p] /\ U = tasks'[p] /\ k = x.key
  OBVIOUS
<1>3. Talks(x) \subseteq LeftIn(U, k) /\ ReadsIn(U, k) = {}
  BY <1>2, BeginsWork DEF Scene
<1>4. k \notin DOMAIN T
  <2> SUFFICES ASSUME k \in DOMAIN T PROVE FALSE
    OBVIOUS
  <2>1. T[k].chan = x.chan
    BY <1>2, TaskAtLine DEF Scene
  <2>2. T[k].chan \in Opened(p)
    BY <1>2 DEF Scene, OpenedFor
  <2> QED
    BY <2>1, <2>2 DEF Scene
<1>5. ReadsIn(T, k) = {}
  BY <1>4, GoneWork
<1>6. c \notin v.opened /\ c \notin v.closed
  BY DEF Scene, Sees, OpenedFor
<1>7. v.reads = {} /\ v1.reads = {} /\ Talks(x) \subseteq v1.left
  BY <1>2, <1>3, <1>5 DEF Scene, Sees
<1>8. Starting(Talks(x), c, v, w, v1, w1)
  BY <1>1, <1>6, <1>7 DEF Starting
<1>9. TwoHalves(Talks(x), c, v, w) /\ Still(w, w1) /\ Grown(c, v, v1)
  BY DEF Scene
<1> QED
  BY <1>8, <1>9, StartingHalves

\* An operation is forked.
LEMMA SceneForks ==
  ASSUME NEW p, NEW q, NEW s, NEW x, NEW c, NEW v, NEW w, NEW v1, NEW w1,
         Scene(p, q, s, x, c, v, w, v1, w1), NEW k \in DOMAIN tasks[p], Forking(p, k)
  PROVE  TwoHalves(Talks(x), c, v1, w1)
<1>1. PICK T, U : T = tasks[p] /\ U = tasks'[p]
  OBVIOUS
<1>2. /\ p \in Parties /\ ChanInv /\ TypeOK /\ ~Single /\ FollowInv /\ s \in Sessions /\ s = session
      /\ x \in Lines(s) /\ c = x.chan
  BY DEF Scene, ChanInv
<1>3. PICK t \in TaskSet : t = T[k]
  BY <1>1, <1>2 DEF TypeOK, IsTasks
<1>4. PICK ids : ids = {LaneOf(t, l).chan : l \in 1 .. Lanes(Head(t.queue).w)}
  OBVIOUS
<1>5. Spawned(T, U, k) /\ Opens(p, ids) /\ ids \cap Opened(p) = {} /\ seen' = seen
  BY <1>1, <1>2, <1>3, <1>4 DEF Forking
<1>6. /\ t.queue # <<>> /\ t.phase = "run" /\ Head(t.queue).w.k \in Ops
      /\ DOMAIN U = DOMAIN T \cup KeysOf(t)
      /\ U[k] = [t EXCEPT !.fork = NextFork(t), !.phase = "wait"]
      /\ \A h \in KeysOf(t) \ {k} : U[h] = LaneOf(t, Last(h))
      /\ \A j \in DOMAIN U \ (KeysOf(t) \cup {k}) : U[j] = T[j]
  BY <1>3, <1>5 DEF Spawned, AtWork, KeysOf
<1>7. Silent
  BY <1>5 DEF Silent, Opens, Sent
<1>8. v1.sent = v.sent /\ v1.inbox = v.inbox /\ w1.inbox = w.inbox
  BY <1>7, SilentScene
<1>9. PICK y \in Lines(s) : y.key = k /\ Follows(y, t)
  BY <1>1, <1>2, <1>3, TaskLine
<1>10. AtLine(s, y, T, k, t)
  BY <1>1, <1>2, <1>3, <1>9, TaskAtLine
<1>11. k \notin KeysOf(t)
  <2>1. IsTasks(T) /\ AllFollow(session, T) /\ T[k].queue # <<>> /\ k \in DOMAIN T
    BY <1>1, <1>2, <1>3, <1>6 DEF TypeOK, FollowInv, Following
  <2>2. k \notin KeysOf(T[k])
    BY <1>2, <2>1, KeyNotLane
  <2> QED
    BY <1>3, <2>2
<1>12. U[k].queue = t.queue /\ U[k].phase = "wait"
  <2>1. PICK f : f = NextFork(t)
    OBVIOUS
  <2>2. U[k] = [t EXCEPT !.fork = f, !.phase = "wait"]
    BY <1>6, <2>1
  <2> QED
    BY <2>2 DEF TaskSet
<1>13. CASE x.key = k
  <2>1. x = y
    BY <1>2, <1>9, <1>13, LinesApart
  <2>2. /\ k \in DOMAIN U /\ U[k].phase # "run" /\ U[k].queue = t.queue
        /\ t.queue # <<>> /\ t.phase = "run"
    BY <1>1, <1>6, <1>12
  <2>3. /\ LeftIn(U, k) \subseteq LeftIn(T, k) /\ TodoIn(U, k) = TodoIn(T, k) /\ TodoIn(T, k) # {}
        /\ LeftIn(T, k) \subseteq LeftIn(U, k) \cup {Head(t.queue).path} /\ ReadsIn(T, k) = {}
        /\ ReadsIn(U, k) = IF U[k].phase = "recv" THEN {Head(t.queue).path} ELSE {}
    BY <1>10, <2>2, GoesOnWork
  <2>4. Head(t.queue).path \notin Talks(x)
    BY <1>6, <1>10, <2>1, QueueIs
  <2>5. /\ v.left = LeftIn(T, k) /\ v.todo = TodoIn(T, k) /\ v.reads = ReadsIn(T, k)
        /\ v1.left = LeftIn(U, k) /\ v1.todo = TodoIn(U, k) /\ v1.reads = ReadsIn(U, k)
    BY <1>1, <1>13 DEF Scene, Sees
  <2>6. Later(Talks(x), v, v1)
    BY <2>3, <2>4, <2>5 DEF Later
  <2>7. v1.reads = v.reads
    BY <1>12, <2>3, <2>5
  <2>8. Keeping(Talks(x), c, v, w, v1, w1)
    BY <1>8, <2>6, <2>7 DEF Keeping
  <2>9. TwoHalves(Talks(x), c, v, w) /\ Still(w, w1) /\ Grown(c, v, v1)
    BY DEF Scene
  <2> QED
    BY <2>8, <2>9, KeepingHalves
<1>14. CASE x.key \in KeysOf(t)
  <2>1. x.key # k
    BY <1>11, <1>14
  <2>2. PICK h \in KeysOf(t) : h = x.key
    BY <1>14
  <2>3. LaneBegun(s, t, h)
    BY <1>2, <1>6, <1>9, LaneBegins
  <2>4. PICK z \in Lines(s) : z.key = h /\ Begins(z, LaneOf(t, Last(h)))
    BY <2>3 DEF LaneBegun
  <2>5. z = x
    BY <1>2, <2>2, <2>4, LinesApart
  <2>6. h \in DOMAIN U /\ U[h] = LaneOf(t, Last(h))
    BY <1>6, <2>1, <2>2
  <2>7. Begins(x, U[h])
    BY <2>4, <2>5, <2>6
  <2>8. c \notin Opened(p)
    <3>1. U[h].chan = c
      <4>1. Laid(session, t)
        BY <1>1, <1>2, <1>3 DEF ChanInv, AllLaid, TaskLaid
      <4>2. TaskLaid(session, h, LaneOf(t, Last(h)))
        BY <1>2, <1>6, <4>1, LaneLaid DEF KeysOf
      <4>3. IsCaller(h, U[h].chan) \/ IsLaneTask(s, h, U[h].chan)
        BY <1>2, <2>6, <4>2 DEF TaskLaid
      <4> QED
        BY <1>2, <2>2, <4>3, ChanLine
    <3>2. Last(h) \in 1 .. Lanes(Head(t.queue).w)
      BY <1>2, <1>6, KeyIs
    <3>3. U[h].chan \in ids
      BY <1>4, <2>6, <3>2
    <3> QED
      BY <1>5, <3>1, <3>3
  <2> QED
    BY <1>1, <1>7, <2>2, <2>6, <2>7, <2>8, SceneBegins
<1>15. CASE x.key \notin KeysOf(t) \cup {k}
  <2>1. SameWork(T, U, x.key)
    BY <1>6, <1>15, CopiedWork
  <2> QED
    BY <1>1, <1>8, <2>1, SceneSame
<1> QED
  BY <1>13, <1>14, <1>15

\* A task is dropped.
LEMMA SceneDrops ==
  ASSUME NEW p, NEW q, NEW s, NEW x, NEW c, NEW v, NEW w, NEW v1, NEW w1,
         Scene(p, q, s, x, c, v, w, v1, w1), NEW k \in DOMAIN tasks[p], Dropping(p, k)
  PROVE  TwoHalves(Talks(x), c, v1, w1)
<1>1. PICK T, U, t : T = tasks[p] /\ U = tasks'[p] /\ t = T[k]
  OBVIOUS
<1>2. /\ DOMAIN U = DOMAIN T \ {k} /\ \A j \in DOMAIN U : Copied(U[j], T[j])
      /\ closed'[p] = closed[p] \cup ChannelOf(t) /\ Opens(p, {}) /\ seen' = seen
  BY <1>1 DEF Dropping
<1>3. Silent
  BY <1>2 DEF Silent, Opens, Sent
<1>4. v1.sent = v.sent /\ v1.inbox = v.inbox /\ w1.inbox = w.inbox
  BY <1>3, SilentScene
<1>5. CASE x.key = k
  <2>1. LeftIn(U, k) = {} /\ TodoIn(U, k) = {} /\ ReadsIn(U, k) = {}
    BY <1>2, GoneWork
  <2>2. v1.left = {} /\ v1.todo = {} /\ v1.reads = {}
    BY <1>1, <1>5, <2>1 DEF Scene, Sees
  <2>3. t.chan = c
    BY <1>1, <1>5, TaskAtLine DEF Scene
  <2>4. c \in v1.closed
    BY <1>2, <2>3 DEF Scene, Sees, ChannelOf, OwnsChannel
  <2>5. Later(Talks(x), v, v1)
    BY <2>2 DEF Later
  <2>6. Keeping(Talks(x), c, v, w, v1, w1)
    BY <1>4, <2>2, <2>4, <2>5 DEF Keeping
  <2>7. TwoHalves(Talks(x), c, v, w) /\ Still(w, w1) /\ Grown(c, v, v1)
    BY DEF Scene
  <2> QED
    BY <2>6, <2>7, KeepingHalves
<1>6. CASE x.key # k
  <2>1. \/ x.key \notin DOMAIN T /\ x.key \notin DOMAIN U
        \/ x.key \in DOMAIN T /\ x.key \in DOMAIN U /\ Copied(U[x.key], T[x.key])
    BY <1>2, <1>6
  <2>2. SameWork(T, U, x.key)
    BY <2>1, CopiedWork
  <2> QED
    BY <1>1, <1>4, <2>2, SceneSame
<1> QED
  BY <1>5, <1>6

\* A context is made, or refused.
LEMMA SceneAdds ==
  ASSUME NEW p, NEW q, NEW s, NEW x, NEW c, NEW v, NEW w, NEW v1, NEW w1,
         Scene(p, q, s, x, c, v, w, v1, w1), Adding(p)
  PROVE  TwoHalves(Talks(x), c, v1, w1)
<1>1. PICK T, U : T = tasks[p] /\ U = tasks'[p]
  OBVIOUS
<1>2. /\ p \in Parties /\ ChanInv /\ TypeOK /\ s \in Sessions /\ s = session /\ x \in Lines(s) /\ c = x.chan
  BY DEF Scene, ChanInv
<1>3. PICK n \in Nat : n = next[p]
  BY <1>2 DEF TypeOK
<1>4. PICK r, u : r = <<n + 1>> /\ u = RootTask(n)
  OBVIOUS
<1>5. /\ n < Len(session.roots) /\ \A o \in Parties : Sent(o)' = Sent(o)
      /\ \/ U = T /\ Opens(p, {})
         \/ /\ DOMAIN U = DOMAIN T \cup {r} /\ U[r] = u /\ \A j \in DOMAIN T \ {r} : U[j] = T[j]
            /\ u.chan \notin Opened(p) /\ Opens(p, {u.chan})
  BY <1>1, <1>3, <1>4 DEF Adding
<1>6. Silent
  BY <1>5 DEF Silent, Opens
<1>7. v1.sent = v.sent /\ v1.inbox = v.inbox /\ w1.inbox = w.inbox
  BY <1>6, SilentScene
<1>8. CASE U = T \/ x.key # r
  <2>1. SameWork(T, U, x.key)
    BY <1>5, <1>8, CopiedWork
  <2> QED
    BY <1>1, <1>7, <2>1, SceneSame
<1>9. CASE U # T /\ x.key = r
  <2>1. r \in DOMAIN U /\ U[r] = u /\ u.chan \notin Opened(p)
    BY <1>5, <1>9
  <2>2. PICK y : y = RootLine(s, n + 1)
    OBVIOUS
  <2>3. y \in Lines(s) /\ y.key = r /\ Begins(y, u)
    BY <1>2, <1>4, <1>5, <2>2, RootBegins
  <2>4. y = x
    BY <1>2, <1>9, <2>3, LinesApart
  <2>5. u.chan = c
    <3>1. TaskLaid(session, r, u)
      BY <1>2, <1>4, <1>5, RootLaid
    <3>2. IsCaller(x.key, u.chan) \/ IsLaneTask(s, x.key, u.chan)
      BY <1>2, <1>9, <3>1 DEF TaskLaid
    <3> QED
      BY <1>2, <3>2, ChanLine
  <2> QED
    BY <1>1, <1>6, <1>9, <2>1, <2>3, <2>4, <2>5, SceneBegins
<1> QED
  BY <1>8, <1>9

-----------------------------------------------------------------------------
(* Every step keeps the halves of every line. *)

\* A view has the fields it should.
LEMMA ViewSees ==
  ASSUME NEW p, NEW x
  PROVE  /\ Sees(View(p, x), Sent(p), tasks[p], Opened(p), closed[p], Inbox(p, x.chan), x)
         /\ Sees(View(p, x)', Sent(p)', tasks'[p], Opened(p)', closed'[p], Inbox(p, x.chan)', x)
<1>1. /\ View(p, x) = Sight(Sent(p), tasks[p], Opened(p), closed[p], Inbox(p, x.chan), x)
      /\ View(p, x)' = Sight(Sent(p)', tasks'[p], Opened(p)', closed'[p], Inbox(p, x.chan)', x)
  BY DEF View, Sight
<1>2. ASSUME NEW S, NEW T, NEW O, NEW C, NEW I PROVE Sees(Sight(S, T, O, C, I, x), S, T, O, C, I, x)
  BY DEF Sees, Sight
<1> QED
  BY <1>1, <1>2

\* The peer sends nothing.
LEMMA MoveSent ==
  ASSUME NEW p \in Parties, Moves(p)
  PROVE  Sent(Peer(p))' = Sent(Peer(p))
<1>1. PICK q : q = Peer(p) /\ q \in Parties
  BY DEF Peer, Parties
<1>2. CASE Adding(p)
  BY <1>1, <1>2 DEF Adding
<1>3. CASE \E k \in DOMAIN tasks[p] : Working(p, k)
  <2>1. PICK k \in DOMAIN tasks[p] : Working(p, k)
    BY <1>3
  <2>2. CASE Sending(p, k)
    BY <2>2 DEF Sending
  <2>3. CASE seen' = seen
    BY <2>3 DEF Sent
  <2>4. CASE \E r, D, M, N : EndStep(p, k, r, D, M, N)
    BY <1>1, <2>4 DEF EndStep
  <2> QED
    BY <2>1, <2>2, <2>3, <2>4 DEF Working, SendFails, Reading, Forking, Dropping, Joining, Refusing
<1> QED
  BY <1>2, <1>3 DEF Moves

\* Two parties.
LEMMA TwoParties ==
  ASSUME NEW p \in Parties
  PROVE  Peer(p) \in Parties /\ Peer(p) # p /\ Peer(Peer(p)) = p /\ \A o \in Parties : o = p \/ o = Peer(p)
BY DEF Parties, Peer

\* What a party knows of a line and its peer does fit together.
Fits(p, x) == TwoHalves(Talks(x), x.chan, View(p, x), View(Peer(p), x))

\* On a session: what is read is right because what is known of a line fits.
MultiInv ==
  ~Single => /\ seen.misread = {}
             /\ \A p \in Parties : OpenedFor(p) /\ \A x \in Lines(session) : Fits(p, x)

\* All that is known of the tasks.
TasksInv == ChanInv /\ ShapeOK /\ BoxOK /\ FollowInv

\* A step, seen from line x.
LEMMA MoveSetting ==
  ASSUME TasksInv, ~Single, MultiInv, NEW p \in Parties, Moves(p), NEW x \in Lines(session)
  PROVE  Scene(p, Peer(p), session, x, x.chan, View(p, x), View(Peer(p), x), View(p, x)', View(Peer(p), x)')
<1>1. PICK q, s, c : q = Peer(p) /\ s = session /\ c = x.chan
  OBVIOUS
<1>2. PICK v, w, v1, w1 : v = View(p, x) /\ w = View(q, x) /\ v1 = View(p, x)' /\ w1 = View(Peer(p), x)'
  OBVIOUS
<1>3. ChanInv /\ ShapeOK /\ BoxOK /\ FollowInv /\ TypeOK /\ s \in Sessions
  BY <1>1 DEF TasksInv, ChanInv, TypeOK
<1>4. q \in Parties /\ q # p
  BY <1>1, TwoParties
<1>5. /\ Sees(v, Sent(p), tasks[p], Opened(p), closed[p], Inbox(p, c), x)
      /\ Sees(v1, Sent(p)', tasks'[p], Opened(p)', closed'[p], Inbox(p, c)', x)
  BY <1>1, <1>2, ViewSees
<1>6. /\ Sees(w, Sent(q), tasks[q], Opened(q), closed[q], Inbox(q, c), x)
      /\ Sees(w1, Sent(q)', tasks'[q], Opened(q)', closed'[q], Inbox(q, c)', x)
  <2>1. w = View(Peer(p), x) /\ w1 = View(Peer(p), x)'
    BY <1>1, <1>2
  <2> QED
    BY <1>1, <2>1, ViewSees
<1>7. PICK ids : Chans(p, ids)
  BY <1>3, MoveChans
<1>8. PICK N, C, k : Gives(p, N, C, k)
  BY <1>3, MoveGives
<1>9. tasks'[q] = tasks[q] /\ closed'[q] = closed[q] /\ Opened(q)' = Opened(q) /\ Sent(q)' = Sent(q)
  <2>1. tasks'[q] = tasks[q]
    BY <1>3, <1>4, MoveFollows DEF FollowInv
  <2>2. closed'[q] = closed[q]
    BY <1>3, <1>4, MoveGives
  <2>3. Opened(q)' = Opened(q)
    BY <1>4, <1>7 DEF Chans
  <2>4. Sent(q)' = Sent(q)
    BY <1>1, MoveSent
  <2> QED
    BY <2>1, <2>2, <2>3, <2>4
<1>10. Still(w, w1)
  BY <1>6, <1>9 DEF Still, Sees
<1>11. Opened(p) \subseteq Opened(p)' /\ closed[p] \subseteq closed'[p]
  BY <1>7, <1>8 DEF Chans, Gives
<1>12. Grown(c, v, v1)
  BY <1>5, <1>11 DEF Grown, Sees
<1>13. OpenedFor(p) /\ TwoHalves(Talks(x), c, v, w)
  BY <1>1, <1>2 DEF MultiInv, Fits
<1>14. Scene(p, q, s, x, c, v, w, v1, w1)
  BY <1>1, <1>3, <1>5, <1>6, <1>10, <1>12, <1>13 DEF Scene
<1> QED
  BY <1>1, <1>2, <1>14

\* Nothing is sent or read where an item ends or channels are opened.
LEMMA EndSilent ==
  ASSUME NEW p \in Parties, NEW k, NEW r, NEW D, NEW M, NEW N, EndStep(p, k, r, D, M, N),
         NEW ids, Opens(p, ids)
  PROVE  Silent
BY DEF EndStep, Opens, Silent

\* The halves fit after the step.
LEMMA MoveScene ==
  ASSUME NEW p, NEW q, NEW s, NEW x, NEW c, NEW v, NEW w, NEW v1, NEW w1,
         Scene(p, q, s, x, c, v, w, v1, w1), Moves(p)
  PROVE  TwoHalves(Talks(x), c, v1, w1)
<1>1. p \in Parties /\ q = Peer(p) /\ TypeOK
  BY DEF Scene, ChanInv
<1>2. CASE Adding(p)
  BY <1>2, SceneAdds
<1>3. CASE \E k \in DOMAIN tasks[p] : Working(p, k)
  <2>1. PICK k \in DOMAIN tasks[p] : Working(p, k)
    BY <1>3
  <2>2. CASE Sending(p, k)
    BY <2>2, SceneSends
  <2>3. CASE SendFails(p, k)
    <3>1. PICK r : EndStep(p, k, r, {}, {}, {})
      BY <2>3 DEF SendFails
    <3>2. Opens(p, {})
      BY <1>1, <2>3, NoneOpened DEF SendFails
    <3>3. Silent
      BY <1>1, <3>1, <3>2, EndSilent
    <3>4. tasks[p][k].chan \in closed[q]
      BY <1>1, <2>3 DEF SendFails
    <3> QED
      BY <3>1, <3>3, <3>4, SceneFails
  <2>4. CASE \E r \in ResultSet : Reading(p, k, r)
    <3>1. PICK r \in ResultSet : Reading(p, k, r)
      BY <2>4
    <3>2. CASE box[p][tasks[p][k].chan] # <<>>
      BY <3>1, <3>2, SceneReads
    <3>3. CASE box[p][tasks[p][k].chan] = <<>>
      <4>1. EndStep(p, k, r, {}, {}, {}) /\ mux' = mux /\ box' = box /\ tasks[p][k].chan \in closed[q]
        BY <1>1, <3>1, <3>3 DEF Reading
      <4>2. Opens(p, {})
        BY <1>1, <4>1, NoneOpened
      <4>3. Silent
        BY <1>1, <4>1, <4>2, EndSilent
      <4> QED
        BY <4>1, <4>3, SceneFails
    <3> QED
      BY <3>2, <3>3
  <2>5. CASE Forking(p, k)
    BY <2>5, SceneForks
  <2>6. CASE Dropping(p, k)
    BY <2>6, SceneDrops
  <2>7. CASE \E r \in ResultSet : \E D, M : Joining(p, k, r, D, M)
    <3>1. PICK r, D, M : Joining(p, k, r, D, M)
      BY <2>7
    <3>2. PICK N : N = {} /\ EndStep(p, k, r, D, M, N)
      BY <3>1 DEF Joining
    <3>3. Silent
      BY <1>1, <3>1, <3>2, EndSilent DEF Joining
    <3>4. \A d \in D : d \in DOMAIN tasks[p] /\ tasks[p][d].queue = <<>>
      BY <3>1 DEF Joining
    <3>5. tasks[p][k].phase \in {"run", "wait"} /\ Head(tasks[p][k].queue).w.k \in Ops
      BY <1>1, <3>1 DEF Joining, TypeOK, IsTasks, PhaseFits
    <3> QED
      BY <3>2, <3>3, <3>4, <3>5, SceneEnds
  <2>8. CASE \E open : Refusing(p, k, open)
    <3>1. PICK open : Refusing(p, k, open)
      BY <2>8
    <3>2. PICK r, D, M : D = {} /\ EndStep(p, k, r, D, M, open)
      BY <3>1 DEF Refusing
    <3>3. Silent
      BY <1>1, <3>1, <3>2, EndSilent DEF Refusing
    <3>4. \A d \in D : d \in DOMAIN tasks[p] /\ tasks[p][d].queue = <<>>
      BY <3>2
    <3>5. tasks[p][k].phase \in {"run", "wait"} /\ Head(tasks[p][k].queue).w.k \in Ops
      BY <3>1 DEF Refusing
    <3> QED
      BY <3>2, <3>3, <3>4, <3>5, SceneEnds
  <2> QED
    BY <2>1, <2>2, <2>3, <2>4, <2>5, <2>6, <2>7, <2>8 DEF Working
<1> QED
  BY <1>2, <1>3 DEF Moves

\* What is read is what the counterpart sent.
LEMMA MoveRight ==
  ASSUME TasksInv, ~Single, MultiInv, NEW p \in Parties, Moves(p)
  PROVE  seen'.misread = {}
<1>1. seen.misread = {}
  BY DEF MultiInv
<1>2. CASE seen'.misread = seen.misread \/ seen' = seen
  BY <1>1, <1>2
<1>3. CASE \E k \in DOMAIN tasks[p] : \E r \in ResultSet : Reading(p, k, r)
  <2>1. PICK k \in DOMAIN tasks[p], r \in ResultSet : Reading(p, k, r)
    BY <1>3
  <2>2. CASE box[p][tasks[p][k].chan] # <<>>
    <3>1. PICK x \in Lines(session) : x.key = k
      BY TaskLine DEF TasksInv
    <3>2. PICK q, s, c, v, w, v1, w1 : Scene(p, q, s, x, c, v, w, v1, w1)
      BY MoveSetting
    <3>3. Head(box[p][tasks[p][k].chan]) = r.path
      BY <2>1, <2>2, <3>1, <3>2, SceneReads
    <3> QED
      BY <1>1, <2>1, <2>2, <3>3 DEF Reading
  <2>3. CASE box[p][tasks[p][k].chan] = <<>>
    BY <1>1, <2>1, <2>3 DEF Reading
  <2> QED
    BY <2>2, <2>3
<1> QED
  BY <1>2, <1>3 DEF Moves, Adding, Working, Sending, SendFails, Forking, Dropping, Joining, Refusing

\* Every step keeps what is known of a session.
LEMMA MultiNext ==
  ASSUME TasksInv, MultiInv, [Next]_vars
  PROVE  MultiInv'
<1>1. CASE Next /\ ~Single
  <2>1. PICK p \in Parties : Moves(p)
    BY <1>1, NextMoves DEF TasksInv, ChanInv, FollowInv
  <2>2. session' = session
    BY <2>1 DEF Moves
  <2>3. seen'.misread = {}
    BY <1>1, <2>1, MoveRight
  <2>4. ASSUME NEW o \in Parties PROVE OpenedFor(o)'
    <3>1. OpenedFor(o)
      BY <1>1 DEF MultiInv
    <3> QED
      BY <1>1, <2>1, <3>1, MoveOpened DEF TasksInv
  <2>5. ASSUME NEW x \in Lines(session), NEW o \in Parties PROVE Fits(o, x)'
    <3>1. PICK q : q = Peer(p) /\ p = Peer(q) /\ (o = p \/ o = q)
      BY TwoParties
    <3>2. Scene(p, Peer(p), session, x, x.chan, View(p, x), View(Peer(p), x), View(p, x)', View(Peer(p), x)')
      BY <1>1, <2>1, MoveSetting
    <3>3. TwoHalves(Talks(x), x.chan, View(p, x)', View(Peer(p), x)')
      BY <2>1, <3>2, MoveScene
    <3>4. TwoHalves(Talks(x), x.chan, View(Peer(p), x)', View(p, x)')
      BY <3>3 DEF TwoHalves
    <3>5. CASE o = p
      BY <3>3, <3>5 DEF Fits
    <3>6. CASE o = q
      BY <3>1, <3>4, <3>6 DEF Fits
    <3> QED
      BY <3>1, <3>5, <3>6
  <2>6. Lines(session)' = Lines(session)
    BY <2>2
  <2> QED
    BY <2>3, <2>4, <2>5, <2>6 DEF MultiInv
<1>2. CASE UNCHANGED vars \/ Single
  <2>1. CASE Single
    <3>1. session' = session
      <4>1. CASE Next
        <5>1. PICK p \in Parties : Moves(p)
          BY <4>1, NextMoves DEF TasksInv, ChanInv, FollowInv
        <5> QED
          BY <5>1 DEF Moves
      <4> QED
        BY <4>1 DEF vars
    <3> QED
      BY <2>1, <3>1 DEF MultiInv, Single
  <2>2. CASE UNCHANGED vars
    <3>1. /\ session' = session /\ seen' = seen /\ tasks' = tasks /\ closed' = closed
          /\ mux' = mux /\ box' = box
      BY <2>2 DEF vars
    <3>2. \A o : Sent(o)' = Sent(o) /\ Opened(o)' = Opened(o) /\ \A c : Inbox(o, c)' = Inbox(o, c)
      BY <3>1 DEF Sent, Opened, Inbox
    <3>3. \A o : OpenedFor(o)' = OpenedFor(o)
      BY <3>1, <3>2 DEF OpenedFor
    <3>4. ASSUME NEW o, NEW x PROVE Fits(o, x)' = Fits(o, x)
      <4>1. View(o, x)' = View(o, x) /\ View(Peer(o), x)' = View(Peer(o), x)
        BY <3>1, <3>2 DEF View
      <4> QED
        BY <4>1 DEF Fits
    <3>5. Lines(session)' = Lines(session) /\ Single' = Single
      BY <3>1 DEF Single
    <3> QED
      BY <3>1, <3>3, <3>4, <3>5 DEF MultiInv
  <2> QED
    BY <1>2, <2>1, <2>2
<1> QED
  BY <1>1, <1>2

-----------------------------------------------------------------------------
(***************************************************************************)
(* A single channel.  All work of a party is done one after the other, so  *)
(* that the halves of the one channel fit together as those of a line do,  *)
(* as long as nothing has failed.                                          *)
(***************************************************************************)

\* What is below an item is the item or below what the item is below.
LEMMA BelowAppend ==
  ASSUME NEW a \in Path, NEW b \in Path, NEW n \in Nat, NEW e, e = Append(b, n)
  PROVE  /\ e \in Path /\ IsPrefix(b, e) /\ Len(e) = Len(b) + 1
         /\ IsPrefix(a, e) /\ a # e => IsPrefix(a, b)
<1>1. e \in Path /\ Len(e) = Len(b) + 1 /\ (IsPrefix(a, e) /\ a # e => IsPrefix(a, b))
  BY PrefixAppend
<1>2. IsPrefix(b, b)
  BY PrefixOrder
<1>3. IsPrefix(b, e)
  BY <1>2, PrefixAppend
<1> QED
  BY <1>1, <1>3

\* Entry e is below an item of a lane of d.
BelowLane(s, d, e) ==
  \E l \in 1 .. LanesOf(s, d.w) : \E j \in DOMAIN ItemsOfLane(s, d, l) :
     IsPrefix(ItemsOfLane(s, d, l)[j].path, e.path)

\* Entry e is below an item of a context, and below an item of a lane of
\* every entry it is below.
Within(s, e) ==
  /\ \E r \in DOMAIN s.roots : \E j \in DOMAIN RootItems(s, r) : IsPrefix(RootItems(s, r)[j].path, e.path)
  /\ \A d \in Plan(s) : IsPrefix(d.path, e.path) /\ d.path # e.path => d.w.k \in Ops /\ BelowLane(s, d, e)

\* Work of a context.
LEMMA RootWithin ==
  ASSUME NEW s \in Sessions, NEW e \in EntrySet, IsRoot(s, e)
  PROVE  Within(s, e)
<1>1. PICK r \in DOMAIN s.roots : \E j \in DOMAIN RootItems(s, r) : e = Entry(RootItems(s, r), j, RootChan(r))
  BY DEF IsRoot
<1>2. PICK j \in DOMAIN RootItems(s, r) : e = Entry(RootItems(s, r), j, RootChan(r))
  BY <1>1
<1>3. PICK q \in Seq(ItemSet), c \in Path : q = RootItems(s, r) /\ c = RootChan(r)
  BY RootList
<1>4. r \in Nat \ {0} /\ q[j].path = RootItem(r, j) /\ j \in Nat \ {0}
  BY <1>3, RootList
<1>5. e.path = q[j].path /\ e.path \in Path
  BY <1>2, <1>3, EntryIs DEF EntrySet
<1>6. IsPrefix(q[j].path, e.path)
  BY <1>5, PrefixOrder
<1>7. ASSUME NEW d \in Plan(s), IsPrefix(d.path, e.path), d.path # e.path PROVE FALSE
  <2>1. d \in EntrySet /\ Len(d.path) >= 2 /\ d.path \in Path
    BY PlanLeast, PlanLong DEF EntrySet, Long
  <2>2. Len(e.path) = 2
    BY <1>4, <1>5 DEF RootItem
  <2>3. Len(d.path) <= Len(e.path) /\ \A i \in 1 .. Len(d.path) : d.path[i] = e.path[i]
    BY <1>5, <1>7, <2>1, PrefixPointwise
  <2>4. Len(d.path) = 2
    <3>1. PICK m \in Nat : m = Len(d.path)
      BY <2>1 DEF Path
    <3>2. m <= 2
      BY <2>2, <2>3, <3>1
    <3>3. m >= 2
      BY <2>1, <3>1
    <3>4. m = 2
      BY <3>2, <3>3
    <3> QED
      BY <3>1, <3>4
  <2>5. d.path = e.path
    BY <1>5, <2>1, <2>2, <2>3, <2>4, SamePath DEF Path
  <2> QED
    BY <1>7, <2>5
<1> QED
  BY <1>3, <1>6, <1>7 DEF Within

\* Work of a lane.
LEMMA LaneWithin ==
  ASSUME NEW s \in Sessions, NEW f \in Plan(s), Within(s, f), NEW e \in EntrySet, IsLane(s, f, e)
  PROVE  Within(s, e)
<1>1. f \in EntrySet /\ f.path \in Path /\ e.path \in Path /\ f.w.k \in Ops
  BY PlanLeast DEF EntrySet, IsLane
<1>2. PICK l \in 1 .. LanesOf(s, f.w) :
        \E j \in DOMAIN ItemsOfLane(s, f, l) : e = Entry(ItemsOfLane(s, f, l), j, LaneChan(f, l))
  BY DEF IsLane
<1>3. PICK j \in DOMAIN ItemsOfLane(s, f, l) : e = Entry(ItemsOfLane(s, f, l), j, LaneChan(f, l))
  BY <1>2
<1>4. PICK q, n : q = ItemsOfLane(s, f, l) /\ n = LanesOf(s, f.w)
  OBVIOUS
<1>5. LaneHas(f, n, l, q)
  BY <1>1, <1>4, LaneList
<1>6. /\ q \in Seq(ItemSet) /\ LaneChan(f, l) \in Path
      /\ q[j].path = Append(f.path, Place(l, j, n)) /\ Place(l, j, n) \in Nat
  BY <1>3, <1>4, <1>5 DEF LaneHas
<1>7. e.path = q[j].path
  BY <1>3, <1>4, <1>6, EntryIs
<1>8. BelowLane(s, f, e)
  BY <1>1, <1>3, <1>4, <1>7, PrefixOrder DEF BelowLane
<1>9. IsPrefix(f.path, e.path)
  <2>1. PICK m \in Nat : e.path = Append(f.path, m)
    BY <1>6, <1>7
  <2> QED
    BY <1>1, <2>1, BelowAppend
<1>10. ASSUME NEW o \in Path, IsPrefix(o, f.path) PROVE IsPrefix(o, e.path)
  BY <1>1, <1>9, <1>10, PrefixOrder
<1>11. \E r \in DOMAIN s.roots : \E i \in DOMAIN RootItems(s, r) : IsPrefix(RootItems(s, r)[i].path, e.path)
  <2>1. PICK r \in DOMAIN s.roots : \E i \in DOMAIN RootItems(s, r) : IsPrefix(RootItems(s, r)[i].path, f.path)
    BY DEF Within
  <2>2. PICK i \in DOMAIN RootItems(s, r) : IsPrefix(RootItems(s, r)[i].path, f.path)
    BY <2>1
  <2>3. PICK a \in Seq(ItemSet) : a = RootItems(s, r)
    BY RootList
  <2>4. a[i] \in ItemSet
    BY <2>3
  <2>5. PICK o \in Path : o = RootItems(s, r)[i].path
    BY <2>3, <2>4 DEF ItemSet
  <2>6. IsPrefix(o, e.path)
    BY <1>10, <2>2, <2>5
  <2> QED
    BY <2>5, <2>6
<1>12. ASSUME NEW d \in Plan(s), IsPrefix(d.path, e.path), d.path # e.path
       PROVE  d.w.k \in Ops /\ BelowLane(s, d, e)
  <2>1. d \in EntrySet /\ d.path \in Path
    BY PlanLeast DEF EntrySet
  <2>2. IsPrefix(d.path, f.path)
    <3>1. PICK m \in Nat : e.path = Append(f.path, m)
      BY <1>6, <1>7
    <3> QED
      BY <1>1, <1>12, <2>1, <3>1, BelowAppend
  <2>3. CASE d.path = f.path
    <3>1. d = f
      BY <2>3, OnePath
    <3> QED
      BY <1>1, <1>8, <3>1
  <2>4. CASE d.path # f.path
    <3>1. d.w.k \in Ops /\ BelowLane(s, d, f)
      BY <2>2, <2>4 DEF Within
    <3>2. PICK h \in 1 .. LanesOf(s, d.w) :
            \E i \in DOMAIN ItemsOfLane(s, d, h) : IsPrefix(ItemsOfLane(s, d, h)[i].path, f.path)
      BY <3>1 DEF BelowLane
    <3>3. PICK i \in DOMAIN ItemsOfLane(s, d, h) : IsPrefix(ItemsOfLane(s, d, h)[i].path, f.path)
      BY <3>2
    <3>4. PICK a \in Seq(ItemSet) : a = ItemsOfLane(s, d, h)
      BY <2>1, LaneList DEF LaneHas
    <3>5. a[i] \in ItemSet
      BY <3>3, <3>4
    <3>6. PICK o \in Path : o = ItemsOfLane(s, d, h)[i].path
      BY <3>4, <3>5 DEF ItemSet
    <3>7. IsPrefix(o, e.path)
      BY <1>10, <3>3, <3>6
    <3> QED
      BY <3>1, <3>6, <3>7 DEF BelowLane
  <2> QED
    BY <2>3, <2>4
<1> QED
  BY <1>11, <1>12 DEF Within

\* All work of the plan.
LEMMA PlanWithin ==
  ASSUME NEW s \in Sessions, NEW e \in Plan(s)
  PROVE  Within(s, e)
<1>1. PICK R : R = {f \in Plan(s) : Within(s, f)}
  OBVIOUS
<1>2. Plan(s) \subseteq EntrySet /\ Closed(s, Plan(s))
  BY PlanLeast
<1>3. Closed(s, R)
  <2> SUFFICES ASSUME NEW f \in EntrySet, IsRoot(s, f) \/ \E d \in R : IsLane(s, d, f) PROVE f \in R
    BY DEF Closed
  <2>1. IsRoot(s, f) \/ \E d \in Plan(s) : IsLane(s, d, f)
    BY <1>1
  <2>2. f \in Plan(s)
    BY <1>2, <2>1 DEF Closed
  <2>3. CASE IsRoot(s, f)
    BY <1>1, <2>2, <2>3, RootWithin
  <2>4. CASE \E d \in R : IsLane(s, d, f)
    <3>1. PICK d \in R : IsLane(s, d, f)
      BY <2>4
    <3>2. d \in Plan(s) /\ Within(s, d)
      BY <1>1
    <3>3. Within(s, f)
      BY <3>1, <3>2, LaneWithin
    <3> QED
      BY <1>1, <2>2, <3>3
  <2> QED
    BY <2>3, <2>4
<1>4. R \in SUBSET EntrySet
  BY <1>1, <1>2
<1>5. Plan(s) \subseteq R
  BY <1>3, <1>4, PlanLeast
<1> QED
  BY <1>1, <1>5

\* All messages of a session.
AllTalks(s) == UNION {Talks(x) : x \in Lines(s)}

\* An item of a line is work of the plan.
LEMMA ItemPlanned ==
  ASSUME NEW s \in Sessions, NEW x \in Lines(s), NEW j \in DOMAIN x.items
  PROVE  \E d \in Plan(s) : d \in EntrySet /\ d.path = x.items[j].path /\ d.path \in Path /\ d.w = x.items[j].w
<1>1. LineOK(s, x)
  BY LineFacts
<1>2. PICK q \in Seq(ItemSet), c \in Path : q = x.items /\ c = x.chan
  BY <1>1 DEF LineOK
<1>3. Entry(q, j, c) \in Plan(s)
  BY <1>1, <1>2 DEF LineOK
<1>4. Entry(q, j, c).path = q[j].path /\ Entry(q, j, c).w = q[j].w
  BY <1>2, EntryIs
<1>5. Entry(q, j, c) \in EntrySet
  BY <1>3, PlanLeast
<1>6. Entry(q, j, c).path \in Path
  BY <1>5 DEF EntrySet
<1> QED
  BY <1>2, <1>3, <1>4, <1>5, <1>6

\* A message is in the plan.
LEMMA TalkPlanned ==
  ASSUME NEW s \in Sessions, NEW b \in AllTalks(s)
  PROVE  /\ b \in Path
         /\ \E e \in Plan(s) : e \in EntrySet /\ e.path = b /\ e.w.k \notin Ops
<1>1. PICK x \in Lines(s) : b \in Talks(x)
  BY DEF AllTalks
<1>2. PICK j \in DOMAIN x.items : x.items[j].w.k \notin Ops /\ x.items[j].path = b
  BY <1>1 DEF Talks
<1> QED
  BY <1>2, ItemPlanned

\* No message is below another.
LEMMA TalksLevel ==
  ASSUME NEW s \in Sessions, NEW a \in AllTalks(s), NEW b \in AllTalks(s), IsPrefix(a, b)
  PROVE  a = b
<1>1. PICK d \in Plan(s) : d.path = a /\ d.w.k \notin Ops
  BY TalkPlanned
<1>2. PICK e \in Plan(s) : e.path = b
  BY TalkPlanned
<1> QED
  BY <1>1, <1>2, PlanWithin DEF Within

-----------------------------------------------------------------------------
(* The tasks of a party on a single channel. *)

\* Task j waits for an operation that task k is below.
Under(s, T, j, k) ==
  T[j].phase = "wait" /\ \E x \in Lines(s) : x.key = k /\ IsPrefix(Head(T[j].queue).path, x.base)

\* Of any two tasks one waits for the other.
Chain(s, T) == \A j, k \in DOMAIN T : j # k => Under(s, T, j, k) \/ Under(s, T, k, j)

Stack(s, T) == s \in Sessions /\ IsTasks(T) /\ AllFollow(s, T) /\ Chain(s, T)

\* Only one task does not wait.
LEMMA OneAtWork ==
  ASSUME NEW s, NEW T, Stack(s, T), NEW j \in DOMAIN T, NEW k \in DOMAIN T,
         T[j].phase # "wait", T[k].phase # "wait"
  PROVE  j = k
BY DEF Stack, Chain, Under

\* The item a task is at is one below the line's base.
LEMMA HeadAbove ==
  ASSUME NEW s, NEW T, Stack(s, T), NEW k \in DOMAIN T, T[k].queue # <<>>, NEW x \in Lines(s), x.key = k
  PROVE  /\ x.base \in Path /\ Head(T[k].queue).path \in Path /\ Len(Head(T[k].queue).path) = Len(x.base) + 1
         /\ IsPrefix(x.base, Head(T[k].queue).path) /\ Follows(x, T[k]) /\ T[k] \in TaskSet
<1>1. s \in Sessions /\ T[k] \in TaskSet
  BY DEF Stack, IsTasks
<1>2. PICK y \in Lines(s) : y.key = k /\ Follows(y, T[k])
  BY DEF Stack, AllFollow
<1>3. y = x
  BY <1>1, <1>2, LinesApart
<1>4. PICK b, n : b = x.base /\ n = Len(T[k].out) + 1
  OBVIOUS
<1>5. n \in DOMAIN x.items /\ Head(T[k].queue) = x.items[n]
  BY <1>1, <1>2, <1>3, <1>4, HeadOf
<1>6. b \in Path /\ Ordered(b, x.items)
  BY <1>1, <1>4, LineFacts DEF LineOK
<1>7. PICK m \in Nat : x.items[n].path = Append(b, m)
  BY <1>5, <1>6 DEF Ordered
<1>8. PICK e : e = Head(T[k].queue).path /\ e = Append(b, m)
  BY <1>5, <1>7
<1>9. e \in Path /\ IsPrefix(b, e) /\ Len(e) = Len(b) + 1
  BY <1>6, <1>8, BelowAppend
<1>10. Follows(x, T[k])
  BY <1>2, <1>3
<1>11. b = x.base /\ e = Head(T[k].queue).path
  BY <1>4, <1>8
<1>12. x.base \in Path /\ Head(T[k].queue).path \in Path
  BY <1>6, <1>9, <1>11
<1>13. Len(Head(T[k].queue).path) = Len(x.base) + 1
  BY <1>9, <1>11
<1>14. IsPrefix(x.base, Head(T[k].queue).path)
  BY <1>9, <1>11
<1> QED
  BY <1>1, <1>10, <1>12, <1>13, <1>14

\* Tasks do not wait for each other.
LEMMA NotBoth ==
  ASSUME NEW s, NEW T, Stack(s, T), NEW j \in DOMAIN T, NEW k \in DOMAIN T,
         T[j].queue # <<>>, T[k].queue # <<>>, NEW x \in Lines(s), x.key = k, NEW y \in Lines(s), y.key = j,
         IsPrefix(Head(T[j].queue).path, x.base), IsPrefix(Head(T[k].queue).path, y.base)
  PROVE  FALSE
<1>1. PICK a, b, d, e : a = x.base /\ b = y.base /\ d = Head(T[k].queue).path /\ e = Head(T[j].queue).path
  OBVIOUS
<1>2. a \in Path /\ d \in Path /\ Len(d) = Len(a) + 1
  BY <1>1, HeadAbove
<1>3. b \in Path /\ e \in Path /\ Len(e) = Len(b) + 1
  BY <1>1, HeadAbove
<1>4. Len(e) <= Len(a) /\ Len(d) <= Len(b)
  BY <1>1, <1>2, <1>3, PrefixOrder
<1>5. PICK m \in Nat, n \in Nat : m = Len(a) /\ n = Len(b)
  BY <1>2, <1>3 DEF Path
<1>6. n + 1 <= m /\ m + 1 <= n
  BY <1>2, <1>3, <1>4, <1>5
<1> QED
  BY <1>5, <1>6

\* What is ahead of the task at work: all else that any task has to do.
LEMMA HeadFirst ==
  ASSUME NEW s, NEW T, Stack(s, T), NEW k \in DOMAIN T, T[k].queue # <<>>, T[k].phase # "wait",
         NEW j \in DOMAIN T, NEW i \in DOMAIN T[j].queue, j # k \/ i # 1, i # 1 \/ T[j].phase = "run",
         NEW b \in Path, IsPrefix(T[j].queue[i].path, b)
  PROVE  Before(Head(T[k].queue).path, b)
<1>1. s \in Sessions /\ T[j] \in TaskSet
  BY DEF Stack, IsTasks
<1>2. PICK x \in Lines(s) : x.key = k
  BY DEF Stack, AllFollow
<1>3. PICK y \in Lines(s) : y.key = j /\ Follows(y, T[j])
  BY DEF Stack, AllFollow
<1>4. T[j].queue # <<>>
  BY <1>1 DEF TaskSet
<1>5. PICK n \in Nat : n = Len(T[j].out)
  BY <1>1 DEF TaskSet
<1>6. /\ n + 1 \in DOMAIN y.items /\ Head(T[j].queue) = y.items[n + 1]
      /\ i \in Nat \ {0} /\ n + i \in DOMAIN y.items /\ T[j].queue[i] = y.items[n + i]
  BY <1>1, <1>3, <1>4, <1>5, HeadOf
<1>7. PICK e \in Path : e = Head(T[k].queue).path
  BY <1>2, HeadAbove
<1>8. IsPrefix(Head(T[j].queue).path, e) /\ i # 1
  <2>1. CASE j = k
    BY <1>7, <2>1, PrefixOrder
  <2>2. CASE j # k
    <3>1. Under(s, T, j, k)
      BY <2>2 DEF Stack, Chain, Under
    <3>2. PICK z \in Lines(s) : z.key = k /\ IsPrefix(Head(T[j].queue).path, z.base)
      BY <3>1 DEF Under
    <3>3. i # 1
      BY <3>1 DEF Under
    <3>4. z.base \in Path /\ IsPrefix(z.base, e)
      BY <1>7, <3>2, HeadAbove
    <3>5. PICK h : h = Head(T[j].queue).path /\ h \in Path
      BY <1>3, <1>4, HeadAbove
    <3>6. IsPrefix(h, e)
      BY <1>7, <3>2, <3>4, <3>5, PrefixOrder
    <3> QED
      BY <3>3, <3>5, <3>6
  <2> QED
    BY <2>1, <2>2
<1>9. PICK u, v : u = n + 1 /\ v = n + i /\ u < v /\ u \in DOMAIN y.items /\ v \in DOMAIN y.items
  BY <1>5, <1>6, <1>8
<1>10. IsPrefix(y.items[u].path, e) /\ IsPrefix(y.items[v].path, b)
  BY <1>6, <1>8, <1>9
<1>11. Before(e, b)
  BY <1>1, <1>7, <1>9, <1>10, LineBefore
<1> QED
  BY <1>7, <1>11

\* The lane of an operation that is forked is new, and below the operation.
LEMMA LaneFresh ==
  ASSUME TypeOK, NEW s, s = session, NEW T, Stack(s, T), NEW k \in DOMAIN T, T[k].queue # <<>>,
         T[k].phase = "run", Head(T[k].queue).w.k \in Ops, NEW h \in KeysOf(T[k])
  PROVE  h \notin DOMAIN T
<1>1. s \in Sessions /\ T[k] \in TaskSet /\ IsTasks(T) /\ AllFollow(session, T)
  BY DEF Stack, IsTasks
<1>2. PICK x \in Lines(s) : x.key = k /\ Follows(x, T[k])
  BY DEF Stack, AllFollow
<1>3. LaneBegun(s, T[k], h)
  BY <1>1, <1>2, LaneBegins
<1>4. PICK z \in Lines(s) : z.key = h /\ z.base = Head(T[k].queue).path
  <2>1. PICK d \in Operations(s) : \E l \in 1 .. LanesOf(s, d.w) :
           /\ d.path = Head(T[k].queue).path /\ LaneLine(s, d, l) \in Lines(s) /\ LaneLine(s, d, l).key = h
    BY <1>3 DEF LaneBegun
  <2>2. PICK l \in 1 .. LanesOf(s, d.w) : LaneLine(s, d, l) \in Lines(s) /\ LaneLine(s, d, l).key = h
    BY <2>1
  <2>3. LaneLine(s, d, l).base = d.path
    BY DEF LaneLine
  <2> QED
    BY <2>1, <2>2, <2>3
<1>5. h # k
  BY <1>1, KeyNotLane
<1>6. ASSUME h \in DOMAIN T PROVE FALSE
  <2>1. Under(s, T, h, k)
    BY <1>5, <1>6 DEF Stack, Chain, Under
  <2>2. PICK y \in Lines(s) : y.key = k /\ IsPrefix(Head(T[h].queue).path, y.base)
    BY <2>1 DEF Under
  <2>3. T[h].queue # <<>>
    BY <1>1, <1>6, <2>1 DEF Under, IsTasks, PhaseFits
  <2>4. PICK e : e = Head(T[k].queue).path /\ e \in Path
    BY <2>2, HeadAbove
  <2>5. IsPrefix(Head(T[k].queue).path, z.base)
    BY <1>4, <2>4, PrefixOrder
  <2> QED
    BY <1>4, <1>6, <2>2, <2>3, <2>5, NotBoth
<1> QED
  BY <1>6

\* Nothing is left below an operation whose lane is done.
LEMMA LaneGone ==
  ASSUME TypeOK, NEW s, s = session, NEW T, Stack(s, T), NEW k \in DOMAIN T, T[k].queue # <<>>,
         Head(T[k].queue).w.k \in Ops, NEW h \in KeysOf(T[k]), h \in DOMAIN T, T[h].queue = <<>>,
         NEW i \in DOMAIN T, i # h
  PROVE  ~Under(s, T, k, i)
<1> SUFFICES ASSUME Under(s, T, k, i) PROVE FALSE
  OBVIOUS
<1>1. s \in Sessions /\ T[k] \in TaskSet /\ IsTasks(T) /\ AllFollow(session, T)
  BY DEF Stack, IsTasks
<1>2. PICK x \in Lines(s) : x.key = k /\ Follows(x, T[k])
  BY DEF Stack, AllFollow
<1>3. LaneBegun(s, T[k], h)
  BY <1>1, <1>2, LaneBegins
<1>4. PICK z \in Lines(s) : z.key = h /\ z.base = Head(T[k].queue).path
  <2>1. PICK d \in Operations(s) : \E l \in 1 .. LanesOf(s, d.w) :
           /\ d.path = Head(T[k].queue).path /\ LaneLine(s, d, l) \in Lines(s) /\ LaneLine(s, d, l).key = h
    BY <1>3 DEF LaneBegun
  <2>2. PICK l \in 1 .. LanesOf(s, d.w) : LaneLine(s, d, l) \in Lines(s) /\ LaneLine(s, d, l).key = h
    BY <2>1
  <2>3. LaneLine(s, d, l).base = d.path
    BY DEF LaneLine
  <2> QED
    BY <2>1, <2>2, <2>3
<1>5. T[h].phase # "wait"
  BY <1>1 DEF IsTasks, PhaseFits
<1>6. Under(s, T, i, h)
  BY <1>5 DEF Stack, Chain, Under
<1>7. PICK w \in Lines(s) : w.key = h /\ IsPrefix(Head(T[i].queue).path, w.base)
  BY <1>6 DEF Under
<1>8. w = z
  BY <1>1, <1>4, <1>7, LinesApart
<1>9. PICK y \in Lines(s) : y.key = i /\ IsPrefix(Head(T[k].queue).path, y.base)
  BY DEF Under
<1>10. T[i].queue # <<>>
  BY <1>1, <1>6 DEF Under, IsTasks, PhaseFits
<1>11. PICK a, e, f : a = y.base /\ e = Head(T[i].queue).path /\ f = Head(T[k].queue).path
  OBVIOUS
<1>12. a \in Path /\ e \in Path /\ Len(e) = Len(a) + 1
  BY <1>9, <1>10, <1>11, HeadAbove
<1>13. f \in Path
  BY <1>2, <1>11, HeadAbove
<1>14. IsPrefix(e, f) /\ IsPrefix(f, a)
  BY <1>4, <1>7, <1>8, <1>9, <1>11
<1>15. Len(e) <= Len(f) /\ Len(f) <= Len(a)
  BY <1>12, <1>13, <1>14, PrefixOrder
<1>16. a \in Path
  BY <1>12
<1>17. PICK m \in Nat, n \in Nat : m = Len(a) /\ n = Len(f)
  BY <1>13, <1>16 DEF Path
<1>18. m + 1 <= n /\ n <= m
  BY <1>12, <1>15, <1>17
<1> QED
  BY <1>17, <1>18

-----------------------------------------------------------------------------
(* What a party has left to send on a single channel: what is below the     *)
(* items its tasks have not begun.                                          *)
LeftAt(T, k, i, b) ==
  /\ k \in DOMAIN T /\ i \in DOMAIN T[k].queue /\ (i # 1 \/ T[k].phase = "run")
  /\ IsPrefix(T[k].queue[i].path, b)
LeftBelow(T, G) == {b \in G : \E k, i : LeftAt(T, k, i, b)}
AllReads(T) == UNION {ReadsIn(T, k) : k \in DOMAIN T}

\* The task at work at its line.
LEMMA StackLine ==
  ASSUME NEW s, NEW T, Stack(s, T), NEW k \in DOMAIN T
  PROVE  s \in Sessions /\ \E x \in Lines(s) : AtLine(s, x, T, k, T[k])
<1>1. s \in Sessions /\ IsTasks(T) /\ AllFollow(s, T)
  BY DEF Stack
<1>2. PICK x \in Lines(s) : x.key = k /\ Follows(x, T[k])
  BY <1>1 DEF AllFollow
<1>3. T[k] \in TaskSet /\ PhaseFits(T[k])
  BY <1>1 DEF IsTasks
<1>4. AtLine(s, x, T, k, T[k])
  BY <1>1, <1>2, <1>3 DEF AtLine
<1> QED
  BY <1>1, <1>4

\* Where a task is at work, only it can be reading.
LEMMA WorkReads ==
  ASSUME NEW s, NEW T, Stack(s, T), NEW k \in DOMAIN T, T[k].phase # "wait"
  PROVE  AllReads(T) = IF T[k].phase = "recv" THEN {Head(T[k].queue).path} ELSE {}
<1>1. \A j \in DOMAIN T : j # k => T[j].phase = "wait"
  BY OneAtWork
<1>2. \A j \in DOMAIN T : j # k => ReadsIn(T, j) = {}
  BY <1>1 DEF ReadsIn
<1>3. AllReads(T) = ReadsIn(T, k)
  BY <1>2 DEF AllReads
<1> QED
  BY <1>3 DEF ReadsIn

\* A task that sends its item.
Voices(s, T, U, k, G, e) ==
  /\ Stack(s, T) /\ k \in DOMAIN T /\ T[k].queue # <<>> /\ T[k].phase = "run" /\ Head(T[k].queue).w.k \notin Ops
  /\ DOMAIN U = DOMAIN T /\ U[k].queue = T[k].queue /\ U[k].phase = "recv"
  /\ \A j \in DOMAIN U \ {k} : U[j] = T[j]
  /\ G = AllTalks(s) /\ e = Head(T[k].queue).path

\* It is the next of all that are left.
LEMMA SendLeft ==
  ASSUME NEW s, NEW T, NEW U, NEW k, NEW G, NEW e, Voices(s, T, U, k, G, e)
  PROVE  /\ e \in G /\ e \in LeftBelow(T, G) /\ e \notin LeftBelow(U, G)
         /\ LeftBelow(U, G) \subseteq LeftBelow(T, G) /\ LeftBelow(T, G) \subseteq LeftBelow(U, G) \cup {e}
         /\ \A b \in LeftBelow(T, G) : b = e \/ Before(e, b)
<1>1. k \in DOMAIN T /\ T[k].queue # <<>> /\ T[k].phase = "run" /\ Stack(s, T) /\ G = AllTalks(s)
  BY DEF Voices
<1>2. PICK x \in Lines(s) : AtLine(s, x, T, k, T[k])
  BY <1>1, StackLine
<1>3. /\ 1 \in DOMAIN T[k].queue /\ e = T[k].queue[1].path /\ e \in Path /\ e \in Talks(x)
  <2>1. PICK t : t = T[k] /\ t.queue # <<>> /\ AtLine(s, x, T, k, t) /\ Head(t.queue).w.k \notin Ops /\ e = Head(t.queue).path
    BY <1>1, <1>2 DEF Voices
  <2>2. /\ 1 \in DOMAIN t.queue /\ Head(t.queue) = t.queue[1] /\ Head(t.queue).path \in Path
        /\ Head(t.queue).path \in Talks(x)
    BY <2>1, QueueIs
  <2> QED
    BY <2>1, <2>2
<1>4. s \in Sessions /\ e \in G
  BY <1>1, <1>3, StackLine DEF AllTalks
<1>5. LeftAt(T, k, 1, e)
  <2>1. IsPrefix(e, e)
    BY <1>3, PrefixOrder
  <2> QED
    BY <1>1, <1>3, <2>1 DEF LeftAt
<1>6. ASSUME NEW j, NEW i, NEW b, LeftAt(U, j, i, b) PROVE LeftAt(T, j, i, b) /\ ~(j = k /\ i = 1)
  <2>1. j \in DOMAIN U /\ i \in DOMAIN U[j].queue /\ (i # 1 \/ U[j].phase = "run") /\ IsPrefix(U[j].queue[i].path, b)
    BY <1>6 DEF LeftAt
  <2>2. CASE j = k
    <3>1. i \in DOMAIN T[k].queue /\ i # 1 /\ IsPrefix(T[k].queue[i].path, b)
      BY <2>1, <2>2 DEF Voices
    <3> QED
      BY <1>1, <2>2, <3>1 DEF LeftAt
  <2>3. CASE j # k
    <3>1. j \in DOMAIN T /\ U[j] = T[j]
      BY <2>1, <2>3 DEF Voices
    <3> QED
      BY <2>1, <2>3, <3>1 DEF LeftAt
  <2> QED
    BY <2>2, <2>3
<1>7. ASSUME NEW j, NEW i, NEW b, LeftAt(T, j, i, b), ~(j = k /\ i = 1) PROVE LeftAt(U, j, i, b)
  <2>1. j \in DOMAIN T /\ i \in DOMAIN T[j].queue /\ (i # 1 \/ T[j].phase = "run") /\ IsPrefix(T[j].queue[i].path, b)
    BY <1>7 DEF LeftAt
  <2>2. CASE j = k
    <3>1. j \in DOMAIN U /\ U[k].queue = T[k].queue /\ i # 1
      BY <1>7, <2>1, <2>2 DEF Voices
    <3> QED
      BY <2>1, <2>2, <3>1 DEF LeftAt
  <2>3. CASE j # k
    <3>1. j \in DOMAIN U /\ U[j] = T[j]
      BY <2>1, <2>3 DEF Voices
    <3> QED
      BY <2>1, <2>3, <3>1 DEF LeftAt
  <2> QED
    BY <2>2, <2>3
<1>8. ASSUME NEW j, NEW i, NEW b, LeftAt(T, j, i, b), ~(j = k /\ i = 1), b \in Path PROVE Before(e, b)
  <2>1. j \in DOMAIN T /\ i \in DOMAIN T[j].queue /\ (i # 1 \/ T[j].phase = "run") /\ IsPrefix(T[j].queue[i].path, b)
    BY <1>8 DEF LeftAt
  <2>2. T[k].phase # "wait" /\ (j # k \/ i # 1) /\ (i # 1 \/ T[j].phase = "run")
    BY <1>1, <1>8, <2>1
  <2>3. Before(Head(T[k].queue).path, b)
    BY <1>1, <1>8, <2>1, <2>2, HeadFirst
  <2> QED
    BY <2>3 DEF Voices
<1>9. ASSUME NEW b \in G, LeftAt(T, k, 1, b) PROVE b = e
  <2>1. IsPrefix(e, b)
    BY <1>3, <1>9 DEF LeftAt
  <2> QED
    BY <1>1, <1>4, <2>1, TalksLevel
<1>10. \A b \in G : b \in Path
  BY <1>1, <1>4, TalkPlanned
<1>11. e \in LeftBelow(T, G)
  BY <1>4, <1>5 DEF LeftBelow
<1>12. e \notin LeftBelow(U, G)
  <2> SUFFICES ASSUME NEW j, NEW i, LeftAt(U, j, i, e) PROVE FALSE
    BY DEF LeftBelow
  <2>1. Before(e, e)
    BY <1>3, <1>6, <1>8
  <2> QED
    BY <1>3, <2>1, BeforeOnce
<1>13. LeftBelow(U, G) \subseteq LeftBelow(T, G)
  BY <1>6 DEF LeftBelow
<1>14. ASSUME NEW b \in LeftBelow(T, G) PROVE b \in LeftBelow(U, G) \cup {e} /\ (b = e \/ Before(e, b))
  <2>1. PICK j, i : b \in G /\ LeftAt(T, j, i, b)
    BY <1>14 DEF LeftBelow
  <2>2. CASE j = k /\ i = 1
    BY <1>9, <2>1, <2>2
  <2>3. CASE ~(j = k /\ i = 1)
    <3>1. LeftAt(U, j, i, b)
      BY <1>7, <2>1, <2>3
    <3>2. Before(e, b)
      BY <1>8, <1>10, <2>1, <2>3
    <3> QED
      BY <2>1, <3>1, <3>2 DEF LeftBelow
  <2> QED
    BY <2>2, <2>3
<1> QED
  BY <1>4, <1>11, <1>12, <1>13, <1>14

\* Nobody waits for a task that goes from one phase of its item to the next.
LEMMA SendChain ==
  ASSUME NEW s, NEW T, NEW U, NEW k, NEW G, NEW e, Voices(s, T, U, k, G, e)
  PROVE  Chain(s, U)
<1> SUFFICES ASSUME NEW i \in DOMAIN U, NEW j \in DOMAIN U, i # j PROVE Under(s, U, i, j) \/ Under(s, U, j, i)
  BY DEF Chain
<1>1. i \in DOMAIN T /\ j \in DOMAIN T
  BY DEF Voices
<1>2. ASSUME NEW h \in DOMAIN T, NEW o, Under(s, T, h, o) PROVE Under(s, U, h, o)
  <2>1. T[h].phase = "wait" /\ T[k].phase = "run"
    BY <1>2 DEF Under, Voices
  <2>2. h # k
    BY <2>1
  <2>3. U[h] = T[h]
    BY <2>2 DEF Voices
  <2> QED
    BY <1>2, <2>3 DEF Under
<1>3. Under(s, T, i, j) \/ Under(s, T, j, i)
  BY <1>1 DEF Voices, Stack, Chain
<1> QED
  BY <1>1, <1>2, <1>3

\* A task that ends its item, with a good result; tasks D, that are done, go.
Ceases(s, T, U, k, r, D, M) ==
  /\ Stack(s, T) /\ Ending(T, U, k, r, D, M) /\ r.ok /\ T[k].phase # "run"
  /\ \A c \in D : c \in DOMAIN T /\ T[c].queue = <<>>

\* All that was left is left.
LEMMA EndLeft ==
  ASSUME NEW s, NEW T, NEW U, NEW k, NEW r, NEW D, NEW M, Ceases(s, T, U, k, r, D, M), NEW G
  PROVE  LeftBelow(U, G) = LeftBelow(T, G)
<1>1. k \in DOMAIN T /\ k \in DOMAIN U /\ DOMAIN U = DOMAIN T \ D /\ T[k].phase # "run"
  BY DEF Ceases, Ending
<1>2. PICK q \in Seq(ItemSet) : q = T[k].queue
  BY <1>1 DEF Ceases, Stack, IsTasks, TaskSet
<1>3. U[k].queue = Tail(q) /\ U[k].phase = "run" /\ q # <<>>
  BY <1>2 DEF Ceases, Ending, Done
<1>4. PICK v : v = Tail(q)
  OBVIOUS
<1>5. PICK n \in Nat : n = Len(q)
  OBVIOUS
<1>6. DOMAIN q = 1 .. n /\ DOMAIN v = 1 .. n - 1 /\ \A i \in 1 .. n - 1 : v[i] = q[i + 1]
  BY <1>3, <1>4, <1>5
<1>7. ASSUME NEW i, NEW b PROVE LeftAt(U, k, i, b) <=> i \in 1 .. n - 1 /\ IsPrefix(q[i + 1].path, b)
  BY <1>1, <1>3, <1>4, <1>6 DEF LeftAt
<1>8. ASSUME NEW i, NEW b PROVE LeftAt(T, k, i, b) <=> i \in 1 .. n /\ i # 1 /\ IsPrefix(q[i].path, b)
  BY <1>1, <1>2, <1>6 DEF LeftAt
<1>9. ASSUME NEW j, j # k, NEW i, NEW b PROVE LeftAt(U, j, i, b) <=> LeftAt(T, j, i, b)
  <2>1. CASE j \in DOMAIN U
    <3>1. Copied(U[j], T[j]) /\ j \in DOMAIN T
      BY <1>9, <2>1 DEF Ceases, Ending
    <3>2. PICK u, t : u = U[j] /\ t = T[j]
      OBVIOUS
    <3>3. u.queue = t.queue /\ u.phase = t.phase
      BY <3>1, <3>2 DEF Copied
    <3> QED
      BY <2>1, <3>1, <3>2, <3>3 DEF LeftAt
  <2>2. CASE j \notin DOMAIN U
    <3>1. j \in DOMAIN T => T[j].queue = <<>>
      BY <1>1, <2>2 DEF Ceases
    <3> QED
      BY <2>2, <3>1 DEF LeftAt
  <2> QED
    BY <2>1, <2>2
<1>10. ASSUME NEW b, NEW j, NEW i, LeftAt(U, j, i, b) PROVE \E h, m : LeftAt(T, h, m, b)
  <2>1. CASE j = k
    <3>1. i \in 1 .. n - 1 /\ IsPrefix(q[i + 1].path, b)
      BY <1>7, <1>10, <2>1
    <3>2. PICK m : m = i + 1 /\ m \in 1 .. n /\ m # 1
      BY <1>5, <3>1
    <3>3. LeftAt(T, k, m, b)
      BY <1>8, <3>1, <3>2
    <3> QED
      BY <3>3
  <2>2. CASE j # k
    BY <1>9, <1>10, <2>2
  <2> QED
    BY <2>1, <2>2
<1>11. ASSUME NEW b, NEW j, NEW i, LeftAt(T, j, i, b) PROVE \E h, m : LeftAt(U, h, m, b)
  <2>1. CASE j = k
    <3>1. i \in 1 .. n /\ i # 1 /\ IsPrefix(q[i].path, b)
      BY <1>8, <1>11, <2>1
    <3>2. PICK m : m + 1 = i /\ m \in 1 .. n - 1
      <4>1. i - 1 \in 1 .. n - 1 /\ (i - 1) + 1 = i
        BY <1>5, <3>1
      <4> QED
        BY <4>1
    <3>3. LeftAt(U, k, m, b)
      BY <1>7, <3>1, <3>2
    <3> QED
      BY <3>3
  <2>2. CASE j # k
    BY <1>9, <1>11, <2>2
  <2> QED
    BY <2>1, <2>2
<1> QED
  BY <1>10, <1>11 DEF LeftBelow

\* Nobody is left who was below the item.
LEMMA EndChain ==
  ASSUME TypeOK, NEW s, s = session, NEW T, NEW U, NEW k, NEW r, NEW D, NEW M, Ceases(s, T, U, k, r, D, M),
         T[k].phase = "wait" => D # {} /\ D = KeysOf(T[k])
  PROVE  Chain(s, U)
<1> SUFFICES ASSUME NEW i \in DOMAIN U, NEW j \in DOMAIN U, i # j PROVE Under(s, U, i, j) \/ Under(s, U, j, i)
  BY DEF Chain
<1>1. DOMAIN U = DOMAIN T \ D /\ k \in DOMAIN T /\ T[k].queue # <<>> /\ Stack(s, T)
  BY DEF Ceases, Ending, Done
<1>2. ASSUME NEW h \in DOMAIN U, NEW o \in DOMAIN U, h # o, Under(s, T, h, o) PROVE Under(s, U, h, o)
  <2>1. CASE h = k
    <3>1. T[k].phase = "wait" /\ PhaseFits(T[k])
      BY <1>1, <1>2, <2>1 DEF Under, Stack, IsTasks
    <3>2. Head(T[k].queue).w.k \in Ops
      BY <3>1 DEF PhaseFits
    <3>3. PICK c \in D : c \in KeysOf(T[k]) /\ c \in DOMAIN T /\ T[c].queue = <<>>
      BY <3>1 DEF Ceases
    <3>4. o \in DOMAIN T /\ o # c
      BY <1>1, <1>2, <3>3
    <3>5. ~Under(s, T, k, o)
      BY <1>1, <3>2, <3>3, <3>4, LaneGone
    <3> QED
      BY <1>2, <2>1, <3>5
  <2>2. CASE h # k
    <3>1. Copied(U[h], T[h])
      BY <2>2 DEF Ceases, Ending
    <3>2. PICK u, t : u = U[h] /\ t = T[h]
      OBVIOUS
    <3>3. u.queue = t.queue /\ u.phase = t.phase
      BY <3>1, <3>2 DEF Copied
    <3> QED
      BY <1>2, <3>2, <3>3 DEF Under
  <2> QED
    BY <2>1, <2>2
<1>3. i \in DOMAIN T /\ j \in DOMAIN T
  BY <1>1
<1>4. Under(s, T, i, j) \/ Under(s, T, j, i)
  BY <1>1, <1>3 DEF Stack, Chain
<1> QED
  BY <1>2, <1>4

\* A task that forks on a single channel: one lane, h.
OneLane(s, T, U, k, d, h, q) ==
  /\ Stack(s, T) /\ k \in DOMAIN T /\ T[k].queue # <<>> /\ T[k].phase = "run" /\ Head(T[k].queue).w.k \in Ops
  /\ h \notin DOMAIN T /\ DOMAIN U = DOMAIN T \cup {h} /\ \A j \in DOMAIN T \ {k} : U[j] = T[j]
  /\ U[k].queue = T[k].queue /\ U[k].phase = "wait"
  /\ d \in Operations(s) /\ d.path = Head(T[k].queue).path /\ q = ItemsOfLane(s, d, 1) /\ LanesOf(s, d.w) = 1
  /\ U[h].queue = q /\ U[h].phase = "run"
  /\ \E x \in Lines(s) : x.key = h /\ x.base = d.path

\* On a single channel the operation started has one lane.
LEMMA SpawnedOne ==
  ASSUME TypeOK, Single, NEW s, s = session, NEW T, Stack(s, T), NEW U, NEW k \in DOMAIN T, Spawned(T, U, k)
  PROVE  \E d, h, q : OneLane(s, T, U, k, d, h, q)
<1>1. PICK t : t = T[k] /\ t \in TaskSet /\ t.queue # <<>> /\ t.phase = "run" /\ Head(t.queue).w.k \in Ops
  BY DEF Spawned, AtWork, Stack, IsTasks
<1>2. PICK w : w = Head(t.queue).w /\ Lanes(w) = LanesOf(s, w)
  BY LanesPlanned
<1>3. LanesOf(s, w) = 1
  BY DEF LanesOf, Single
<1>4. KeysOf(t) = {Append(Head(t.queue).path, 1)}
  BY <1>2, <1>3 DEF KeysOf, LaneKeys
<1>5. PICK h : h \in KeysOf(t) /\ KeysOf(t) = {h}
  BY <1>4
<1>6. h \notin DOMAIN T
  BY <1>1, <1>5, LaneFresh
<1>7. PICK x \in Lines(s) : Follows(x, t)
  BY <1>1 DEF Stack, AllFollow
<1>8. LaneBegun(s, t, h)
  BY <1>1, <1>5, <1>7, LaneBegins DEF TypeOK
<1>9. PICK d \in Operations(s) : \E l \in 1 .. LanesOf(s, d.w) :
        /\ d.path = Head(t.queue).path /\ d.w = w /\ l = Last(h)
        /\ LaneLine(s, d, l) \in Lines(s) /\ LaneLine(s, d, l).key = h
        /\ Begins(LaneLine(s, d, l), LaneOf(t, l))
  BY <1>2, <1>8 DEF LaneBegun
<1>10. PICK l \in 1 .. LanesOf(s, d.w) :
        /\ d.path = Head(t.queue).path /\ d.w = w /\ l = Last(h)
        /\ LaneLine(s, d, l) \in Lines(s) /\ LaneLine(s, d, l).key = h
        /\ Begins(LaneLine(s, d, l), LaneOf(t, l))
  BY <1>9
<1>11. LanesOf(s, d.w) = 1 /\ l = 1
  BY <1>3, <1>10
<1>12. PICK q : q = ItemsOfLane(s, d, 1)
  OBVIOUS
<1>13. /\ LaneLine(s, d, l).base = d.path /\ LaneLine(s, d, l).items = q
  BY <1>11, <1>12 DEF LaneLine
<1>14. LaneOf(t, l).queue = q /\ LaneOf(t, l).phase = "run"
  BY <1>10, <1>13 DEF Begins
<1>15. h # k
  BY <1>6
<1>16. /\ DOMAIN U = DOMAIN T \cup {h} /\ U[h] = LaneOf(t, l) /\ \A j \in DOMAIN T \ {k} : U[j] = T[j]
       /\ U[k] = [t EXCEPT !.fork = NextFork(t), !.phase = "wait"]
  <2>1. LaneKeys(Head(t.queue).path, Lanes(Head(t.queue).w)) = {h}
    BY <1>5 DEF KeysOf
  <2>2. U[h] = LaneOf(t, Last(h))
    BY <1>1, <1>15, <2>1 DEF Spawned
  <2> QED
    BY <1>1, <1>6, <1>10, <2>1, <2>2 DEF Spawned
<1>17. U[k].queue = t.queue /\ U[k].phase = "wait"
  BY <1>1, <1>16 DEF TaskSet
<1>18. OneLane(s, T, U, k, d, h, q)
  BY <1>1, <1>6, <1>10, <1>11, <1>12, <1>13, <1>14, <1>16, <1>17 DEF OneLane
<1> QED
  BY <1>18

\* All that was below the operation is below the items of its lane.
LEMMA ForkLeft ==
  ASSUME NEW s, NEW T, NEW U, NEW k, NEW d, NEW h, NEW q, OneLane(s, T, U, k, d, h, q),
         NEW G, G = AllTalks(s)
  PROVE  LeftBelow(U, G) = LeftBelow(T, G)
<1>1. /\ k \in DOMAIN T /\ T[k].queue # <<>> /\ T[k].phase = "run" /\ h \notin DOMAIN T /\ h # k
      /\ DOMAIN U = DOMAIN T \cup {h} /\ Stack(s, T)
  BY DEF OneLane
<1>2. d \in Operations(s) /\ d.path = Head(T[k].queue).path /\ q = ItemsOfLane(s, d, 1) /\ LanesOf(s, d.w) = 1
  BY DEF OneLane
<1>3. PICK x \in Lines(s) : AtLine(s, x, T, k, T[k])
  BY <1>1, StackLine
<1>4. s \in Sessions /\ 1 \in DOMAIN T[k].queue /\ d.path = T[k].queue[1].path
  <2>1. PICK t : t = T[k] /\ t.queue # <<>> /\ AtLine(s, x, T, k, t)
    BY <1>1, <1>3
  <2>2. 1 \in DOMAIN t.queue /\ Head(t.queue) = t.queue[1]
    BY <2>1, QueueIs
  <2> QED
    BY <1>1, <1>2, <2>1, <2>2, StackLine
<1>5. d \in Plan(s) /\ d \in EntrySet /\ d.w.k \in Ops /\ d.path \in Path
  BY <1>2, <1>4, OperationFacts
<1>6. LaneHas(d, 1, 1, q)
  <2>1. 1 \in 1 .. LanesOf(s, d.w)
    BY <1>2
  <2> QED
    BY <1>2, <1>4, <1>5, <2>1, LaneList
<1>7. \A b \in G : b \in Path
  BY <1>4, TalkPlanned
<1>8. ASSUME NEW b \in G, IsPrefix(d.path, b) PROVE \E i \in DOMAIN q : IsPrefix(q[i].path, b)
  <2>1. PICK e \in Plan(s) : e.path = b /\ e.w.k \notin Ops
    BY <1>4, TalkPlanned
  <2>2. e.path # d.path
    BY <1>4, <1>5, <2>1, OnePath
  <2>3. BelowLane(s, d, e)
    BY <1>4, <1>5, <1>8, <2>1, <2>2, PlanWithin DEF Within
  <2>4. PICK l \in 1 .. LanesOf(s, d.w) :
          \E i \in DOMAIN ItemsOfLane(s, d, l) : IsPrefix(ItemsOfLane(s, d, l)[i].path, b)
    BY <2>1, <2>3 DEF BelowLane
  <2>5. l = 1
    BY <1>2, <2>4
  <2> QED
    BY <1>2, <2>4, <2>5
<1>9. ASSUME NEW b \in Path, NEW i \in DOMAIN q, IsPrefix(q[i].path, b) PROVE IsPrefix(d.path, b)
  <2>1. PICK n \in Nat : q[i].path = Append(d.path, n)
    BY <1>6 DEF LaneHas
  <2>2. PICK e : e = q[i].path /\ e = Append(d.path, n)
    BY <2>1
  <2>3. e \in Path /\ IsPrefix(d.path, e)
    BY <1>5, <2>2, BelowAppend
  <2> QED
    BY <1>5, <1>9, <2>2, <2>3, PrefixOrder
<1>10. ASSUME NEW b \in G, NEW j, NEW i, LeftAt(U, j, i, b) PROVE \E o, m : LeftAt(T, o, m, b)
  <2>1. j \in DOMAIN U /\ i \in DOMAIN U[j].queue /\ (i # 1 \/ U[j].phase = "run") /\ IsPrefix(U[j].queue[i].path, b)
    BY <1>10 DEF LeftAt
  <2>2. CASE j = h
    <3>1. i \in DOMAIN q /\ IsPrefix(q[i].path, b)
      BY <2>1, <2>2 DEF OneLane
    <3>2. IsPrefix(d.path, b)
      BY <1>7, <1>9, <3>1
    <3>3. LeftAt(T, k, 1, b)
      BY <1>1, <1>4, <3>2 DEF LeftAt
    <3> QED
      BY <3>3
  <2>3. CASE j = k
    <3>1. i \in DOMAIN T[k].queue /\ i # 1 /\ IsPrefix(T[k].queue[i].path, b)
      BY <2>1, <2>3 DEF OneLane
    <3>2. LeftAt(T, k, i, b)
      BY <1>1, <3>1 DEF LeftAt
    <3> QED
      BY <3>2
  <2>4. CASE j # h /\ j # k
    <3>1. j \in DOMAIN T /\ U[j] = T[j]
      BY <1>1, <2>1, <2>4 DEF OneLane
    <3>2. LeftAt(T, j, i, b)
      BY <2>1, <3>1 DEF LeftAt
    <3> QED
      BY <3>2
  <2> QED
    BY <2>2, <2>3, <2>4
<1>11. ASSUME NEW b \in G, NEW j, NEW i, LeftAt(T, j, i, b) PROVE \E o, m : LeftAt(U, o, m, b)
  <2>1. j \in DOMAIN T /\ i \in DOMAIN T[j].queue /\ (i # 1 \/ T[j].phase = "run") /\ IsPrefix(T[j].queue[i].path, b)
    BY <1>11 DEF LeftAt
  <2>2. CASE j = k /\ i = 1
    <3>1. IsPrefix(d.path, b)
      BY <1>4, <2>1, <2>2
    <3>2. PICK m \in DOMAIN q : IsPrefix(q[m].path, b)
      BY <1>8, <3>1
    <3>3. h \in DOMAIN U /\ U[h].queue = q /\ U[h].phase = "run"
      BY DEF OneLane
    <3>4. LeftAt(U, h, m, b)
      BY <3>2, <3>3 DEF LeftAt
    <3> QED
      BY <3>4
  <2>3. CASE j = k /\ i # 1
    <3>1. k \in DOMAIN U /\ U[k].queue = T[k].queue
      BY <1>1 DEF OneLane
    <3>2. LeftAt(U, k, i, b)
      BY <2>1, <2>3, <3>1 DEF LeftAt
    <3> QED
      BY <3>2
  <2>4. CASE j # k
    <3>1. j \in DOMAIN U /\ U[j] = T[j]
      BY <1>1, <2>1, <2>4 DEF OneLane
    <3>2. LeftAt(U, j, i, b)
      BY <2>1, <3>1 DEF LeftAt
    <3> QED
      BY <3>2
  <2> QED
    BY <2>2, <2>3, <2>4
<1> QED
  BY <1>10, <1>11 DEF LeftBelow

\* The lane is below the operation, and so below all that the task is below.
LEMMA ForkChain ==
  ASSUME NEW s, NEW T, NEW U, NEW k, NEW d, NEW h, NEW q, OneLane(s, T, U, k, d, h, q)
  PROVE  Chain(s, U)
<1> SUFFICES ASSUME NEW i \in DOMAIN U, NEW j \in DOMAIN U, i # j PROVE Under(s, U, i, j) \/ Under(s, U, j, i)
  BY DEF Chain
<1>1. /\ k \in DOMAIN T /\ T[k].queue # <<>> /\ T[k].phase = "run" /\ h \notin DOMAIN T /\ h # k
      /\ DOMAIN U = DOMAIN T \cup {h} /\ Stack(s, T) /\ d.path = Head(T[k].queue).path
  BY DEF OneLane
<1>2. PICK z \in Lines(s) : z.key = h /\ z.base = d.path
  BY DEF OneLane
<1>3. ASSUME NEW g \in DOMAIN T, NEW o, Under(s, T, g, o) PROVE Under(s, U, g, o)
  <2>1. g # k
    BY <1>1, <1>3 DEF Under
  <2>2. U[g] = T[g]
    BY <2>1 DEF OneLane
  <2> QED
    BY <1>3, <2>2 DEF Under
<1>4. PICK x \in Lines(s) : x.key = k
  BY <1>1, StackLine DEF AtLine
<1>5. PICK e : e = d.path /\ e = Head(T[k].queue).path
  BY <1>1
<1>6. e \in Path /\ x.base \in Path /\ IsPrefix(x.base, e)
  BY <1>1, <1>4, <1>5, HeadAbove
<1>7. IsPrefix(e, e)
  BY <1>6, PrefixOrder
<1>8. Under(s, U, k, h)
  <2>1. U[k].phase = "wait" /\ U[k].queue = T[k].queue
    BY DEF OneLane
  <2>2. z \in Lines(s) /\ z.key = h /\ IsPrefix(Head(U[k].queue).path, z.base)
    BY <1>2, <1>5, <1>7, <2>1
  <2> QED
    BY <2>1, <2>2 DEF Under
<1>9. ASSUME NEW g \in DOMAIN T, g # k PROVE Under(s, U, g, h)
  <2>1. Under(s, T, g, k)
    BY <1>1, <1>9 DEF Stack, Chain, Under
  <2>2. PICK y \in Lines(s) : y.key = k /\ IsPrefix(Head(T[g].queue).path, y.base)
    BY <2>1 DEF Under
  <2>3. y = x
    BY <1>1, <1>4, <2>2, StackLine, LinesApart
  <2>4. T[g].queue # <<>> /\ T[g].phase = "wait"
    BY <1>1, <2>1 DEF Under, Stack, IsTasks, PhaseFits
  <2>5. PICK v \in Lines(s) : v.key = g
    BY <1>1, StackLine DEF AtLine
  <2>6. PICK f \in Path : f = Head(T[g].queue).path
    BY <1>1, <2>4, <2>5, HeadAbove
  <2>7. IsPrefix(f, e)
    BY <1>6, <2>2, <2>3, <2>6, PrefixOrder
  <2>8. U[g] = T[g]
    BY <1>9 DEF OneLane
  <2>9. IsPrefix(Head(U[g].queue).path, z.base)
    BY <1>2, <1>5, <2>6, <2>7, <2>8
  <2> QED
    BY <1>2, <2>4, <2>8, <2>9 DEF Under
<1>10. CASE i = h \/ j = h
  BY <1>1, <1>8, <1>9, <1>10
<1>11. CASE i # h /\ j # h
  <2>1. i \in DOMAIN T /\ j \in DOMAIN T
    BY <1>1, <1>11
  <2>2. Under(s, T, i, j) \/ Under(s, T, j, i)
    BY <1>1, <2>1 DEF Stack, Chain
  <2> QED
    BY <1>3, <2>1, <2>2
<1> QED
  BY <1>10, <1>11

-----------------------------------------------------------------------------
(* What a party knows of a single channel. *)
Whole(S, G, T, I) ==
  [sent |-> S \cap G, left |-> LeftBelow(T, G), todo |-> {0}, reads |-> AllReads(T),
   opened |-> {DefaultId}, closed |-> {}, inbox |-> I]

\* The fields of that view.
SeesWhole(v, S, G, L, R, I) ==
  /\ v.sent = S \cap G /\ v.left = L /\ v.todo = {0} /\ v.reads = R
  /\ v.opened = {DefaultId} /\ v.closed = {} /\ v.inbox = I

\* A view has the fields it should.
LEMMA WholeSees ==
  ASSUME NEW S, NEW G, NEW T, NEW I
  PROVE  SeesWhole(Whole(S, G, T, I), S, G, LeftBelow(T, G), AllReads(T), I)
BY DEF SeesWhole, Whole

\* A task sends: the halves fit after it.
LEMMA WholeSends ==
  ASSUME NEW s, NEW T, NEW U, NEW k, NEW G, NEW e, Voices(s, T, U, k, G, e), Stack(s, U),
         NEW S, NEW I, NEW R, NEW X, NEW J,
         TwoHalves(G, DefaultId, Whole(S, G, T, I), Whole(R, G, X, J))
  PROVE  TwoHalves(G, DefaultId, Whole(S \cup {e}, G, U, I), Whole(R, G, X, Append(J, e)))
<1>1. PICK v, w : v = Whole(S, G, T, I) /\ w = Whole(R, G, X, J)
  OBVIOUS
<1>2. PICK v1, w1 : v1 = Whole(S \cup {e}, G, U, I) /\ w1 = Whole(R, G, X, Append(J, e))
  OBVIOUS
<1>3. /\ SeesWhole(v, S, G, LeftBelow(T, G), AllReads(T), I)
      /\ SeesWhole(w, R, G, LeftBelow(X, G), AllReads(X), J)
      /\ SeesWhole(v1, S \cup {e}, G, LeftBelow(U, G), AllReads(U), I)
      /\ SeesWhole(w1, R, G, LeftBelow(X, G), AllReads(X), Append(J, e))
  BY <1>1, <1>2, WholeSees
<1>4. /\ e \in G /\ e \in LeftBelow(T, G) /\ e \notin LeftBelow(U, G)
      /\ LeftBelow(U, G) \subseteq LeftBelow(T, G) /\ LeftBelow(T, G) \subseteq LeftBelow(U, G) \cup {e}
      /\ \A b \in LeftBelow(T, G) : b = e \/ Before(e, b)
  BY SendLeft
<1>5. AllReads(T) = {}
  BY WorkReads DEF Voices
<1>6. AllReads(U) = {e}
  <2>1. k \in DOMAIN U /\ U[k].phase = "recv" /\ Head(U[k].queue).path = e
    BY DEF Voices
  <2> QED
    BY <2>1, WorkReads
<1>7. Still(w, w1)
  BY <1>3 DEF Still, SeesWhole
<1>8. Talking(G, DefaultId, v, w, v1, w1, e)
  <2>1. v1.sent = v.sent \cup {e}
    BY <1>3, <1>4 DEF SeesWhole
  <2>2. /\ e \in v.left /\ v.todo # {} /\ v.reads = {} /\ v1.reads = {e} /\ v1.inbox = v.inbox
        /\ w1.inbox = Append(w.inbox, e)
    BY <1>3, <1>4, <1>5, <1>6 DEF SeesWhole
  <2>3. /\ DefaultId \notin v.closed /\ DefaultId \notin w.closed /\ DefaultId \notin v1.closed /\ DefaultId \in v1.opened
    BY <1>3 DEF SeesWhole
  <2>4. /\ v1.left \subseteq v.left /\ v.left \cap G \subseteq v1.left \cup {e} /\ e \notin v1.left
        /\ \A b \in v.left : b = e \/ Before(e, b)
    BY <1>3, <1>4 DEF SeesWhole
  <2> QED
    BY <1>4, <2>1, <2>2, <2>3, <2>4 DEF Talking
<1>9. G \in SUBSET Path
  BY TalkPlanned DEF Voices, Stack
<1>10. TwoHalves(G, DefaultId, v, w)
  BY <1>1
<1>11. TwoHalves(G, DefaultId, v1, w1)
  BY <1>7, <1>8, <1>9, <1>10, TalkingHalves
<1> QED
  BY <1>2, <1>11

\* A task reads: what is its.
LEMMA WholeReads ==
  ASSUME NEW s, NEW T, Stack(s, T), NEW k \in DOMAIN T, T[k].phase = "recv", NEW G, G = AllTalks(s),
         NEW e, e = Head(T[k].queue).path, NEW S, NEW I, I # <<>>, NEW R, NEW X, NEW J,
         TwoHalves(G, DefaultId, Whole(S, G, T, I), Whole(R, G, X, J)), NEW v1,
         SeesWhole(v1, S, G, LeftBelow(T, G), {}, Tail(I))
  PROVE  Head(I) = e /\ TwoHalves(G, DefaultId, v1, Whole(R, G, X, J))
<1>1. PICK v, w : v = Whole(S, G, T, I) /\ w = Whole(R, G, X, J)
  OBVIOUS
<1>2. /\ SeesWhole(v, S, G, LeftBelow(T, G), AllReads(T), I)
      /\ SeesWhole(w, R, G, LeftBelow(X, G), AllReads(X), J)
  BY <1>1, WholeSees
<1>3. AllReads(T) = {e}
  BY WorkReads
<1>4. Still(w, w)
  BY DEF Still
<1>5. Later(G, v, v1)
  BY <1>2 DEF Later, SeesWhole
<1>6. Grown(DefaultId, v, v1)
  BY <1>2 DEF Grown, SeesWhole
<1>7. Hearing(G, DefaultId, v, w, v1, w, e)
  BY <1>2, <1>3, <1>5 DEF Hearing, SeesWhole
<1>8. G \in SUBSET Path
  BY TalkPlanned DEF Stack
<1>9. TwoHalves(G, DefaultId, v, w)
  BY <1>1
<1>10. TwoHalves(G, DefaultId, v1, w) /\ Head(v.inbox) = e
  BY <1>4, <1>6, <1>7, <1>8, <1>9, HearingHalves
<1>11. v.inbox = I
  BY <1>2 DEF SeesWhole
<1> QED
  BY <1>1, <1>10, <1>11

\* The tasks go on without sending or reading: the same is known.
LEMMA WholeSame ==
  ASSUME NEW S, NEW G, NEW T, NEW U, NEW I, LeftBelow(U, G) = LeftBelow(T, G), AllReads(U) = AllReads(T)
  PROVE  Whole(S, G, U, I) = Whole(S, G, T, I)
BY DEF Whole

-----------------------------------------------------------------------------
(* The tasks of a party on a single channel as long as nothing has failed. *)
Healthy(T) == \A k \in DOMAIN T : ~T[k].cancelled /\ ~Failing(T[k]) /\ T[k].chan = DefaultId

\* A good result fails nothing.
LEMMA GoodResult ==
  ASSUME NEW t \in TaskSet, NEW u, NEW r, Done(u, t, r), r.ok, ~Failing(t)
  PROVE  ~Failing(u)
<1>1. PICK o \in Seq(ResultSet) : o = t.out
  BY DEF TaskSet
<1>2. PICK n \in Nat : n = Len(o)
  OBVIOUS
<1>3. PICK v : v = Append(o, r) /\ u.out = v /\ r \in ResultSet
  BY <1>1 DEF Done
<1>4. DOMAIN o = 1 .. n /\ DOMAIN v = 1 .. n + 1 /\ v[n + 1] = r /\ \A i \in 1 .. n : v[i] = o[i]
  BY <1>2, <1>3
<1>5. \A i \in 1 .. n + 1 : i \in 1 .. n \/ i = n + 1
  OBVIOUS
<1>6. \A i \in 1 .. n : o[i].ok
  BY <1>1, <1>4 DEF Failing, ToSet
<1>7. \A i \in 1 .. n + 1 : v[i].ok
  BY <1>4, <1>5, <1>6
<1> QED
  BY <1>3, <1>4, <1>7 DEF Failing, ToSet

\* An item that ends with a good result leaves all tasks well and every
\* channel open.
LEMMA HealthyEnds ==
  ASSUME TypeOK, Single, NEW p \in Parties, Healthy(tasks[p]), closed[p] = {},
         NEW k, NEW r, r.ok, NEW D, EndStep(p, k, r, D, {}, {})
  PROVE  Healthy(tasks'[p]) /\ closed'[p] = {}
<1>1. PICK T, U : T = tasks[p] /\ U = tasks'[p]
  OBVIOUS
<1>2. Ending(T, U, k, r, D, {}) /\ IsTasks(T)
  BY <1>1 DEF EndStep, TypeOK
<1>3. k \in DOMAIN T /\ T[k] \in TaskSet /\ Done(U[k], T[k], r)
  BY <1>2 DEF Ending, IsTasks
<1>4. ~Failing(U[k])
  BY <1>1, <1>3, GoodResult DEF Healthy
<1>5. ~U[k].cancelled /\ U[k].chan = DefaultId
  BY <1>1, <1>3 DEF Done, Healthy
<1>6. ASSUME NEW j \in DOMAIN U, j # k PROVE ~U[j].cancelled /\ ~Failing(U[j]) /\ U[j].chan = DefaultId
  <2>1. j \in DOMAIN T /\ Copied(U[j], T[j]) /\ U[j].cancelled = T[j].cancelled
    BY <1>2, <1>6 DEF Ending
  <2>2. ~T[j].cancelled /\ ~Failing(T[j]) /\ T[j].chan = DefaultId
    BY <1>1, <2>1 DEF Healthy
  <2> QED
    BY <2>1, <2>2 DEF Copied, Failing
<1>7. Healthy(U)
  BY <1>4, <1>5, <1>6 DEF Healthy
<1>8. closed'[p] = {}
  <2>1. PICK C : C \in {{}, {tasks[p][k].chan}} /\ closed'[p] = closed[p] \cup {} \cup C /\ (C # {} => Failing(U[k]))
    BY <1>1 DEF EndStep
  <2> QED
    BY <1>4, <2>1
<1> QED
  BY <1>1, <1>7, <1>8

\* So does an operation that is forked.
LEMMA HealthyForks ==
  ASSUME TypeOK, Single, NEW s, s = session, NEW T, Stack(s, T), Healthy(T), NEW U, NEW k \in DOMAIN T,
         Spawned(T, U, k)
  PROVE  Healthy(U)
<1>1. PICK t : t = T[k] /\ t \in TaskSet /\ t.queue # <<>> /\ t.phase = "run" /\ Head(t.queue).w.k \in Ops
  BY DEF Spawned, AtWork, Stack, IsTasks
<1>2. PICK x \in Lines(s) : Follows(x, t)
  BY <1>1 DEF Stack, AllFollow
<1>3. /\ DOMAIN U = DOMAIN T \cup KeysOf(t) /\ U[k] = [t EXCEPT !.fork = NextFork(t), !.phase = "wait"]
      /\ \A c \in KeysOf(t) \ {k} : U[c] = LaneOf(t, Last(c))
      /\ \A j \in DOMAIN U \ (KeysOf(t) \cup {k}) : U[j] = T[j]
  BY <1>1 DEF Spawned, KeysOf
<1>4. ~t.cancelled /\ ~Failing(t) /\ t.chan = DefaultId
  BY <1>1 DEF Healthy
<1>5. ~U[k].cancelled /\ ~Failing(U[k]) /\ U[k].chan = DefaultId
  <2>1. U[k].cancelled = t.cancelled /\ U[k].out = t.out /\ U[k].chan = t.chan
    BY <1>1, <1>3 DEF TaskSet
  <2> QED
    BY <1>4, <2>1 DEF Failing
<1>6. ASSUME NEW c \in KeysOf(t), c # k PROVE ~U[c].cancelled /\ ~Failing(U[c]) /\ U[c].chan = DefaultId
  <2>1. PICK u : u = U[c] /\ u = LaneOf(t, Last(c))
    BY <1>3, <1>6
  <2>2. LaneBegun(s, t, c)
    BY <1>1, <1>2, LaneBegins DEF Stack
  <2>3. ~u.cancelled /\ u.out = <<>>
    BY <2>1, <2>2 DEF LaneBegun, Begins
  <2>4. ~Failing(u)
    BY <2>3 DEF Failing, ToSet
  <2>5. u.chan = t.chan
    BY <1>1, <2>1, LaneWork DEF LaneIs, KeysOf
  <2> QED
    BY <1>4, <2>1, <2>3, <2>4, <2>5
<1>7. ASSUME NEW j \in DOMAIN U, j # k, j \notin KeysOf(t) PROVE ~U[j].cancelled /\ ~Failing(U[j]) /\ U[j].chan = DefaultId
  BY <1>3, <1>7 DEF Healthy
<1> QED
  BY <1>5, <1>6, <1>7 DEF Healthy

-----------------------------------------------------------------------------
(* Every step on a single channel, as long as nothing has failed. *)

\* Party p takes a step, with talks G.
CalmScene(p, q, s, G) ==
  /\ TasksInv /\ Single /\ p \in Parties /\ q = Peer(p) /\ q \in Parties /\ q # p /\ s = session /\ G = AllTalks(s)
  /\ Stack(s, tasks[p]) /\ Healthy(tasks[p]) /\ closed[p] = {} /\ closed[q] = {}
  /\ TwoHalves(G, DefaultId, Whole(Sent(p), G, tasks[p], Inbox(p, DefaultId)),
                             Whole(Sent(q), G, tasks[q], Inbox(q, DefaultId)))
  /\ IsTasks(tasks'[p]) /\ AllFollow(s, tasks'[p])

\* What must be the case after it.
CalmAfter(p, q, s, G) ==
  /\ Chain(s, tasks'[p]) /\ Healthy(tasks'[p]) /\ closed'[p] = {} /\ closed'[q] = {}
  /\ TwoHalves(G, DefaultId, Whole(Sent(p)', G, tasks'[p], Inbox(p, DefaultId)'),
                             Whole(Sent(q)', G, tasks[q], Inbox(q, DefaultId)'))

\* A message is sent.
LEMMA CalmSends ==
  ASSUME NEW p, NEW q, NEW s, NEW G, CalmScene(p, q, s, G), NEW k \in DOMAIN tasks[p], Sending(p, k)
  PROVE  CalmAfter(p, q, s, G)
<1>1. PICK T, U, e, c : T = tasks[p] /\ U = tasks'[p] /\ e = Head(tasks[p][k].queue).path /\ c = DefaultId
  OBVIOUS
<1>2. /\ ShapeOK /\ BoxOK /\ p \in Parties /\ q \in Parties /\ q # p /\ q = Peer(p) /\ Stack(s, T) /\ Healthy(T)
      /\ IsTasks(U) /\ AllFollow(s, U) /\ s \in Sessions
  BY <1>1 DEF CalmScene, TasksInv, Stack
<1>3. T[k].chan = c
  BY <1>1, <1>2 DEF Healthy
<1>4. Voices(s, T, U, k, G, e)
  <2>1. /\ T[k].queue # <<>> /\ T[k].phase = "run" /\ Head(T[k].queue).w.k \notin Ops
        /\ DOMAIN U = DOMAIN T /\ Idle(U[k], T[k]) /\ U[k].phase = "recv" /\ \A j \in DOMAIN U \ {k} : U[j] = T[j]
    BY <1>1 DEF Sending
  <2>2. U[k].queue = T[k].queue
    BY <2>1 DEF Idle
  <2>3. G = AllTalks(s)
    BY DEF CalmScene
  <2> QED
    BY <1>1, <1>2, <2>1, <2>2, <2>3 DEF Voices
<1>5. Chain(s, U)
  BY <1>4, SendChain
<1>6. Stack(s, U)
  BY <1>2, <1>5 DEF Stack
<1>7. Healthy(U)
  <2>1. DOMAIN U = DOMAIN T /\ \A j \in DOMAIN U \ {k} : U[j] = T[j]
    BY <1>1 DEF Sending
  <2>2. U[k].cancelled = T[k].cancelled /\ U[k].out = T[k].out /\ U[k].chan = T[k].chan
    BY <1>1 DEF Sending, Idle
  <2>3. ~U[k].cancelled /\ ~Failing(U[k]) /\ U[k].chan = DefaultId
    BY <1>1, <1>2, <2>2 DEF Healthy, Failing
  <2> QED
    BY <1>2, <2>1, <2>3 DEF Healthy
<1>8. closed'[p] = {} /\ closed'[q] = {}
  BY DEF Sending, CalmScene
<1>9. Sent(p)' = Sent(p) \cup {e} /\ Sent(q)' = Sent(q)
  BY <1>1, <1>2 DEF Sending
<1>10. c \in DOMAIN box[q]
  BY <1>1, <1>2, <1>3 DEF BoxOK
<1>11. PICK m : m = Append(box[q][c], e)
  OBVIOUS
<1>12. mux' = mux /\ box' = [box EXCEPT ![q] = [box[q] EXCEPT ![c] = m]]
  BY <1>1, <1>2, <1>3, <1>11 DEF Sending
<1>13. Inbox(q, c)' = Append(Inbox(q, c), e) /\ Inbox(p, c)' = Inbox(p, c)
  <2>1. /\ Inbox(q, c)' = m /\ Inbox(q, c) = box[q][c]
        /\ \A x \in Parties : \A d : x # q \/ d # c => Inbox(x, d)' = Inbox(x, d)
    BY <1>2, <1>10, <1>12, BoxEffect
  <2> QED
    BY <1>2, <1>11, <2>1
<1>14. PICK S, I, R, J : S = Sent(p) /\ I = Inbox(p, c) /\ R = Sent(q) /\ J = Inbox(q, c)
  OBVIOUS
<1>15. TwoHalves(G, DefaultId, Whole(S, G, T, I), Whole(R, G, tasks[q], J))
  BY <1>1, <1>14 DEF CalmScene
<1>16. TwoHalves(G, DefaultId, Whole(S \cup {e}, G, U, I), Whole(R, G, tasks[q], Append(J, e)))
  BY <1>4, <1>6, <1>15, WholeSends
<1> QED
  BY <1>1, <1>5, <1>7, <1>8, <1>9, <1>13, <1>14, <1>16 DEF CalmAfter

\* An item ends with a good result.
LEMMA CalmEnds ==
  ASSUME NEW p, NEW q, NEW s, NEW G, CalmScene(p, q, s, G), NEW k, NEW r, r.ok, NEW D, EndStep(p, k, r, D, {}, {}),
         tasks[p][k].phase # "run", \A c \in D : c \in DOMAIN tasks[p] /\ tasks[p][c].queue = <<>>,
         tasks[p][k].phase = "wait" => D # {} /\ D = KeysOf(tasks[p][k])
  PROVE  /\ Chain(s, tasks'[p]) /\ Healthy(tasks'[p]) /\ closed'[p] = {} /\ closed'[q] = {}
         /\ Sent(p)' = Sent(p) /\ Sent(q)' = Sent(q)
         /\ LeftBelow(tasks'[p], G) = LeftBelow(tasks[p], G) /\ AllReads(tasks'[p]) = {}
<1>1. PICK T, U : T = tasks[p] /\ U = tasks'[p]
  OBVIOUS
<1>2. /\ TypeOK /\ Single /\ p \in Parties /\ q \in Parties /\ q # p /\ Stack(s, T) /\ Healthy(tasks[p]) /\ s = session
      /\ IsTasks(U) /\ AllFollow(s, U) /\ s \in Sessions /\ closed[p] = {}
  BY <1>1 DEF CalmScene, TasksInv, ChanInv, Stack
<1>3. PICK M : M = {} /\ EndStep(p, k, r, D, M, {})
  OBVIOUS
<1>4. Ceases(s, T, U, k, r, D, M)
  BY <1>1, <1>2, <1>3 DEF Ceases, EndStep
<1>5. LeftBelow(U, G) = LeftBelow(T, G)
  BY <1>4, EndLeft
<1>6. T[k].phase = "wait" => D # {} /\ D = KeysOf(T[k])
  BY <1>1
<1>7. Chain(s, U)
  BY <1>2, <1>4, <1>6, EndChain
<1>8. Healthy(tasks'[p]) /\ closed'[p] = {}
  BY <1>2, HealthyEnds
<1>9. Stack(s, U)
  BY <1>2, <1>7 DEF Stack
<1>10. k \in DOMAIN U /\ U[k].phase = "run"
  BY <1>4 DEF Ceases, Ending, Done
<1>11. AllReads(U) = {}
  BY <1>9, <1>10, WorkReads
<1>12. closed'[q] = {} /\ Sent(p)' = Sent(p) /\ Sent(q)' = Sent(q)
  BY <1>2 DEF EndStep, CalmScene
<1> QED
  BY <1>1, <1>5, <1>7, <1>8, <1>11, <1>12

\* A message is read, and it is the right one.
LEMMA CalmReads ==
  ASSUME NEW p, NEW q, NEW s, NEW G, CalmScene(p, q, s, G), NEW k \in DOMAIN tasks[p], NEW r, Reading(p, k, r)
  PROVE  seen'.misread = seen.misread /\ (r.ok => CalmAfter(p, q, s, G))
<1>1. PICK T, U, e, c : T = tasks[p] /\ U = tasks'[p] /\ e = Head(tasks[p][k].queue).path /\ c = DefaultId
  OBVIOUS
<1>2. /\ ShapeOK /\ BoxOK /\ p \in Parties /\ q \in Parties /\ q # p /\ q = Peer(p) /\ Stack(s, T) /\ Healthy(T)
      /\ G = AllTalks(s)
  BY <1>1 DEF CalmScene, TasksInv
<1>3. T[k].chan = c /\ k \in DOMAIN T /\ T[k].phase = "recv"
  BY <1>1, <1>2 DEF Healthy, Reading
<1>4. box[p][c] # <<>>
  <2>1. c \notin closed[q]
    BY DEF CalmScene
  <2> QED
    BY <1>1, <1>2, <1>3, <2>1 DEF Reading
<1>5. c \in DOMAIN box[p]
  BY <1>1, <1>2, <1>3 DEF BoxOK
<1>6. PICK m : m = Tail(box[p][c])
  OBVIOUS
<1>7. mux' = mux /\ box' = [box EXCEPT ![p] = [box[p] EXCEPT ![c] = m]]
  BY <1>1, <1>3, <1>4, <1>6 DEF Reading
<1>8. Inbox(p, c) = box[p][c] /\ Inbox(p, c)' = Tail(Inbox(p, c)) /\ Inbox(q, c)' = Inbox(q, c)
  <2>1. /\ Inbox(p, c)' = m /\ Inbox(p, c) = box[p][c]
        /\ \A x \in Parties : \A d : x # p \/ d # c => Inbox(x, d)' = Inbox(x, d)
    BY <1>2, <1>5, <1>7, BoxEffect
  <2> QED
    BY <1>2, <1>6, <2>1
<1>9. PICK S, I, R, J : S = Sent(p) /\ I = Inbox(p, c) /\ R = Sent(q) /\ J = Inbox(q, c)
  OBVIOUS
<1>10. TwoHalves(G, DefaultId, Whole(S, G, T, I), Whole(R, G, tasks[q], J))
  BY <1>1, <1>9 DEF CalmScene
<1>11. PICK v1 : v1 = [sent |-> S \cap G, left |-> LeftBelow(T, G), todo |-> {0}, reads |-> {},
                       opened |-> {DefaultId}, closed |-> {}, inbox |-> Tail(I)]
  OBVIOUS
<1>12. SeesWhole(v1, S, G, LeftBelow(T, G), {}, Tail(I))
  BY <1>11 DEF SeesWhole
<1>13. I # <<>>
  BY <1>4, <1>8, <1>9
<1>14. e = Head(T[k].queue).path
  BY <1>1
<1>15. Head(I) = e /\ TwoHalves(G, DefaultId, v1, Whole(R, G, tasks[q], J))
  BY <1>2, <1>3, <1>10, <1>12, <1>13, <1>14, WholeReads
<1>16. EndStep(p, k, r, {}, {}, {})
  BY DEF Reading
<1>17. seen'.misread = seen.misread
  <2>1. r.path = e
    BY <1>1, <1>16 DEF EndStep, Ending, Done
  <2>2. Head(box[p][c]) = r.path
    BY <1>8, <1>9, <1>15, <2>1
  <2> QED
    BY <1>1, <1>3, <1>4, <2>2 DEF Reading
<1>18. ASSUME r.ok PROVE CalmAfter(p, q, s, G)
  <2>1. PICK D : D = {} /\ EndStep(p, k, r, D, {}, {})
    BY <1>16
  <2>2. tasks[p][k].phase # "run" /\ tasks[p][k].phase # "wait"
    BY <1>1, <1>3
  <2>3. \A d \in D : d \in DOMAIN tasks[p] /\ tasks[p][d].queue = <<>>
    BY <2>1
  <2>4. /\ Chain(s, tasks'[p]) /\ Healthy(tasks'[p]) /\ closed'[p] = {} /\ closed'[q] = {}
        /\ Sent(p)' = Sent(p) /\ Sent(q)' = Sent(q)
        /\ LeftBelow(tasks'[p], G) = LeftBelow(tasks[p], G) /\ AllReads(tasks'[p]) = {}
    BY <1>18, <2>1, <2>2, <2>3, CalmEnds
  <2>5. v1 = Whole(S, G, U, Tail(I))
    BY <1>1, <1>11, <2>4 DEF Whole
  <2>6. TwoHalves(G, DefaultId, Whole(S, G, U, Tail(I)), Whole(R, G, tasks[q], J))
    BY <1>15, <2>5
  <2> QED
    BY <1>1, <1>8, <1>9, <2>4, <2>6 DEF CalmAfter
<1> QED
  BY <1>17, <1>18

\* Lanes are joined.
LEMMA CalmJoins ==
  ASSUME NEW p, NEW q, NEW s, NEW G, CalmScene(p, q, s, G), NEW k \in DOMAIN tasks[p], NEW r, NEW D, NEW M,
         Joining(p, k, r, D, M), r.ok
  PROVE  CalmAfter(p, q, s, G)
<1>1. PICK T, U, t : T = tasks[p] /\ U = tasks'[p] /\ t = tasks[p][k]
  OBVIOUS
<1>2. /\ Single /\ p \in Parties /\ q \in Parties /\ Stack(s, T) /\ Healthy(T) /\ s = session
  BY <1>1 DEF CalmScene
<1>3. /\ t.queue # <<>> /\ t.phase = "wait" /\ EndStep(p, k, r, D, M, {}) /\ Opens(p, {})
      /\ \A c \in D : c \in DOMAIN T /\ T[c].queue = <<>>
  BY <1>1 DEF Joining
<1>4. M = {} /\ D = KeysOf(t)
  BY <1>1, <1>2 DEF Joining, Healthy
<1>5. D # {}
  <2>1. PICK w : w = Head(t.queue).w
    OBVIOUS
  <2>2. Lanes(w) = LanesOf(s, w)
    BY <1>2, LanesPlanned
  <2>3. LanesOf(s, w) = 1
    BY <1>2 DEF LanesOf, Single
  <2>4. Append(Head(t.queue).path, 1) \in LaneKeys(Head(t.queue).path, 1)
    BY DEF LaneKeys
  <2> QED
    BY <1>4, <2>1, <2>2, <2>3, <2>4 DEF KeysOf
<1>6. /\ Chain(s, tasks'[p]) /\ Healthy(tasks'[p]) /\ closed'[p] = {} /\ closed'[q] = {}
      /\ Sent(p)' = Sent(p) /\ Sent(q)' = Sent(q)
      /\ LeftBelow(tasks'[p], G) = LeftBelow(tasks[p], G) /\ AllReads(tasks'[p]) = {}
  <2>1. EndStep(p, k, r, D, {}, {})
    BY <1>3, <1>4
  <2>2. tasks[p][k].phase # "run" /\ \A c \in D : c \in DOMAIN tasks[p] /\ tasks[p][c].queue = <<>>
    BY <1>1, <1>3
  <2>3. tasks[p][k].phase = "wait" => D # {} /\ D = KeysOf(tasks[p][k])
    BY <1>1, <1>4, <1>5
  <2> QED
    BY <2>1, <2>2, <2>3, CalmEnds
<1>7. AllReads(T) = {}
  <2>1. PICK c \in D : c \in DOMAIN T /\ T[c].queue = <<>>
    BY <1>3, <1>5
  <2>2. T[c].phase = "run"
    BY <1>2, <2>1 DEF Stack, IsTasks, PhaseFits
  <2> QED
    BY <1>2, <2>1, <2>2, WorkReads
<1>8. Whole(Sent(p), G, U, Inbox(p, DefaultId)) = Whole(Sent(p), G, T, Inbox(p, DefaultId))
  BY <1>1, <1>6, <1>7, WholeSame
<1>9. Inbox(p, DefaultId)' = Inbox(p, DefaultId) /\ Inbox(q, DefaultId)' = Inbox(q, DefaultId)
  BY <1>2, <1>3 DEF Opens
<1>10. TwoHalves(G, DefaultId, Whole(Sent(p), G, T, Inbox(p, DefaultId)), Whole(Sent(q), G, tasks[q], Inbox(q, DefaultId)))
  BY <1>1 DEF CalmScene
<1> QED
  BY <1>1, <1>6, <1>8, <1>9, <1>10 DEF CalmAfter

\* An operation is forked.
LEMMA CalmForks ==
  ASSUME NEW p, NEW q, NEW s, NEW G, CalmScene(p, q, s, G), NEW k \in DOMAIN tasks[p], Forking(p, k)
  PROVE  CalmAfter(p, q, s, G)
<1>1. PICK T, U : T = tasks[p] /\ U = tasks'[p]
  OBVIOUS
<1>2. /\ TypeOK /\ Single /\ p \in Parties /\ q \in Parties /\ Stack(s, T) /\ Healthy(T) /\ s = session /\ G = AllTalks(s)
      /\ IsTasks(U) /\ AllFollow(s, U) /\ s \in Sessions /\ k \in DOMAIN T
  BY <1>1 DEF CalmScene, TasksInv, ChanInv, Stack
<1>3. Spawned(T, U, k) /\ Opens(p, {}) /\ closed' = closed /\ seen' = seen
  BY <1>1, <1>2 DEF Forking
<1>4. PICK d, h, o : OneLane(s, T, U, k, d, h, o)
  BY <1>2, <1>3, SpawnedOne
<1>5. Chain(s, U)
  BY <1>4, ForkChain
<1>6. Stack(s, U)
  BY <1>2, <1>5 DEF Stack
<1>7. Healthy(U)
  BY <1>2, <1>3, HealthyForks
<1>8. LeftBelow(U, G) = LeftBelow(T, G)
  BY <1>2, <1>4, ForkLeft
<1>9. AllReads(T) = {}
  <2>1. T[k].phase = "run"
    BY <1>4 DEF OneLane
  <2> QED
    BY <1>2, <2>1, WorkReads
<1>10. AllReads(U) = {}
  <2>1. h \in DOMAIN U /\ U[h].phase = "run"
    BY <1>4 DEF OneLane
  <2> QED
    BY <1>6, <2>1, WorkReads
<1>11. Whole(Sent(p), G, U, Inbox(p, DefaultId)) = Whole(Sent(p), G, T, Inbox(p, DefaultId))
  BY <1>8, <1>9, <1>10, WholeSame
<1>12. /\ Inbox(p, DefaultId)' = Inbox(p, DefaultId) /\ Inbox(q, DefaultId)' = Inbox(q, DefaultId)
       /\ Sent(p)' = Sent(p) /\ Sent(q)' = Sent(q)
  BY <1>2, <1>3 DEF Opens, Sent
<1>13. closed'[p] = {} /\ closed'[q] = {}
  BY <1>3 DEF CalmScene
<1>14. TwoHalves(G, DefaultId, Whole(Sent(p), G, T, Inbox(p, DefaultId)), Whole(Sent(q), G, tasks[q], Inbox(q, DefaultId)))
  BY <1>1 DEF CalmScene
<1> QED
  BY <1>1, <1>5, <1>7, <1>11, <1>12, <1>13, <1>14 DEF CalmAfter

-----------------------------------------------------------------------------
(***************************************************************************)
(* The inductive invariant, and what it says of answers.                   *)
(***************************************************************************)
WholeOf(p) == Whole(Sent(p), AllTalks(session), tasks[p], Inbox(p, DefaultId))
Calm(p) == Chain(session, tasks[p]) /\ Healthy(tasks[p]) /\ closed[p] = {}
FitsOne(p) == TwoHalves(AllTalks(session), DefaultId, WholeOf(p), WholeOf(Peer(p)))

\* On a single channel: as long as nothing has failed, what the parties know
\* of the channel fits.
CalmInv ==
  Single => /\ \A p \in Parties : next[p] = Len(session.roots)
            /\ \A m \in seen.misread : m.late
            /\ ~seen.trouble => \A p \in Parties : Calm(p) /\ FitsOne(p)

\* A step of a party on a single channel: it reads what is right, and leaves
\* all well or something failed.
LEMMA CalmMove ==
  ASSUME NEW p, NEW q, NEW s, NEW G, CalmScene(p, q, s, G), next[p] = Len(session.roots), Moves(p)
  PROVE  seen'.misread = seen.misread /\ (seen'.trouble \/ CalmAfter(p, q, s, G))
<1>1. TypeOK /\ Single /\ p \in Parties /\ q = Peer(p) /\ Healthy(tasks[p]) /\ closed[q] = {}
  BY DEF CalmScene, TasksInv, ChanInv
<1>2. ~Adding(p)
  <2>1. next[p] \in Nat
    BY <1>1 DEF TypeOK
  <2> QED
    BY <2>1 DEF Adding
<1>3. PICK k \in DOMAIN tasks[p] : Working(p, k)
  BY <1>2 DEF Moves
<1>4. CASE Sending(p, k)
  <2>1. seen'.misread = seen.misread
    BY <1>4 DEF Sending
  <2> QED
    BY <1>4, <2>1, CalmSends
<1>5. CASE SendFails(p, k)
  BY <1>1, <1>5 DEF SendFails
<1>6. CASE \E r \in ResultSet : Reading(p, k, r)
  <2>1. PICK r \in ResultSet : Reading(p, k, r)
    BY <1>6
  <2>2. seen'.misread = seen.misread /\ (r.ok => CalmAfter(p, q, s, G))
    BY <2>1, CalmReads
  <2>3. ~r.ok => seen'.trouble
    BY <2>1 DEF Reading
  <2> QED
    BY <2>2, <2>3
<1>7. CASE Forking(p, k)
  <2>1. seen'.misread = seen.misread
    BY <1>7 DEF Forking
  <2> QED
    BY <1>7, <2>1, CalmForks
<1>8. CASE Dropping(p, k)
  BY <1>1, <1>8 DEF Dropping, Healthy
<1>9. CASE \E r \in ResultSet : \E D, M : Joining(p, k, r, D, M)
  <2>1. PICK r, D, M : Joining(p, k, r, D, M)
    BY <1>9
  <2>2. seen'.misread = seen.misread /\ (~r.ok => seen'.trouble)
    BY <2>1 DEF Joining
  <2>3. r.ok => CalmAfter(p, q, s, G)
    BY <2>1, CalmJoins
  <2> QED
    BY <2>2, <2>3
<1>10. CASE \E open : Refusing(p, k, open)
  BY <1>1, <1>10 DEF Refusing
<1> QED
  BY <1>3, <1>4, <1>5, <1>6, <1>7, <1>8, <1>9, <1>10 DEF Working

\* Once something has failed it has failed, and what is misread is late.
LEMMA TroubleStays ==
  ASSUME NEW p \in Parties, Moves(p), seen.trouble
  PROVE  seen'.trouble /\ \A m \in seen'.misread : m \in seen.misread \/ m.late
<1>1. CASE Adding(p)
  BY <1>1 DEF Adding
<1>2. CASE \E k \in DOMAIN tasks[p] : \E r \in ResultSet : Reading(p, k, r)
  <2>1. PICK k \in DOMAIN tasks[p], r \in ResultSet : Reading(p, k, r)
    BY <1>2
  <2>2. seen'.trouble
    BY <2>1 DEF Reading
  <2>3. PICK x : x = [path |-> r.path, late |-> seen.trouble]
    OBVIOUS
  <2>4. x.late
    BY <2>3
  <2>5. seen'.misread \subseteq seen.misread \cup {x}
    BY <2>1, <2>3 DEF Reading
  <2> QED
    BY <2>2, <2>4, <2>5
<1>3. CASE \E k \in DOMAIN tasks[p] : Working(p, k) /\ ~\E r \in ResultSet : Reading(p, k, r)
  BY <1>3 DEF Working, Sending, SendFails, Forking, Dropping, Joining, Refusing
<1> QED
  BY <1>1, <1>2, <1>3 DEF Moves

\* Every step keeps what is known of a single channel.
LEMMA CalmNext ==
  ASSUME TasksInv, TypeOK', FollowInv', CalmInv, [Next]_vars
  PROVE  CalmInv'
<1>1. CASE Next /\ Single
  <2>1. PICK p \in Parties : Moves(p)
    BY <1>1, NextMoves DEF TasksInv, ChanInv, FollowInv
  <2>2. PICK q, s, G : q = Peer(p) /\ s = session /\ G = AllTalks(s)
    OBVIOUS
  <2>3. TypeOK /\ q \in Parties /\ q # p /\ Peer(q) = p /\ \A o \in Parties : o = p \/ o = q
    BY <2>2, TwoParties DEF TasksInv, ChanInv
  <2>4. session' = session /\ Single'
    BY <1>1, <2>1 DEF Moves, Single
  <2>5. /\ \A o \in Parties : next[o] = Len(session.roots)
        /\ \A m \in seen.misread : m.late
    BY <1>1 DEF CalmInv
  <2>6. \A o \in Parties : next'[o] = Len(session'.roots)
    <3>1. ~Adding(p)
      <4>1. next[p] \in Nat
        BY <2>3 DEF TypeOK
      <4> QED
        BY <2>5, <4>1 DEF Adding
    <3>2. next' = next
      BY <2>1, <3>1 DEF Moves
    <3> QED
      BY <2>4, <2>5, <3>2
  <2>7. CASE seen.trouble
    <3>1. seen'.trouble /\ \A m \in seen'.misread : m \in seen.misread \/ m.late
      BY <2>1, <2>7, TroubleStays
    <3> QED
      BY <2>5, <2>6, <3>1 DEF CalmInv
  <2>8. CASE ~seen.trouble
    <3>1. Calm(p) /\ Calm(q) /\ FitsOne(p)
      BY <1>1, <2>3, <2>8 DEF CalmInv
    <3>2. /\ Stack(s, tasks[p]) /\ IsTasks(tasks'[p]) /\ AllFollow(s, tasks'[p])
      <4>1. IsTasks(tasks[p]) /\ AllFollow(s, tasks[p]) /\ s \in Sessions
        BY <2>2, <2>3 DEF TasksInv, FollowInv, Following, TypeOK
      <4>2. IsTasks(tasks'[p])
        <5>1. (\A o \in Parties : IsTasks(tasks[o]))'
          BY DEF TypeOK
        <5>2. IsTasks(tasks[p])'
          BY <5>1
        <5> QED
          BY <1>1, <2>4, <5>2 DEF IsTasks, PhaseFits
      <4>3. AllFollow(s, tasks'[p])
        <5>1. (\A o \in Parties : AllFollow(session, tasks[o]))'
          BY DEF FollowInv, Following
        <5>2. AllFollow(session, tasks[p])'
          BY <5>1
        <5> QED
          BY <2>2, <2>4, <5>2
      <4> QED
        BY <2>2, <3>1, <4>1, <4>2, <4>3 DEF Stack, Calm
    <3>3. CalmScene(p, q, s, G)
      <4>1. Healthy(tasks[p]) /\ closed[p] = {} /\ closed[q] = {}
        BY <3>1 DEF Calm
      <4>2. TwoHalves(G, DefaultId, Whole(Sent(p), G, tasks[p], Inbox(p, DefaultId)),
                                    Whole(Sent(q), G, tasks[q], Inbox(q, DefaultId)))
        BY <2>2, <3>1 DEF FitsOne, WholeOf
      <4> QED
        BY <1>1, <2>2, <2>3, <3>2, <4>1, <4>2 DEF CalmScene
    <3>4. seen'.misread = seen.misread /\ (seen'.trouble \/ CalmAfter(p, q, s, G))
      BY <2>1, <2>5, <3>3, CalmMove
    <3>5. ASSUME CalmAfter(p, q, s, G), NEW o \in Parties PROVE Calm(o)' /\ FitsOne(o)'
      <4>1. tasks'[q] = tasks[q]
        BY <2>1, <2>3, MoveFollows DEF TasksInv, FollowInv
      <4>2. Calm(p)'
        BY <2>2, <2>4, <3>5 DEF Calm, CalmAfter
      <4>3. Calm(q)'
        BY <2>2, <2>4, <3>1, <3>5, <4>1 DEF Calm, CalmAfter
      <4>4. PICK a, b : a = Whole(Sent(p)', G, tasks'[p], Inbox(p, DefaultId)') /\ b = Whole(Sent(q)', G, tasks[q], Inbox(q, DefaultId)')
        OBVIOUS
      <4>5. TwoHalves(G, DefaultId, a, b) /\ TwoHalves(G, DefaultId, b, a)
        <5>1. TwoHalves(G, DefaultId, a, b)
          BY <3>5, <4>4 DEF CalmAfter
        <5> QED
          BY <5>1 DEF TwoHalves
      <4>6. AllTalks(session)' = G
        BY <2>2, <2>4
      <4>7. WholeOf(p)' = a /\ WholeOf(q)' = b
        BY <4>1, <4>4, <4>6 DEF WholeOf
      <4>8. CASE o = p
        <5>1. WholeOf(Peer(o))' = b
          BY <2>2, <4>7, <4>8
        <5>2. WholeOf(o)' = a
          BY <4>7, <4>8
        <5> QED
          BY <4>2, <4>5, <4>6, <4>8, <5>1, <5>2 DEF FitsOne
      <4>9. CASE o = q
        <5>1. WholeOf(Peer(o))' = a
          BY <2>3, <4>7, <4>9
        <5>2. WholeOf(o)' = b
          BY <4>7, <4>9
        <5> QED
          BY <4>3, <4>5, <4>6, <4>9, <5>1, <5>2 DEF FitsOne
      <4> QED
        BY <2>3, <4>8, <4>9
    <3> QED
      BY <2>5, <2>6, <3>4, <3>5 DEF CalmInv
  <2> QED
    BY <2>7, <2>8
<1>2. CASE ~Single
  <2>1. session' = session
    <3>1. CASE Next
      <4>1. PICK p \in Parties : Moves(p)
        BY <3>1, NextMoves DEF TasksInv, ChanInv, FollowInv
      <4> QED
        BY <4>1 DEF Moves
    <3> QED
      BY <3>1 DEF vars
  <2> QED
    BY <1>2, <2>1 DEF CalmInv, Single
<1>3. CASE UNCHANGED vars
  <2>1. /\ session' = session /\ next' = next /\ seen' = seen /\ tasks' = tasks /\ closed' = closed /\ box' = box
    BY <1>3 DEF vars
  <2>2. \A o : Sent(o)' = Sent(o) /\ \A c : Inbox(o, c)' = Inbox(o, c)
    BY <2>1 DEF Sent, Inbox
  <2>3. \A o : WholeOf(o)' = WholeOf(o)
    BY <2>1, <2>2 DEF WholeOf
  <2>4. \A o : FitsOne(o)' = FitsOne(o)
    BY <2>1, <2>3 DEF FitsOne
  <2>5. \A o : Calm(o)' = Calm(o)
    BY <2>1 DEF Calm
  <2>6. Single' = Single
    BY <2>1 DEF Single
  <2> QED
    BY <2>1, <2>4, <2>5, <2>6 DEF CalmInv
<1> QED
  BY <1>1, <1>2, <1>3

\* Every step leaves the channel of every task with its boxes.
LEMMA BoxNext ==
  ASSUME TasksInv, CalmInv, [Next]_vars
  PROVE  BoxOK'
<1>1. TypeOK /\ ShapeOK /\ BoxOK /\ FollowInv
  BY DEF TasksInv, ChanInv
<1>2. CASE Next
  <2>1. PICK p \in Parties : Moves(p)
    BY <1>1, <1>2, NextMoves DEF FollowInv
  <2>2. Single => next[p] = Len(session.roots)
    BY <2>1 DEF CalmInv
  <2>3. PICK ids : Chans(p, ids)
    BY <1>1, <2>1, <2>2, MoveChans
  <2>4. \A q \in Parties \ {p} : tasks'[q] = tasks[q]
    BY <1>1, <2>1, MoveFollows DEF FollowInv
  <2>5. ASSUME NEW q \in Parties, NEW o \in Parties, NEW k \in DOMAIN tasks'[q]
        PROVE  tasks'[q][k].chan \in DOMAIN box'[o]
    <3>1. DOMAIN box'[o] = DOMAIN box[o] \cup ids
      BY <2>3 DEF Chans
    <3>2. CASE q = p
      <4>1. \/ tasks'[p][k].chan \in ids
            \/ \E j \in DOMAIN tasks[p] : tasks'[p][k].chan = tasks[p][j].chan
        BY <2>3, <2>5, <3>2 DEF Chans
      <4> QED
        BY <1>1, <2>1, <3>1, <3>2, <4>1 DEF BoxOK
    <3>3. CASE q # p
      BY <1>1, <2>4, <2>5, <3>1, <3>3 DEF BoxOK
    <3> QED
      BY <3>2, <3>3
  <2> QED
    BY <2>5 DEF BoxOK
<1>3. CASE UNCHANGED vars
  BY <1>1, <1>3 DEF BoxOK, vars
<1> QED
  BY <1>2, <1>3

\* Nothing has been sent, nothing waits: the halves fit.
LEMMA HalfFirst ==
  ASSUME NEW G, NEW c, NEW v, NEW w, v.sent = {}, v.reads = {}, v.inbox = <<>>, w.sent = {},
         v.todo # {} => G \subseteq v.left
  PROVE  Half(G, c, v, w)
<1>1. PICK B : B = <<>> /\ B \in Seq(Path) /\ Len(B) = 0
  <2>1. <<>> \in Seq(Path) /\ Len(<<>>) = 0
    OBVIOUS
  <2> QED
    BY <2>1
<1>2. InSync(B, {}, {})
  BY <1>1 DEF InSync
<1>3. InSync(v.inbox, w.sent, v.sent \ v.reads)
  <2>1. v.sent \ v.reads = {}
    OBVIOUS
  <2> QED
    BY <1>1, <1>2, <2>1
<1> QED
  BY <1>3 DEF Half, DownClosed

\* What is known at first.
LEMMA FirstFacts ==
  ASSUME Init
  PROVE  /\ TypeOK /\ ShapeOK /\ seen.misread = {} /\ \A p \in Parties : Sent(p) = {} /\ closed[p] = {}
         /\ \A p \in Parties : \A c : Inbox(p, c) = <<>>
<1>1. TypeOK /\ \A p \in Parties : Sent(p) = {}
  BY InitFacts
<1>2. /\ mux = [exists |-> {}, waiting |-> [p \in Parties |-> {}]] /\ closed = [p \in Parties |-> {}]
      /\ box = [p \in Parties |-> IF Single THEN One(DefaultId, <<>>) ELSE <<>>] /\ seen = SeenInit
  BY DEF Init
<1>3. \A p \in Parties : closed[p] = {}
  BY <1>2
<1>4. ShapeOK
  <2>1. closed = [p \in Parties |-> closed[p]]
    BY <1>2
  <2>2. mux.waiting = [p \in Parties |-> mux.waiting[p]]
    BY <1>2
  <2>3. box = [p \in Parties |-> box[p]]
    BY <1>2
  <2> QED
    BY <2>1, <2>2, <2>3 DEF ShapeOK
<1>5. seen.misread = {}
  BY <1>2 DEF SeenInit
<1>6. ASSUME NEW p \in Parties, NEW c PROVE Inbox(p, c) = <<>>
  <2>1. CASE Single
    <3>1. box[p] = One(DefaultId, <<>>)
      BY <1>2, <2>1
    <3> QED
      BY <3>1 DEF Inbox, One
  <2>2. CASE ~Single
    <3>1. box[p] = <<>>
      BY <1>2, <2>2
    <3> QED
      BY <3>1, NoTasks DEF Inbox
  <2> QED
    BY <2>1, <2>2
<1> QED
  BY <1>1, <1>3, <1>4, <1>5, <1>6

\* The one task of a single channel at first.
FirstTask(s, x, T, u) ==
  /\ s \in Sessions /\ x \in Lines(s) /\ x.key = <<1>> /\ x = RootLine(s, 1) /\ DOMAIN s.roots = {1}
  /\ DOMAIN T = {x.key} /\ T[x.key] = u /\ Begins(x, u) /\ u.chan = DefaultId

\* On a single channel each party begins with the one caller.
LEMMA FirstIs ==
  ASSUME Init, Single, NEW p \in Parties
  PROVE  \E u : FirstTask(session, RootLine(session, 1), tasks[p], u)
<1>1. PICK k, q, u : k = <<1>> /\ q = RootQueue(1) /\ u = NewTask(DefaultId, "root", q)
  OBVIOUS
<1>2. session \in Sessions /\ Len(session.roots) = 1 /\ session.roots \in Seq(Seq(Work))
  BY SessionsAssumption DEF Init, Single
<1>3. DOMAIN session.roots = {1}
  BY <1>2
<1>4. tasks[p] = One(k, u)
  BY <1>1 DEF Init
<1>5. DOMAIN tasks[p] = {k} /\ tasks[p][k] = u
  BY <1>4 DEF One
<1>6. u.chan = DefaultId /\ u.queue = q /\ u.out = <<>> /\ u.kind = "root" /\ u.phase = "run" /\ ~u.cancelled
  BY <1>1 DEF NewTask
<1>7. PICK x : x = RootLine(session, 1)
  OBVIOUS
<1>8. x.key = k /\ x.items = q /\ x.kind = "root"
  BY <1>1, <1>7 DEF RootLine, RootItems, RootQueue
<1>9. x \in Lines(session)
  BY <1>3, <1>7 DEF Lines
<1>10. Begins(x, u)
  BY <1>6, <1>8 DEF Begins
<1>11. FirstTask(session, x, tasks[p], u)
  BY <1>1, <1>2, <1>3, <1>5, <1>6, <1>7, <1>8, <1>9, <1>10 DEF FirstTask
<1> QED
  BY <1>7, <1>11

\* All is left, and is below what the task has to do.
LEMMA FirstLeft ==
  ASSUME NEW s, NEW x, NEW T, NEW u, FirstTask(s, x, T, u), NEW G, G = AllTalks(s)
  PROVE  G \subseteq LeftBelow(T, G) /\ AllReads(T) = {} /\ Chain(s, T) /\ Healthy(T)
<1>1. /\ s \in Sessions /\ x \in Lines(s) /\ x = RootLine(s, 1) /\ DOMAIN s.roots = {1}
      /\ DOMAIN T = {x.key} /\ T[x.key] = u /\ Begins(x, u)
  BY DEF FirstTask
<1>2. ASSUME NEW b \in G PROVE b \in LeftBelow(T, G)
  <2>1. PICK e \in Plan(s) : e.path = b
    BY <1>1, TalkPlanned
  <2>2. PICK r \in DOMAIN s.roots : \E i \in DOMAIN RootItems(s, r) : IsPrefix(RootItems(s, r)[i].path, b)
    BY <1>1, <2>1, PlanWithin DEF Within
  <2>3. r = 1
    BY <1>1, <2>2
  <2>4. x.items = RootItems(s, 1)
    BY <1>1 DEF RootLine
  <2>5. u.queue = x.items /\ u.phase = "run"
    BY <1>1 DEF Begins
  <2>6. PICK i \in DOMAIN u.queue : IsPrefix(u.queue[i].path, b)
    BY <2>2, <2>3, <2>4, <2>5
  <2>7. LeftAt(T, x.key, i, b)
    BY <1>1, <2>5, <2>6 DEF LeftAt
  <2> QED
    BY <2>7 DEF LeftBelow
<1>3. AllReads(T) = {}
  BY <1>1 DEF AllReads, ReadsIn, Begins
<1>4. Chain(s, T)
  BY <1>1 DEF Chain
<1>5. Healthy(T)
  <2>1. ~u.cancelled /\ u.out = <<>> /\ u.chan = DefaultId
    BY <1>1 DEF Begins, FirstTask
  <2>2. ~Failing(u)
    BY <2>1 DEF Failing, ToSet
  <2> QED
    BY <1>1, <2>1, <2>2 DEF Healthy
<1> QED
  BY <1>2, <1>3, <1>4, <1>5

\* The tasks at first.
LEMMA TasksInit == Init => TasksInv
<1> SUFFICES ASSUME Init PROVE TasksInv
  OBVIOUS
<1>1. TypeOK /\ ShapeOK
  BY FirstFacts
<1>2. CASE Single
  <2>1. ChanInv
    BY <1>1, <1>2 DEF ChanInv
  <2>2. BoxOK
    <3> SUFFICES ASSUME NEW p \in Parties, NEW o \in Parties, NEW k \in DOMAIN tasks[p]
                 PROVE  tasks[p][k].chan \in DOMAIN box[o]
      BY DEF BoxOK
    <3>1. PICK u : FirstTask(session, RootLine(session, 1), tasks[p], u)
      BY <1>2, FirstIs
    <3>2. tasks[p][k].chan = DefaultId
      BY <3>1 DEF FirstTask
    <3>3. box[o] = One(DefaultId, <<>>)
      BY <1>2 DEF Init
    <3> QED
      BY <3>2, <3>3 DEF One
  <2>3. ASSUME NEW p \in Parties PROVE Following(tasks[p])
    <3>1. PICK x, u : x = RootLine(session, 1) /\ FirstTask(session, x, tasks[p], u)
      BY <1>2, FirstIs
    <3>2. /\ session \in Sessions /\ x \in Lines(session) /\ DOMAIN tasks[p] = {x.key} /\ tasks[p][x.key] = u
          /\ Begins(x, u)
      BY <3>1 DEF FirstTask
    <3>3. Follows(x, u)
      BY <3>2, BeginsFollows
    <3>4. AllFollow(session, tasks[p])
      BY <3>2, <3>3 DEF AllFollow
    <3>5. LanesAt(tasks[p])
      BY <3>2 DEF LanesAt, Begins
    <3> QED
      BY <3>4, <3>5 DEF Following
  <2> QED
    BY <1>1, <2>1, <2>2, <2>3 DEF TasksInv, FollowInv
<1>3. CASE ~Single
  <2>1. \A p \in Parties : tasks[p] = <<>>
    BY <1>3, InitFacts
  <2>2. \A p \in Parties : DOMAIN tasks[p] = {}
    BY <2>1, NoTasks
  <2>3. ChanInv
    BY <1>1, <2>2 DEF ChanInv, AllLaid
  <2>4. BoxOK
    BY <2>2 DEF BoxOK
  <2>5. FollowInv
    BY <2>2 DEF FollowInv, Following, AllFollow, LanesAt
  <2> QED
    BY <1>1, <2>3, <2>4, <2>5 DEF TasksInv
<1> QED
  BY <1>2, <1>3

\* The lines of a session at first.
LEMMA MultiInit == Init => MultiInv
<1> SUFFICES ASSUME Init, ~Single PROVE MultiInv
  BY DEF MultiInv
<1>1. seen.misread = {} /\ \A p \in Parties : Sent(p) = {} /\ closed[p] = {} /\ \A c : Inbox(p, c) = <<>>
  BY FirstFacts
<1>2. \A p \in Parties : DOMAIN tasks[p] = {}
  BY InitFacts, NoTasks
<1>3. \A p \in Parties : OpenedFor(p)
  BY <1>1, <1>2 DEF OpenedFor
<1>4. ASSUME NEW p \in Parties, NEW x \in Lines(session) PROVE Fits(p, x)
  <2>1. PICK q : q = Peer(p) /\ q \in Parties
    BY TwoParties
  <2>2. PICK v, w : v = View(p, x) /\ w = View(q, x)
    OBVIOUS
  <2>3. ASSUME NEW o \in Parties, NEW y, y = View(o, x)
        PROVE  y.sent = {} /\ y.reads = {} /\ y.todo = {} /\ y.inbox = <<>>
    <3>1. Sees(y, Sent(o), tasks[o], Opened(o), closed[o], Inbox(o, x.chan), x)
      BY <2>3, ViewSees
    <3>2. ReadsIn(tasks[o], x.key) = {} /\ TodoIn(tasks[o], x.key) = {}
      BY <1>2 DEF ReadsIn, TodoIn
    <3> QED
      BY <1>1, <3>1, <3>2 DEF Sees
  <2>4. /\ v.sent = {} /\ v.reads = {} /\ v.todo = {} /\ v.inbox = <<>>
        /\ w.sent = {} /\ w.reads = {} /\ w.todo = {} /\ w.inbox = <<>>
    BY <2>1, <2>2, <2>3
  <2>5. Half(Talks(x), x.chan, v, w) /\ Half(Talks(x), x.chan, w, v)
    BY <2>4, HalfFirst
  <2> QED
    BY <2>1, <2>2, <2>5 DEF Fits, TwoHalves
<1> QED
  BY <1>1, <1>3, <1>4 DEF MultiInv

\* A single channel at first.
LEMMA CalmInit == Init => CalmInv
<1> SUFFICES ASSUME Init, Single PROVE CalmInv
  BY DEF CalmInv
<1>1. seen.misread = {} /\ \A p \in Parties : Sent(p) = {} /\ closed[p] = {} /\ \A c : Inbox(p, c) = <<>>
  BY FirstFacts
<1>2. \A p \in Parties : next[p] = Len(session.roots)
  BY InitFacts, SessionsAssumption DEF Init, Single
<1>3. PICK G : G = AllTalks(session)
  OBVIOUS
<1>4. ASSUME NEW p \in Parties
      PROVE  G \subseteq LeftBelow(tasks[p], G) /\ AllReads(tasks[p]) = {} /\ Chain(session, tasks[p]) /\ Healthy(tasks[p])
  <2>1. PICK x, u : FirstTask(session, x, tasks[p], u)
    BY FirstIs
  <2> QED
    BY <1>3, <2>1, FirstLeft
<1>5. \A p \in Parties : Calm(p)
  BY <1>1, <1>4 DEF Calm
<1>6. ASSUME NEW p \in Parties PROVE FitsOne(p)
  <2>1. PICK q : q = Peer(p) /\ q \in Parties
    BY TwoParties
  <2>2. PICK v, w : v = WholeOf(p) /\ w = WholeOf(q)
    OBVIOUS
  <2>3. ASSUME NEW o \in Parties, NEW y, y = WholeOf(o)
        PROVE  y.sent = {} /\ y.reads = {} /\ G \subseteq y.left /\ y.inbox = <<>>
    <3>1. y = Whole(Sent(o), G, tasks[o], Inbox(o, DefaultId))
      BY <1>3, <2>3 DEF WholeOf
    <3>2. SeesWhole(y, Sent(o), G, LeftBelow(tasks[o], G), AllReads(tasks[o]), Inbox(o, DefaultId))
      BY <3>1, WholeSees
    <3> QED
      BY <1>1, <1>4, <3>2 DEF SeesWhole
  <2>4. /\ v.sent = {} /\ v.reads = {} /\ G \subseteq v.left /\ v.inbox = <<>>
        /\ w.sent = {} /\ w.reads = {} /\ G \subseteq w.left /\ w.inbox = <<>>
    BY <2>1, <2>2, <2>3
  <2>5. Half(G, DefaultId, v, w) /\ Half(G, DefaultId, w, v)
    BY <2>4, HalfFirst
  <2> QED
    BY <1>3, <2>1, <2>2, <2>5 DEF FitsOne, TwoHalves
<1> QED
  BY <1>1, <1>2, <1>5, <1>6 DEF CalmInv

\* Always, work reads what its counterpart sent and the results of an
\* operation come back in input order: on a session whatever has failed and
\* was refused, dropped or cancelled, because no task gets a channel that was
\* not opened for its line of work (Context::child, Session::new_context); on
\* a single channel as long as nothing has failed, because all work of a
\* party is done one after the other.
THEOREM AnswersMatch == Spec => []RightAnswers
<1> DEFINE Inv == TasksInv /\ MultiInv /\ CalmInv
<1>1. Init => Inv
  BY TasksInit, MultiInit, CalmInit
<1>2. Inv /\ [Next]_vars => Inv'
  <2> SUFFICES ASSUME TasksInv, MultiInv, CalmInv, [Next]_vars PROVE TasksInv' /\ MultiInv' /\ CalmInv'
    OBVIOUS
  <2>1. ChanInv /\ ShapeOK /\ BoxOK /\ FollowInv /\ TypeOK
    BY DEF TasksInv, ChanInv
  <2>2. ChanInv'
    BY <2>1, ChanNext
  <2>3. TypeOK'
    BY <2>2 DEF ChanInv
  <2>4. ShapeOK'
    BY <2>1, ShapeNext
  <2>5. FollowInv'
    BY <2>1, FollowNext
  <2>6. BoxOK'
    BY BoxNext
  <2>7. MultiInv'
    BY MultiNext
  <2>8. CalmInv'
    BY <2>3, <2>5, CalmNext
  <2> QED
    BY <2>2, <2>4, <2>5, <2>6, <2>7, <2>8 DEF TasksInv
<1>3. Inv => RightAnswers
  <2> SUFFICES ASSUME MultiInv, CalmInv PROVE RightAnswers
    OBVIOUS
  <2>1. CASE Single
    BY <2>1 DEF CalmInv, RightAnswers
  <2>2. CASE ~Single
    BY <2>2 DEF MultiInv, RightAnswers
  <2> QED
    BY <2>1, <2>2
<1> QED
  BY <1>1, <1>2, <1>3, PTL DEF Spec
=============================================================================
