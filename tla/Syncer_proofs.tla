--------------------------- MODULE Syncer_proofs ----------------------------
(***************************************************************************)
(* The synchronized mutexes implement SameOrder, for any number of logical *)
(* threads, acquisitions and tickets, and whatever fails.                  *)
(*                                                                         *)
(* The order is the order of the tickets.  A ticket belongs to the thread  *)
(* that took it under the tick lock, which is kept until the thread has    *)
(* been served or has failed: so the leader serves in the order of the     *)
(* tickets and passes over those that failed.  Everything in flight, and   *)
(* everything the follower holds, is a ticket of its thread that the       *)
(* follower has not used; so a thread whose turn it is has the ticket the  *)
(* follower is at, although it can only compare values that wrap around.   *)
(***************************************************************************)
EXTENDS Syncer, SequenceTheorems, TLAPS

Labels == {"idle", "join", "holding", "failed", "poll", "waiting", "exec"}

TypeTick ==
    /\ issued \in Nat /\ tickLock \in Threads \cup {"none"}
    /\ sent \in [Threads -> BOOLEAN] /\ got \in [Threads -> BOOLEAN]

TypeQueue ==
    queue \in [used : Nat, lock : Threads \cup {"none"},
               waiting : SUBSET [tick : Nat, thread : Threads]]

TypeChan == chan \in [Threads -> Seq(Nat)]

TypePlace ==
    /\ pc \in [Parties -> [Threads -> Labels]] /\ pos \in [Parties -> [Threads -> Nat]]
    /\ failures \in Nat

TypeLog ==
    /\ order \in Seq(Threads)
    /\ log \in [Parties -> Seq([thread : Threads, pos : Nat])]

TypeOK == TypeTick /\ TypeQueue /\ TypeChan /\ TypePlace /\ TypeLog

(* The tickets of thread t. *)
Owned(t) == { n \in Nat : n < issued /\ order[n + 1] = t }

(* The tickets that have been sent, or never will be, are those below Sent.*)
Sent == IF tickLock # "none" /\ ~sent[tickLock] THEN issued - 1 ELSE issued

(* The tickets the leader has served or passed over are those below Passed.*)
Passed == IF tickLock # "none" /\ ~got[tickLock] THEN issued - 1 ELSE issued

(* The tick lock is held from taking a ticket to being served, or to       *)
(* failing: the leader serves its threads in the order of their tickets,   *)
(* and a ticket it passes over is one that failed.                         *)
LeaderInv ==
    /\ Len(order) = issued
    /\ \A t \in Threads : pc["leader"][t] = "join" <=> tickLock = t
    /\ tickLock # "none" => /\ issued > 0 /\ order[issued] = tickLock
                            /\ pos["leader"][tickLock] = issued - 1
    /\ log["leader"] # << >> => Last(log["leader"]).pos < Passed
    /\ Len(log["leader"]) <= Passed /\ Passed <= Len(log["leader"]) + failures
    /\ \A t \in Threads : t # tickLock => ~sent[t] /\ ~got[t]

(* The tickets of thread t that the follower can still use. *)
Usable(t) == { n \in Owned(t) : queue.used <= n /\ n < Sent }

(* What is in flight to thread t is usable, and in order. *)
ChannelInv ==
    \A t \in Threads :
        /\ \A k \in 1 .. Len(chan[t]) : chan[t][k] \in Usable(t)
        /\ \A j, k \in 1 .. Len(chan[t]) : j < k => chan[t][j] < chan[t][k]

(* The ticket a thread of the follower holds is usable, and older than     *)
(* what is in flight to it; the thread that runs has its turn.             *)
HeldInv ==
    \A t \in Threads :
        /\ pc["follower"][t] \in {"poll", "waiting", "exec"} =>
              /\ pos["follower"][t] \in Usable(t)
              /\ \A k \in 1 .. Len(chan[t]) : pos["follower"][t] < chan[t][k]
        /\ pc["follower"][t] = "exec" <=> queue.lock = t
        /\ pc["follower"][t] = "exec" => pos["follower"][t] = queue.used

(* The follower has used the first tickets, each for its own thread. *)
UsedInv ==
    /\ Len(log["follower"]) = queue.used
    /\ queue.used <= Sent
    /\ issued <= queue.used + MaxPending
    /\ \A i \in 1 .. queue.used : log["follower"][i] = [thread |-> order[i], pos |-> i - 1]

OrderInv == LeaderInv /\ ChannelInv /\ HeldInv /\ UsedInv

Inv == TypeOK /\ OrderInv
-----------------------------------------------------------------------------
(* Values that wrap around tell tickets apart that are close together.     *)
LEMMA TicketsDiffer ==
    ASSUME NEW m \in Nat, NEW n \in Nat, m <= n, n < m + Modulus, Ticket(m) = Ticket(n)
    PROVE  m = n
<1>1. Modulus \in Nat /\ Modulus > 0 BY SyncerAssumption
<1> DEFINE a == m \div Modulus
           b == n \div Modulus
<1>2. m = Modulus * a + (m % Modulus) BY <1>1
<1>3. n = Modulus * b + (n % Modulus) BY <1>1
<1>4. a \in Int /\ b \in Int BY <1>1
<1>5. m % Modulus \in Nat /\ n % Modulus = m % Modulus BY <1>1 DEF Ticket
<1> HIDE DEF a, b
<1>6. n - m = Modulus * (b - a) BY <1>1, <1>2, <1>3, <1>4, <1>5
<1>7. 0 <= Modulus * (b - a) /\ Modulus * (b - a) < Modulus BY <1>1, <1>6
<1>8. b - a = 0 BY <1>7, <1>4, <1>1
<1> QED BY <1>6, <1>8, <1>1, <1>4

(* The value of a ticket is a number. *)
LEMMA TicketType == \A n \in Nat : Ticket(n) \in Nat
<1>1. Modulus \in Nat /\ Modulus > 0 BY SyncerAssumption
<1> QED BY <1>1 DEF Ticket

(* The variables have their types when the mutexes are made. *)
LEMMA TypeInit == Init => TypeOK
<1> USE SyncerAssumption DEF Init, Both, Parties
<1>1. Init => TypeTick BY DEF TypeTick
<1>2. Init => TypeQueue BY DEF TypeQueue
<1>3. Init => TypeChan BY DEF TypeChan
<1>4. Init => TypePlace BY DEF TypePlace, Labels
<1>5. Init => TypeLog BY DEF TypeLog
<1> QED BY <1>1, <1>2, <1>3, <1>4, <1>5 DEF TypeOK

(* Every step of a thread of either party keeps the variables' types. *)
LEMMA TypeStep == TypeOK /\ [Next]_vars => TypeOK'
<1> SUFFICES ASSUME TypeOK, [Next]_vars PROVE TypeOK' OBVIOUS
<1> USE SyncerAssumption DEF Parties, Labels, At, Goto
<1>1. ASSUME NEW t \in Threads, LeaderTicket(t) PROVE TypeOK'
  <2>1. TypeTick' BY <1>1 DEF LeaderTicket, TypeOK, TypeTick
  <2>2. TypePlace' BY <1>1 DEF LeaderTicket, TypeOK, TypePlace, TypeTick
  <2>3. TypeQueue' /\ TypeChan'
        BY <1>1 DEF LeaderTicket, TypeOK, TypeQueue, TypeChan
  <2>4. TypeLog' BY <1>1 DEF LeaderTicket, TypeOK, TypeLog
  <2> QED BY <2>1, <2>2, <2>3, <2>4 DEF TypeOK
<1>2. ASSUME NEW t \in Threads, LeaderSend(t) PROVE TypeOK'
  <2>1. TypeTick' BY <1>2 DEF LeaderSend, TypeOK, TypeTick
  <2>2. TypeChan' BY <1>2 DEF LeaderSend, TypeOK, TypeChan, TypePlace
  <2>3. TypeQueue' /\ TypePlace' /\ TypeLog'
        BY <1>2 DEF LeaderSend, TypeOK, TypeQueue, TypePlace, TypeLog
  <2> QED BY <2>1, <2>2, <2>3 DEF TypeOK
<1>3. ASSUME NEW t \in Threads, LeaderAcquire(t) PROVE TypeOK'
  <2>1. TypeTick' BY <1>3 DEF LeaderAcquire, Acquire, TypeOK, TypeTick
  <2>2. TypeLog'
    <3> DEFINE R == [thread : Threads, pos : Nat]
               r == [thread |-> t, pos |-> pos["leader"][t]]
    <3>1. r \in R BY DEF TypeOK, TypePlace
    <3>2. log \in [Parties -> Seq(R)] BY DEF TypeOK, TypeLog
    <3>3. log' = [log EXCEPT !["leader"] = Append(@, r)] /\ order' = order
          BY <1>3 DEF LeaderAcquire, Acquire
    <3> HIDE DEF R, r
    <3>4. Append(log["leader"], r) \in Seq(R) BY <3>1, <3>2
    <3>5. log' \in [Parties -> Seq(R)] BY <3>2, <3>3, <3>4
    <3> QED BY <3>3, <3>5 DEF TypeOK, TypeLog, R
  <2>3. TypeQueue' /\ TypeChan' /\ TypePlace'
        BY <1>3 DEF LeaderAcquire, Acquire, TypeOK, TypeQueue, TypeChan, TypePlace
  <2> QED BY <2>1, <2>2, <2>3 DEF TypeOK
<1>4. ASSUME NEW t \in Threads, LeaderReturn(t) PROVE TypeOK'
  <2>1. TypeTick' BY <1>4 DEF LeaderReturn, Reset, TypeOK, TypeTick
  <2>2. TypePlace' BY <1>4 DEF LeaderReturn, Reset, TypeOK, TypePlace
  <2>3. TypeQueue' /\ TypeChan' /\ TypeLog'
        BY <1>4 DEF LeaderReturn, Reset, TypeOK, TypeQueue, TypeChan, TypeLog
  <2> QED BY <2>1, <2>2, <2>3 DEF TypeOK
<1>5. ASSUME NEW t \in Threads, LeaderFail(t) PROVE TypeOK'
  <2>1. TypeTick' BY <1>5 DEF LeaderFail, Reset, TypeOK, TypeTick
  <2>2. TypeChan'
    <3>1. pos["leader"][t] \in Nat BY DEF TypeOK, TypePlace
    <3>2. chan' = chan \/ chan' = [chan EXCEPT ![t] = Append(@, pos["leader"][t])]
          BY <1>5 DEF LeaderFail
    <3>3. chan \in [Threads -> Seq(Nat)] /\ Append(chan[t], pos["leader"][t]) \in Seq(Nat)
          BY <3>1 DEF TypeOK, TypeChan
    <3> QED BY <3>2, <3>3 DEF TypeChan
  <2>3. TypePlace' BY <1>5 DEF LeaderFail, Reset, TypeOK, TypePlace
  <2>4. TypeQueue' /\ TypeLog'
        BY <1>5 DEF LeaderFail, Reset, TypeOK, TypeQueue, TypeLog
  <2> QED BY <2>1, <2>2, <2>3, <2>4 DEF TypeOK
<1>6. ASSUME NEW t \in Threads, FollowerReceive(t) PROVE TypeOK'
  <2>1. TypeChan' BY <1>6 DEF FollowerReceive, leaderVars, TypeOK, TypeChan
  <2>2. TypePlace' BY <1>6 DEF FollowerReceive, leaderVars, TypeOK, TypePlace, TypeChan
  <2>3. TypeTick' /\ TypeQueue' /\ TypeLog'
        BY <1>6 DEF FollowerReceive, leaderVars, TypeOK, TypeTick, TypeQueue, TypeLog
  <2> QED BY <2>1, <2>2, <2>3 DEF TypeOK
<1>7. ASSUME NEW t \in Threads, FollowerPollPending(t) PROVE TypeOK'
  <2>1. TypeQueue'
    <3>1. Ticket(pos["follower"][t]) \in Nat BY TicketType DEF TypeOK, TypePlace
    <3> QED BY <1>7, <3>1 DEF FollowerPollPending, leaderVars, TypeOK, TypeQueue
  <2>2. TypePlace' BY <1>7 DEF FollowerPollPending, leaderVars, TypeOK, TypePlace
  <2>3. TypeTick' /\ TypeChan' /\ TypeLog'
        BY <1>7 DEF FollowerPollPending, leaderVars, TypeOK, TypeTick, TypeChan, TypeLog
  <2> QED BY <2>1, <2>2, <2>3 DEF TypeOK
<1>8. ASSUME NEW t \in Threads, FollowerPollBlock(t) PROVE TypeOK'
  <2>1. TypeQueue' BY <1>8 DEF FollowerPollBlock, leaderVars, TypeOK, TypeQueue
  <2>2. TypePlace' BY <1>8 DEF FollowerPollBlock, leaderVars, TypeOK, TypePlace
  <2>3. TypeTick' /\ TypeChan' /\ TypeLog'
        BY <1>8 DEF FollowerPollBlock, leaderVars, TypeOK, TypeTick, TypeChan, TypeLog
  <2> QED BY <2>1, <2>2, <2>3 DEF TypeOK
<1>9. ASSUME NEW t \in Threads, FollowerAcquire(t) PROVE TypeOK'
  <2>1. TypeQueue' BY <1>9 DEF FollowerAcquire, Acquire, leaderVars, TypeOK, TypeQueue
  <2>2. TypePlace' BY <1>9 DEF FollowerAcquire, Acquire, leaderVars, TypeOK, TypePlace
  <2>3. TypeLog'
    <3> DEFINE R == [thread : Threads, pos : Nat]
               r == [thread |-> t, pos |-> pos["follower"][t]]
    <3>1. r \in R BY DEF TypeOK, TypePlace
    <3>2. log \in [Parties -> Seq(R)] BY DEF TypeOK, TypeLog
    <3>3. log' = [log EXCEPT !["follower"] = Append(@, r)] /\ order' = order
          BY <1>9 DEF FollowerAcquire, Acquire, leaderVars
    <3> HIDE DEF R, r
    <3>4. Append(log["follower"], r) \in Seq(R) BY <3>1, <3>2
    <3>5. log' \in [Parties -> Seq(R)] BY <3>2, <3>3, <3>4
    <3> QED BY <3>3, <3>5 DEF TypeOK, TypeLog, R
  <2>4. TypeTick' /\ TypeChan'
        BY <1>9 DEF FollowerAcquire, Acquire, leaderVars, TypeOK, TypeTick, TypeChan
  <2> QED BY <2>1, <2>2, <2>3, <2>4 DEF TypeOK
<1>10. ASSUME NEW t \in Threads, FollowerRepoll(t) PROVE TypeOK'
  <2>1. TypePlace' BY <1>10 DEF FollowerRepoll, leaderVars, TypeOK, TypePlace
  <2>2. TypeTick' /\ TypeQueue' /\ TypeChan' /\ TypeLog'
        BY <1>10 DEF FollowerRepoll, leaderVars, TypeOK, TypeTick, TypeQueue, TypeChan, TypeLog
  <2> QED BY <2>1, <2>2 DEF TypeOK
<1>11. ASSUME NEW t \in Threads, FollowerFail(t) PROVE TypeOK'
  <2>1. TypePlace' BY <1>11 DEF FollowerFail, leaderVars, TypeOK, TypePlace
  <2>2. TypeTick' /\ TypeQueue' /\ TypeChan' /\ TypeLog'
        BY <1>11 DEF FollowerFail, leaderVars, TypeOK, TypeTick, TypeQueue, TypeChan, TypeLog
  <2> QED BY <2>1, <2>2 DEF TypeOK
<1>12. ASSUME NEW p \in Parties, NEW t \in Threads, Release(p, t) PROVE TypeOK'
  <2>1. TypePlace' BY <1>12 DEF Release, leaderVars, TypeOK, TypePlace
  <2>2. TypeTick' /\ TypeQueue' /\ TypeChan' /\ TypeLog'
        BY <1>12 DEF Release, leaderVars, TypeOK, TypeTick, TypeQueue, TypeChan, TypeLog
  <2> QED BY <2>1, <2>2 DEF TypeOK
<1>13. CASE UNCHANGED vars
  BY <1>13 DEF vars, TypeOK, TypeTick, TypeQueue, TypeChan, TypePlace, TypeLog
<1> QED BY <1>1, <1>2, <1>3, <1>4, <1>5, <1>6, <1>7, <1>8, <1>9, <1>10, <1>11, <1>12, <1>13
        DEF Next, Leader, Follower
-----------------------------------------------------------------------------
(* What a step may do to the tickets: those sent stay sent, and a ticket   *)
(* keeps its owner.                                                        *)
Kept ==
    /\ Sent <= Sent'
    /\ \A u \in Threads : Owned(u) \subseteq Owned(u)'

(* A ticket is sent at most once it is issued, and all but the last are.   *)
LEMMA SentBounds == ASSUME TypeOK, LeaderInv PROVE Sent \in Nat /\ Sent <= issued
<1>1. issued \in Nat /\ (tickLock # "none" => issued > 0)
      BY DEF TypeOK, TypeTick, LeaderInv
<1> QED BY <1>1 DEF Sent

(* The same after a step. *)
LEMMA SentBoundsNext == ASSUME TypeOK', LeaderInv' PROVE Sent' \in Nat /\ Sent' <= issued'
<1>1. issued' \in Nat /\ (tickLock' # "none" => issued' > 0)
      BY DEF TypeOK, TypeTick, LeaderInv
<1>2. Sent' = issued' \/ (tickLock' # "none" /\ Sent' = issued' - 1) BY DEF Sent
<1> QED BY <1>1, <1>2

(* A ticket has one owner. *)
LEMMA OneOwner ==
    ASSUME NEW t \in Threads, NEW u \in Threads, NEW n \in Nat,
           n \in Owned(t), n \in Owned(u)
    PROVE  t = u
BY DEF Owned

(* Nor does a new ticket change what the earlier ones are. *)
LEMMA OwnedKept ==
    ASSUME TypeOK, LeaderInv, NEW t \in Threads,
           \/ issued' = issued /\ order' = order
           \/ issued' = issued + 1 /\ order' = Append(order, t)
    PROVE  \A u \in Threads : Owned(u) \subseteq Owned(u)'
<1>1. issued \in Nat /\ order \in Seq(Threads) /\ Len(order) = issued
      BY DEF TypeOK, TypeTick, TypeLog, LeaderInv
<1>2. issued <= issued' /\ \A i \in 1 .. issued : order'[i] = order[i] BY <1>1
<1>3. \A n \in Nat : n < issued => n + 1 \in 1 .. issued BY <1>1
<1> QED BY <1>1, <1>2, <1>3 DEF Owned

(* At the beginning no ticket is out. *)
LEMMA OrderInit == Init => OrderInv
<1> SUFFICES ASSUME Init PROVE OrderInv OBVIOUS
<1> USE SyncerAssumption DEF Init, Both, Parties
<1>1. LeaderInv BY DEF LeaderInv, Passed
<1>2. Sent = 0 BY DEF Sent
<1>3. ChannelInv BY DEF ChannelInv
<1>4. HeldInv BY DEF HeldInv
<1>5. UsedInv BY <1>2 DEF UsedInv
<1> QED BY <1>1, <1>3, <1>4, <1>5 DEF OrderInv

(* The leader's steps keep its order, and take no ticket from its owner.   *)
LEMMA LeaderStep ==
    ASSUME TypeOK, TypeOK', LeaderInv, NEW t \in Threads,
           Leader(t) \/ LeaderFail(t) \/ Release("leader", t)
    PROVE  LeaderInv' /\ Kept
<1> USE SyncerAssumption DEF Parties, At, Goto
<1>0. t # "none" OBVIOUS
<1>a. issued \in Nat /\ failures \in Nat /\ order \in Seq(Threads)
      BY DEF TypeOK, TypeTick, TypePlace, TypeLog
<1>b. tickLock # "none" => tickLock \in Threads BY DEF TypeOK, TypeTick
<1>c. Len(log["leader"]) \in Nat BY DEF TypeOK, TypeLog
<1>d. log["leader"] # << >> => Last(log["leader"]).pos \in Nat
  <2> DEFINE R == [thread : Threads, pos : Nat]
  <2>1. log["leader"] \in Seq(R) BY DEF TypeOK, TypeLog
  <2>2. \A x \in R : x.pos \in Nat OBVIOUS
  <2> HIDE DEF R
  <2> QED BY <2>1, <2>2 DEF Last
<1>1. CASE LeaderTicket(t)
  <2>1. \A u \in Threads : pc["leader"][u] # "join" /\ ~got[u]
        BY <1>1 DEF LeaderTicket, LeaderInv
  <2>2. /\ tickLock' = t /\ issued' = issued + 1 /\ order' = Append(order, t)
        /\ pos'["leader"][t] = issued /\ log' = log /\ got' = got /\ failures' = failures
        /\ tickLock = "none"
        BY <1>1 DEF LeaderTicket, TypeOK, TypePlace
  <2>3. Len(order') = issued' /\ order'[issued'] = t BY <2>2, <1>a DEF LeaderInv
  <2>4. Passed = issued /\ Passed' = issued BY <2>1, <2>2, <1>0, <1>a DEF Passed
  <2>5. \A u \in Threads : pc'["leader"][u] = "join" <=> tickLock' = u
        BY <1>1, <2>1, <2>2 DEF LeaderTicket, TypeOK, TypePlace
  <2>6. \A u \in Threads : u # tickLock' => ~sent'[u] /\ ~got'[u]
        BY <1>1, <1>0 DEF LeaderTicket, LeaderInv
  <2>7. LeaderInv' BY <2>2, <2>3, <2>4, <2>5, <2>6, <1>a DEF LeaderInv
  <2>8. Sent <= Sent' BY <1>1, <1>0, <1>a DEF LeaderTicket, LeaderInv, Sent
  <2>9. \A u \in Threads : Owned(u) \subseteq Owned(u)' BY <2>2, OwnedKept
  <2> QED BY <2>7, <2>8, <2>9 DEF Kept
<1>2. CASE LeaderSend(t)
  <2>1. tickLock = t BY <1>2 DEF LeaderSend, LeaderInv
  <2>2. /\ UNCHANGED << issued, order, tickLock, pc, pos, log, got, failures >>
        BY <1>2 DEF LeaderSend
  <2>3. Passed' = Passed BY <2>2 DEF Passed
  <2>4. \A u \in Threads : u # tickLock' => ~sent'[u] /\ ~got'[u]
        BY <1>2, <2>1, <2>2 DEF LeaderSend, LeaderInv, TypeOK, TypeTick
  <2>5. LeaderInv' BY <2>2, <2>3, <2>4 DEF LeaderInv
  <2>6. Sent <= Sent' BY <1>2, <1>0, <1>a, <2>1 DEF LeaderSend, Sent, TypeOK, TypeTick
  <2>7. \A u \in Threads : Owned(u) \subseteq Owned(u)' BY <2>2, OwnedKept
  <2> QED BY <2>5, <2>6, <2>7 DEF Kept
<1>3. CASE LeaderAcquire(t)
  <2> DEFINE R == [thread : Threads, pos : Nat]
             l == log["leader"]
             r == [thread |-> t, pos |-> pos["leader"][t]]
  <2>1. tickLock = t /\ ~got[t] /\ issued > 0 /\ r.pos = issued - 1
        BY <1>3, <1>0 DEF LeaderAcquire, LeaderInv
  <2>2. l \in Seq(R) /\ r \in R BY DEF TypeOK, TypeLog, TypePlace
  <2>3. log'["leader"] = Append(l, r) BY <1>3 DEF LeaderAcquire, Acquire, TypeOK, TypeLog
  <2>4. UNCHANGED << issued, order, tickLock, pc, pos, sent, failures >>
        BY <1>3 DEF LeaderAcquire
  <2>5. got'[t] /\ \A u \in Threads : u # t => got'[u] = got[u]
        BY <1>3 DEF LeaderAcquire, TypeOK, TypeTick
  <2> HIDE DEF R, r
  <2>6. Len(log'["leader"]) = Len(l) + 1 /\ Last(log'["leader"]) = r
        BY <2>2, <2>3 DEF Last
  <2>7. Passed = issued - 1 /\ Passed' = issued
        BY <2>1, <2>4, <2>5, <1>0 DEF Passed
  <2>8. LeaderInv'
    <3>1. Last(log'["leader"]).pos < Passed' BY <2>1, <2>6, <2>7, <1>a
    <3>2. /\ Len(log'["leader"]) <= Passed'
          /\ Passed' <= Len(log'["leader"]) + failures'
          BY <2>4, <2>6, <2>7, <1>a, <1>c DEF LeaderInv
    <3>3. \A u \in Threads : u # tickLock' => ~sent'[u] /\ ~got'[u]
          BY <2>1, <2>4, <2>5 DEF LeaderInv
    <3> QED BY <2>4, <3>1, <3>2, <3>3 DEF LeaderInv
  <2>9. Sent <= Sent' BY <2>4, <1>a DEF Sent
  <2>10. \A u \in Threads : Owned(u) \subseteq Owned(u)' BY <2>4, OwnedKept
  <2> QED BY <2>8, <2>9, <2>10 DEF Kept
<1>4. CASE LeaderReturn(t)
  <2>1. tickLock = t /\ got[t] /\ sent[t] BY <1>4, <1>0 DEF LeaderReturn, LeaderInv
  <2>2. /\ UNCHANGED << issued, order, pos, log, failures >> /\ tickLock' = "none"
        BY <1>4, <2>1 DEF LeaderReturn, Reset
  <2>3. Passed = issued /\ Passed' = issued BY <2>1, <2>2 DEF Passed
  <2>4. \A u \in Threads : pc'["leader"][u] # "join" /\ ~sent'[u] /\ ~got'[u]
        BY <1>4, <2>1 DEF LeaderReturn, Reset, LeaderInv, TypeOK, TypeTick, TypePlace
  <2>5. LeaderInv' BY <2>2, <2>3, <2>4, <1>0 DEF LeaderInv
  <2>6. Sent <= Sent' BY <2>1, <2>2, <1>a DEF Sent
  <2>7. \A u \in Threads : Owned(u) \subseteq Owned(u)' BY <2>2, OwnedKept
  <2> QED BY <2>5, <2>6, <2>7 DEF Kept
<1>5. CASE LeaderFail(t)
  <2>1. tickLock = t /\ issued > 0 BY <1>5, <1>0 DEF LeaderFail, LeaderInv
  <2>2. /\ UNCHANGED << issued, order, pos, log >> /\ tickLock' = "none"
        /\ failures' = failures + 1
        BY <1>5, <2>1 DEF LeaderFail, Reset
  <2>3. Passed' = issued /\ (Passed = issued \/ Passed = issued - 1)
        BY <2>2 DEF Passed
  <2>4. \A u \in Threads : pc'["leader"][u] # "join" /\ ~sent'[u] /\ ~got'[u]
        BY <1>5, <2>1 DEF LeaderFail, Reset, LeaderInv, TypeOK, TypeTick, TypePlace
  <2>5. LeaderInv' BY <2>2, <2>3, <2>4, <1>0, <1>a, <1>c, <1>d DEF LeaderInv
  <2>6. Sent <= Sent' BY <2>1, <2>2, <1>a DEF Sent
  <2>7. \A u \in Threads : Owned(u) \subseteq Owned(u)' BY <2>2, OwnedKept
  <2> QED BY <2>5, <2>6, <2>7 DEF Kept
<1>6. CASE Release("leader", t)
  <2>1. \A u \in Threads : pc'["leader"][u] = "join" <=> pc["leader"][u] = "join"
        BY <1>6 DEF Release, TypeOK, TypePlace
  <2>2. UNCHANGED << issued, order, tickLock, sent, got, pos, log, failures >>
        BY <1>6 DEF Release, leaderVars
  <2>3. Passed' = Passed /\ Sent' = Sent BY <2>2 DEF Passed, Sent
  <2>4. LeaderInv' BY <2>1, <2>2, <2>3 DEF LeaderInv
  <2>5. Sent <= Sent' BY <2>3, SentBounds
  <2>6. \A u \in Threads : Owned(u) \subseteq Owned(u)' BY <2>2, OwnedKept
  <2> QED BY <2>4, <2>5, <2>6 DEF Kept
<1> QED BY <1>1, <1>2, <1>3, <1>4, <1>5, <1>6 DEF Leader

(* The follower's steps leave the leader and the tickets alone. *)
LEMMA FollowerStep ==
    ASSUME TypeOK, TypeOK', LeaderInv, NEW t \in Threads,
           \/ Follower(t) \/ FollowerRepoll(t) \/ FollowerFail(t)
           \/ Release("follower", t)
    PROVE  LeaderInv' /\ Kept
<1>1. /\ UNCHANGED << issued, order, tickLock, sent, got >>
      /\ pc'["leader"] = pc["leader"] /\ pos'["leader"] = pos["leader"]
      /\ log'["leader"] = log["leader"]
      /\ failures' = failures \/ failures' = failures + 1
  <2> USE DEF leaderVars, Goto, Parties
  <2>1. CASE FollowerReceive(t) BY <2>1 DEF FollowerReceive, TypeOK, TypePlace
  <2>2. CASE FollowerPollPending(t) BY <2>2 DEF FollowerPollPending, TypeOK, TypePlace
  <2>3. CASE FollowerPollBlock(t) BY <2>3 DEF FollowerPollBlock, TypeOK, TypePlace
  <2>4. CASE FollowerAcquire(t) BY <2>4 DEF FollowerAcquire, Acquire, TypeOK, TypePlace, TypeLog
  <2>5. CASE FollowerRepoll(t) BY <2>5 DEF FollowerRepoll, TypeOK, TypePlace
  <2>6. CASE FollowerFail(t) BY <2>6 DEF FollowerFail, TypeOK, TypePlace
  <2>7. CASE Release("follower", t) BY <2>7 DEF Release, TypeOK, TypePlace
  <2> QED BY <2>1, <2>2, <2>3, <2>4, <2>5, <2>6, <2>7 DEF Follower
<1>2. Passed' = Passed /\ Sent' = Sent BY <1>1 DEF Passed, Sent
<1>3. /\ issued \in Nat /\ failures \in Nat /\ Passed \in Int
      /\ Len(log["leader"]) \in Nat
      BY DEF TypeOK, TypeTick, TypePlace, TypeLog, Parties, Passed
<1>4. LeaderInv' BY <1>1, <1>2, <1>3 DEF LeaderInv
<1>5. Sent \in Nat BY SentBounds
<1>6. \A u \in Threads : Owned(u) \subseteq Owned(u)' BY <1>1, OwnedKept
<1> QED BY <1>2, <1>4, <1>5, <1>6 DEF Kept

(* A thread of the follower whose turn it is has the ticket the follower   *)
(* is at.                                                                  *)
LEMMA TurnIsOldest ==
    ASSUME TypeOK, OrderInv, NEW t \in Threads, pc["follower"][t] = "poll", MyTurn(t)
    PROVE  pos["follower"][t] = queue.used
<1> DEFINE m == queue.used
           n == pos["follower"][t]
<1>1. m \in Nat /\ n \in Nat BY DEF TypeOK, TypeQueue, TypePlace, Parties
<1>2. m <= n /\ n < Sent BY DEF OrderInv, HeldInv, Usable
<1>3. Sent \in Nat /\ Sent <= issued /\ issued \in Nat
      BY SentBounds DEF OrderInv, TypeOK, TypeTick
<1>4. issued <= m + MaxPending BY DEF OrderInv, UsedInv
<1>5. n < m + Modulus BY <1>1, <1>2, <1>3, <1>4, SyncerAssumption
<1>6. Ticket(m) = Ticket(n) BY DEF MyTurn
<1> HIDE DEF m, n
<1>7. m = n BY <1>1, <1>2, <1>5, <1>6, TicketsDiffer
<1> QED BY <1>7 DEF m, n

(* A ticket stays usable over a step that leaves the follower's tick.      *)
LEMMA UsableKept ==
    ASSUME TypeOK, LeaderInv, LeaderInv', TypeOK', Kept, queue'.used = queue.used,
           NEW t \in Threads
    PROVE  Usable(t) \subseteq Usable(t)'
<1>1. Sent \in Nat BY SentBounds
<1>2. Sent' \in Nat BY SentBoundsNext
<1>3. Sent <= Sent' /\ Owned(t) \subseteq Owned(t)' BY DEF Kept, Usable
<1>4. Owned(t) \subseteq Nat BY DEF Owned
<1> QED BY <1>1, <1>2, <1>3, <1>4 DEF Usable

(* The leader's steps put tickets in flight in order and leave the         *)
(* follower alone.                                                         *)
LEMMA OrderLeader ==
    ASSUME TypeOK, TypeOK', OrderInv, NEW t \in Threads,
           Leader(t) \/ LeaderFail(t) \/ Release("leader", t)
    PROVE  OrderInv'
<1> USE SyncerAssumption DEF Parties
<1>1. LeaderInv' /\ Kept BY LeaderStep DEF OrderInv
<1>2. /\ queue' = queue /\ log'["follower"] = log["follower"]
      /\ pc'["follower"] = pc["follower"] /\ pos'["follower"] = pos["follower"]
  <2> USE DEF Goto
  <2>1. CASE LeaderTicket(t) BY <2>1 DEF LeaderTicket, TypeOK, TypePlace
  <2>2. CASE LeaderSend(t) BY <2>2 DEF LeaderSend
  <2>3. CASE LeaderAcquire(t) BY <2>3 DEF LeaderAcquire, Acquire, TypeOK, TypeLog
  <2>4. CASE LeaderReturn(t) BY <2>4 DEF LeaderReturn, TypeOK, TypePlace
  <2>5. CASE LeaderFail(t) BY <2>5 DEF LeaderFail, TypeOK, TypePlace
  <2>6. CASE Release("leader", t) BY <2>6 DEF Release, TypeOK, TypePlace
  <2> QED BY <2>1, <2>2, <2>3, <2>4, <2>5, <2>6 DEF Leader
<1>3. \A u \in Threads : Usable(u) \subseteq Usable(u)'
      BY <1>1, <1>2, UsableKept DEF OrderInv
<1>4. chan \in [Threads -> Seq(Nat)] /\ issued \in Nat /\ pos \in [Parties -> [Threads -> Nat]]
      BY DEF TypeOK, TypeChan, TypeTick, TypePlace
<1>5. Sent \in Nat /\ Sent' \in Nat /\ Sent <= Sent' /\ queue.used \in Nat
      BY <1>1, SentBounds, SentBoundsNext DEF OrderInv, Kept, TypeOK, TypeQueue
<1>6. ChannelInv' /\ HeldInv'
  <2> DEFINE n == pos["leader"][t]
             Sends == chan' = [chan EXCEPT ![t] = Append(@, n)]
  <2>1. CASE (LeaderSend(t) \/ LeaderFail(t)) /\ Sends
    <3>1. tickLock = t /\ t # "none" /\ issued > 0 /\ n = issued - 1 /\ ~sent[t]
          BY <2>1 DEF LeaderSend, LeaderFail, At, OrderInv, LeaderInv
    <3>2. Sent = n /\ Sent' = n + 1
      <4>1. CASE LeaderSend(t)
            BY <4>1, <3>1, <1>4 DEF LeaderSend, Sent, TypeOK, TypeTick
      <4>2. CASE LeaderFail(t)
            BY <4>2, <3>1, <1>4 DEF LeaderFail, Reset, Sent, TypeOK, TypeTick
      <4> QED BY <2>1, <4>1, <4>2
    <3>3. n \in Owned(t) BY <3>1, <1>4 DEF Owned, OrderInv, LeaderInv
    <3>4. n \in Nat /\ queue.used <= n BY <3>2, <1>4 DEF OrderInv, UsedInv
    <3>5. n \in Usable(t)' BY <3>2, <3>3, <3>4, <1>1, <1>2 DEF Usable, Kept
    <3>6. /\ chan'[t] = Append(chan[t], n)
          /\ \A u \in Threads : u # t => chan'[u] = chan[u]
          BY <2>1, <1>4
    <3>7. \A k \in 1 .. Len(chan[t]) : chan[t][k] < n
          BY <3>2 DEF OrderInv, ChannelInv, Usable
    <3>8. /\ Len(chan'[t]) = Len(chan[t]) + 1 /\ chan'[t][Len(chan[t]) + 1] = n
          /\ \A k \in 1 .. Len(chan[t]) : chan'[t][k] = chan[t][k]
          BY <3>4, <3>6, <1>4
    <3>9. \A u \in Threads : \A k \in 1 .. Len(chan[u]) : chan[u][k] \in Nat BY <1>4
    <3> HIDE DEF n
    <3>10. ASSUME NEW u \in Threads
           PROVE  /\ \A k \in 1 .. Len(chan'[u]) : chan'[u][k] \in Usable(u)'
                  /\ \A j, k \in 1 .. Len(chan'[u]) : j < k => chan'[u][j] < chan'[u][k]
      <4>1. CASE u = t
        <5>1. Len(chan[t]) \in Nat BY <1>4
        <5>2. \A k \in 1 .. Len(chan'[t]) : k \in 1 .. Len(chan[t]) \/ k = Len(chan[t]) + 1
              BY <5>1, <3>8
        <5>3. \A k \in 1 .. Len(chan[t]) : chan[t][k] \in Usable(t)' 
              BY <1>3, <3>9 DEF OrderInv, ChannelInv
        <5>4. \A j, k \in 1 .. Len(chan[t]) : j < k => chan[t][j] < chan[t][k]
              BY DEF OrderInv, ChannelInv
        <5>5. \A k \in 1 .. Len(chan'[t]) : chan'[t][k] \in Usable(t)'
              BY <5>2, <5>3, <3>5, <3>8
        <5>6. ASSUME NEW j \in 1 .. Len(chan'[t]), NEW k \in 1 .. Len(chan'[t]), j < k
              PROVE  chan'[t][j] < chan'[t][k]
          <6>1. j \in 1 .. Len(chan[t]) /\ chan'[t][j] = chan[t][j] BY <5>1, <5>6, <3>8
          <6>2. CASE k \in 1 .. Len(chan[t]) BY <6>1, <6>2, <5>4, <5>6, <3>8
          <6>3. CASE k = Len(chan[t]) + 1 BY <6>1, <6>3, <3>7, <3>8
          <6> QED BY <6>2, <6>3, <5>2
        <5> QED BY <4>1, <5>5, <5>6
      <4>2. CASE u # t
        BY <4>2, <3>6, <1>3, <3>9 DEF OrderInv, ChannelInv
      <4> QED BY <4>1, <4>2
    <3>11. ChannelInv' BY <3>10 DEF ChannelInv
    <3>12. ASSUME NEW u \in Threads, pc'["follower"][u] \in {"poll", "waiting", "exec"}
           PROVE  /\ pos'["follower"][u] \in Usable(u)'
                  /\ \A k \in 1 .. Len(chan'[u]) : pos'["follower"][u] < chan'[u][k]
      <4>1. pos["follower"][u] \in Usable(u) /\ pos["follower"][u] \in Nat
            BY <3>12, <1>2, <1>4 DEF OrderInv, HeldInv
      <4>2. \A k \in 1 .. Len(chan[u]) : pos["follower"][u] < chan[u][k]
            BY <3>12, <1>2 DEF OrderInv, HeldInv
      <4>3. pos["follower"][u] < n BY <4>1, <3>2 DEF Usable
      <4>4. \A k \in 1 .. Len(chan'[u]) : pos["follower"][u] < chan'[u][k]
        <5>1. CASE u = t
          <6>1. Len(chan[t]) \in Nat BY <1>4
          <6>2. \A k \in 1 .. Len(chan'[t]) : k \in 1 .. Len(chan[t]) \/ k = Len(chan[t]) + 1
                BY <6>1, <3>8
          <6> QED BY <5>1, <6>2, <4>2, <4>3, <3>8
        <5>2. CASE u # t BY <5>2, <4>2, <3>6
        <5> QED BY <5>1, <5>2
      <4> QED BY <4>1, <4>4, <1>2, <1>3
    <3>13. HeldInv' BY <3>12, <1>2 DEF HeldInv, OrderInv
    <3> QED BY <3>11, <3>13
  <2>2. CASE chan' = chan
    <3>1. chan' = chan BY <2>2
    <3>2. \A u \in Threads : \A k \in 1 .. Len(chan[u]) : chan[u][k] \in Nat BY <1>4
    <3>3. ChannelInv' BY <3>1, <3>2, <1>3 DEF ChannelInv, OrderInv
    <3>4. \A u \in Threads : pos["follower"][u] \in Nat BY <1>4
    <3>5. HeldInv' BY <3>1, <3>4, <1>2, <1>3 DEF HeldInv, OrderInv
    <3> QED BY <3>3, <3>5
  <2>3. ((LeaderSend(t) \/ LeaderFail(t)) /\ Sends) \/ chan' = chan
        BY DEF Leader, LeaderTicket, LeaderSend, LeaderAcquire, LeaderReturn, LeaderFail,
               Release
  <2> QED BY <2>1, <2>2, <2>3
<1>7. UsedInv'
  <2>1. issued' <= queue.used + MaxPending
    <3>1. CASE LeaderTicket(t) BY <3>1, <1>4, <1>5 DEF LeaderTicket
    <3>2. CASE ~LeaderTicket(t)
          BY <3>2 DEF Leader, LeaderSend, LeaderAcquire, LeaderReturn, LeaderFail, Release,
                      leaderVars, OrderInv, UsedInv
    <3> QED BY <3>1, <3>2
  <2>2. \A i \in 1 .. queue.used : order'[i] = order[i]
    <3>1. /\ order \in Seq(Threads) /\ Len(order) = issued /\ Sent <= issued
          BY SentBounds DEF TypeOK, TypeLog, OrderInv, LeaderInv
    <3>2. queue.used <= issued BY <3>1, <1>4, <1>5 DEF OrderInv, UsedInv
    <3>3. order' = order \/ order' = Append(order, t)
          BY DEF Leader, LeaderTicket, LeaderSend, LeaderAcquire, LeaderReturn, LeaderFail,
                 Release, leaderVars
    <3>4. \A i \in 1 .. queue.used : i \in 1 .. Len(order) BY <3>1, <3>2, <1>4, <1>5
    <3>5. CASE order' = Append(order, t) BY <3>1, <3>4, <3>5
    <3> QED BY <3>3, <3>5
  <2>3. \A i \in 1 .. queue.used : log'["follower"][i] = [thread |-> order'[i], pos |-> i - 1]
        BY <2>2, <1>2 DEF OrderInv, UsedInv
  <2> QED BY <2>1, <2>3, <1>2, <1>5 DEF UsedInv, OrderInv
<1> QED BY <1>1, <1>6, <1>7 DEF OrderInv

(* A step of the follower that uses no ticket: what it holds and what is   *)
(* in flight to it stays usable and in order.                              *)
LEMMA OrderFollower ==
    ASSUME TypeOK, TypeOK', OrderInv, NEW t \in Threads,
           \/ FollowerReceive(t) \/ FollowerPollPending(t) \/ FollowerPollBlock(t)
           \/ FollowerRepoll(t) \/ FollowerFail(t) \/ Release("follower", t)
    PROVE  OrderInv'
<1> USE SyncerAssumption DEF Parties
<1>1. LeaderInv' /\ Kept BY FollowerStep DEF OrderInv, Follower
<1>2. /\ queue'.used = queue.used /\ log' = log /\ issued' = issued /\ order' = order
      /\ queue.used \in Nat
      BY DEF FollowerReceive, FollowerPollPending, FollowerPollBlock, FollowerRepoll,
             FollowerFail, Release, leaderVars, TypeOK, TypeQueue
<1>3. \A u \in Threads : Usable(u) \subseteq Usable(u)'
      BY <1>1, <1>2, UsableKept DEF OrderInv
<1>4. chan \in [Threads -> Seq(Nat)] /\ pos \in [Parties -> [Threads -> Nat]]
      BY DEF TypeOK, TypeChan, TypePlace
<1>5. pc \in [Parties -> [Threads -> Labels]] BY DEF TypeOK, TypePlace
<1>6. UsedInv'
  <2>1. Sent \in Nat /\ Sent' \in Nat /\ Sent <= Sent'
        BY <1>1, SentBounds, SentBoundsNext DEF OrderInv, Kept
  <2> QED BY <1>2, <2>1 DEF UsedInv, OrderInv
<1>7. ChannelInv' /\ HeldInv'
  <2>1. CASE FollowerReceive(t)
    <3> USE DEF Goto
    <3>1. /\ queue' = queue /\ chan[t] # << >> /\ pc["follower"][t] = "idle"
          /\ chan'[t] = Tail(chan[t]) /\ pc'["follower"][t] = "poll"
          /\ pos'["follower"][t] = Head(chan[t])
          BY <2>1, <1>4, <1>5 DEF FollowerReceive, At
    <3>2. \A u \in Threads : u # t => /\ chan'[u] = chan[u]
                                       /\ pc'["follower"][u] = pc["follower"][u]
                                       /\ pos'["follower"][u] = pos["follower"][u]
          BY <2>1, <1>4, <1>5 DEF FollowerReceive
    <3>3. /\ Len(chan[t]) \in Nat /\ Len(chan[t]) > 0 /\ Len(chan'[t]) = Len(chan[t]) - 1
          /\ pos'["follower"][t] = chan[t][1]
          /\ \A k \in 1 .. Len(chan'[t]) : chan'[t][k] = chan[t][k + 1]
          BY <3>1, <1>4
    <3>4. /\ \A k \in 1 .. Len(chan[t]) : chan[t][k] \in Usable(t)
          /\ \A j, k \in 1 .. Len(chan[t]) : j < k => chan[t][j] < chan[t][k]
          BY DEF OrderInv, ChannelInv
    <3>5. /\ \A k \in 1 .. Len(chan'[t]) : chan'[t][k] \in Usable(t)'
          /\ \A j, k \in 1 .. Len(chan'[t]) : j < k => chan'[t][j] < chan'[t][k]
          /\ \A k \in 1 .. Len(chan'[t]) : chan[t][1] < chan'[t][k]
          /\ chan[t][1] \in Usable(t)'
      <4>1. \A k \in 1 .. Len(chan'[t]) : k + 1 \in 1 .. Len(chan[t]) /\ 1 < k + 1 BY <3>3
      <4>2. 1 \in 1 .. Len(chan[t]) BY <3>3
      <4>3. \A k \in 1 .. Len(chan'[t]) : chan'[t][k] \in Usable(t)' BY <4>1, <3>3, <3>4, <1>3
      <4>4. \A j, k \in 1 .. Len(chan'[t]) : j < k => j + 1 < k + 1 BY <3>3
      <4>5. \A j, k \in 1 .. Len(chan'[t]) : j < k => chan'[t][j] < chan'[t][k]
            BY <4>1, <4>4, <3>3, <3>4
      <4> QED BY <4>1, <4>2, <4>3, <4>5, <3>3, <3>4, <1>3
    <3>6. ChannelInv'
      <4>1. \A u \in Threads : u # t =>
               /\ \A k \in 1 .. Len(chan'[u]) : chan'[u][k] \in Usable(u)'
               /\ \A j, k \in 1 .. Len(chan'[u]) : j < k => chan'[u][j] < chan'[u][k]
            BY <3>2, <1>3 DEF OrderInv, ChannelInv
      <4> QED BY <4>1, <3>5 DEF ChannelInv
    <3>7. HeldInv'
      <4>1. \A u \in Threads : u # t =>
               /\ pc'["follower"][u] \in {"poll", "waiting", "exec"} =>
                     /\ pos'["follower"][u] \in Usable(u)'
                     /\ \A k \in 1 .. Len(chan'[u]) : pos'["follower"][u] < chan'[u][k]
               /\ pc'["follower"][u] = "exec" <=> queue.lock = u
               /\ pc'["follower"][u] = "exec" => pos'["follower"][u] = queue.used
            BY <3>2, <1>3 DEF OrderInv, HeldInv
      <4>2. queue.lock # t BY <3>1 DEF OrderInv, HeldInv
      <4> QED BY <4>1, <4>2, <3>1, <3>3, <3>5 DEF HeldInv
    <3> QED BY <3>6, <3>7
  <2>2. CASE ~FollowerReceive(t)
    <3>1. chan' = chan /\ pos' = pos
          BY <2>2 DEF FollowerPollPending, FollowerPollBlock, FollowerRepoll, FollowerFail,
                      Release
    <3>2. ChannelInv' BY <3>1, <1>3 DEF ChannelInv, OrderInv
    <3>3. \A u \in Threads : pc'["follower"][u] \in {"poll", "waiting", "exec"} =>
                              pc["follower"][u] \in {"poll", "waiting", "exec"}
          BY <2>2, <1>5 DEF FollowerPollPending, FollowerPollBlock, FollowerRepoll,
                            FollowerFail, Release, At, Goto
    <3>4. \A u \in Threads :
             /\ pc'["follower"][u] = "exec" <=> queue'.lock = u
             /\ pc'["follower"][u] = "exec" => pos["follower"][u] = queue.used
      <4> USE DEF At, Goto
      <4>1. CASE FollowerPollPending(t)
            BY <4>1, <1>5 DEF FollowerPollPending, TypeOK, TypeQueue, OrderInv, HeldInv
      <4>2. CASE FollowerPollBlock(t)
        <5>1. pos["follower"][t] = queue.used BY <4>2, TurnIsOldest DEF FollowerPollBlock
        <5>2. queue'.lock = t /\ queue.lock = "none"
              BY <4>2 DEF FollowerPollBlock, TypeOK, TypeQueue
        <5> QED BY <4>2, <5>1, <5>2, <1>5 DEF FollowerPollBlock, OrderInv, HeldInv
      <4>3. CASE FollowerRepoll(t)
            BY <4>3, <1>5 DEF FollowerRepoll, OrderInv, HeldInv
      <4>4. CASE FollowerFail(t)
            BY <4>4, <1>5 DEF FollowerFail, OrderInv, HeldInv
      <4>5. CASE Release("follower", t)
            BY <4>5, <1>5 DEF Release, OrderInv, HeldInv
      <4> QED BY <2>2, <4>1, <4>2, <4>3, <4>4, <4>5
    <3>5. HeldInv' BY <3>1, <3>3, <3>4, <1>2, <1>3 DEF HeldInv, OrderInv
    <3> QED BY <3>2, <3>5
  <2> QED BY <2>1, <2>2
<1> QED BY <1>1, <1>6, <1>7 DEF OrderInv

(* The ticket a thread of the follower uses is its own, and the next one.  *)
LEMMA UsesNext ==
    ASSUME TypeOK, OrderInv, NEW t \in Threads, FollowerAcquire(t)
    PROVE  queue.used \in Usable(t) /\ pos["follower"][t] = queue.used
<1>1. pc["follower"][t] \in {"poll", "exec"} BY DEF FollowerAcquire, At
<1>2. pos["follower"][t] \in Usable(t) BY <1>1 DEF OrderInv, HeldInv
<1>3. CASE pc["follower"][t] = "poll"
  <2>1. MyTurn(t) BY <1>3 DEF FollowerAcquire, At
  <2> QED BY <1>2, <1>3, <2>1, TurnIsOldest
<1>4. CASE pc["follower"][t] = "exec" BY <1>2, <1>4 DEF OrderInv, HeldInv
<1> QED BY <1>1, <1>3, <1>4

(* The step that uses the follower's next ticket: nobody else has it. *)
LEMMA OrderAcquire ==
    ASSUME TypeOK, TypeOK', OrderInv, NEW t \in Threads, FollowerAcquire(t)
    PROVE  OrderInv'
<1> USE SyncerAssumption DEF Parties
<1>1. LeaderInv' /\ Kept BY FollowerStep DEF OrderInv, Follower
<1>2. queue.used \in Usable(t) /\ pos["follower"][t] = queue.used BY UsesNext
<1>3. queue.used \in Nat /\ queue'.used = queue.used + 1 /\ queue'.lock = "none"
      BY DEF FollowerAcquire, TypeOK, TypeQueue
<1>4. /\ chan' = chan /\ pos' = pos /\ order' = order
      /\ issued' = issued /\ issued \in Nat
      BY DEF FollowerAcquire, leaderVars, TypeOK, TypeTick
<1>5. Sent \in Nat /\ Sent' \in Nat /\ Sent <= Sent'
      BY <1>1, SentBounds, SentBoundsNext DEF OrderInv, Kept
<1>6. \A u \in Threads : Usable(u) \ {queue.used} \subseteq Usable(u)'
  <2>1. \A u \in Threads : Owned(u) \subseteq Nat BY DEF Owned
  <2> QED BY <1>1, <1>3, <1>5, <2>1 DEF Usable, Kept
<1>7. \A u \in Threads : u # t => queue.used \notin Usable(u)
      BY <1>2, <1>3, OneOwner DEF Usable, OrderInv
<1>8. \A k \in 1 .. Len(chan[t]) : chan[t][k] # queue.used
  <2>1. pc["follower"][t] \in {"poll", "exec"} BY DEF FollowerAcquire, At
  <2> QED BY <2>1, <1>2, <1>3 DEF OrderInv, HeldInv
<1>9. ChannelInv' BY <1>4, <1>6, <1>7, <1>8 DEF OrderInv, ChannelInv
<1>10. /\ pc'["follower"][t] = "holding"
       /\ \A u \in Threads : u # t /\ pc'["follower"][u] \in {"poll", "waiting", "exec"} =>
             /\ pc["follower"][u] \in {"poll", "waiting", "exec"}
             /\ pc'["follower"][u] = "exec" => pc["follower"][u] = "exec"
       BY DEF FollowerAcquire, TypeOK, TypePlace
<1>11. \A u \in Threads : u # t => pc["follower"][u] # "exec"
  <2>1. CASE async BY <2>1 DEF FollowerAcquire, OrderInv, HeldInv
  <2>2. CASE ~async BY <2>2 DEF FollowerAcquire, At, OrderInv, HeldInv
  <2> QED BY <2>1, <2>2
<1>12. HeldInv'
  <2>1. \A u \in Threads : pc'["follower"][u] # "exec" /\ queue'.lock # u
        BY <1>3, <1>10, <1>11
  <2>2. \A u \in Threads : pc'["follower"][u] \in {"poll", "waiting", "exec"} =>
           /\ pos["follower"][u] \in Usable(u)'
           /\ \A k \in 1 .. Len(chan[u]) : pos["follower"][u] < chan[u][k]
        BY <1>6, <1>7, <1>10 DEF OrderInv, HeldInv
  <2> QED BY <2>1, <2>2, <1>4 DEF HeldInv
<1>13. UsedInv'
  <2> DEFINE R == [thread : Threads, pos : Nat]
             l == log["follower"]
             r == [thread |-> t, pos |-> pos["follower"][t]]
  <2>1. l \in Seq(R) /\ r \in R BY DEF TypeOK, TypeLog, TypePlace
  <2>2. log'["follower"] = Append(l, r) BY DEF FollowerAcquire, Acquire, TypeOK, TypeLog
  <2>3. Len(l) = queue.used BY DEF OrderInv, UsedInv
  <2>4. r.thread = t OBVIOUS
  <2>5. \A x \in R : x.thread \in Threads OBVIOUS
  <2> HIDE DEF R, r
  <2>6. /\ Len(log'["follower"]) = queue.used + 1 /\ log'["follower"][queue.used + 1] = r
        /\ \A i \in 1 .. queue.used : log'["follower"][i] = l[i] /\ l[i] \in R
        BY <2>1, <2>2, <2>3
  <2>7. ASSUME NEW i \in 1 .. queue.used + 1
        PROVE  log'["follower"][i] = [thread |-> order[i], pos |-> i - 1]
    <3>1. CASE i \in 1 .. queue.used BY <3>1, <2>6 DEF OrderInv, UsedInv
    <3>2. CASE i = queue.used + 1
      <4>1. order[i] = t /\ i - 1 = pos["follower"][t] BY <3>2, <1>2, <1>3 DEF Usable, Owned
      <4> QED BY <3>2, <4>1, <2>6 DEF r
    <3>3. i \in 1 .. queue.used \/ i = queue.used + 1 BY <1>3
    <3> QED BY <3>1, <3>2, <3>3
  <2>8. queue.used + 1 <= Sent' BY <1>2, <1>3, <1>5 DEF Usable
  <2>9. issued' <= queue.used + 1 + MaxPending BY <1>3, <1>4 DEF OrderInv, UsedInv
  <2> QED BY <2>6, <2>7, <2>8, <2>9, <1>3, <1>4 DEF UsedInv
<1> QED BY <1>1, <1>9, <1>12, <1>13 DEF OrderInv

(* Every step keeps the invariant. *)
LEMMA InvStep == Inv /\ [Next]_vars => Inv'
<1> SUFFICES ASSUME Inv, [Next]_vars PROVE Inv' OBVIOUS
<1>1. TypeOK /\ TypeOK' /\ OrderInv BY TypeStep DEF Inv
<1>2. CASE UNCHANGED vars
  <2>1. LeaderInv' BY <1>1, <1>2 DEF vars, OrderInv, LeaderInv, Passed
  <2>2. ChannelInv' BY <1>1, <1>2 DEF vars, OrderInv, ChannelInv, Usable, Owned, Sent
  <2>3. HeldInv' BY <1>1, <1>2 DEF vars, OrderInv, HeldInv, Usable, Owned, Sent
  <2>4. UsedInv' BY <1>1, <1>2 DEF vars, OrderInv, UsedInv, Sent
  <2> QED BY <1>1, <2>1, <2>2, <2>3, <2>4 DEF Inv, OrderInv
<1>3. ASSUME NEW t \in Threads, Leader(t) \/ LeaderFail(t) PROVE Inv'
      BY <1>1, <1>3, OrderLeader DEF Inv
<1>4. ASSUME NEW t \in Threads, Follower(t) \/ FollowerRepoll(t) \/ FollowerFail(t)
      PROVE  Inv'
  <2>1. CASE FollowerAcquire(t) BY <2>1, <1>1, OrderAcquire DEF Inv
  <2>2. CASE ~FollowerAcquire(t) BY <2>2, <1>1, <1>4, OrderFollower DEF Inv, Follower
  <2> QED BY <2>1, <2>2
<1>5. ASSUME NEW p \in Parties, NEW t \in Threads, Release(p, t) PROVE Inv'
  <2>1. CASE p = "leader" BY <2>1, <1>1, <1>5, OrderLeader DEF Inv
  <2>2. CASE p = "follower" BY <2>2, <1>1, <1>5, OrderFollower DEF Inv
  <2> QED BY <2>1, <2>2 DEF Parties
<1> QED BY <1>2, <1>3, <1>4, <1>5 DEF Next

(* The invariant holds in every reachable state. *)
THEOREM SyncerInvariant == Spec => []Inv
<1>1. Init => Inv BY TypeInit, OrderInit DEF Inv
<1>2. Inv /\ [Next]_vars => Inv' BY InvStep
<1> QED BY <1>1, <1>2, PTL DEF Spec
-----------------------------------------------------------------------------
(* An acquisition at the leader: the tickets it has passed over have       *)
(* failed, and it has served none that is younger.                         *)
LEMMA LeaderRefines ==
    ASSUME TypeOK, OrderInv, NEW t \in Threads, LeaderAcquire(t)
    PROVE  Promise!Serve("leader")
<1> DEFINE n == pos["leader"][t]
           l == log["leader"]
<1>1. /\ tickLock = t /\ ~got[t] /\ issued > 0 /\ n = issued - 1 /\ order[issued] = t
      /\ Len(order) = issued
      BY SyncerAssumption DEF LeaderAcquire, At, OrderInv, LeaderInv
<1>2. issued \in Nat /\ failures \in Nat /\ Len(l) \in Nat
      BY DEF TypeOK, TypeTick, TypePlace, TypeLog, Parties
<1>3. Passed = n BY <1>1, SyncerAssumption DEF Passed
<1>4. n \in Len(l) .. Len(l) + failures BY <1>1, <1>2, <1>3 DEF OrderInv, LeaderInv
<1>5. n < Len(order) /\ order[n + 1] = t BY <1>1, <1>2
<1>6. l # << >> => Last(l).pos < n BY <1>3 DEF OrderInv, LeaderInv
<1>7. log' = [log EXCEPT !["leader"] = Append(@, [thread |-> t, pos |-> n])]
      BY DEF LeaderAcquire, Acquire
<1>8. UNCHANGED << order, failures >> BY DEF LeaderAcquire
<1> HIDE DEF n, l
<1>9. log' = [log EXCEPT !["leader"] = Append(@, [thread |-> order[n + 1], pos |-> n])]
      BY <1>5, <1>7
<1> QED BY <1>4, <1>5, <1>6, <1>8, <1>9 DEF Promise!Serve, Promise!Last, Last, l

(* An acquisition at the follower, which passes over nothing. *)
LEMMA FollowerRefines ==
    ASSUME TypeOK, OrderInv, NEW t \in Threads, FollowerAcquire(t)
    PROVE  Promise!Serve("follower")
<1> DEFINE n == pos["follower"][t]
           l == log["follower"]
<1>1. n = queue.used /\ n \in Usable(t) /\ n \in Nat BY UsesNext DEF TypeOK, TypePlace, Parties
<1>2. Len(order) = issued /\ Len(l) = n /\ failures \in Nat
      BY <1>1 DEF OrderInv, LeaderInv, UsedInv, TypeOK, TypePlace
<1>3. n \in Len(l) .. Len(l) + failures BY <1>1, <1>2
<1>4. n < Len(order) /\ order[n + 1] = t BY <1>1, <1>2 DEF Usable, Owned
<1>5. l # << >> => Last(l).pos < n
  <2>1. \A i \in 1 .. n : l[i] = [thread |-> order[i], pos |-> i - 1]
        BY <1>1 DEF OrderInv, UsedInv
  <2>2. l # << >> => n \in 1 .. n BY <1>1, <1>2 DEF TypeOK, TypeLog, Parties
  <2> HIDE DEF n, l
  <2>3. l # << >> => l[n] = [thread |-> order[n], pos |-> n - 1] BY <2>1, <2>2
  <2>4. l # << >> => l[n].pos = n - 1 BY <2>3
  <2> QED BY <1>1, <1>2, <2>4 DEF Last
<1>6. log' = [log EXCEPT !["follower"] = Append(@, [thread |-> t, pos |-> n])]
      BY DEF FollowerAcquire, Acquire
<1>7. UNCHANGED << order, failures >> BY DEF FollowerAcquire, leaderVars
<1> HIDE DEF n, l
<1>8. log' = [log EXCEPT !["follower"] = Append(@, [thread |-> order[n + 1], pos |-> n])]
      BY <1>4, <1>6
<1> QED BY <1>3, <1>4, <1>5, <1>7, <1>8 DEF Promise!Serve, Promise!Last, Last, l

(* The mutexes implement SameOrder: at both parties the acquisitions of    *)
(* Mutex and AsyncMutex happen in the order of the tickets, for any number *)
(* of threads and tickets and whatever fails or is cancelled.              *)
THEOREM SyncerRefinement == Spec => ImplementsSameOrder
<1>1. Init => Promise!Init BY DEF Init, Promise!Init
<1>2. Inv /\ [Next]_vars => [Promise!Next]_(Promise!vars)
  <2> SUFFICES ASSUME Inv, [Next]_vars
               PROVE  Promise!Next \/ UNCHANGED Promise!vars
      OBVIOUS
  <2>1. TypeOK /\ OrderInv BY DEF Inv
  <2>2. ASSUME NEW t \in Threads, LeaderTicket(t) PROVE Promise!Ask(t)
        BY <2>2 DEF LeaderTicket, Promise!Ask
  <2>3. ASSUME NEW t \in Threads, LeaderAcquire(t) PROVE Promise!Serve("leader")
        BY <2>1, <2>3, LeaderRefines
  <2>4. ASSUME NEW t \in Threads, FollowerAcquire(t) PROVE Promise!Serve("follower")
        BY <2>1, <2>4, FollowerRefines
  <2>5. ASSUME NEW t \in Threads, LeaderFail(t) \/ FollowerFail(t) PROVE Promise!Fail
        BY <2>5 DEF LeaderFail, FollowerFail, leaderVars, Promise!Fail
  <2>6. \/ \E t \in Threads : LeaderTicket(t)
        \/ \E t \in Threads : LeaderAcquire(t) \/ FollowerAcquire(t)
        \/ \E t \in Threads : LeaderFail(t) \/ FollowerFail(t)
        \/ UNCHANGED << order, log, failures >>
        BY DEF Next, vars, Leader, Follower, LeaderSend, LeaderReturn, leaderVars,
               FollowerReceive, FollowerPollPending, FollowerPollBlock, FollowerRepoll,
               Release
  <2> QED BY <2>2, <2>3, <2>4, <2>5, <2>6 DEF Promise!Next, Promise!vars, Parties
<1> QED BY <1>1, <1>2, SyncerInvariant, PTL DEF Spec, ImplementsSameOrder, Promise!Spec

=============================================================================
