----------------------- MODULE AdaptiveBarrier_proofs -----------------------
(***************************************************************************)
(* The safety of AdaptiveBarrier for any number of clones that may be      *)
(* dropped at any time (SpecDrop), and, when nothing is dropped during a   *)
(* round (Spec), that a complete round is always opened.                   *)
(***************************************************************************)
EXTENDS AdaptiveBarrier, Integers, FiniteSetTheorems, WellFoundedInduction, TLAPS

(* The waiting instances are exactly the entries of bar.waiters, each has  *)
(* one entry and its channel is open.                                      *)
WaitersInv ==
    /\ \A k \in DOMAIN bar.waiters :
          /\ bar.waiters[k].open
          /\ bar.waiters[k].id \in In({"waiting"})
    /\ \A i \in In({"waiting"}) : \E k \in DOMAIN bar.waiters : bar.waiters[k].id = i
    /\ \A k, m \in DOMAIN bar.waiters : bar.waiters[k].id = bar.waiters[m].id => k = m

(* Ids are handed out in order: what was not registered yet is absent. *)
IdsInv ==
    /\ bar.id_next \in 0 .. MaxInstances
    /\ \A i \in Instances : i >= bar.id_next => phase[i] = "absent"

IInv ==
    /\ TypeOK
    /\ WaitersInv
    /\ IdsInv
    /\ CountersAgree
    /\ OneLeader
    /\ ElectionIsComplete
-----------------------------------------------------------------------------
(* Instances is finite, so are its subsets, and their cardinalities are    *)
(* natural numbers.                                                        *)
LEMMA InstancesFinite ==
    /\ IsFiniteSet(Instances)
    /\ \A T \in SUBSET Instances : IsFiniteSet(T) /\ Cardinality(T) \in Nat
<1>1. IsFiniteSet(Instances)
  <2>1. 0 \in Int /\ MaxInstances - 1 \in Int
    BY MaxInstancesAssumption
  <2>2. QED
    BY <2>1, FS_Interval DEF Instances
<1>2. ASSUME NEW T \in SUBSET Instances
      PROVE  IsFiniteSet(T) /\ Cardinality(T) \in Nat
  BY <1>1, FS_Subset, FS_CardinalityType
<1>3. QED
  BY <1>1, <1>2

(* A nonempty set of naturals with an upper bound has a largest element.   *)
LEMMA LargestElement ==
    ASSUME NEW n \in Nat, NEW T, T \subseteq 0 .. n, T # {}
    PROVE  \E m \in T : \A x \in T : x <= m
<1> DEFINE U == { u \in Nat : n - u \in T }
<1>1. PICK t \in T : TRUE
  OBVIOUS
<1>2. n - t \in U
  BY <1>1
<1>3. U \subseteq Nat /\ U # {}
  BY <1>2
<1> HIDE DEF U
<1>4. PICK u \in U : \A y \in U : ~(<<y, u>> \in OpToRel(<, Nat))
  BY <1>3, NatLessThanWellFounded, WFMin, Zenon
<1> USE DEF U
<1>5. \A y \in U : ~(y < u)
  BY <1>4 DEF OpToRel
<1>6. n - u \in T
  BY <1>4
<1>7. ASSUME NEW x \in T PROVE x <= n - u
  <2>1. n - x \in U
    OBVIOUS
  <2>2. ~(n - x < u)
    BY <1>5, <2>1
  <2>3. x \in 0 .. n /\ u \in Nat
    BY <1>3, <1>4
  <2>4. QED
    BY <2>2, <2>3
<1>8. QED
  BY <1>6, <1>7

(* wake_leader always finds the waiter it looks for. *)
LEMMA LeaderExists ==
    ASSUME NEW b, b.waiters \in Seq(Waiter), b.waiters # << >>,
           \A k \in DOMAIN b.waiters : b.waiters[k].id \in Instances
    PROVE  /\ LeaderIndex(b) \in DOMAIN b.waiters
           /\ \A m \in DOMAIN b.waiters :
                \/ b.waiters[m].id < b.waiters[LeaderIndex(b)].id
                \/ b.waiters[m].id = b.waiters[LeaderIndex(b)].id /\ m <= LeaderIndex(b)
<1> DEFINE Ids == { b.waiters[k].id : k \in DOMAIN b.waiters }
<1>1. 1 \in DOMAIN b.waiters /\ DOMAIN b.waiters = 1 .. Len(b.waiters) /\ Len(b.waiters) \in Nat
  OBVIOUS
<1>2. PICK top \in Ids : \A x \in Ids : x <= top
  <2>1. MaxInstances - 1 \in Nat
    BY MaxInstancesAssumption
  <2>2. Ids \subseteq 0 .. MaxInstances - 1
    BY DEF Instances
  <2>3. b.waiters[1].id \in Ids
    BY <1>1
  <2>4. Ids # {}
    BY <2>3
  <2> HIDE DEF Ids
  <2>5. QED
    BY <2>1, <2>2, <2>4, LargestElement
<1> DEFINE Ks == { k \in DOMAIN b.waiters : b.waiters[k].id = top }
<1>3. PICK last \in Ks : \A x \in Ks : x <= last
  <2>1. Ks \subseteq 0 .. Len(b.waiters) /\ Ks # {}
    BY <1>1, <1>2
  <2> HIDE DEF Ks
  <2>2. QED
    BY <1>1, <2>1, LargestElement
<1>4. last \in DOMAIN b.waiters
  BY <1>3
<1>5. ASSUME NEW m \in DOMAIN b.waiters
      PROVE  \/ b.waiters[m].id < b.waiters[last].id
             \/ b.waiters[m].id = b.waiters[last].id /\ m <= last
  <2>1. b.waiters[m].id \in Ids /\ b.waiters[m].id <= top /\ b.waiters[last].id = top
    BY <1>2, <1>3
  <2>2. b.waiters[m].id \in Nat /\ top \in Nat
    BY <1>4, <2>1, MaxInstancesAssumption DEF Instances
  <2>3. CASE b.waiters[m].id = top
    BY <2>1, <2>3, <1>3
  <2>4. CASE b.waiters[m].id # top
    BY <2>1, <2>2, <2>4
  <2>5. QED
    BY <2>3, <2>4
<1>6. QED
  BY <1>4, <1>5 DEF LeaderIndex

-----------------------------------------------------------------------------
(* What the methods of `State` return, field by field. *)
LEMMA RegisterFacts ==
    ASSUME NEW b \in BarrierType
    PROVE  /\ Register(b) \in BarrierType
           /\ Register(b).alive = b.alive + 1 /\ Register(b).id_next = b.id_next + 1
           /\ Register(b).arrived = b.arrived /\ Register(b).expected = b.expected
           /\ Register(b).waiters = b.waiters
<1>1. [b EXCEPT !.id_next = b.id_next + 1] \in BarrierType
  BY DEF BarrierType
<1>2. b.alive + 1 \in Nat
  BY DEF BarrierType
<1>3. [[b EXCEPT !.id_next = b.id_next + 1] EXCEPT !.alive = b.alive + 1] \in BarrierType
  BY <1>1, <1>2 DEF BarrierType
<1>4. Register(b) \in BarrierType
  BY <1>3 DEF Register
<1>5. QED
  BY <1>4 DEF BarrierType, Register

(* The three fields a round uses are assigned one after the other. *)
LEMMA RoundFields ==
    ASSUME NEW b \in BarrierType, NEW x \in Nat, NEW y \in Nat, NEW w \in Seq(Waiter)
    PROVE  [b EXCEPT !.arrived = x, !.expected = y, !.waiters = w] \in BarrierType
<1>1. [b EXCEPT !.arrived = x] \in BarrierType
  BY DEF BarrierType
<1>2. [[b EXCEPT !.arrived = x] EXCEPT !.expected = y] \in BarrierType
  BY <1>1 DEF BarrierType
<1>3. QED
  BY <1>2 DEF BarrierType

(* What is left of a round that opened. *)
LEMMA ClearedFacts ==
    ASSUME NEW b \in BarrierType
    PROVE  /\ Cleared(b) \in BarrierType
           /\ Cleared(b).alive = b.alive /\ Cleared(b).id_next = b.id_next
           /\ Cleared(b).arrived = 0 /\ Cleared(b).waiters = << >>
<1>1. 0 \in Nat /\ << >> \in Seq(Waiter)
  OBVIOUS
<1>2. Cleared(b) \in BarrierType
  BY <1>1, RoundFields, Zenon DEF Cleared
<1>3. QED
  BY <1>2 DEF BarrierType, Cleared

(* A drop takes one instance from the barrier and from a round in progress. *)
LEMMA DeregisterFacts ==
    ASSUME NEW b \in BarrierType, b.alive > 0, IsPending(b) => b.expected > 0
    PROVE  /\ Deregister(b) \in BarrierType
           /\ Deregister(b).alive = b.alive - 1 /\ Deregister(b).id_next = b.id_next
           /\ Deregister(b).arrived = b.arrived /\ Deregister(b).waiters = b.waiters
           /\ Deregister(b).expected = (IF IsPending(b) THEN b.expected - 1 ELSE b.expected)
<1> DEFINE x == IF IsPending(b) THEN b.expected - 1 ELSE b.expected
<1>1. x \in Nat /\ b.alive - 1 \in Nat
  BY DEF BarrierType
<1> HIDE DEF x
<1>2. [b EXCEPT !.alive = b.alive - 1] \in BarrierType
  BY <1>1 DEF BarrierType
<1>3. [[b EXCEPT !.alive = b.alive - 1] EXCEPT !.expected = x] \in BarrierType
  BY <1>1, <1>2 DEF BarrierType
<1>4. Deregister(b) = [[b EXCEPT !.alive = b.alive - 1] EXCEPT !.expected = x]
  BY DEF Deregister, x
<1>5. QED
  BY <1>2, <1>3, <1>4 DEF BarrierType, x

(* A new barrier. *)
LEMMA EmptyFacts ==
    /\ EmptyBarrier \in BarrierType
    /\ EmptyBarrier.alive = 0 /\ EmptyBarrier.id_next = 0 /\ EmptyBarrier.arrived = 0
    /\ EmptyBarrier.expected = 0 /\ EmptyBarrier.waiters = << >>
BY DEF BarrierType, EmptyBarrier

(* `wait` counts the instance and appends its waiter. *)
LEMMA EnterFields ==
    ASSUME NEW b \in BarrierType, NEW i \in Nat
    PROVE  /\ Enter(b, i) \in BarrierType
           /\ Enter(b, i).alive = b.alive /\ Enter(b, i).id_next = b.id_next
           /\ Enter(b, i).arrived = (IF IsPending(b) THEN b.arrived + 1 ELSE 1)
           /\ Enter(b, i).expected = (IF IsPending(b) THEN b.expected ELSE b.alive)
           /\ Enter(b, i).waiters = Append(b.waiters, [id |-> i, open |-> TRUE])
<1> DEFINE w == Append(b.waiters, [id |-> i, open |-> TRUE])
<1>1. [id |-> i, open |-> TRUE] \in Waiter
  BY DEF Waiter
<1>2. w \in Seq(Waiter)
  BY <1>1 DEF BarrierType
<1> DEFINE x == IF IsPending(b) THEN b.arrived + 1 ELSE 1
<1> DEFINE y == IF IsPending(b) THEN b.expected ELSE b.alive
<1>3. x \in Nat /\ y \in Nat
  BY DEF BarrierType
<1>4. Enter(b, i) = [b EXCEPT !.arrived = x, !.expected = y, !.waiters = w]
  BY DEF Enter
<1> HIDE DEF w, x, y
<1>5. Enter(b, i) \in BarrierType
  <2>1. [b EXCEPT !.arrived = x, !.expected = y, !.waiters = w] \in BarrierType
    BY <1>2, <1>3, RoundFields, Zenon
  <2>2. QED
    BY <2>1, <1>4, Zenon
<1>6. QED
  BY <1>4, <1>5 DEF BarrierType, w, x, y

-----------------------------------------------------------------------------
(* The new barrier satisfies the invariant. *)
LEMMA InitIInv == Init => IInv
<1> SUFFICES ASSUME Init PROVE IInv
  OBVIOUS
<1> USE MaxInstancesAssumption DEF Init
<1>1. /\ bar.alive = 1 /\ bar.id_next = 1 /\ bar.arrived = 0
      /\ bar.expected = 0 /\ bar.waiters = << >> /\ bar \in BarrierType
  BY EmptyFacts, RegisterFacts
<1>2. 0 \in Instances /\ Instances \subseteq Nat
  BY DEF Instances
<1>3. TypeOK
  BY <1>1, <1>2 DEF TypeOK, BarrierType, Phases
<1>4. WaitersInv /\ IdsInv
  BY <1>1, <1>2 DEF WaitersInv, IdsInv, In, Instances
<1>5. Live = {0} /\ In({"waiting"}) = {}
  BY <1>2 DEF Live, In
<1>6. CountersAgree
  BY <1>1, <1>5, FS_Singleton, FS_EmptySet DEF CountersAgree, IsPending
<1>7. OneLeader /\ ElectionIsComplete
  BY <1>2 DEF OneLeader, ElectionIsComplete, In
<1>8. QED
  BY <1>3, <1>4, <1>6, <1>7 DEF IInv

(* An instance that is its own leader. *)
LEMMA WaitAloneIInv ==
    ASSUME IInv, NEW i \in Instances, WaitAlone(i)
    PROVE  IInv'
<1> USE DEF IInv, WaitAlone
<1>1. phase \in [Instances -> Phases] /\ phase' = [phase EXCEPT ![i] = "leader"]
  BY DEF TypeOK
<1>2. TypeOK'
  BY <1>1 DEF TypeOK, Phases
<1>3. In({"waiting"})' = In({"waiting"}) /\ Live' = Live
  BY <1>1 DEF In, Live
<1>4. WaitersInv' /\ IdsInv'
  BY <1>1, <1>3 DEF WaitersInv, IdsInv, Phases
<1>5. CountersAgree'
  BY <1>3 DEF CountersAgree
<1>6. Live = {i}
  <2>1. i \in Live
    BY <1>1 DEF Live, In
  <2>2. {i} \in SUBSET Live /\ Live \in SUBSET Instances
    BY <2>1 DEF Live
  <2>3. Cardinality(Live) = 1 /\ IsFiniteSet(Live) /\ Cardinality({i}) = 1
    BY <2>2, InstancesFinite, FS_Singleton DEF CountersAgree
  <2>4. QED
    BY <2>2, <2>3, FS_Subset
<1>7. \A j \in Instances : j # i => phase[j] = "absent"
  BY <1>6, <1>1 DEF Live, In
<1>8. held = {}
  BY <1>7, <1>1 DEF OneLeader, In
<1>9. OneLeader' /\ ElectionIsComplete'
  BY <1>1, <1>7, <1>8 DEF OneLeader, ElectionIsComplete, In
<1>10. QED
  BY <1>2, <1>4, <1>5, <1>9

(* What `Enter` does to the state. *)
LEMMA EnterFacts ==
    ASSUME IInv, NEW i \in Instances, phase[i] = "idle", bar.alive # 1
    PROVE  LET b == Enter(bar, i) IN
           /\ b \in BarrierType
           /\ b.alive = bar.alive /\ b.id_next = bar.id_next
           /\ b.arrived = Cardinality(In({"waiting"}) \cup {i})
           /\ b.arrived # 0
           /\ b.expected = b.alive
           /\ b.waiters = Append(bar.waiters, [id |-> i, open |-> TRUE])
<1> USE DEF IInv
<1>1. bar \in BarrierType /\ phase \in [Instances -> Phases]
  BY DEF TypeOK
<1>2. i \in Nat
  BY MaxInstancesAssumption DEF Instances
<1>3. i \notin In({"waiting"}) /\ In({"waiting"}) \in SUBSET Instances
  BY <1>1 DEF In
<1>4. Cardinality(In({"waiting"}) \cup {i}) = Cardinality(In({"waiting"})) + 1
  BY <1>3, InstancesFinite, FS_AddElement
<1>5. bar.arrived = Cardinality(In({"waiting"})) /\ bar.arrived \in Nat
  BY <1>1 DEF CountersAgree, BarrierType
<1>6. IsPending(bar) => bar.expected = bar.alive
  BY DEF CountersAgree
<1>7. QED
  BY <1>1, <1>2, <1>4, <1>5, <1>6, EnterFields DEF IsPending

(* An instance arrives and others are missing. *)
LEMMA WaitArriveIInv ==
    ASSUME IInv, NEW i \in Instances, WaitArrive(i)
    PROVE  IInv'
<1> USE DEF IInv, WaitArrive
<1>1. phase \in [Instances -> Phases] /\ phase' = [phase EXCEPT ![i] = "waiting"]
  BY DEF TypeOK
<1>2. /\ bar' \in BarrierType
      /\ bar'.alive = bar.alive /\ bar'.id_next = bar.id_next
      /\ bar'.arrived = Cardinality(In({"waiting"}) \cup {i})
      /\ bar'.expected = bar'.alive
      /\ bar'.waiters = Append(bar.waiters, [id |-> i, open |-> TRUE])
  BY EnterFacts
<1>3. TypeOK'
  BY <1>1, <1>2 DEF TypeOK, Phases
<1>4. In({"waiting"})' = In({"waiting"}) \cup {i} /\ Live' = Live
  BY <1>1 DEF In, Live
<1>5. WaitersInv'
  <2>1. bar.waiters \in Seq(Waiter)
    BY DEF TypeOK, BarrierType
  <2>2. DOMAIN bar'.waiters = DOMAIN bar.waiters \cup {Len(bar.waiters) + 1}
    BY <1>2, <2>1
  <2>3. \A k \in DOMAIN bar.waiters : bar'.waiters[k] = bar.waiters[k]
    BY <1>2, <2>1
  <2>4. bar'.waiters[Len(bar.waiters) + 1] = [id |-> i, open |-> TRUE]
    BY <1>2, <2>1
  <2>5. i \notin In({"waiting"})
    BY <1>1 DEF In
  <2>6. QED
    BY <1>4, <2>2, <2>3, <2>4, <2>5 DEF WaitersInv
<1>6. IdsInv'
  BY <1>1, <1>2 DEF IdsInv
<1>7. CountersAgree'
  BY <1>2, <1>4 DEF CountersAgree
<1>8. In({"elected"}) = {}
  BY <1>1 DEF ElectionIsComplete, In, Live
<1>9. OneLeader' /\ ElectionIsComplete'
  BY <1>1, <1>8 DEF OneLeader, ElectionIsComplete, In
<1>10. QED
  BY <1>3, <1>5, <1>6, <1>7, <1>9

(* The last instance arrives: the round is complete, so the waiters are    *)
(* all the live instances, each once, and the highest id becomes leader.   *)
LEMMA WaitLastIInv ==
    ASSUME IInv, NEW i \in Instances, WaitLast(i)
    PROVE  IInv'
<1> DEFINE b == Enter(bar, i)
           W == In({"waiting"}) \cup {i}
           L == LeaderOf(b).id
<1>1. /\ phase \in [Instances -> Phases] /\ phase[i] = "idle" /\ bar.alive # 1
      /\ bar.waiters \in Seq(Waiter) /\ bar \in BarrierType
      /\ held \subseteq Instances
  BY DEF IInv, TypeOK, BarrierType, WaitLast
<1>2. /\ b \in BarrierType
      /\ b.alive = bar.alive /\ b.id_next = bar.id_next
      /\ b.arrived = Cardinality(W)
      /\ b.expected = b.alive
      /\ b.waiters = Append(bar.waiters, [id |-> i, open |-> TRUE])
  BY <1>1, EnterFacts
<1>3. W = Live
  <2>1. W \in SUBSET Live /\ Live \in SUBSET Instances
    BY <1>1 DEF Live, In
  <2>2. Cardinality(W) = Cardinality(Live)
    BY <1>2 DEF WaitLast, IsReady, IInv, CountersAgree
  <2>3. QED
    BY <2>1, <2>2, InstancesFinite, FS_Subset
<1>4. /\ \A k \in DOMAIN b.waiters : b.waiters[k].open /\ b.waiters[k].id \in W
      /\ \A j \in W : \E k \in DOMAIN b.waiters : b.waiters[k].id = j
      /\ \A k, m \in DOMAIN b.waiters : b.waiters[k].id = b.waiters[m].id => k = m
  <2>1. DOMAIN b.waiters = DOMAIN bar.waiters \cup {Len(bar.waiters) + 1}
    BY <1>1, <1>2
  <2>2. \A k \in DOMAIN bar.waiters : b.waiters[k] = bar.waiters[k]
    BY <1>1, <1>2
  <2>3. b.waiters[Len(bar.waiters) + 1] = [id |-> i, open |-> TRUE]
    BY <1>1, <1>2
  <2>4. i \notin In({"waiting"})
    BY <1>1 DEF In
  <2> HIDE DEF b
  <2>5. QED
    BY <2>1, <2>2, <2>3, <2>4 DEF IInv, WaitersInv
<1>5. b.waiters \in Seq(Waiter) /\ b.waiters # << >> /\ W \subseteq Instances
  <2>1. b.waiters \in Seq(Waiter)
    BY <1>2 DEF BarrierType
  <2>2. b.waiters # << >>
    BY <1>4
  <2>3. QED
    BY <2>1, <2>2 DEF In
<1>6. /\ LeaderIndex(b) \in DOMAIN b.waiters
      /\ \A m \in DOMAIN b.waiters :
           \/ b.waiters[m].id < b.waiters[LeaderIndex(b)].id
           \/ b.waiters[m].id = b.waiters[LeaderIndex(b)].id /\ m <= LeaderIndex(b)
  <2> HIDE DEF b, W
  <2>1. QED
    BY <1>4, <1>5, LeaderExists
<1>7. L \in Live /\ Followers(b) = Live \ {L} /\ \A j \in Live \ {L} : j < L
  <2> HIDE DEF b, W
  <2>1. L = b.waiters[LeaderIndex(b)].id
    BY DEF LeaderOf
  <2>2. QED
    BY <1>3, <1>4, <1>6, <2>1 DEF Followers
<1>8. /\ bar' = Cleared(b) /\ held' = Live \ {L}
      /\ phase' = [j \in Instances |-> IF j = L THEN "elected"
                                       ELSE IF j \in Live \ {L} THEN "parked" ELSE phase[j]]
  BY <1>1, <1>7 DEF WaitLast
<1> HIDE DEF b, L, W
<1>9. /\ bar' \in BarrierType /\ bar'.alive = bar.alive /\ bar'.id_next = bar.id_next
      /\ bar'.arrived = 0 /\ bar'.waiters = << >>
  BY <1>2, <1>8, ClearedFacts
<1>10. TypeOK'
  BY <1>1, <1>8, <1>9 DEF TypeOK, Phases, Live
<1>11. Live' = Live /\ In({"waiting"})' = {} /\ L \in Instances
  BY <1>1, <1>7, <1>8 DEF Live, In
<1>12. WaitersInv'
  BY <1>9, <1>11 DEF WaitersInv
<1>13. IdsInv'
  BY <1>1, <1>8, <1>9, <1>7 DEF IdsInv, IInv, Live, In
<1>14. CountersAgree'
  BY <1>9, <1>11, FS_EmptySet DEF CountersAgree, IInv, IsPending
<1>15. /\ In({"parked"})' = Live \ {L}
       /\ In({"elected"})' = {L} /\ In({"elected", "leader"})' = {L}
  BY <1>1, <1>8, <1>11, <1>7 DEF In, Live
<1>16. OneLeader'
  BY <1>8, <1>15 DEF OneLeader
<1>17. ElectionIsComplete'
  BY <1>7, <1>8, <1>11, <1>15 DEF ElectionIsComplete, Live
<1>18. QED
  BY <1>10, <1>12, <1>13, <1>14, <1>16, <1>17 DEF IInv

(* `wait` returns. *)
LEMMA WaitReturnIInv ==
    ASSUME IInv, NEW i \in Instances, WaitReturn(i)
    PROVE  IInv'
<1> USE DEF IInv, WaitReturn
<1>1. /\ phase \in [Instances -> Phases] /\ phase[i] \in {"elected", "released"}
      /\ phase' = [phase EXCEPT ![i] = IF phase[i] = "elected" THEN "leader" ELSE "idle"]
  BY DEF TypeOK
<1>2. TypeOK'
  BY <1>1 DEF TypeOK, Phases
<1>3. /\ In({"waiting"})' = In({"waiting"}) /\ Live' = Live
      /\ In({"elected", "leader"})' = In({"elected", "leader"})
      /\ In({"parked"})' = In({"parked"})
      /\ In({"elected"})' \subseteq In({"elected"})
  BY <1>1 DEF In, Live
<1>4. WaitersInv' /\ CountersAgree' /\ OneLeader'
  BY <1>3 DEF WaitersInv, CountersAgree, OneLeader
<1>5. IdsInv'
  BY <1>1 DEF IdsInv
<1>6. ElectionIsComplete'
  BY <1>1, <1>3 DEF ElectionIsComplete
<1>7. QED
  BY <1>2, <1>4, <1>5, <1>6

(* The leader lets its waiters go. *)
LEMMA ProceedIInv ==
    ASSUME IInv, NEW i \in Instances, Proceed(i)
    PROVE  IInv'
<1> USE DEF IInv, Proceed
<1>1. /\ phase \in [Instances -> Phases] /\ phase[i] = "leader"
      /\ \A j \in held : j \in Instances /\ phase[j] = "parked"
  BY DEF TypeOK, OneLeader, In
<1>2. TypeOK'
  BY <1>1 DEF TypeOK, Phases
<1>3. /\ In({"waiting"})' = In({"waiting"}) /\ Live' = Live
  BY <1>1 DEF In, Live
<1>4. In({"elected", "leader"})' = {} /\ In({"parked"})' = {} /\ In({"elected"})' = {}
  BY <1>1 DEF In, OneLeader
<1>5. WaitersInv' /\ CountersAgree'
  BY <1>3 DEF WaitersInv, CountersAgree
<1>6. IdsInv'
  BY <1>1 DEF IdsInv
<1>7. OneLeader' /\ ElectionIsComplete'
  BY <1>4 DEF OneLeader, ElectionIsComplete
<1>8. QED
  BY <1>2, <1>5, <1>6, <1>7

(* Between rounds a new clone takes the next id. *)
LEMMA CloneIInv ==
    ASSUME IInv, NEW i \in Instances, Clone(i)
    PROVE  IInv'
<1> DEFINE n == bar.id_next
<1>1. /\ phase \in [Instances -> Phases] /\ bar \in BarrierType
      /\ phase[i] \in {"idle", "leader"} /\ ~IsPending(bar)
      /\ bar' = Register(bar) /\ phase' = [phase EXCEPT ![n] = "idle"]
      /\ held' = held /\ held \subseteq Instances
  BY DEF IInv, TypeOK, Clone
<1>2. n \in Instances /\ phase[n] = "absent"
  BY <1>1, MaxInstancesAssumption DEF IInv, IdsInv, Clone, Instances, BarrierType
<1>3. /\ bar' \in BarrierType /\ bar'.alive = bar.alive + 1 /\ bar'.id_next = n + 1
      /\ bar'.arrived = bar.arrived /\ bar'.waiters = bar.waiters
  BY <1>1, RegisterFacts
<1> HIDE DEF n
<1>4. TypeOK'
  BY <1>1, <1>3 DEF TypeOK, Phases, IInv
<1>5. /\ In({"waiting"})' = In({"waiting"}) /\ Live' = Live \cup {n}
      /\ In({"parked"})' = In({"parked"}) /\ In({"elected"})' = In({"elected"})
      /\ In({"elected", "leader"})' = In({"elected", "leader"})
  BY <1>1, <1>2 DEF In, Live
<1>6. WaitersInv' /\ OneLeader'
  BY <1>1, <1>3, <1>5 DEF WaitersInv, OneLeader, IInv
<1>7. IdsInv'
  <2>1. n \in 0 .. MaxInstances - 1 /\ \A j \in Instances : j >= n => phase[j] = "absent"
    BY <1>2 DEF Instances, IInv, IdsInv, n
  <2>2. \A j \in Instances : j >= n + 1 => j >= n /\ j # n
    BY <2>1, MaxInstancesAssumption DEF Instances
  <2>3. n + 1 \in 0 .. MaxInstances
    BY <2>1, MaxInstancesAssumption
  <2>4. QED
    BY <1>1, <1>3, <2>1, <2>2, <2>3 DEF IdsInv
<1>8. Cardinality(Live \cup {n}) = Cardinality(Live) + 1
  <2>1. n \notin Live /\ Live \in SUBSET Instances
    BY <1>2 DEF Live, In
  <2>2. QED
    BY <2>1, InstancesFinite, FS_AddElement
<1>9. CountersAgree'
  BY <1>1, <1>3, <1>5, <1>8 DEF CountersAgree, IInv, IsPending
<1>10. In({"elected"}) = {}
  BY <1>1 DEF ElectionIsComplete, IInv, In, Live
<1>11. ElectionIsComplete'
  BY <1>5, <1>10 DEF ElectionIsComplete
<1>12. QED
  BY <1>4, <1>6, <1>7, <1>9, <1>11 DEF IInv

(* An instance that is not inside `wait` is dropped, at any time. *)
LEMMA DropInstanceIInv ==
    ASSUME IInv, NEW i \in Instances, DropInstance(i)
    PROVE  IInv'
<1>1. /\ phase \in [Instances -> Phases] /\ bar \in BarrierType
      /\ phase[i] = "idle" /\ bar' = Deregister(bar)
      /\ phase' = [phase EXCEPT ![i] = "absent"]
      /\ held' = held /\ held \subseteq Instances
  BY DEF IInv, TypeOK, DropInstance
<1>2. i \in Live /\ Live \in SUBSET Instances
  BY <1>1 DEF Live, In
<1>3. /\ Cardinality(Live \ {i}) = Cardinality(Live) - 1
      /\ Cardinality(Live) \in Nat /\ Cardinality(Live \ {i}) \in Nat
  <2>1. Live \ {i} \in SUBSET Instances
    BY <1>2
  <2>2. QED
    BY <1>2, <2>1, InstancesFinite, FS_RemoveElement
<1>4. bar.alive = Cardinality(Live) /\ bar.alive > 0 /\ (IsPending(bar) => bar.expected = bar.alive)
  BY <1>3 DEF IInv, CountersAgree
<1>5. /\ bar' \in BarrierType /\ bar'.alive = bar.alive - 1 /\ bar'.id_next = bar.id_next
      /\ bar'.arrived = bar.arrived /\ bar'.waiters = bar.waiters
      /\ (IsPending(bar) => bar'.expected = bar'.alive)
  BY <1>1, <1>4, DeregisterFacts
<1>6. TypeOK'
  BY <1>1, <1>5 DEF TypeOK, Phases, IInv
<1>7. /\ In({"waiting"})' = In({"waiting"}) /\ Live' = Live \ {i}
      /\ In({"parked"})' = In({"parked"}) /\ In({"elected"})' = In({"elected"})
      /\ In({"elected", "leader"})' = In({"elected", "leader"})
  BY <1>1 DEF In, Live
<1>8. WaitersInv' /\ OneLeader'
  BY <1>1, <1>5, <1>7 DEF WaitersInv, OneLeader, IInv
<1>9. IdsInv'
  BY <1>1, <1>5 DEF IdsInv, IInv
<1>10. CountersAgree'
  BY <1>3, <1>4, <1>5, <1>7 DEF CountersAgree, IInv, IsPending
<1>11. In({"elected"}) = {}
  BY <1>1, <1>2 DEF ElectionIsComplete, IInv, In, Live
<1>12. ElectionIsComplete'
  BY <1>7, <1>11 DEF ElectionIsComplete
<1>13. QED
  BY <1>6, <1>8, <1>9, <1>10, <1>12 DEF IInv

(* Every step of the barrier preserves the invariant. *)
LEMMA NextDropIInv == IInv /\ [NextDrop]_vars => IInv'
<1> SUFFICES ASSUME IInv, [NextDrop]_vars PROVE IInv'
  OBVIOUS
<1>1. ASSUME NEW i \in Instances, Step(i) PROVE IInv'
  BY <1>1, WaitAloneIInv, WaitArriveIInv, WaitLastIInv, WaitReturnIInv, ProceedIInv,
     CloneIInv, DropInstanceIInv DEF Step, DropBetweenRounds
<1>2. ASSUME NEW i \in Instances, DropDuringRound(i) PROVE IInv'
  BY <1>2, DropInstanceIInv DEF DropDuringRound
<1>3. ASSUME UNCHANGED vars PROVE IInv'
  BY <1>3 DEF vars, IInv, TypeOK, WaitersInv, IdsInv, CountersAgree, OneLeader,
              ElectionIsComplete, In, Live, IsPending
<1>4. QED
  BY <1>1, <1>2, <1>3 DEF NextDrop, Next, AllDropped

(* Whatever is dropped, and whenever: nobody is elected before every live  *)
(* instance has arrived, there is one leader and exactly its waiters are   *)
(* parked, and the counters of `State` count what they say.                *)
THEOREM BarrierSafety ==
    SpecDrop => [](TypeOK /\ ElectionIsComplete /\ OneLeader /\ CountersAgree)
<1>1. IInv => TypeOK /\ ElectionIsComplete /\ OneLeader /\ CountersAgree
  BY DEF IInv
<1>2. QED
  BY <1>1, InitIInv, NextDropIInv, PTL DEF SpecDrop
-----------------------------------------------------------------------------
(* When nothing is dropped during a round, a round in progress always      *)
(* misses someone.                                                         *)
Incomplete == IsPending(bar) => bar.arrived < bar.alive

(* No step of the disciplined specification completes a round unnoticed. *)
LEMMA NextIncomplete ==
    ASSUME IInv, Incomplete, [Next]_vars
    PROVE  Incomplete'
<1>1. bar \in BarrierType /\ bar.arrived \in Nat /\ bar.alive \in Nat
  BY DEF IInv, TypeOK, BarrierType
<1>2. ASSUME NEW i \in Instances, WaitArrive(i) PROVE Incomplete'
  <2> DEFINE W == In({"waiting"}) \cup {i}
  <2>1. /\ bar'.arrived = Cardinality(W) /\ bar'.alive = bar.alive /\ bar'.expected = bar'.alive
        /\ bar'.arrived # bar'.expected
    BY <1>2, EnterFacts DEF WaitArrive, IsReady
  <2>2. W \in SUBSET Live /\ Live \in SUBSET Instances /\ W \in SUBSET Instances
    BY <1>2 DEF WaitArrive, Live, In
  <2>3. Cardinality(W) <= Cardinality(Live) /\ Cardinality(W) \in Nat /\ Cardinality(Live) \in Nat
    BY <2>2, InstancesFinite, FS_Subset
  <2>4. bar.alive = Cardinality(Live)
    BY DEF IInv, CountersAgree
  <2> HIDE DEF W
  <2>5. QED
    BY <2>1, <2>3, <2>4 DEF Incomplete
<1>3. ASSUME NEW i \in Instances, WaitLast(i) PROVE Incomplete'
  <2>1. Enter(bar, i) \in BarrierType /\ bar' = Cleared(Enter(bar, i))
    BY <1>3, EnterFacts DEF WaitLast
  <2>2. QED
    BY <2>1, ClearedFacts DEF Incomplete, IsPending
<1>4. ASSUME NEW i \in Instances, Clone(i) PROVE Incomplete'
  BY <1>1, <1>4, RegisterFacts DEF Clone, Incomplete, IsPending
<1>5. ASSUME NEW i \in Instances, DropBetweenRounds(i) PROVE Incomplete'
  <2>1. bar'.arrived = bar.arrived
    BY <1>1, <1>5 DEF DropBetweenRounds, DropInstance, Deregister, BarrierType
  <2>2. QED
    BY <1>5, <2>1 DEF DropBetweenRounds, Incomplete, IsPending
<1>6. ASSUME UNCHANGED bar PROVE Incomplete'
  BY <1>6 DEF Incomplete, IsPending
<1>7. QED
  BY <1>2, <1>3, <1>4, <1>5, <1>6
     DEF Next, Step, WaitAlone, WaitReturn, Proceed, AllDropped, vars

(* The round is never complete and unopened: as long as no instance is     *)
(* dropped during a round, the instances never all wait for each other.    *)
THEOREM RoundsOpen == Spec => []NoStrandedRound
<1>1. Init => Incomplete
  BY EmptyFacts, RegisterFacts DEF Init, Incomplete, IsPending
<1>2. IInv /\ [Next]_vars => IInv'
  BY NextDropIInv DEF NextDrop
<1>3. IInv /\ Incomplete => NoStrandedRound
  <2> SUFFICES ASSUME IInv, Incomplete, IsPending(bar), \A i \in Live : phase[i] = "waiting"
               PROVE  FALSE
    BY DEF NoStrandedRound
  <2>1. In({"waiting"}) = Live
    BY DEF In, Live
  <2>2. bar.arrived = bar.alive /\ bar.arrived < bar.alive /\ bar.alive \in Nat
    BY <2>1 DEF IInv, CountersAgree, Incomplete, TypeOK, BarrierType
  <2>3. QED
    BY <2>2
<1>4. QED
  BY <1>1, <1>2, <1>3, InitIInv, NextIncomplete, PTL DEF Spec
=============================================================================
