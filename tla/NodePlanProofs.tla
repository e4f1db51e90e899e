--------------------------- MODULE NodePlanProofs ---------------------------
(***************************************************************************)
(* What the operators of NodePlan and NodeScope return, for any pods,      *)
(* nodes, groups and waits: facts that the proofs about NodeRounds and     *)
(* NodeSequence rest on.                                                   *)
(***************************************************************************)
EXTENDS NodeScope, FiniteSetTheorems, TLAPS

-----------------------------------------------------------------------------
(* The least and the greatest element.                                     *)

\* A set of naturals that is not empty has a least element: of the intervals from 0 to
\* one of its elements, one contains no other.
LEMMA MinOfNaturals ==
  ASSUME NEW S \in SUBSET Nat, S # {}
  PROVE  Min(S) \in S /\ \A x \in S : Min(S) <= x
<1> DEFINE Below == {0 .. x : x \in S}
<1>1. IsWellFoundedOn(StrictSubsetOrdering(Nat), FiniteSubsetsOf(Nat))
  BY FS_StrictSubsetOrderingWellFounded
<1>2. Below \subseteq FiniteSubsetsOf(Nat)
  <2> SUFFICES ASSUME NEW x \in S PROVE 0 .. x \in FiniteSubsetsOf(Nat)
    OBVIOUS
  <2>1. IsFiniteSet(0 .. x)
    BY FS_Interval
  <2> QED BY <2>1 DEF FiniteSubsetsOf
<1>3. Below # {}
  OBVIOUS
<1>4. PICK b \in Below : \A c \in Below : <<c, b>> \notin StrictSubsetOrdering(Nat)
  <2> HIDE DEF Below
  <2> QED BY <1>1, <1>2, <1>3, WFMin
<1>5. PICK m \in S : b = 0 .. m
  BY <1>4
<1>6. \A x \in S : m <= x
  <2> SUFFICES ASSUME NEW x \in S, x < m PROVE FALSE
    OBVIOUS
  <2>1. 0 .. x \subseteq 0 .. m /\ m \in 0 .. m /\ m \notin 0 .. x /\ 0 .. m \subseteq Nat
    OBVIOUS
  <2>2. <<0 .. x, 0 .. m>> \in StrictSubsetOrdering(Nat)
    BY <2>1 DEF StrictSubsetOrdering
  <2> QED BY <1>4, <1>5, <2>2
<1>7. \E x \in S : \A y \in S : x <= y
  BY <1>6
<1> QED BY <1>7 DEF Min

\* A set of naturals with an upper bound has a greatest element.
LEMMA MaxOfNaturals ==
  ASSUME NEW S \in SUBSET Nat, S # {}, NEW N \in Nat, \A x \in S : x <= N
  PROVE  Max(S) \in S /\ \A x \in S : x <= Max(S)
<1> DEFINE D == {N - x : x \in S}
<1>1. D \in SUBSET Nat /\ D # {}
  <2>1. \A x \in S : x \in Nat /\ x <= N
    OBVIOUS
  <2>2. \A x \in S : N - x \in Nat
    BY <2>1
  <2> QED BY <2>2
<1>2. Min(D) \in D /\ \A d \in D : Min(D) <= d
  <2> HIDE DEF D
  <2> QED BY <1>1, MinOfNaturals
<1>3. PICK m \in S : Min(D) = N - m
  BY <1>2
<1>4. \A x \in S : x <= m
  <2> SUFFICES ASSUME NEW x \in S PROVE x <= m
    OBVIOUS
  <2>1. N - m <= N - x
    BY <1>2, <1>3
  <2>2. x \in Nat /\ m \in Nat
    OBVIOUS
  <2> QED BY <2>1, <2>2
<1>5. \E x \in S : \A y \in S : x >= y
  BY <1>4
<1> QED BY <1>5 DEF Max

\* So has a finite set of naturals: of the sets of what is greater than one of its
\* elements, one contains no other.
LEMMA MaxOfFinite ==
  ASSUME NEW S \in SUBSET Nat, S # {}, IsFiniteSet(S)
  PROVE  Max(S) \in S /\ \A x \in S : x <= Max(S)
<1> DEFINE Above(x) == {y \in S : y > x}
           Aboves == {Above(x) : x \in S}
<1>1. IsWellFoundedOn(StrictSubsetOrdering(S), FiniteSubsetsOf(S))
  BY FS_StrictSubsetOrderingWellFounded
<1>2. Aboves \subseteq FiniteSubsetsOf(S)
  <2> SUFFICES ASSUME NEW x \in S PROVE Above(x) \in FiniteSubsetsOf(S)
    OBVIOUS
  <2>1. Above(x) \subseteq S /\ IsFiniteSet(Above(x))
    BY FS_Subset
  <2> QED BY <2>1 DEF FiniteSubsetsOf
<1>3. Aboves # {}
  OBVIOUS
<1>4. PICK b \in Aboves : \A c \in Aboves : <<c, b>> \notin StrictSubsetOrdering(S)
  <2> HIDE DEF Aboves
  <2> QED BY <1>1, <1>2, <1>3, WFMin
<1>5. PICK m \in S : b = Above(m)
  BY <1>4
<1>6. \A x \in S : m >= x
  <2> SUFFICES ASSUME NEW x \in S, m < x PROVE FALSE
    OBVIOUS
  <2>1. Above(x) \subseteq Above(m) /\ x \in Above(m) /\ x \notin Above(x) /\ Above(m) \subseteq S
    <3>1. \A y \in S : y \in Nat
      OBVIOUS
    <3>2. \A y \in S : y > x => y > m
      BY <3>1
    <3>3. x > m /\ ~(x > x)
      BY <3>1
    <3> QED BY <3>2, <3>3
  <2>2. <<Above(x), Above(m)>> \in StrictSubsetOrdering(S)
    <3> HIDE DEF Above
    <3> QED BY <2>1 DEF StrictSubsetOrdering
  <2> QED BY <1>4, <1>5, <2>2
<1>7. \E x \in S : \A y \in S : x >= y
  BY <1>6
<1>8. Max(S) \in S /\ \A y \in S : Max(S) >= y
  BY <1>7 DEF Max
<1> QED BY <1>8

-----------------------------------------------------------------------------
(* Pods.                                                                   *)

\* A pod belongs to one of the groups that match it, or to none.
LEMMA GroupIndexType ==
  ASSUME NEW p \in Pod
  PROVE  /\ GroupIndexForPod[p] \in Group \union {NoGroup}
         /\ GroupIndexForPod[p] # NoGroup => GroupIndexForPod[p] \in Matches[p]
<1>1. Matches[p] \subseteq Group /\ Group \subseteq Nat
  BY PlanAssumption DEF PlanAssumption, Group
<1>2. CASE Matches[p] = {}
  BY <1>2 DEF GroupIndexForPod
<1>3. CASE Matches[p] # {}
  <2>1. Min(Matches[p]) \in Matches[p]
    BY <1>1, <1>3, MinOfNaturals
  <2> QED BY <1>1, <1>3, <2>1 DEF GroupIndexForPod
<1> QED BY <1>2, <1>3

\* A pod is pinned to a node that all its terms name, or to none.
LEMMA PinnedToType ==
  ASSUME NEW p \in Pod
  PROVE  /\ PinnedTo[p] \in Node \union {None}
         /\ PinnedTo[p] # None => Terms[p] = {PinnedTo[p]}
BY DEF PinnedTo

-----------------------------------------------------------------------------
(* Groups on a node.                                                       *)

\* ReadyRemaining is at most the waitDuration.
LEMMA ReadyRemainingType ==
  ASSUME NEW v, NEW p \in Pod, NEW g \in Group, v.pod[p].age \in Nat
  PROVE  ReadyRemaining(v, p, Wait[g]) \in 0 .. Wait[g]
BY PlanAssumption DEF PlanAssumption, ReadyRemaining

\* A group that only its waitDuration keeps from being satisfied has some of it left,
\* and not more than all of it; no pod of the group has more of it left than that.
LEMMA RemainingBounds ==
  ASSUME NEW v, NEW n, NEW g \in Group, \A p \in Pod : v.pod[p].age \in Nat
  PROVE  /\ Remaining(v, n, g) \in 0 .. Wait[g]
         /\ \A p \in PodsHere(v, n, g) : ReadyRemaining(v, p, Wait[g]) <= Remaining(v, n, g)
         /\ Running(v, n, g) /\ ~GroupSatisfiedOnNode(v, n, g) => Remaining(v, n, g) > 0
         /\ Remaining(v, n, g) > 0
               => \E p \in PodsHere(v, n, g) : Remaining(v, n, g) = ReadyRemaining(v, p, Wait[g])
<1> DEFINE R == {ReadyRemaining(v, p, Wait[g]) : p \in PodsHere(v, n, g)}
<1>1. Wait[g] \in Nat /\ \A p \in PodsHere(v, n, g) : ReadyRemaining(v, p, Wait[g]) \in 0 .. Wait[g]
  BY ReadyRemainingType, PlanAssumption DEF PlanAssumption, PodsHere
<1>2. {0} \union R \in SUBSET Nat /\ {0} \union R # {} /\ \A x \in {0} \union R : x <= Wait[g]
  BY <1>1
<1>3. Max({0} \union R) \in {0} \union R /\ \A x \in {0} \union R : x <= Max({0} \union R)
  <2> HIDE DEF R
  <2> QED BY <1>1, <1>2, MaxOfNaturals
<1>4. Remaining(v, n, g) = Max({0} \union R)
  BY DEF Remaining
<1>5. Remaining(v, n, g) \in {0} \union R
  BY <1>3, <1>4
<1>6. \A p \in PodsHere(v, n, g) : ReadyRemaining(v, p, Wait[g]) <= Remaining(v, n, g)
  BY <1>3, <1>4
<1>7. Remaining(v, n, g) \in 0 .. Wait[g]
  BY <1>1, <1>5
<1>8. ASSUME Running(v, n, g), ~GroupSatisfiedOnNode(v, n, g)
      PROVE  Remaining(v, n, g) > 0
  <2>1. PICK p \in PodsHere(v, n, g) : ReadyRemaining(v, p, Wait[g]) # 0
    BY <1>8 DEF GroupSatisfiedOnNode
  <2> QED BY <1>1, <1>6, <1>7, <2>1
<1>9. Remaining(v, n, g) > 0
         => \E p \in PodsHere(v, n, g) : Remaining(v, n, g) = ReadyRemaining(v, p, Wait[g])
  BY <1>5
<1> QED BY <1>6, <1>7, <1>8, <1>9

\* Satisfied is what its description says: every group before it is satisfied, and the
\* group of that number is not, if there is one.
LEMMA SatisfiedIs ==
  ASSUME NEW v, NEW n
  PROVE  /\ Satisfied(v, n) \in 0 .. NumGroups
         /\ \A g \in 0 .. Satisfied(v, n) - 1 : GroupSatisfiedOnNode(v, n, g)
         /\ Satisfied(v, n) < NumGroups => ~GroupSatisfiedOnNode(v, n, Satisfied(v, n))
<1> DEFINE Missing == {g \in Group : ~GroupSatisfiedOnNode(v, n, g)}
           Good(k) == /\ \A g \in 0 .. k - 1 : GroupSatisfiedOnNode(v, n, g)
                      /\ k < NumGroups => ~GroupSatisfiedOnNode(v, n, k)
<1>1. NumGroups \in Nat
  BY PlanAssumption DEF PlanAssumption
<1>2. \E k \in 0 .. NumGroups : Good(k)
  <2>1. CASE Missing = {}
    <3>1. Good(NumGroups)
      BY <1>1, <2>1 DEF Group
    <3> QED BY <1>1, <3>1
  <2>2. CASE Missing # {}
    <3>1. Missing \in SUBSET Nat
      BY <1>1 DEF Group
    <3>2. Min(Missing) \in Missing /\ \A x \in Missing : Min(Missing) <= x
      <4> HIDE DEF Missing
      <4> QED BY <2>2, <3>1, MinOfNaturals
    <3> DEFINE k == Min(Missing)
    <3>3. k \in Group /\ ~GroupSatisfiedOnNode(v, n, k)
      BY <3>2
    <3>4. \A g \in 0 .. k - 1 : g \in Group /\ g < k
      BY <1>1, <3>3 DEF Group
    <3>5. \A g \in 0 .. k - 1 : GroupSatisfiedOnNode(v, n, g)
      <4> SUFFICES ASSUME NEW g \in 0 .. k - 1, ~GroupSatisfiedOnNode(v, n, g) PROVE FALSE
        OBVIOUS
      <4>1. g \in Missing
        BY <3>4
      <4>2. k <= g
        BY <3>2, <4>1
      <4> QED BY <1>1, <3>3, <3>4, <4>2 DEF Group
    <3>6. k \in 0 .. NumGroups
      BY <1>1, <3>3 DEF Group
    <3> QED BY <3>3, <3>5, <3>6
  <2> QED BY <2>1, <2>2
<1>3. Satisfied(v, n) = CHOOSE k \in 0 .. NumGroups : Good(k)
  BY DEF Satisfied
<1>4. Satisfied(v, n) \in 0 .. NumGroups /\ Good(Satisfied(v, n))
  <2> HIDE DEF Good
  <2> QED BY <1>2, <1>3
<1> QED BY <1>4

\* A node has at least k satisfied groups exactly when each of the first k is satisfied.
LEMMA SatisfiedAtLeast ==
  ASSUME NEW v, NEW n, NEW k \in 0 .. NumGroups
  PROVE  Satisfied(v, n) >= k <=> \A g \in 0 .. k - 1 : GroupSatisfiedOnNode(v, n, g)
<1>1. NumGroups \in Nat
  BY PlanAssumption DEF PlanAssumption
<1> DEFINE s == Satisfied(v, n)
<1>2. /\ s \in 0 .. NumGroups
      /\ \A g \in 0 .. s - 1 : GroupSatisfiedOnNode(v, n, g)
      /\ s < NumGroups => ~GroupSatisfiedOnNode(v, n, s)
  BY SatisfiedIs
<1> HIDE DEF s
<1>3. ASSUME s >= k, NEW g \in 0 .. k - 1 PROVE GroupSatisfiedOnNode(v, n, g)
  BY <1>1, <1>2, <1>3
<1>4. ASSUME s < k PROVE s \in 0 .. k - 1 /\ ~GroupSatisfiedOnNode(v, n, s)
  BY <1>1, <1>2, <1>4
<1>5. s >= k <=> \A g \in 0 .. k - 1 : GroupSatisfiedOnNode(v, n, g)
  BY <1>1, <1>2, <1>3, <1>4
<1> QED BY <1>5 DEF s

\* Only one number fits that description.
LEMMA SatisfiedUnique ==
  ASSUME NEW v, NEW n, NEW k \in 0 .. NumGroups,
         \A g \in 0 .. k - 1 : GroupSatisfiedOnNode(v, n, g),
         k < NumGroups => ~GroupSatisfiedOnNode(v, n, k)
  PROVE  Satisfied(v, n) = k
<1>1. NumGroups \in Nat
  BY PlanAssumption DEF PlanAssumption
<1> DEFINE s == Satisfied(v, n)
<1>2. /\ s \in 0 .. NumGroups
      /\ \A g \in 0 .. s - 1 : GroupSatisfiedOnNode(v, n, g)
      /\ s < NumGroups => ~GroupSatisfiedOnNode(v, n, s)
  BY SatisfiedIs
<1> HIDE DEF s
<1>3. ~(s < k)
  <2> SUFFICES ASSUME s < k PROVE FALSE
    OBVIOUS
  <2>1. s \in 0 .. k - 1 /\ s < NumGroups
    BY <1>1, <1>2
  <2> QED BY <1>2, <2>1
<1>4. ~(k < s)
  <2> SUFFICES ASSUME k < s PROVE FALSE
    OBVIOUS
  <2>1. k \in 0 .. s - 1 /\ k < NumGroups
    BY <1>1, <1>2
  <2> QED BY <1>2, <2>1
<1>5. s = k
  BY <1>1, <1>2, <1>3, <1>4
<1> QED BY <1>5 DEF s

\* If two views show the same groups as satisfied on a node, it has the same number.
LEMMA SatisfiedSame ==
  ASSUME NEW v, NEW w, NEW n,
         \A g \in Group : GroupSatisfiedOnNode(v, n, g) <=> GroupSatisfiedOnNode(w, n, g)
  PROVE  Satisfied(v, n) = Satisfied(w, n)
<1>1. NumGroups \in Nat
  BY PlanAssumption DEF PlanAssumption
<1> DEFINE s == Satisfied(w, n)
<1>2. /\ s \in 0 .. NumGroups
      /\ \A g \in 0 .. s - 1 : GroupSatisfiedOnNode(w, n, g)
      /\ s < NumGroups => ~GroupSatisfiedOnNode(w, n, s)
  BY SatisfiedIs
<1> HIDE DEF s
<1>3. \A g \in 0 .. s - 1 : g \in Group
  BY <1>1, <1>2 DEF Group
<1>4. s < NumGroups => s \in Group
  BY <1>1, <1>2 DEF Group
<1>5. \A g \in 0 .. s - 1 : GroupSatisfiedOnNode(v, n, g)
  BY <1>2, <1>3
<1>6. s < NumGroups => ~GroupSatisfiedOnNode(v, n, s)
  BY <1>2, <1>4
<1>7. Satisfied(v, n) = s
  BY <1>2, <1>5, <1>6, SatisfiedUnique
<1> QED BY <1>7 DEF s

\* Pods without a group, and DaemonSets that no group selects, make no difference, nor
\* does anything of the node but its taints.
LEMMA SameGroups ==
  ASSUME NEW v, NEW w, NEW n, TaintsOn(v, n) = TaintsOn(w, n),
         \A p \in Pod : GroupIndexForPod[p] # NoGroup => v.pod[p] = w.pod[p],
         {d \in v.ds : Selects[d] # {}} = {d \in w.ds : Selects[d] # {}}
  PROVE  /\ \A g \in Group : /\ PodsHere(v, n, g) = PodsHere(w, n, g)
                             /\ Running(v, n, g) <=> Running(w, n, g)
                             /\ Remaining(v, n, g) = Remaining(w, n, g)
         /\ Satisfied(v, n) = Satisfied(w, n)
<1>1. ASSUME NEW g \in Group
      PROVE  /\ PodsHere(v, n, g) = PodsHere(w, n, g)
             /\ \A p \in PodsHere(v, n, g) : p \in Pod /\ v.pod[p] = w.pod[p]
             /\ DaemonSetsForGroup(v, g) = DaemonSetsForGroup(w, g)
             /\ \A d : DaemonSetExpectedOnNode(v, d, n) <=> DaemonSetExpectedOnNode(w, d, n)
  <2>1. g # NoGroup
    BY PlanAssumption DEF PlanAssumption, Group, NoGroup
  <2>2. \A p \in Pod : GroupIndexForPod[p] = g =>
           /\ v.pod[p] = w.pod[p] /\ IsActive(v, p) = IsActive(w, p)
           /\ TargetNode(v, p) = TargetNode(w, p)
    BY <2>1 DEF IsActive, TargetNode
  <2>3. PodsHere(v, n, g) = PodsHere(w, n, g)
    BY <2>2 DEF PodsHere
  <2>4. \A p \in PodsHere(v, n, g) : p \in Pod /\ v.pod[p] = w.pod[p]
    BY <2>2 DEF PodsHere
  <2>5. DaemonSetsForGroup(v, g) = DaemonSetsForGroup(w, g)
    BY DEF DaemonSetsForGroup
  <2> QED BY <2>3, <2>4, <2>5 DEF DaemonSetExpectedOnNode
<1>2. ASSUME NEW g \in Group, NEW p \in PodsHere(v, n, g), NEW wait
      PROVE  ReadyRemaining(v, p, wait) = ReadyRemaining(w, p, wait)
  BY <1>1, <1>2 DEF ReadyRemaining
<1>3. ASSUME NEW g \in Group PROVE Running(v, n, g) <=> Running(w, n, g)
  BY <1>1, <1>3 DEF Running
<1>4. ASSUME NEW g \in Group PROVE Remaining(v, n, g) = Remaining(w, n, g)
  <2>1. {ReadyRemaining(v, p, Wait[g]) : p \in PodsHere(v, n, g)}
          = {ReadyRemaining(w, p, Wait[g]) : p \in PodsHere(w, n, g)}
    BY <1>1, <1>2
  <2> QED BY <2>1 DEF Remaining
<1>5. ASSUME NEW g \in Group
      PROVE  GroupSatisfiedOnNode(v, n, g) <=> GroupSatisfiedOnNode(w, n, g)
  BY <1>1, <1>2, <1>3 DEF GroupSatisfiedOnNode
<1>6. Satisfied(v, n) = Satisfied(w, n)
  BY <1>5, SatisfiedSame
<1> QED BY <1>1, <1>3, <1>4, <1>6

-----------------------------------------------------------------------------
(* Gated pods.                                                             *)

\* A pod's target is a node, or none.
LEMMA TargetNodeType ==
  ASSUME NEW v, NEW p \in Pod, v.pod[p].on \in Node \union {None}
  PROVE  TargetNode(v, p) \in Node \union {None}
BY PinnedToType DEF TargetNode

\* A pod that has to wait is in a group, and waits for an earlier one on a participating
\* node.
LEMMA WaitsForAnEarlierGroup ==
  ASSUME NEW v, NEW p \in StillGated(v), v.pod[p].on \in Node \union {None}
  PROVE  /\ p \in Pod /\ HasGate(v, p) /\ p \notin Bypassed
         /\ GroupIndexForPod[p] \in Group
         /\ TargetNode(v, p) \in Node
         /\ Participating(v, TargetNode(v, p))
         /\ Satisfied(v, TargetNode(v, p)) < GroupIndexForPod[p]
<1>1. p \in Pod /\ HasGate(v, p) /\ GroupIndexForPod[p] # NoGroup /\ ~MayStart(v, p)
  BY DEF StillGated
<1>2. GroupIndexForPod[p] \in Group /\ NumGroups \in Nat
  BY <1>1, GroupIndexType, PlanAssumption DEF PlanAssumption
<1>3. /\ p \notin Bypassed /\ TargetNode(v, p) # None
      /\ Participating(v, TargetNode(v, p))
      /\ ~(Satisfied(v, TargetNode(v, p)) >= GroupIndexForPod[p])
  BY <1>1 DEF MayStart
<1>4. TargetNode(v, p) \in Node
  BY <1>1, <1>3, TargetNodeType
<1>5. Satisfied(v, TargetNode(v, p)) \in 0 .. NumGroups
  BY SatisfiedIs
<1>6. Satisfied(v, TargetNode(v, p)) < GroupIndexForPod[p]
  BY <1>2, <1>3, <1>5 DEF Group
<1> QED BY <1>1, <1>2, <1>3, <1>4, <1>6

\* What a pod gets are placement rules, and only one without a target gets any.
LEMMA ConstraintType ==
  ASSUME NEW v, NEW p, NEW method
  PROVE  /\ Constraint(v, p, method) \in SUBSET {"affinity", "tolerations"}
         /\ Constraint(v, p, method) # {} =>
               GroupIndexForPod[p] # NoGroup /\ TargetNode(v, p) = None
BY DEF Constraint

-----------------------------------------------------------------------------
(* When to look again.                                                     *)

\* No timer of the plan is at 0: what has run out is no longer waited for.
LEMMA TimersArePositive ==
  ASSUME NEW v, \A p \in Pod : v.pod[p].age \in Nat
  PROVE  Timers(v) \subseteq Nat \ {0}
<1>1. ASSUME NEW h \in HeldByWait(v) PROVE Remaining(v, h[1], h[2]) \in Nat \ {0}
  <2>1. h[1] \in Node /\ h[2] \in Group /\ h[2] = Satisfied(v, h[1]) /\ Running(v, h[1], h[2])
    BY <1>1 DEF HeldByWait
  <2>2. NumGroups \in Nat /\ Wait[h[2]] \in Nat
    BY <2>1, PlanAssumption DEF PlanAssumption
  <2>3. h[2] < NumGroups
    BY <2>1, <2>2 DEF Group
  <2>4. ~GroupSatisfiedOnNode(v, h[1], h[2])
    BY <2>1, <2>3, SatisfiedIs
  <2>5. Remaining(v, h[1], h[2]) \in 0 .. Wait[h[2]] /\ Remaining(v, h[1], h[2]) > 0
    BY <2>1, <2>4, RemainingBounds
  <2> QED BY <2>2, <2>5
<1>2. WaitTimers(v) \subseteq Nat \ {0}
  BY <1>1 DEF WaitTimers
<1>3. ASSUME GateTimeout # 0, NEW p \in StillGated(v) \ TimedOut(v)
      PROVE  GateTimeout - v.pod[p].age \in Nat \ {0}
  <2>1. p \in Pod /\ v.pod[p].age \in Nat /\ GateTimeout \in Nat
    BY PlanAssumption DEF PlanAssumption, StillGated
  <2>2. ~(v.pod[p].age >= GateTimeout)
    BY <1>3, <2>1 DEF TimedOut
  <2> QED BY <2>1, <2>2
<1> QED BY <1>2, <1>3 DEF Timers

\* "RequeueAfter" is never 0, which would mean never, nor later than the resync period
\* or than any of the times at which the plan may change by itself.
THEOREM RequeueInTime ==
  ASSUME NEW v, \A p \in Pod : v.pod[p].age \in Nat, NEW resync \in Nat \ {0}
  PROVE  /\ RequeueAfter(v, resync) \in 1 .. resync
         /\ \A t \in Timers(v) : RequeueAfter(v, resync) <= t
<1> DEFINE T == Timers(v) \union {resync}
<1>1. T \in SUBSET Nat /\ T # {} /\ T \subseteq Nat \ {0}
  BY TimersArePositive
<1>2. Min(T) \in T /\ \A x \in T : Min(T) <= x
  <2> HIDE DEF T
  <2> QED BY <1>1, MinOfNaturals
<1>3. RequeueAfter(v, resync) = Min(T)
  BY DEF RequeueAfter
<1>4. Min(T) \in Nat \ {0} /\ Min(T) <= resync
  BY <1>1, <1>2
<1>5. Min(T) \in 1 .. resync
  <2> HIDE DEF T
  <2> QED BY <1>4
<1>6. \A t \in Timers(v) : Min(T) <= t
  BY <1>2
<1> QED BY <1>3, <1>5, <1>6

\* A pod of group k tolerates a taint value, and its affinity matches a label, exactly
\* when the value says that the k groups before its own are satisfied: the two methods
\* steer alike.  (A released node has no taint, and its label is greater than any.)
THEOREM MethodsAgree ==
  ASSUME NEW k \in Group, NEW s \in 0 .. NumGroups
  PROVE  /\ EligibilityRequirement(k, s) <=> s >= k
         /\ s < NumGroups => (EligibilityTolerations(k, s) <=> s >= k)
<1>1. NumGroups \in Nat
  BY PlanAssumption DEF PlanAssumption
<1>2. k \in 0 .. NumGroups - 1 /\ s \in 0 .. NumGroups /\ s # Unset
  BY <1>1 DEF Group, Unset
<1>3. EligibilityRequirement(k, s) <=> s >= k
  BY <1>1, <1>2 DEF EligibilityRequirement
<1>4. s < NumGroups => (EligibilityTolerations(k, s) <=> s >= k)
  BY <1>1, <1>2 DEF EligibilityTolerations
<1> QED BY <1>3, <1>4

-----------------------------------------------------------------------------
(* NodeScope: labels, taints and status.                                   *)

\* The label and the taint that are wanted.  The taint goes when the last group is
\* satisfied, so that its value is always the number of a group.
LEMMA WantTypes ==
  ASSUME NEW v, NEW n, NEW method
  PROVE  /\ WantLabel(v, n, method) \in 0 .. NumGroups \union {Unset, ReleasedLabelValue}
         /\ WantTaint(v, n, method) \in Group \union {Unset}
<1>1. Satisfied(v, n) \in 0 .. NumGroups /\ NumGroups \in Nat
  BY SatisfiedIs, PlanAssumption DEF PlanAssumption
<1>2. Satisfied(v, n) < NumGroups => Satisfied(v, n) \in Group
  BY <1>1 DEF Group
<1> QED BY <1>1, <1>2 DEF WantLabel, WantTaint

\* The status that is computed.
LEMMA StatusType ==
  ASSUME NEW v, NEW method, \A p \in Pod : v.pod[p].on \in Node \union {None}
  PROVE  NodeScopedStatus(v, method) \in
             [phase : {"InProgress", "Active"}, idx : 0 .. NumGroups, satisfied : SUBSET Node,
              failed : SUBSET Node, gated : 0 .. Cardinality(Pod), degraded : BOOLEAN]
<1> DEFINE total == {n \in Node : Participating(v, n)}
           I == {NumGroups} \union {Satisfied(v, n) : n \in total}
<1>1. NumGroups \in Nat
  BY PlanAssumption DEF PlanAssumption
<1>2. I \in SUBSET Nat /\ I # {} /\ \A x \in I : x \in 0 .. NumGroups
  BY <1>1, SatisfiedIs
<1>3. Min(I) \in 0 .. NumGroups
  <2> HIDE DEF I
  <2> QED BY <1>2, MinOfNaturals
<1>4. StillGated(v) \subseteq Pod /\ TimedOut(v) \subseteq StillGated(v)
  BY DEF StillGated, TimedOut
<1>5. {TargetNode(v, p) : p \in TimedOut(v)} \subseteq Node
  BY <1>4, WaitsForAnEarlierGroup
<1>6. Cardinality(StillGated(v)) \in 0 .. Cardinality(Pod)
  <2>1. IsFiniteSet(StillGated(v)) /\ Cardinality(StillGated(v)) <= Cardinality(Pod)
    BY <1>4, FinitePods, FS_Subset
  <2>2. Cardinality(StillGated(v)) \in Nat /\ Cardinality(Pod) \in Nat
    BY <2>1, FinitePods, FS_CardinalityType
  <2> QED BY <2>1, <2>2
<1> QED BY <1>3, <1>5, <1>6 DEF NodeScopedStatus
=============================================================================
