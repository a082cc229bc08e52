-------------------------- MODULE HvpaPolicyProofs --------------------------
(***************************************************************************)
(* Facts about the scaling decision of HvpaPolicy, for every spec, target  *)
(* and status: what it may set, and which window and mode it respected.    *)
(***************************************************************************)
EXTENDS HvpaPolicy, TLAPS, FiniteSetTheorems, WellFoundedInduction

-----------------------------------------------------------------------------
(* Arithmetic. *)

\* A percentage of a difference lies between nothing and all of it.
LEMMA ShareBounds ==
    ASSUME NEW x \in Int, NEW w \in 0..100
    PROVE  /\ x * w \in Int
           /\ x >= 0 => 0 <= x * w /\ x * w <= 100 * x
           /\ x <= 0 => x * w <= 0 /\ 100 * x <= x * w
<1> DEFINE p == x * w
           q == x * (100 - w)
<1>1. p \in Int /\ q \in Int /\ p + q = 100 * x
  BY SMT
<1>2. x >= 0 => p >= 0 /\ q >= 0
  BY SMT
<1>3. x <= 0 => p <= 0 /\ q <= 0
  BY SMT
<1> HIDE DEF p, q
<1>4. /\ x >= 0 => 0 <= p /\ p <= 100 * x
      /\ x <= 0 => p <= 0 /\ 100 * x <= p
  BY <1>1, <1>2, <1>3, SMT
<1> QED
  BY <1>1, <1>4 DEF p

\* Min and Max of a non-empty set of indices are members of it.  The library's
\* order on finite sets is well-founded: 1..x is minimal for the least x.
LEMMA ExtremesOfIndices ==
    ASSUME NEW n \in Nat, NEW T \in SUBSET (1..n), T # {}
    PROVE  Min(T) \in T /\ Max(T) \in T
<1> DEFINE R == StrictSubsetOrdering(1..n)
<1>1. IsWellFoundedOn(R, SUBSET (1..n))
  <2>1. IsFiniteSet(1..n)
    BY FS_Interval
  <2> QED
    BY <2>1, FS_StrictSubsetOrderingWellFounded, FS_FiniteSubsetsOfFinite
<1>2. \E x \in T : \A y \in T : x <= y
  <2> DEFINE U == {1..x : x \in T}
  <2>1. U \subseteq SUBSET (1..n) /\ U # {}
    <3>1. \A x \in T : 1..x \subseteq 1..n
      OBVIOUS
    <3> QED
      BY <3>1, Zenon
  <2>2. PICK u \in U : \A v \in U : ~ (<<v, u>> \in R)
    BY <1>1, <2>1, WFMin
  <2>3. PICK x \in T : u = 1..x
    BY <2>2
  <2>4. ASSUME NEW y \in T, y < x PROVE FALSE
    <3>1. 1..y \in U /\ 1..y \subseteq u /\ 1..y # u
      BY <2>3, <2>4
    <3>2. <<1..y, u>> \in R
      BY <3>1, <2>1 DEF StrictSubsetOrdering
    <3> QED
      BY <3>1, <3>2, <2>2
  <2> QED
    BY <2>4
<1>3. \E x \in T : \A y \in T : x >= y
  <2> DEFINE U == {x..n : x \in T}
  <2>1. U \subseteq SUBSET (1..n) /\ U # {}
    <3>1. \A x \in T : x..n \subseteq 1..n
      OBVIOUS
    <3> QED
      BY <3>1, Zenon
  <2>2. PICK u \in U : \A v \in U : ~ (<<v, u>> \in R)
    BY <1>1, <2>1, WFMin
  <2>3. PICK x \in T : u = x..n
    BY <2>2
  <2>4. ASSUME NEW y \in T, y > x PROVE FALSE
    <3>1. y..n \in U /\ y..n \subseteq u /\ y..n # u
      BY <2>3, <2>4
    <3>2. <<y..n, u>> \in R
      BY <3>1, <2>1 DEF StrictSubsetOrdering
    <3> QED
      BY <3>1, <3>2, <2>2
  <2> QED
    BY <2>4
<1> QED
  BY <1>2, <1>3 DEF Min, Max

\* The weight is that of one of the spec's intervals, or 0 or 100.
LEMMA VpaWeightType ==
    ASSUME NEW spec \in HvpaSpec, NEW desired \in Nat, NEW current \in Nat
    PROVE  VpaWeight(spec, desired, current) \in 0..100
<1> DEFINE all      == DOMAIN spec.intervals
           weight(i)  == spec.intervals[i].weight
           covering == {i \in all : Covers(spec, i, current)}
           here     == Min(covering)
           fraction == {i \in all : weight(i) < 100}
           before   == {i \in fraction : i < here}
           after    == {i \in fraction : i > here}
<1>1. PICK n \in Nat : all = 1..n
  <2>1. spec.intervals \in Seq(WeightInterval)
    BY DEF HvpaSpec
  <2> QED
    BY <2>1
<1>2. \A i \in all : weight(i) \in 0..100
  <2>1. spec.intervals \in Seq(WeightInterval)
    BY DEF HvpaSpec
  <2>2. \A i \in all : spec.intervals[i] \in WeightInterval
    BY <2>1
  <2> QED
    BY <2>2 DEF WeightInterval
<1>3. /\ covering # {} => here \in all
      /\ before # {} => Max(before) \in all
      /\ after # {} => Min(after) \in all
  <2>1. /\ covering \in SUBSET (1..n) /\ before \in SUBSET (1..n)
        /\ after \in SUBSET (1..n)
    BY <1>1
  <2> HIDE DEF covering, before, after
  <2> QED
    BY <1>1, <2>1, ExtremesOfIndices DEF here
<1> HIDE DEF all, weight, covering, here, fraction, before, after
<1>4. VpaWeight(spec, desired, current) =
        IF covering = {} THEN 0
        ELSE IF weight(here) < 100 THEN weight(here)
        ELSE IF desired < current /\ before # {} THEN weight(Max(before))
        ELSE IF desired > current /\ after # {} THEN weight(Min(after))
        ELSE 100
  BY DEF VpaWeight, all, weight, covering, here, fraction, before, after
<1> QED
  BY <1>2, <1>3, <1>4

-----------------------------------------------------------------------------
(* What the weights do to a quantity. *)

\* A weighted replica count lies between the present and the desired one.
LEMMA WeightedReplicasBetween ==
    ASSUME NEW current \in Nat, NEW desired \in Nat, NEW w \in 0..100
    PROVE  LET weighted == WeightedReplicas(current, desired, w)
           IN  /\ weighted \in Int
               /\ current <= desired => current <= weighted /\ weighted <= desired
               /\ desired <= current => desired <= weighted /\ weighted <= current
<1> DEFINE share == Share(current, desired, w)
<1>1. /\ share \in Int
      /\ desired >= current => 0 <= share /\ share <= 100 * (desired - current)
      /\ desired <= current => share <= 0 /\ 100 * (desired - current) <= share
  BY ShareBounds DEF Share
<1> HIDE DEF share
<1>2. WeightedReplicas(current, desired, w) =
        IF desired > current THEN current + CeilDiv100(share)
                             ELSE current + FloorDiv100(share)
  BY DEF WeightedReplicas, share
<1> QED
  BY <1>1, <1>2, SMT DEF CeilDiv100, FloorDiv100

\* A positive weight moves the replicas by at least one: rounding never stops
\* a scaling before its end.
LEMMA WeightedReplicasProgress ==
    ASSUME NEW current \in Nat, NEW desired \in Nat, NEW w \in 1..100,
           current # desired
    PROVE  WeightedReplicas(current, desired, w) # current
<1> DEFINE d == desired - current
           share == d * w
<1>1. /\ share \in Int
      /\ d > 0 => share > 0
      /\ d < 0 => share < 0
  BY SMT
<1> HIDE DEF share
<1>2. WeightedReplicas(current, desired, w) =
        IF desired > current THEN current + CeilDiv100(share)
                             ELSE current + FloorDiv100(share)
  BY DEF WeightedReplicas, share, Share
<1> QED
  BY <1>1, <1>2, SMT DEF CeilDiv100, FloorDiv100

\* The difference has the sign of the way to go and never more than its length.
LEMMA DifferenceBounds ==
    ASSUME NEW slot \in Slots, NEW current \in Nat, NEW desired \in Nat, NEW w \in 0..100
    PROVE  LET difference == Difference(slot, current, desired, w)
           IN  /\ difference \in Int
               /\ current <= desired =>
                    0 <= difference /\ difference <= 100 * (desired - current)
               /\ desired <= current =>
                    difference <= 0 /\ 100 * (desired - current) <= difference
<1> DEFINE share == Share(current, desired, w)
<1>1. /\ share \in Int
      /\ desired >= current => 0 <= share /\ share <= 100 * (desired - current)
      /\ desired <= current => share <= 0 /\ 100 * (desired - current) <= share
  BY ShareBounds DEF Share
<1> HIDE DEF share
<1>2. Difference(slot, current, desired, w) =
        IF slot \in CpuSlots THEN 100 * TruncDiv100(share) ELSE share
  BY DEF Difference, share
<1>3. 100 * TruncDiv100(share) \in Int
  BY <1>1, SMT DEF TruncDiv100, CeilDiv100, FloorDiv100
<1>4. desired >= current => 0 <= 100 * TruncDiv100(share) /\ 100 * TruncDiv100(share) <= share
  BY <1>1, SMT DEF TruncDiv100, CeilDiv100, FloorDiv100
<1>5. desired <= current => 100 * TruncDiv100(share) <= 0 /\ share <= 100 * TruncDiv100(share)
  BY <1>1, SMT DEF TruncDiv100, CeilDiv100, FloorDiv100
<1> QED
  BY <1>1, <1>2, <1>3, <1>4, <1>5, SMT

\* A weighted request lies between the present and the recommended one, and
\* moves in the direction of the difference the blocks were decided on.
LEMMA WeightedRequestBetween ==
    ASSUME NEW slot \in Slots, NEW current \in Nat, NEW desired \in Nat, NEW w \in 0..100
    PROVE  LET weighted == WeightedRequest(slot, current, desired, w)
           IN  /\ weighted \in Nat
               /\ current <= desired => current <= weighted /\ weighted <= desired
               /\ desired <= current => desired <= weighted /\ weighted <= current
               /\ weighted > current => Difference(slot, current, desired, w) > 0
               /\ weighted < current => ~(Difference(slot, current, desired, w) > 0)
<1> DEFINE difference == Difference(slot, current, desired, w)
<1>1. /\ difference \in Int
      /\ current <= desired =>
           0 <= difference /\ difference <= 100 * (desired - current)
      /\ desired <= current =>
           difference <= 0 /\ 100 * (desired - current) <= difference
  BY DifferenceBounds
<1> HIDE DEF difference
<1>2. WeightedRequest(slot, current, desired, w) = current + CeilDiv100(difference)
  BY DEF WeightedRequest, difference
<1>3. difference = Difference(slot, current, desired, w)
  BY DEF difference
<1> QED
  BY <1>1, <1>2, <1>3, SMT DEF CeilDiv100

-----------------------------------------------------------------------------
(* What the decision may set, and which windows it has respected. *)

\* Replicas stay positive, move towards desiredReplicas and never past it, and
\* change only outside the window of their direction or under the override.
SoundHorizontally(d, hvpa, hpa, current, now) ==
    /\ d.replicas \in Nat \ {0}
    /\ d.blocked \subseteq Reasons
    /\ d.replicas # current =>
         hpa # Nil /\ hpa.desired # 0 /\ Between(d.replicas, current, hpa.desired)
    /\ d.replicas > current =>
         hvpa.override \/ ~Stabilizing(hvpa.last, hvpa.spec.hpaUp.stabilization, now)
    /\ d.replicas < current =>
         hvpa.override \/ ~Stabilizing(hvpa.last, hvpa.spec.hpaDown.stabilization, now)

\* getWeightedReplicas, whatever the spec and the HPA's status are.
LEMMA HorizontalDecisionSound ==
    ASSUME NEW hvpa, hvpa.spec \in HvpaSpec, hvpa.override \in BOOLEAN,
           NEW hpa \in HpaStatus \union {Nil}, NEW current \in Nat \ {0},
           NEW vpaWeight \in 0..100, NEW now, NEW open
    PROVE  SoundHorizontally(HorizontalDecision(hvpa, hpa, current, vpaWeight, now, open),
                             hvpa, hpa, current, now)
<1> DEFINE weighted == WeightedReplicas(current, hpa.desired, 100 - vpaWeight)
           asks == /\ hvpa.spec.annotated /\ hvpa.spec.deployHpa
                   /\ hpa # Nil /\ hpa.desired # 0
           up == weighted > current
           reasons == HorizontalBlock(hvpa, up, now, open)
           d == HorizontalDecision(hvpa, hpa, current, vpaWeight, now, open)
<1>1. asks => /\ weighted \in Nat \ {0}
              /\ Between(weighted, current, hpa.desired)
  <2> SUFFICES ASSUME asks PROVE weighted \in Nat \ {0} /\ Between(weighted, current, hpa.desired)
    OBVIOUS
  <2>1. hpa.desired \in Nat \ {0}
    BY DEF HpaStatus
  <2>2. /\ weighted \in Int
        /\ current <= hpa.desired => current <= weighted /\ weighted <= hpa.desired
        /\ hpa.desired <= current => hpa.desired <= weighted /\ weighted <= current
    <3>1. 100 - vpaWeight \in 0..100 /\ current \in Nat /\ hpa.desired \in Nat
      BY <2>1
    <3> HIDE DEF asks
    <3> QED
      BY <3>1, WeightedReplicasBetween
  <2> HIDE DEF weighted
  <2> QED
    BY <2>1, <2>2, SMT DEF Between
<1>2. reasons \subseteq Reasons
  BY DEF HorizontalBlock, Reasons
<1>3. reasons = {} =>
        LET direction == IF up THEN hvpa.spec.hpaUp ELSE hvpa.spec.hpaDown
        IN  hvpa.override \/ ~Stabilizing(hvpa.last, direction.stabilization, now)
  <2> HIDE DEF up
  <2> QED
    BY Zenon DEF HorizontalBlock
<1>4. d = IF ~asks \/ weighted = current THEN [replicas |-> current, blocked |-> {}]
          ELSE IF reasons # {} THEN [replicas |-> current, blocked |-> reasons]
          ELSE [replicas |-> weighted, blocked |-> {}]
  BY Zenon DEF HorizontalDecision
<1> HIDE DEF weighted, asks, reasons, d
<1>5. CASE asks /\ weighted # current /\ reasons = {}
  <2>1. d.replicas = weighted /\ d.blocked = {}
    BY <1>4, <1>5
  <2>2. hpa # Nil /\ hpa.desired # 0
    BY <1>5 DEF asks
  <2>3. d.replicas > current <=> up
    BY <2>1 DEF weighted
  <2>4. d.replicas > current =>
          hvpa.override \/ ~Stabilizing(hvpa.last, hvpa.spec.hpaUp.stabilization, now)
    BY <1>3, <1>5, <2>3
  <2>5. d.replicas < current =>
          hvpa.override \/ ~Stabilizing(hvpa.last, hvpa.spec.hpaDown.stabilization, now)
    BY <1>1, <1>3, <1>5, <2>1, <2>3
  <2> QED
    BY <1>1, <1>5, <2>1, <2>2, <2>4, <2>5 DEF SoundHorizontally, d
<1>6. CASE ~(asks /\ weighted # current /\ reasons = {})
  <2>1. d.replicas = current /\ d.blocked \subseteq Reasons
    BY <1>2, <1>4, <1>6
  <2> QED
    BY <2>1 DEF SoundHorizontally, d
<1> QED
  BY <1>5, <1>6

\* Requests stay natural, move towards the recommendation and never past it,
\* go down only outside their window, and up only outside theirs or under the
\* override.
SoundVertically(d, hvpa, vpa, requests, now) ==
    /\ d.requests \in Requests
    /\ d.blocked \subseteq Reasons
    /\ \A s \in Slots :
         /\ d.requests[s] # requests[s] =>
              vpa # Nil /\ Between(d.requests[s], requests[s], vpa[s])
         /\ d.requests[s] > requests[s] =>
              hvpa.override \/ ~Stabilizing(hvpa.last, hvpa.spec.vpaUp.stabilization, now)
         /\ d.requests[s] < requests[s] =>
              ~Stabilizing(hvpa.last, hvpa.spec.vpaDown.stabilization, now)

\* getWeightedRequests, whatever the spec and the recommendation are.
LEMMA VerticalDecisionSound ==
    ASSUME NEW hvpa, hvpa.spec \in HvpaSpec, hvpa.override \in BOOLEAN,
           NEW vpa \in Requests \union {Nil}, NEW requests \in Requests,
           NEW vpaWeight \in 0..100, NEW hpaLimited, NEW now, NEW open
    PROVE  SoundVertically(
             VerticalDecision(hvpa, vpa, requests, vpaWeight, hpaLimited, now, open),
             hvpa, vpa, requests, now)
<1> DEFINE limited == hpaLimited \/ hvpa.override
           w       == IF hvpa.override /\ vpaWeight = 0 THEN 1 ELSE vpaWeight
           diff(s) == Difference(s, requests[s], vpa[s], w)
           up(s)   == VerticalUpBlock(hvpa, limited, diff(s), s, requests[s], now, open)
           down(s) == VerticalDownBlock(hvpa, diff(s), s, requests[s], now, open)
           block(s) == IF w = 0 THEN {"Weight"} ELSE IF diff(s) > 0 THEN up(s) ELSE down(s)
           asked   == IF vpa = Nil THEN {}
                      ELSE {s \in hvpa.spec.controlled : w = 0 \/ diff(s) # 0}
           scaled  == {s \in asked : block(s) = {}}
           weighted(s) == WeightedRequest(s, requests[s], vpa[s], w)
           d == VerticalDecision(hvpa, vpa, requests, vpaWeight, hpaLimited, now, open)
           Past(window) == ~Stabilizing(hvpa.last, window, now)
<1>1. d = [requests |-> [s \in Slots |-> IF s \in scaled THEN weighted(s) ELSE requests[s]],
           blocked  |-> UNION {block(s) : s \in asked}]
  BY Zenon DEF VerticalDecision
<1>2. w \in 0..100
  OBVIOUS
<1>3. \A s : up(s) \subseteq Reasons /\ down(s) \subseteq Reasons
  BY DEF VerticalUpBlock, VerticalDownBlock, Reasons
<1>4. \A s : up(s) = {} => hvpa.override \/ Past(hvpa.spec.vpaUp.stabilization)
  <2> HIDE DEF limited, diff
  <2> QED
    BY Zenon DEF VerticalUpBlock
<1>5. \A s : down(s) = {} => Past(hvpa.spec.vpaDown.stabilization)
  <2> HIDE DEF limited, diff
  <2> QED
    BY Zenon DEF VerticalDownBlock
<1> HIDE DEF up, down, w, limited
<1>6. \A s : block(s) \subseteq Reasons
  BY <1>3 DEF Reasons
<1>7. scaled \subseteq Slots /\ (scaled # {} => vpa \in Requests)
  BY DEF HvpaSpec
<1>8. ASSUME NEW s \in scaled
      PROVE  /\ weighted(s) \in Nat
             /\ Between(weighted(s), requests[s], vpa[s])
             /\ weighted(s) > requests[s] => diff(s) > 0
             /\ weighted(s) < requests[s] => ~(diff(s) > 0)
  <2>1. /\ s \in Slots /\ requests[s] \in Nat /\ vpa[s] \in Nat
    BY <1>7, <1>8 DEF Requests
  <2>2. /\ weighted(s) \in Nat
        /\ requests[s] <= vpa[s] => requests[s] <= weighted(s) /\ weighted(s) <= vpa[s]
        /\ vpa[s] <= requests[s] => vpa[s] <= weighted(s) /\ weighted(s) <= requests[s]
        /\ weighted(s) > requests[s] => diff(s) > 0
        /\ weighted(s) < requests[s] => ~(diff(s) > 0)
    BY <1>2, <2>1, WeightedRequestBetween
  <2> HIDE DEF weighted, diff
  <2> QED
    BY <2>1, <2>2, SMT DEF Between
<1>9. \A s \in scaled : w # 0 /\ (diff(s) > 0 => up(s) = {}) /\ (~(diff(s) > 0) => down(s) = {})
  OBVIOUS
<1>10. d.requests \in Requests
  <2>1. \A s \in Slots : (IF s \in scaled THEN weighted(s) ELSE requests[s]) \in Nat
    <3> HIDE DEF scaled, weighted
    <3> QED
      BY <1>8 DEF Requests
  <2> HIDE DEF scaled, weighted, d
  <2> QED
    BY <1>1, <2>1 DEF Requests
<1>11. d.blocked \subseteq Reasons
  <2> HIDE DEF block, asked, d, scaled, weighted
  <2> QED
    BY <1>1, <1>6
<1>12. ASSUME NEW s \in Slots
       PROVE  /\ d.requests[s] # requests[s] =>
                   vpa # Nil /\ Between(d.requests[s], requests[s], vpa[s])
              /\ d.requests[s] > requests[s] =>
                   hvpa.override \/ Past(hvpa.spec.vpaUp.stabilization)
              /\ d.requests[s] < requests[s] => Past(hvpa.spec.vpaDown.stabilization)
  <2>1. d.requests[s] = IF s \in scaled THEN weighted(s) ELSE requests[s]
    <3> HIDE DEF scaled, weighted, d
    <3> QED
      BY <1>1
  <2>2. requests[s] \in Nat
    BY DEF Requests
  <2>3. CASE s \in scaled
    <3>1. vpa # Nil
      BY <2>3
    <3>2. d.requests[s] = weighted(s)
      BY <2>1, <2>3
    <3> HIDE DEF scaled, weighted, d, Past, diff, block
    <3> QED
      BY <1>4, <1>5, <1>8, <1>9, <2>3, <3>1, <3>2
  <2>4. CASE s \notin scaled
    <3> HIDE DEF scaled, weighted, d
    <3> QED
      BY <2>1, <2>2, <2>4
  <2> QED
    BY <2>3, <2>4
<1> HIDE DEF d
<1> QED
  BY <1>10, <1>11, <1>12 DEF SoundVertically, d

\* The HVPA, target and statuses a decision is made on.
DecisionInputs(hvpa, target, hpa, vpa) ==
    /\ hvpa.spec \in HvpaSpec /\ hvpa.override \in BOOLEAN
    /\ target.replicas \in Nat \ {0} /\ target.requests \in Requests
    /\ hpa \in HpaStatus \union {Nil} /\ vpa \in Requests \union {Nil}

\* scaleIfRequired: every decision is sound in both dimensions.
THEOREM DecideSound ==
    ASSUME NEW hvpa, NEW target, NEW hpa, NEW vpa, NEW now, NEW open,
           DecisionInputs(hvpa, target, hpa, vpa)
    PROVE  LET d == Decide(hvpa, target, hpa, vpa, now, open)
           IN  /\ SoundHorizontally(d, hvpa, hpa, target.replicas, now)
               /\ SoundVertically(d, hvpa, vpa, target.requests, now)
<1>0. /\ hvpa.spec \in HvpaSpec /\ hvpa.override \in BOOLEAN
      /\ target.replicas \in Nat \ {0} /\ target.requests \in Requests
      /\ hpa \in HpaStatus \union {Nil} /\ vpa \in Requests \union {Nil}
  BY DEF DecisionInputs
<1> DEFINE desired == IF hpa = Nil THEN target.replicas ELSE hpa.desired
           w       == VpaWeight(hvpa.spec, desired, target.replicas)
           limited == HpaScaleOutLimited(hvpa.spec, hpa, open)
           v == VerticalDecision(hvpa, vpa, target.requests, w, limited, now, open)
           h == HorizontalDecision(hvpa, hpa, target.replicas, w, now, open)
           d == Decide(hvpa, target, hpa, vpa, now, open)
<1>1. desired \in Nat /\ target.replicas \in Nat
  BY <1>0 DEF HpaStatus
<1>2. w \in 0..100
  <2> HIDE DEF desired
  <2> QED
    BY <1>0, <1>1, VpaWeightType
<1>3. /\ d.replicas = h.replicas /\ d.requests = v.requests
      /\ d.blocked = h.blocked \union v.blocked
  <2> DEFINE update == /\ \/ h.replicas # target.replicas
                          \/ v.requests # target.requests
                       /\ ~IsScalingOff(hvpa.spec, open)
  <2>1. d = [replicas |-> h.replicas, requests |-> v.requests, update |-> update,
             blocked |-> h.blocked \union v.blocked]
    BY Zenon DEF Decide
  <2> HIDE DEF update, h, v, d
  <2> QED
    BY <2>1
<1> HIDE DEF w, limited, desired
<1>4. SoundHorizontally(h, hvpa, hpa, target.replicas, now)
  BY <1>0, <1>2, HorizontalDecisionSound, Zenon
<1>5. SoundVertically(v, hvpa, vpa, target.requests, now)
  BY <1>0, <1>2, VerticalDecisionSound, Zenon
<1>6. d.blocked \subseteq Reasons
  BY <1>3, <1>4, <1>5, Zenon DEF SoundHorizontally, SoundVertically
<1> HIDE DEF h, v, d
<1> QED
  BY <1>3, <1>4, <1>5, <1>6, Zenon DEF SoundHorizontally, SoundVertically, d
=============================================================================
