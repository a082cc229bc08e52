----------------------- MODULE ContainerLimitsProofs -----------------------
(***************************************************************************)
(* For every policy, container and recommendation: what is written is      *)
(* accepted, equal requests and limits stay equal, a request moves towards *)
(* its recommendation, and the CPU share of the limit never grows.         *)
(***************************************************************************)
EXTENDS ContainerLimits, HvpaPolicyProofs

-----------------------------------------------------------------------------
(* Arithmetic of the limits. *)

LEMMA Quotient ==
    ASSUME NEW a \in Int, NEW n \in Nat \ {0}
    PROVE  /\ a \div n \in Int
           /\ n * (a \div n) <= a
           /\ a < n * (a \div n) + n
OBVIOUS

\* A product of two larger factors is larger.
LEMMA ProductsGrow ==
    ASSUME NEW a \in Nat, NEW b \in Nat, NEW c \in Nat, a <= b
    PROVE  a * c \in Nat /\ b * c \in Nat /\ a * c <= b * c
<1> PICK d \in Nat : b = a + d
  BY b - a \in Nat /\ b = a + (b - a)
<1>1. b * c = a * c + d * c
  BY SMT
<1> QED
  BY <1>1, SMT

\* The quotient by n is at least w if the dividend is at least n * w.
LEMMA QuotientAtLeast ==
    ASSUME NEW a \in Int, NEW n \in Nat \ {0}, NEW w \in Int, n * w <= a
    PROVE  w <= a \div n
<1> PICK q \in Int : q = a \div n
  BY Quotient
<1>1. a < n * q + n
  BY Quotient
<1>2. SUFFICES ASSUME q <= w - 1 PROVE FALSE
  OBVIOUS
<1>3. PICK d \in Nat : w - 1 = q + d
  BY <1>2, (w - 1) - q \in Nat
<1>4. n * w = n * q + n * d + n
  <2>1. w = q + d + 1
    BY <1>3
  <2> QED
    BY <2>1, SMT
<1>5. n * d >= 0
  BY SMT
<1> QED
  BY <1>1, <1>4, <1>5

\* Rounding up to a unit: at least the value, and nothing for whole units.
LEMMA RoundUpBounds ==
    ASSUME NEW per \in Nat \ {0}, NEW w \in Nat, NEW milli \in Nat, per * w <= milli
    PROVE  /\ RoundUp(milli, per) \in Nat
           /\ w <= RoundUp(milli, per)
           /\ milli = per * w => RoundUp(milli, per) = w
<1> PICK q \in Int : q = (-milli) \div per
  BY Quotient
<1>1. per * q <= -milli /\ -milli < per * q + per
  BY Quotient
<1>2. w <= -q
  <2>1. SUFFICES ASSUME -q <= w - 1 PROVE FALSE
    OBVIOUS
  <2>2. PICK d \in Nat : w = -q + 1 + d
    BY <2>1, w + q - 1 \in Nat
  <2>3. per * w = -(per * q) + per + per * d
    BY <2>2, SMT
  <2>4. per * d >= 0
    BY SMT
  <2> QED
    BY <1>1, <2>3, <2>4
<1>3. ASSUME milli = per * w PROVE -q <= w
  <2>1. SUFFICES ASSUME w + 1 <= -q PROVE FALSE
    OBVIOUS
  <2>2. PICK d \in Nat : -q = w + 1 + d
    BY <2>1, (-q) - (w + 1) \in Nat, -q = w + 1 + ((-q) - (w + 1))
  <2>3. q = -w - 1 - d
    BY <2>2
  <2>4. per * q = -(per * w) - per - per * d
    BY <2>3, SMT
  <2>5. per * d >= 0
    BY SMT
  <2> QED
    BY <1>1, <1>3, <2>4, <2>5
<1> QED
  BY <1>2, <1>3 DEF RoundUp

\* A limit that is not below the request is scaled to one that is not below
\* the weighted request.
LEMMA ProportionalCovers ==
    ASSUME NEW slot \in Slots, NEW limit \in Nat, NEW request \in Nat \ {0},
           NEW weighted \in Nat, request <= limit
    PROVE  /\ Proportional(slot, limit, request, weighted) \in Nat
           /\ MilliPerUnit(slot) * weighted <= Proportional(slot, limit, request, weighted)
<1> PICK m \in Nat \ {0} : m = MilliPerUnit(slot)
  BY DEF MilliPerUnit
<1> PICK lw \in Nat : lw = limit * weighted
  BY SMT
<1> PICK rw \in Nat : rw = request * weighted
  BY SMT
<1>1. rw <= lw
  BY ProductsGrow
<1>2. rw * m <= lw * m /\ rw * m \in Nat /\ lw * m \in Nat
  BY <1>1, ProductsGrow
<1>3. request * (m * weighted) = rw * m
  BY SMT
<1>4. m * limit * weighted = lw * m
  BY SMT
<1>5. m * weighted \in Nat
  BY SMT
<1>6. m * weighted <= (lw * m) \div request
  BY <1>2, <1>3, <1>5, QuotientAtLeast
<1>7. (lw * m) \div request \in Int
  BY <1>2, Quotient
<1> QED
  BY <1>4, <1>5, <1>6, <1>7 DEF Proportional

LEMMA WithGapCovers ==
    ASSUME NEW slot \in Slots, NEW weighted \in Nat, NEW gap \in ChangeParams, ~NoGap(gap)
    PROVE  /\ WithGap(slot, weighted, gap) \in Nat
           /\ MilliPerUnit(slot) * weighted <= WithGap(slot, weighted, gap)
<1> PICK m \in Nat \ {0} : m = MilliPerUnit(slot)
  BY DEF MilliPerUnit
<1> PICK milli \in Nat : milli = m * weighted
  BY SMT
<1> DEFINE percentage == IF gap.percentage \in {Nil, 0} THEN 0
                         ELSE milli + FloorDiv100(milli * gap.percentage)
           added      == IF gap.value = Nil THEN 0 ELSE milli + m * gap.value
<1>1. percentage \in Nat /\ (gap.percentage \notin {Nil, 0} => milli <= percentage)
  <2>1. CASE gap.percentage \in {Nil, 0}
    BY <2>1
  <2>2. CASE gap.percentage \notin {Nil, 0}
    <3> PICK p \in Nat : p = gap.percentage
      BY <2>2 DEF ChangeParams
    <3> PICK x \in Nat : x = milli * p
      BY SMT
    <3>1. x \div 100 \in Nat
      OBVIOUS
    <3> QED
      BY <2>2, <3>1 DEF FloorDiv100
  <2> QED
    BY <2>1, <2>2
<1>2. added \in Nat /\ (gap.value # Nil => milli <= added)
  <2>1. CASE gap.value = Nil
    BY <2>1
  <2>2. CASE gap.value # Nil
    <3> PICK v \in Nat : v = gap.value
      BY <2>2 DEF ChangeParams
    <3> PICK x \in Nat : x = m * v
      BY SMT
    <3> QED
      BY <2>2
  <2> QED
    BY <2>1, <2>2
<1> HIDE DEF percentage, added
<1>3. WithGap(slot, weighted, gap) = Larger(percentage, added)
  BY DEF WithGap, percentage, added
<1>4. gap.percentage \notin {Nil, 0} \/ gap.value # Nil
  BY DEF NoGap
<1> QED
  BY <1>1, <1>2, <1>3, <1>4 DEF Larger

\* What getScaledLimits returns for a slot.
LEMMA ScaledLimitCovers ==
    ASSUME NEW slot \in Slots, NEW limit \in Nat, NEW request \in Nat,
           NEW weighted \in Nat, NEW gap \in ChangeParams, request <= limit
    PROVE  LET scaled == ScaledLimit(slot, limit, request, weighted, gap)
           IN  /\ scaled \in Nat
               /\ weighted <= scaled
               /\ request = 0 \/ request = limit => scaled = weighted
<1> PICK m \in Nat \ {0} : m = MilliPerUnit(slot)
  BY DEF MilliPerUnit
<1> PICK whole \in Nat : whole = m * weighted
  BY SMT
<1>1. CASE request = 0 \/ request = limit
  <2>1. ScaledLimit(slot, limit, request, weighted, gap) = RoundUp(whole, m)
    BY <1>1 DEF ScaledLimit
  <2>2. whole >= m * weighted /\ whole = m * weighted
    OBVIOUS
  <2> QED
    BY <2>1, <2>2, RoundUpBounds
<1>2. CASE ~(request = 0 \/ request = limit)
  <2> DEFINE milli == IF NoGap(gap) THEN Proportional(slot, limit, request, weighted)
                      ELSE WithGap(slot, weighted, gap)
  <2>1. milli \in Nat /\ whole <= milli
    BY <1>2, ProportionalCovers, WithGapCovers
  <2>2. ScaledLimit(slot, limit, request, weighted, gap) = RoundUp(milli, m)
    BY <1>2 DEF ScaledLimit
  <2> HIDE DEF milli
  <2>3. m * weighted <= milli
    BY <2>1
  <2>4. RoundUp(milli, m) \in Nat /\ weighted <= RoundUp(milli, m)
    BY <2>1, <2>3, RoundUpBounds
  <2> QED
    BY <1>2, <2>2, <2>4
<1> QED
  BY <1>1, <1>2

-----------------------------------------------------------------------------
(* What one scaling computes. *)

LEMMA PolicyType ==
    ASSUME TypeOK
    PROVE  Controlled \subseteq Slots
<1> DEFINE n        == Len(spec.policies)
           matching == {i \in DOMAIN spec.policies :
                          spec.policies[i].container \in {"*", "own"}}
<1>1. spec.policies \in Seq(ContainerPolicy)
  BY DEF TypeOK, LimitsSpec
<1>2. n \in Nat /\ DOMAIN spec.policies = 1..n
  BY <1>1
<1>3. Policy.controlledResources \in {Nil} \union SUBSET Slots
  <2>1. CASE matching = {}
    BY <2>1 DEF Policy, Uncontrolled
  <2>2. CASE matching # {}
    <3>1. matching \in SUBSET (1..n)
      BY <1>2
    <3>2. PICK i \in 1..n : i = Min(matching)
      BY <1>2, <2>2, <3>1, ExtremesOfIndices
    <3>3. spec.policies[i] \in ContainerPolicy
      BY <1>1
    <3>4. Policy = spec.policies[i]
      BY <2>2, <3>2 DEF Policy
    <3> QED
      BY <3>3, <3>4 DEF ContainerPolicy
  <2> QED
    BY <2>1, <2>2
<1> QED
  BY <1>3 DEF Controlled

LEMMA SlotTypes ==
    ASSUME TypeOK, NEW s \in Slots
    PROVE  /\ Request(s) \in Nat /\ Limit(s) \in Nat
           /\ container.requests[s] \in Nat \union {Nil}
           /\ container.limits[s] \in Nat \union {Nil}
           /\ recommendation[s] \in Nat \ {0}
           /\ spec.weight \in 0..100 /\ spec.gap[Kind(s)] \in ChangeParams
<1>1. /\ container.requests[s] \in Nat \union {Nil}
      /\ container.limits[s] \in Nat \union {Nil}
  BY DEF TypeOK, Container, ResourceList
<1>2. recommendation[s] \in Nat \ {0}
  BY DEF TypeOK
<1>3. spec.weight \in 0..100 /\ spec.gap[Kind(s)] \in ChangeParams
  BY DEF TypeOK, LimitsSpec, Kind
<1> QED
  BY <1>1, <1>2, <1>3 DEF Request, Limit, Quantity

LEMMA WeightedBounds ==
    ASSUME TypeOK, NEW s \in Slots
    PROVE  /\ Weighted(s) \in Nat
           /\ Request(s) <= recommendation[s] =>
                Request(s) <= Weighted(s) /\ Weighted(s) <= recommendation[s]
           /\ recommendation[s] <= Request(s) =>
                recommendation[s] <= Weighted(s) /\ Weighted(s) <= Request(s)
BY SlotTypes, WeightedRequestBetween DEF Weighted

LEMMA ValidSlots ==
    ASSUME TypeOK, Valid(container), NEW s \in Slots
    PROVE  /\ container.limits[s] # Nil =>
                container.limits[s] = Limit(s) /\ Request(s) <= Limit(s)
           /\ Limit(s) # 0 => container.limits[s] = Limit(s) /\ Request(s) <= Limit(s)
BY SlotTypes DEF Valid, Limit, Request, Quantity

\* A new limit is never below the request it goes with.
LEMMA NewLimitCovers ==
    ASSUME TypeOK, Valid(container), NEW s \in LimitScaled
    PROVE  /\ s \in Slots /\ s \in Controlled /\ ControlsLimits /\ Limit(s) # 0
           /\ NewLimits[s] \in Nat /\ Weighted(s) <= NewLimits[s]
           /\ Request(s) = 0 \/ Request(s) = Limit(s) => NewLimits[s] = Weighted(s)
<1>1. s \in Controlled /\ ControlsLimits /\ Limit(s) # 0
  BY DEF LimitScaled
<1>2. s \in Slots
  BY <1>1, PolicyType
<1>3. Request(s) <= Limit(s)
  BY <1>1, <1>2, ValidSlots
<1>4. NewLimits[s] = ScaledLimit(s, Limit(s), Request(s), Weighted(s), spec.gap[Kind(s)])
  BY DEF NewLimits
<1> QED
  BY <1>1, <1>2, <1>3, <1>4, SlotTypes, WeightedBounds, ScaledLimitCovers

\* The capped request: within its limit, and still on the way.
LEMMA CappedBounds ==
    ASSUME TypeOK, Valid(container), NEW s \in Controlled
    PROVE  /\ CappedRequest(s) \in Nat
           /\ s \in LimitScaled => CappedRequest(s) = Weighted(s)
           /\ ~ControlsLimits /\ container.limits[s] # Nil =>
                CappedRequest(s) <= container.limits[s]
           /\ Between(CappedRequest(s), Request(s), recommendation[s])
<1>0. s \in Slots
  BY PolicyType
<1>1. /\ Request(s) \in Nat /\ recommendation[s] \in Nat /\ Weighted(s) \in Nat
      /\ container.limits[s] \in Nat \union {Nil}
  BY <1>0, SlotTypes, WeightedBounds
<1>2. Between(Weighted(s), Request(s), recommendation[s])
  BY <1>0, <1>1, WeightedBounds DEF Between
<1>3. CASE s \in LimitScaled
  <2>1. AppliedLimits(s) = NewLimits[s]
    BY <1>3 DEF AppliedLimits
  <2>2. CappedRequest(s) = Weighted(s)
    BY <1>1, <1>3, <2>1, NewLimitCovers DEF CappedRequest
  <2>3. ControlsLimits
    BY <1>3, NewLimitCovers
  <2> QED
    BY <1>1, <1>2, <2>2, <2>3
<1>4. CASE s \notin LimitScaled
  <2>1. CASE AppliedLimits(s) = Nil
    <3>1. CappedRequest(s) = Weighted(s)
      BY <2>1 DEF CappedRequest
    <3>2. ~ControlsLimits => container.limits[s] = Nil
      BY <2>1, <1>4 DEF AppliedLimits, LimitScaled
    <3> QED
      BY <1>1, <1>2, <1>4, <3>1, <3>2
  <2>2. CASE AppliedLimits(s) # Nil
    <3>1. AppliedLimits(s) = container.limits[s]
      BY <2>2, <1>4 DEF AppliedLimits
    <3>2. container.limits[s] \in Nat /\ Request(s) <= container.limits[s]
      BY <1>0, <1>1, <2>2, <3>1, ValidSlots, SlotTypes
    <3>3. CappedRequest(s) =
            IF container.limits[s] < Weighted(s) THEN container.limits[s] ELSE Weighted(s)
      BY <2>2, <3>1 DEF CappedRequest
    <3> QED
      BY <1>0, <1>1, <1>4, <3>2, <3>3, WeightedBounds DEF Between
  <2> QED
    BY <2>1, <2>2
<1> QED
  BY <1>3, <1>4

-----------------------------------------------------------------------------
(* The invariant. *)

\* The history is a container the API server accepted, as the present one is.
IInv == TypeOK /\ Valid(container) /\ Valid(given) /\ AcceptedByServer

LEMMA RescaledType ==
    ASSUME IInv, NEW free \in SUBSET Slots
    PROVE  Rescaled(free) \in Container
<1>1. ASSUME NEW s \in Slots
      PROVE  Rescaled(free).requests[s] \in Nat \union {Nil}
  BY <1>1, SlotTypes, CappedBounds DEF IInv, Rescaled, Scaled
<1>2. ASSUME NEW s \in Slots
      PROVE  Rescaled(free).limits[s] \in Nat \union {Nil}
  BY <1>2, SlotTypes, NewLimitCovers DEF IInv, Rescaled
<1>3. Rescaled(free).requests \in ResourceList /\ Rescaled(free).limits \in ResourceList
  BY <1>1, <1>2 DEF Rescaled, ResourceList
<1> QED
  BY <1>3 DEF Rescaled, Container

\* Without an explicit zero, what a scaling writes is valid.
LEMMA RescaledValid ==
    ASSUME IInv, NEW free \in SUBSET Slots,
           \A s \in Controlled : container.limits[s] # 0
    PROVE  Valid(Rescaled(free))
<1>0. TypeOK /\ Valid(container)
  BY DEF IInv
<1>1. SUFFICES ASSUME NEW s \in Slots, Rescaled(free).limits[s] # Nil
               PROVE  Quantity(Rescaled(free).requests[s]) <= Rescaled(free).limits[s]
  BY DEF Valid
<1>2. /\ container.limits[s] \in Nat \union {Nil}
      /\ container.requests[s] \in Nat \union {Nil}
  BY <1>0, SlotTypes
<1>3. CASE s \notin Scaled(free)
  BY <1>0, <1>1, <1>2, <1>3 DEF Valid, Rescaled
<1>4. CASE s \in Scaled(free)
  <2>1. s \in Controlled /\ Rescaled(free).requests[s] = CappedRequest(s)
    BY <1>4 DEF Scaled, Rescaled
  <2>2. Nil \notin Nat
    BY PolicyAssumption
  <2>3. CappedRequest(s) \in Nat /\ Quantity(CappedRequest(s)) = CappedRequest(s)
    BY <1>0, <2>1, <2>2, CappedBounds DEF Quantity
  <2>4. CASE s \in LimitScaled
    <3>1. Rescaled(free).limits[s] = NewLimits[s]
      BY <1>4, <2>4 DEF Rescaled
    <3> QED
      BY <1>0, <2>1, <2>3, <2>4, <3>1, NewLimitCovers, CappedBounds
  <2>5. CASE s \notin LimitScaled
    <3>1. Rescaled(free).limits[s] = container.limits[s]
      BY <2>5 DEF Rescaled
    <3>2. Limit(s) # 0
      BY <1>1, <1>2, <2>1, <3>1 DEF Limit, Quantity
    <3>3. ~ControlsLimits
      BY <2>1, <2>5, <3>2 DEF LimitScaled
    <3> QED
      BY <1>0, <1>1, <2>1, <2>3, <3>1, <3>3, CappedBounds
  <2> QED
    BY <2>4, <2>5
<1> QED
  BY <1>3, <1>4

LEMMA InitIInv == Init => IInv
<1> SUFFICES ASSUME Init PROVE IInv
  OBVIOUS
<1>1. /\ spec \in LimitsSpec /\ container \in Container /\ Valid(container)
      /\ recommendation \in [Slots -> Nat \ {0}]
      /\ MaxEdits \in Nat /\ MaxReports \in Nat
  BY LimitsAssumption DEF Init
<1>2. given = container /\ rejected = FALSE /\ edits = 0 /\ reports = 0
  BY DEF Init
<1>3. TypeOK
  <2>1. rejected \in BOOLEAN
    BY <1>2, Zenon
  <2>2. edits \in 0..MaxEdits /\ reports \in 0..MaxReports
    BY <1>1, <1>2, SMT
  <2> QED
    BY <1>1, <1>2, <2>1, <2>2, Zenon DEF TypeOK
<1>4. Valid(given)
  BY <1>1, <1>2
<1> QED
  BY <1>1, <1>2, <1>3, <1>4 DEF IInv, AcceptedByServer

LEMMA StepIInv == IInv /\ [Next]_vars => IInv'
<1> SUFFICES ASSUME IInv, [Next]_vars PROVE IInv'
  OBVIOUS
<1>0. MaxEdits \in Nat /\ MaxReports \in Nat
  BY LimitsAssumption
<1>1. ASSUME NEW free \in SUBSET Slots, Scale(free) PROVE IInv'
  <2>1. TypeOK'
    BY <1>1, RescaledType DEF IInv, TypeOK, Scale
  <2>2. Valid(container')
    BY <1>1 DEF Scale
  <2>3. AcceptedByServer'
    BY <1>1 DEF Scale, AcceptedByServer
  <2> QED
    BY <1>1, <2>1, <2>2, <2>3 DEF IInv, Scale, Valid
<1>2. ASSUME NEW free \in SUBSET Slots, ScaleRejected(free) PROVE IInv'
  <2>1. TypeOK'
    BY <1>2 DEF IInv, TypeOK, ScaleRejected
  <2>2. \E s \in Controlled : container.limits[s] = 0
    BY <1>2, RescaledValid DEF ScaleRejected
  <2>3. AcceptedByServer'
    BY <1>2, <2>2 DEF ScaleRejected, AcceptedByServer, Controlled, Policy
  <2> QED
    BY <1>2, <2>1, <2>3 DEF IInv, ScaleRejected, Valid
<1>3. CASE UserEditsContainer
  <2>1. container' \in Container /\ Valid(container')
    BY <1>3, LimitsAssumption DEF UserEditsContainer
  <2>3. rejected' \in BOOLEAN
    BY <1>3, Zenon DEF UserEditsContainer
  <2>4. edits' \in 0..MaxEdits
    BY <1>0, <1>3, SMT DEF IInv, TypeOK, UserEditsContainer
  <2>5. /\ spec' \in LimitsSpec /\ given' \in Container /\ reports' \in 0..MaxReports
        /\ recommendation' \in [Slots -> Nat \ {0}]
    BY <1>3, <2>1 DEF IInv, TypeOK, UserEditsContainer
  <2>2. TypeOK'
    BY <2>1, <2>3, <2>4, <2>5 DEF TypeOK
  <2> QED
    BY <1>3, <2>1, <2>2 DEF IInv, UserEditsContainer, Valid, AcceptedByServer
<1>4. CASE UserEditsSpec
  <2>0. spec' \in LimitsSpec
    BY <1>4, LimitsAssumption DEF UserEditsSpec
  <2>2. edits' \in 0..MaxEdits
    BY <1>0, <1>4, SMT DEF IInv, TypeOK, UserEditsSpec
  <2>4. rejected' \in BOOLEAN /\ given' \in Container
    BY <1>4, Zenon DEF IInv, TypeOK, UserEditsSpec
  <2>3. /\ container' \in Container /\ reports' \in 0..MaxReports
        /\ recommendation' \in [Slots -> Nat \ {0}]
    BY <1>4 DEF IInv, TypeOK, UserEditsSpec
  <2>1. TypeOK'
    BY <2>0, <2>2, <2>3, <2>4 DEF TypeOK
  <2> QED
    BY <1>4, <2>1 DEF IInv, UserEditsSpec, Valid, AcceptedByServer
<1>5. CASE VpaReports
  <2>0. recommendation' \in [Slots -> Nat \ {0}]
    BY <1>5, LimitsAssumption DEF VpaReports
  <2>2. reports' \in 0..MaxReports
    BY <1>0, <1>5 DEF IInv, TypeOK, VpaReports
  <2>3. /\ spec' \in LimitsSpec /\ container' \in Container /\ given' \in Container
        /\ rejected' \in BOOLEAN /\ edits' \in 0..MaxEdits
    BY <1>5 DEF IInv, TypeOK, VpaReports
  <2>1. TypeOK'
    BY <2>0, <2>2, <2>3 DEF TypeOK
  <2> QED
    BY <1>5, <2>1
       DEF IInv, VpaReports, Valid, AcceptedByServer, Controlled, Policy
<1>6. CASE UNCHANGED vars
  BY <1>6 DEF IInv, vars, TypeOK, Valid, AcceptedByServer, Controlled, Policy
<1> QED
  BY <1>1, <1>2, <1>3, <1>4, <1>5, <1>6 DEF Next, Reconcile, Edit

THEOREM Invariance == Spec => []IInv
BY InitIInv, StepIInv, PTL DEF Spec

\* Types, for every policy, container and bound.
THEOREM TypeCorrect == Spec => []TypeOK
BY Invariance, PTL DEF IInv

\* The API server refuses nothing but what an explicit zero limit spoils.
THEOREM Accepted == Spec => []AcceptedByServer
BY Invariance, PTL DEF IInv

-----------------------------------------------------------------------------
(* What a step does to a slot. *)

LEMMA ScaledSlot ==
    ASSUME IInv, NEW free \in SUBSET Slots, NEW s \in Slots, Scale(free)
    PROVE  \/ /\ container'.requests[s] = container.requests[s]
              /\ container'.limits[s] = container.limits[s]
           \/ /\ s \in Controlled
              /\ container'.requests[s] = CappedRequest(s)
              /\ container'.limits[s] = IF s \in LimitScaled THEN NewLimits[s]
                                        ELSE container.limits[s]
BY DEF Scale, Rescaled, Scaled

\* A request and a limit that are equal stay equal.
LEMMA EqualStep ==
    ASSUME IInv, [Next]_vars, ControlsLimits, ~UserEditsContainer, NEW s \in Slots
    PROVE  EqualKept(s)
<1>1. TypeOK /\ Valid(container)
  BY DEF IInv
<1>2. SUFFICES ASSUME Limit(s) # 0, Request(s) = Limit(s)
               PROVE  container'.requests[s] = container'.limits[s]
  BY DEF EqualKept
<1>3. container.requests[s] = container.limits[s]
  BY <1>1, <1>2, SlotTypes DEF Request, Limit, Quantity
<1>4. ASSUME NEW free \in SUBSET Slots, Scale(free)
      PROVE  container'.requests[s] = container'.limits[s]
  <2>1. s \in Controlled => s \in LimitScaled
    BY <1>2 DEF LimitScaled
  <2>2. s \in LimitScaled => CappedRequest(s) = NewLimits[s]
    BY <1>1, <1>2, NewLimitCovers, CappedBounds
  <2> QED
    BY <1>3, <1>4, <2>1, <2>2, ScaledSlot
<1>5. CASE container' = container
  BY <1>3, <1>5
<1> QED
  BY <1>4, <1>5 DEF Next, Reconcile, Edit, ScaleRejected, UserEditsSpec, VpaReports, vars

THEOREM EqualityPreserved == Spec => EqualStaysEqual
<1>1. IInv /\ [Next]_vars =>
        [ControlsLimits /\ ~UserEditsContainer => \A s \in Slots : EqualKept(s)]_vars
  BY EqualStep
<1> QED
  BY <1>1, Invariance, PTL DEF Spec, EqualStaysEqual

\* A capped request still moves towards the recommendation.
LEMMA TowardsStep ==
    ASSUME IInv, [Next]_vars, edits' = edits, NEW s \in Slots,
           container'.requests[s] # container.requests[s]
    PROVE  Between(container'.requests[s], Request(s), recommendation[s])
<1>1. TypeOK /\ Valid(container) /\ edits \in Nat
  BY DEF IInv, TypeOK
<1>2. ~UserEditsContainer /\ ~UserEditsSpec
  BY <1>1 DEF UserEditsContainer, UserEditsSpec
<1>3. PICK free \in SUBSET Slots : Scale(free)
  BY <1>2 DEF Next, Reconcile, Edit, ScaleRejected, VpaReports, vars
<1> QED
  BY <1>1, <1>3, ScaledSlot, CappedBounds

THEOREM MovesTowards == Spec => MovesTowardsRecommendation
<1>1. IInv /\ [Next]_vars =>
        [edits' = edits =>
           \A s \in Slots : container'.requests[s] # container.requests[s] =>
             Between(container'.requests[s], Request(s), recommendation[s])]_vars
  BY TowardsStep
<1> QED
  BY <1>1, Invariance, PTL DEF Spec, MovesTowardsRecommendation

-----------------------------------------------------------------------------
(* The CPU share of the limit. *)

\* limit/request <= given limit/given request, and the next limit is the floor
\* of limit/request of the next request.
LEMMA ShareStep ==
    ASSUME NEW L \in Nat, NEW R \in Nat \ {0}, NEW L0 \in Nat, NEW R0 \in Nat, NEW w \in Nat,
           L * R0 <= L0 * R
    PROVE  ((L * w) \div R) * R0 <= L0 * w
<1> PICK q \in Nat : q = (L * w) \div R
  <2>1. L * w \in Nat
    BY SMT
  <2>2. (L * w) \div R \in Int /\ R * 0 <= L * w
    BY <2>1, Quotient
  <2>3. 0 <= (L * w) \div R
    BY <2>1, <2>2, QuotientAtLeast
  <2> QED
    BY <2>2, <2>3
<1>1. R * q <= L * w
  <2>1. L * w \in Int
    BY SMT
  <2> QED
    BY <2>1, Quotient
<1>2. (R * q) * R0 <= (L * w) * R0
  <2>1. R * q \in Nat /\ L * w \in Nat
    BY SMT
  <2> QED
    BY <1>1, <2>1, ProductsGrow
<1>3. (L * R0) * w <= (L0 * R) * w
  <2>1. L * R0 \in Nat /\ L0 * R \in Nat
    BY SMT
  <2> QED
    BY <2>1, ProductsGrow
<1>4. (L * R0) * w = (L * w) * R0
  BY SMT
<1>5. R * (q * R0) = (R * q) * R0 /\ R * (L0 * w) = (L0 * R) * w
  BY SMT
<1> PICK a \in Nat : a = q * R0
  BY SMT
<1> PICK b \in Nat : b = L0 * w
  BY SMT
<1>6. R * a <= R * b
  <2>1. /\ (R * q) * R0 \in Nat /\ (L * w) * R0 \in Nat /\ (L0 * R) * w \in Nat
    BY SMT
  <2> QED
    BY <1>2, <1>3, <1>4, <1>5, <2>1
<1>7. SUFFICES ASSUME b + 1 <= a PROVE FALSE
  BY <1>1
<1>8. PICK d \in Nat : a = b + 1 + d
  BY <1>7, a - (b + 1) \in Nat, a = b + 1 + (a - (b + 1))
<1>9. R * a = R * b + R + R * d /\ R * d \in Nat /\ R * b \in Nat
  BY <1>8, SMT
<1> QED
  BY <1>6, <1>9

LEMMA CpuLimit ==
    ASSUME NEW s \in CpuSlots, NEW limit \in Nat, NEW request \in Nat \ {0},
           NEW weighted \in Nat, NEW gap, NoGap(gap), request # limit
    PROVE  ScaledLimit(s, limit, request, weighted, gap) = (limit * weighted) \div request
<1> PICK x \in Nat : x = limit * weighted
  BY SMT
<1>1. MilliPerUnit(s) = 1
  BY DEF MilliPerUnit
<1>2. Proportional(s, limit, request, weighted) = x \div request
  <2>1. MilliPerUnit(s) * limit = limit
    BY <1>1
  <2> QED
    BY <2>1 DEF Proportional
<1> PICK y \in Int : y = x \div request
  BY Quotient
<1>3. RoundUp(y, 1) = y
  BY DEF RoundUp
<1> QED
  BY <1>1, <1>2, <1>3 DEF ScaledLimit

LEMMA ShareScaled ==
    ASSUME IInv, NEW s \in CpuSlots, s \in Controlled, ShareKept(s),
           Quantity(given.requests[s]) # 0, ControlsLimits, NoGap(spec.gap["cpu"]),
           Limit(s) # 0
    PROVE  NewLimits[s] * Quantity(given.requests[s])
               <= Quantity(given.limits[s]) * CappedRequest(s)
<1>0. TypeOK /\ Valid(container) /\ s \in Slots
  BY PolicyAssumption DEF IInv
<1>1. s \in LimitScaled
  BY DEF LimitScaled
<1> PICK w \in Nat : w = Weighted(s) /\ w = CappedRequest(s)
  BY <1>0, <1>1, WeightedBounds, CappedBounds
<1> PICK L \in Nat : L = Limit(s)
  BY <1>0, SlotTypes
<1> PICK R \in Nat : R = Request(s)
  BY <1>0, SlotTypes
<1>2. /\ given.requests[s] \in Nat \union {Nil}
      /\ given.limits[s] \in Nat \union {Nil}
  BY <1>0 DEF TypeOK, Container, ResourceList
<1> PICK R0 \in Nat : R0 = Quantity(given.requests[s])
  BY <1>2 DEF Quantity
<1> PICK L0 \in Nat : L0 = Quantity(given.limits[s])
  BY <1>2 DEF Quantity
<1>3. L * R0 <= L0 * R
  BY DEF ShareKept
<1>4. R # 0
  <2>1. SUFFICES ASSUME R = 0 PROVE FALSE
    OBVIOUS
  <2>2. L >= 1 /\ R0 >= 1
    OBVIOUS
  <2>3. 1 * R0 <= L * R0
    BY <2>2, ProductsGrow
  <2>4. L0 * R = 0
    BY <2>1
  <2>5. L * R0 \in Nat
    BY SMT
  <2> QED
    BY <1>3, <2>2, <2>3, <2>4, <2>5
<1>5. NewLimits[s] = ScaledLimit(s, L, R, w, spec.gap["cpu"])
  BY <1>1 DEF NewLimits, Kind
<1>6. CASE R # L
  <2>1. NewLimits[s] = (L * w) \div R
    BY <1>4, <1>5, <1>6, CpuLimit
  <2>2. ((L * w) \div R) * R0 <= L0 * w
    BY <1>3, <1>4, ShareStep
  <2> QED
    BY <2>1, <2>2
<1>7. CASE R = L
  <2>1. NewLimits[s] = w
    BY <1>0, <1>1, <1>7, NewLimitCovers
  <2>2. L * R0 \in Nat /\ L0 * L \in Nat /\ L0 * w \in Nat /\ R0 * w \in Nat
    BY SMT
  <2>3. R0 <= L0
    <3>1. SUFFICES ASSUME L0 + 1 <= R0 PROVE FALSE
      OBVIOUS
    <3>2. (L0 + 1) * L <= R0 * L
      BY <3>1, ProductsGrow
    <3>3. (L0 + 1) * L = L0 * L + L /\ R0 * L = L * R0
      BY SMT
    <3> QED
      BY <1>3, <1>4, <1>7, <2>2, <3>2, <3>3
  <2>4. R0 * w <= L0 * w
    BY <2>3, ProductsGrow
  <2>5. w * R0 = R0 * w
    OBVIOUS
  <2> QED
    BY <2>1, <2>4, <2>5
<1> QED
  BY <1>6, <1>7

LEMMA InitShare == Init => CpuShareNeverGrows
<1> SUFFICES ASSUME Init PROVE CpuShareNeverGrows
  OBVIOUS
<1>1. TypeOK
  BY InitIInv DEF IInv
<1>2. ASSUME NEW s \in CpuSlots PROVE ShareKept(s)
  <2>1. s \in Slots
    BY PolicyAssumption
  <2>2. Request(s) \in Nat /\ Limit(s) \in Nat
    BY <1>1, <2>1, SlotTypes
  <2>3. Quantity(given.requests[s]) = Request(s) /\ Quantity(given.limits[s]) = Limit(s)
    BY DEF Init, Request, Limit
  <2>4. Limit(s) * Request(s) \in Nat
    BY <2>2, SMT
  <2> QED
    BY <2>3, <2>4 DEF ShareKept
<1> QED
  BY <1>2 DEF CpuShareNeverGrows

LEMMA StepShare ==
    ASSUME IInv, IInv', CpuShareNeverGrows, [Next]_vars
    PROVE  CpuShareNeverGrows'
<1>0. TypeOK /\ Valid(container) /\ TypeOK'
  BY DEF IInv
<1>1. SUFFICES ASSUME NEW s \in CpuSlots, s \in Controlled', ControlsLimits',
                      Quantity(given'.requests[s]) # 0, NoGap(spec'.gap["cpu"])
               PROVE  Quantity(container'.limits[s]) * Quantity(given'.requests[s])
                        <= Quantity(given'.limits[s]) * Quantity(container'.requests[s])
  BY DEF CpuShareNeverGrows, ShareKept, Limit, Request
<1>2. s \in Slots
  BY PolicyAssumption
<1>3. CASE given' = container'
  <2>1. /\ container'.requests[s] \in Nat \union {Nil}
        /\ container'.limits[s] \in Nat \union {Nil}
    BY <1>0, <1>2 DEF TypeOK, Container, ResourceList
  <2> PICK r \in Nat : r = Quantity(container'.requests[s])
    BY <2>1 DEF Quantity
  <2> PICK l \in Nat : l = Quantity(container'.limits[s])
    BY <2>1 DEF Quantity
  <2>2. l * r \in Nat
    BY SMT
  <2> QED
    BY <1>3, <2>2
<1>4. ASSUME UNCHANGED <<spec, given>>
      PROVE  /\ s \in Controlled /\ ControlsLimits /\ NoGap(spec.gap["cpu"])
             /\ Quantity(given.requests[s]) # 0 /\ ShareKept(s)
             /\ Limit(s) * Quantity(given.requests[s])
                  <= Quantity(given.limits[s]) * Request(s)
  <2>1. /\ s \in Controlled /\ ControlsLimits /\ NoGap(spec.gap["cpu"])
        /\ Quantity(given.requests[s]) # 0
    BY <1>1, <1>4 DEF Controlled, ControlsLimits, Policy
  <2> QED
    BY <2>1 DEF CpuShareNeverGrows, ShareKept
<1>5. CASE UNCHANGED <<spec, given, container>>
  BY <1>4, <1>5 DEF Limit, Request
<1>6. ASSUME NEW free \in SUBSET Slots, Scale(free)
      PROVE  Quantity(container'.limits[s]) * Quantity(given'.requests[s])
               <= Quantity(given'.limits[s]) * Quantity(container'.requests[s])
  <2>1. UNCHANGED <<spec, given>>
    BY <1>6 DEF Scale
  <2>2. CASE /\ container'.requests[s] = container.requests[s]
             /\ container'.limits[s] = container.limits[s]
    BY <1>4, <2>1, <2>2 DEF Limit, Request
  <2>3. CASE /\ container'.requests[s] = CappedRequest(s)
             /\ container'.limits[s] = IF s \in LimitScaled THEN NewLimits[s]
                                       ELSE container.limits[s]
    <3>1. Nil \notin Nat
      BY PolicyAssumption
    <3>2. CappedRequest(s) \in Nat
      BY <1>0, <1>4, <2>1, CappedBounds
    <3>3. Quantity(container'.requests[s]) = CappedRequest(s)
      BY <2>3, <3>1, <3>2 DEF Quantity
    <3>4. CASE s \in LimitScaled
      <4>1. NewLimits[s] \in Nat /\ Limit(s) # 0
        BY <1>0, <3>4, NewLimitCovers
      <4>2. Quantity(container'.limits[s]) = NewLimits[s]
        BY <2>3, <3>1, <3>4, <4>1 DEF Quantity
      <4> QED
        BY <1>4, <2>1, <3>3, <4>1, <4>2, ShareScaled
    <3>5. CASE s \notin LimitScaled
      <4>1. Limit(s) = 0
        BY <1>4, <2>1, <3>5 DEF LimitScaled
      <4>2. Quantity(container'.limits[s]) = 0
        BY <2>3, <3>5, <4>1 DEF Limit
      <4>3. /\ given.requests[s] \in Nat \union {Nil}
            /\ given.limits[s] \in Nat \union {Nil}
        BY <1>0, <1>2 DEF TypeOK, Container, ResourceList
      <4> PICK r0 \in Nat : r0 = Quantity(given.requests[s])
        BY <4>3 DEF Quantity
      <4> PICK l0 \in Nat : l0 = Quantity(given.limits[s])
        BY <4>3 DEF Quantity
      <4> PICK c \in Nat : c = CappedRequest(s)
        BY <3>2
      <4>4. l0 * c \in Nat /\ 0 * r0 = 0
        BY SMT
      <4> QED
        BY <2>1, <3>3, <4>2, <4>4
    <3> QED
      BY <3>4, <3>5
  <2> QED
    BY <1>2, <1>6, <2>2, <2>3, ScaledSlot
<1> QED
  BY <1>3, <1>5, <1>6
     DEF Next, Reconcile, Edit, ScaleRejected, UserEditsContainer, UserEditsSpec,
         VpaReports, vars

\* However often a slot is scaled up and down, its CPU limit stays within the
\* share the user gave it.
THEOREM ShareNeverGrows == Spec => []CpuShareNeverGrows
BY InitShare, StepShare, Invariance, PTL DEF Spec
=============================================================================
