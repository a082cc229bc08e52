--------------------------- MODULE ContainerLimits ---------------------------
(***************************************************************************)
(* The requests and the limits of one container under repeated vertical    *)
(* scalings: what getWeightedRequests of controllers/hvpa_controller.go    *)
(* does with a weighted request once nothing blocks the slot.              *)
(*                                                                         *)
(* The limits are computed first, from the limits and requests of the last *)
(* scaling, then the requests are capped to them.  The result is read back *)
(* by the next scaling, so what one rounding loses the next one builds on. *)
(* Which slots are blocked, and when, is HvpaPolicy's subject: here any    *)
(* subset of them is free.                                                 *)
(***************************************************************************)
EXTENDS HvpaPolicy

CONSTANTS
    Specs,              \* HVPA specs the user switches between
    Containers,         \* requests and limits the user may give the container
    Recommendations,    \* targets the VPA recommends for the container
    MaxEdits,           \* bound on user edits
    MaxReports          \* bound on new recommendations

-----------------------------------------------------------------------------
(* Types. *)

\* A container policy of the VPA template: "own" stands for the container's
\* name and "other" for another one's.
ContainerPolicy == [container : {"*", "own", "other"},
                    controlledResources : {Nil} \union SUBSET Slots,
                    controlledValues : {Nil, "RequestsAndLimits", "RequestsOnly"}]

LimitsSpec == [policies : Seq(ContainerPolicy),
               gap : [{"cpu", "memory"} -> ChangeParams],
               weight : 1..100]

\* A quantity that is not in the map is Nil.
ResourceList == [Slots -> Nat \union {Nil}]
Container    == [requests : ResourceList, limits : ResourceList]

\* The zero quantity that a ResourceList returns for an absent entry.
Quantity(q) == IF q = Nil THEN 0 ELSE q

\* The API server's validation of a pod template.
Valid(container) ==
    \A s \in Slots : container.limits[s] # Nil =>
                         Quantity(container.requests[s]) <= container.limits[s]

ASSUME LimitsAssumption ==
    /\ Specs \subseteq LimitsSpec
    /\ Containers \subseteq {c \in Container : Valid(c)}
    /\ Recommendations \subseteq [Slots -> Nat \ {0}]
    /\ MaxEdits \in Nat /\ MaxReports \in Nat

VARIABLES
    spec,               \* the HVPA's resource policy, limit parameters and weight
    container,          \* the container in the target's pod template
    recommendation,     \* the target in the VPA's status
    rejected,           \* the API server refused the last update
    edits, reports,
    given               \* history: the container when the user last edited anything

vars == <<spec, container, recommendation, rejected, edits, reports, given>>

TypeOK ==
    /\ spec \in LimitsSpec /\ container \in Container
    /\ recommendation \in [Slots -> Nat \ {0}]
    /\ rejected \in BOOLEAN
    /\ edits \in 0..MaxEdits /\ reports \in 0..MaxReports
    /\ given \in Container

Init ==
    /\ spec \in Specs /\ container \in Containers
    /\ recommendation \in Recommendations
    /\ rejected = FALSE
    /\ edits = 0 /\ reports = 0
    /\ given = container

-----------------------------------------------------------------------------
(* getContainerControlledResourcesAndValues. *)

\* The first policy that names the container or every container decides, and
\* without one everything is controlled.
Uncontrolled == [controlledResources |-> Nil, controlledValues |-> Nil]

Policy ==
    LET matching == {i \in DOMAIN spec.policies :
                       spec.policies[i].container \in {"*", "own"}}
    IN  IF matching = {} THEN Uncontrolled ELSE spec.policies[Min(matching)]

Controlled == IF Policy.controlledResources = Nil THEN Slots
                                                  ELSE Policy.controlledResources
ControlsLimits == Policy.controlledValues # "RequestsOnly"

-----------------------------------------------------------------------------
(* getScaledLimits: computed in thousandths of a core or of a byte; a      *)
(* memory limit is rounded up to a kilobyte afterwards.                    *)

MilliPerUnit(slot)  == IF slot \in CpuSlots THEN 1 ELSE 1000000
RoundUp(milli, per) == -((-milli) \div per)
Larger(a, b)        == IF b > a THEN b ELSE a

NoGap(gap) == gap.value = Nil /\ gap.percentage \in {Nil, 0}

Proportional_RoundsUp(slot, limit, request, weighted) ==
    RoundUp(MilliPerUnit(slot) * limit * weighted, request)

\* scaleQuantityProportionally.
Proportional(slot, limit, request, weighted) ==
    (MilliPerUnit(slot) * limit * weighted) \div request

\* The larger of the two gaps that are given; the value 0 stands for neither.
WithGap(slot, weighted, gap) ==
    LET milli      == MilliPerUnit(slot) * weighted
        percentage == IF gap.percentage \in {Nil, 0} THEN 0
                      ELSE milli + FloorDiv100(milli * gap.percentage)
        added      == IF gap.value = Nil THEN 0 ELSE milli + MilliPerUnit(slot) * gap.value
    IN  Larger(percentage, added)

ScaledLimit_GapFirst(slot, limit, request, weighted, gap) ==
    LET milli == IF ~NoGap(gap) THEN WithGap(slot, weighted, gap)
                 ELSE IF request = 0 \/ request = limit THEN MilliPerUnit(slot) * weighted
                 ELSE Proportional(slot, limit, request, weighted)
    IN  RoundUp(milli, MilliPerUnit(slot))

\* getScaledResourceLimit: a request that is absent or equal to the limit is
\* taken as equal to it and stays so.
ScaledLimit(slot, limit, request, weighted, gap) ==
    LET milli == IF request = 0 \/ request = limit THEN MilliPerUnit(slot) * weighted
                 ELSE IF NoGap(gap) THEN Proportional(slot, limit, request, weighted)
                 ELSE WithGap(slot, weighted, gap)
    IN  RoundUp(milli, MilliPerUnit(slot))

Request(slot) == Quantity(container.requests[slot])
Limit(slot)   == Quantity(container.limits[slot])

Weighted_CappedFirst(slot) ==
    LET weighted == WeightedRequest(slot, Request(slot), recommendation[slot], spec.weight)
    IN  IF Limit(slot) # 0 /\ Limit(slot) < weighted THEN Limit(slot) ELSE weighted

Weighted_NegDiff(slot) ==
    Request(slot) - CeilDiv100(Difference(slot, Request(slot), recommendation[slot],
                                          spec.weight))

\* weightedReq before it is capped: the limits are scaled with it.
Weighted(slot) == WeightedRequest(slot, Request(slot), recommendation[slot], spec.weight)

\* The slots that get a limit: controlled ones that have one already.
LimitScaled == IF ControlsLimits THEN {s \in Controlled : Limit(s) # 0} ELSE {}

NewLimits == [s \in LimitScaled |->
    ScaledLimit(s, Limit(s), Request(s), Weighted(s), spec.gap[Kind(s)])]

-----------------------------------------------------------------------------
(* capRequestsToLimits and the writes of getWeightedRequests. *)

\* The requests are capped to the new limits if there is any, also for the
\* slots that have no new limit, and to the container's own limits otherwise.
AppliedLimits(slot) ==
    IF LimitScaled = {} THEN container.limits[slot]
    ELSE IF slot \in LimitScaled THEN NewLimits[slot]
    ELSE Nil

CappedRequest_Swapped(slot) ==
    LET limit == AppliedLimits(slot)
    IN  IF limit # Nil /\ limit > Weighted(slot) THEN limit ELSE Weighted(slot)

CappedRequest_Never(slot) == Weighted(slot)

CappedRequest(slot) ==
    LET limit == AppliedLimits(slot)
    IN  IF limit # Nil /\ limit < Weighted(slot) THEN limit ELSE Weighted(slot)

\* A slot is scaled if the VPA controls it, its difference is not zero, and
\* nothing blocks it.
Scaled(free) ==
    {s \in Controlled \intersect free :
        Difference(s, Request(s), recommendation[s], spec.weight) # 0}

Rescaled(free) ==
    [requests |-> [s \in Slots |-> IF s \in Scaled(free) THEN CappedRequest(s)
                                   ELSE container.requests[s]],
     limits   |-> [s \in Slots |-> IF s \in Scaled(free) \intersect LimitScaled
                                   THEN NewLimits[s]
                                   ELSE container.limits[s]]]

Scale(free) ==
    /\ Scaled(free) # {}
    /\ Valid(Rescaled(free))
    /\ container' = Rescaled(free)
    /\ rejected' = FALSE
    /\ UNCHANGED <<spec, recommendation, edits, reports, given>>

\* The API server refuses the whole update, the other slot's scaling included.
ScaleRejected(free) ==
    /\ Scaled(free) # {}
    /\ ~Valid(Rescaled(free))
    /\ rejected' = TRUE
    /\ UNCHANGED <<spec, container, recommendation, edits, reports, given>>

-----------------------------------------------------------------------------
(* The user and the VPA recommender. *)

UserEditsContainer ==
    /\ edits < MaxEdits
    /\ container' \in Containers
    /\ given' = container'
    /\ rejected' = FALSE
    /\ edits' = edits + 1
    /\ UNCHANGED <<spec, recommendation, reports>>

UserEditsSpec ==
    /\ edits < MaxEdits
    /\ spec' \in Specs
    /\ given' = container
    /\ rejected' = FALSE
    /\ edits' = edits + 1
    /\ UNCHANGED <<container, recommendation, reports>>

VpaReports ==
    /\ reports < MaxReports
    /\ recommendation' \in Recommendations
    /\ reports' = reports + 1
    /\ UNCHANGED <<spec, container, rejected, edits, given>>

-----------------------------------------------------------------------------
Reconcile(free) == Scale(free) \/ ScaleRejected(free)
Edit == UserEditsContainer \/ UserEditsSpec \/ VpaReports

Next == (\E free \in SUBSET Slots : Reconcile(free)) \/ Edit

\* A slot that stays unblocked is scaled by some later reconcile; one that is
\* blocked for good is none of this module's business.
Spec == Init /\ [][Next]_vars /\ WF_vars(Reconcile(Slots))

-----------------------------------------------------------------------------
(* Properties. *)

\* Every template the reconciler writes is one the API server accepts, however
\* the roundings of earlier scalings have moved limit and request: an update is
\* refused only when a slot has an explicit limit of zero, which counts as no
\* limit (line 1286) and so does not cap (lines 1033-1037).
AcceptedByServer ==
    rejected => \E s \in Controlled : container.limits[s] = 0

\* Pods whose request and limit are equal keep that (and with it their quality
\* of service) through every scaling that controls limits (lines 1289-1299).
EqualKept(slot) ==
    Limit(slot) # 0 /\ Request(slot) = Limit(slot) =>
        container'.requests[slot] = container'.limits[slot]
EqualStaysEqual ==
    [][ControlsLimits /\ ~UserEditsContainer => \A s \in Slots : EqualKept(s)]_vars

\* A scaling moves a request from where it is towards the recommendation and
\* not past it, although it is capped after the direction was chosen (lines
\* 1033-1037 and 1052-1111).
MovesTowardsRecommendation ==
    [][edits' = edits =>
         \A s \in Slots : container'.requests[s] # container.requests[s] =>
             Between(container'.requests[s], Request(s), recommendation[s])]_vars

\* As long as the user edits nothing, proportional scaling never lets the limit
\* of a CPU slot grow beyond the share the user gave it, up and down any number
\* of times (lines 1342-1355).
ShareKept(slot) ==
    ControlsLimits /\ NoGap(spec.gap["cpu"]) =>
        Limit(slot) * Quantity(given.requests[slot])
            <= Quantity(given.limits[slot]) * Request(slot)
CpuShareNeverGrows ==
    \A s \in CpuSlots \intersect Controlled :
        Quantity(given.requests[s]) # 0 => ShareKept(s)

\* What remains of the way to the recommendation is below the rounding, or the
\* limit ends it: one the VPA must not change, or an explicit zero.
Arrived(slot) ==
    \/ (recommendation[slot] - Request(slot)) * spec.weight \in -99..99
    \/ container.limits[slot] # Nil /\ Request(slot) = container.limits[slot]
       /\ (~ControlsLimits \/ Limit(slot) = 0)

\* Once the user and the recommender leave off, every controlled slot gets
\* where it is going, and in particular a request that a limit has capped goes
\* on with the limit (lines 1030-1037), unless the API server refuses the update.
FollowsRecommendation ==
    <>[][UNCHANGED <<edits, reports>>]_vars =>
        <>[](rejected \/ \A s \in Controlled : Arrived(s))
=============================================================================
