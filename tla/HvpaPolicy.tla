----------------------------- MODULE HvpaPolicy -----------------------------
(***************************************************************************)
(* The scaling decision of controllers/hvpa_controller.go: what one        *)
(* reconciliation does to the target, as a function of the HVPA it read,   *)
(* the target, the statuses of the HPA and the VPA, and the time.          *)
(*                                                                         *)
(* A slot is one resource (CPU or memory) of one container.  Memory is     *)
(* counted in kilobytes and CPU in millicores, the granularity the code    *)
(* rounds to; differences are kept in hundredths of that unit, so that a   *)
(* percentage of a difference is exact.                                    *)
(***************************************************************************)
EXTENDS Integers, Sequences, FiniteSetsExt

CONSTANTS
    Slots,              \* every (container, resource) pair of the pod template
    CpuSlots,           \* those whose resource is CPU
    DefaultMinChange,   \* 200M / 200m, used when minChange is not given
    Nil                 \* Go's nil: an absent pointer, status or time

ASSUME PolicyAssumption ==
    /\ CpuSlots \subseteq Slots
    /\ DefaultMinChange \in Nat
    /\ Nil \notin Nat

-----------------------------------------------------------------------------
(* The API types the decision reads. *)

Mode == {"Off", "Auto", "MaintenanceWindow"}

\* ChangeParams: an absolute value, a percentage, both or neither.
ChangeParams == [value : Nat \union {Nil}, percentage : Nat \union {Nil}]

\* ScaleType of the HPA directions and of the VPA directions (which also use
\* minChange).  A nil StabilizationDuration is 0 and a nil mode is "Auto".
HpaScaleType == [mode : Mode, stabilization : Nat]
VpaScaleType == [mode : Mode, stabilization : Nat,
                 minChange : [{"cpu", "memory"} -> ChangeParams]]

WeightInterval == [start : Nat, last : Nat, weight : 0..100]

HvpaSpec ==
    [deployHpa : BOOLEAN, deployVpa : BOOLEAN,
     annotated : BOOLEAN,          \* annotation hpa-controller: hvpa
     min : Nat, max : Nat, intervals : Seq(WeightInterval),
     hpaUp : HpaScaleType, hpaDown : HpaScaleType,
     vpaUp : VpaScaleType, vpaDown : VpaScaleType,
     maintenance : BOOLEAN,        \* a maintenance window is configured
     controlled : SUBSET Slots]    \* slots the VPA resource policy controls

HpaStatus == [desired : Nat, limited : BOOLEAN]
Requests  == [Slots -> Nat]
Reasons   == {"Weight", "UpdatePolicy", "StabilizationWindow",
              "MaintenanceWindow", "MinChange"}

-----------------------------------------------------------------------------
(* Arithmetic: Go's division truncates toward zero, SetScaled rounds up. *)

CeilDiv100(x)  == -((-x) \div 100)
FloorDiv100(x) == x \div 100
TruncDiv100(x) == IF x >= 0 THEN FloorDiv100(x) ELSE CeilDiv100(x)

Between(x, a, b) == (a <= x /\ x <= b) \/ (b <= x /\ x <= a)

\* The share w of the way from current to desired, in hundredths.
Share(current, desired, w) == (desired - current) * w

\* math.Ceil on the way up and math.Floor on the way down: at least one
\* replica of progress whenever the weight is not zero.
WeightedReplicas(current, desired, w) ==
    IF desired > current THEN current + CeilDiv100(Share(current, desired, w))
                         ELSE current + FloorDiv100(Share(current, desired, w))

\* diffMem is exact in kilobytes, diffCPU is truncated to whole millicores.
Difference(slot, current, desired, w) ==
    LET share == Share(current, desired, w)
    IN  IF slot \in CpuSlots THEN 100 * TruncDiv100(share) ELSE share

\* weightedMem is rounded up to a kilobyte; weightedCPU already is whole.
WeightedRequest(slot, current, desired, w) ==
    current + CeilDiv100(Difference(slot, current, desired, w))

\* getThreshold, in hundredths of the slot's unit.
Threshold(change, slot, current) ==
    LET share == current * change.percentage
        given == (IF change.value # Nil THEN {100 * change.value} ELSE {})
                 \union
                 (IF change.percentage = Nil THEN {}
                  ELSE {IF slot \in CpuSlots THEN 100 * FloorDiv100(share) ELSE share})
    IN  IF given = {} THEN 100 * DefaultMinChange ELSE Min(given)

-----------------------------------------------------------------------------
(* Update policies and the maintenance window. *)

\* isScalingOffByMode; "open" says whether the maintenance window contains now.
IsScalingOffByMode(policy, spec, open) ==
    \/ policy.mode = "Off"
    \/ /\ policy.mode = "MaintenanceWindow"
       /\ spec.maintenance
       /\ ~open

\* isScalingOff.  The two scale-down variables of the code are assigned from
\* ScaleUp (lines 653 and 655), so only the scale-up policies count.
IsScalingOff(spec, open) ==
    \A policy \in {spec.hpaUp, spec.vpaUp} : IsScalingOffByMode(policy, spec, open)

\* reconcileHpa keeps an HPA only under this condition.
HpaDeployed(spec) ==
    /\ spec.deployHpa
    /\ spec.hpaUp.mode = "Auto"
    /\ spec.hpaDown.mode = "Auto"

\* isHpaScaleOutLimited and the correction scaleIfRequired makes to it.
HpaScaleOutLimited(spec, hpa, open) ==
    \/ ~spec.deployHpa
    \/ IsScalingOffByMode(spec.hpaUp, spec, open)
    \/ hpa # Nil /\ hpa.desired >= spec.max /\ hpa.limited

OutsideMaintenance(policy, spec, open) ==
    policy.mode = "MaintenanceWindow" /\ ~(spec.maintenance /\ open)

\* Less than "window" has passed since the last scaling the status records.
Stabilizing(last, window, now) == last # Nil /\ now - last < window

-----------------------------------------------------------------------------
(* getVpaWeightFromIntervals. *)

\* The loop defaults the bounds of an interval to minReplicas and maxReplicas.
Covers(spec, i, replicas) ==
    LET interval == spec.intervals[i]
        start == IF interval.start = 0 THEN spec.min ELSE interval.start
        last  == IF interval.last = 0 THEN spec.max ELSE interval.last
    IN  start <= replicas /\ replicas <= last

\* The first covering interval decides.  At weight 100 a pending scale in
\* borrows the last fractional weight before it, a pending scale out the next
\* one after it; without one the weight stays 100.
VpaWeight(spec, desired, current) ==
    LET all        == DOMAIN spec.intervals
        weight(i)  == spec.intervals[i].weight
        covering   == {i \in all : Covers(spec, i, current)}
        here       == Min(covering)
        fraction   == {i \in all : weight(i) < 100}
        before     == {i \in fraction : i < here}
        after      == {i \in fraction : i > here}
    IN  IF covering = {} THEN 0
        ELSE IF weight(here) < 100 THEN weight(here)
        ELSE IF desired < current /\ before # {} THEN weight(Max(before))
        ELSE IF desired > current /\ after # {} THEN weight(Min(after))
        ELSE 100

-----------------------------------------------------------------------------
(* getWeightedReplicas: the replicas to set and the reason it was blocked. *)

HorizontalBlock_UpWindowOnly(hvpa, up, now, open) ==
    LET direction == IF up THEN hvpa.spec.hpaUp ELSE hvpa.spec.hpaDown
    IN  IF direction.mode = "Off" THEN {"UpdatePolicy"}
        ELSE IF ~hvpa.override /\ Stabilizing(hvpa.last, hvpa.spec.hpaUp.stabilization, now)
             THEN {"StabilizationWindow"}
        ELSE {}

HorizontalBlock(hvpa, up, now, open) ==
    LET spec      == hvpa.spec
        direction == IF up THEN spec.hpaUp ELSE spec.hpaDown
    IN  IF direction.mode = "Off" THEN {"UpdatePolicy"}
        ELSE IF OutsideMaintenance(direction, spec, open) THEN {"MaintenanceWindow"}
        ELSE IF ~hvpa.override /\ Stabilizing(hvpa.last, direction.stabilization, now)
             THEN {"StabilizationWindow"}
        ELSE {}

HorizontalDecision_TrustsZero(hvpa, hpa, current, vpaWeight, now, open) ==
    IF hpa = Nil THEN [replicas |-> current, blocked |-> {}]
    ELSE [replicas |-> WeightedReplicas(current, hpa.desired, 100 - vpaWeight),
          blocked  |-> {}]

\* An absent or zero desiredReplicas (an HPA that has no status yet) asks for
\* nothing, and so does an HVPA without the annotation.
HorizontalDecision(hvpa, hpa, current, vpaWeight, now, open) ==
    LET asks     == /\ hvpa.spec.annotated /\ hvpa.spec.deployHpa
                    /\ hpa # Nil /\ hpa.desired # 0
        weighted == WeightedReplicas(current, hpa.desired, 100 - vpaWeight)
        reasons  == HorizontalBlock(hvpa, weighted > current, now, open)
    IN  IF ~asks \/ weighted = current THEN [replicas |-> current, blocked |-> {}]
        ELSE IF reasons # {} THEN [replicas |-> current, blocked |-> reasons]
        ELSE [replicas |-> weighted, blocked |-> {}]

-----------------------------------------------------------------------------
(* getWeightedRequests: the new requests and the reasons for which a slot  *)
(* was not scaled.                                                         *)

Kind(slot) == IF slot \in CpuSlots THEN "cpu" ELSE "memory"

VerticalUpBlock(hvpa, limited, difference, slot, current, now, open) ==
    LET up == hvpa.spec.vpaUp
    IN  IF ~limited \/ up.mode = "Off" THEN {"UpdatePolicy"}
        ELSE IF ~hvpa.override /\ Stabilizing(hvpa.last, up.stabilization, now)
             THEN {"StabilizationWindow"}
        ELSE IF OutsideMaintenance(up, hvpa.spec, open) THEN {"MaintenanceWindow"}
        ELSE IF /\ ~hvpa.override
                /\ difference < Threshold(up.minChange[Kind(slot)], slot, current)
             THEN {"MinChange"}
        ELSE {}

VerticalDownBlock_OverrideExempt(hvpa, difference, slot, current, now, open) ==
    LET down == hvpa.spec.vpaDown
    IN  IF down.mode = "Off" THEN {"UpdatePolicy"}
        ELSE IF ~hvpa.override /\ Stabilizing(hvpa.last, down.stabilization, now)
             THEN {"StabilizationWindow"}
        ELSE {}

VerticalDownBlock(hvpa, difference, slot, current, now, open) ==
    LET down == hvpa.spec.vpaDown
    IN  IF down.mode = "Off" THEN {"UpdatePolicy"}
        ELSE IF Stabilizing(hvpa.last, down.stabilization, now) THEN {"StabilizationWindow"}
        ELSE IF OutsideMaintenance(down, hvpa.spec, open) THEN {"MaintenanceWindow"}
        ELSE IF -difference < Threshold(down.minChange[Kind(slot)], slot, current)
             THEN {"MinChange"}
        ELSE {}

\* A set override counts as a limited scale-out, and lifts a zero weight to 1.
VerticalDecision(hvpa, vpa, requests, vpaWeight, hpaLimited, now, open) ==
    LET limited == hpaLimited \/ hvpa.override
        w       == IF hvpa.override /\ vpaWeight = 0 THEN 1 ELSE vpaWeight
        diff(s) == Difference(s, requests[s], vpa[s], w)
        block(s) ==
            IF w = 0 THEN {"Weight"}
            ELSE IF diff(s) > 0
                 THEN VerticalUpBlock(hvpa, limited, diff(s), s, requests[s], now, open)
                 ELSE VerticalDownBlock(hvpa, diff(s), s, requests[s], now, open)
        asked   == IF vpa = Nil THEN {}
                   ELSE {s \in hvpa.spec.controlled : w = 0 \/ diff(s) # 0}
        scaled  == {s \in asked : block(s) = {}}
    IN  [requests |-> [s \in Slots |-> IF s \in scaled
                                       THEN WeightedRequest(s, requests[s], vpa[s], w)
                                       ELSE requests[s]],
         blocked  |-> UNION {block(s) : s \in asked}]

-----------------------------------------------------------------------------
(* scaleIfRequired up to its call of Update: "update" says whether it is   *)
(* made.                                                                   *)

Decide(hvpa, target, hpa, vpa, now, open) ==
    LET spec    == hvpa.spec
        desired == IF hpa = Nil THEN target.replicas ELSE hpa.desired
        w       == VpaWeight(spec, desired, target.replicas)
        limited == HpaScaleOutLimited(spec, hpa, open)
        v       == VerticalDecision(hvpa, vpa, target.requests, w, limited, now, open)
        h       == HorizontalDecision(hvpa, hpa, target.replicas, w, now, open)
    IN  [replicas |-> h.replicas,
         requests |-> v.requests,
         update   |-> /\ \/ h.replicas # target.replicas
                         \/ v.requests # target.requests
                      /\ ~IsScalingOff(spec, open),
         blocked  |-> h.blocked \union v.blocked]
=============================================================================
