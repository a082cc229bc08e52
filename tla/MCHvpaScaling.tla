--------------------------- MODULE MCHvpaScaling ---------------------------
(***************************************************************************)
(* Instances of HvpaScaling for TLC: one container whose memory is scaled, *)
(* between one and two replicas, horizontally at one replica and           *)
(* vertically at two, with windows of one and two ticks.                   *)
(***************************************************************************)
EXTENDS HvpaScaling

MCSlots == {"memory"}
Memory(n) == [s \in MCSlots |-> n]

Exactly(n) == [value |-> n, percentage |-> Nil]
MinChange(n) == [cpu |-> Exactly(n), memory |-> Exactly(n)]
HpaScale(mode, duration) == [mode |-> mode, stabilization |-> duration]
VpaScale(mode, duration) ==
    [mode |-> mode, stabilization |-> duration, minChange |-> MinChange(1)]

\* Horizontal at one replica; vertical at two, where a scale in is horizontal.
AutoSpec ==
    [deployHpa |-> TRUE, deployVpa |-> TRUE, annotated |-> TRUE, min |-> 1, max |-> 2,
     intervals |-> << [start |-> 0, last |-> 1, weight |-> 0],
                      [start |-> 2, last |-> 0, weight |-> 100] >>,
     hpaUp |-> HpaScale("Auto", 1), hpaDown |-> HpaScale("Auto", 2),
     vpaUp |-> VpaScale("Auto", 1), vpaDown |-> VpaScale("Auto", 2),
     maintenance |-> TRUE, controlled |-> MCSlots]

\* Horizontal at one replica; at two both dimensions at once, the vertical one
\* by half; scale down of requests only in the maintenance window.
HalfSpec ==
    [AutoSpec EXCEPT
       !.intervals = << [start |-> 0, last |-> 1, weight |-> 0],
                        [start |-> 2, last |-> 0, weight |-> 50] >>,
       !.vpaDown = VpaScale("MaintenanceWindow", 2)]

\* Vertical only: no HPA.
VpaOnlySpec ==
    [AutoSpec EXCEPT !.deployHpa = FALSE,
                     !.intervals = << [start |-> 0, last |-> 0, weight |-> 100] >>]

\* Scaling up is off; scaling down is automatic and vertical.
OnlyDownSpec ==
    [AutoSpec EXCEPT !.intervals = << [start |-> 0, last |-> 0, weight |-> 100] >>,
                     !.hpaUp = HpaScale("Off", 0), !.vpaUp = VpaScale("Off", 0)]

MCAutoSpecs == {AutoSpec}
MCVpaOnlySpecs == {VpaOnlySpec}
MCOnlyDownSpecs == {OnlyDownSpec}
MCTwoSpecs  == {HalfSpec, VpaOnlySpec}

MCTarget(replicas, memory) == [replicas |-> replicas, requests |-> Memory(memory)]
MCInitialTarget == MCTarget(1, 1)
MCLargeTarget   == MCTarget(2, 3)
MCUserTargets   == {MCTarget(2, 1), MCTarget(1, 3)}
MCHpaStatuses   == {[desired |-> 1, limited |-> FALSE], [desired |-> 2, limited |-> TRUE]}
MCScaleOutStatus == {[desired |-> 2, limited |-> TRUE]}
MCRecommendations == {Memory(1), Memory(3)}
MCMaintenanceTimes == {2}
=============================================================================
