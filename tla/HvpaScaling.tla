---------------------------- MODULE HvpaScaling ----------------------------
(***************************************************************************)
(* One HVPA and its target under the reconcile loop and the pod event      *)
(* handler of controllers/hvpa_controller.go.                              *)
(*                                                                         *)
(* The reconciler and the handler run in two goroutines.  Both read the    *)
(* HVPA and the target from the informer's cache, which lags behind the    *)
(* API server, and both write the HVPA's status with an optimistic update: *)
(* the API server rejects a write that carries an old resourceVersion.     *)
(* A scaling is two writes, the target first and the status afterwards;    *)
(* everything this module is about happens between the two.                *)
(*                                                                         *)
(* The API server only compares a resourceVersion with the stored one, so  *)
(* it is modelled by the set of holders whose copy carries the stored one  *)
(* ("latest"): a write empties the set, a read copies the membership.      *)
(***************************************************************************)
EXTENDS HvpaPolicy

CONSTANTS
    Pods,               \* pods of the target
    Specs,              \* HVPA specs the user switches between
    InitialTarget,      \* the target when the controller starts
    UserTargets,        \* what the user may set the target to
    HpaStatuses,        \* statuses the HPA controller reports
    Recommendations,    \* requests the VPA recommender reports, or Nil
    MaintenanceTimes,   \* the instants the maintenance window contains
    MaxTime,            \* bound on the clock
    MaxEdits,           \* bound on user edits
    MaxKills,           \* bound on OOM kills and evictions
    MaxFaults           \* bound on failed calls, lost replies and restarts

\* The HPA refuses to work on a target of zero replicas; none is started here.
Target == [replicas : Nat \ {0}, requests : Requests]

ASSUME ScalingAssumption ==
    /\ Specs \subseteq HvpaSpec /\ Specs # {}
    /\ InitialTarget \in Target
    /\ UserTargets \subseteq Target
    /\ HpaStatuses \subseteq HpaStatus
    /\ Recommendations \subseteq (Requests \union {Nil})
    /\ MaxTime \in Nat /\ MaxEdits \in Nat /\ MaxKills \in Nat /\ MaxFaults \in Nat

VARIABLES
    (* API server *)
    hvpa,           \* the HVPA object: spec and status
    target,         \* the target: replicas and the template's requests
    hpa,            \* status of the HPA owned by the HVPA, or Nil
    vpa,            \* status of the VPA owned by the HVPA, or Nil
    pods,           \* the pods, with the requests they were created with
    (* informer caches and resourceVersions *)
    cached,         \* the HVPA and the target as the informers last saw them
    latestHvpa,     \* holders of the HVPA's stored resourceVersion
    latestTarget,   \* whether the cached target carries the stored one
    events,         \* pod objects of the events the handler has not taken yet
    (* controller process *)
    known,          \* cachedNames holds the HVPA's selector
    reconciler,     \* the reconcile worker
    handler,        \* the pod event handler
    (* environment *)
    now, edits, kills, faults,
    (* history, read by the properties only *)
    lastApplied,    \* time of the last write of the target by the reconciler
    ledger          \* what became of the status write that records it

apiVars   == <<hvpa, target, hpa, vpa, pods>>
cacheVars == <<cached, latestHvpa, latestTarget>>
procVars  == <<known, reconciler, handler>>
histVars  == <<lastApplied, ledger>>
vars == <<apiVars, cacheVars, events, procVars, now, edits, kills, faults, histVars>>

-----------------------------------------------------------------------------
(* Types. *)

Time == 0..MaxTime

Policies == [hpaUp : Mode, hpaDown : Mode, vpaUp : Mode, vpaDown : Mode]

Hvpa == [spec : Specs, last : Time \union {Nil}, override : BOOLEAN,
         blocked : SUBSET Reasons, policies : Policies]

Pod == [requests : Requests, oomAt : Time \union {Nil}, evicted : BOOLEAN]

VpaStatus == [recommendation : Requests \union {Nil}]

Holders == {"informer", "reconciler", "handler"}

\* "scale": the instance is read; "record": the target is dealt with and only
\* the status is left to write.  "status" is the HVPA that will be written;
\* "swallowed" says that an error of the HPA's client was overwritten.
Reconciler ==
    [pc : {"idle"}, instance : {Nil}, status : {Nil}, scaled : {FALSE}, swallowed : {FALSE}]
        \union [pc : {"scale"}, instance : Hvpa, status : {Nil}, scaled : {FALSE},
                swallowed : BOOLEAN]
        \union [pc : {"record"}, instance : Hvpa, status : Hvpa, scaled : BOOLEAN,
                swallowed : {FALSE}]

Handler == [pc : {"idle"}, pod : {Nil}, instance : {Nil}]
               \union [pc : {"write"}, pod : Pod, instance : Hvpa]

TypeOK ==
    /\ hvpa \in Hvpa /\ target \in Target
    /\ hpa \in HpaStatus \union {Nil} /\ vpa \in VpaStatus \union {Nil}
    /\ pods \in [Pods -> Pod]
    /\ cached \in [hvpa : Hvpa, target : Target]
    /\ latestHvpa \subseteq Holders /\ latestTarget \in BOOLEAN
    /\ events \subseteq Pod
    /\ known \in BOOLEAN /\ reconciler \in Reconciler /\ handler \in Handler
    /\ now \in Time /\ edits \in 0..MaxEdits
    /\ kills \in 0..MaxKills /\ faults \in 0..MaxFaults
    /\ lastApplied \in Time \union {Nil}
    /\ ledger \in {"none", "pending", "recorded", "lost"}

Idle    == [pc |-> "idle", instance |-> Nil, status |-> Nil, scaled |-> FALSE,
            swallowed |-> FALSE]
Waiting == [pc |-> "idle", pod |-> Nil, instance |-> Nil]

\* Lines 1507-1510 copy the update policies of the spec into the status.
PoliciesOf(spec) == [hpaUp |-> spec.hpaUp.mode, hpaDown |-> spec.hpaDown.mode,
                     vpaUp |-> spec.vpaUp.mode, vpaDown |-> spec.vpaDown.mode]

Init ==
    /\ \E spec \in Specs :
         hvpa = [spec |-> spec, last |-> Nil, override |-> FALSE,
                 blocked |-> {}, policies |-> PoliciesOf(spec)]
    /\ target = InitialTarget
    /\ hpa = Nil /\ vpa = Nil
    /\ pods = [p \in Pods |->
                 [requests |-> InitialTarget.requests, oomAt |-> Nil, evicted |-> FALSE]]
    /\ cached = [hvpa |-> hvpa, target |-> target]
    /\ latestHvpa = {"informer"} /\ latestTarget = TRUE
    /\ events = {}
    /\ known = FALSE /\ reconciler = Idle /\ handler = Waiting
    /\ now = 0 /\ edits = 0 /\ kills = 0 /\ faults = 0
    /\ lastApplied = Nil /\ ledger = "none"

-----------------------------------------------------------------------------
(* The reconcile worker: Reconcile, lines 1415-1539. *)

Open == now \in MaintenanceTimes

\* A holder that copies the informer's HVPA gets the informer's resourceVersion.
CopiedBy(holder) == IF "informer" \in latestHvpa THEN latestHvpa \union {holder}
                                                 ELSE latestHvpa \ {holder}

\* Get the instance from the cache; ManageCache adds its selector.
ReadInstance ==
    /\ reconciler.pc = "idle"
    /\ reconciler' = [Idle EXCEPT !.pc = "scale", !.instance = cached.hvpa]
    /\ latestHvpa' = CopiedBy("reconciler")
    /\ known' = TRUE
    /\ UNCHANGED <<apiVars, cached, latestTarget, events, handler,
                   now, edits, kills, faults, histVars>>

\* What reconcileHpa and reconcileVpa leave: one HPA and one VPA as the spec
\* wants them, or none.  A created object has an empty status.
EmptyStatus == [desired |-> 0, limited |-> FALSE]

ReconciledHpa(spec) == IF ~HpaDeployed(spec) THEN Nil
                       ELSE IF hpa = Nil THEN EmptyStatus
                       ELSE hpa
ReconciledVpa(spec) == IF ~spec.deployVpa THEN Nil
                       ELSE IF vpa = Nil THEN [recommendation |-> Nil]
                       ELSE vpa

\* With autoscaling/v2 the error of Get or Create is overwritten by that of the
\* conversion (lines 422 and 459): nothing is created, an empty status is read.
HpaRead == IF reconciler.swallowed THEN EmptyStatus
                                   ELSE ReconciledHpa(reconciler.instance.spec)
RecommendationRead ==
    LET vpaStatus == ReconciledVpa(reconciler.instance.spec)
    IN  IF vpaStatus = Nil THEN Nil ELSE vpaStatus.recommendation

ReconcileChildren ==
    /\ hpa' = IF reconciler.swallowed THEN hpa ELSE ReconciledHpa(reconciler.instance.spec)
    /\ vpa' = ReconciledVpa(reconciler.instance.spec)

Decision == Decide(reconciler.instance, cached.target, HpaRead, RecommendationRead, now, Open)

\* Lines 1493-1528.  LastBlockedScaling is kept when nothing is blocked now.
StatusAfter(decision, scaled) ==
    LET instance == reconciler.instance
    IN  [instance EXCEPT
           !.blocked  = IF decision.blocked = {} THEN @ ELSE decision.blocked,
           !.policies = PoliciesOf(instance.spec),
           !.last     = IF scaled THEN now ELSE @,
           !.override = IF scaled THEN FALSE ELSE @]

ProceedToRecord(decision, scaled) ==
    reconciler' = [reconciler EXCEPT !.pc = "record", !.scaled = scaled, !.swallowed = FALSE,
                                     !.status = StatusAfter(decision, scaled)]

\* Every return from Reconcile drops the worker's copy.
EndReconcile ==
    /\ reconciler' = Idle
    /\ latestHvpa' = latestHvpa \ {"reconciler"}

ScalingNotRequired ==
    /\ reconciler.pc = "scale"
    /\ ~Decision.update
    /\ ReconcileChildren
    /\ ProceedToRecord(Decision, FALSE)
    /\ UNCHANGED <<hvpa, target, pods, cacheVars, events, known, handler,
                   now, edits, kills, faults, histVars>>

WriteTarget ==
    /\ target' = [replicas |-> Decision.replicas, requests |-> Decision.requests]
    /\ latestTarget' = FALSE
    /\ lastApplied' = now

UpdateTarget_IgnoresVersion ==
    /\ reconciler.pc = "scale"
    /\ Decision.update
    /\ WriteTarget
    /\ ReconcileChildren
    /\ ProceedToRecord(Decision, TRUE)
    /\ ledger' = "pending"
    /\ UNCHANGED <<hvpa, pods, cached, latestHvpa, events, known, handler,
                   now, edits, kills, faults>>

\* r.Update of line 643 succeeds: it carries the resourceVersion of the target.
UpdateTarget ==
    /\ reconciler.pc = "scale"
    /\ Decision.update
    /\ latestTarget
    /\ WriteTarget
    /\ ReconcileChildren
    /\ ProceedToRecord(Decision, TRUE)
    /\ ledger' = "pending"
    /\ UNCHANGED <<hvpa, pods, cached, latestHvpa, events, known, handler,
                   now, edits, kills, faults>>

UpdateTargetConflict_Proceeds ==
    /\ reconciler.pc = "scale"
    /\ Decision.update
    /\ ~latestTarget
    /\ ReconcileChildren
    /\ ProceedToRecord(Decision, TRUE)
    /\ UNCHANGED <<hvpa, target, pods, cacheVars, events, known, handler,
                   now, edits, kills, faults, histVars>>

\* The cached target is old: the update is rejected and Reconcile returns.
UpdateTargetConflict ==
    /\ reconciler.pc = "scale"
    /\ Decision.update
    /\ ~latestTarget
    /\ ReconcileChildren
    /\ EndReconcile
    /\ UNCHANGED <<hvpa, target, pods, cached, latestTarget, events, known, handler,
                   now, edits, kills, faults, histVars>>

\* The API server applies the update but the reply is an error for the caller.
UpdateTargetReplyLost ==
    /\ reconciler.pc = "scale"
    /\ Decision.update
    /\ latestTarget
    /\ faults < MaxFaults
    /\ WriteTarget
    /\ ReconcileChildren
    /\ EndReconcile
    /\ ledger' = "lost"
    /\ faults' = faults + 1
    /\ UNCHANGED <<hvpa, pods, cached, events, known, handler, now, edits, kills>>

HpaErrorSwallowed ==
    /\ reconciler.pc = "scale"
    /\ ~reconciler.swallowed
    /\ HpaDeployed(reconciler.instance.spec)
    /\ faults < MaxFaults
    /\ reconciler' = [reconciler EXCEPT !.swallowed = TRUE]
    /\ faults' = faults + 1
    /\ UNCHANGED <<apiVars, cacheVars, events, known, handler, now, edits, kills, histVars>>

\* Reading the target, reconcileHpa, reconcileVpa or the update fails: what was
\* done before stays done, the HPA first and then the VPA.
ReconcileFails ==
    /\ reconciler.pc = "scale"
    /\ faults < MaxFaults
    /\ hpa' \in {hpa, ReconciledHpa(reconciler.instance.spec)}
    /\ vpa' \in {vpa, ReconciledVpa(reconciler.instance.spec)}
    /\ vpa' # vpa => hpa' = ReconciledHpa(reconciler.instance.spec)
    /\ EndReconcile
    /\ faults' = faults + 1
    /\ UNCHANGED <<hvpa, target, pods, cached, latestTarget, events, known, handler,
                   now, edits, kills, histVars>>

\* Line 1534: the status is written when it differs from the one that was read.
StatusDiffers == reconciler.scaled \/ reconciler.status # reconciler.instance

\* The status also holds by how much a scaling was blocked, which may differ
\* when the reasons do not.
StatusMayDiffer == StatusDiffers \/ reconciler.status.blocked # {}

LedgerWhen(outcome) == IF reconciler.scaled THEN outcome ELSE ledger

NothingToRecord ==
    /\ reconciler.pc = "record"
    /\ ~StatusDiffers
    /\ EndReconcile
    /\ UNCHANGED <<apiVars, cached, latestTarget, events, known, handler,
                   now, edits, kills, faults, histVars>>

RecordStatus_IgnoresVersion ==
    /\ reconciler.pc = "record"
    /\ StatusMayDiffer
    /\ hvpa' = [reconciler.status EXCEPT !.spec = hvpa.spec]
    /\ latestHvpa' = {}
    /\ reconciler' = Idle
    /\ ledger' = LedgerWhen("recorded")
    /\ UNCHANGED <<target, hpa, vpa, pods, cached, latestTarget, events, known, handler,
                   now, edits, kills, faults, lastApplied>>

RecordStatus ==
    /\ reconciler.pc = "record"
    /\ StatusMayDiffer
    /\ "reconciler" \in latestHvpa
    /\ hvpa' = reconciler.status
    /\ latestHvpa' = {}
    /\ reconciler' = Idle
    /\ ledger' = LedgerWhen("recorded")
    /\ UNCHANGED <<target, hpa, vpa, pods, cached, latestTarget, events, known, handler,
                   now, edits, kills, faults, lastApplied>>

RecordStatusConflict_RetriesSameCopy ==
    /\ reconciler.pc = "record"
    /\ StatusMayDiffer
    /\ "reconciler" \notin latestHvpa
    /\ UNCHANGED vars

\* Somebody wrote the HVPA since it was read: the status write is rejected.
RecordStatusConflict ==
    /\ reconciler.pc = "record"
    /\ StatusMayDiffer
    /\ "reconciler" \notin latestHvpa
    /\ EndReconcile
    /\ ledger' = LedgerWhen("lost")
    /\ UNCHANGED <<apiVars, cached, latestTarget, events, known, handler,
                   now, edits, kills, faults, lastApplied>>

RecordStatusFails ==
    /\ reconciler.pc = "record"
    /\ StatusMayDiffer
    /\ faults < MaxFaults
    /\ EndReconcile
    /\ ledger' = LedgerWhen("lost")
    /\ faults' = faults + 1
    /\ UNCHANGED <<apiVars, cached, latestTarget, events, known, handler,
                   now, edits, kills, lastApplied>>

-----------------------------------------------------------------------------
(* The pod event handler: getPodEventHandler, lines 1558-1699. *)

\* Lines 1667-1686: killed after the last scaling the status records.
RecentKill(pod, last) == pod.oomAt # Nil /\ (last # Nil => pod.oomAt > last)

\* The pod is of an HVPA in cachedNames, runs the target's present requests,
\* the override is not set yet, and the cause calls for it.  An evicted pod
\* only needs a node under memory pressure.
WarrantsOverride(pod, memoryPressure) ==
    /\ known
    /\ pod.requests = cached.target.requests
    /\ ~cached.hvpa.override
    /\ IF pod.evicted THEN memoryPressure ELSE RecentKill(pod, cached.hvpa.last)

HandlePodEvent(pod) ==
    /\ handler.pc = "idle"
    /\ \E memoryPressure \in BOOLEAN : WarrantsOverride(pod, memoryPressure)
    /\ handler' = [pc |-> "write", pod |-> pod, instance |-> cached.hvpa]
    /\ latestHvpa' = CopiedBy("handler")
    /\ events' = events \ {pod}
    /\ UNCHANGED <<apiVars, cached, latestTarget, known, reconciler,
                   now, edits, kills, faults, histVars>>

\* The handler returns nil, so the event is gone whatever the reason was.
IgnorePodEvent(pod) ==
    /\ handler.pc = "idle"
    /\ \E memoryPressure \in BOOLEAN : ~WarrantsOverride(pod, memoryPressure)
    /\ events' = events \ {pod}
    /\ UNCHANGED <<apiVars, cacheVars, procVars, now, edits, kills, faults, histVars>>

\* A failed read of the HVPA, the target or the node is logged and forgotten.
PodEventReadFails(pod) ==
    /\ handler.pc = "idle"
    /\ faults < MaxFaults
    /\ events' = events \ {pod}
    /\ faults' = faults + 1
    /\ UNCHANGED <<apiVars, cacheVars, procVars, now, edits, kills, histVars>>

EndHandler ==
    /\ handler' = Waiting
    /\ latestHvpa' = latestHvpa \ {"handler"}

WriteOverride_IgnoresVersion ==
    /\ handler.pc = "write"
    /\ hvpa' = [handler.instance EXCEPT !.override = TRUE, !.spec = hvpa.spec]
    /\ latestHvpa' = {}
    /\ handler' = Waiting
    /\ UNCHANGED <<target, hpa, vpa, pods, cached, latestTarget, events, known,
                   reconciler, now, edits, kills, faults, histVars>>

WriteOverride ==
    /\ handler.pc = "write"
    /\ "handler" \in latestHvpa
    /\ hvpa' = [handler.instance EXCEPT !.override = TRUE]
    /\ latestHvpa' = {}
    /\ handler' = Waiting
    /\ UNCHANGED <<target, hpa, vpa, pods, cached, latestTarget, events, known,
                   reconciler, now, edits, kills, faults, histVars>>

\* A rejected write is logged only (lines 1691-1694): the override is lost.
WriteOverrideConflict ==
    /\ handler.pc = "write"
    /\ "handler" \notin latestHvpa
    /\ EndHandler
    /\ UNCHANGED <<apiVars, cached, latestTarget, events, known, reconciler,
                   now, edits, kills, faults, histVars>>

WriteOverrideFails ==
    /\ handler.pc = "write"
    /\ faults < MaxFaults
    /\ EndHandler
    /\ faults' = faults + 1
    /\ UNCHANGED <<apiVars, cached, latestTarget, events, known, reconciler,
                   now, edits, kills, histVars>>

-----------------------------------------------------------------------------
(* The informers and a restart of the controller. *)

SyncHvpa ==
    /\ "informer" \notin latestHvpa
    /\ cached' = [cached EXCEPT !.hvpa = hvpa]
    /\ latestHvpa' = latestHvpa \union {"informer"}
    /\ UNCHANGED <<apiVars, latestTarget, events, procVars,
                   now, edits, kills, faults, histVars>>

SyncTarget ==
    /\ ~latestTarget
    /\ cached' = [cached EXCEPT !.target = target]
    /\ latestTarget' = TRUE
    /\ UNCHANGED <<apiVars, latestHvpa, events, procVars,
                   now, edits, kills, faults, histVars>>

\* The pods an event of which the handler may act upon: it returns at once for
\* one that is neither evicted nor has a container that was killed.
Alarming(states) == {pod \in states : pod.evicted \/ pod.oomAt # Nil}

\* The process starts with synced caches, an empty cachedNames, and a create
\* event, which the event filter lets pass, for every existing pod.
Restart ==
    /\ faults < MaxFaults
    /\ reconciler' = Idle /\ handler' = Waiting /\ known' = FALSE
    /\ cached' = [hvpa |-> hvpa, target |-> target]
    /\ latestHvpa' = {"informer"} /\ latestTarget' = TRUE
    /\ events' = Alarming({pods[p] : p \in Pods})
    /\ ledger' = LedgerWhen("lost")
    /\ faults' = faults + 1
    /\ UNCHANGED <<apiVars, now, edits, kills, lastApplied>>

-----------------------------------------------------------------------------
(* The environment: clock, HPA and VPA controllers, kubelet, user. *)

Tick ==
    /\ now < MaxTime
    /\ now' = now + 1
    /\ UNCHANGED <<apiVars, cacheVars, events, procVars, edits, kills, faults, histVars>>

\* The HPA controller keeps desiredReplicas within the bounds of the HPA.
HpaReports ==
    /\ hpa # Nil
    /\ \E status \in HpaStatuses :
         /\ status.desired \in hvpa.spec.min .. hvpa.spec.max
         /\ hpa' = status
    /\ UNCHANGED <<hvpa, target, vpa, pods, cacheVars, events, procVars,
                   now, edits, kills, faults, histVars>>

VpaReports ==
    /\ vpa # Nil
    /\ \E recommendation \in Recommendations :
         vpa' = [recommendation |-> recommendation]
    /\ UNCHANGED <<hvpa, target, hpa, pods, cacheVars, events, procVars,
                   now, edits, kills, faults, histVars>>

\* The event filter lets an update pass whose pod was killed again (the restart
\* count grew) or is evicted now; the handler sees its old and its new object.
PodOomKilled(p) ==
    /\ kills < MaxKills
    /\ ~pods[p].evicted
    /\ pods' = [pods EXCEPT ![p].oomAt = now]
    /\ events' = events \union Alarming({pods[p], pods'[p]})
    /\ kills' = kills + 1
    /\ UNCHANGED <<hvpa, target, hpa, vpa, cacheVars, procVars, now, edits, faults, histVars>>

PodEvicted(p) ==
    /\ kills < MaxKills
    /\ ~pods[p].evicted
    /\ pods' = [pods EXCEPT ![p].evicted = TRUE]
    /\ events' = events \union Alarming({pods[p], pods'[p]})
    /\ kills' = kills + 1
    /\ UNCHANGED <<hvpa, target, hpa, vpa, cacheVars, procVars, now, edits, faults, histVars>>

\* A new pod takes the place of one that runs an old template or is evicted.
\* The handler sees the old pod's last state: delete events pass the filter.
PodReplaced(p) ==
    /\ pods[p].evicted \/ pods[p].requests # target.requests
    /\ pods' = [pods EXCEPT ![p] =
                  [requests |-> target.requests, oomAt |-> Nil, evicted |-> FALSE]]
    /\ events' = events \union Alarming({pods[p]})
    /\ UNCHANGED <<hvpa, target, hpa, vpa, cacheVars, procVars,
                   now, edits, kills, faults, histVars>>

UserEditsSpec ==
    /\ edits < MaxEdits
    /\ \E spec \in Specs \ {hvpa.spec} : hvpa' = [hvpa EXCEPT !.spec = spec]
    /\ latestHvpa' = {}
    /\ edits' = edits + 1
    /\ UNCHANGED <<target, hpa, vpa, pods, cached, latestTarget, events, procVars,
                   now, kills, faults, histVars>>

UserEditsTarget ==
    /\ edits < MaxEdits
    /\ target' \in UserTargets \ {target}
    /\ latestTarget' = FALSE
    /\ edits' = edits + 1
    /\ UNCHANGED <<hvpa, hpa, vpa, pods, cached, latestHvpa, events, procVars,
                   now, kills, faults, histVars>>

-----------------------------------------------------------------------------
Scale  == ScalingNotRequired \/ UpdateTarget \/ UpdateTargetConflict
Record == NothingToRecord \/ RecordStatus \/ RecordStatusConflict
Handle == \E pod \in events : HandlePodEvent(pod) \/ IgnorePodEvent(pod)
Write  == WriteOverride \/ WriteOverrideConflict

Faults ==
    \/ UpdateTargetReplyLost \/ HpaErrorSwallowed \/ ReconcileFails \/ RecordStatusFails
    \/ \E pod \in events : PodEventReadFails(pod)
    \/ WriteOverrideFails
    \/ Restart

Environment ==
    \/ Tick \/ HpaReports \/ VpaReports
    \/ \E p \in Pods : PodOomKilled(p) \/ PodEvicted(p) \/ PodReplaced(p)
    \/ UserEditsSpec \/ UserEditsTarget

Next ==
    \/ ReadInstance \/ Scale \/ Record
    \/ Handle \/ Write
    \/ SyncHvpa \/ SyncTarget
    \/ Faults
    \/ Environment

Spec == Init /\ [][Next]_vars

\* Each reconcile is requeued (after a minute, or with back-off on an error),
\* the handler's goroutine takes the queued events, and the watches deliver.
Fairness ==
    /\ WF_vars(ReadInstance) /\ WF_vars(Scale) /\ WF_vars(Record)
    /\ WF_vars(Handle) /\ WF_vars(Write)
    /\ WF_vars(SyncHvpa) /\ WF_vars(SyncTarget)

FairSpec == Spec /\ Fairness

-----------------------------------------------------------------------------
(* Properties. *)

\* A scaling whose status write succeeded is what LastScaleTime says, until
\* the next scaling: neither the handler's write of a copy of the status nor a
\* late reconcile puts an older time back (lines 1514 and 1691).
RecordKept == ledger = "recorded" => hvpa.last = lastApplied

\* The status never claims a scaling later than the last write of the target:
\* a failed update leaves no trace in LastScaleTime (lines 1488-1491).
RecordTruthful == hvpa.last # Nil => lastApplied # Nil /\ hvpa.last <= lastApplied

\* The reconciler's write of the target, as opposed to the user's.
ReconcilerScales == target' # target /\ reconciler.pc = "scale" /\ reconciler' # reconciler

\* The step was decided on knowledge of the previous scaling: its status write
\* was not lost and the instance read from the cache is the stored one.
Informed == ledger # "lost" /\ "reconciler" \in latestHvpa

Early(stabilization) == lastApplied # Nil /\ now - lastApplied < stabilization

\* Two scale operations are never closer than the stabilization duration of
\* the direction, unless the override was read (scale up of requests and any
\* change of replicas), the record of the first one was lost, or the cache
\* had not caught up with it (lines 788, 800, 1054, 1082).
StabilizationStep ==
    ReconcilerScales /\ Informed =>
        LET spec == reconciler.instance.spec
            override == reconciler.instance.override
        IN  /\ (\E s \in Slots : target'.requests[s] > target.requests[s]) =>
                 override \/ ~Early(spec.vpaUp.stabilization)
            /\ (\E s \in Slots : target'.requests[s] < target.requests[s]) =>
                 ~Early(spec.vpaDown.stabilization)
            /\ target'.replicas > target.replicas =>
                 override \/ ~Early(spec.hpaUp.stabilization)
            /\ target'.replicas < target.replicas =>
                 override \/ ~Early(spec.hpaDown.stabilization)
StabilizationHonoured == [][StabilizationStep]_vars

\* Once set, the override is cleared only by a reconcile that had read it set
\* and scaled: one that started before never erases it (line 1527).
OverrideClearedStep ==
    hvpa.override /\ ~hvpa'.override =>
        reconciler.pc = "record" /\ reconciler.instance.override /\ reconciler.scaled
OverrideOutlivesOldReconciles == [][OverrideClearedStep]_vars

\* An OOM kill that a recorded scaling has answered never sets the override,
\* however stale the HVPA was that the handler looked at (lines 1671-1676).
OverrideSetStep ==
    ~hvpa.override /\ hvpa'.override =>
        \/ handler.pod.evicted
        \/ handler.pod.oomAt # Nil /\ (hvpa.last # Nil => hvpa.last < handler.pod.oomAt)
OverrideForUnansweredKill == [][OverrideSetStep]_vars

\* A write of the target moves every quantity from what the target holds
\* towards the recommendation that was read and never past it, so a user's edit
\* made since the target was read is never undone (lines 643, 738-741, 1007-1023).
TowardsStep ==
    ReconcilerScales =>
        /\ target'.replicas # target.replicas =>
             hpa' # Nil /\ Between(target'.replicas, target.replicas, hpa'.desired)
        /\ \A s \in Slots : target'.requests[s] # target.requests[s] =>
             /\ vpa' # Nil /\ vpa'.recommendation # Nil
             /\ Between(target'.requests[s], target.requests[s], vpa'.recommendation[s])
ScalesTowardsRecommendation == [][TowardsStep]_vars

\* What a reconcile that reads the stored objects would do now.
Due ==
    LET vpaStatus == ReconciledVpa(hvpa.spec)
    IN  Decide(hvpa, target, ReconciledHpa(hvpa.spec),
               IF vpaStatus = Nil THEN Nil ELSE vpaStatus.recommendation, now, Open).update

\* A scaling that is due does not stay due: conflicts, failed calls and stale
\* caches delay it, but it is made unless it stops being called for.
DueScalingHappens == Due ~> ~Due

-----------------------------------------------------------------------------
(* What the documentation says and the code does not do. *)

\* hvpa_types.go:132: the stabilization duration is "the minimum delay in
\* minutes between 2 consecutive scale operations".  The override is meant to
\* lift it, a lost status write is not.
MinimumDelay ==
    [][/\ ReconcilerScales
       /\ ~reconciler.instance.override
       /\ \E s \in Slots : target'.requests[s] > target.requests[s]
       => ~Early(reconciler.instance.spec.vpaUp.stabilization)]_vars

\* hvpa_types.go:264 "Override scale up stabilization window" and the log of
\* line 751, "in case of scale out": a scale in is not exempt from its window.
OverrideOnlyForScaleUp ==
    [][ReconcilerScales /\ Informed /\ target'.replicas < target.replicas =>
         ~Early(reconciler.instance.spec.hpaDown.stabilization)]_vars

Recommended == IF vpa = Nil THEN Nil ELSE vpa.recommendation
FullWeight(spec) == \A i \in DOMAIN spec.intervals : spec.intervals[i].weight = 100

\* README.md promises an update policy of its own to each of
\* the four directions, so a scale down works when only scaling up is off.
DownWanted ==
    LET spec == hvpa.spec
    IN  /\ spec.hpaUp.mode = "Off" /\ spec.vpaUp.mode = "Off"
        /\ spec.hpaDown.mode = "Auto" /\ spec.vpaDown.mode = "Auto"
        /\ FullWeight(spec)
        /\ Recommended # Nil
        /\ \E s \in Slots : Recommended[s] + 1 < target.requests[s]
ScaleDownWithScaleUpOff == DownWanted ~> ~DownWanted
=============================================================================
