------------------------- MODULE HvpaScalingProofs -------------------------
(***************************************************************************)
(* Theorems about HvpaScaling, for every set of specs, pods, statuses and  *)
(* bounds that satisfies ScalingAssumption.                                *)
(***************************************************************************)
EXTENDS HvpaScaling, HvpaPolicyProofs

\* What reconcileHpa and reconcileVpa leave is an HPA and a VPA, or none.
LEMMA ChildrenType ==
    ASSUME TypeOK, NEW spec \in Specs
    PROVE  /\ ReconciledHpa(spec) \in HpaStatus \union {Nil}
           /\ ReconciledVpa(spec) \in VpaStatus \union {Nil}
<1>1. /\ hpa \in HpaStatus \union {Nil}
      /\ vpa \in VpaStatus \union {Nil}
  BY DEF TypeOK
<1>2. EmptyStatus \in HpaStatus
  BY DEF EmptyStatus, HpaStatus
<1>3. [recommendation |-> Nil] \in VpaStatus
  BY DEF VpaStatus
<1> QED
  BY <1>1, <1>2, <1>3, Zenon DEF ReconciledHpa, ReconciledVpa

\* The instance a worker holds while it scales is an HVPA.
LEMMA InstanceType ==
    ASSUME TypeOK, reconciler.pc = "scale"
    PROVE  reconciler.instance \in Hvpa
BY DEF TypeOK, Reconciler

\* Whatever a worker decides on is within the reach of DecideSound.
LEMMA DecisionSound ==
    ASSUME TypeOK, reconciler.pc = "scale"
    PROVE  /\ SoundHorizontally(Decision, reconciler.instance, HpaRead,
                                cached.target.replicas, now)
           /\ SoundVertically(Decision, reconciler.instance, RecommendationRead,
                              cached.target.requests, now)
<1> DEFINE instance == reconciler.instance
<1>1. instance \in Hvpa
  BY InstanceType
<1>2. instance.spec \in Specs /\ instance.override \in BOOLEAN
  BY <1>1 DEF Hvpa
<1>3. instance.spec \in HvpaSpec
  BY <1>2, ScalingAssumption
<1>4. cached.target.replicas \in Nat \ {0} /\ cached.target.requests \in Requests
  BY DEF TypeOK, Target
<1>5. HpaRead \in HpaStatus \union {Nil}
  <2>1. EmptyStatus \in HpaStatus
    BY DEF EmptyStatus, HpaStatus
  <2>2. ReconciledHpa(instance.spec) \in HpaStatus \union {Nil}
    BY <1>2, ChildrenType
  <2> QED
    BY <2>1, <2>2, Zenon DEF HpaRead
<1>6. RecommendationRead \in Requests \union {Nil}
  <2>1. ReconciledVpa(instance.spec) \in VpaStatus \union {Nil}
    BY <1>2, ChildrenType
  <2> QED
    BY <2>1 DEF RecommendationRead, VpaStatus
<1>7. DecisionInputs(instance, cached.target, HpaRead, RecommendationRead)
  BY <1>2, <1>3, <1>4, <1>5, <1>6, Zenon DEF DecisionInputs
<1>8. Decision = Decide(instance, cached.target, HpaRead, RecommendationRead, now, Open)
  BY Zenon DEF Decision, HpaRead, RecommendationRead
<1> QED
  BY <1>7, <1>8, DecideSound, Zenon

\* Its type, and that of the status that is derived from it.
LEMMA DecisionType ==
    ASSUME TypeOK, reconciler.pc = "scale", NEW scaled \in BOOLEAN
    PROVE  /\ [replicas |-> Decision.replicas, requests |-> Decision.requests] \in Target
           /\ StatusAfter(Decision, scaled) \in Hvpa
<1>1. /\ Decision.replicas \in Nat \ {0} /\ Decision.requests \in Requests
      /\ Decision.blocked \subseteq Reasons
  BY DecisionSound, Zenon DEF SoundHorizontally, SoundVertically
<1>2. reconciler.instance \in Hvpa
  BY InstanceType
<1>3. now \in Time
  BY DEF TypeOK
<1>4. PoliciesOf(reconciler.instance.spec) \in Policies
  <2>1. reconciler.instance.spec \in HvpaSpec
    BY <1>2, ScalingAssumption DEF Hvpa
  <2> QED
    BY <2>1 DEF HvpaSpec, PoliciesOf, Policies, HpaScaleType, VpaScaleType
<1>5. StatusAfter(Decision, scaled) \in Hvpa
  BY <1>1, <1>2, <1>3, <1>4 DEF StatusAfter, Hvpa
<1> QED
  BY <1>1, <1>5 DEF Target

-----------------------------------------------------------------------------
(* Type correctness. *)

\* The controller starts in a well-typed state.
LEMMA InitType == Init => TypeOK
<1> SUFFICES ASSUME Init PROVE TypeOK
  OBVIOUS
<1>1. PICK spec \in Specs :
        hvpa = [spec |-> spec, last |-> Nil, override |-> FALSE,
                blocked |-> {}, policies |-> PoliciesOf(spec)]
  BY DEF Init
<1>2. PoliciesOf(spec) \in Policies
  <2>1. spec \in HvpaSpec
    BY ScalingAssumption
  <2> QED
    BY <2>1 DEF HvpaSpec, PoliciesOf, Policies, HpaScaleType, VpaScaleType
<1>3. 0 \in Time
  BY ScalingAssumption DEF Time
<1>4. hvpa \in Hvpa
  BY <1>1, <1>2 DEF Hvpa
<1>5. target \in Target /\ InitialTarget.requests \in Requests
  BY ScalingAssumption DEF Init, Target
<1>6. pods \in [Pods -> Pod]
  BY <1>5 DEF Init, Pod
<1>7. reconciler \in Reconciler /\ handler \in Handler
  BY DEF Init, Idle, Waiting, Reconciler, Handler
<1>8. /\ hpa \in HpaStatus \union {Nil} /\ vpa \in VpaStatus \union {Nil}
      /\ cached \in [hvpa : Hvpa, target : Target]
      /\ latestHvpa \subseteq Holders /\ latestTarget \in BOOLEAN
      /\ events \subseteq Pod /\ known \in BOOLEAN
  BY <1>4, <1>5 DEF Init, Holders
<1>9. /\ now \in Time /\ edits \in 0..MaxEdits
      /\ kills \in 0..MaxKills /\ faults \in 0..MaxFaults
      /\ lastApplied \in Time \union {Nil}
      /\ ledger \in {"none", "pending", "recorded", "lost"}
  BY <1>3, ScalingAssumption DEF Init
<1> QED
  BY <1>4, <1>5, <1>6, <1>7, <1>8, <1>9 DEF TypeOK

\* The steps of the reconcile worker.
LEMMA ReconcileStepType ==
    ASSUME TypeOK,
           \/ ReadInstance \/ Scale \/ Record
           \/ UpdateTargetReplyLost \/ HpaErrorSwallowed \/ ReconcileFails
           \/ RecordStatusFails
    PROVE  TypeOK'
<1> USE DEF TypeOK, apiVars, cacheVars, procVars, histVars
<1>1. CASE ReadInstance
  <2>1. reconciler' \in Reconciler
    BY <1>1 DEF ReadInstance, Idle, Reconciler
  <2>2. latestHvpa' \subseteq Holders
    BY <1>1 DEF ReadInstance, CopiedBy, Holders
  <2> QED
    BY <1>1, <2>1, <2>2 DEF ReadInstance
<1>2. CASE reconciler.pc = "scale" /\ (ScalingNotRequired \/ UpdateTarget \/ UpdateTargetConflict
                                       \/ UpdateTargetReplyLost \/ ReconcileFails)
  <2>1. reconciler.instance \in Hvpa /\ reconciler.instance.spec \in Specs
    BY <1>2, InstanceType DEF Hvpa
  <2>2. /\ ReconciledHpa(reconciler.instance.spec) \in HpaStatus \union {Nil}
        /\ ReconciledVpa(reconciler.instance.spec) \in VpaStatus \union {Nil}
    BY <2>1, ChildrenType
  <2>3. \A scaled \in BOOLEAN :
          /\ [replicas |-> Decision.replicas, requests |-> Decision.requests] \in Target
          /\ StatusAfter(Decision, scaled) \in Hvpa
    BY <1>2, DecisionType
  <2>4. ASSUME NEW scaled \in BOOLEAN, ProceedToRecord(Decision, scaled)
        PROVE  reconciler' \in Reconciler
    BY <1>2, <2>1, <2>3, <2>4 DEF ProceedToRecord, Reconciler
  <2>5. EndReconcile => reconciler' \in Reconciler /\ latestHvpa' \subseteq Holders
    BY DEF EndReconcile, Idle, Reconciler
  <2>6. CASE ScalingNotRequired
    BY <2>2, <2>4, <2>6 DEF ScalingNotRequired, ReconcileChildren
  <2>7. CASE UpdateTarget
    BY <2>2, <2>3, <2>4, <2>7 DEF UpdateTarget, ReconcileChildren, WriteTarget
  <2>8. CASE UpdateTargetConflict
    BY <2>2, <2>5, <2>8 DEF UpdateTargetConflict, ReconcileChildren
  <2>9. CASE UpdateTargetReplyLost
    <3>1. faults' \in 0..MaxFaults
      BY <2>9, ScalingAssumption DEF UpdateTargetReplyLost
    <3>2. /\ target' \in Target /\ latestTarget' = FALSE
          /\ lastApplied' \in Time \union {Nil}
      BY <2>3, <2>9 DEF UpdateTargetReplyLost, WriteTarget
    <3>3. reconciler' \in Reconciler /\ latestHvpa' \subseteq Holders
      BY <2>5, <2>9 DEF UpdateTargetReplyLost
    <3> QED
      BY <2>2, <2>9, <3>1, <3>2, <3>3 DEF UpdateTargetReplyLost, ReconcileChildren
  <2>10. CASE ReconcileFails
    BY <2>2, <2>5, <2>10, ScalingAssumption DEF ReconcileFails
  <2> QED
    BY <1>2, <2>6, <2>7, <2>8, <2>9, <2>10
<1>3. CASE NothingToRecord \/ RecordStatus \/ RecordStatusConflict \/ RecordStatusFails
  <2>1. reconciler.pc = "record" /\ reconciler.status \in Hvpa
    BY <1>3 DEF NothingToRecord, RecordStatus, RecordStatusConflict, RecordStatusFails,
                Reconciler
  <2>2. Idle \in Reconciler
    BY DEF Idle, Reconciler
  <2>3. EndReconcile => reconciler' \in Reconciler /\ latestHvpa' \subseteq Holders
    BY <2>2 DEF EndReconcile
  <2>4. \A outcome \in {"recorded", "lost"} :
          LedgerWhen(outcome) \in {"none", "pending", "recorded", "lost"}
    BY DEF LedgerWhen
  <2>5. CASE NothingToRecord
    BY <2>3, <2>5 DEF NothingToRecord
  <2>6. CASE RecordStatus
    BY <2>1, <2>2, <2>4, <2>6 DEF RecordStatus
  <2>7. CASE RecordStatusConflict
    BY <2>3, <2>4, <2>7 DEF RecordStatusConflict
  <2>8. CASE RecordStatusFails
    BY <2>3, <2>4, <2>8, ScalingAssumption DEF RecordStatusFails
  <2> QED
    BY <1>3, <2>5, <2>6, <2>7, <2>8
<1>4. CASE HpaErrorSwallowed
  <2>1. reconciler' \in Reconciler
    BY <1>4 DEF HpaErrorSwallowed, Reconciler
  <2>2. faults' \in 0..MaxFaults
    BY <1>4, ScalingAssumption DEF HpaErrorSwallowed
  <2> QED
    BY <1>4, <2>1, <2>2 DEF HpaErrorSwallowed
<1> QED
  BY <1>1, <1>2, <1>3, <1>4 DEF Scale, Record, ScalingNotRequired, UpdateTarget,
     UpdateTargetConflict, UpdateTargetReplyLost, ReconcileFails

\* The steps of the pod event handler.
LEMMA HandlerStepType ==
    ASSUME TypeOK, Handle \/ Write \/ WriteOverrideFails
                     \/ \E pod \in events : PodEventReadFails(pod)
    PROVE  TypeOK'
<1> USE DEF TypeOK, apiVars, cacheVars, procVars, histVars
<1>1. ASSUME NEW pod \in events, HandlePodEvent(pod) PROVE TypeOK'
  <2>1. handler' \in Handler
    BY <1>1 DEF HandlePodEvent, Handler
  <2>2. latestHvpa' \subseteq Holders
    BY <1>1 DEF HandlePodEvent, CopiedBy, Holders
  <2> QED
    BY <1>1, <2>1, <2>2 DEF HandlePodEvent
<1>2. ASSUME NEW pod \in events, IgnorePodEvent(pod) PROVE TypeOK'
  BY <1>2 DEF IgnorePodEvent
<1>3. ASSUME NEW pod \in events, PodEventReadFails(pod) PROVE TypeOK'
  BY <1>3, ScalingAssumption DEF PodEventReadFails
<1>4. CASE Write \/ WriteOverrideFails
  <2>1. handler.pc = "write" /\ handler.instance \in Hvpa
    BY <1>4 DEF Write, WriteOverride, WriteOverrideConflict, WriteOverrideFails, Handler
  <2>2. Waiting \in Handler
    BY DEF Waiting, Handler
  <2>3. EndHandler => handler' \in Handler /\ latestHvpa' \subseteq Holders
    BY <2>2 DEF EndHandler
  <2>4. [handler.instance EXCEPT !.override = TRUE] \in Hvpa
    BY <2>1 DEF Hvpa
  <2>5. CASE WriteOverride
    BY <2>2, <2>4, <2>5 DEF WriteOverride
  <2>6. CASE WriteOverrideConflict
    BY <2>3, <2>6 DEF WriteOverrideConflict
  <2>7. CASE WriteOverrideFails
    BY <2>3, <2>7, ScalingAssumption DEF WriteOverrideFails
  <2> QED
    BY <1>4, <2>5, <2>6, <2>7 DEF Write
<1> QED
  BY <1>1, <1>2, <1>3, <1>4 DEF Handle

\* The informers and a restart.
LEMMA CacheStepType ==
    ASSUME TypeOK, SyncHvpa \/ SyncTarget \/ Restart
    PROVE  TypeOK'
<1> USE DEF TypeOK, apiVars, cacheVars, procVars, histVars
<1>1. CASE SyncHvpa
  BY <1>1 DEF SyncHvpa, Holders
<1>2. CASE SyncTarget
  BY <1>2 DEF SyncTarget
<1>3. CASE Restart
  <2>1. Idle \in Reconciler /\ Waiting \in Handler
    BY DEF Idle, Reconciler, Waiting, Handler
  <2>2. faults' \in 0..MaxFaults
    BY <1>3, ScalingAssumption DEF Restart
  <2>3. events' \subseteq Pod
    BY <1>3 DEF Restart, Alarming
  <2>4. ledger' \in {"none", "pending", "recorded", "lost"}
    BY <1>3 DEF Restart, LedgerWhen
  <2> QED
    BY <1>3, <2>1, <2>2, <2>3, <2>4 DEF Restart, Holders
<1> QED
  BY <1>1, <1>2, <1>3

\* The clock, the HPA and VPA controllers, the kubelet and the user.
LEMMA EnvironmentStepType ==
    ASSUME TypeOK, Environment
    PROVE  TypeOK'
<1> USE DEF TypeOK, apiVars, cacheVars, procVars, histVars
<1>1. CASE Tick
  BY <1>1, ScalingAssumption DEF Tick, Time
<1>2. CASE HpaReports
  BY <1>2, ScalingAssumption DEF HpaReports
<1>3. CASE VpaReports
  BY <1>3, ScalingAssumption DEF VpaReports, VpaStatus
<1>4. ASSUME NEW p \in Pods, PodOomKilled(p) \/ PodEvicted(p) \/ PodReplaced(p)
      PROVE  TypeOK'
  <2>1. pods[p] \in Pod /\ target.requests \in Requests
    BY DEF Target
  <2>2. pods' \in [Pods -> Pod]
    <3>1. PICK new \in Pod : pods' = [pods EXCEPT ![p] = new]
      <4>1. /\ [pods[p] EXCEPT !.oomAt = now] \in Pod
            /\ [pods[p] EXCEPT !.evicted = TRUE] \in Pod
            /\ [requests |-> target.requests, oomAt |-> Nil, evicted |-> FALSE] \in Pod
        BY <2>1 DEF Pod
      <4>2. \/ pods' = [pods EXCEPT ![p] = [pods[p] EXCEPT !.oomAt = now]]
            \/ pods' = [pods EXCEPT ![p] = [pods[p] EXCEPT !.evicted = TRUE]]
            \/ pods' = [pods EXCEPT ![p] =
                          [requests |-> target.requests, oomAt |-> Nil, evicted |-> FALSE]]
        BY <1>4, Zenon DEF PodOomKilled, PodEvicted, PodReplaced
      <4> QED
        BY <4>1, <4>2
    <3> QED
      BY <3>1
  <2>3. events' \subseteq Pod
    <3>1. pods[p] \in Pod /\ pods'[p] \in Pod
      BY <2>2
    <3>2. \/ events' = events \union Alarming({pods[p], pods'[p]})
          \/ events' = events \union Alarming({pods[p]})
      BY <1>4, Zenon DEF PodOomKilled, PodEvicted, PodReplaced
    <3> QED
      BY <3>1, <3>2 DEF Alarming
  <2>4. kills' \in 0..MaxKills
    BY <1>4, ScalingAssumption DEF PodOomKilled, PodEvicted, PodReplaced
  <2> QED
    BY <1>4, <2>2, <2>3, <2>4 DEF PodOomKilled, PodEvicted, PodReplaced
<1>5. CASE UserEditsSpec
  <2>1. hvpa' \in Hvpa
    BY <1>5 DEF UserEditsSpec, Hvpa
  <2>2. edits' \in 0..MaxEdits
    BY <1>5, ScalingAssumption DEF UserEditsSpec
  <2> QED
    BY <1>5, <2>1, <2>2 DEF UserEditsSpec
<1>6. CASE UserEditsTarget
  <2>1. target' \in Target
    BY <1>6, ScalingAssumption DEF UserEditsTarget
  <2>2. edits' \in 0..MaxEdits
    BY <1>6, ScalingAssumption DEF UserEditsTarget
  <2> QED
    BY <1>6, <2>1, <2>2 DEF UserEditsTarget
<1> QED
  BY <1>1, <1>2, <1>3, <1>4, <1>5, <1>6 DEF Environment

\* No step of the worker, the handler, the informers or the environment
\* breaks the types.
LEMMA NextType == TypeOK /\ [Next]_vars => TypeOK'
<1>1. ASSUME TypeOK, Next PROVE TypeOK'
  BY <1>1, ReconcileStepType, HandlerStepType, CacheStepType, EnvironmentStepType
     DEF Next, Faults
<1>2. ASSUME TypeOK, UNCHANGED vars PROVE TypeOK'
  BY <1>2 DEF TypeOK, vars, apiVars, cacheVars, procVars, histVars
<1> QED
  BY <1>1, <1>2

\* Every reachable state is well typed; in particular no decision, whatever
\* status it is made on, sets the target to zero replicas or to a negative
\* request.
THEOREM TypeCorrect == Spec => []TypeOK
BY InitType, NextType, PTL DEF Spec

-----------------------------------------------------------------------------
(* The inductive invariant.  A status write that is accepted replaces a    *)
(* copy equal to what is stored, so it changes only what its holder meant  *)
(* to change; and the ledger is right about what such a write records.     *)

\* Who holds the stored resourceVersion holds the stored object.
CopiesCurrent ==
    /\ "informer" \in latestHvpa => cached.hvpa = hvpa
    /\ "reconciler" \in latestHvpa => reconciler.pc # "idle" /\ reconciler.instance = hvpa
    /\ "handler" \in latestHvpa => handler.pc = "write" /\ handler.instance = hvpa
    /\ latestTarget => cached.target = target

\* The status a worker is about to write differs from the instance it read in
\* the time and the override only when it has scaled.
StatusDerived ==
    /\ reconciler.pc = "record" /\ reconciler.scaled =>
         /\ ledger = "pending"
         /\ reconciler.status.last = lastApplied
         /\ ~reconciler.status.override
    /\ reconciler.pc = "record" /\ ~reconciler.scaled =>
         /\ reconciler.status.last = reconciler.instance.last
         /\ reconciler.status.override = reconciler.instance.override
    /\ ledger = "pending" => reconciler.pc = "record" /\ reconciler.scaled

\* The handler is about to set the override for a kill that its copy of the
\* HVPA does not know to be answered, or for an eviction.
CauseRead ==
    handler.pc = "write" =>
        handler.pod.evicted \/ RecentKill(handler.pod, handler.instance.last)

\* No scaling lies in the future, and before the first one there is no ledger.
PastScalings ==
    /\ lastApplied # Nil => lastApplied <= now
    /\ ledger = "pending" => lastApplied # Nil
    /\ ledger = "none" => lastApplied = Nil

ScalingInv ==
    /\ CopiesCurrent
    /\ StatusDerived
    /\ CauseRead
    /\ PastScalings
    /\ RecordKept
    /\ RecordTruthful

\* The actions that replace the worker's record, the stored HVPA or a copy.
LEMMA WorkerFields ==
    ASSUME TypeOK
    PROVE  /\ EndReconcile => reconciler'.pc = "idle" /\ ~reconciler'.scaled
           /\ \A decision, scaled : ProceedToRecord(decision, scaled) =>
                /\ reconciler'.pc = "record"
                /\ reconciler'.scaled = scaled
                /\ reconciler'.instance = reconciler.instance
                /\ reconciler'.status = StatusAfter(decision, scaled)
           /\ HpaErrorSwallowed => /\ reconciler'.pc = "scale"
                                   /\ reconciler'.instance = reconciler.instance
           /\ EndHandler => handler'.pc = "idle"
<1>1. /\ reconciler = [pc |-> reconciler.pc, instance |-> reconciler.instance,
                       status |-> reconciler.status, scaled |-> reconciler.scaled,
                       swallowed |-> reconciler.swallowed]
  BY DEF TypeOK, Reconciler
<1>2. ASSUME NEW decision, NEW scaled, ProceedToRecord(decision, scaled)
      PROVE  /\ reconciler'.pc = "record"
             /\ reconciler'.scaled = scaled
             /\ reconciler'.instance = reconciler.instance
             /\ reconciler'.status = StatusAfter(decision, scaled)
  BY <1>1, <1>2 DEF ProceedToRecord
<1> QED
  BY <1>1, <1>2 DEF EndReconcile, Idle, HpaErrorSwallowed, EndHandler, Waiting

\* A read copies the object with its version and a write invalidates every
\* other copy, so a current version always means a current copy.
LEMMA CopiesStayCurrent ==
    ASSUME TypeOK, CopiesCurrent, Next
    PROVE  CopiesCurrent'
<1> USE DEF CopiesCurrent, apiVars, cacheVars, procVars, histVars
<1>1. CASE ReadInstance
  BY <1>1 DEF ReadInstance, CopiedBy, Idle
<1>2. CASE Scale
  <2>1. CASE ScalingNotRequired
    BY <2>1, WorkerFields DEF ScalingNotRequired
  <2>2. CASE UpdateTarget
    BY <2>2, WorkerFields DEF UpdateTarget, WriteTarget
  <2>3. CASE UpdateTargetConflict
    BY <2>3 DEF UpdateTargetConflict, EndReconcile
  <2> QED
    BY <1>2, <2>1, <2>2, <2>3 DEF Scale
<1>3. CASE Record
  BY <1>3 DEF Record, NothingToRecord, RecordStatus, RecordStatusConflict, EndReconcile
<1>4. CASE Handle
  <2>1. ASSUME NEW pod \in events, HandlePodEvent(pod) PROVE CopiesCurrent'
    BY <2>1 DEF HandlePodEvent, CopiedBy
  <2>2. ASSUME NEW pod \in events, IgnorePodEvent(pod) PROVE CopiesCurrent'
    BY <2>2 DEF IgnorePodEvent
  <2> QED
    BY <1>4, <2>1, <2>2 DEF Handle
<1>5. CASE Write
  BY <1>5 DEF Write, WriteOverride, WriteOverrideConflict, EndHandler
<1>6. CASE SyncHvpa
  <2>1. cached'.hvpa = hvpa /\ cached'.target = cached.target
    BY <1>6 DEF SyncHvpa, TypeOK
  <2> QED
    BY <1>6, <2>1 DEF SyncHvpa
<1>7. CASE SyncTarget
  <2>1. cached'.target = target /\ cached'.hvpa = cached.hvpa
    BY <1>7 DEF SyncTarget, TypeOK
  <2> QED
    BY <1>7, <2>1 DEF SyncTarget
<1>8. CASE Faults
  <2>1. CASE UpdateTargetReplyLost \/ ReconcileFails \/ RecordStatusFails
    BY <2>1 DEF UpdateTargetReplyLost, WriteTarget, ReconcileFails, RecordStatusFails,
       EndReconcile
  <2>2. ASSUME NEW pod \in events, PodEventReadFails(pod) PROVE CopiesCurrent'
    BY <2>2 DEF PodEventReadFails
  <2>3. CASE WriteOverrideFails
    BY <2>3 DEF WriteOverrideFails, EndHandler
  <2>4. CASE Restart
    BY <2>4 DEF Restart
  <2>5. CASE HpaErrorSwallowed
    BY <2>5, WorkerFields DEF HpaErrorSwallowed
  <2> QED
    BY <1>8, <2>1, <2>2, <2>3, <2>4, <2>5 DEF Faults
<1>9. CASE Environment
  <2>1. CASE Tick \/ HpaReports \/ VpaReports \/ UserEditsSpec \/ UserEditsTarget
    BY <2>1 DEF Tick, HpaReports, VpaReports, UserEditsSpec, UserEditsTarget
  <2>2. ASSUME NEW p \in Pods, PodOomKilled(p) \/ PodEvicted(p) \/ PodReplaced(p)
        PROVE  CopiesCurrent'
    BY <2>2 DEF PodOomKilled, PodEvicted, PodReplaced
  <2> QED
    BY <1>9, <2>1, <2>2 DEF Environment
<1> QED
  BY <1>1, <1>2, <1>3, <1>4, <1>5, <1>6, <1>7, <1>8, <1>9 DEF Next

\* The status in the worker's hands stays the one lines 1493-1528 build from
\* the instance it read, and a pending ledger belongs to that worker.
LEMMA StatusStaysDerived ==
    ASSUME TypeOK, StatusDerived, Next
    PROVE  StatusDerived'
<1> USE DEF StatusDerived, apiVars, cacheVars, procVars, histVars
<1>1. CASE ReadInstance
  BY <1>1 DEF ReadInstance, Idle
<1>2. CASE Scale
  <2>1. ASSUME NEW scaled \in BOOLEAN, reconciler.pc = "scale"
        PROVE  LET status == StatusAfter(Decision, scaled)
               IN  /\ scaled => status.last = now /\ ~status.override
                   /\ ~scaled => /\ status.last = reconciler.instance.last
                                 /\ status.override = reconciler.instance.override
    <3>1. reconciler.instance \in Hvpa
      BY <2>1, InstanceType
    <3> QED
      BY <3>1 DEF StatusAfter, Hvpa
  <2>2. CASE ScalingNotRequired
    BY <2>1, <2>2, WorkerFields DEF ScalingNotRequired
  <2>3. CASE UpdateTarget
    BY <2>1, <2>3, WorkerFields DEF UpdateTarget, WriteTarget
  <2>4. CASE UpdateTargetConflict
    BY <2>4, WorkerFields DEF UpdateTargetConflict
  <2> QED
    BY <1>2, <2>2, <2>3, <2>4 DEF Scale
<1>3. CASE Record
  BY <1>3, WorkerFields
     DEF Record, NothingToRecord, RecordStatus, RecordStatusConflict, LedgerWhen, StatusDiffers, Idle
<1>4. CASE Handle
  BY <1>4 DEF Handle, HandlePodEvent, IgnorePodEvent
<1>5. CASE Write
  BY <1>5 DEF Write, WriteOverride, WriteOverrideConflict
<1>6. CASE SyncHvpa \/ SyncTarget
  BY <1>6 DEF SyncHvpa, SyncTarget
<1>7. CASE Faults
  <2>1. CASE UpdateTargetReplyLost \/ ReconcileFails \/ RecordStatusFails
    BY <2>1, WorkerFields DEF UpdateTargetReplyLost, ReconcileFails, RecordStatusFails,
       LedgerWhen
  <2>2. CASE WriteOverrideFails \/ \E pod \in events : PodEventReadFails(pod)
    BY <2>2 DEF WriteOverrideFails, PodEventReadFails
  <2>3. CASE Restart
    BY <2>3 DEF Restart, Idle, LedgerWhen
  <2>4. CASE HpaErrorSwallowed
    BY <2>4, WorkerFields DEF HpaErrorSwallowed
  <2> QED
    BY <1>7, <2>1, <2>2, <2>3, <2>4 DEF Faults
<1>8. CASE Environment
  BY <1>8 DEF Environment, Tick, HpaReports, VpaReports, UserEditsSpec, UserEditsTarget,
     PodOomKilled, PodEvicted, PodReplaced
<1> QED
  BY <1>1, <1>2, <1>3, <1>4, <1>5, <1>6, <1>7, <1>8 DEF Next

\* Only HandlePodEvent starts a write of the override, and it has the cause.
LEMMA CauseStaysRead ==
    ASSUME TypeOK, CauseRead, Next
    PROVE  CauseRead'
<1> USE DEF CauseRead, RecentKill, apiVars, cacheVars, procVars, histVars
<1>1. CASE ReadInstance \/ Scale \/ Record \/ SyncHvpa \/ SyncTarget \/ Environment
  <2>1. handler' = handler
    BY <1>1 DEF ReadInstance, Scale, ScalingNotRequired, UpdateTarget, UpdateTargetConflict,
       Record, NothingToRecord, RecordStatus, RecordStatusConflict, SyncHvpa, SyncTarget,
       Environment, Tick, HpaReports, VpaReports, PodOomKilled, PodEvicted, PodReplaced,
       UserEditsSpec, UserEditsTarget
  <2> QED
    BY <2>1
<1>2. CASE Handle
  <2>1. ASSUME NEW pod \in events, HandlePodEvent(pod) PROVE CauseRead'
    BY <2>1 DEF HandlePodEvent, WarrantsOverride
  <2>2. ASSUME NEW pod \in events, IgnorePodEvent(pod) PROVE CauseRead'
    BY <2>2 DEF IgnorePodEvent
  <2> QED
    BY <1>2, <2>1, <2>2 DEF Handle
<1>3. CASE Write \/ WriteOverrideFails
  BY <1>3, WorkerFields
     DEF Write, WriteOverride, WriteOverrideConflict, WriteOverrideFails, Waiting
<1>4. CASE Faults
  <2>1. CASE UpdateTargetReplyLost \/ HpaErrorSwallowed \/ ReconcileFails
                \/ RecordStatusFails \/ \E pod \in events : PodEventReadFails(pod)
    <3>1. handler' = handler
      BY <2>1 DEF UpdateTargetReplyLost, HpaErrorSwallowed, ReconcileFails,
         RecordStatusFails, PodEventReadFails
    <3> QED
      BY <3>1
  <2>2. CASE Restart
    BY <2>2 DEF Restart, Waiting
  <2> QED
    BY <1>3, <1>4, <2>1, <2>2 DEF Faults
<1> QED
  BY <1>1, <1>2, <1>3, <1>4 DEF Next

\* The actions that touch the history, and the times it is about.
LEMMA HistorySteps ==
    ASSUME Next
    PROVE  \/ UpdateTarget \/ UpdateTargetReplyLost
           \/ RecordStatus \/ RecordStatusConflict \/ RecordStatusFails \/ Restart
           \/ Tick
           \/ UNCHANGED <<now, lastApplied, ledger>>
BY DEF Next, Scale, Record, Handle, Write, Faults, Environment, ReadInstance,
   ScalingNotRequired, UpdateTargetConflict, HpaErrorSwallowed, ReconcileFails, NothingToRecord,
   HandlePodEvent, IgnorePodEvent, PodEventReadFails, WriteOverride,
   WriteOverrideConflict, WriteOverrideFails, SyncHvpa, SyncTarget, HpaReports,
   VpaReports, PodOomKilled, PodEvicted, PodReplaced, UserEditsSpec,
   UserEditsTarget, apiVars, cacheVars, procVars, histVars

\* The clock never goes back and a target is written at the present time.
LEMMA ScalingsStayPast ==
    ASSUME TypeOK, StatusDerived, PastScalings, Next
    PROVE  PastScalings'
<1> USE DEF PastScalings, histVars
<1>0. /\ now \in Nat
      /\ lastApplied # Nil => lastApplied \in Nat
      /\ now # Nil
  BY ScalingAssumption, PolicyAssumption DEF TypeOK, Time
<1>1. CASE UpdateTarget \/ UpdateTargetReplyLost
  <2>1. lastApplied' = now /\ now' = now /\ ledger' \in {"pending", "lost"}
    BY <1>1 DEF UpdateTarget, UpdateTargetReplyLost, WriteTarget
  <2> QED
    BY <1>0, <2>1
<1>2. CASE RecordStatus \/ RecordStatusConflict \/ RecordStatusFails \/ Restart
  <2>1. lastApplied' = lastApplied /\ now' = now /\ ledger' \in {ledger, "recorded", "lost"}
    BY <1>2 DEF RecordStatus, RecordStatusConflict, RecordStatusFails, Restart, LedgerWhen
  <2> QED
    BY <2>1
<1>3. CASE Tick
  BY <1>0, <1>3 DEF Tick
<1>4. CASE UNCHANGED <<now, lastApplied, ledger>>
  BY <1>4
<1> QED
  BY <1>1, <1>2, <1>3, <1>4, HistorySteps

\* The stored HVPA is written by three actions.  The controller's two put a
\* copy of what is stored back, with their own change.
LEMMA HvpaSteps ==
    ASSUME TypeOK, CopiesCurrent, Next
    PROVE  \/ hvpa' = hvpa
           \/ RecordStatus /\ hvpa' = reconciler.status /\ reconciler.instance = hvpa
           \/ WriteOverride /\ hvpa'.last = hvpa.last /\ hvpa'.override
                /\ handler.instance = hvpa
           \/ UserEditsSpec /\ hvpa'.last = hvpa.last /\ hvpa'.override = hvpa.override
<1>1. hvpa' = hvpa \/ RecordStatus \/ WriteOverride \/ UserEditsSpec
  BY DEF Next, Scale, Record, Handle, Write, Faults, Environment, ReadInstance,
     ScalingNotRequired, UpdateTarget, UpdateTargetConflict, UpdateTargetReplyLost,
     HpaErrorSwallowed, ReconcileFails, NothingToRecord, RecordStatusConflict, RecordStatusFails,
     HandlePodEvent, IgnorePodEvent, PodEventReadFails, WriteOverrideConflict,
     WriteOverrideFails, SyncHvpa, SyncTarget, Restart, Tick, HpaReports, VpaReports,
     PodOomKilled, PodEvicted, PodReplaced, UserEditsTarget,
     apiVars, cacheVars, procVars, histVars
<1>2. CASE RecordStatus
  BY <1>2 DEF RecordStatus, CopiesCurrent
<1>3. CASE WriteOverride
  <2>1. hvpa' = [hvpa EXCEPT !.override = TRUE] /\ handler.instance = hvpa
    BY <1>3 DEF WriteOverride, CopiesCurrent
  <2> QED
    BY <1>3, <2>1 DEF TypeOK, Hvpa
<1>4. CASE UserEditsSpec
  BY <1>4 DEF UserEditsSpec, TypeOK, Hvpa
<1> QED
  BY <1>1, <1>2, <1>3, <1>4

\* Every accepted write of the HVPA keeps a recorded scaling recorded and
\* records nothing that did not happen.
LEMMA RecordStays ==
    ASSUME TypeOK, CopiesCurrent, StatusDerived, PastScalings,
           RecordKept, RecordTruthful, Next
    PROVE  RecordKept' /\ RecordTruthful'
<1> USE DEF RecordKept, RecordTruthful, histVars
<1>0. /\ now \in Nat /\ now # Nil
      /\ lastApplied # Nil => lastApplied \in Nat
      /\ hvpa.last # Nil => hvpa.last \in Nat
  BY ScalingAssumption, PolicyAssumption DEF TypeOK, Hvpa, Time
<1>1. CASE RecordStatus
  <2>1. /\ hvpa' = reconciler.status /\ reconciler.instance = hvpa
        /\ reconciler.pc = "record" /\ lastApplied' = lastApplied
        /\ ledger' = IF reconciler.scaled THEN "recorded" ELSE ledger
    BY <1>1 DEF RecordStatus, CopiesCurrent, LedgerWhen
  <2>2. CASE reconciler.scaled
    BY <1>0, <2>1, <2>2 DEF StatusDerived, PastScalings
  <2>3. CASE ~reconciler.scaled
    BY <2>1, <2>3 DEF StatusDerived
  <2> QED
    BY <2>2, <2>3
<1>2. CASE hvpa'.last = hvpa.last /\ (UpdateTarget \/ UpdateTargetReplyLost)
  <2>1. lastApplied' = now /\ ledger' \in {"pending", "lost"}
    BY <1>2 DEF UpdateTarget, UpdateTargetReplyLost, WriteTarget
  <2> QED
    BY <1>0, <1>2, <2>1 DEF PastScalings
<1>3. CASE hvpa'.last = hvpa.last /\ ~RecordStatus /\ ~UpdateTarget /\ ~UpdateTargetReplyLost
  <2>1. lastApplied' = lastApplied /\ ledger' \in {ledger, "lost"}
    BY <1>3, HistorySteps DEF RecordStatusConflict, RecordStatusFails, Restart, Tick, LedgerWhen
  <2> QED
    BY <1>3, <2>1
<1>4. RecordStatus \/ hvpa'.last = hvpa.last
  BY HvpaSteps
<1> QED
  BY <1>1, <1>2, <1>3, <1>4

\* No copy is read and nothing is scaled before the first step.
LEMMA InitInv == Init => ScalingInv
BY PolicyAssumption
   DEF Init, ScalingInv, CopiesCurrent, StatusDerived, CauseRead, PastScalings,
   RecordKept, RecordTruthful, Idle, Waiting

\* The strengthening is inductive.
LEMMA NextInv == TypeOK /\ ScalingInv /\ [Next]_vars => ScalingInv'
<1>1. ASSUME TypeOK, ScalingInv, Next PROVE ScalingInv'
  BY <1>1, CopiesStayCurrent, StatusStaysDerived, CauseStaysRead, ScalingsStayPast,
     RecordStays DEF ScalingInv
<1>2. ASSUME ScalingInv, UNCHANGED vars PROVE ScalingInv'
  BY <1>2 DEF ScalingInv, CopiesCurrent, StatusDerived, CauseRead, PastScalings,
     RecordKept, RecordTruthful, vars, apiVars, cacheVars, procVars, histVars
<1> QED
  BY <1>1, <1>2

\* The strengthening that the theorems below share.
THEOREM ScalingInvariant == Spec => [](TypeOK /\ ScalingInv)
<1>1. Init => TypeOK /\ ScalingInv
  BY InitType, InitInv
<1>2. TypeOK /\ ScalingInv /\ [Next]_vars => TypeOK' /\ ScalingInv'
  BY NextType, NextInv
<1> QED
  BY <1>1, <1>2, PTL DEF Spec

\* A recorded scaling stays recorded: no accepted write of the HVPA, by the
\* handler, a late worker or the user, puts an older LastScaleTime back.
THEOREM RecordedScalingsKept == Spec => []RecordKept
<1>1. ScalingInv => RecordKept
  BY DEF ScalingInv
<1> QED
  BY <1>1, ScalingInvariant, PTL

\* LastScaleTime never names a time at which the target was not written.
THEOREM RecordsTruthful == Spec => []RecordTruthful
<1>1. ScalingInv => RecordTruthful
  BY DEF ScalingInv
<1> QED
  BY <1>1, ScalingInvariant, PTL

-----------------------------------------------------------------------------
(* What a step may never do. *)

\* The step of OverrideOutlivesOldReconciles (lines 1512-1528 and 1535).
LEMMA OverrideCleared ==
    ASSUME TypeOK, ScalingInv, Next
    PROVE  OverrideClearedStep
<1> SUFFICES ASSUME hvpa.override, ~hvpa'.override
             PROVE  reconciler.pc = "record" /\ reconciler.instance.override
                      /\ reconciler.scaled
  BY DEF OverrideClearedStep
<1>1. RecordStatus /\ hvpa' = reconciler.status /\ reconciler.instance = hvpa
  BY HvpaSteps DEF ScalingInv
<1>2. reconciler.pc = "record" /\ reconciler.scaled \in BOOLEAN
  BY <1>1 DEF RecordStatus, TypeOK, Reconciler
<1>3. ~reconciler.scaled => reconciler.status.override = hvpa.override
  BY <1>1, <1>2 DEF ScalingInv, StatusDerived
<1> QED
  BY <1>1, <1>2, <1>3

\* The step of OverrideForUnansweredKill (lines 1640-1691).
LEMMA OverrideSet ==
    ASSUME TypeOK, ScalingInv, Next
    PROVE  OverrideSetStep
<1> SUFFICES ASSUME ~hvpa.override, hvpa'.override
             PROVE  \/ handler.pod.evicted
                    \/ /\ handler.pod.oomAt # Nil
                       /\ hvpa.last # Nil => hvpa.last < handler.pod.oomAt
  BY DEF OverrideSetStep
<1>1. CASE RecordStatus /\ hvpa' = reconciler.status /\ reconciler.instance = hvpa
  <2>1. reconciler.pc = "record" /\ reconciler.scaled \in BOOLEAN
    BY <1>1 DEF RecordStatus, TypeOK, Reconciler
  <2>2. ~reconciler.scaled => reconciler.status.override = hvpa.override
    BY <1>1, <2>1 DEF ScalingInv, StatusDerived
  <2>3. reconciler.scaled => ~reconciler.status.override
    BY <2>1 DEF ScalingInv, StatusDerived
  <2> QED
    BY <1>1, <2>1, <2>2, <2>3
<1>2. CASE WriteOverride /\ handler.instance = hvpa
  <2>1. handler.pc = "write" /\ handler.pod \in Pod
    BY <1>2 DEF WriteOverride, TypeOK, Handler
  <2>2. handler.pod.evicted \/ RecentKill(handler.pod, hvpa.last)
    BY <1>2, <2>1 DEF ScalingInv, CauseRead
  <2>3. /\ handler.pod.oomAt # Nil => handler.pod.oomAt \in Nat
        /\ hvpa.last # Nil => hvpa.last \in Nat
    BY <2>1, ScalingAssumption DEF TypeOK, Pod, Hvpa, Time
  <2> QED
    BY <2>2, <2>3 DEF RecentKill
<1> QED
  BY <1>1, <1>2, HvpaSteps DEF ScalingInv

\* When the reconciler changes the target, it does so to what it decided on a
\* target that is the stored one, for the recommendation of the VPA it leaves
\* and the status of the HPA it leaves, or an empty one if that is lost.
LEMMA ScalingSteps ==
    ASSUME TypeOK, ScalingInv, Next, ReconcilerScales
    PROVE  /\ reconciler.pc = "scale"
           /\ target' = [replicas |-> Decision.replicas, requests |-> Decision.requests]
           /\ cached.target = target
           /\ hpa' = HpaRead \/ HpaRead = EmptyStatus
           /\ RecommendationRead = IF vpa' = Nil THEN Nil ELSE vpa'.recommendation
<1>1. UpdateTarget \/ UpdateTargetReplyLost
  BY DEF ReconcilerScales, Next, Scale, Record, Handle, Write, Faults, Environment,
     ReadInstance, ScalingNotRequired, UpdateTargetConflict, HpaErrorSwallowed, ReconcileFails,
     NothingToRecord, RecordStatus, RecordStatusConflict, RecordStatusFails,
     HandlePodEvent, IgnorePodEvent, PodEventReadFails, WriteOverride,
     WriteOverrideConflict, WriteOverrideFails, SyncHvpa, SyncTarget, Restart, Tick,
     HpaReports, VpaReports, PodOomKilled, PodEvicted, PodReplaced, UserEditsSpec,
     UserEditsTarget, apiVars, cacheVars, procVars, histVars
<1>2. /\ reconciler.pc = "scale" /\ latestTarget /\ WriteTarget /\ ReconcileChildren
  BY <1>1 DEF UpdateTarget, UpdateTargetReplyLost
<1>3. cached.target = target
  BY <1>2 DEF ScalingInv, CopiesCurrent
<1> QED
  BY <1>2, <1>3 DEF WriteTarget, ReconcileChildren, HpaRead, RecommendationRead

\* The step of ScalesTowardsRecommendation (line 643).
LEMMA ScalingTowards ==
    ASSUME TypeOK, ScalingInv, Next
    PROVE  TowardsStep
<1> SUFFICES ASSUME ReconcilerScales PROVE TowardsStep
  BY DEF TowardsStep
<1>1. /\ reconciler.pc = "scale"
      /\ target'.replicas = Decision.replicas /\ target'.requests = Decision.requests
      /\ cached.target = target
      /\ hpa' = HpaRead \/ HpaRead = EmptyStatus
      /\ RecommendationRead = IF vpa' = Nil THEN Nil ELSE vpa'.recommendation
  BY ScalingSteps
<1>2. /\ SoundHorizontally(Decision, reconciler.instance, HpaRead, target.replicas, now)
      /\ SoundVertically(Decision, reconciler.instance, RecommendationRead,
                         target.requests, now)
  BY <1>1, DecisionSound
<1>3. target'.replicas # target.replicas =>
        hpa' # Nil /\ Between(target'.replicas, target.replicas, hpa'.desired)
  BY <1>1, <1>2 DEF SoundHorizontally, EmptyStatus
<1>4. ASSUME NEW s \in Slots, target'.requests[s] # target.requests[s]
      PROVE  /\ vpa' # Nil /\ vpa'.recommendation # Nil
             /\ Between(target'.requests[s], target.requests[s], vpa'.recommendation[s])
  <2>1. /\ RecommendationRead # Nil
        /\ Between(target'.requests[s], target.requests[s], RecommendationRead[s])
    BY <1>1, <1>2, <1>4 DEF SoundVertically
  <2>2. vpa' # Nil /\ RecommendationRead = vpa'.recommendation
    BY <1>1, <2>1
  <2> QED
    BY <2>1, <2>2
<1> QED
  BY <1>3, <1>4 DEF TowardsStep

\* The step of StabilizationHonoured (lines 788, 800, 1054 and 1082).
LEMMA ScalingHonoursWindows ==
    ASSUME TypeOK, ScalingInv, Next
    PROVE  StabilizationStep
<1> SUFFICES ASSUME ReconcilerScales, Informed PROVE StabilizationStep
  BY DEF StabilizationStep
<1> DEFINE instance == reconciler.instance
<1>1. /\ reconciler.pc = "scale"
      /\ target'.replicas = Decision.replicas /\ target'.requests = Decision.requests
      /\ cached.target = target
  BY ScalingSteps
<1>2. /\ SoundHorizontally(Decision, instance, HpaRead, target.replicas, now)
      /\ SoundVertically(Decision, instance, RecommendationRead, target.requests, now)
  BY <1>1, DecisionSound
<1>3. lastApplied = Nil \/ instance.last = lastApplied
  <2>1. instance = hvpa /\ ledger \in {"none", "recorded"}
    BY <1>1 DEF Informed, ScalingInv, CopiesCurrent, StatusDerived, TypeOK
  <2> QED
    BY <2>1 DEF ScalingInv, RecordKept, PastScalings
<1>4. ASSUME NEW window, Early(window) PROVE Stabilizing(instance.last, window, now)
  BY <1>3, <1>4, Zenon DEF Early, Stabilizing
<1>5. /\ target'.replicas > target.replicas =>
           instance.override \/ ~Early(instance.spec.hpaUp.stabilization)
      /\ target'.replicas < target.replicas =>
           instance.override \/ ~Early(instance.spec.hpaDown.stabilization)
  BY <1>1, <1>2, <1>4, Zenon DEF SoundHorizontally
<1>6. \A s \in Slots :
        /\ target'.requests[s] > target.requests[s] =>
             instance.override \/ ~Early(instance.spec.vpaUp.stabilization)
        /\ target'.requests[s] < target.requests[s] =>
             ~Early(instance.spec.vpaDown.stabilization)
  BY <1>1, <1>2, <1>4, Zenon DEF SoundVertically
<1> QED
  BY <1>5, <1>6, Zenon DEF StabilizationStep

\* A reconcile that began before the override was set does not clear it.
THEOREM OverrideNotErased == Spec => OverrideOutlivesOldReconciles
<1>1. TypeOK /\ ScalingInv /\ [Next]_vars => [OverrideClearedStep]_vars
  BY OverrideCleared
<1> QED
  BY <1>1, ScalingInvariant, PTL DEF Spec, OverrideOutlivesOldReconciles

\* An OOM kill that a recorded scaling has answered does not set it again.
THEOREM OverrideForCauseOnly == Spec => OverrideForUnansweredKill
<1>1. TypeOK /\ ScalingInv /\ [Next]_vars => [OverrideSetStep]_vars
  BY OverrideSet
<1> QED
  BY <1>1, ScalingInvariant, PTL DEF Spec, OverrideForUnansweredKill

\* Every write of the target moves each quantity towards what its autoscaler
\* now asks for, starting from what is stored and not from what was cached.
THEOREM ScalingTowardsRecommendation == Spec => ScalesTowardsRecommendation
<1>1. TypeOK /\ ScalingInv /\ [Next]_vars => [TowardsStep]_vars
  BY ScalingTowards
<1> QED
  BY <1>1, ScalingInvariant, PTL DEF Spec, ScalesTowardsRecommendation

\* The windows are honoured by every worker that knows of the last scaling.
THEOREM WindowsHonoured == Spec => StabilizationHonoured
<1>1. TypeOK /\ ScalingInv /\ [Next]_vars => [StabilizationStep]_vars
  BY ScalingHonoursWindows
<1> QED
  BY <1>1, ScalingInvariant, PTL DEF Spec, StabilizationHonoured
=============================================================================
