# A TLA+ verification of hvpa-controller

The HVPA controller scales one target (a Deployment, StatefulSet, ReplicaSet,
ReplicationController or DaemonSet) both horizontally, from what a HorizontalPodAutoscaler
in recommendation mode wants, and vertically, from what a VerticalPodAutoscaler recommends.
This directory holds TLA+ models of it, TLC configurations that check them on small
instances, and TLAPS proofs about them for every instance. Line numbers without a file are
those of `src/controllers/hvpa_controller.go`.

## 1. Inventory

| Component | State | Operations | Where |
|---|---|---|---|
| Reconcile loop | the HVPA's status, the target's replicas and requests | `Reconcile`: read, reconcile children, decide, update target, write status, requeue after a minute | 1415-1539 |
| Scaling decision | none (a function) | `getVpaWeightFromIntervals`, `getWeightedReplicas`, `getWeightedRequests`, `isScalingOff(ByMode)`, `isHpaScaleOutLimited`, `getThreshold`, `scaleIfRequired` | 466-1211, 1357-1393 |
| Limits and quantities | none | `getScaledLimits`, `getScaledResourceLimit`, `scaleQuantityProportionally`, `capRequestsToLimits` | 1213-1355 |
| Pod event handler | writes `OverrideScaleUpStabilization` into the HVPA's status | event filter, read, decide, write | 60-131, 1558-1699 |
| Selector cache | `cachedNames`, a map from namespace to a slice of (name, selector) | `ManageCache`, `removeFromCache`, unlocked reads | 133-243, 1499, 1574 |
| Child reconciliation | the HPA and the VPA the HVPA owns | `reconcileHpa`, `reconcileVpa`: claim, sync, delete duplicates, create | 245-464 |
| Adoption and release | controller references of the children | `ClaimHpas`, `ClaimVpas`, adopt, release, recheck of the deletion timestamp | `controller_ref_manager.go`, `hpa_util.go`, `vpa_util.go` |
| Maintenance window | none | `ParseMaintenanceTimeWindow`, `Contains`, `Duration` | `src/utils/timewindow.go` |
| Metrics | gauges and counters | `updateScalingMetrics`, `deleteScalingMetrics` | `hvpa_metrics.go` |
| Validation, webhook | none | `ValidateHvpa` | `src/internal/api` |
| Entry point | none | flags, manager, leader election | `src/main.go` |

How they interact. The reconcile worker and the pod event handler are two goroutines of one
process. Both read from informer caches that lag behind the API server, and both write the
*same* status subresource with an optimistic update (the API server compares
resourceVersions). They share `cachedNames` in memory, which the worker changes under a mutex
and the handler reads without one. The HPA and VPA controllers write the statuses of the
children; users edit the HVPA's spec and the target; the kubelet kills and evicts pods.

What is hard here:

* *Two writes make one scaling.* The target is updated first (643), `LastScaleTime` is
  written afterwards (1535). Everything that can happen between the two matters: a conflict,
  a failed call, a lost reply, a restart, the other writer.
* *Two writers, one status.* Each writes back a whole copy of what it read; only the
  resourceVersion keeps it from undoing what the other did.
* *Stale reads.* The instance, the target and the pod's HVPA come from caches.
* *Objects that are taken by name.* Children are claimed from a cached list and then patched,
  updated and deleted by name, with no precondition, while users, another controller and the
  garbage collector change what the name stands for.
* *A slice shared without a lock.* The handler ranges over a backing array that the worker
  shuffles and appends to.
* *Rounding that is read back.* Limits are scaled from the limits of the last scaling.
* *Policies that interact.* Four directions, each with an update mode and a window, a weight
  that depends on the direction, an override that lifts some checks and not others, and an
  HPA that exists only for some policies while its status decides about vertical scaling.

The properties that make each component correct: the *decision* moves towards the
recommendation, never past it, and respects policy and window; the *reconcile loop* keeps the
record of scalings true and makes a due scaling in the end; the *handler* sets the override
for a cause nobody has answered, and the override survives until it is used; the *selector
cache* maps every pod to an HVPA that selects it and never exposes a half-removed entry; the
*children* converge to exactly one owned HPA and VPA, and another owner's child is written only
if it became that behind the list the claim was decided on;
the *window* is open from begin to end on the clock of its zone; what is written has *limits*
not below its requests, and a capped request still arrives.

## 2. Modules

| Module | What it models |
|---|---|
| `HvpaPolicy` | the scaling decision as operators on records: `Decide(hvpa, target, hpa, vpa, now, open)` |
| `HvpaScaling` | one HVPA and its target: reconcile worker, pod event handler, informers, API server, faults, environment |
| `MCHvpaScaling` | specs, statuses and recommendations for TLC |
| `HvpaPolicyProofs` | lemmas about the decision, ending in `DecideSound` |
| `HvpaScalingProofs` | type correctness, the inductive invariant and the theorems of `HvpaScaling` |
| `ChildClaim` | the children of one HVPA: list, claim, sync, delete duplicates, create, for HPAs and VPAs; users, a rival controller, the garbage collector, a stale cache, failed calls and restarts |
| `MCChildClaim` | symmetry of the names of children |
| `ChildClaimProofs` | when alone a stranger's object is written, and what a claim without an error has done |
| `ChildPassProofs` | that one undisturbed pass over the children settles them |
| `SelectorMap` | abstract: a map from HVPAs to selectors |
| `SelectorCache` | detailed: the slice behind `cachedNames` assignment by assignment, read by the handler without the mutex; implements `SelectorMap` |
| `SelectorCacheProofs` | the invariant of the slice and the refinement |
| `SelectorLoopProofs` | what the handler's loop over the slice can find and miss |
| `MaintenanceWindow`, `MCMaintenanceWindow`, `MaintenanceWindowProofs` | `timewindow.go` on a clock that ticks |
| `ContainerLimits`, `MCContainerLimits`, `ContainerLimitsProofs` | requests and limits of one container under repeated scalings; extends `HvpaPolicy` for the weighted requests |

The modules meet in these places. `HvpaScaling` calls `HvpaPolicy` for every decision and
abstracts the others: the two children to "as the spec wants them, or none" (`ReconcileChildren`,
which `ChildClaim` opens up), the cache of selectors to one flag `known` (opened up in
`SelectorCache`), the window to a set of instants (`MaintenanceWindow`), the container to its
requests (`ContainerLimits`).

### HvpaPolicy

One operator per function of the code, named after it. A *slot* is one resource of one
container; memory is counted in kilobytes and CPU in millicores, the granularity the code
rounds to, and differences in hundredths, so that a percentage is exact. The three roundings
are kept apart as the code has them: `math.Ceil`/`math.Floor` for replicas (739, 741), exact
bytes rounded up to a kilobyte for memory (1007-1011), truncation toward zero to a millicore
for CPU (1016-1021). `Threshold` is `getThreshold`, the minimum of the value and the
percentage, with the default only when neither is given.

Translation notes:

* `IsScalingOff` looks at the scale-up policies only, because 653 and 655 do.
* The Weight branch of `getWeightedReplicas` (781) is not reachable: with weight 0 the
  weighted replicas equal the current ones and 744 has returned. It is not in the model.
* `VpaWeight` is the loop of 466-508 stated with sets of indices: the first covering interval,
  the last fraction before it, the next one after it.
* The reasons for which a scaling was blocked are a set; the status also holds by how much.
* A recommendation that is missing, or that a VPA condition (892-922) disqualifies, is `Nil`.
* Limits are `ContainerLimits`; here a weighted request is not capped.
* Left out: `float64` rounding, quantities finer than a kilobyte or a millicore, and the
  representation of quantities, on which the `DeepEqual` of 594 may tell equal amounts apart.
  A vertical scaling that moves a request by less than a kilobyte, which needs a minimum change
  below one, may for that reason be an update in the code that changes nothing. A DaemonSet, whose replica count the code takes as 0, is not a
  target of this model.

### HvpaScaling

| Variable | Code |
|---|---|
| `hvpa` | the stored HVPA: spec, `LastScaleTime` (`last`), `OverrideScaleUpStabilization` (`override`), `LastBlockedScaling` (`blocked`), the four policies copied into the status |
| `target` | replicas and the requests of the pod template |
| `hpa`, `vpa` | the children as the controller's informers show them |
| `cached`, `latestHvpa`, `latestTarget` | informer caches and resourceVersions |
| `events` | pod objects of the events not handled yet |
| `known` | the HVPA is in `cachedNames` |
| `reconciler`, `handler` | the local variables of the two goroutines and where they are |
| `now`, `edits`, `kills`, `faults` | the clock, and counters that bound the environment |
| `lastApplied`, `ledger` | history: when the reconciler last wrote the target, and what became of the status write that records it |

A resourceVersion is only ever compared with the stored one, so it is modelled by the set
of holders whose copy carries the stored version: a write empties the set, a read copies the
membership. A reconcile is three steps: `ReadInstance`; then the children, the decision and
the update of the target (`ScalingNotRequired`, `UpdateTarget`, `UpdateTargetConflict`,
`UpdateTargetReplyLost`, `ReconcileFails`, with `HpaErrorSwallowed` for the error that 422 and
459 overwrite); then the status write (`NothingToRecord`, `RecordStatus`,
`RecordStatusConflict`, `RecordStatusFails`). The handler is two: read and decide
(`HandlePodEvent`, `IgnorePodEvent`, `PodEventReadFails`), and write (`WriteOverride`,
`WriteOverrideConflict`, `WriteOverrideFails`).

Abstractions, and why they keep the properties meaningful:

* *The second step of a reconcile is one step.* The target's update is conditional on the
  version that was read, so a change of the target in between shows as a conflict either way;
  the spec was read in an earlier step. What is lost is that the HPA or the VPA reports
  something new in between: the recommendation in `ScalesTowardsRecommendation` is therefore
  the one that was read, which may be older than the one a user sees.
* *The clock is coarser than a reconcile.* `LastScaleTime` (1514) is the time of the update.
* *An informer jumps to the latest object*, at any time and after any delay.
* *The pod events are a set.* Their order is not kept, and an event of a pod that was neither
  killed nor evicted, which the handler drops whatever it looks at, is not put in. The
  handler sees the old and the new object of an update, and the deleted object.
* *Whether a node is under memory pressure* is a choice made when the handler looks.
* *The status write is made when the status differs.* The amounts of a blocked scaling are
  not in the model, so with a blocked scaling in the status either outcome is possible.
* *Deletion of the HVPA, validation failures and unsupported kinds* end a reconcile before it
  does anything and are left out here; deletion is in `ChildClaim` and `SelectorCache`.

### ChildClaim

`reconcileHpa` and `reconcileVpa` follow one protocol, and the module is that protocol; the
constant `AutoscalingV2` chooses the HPAs' version branch with its shadowed error, `Unsyncable`
the VPA specs without an update policy that `syncVpaSpec` cannot take. `children` and `hvpa`
are the API server's objects, `cachedChildren` and `cachedHvpa` the informers' copies, and
`fresh` the children whose cached resourceVersion is the stored one: an update needs it, a
patch and a delete do not. The worker goes through `List`, one claim action per listed object
(`ClaimOwned`, `Ignore`, `Release`, `Adopt`, `RefuseAdoption`, each call also failing or being
applied with a lost reply), `EndClaim`, then `Sync`, `Prune`, `DeleteUnwanted`, `Create`.
`Finalize` and `CollectGarbage` are the cluster's part; an HVPA may be deleted and recreated
under another UID (`Incarnations`). `Panics` is the nil pointer of a VPA without update policy,
in the copy that was listed or in the one the update reads again (`vpa_util.go:50`, `84`).

Three variables are history, for the properties only: `pass`, what befell the current
reconcile; `outdated`, the objects that others have changed since the informer's copy; and
`overtaken`, those that others have changed since the copy the worker decides on. A reconcile
starts as outdated as the caches it lists from; the controller's own writes, which its copy
may not show either, are not counted.

Abstractions: labels and selectors are compared as a whole, specs are model values; two HPA
templates differ in their metrics, which is what the patch between two API versions carries
along; the conversion itself and the templates' own owner references are left out; an
informer jumps to the latest list; a name can be generated only while one is free
(`OutOfNames` ends the reconcile otherwise).

### SelectorMap and SelectorCache

The map knows for each HVPA a selector or nothing. `SelectorCache` has the heap the code has:
`entries` are the `hvpaObj` structures, `arrays` the backing arrays, `header` the slice in the
map. `removeFromCache` is three assignments and so three steps (`move`, `clear`, `store`), an
append that fits writes into the shared array and one that does not allocates another. The
handler copies the header once (`Lookup`) and reads one element per step. A handler that meets
the nil of a removed entry, or the map while it is written, dies with the process; `Restart`
starts another with an empty map. The refinement maps the slice to the map by name, and a
removal in progress to `missed`.

Abstractions: one namespace; the resync of the informer and the worker's queue are the fairness
of `WorkerStep`; a torn read of a two-word interface value is the old or the new value or the
crash, which is also what other tears come to. A selector of `none` arises only for kinds the
reconcile refuses after caching them (1447), and a ReplicationController's plain map is taken
as a selector that matches everything, as the code converts it (163).

### MaintenanceWindow

Begin and end are parsed with their zone and turned to UTC times of day one by one (37-48);
`Contains` compares times of day, `Duration` adds a day if the end is not after the begin. The
clock takes all 86400 seconds of a day. One reconcile reads the clock several times, which is
not composed with this module. `Add`, `WithBegin`, `WithEnd`, `AlwaysTimeWindow` and the
formatters are called by tests only and left out.

### ContainerLimits

`spec` holds what the user can edit that bears on limits: the container policies, the gap
parameters, and the weight, which stands for the interval that applies. `Scale` is the
computation of 1025-1038 and the writes of 1067-1166 for the slots that are free, any subset of
them, because blocking is `HvpaPolicy`'s subject. `Policy` is the first policy that names the
container or `*`; limits are computed in thousandths of a byte or core and rounded up to a
kilobyte for memory, as the code does. The API server validates a template (`Valid`); an update
it refuses sets `rejected`. `given` is the container as the user last saw to it.

Left out: the cap at the largest int64, which no real quantity reaches; and a negative gap
value, which validation accepts (it only parses the quantity): with one, the limit falls below
the weighted request, the request is capped to it, and a scale up can lower the request.

## 3. Properties

| Property | Says |
|---|---|
| **HvpaScaling** | |
| `TypeOK` | every variable has its type; a target always has a replica |
| `RecordKept` | a scaling whose status write succeeded is what `LastScaleTime` says until the next one |
| `RecordTruthful` | `LastScaleTime` is never later than the last write of the target |
| `StabilizationHonoured` | no informed reconcile scales within the window of the direction, but for the exemptions in the code |
| `OverrideOutlivesOldReconciles` | only a reconcile that read the override and scaled clears it |
| `OverrideForUnansweredKill` | the override is set for an eviction, or for a kill later than the last recorded scaling, however stale the copy was |
| `ScalesTowardsRecommendation` | a write of the target moves every quantity from what is *stored* towards the recommendation, never past it |
| `DueScalingHappens` | a scaling that is due is made unless it stops being called for |
| **ChildClaim** | |
| `StrangersOnlyOvertaken` | the reconciler takes, changes or deletes another controller's object, or an orphan the selector does not select, only if somebody else has changed that object since the copy was taken on which the claim was decided |
| `ClaimsAsDocumented` | an undisturbed claim without an error owns exactly what it returns, all of it matching, and leaves no matching orphan |
| `SettlesInOnePass` | an undisturbed reconcile from current caches does the whole work |
| `Converges` | once reconciles start from current caches, one child with the wanted spec remains for good, unless the controller panics for ever (or strangers hold every name of the instance) |
| **SelectorCache** | |
| `WellFormed` | whenever the mutex is free, no nil and no HVPA twice in the slice |
| `ImplementsMap` | every step on the slice is one of `SelectorMap`, or unseen |
| `AnswersFromCache` | the HVPA the handler finds did match at some time of its loop |
| `MissesOnlyMoved` | an HVPA that matched all the time is missed only if an entry was moved |
| `CatchesUp` | unless crashes go on for ever, the cache mirrors the targets in the end |
| **MaintenanceWindow** | |
| `OpenInItsZone` | `Contains` in UTC is the comparison a user makes on the clock of the zone |
| `OpenForDuration` | a window that closes was open for `Duration` and the second of its end |
| `OpensAgain` | a window that is left alone opens again every day, if only for a second |
| **ContainerLimits** | |
| `AcceptedByServer` | an update is refused only because of an explicit limit of zero |
| `EqualStaysEqual` | a limit equal to the request stays equal, and the quality of service with it |
| `MovesTowardsRecommendation` | capping after the direction was chosen never turns a request back or past |
| `CpuShareNeverGrows` | after any number of proportional scalings the CPU limit is within the share the user gave |
| `FollowsRecommendation` | a request that a limit has capped goes on with the limit to the recommendation |

Each of the four later modules has a `TypeOK` too.

`StabilizationHonoured` is qualified: *informed* means that the previous scaling's status
write was not lost and that the instance read is the stored one. The unqualified statement of
the API documentation is `MinimumDelay`, and it does not hold.

`CpuShareNeverGrows` has no counterpart from below: the floor of each proportional scaling
loses up to a millicore, and a limit that has become equal to its request in this way stays
equal by `EqualStaysEqual`, so a burstable container can become a guaranteed one for good. For
memory the rounding to a kilobyte goes up, and the share drifts the other way.

## 4. Runs

| Run | Bounds | Shows |
|---|---|---|
| `scaling_override` | vertical only, 2 ticks, 1 kill, 1 fault | the two writers of the status, and a crash, conflict or lost call between two of their steps |
| `scaling_edits` | weight 0 and 50 by interval in both dimensions with scale down of requests in the maintenance window, or vertical only; 2 ticks, 1 edit | both dimensions, rounding, the two windows in one decision, and changes of policy while the user edits the spec or the target |
| `scaling_progress` | horizontal at one replica, vertical at two; an HPA that wants two; 1 tick, 1 edit, 1 fault, `FairSpec` | progress in both dimensions through conflicts, stale caches, a failed call and a swallowed error, which does not scale to zero either |
| `claim_hpa` | 2 HPAs, autoscaling/v2, 2 labels, 2 templates (interchangeable, as the names are), 2 incarnations, 2 edits, 1 fault | strangers' objects are written only when overtaken, one pass settles, the HVPA recreated in between included |
| `claim_converges` | 2 VPAs, 2 labels, a spec that panics, 1 edit, 1 fault, `FairSpec` | the documented promise of a claim, and convergence |
| `selector_cache` | 2 HVPAs, 2 labels, 3 edits, `FairSpec` | refinement, the unlocked loop, catching up |
| `window` | 4 windows, every second of a day, `FairSpec` | begin to end, every day |
| `limits` | 1 container with 2 slots, 5 containers, 5 specs, 4 recommendations, 1 edit, 2 reports | acceptance, equality, direction, share, arrival |
| `doc_*` | see section 5 | what a document says and the code does not do |

Why these bounds are enough to be interesting. *Scaling*: one memory slot, one pod, one or two
replicas, windows of one tick (up) and two (down): two ticks put a second scaling inside, on
and after the window of either direction; one kill before, between and after the two writes of
a scaling is every position of the handler relative to the worker; one fault hits each call at
each step; one edit makes a cached copy stale between the read and the write; replicas 1 and 2
and requests 1 to 3 make room for scaling in every direction, for a rounding that stops half
way, and for a fresh HPA that says 0. *Claims*: two objects make a duplicate, an orphan beside
an owned one, and a rival's object under a name once the controller's; two edits make an object
deleted and recreated behind a stale list. *Selector cache*: two HVPAs are enough for a move
and an append into the freed slot under a running loop. *Window*: within a day, over midnight
in UTC, over midnight of the zone only, and begin equal to end. *Limits*: quantities of a few
units round at every scaling, and three scalings from one recommendation to another let a
rounding be read back. The proofs of section 6 do away with the bounds for every safety
property. Where a run has
counters or a bounded clock that stop the system, deadlock is not checked; it is in
`selector_cache` and `window`.

Fairness. In `HvpaScaling` (`FairSpec`): weak fairness of the worker's steps, because every reconcile is
requeued after a minute or with back-off (1444-1447, and controller-runtime on an error); of
the handler's steps, because its goroutine takes the queued events; and of the two informers,
because watches deliver. The clock, the other controllers, kills, edits and faults are not
fair. Weak fairness is enough: a conflict ends a reconcile, the next one reads again, and the
number of edits and faults is finite.

In `ChildClaim`: the worker's steps, the informers, a restart after a panic, and the garbage
collector and other people's finalizers, which the cluster runs. `Converges` has a premise,
that from some time on a reconcile starts only from a current list: the requeue after a minute
makes this so in practice, but nothing in the code waits for the cache. In `SelectorCache`: the
worker, because events and resyncs bring every HVPA back, and the restart of a crashed
container; `CatchesUp` has the premise that the crashes end. In `MaintenanceWindow`: time
passes. In `ContainerLimits`: a reconcile that no policy blocks is made, the premise that the
slot stays free being part of the action.

## 5. Where documents and code disagree

* `doc_minimum_delay`: `hvpa_types.go:132` calls the stabilization duration "the minimum delay
  in minutes between 2 consecutive scale operations". When the status write after an update of
  the target is lost, the next reconcile knows of no scaling and scales again at once.
* `doc_override_scale_in`: the override is documented as "Override scale up stabilization
  window" (`hvpa_types.go:264`) and logged as "in case of scale out" (751); line 800 lets a
  scale *in* through as well, while the vertical scale down (1082) is not exempt.
* `doc_scale_down_only`: `README.md:25` promises an update policy for each of four directions.
  `isScalingOff` copies the scale-down policies from scale up (653, 655), so with both
  scale-up policies off nothing is scaled down either.
* `doc_release_error`: `controller_ref_manager.go:188-189` promises that without an error "the
  reconciliation succeeded". `ReleaseHpa` returns the outer error, which the v2 branch shadows
  (364): the claim ends without an error and the object stays owned.

Met while modelling and visible in the models, without a run of their own:

* `DEPRECATED.md:15` says that scale down can be turned off with mode `Off` so that only
  scaling up is left. With `hpa.scaleDown` off there is no HPA (400, 433), so the scale out is
  "not limited" (843), and every vertical scale up is blocked (1050): nothing is scaled.
* `controller_ref_manager.go:293-294` expects an adoption to be rejected "if another
  OwnerReference exists with controller=true". The patch replaces the owner references as a
  whole and without a precondition: it takes an object from a rival that adopted it after the
  list was read. That is the first exemption of `StrangersOnlyOvertaken` (`c \in overtaken`);
  without it TLC needs three steps: a list, a change by somebody else, and the patch over it.
* Its second exemption (`RepeatsRelease`): a release repeated from an old copy writes an object
  that is nobody's by then, and with autoscaling/v2 puts the metrics of that copy back.
* `hpa_util.go:116-117` speaks of an uncached quorum read before an adoption; the client reads
  the cache.
* "Keep only 1 HPA. Delete the rest" (380): the one kept may be on its way out already, and
  then the next reconcile has to create another.
* `vpa_util.go:50` dereferences the update policy that the vendored VPA API (`v1/types.go:80`)
  lets users omit on a VPA they create, and so does line 84 on the object it reads again; an
  adopted one without it panics the controller, restart after restart.
* `timewindow.go:183` makes a window with begin equal to end a day long; `Contains` holds it
  open for one second a day.
* `hvpa_controller_test.go:456` builds a maintenance time of the next hour, which
  `NewMaintenanceTime` refuses between 23:00 and 24:00 UTC.
* The VPA's API (vendored `v1/types.go:134-137`) says that the policy `*` is for "the containers
  that don't have their own policy". `getContainerControlledResourcesAndValues` (1231) takes the
  first that matches: a `*` before the container's own policy hides it, and a resource that the
  recommender leaves out because of the own policy counts as recommended with zero.
* 1289-1290 say that Kubernetes takes an absent request as equal to the limit, but the weighted
  request starts from zero (997-1010): with a weight below 100 the first scaling of such a
  container, counted as a scale up, sets request and limit to a share of the recommendation,
  below what the pods had.
* An explicit limit of zero counts as no limit (1286) and caps only if no other slot has a new
  limit (1034): the request grows above it, and the API server refuses the whole template.
* `minReplicas` is optional (`hvpa_types.go`, `HpaTemplateSpec`), and both validation
  (`validateHpaTemplateSpec`) and 482 dereference it.

## 6. Proofs

Checked by TLAPS, for every set of slots, pods, specs, statuses and bounds that satisfies
`PolicyAssumption` and `ScalingAssumption`. These say that the constants have the types the
API gives them, that the target starts with a replica, and that `Nil` is not a number.

`HvpaPolicyProofs`: a share of the way between two numbers lies between them
(`ShareBounds`), so rounded replicas and requests do too, whichever way they are rounded
(`WeightedReplicasBetween`, `DifferenceBounds`, `WeightedRequestBetween`); replicas make
progress whenever the weight is not zero (`WeightedReplicasProgress`); the weight chosen from
the intervals is a percentage (`VpaWeightType`, which needs that `Min` and `Max` of a
non-empty set of indices are elements of it). From these and the conditions of each branch,
`DecideSound`: replicas stay positive and between current and desired, requests between
present and recommended, and each change needs its window to have passed or the exemption
that the code gives.

`HvpaScalingProofs`:

* `TypeCorrect` (`[]TypeOK`). It rests on `DecideSound`: that no decision sets a target to
  zero replicas, although a fresh HPA says zero, is part of the type.
* `ScalingInvariant` (`[]ScalingInv`). The properties are not inductive as they stand. The
  strengthening says: (`CopiesCurrent`) who holds the stored resourceVersion holds the stored
  object; (`StatusDerived`) the status about to be written differs from the instance read only
  where 1493-1528 changed it, with the time of the scaling it records; (`CauseRead`) the
  handler about to write has read a cause; (`PastScalings`) no scaling lies in the future.
  `CopiesCurrent` is what turns the optimistic update into "nothing is undone": an accepted
  write replaces what is stored by a copy of it plus the writer's own change.
* `RecordedScalingsKept`, `RecordsTruthful` (invariants), `OverrideNotErased`,
  `OverrideForCauseOnly`, `ScalingTowardsRecommendation`, `WindowsHonoured` (action
  properties) follow from it, each through a lemma about one step.

`ChildClaimProofs` (from `ClaimAssumption` and `NilAssumption`): `Invariance` has two parts
beside the types. `WorkerOK`: to what the worker has claimed it was entitled by its copy
(`Entitled`: no rival's, and with the label selected). `Provenance`: a copy, in the cache or in
the worker's list, is right about the label of an object, and about its being no rival's, as
long as others have left the object alone (`View`); the worker keeps this up, because it
changes no labels, gives nothing to a rival, and creates only under names that neither copy
shows. `StrangersAreSafe` follows from the two for each write. `ClaimsKeepTheirWord` needs more:
that an undisturbed claim has dealt with every object listed so far; it is proved for
`AutoscalingV2 = FALSE`, since with it the property fails.

`ChildPassProofs` (for either value of `AutoscalingV2`): `OnePassSettles` is about a pass that
starts from current caches, that nobody disturbs and of which no call fails. Its invariant
`PassInv` follows the code line by line: the instance at hand is the stored one
(`Undisturbed`); what has been claimed is, each object once, all there is of the HVPA's among
the objects passed (`Inventory`); objects not yet claimed are as they were listed (`Claiming`);
those synced have the template's shape and the others the listed one (`SyncedSoFar`), which is
why a sync that finds nothing to do in the list is right to do nothing; and of the duplicates
passed none is left, while the first one stays (`PrunedSoFar`). Without the parts about what is
still to come, the last step of the pass could not be told from one that skipped an object.

`SelectorCacheProofs` (from `CacheAssumption`): the invariant says that the heap is well typed,
where the pointers of the slice are at each step of `ManageCache` and of a removal (present,
twice, nil at the end), that the slice about to be stored is the present one longer or shorter
by one or the first of its namespace, and that the array a loop reads exists.
`SliceWellFormed` and `Refinement` (`Spec => ImplementsMap`) follow: initial states map to
initial states, and each of the steps maps to `Learn`, `Miss`, `Forget`, `Users`, `StartAnew`
or a stutter.

`SelectorLoopProofs` goes on to the reader that takes no mutex, for any number of HVPAs and
edits. `LoopInvariance` adds three parts. `RoomInv`: a slice moves to another array only when
its own is full. A header read while it is stored may have the array of one slice and the
length of the other (`TornHeaders`); with `RoomInv` what such a mixture shows is still in
one of the two slices. `EverInv`: whatever the loop can still read, in whichever array, was
offered while the loop ran; each write in place puts there an entry that is in the cache at
that moment. `AlwaysInv`: an HVPA that matched all the time is ahead of the loop in the same
slot of both slices as long as no entry was moved; that slot is never the last one that
`removeFromCache` is about to clear for another HVPA. `AnswersAreFromCache` and
`MissesNeedMove` are what the last two say of the step that ends the loop.

`MaintenanceWindowProofs`: a time of day is determined by its second, on either side of a
midnight; with it `Contains` is a comparison of seconds modulo a day (`ContainsSeconds`), from
which `InItsZone` and, with an invariant on how long the window has been open,
`OpensForDuration` follow. Arithmetic modulo a day is kept in lemmas of its own (`InDay`,
`ClockFields` and those on days): no later step multiplies or divides.

`ContainerLimitsProofs` (from `LimitsAssumption`): arithmetic first (`QuotientAtLeast`,
`RoundUpBounds`, `ProportionalCovers`, `WithGapCovers`, `ScaledLimitCovers`): a limit that is
not below its request is scaled to one that is not below the weighted request, whichever rule
applies. That needs the invariant that the stored container is valid (`IInv`), and gives
`Accepted`, `EqualityPreserved` and `MovesTowards`; `TypeCorrect` needs no more than that
scaling never computes a negative number. `ShareNeverGrows` is inductive together
with `IInv`; `ShareStep` is its arithmetic: flooring a share does not let it grow.

Every invariant and action property of the passing runs is stated by a theorem. Only
model-checked are the liveness properties (`DueScalingHappens`, `Converges`, `CatchesUp`,
`OpensAgain`, `FollowsRecommendation`), because fairness is out of the prover's reach, and the
refutations of section 5, which are counterexamples. `ClaimsAsDocumented` is proved only for
`AutoscalingV2 = FALSE`; for `TRUE` it is one of those refutations.

## 7. Not modelled, and what is left

* *Metrics* observe a reconcile and feed nothing back. *Validation and webhook* are pure
  predicates on one spec; the specs of the models satisfy them. *Generated deep copies*,
  `main.go` and the log have no behaviour of their own.
* *The VPA's conditions* (892-922): the outcome of the loop is a recommendation or `Nil`.
* *DaemonSet targets*, several containers in one decision with limits, and float rounding.
* What is left to prove is the step from safety to progress: that a due scaling stays enabled
  until it happens. It needs ENABLED, so it stays with TLC.
