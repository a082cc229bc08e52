----------------------------- MODULE ChildClaim -----------------------------
(***************************************************************************)
(* The children of one HVPA: reconcileHpa and reconcileVpa of              *)
(* controllers/hvpa_controller.go with the claim protocol of               *)
(* controllers/controller_ref_manager.go.                                  *)
(*                                                                         *)
(* The two functions follow one protocol: list every object of the kind    *)
(* from the informer's cache, claim them one by one (adopt matching        *)
(* orphans, release owned objects that no longer match), sync the specs of *)
(* the claimed ones, delete all but the first, and keep, delete or create  *)
(* one.  This module is that protocol for either kind, while users, a      *)
(* rival controller and the garbage collector change the same objects and  *)
(* the cache lags behind.  Adoptions and releases are merge patches: they  *)
(* carry no resourceVersion and overwrite whatever owner they find.        *)
(***************************************************************************)
EXTENDS Integers, Sequences, FiniteSets

CONSTANTS
    Children,       \* names of objects of the kind
    Labels,         \* label sets of the objects; a selector selects one of them
    Templates,      \* specs: what the HVPA's template asks for, or an object has
    Unsyncable,     \* specs on which syncVpaSpec dereferences a nil UpdateMode
    Incarnations,   \* HVPAs of this name that may exist one after the other
    AutoscalingV2,  \* HPAs only: IsAutoscalingV2Enabled
    Nil,            \* Go's nil: no object, no controller reference
    Rival,          \* another controller
    MaxEdits,       \* bound on what users and the rival do
    MaxFaults       \* bound on failed calls, lost replies and restarts

Uids == 1..Incarnations

ASSUME ClaimAssumption ==
    /\ Unsyncable \subseteq Templates
    /\ Incarnations \in Nat \ {0}
    /\ AutoscalingV2 \in BOOLEAN
    /\ Nil \notin Uids \union Children /\ Rival \notin Uids \union {Nil}
    /\ MaxEdits \in Nat /\ MaxFaults \in Nat

VARIABLES
    (* API server *)
    hvpa,           \* the HVPA, or Nil
    children,       \* the object of each name, or Nil
    (* informer caches *)
    cachedHvpa, cachedChildren,
    fresh,          \* objects whose cached copy carries the stored resourceVersion
    (* controller process *)
    worker,         \* the reconcile worker
    (* environment *)
    edits, faults,
    (* history, read by the properties only *)
    pass,           \* what befell the current reconcile
    outdated,       \* objects others have changed since their cached copy
    overtaken       \* objects others have changed since the worker's copy

apiVars   == <<hvpa, children>>
cacheVars == <<cachedHvpa, cachedChildren, fresh>>
histVars  == <<outdated, overtaken>>
vars == <<apiVars, cacheVars, worker, edits, faults, pass, histVars>>

-----------------------------------------------------------------------------
(* Types. *)

Hvpa == [uid : Uids, selector : Labels, template : Templates \ Unsyncable,
         wanted : BOOLEAN,      \* deployed and, for an HPA, both modes Auto
         deleting : BOOLEAN]    \* kept by somebody's finalizer

\* "owner" is the controller reference; "deleting" a foreground deletion.
Child == [owner : Uids \union {Rival, Nil}, label : Labels, spec : Templates,
          deleting : BOOLEAN]

ASSUME NilAssumption == Nil \notin Hvpa /\ Nil \notin Child

Objects == [Children -> Child \union {Nil}]

\* "recheck" is the outcome sync.Once remembers; "failed" says that errlist is
\* not empty; "next" is the index of the claimed child to sync or delete next.
Worker == [pc : {"idle", "claim", "sync", "prune", "settle", "create", "panicked"},
           hvpa : Hvpa \union {Nil}, list : Objects, todo : SUBSET Children,
           claimed : Seq(Children), next : Nat \ {0},
           recheck : {"unasked", "granted", "refused"}, failed : BOOLEAN]

TypeOK ==
    /\ hvpa \in Hvpa \union {Nil} /\ children \in Objects
    /\ cachedHvpa \in Hvpa \union {Nil} /\ cachedChildren \in Objects
    /\ fresh \subseteq Children
    /\ worker \in Worker
    /\ worker.pc \notin {"idle", "panicked"} => worker.hvpa \in Hvpa
    /\ edits \in 0..MaxEdits /\ faults \in 0..MaxFaults
    /\ pass \subseteq {"disturbed", "faulty"}
    /\ outdated \subseteq Children /\ overtaken \subseteq Children

NoObjects == [c \in Children |-> Nil]

Idle == [pc |-> "idle", hvpa |-> Nil, list |-> NoObjects, todo |-> {},
         claimed |-> << >>, next |-> 1, recheck |-> "unasked", failed |-> FALSE]

Init ==
    /\ hvpa \in {h \in Hvpa : h.uid = 1 /\ ~h.deleting}
    /\ children \in {objects \in Objects :
                       \A c \in Children : objects[c] = Nil \/
                         (objects[c].owner \in {Nil, Rival} /\ ~objects[c].deleting)}
    /\ Cardinality({c \in Children : children[c] # Nil}) <= 1
    /\ cachedHvpa = hvpa /\ cachedChildren = children /\ fresh = Children
    /\ worker = Idle
    /\ edits = 0 /\ faults = 0
    /\ pass = {} /\ outdated = {} /\ overtaken = {}

-----------------------------------------------------------------------------
(* The API server. *)

\* A merge patch: ownerReferences as a whole, no precondition.  Between two
\* versions of the autoscaling API it also carries the metrics of the copy, and
\* the metrics are what distinguishes two HPA templates here.
Patched(c, owner) ==
    LET spec == IF AutoscalingV2 THEN worker.list[c].spec ELSE children[c].spec
    IN  [children EXCEPT ![c] = [children[c] EXCEPT !.owner = owner, !.spec = spec]]

\* An object somebody else already deletes stays until its finalizer is gone.
Deleted(c) ==
    [children EXCEPT ![c] = IF @ # Nil /\ @.deleting THEN @ ELSE Nil]

\* A call fails: it was not made, or it was and only the reply is lost.
Fault(effect) ==
    /\ faults < MaxFaults
    /\ faults' = faults + 1
    /\ children' \in {children, effect}
    /\ pass' = pass \union {"faulty"}

NoFault == UNCHANGED <<faults, pass>>

-----------------------------------------------------------------------------
(* reconcileHpa and reconcileVpa up to the claim: the instance and the list *)
(* are read from the caches.  (The list is read later than the instance;    *)
(* nothing distinguishes that from an instance that is already stale.)      *)

ListIsCurrent == cachedHvpa = hvpa /\ cachedChildren = children

List_IgnoresNotFound ==
    /\ worker.pc = "idle"
    /\ worker' = [Idle EXCEPT !.pc = "claim", !.hvpa = cachedHvpa,
                              !.list = cachedChildren,
                              !.todo = {c \in Children : cachedChildren[c] # Nil}]
    /\ pass' = IF ListIsCurrent THEN {} ELSE {"disturbed"}
    /\ UNCHANGED <<children, faults>>

\* Reconcile does not get here for an HVPA that is being deleted (1470).
List ==
    /\ worker.pc = "idle"
    /\ cachedHvpa # Nil /\ ~cachedHvpa.deleting
    /\ worker' = [Idle EXCEPT !.pc = "claim", !.hvpa = cachedHvpa,
                              !.list = cachedChildren,
                              !.todo = {c \in Children : cachedChildren[c] # Nil}]
    /\ pass' = IF ListIsCurrent THEN {} ELSE {"disturbed"}
    /\ UNCHANGED <<children, faults>>

-----------------------------------------------------------------------------
(* ClaimHpas and ClaimVpas: ClaimObject for every object of the list.      *)

\* What ClaimObject finds in the copy it is given.
Verdict_IgnoresSelector(copy, h) ==
    IF copy.owner = h.uid THEN "owned"
    ELSE IF copy.owner # Nil \/ h.deleting \/ copy.deleting THEN "ignored"
    ELSE "adoptable"

Verdict(copy, h) ==
    LET matches == copy.label = h.selector
    IN  IF copy.owner = h.uid
        THEN IF matches THEN "owned" ELSE IF h.deleting THEN "ignored" ELSE "released"
        ELSE IF copy.owner = Nil /\ ~h.deleting /\ matches /\ ~copy.deleting
             THEN "adoptable" ELSE "ignored"

Claims(c, verdict) ==
    /\ worker.pc = "claim" /\ c \in worker.todo
    /\ Verdict(worker.list[c], worker.hvpa) = verdict

\* The three ways ClaimObject returns: (true, nil), (false, nil) and an error.
Claimed(c, w) == [w EXCEPT !.todo = @ \ {c}, !.claimed = Append(@, c)]
Passed(c, w)  == [w EXCEPT !.todo = @ \ {c}]
Failed(c, w)  == [w EXCEPT !.todo = @ \ {c}, !.failed = TRUE]

ClaimOwned(c) ==
    /\ Claims(c, "owned")
    /\ worker' = Claimed(c, worker)
    /\ UNCHANGED children /\ NoFault

Ignore(c) ==
    /\ Claims(c, "ignored")
    /\ worker' = Passed(c, worker)
    /\ UNCHANGED children /\ NoFault

\* ReleaseHpa and ReleaseVpa.  NotFound is ignored; with autoscaling/v2 every
\* other error is lost with the variable that shadows err.
Release(c) ==
    /\ Claims(c, "released")
    /\ \/ /\ children' = IF children[c] = Nil THEN children ELSE Patched(c, Nil)
          /\ worker' = Passed(c, worker)
          /\ NoFault
       \/ /\ Fault(IF children[c] = Nil THEN children ELSE Patched(c, Nil))
          /\ worker' = IF AutoscalingV2 THEN Passed(c, worker) ELSE Failed(c, worker)

\* CanAdopt with RecheckDeletionTimestamp: once for all objects of the list,
\* on the HVPA as the cache has it.
Recheck ==
    IF worker.recheck # "unasked" THEN worker.recheck
    ELSE IF cachedHvpa = Nil THEN "refused"
    ELSE IF cachedHvpa.uid # worker.hvpa.uid \/ cachedHvpa.deleting THEN "refused"
    ELSE "granted"

\* AdoptHpa and AdoptVpa.
Adopt_ForgetsClaim(c) ==
    /\ Claims(c, "adoptable") /\ Recheck = "granted"
    /\ children' = IF children[c] = Nil THEN children ELSE Patched(c, worker.hvpa.uid)
    /\ worker' = Passed(c, [worker EXCEPT !.recheck = Recheck])
    /\ NoFault

Adopt(c) ==
    LET rechecked == [worker EXCEPT !.recheck = Recheck]
    IN  /\ Claims(c, "adoptable") /\ Recheck = "granted"
        /\ \/ /\ children[c] = Nil              \* NotFound
              /\ worker' = Passed(c, rechecked)
              /\ UNCHANGED children /\ NoFault
           \/ /\ children[c] # Nil
              /\ children' = Patched(c, worker.hvpa.uid)
              /\ worker' = Claimed(c, rechecked)
              /\ NoFault
           \/ /\ Fault(IF children[c] = Nil THEN children ELSE Patched(c, worker.hvpa.uid))
              /\ worker' = Failed(c, rechecked)

RefuseAdoption(c) ==
    /\ Claims(c, "adoptable") /\ Recheck = "refused"
    /\ worker' = Failed(c, [worker EXCEPT !.recheck = "refused"])
    /\ UNCHANGED children /\ NoFault

\* An error of any claim ends the reconcile, after all objects were tried.
EndClaim ==
    /\ worker.pc = "claim" /\ worker.todo = {}
    /\ worker' = IF worker.failed THEN Idle
                 ELSE IF worker.claimed = << >> THEN [worker EXCEPT !.pc = "create"]
                 ELSE [worker EXCEPT !.pc = "sync"]
    /\ UNCHANGED children /\ NoFault

-----------------------------------------------------------------------------
(* syncHpaSpec and syncVpaSpec for the claimed objects, in their order.    *)

Current == worker.claimed[worker.next]
Syncing == worker.pc = "sync" /\ worker.next <= Len(worker.claimed)
Differs == worker.list[Current].spec # worker.hvpa.template
Advance == worker' = [worker EXCEPT !.next = @ + 1]

\* The update policy is dereferenced by the comparison, in the object as it was
\* listed, and by the update, in the object as the cache has it by now.
Panics ==
    \/ worker.list[Current].spec \in Unsyncable
    \/ /\ Differs
       /\ cachedChildren[Current] # Nil /\ cachedChildren[Current].spec \in Unsyncable

Panic ==
    /\ Syncing /\ Panics
    /\ worker' = [Idle EXCEPT !.pc = "panicked"]
    /\ UNCHANGED children /\ NoFault

SkipSync ==
    /\ Syncing /\ ~Panics /\ ~Differs
    /\ Advance
    /\ UNCHANGED children /\ NoFault

\* An update of the cached object, which the API server accepts if the cached
\* resourceVersion is the stored one.
Synced(c) == [children EXCEPT ![c] = [@ EXCEPT !.spec = worker.hvpa.template]]

Sync ==
    /\ Syncing /\ ~Panics /\ Differs
    /\ children[Current] # Nil /\ Current \in fresh
    /\ \/ children' = Synced(Current) /\ Advance /\ NoFault
       \/ Fault(Synced(Current)) /\ worker' = Idle

\* RetryOnConflict gives up at some point; a NotFound is not retried.
GiveUpSync ==
    /\ Syncing /\ ~Panics /\ Differs
    /\ cachedChildren[Current] = Nil \/ children[Current] = Nil \/ Current \notin fresh
    /\ worker' = Idle
    /\ pass' = pass \union {"faulty"}
    /\ UNCHANGED <<children, faults>>

EndSync_SparesSecond ==
    /\ worker.pc = "sync" /\ worker.next > Len(worker.claimed)
    /\ worker' = [worker EXCEPT !.pc = "prune", !.next = 3]
    /\ UNCHANGED children /\ NoFault

EndSync ==
    /\ worker.pc = "sync" /\ worker.next > Len(worker.claimed)
    /\ worker' = [worker EXCEPT !.pc = "prune", !.next = 2]
    /\ UNCHANGED children /\ NoFault

-----------------------------------------------------------------------------
(* "Keep only 1. Delete the rest": a failed deletion is logged and skipped. *)

Pruning == worker.pc = "prune" /\ worker.next <= Len(worker.claimed)

Prune ==
    /\ Pruning
    /\ Advance
    /\ \/ children' = Deleted(Current) /\ NoFault
       \/ Fault(Deleted(Current))

EndPrune_AlwaysKeeps ==
    /\ worker.pc = "prune" /\ worker.next > Len(worker.claimed)
    /\ worker' = Idle
    /\ UNCHANGED children /\ NoFault

\* The first claimed object stays, and its status is read, if one is wanted.
EndPrune ==
    /\ worker.pc = "prune" /\ worker.next > Len(worker.claimed)
    /\ worker' = IF worker.hvpa.wanted THEN Idle ELSE [worker EXCEPT !.pc = "settle"]
    /\ UNCHANGED children /\ NoFault

DeleteUnwanted ==
    /\ worker.pc = "settle"
    /\ worker' = Idle
    /\ \/ children' = Deleted(worker.claimed[1]) /\ NoFault
       \/ Fault(Deleted(worker.claimed[1]))

\* getHpaFromHvpa and getVpaFromHvpa: the name is generated, so it is one that
\* nobody uses or remembers; validation makes the template's labels match.
New == [owner |-> worker.hvpa.uid, label |-> worker.hvpa.selector,
        spec |-> worker.hvpa.template, deleting |-> FALSE]

Create ==
    /\ worker.pc = "create" /\ worker.hvpa.wanted
    /\ worker' = Idle
    /\ \E c \in Children :
         /\ children[c] = Nil /\ cachedChildren[c] = Nil /\ worker.list[c] = Nil
         /\ \/ children' = [children EXCEPT ![c] = New] /\ NoFault
            \/ Fault([children EXCEPT ![c] = New])

\* The bound on names: without a free one the creation counts as failed.
OutOfNames ==
    /\ worker.pc = "create" /\ worker.hvpa.wanted
    /\ \A c \in Children :
         children[c] # Nil \/ cachedChildren[c] # Nil \/ worker.list[c] # Nil
    /\ worker' = Idle
    /\ pass' = pass \union {"faulty"}
    /\ UNCHANGED <<children, faults>>

CreateNone ==
    /\ worker.pc = "create" /\ ~worker.hvpa.wanted
    /\ worker' = Idle
    /\ UNCHANGED children /\ NoFault

-----------------------------------------------------------------------------
(* Everyone else. *)

\* A step of somebody else disturbs the current reconcile.
Edit == edits < MaxEdits /\ edits' = edits + 1

EditHvpa ==
    /\ Edit /\ hvpa # Nil /\ ~hvpa.deleting
    /\ hvpa' \in {h \in Hvpa : h.uid = hvpa.uid /\ ~h.deleting /\ h # hvpa}
    /\ UNCHANGED children

DeleteHvpa ==
    /\ Edit /\ hvpa # Nil /\ ~hvpa.deleting
    /\ hvpa' \in {Nil, [hvpa EXCEPT !.deleting = TRUE]}
    /\ UNCHANGED children

FinalizeHvpa ==
    /\ hvpa # Nil /\ hvpa.deleting
    /\ hvpa' = Nil
    /\ UNCHANGED <<children, edits>>

\* The uid of a new incarnation is one no object carries yet.
RecreateHvpa ==
    /\ Edit /\ hvpa = Nil
    /\ \E h \in Hvpa :
         /\ ~h.deleting
         /\ \A c \in Children : children[c] # Nil /\ children[c].owner \in Uids =>
                                  children[c].owner < h.uid
         /\ cachedHvpa # Nil => cachedHvpa.uid < h.uid
         /\ worker.hvpa # Nil => worker.hvpa.uid < h.uid
         /\ hvpa' = h
    /\ UNCHANGED children

UserCreates(c) ==
    /\ Edit /\ children[c] = Nil
    /\ \E object \in Child :
         /\ object.owner = Nil /\ ~object.deleting
         /\ children' = [children EXCEPT ![c] = object]
    /\ UNCHANGED hvpa

UserRelabels(c) ==
    /\ Edit /\ children[c] # Nil
    /\ \E label \in Labels \ {children[c].label} :
         children' = [children EXCEPT ![c].label = label]
    /\ UNCHANGED hvpa

UserDeletes(c) ==
    /\ Edit /\ children[c] # Nil /\ ~children[c].deleting
    /\ children' \in {[children EXCEPT ![c] = Nil], [children EXCEPT ![c].deleting = TRUE]}
    /\ UNCHANGED hvpa

RivalAdopts(c) ==
    /\ Edit /\ children[c] # Nil /\ children[c].owner = Nil /\ ~children[c].deleting
    /\ children' = [children EXCEPT ![c].owner = Rival]
    /\ UNCHANGED hvpa

Finalize(c) ==
    /\ children[c] # Nil /\ children[c].deleting
    /\ children' = [children EXCEPT ![c] = Nil]
    /\ UNCHANGED <<hvpa, edits>>

\* The garbage collector of Kubernetes.
CollectGarbage(c) ==
    /\ children[c] # Nil /\ children[c].owner \in Uids
    /\ hvpa # Nil => children[c].owner # hvpa.uid
    /\ children' = [children EXCEPT ![c] = Nil]
    /\ UNCHANGED <<hvpa, edits>>

RefreshHvpa ==
    /\ cachedHvpa # hvpa
    /\ cachedHvpa' = hvpa
    /\ UNCHANGED <<apiVars, cachedChildren, fresh, worker, edits, faults, pass, histVars>>

RefreshChildren ==
    /\ cachedChildren # children \/ fresh # Children
    /\ cachedChildren' = children /\ fresh' = Children
    /\ outdated' = {}
    /\ UNCHANGED <<apiVars, cachedHvpa, worker, edits, faults, pass, overtaken>>

\* A new process lists everything before it reconciles.
Restarted ==
    /\ worker' = Idle
    /\ cachedHvpa' = hvpa /\ cachedChildren' = children /\ fresh' = Children
    /\ outdated' = {} /\ overtaken' = {}
    /\ UNCHANGED <<apiVars, edits, pass>>

Restart ==
    \/ worker.pc = "panicked" /\ Restarted /\ UNCHANGED faults
    \/ worker.pc # "idle" /\ faults < MaxFaults /\ faults' = faults + 1 /\ Restarted

-----------------------------------------------------------------------------

ClaimStep ==
    \/ \E c \in Children : \/ ClaimOwned(c) \/ Ignore(c) \/ Release(c)
                           \/ Adopt(c) \/ RefuseAdoption(c)
    \/ EndClaim

SettleStep ==
    \/ Panic \/ SkipSync \/ Sync \/ GiveUpSync \/ EndSync
    \/ Prune \/ EndPrune \/ DeleteUnwanted \/ Create \/ OutOfNames \/ CreateNone

Reconcile == List \/ ClaimStep \/ SettleStep

Changed == {c \in Children : children'[c] # children[c]}

\* A write of an object makes the cached resourceVersion of that object old.
Written == fresh' = fresh \ Changed

Working(w) == w.pc \notin {"idle", "panicked"}

\* A reconcile is as outdated as the caches it lists from.
ReconcileStep ==
    /\ Reconcile /\ Written
    /\ overtaken' = IF ~Working(worker') THEN {}
                    ELSE IF Working(worker) THEN overtaken ELSE outdated
    /\ UNCHANGED <<hvpa, cachedHvpa, cachedChildren, edits, outdated>>

Others ==
    \/ EditHvpa \/ DeleteHvpa \/ FinalizeHvpa \/ RecreateHvpa
    \/ \E c \in Children : \/ UserCreates(c) \/ UserRelabels(c) \/ UserDeletes(c)
                           \/ RivalAdopts(c) \/ Finalize(c) \/ CollectGarbage(c)

OthersStep ==
    /\ Others /\ Written
    /\ pass' = pass \union {"disturbed"}
    /\ outdated' = outdated \union Changed
    /\ overtaken' = IF Working(worker) THEN overtaken \union Changed ELSE {}
    /\ UNCHANGED <<cachedHvpa, cachedChildren, worker, faults>>

Next == ReconcileStep \/ OthersStep \/ RefreshHvpa \/ RefreshChildren \/ Restart

Spec == Init /\ [][Next]_vars

\* The work queue calls Reconcile again and again, informers catch up, and the
\* garbage collector and other people's finalizers get their work done.
Fairness ==
    /\ WF_vars(ReconcileStep)
    /\ WF_vars(RefreshHvpa) /\ WF_vars(RefreshChildren)
    /\ WF_vars(Restart /\ worker.pc = "panicked")
    /\ \A c \in Children : WF_vars(OthersStep /\ (Finalize(c) \/ CollectGarbage(c)))

FairSpec == Spec /\ Fairness

-----------------------------------------------------------------------------
(* Properties. *)

\* Somebody else's object: another controller's, or an orphan that the selector
\* of the instance does not select.
Strangers(c) ==
    /\ children[c] # Nil /\ children[c].owner \notin Uids
    /\ children[c].owner = Nil => children[c].label # worker.hvpa.selector

\* To patch an object of nobody to be nobody's once more, which a release does
\* that is repeated from an old copy.
RepeatsRelease(c) ==
    /\ children[c].owner = Nil
    /\ children'[c] # Nil /\ children'[c].owner = Nil

\* ClaimObject decides on a copy from the cache; the patches and deletions that
\* follow go to a name, whatever it stands for by then.  A reconcile takes,
\* changes or deletes a stranger's object only if somebody else has changed the
\* object of that name after the copy was taken (then it does: the patch of an
\* adoption is not rejected, as controller_ref_manager.go:293-294 expects).  Its
\* own earlier writes that the copy does not show never lead it there, nor do
\* failed calls, restarts, edits of the selector and new incarnations.
StrangersOnlyOvertaken ==
    [][ReconcileStep => \A c \in Changed :
          Strangers(c) => c \in overtaken \/ RepeatsRelease(c)]_vars

\* What the objects are for the HVPA "h".
OwnedBy(h, objects) == {c \in Children : objects[c] # Nil /\ objects[c].owner = h.uid}
Orphans(h, objects) ==
    {c \in Children : /\ objects[c] # Nil /\ objects[c].owner = Nil
                      /\ objects[c].label = h.selector /\ ~objects[c].deleting}

ClaimedSet == {worker.claimed[i] : i \in 1..Len(worker.claimed)}

\* controller_ref_manager.go:188-189 (ClaimHpas) and 243-244 (ClaimVpas): "If
\* the error is nil, either the reconciliation succeeded, or no reconciliation
\* was necessary.  The list of Hpas that you now own is returned."  If nobody
\* else interferes, a claim that returns no error leaves no matching orphan and
\* no owned object that does not match, and returns exactly what is owned.
ClaimsAsDocumented ==
    [][(/\ worker.pc = "claim" /\ worker'.pc \in {"sync", "create"}
        /\ "disturbed" \notin pass)
       => /\ OwnedBy(worker.hvpa, children) = ClaimedSet
          /\ \A c \in ClaimedSet : children[c].label = worker.hvpa.selector
          /\ Orphans(worker.hvpa, children) = {}]_vars

\* One object of the kind, as the template wants it, or none; what somebody
\* else is deleting is on its way out.
Settled(h, objects) ==
    LET owned == OwnedBy(h, objects)
        kept  == {c \in owned : ~objects[c].deleting}
    IN  /\ Orphans(h, objects) = {}
        /\ \A c \in owned : objects[c].label = h.selector
        /\ IF h.wanted
           THEN \E c \in owned : kept \subseteq {c} /\ objects[c].spec = h.template
           ELSE kept = {}

\* A reconcile from current caches that nobody disturbs and of which no call
\* fails does the whole work: claims, syncs, duplicates, creation, deletion.
SettlesInOnePass ==
    [][(worker.pc \notin {"idle", "panicked"} /\ worker'.pc = "idle" /\ faults' = faults
        /\ pass' = {}) => Settled(worker.hvpa, children')]_vars

\* The instance is out of names: other people's objects have them all.
NamesTaken ==
    /\ hvpa # Nil
    /\ \A c \in Children : /\ children[c] # Nil /\ children[c].owner \in {Nil, Rival}
                           /\ c \notin Orphans(hvpa, children)

\* If reconciles start only after the informers have caught up, from some time
\* on, then the children settle for good, whatever happened before; only a VPA
\* on which the controller panics, restart after restart, can keep them from it
\* (or the bound on names, which the generated names of the code do not have).
Converges ==
    <>[][List => ListIsCurrent]_vars
    => \/ <>[](hvpa # Nil /\ ~hvpa.deleting => Settled(hvpa, children))
       \/ []<>(worker.pc = "panicked")
       \/ <>[]NamesTaken
=============================================================================
