-------------------------- MODULE ChildClaimProofs --------------------------
(***************************************************************************)
(* Theorems about ChildClaim, for every set of names, labels and specs,    *)
(* and every bound that satisfies ClaimAssumption.                         *)
(***************************************************************************)
EXTENDS ChildClaim, TLAPS

\* What copies, current or stale, still say of the objects as they are now, if
\* nobody but the controller has changed them since: their labels, and that no
\* rival owns them.
View(copies, changed, now) ==
    \A c \in Children \ changed :
      copies[c] # Nil /\ now[c] # Nil =>
        /\ now[c].label = copies[c].label
        /\ copies[c].owner # Rival => now[c].owner # Rival

\* What a worker may claim, by the copy it has.
Entitled(w, c) ==
    /\ w.list[c] # Nil /\ w.list[c].owner # Rival
    /\ w.list[c].label = w.hvpa.selector

\* The worker has something to claim where it claims, something claimed where
\* it goes on with that, and was entitled to all it has claimed.
WorkerOK ==
    /\ \A c \in worker.todo : worker.list[c] # Nil
    /\ worker.pc \in {"sync", "prune", "settle"} => Len(worker.claimed) > 0
    /\ \A i \in 1..Len(worker.claimed) : Entitled(worker, worker.claimed[i])

Provenance ==
    /\ View(cachedChildren, outdated, children)
    /\ Working(worker) => View(worker.list, overtaken, children)

IInv == TypeOK /\ WorkerOK /\ Provenance

-----------------------------------------------------------------------------
(* Types of what the steps write. *)

LEMMA NilIsNoRecord == Nil \notin Uids /\ Rival \notin Uids /\ Rival # Nil
BY ClaimAssumption

LEMMA PatchedType ==
    ASSUME TypeOK, NEW c \in Children, children[c] # Nil, worker.list[c] # Nil,
           NEW owner \in Uids \union {Rival, Nil}
    PROVE  Patched(c, owner) \in Objects
<1>1. children[c] \in Child /\ worker.list[c] \in Child
  BY DEF TypeOK, Objects, Worker
<1> DEFINE spec == IF AutoscalingV2 THEN worker.list[c].spec ELSE children[c].spec
<1>2. spec \in Templates
  BY <1>1 DEF Child
<1>3. [children[c] EXCEPT !.owner = owner, !.spec = spec] \in Child
  BY <1>1, <1>2 DEF Child
<1>4. [children EXCEPT ![c] = [children[c] EXCEPT !.owner = owner, !.spec = spec]]
        \in Objects
  <2> DEFINE object == [children[c] EXCEPT !.owner = owner, !.spec = spec]
  <2>1. object \in Child
    BY <1>3
  <2> HIDE DEF object
  <2>2. [children EXCEPT ![c] = object] \in Objects
    BY <2>1 DEF TypeOK, Objects
  <2> QED
    BY <2>2 DEF object
<1> QED
  BY <1>4 DEF Patched

LEMMA DeletedType ==
    ASSUME TypeOK, NEW c \in Children
    PROVE  Deleted(c) \in Objects
BY DEF Deleted, TypeOK, Objects

LEMMA SyncedType ==
    ASSUME TypeOK, NEW c \in Children, children[c] # Nil, worker.hvpa \in Hvpa
    PROVE  Synced(c) \in Objects
<1>1. children[c] \in Child
  BY DEF TypeOK, Objects
<1>2. [children[c] EXCEPT !.spec = worker.hvpa.template] \in Child
  BY <1>1 DEF Child, Hvpa
<1> QED
  BY <1>2 DEF Synced, TypeOK, Objects

LEMMA CreatedType ==
    ASSUME TypeOK, NEW c \in Children, worker.hvpa \in Hvpa
    PROVE  [children EXCEPT ![c] = New] \in Objects
<1>1. New \in Child
  BY DEF New, Child, Hvpa
<1> QED
  BY <1>1 DEF TypeOK, Objects

\* The claimed object at hand.
LEMMA CurrentClaimed ==
    ASSUME TypeOK, WorkerOK, worker.next <= Len(worker.claimed)
    PROVE  Current \in Children /\ Entitled(worker, Current)
<1>1. worker.next \in 1..Len(worker.claimed)
  BY DEF TypeOK, Worker
<1> QED
  BY <1>1 DEF Current, WorkerOK, TypeOK, Worker

LEMMA FirstClaimed ==
    ASSUME TypeOK, WorkerOK, worker.pc = "settle"
    PROVE  worker.claimed[1] \in Children /\ Entitled(worker, worker.claimed[1])
<1>1. 1 \in 1..Len(worker.claimed)
  BY DEF WorkerOK, TypeOK, Worker
<1> QED
  BY <1>1 DEF WorkerOK, TypeOK, Worker

\* What ClaimObject does not ignore was no rival's when it was listed.
LEMMA ClaimsEntitled ==
    ASSUME IInv, NEW c \in Children, NEW verdict \in {"owned", "released", "adoptable"},
           Claims(c, verdict)
    PROVE  /\ worker.list[c] \in Child /\ worker.hvpa \in Hvpa
           /\ worker.list[c] # Nil /\ worker.list[c].owner # Rival
           /\ verdict # "released" => Entitled(worker, c)
<1>1. worker.list[c] \in Child /\ worker.hvpa \in Hvpa /\ worker.list[c] # Nil
  BY NilAssumption DEF IInv, Claims, WorkerOK, TypeOK, Worker, Objects
<1>2. worker.hvpa.uid # Rival /\ Nil # Rival
  BY <1>1, NilIsNoRecord DEF Hvpa
<1> DEFINE copy == worker.list[c]
<1>3. /\ copy.owner = worker.hvpa.uid \/ copy.owner = Nil
      /\ verdict # "released" => copy.label = worker.hvpa.selector
  BY DEF Claims, Verdict
<1> QED
  BY <1>1, <1>2, <1>3 DEF Entitled

-----------------------------------------------------------------------------
(* Every step of the worker keeps its types and writes what it may write.  *)

LEMMA IdleType == Idle \in Worker /\ Idle.todo = {} /\ Idle.claimed = << >>
<1>1. NoObjects \in Objects
  BY DEF NoObjects, Objects
<1>2. << >> \in Seq(Children)
  OBVIOUS
<1> QED
  BY <1>1, <1>2 DEF Idle, Worker

\* What the worker is after a step, as far as it is not fixed by the step.
WorkerAfter(w) ==
    /\ w \in Worker
    /\ w.pc \notin {"idle", "panicked"} => w.hvpa \in Hvpa
    /\ \A c \in w.todo : w.list[c] # Nil
    /\ w.pc \in {"sync", "prune", "settle"} => Len(w.claimed) > 0
    /\ \A i \in 1..Len(w.claimed) : Entitled(w, w.claimed[i])
    /\ Working(w) => w.list = IF Working(worker) THEN worker.list ELSE cachedChildren

\* What the worker may make of an object: it keeps off strangers', gives nothing
\* to a rival, changes no labels, and creates only what neither copy shows.
MayBecome(c, x) ==
    /\ Strangers(c) => \/ c \in overtaken
                       \/ children[c].owner = Nil /\ x # Nil /\ x.owner = Nil
    /\ children[c] = Nil => cachedChildren[c] = Nil /\ worker.list[c] = Nil
    /\ children[c] # Nil /\ x # Nil =>
         x.label = children[c].label /\ (x.owner = Rival => children[c].owner = Rival)

Touches(objects) ==
    \A c \in Children : objects[c] # children[c] => MayBecome(c, objects[c])

StepOK ==
    /\ children' \in Objects /\ Touches(children')
    /\ WorkerAfter(worker')
    /\ faults' \in 0..MaxFaults
    /\ pass' \subseteq {"disturbed", "faulty"}

LEMMA IdleAfter == WorkerAfter(Idle)
<1>1. Idle.pc = "idle"
  BY DEF Idle
<1> QED
  BY <1>1, IdleType DEF WorkerAfter, Working

\* Moving on in the same reconcile.
LEMMA MovedAfter ==
    ASSUME IInv, NEW pc \in {"sync", "prune", "settle", "create"},
           worker.pc \in {"claim", "sync", "prune"},
           NEW next \in Nat \ {0},
           pc # "create" => Len(worker.claimed) > 0
    PROVE  WorkerAfter([worker EXCEPT !.pc = pc, !.next = next])
<1> DEFINE w == [worker EXCEPT !.pc = pc, !.next = next]
<1>1. w \in Worker
  BY DEF IInv, TypeOK, Worker
<1>2. /\ w.pc = pc /\ w.hvpa = worker.hvpa /\ w.list = worker.list
      /\ w.todo = worker.todo /\ w.claimed = worker.claimed
  BY DEF IInv, TypeOK, Worker
<1>3. worker.hvpa \in Hvpa
  BY DEF IInv, TypeOK
<1> HIDE DEF w
<1>4. WorkerAfter(w)
  BY <1>1, <1>2, <1>3 DEF WorkerAfter, Working, Entitled, IInv, WorkerOK
<1> QED
  BY <1>4 DEF w

\* Done with one object of the list, whatever came of it.
LEMMA ClaimAfter ==
    ASSUME IInv, NEW c \in Children, NEW recheck \in {"unasked", "granted", "refused"},
           worker.pc = "claim", Entitled(worker, c)
    PROVE  LET w == [worker EXCEPT !.recheck = recheck]
           IN  WorkerAfter(Claimed(c, w))
<1> DEFINE w == [worker EXCEPT !.recheck = recheck]
<1>1. /\ w \in Worker /\ w.pc = "claim" /\ w.hvpa = worker.hvpa /\ w.list = worker.list
      /\ w.todo = worker.todo /\ w.claimed = worker.claimed
  BY DEF IInv, TypeOK, Worker
<1>2. worker.hvpa \in Hvpa
  BY DEF IInv, TypeOK
<1> HIDE DEF w
<1>4. WorkerAfter(Claimed(c, w))
  <2>1. Append(w.claimed, c) \in Seq(Children)
    BY <1>1 DEF Worker
  <2>2. Claimed(c, w) \in Worker
    BY <1>1, <2>1 DEF Claimed, Worker
  <2>3. /\ Claimed(c, w).pc = "claim" /\ Claimed(c, w).hvpa = worker.hvpa
        /\ Claimed(c, w).list = worker.list /\ Claimed(c, w).todo \subseteq worker.todo
        /\ Claimed(c, w).claimed = Append(worker.claimed, c)
    BY <1>1 DEF Claimed, Worker
  <2>4. \A i \in 1..Len(Claimed(c, w).claimed) :
          Entitled(worker, Claimed(c, w).claimed[i])
    <3>1. worker.claimed \in Seq(Children)
      BY DEF IInv, TypeOK, Worker
    <3>2. \A i \in 1..Len(worker.claimed) : Entitled(worker, worker.claimed[i])
      BY DEF IInv, WorkerOK
    <3>3. ASSUME NEW i \in 1..Len(Append(worker.claimed, c))
          PROVE  Entitled(worker, Append(worker.claimed, c)[i])
      <4>1. CASE i \in 1..Len(worker.claimed)
        BY <3>1, <3>2, <4>1
      <4>2. CASE i = Len(worker.claimed) + 1
        BY <3>1, <4>2
      <4> QED
        BY <3>1, <3>3, <4>1, <4>2
    <3> QED
      BY <3>3, <2>3
  <2> QED
    BY <2>2, <2>3, <2>4, <1>1, <1>2 DEF WorkerAfter, Working, Entitled, IInv, WorkerOK
<1> QED
  BY <1>4 DEF w

LEMMA PassedAfter ==
    ASSUME IInv, NEW c \in Children, NEW recheck \in {"unasked", "granted", "refused"},
           worker.pc = "claim"
    PROVE  LET w == [worker EXCEPT !.recheck = recheck]
           IN  WorkerAfter(Passed(c, w)) /\ WorkerAfter(Failed(c, w))
<1> DEFINE w == [worker EXCEPT !.recheck = recheck]
<1>1. /\ w \in Worker /\ w.pc = "claim" /\ w.hvpa = worker.hvpa /\ w.list = worker.list
      /\ w.todo = worker.todo /\ w.claimed = worker.claimed
  BY DEF IInv, TypeOK, Worker
<1>2. worker.hvpa \in Hvpa
  BY DEF IInv, TypeOK
<1> HIDE DEF w
<1>3. Passed(c, w) \in Worker
  BY <1>1 DEF Passed, Worker
<1>4. /\ Passed(c, w).pc = "claim" /\ Passed(c, w).hvpa = worker.hvpa
      /\ Passed(c, w).list = worker.list /\ Passed(c, w).todo \subseteq worker.todo
      /\ Passed(c, w).claimed = worker.claimed
  BY <1>1 DEF Passed, Worker
<1>5. WorkerAfter(Passed(c, w))
  BY <1>1, <1>2, <1>3, <1>4 DEF WorkerAfter, Working, Entitled, IInv, WorkerOK
<1>6. WorkerAfter(Failed(c, w))
  <2>1. Failed(c, w) \in Worker
    BY <1>1 DEF Failed, Worker
  <2>2. /\ Failed(c, w).pc = "claim" /\ Failed(c, w).hvpa = worker.hvpa
        /\ Failed(c, w).list = worker.list /\ Failed(c, w).todo \subseteq worker.todo
        /\ Failed(c, w).claimed = worker.claimed
    BY <1>1 DEF Failed, Worker
  <2> QED
    BY <2>1, <2>2, <1>1, <1>2 DEF WorkerAfter, Working, Entitled, IInv, WorkerOK
<1> QED
  BY <1>5, <1>6 DEF w

LEMMA SameRecheck ==
    ASSUME TypeOK
    PROVE  worker.recheck \in {"unasked", "granted", "refused"}
           /\ [worker EXCEPT !.recheck = worker.recheck] = worker
BY DEF TypeOK, Worker

\* A step that writes nothing, and one that fails after or before its write.
LEMMA WritesNothing ==
    ASSUME IInv, UNCHANGED children
    PROVE  children' \in Objects /\ Touches(children')
BY DEF IInv, TypeOK, Touches

LEMMA WritesOne ==
    ASSUME IInv, NEW c \in Children, NEW x, MayBecome(c, x),
           [children EXCEPT ![c] = x] \in Objects
    PROVE  Touches([children EXCEPT ![c] = x])
<1>1. /\ [children EXCEPT ![c] = x][c] = x
      /\ \A d \in Children \ {c} : [children EXCEPT ![c] = x][d] = children[d]
  BY DEF IInv, TypeOK, Objects
<1> QED
  BY <1>1 DEF Touches

\* What was no rival's and selected when it was listed is no stranger's, unless
\* somebody else has changed it since.
LEMMA EntitledNoStranger ==
    ASSUME IInv, Working(worker), NEW c \in Children, Entitled(worker, c)
    PROVE  Strangers(c) => c \in overtaken
<1> SUFFICES ASSUME c \notin overtaken, children[c] # Nil
             PROVE  ~Strangers(c)
  BY DEF Strangers
<1>1. children[c].label = worker.hvpa.selector /\ children[c].owner # Rival
  BY DEF IInv, Provenance, View, Entitled
<1>2. children[c].owner \in Uids \union {Rival, Nil}
  BY DEF IInv, TypeOK, Objects, Child
<1> QED
  BY <1>1, <1>2 DEF Strangers

LEMMA NoFaultOK ==
    ASSUME IInv, NoFault
    PROVE  faults' \in 0..MaxFaults /\ pass' \subseteq {"disturbed", "faulty"}
BY DEF IInv, TypeOK, NoFault

LEMMA FaultOK ==
    ASSUME IInv, NEW effect \in Objects, Touches(effect), Fault(effect)
    PROVE  /\ children' \in Objects /\ Touches(children')
           /\ faults' \in 0..MaxFaults /\ pass' \subseteq {"disturbed", "faulty"}
BY ClaimAssumption DEF IInv, TypeOK, Fault, Touches

LEMMA PatchTouches ==
    ASSUME IInv, NEW c \in Children, Working(worker),
           worker.list[c] # Nil, worker.list[c].owner # Rival,
           NEW owner \in Uids \union {Nil}, owner # Nil => Entitled(worker, c)
    PROVE  LET effect == IF children[c] = Nil THEN children ELSE Patched(c, owner)
           IN  effect \in Objects /\ Touches(effect)
<1>1. CASE children[c] = Nil
  BY <1>1 DEF IInv, TypeOK, Touches
<1>2. CASE children[c] # Nil
  <2>1. Patched(c, owner) \in Objects
    BY <1>2, PatchedType DEF IInv
  <2> DEFINE spec == IF AutoscalingV2 THEN worker.list[c].spec ELSE children[c].spec
             x == [children[c] EXCEPT !.owner = owner, !.spec = spec]
  <2>2. children[c] \in Child /\ children[c].owner \in Uids \union {Rival, Nil}
    BY <1>2 DEF IInv, TypeOK, Objects, Child
  <2>3. spec \in Templates
    BY <2>2 DEF IInv, TypeOK, Worker, Objects, Child
  <2>4. Patched(c, owner) = [children EXCEPT ![c] = x]
    BY DEF Patched
  <2>5. x # Nil /\ x.label = children[c].label /\ x.owner = owner
    <3>1. x \in Child /\ x.label = children[c].label /\ x.owner = owner
      BY <2>2, <2>3 DEF Child
    <3> QED
      BY <3>1, NilAssumption
  <2> HIDE DEF x
  <2>6. owner # Rival
    BY NilIsNoRecord
  <2>7. Strangers(c) => c \in overtaken \/ (children[c].owner = Nil /\ owner = Nil)
    <3>1. CASE owner # Nil
      BY <3>1, EntitledNoStranger
    <3>2. CASE owner = Nil
      <4>1. c \notin overtaken => children[c].owner # Rival
        BY <1>2 DEF IInv, Provenance, View
      <4> QED
        BY <3>2, <4>1, <2>2 DEF Strangers
    <3> QED
      BY <3>1, <3>2
  <2>8. MayBecome(c, x)
    BY <1>2, <2>5, <2>6, <2>7 DEF MayBecome
  <2>9. Touches(Patched(c, owner))
    BY <2>1, <2>4, <2>8, WritesOne
  <2> QED
    BY <1>2, <2>1, <2>9
<1> QED
  BY <1>1, <1>2

LEMMA DeleteTouches ==
    ASSUME IInv, NEW c \in Children, Working(worker), Entitled(worker, c)
    PROVE  Deleted(c) \in Objects /\ Touches(Deleted(c))
<1>1. Deleted(c) \in Objects
  BY DeletedType DEF IInv
<1>2. Strangers(c) => c \in overtaken
  BY EntitledNoStranger
<1>3. /\ \A d \in Children \ {c} : Deleted(c)[d] = children[d]
      /\ Deleted(c)[c] \in {children[c], Nil}
  BY DEF Deleted, IInv, TypeOK, Objects
<1>4. Deleted(c)[c] # children[c] => MayBecome(c, Deleted(c)[c])
  BY <1>2, <1>3 DEF MayBecome
<1> QED
  BY <1>1, <1>3, <1>4 DEF Touches

LEMMA SyncTouches ==
    ASSUME IInv, NEW c \in Children, Working(worker), Entitled(worker, c),
           children[c] # Nil, worker.hvpa \in Hvpa
    PROVE  Synced(c) \in Objects /\ Touches(Synced(c))
<1> DEFINE x == [children[c] EXCEPT !.spec = worker.hvpa.template]
<1>1. Synced(c) \in Objects
  BY SyncedType DEF IInv
<1>2. children[c] \in Child
  BY DEF IInv, TypeOK, Objects
<1>3. x.label = children[c].label /\ x.owner = children[c].owner
  BY <1>2 DEF Child
<1>4. Synced(c) = [children EXCEPT ![c] = x]
  BY DEF Synced
<1> HIDE DEF x
<1>5. Strangers(c) => c \in overtaken
  BY EntitledNoStranger
<1>6. MayBecome(c, x)
  BY <1>3, <1>5 DEF MayBecome
<1> QED
  BY <1>1, <1>4, <1>6, WritesOne

LEMMA ClaimStepOK ==
    ASSUME IInv, ClaimStep
    PROVE  StepOK
<1>1. ASSUME NEW c \in Children, ClaimOwned(c)
      PROVE  StepOK
  <2>1. Entitled(worker, c) /\ worker.pc = "claim"
    BY <1>1, ClaimsEntitled DEF ClaimOwned, Claims
  <2>2. WorkerAfter(worker')
    BY <1>1, <2>1, ClaimAfter, SameRecheck DEF ClaimOwned, IInv
  <2> QED
    BY <1>1, <2>2, WritesNothing, NoFaultOK DEF ClaimOwned, StepOK
<1>2. ASSUME NEW c \in Children, Ignore(c)
      PROVE  StepOK
  <2>1. WorkerAfter(worker')
    BY <1>2, PassedAfter, SameRecheck DEF Ignore, Claims, IInv
  <2> QED
    BY <1>2, <2>1, WritesNothing, NoFaultOK DEF Ignore, StepOK
<1>3. ASSUME NEW c \in Children, Release(c)
      PROVE  StepOK
  <2> DEFINE effect == IF children[c] = Nil THEN children ELSE Patched(c, Nil)
  <2>1. /\ worker.pc = "claim" /\ Working(worker)
        /\ worker.list[c] # Nil /\ worker.list[c].owner # Rival
    BY <1>3, ClaimsEntitled DEF Release, Claims, Working
  <2>2. effect \in Objects /\ Touches(effect)
    BY <2>1, PatchTouches
  <2>3. WorkerAfter(Passed(c, worker)) /\ WorkerAfter(Failed(c, worker))
    BY <2>1, PassedAfter, SameRecheck DEF IInv
  <2>4. WorkerAfter(worker')
    BY <1>3, <2>3, Zenon DEF Release
  <2>5. CASE children' = effect /\ NoFault
    BY <2>2, <2>4, <2>5, NoFaultOK DEF StepOK
  <2>6. CASE Fault(effect)
    BY <2>2, <2>4, <2>6, FaultOK DEF StepOK
  <2> QED
    BY <1>3, <2>5, <2>6, Zenon DEF Release
<1>4. ASSUME NEW c \in Children, Adopt(c)
      PROVE  StepOK
  <2> DEFINE uid == worker.hvpa.uid
             effect == IF children[c] = Nil THEN children ELSE Patched(c, uid)
             rechecked == [worker EXCEPT !.recheck = Recheck]
  <2>1. /\ Entitled(worker, c) /\ worker.pc = "claim" /\ Working(worker)
        /\ worker.list[c] # Nil /\ worker.list[c].owner # Rival
        /\ uid \in Uids
    BY <1>4, ClaimsEntitled DEF Adopt, Claims, Working, Hvpa
  <2>2. effect \in Objects /\ Touches(effect)
    BY <2>1, PatchTouches
  <2>3. Recheck = "granted"
    BY <1>4 DEF Adopt
  <2>4. /\ WorkerAfter(Passed(c, rechecked)) /\ WorkerAfter(Claimed(c, rechecked))
        /\ WorkerAfter(Failed(c, rechecked))
    BY <2>1, <2>3, PassedAfter, ClaimAfter
  <2> HIDE DEF rechecked
  <2>5. WorkerAfter(worker')
    BY <1>4, <2>4, Zenon DEF Adopt, rechecked
  <2>6. CASE children' = effect /\ NoFault
    BY <2>2, <2>5, <2>6, NoFaultOK DEF StepOK
  <2>7. CASE Fault(effect)
    BY <2>2, <2>5, <2>7, FaultOK DEF StepOK
  <2> QED
    BY <1>4, <2>6, <2>7 DEF Adopt
<1>5. ASSUME NEW c \in Children, RefuseAdoption(c)
      PROVE  StepOK
  <2>1. WorkerAfter(worker')
    BY <1>5, PassedAfter DEF RefuseAdoption, Claims
  <2> QED
    BY <1>5, <2>1, WritesNothing, NoFaultOK DEF RefuseAdoption, StepOK
<1>6. ASSUME EndClaim
      PROVE  StepOK
  <2>1. WorkerAfter([worker EXCEPT !.pc = "create"])
    <3>1. [worker EXCEPT !.pc = "create"]
            = [worker EXCEPT !.pc = "create", !.next = worker.next]
          /\ worker.next \in Nat \ {0}
      BY DEF IInv, TypeOK, Worker
    <3> QED
      BY <1>6, <3>1, MovedAfter DEF EndClaim
  <2>2. ASSUME worker.claimed # << >>
        PROVE  WorkerAfter([worker EXCEPT !.pc = "sync"])
    <3>1. [worker EXCEPT !.pc = "sync"]
            = [worker EXCEPT !.pc = "sync", !.next = worker.next]
          /\ worker.next \in Nat \ {0}
      BY DEF IInv, TypeOK, Worker
    <3>2. Len(worker.claimed) > 0
      BY <2>2 DEF IInv, TypeOK, Worker
    <3> QED
      BY <1>6, <3>1, <3>2, MovedAfter DEF EndClaim
  <2>3. WorkerAfter(worker')
    BY <1>6, <2>1, <2>2, IdleAfter, Zenon DEF EndClaim
  <2> QED
    BY <1>6, <2>3, WritesNothing, NoFaultOK DEF EndClaim, StepOK
<1> QED
  BY <1>1, <1>2, <1>3, <1>4, <1>5, <1>6 DEF ClaimStep

LEMMA AdvanceAfter ==
    ASSUME IInv, worker.pc \in {"sync", "prune"}, Advance
    PROVE  WorkerAfter(worker')
<1> DEFINE next == worker.next + 1
<1>1. next \in Nat \ {0}
  BY DEF IInv, TypeOK, Worker
<1>2. worker' = [worker EXCEPT !.next = next]
  BY Zenon DEF Advance
<1> HIDE DEF next
<1>3. [worker EXCEPT !.next = next] = [worker EXCEPT !.pc = worker.pc, !.next = next]
  BY <1>1 DEF IInv, TypeOK, Worker
<1>4. Len(worker.claimed) > 0
  BY DEF IInv, WorkerOK
<1> QED
  BY <1>1, <1>2, <1>3, <1>4, MovedAfter

LEMMA SettleStepOK ==
    ASSUME IInv, SettleStep
    PROVE  StepOK
<1>1. ASSUME Panic
      PROVE  StepOK
  <2>1. WorkerAfter([Idle EXCEPT !.pc = "panicked"])
    <3> DEFINE w == [Idle EXCEPT !.pc = "panicked"]
    <3>1. w.pc = "panicked" /\ w.hvpa = Nil /\ w.list = NoObjects /\ w.todo = {}
          /\ w.claimed = << >>
      BY DEF Idle
    <3>2. w \in Worker
      BY IdleType DEF Worker
    <3> HIDE DEF w
    <3>3. WorkerAfter(w)
      BY <3>1, <3>2 DEF WorkerAfter, Working
    <3> QED
      BY <3>3 DEF w
  <2> QED
    BY <1>1, <2>1, WritesNothing, NoFaultOK DEF Panic, StepOK
<1>2. ASSUME SkipSync
      PROVE  StepOK
  <2>1. WorkerAfter(worker')
    BY <1>2, AdvanceAfter DEF SkipSync, Syncing
  <2> QED
    BY <1>2, <2>1, WritesNothing, NoFaultOK DEF SkipSync, StepOK
<1>3. ASSUME Sync
      PROVE  StepOK
  <2>1. /\ Current \in Children /\ Entitled(worker, Current)
        /\ children[Current] # Nil /\ Working(worker)
    BY <1>3, CurrentClaimed DEF IInv, Sync, Syncing, Working
  <2>2. worker.hvpa \in Hvpa
    BY <1>3 DEF IInv, TypeOK, Sync, Syncing
  <2>3. Synced(Current) \in Objects /\ Touches(Synced(Current))
    BY <2>1, <2>2, SyncTouches
  <2>4. CASE children' = Synced(Current) /\ Advance /\ NoFault
    <3>1. WorkerAfter(worker')
      BY <1>3, <2>4, AdvanceAfter DEF Sync, Syncing
    <3> QED
      BY <2>3, <2>4, <3>1, NoFaultOK DEF StepOK
  <2>5. CASE Fault(Synced(Current)) /\ worker' = Idle
    BY <2>3, <2>5, FaultOK, IdleAfter DEF StepOK
  <2> QED
    BY <1>3, <2>4, <2>5 DEF Sync
<1>4. ASSUME GiveUpSync
      PROVE  StepOK
  BY <1>4, WritesNothing, IdleAfter DEF GiveUpSync, StepOK, IInv, TypeOK
<1>5. ASSUME EndSync
      PROVE  StepOK
  <2>1. WorkerAfter([worker EXCEPT !.pc = "prune", !.next = 2])
    <3>1. worker.pc = "sync" /\ Len(worker.claimed) > 0
      BY <1>5 DEF EndSync, IInv, WorkerOK
    <3>2. 2 \in Nat \ {0}
      OBVIOUS
    <3>3. \A next \in Nat \ {0} : WorkerAfter([worker EXCEPT !.pc = "prune", !.next = next])
      BY <3>1, MovedAfter
    <3> QED
      BY <3>2, <3>3
  <2> QED
    BY <1>5, <2>1, WritesNothing, NoFaultOK DEF EndSync, StepOK
<1>6. ASSUME Prune
      PROVE  StepOK
  <2>1. Current \in Children /\ Entitled(worker, Current) /\ Working(worker)
    BY <1>6, CurrentClaimed DEF IInv, Prune, Pruning, Working
  <2>2. WorkerAfter(worker')
    BY <1>6, AdvanceAfter DEF Prune, Pruning
  <2>3. Deleted(Current) \in Objects /\ Touches(Deleted(Current))
    BY <2>1, DeleteTouches
  <2> QED
    BY <1>6, <2>2, <2>3, NoFaultOK, FaultOK DEF Prune, StepOK
<1>7. ASSUME EndPrune
      PROVE  StepOK
  <2>1. WorkerAfter([worker EXCEPT !.pc = "settle"])
    <3>1. [worker EXCEPT !.pc = "settle"]
            = [worker EXCEPT !.pc = "settle", !.next = worker.next]
          /\ worker.next \in Nat \ {0}
      BY DEF IInv, TypeOK, Worker
    <3> QED
      BY <1>7, <3>1, MovedAfter DEF EndPrune, IInv, WorkerOK
  <2> QED
    BY <1>7, <2>1, IdleAfter, WritesNothing, NoFaultOK DEF EndPrune, StepOK
<1>8. ASSUME DeleteUnwanted
      PROVE  StepOK
  <2>1. /\ worker.claimed[1] \in Children /\ Entitled(worker, worker.claimed[1])
        /\ Working(worker)
    BY <1>8, FirstClaimed DEF IInv, DeleteUnwanted, Working
  <2>2. /\ Deleted(worker.claimed[1]) \in Objects
        /\ Touches(Deleted(worker.claimed[1]))
    BY <2>1, DeleteTouches
  <2> QED
    BY <1>8, <2>2, IdleAfter, NoFaultOK, FaultOK DEF DeleteUnwanted, StepOK
<1>9. ASSUME Create
      PROVE  StepOK
  <2>1. PICK c \in Children :
          /\ children[c] = Nil /\ cachedChildren[c] = Nil /\ worker.list[c] = Nil
          /\ \/ children' = [children EXCEPT ![c] = New] /\ NoFault
             \/ Fault([children EXCEPT ![c] = New])
    BY <1>9 DEF Create
  <2> DEFINE effect == [children EXCEPT ![c] = New]
  <2>2. worker.hvpa \in Hvpa /\ worker' = Idle
    BY <1>9 DEF IInv, TypeOK, Create
  <2>3. effect \in Objects
    BY <2>2, CreatedType DEF IInv
  <2>4. Touches(effect)
    BY <2>1, <2>3, WritesOne DEF MayBecome, Strangers
  <2> HIDE DEF effect
  <2>5. (children' = effect /\ NoFault) \/ Fault(effect)
    BY <2>1 DEF effect
  <2> QED
    BY <2>2, <2>3, <2>4, <2>5, IdleAfter, NoFaultOK, FaultOK DEF StepOK
<1>10. ASSUME OutOfNames
       PROVE  StepOK
  BY <1>10, WritesNothing, IdleAfter DEF OutOfNames, StepOK, IInv, TypeOK
<1>11. ASSUME CreateNone
       PROVE  StepOK
  BY <1>11, WritesNothing, NoFaultOK, IdleAfter DEF CreateNone, StepOK
<1> QED
  BY <1>1, <1>2, <1>3, <1>4, <1>5, <1>6, <1>7, <1>8, <1>9, <1>10, <1>11 DEF SettleStep

LEMMA ListOK ==
    ASSUME IInv, List
    PROVE  StepOK
<1> DEFINE todo == {c \in Children : cachedChildren[c] # Nil}
           w == [Idle EXCEPT !.pc = "claim", !.hvpa = cachedHvpa,
                             !.list = cachedChildren, !.todo = todo]
<1>1. cachedHvpa \in Hvpa /\ cachedChildren \in Objects
  BY DEF IInv, TypeOK, List
<1>2. w \in Worker
  BY <1>1, IdleType DEF Worker
<1>3. /\ w.pc = "claim" /\ w.hvpa = cachedHvpa /\ w.list = cachedChildren
      /\ w.todo = todo /\ w.claimed = << >>
  BY DEF Idle
<1> HIDE DEF w
<1>4. WorkerAfter(w)
  BY <1>1, <1>2, <1>3 DEF WorkerAfter, Working, List
<1>5. worker' = w
  BY DEF List, w
<1>6. faults' \in 0..MaxFaults /\ pass' \subseteq {"disturbed", "faulty"}
  BY DEF IInv, TypeOK, List
<1> QED
  BY <1>4, <1>5, <1>6, WritesNothing DEF StepOK, List

LEMMA ReconcileStepOK ==
    ASSUME IInv, ReconcileStep
    PROVE  StepOK
BY ListOK, ClaimStepOK, SettleStepOK DEF ReconcileStep, Reconcile

-----------------------------------------------------------------------------
(* Everyone else. *)

LEMMA OthersType ==
    ASSUME TypeOK, Others
    PROVE  /\ hvpa' \in Hvpa \union {Nil} /\ children' \in Objects
           /\ edits' \in 0..MaxEdits
<1>1. Edit => edits' \in 0..MaxEdits
  BY ClaimAssumption DEF TypeOK, Edit
<1>2. CASE EditHvpa \/ DeleteHvpa \/ FinalizeHvpa \/ RecreateHvpa
  <2>1. hvpa' \in Hvpa \union {Nil}
    BY <1>2 DEF TypeOK, EditHvpa, DeleteHvpa, FinalizeHvpa, RecreateHvpa, Hvpa
  <2> QED
    BY <1>1, <1>2, <2>1 DEF TypeOK, EditHvpa, DeleteHvpa, FinalizeHvpa, RecreateHvpa
<1>3. ASSUME NEW c \in Children, UserCreates(c)
      PROVE  hvpa' = hvpa /\ children' \in Objects /\ edits' \in 0..MaxEdits
  BY <1>1, <1>3 DEF UserCreates, TypeOK, Objects
<1>4. ASSUME NEW c \in Children, UserRelabels(c)
      PROVE  hvpa' = hvpa /\ children' \in Objects /\ edits' \in 0..MaxEdits
  <2>1. PICK label \in Labels : children' = [children EXCEPT ![c].label = label]
    BY <1>4 DEF UserRelabels
  <2>2. children[c] \in Child
    BY <1>4 DEF UserRelabels, TypeOK, Objects
  <2>3. [children[c] EXCEPT !.label = label] \in Child
    BY <2>2 DEF Child
  <2>4. children' \in Objects
    BY <2>1, <2>3 DEF TypeOK, Objects
  <2> QED
    BY <1>1, <1>4, <2>4 DEF UserRelabels
<1>5. ASSUME NEW c \in Children, UserDeletes(c)
      PROVE  hvpa' = hvpa /\ children' \in Objects /\ edits' \in 0..MaxEdits
  <2>1. [children[c] EXCEPT !.deleting = TRUE] \in Child
    BY <1>5 DEF UserDeletes, TypeOK, Objects, Child
  <2>2. children' \in Objects
    BY <1>5, <2>1 DEF UserDeletes, TypeOK, Objects
  <2> QED
    BY <1>1, <1>5, <2>2 DEF UserDeletes
<1>6. ASSUME NEW c \in Children, RivalAdopts(c)
      PROVE  hvpa' = hvpa /\ children' \in Objects /\ edits' \in 0..MaxEdits
  <2>1. [children[c] EXCEPT !.owner = Rival] \in Child
    BY <1>6 DEF RivalAdopts, TypeOK, Objects, Child
  <2>2. children' \in Objects
    BY <1>6, <2>1 DEF RivalAdopts, TypeOK, Objects
  <2> QED
    BY <1>1, <1>6, <2>2 DEF RivalAdopts
<1>7. ASSUME NEW c \in Children, Finalize(c) \/ CollectGarbage(c)
      PROVE  hvpa' = hvpa /\ children' \in Objects /\ edits' \in 0..MaxEdits
  BY <1>7 DEF Finalize, CollectGarbage, TypeOK, Objects
<1> QED
  BY <1>2, <1>3, <1>4, <1>5, <1>6, <1>7 DEF Others, TypeOK

LEMMA WorkerStays ==
    ASSUME IInv, UNCHANGED worker
    PROVE  WorkerAfter(worker')
BY DEF IInv, TypeOK, WorkerOK, WorkerAfter, Working, Entitled

-----------------------------------------------------------------------------
(* The inductive invariant. *)

\* Copies taken now say what is so; they go on saying it when the worker has
\* written, and of what the others leave alone when the others have.
LEMMA CurrentView ==
    ASSUME NEW objects, NEW changed
    PROVE  View(objects, changed, objects)
BY DEF View

LEMMA ViewAfterWorker ==
    ASSUME NEW copies, NEW changed, View(copies, changed, children), Touches(children'),
           copies \in {cachedChildren, worker.list}
    PROVE  View(copies, changed, children')
BY DEF View, Touches, MayBecome

LEMMA ViewAfterOthers ==
    ASSUME NEW copies, NEW changed, View(copies, changed, children)
    PROVE  View(copies, changed \union Changed, children')
BY DEF View, Changed

LEMMA InitOK == Init => IInv
<1> SUFFICES ASSUME Init PROVE IInv
  OBVIOUS
<1>1. hvpa \in Hvpa /\ children \in Objects
  BY DEF Init
<1>2. worker \in Worker /\ worker.pc = "idle" /\ worker.todo = {} /\ worker.claimed = << >>
  BY IdleType DEF Init, Idle
<1>3. TypeOK
  BY <1>1, <1>2, ClaimAssumption DEF Init, TypeOK
<1>4. WorkerOK
  BY <1>2 DEF WorkerOK
<1>5. Provenance
  BY <1>2, CurrentView DEF Init, Provenance, Working
<1> QED
  BY <1>3, <1>4, <1>5 DEF IInv

LEMMA ReconcileKeeps ==
    ASSUME IInv, ReconcileStep
    PROVE  IInv'
<1>1. StepOK
  BY ReconcileStepOK
<1>2. /\ outdated \subseteq Children /\ overtaken \subseteq Children
      /\ overtaken' = IF ~Working(worker') THEN {}
                      ELSE IF Working(worker) THEN overtaken ELSE outdated
      /\ UNCHANGED <<hvpa, cachedHvpa, cachedChildren, edits, outdated>>
      /\ fresh' \subseteq Children
  BY DEF ReconcileStep, Written, IInv, TypeOK
<1>3. TypeOK'
  BY <1>1, <1>2 DEF StepOK, WorkerAfter, IInv, TypeOK
<1>4. WorkerOK'
  BY <1>1 DEF StepOK, WorkerAfter, WorkerOK
<1>5. View(cachedChildren, outdated, children')
  BY <1>1, ViewAfterWorker DEF StepOK, IInv, Provenance
<1>6. Working(worker') => View(worker'.list, overtaken', children')
  <2>1. CASE Working(worker)
    <3>1. View(worker.list, overtaken, children')
      BY <1>1, <2>1, ViewAfterWorker DEF StepOK, IInv, Provenance
    <3> QED
      BY <1>1, <1>2, <2>1, <3>1 DEF StepOK, WorkerAfter
  <2>2. CASE ~Working(worker)
    BY <1>1, <1>2, <1>5, <2>2 DEF StepOK, WorkerAfter
  <2> QED
    BY <2>1, <2>2
<1>7. Provenance'
  BY <1>2, <1>5, <1>6 DEF Provenance, Working
<1> QED
  BY <1>3, <1>4, <1>7 DEF IInv

LEMMA OthersKeep ==
    ASSUME IInv, OthersStep
    PROVE  IInv'
<1>1. /\ hvpa' \in Hvpa \union {Nil} /\ children' \in Objects
      /\ edits' \in 0..MaxEdits
  BY OthersType DEF OthersStep, IInv
<1>2. /\ outdated' = outdated \union Changed
      /\ overtaken' = IF Working(worker) THEN overtaken \union Changed ELSE {}
      /\ UNCHANGED <<cachedHvpa, cachedChildren, worker, faults>>
      /\ fresh' \subseteq Children /\ pass' \subseteq {"disturbed", "faulty"}
      /\ Changed \subseteq Children
  BY DEF OthersStep, Written, Changed, IInv, TypeOK
<1>3. TypeOK'
  BY <1>1, <1>2 DEF IInv, TypeOK
<1>4. WorkerOK'
  BY <1>2 DEF IInv, WorkerOK, Entitled
<1>5. View(cachedChildren, outdated \union Changed, children')
  BY ViewAfterOthers DEF IInv, Provenance
<1>6. Working(worker) => View(worker.list, overtaken \union Changed, children')
  BY ViewAfterOthers DEF IInv, Provenance
<1>7. Provenance'
  BY <1>2, <1>5, <1>6 DEF Provenance, Working
<1> QED
  BY <1>3, <1>4, <1>7 DEF IInv

LEMMA StepKeeps ==
    ASSUME IInv, Next
    PROVE  IInv'
<1>1. CASE RefreshHvpa
  <2>1. TypeOK'
    BY <1>1 DEF RefreshHvpa, apiVars, histVars, IInv, TypeOK
  <2> QED
    BY <1>1, <2>1 DEF RefreshHvpa, apiVars, histVars, IInv, WorkerOK, Provenance,
       Entitled, Working
<1>2. CASE RefreshChildren
  <2>1. TypeOK'
    BY <1>2 DEF RefreshChildren, apiVars, IInv, TypeOK
  <2>2. WorkerOK'
    BY <1>2 DEF RefreshChildren, IInv, WorkerOK, Entitled
  <2>3. Provenance'
    BY <1>2, CurrentView DEF RefreshChildren, apiVars, IInv, Provenance, Working
  <2> QED
    BY <2>1, <2>2, <2>3 DEF IInv
<1>3. CASE Restart
  <2>1. Restarted /\ faults' \in 0..MaxFaults
    BY <1>3, ClaimAssumption DEF Restart, IInv, TypeOK
  <2>2. worker' \in Worker /\ worker'.pc = "idle" /\ worker'.todo = {}
        /\ worker'.claimed = << >>
    BY <2>1, IdleType DEF Restarted, Idle
  <2>3. TypeOK'
    BY <2>1, <2>2 DEF Restarted, apiVars, IInv, TypeOK
  <2>4. WorkerOK'
    BY <2>2 DEF WorkerOK
  <2>5. Provenance'
    BY <2>1, <2>2, CurrentView DEF Restarted, apiVars, Provenance, Working
  <2> QED
    BY <2>3, <2>4, <2>5 DEF IInv
<1> QED
  BY <1>1, <1>2, <1>3, ReconcileKeeps, OthersKeep DEF Next

LEMMA StutterKeeps ==
    ASSUME IInv, UNCHANGED vars
    PROVE  IInv'
BY DEF IInv, TypeOK, WorkerOK, Provenance, View, Entitled, Working,
       vars, apiVars, cacheVars, histVars

\* Types are kept; the worker claims only what it was entitled to by the copy it
\* was given; and a copy, however old, is right about the labels of an object and
\* about its being no rival's, unless others have changed the object since.
THEOREM Invariance == Spec => []IInv
<1>1. Init => IInv
  BY InitOK
<1>2. IInv /\ [Next]_vars => IInv'
  BY StepKeeps, StutterKeeps
<1> QED
  BY <1>1, <1>2, PTL DEF Spec

\* Every state of the claim protocol is of the declared types.
THEOREM TypeCorrect == Spec => []TypeOK
<1>1. IInv => TypeOK
  BY DEF IInv
<1> QED
  BY <1>1, Invariance, PTL

\* reconcileHpa and reconcileVpa take, change or delete a stranger's object only
\* if others have changed that object after the copy was taken on which the claim
\* was decided: never by the staleness of a copy towards the controller's own
\* writes, by a failed call, a restart, an edit of the HVPA or a new incarnation.
THEOREM StrangersAreSafe == Spec => StrangersOnlyOvertaken
<1>1. ASSUME IInv, ReconcileStep, NEW c \in Changed, Strangers(c)
      PROVE  c \in overtaken \/ RepeatsRelease(c)
  <2>1. c \in Children /\ children'[c] # children[c]
    BY <1>1 DEF Changed
  <2>2. MayBecome(c, children'[c])
    BY <1>1, <2>1, ReconcileStepOK DEF StepOK, Touches
  <2> QED
    BY <1>1, <2>2 DEF MayBecome, RepeatsRelease
<1>2. IInv /\ [Next]_vars =>
        [ReconcileStep => \A c \in Changed :
           Strangers(c) => c \in overtaken \/ RepeatsRelease(c)]_vars
  BY <1>1
<1> QED
  BY <1>2, Invariance, PTL DEF Spec, StrangersOnlyOvertaken

-----------------------------------------------------------------------------
(* The claim of an undisturbed reconcile.  While nobody else interferes,   *)
(* the objects not claimed yet are as they were listed, and the others are *)
(* as ClaimObject left them.                                               *)

Mine(c)      == children[c] # Nil /\ children[c].owner = worker.hvpa.uid
Adoptable(c) == /\ children[c] # Nil /\ children[c].owner = Nil
                /\ children[c].label = worker.hvpa.selector /\ ~children[c].deleting

ClaimProgress ==
    worker.pc = "claim" /\ "disturbed" \notin pass =>
      /\ ~worker.hvpa.deleting
      /\ \A c \in Children : c \in worker.todo \/ worker.list[c] = Nil =>
                             children[c] = worker.list[c]
      /\ \A i \in 1..Len(worker.claimed) : worker.claimed[i] \notin worker.todo
      /\ \A i \in 1..Len(worker.claimed) :
           /\ Mine(worker.claimed[i])
           /\ children[worker.claimed[i]].label = worker.hvpa.selector
      /\ \A c \in Children \ worker.todo :
           ~worker.failed /\ (Mine(c) \/ Adoptable(c)) => c \in ClaimedSet

\* One object is dealt with; the others stay as they are.
LEMMA ClaimOne ==
    ASSUME IInv, ClaimProgress, worker.pc = "claim", NEW c \in worker.todo,
           "disturbed" \notin pass,
           \A d \in Children \ {c} : children'[d] = children[d],
           NEW claimed \in BOOLEAN,
           worker'.pc = "claim", worker'.hvpa = worker.hvpa, worker'.list = worker.list,
           worker'.todo = worker.todo \ {c},
           worker'.claimed = IF claimed THEN Append(worker.claimed, c) ELSE worker.claimed,
           ~worker'.failed => ~worker.failed,
           claimed => Mine(c)' /\ children'[c].label = worker.hvpa.selector,
           worker'.failed \/ claimed \/ ~(Mine(c)' \/ Adoptable(c)')
    PROVE  ClaimProgress'
<1>1. /\ worker.claimed \in Seq(Children) /\ c \in Children /\ worker.todo \subseteq Children
      /\ worker.list[c] # Nil
  BY DEF IInv, TypeOK, Worker, WorkerOK
<1>2. \A d \in Children : d \in worker'.todo \/ worker'.list[d] = Nil =>
                         children'[d] = worker'.list[d]
  BY <1>1 DEF ClaimProgress
<1>3. \A i \in 1..Len(worker.claimed) :
        /\ worker.claimed[i] \in Children \ {c} /\ worker.claimed[i] \notin worker.todo
        /\ Mine(worker.claimed[i])
        /\ children[worker.claimed[i]].label = worker.hvpa.selector
  BY <1>1 DEF ClaimProgress
<1>4. \A i \in 1..Len(worker'.claimed) :
        \/ i \in 1..Len(worker.claimed) /\ worker'.claimed[i] = worker.claimed[i]
        \/ claimed /\ worker'.claimed[i] = c
  <2>1. CASE claimed
    BY <1>1, <2>1
  <2>2. CASE ~claimed
    BY <2>2
  <2> QED
    BY <2>1, <2>2
<1>5. \A i \in 1..Len(worker'.claimed) :
        /\ worker'.claimed[i] \notin worker'.todo
        /\ Mine(worker.claimed[i])'
        /\ children'[worker'.claimed[i]].label = worker'.hvpa.selector
  BY <1>1, <1>3, <1>4 DEF Mine
<1>6. ClaimedSet \subseteq ClaimedSet' /\ (claimed => c \in ClaimedSet')
  <2>1. CASE claimed
    <3>1. /\ Len(worker'.claimed) = Len(worker.claimed) + 1
          /\ worker'.claimed[Len(worker.claimed) + 1] = c
          /\ \A i \in 1..Len(worker.claimed) : worker'.claimed[i] = worker.claimed[i]
          /\ Len(worker.claimed) \in Nat
      BY <1>1, <2>1
    <3> QED
      BY <3>1 DEF ClaimedSet
  <2>2. CASE ~claimed
    BY <2>2 DEF ClaimedSet
  <2> QED
    BY <2>1, <2>2
<1>7. ASSUME NEW d \in Children \ worker'.todo, ~worker'.failed,
             Mine(d)' \/ Adoptable(d)'
      PROVE  d \in ClaimedSet'
  <2>1. CASE d = c
    BY <2>1, <1>6, <1>7
  <2>2. CASE d # c
    <3>1. d \in Children \ worker.todo /\ (Mine(d) \/ Adoptable(d))
      BY <1>7, <2>2 DEF Mine, Adoptable
    <3>2. d \in ClaimedSet
      BY <1>7, <3>1 DEF ClaimProgress
    <3> QED
      BY <3>2, <1>6
  <2> QED
    BY <2>1, <2>2
<1> QED
  BY <1>2, <1>5, <1>7 DEF ClaimProgress

\* With autoscaling/v2 a failed release passes for a good one.
LEMMA ClaimStepProgress ==
    ASSUME ~AutoscalingV2, IInv, ClaimProgress, ClaimStep,
           "disturbed" \notin pass', worker'.pc = "claim"
    PROVE  ClaimProgress'
<1>1. /\ worker \in Worker /\ worker.pc = "claim" /\ worker.hvpa \in Hvpa
      /\ "disturbed" \notin pass
  BY DEF IInv, TypeOK, ClaimStep, ClaimOwned, Ignore, Release, Adopt, RefuseAdoption,
         Claims, EndClaim, NoFault, Fault
<1>2. PICK c \in Children : \/ ClaimOwned(c) \/ Ignore(c) \/ Release(c)
                            \/ Adopt(c) \/ RefuseAdoption(c)
  <2>1. EndClaim => worker'.pc \in {"idle", "create", "sync"}
    BY <1>1 DEF EndClaim, Idle, Worker
  <2> QED
    BY <2>1, Zenon DEF ClaimStep
<1> DEFINE copy == worker.list[c]
           h == worker.hvpa
<1>3. /\ c \in worker.todo /\ children[c] = copy /\ copy \in Child /\ copy # Nil
      /\ h.uid \in Uids /\ h.uid # Nil
  <2>1. c \in worker.todo
    BY <1>2 DEF ClaimOwned, Ignore, Release, Adopt, RefuseAdoption, Claims
  <2>2. children[c] = copy /\ copy \in Child /\ copy # Nil
    BY <1>1, <2>1 DEF ClaimProgress, IInv, WorkerOK, TypeOK, Objects
  <2> QED
    BY <1>1, <2>1, <2>2, NilIsNoRecord DEF Hvpa
<1>4. \A w \in {worker, [worker EXCEPT !.recheck = Recheck], [worker EXCEPT !.recheck = "refused"]} :
        /\ Claimed(c, w).pc = "claim" /\ Claimed(c, w).hvpa = h
        /\ Claimed(c, w).list = worker.list /\ Claimed(c, w).todo = worker.todo \ {c}
        /\ Claimed(c, w).claimed = Append(worker.claimed, c)
        /\ Claimed(c, w).failed = worker.failed
        /\ Passed(c, w).pc = "claim" /\ Passed(c, w).hvpa = h
        /\ Passed(c, w).list = worker.list /\ Passed(c, w).todo = worker.todo \ {c}
        /\ Passed(c, w).claimed = worker.claimed
        /\ Passed(c, w).failed = worker.failed
        /\ Failed(c, w).pc = "claim" /\ Failed(c, w).hvpa = h
        /\ Failed(c, w).list = worker.list /\ Failed(c, w).todo = worker.todo \ {c}
        /\ Failed(c, w).claimed = worker.claimed
        /\ Failed(c, w).failed = TRUE
  BY <1>1 DEF Claimed, Passed, Failed, Worker
<1>5. CASE ClaimOwned(c)
  <2>1. Mine(c)' /\ children'[c].label = h.selector
    BY <1>3, <1>4, <1>5 DEF ClaimOwned, Claims, Verdict, Mine
  <2> QED
    BY <1>1, <1>3, <1>4, <1>5, <2>1, ClaimOne DEF ClaimOwned
<1>6. CASE Ignore(c)
  <2>1. ~(Mine(c)' \/ Adoptable(c)')
    <3>1. ~h.deleting
      BY <1>1 DEF ClaimProgress
    <3> QED
      BY <3>1, <1>1, <1>3, <1>4, <1>6 DEF Ignore, Claims, Verdict, Mine, Adoptable, Child, Hvpa
  <2> QED
    BY <1>1, <1>3, <1>4, <1>6, <2>1, ClaimOne DEF Ignore
<1>7. ASSUME NEW owner \in Uids \union {Nil}
      PROVE  /\ Patched(c, owner)[c].owner = owner
             /\ Patched(c, owner)[c].label = copy.label
             /\ Patched(c, owner)[c] # Nil
             /\ \A d \in Children \ {c} : Patched(c, owner)[d] = children[d]
  <2> DEFINE object == [children[c] EXCEPT !.owner = owner, !.spec = children[c].spec]
  <2>1. object \in Child /\ object.owner = owner /\ object.label = copy.label
    BY <1>3 DEF Child
  <2> HIDE DEF object
  <2>2. Patched(c, owner) = [children EXCEPT ![c] = object]
    BY DEF Patched, object
  <2> QED
    BY <2>1, <2>2, NilAssumption DEF IInv, TypeOK, Objects
<1>8. CASE Release(c)
  <2>1. CASE children' = Patched(c, Nil) /\ worker' = Passed(c, worker)
    <3>1. copy.label # h.selector
      BY <1>8 DEF Release, Claims, Verdict
    <3>2. ~(Mine(c)' \/ Adoptable(c)')
      BY <1>3, <1>4, <1>7, <2>1, <3>1 DEF Mine, Adoptable
    <3> QED
      BY <1>1, <1>3, <1>4, <1>7, <2>1, <3>2, ClaimOne
  <2>2. CASE children' \in {children, Patched(c, Nil)} /\ worker' = Failed(c, worker)
    <3>1. /\ worker'.hvpa = h /\ worker'.list = worker.list
          /\ worker'.todo = worker.todo \ {c} /\ worker'.claimed = worker.claimed
          /\ worker'.failed
      BY <1>4, <2>2
    <3>2. \A d \in Children \ {c} : children'[d] = children[d]
      BY <1>7, <2>2
    <3> QED
      BY <1>1, <1>3, <3>1, <3>2, ClaimOne
  <2> QED
    BY <1>3, <1>8, <2>1, <2>2, Zenon DEF Release, Fault
<1>9. CASE Adopt(c)
  <2> DEFINE w == [worker EXCEPT !.recheck = Recheck]
  <2>1. CASE children' = Patched(c, h.uid) /\ worker' = Claimed(c, w)
    <3>1. copy.label = h.selector
      BY <1>3, <1>9 DEF Adopt, Claims, Verdict
    <3>2. Mine(c)' /\ children'[c].label = h.selector
      BY <1>3, <1>4, <1>7, <2>1, <3>1 DEF Mine
    <3>3. /\ worker'.hvpa = h /\ worker'.list = worker.list
          /\ worker'.todo = worker.todo \ {c}
          /\ worker'.claimed = Append(worker.claimed, c)
          /\ worker'.failed = worker.failed
      BY <1>4, <2>1
    <3>4. \A d \in Children \ {c} : children'[d] = children[d]
      BY <1>3, <1>7, <2>1
    <3> QED
      BY <1>1, <1>3, <3>2, <3>3, <3>4, ClaimOne
  <2>2. CASE children' \in {children, Patched(c, h.uid)} /\ worker' = Failed(c, w)
    <3>1. /\ worker'.hvpa = h /\ worker'.list = worker.list
          /\ worker'.todo = worker.todo \ {c} /\ worker'.claimed = worker.claimed
          /\ worker'.failed
      BY <1>4, <2>2
    <3>2. \A d \in Children \ {c} : children'[d] = children[d]
      BY <1>3, <1>7, <2>2
    <3> QED
      BY <1>1, <1>3, <3>1, <3>2, ClaimOne
  <2> QED
    BY <1>3, <1>9, <2>1, <2>2, Zenon DEF Adopt, Fault
<1>10. CASE RefuseAdoption(c)
  BY <1>1, <1>3, <1>4, <1>10, ClaimOne DEF RefuseAdoption
<1> QED
  BY <1>2, <1>5, <1>6, <1>8, <1>9, <1>10

LEMMA ProgressInit == Init => ClaimProgress
BY DEF Init, Idle, ClaimProgress

LEMMA ProgressStep ==
    ASSUME ~AutoscalingV2, IInv, ClaimProgress, [Next]_vars
    PROVE  ClaimProgress'
<1>1. CASE ReconcileStep
  <2>1. CASE List
    <3>1. /\ worker'.list = cachedChildren /\ worker'.claimed = << >>
          /\ worker'.todo = {c \in Children : cachedChildren[c] # Nil}
          /\ worker'.hvpa = cachedHvpa /\ ~cachedHvpa.deleting
          /\ children' = children
          /\ "disturbed" \notin pass' => cachedChildren = children
      BY <2>1 DEF List, Idle, ListIsCurrent
    <3> QED
      BY <3>1 DEF ClaimProgress, Mine, Adoptable
  <2>2. CASE ClaimStep
    BY <2>2, ClaimStepProgress DEF ClaimProgress
  <2>3. CASE SettleStep
    <3>1. worker.pc # "claim" /\ worker \in Worker
      BY <2>3 DEF SettleStep, Panic, SkipSync, Sync, GiveUpSync, EndSync, Syncing, Prune,
           Pruning, EndPrune, DeleteUnwanted, Create, OutOfNames, CreateNone, IInv, TypeOK
    <3>2. Idle.pc = "idle" /\ [Idle EXCEPT !.pc = "panicked"].pc = "panicked"
      BY DEF Idle
    <3>3. Advance => worker'.pc = worker.pc
      BY <3>1 DEF Advance, Worker
    <3>4. /\ [worker EXCEPT !.pc = "prune", !.next = 2].pc = "prune"
          /\ [worker EXCEPT !.pc = "settle"].pc = "settle"
      BY <3>1 DEF Worker
    <3>5. \/ worker' \in {Idle, [Idle EXCEPT !.pc = "panicked"],
                         [worker EXCEPT !.pc = "prune", !.next = 2],
                         [worker EXCEPT !.pc = "settle"]}
          \/ Advance
      BY <2>3, Zenon DEF SettleStep, Panic, SkipSync, Sync, GiveUpSync, EndSync, Prune,
           EndPrune, DeleteUnwanted, Create, OutOfNames, CreateNone
    <3> QED
      BY <3>1, <3>2, <3>3, <3>4, <3>5 DEF ClaimProgress
  <2> QED
    BY <1>1, <2>1, <2>2, <2>3 DEF ReconcileStep, Reconcile
<1>2. CASE OthersStep
  BY <1>2 DEF OthersStep, ClaimProgress
<1>3. CASE RefreshHvpa \/ RefreshChildren \/ UNCHANGED vars
  BY <1>3 DEF RefreshHvpa, RefreshChildren, vars, apiVars, histVars, ClaimProgress, ClaimedSet,
     Mine, Adoptable
<1>4. CASE Restart
  BY <1>4 DEF Restart, Restarted, Idle, ClaimProgress
<1> QED
  BY <1>1, <1>2, <1>3, <1>4 DEF Next

\* Without autoscaling/v2, ClaimHpas and ClaimVpas keep their word: a claim that
\* nobody disturbs and that returns no error has released what no longer matches,
\* adopted every matching orphan, and returns exactly what the HVPA now owns.
THEOREM ClaimsKeepTheirWord ==
    ASSUME ~AutoscalingV2
    PROVE  Spec => ClaimsAsDocumented
<1>1. Init => ClaimProgress
  BY ProgressInit
<1>2. IInv /\ ClaimProgress /\ [Next]_vars => ClaimProgress'
  BY ProgressStep
<1>3. IInv /\ ClaimProgress /\ [Next]_vars =>
        [(/\ worker.pc = "claim" /\ worker'.pc \in {"sync", "create"}
          /\ "disturbed" \notin pass)
         => /\ OwnedBy(worker.hvpa, children) = ClaimedSet
            /\ \A c \in ClaimedSet : children[c].label = worker.hvpa.selector
            /\ Orphans(worker.hvpa, children) = {}]_vars
  <2> SUFFICES ASSUME IInv, ClaimProgress, [Next]_vars, ~UNCHANGED vars,
                      worker.pc = "claim", worker'.pc \in {"sync", "create"},
                      "disturbed" \notin pass
               PROVE  /\ OwnedBy(worker.hvpa, children) = ClaimedSet
                      /\ \A c \in ClaimedSet : children[c].label = worker.hvpa.selector
                      /\ Orphans(worker.hvpa, children) = {}
    BY Zenon
  <2>1. worker \in Worker
    BY DEF IInv, TypeOK
  <2>2. worker.todo = {} /\ ~worker.failed
    <3>1. EndClaim
      <4>1. worker' # worker
        OBVIOUS
      <4>2. ~OthersStep /\ ~RefreshHvpa /\ ~RefreshChildren /\ ~Restart
        BY <4>1 DEF OthersStep, RefreshHvpa, RefreshChildren, Restart, Restarted, Idle
      <4>3. ~List /\ ~SettleStep
        BY DEF List, SettleStep, Panic, SkipSync, Sync, GiveUpSync, EndSync, Syncing, Prune,
           Pruning, EndPrune, DeleteUnwanted, Create, OutOfNames, CreateNone
      <4>4. \A c \in Children : /\ ~ClaimOwned(c) /\ ~Ignore(c) /\ ~Release(c)
                               /\ ~Adopt(c) /\ ~RefuseAdoption(c)
        <5> DEFINE w == [worker EXCEPT !.recheck = Recheck]
                   refused == [worker EXCEPT !.recheck = "refused"]
        <5>1. w.pc = "claim" /\ refused.pc = "claim"
          BY <2>1 DEF Worker
        <5>2. \A c \in Children : \A v \in {worker, w, refused} :
                v.pc = "claim" =>
                /\ Claimed(c, v).pc = "claim" /\ Passed(c, v).pc = "claim"
                /\ Failed(c, v).pc = "claim"
          BY <2>1 DEF Worker, Claimed, Passed, Failed
        <5>3. \A c \in Children :
                ClaimOwned(c) \/ Ignore(c) \/ Release(c) \/ Adopt(c) \/ RefuseAdoption(c)
                => \E v \in {worker, w, refused} :
                     worker' \in {Claimed(c, v), Passed(c, v), Failed(c, v)}
          BY Zenon DEF ClaimOwned, Ignore, Release, Adopt, RefuseAdoption
        <5> HIDE DEF w, refused
        <5> QED
          BY <5>1, <5>2, <5>3
      <4> QED
        BY <4>2, <4>3, <4>4 DEF Next, ReconcileStep, Reconcile, ClaimStep
    <3> QED
      BY <3>1, <2>1 DEF EndClaim, Idle, Worker
  <2>3. \A c \in Children : Mine(c) \/ Adoptable(c) => c \in ClaimedSet
    BY <2>2 DEF ClaimProgress
  <2>4. \A c \in ClaimedSet : /\ c \in Children /\ Mine(c)
                              /\ children[c].label = worker.hvpa.selector
    BY <2>1 DEF ClaimProgress, ClaimedSet, Worker
  <2>5. worker.hvpa.uid # Nil
    BY NilIsNoRecord DEF IInv, TypeOK, Hvpa
  <2>6. \A c \in Children : ~Adoptable(c)
    BY <2>3, <2>4, <2>5 DEF Mine, Adoptable
  <2> QED
    BY <2>3, <2>4, <2>6 DEF Mine, Adoptable, OwnedBy, Orphans
<1> QED
  BY <1>1, <1>2, <1>3, Invariance, PTL DEF Spec, ClaimsAsDocumented
=============================================================================
