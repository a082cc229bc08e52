--------------------------- MODULE ChildPassProofs ---------------------------
(***************************************************************************)
(* One whole pass of reconcileHpa or reconcileVpa that nobody disturbs and *)
(* of which no call fails, from the list to the end: it settles the        *)
(* children of the HVPA, for every set of names, labels and specs.         *)
(***************************************************************************)
EXTENDS ChildClaimProofs

-----------------------------------------------------------------------------
(* The inductive invariant of such a pass: what each phase has done and    *)
(* what it leaves to the next.                                             *)

\* Claimed and as the claim left it, or given away.
Kept(c) == /\ children[c] # Nil /\ children[c].owner = worker.hvpa.uid
           /\ children[c].label = worker.hvpa.selector
Gone(c) == children[c] = Nil \/ children[c].deleting

Listed(c) == children[c].spec = worker.list[c].spec
InShape(c) == children[c].spec = worker.hvpa.template

\* The instance is the stored one, and no call has failed.
Undisturbed ==
    /\ hvpa = worker.hvpa /\ cachedHvpa = worker.hvpa /\ ~worker.hvpa.deleting
    /\ worker.recheck # "refused" /\ ~worker.failed

\* What has been claimed is all there is of the HVPA's, each object once.
Inventory ==
    /\ \A i, j \in 1..Len(worker.claimed) :
         worker.claimed[i] = worker.claimed[j] => i = j
    /\ \A i \in 1..Len(worker.claimed) : worker.claimed[i] \notin worker.todo
    /\ \A c \in Children \ worker.todo :
         /\ Mine(c) \/ Adoptable(c) => c \in ClaimedSet
         /\ Mine(c) => children[c].label = worker.hvpa.selector

\* How far the work has come.
Claiming ==
    worker.pc = "claim" =>
      /\ worker.next = 1
      /\ \A c \in worker.todo : children[c] = worker.list[c]
      /\ \A i \in 1..Len(worker.claimed) : Kept(worker.claimed[i]) /\ Listed(worker.claimed[i])

SyncedSoFar ==
    worker.pc = "sync" =>
      \A i \in 1..Len(worker.claimed) :
        /\ Kept(worker.claimed[i])
        /\ IF i < worker.next THEN InShape(worker.claimed[i]) ELSE Listed(worker.claimed[i])

PrunedSoFar ==
    worker.pc \in {"prune", "settle"} =>
      /\ Kept(worker.claimed[1]) /\ InShape(worker.claimed[1])
      /\ worker.pc = "prune" => worker.next >= 2
      /\ \A i \in 2..Len(worker.claimed) :
           worker.pc = "settle" \/ i < worker.next => Gone(worker.claimed[i])

PassInv ==
    pass = {} /\ worker.pc \notin {"idle", "panicked"} =>
      /\ Undisturbed /\ Inventory
      /\ Claiming /\ SyncedSoFar /\ PrunedSoFar
      /\ worker.pc # "claim" => worker.todo = {}
      /\ worker.pc = "create" => worker.claimed = << >>
      /\ worker.pc = "settle" => ~worker.hvpa.wanted

-----------------------------------------------------------------------------
(* The claim.                                                              *)

\* The recheck of the deletion timestamp grants the adoption.
LEMMA RecheckGrants ==
    ASSUME IInv, PassInv, pass = {}, worker.pc = "claim"
    PROVE  Recheck = "granted"
<1>1. /\ cachedHvpa = worker.hvpa /\ ~worker.hvpa.deleting /\ worker.recheck # "refused"
      /\ worker.hvpa \in Hvpa /\ worker.recheck \in {"unasked", "granted", "refused"}
  BY DEF PassInv, Undisturbed, IInv, TypeOK, Worker
<1> QED
  BY <1>1, NilAssumption DEF Recheck

\* One object is claimed or passed over; the others stay as they are.
LEMMA PassOne ==
    ASSUME IInv, PassInv, pass = {}, worker.pc = "claim", NEW c \in worker.todo,
           hvpa' = hvpa, cachedHvpa' = cachedHvpa,
           \A d \in Children \ {c} : children'[d] = children[d],
           NEW claimed \in BOOLEAN,
           worker'.pc = "claim", worker'.hvpa = worker.hvpa, worker'.list = worker.list,
           worker'.next = worker.next, worker'.recheck # "refused", ~worker'.failed,
           worker'.todo = worker.todo \ {c},
           worker'.claimed = IF claimed THEN Append(worker.claimed, c) ELSE worker.claimed,
           claimed => Kept(c)' /\ Listed(c)',
           claimed \/ ~(Mine(c)' \/ Adoptable(c)')
    PROVE  PassInv'
<1>1. /\ worker.claimed \in Seq(Children) /\ c \in Children /\ worker.todo \subseteq Children
  BY DEF IInv, TypeOK, Worker
<1>2. Undisturbed /\ Inventory /\ Claiming
  BY DEF PassInv
<1>3. \A i \in 1..Len(worker.claimed) :
        /\ worker.claimed[i] \in Children \ {c} /\ worker.claimed[i] \notin worker.todo
        /\ Kept(worker.claimed[i]) /\ Listed(worker.claimed[i])
  BY <1>1, <1>2 DEF Inventory, Claiming
<1>4. \A i \in 1..Len(worker'.claimed) :
        \/ i \in 1..Len(worker.claimed) /\ worker'.claimed[i] = worker.claimed[i]
        \/ claimed /\ worker'.claimed[i] = c /\ i = Len(worker.claimed) + 1
  BY <1>1
<1>5. \A i \in 1..Len(worker'.claimed) :
        /\ worker'.claimed[i] \notin worker'.todo
        /\ Kept(worker.claimed[i])' /\ Listed(worker.claimed[i])'
  BY <1>1, <1>3, <1>4 DEF Kept, Listed
<1>6. \A i, j \in 1..Len(worker'.claimed) :
        worker'.claimed[i] = worker'.claimed[j] => i = j
  BY <1>2, <1>3, <1>4 DEF Inventory
<1>7. ClaimedSet \subseteq ClaimedSet' /\ (claimed => c \in ClaimedSet')
  <2>1. CASE claimed
    <3>1. /\ Len(worker'.claimed) = Len(worker.claimed) + 1
          /\ worker'.claimed[Len(worker.claimed) + 1] = c
          /\ \A i \in 1..Len(worker.claimed) : worker'.claimed[i] = worker.claimed[i]
          /\ Len(worker.claimed) \in Nat
      BY <1>1, <2>1
    <3> QED
      BY <3>1 DEF ClaimedSet
  <2>2. CASE ~claimed
    BY <2>2 DEF ClaimedSet
  <2> QED
    BY <2>1, <2>2
<1>8. ASSUME NEW d \in Children \ worker'.todo
      PROVE  /\ Mine(d)' \/ Adoptable(d)' => d \in ClaimedSet'
             /\ Mine(d)' => children'[d].label = worker'.hvpa.selector
  <2>1. CASE d = c
    BY <1>7, <2>1 DEF Kept
  <2>2. CASE d # c
    <3>1. d \in Children \ worker.todo /\ children'[d] = children[d]
      BY <1>8, <2>2
    <3>2. /\ Mine(d) \/ Adoptable(d) => d \in ClaimedSet
          /\ Mine(d) => children[d].label = worker.hvpa.selector
      BY <1>2, <3>1 DEF Inventory
    <3> QED
      BY <1>7, <3>1, <3>2 DEF Mine, Adoptable
  <2> QED
    BY <2>1, <2>2
<1>9. Undisturbed'
  BY <1>2 DEF Undisturbed
<1>10. Inventory'
  BY <1>5, <1>6, <1>8 DEF Inventory
<1>11. Claiming'
  <2>1. \A d \in worker'.todo : children'[d] = worker'.list[d]
    BY <1>1, <1>2 DEF Claiming
  <2> QED
    BY <1>2, <1>5, <2>1 DEF Claiming
<1> QED
  BY <1>9, <1>10, <1>11 DEF PassInv, SyncedSoFar, PrunedSoFar

\* A patch of an object as it was listed changes its owner only.
LEMMA PatchOfListed ==
    ASSUME IInv, NEW c \in Children, children[c] # Nil, children[c] = worker.list[c],
           NEW owner \in Uids \union {Nil}
    PROVE  /\ Patched(c, owner)[c] # Nil
           /\ Patched(c, owner)[c].owner = owner
           /\ Patched(c, owner)[c].label = children[c].label
           /\ Patched(c, owner)[c].spec = children[c].spec
           /\ \A d \in Children \ {c} : Patched(c, owner)[d] = children[d]
<1> DEFINE object == [children[c] EXCEPT !.owner = owner, !.spec = children[c].spec]
<1>1. children[c] \in Child
  BY DEF IInv, TypeOK, Objects
<1>2. /\ object \in Child /\ object.owner = owner /\ object.label = children[c].label
      /\ object.spec = children[c].spec
  BY <1>1 DEF Child
<1> HIDE DEF object
<1>3. Patched(c, owner) = [children EXCEPT ![c] = object]
  BY DEF Patched, object
<1> QED
  BY <1>2, <1>3, NilAssumption DEF IInv, TypeOK, Objects

\* ClaimObject without an error.
LEMMA PassClaims ==
    ASSUME IInv, PassInv, pass = {}, pass' = {}, hvpa' = hvpa, cachedHvpa' = cachedHvpa,
           NEW c \in Children,
           ClaimOwned(c) \/ Ignore(c) \/ Release(c) \/ Adopt(c) \/ RefuseAdoption(c)
    PROVE  PassInv'
<1> DEFINE h == worker.hvpa
           w == [worker EXCEPT !.recheck = Recheck]
<1>1. /\ worker \in Worker /\ worker.pc = "claim" /\ c \in worker.todo
  BY DEF IInv, TypeOK, ClaimOwned, Ignore, Release, Adopt, RefuseAdoption, Claims
<1>2. /\ Undisturbed /\ Inventory /\ Claiming
      /\ h \in Hvpa /\ h.uid \in Uids /\ h.uid # Nil /\ ~h.deleting
  <2>1. Undisturbed /\ Inventory /\ Claiming /\ h \in Hvpa
    BY <1>1 DEF PassInv, IInv, TypeOK
  <2> QED
    BY <2>1, NilIsNoRecord DEF Undisturbed, Hvpa
<1>3. children[c] = worker.list[c] /\ children[c] \in Child /\ children[c] # Nil
  BY <1>1, <1>2, NilAssumption DEF Claiming, IInv, TypeOK, WorkerOK, Objects
<1>4. Recheck = "granted"
  BY <1>1, RecheckGrants
<1>5. \A v \in {worker, w} :
        /\ \A x \in {Claimed(c, v), Passed(c, v)} :
             /\ x.pc = "claim" /\ x.hvpa = h /\ x.list = worker.list /\ x.next = worker.next
             /\ x.todo = worker.todo \ {c} /\ x.recheck # "refused" /\ ~x.failed
        /\ Claimed(c, v).claimed = Append(worker.claimed, c)
        /\ Passed(c, v).claimed = worker.claimed
  BY <1>1, <1>2, <1>4 DEF Claimed, Passed, Worker, Undisturbed
<1>6. ASSUME worker' \in {Claimed(c, worker), Claimed(c, w)},
             \A d \in Children \ {c} : children'[d] = children[d],
             /\ children'[c] # Nil /\ children'[c].owner = h.uid
             /\ children'[c].label = h.selector /\ children'[c].spec = children[c].spec
      PROVE  PassInv'
  <2>1. /\ worker'.pc = "claim" /\ worker'.hvpa = h /\ worker'.list = worker.list
        /\ worker'.next = worker.next /\ worker'.todo = worker.todo \ {c}
        /\ worker'.recheck # "refused" /\ ~worker'.failed
        /\ worker'.claimed = Append(worker.claimed, c)
    BY <1>5, <1>6
  <2>2. Kept(c)' /\ Listed(c)'
    BY <1>3, <1>6, <2>1 DEF Kept, Listed
  <2>3. worker'.claimed = IF TRUE THEN Append(worker.claimed, c) ELSE worker.claimed
    BY <2>1
  <2> HIDE DEF w
  <2> QED
    BY <1>1, <1>6, <2>1, <2>2, <2>3, PassOne
<1>7. ASSUME worker' = Passed(c, worker),
             \A d \in Children \ {c} : children'[d] = children[d],
             ~(Mine(c)' \/ Adoptable(c)')
      PROVE  PassInv'
  <2>1. /\ worker'.pc = "claim" /\ worker'.hvpa = h /\ worker'.list = worker.list
        /\ worker'.next = worker.next /\ worker'.todo = worker.todo \ {c}
        /\ worker'.recheck # "refused" /\ ~worker'.failed
        /\ worker'.claimed = worker.claimed
    BY <1>5, <1>7
  <2>2. worker'.claimed = IF FALSE THEN Append(worker.claimed, c) ELSE worker.claimed
    BY <2>1
  <2> HIDE DEF w
  <2> QED
    BY <1>1, <1>7, <2>1, <2>2, PassOne
<1>8. "faulty" \notin pass'
  OBVIOUS
<1>9. CASE ClaimOwned(c)
  <2>1. children[c].owner = h.uid /\ children[c].label = h.selector
    BY <1>3, <1>9 DEF ClaimOwned, Claims, Verdict
  <2> QED
    BY <1>3, <1>6, <1>9, <2>1 DEF ClaimOwned
<1>10. CASE Ignore(c)
  <2>1. /\ children[c].owner # h.uid
        /\ ~(children[c].owner = Nil /\ children[c].label = h.selector /\ ~children[c].deleting)
    BY <1>2, <1>3, <1>10 DEF Ignore, Claims, Verdict
  <2>2. children' = children /\ worker' = Passed(c, worker)
    BY <1>10 DEF Ignore
  <2>3. worker'.hvpa = h
    BY <1>5, <2>2
  <2>4. ~(Mine(c)' \/ Adoptable(c)')
    BY <2>1, <2>2, <2>3 DEF Mine, Adoptable
  <2> QED
    BY <1>7, <2>2, <2>4
<1>11. CASE Release(c)
  <2>1. children' = Patched(c, Nil) /\ worker' = Passed(c, worker)
    BY <1>3, <1>8, <1>11 DEF Release, Fault
  <2>2. children[c].label # h.selector
    BY <1>3, <1>11 DEF Release, Claims, Verdict
  <2>3. worker'.hvpa = h
    BY <1>5, <2>1
  <2>4. ~(Mine(c)' \/ Adoptable(c)')
    BY <1>2, <1>3, <2>1, <2>2, <2>3, PatchOfListed DEF Mine, Adoptable
  <2>5. \A d \in Children \ {c} : children'[d] = children[d]
    BY <1>3, <2>1, PatchOfListed
  <2> QED
    BY <1>7, <2>1, <2>4, <2>5
<1>12. CASE Adopt(c)
  <2>1. children' = Patched(c, h.uid) /\ worker' = Claimed(c, w)
    BY <1>3, <1>8, <1>12 DEF Adopt, Fault
  <2>2. children[c].label = h.selector
    BY <1>3, <1>12 DEF Adopt, Claims, Verdict
  <2>3. /\ children'[c] # Nil /\ children'[c].owner = h.uid
        /\ children'[c].label = h.selector /\ children'[c].spec = children[c].spec
        /\ \A d \in Children \ {c} : children'[d] = children[d]
    BY <1>2, <1>3, <2>1, <2>2, PatchOfListed
  <2> QED
    BY <1>6, <2>1, <2>3
<1>13. CASE RefuseAdoption(c)
  BY <1>4, <1>13 DEF RefuseAdoption
<1> QED
  BY <1>9, <1>10, <1>11, <1>12, <1>13

\* The end of the claim hands what is claimed, as it was listed, to the sync.
LEMMA PassEndsClaim ==
    ASSUME IInv, PassInv, pass = {}, hvpa' = hvpa, cachedHvpa' = cachedHvpa, EndClaim
    PROVE  PassInv'
<1>1. worker \in Worker /\ worker.pc = "claim" /\ worker.todo = {} /\ children' = children
  BY DEF IInv, TypeOK, EndClaim
<1>2. Undisturbed /\ Inventory /\ Claiming
  BY <1>1 DEF PassInv
<1>3. /\ worker'.pc = IF worker.claimed = << >> THEN "create" ELSE "sync"
      /\ worker'.hvpa = worker.hvpa /\ worker'.list = worker.list
      /\ worker'.todo = {} /\ worker'.claimed = worker.claimed /\ worker'.next = 1
      /\ worker'.recheck = worker.recheck /\ worker'.failed = worker.failed
  BY <1>1, <1>2 DEF EndClaim, Worker, Undisturbed, Claiming
<1>4. Undisturbed'
  BY <1>2, <1>3 DEF Undisturbed
<1>5. Inventory'
  BY <1>1, <1>2, <1>3 DEF Inventory, ClaimedSet, Mine, Adoptable
<1>6. SyncedSoFar'
  <2>1. \A i \in 1..Len(worker.claimed) : ~(i < 1)
    OBVIOUS
  <2> QED
    BY <1>1, <1>2, <1>3, <2>1 DEF SyncedSoFar, Claiming, Kept, Listed
<1> QED
  BY <1>3, <1>4, <1>5, <1>6 DEF PassInv, Claiming, PrunedSoFar

-----------------------------------------------------------------------------
(* The claimed objects, one after the other.                               *)

\* The object at hand is in one position only.
LEMMA AtHand ==
    ASSUME IInv, PassInv, pass = {}, worker.pc \in {"sync", "prune"},
           worker.next <= Len(worker.claimed)
    PROVE  /\ worker.next \in 1..Len(worker.claimed) /\ worker.next \in Nat
           /\ Current \in Children /\ Current \in ClaimedSet
           /\ \A i \in 1..Len(worker.claimed) :
                i # worker.next => worker.claimed[i] \in Children \ {Current}
<1>1. worker.claimed \in Seq(Children) /\ worker.next \in Nat \ {0}
  BY DEF IInv, TypeOK, Worker
<1>2. worker.next \in 1..Len(worker.claimed)
  BY <1>1
<1>3. \A i, j \in 1..Len(worker.claimed) : worker.claimed[i] = worker.claimed[j] => i = j
  BY DEF PassInv, Inventory
<1> QED
  BY <1>1, <1>2, <1>3 DEF Current, ClaimedSet

\* Whatever becomes of the object at hand, the inventory is still right if it is
\* nobody's or still matches.
LEMMA InventoryKept ==
    ASSUME Inventory, worker.todo = {}, worker'.todo = {}, worker'.claimed = worker.claimed,
           worker'.hvpa = worker.hvpa, NEW c \in ClaimedSet,
           \A d \in Children \ {c} : children'[d] = children[d],
           Mine(c)' => children'[c].label = worker.hvpa.selector
    PROVE  Inventory'
<1>1. ClaimedSet' = ClaimedSet
  BY DEF ClaimedSet
<1>2. ASSUME NEW d \in Children
      PROVE  /\ Mine(d)' \/ Adoptable(d)' => d \in ClaimedSet
             /\ Mine(d)' => children'[d].label = worker.hvpa.selector
  <2>1. CASE d = c
    BY <2>1
  <2>2. CASE d # c
    BY <2>2 DEF Inventory, Mine, Adoptable
  <2> QED
    BY <2>1, <2>2
<1> QED
  BY <1>1, <1>2 DEF Inventory

LEMMA PassSyncs ==
    ASSUME IInv, PassInv, pass = {}, pass' = {}, hvpa' = hvpa, cachedHvpa' = cachedHvpa,
           SkipSync \/ Sync
    PROVE  PassInv' \/ worker' = Idle
<1>1. /\ worker \in Worker /\ worker.pc = "sync" /\ worker.next <= Len(worker.claimed)
      /\ worker.todo = {} /\ Undisturbed /\ Inventory /\ SyncedSoFar /\ worker.hvpa \in Hvpa
  BY DEF IInv, TypeOK, SkipSync, Sync, Syncing, PassInv
<1>2. /\ worker.next \in 1..Len(worker.claimed) /\ worker.next \in Nat
      /\ Current \in Children /\ Current \in ClaimedSet
      /\ \A i \in 1..Len(worker.claimed) :
           i # worker.next => worker.claimed[i] \in Children \ {Current}
  BY <1>1, AtHand
<1>3. /\ Kept(Current) /\ Listed(Current)
      /\ \A i \in 1..Len(worker.claimed) :
           /\ Kept(worker.claimed[i])
           /\ i < worker.next => InShape(worker.claimed[i])
           /\ ~(i < worker.next) => Listed(worker.claimed[i])
  BY <1>1, <1>2 DEF SyncedSoFar, Current
<1>4. ASSUME Advance, \A d \in Children \ {Current} : children'[d] = children[d],
             /\ children'[Current] # Nil /\ children'[Current].owner = worker.hvpa.uid
             /\ children'[Current].label = worker.hvpa.selector
             /\ children'[Current].spec = worker.hvpa.template
      PROVE  PassInv'
  <2>1. /\ worker'.pc = "sync" /\ worker'.hvpa = worker.hvpa /\ worker'.list = worker.list
        /\ worker'.todo = {} /\ worker'.claimed = worker.claimed
        /\ worker'.next = worker.next + 1
        /\ worker'.recheck = worker.recheck /\ worker'.failed = worker.failed
    BY <1>1, <1>4 DEF Advance, Worker
  <2>2. Undisturbed'
    BY <1>1, <2>1 DEF Undisturbed
  <2>3. Inventory'
    BY <1>1, <1>2, <1>4, <2>1, InventoryKept
  <2>4. SyncedSoFar'
    <3>1. ASSUME NEW i \in 1..Len(worker.claimed)
          PROVE  /\ Kept(worker.claimed[i])'
                 /\ i < worker.next + 1 => InShape(worker.claimed[i])'
                 /\ ~(i < worker.next + 1) => Listed(worker.claimed[i])'
      <4>1. CASE i = worker.next
        <5>1. worker.claimed[i] = Current
          BY <4>1 DEF Current
        <5> QED
          BY <1>2, <1>4, <2>1, <4>1, <5>1 DEF Kept, InShape
      <4>2. CASE i # worker.next
        <5>1. children'[worker.claimed[i]] = children[worker.claimed[i]]
          BY <1>2, <1>4, <4>2
        <5>2. i < worker.next + 1 <=> i < worker.next
          BY <1>2, <4>2
        <5> QED
          BY <1>3, <2>1, <5>1, <5>2 DEF Kept, InShape, Listed
      <4> QED
        BY <4>1, <4>2
    <3> QED
      BY <2>1, <3>1 DEF SyncedSoFar, Kept, InShape, Listed
  <2> QED
    BY <2>1, <2>2, <2>3, <2>4 DEF PassInv, Claiming, PrunedSoFar
<1>5. CASE SkipSync
  <2>1. children' = children /\ Advance /\ children[Current].spec = worker.hvpa.template
    BY <1>3, <1>5 DEF SkipSync, Differs, Listed
  <2> QED
    BY <1>3, <1>4, <2>1 DEF Kept
<1>6. CASE Sync
  <2>1. \/ worker' = Idle
        \/ children' = Synced(Current) /\ Advance
    BY <1>6 DEF Sync
  <2>2. ASSUME children' = Synced(Current), Advance
        PROVE  PassInv'
    <3> DEFINE object == [children[Current] EXCEPT !.spec = worker.hvpa.template]
    <3>1. children[Current] \in Child
      BY <1>2, <1>3 DEF Kept, IInv, TypeOK, Objects
    <3>2. /\ object \in Child /\ object.owner = children[Current].owner
          /\ object.label = children[Current].label /\ object.spec = worker.hvpa.template
      BY <1>1, <3>1 DEF Child, Hvpa
    <3>3. children' = [children EXCEPT ![Current] = object]
      BY <2>2 DEF Synced
    <3> HIDE DEF object
    <3>4. /\ children'[Current] = object /\ object # Nil
          /\ \A d \in Children \ {Current} : children'[d] = children[d]
      BY <1>2, <3>2, <3>3, NilAssumption DEF IInv, TypeOK, Objects
    <3> QED
      BY <1>3, <1>4, <2>2, <3>2, <3>4 DEF Kept
  <2> QED
    BY <2>1, <2>2
<1> QED
  BY <1>5, <1>6

LEMMA PassEndsSync ==
    ASSUME IInv, PassInv, pass = {}, hvpa' = hvpa, cachedHvpa' = cachedHvpa, EndSync
    PROVE  PassInv'
<1>1. /\ worker \in Worker /\ worker.pc = "sync" /\ worker.todo = {} /\ children' = children
      /\ Len(worker.claimed) > 0 /\ Len(worker.claimed) \in Nat
      /\ worker.next > Len(worker.claimed) /\ worker.next \in Nat
      /\ Undisturbed /\ Inventory /\ SyncedSoFar
  BY DEF IInv, TypeOK, EndSync, PassInv, WorkerOK, Worker
<1>2. /\ worker'.pc = "prune" /\ worker'.hvpa = worker.hvpa /\ worker'.list = worker.list
      /\ worker'.todo = {} /\ worker'.claimed = worker.claimed /\ worker'.next = 2
      /\ worker'.recheck = worker.recheck /\ worker'.failed = worker.failed
  BY <1>1 DEF EndSync, Worker
<1>3. Undisturbed'
  BY <1>1, <1>2 DEF Undisturbed
<1>4. Inventory'
  BY <1>1, <1>2 DEF Inventory, ClaimedSet, Mine, Adoptable
<1>5. PrunedSoFar'
  <2>1. Kept(worker.claimed[1]) /\ InShape(worker.claimed[1])
    <3>1. 1 \in 1..Len(worker.claimed) /\ 1 < worker.next
      BY <1>1
    <3> QED
      BY <1>1, <3>1 DEF SyncedSoFar
  <2>2. \A i \in 2..Len(worker.claimed) : ~(i < 2)
    OBVIOUS
  <2> QED
    BY <1>1, <1>2, <2>1, <2>2 DEF PrunedSoFar, Kept, InShape
<1> QED
  BY <1>2, <1>3, <1>4, <1>5 DEF PassInv, Claiming, SyncedSoFar

\* A deletion without a fault leaves nothing, or what somebody else deletes.
LEMMA DeletedGone ==
    ASSUME IInv, NEW c \in Children, children' = Deleted(c)
    PROVE  /\ \A d \in Children \ {c} : children'[d] = children[d]
           /\ children'[c] = Nil \/ (children'[c] = children[c] /\ children[c].deleting)
           /\ Gone(c)'
BY DEF Deleted, Gone, IInv, TypeOK, Objects

LEMMA PassPrunes ==
    ASSUME IInv, PassInv, pass = {}, pass' = {}, hvpa' = hvpa, cachedHvpa' = cachedHvpa, Prune
    PROVE  PassInv'
<1>1. /\ worker \in Worker /\ worker.pc = "prune" /\ worker.next <= Len(worker.claimed)
      /\ worker.todo = {} /\ Undisturbed /\ Inventory /\ PrunedSoFar
      /\ 1 \in 1..Len(worker.claimed) /\ Len(worker.claimed) \in Nat
  BY DEF IInv, TypeOK, Prune, Pruning, PassInv, WorkerOK, Worker
<1>2. /\ worker.next \in 1..Len(worker.claimed) /\ worker.next \in Nat
      /\ Current \in Children /\ Current \in ClaimedSet
      /\ \A i \in 1..Len(worker.claimed) :
           i # worker.next => worker.claimed[i] \in Children \ {Current}
  BY <1>1, AtHand
<1>3. PICK c : c = Current
  OBVIOUS
<1>4. children' = Deleted(c) /\ Advance
  BY <1>3 DEF Prune, Fault
<1>5. /\ \A d \in Children \ {c} : children'[d] = children[d]
      /\ children'[c] = Nil \/ (children'[c] = children[c] /\ children[c].deleting)
      /\ children'[c] = Nil \/ children'[c].deleting
  BY <1>2, <1>3, <1>4, DeletedGone DEF Gone
<1>6. /\ worker'.pc = "prune" /\ worker'.hvpa = worker.hvpa /\ worker'.list = worker.list
      /\ worker'.todo = {} /\ worker'.claimed = worker.claimed
      /\ worker'.next = worker.next + 1
      /\ worker'.recheck = worker.recheck /\ worker'.failed = worker.failed
  BY <1>1, <1>4 DEF Advance, Worker
<1>7. Undisturbed'
  BY <1>1, <1>6 DEF Undisturbed
<1>8. Inventory'
  <2>1. Mine(c)' => children'[c].label = worker.hvpa.selector
    <3>1. Mine(c)' => Mine(c) /\ children'[c] = children[c]
      BY <1>5, <1>6 DEF Mine
    <3>2. c \in Children \ worker.todo
      BY <1>1, <1>2, <1>3
    <3> QED
      BY <1>1, <3>1, <3>2 DEF Inventory
  <2> QED
    BY <1>1, <1>2, <1>3, <1>5, <1>6, <2>1, InventoryKept
<1>9. PrunedSoFar'
  <2>1. /\ Kept(worker.claimed[1]) /\ InShape(worker.claimed[1]) /\ worker.next >= 2
        /\ \A i \in 2..Len(worker.claimed) : i < worker.next => Gone(worker.claimed[i])
    BY <1>1 DEF PrunedSoFar
  <2>2. Kept(worker.claimed[1])' /\ InShape(worker.claimed[1])'
    <3>1. children'[worker.claimed[1]] = children[worker.claimed[1]]
      <4>1. 1 # worker.next
        BY <2>1
      <4> QED
        BY <1>1, <1>2, <1>3, <1>5, <4>1
    <3> QED
      BY <1>6, <2>1, <3>1 DEF Kept, InShape
  <2>3. ASSUME NEW i \in 2..Len(worker.claimed), i < worker.next + 1
        PROVE  Gone(worker.claimed[i])'
    <3>1. CASE i = worker.next
      <4>1. worker.claimed[i] = c
        BY <1>3, <3>1 DEF Current
      <4> QED
        BY <1>5, <1>6, <4>1 DEF Gone
    <3>2. CASE i # worker.next
      <4>1. i \in 1..Len(worker.claimed) /\ i < worker.next
        BY <1>2, <2>3, <3>2
      <4>2. children'[worker.claimed[i]] = children[worker.claimed[i]]
        BY <1>2, <1>3, <1>5, <3>2, <4>1
      <4> QED
        BY <1>6, <2>1, <4>1, <4>2 DEF Gone
    <3> QED
      BY <3>1, <3>2
  <2>4. worker.next + 1 >= 2
    BY <1>2, <2>1
  <2> QED
    BY <1>6, <2>2, <2>3, <2>4 DEF PrunedSoFar, Kept, InShape, Gone
<1> QED
  BY <1>6, <1>7, <1>8, <1>9 DEF PassInv, Claiming, SyncedSoFar

\* After the last deletion only the first claimed object is there to stay.
LEMMA PruneDone ==
    ASSUME IInv, PassInv, pass = {},
           worker.pc = "settle" \/ (worker.pc = "prune" /\ worker.next > Len(worker.claimed))
    PROVE  /\ worker.claimed[1] \in Children
           /\ Kept(worker.claimed[1]) /\ InShape(worker.claimed[1])
           /\ \A c \in ClaimedSet : c = worker.claimed[1] \/ Gone(c)
<1>1. /\ worker.claimed \in Seq(Children) /\ Len(worker.claimed) > 0 /\ worker.next \in Nat
      /\ PrunedSoFar
  BY DEF IInv, TypeOK, Worker, WorkerOK, PassInv
<1>2. 1 \in 1..Len(worker.claimed)
  BY <1>1
<1>3. \A i \in 1..Len(worker.claimed) : i = 1 \/ i \in 2..Len(worker.claimed)
  BY <1>1
<1>4. \A i \in 2..Len(worker.claimed) : Gone(worker.claimed[i])
  BY <1>1 DEF PrunedSoFar
<1> QED
  BY <1>1, <1>2, <1>3, <1>4 DEF PrunedSoFar, ClaimedSet

LEMMA PassEndsPrune ==
    ASSUME IInv, PassInv, pass = {}, hvpa' = hvpa, cachedHvpa' = cachedHvpa, EndPrune
    PROVE  PassInv' \/ worker' = Idle
<1>1. /\ worker \in Worker /\ worker.pc = "prune" /\ worker.todo = {} /\ children' = children
      /\ Undisturbed /\ Inventory /\ PrunedSoFar /\ worker.next \in Nat
      /\ worker.next > Len(worker.claimed) /\ Len(worker.claimed) \in Nat
  BY DEF IInv, TypeOK, EndPrune, PassInv, Worker
<1>2. SUFFICES ASSUME ~worker.hvpa.wanted, worker' = [worker EXCEPT !.pc = "settle"]
               PROVE  PassInv'
  BY DEF EndPrune
<1>3. /\ worker'.pc = "settle" /\ worker'.hvpa = worker.hvpa /\ worker'.list = worker.list
      /\ worker'.todo = {} /\ worker'.claimed = worker.claimed
      /\ worker'.recheck = worker.recheck /\ worker'.failed = worker.failed
  BY <1>1, <1>2 DEF Worker
<1>4. Undisturbed'
  BY <1>1, <1>3 DEF Undisturbed
<1>5. Inventory'
  BY <1>1, <1>3 DEF Inventory, ClaimedSet, Mine, Adoptable
<1>6. PrunedSoFar'
  <2>1. \A i \in 2..Len(worker.claimed) : i < worker.next
    BY <1>1
  <2> QED
    BY <1>1, <1>3, <2>1 DEF PrunedSoFar, Kept, InShape, Gone
<1> QED
  BY <1>2, <1>3, <1>4, <1>5, <1>6 DEF PassInv, Claiming, SyncedSoFar

-----------------------------------------------------------------------------
(* The end of the pass.                                                    *)

\* The first claimed object is wanted.
LEMMA PruneSettles ==
    ASSUME IInv, PassInv, pass = {}, EndPrune, worker.hvpa.wanted
    PROVE  Settled(worker.hvpa, children')
<1> DEFINE h == worker.hvpa
           first == worker.claimed[1]
<1>1. /\ worker.pc = "prune" /\ worker.todo = {} /\ Inventory /\ children' = children
      /\ worker.next > Len(worker.claimed) /\ h \in Hvpa
  BY DEF IInv, TypeOK, EndPrune, PassInv
<1>2. h.uid # Nil
  BY <1>1, NilIsNoRecord DEF Hvpa
<1>3. /\ first \in Children /\ Kept(first) /\ InShape(first)
      /\ \A c \in ClaimedSet : c = first \/ Gone(c)
  BY <1>1, PruneDone
<1> HIDE DEF first
<1>4. \A c \in Children : /\ Mine(c) \/ Adoptable(c) => c = first \/ Gone(c)
                          /\ Mine(c) => children[c].label = h.selector
  BY <1>1, <1>3 DEF Inventory
<1>5. Orphans(h, children) = {}
  BY <1>2, <1>3, <1>4 DEF Orphans, Adoptable, Kept, Gone
<1>6. /\ first \in OwnedBy(h, children) /\ children[first].spec = h.template
      /\ \A c \in OwnedBy(h, children) :
           children[c].label = h.selector /\ (~children[c].deleting => c = first)
  BY <1>3, <1>4 DEF OwnedBy, Mine, Kept, InShape, Gone
<1> QED
  BY <1>1, <1>5, <1>6 DEF Settled

\* The first claimed object is not wanted, and deleted.
LEMMA DeletionSettles ==
    ASSUME IInv, PassInv, pass = {}, pass' = {}, DeleteUnwanted
    PROVE  Settled(worker.hvpa, children')
<1> DEFINE h == worker.hvpa
<1>1. /\ worker.pc = "settle" /\ worker.todo = {} /\ Inventory /\ h \in Hvpa /\ ~h.wanted
  BY DEF IInv, TypeOK, DeleteUnwanted, PassInv
<1>2. h.uid # Nil
  BY <1>1, NilIsNoRecord DEF Hvpa
<1>3. PICK first : first = worker.claimed[1]
  OBVIOUS
<1>4. /\ first \in Children /\ Kept(first)
      /\ \A c \in ClaimedSet : c = first \/ Gone(c)
  BY <1>1, <1>3, PruneDone
<1>5. children' = Deleted(first)
  BY <1>3 DEF DeleteUnwanted, Fault
<1>6. /\ \A d \in Children \ {first} : children'[d] = children[d]
      /\ children'[first] = Nil \/ (children'[first] = children[first] /\ children[first].deleting)
  BY <1>4, <1>5, DeletedGone
<1>7. \A c \in Children : /\ Mine(c) \/ Adoptable(c) => c = first \/ Gone(c)
                          /\ Mine(c) => children[c].label = h.selector
  BY <1>1, <1>4 DEF Inventory
<1>8. \A c \in Children : children'[c] # Nil =>
        children'[c] = children[c] /\ (c = first => children[c].deleting)
  BY <1>6
<1>9. Orphans(h, children') = {}
  BY <1>7, <1>8 DEF Orphans, Adoptable, Gone
<1>10. \A c \in OwnedBy(h, children') :
         children'[c].label = h.selector /\ children'[c].deleting
  BY <1>7, <1>8 DEF OwnedBy, Mine, Gone
<1> QED
  BY <1>1, <1>9, <1>10 DEF Settled

\* Nothing was there to claim: one is created if it is wanted.
LEMMA CreationSettles ==
    ASSUME IInv, PassInv, pass = {}, pass' = {}, Create \/ CreateNone
    PROVE  Settled(worker.hvpa, children')
<1> DEFINE h == worker.hvpa
<1>1. /\ worker.pc = "create" /\ worker.todo = {} /\ worker.claimed = << >>
      /\ Inventory /\ h \in Hvpa
  BY DEF IInv, TypeOK, Create, CreateNone, PassInv
<1>2. h.uid \in Uids /\ h.uid # Nil
  BY <1>1, NilIsNoRecord DEF Hvpa
<1>3. \A c \in Children : ~Mine(c) /\ ~Adoptable(c)
  BY <1>1 DEF Inventory, ClaimedSet
<1>4. CASE CreateNone
  <2>1. children' = children /\ ~h.wanted
    BY <1>4 DEF CreateNone
  <2>2. Orphans(h, children') = {} /\ OwnedBy(h, children') = {}
    BY <1>3, <2>1 DEF Orphans, OwnedBy, Mine, Adoptable
  <2> QED
    BY <2>1, <2>2 DEF Settled
<1>5. CASE Create
  <2>1. PICK c \in Children : children' = [children EXCEPT ![c] = New]
    BY <1>5 DEF Create, Fault
  <2>2. /\ New.owner = h.uid /\ New.label = h.selector /\ New.spec = h.template
        /\ New \in Child
    BY <1>1 DEF New, Child, Hvpa
  <2>3. /\ children'[c] = New /\ New # Nil /\ h.wanted
        /\ \A d \in Children \ {c} : children'[d] = children[d]
    BY <1>5, <2>1, <2>2, NilAssumption DEF Create, IInv, TypeOK, Objects
  <2>4. Orphans(h, children') = {} /\ OwnedBy(h, children') = {c}
    BY <1>2, <1>3, <2>2, <2>3 DEF Orphans, OwnedBy, Mine, Adoptable
  <2> QED
    BY <2>2, <2>3, <2>4 DEF Settled
<1> QED
  BY <1>4, <1>5

\* A call that fails is remembered.
LEMMA QuietBefore ==
    ASSUME ClaimStep \/ SettleStep, pass' = {}
    PROVE  pass = {} /\ faults' = faults
<1>1. NoFault => pass = {} /\ faults' = faults
  BY DEF NoFault
<1>2. pass' # pass \union {"faulty"}
  OBVIOUS
<1>3. \A effect : ~Fault(effect)
  BY <1>2 DEF Fault
<1>4. ClaimStep => NoFault
  BY <1>3, Zenon DEF ClaimStep, ClaimOwned, Ignore, Release, Adopt, RefuseAdoption, EndClaim
<1>5. SettleStep => NoFault
  BY <1>2, <1>3, Zenon DEF SettleStep, Panic, SkipSync, Sync, GiveUpSync, EndSync, Prune,
     EndPrune, DeleteUnwanted, Create, OutOfNames, CreateNone
<1> QED
  BY <1>1, <1>4, <1>5

LEMMA IdlePass == worker' = Idle \/ worker' = [Idle EXCEPT !.pc = "panicked"] => PassInv'
BY DEF Idle, PassInv

LEMMA PassListed ==
    ASSUME IInv, List, hvpa' = hvpa, cachedHvpa' = cachedHvpa
    PROVE  PassInv'
<1>1. SUFFICES ASSUME pass' = {}
               PROVE  PassInv'
  BY DEF PassInv
<1>2. /\ worker'.pc = "claim" /\ worker'.hvpa = cachedHvpa /\ worker'.list = cachedChildren
      /\ worker'.todo = {c \in Children : cachedChildren[c] # Nil}
      /\ worker'.claimed = << >> /\ worker'.next = 1
      /\ worker'.recheck = "unasked" /\ worker'.failed = FALSE
      /\ children' = children /\ ~cachedHvpa.deleting
  BY DEF List, Idle
<1>3. cachedHvpa = hvpa /\ cachedChildren = children
  BY <1>1 DEF List, ListIsCurrent
<1>4. Undisturbed'
  BY <1>2, <1>3 DEF Undisturbed
<1>5. Inventory'
  BY <1>2, <1>3 DEF Inventory, Mine, Adoptable
<1>6. Claiming'
  BY <1>2, <1>3 DEF Claiming
<1> QED
  BY <1>2, <1>4, <1>5, <1>6 DEF PassInv, SyncedSoFar, PrunedSoFar

LEMMA PassStep ==
    ASSUME IInv, PassInv, [Next]_vars
    PROVE  PassInv'
<1>1. CASE ReconcileStep
  <2>1. hvpa' = hvpa /\ cachedHvpa' = cachedHvpa
    BY <1>1 DEF ReconcileStep
  <2>2. CASE List
    BY <2>1, <2>2, PassListed
  <2>3. CASE ClaimStep
    <3>1. SUFFICES ASSUME pass' = {}
                   PROVE  PassInv'
      BY DEF PassInv
    <3>2. pass = {}
      BY <2>3, <3>1, QuietBefore
    <3>3. CASE EndClaim
      BY <2>1, <3>2, <3>3, PassEndsClaim
    <3>4. ASSUME NEW c \in Children,
                 ClaimOwned(c) \/ Ignore(c) \/ Release(c) \/ Adopt(c) \/ RefuseAdoption(c)
          PROVE  PassInv'
      BY <2>1, <3>1, <3>2, <3>4, PassClaims
    <3> QED
      BY <2>3, <3>3, <3>4, Zenon DEF ClaimStep
  <2>4. CASE SettleStep
    <3>1. SUFFICES ASSUME pass' = {}
                   PROVE  PassInv'
      BY DEF PassInv
    <3>2. pass = {}
      BY <2>4, <3>1, QuietBefore
    <3>3. CASE SkipSync \/ Sync \/ EndSync
      BY <2>1, <3>1, <3>2, <3>3, PassSyncs, PassEndsSync, IdlePass
    <3>4. CASE Prune \/ EndPrune
      BY <2>1, <3>1, <3>2, <3>4, PassPrunes, PassEndsPrune, IdlePass
    <3>5. CASE Panic \/ GiveUpSync \/ DeleteUnwanted \/ Create \/ OutOfNames \/ CreateNone
      BY <3>5, IdlePass, Zenon
         DEF Panic, GiveUpSync, DeleteUnwanted, Create, OutOfNames, CreateNone
    <3> QED
      BY <2>4, <3>3, <3>4, <3>5, Zenon DEF SettleStep
  <2> QED
    BY <1>1, <2>2, <2>3, <2>4 DEF ReconcileStep, Reconcile
<1>2. CASE OthersStep
  BY <1>2 DEF OthersStep, PassInv
<1>3. CASE RefreshHvpa
  <2>1. UNCHANGED <<hvpa, children, worker, pass>> /\ cachedHvpa' = hvpa
    BY <1>3 DEF RefreshHvpa, apiVars
  <2>2. Undisturbed => Undisturbed'
    BY <2>1 DEF Undisturbed
  <2> QED
    BY <2>1, <2>2 DEF PassInv, Inventory, Claiming, SyncedSoFar, PrunedSoFar, ClaimedSet,
       Mine, Adoptable, Kept, Gone, Listed, InShape
<1>4. CASE RefreshChildren \/ UNCHANGED vars
  <2>1. UNCHANGED <<hvpa, children, cachedHvpa, worker, pass>>
    BY <1>4 DEF RefreshChildren, vars, apiVars, cacheVars
  <2> QED
    BY <2>1 DEF PassInv, Undisturbed, Inventory, Claiming, SyncedSoFar, PrunedSoFar,
       ClaimedSet, Mine, Adoptable, Kept, Gone, Listed, InShape
<1>5. CASE Restart
  BY <1>5, IdlePass DEF Restart, Restarted
<1> QED
  BY <1>1, <1>2, <1>3, <1>4, <1>5 DEF Next

\* reconcileHpa and reconcileVpa, from current caches, undisturbed and without a
\* failed call, have at every line dealt with what they have passed and left the
\* rest as they listed it.
THEOREM PassInvariance == Spec => []PassInv
<1>1. Init => PassInv
  BY DEF Init, Idle, PassInv
<1> QED
  BY <1>1, PassStep, Invariance, PTL DEF Spec

\* Such a pass does the whole work of reconcileHpa or reconcileVpa: it ends with
\* one object that the HVPA owns, in the shape of the template, or with none if
\* none is wanted, and with no orphan and no duplicate, also where the metrics of
\* the copy are patched with the owner (autoscaling/v2).
THEOREM OnePassSettles == Spec => SettlesInOnePass
<1>1. IInv /\ PassInv /\ [Next]_vars =>
        ((worker.pc \notin {"idle", "panicked"} /\ worker'.pc = "idle" /\ faults' = faults
          /\ pass' = {}) => Settled(worker.hvpa, children'))
  <2> SUFFICES ASSUME IInv, PassInv, [Next]_vars, worker.pc \notin {"idle", "panicked"},
                      worker'.pc = "idle", faults' = faults, pass' = {}
               PROVE  Settled(worker.hvpa, children')
    OBVIOUS
  <2>1. worker \in Worker /\ faults \in Nat /\ worker' # worker
    BY DEF IInv, TypeOK
  <2>2. ClaimStep \/ SettleStep
    <3>1. ~OthersStep /\ ~RefreshHvpa /\ ~RefreshChildren /\ ~UNCHANGED vars
      BY <2>1 DEF OthersStep, RefreshHvpa, RefreshChildren, vars
    <3>2. ~Restart
      BY <2>1 DEF Restart
    <3>3. ~List
      BY DEF List
    <3> QED
      BY <3>1, <3>2, <3>3 DEF Next, ReconcileStep, Reconcile
  <2>3. pass = {}
    BY <2>2, QuietBefore
  <2>4. ~ClaimStep
    <3>1. ~EndClaim
      <4>1. EndClaim => ~worker.failed
        BY <2>3 DEF EndClaim, PassInv, Undisturbed
      <4> QED
        BY <2>1, <4>1 DEF EndClaim, Worker
    <3>2. ASSUME NEW c \in Children,
                 ClaimOwned(c) \/ Ignore(c) \/ Release(c) \/ Adopt(c) \/ RefuseAdoption(c)
          PROVE  FALSE
      BY <2>1, <3>2 DEF ClaimOwned, Ignore, Release, Adopt, RefuseAdoption, Claims,
         Claimed, Passed, Failed, Worker
    <3> QED
      BY <3>1, <3>2, Zenon DEF ClaimStep
  <2>5. CASE Panic \/ SkipSync \/ Sync \/ GiveUpSync \/ EndSync \/ Prune \/ OutOfNames
    <3>1. Advance => worker'.pc = worker.pc
      BY <2>1 DEF Advance, Worker
    <3>2. [worker EXCEPT !.pc = "prune", !.next = 2].pc = "prune"
          /\ [Idle EXCEPT !.pc = "panicked"].pc = "panicked"
      BY <2>1 DEF Worker, Idle
    <3>3. pass' # pass \union {"faulty"} /\ \A effect : ~Fault(effect)
      BY DEF Fault
    <3> QED
      BY <2>5, <3>1, <3>2, <3>3
         DEF Panic, SkipSync, Sync, GiveUpSync, EndSync, Prune, OutOfNames
  <2>6. CASE EndPrune
    <3>1. worker.hvpa.wanted
      BY <2>1, <2>6 DEF EndPrune, Worker
    <3> QED
      BY <2>3, <2>6, <3>1, PruneSettles
  <2>7. CASE DeleteUnwanted \/ Create \/ CreateNone
    BY <2>3, <2>7, DeletionSettles, CreationSettles
  <2> QED
    BY <2>2, <2>4, <2>5, <2>6, <2>7, Zenon DEF SettleStep
<1> QED
  BY <1>1, PassInvariance, Invariance, PTL DEF Spec, SettlesInOnePass
=============================================================================
