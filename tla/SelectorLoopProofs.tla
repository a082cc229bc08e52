--------------------------- MODULE SelectorLoopProofs ---------------------------
(***************************************************************************)
(* The loop of the pod event handler over cachedNames, for every set of    *)
(* HVPAs, labels and every number of edits: what reading the slice without *)
(* the mutex can and cannot do to the answer.                              *)
(***************************************************************************)
EXTENDS SelectorCacheProofs

-----------------------------------------------------------------------------
(* What a slice lets its holder read: the pointers in its slots, as far as *)
(* the array goes.                                                         *)

Read(A, h) ==
    IF h = Nil THEN {}
    ELSE {A[h.array][i] : i \in {j \in 1..h.len : /\ j <= Len(A[h.array])
                                                  /\ A[h.array][j] # Nil}}

\* What the worker has to offer: the slice in the map, and the one it is
\* about to store there.
Held == Read(arrays, header) \union IF Assigning THEN Read(arrays, worker.next) ELSE {}

Offering(E, pointers, labels) ==
    {hvpa \in Hvpas : \E p \in pointers : E[p].name = hvpa /\ Matches(E[p].selector, labels)}

-----------------------------------------------------------------------------
(* The inductive invariant, on top of the one of the slice.                *)

\* A slice moves to another array only when its own is full.
RoomInv ==
    /\ worker.pc = "make" => Capacity(worker.next) = 1
    /\ worker.pc = "store" /\ worker.next.array # header.array
         => header.len = Capacity(header)

\* Whatever the loop can still read has been in the cache during the loop.
EverInv ==
    handler.pc = "scan" =>
      Offering(entries, Read(arrays, handler.slice), handler.labels) \subseteq loop.ever

\* An HVPA that has matched all the time is still ahead of the loop, in the same
\* slot of the loop's slice and of the one in the map, and not in the last slot
\* when removeFromCache is about to clear it for another HVPA.
AheadAt(hvpa, i) ==
    /\ handler.index <= i /\ i <= handler.slice.len /\ i <= Capacity(handler.slice)
    /\ At(handler.slice, i) = At(header, i)
    /\ At(header, i) # Nil /\ entries[At(header, i)].name = hvpa
    /\ worker.pc = "clear" /\ i = header.len => worker.slot = header.len

AlwaysInv ==
    handler.pc = "scan" /\ ~loop.moved =>
      /\ loop.always \subseteq Offers(header, handler.labels)
      /\ \A hvpa \in loop.always :
           handler.slice # Nil /\ \E i \in 1..header.len : AheadAt(hvpa, i)

LoopInv == IInv /\ RoomInv /\ EverInv /\ AlwaysInv

-----------------------------------------------------------------------------
(* Reading.                                                                *)

LEMMA ReadSlot ==
    ASSUME NEW A, NEW h, NEW p
    PROVE  p \in Read(A, h) <=>
             /\ h # Nil /\ p # Nil
             /\ \E i \in 1..h.len : i <= Len(A[h.array]) /\ A[h.array][i] = p
BY DEF Read

\* Only the array of a slice matters.
LEMMA ReadSameArray ==
    ASSUME NEW A, NEW B, NEW h, B[h.array] = A[h.array]
    PROVE  Read(B, h) = Read(A, h)
BY Zenon DEF Read

\* What is read are pointers to entries.
LEMMA ReadExists ==
    ASSUME NEW A, NEW E, HeapOK(A, E), NEW h, h \in Header, h.array \in 1..Len(A),
           NEW p, p \in Read(A, h)
    PROVE  p \in 1..Len(E) /\ E[p] \in Entry
<1>1. PICK i \in 1..h.len : i <= Len(A[h.array]) /\ A[h.array][i] = p /\ p # Nil
  BY ReadSlot
<1>2. h.len \in Nat /\ i \in 1..Len(A[h.array])
  <2>1. h.len \in Nat
    BY DEF Header
  <2>2. A[h.array] \in Seq(Slot)
    BY DEF HeapOK
  <2>3. QED
    BY <1>1, <2>1, <2>2
<1>3. p \in 1..Len(E)
  BY <1>1, <1>2 DEF HeapOK
<1>4. QED
  BY <1>3 DEF HeapOK

\* An assignment to an element lets nobody read anything but the new pointer.
LEMMA ReadAssigned ==
    ASSUME NEW A, NEW a, NEW i, NEW q, Assignable(A, a, i, q),
           NEW h, h \in Header, h.array \in 1..Len(A),
           NEW p, p \in Read(Assigned(A, a, i, q), h)
    PROVE  p \in Read(A, h) \/ (p = q /\ q # Nil)
<1> DEFINE B == Assigned(A, a, i, q)
<1>1. DiffersOnlyAt(A, a, i, q, B)
  BY AssignElement, Zenon
<1> HIDE DEF B
<1>2. /\ \A b \in 1..Len(A) : Len(B[b]) = Len(A[b])
      /\ \A b \in 1..Len(A) : b # a => B[b] = A[b]
      /\ B[a][i] = q
      /\ \A j \in 1..Len(A[a]) : j # i => B[a][j] = A[a][j]
  BY ONLY <1>1, Zenon DEF DiffersOnlyAt
<1>3. PICK j \in 1..h.len : j <= Len(B[h.array]) /\ B[h.array][j] = p /\ p # Nil /\ h # Nil
  BY ReadSlot DEF B
<1>4. CASE h.array # a
  <2>1. B[h.array] = A[h.array]
    BY <1>2, <1>4, Zenon
  <2>2. QED
    BY <2>1, ReadSameArray, Zenon DEF B
<1>5. CASE h.array = a /\ j # i
  <2>1. Len(A[a]) = Len(B[a]) /\ h.len \in Nat
    BY <1>2, <1>5 DEF Header
  <2>2. Len(A[a]) \in Nat
    BY <1>5 DEF Assignable
  <2>3. j <= Len(A[a]) /\ j \in 1..Len(A[a])
    BY ONLY <1>3, <1>5, <2>1, <2>2
  <2>4. A[h.array][j] = p /\ j <= Len(A[h.array])
    BY <1>2, <1>3, <1>5, <2>3, Zenon
  <2>5. QED
    BY <1>3, <2>4, ReadSlot, Zenon
<1>6. CASE h.array = a /\ j = i
  BY <1>2, <1>3, <1>6, Zenon
<1>7. QED
  BY <1>4, <1>5, <1>6

\* What is offered depends on what is read.
OffersIn(A, E, h, labels) ==
    {hvpa \in Hvpas :
       \E i \in Slots(h) : /\ A[h.array][i] # Nil /\ E[A[h.array][i]].name = hvpa
                           /\ Matches(E[A[h.array][i]].selector, labels)}

LEMMA OffersRead ==
    ASSUME NEW A, NEW E, NEW h, NEW labels, h = Nil \/ Sound(A, h)
    PROVE  OffersIn(A, E, h, labels) = Offering(E, Read(A, h), labels)
<1>1. CASE h = Nil
  BY <1>1 DEF OffersIn, Offering, Read, Slots
<1>2. CASE h # Nil
  <2>1. h.len \in 0..Len(A[h.array]) /\ Slots(h) = 1..h.len
    BY <1>2 DEF Sound, Slots
  <2>2. Read(A, h) = {A[h.array][i] : i \in {j \in 1..h.len : A[h.array][j] # Nil}}
    <3>1. \A j \in 1..h.len : j <= Len(A[h.array])
      BY <2>1
    <3>2. QED
      BY <1>2, <3>1 DEF Read
  <2>3. QED
    BY <2>1, <2>2, Zenon DEF OffersIn, Offering
<1>3. QED
  BY <1>1, <1>2

LEMMA HeadersSound ==
    /\ IInv => /\ header = Nil \/ Sound(arrays, header)
               /\ Assigning => worker.next # Nil /\ Sound(arrays, worker.next)
    /\ IInv' => /\ header' = Nil \/ Sound(arrays', header')
                /\ Assigning' => worker'.next # Nil /\ Sound(arrays', worker'.next)
<1>1. \A A, h : Sound(A, h) => h # Nil
  BY CacheAssumption DEF Sound, Header
<1>2. ASSUME IInv
      PROVE  /\ header = Nil \/ Sound(arrays, header)
             /\ Assigning => Sound(arrays, worker.next)
  BY <1>2 DEF IInv, SliceInv, MakeInv, StoreInv, Good, Assigning
<1>3. ASSUME IInv'
      PROVE  /\ header' = Nil \/ Sound(arrays', header')
             /\ Assigning' => Sound(arrays', worker'.next)
  BY <1>3 DEF IInv, SliceInv, MakeInv, StoreInv, Good, Assigning
<1>4. QED
  BY <1>1, <1>2, <1>3, Zenon

LEMMA OfferedHeld ==
    ASSUME NEW labels
    PROVE  /\ IInv => Offers(header, labels) = Offering(entries, Read(arrays, header), labels)
           /\ IInv => Offered(labels) = Offering(entries, Held, labels)
           /\ IInv' => (Offers(header, labels))' = Offering(entries', Read(arrays', header'), labels)
           /\ IInv' => (Offered(labels))' = Offering(entries', Held', labels)
<1>1. \A E, P, Q :
        Offering(E, P \union Q, labels) = Offering(E, P, labels) \union Offering(E, Q, labels)
  BY DEF Offering
<1>2. \A E, P : P \union {} = P
  OBVIOUS
<1>3. ASSUME IInv
      PROVE  /\ Offers(header, labels) = Offering(entries, Read(arrays, header), labels)
             /\ Offered(labels) = Offering(entries, Held, labels)
  <2>1. /\ Offers(header, labels) = OffersIn(arrays, entries, header, labels)
        /\ Offers(worker.next, labels) = OffersIn(arrays, entries, worker.next, labels)
    BY DEF Offers, OffersIn, SlotsOf, At
  <2>2. Offers(header, labels) = Offering(entries, Read(arrays, header), labels)
    BY <1>3, <2>1, HeadersSound, OffersRead, Zenon
  <2>3. Assigning => Offers(worker.next, labels)
                       = Offering(entries, Read(arrays, worker.next), labels)
    BY <1>3, <2>1, HeadersSound, OffersRead, Zenon
  <2>4. QED
    <3>1. CASE Assigning
      <4>1. Held = Read(arrays, header) \union Read(arrays, worker.next)
        BY <3>1, Zenon DEF Held
      <4>2. Offered(labels) = Offers(header, labels) \union Offers(worker.next, labels)
        BY <3>1, Zenon DEF Offered
      <4>3. QED
        BY ONLY <1>1, <2>2, <2>3, <3>1, <4>1, <4>2
    <3>2. CASE ~Assigning
      BY <1>2, <2>2, <3>2, Zenon DEF Offered, Held
    <3>3. QED
      BY <3>1, <3>2
<1>4. ASSUME IInv'
      PROVE  /\ (Offers(header, labels))' = Offering(entries', Read(arrays', header'), labels)
             /\ (Offered(labels))' = Offering(entries', Held', labels)
  <2>1. /\ (Offers(header, labels))' = OffersIn(arrays', entries', header', labels)
        /\ (Offers(worker.next, labels))' = OffersIn(arrays', entries', worker'.next, labels)
    BY DEF Offers, OffersIn, SlotsOf, At, Slots
  <2>2. (Offers(header, labels))' = Offering(entries', Read(arrays', header'), labels)
    BY <1>4, <2>1, HeadersSound, OffersRead, Zenon
  <2>3. Assigning' => (Offers(worker.next, labels))'
                        = Offering(entries', Read(arrays', worker'.next), labels)
    BY <1>4, <2>1, HeadersSound, OffersRead, Zenon
  <2>4. (Offered(labels))' = Offers(header, labels)' \union
                             IF Assigning' THEN Offers(worker.next, labels)' ELSE {}
    BY DEF Offered
  <2>5. Held' = Read(arrays', header') \union
                IF Assigning' THEN Read(arrays', worker'.next) ELSE {}
    BY DEF Held, Read
  <2>6. QED
    <3>1. CASE Assigning'
      <4>1. Held' = Read(arrays', header') \union Read(arrays', worker'.next)
        BY <2>5, <3>1, Zenon
      <4>2. Offered(labels)' = Offers(header, labels)' \union Offers(worker.next, labels)'
        BY <2>4, <3>1, Zenon
      <4>3. QED
        BY ONLY <1>1, <2>2, <2>3, <3>1, <4>1, <4>2
    <3>2. CASE ~Assigning'
      BY <1>2, <2>2, <2>4, <2>5, <3>2, Zenon
    <3>3. QED
      BY <3>1, <3>2
<1>5. QED
  BY <1>3, <1>4

\* A pointer that the slice in the map, or the one about to be stored, has in one
\* of its slots.
LEMMA HeldSlot ==
    ASSUME NEW A, NEW h, Sound(A, h), NEW i \in 1..h.len, A[h.array][i] # Nil
    PROVE  A[h.array][i] \in Read(A, h)
<1>1. h # Nil
  BY CacheAssumption DEF Sound, Header
<1>2. i <= Len(A[h.array])
  BY DEF Sound, Header
<1>3. QED
  BY <1>1, <1>2, ReadSlot, Zenon

-----------------------------------------------------------------------------
(* What the steps of the worker do to what can be read.                    *)

\* The pointers of the slice in the map are held, and while the worker assigns
\* to the map those of the next slice, too.
LEMMA HeldAfter ==
    ASSUME IInv'
    PROVE  /\ header' # Nil =>
                \A i \in 1..header'.len : arrays'[header'.array][i] # Nil =>
                                            arrays'[header'.array][i] \in Held'
           /\ Assigning' =>
                \A i \in 1..worker'.next.len : arrays'[worker'.next.array][i] # Nil =>
                                                 arrays'[worker'.next.array][i] \in Held'
<1>1. /\ header' = Nil \/ Sound(arrays', header')
      /\ Assigning' => Sound(arrays', worker'.next)
  BY HeadersSound
<1>2. Held' = Read(arrays', header') \union
              IF Assigning' THEN Read(arrays', worker'.next) ELSE {}
  BY DEF Held, Read
<1>3. ASSUME header' # Nil, NEW i \in 1..header'.len, arrays'[header'.array][i] # Nil
      PROVE  arrays'[header'.array][i] \in Held'
  <2>1. arrays'[header'.array][i] \in Read(arrays', header')
    BY <1>1, <1>3, HeldSlot, Zenon
  <2>2. QED
    BY ONLY <1>2, <2>1
<1>4. ASSUME Assigning', NEW i \in 1..worker'.next.len,
             arrays'[worker'.next.array][i] # Nil
      PROVE  arrays'[worker'.next.array][i] \in Held'
  <2>1. arrays'[worker'.next.array][i] \in Read(arrays', worker'.next)
    BY <1>1, <1>4, HeldSlot, Zenon
  <2>2. QED
    BY ONLY <1>2, <1>4, <2>1
<1>5. QED
  BY <1>3, <1>4, Zenon

\* A new array leaves the others alone, and so does a new entry.
LEMMA FirstEntryLeaves ==
    ASSUME IInv, NEW hvpa \in Hvpas, FirstEntry(hvpa)
    PROVE  /\ \A b \in 1..Len(arrays) : arrays'[b] = arrays[b]
           /\ \A p \in 1..Len(entries) : entries'[p] = entries[p]
<1>1. HeapOK(arrays, entries) /\ New(hvpa) \in Entry /\ arrays \in Seq(Seq(Slot))
  BY NewEntry DEF IInv, SliceInv, TypeOK, FirstEntry
<1>2. entries' = Append(entries, New(hvpa))
      /\ arrays' = arrays \o << <<Nil>>, <<Len(entries) + 1>> >>
  BY DEF FirstEntry
<1>3. Len(entries) + 1 \in Slot
  BY <1>1, Allocate
<1> DEFINE N == <<Nil>>
           Q == <<Len(entries) + 1>>
<1>4. N \in Seq(Slot) /\ Q \in Seq(Slot) /\ arrays' = arrays \o <<N, Q>>
  BY <1>2, <1>3 DEF Slot
<1> HIDE DEF N, Q
<1>5. \A b \in 1..Len(arrays) : arrays'[b] = arrays[b]
  <2>1. <<N, Q>> \in Seq(Seq(Slot)) /\ Len(<<N, Q>>) = 2
    BY <1>4
  <2>2. QED
    BY <1>1, <1>4, <2>1, ConcatTwo
<1>6. QED
  BY <1>1, <1>2, <1>5, Allocate

LEMMA AppendLeaves ==
    ASSUME IInv, NEW hvpa \in Hvpas, AppendEntry(hvpa)
    PROVE  /\ \A p \in 1..Len(entries) : entries'[p] = entries[p]
           /\ \/ \A b \in 1..Len(arrays) : arrays'[b] = arrays[b]
              \/ /\ arrays' = Assigned(arrays, header.array, header.len + 1, Len(entries) + 1)
                 /\ Assignable(arrays, header.array, header.len + 1, Len(entries) + 1)
                 /\ Assigning' /\ worker'.next = H(header.array, header.len + 1)
<1>1. /\ HeapOK(arrays, entries) /\ New(hvpa) \in Entry /\ arrays \in Seq(Seq(Slot))
      /\ worker.pc = "idle" /\ header # Nil
  BY NewEntry DEF IInv, SliceInv, TypeOK, AppendEntry, Learns
<1>2. Sound(arrays, header)
  BY <1>1 DEF IInv, SliceInv
<1>3. entries' = Append(entries, New(hvpa))
      /\ (AppendInPlace(Len(entries) + 1) \/ AppendElsewhere(Len(entries) + 1))
  BY DEF AppendEntry
<1>4. Len(entries) + 1 \in Slot /\ \A p \in 1..Len(entries) : entries'[p] = entries[p]
  BY <1>1, <1>3, Allocate
<1>5. CASE AppendInPlace(Len(entries) + 1)
  <2>1. arrays' = Assigned(arrays, header.array, header.len + 1, Len(entries) + 1)
    BY <1>5 DEF AppendInPlace, Assigned
  <2>2. Assignable(arrays, header.array, header.len + 1, Len(entries) + 1)
    <3>1. header.array \in 1..Len(arrays) /\ arrays[header.array] \in Seq(Slot)
      BY <1>1, <1>2 DEF Sound
    <3>2. header.len \in Nat /\ header.len < Len(arrays[header.array])
      BY <1>2, <1>5 DEF Sound, Header, AppendInPlace, Capacity
    <3>3. header.len + 1 \in 1..Len(arrays[header.array])
      BY ONLY <3>1, <3>2
    <3>4. QED
      BY <1>1, <1>4, <3>1, <3>3, Zenon DEF Assignable
  <2>3. Assigning' /\ worker'.next = H(header.array, header.len + 1)
    BY <1>5 DEF AppendInPlace, Storing, WorkerIdle, Assigning, H
  <2>4. QED
    BY <1>4, <2>1, <2>2, <2>3, Zenon
<1>6. CASE AppendElsewhere(Len(entries) + 1)
  <2>1. arrays' = Append(arrays, [Doubled(header) EXCEPT ![header.len + 1] = Len(entries) + 1])
    BY <1>6 DEF AppendElsewhere
  <2>2. \A b \in 1..Len(arrays) : arrays'[b] = arrays[b]
    BY <1>1, <2>1
  <2>3. QED
    BY <1>4, <2>2, Zenon
<1>7. QED
  BY <1>3, <1>5, <1>6

\* Whatever the loop can read after a step of the worker it could read before,
\* and the entry is the same, or the pointer is one the worker holds now.
LEMMA WhatIsRead ==
    ASSUME IInv, IInv', (\E hvpa \in Hvpas : ManageCache(hvpa)) \/ Proceed,
           NEW h, h \in Header, h.array \in 1..Len(arrays),
           NEW p, p \in Read(arrays', h)
    PROVE  (p \in Read(arrays, h) /\ entries'[p] = entries[p]) \/ p \in Held'
<1>1. HeapOK(arrays, entries) /\ arrays \in Seq(Seq(Slot))
  BY DEF IInv, SliceInv, TypeOK
<1>2. ASSUME arrays'[h.array] = arrays[h.array], \A q \in 1..Len(entries) : entries'[q] = entries[q]
      PROVE  p \in Read(arrays, h) /\ entries'[p] = entries[p]
  <2>1. p \in Read(arrays, h)
    BY <1>2, ReadSameArray, Zenon
  <2>2. QED
    BY <1>1, <1>2, <2>1, ReadExists, Zenon
<1>3. ASSUME NEW a, NEW i, NEW q, arrays' = Assigned(arrays, a, i, q),
             Assignable(arrays, a, i, q), q # Nil => q \in Held',
             \A e \in 1..Len(entries) : entries'[e] = entries[e]
      PROVE  (p \in Read(arrays, h) /\ entries'[p] = entries[p]) \/ p \in Held'
  <2>1. p \in Read(arrays, h) \/ (p = q /\ q # Nil)
    BY <1>3, ReadAssigned, Zenon
  <2>2. CASE p \in Read(arrays, h)
    BY <1>1, <1>3, <2>2, ReadExists, Zenon
  <2>3. QED
    BY <1>3, <2>1, <2>2, Zenon
<1>4. ASSUME NEW hvpa \in Hvpas, FirstEntry(hvpa)
      PROVE  (p \in Read(arrays, h) /\ entries'[p] = entries[p]) \/ p \in Held'
  BY <1>2, <1>4, FirstEntryLeaves, Zenon
<1>5. ASSUME NEW hvpa \in Hvpas, UpdateEntry(hvpa)
      PROVE  (p \in Read(arrays, h) /\ entries'[p] = entries[p]) \/ p \in Held'
  <2>1. PICK pointer \in PointersOf(hvpa) : entries' = [entries EXCEPT ![pointer] = New(hvpa)]
    BY <1>5 DEF UpdateEntry
  <2>2. arrays' = arrays /\ header' = header
    BY <1>5 DEF UpdateEntry
  <2>3. p \in Read(arrays, h)
    BY <2>2, Zenon
  <2>4. CASE p = pointer
    <3>1. PICK i \in SlotsOf(header, hvpa) : pointer = At(header, i)
      BY <2>1 DEF PointersOf
    <3>2. header # Nil /\ i \in 1..header.len /\ arrays[header.array][i] # Nil
          /\ pointer = arrays[header.array][i]
      BY <3>1 DEF SlotsOf, Slots, At
    <3>3. QED
      BY <2>2, <2>4, <3>2, HeldAfter, Zenon
  <2>5. CASE p # pointer
    <3>1. p \in 1..Len(entries) /\ entries \in Seq(Entry)
      BY <1>1, <2>3, ReadExists DEF HeapOK
    <3>2. entries'[p] = entries[p]
      BY <2>1, <2>5, <3>1
    <3>3. QED
      BY <2>3, <3>2
  <2>6. QED
    BY <2>4, <2>5
<1>6. ASSUME NEW hvpa \in Hvpas, AppendEntry(hvpa)
      PROVE  (p \in Read(arrays, h) /\ entries'[p] = entries[p]) \/ p \in Held'
  <2>1. \A q \in 1..Len(entries) : entries'[q] = entries[q]
    BY <1>6, AppendLeaves, Zenon
  <2>2. CASE \A b \in 1..Len(arrays) : arrays'[b] = arrays[b]
    BY <1>2, <2>1, <2>2, Zenon
  <2>3. CASE /\ arrays' = Assigned(arrays, header.array, header.len + 1, Len(entries) + 1)
             /\ Assignable(arrays, header.array, header.len + 1, Len(entries) + 1)
             /\ Assigning' /\ worker'.next = H(header.array, header.len + 1)
    <3>1. PICK i, q : i = header.len + 1 /\ q = Len(entries) + 1
      OBVIOUS
    <3>2. worker'.next.array = header.array /\ worker'.next.len = i
      BY <2>3, <3>1 DEF H
    <3>3. i \in 1..i
      <4>1. header \in Header
        BY <1>6 DEF IInv, TypeOK, AppendEntry
      <4>2. QED
        BY <3>1, <4>1 DEF Header
    <3>4. DiffersOnlyAt(arrays, header.array, i, q, arrays')
      BY <2>3, <3>1, AssignElement, Zenon
    <3>5. arrays'[header.array][i] = q
      BY <3>4, Zenon DEF DiffersOnlyAt
    <3>6. q # Nil => q \in Held'
      BY <2>3, <3>2, <3>3, <3>5, HeldAfter, Zenon
    <3>7. QED
      BY <1>3, <2>1, <2>3, <3>1, <3>6, Zenon
  <2>4. QED
    BY <1>6, <2>2, <2>3, AppendLeaves, Zenon
<1>7. CASE (\E hvpa \in Hvpas : StartRemoval(hvpa)) \/ StoreNils \/ StoreHeader
  <2>1. arrays' = arrays /\ entries' = entries
    BY <1>7 DEF StartRemoval, StoreNils, StoreHeader
  <2>2. QED
    BY <1>2, <2>1, Zenon
<1>8. CASE MoveLast
  <2> DEFINE s == worker.slot
             q == At(header, header.len)
  <2>1. /\ arrays' = Assigned(arrays, header.array, s, q)
        /\ header' = header /\ entries' = entries
    BY <1>8 DEF MoveLast, Assigned
  <2>2. header # Nil /\ Good(arrays, entries, header) /\ s \in 1..header.len
    BY <1>8 DEF MoveLast, IInv, SliceInv, MoveInv
  <2>3. Assignable(arrays, header.array, s, q)
    <3>1. /\ header.array \in 1..Len(arrays) /\ s \in 1..Len(arrays[header.array])
          /\ header.len \in 1..header.len
      BY <2>2 DEF Good, Sound, Header
    <3>2. arrays[header.array][header.len] \in Slot
      BY <1>1, <2>2, <3>1, ElementExists, Zenon DEF Good
    <3>3. QED
      BY <1>1, <3>1, <3>2, Zenon DEF Assignable, At
  <2> HIDE DEF s, q
  <2>4. DiffersOnlyAt(arrays, header.array, s, q, arrays')
    BY <2>1, <2>3, AssignElement, Zenon
  <2>5. arrays'[header.array][s] = q
    BY <2>4, Zenon DEF DiffersOnlyAt
  <2>6. q # Nil => q \in Held'
    BY <2>1, <2>2, <2>5, HeldAfter, Zenon
  <2>7. QED
    BY <1>3, <2>1, <2>3, <2>6, Zenon
<1>9. CASE ClearLast
  <2>1. /\ arrays' = Assigned(arrays, header.array, header.len, Nil)
        /\ header' = header /\ entries' = entries
    BY <1>9 DEF ClearLast, Assigned
  <2>2. Sound(arrays, header) /\ worker.slot \in 1..header.len
    BY <1>9 DEF ClearLast, IInv, SliceInv, ClearInv
  <2>3. Assignable(arrays, header.array, header.len, Nil)
    <3>1. header.array \in 1..Len(arrays) /\ header.len \in 1..Len(arrays[header.array])
      BY <2>2 DEF Sound, Header
    <3>2. QED
      BY <1>1, <3>1 DEF Assignable, Slot
  <2>4. QED
    BY <1>3, <2>1, <2>3, Zenon
<1>10. QED
  BY <1>4, <1>5, <1>6, <1>7, <1>8, <1>9 DEF ManageCache, Proceed

-----------------------------------------------------------------------------
(* A lookup while the worker assigns to the map.                           *)

\* Whichever words of the two headers the loop gets, it reads what is held.
LEMMA TornHeaders ==
    ASSUME IInv, RoomInv, NEW slice, slice \in Headers
    PROVE  Read(arrays, slice) \subseteq Held
<1> DEFINE n == worker.next
<1>1. CASE slice = header
  BY <1>1, Zenon DEF Held
<1>2. CASE Assigning /\ slice = n
  BY <1>2 DEF Held
<1>3. ASSUME Assigning, header # Nil,
             \/ slice = [array |-> header.array, len |-> n.len]
             \/ slice = [array |-> n.array, len |-> header.len],
             NEW p, p \in Read(arrays, slice)
      PROVE  p \in Held
  <2>1. PICK i \in 1..slice.len : i <= Len(arrays[slice.array]) /\ arrays[slice.array][i] = p /\ p # Nil
    BY <1>3, ReadSlot, Zenon
  <2>2. /\ header.len \in Nat /\ n.len \in Nat /\ Sound(arrays, header) /\ Sound(arrays, n)
        /\ worker.pc = "store" /\ (Shrinks \/ Grows \/ Starts) /\ Good(arrays, entries, n)
    BY <1>3 DEF IInv, SliceInv, MakeInv, StoreInv, Good, Sound, Header, Assigning
  <2>3. ASSUME i \in 1..header.len, slice.array = header.array
        PROVE  p \in Held
    <3>1. arrays[header.array][i] \in Read(arrays, header)
      BY <2>1, <2>2, <2>3, HeldSlot, Zenon
    <3>2. QED
      BY <2>1, <2>3, <3>1, Zenon DEF Held
  <2>4. ASSUME i \in 1..n.len, slice.array = n.array
        PROVE  p \in Held
    <3>1. arrays[n.array][i] \in Read(arrays, n)
      BY <2>1, <2>2, <2>4, HeldSlot, Zenon
    <3>2. p \in Read(arrays, n)
      BY <2>1, <2>4, <3>1, Zenon
    <3>3. QED
      BY <1>3, <3>2 DEF Held
  <2>5. CASE slice = [array |-> header.array, len |-> n.len]
    <3>1. slice.array = header.array /\ slice.len = n.len
      BY <2>5
    <3>2. CASE n.array = header.array
      BY <2>1, <2>4, <3>1, <3>2, Zenon
    <3>3. CASE n.array # header.array
      <4>1. header.len = Len(arrays[header.array])
        BY <2>2, <3>3 DEF RoomInv, Capacity
      <4>2. i \in 1..header.len
        BY <2>1, <2>2, <3>1, <4>1
      <4>3. QED
        BY <2>3, <3>1, <4>2, Zenon
    <3>4. QED
      BY <3>2, <3>3
  <2>6. CASE slice = [array |-> n.array, len |-> header.len]
    <3>1. slice.array = n.array /\ slice.len = header.len
      BY <2>6
    <3>2. CASE n.array = header.array
      BY <2>1, <2>3, <3>1, <3>2, Zenon
    <3>3. CASE n.array # header.array
      <4>1. header.len <= n.len
        BY <2>2, <3>3 DEF Shrinks, H, Grows, Starts
      <4>2. i \in 1..n.len
        BY <2>1, <2>2, <3>1, <4>1
      <4>3. QED
        BY <2>4, <3>1, <4>2, Zenon
    <3>4. QED
      BY <3>2, <3>3
  <2>7. QED
    BY <1>3, <2>5, <2>6
<1>4. QED
  BY <1>1, <1>2, <1>3 DEF Headers

-----------------------------------------------------------------------------
(* The parts of the invariant, action by action.                           *)

LEMMA WorkerKeepsRoom ==
    ASSUME IInv, RoomInv, (\E hvpa \in Hvpas : ManageCache(hvpa)) \/ Proceed
    PROVE  RoomInv'
<1>1. arrays \in Seq(Seq(Slot)) /\ header \in Header \union {Nil} /\ worker \in Worker
  BY DEF IInv, TypeOK
<1>2. ASSUME NEW hvpa \in Hvpas, FirstEntry(hvpa)
      PROVE  RoomInv'
  <2> DEFINE N == <<Nil>>
             Q == <<Len(entries) + 1>>
  <2>1. Len(entries) + 1 \in Slot
    BY NewEntry, Allocate, <1>2 DEF IInv, SliceInv, FirstEntry
  <2>2. N \in Seq(Slot) /\ Q \in Seq(Slot) /\ Len(N) = 1 /\ arrays' = arrays \o <<N, Q>>
    BY <1>2, <2>1 DEF FirstEntry, Slot
  <2> HIDE DEF N, Q
  <2>3. <<N, Q>> \in Seq(Seq(Slot)) /\ Len(<<N, Q>>) = 2 /\ <<N, Q>>[1] = N
    BY <2>2
  <2>4. arrays'[Len(arrays) + 1] = N
    BY <1>1, <2>2, <2>3, ConcatTwo
  <2>5. worker'.pc = "make" /\ worker'.next.array = Len(arrays) + 1
    BY <1>2 DEF FirstEntry, WorkerIdle
  <2>6. QED
    BY <2>2, <2>4, <2>5 DEF RoomInv, Capacity
<1>3. ASSUME NEW hvpa \in Hvpas, UpdateEntry(hvpa) \/ StartRemoval(hvpa)
      PROVE  RoomInv'
  BY <1>3 DEF UpdateEntry, StartRemoval, Learns, RoomInv, WorkerIdle
<1>4. ASSUME NEW hvpa \in Hvpas, AppendEntry(hvpa)
      PROVE  RoomInv'
  <2>1. header' = header /\ header.array \in 1..Len(arrays)
    BY <1>4 DEF AppendEntry, IInv, SliceInv, Sound
  <2>2. CASE AppendInPlace(Len(entries) + 1)
    BY <2>1, <2>2 DEF AppendInPlace, Storing, WorkerIdle, RoomInv
  <2>3. CASE AppendElsewhere(Len(entries) + 1)
    <3>1. arrays'[header.array] = arrays[header.array]
      BY <1>1, <2>1, <2>3 DEF AppendElsewhere
    <3>2. header.len = Len(arrays[header.array]) /\ worker'.pc = "store"
      BY <2>3 DEF AppendElsewhere, Capacity, Storing, WorkerIdle
    <3>3. QED
      BY <2>1, <3>1, <3>2 DEF RoomInv, Capacity
  <2>4. QED
    BY <1>4, <2>2, <2>3 DEF AppendEntry
<1>5. CASE StoreNils
  BY <1>5 DEF StoreNils, Storing, WorkerIdle, RoomInv, IInv, SliceInv, MakeInv, Capacity
<1>6. CASE MoveLast \/ StoreHeader
  BY <1>1, <1>6 DEF MoveLast, StoreHeader, WorkerIdle, RoomInv, Worker
<1>7. CASE ClearLast
  <2>1. header # Nil
    BY <1>7 DEF ClearLast, IInv, SliceInv, ClearInv
  <2>2. header' = header /\ worker'.pc = "store" /\ worker'.next.array = header.array
    BY <1>1, <1>7, <2>1 DEF ClearLast, Storing, WorkerIdle, Header
  <2>3. QED
    BY <2>2 DEF RoomInv
<1>8. QED
  BY <1>2, <1>3, <1>4, <1>5, <1>6, <1>7 DEF ManageCache, Proceed

LEMMA WorkerKeepsEver ==
    ASSUME IInv, IInv', EverInv, WorkerStep
    PROVE  EverInv'
<1>1. ((\E hvpa \in Hvpas : ManageCache(hvpa)) \/ Proceed) /\ Witness
  BY DEF WorkerStep
<1>2. UNCHANGED handler
  BY <1>1, ArraysStay DEF IInv
<1>3. SUFFICES ASSUME handler.pc = "scan", NEW hvpa \in Hvpas, NEW p \in Read(arrays', handler.slice),
                      entries'[p].name = hvpa,
                      Matches(entries'[p].selector, handler.labels)
               PROVE  hvpa \in loop'.ever
  BY <1>2 DEF EverInv, Offering, Read
<1>4. loop'.ever = loop.ever \union Offered(handler.labels)'
  BY <1>1, <1>3 DEF Witness
<1>5. Offered(handler.labels)' = Offering(entries', Held', handler.labels)
  <2>1. PICK l : l = handler.labels
    OBVIOUS
  <2>2. Offered(handler.labels)' = Offered(l)'
    BY <1>2, <2>1 DEF Offered, Offers, SlotsOf, At, Slots
  <2>3. QED
    BY <2>1, <2>2, OfferedHeld
<1>6. handler.slice \in Header /\ handler.slice.array \in 1..Len(arrays)
  <2>1. handler.slice # Nil
    BY <1>3 DEF Read
  <2>2. QED
    BY <1>3, <2>1 DEF IInv, TypeOK, Handler, HandlerInv
<1>7. (p \in Read(arrays, handler.slice) /\ entries'[p] = entries[p]) \/ p \in Held'
  BY <1>1, <1>6, WhatIsRead
<1>8. CASE p \in Read(arrays, handler.slice) /\ entries'[p] = entries[p]
  BY <1>3, <1>4, <1>8 DEF EverInv, Offering
<1>9. CASE p \in Held'
  BY <1>3, <1>4, <1>5, <1>9 DEF Offering
<1>10. QED
  BY <1>7, <1>8, <1>9

\* The steps of the handler do not touch the slice, and a lookup starts with all
\* that is on offer.
LEMMA HandlerKeepsEver ==
    ASSUME IInv, RoomInv, EverInv, HandlerStep
    PROVE  RoomInv' /\ EverInv'
<1>1. UNCHANGED <<entries, arrays, header, worker>>
  BY DEF HandlerStep, Lookup, LookupIsFatal, ReadMatch, ReadOther, ReadHole, EndScan, Answer, Look
<1>2. RoomInv'
  BY <1>1 DEF RoomInv, Capacity
<1>3. ASSUME NEW labels \in Labels, Lookup(labels)
      PROVE  EverInv'
  <2>1. PICK slice \in Headers :
          handler' = [HandlerIdle EXCEPT !.pc = "scan", !.slice = slice, !.labels = labels]
    BY <1>3 DEF Lookup
  <2>2. handler'.slice = slice /\ handler'.labels = labels
    BY <2>1 DEF HandlerIdle
  <2>3. Read(arrays, slice) \subseteq Held
    BY TornHeaders
  <2>4. loop'.ever = Offering(entries, Held, labels)
    <3>1. loop'.ever = Offered(labels)
      BY <1>3 DEF Lookup
    <3>2. QED
      BY <3>1, OfferedHeld, Zenon
  <2>5. Offering(entries, Read(arrays, slice), labels) \subseteq Offering(entries, Held, labels)
    BY <2>3 DEF Offering
  <2>6. Offering(entries', Read(arrays', handler'.slice), handler'.labels) \subseteq loop'.ever
    BY <1>1, <2>2, <2>4, <2>5, Zenon
  <2>7. QED
    BY <2>6, Zenon DEF EverInv
<1>4. CASE ReadOther
  <2>1. /\ handler.pc = "scan" /\ loop' = loop
        /\ handler'.slice = handler.slice /\ handler'.labels = handler.labels
    BY <1>4 DEF ReadOther, Scanning, IInv, TypeOK, Handler
  <2>2. Offering(entries, Read(arrays, handler.slice), handler.labels) \subseteq loop.ever
    BY <2>1, Zenon DEF EverInv
  <2>3. Offering(entries', Read(arrays', handler'.slice), handler'.labels) \subseteq loop'.ever
    BY <1>1, <2>1, <2>2, Zenon
  <2>4. QED
    BY <1>2, <2>3, Zenon DEF EverInv
<1>5. CASE LookupIsFatal \/ ReadMatch \/ ReadHole \/ EndScan
  <2>1. handler'.pc # "scan"
    BY <1>5 DEF LookupIsFatal, ReadMatch, ReadHole, EndScan, Answer, HandlerIdle
  <2>2. QED
    BY <1>2, <2>1, Zenon DEF EverInv
<1>6. QED
  BY <1>2, <1>3, <1>4, <1>5 DEF HandlerStep

\* Nor do the users; after a restart nothing is read.
LEMMA OthersKeepLoop ==
    ASSUME LoopInv, UserStep \/ Restart
    PROVE  RoomInv' /\ EverInv' /\ AlwaysInv'
<1>1. CASE UserStep
  <2>1. UNCHANGED <<entries, arrays, header, worker, handler, loop>>
    BY <1>1 DEF UserStep, UserCreates, UserDeletes, UserEditsTarget, Apart
  <2>2. RoomInv' /\ EverInv'
    BY <2>1 DEF LoopInv, RoomInv, Capacity, EverInv, Read, Offering
  <2>3. AlwaysInv'
    BY <2>1 DEF LoopInv, AlwaysInv, AheadAt, Offers, SlotsOf, Slots, At, Capacity
  <2>4. QED
    BY <2>2, <2>3
<1>2. CASE Restart
  BY <1>2 DEF Restart, WorkerIdle, HandlerIdle, RoomInv, EverInv, AlwaysInv
<1>3. QED
  BY <1>1, <1>2

-----------------------------------------------------------------------------
(* An HVPA that matches all the time.                                      *)

\* Storing the next slice takes nothing out of its slot.
LEMMA StoreKeepsSlot ==
    ASSUME IInv, worker.pc = "store", NEW i \in 1..header.len, At(header, i) # Nil
    PROVE  /\ i \in 1..worker.next.len /\ At(worker.next, i) = At(header, i)
           /\ i <= Capacity(worker.next) /\ i <= Capacity(header)
           /\ worker.next # Nil
<1> DEFINE n == worker.next
<1>1. /\ Sound(arrays, header) /\ Good(arrays, entries, n) /\ (Shrinks \/ Grows \/ Starts)
      /\ n # Nil
  BY HeadersSound DEF IInv, SliceInv, StoreInv, Assigning
<1>2. header.len \in Nat /\ n.len \in Nat /\ i \in Nat
  BY <1>1 DEF Good, Sound, Header
<1>3. i \in 1..n.len /\ At(n, i) = At(header, i)
  <2>1. CASE Shrinks
    <3>1. n = H(header.array, header.len - 1) /\ i # header.len
      BY <2>1 DEF Shrinks
    <3>2. n.array = header.array /\ n.len = header.len - 1
      BY <3>1 DEF H
    <3>3. At(n, i) = At(header, i)
      BY <3>2, Zenon DEF At
    <3>4. i \in 1..n.len
      BY ONLY <1>2, <3>1, <3>2
    <3>5. QED
      BY <3>3, <3>4
  <2>2. CASE Grows
    <3>1. n.len = header.len + 1 /\ At(n, i) = At(header, i)
      BY <2>2 DEF Grows
    <3>2. QED
      BY ONLY <1>2, <3>1
  <2>3. CASE Starts
    <3>1. i = 1
      BY <2>3 DEF Starts
    <3>2. QED
      BY <2>3, <3>1, Zenon DEF Starts
  <2>4. QED
    BY <1>1, <2>1, <2>2, <2>3
<1>4. i <= Capacity(n)
  <2>1. n.len \in 0..Len(arrays[n.array])
    BY <1>1 DEF Good, Sound
  <2>2. QED
    BY <1>2, <1>3, <2>1 DEF Capacity
<1>5. i <= Capacity(header)
  <2>1. header.len \in 0..Len(arrays[header.array])
    BY <1>1 DEF Sound
  <2>2. QED
    BY <1>2, <2>1 DEF Capacity
<1>6. QED
  BY <1>1, <1>3, <1>4, <1>5

\* All slots with an entry of one HVPA point to the same entry, in the middle of
\* a removal, too.
LEMMA SamePointer ==
    ASSUME IInv, NEW i \in 1..header.len, NEW j \in 1..header.len, header # Nil,
           At(header, i) # Nil, At(header, j) # Nil,
           entries[At(header, i)].name = entries[At(header, j)].name
    PROVE  At(header, i) = At(header, j)
<1>1. worker.pc \in {"idle", "make", "store", "move", "clear"} /\ worker.pc # "make"
  BY DEF IInv, TypeOK, Worker, SliceInv, MakeInv
<1>2. CASE worker.pc \in {"idle", "move"}
  <2>1. Distinct(arrays, entries, header)
    BY <1>2 DEF IInv, SliceInv, IdleInv, MoveInv, Good
  <2>2. i = j
    BY <2>1 DEF Distinct, At
  <2>3. QED
    BY <2>2
<1>3. CASE worker.pc = "store"
  <2> DEFINE n == worker.next
  <2>1. /\ i \in 1..n.len /\ At(n, i) = At(header, i)
        /\ j \in 1..n.len /\ At(n, j) = At(header, j)
    BY <1>3, StoreKeepsSlot
  <2>2. Distinct(arrays, entries, n)
    BY <1>3 DEF IInv, SliceInv, StoreInv, Good
  <2>3. entries[At(n, i)].name = entries[At(n, j)].name
    BY <2>1
  <2> HIDE DEF n
  <2>4. i = j
    BY ONLY <2>1, <2>2, <2>3 DEF Distinct, At
  <2>5. QED
    BY <2>4
<1>4. CASE worker.pc = "clear"
  <2> DEFINE s == worker.slot
  <2>1. /\ header.len \in Nat /\ s \in 1..header.len /\ At(header, s) = At(header, header.len)
        /\ Distinct(arrays, entries, H(header.array, header.len - 1))
        /\ s = header.len => Distinct(arrays, entries, header)
    BY <1>4 DEF IInv, SliceInv, ClearInv, Sound, Header
  <2> HIDE DEF s
  <2>2. CASE s = header.len
    <3>1. i = j
      BY <2>1, <2>2 DEF Distinct, At
    <3>2. QED
      BY <3>1
  <2>3. CASE s # header.len
    <3>1. PICK k : k \in 1..(header.len - 1) /\ At(header, k) = At(header, i)
      <4>1. CASE i = header.len
        <5>1. s \in 1..(header.len - 1)
          BY ONLY <2>1, <2>3
        <5>2. QED
          BY <2>1, <4>1, <5>1
      <4>2. CASE i # header.len
        <5>1. i \in 1..(header.len - 1)
          BY ONLY <2>1, <4>2, i \in 1..header.len
        <5>2. QED
          BY <5>1
      <4>3. QED
        BY <4>1, <4>2
    <3>2. PICK l : l \in 1..(header.len - 1) /\ At(header, l) = At(header, j)
      <4>1. CASE j = header.len
        <5>1. s \in 1..(header.len - 1)
          BY ONLY <2>1, <2>3
        <5>2. QED
          BY <2>1, <4>1, <5>1
      <4>2. CASE j # header.len
        <5>1. j \in 1..(header.len - 1)
          BY ONLY <2>1, <4>2, j \in 1..header.len
        <5>2. QED
          BY <5>1
      <4>3. QED
        BY <4>1, <4>2
    <3>3. entries[At(header, k)].name = entries[At(header, l)].name
      BY <3>1, <3>2
    <3>4. \A x, y \in 1..(header.len - 1) :
            entries[At(header, x)].name = entries[At(header, y)].name => x = y
      BY <2>1, Zenon DEF Distinct, H, At
    <3>5. k = l
      BY ONLY <3>1, <3>2, <3>3, <3>4
    <3>6. QED
      BY <3>1, <3>2, <3>5
  <2>4. QED
    BY <2>2, <2>3
<1>5. QED
  BY <1>1, <1>2, <1>3, <1>4

\* Once the last slot is cleared for the HVPA in it, the slice offers it no more.
LEMMA ClearedOffersNot ==
    ASSUME IInv, ClearLast, worker.slot = header.len,
           NEW labels, NEW hvpa, hvpa \in Offers(header, labels)'
    PROVE  entries[At(header, header.len)].name # hvpa
<1> DEFINE B == Assigned(arrays, header.array, header.len, Nil)
<1>1. arrays' = B /\ entries' = entries /\ header' = header /\ worker.pc = "clear"
  BY DEF ClearLast, Assigned
<1>2. /\ header # Nil /\ HeapOK(arrays, entries) /\ Sound(arrays, header)
      /\ Full(arrays, header) /\ Distinct(arrays, entries, header)
      /\ Distinct(arrays, entries, H(header.array, header.len - 1))
      /\ header.len \in 1..header.len /\ header.len # 0 /\ header.len \in Nat
  BY <1>1 DEF IInv, SliceInv, ClearInv, Sound, Header
<1>3. PICK j : /\ j \in 1..header.len /\ B[header.array][j] # Nil
               /\ entries[B[header.array][j]].name = hvpa
  BY <1>1, <1>2 DEF Offers, SlotsOf, Slots, At
<1>4. /\ B[header.array][header.len] = Nil
      /\ \A i \in 1..(header.len - 1) : B[header.array][i] = arrays[header.array][i]
  BY <1>2, Clears
<1> HIDE DEF B
<1>5. j # header.len
  BY <1>3, <1>4
<1>6. j \in 1..(header.len - 1)
  BY ONLY <1>2, <1>3, <1>5
<1>7. entries[arrays[header.array][j]].name = hvpa
  BY <1>3, <1>4, <1>6, Zenon
<1>8. QED
  BY <1>2, <1>3, <1>5, <1>7, Zenon DEF Distinct, At

\* Except for the move of the last element no step of the worker takes an HVPA
\* out of the slot in which the loop is going to find it.
LEMMA WorkerKeepsPlace ==
    ASSUME IInv, (\E hvpa \in Hvpas : ManageCache(hvpa)) \/ Proceed, worker.pc # "move",
           handler.slice # Nil => handler.slice.array \in 1..Len(arrays),
           NEW h \in Hvpas, NEW labels, header # Nil, h \in Offers(header, labels)',
           handler.slice # Nil, NEW i \in 1..header.len, i <= Capacity(handler.slice),
           At(header, i) # Nil, entries[At(header, i)].name = h,
           At(handler.slice, i) = At(header, i),
           worker.pc = "clear" /\ i = header.len => worker.slot = header.len
    PROVE  /\ worker'.pc # "clear"
           /\ i \in 1..header'.len
           /\ Len(arrays'[handler.slice.array]) = Capacity(handler.slice)
           /\ arrays'[handler.slice.array][i] = At(handler.slice, i)
           /\ arrays'[header'.array][i] = At(header, i)
           /\ entries'[At(header, i)].name = h
<1> DEFINE a == handler.slice.array
           p == At(header, i)
           Kept == /\ worker'.pc # "clear"
                   /\ i \in 1..header'.len
                   /\ Len(arrays'[a]) = Capacity(handler.slice)
                   /\ arrays'[a][i] = At(handler.slice, i)
                   /\ arrays'[header'.array][i] = p
                   /\ entries'[p].name = h
<1>1. /\ HeapOK(arrays, entries) /\ Sound(arrays, header) /\ a \in 1..Len(arrays)
      /\ header.array \in 1..Len(arrays) /\ header.len \in Nat
      /\ i \in 1..Len(arrays[header.array]) /\ i \in 1..Len(arrays[a])
  <2>1. HeapOK(arrays, entries) /\ Sound(arrays, header) /\ a \in 1..Len(arrays)
    BY DEF IInv, SliceInv
  <2>2. header.array \in 1..Len(arrays) /\ header.len \in Nat
    BY <2>1 DEF Sound, Header
  <2>3. i \in 1..Len(arrays[header.array])
    BY <2>1, ElementExists
  <2>4. arrays[a] \in Seq(Slot)
    BY <2>1 DEF HeapOK
  <2>5. i \in 1..Len(arrays[a])
    BY <2>2, <2>4 DEF Capacity
  <2>6. QED
    BY <2>1, <2>2, <2>3, <2>5
<1>2. p \in 1..Len(entries)
  BY <1>1, ElementExists DEF At
<1>3. ASSUME arrays' = arrays, entries'[p].name = h, worker'.pc # "clear",
             i \in 1..header'.len, arrays[header'.array][i] = p
      PROVE  Kept
  BY <1>3, Zenon DEF At, Capacity
<1>4. ASSUME NEW b, NEW k, NEW q, Assignable(arrays, b, k, q), arrays' = Assigned(arrays, b, k, q),
             header' = header, entries'[p].name = h, worker'.pc # "clear",
             b = header.array => i # k, b = a => i # k
      PROVE  Kept
  <2>1. DiffersOnlyAt(arrays, b, k, q, arrays')
    BY <1>4, AssignElement, Zenon
  <2>2. /\ \A c \in 1..Len(arrays) : Len(arrays'[c]) = Len(arrays[c])
        /\ \A c \in 1..Len(arrays) : c # b => arrays'[c] = arrays[c]
        /\ \A j \in 1..Len(arrays[b]) : j # k => arrays'[b][j] = arrays[b][j]
    BY ONLY <2>1, Zenon DEF DiffersOnlyAt
  <2>3. arrays'[a][i] = arrays[a][i] /\ arrays'[header.array][i] = arrays[header.array][i]
    BY <1>1, <1>4, <2>2, Zenon
  <2>4. Len(arrays'[a]) = Len(arrays[a])
    BY <1>1, <2>2, Zenon
  <2>5. QED
    BY <1>4, <2>3, <2>4, Zenon DEF At, Capacity
<1>5. ASSUME NEW hvpa \in Hvpas, FirstEntry(hvpa)
      PROVE  Kept
  BY <1>5 DEF FirstEntry
<1>6. ASSUME NEW hvpa \in Hvpas, UpdateEntry(hvpa)
      PROVE  Kept
  <2>1. PICK pointer \in PointersOf(hvpa) : entries' = [entries EXCEPT ![pointer] = New(hvpa)]
    BY <1>6 DEF UpdateEntry
  <2>2. UNCHANGED <<arrays, header, worker>> /\ worker.pc = "idle"
    BY <1>6 DEF UpdateEntry, Learns
  <2>3. entries[pointer].name = hvpa /\ New(hvpa).name = hvpa
    BY <2>1 DEF PointersOf, SlotsOf, New
  <2>4. entries \in Seq(Entry)
    BY <1>1 DEF HeapOK
  <2>5. entries'[p].name = h
    <3>1. CASE p = pointer
      <4>1. entries'[p] = New(hvpa)
        BY <1>2, <2>1, <2>4, <3>1
      <4>2. QED
        BY <2>3, <3>1, <4>1
    <3>2. CASE p # pointer
      BY <1>2, <2>1, <2>4, <3>2
    <3>3. QED
      BY <3>1, <3>2
  <2>6. arrays[header'.array][i] = p /\ i \in 1..header'.len
    BY <2>2, Zenon DEF At
  <2>7. QED
    BY <1>3, <2>2, <2>5, <2>6, Zenon
<1>7. ASSUME NEW hvpa \in Hvpas, AppendEntry(hvpa)
      PROVE  Kept
  <2>1. entries'[p].name = h
    BY <1>2, <1>7, AppendLeaves, Zenon
  <2>2. header' = header /\ worker'.pc # "clear"
    BY <1>7 DEF AppendEntry, AppendInPlace, AppendElsewhere, Storing, WorkerIdle
  <2>3. CASE \A b \in 1..Len(arrays) : arrays'[b] = arrays[b]
    BY <1>1, <2>1, <2>2, <2>3, Zenon DEF At, Capacity
  <2>4. CASE /\ arrays' = Assigned(arrays, header.array, header.len + 1, Len(entries) + 1)
             /\ Assignable(arrays, header.array, header.len + 1, Len(entries) + 1)
    <3>1. i # header.len + 1
      BY ONLY <1>1, i \in 1..header.len
    <3>2. QED
      BY <1>4, <2>1, <2>2, <2>4, <3>1, Zenon
  <2>5. QED
    BY <1>7, <2>3, <2>4, AppendLeaves, Zenon
<1>8. CASE \E hvpa \in Hvpas : StartRemoval(hvpa)
  <2>1. UNCHANGED <<arrays, header, entries>> /\ worker'.pc # "clear"
    BY <1>8 DEF StartRemoval, WorkerIdle
  <2>2. QED
    BY <1>3, <2>1, Zenon DEF At
<1>9. CASE StoreNils
  BY <1>9 DEF StoreNils, IInv, SliceInv, MakeInv
<1>10. CASE MoveLast
  BY <1>10 DEF MoveLast
<1>11. CASE ClearLast
  <2>1. /\ arrays' = Assigned(arrays, header.array, header.len, Nil)
        /\ header' = header /\ entries' = entries /\ worker'.pc # "clear" /\ worker.pc = "clear"
    BY <1>11 DEF ClearLast, Assigned, Storing, WorkerIdle
  <2>2. Assignable(arrays, header.array, header.len, Nil)
    <3>1. header.len \in 1..Len(arrays[header.array])
      BY <1>1 DEF Sound
    <3>2. QED
      BY <1>1, <3>1 DEF Assignable, Slot, HeapOK
  <2>3. i # header.len
    BY <1>11, <2>1, ClearedOffersNot
  <2>4. QED
    BY <1>4, <2>1, <2>2, <2>3, Zenon
<1>12. CASE StoreHeader
  <2>1. /\ header' = worker.next /\ UNCHANGED <<entries, arrays>>
        /\ worker.pc = "store" /\ worker'.pc # "clear"
    BY <1>12 DEF StoreHeader, WorkerIdle
  <2>2. i \in 1..worker.next.len /\ At(worker.next, i) = p
    BY <2>1, StoreKeepsSlot
  <2>3. QED
    BY <1>3, <2>1, <2>2, Zenon DEF At
<1>13. QED
  BY <1>5, <1>6, <1>7, <1>8, <1>9, <1>10, <1>11, <1>12, Zenon DEF ManageCache, Proceed

LEMMA WorkerKeepsAlways ==
    ASSUME IInv, AlwaysInv, WorkerStep
    PROVE  AlwaysInv'
<1>1. ((\E hvpa \in Hvpas : ManageCache(hvpa)) \/ Proceed) /\ Witness
  BY DEF WorkerStep
<1>2. handler' = handler
  BY <1>1, ArraysStay DEF IInv
<1>3. PICK labels : labels = handler.labels
  OBVIOUS
<1>4. SUFFICES ASSUME handler.pc = "scan", ~loop'.moved
               PROVE  /\ loop'.always \subseteq Offers(header, labels)'
                      /\ \A hvpa \in loop'.always :
                           handler.slice # Nil /\ \E i \in 1..header'.len : AheadAt(hvpa, i)'
  BY <1>2, <1>3 DEF AlwaysInv, Offers, SlotsOf, Slots, At
<1>5. /\ loop'.always = loop.always \intersect Offers(header, labels)'
      /\ ~loop.moved /\ worker.pc # "move"
  <2>1. /\ loop'.always = loop.always \intersect Offers(header, handler.labels)'
        /\ ~loop.moved /\ worker.pc # "move"
    BY <1>1, <1>4 DEF Witness
  <2>2. Offers(header, handler.labels)' = Offers(header, labels)'
    BY <1>2, <1>3 DEF Offers, SlotsOf, Slots, At
  <2>3. QED
    BY <2>1, <2>2
<1>6. /\ loop.always \subseteq Offers(header, labels)
      /\ \A hvpa \in loop.always : handler.slice # Nil /\ \E i \in 1..header.len : AheadAt(hvpa, i)
  BY <1>3, <1>4, <1>5, Zenon DEF AlwaysInv
<1>7. ASSUME NEW hvpa \in loop'.always
      PROVE  handler.slice # Nil /\ \E i \in 1..header'.len : AheadAt(hvpa, i)'
  <2>1. hvpa \in loop.always /\ hvpa \in Offers(header, labels)' /\ hvpa \in Offers(header, labels)
    BY <1>5, <1>6, <1>7
  <2>2. hvpa \in Hvpas /\ header # Nil
    BY <2>1 DEF Offers, SlotsOf, Slots
  <2>3. PICK i \in 1..header.len : AheadAt(hvpa, i)
    BY <1>6, <2>1
  <2>4. handler.slice # Nil /\ handler.slice.array \in 1..Len(arrays)
    BY <1>4, <1>6, <2>1 DEF IInv, HandlerInv
  <2>5. /\ handler.index <= i /\ i <= handler.slice.len /\ i <= Capacity(handler.slice)
        /\ At(handler.slice, i) = At(header, i)
        /\ At(header, i) # Nil /\ entries[At(header, i)].name = hvpa
        /\ worker.pc = "clear" /\ i = header.len => worker.slot = header.len
    BY <2>3 DEF AheadAt
  <2>6. /\ worker'.pc # "clear" /\ i \in 1..header'.len
        /\ Len(arrays'[handler.slice.array]) = Capacity(handler.slice)
        /\ arrays'[handler.slice.array][i] = At(handler.slice, i)
        /\ arrays'[header'.array][i] = At(header, i)
        /\ entries'[At(header, i)].name = hvpa
    BY <1>1, <1>5, <2>1, <2>2, <2>4, <2>5, WorkerKeepsPlace, Zenon
  <2>7. AheadAt(hvpa, i)'
    <3>1. i <= Len(arrays'[handler'.slice.array])
      BY <1>2, <2>5, <2>6, Zenon
    <3>2. arrays'[handler'.slice.array][i] = arrays'[header'.array][i]
      BY <1>2, <2>5, <2>6, Zenon
    <3>3. arrays'[header'.array][i] # Nil /\ entries'[arrays'[header'.array][i]].name = hvpa
      BY <2>5, <2>6, Zenon
    <3>4. handler'.index <= i /\ i <= handler'.slice.len
      BY <1>2, <2>5, Zenon
    <3>5. QED
      BY <2>6, <3>1, <3>2, <3>3, <3>4, Zenon DEF AheadAt, At, Capacity
  <2>8. QED
    BY <2>4, <2>6, <2>7
<1>8. QED
  BY <1>5, <1>7

\* A lookup puts every HVPA that matches ahead of the loop, even one with the
\* length of another slice than the array's.
LEMMA LookupFinds ==
    ASSUME IInv, NEW slice, slice \in Headers, NEW labels,
           NEW hvpa, hvpa \in Offers(header, labels)
    PROVE  /\ slice # Nil /\ header # Nil
           /\ \E i \in 1..header.len :
                /\ i <= slice.len /\ i <= Capacity(slice)
                /\ At(slice, i) = At(header, i)
                /\ At(header, i) # Nil /\ entries[At(header, i)].name = hvpa
                /\ worker.pc = "clear" /\ i = header.len => worker.slot = header.len
<1>1. PICK j : /\ header # Nil /\ j \in 1..header.len
               /\ At(header, j) # Nil /\ entries[At(header, j)].name = hvpa
  BY DEF Offers, SlotsOf, Slots
<1>2. worker.pc # "make" /\ Sound(arrays, header)
  BY <1>1 DEF IInv, SliceInv, MakeInv
<1>3. CASE ~Assigning
  <2>1. slice = header
    BY <1>3 DEF Headers
  <2>2. PICK i \in 1..header.len :
          /\ At(header, i) # Nil /\ entries[At(header, i)].name = hvpa
          /\ worker.pc = "clear" /\ i = header.len => worker.slot = header.len
    <3>1. CASE worker.pc = "clear"
      <4>1. worker.slot \in 1..header.len /\ At(header, worker.slot) = At(header, header.len)
        BY <3>1 DEF IInv, SliceInv, ClearInv
      <4>2. CASE j = header.len
        BY <1>1, <4>1, <4>2
      <4>3. CASE j # header.len
        BY <1>1, <4>3
      <4>4. QED
        BY <4>2, <4>3
    <3>2. CASE worker.pc # "clear"
      BY <1>1, <3>2
    <3>3. QED
      BY <3>1, <3>2
  <2>3. i <= header.len /\ i <= Capacity(header)
    BY <1>2 DEF Sound, Header, Capacity
  <2>4. QED
    BY <1>1, <2>1, <2>2, <2>3, Zenon
<1>4. CASE Assigning
  <2> DEFINE n == worker.next
  <2>1. worker.pc = "store"
    BY <1>2, <1>4 DEF Assigning
  <2>2. /\ j \in 1..n.len /\ At(n, j) = At(header, j)
        /\ j <= Capacity(n) /\ j <= Capacity(header) /\ n # Nil
    BY <1>1, <2>1, StoreKeepsSlot
  <2>3. j <= n.len /\ j <= header.len
    BY <1>1, <2>2
  <2>4. /\ [array |-> header.array, len |-> n.len] # Nil
        /\ [array |-> n.array, len |-> header.len] # Nil
    <3>1. header \in Header /\ n \in Header
      BY <1>2, <1>4, HeadersSound DEF Sound
    <3>2. \A x, y \in Header : [array |-> x.array, len |-> y.len] \in Header
      BY DEF Header
    <3>3. QED
      BY <3>1, <3>2, CacheAssumption, Zenon DEF Header
  <2> HIDE DEF n
  <2>5. PICK words, length : /\ words \in {header, n} /\ length \in {header, n}
                             /\ slice.array = words.array /\ slice.len = length.len
                             /\ slice # Nil
    <3>1. CASE slice \in {header, n}
      BY <1>1, <2>2, <3>1
    <3>2. CASE slice = [array |-> header.array, len |-> n.len]
      <4>1. slice # Nil
        BY <2>4, <3>2
      <4>2. slice.array = header.array /\ slice.len = n.len
        BY <3>2
      <4>3. QED
        BY <4>1, <4>2
    <3>3. CASE slice = [array |-> n.array, len |-> header.len]
      <4>1. slice # Nil
        BY <2>4, <3>3
      <4>2. slice.array = n.array /\ slice.len = header.len
        BY <3>3
      <4>3. QED
        BY <4>1, <4>2
    <3>4. QED
      BY <1>1, <1>4, <3>1, <3>2, <3>3 DEF Headers, n
  <2>6. At(slice, j) = At(header, j) /\ j <= Capacity(slice) /\ j <= slice.len
    BY <2>2, <2>3, <2>5 DEF At, Capacity
  <2>7. QED
    BY <1>1, <2>1, <2>5, <2>6
<1>5. QED
  BY <1>3, <1>4

\* An HVPA that has matched all the time is not the element that the loop passes.
LEMMA PassesOthers ==
    ASSUME IInv, Scanning, ~IsHole, ~Matches(entries[Element].selector, handler.labels),
           NEW hvpa, hvpa \in Offers(header, handler.labels),
           NEW i \in 1..header.len, AheadAt(hvpa, i)
    PROVE  handler.index # i
<1>1. SUFFICES ASSUME handler.index = i
               PROVE  FALSE
  OBVIOUS
<1>2. Element = At(header, i)
  BY <1>1 DEF Element, AheadAt
<1>3. PICK j : /\ header # Nil /\ j \in 1..header.len
               /\ At(header, j) # Nil /\ entries[At(header, j)].name = hvpa
               /\ Matches(entries[At(header, j)].selector, handler.labels)
  BY DEF Offers, SlotsOf, Slots
<1>4. At(header, i) # Nil /\ entries[At(header, i)].name = hvpa
  BY DEF AheadAt
<1>5. At(header, i) = At(header, j)
  BY <1>3, <1>4, SamePointer, Zenon
<1>6. QED
  BY <1>2, <1>3, <1>5, Zenon

LEMMA HandlerKeepsAlways ==
    ASSUME IInv, AlwaysInv, HandlerStep
    PROVE  AlwaysInv'
<1>1. UNCHANGED <<entries, arrays, header, worker>>
  BY DEF HandlerStep, Lookup, LookupIsFatal, ReadMatch, ReadOther, ReadHole, EndScan, Answer, Look
<1>2. \A labels : Offers(header, labels)' = Offers(header, labels)
  BY <1>1 DEF Offers, SlotsOf, Slots, At
<1>3. ASSUME NEW labels \in Labels, Lookup(labels)
      PROVE  AlwaysInv'
  <2>1. PICK slice \in Headers :
          handler' = [HandlerIdle EXCEPT !.pc = "scan", !.slice = slice, !.labels = labels]
    BY <1>3 DEF Lookup
  <2>2. handler'.slice = slice /\ handler'.labels = labels /\ handler'.index = 1
    BY <2>1 DEF HandlerIdle
  <2>3. loop'.always = Offers(header, labels)
    BY <1>3 DEF Lookup
  <2>4. loop'.always \subseteq Offers(header, handler.labels)'
    <3>1. Offers(header, handler.labels)' = Offers(header, labels)
      BY <1>1, <2>2 DEF Offers, SlotsOf, Slots, At
    <3>2. QED
      BY <2>3, <3>1
  <2>5. ASSUME NEW hvpa \in loop'.always
        PROVE  handler'.slice # Nil /\ \E i \in 1..header'.len : AheadAt(hvpa, i)'
    <3>1. hvpa \in Offers(header, labels)
      BY <2>3, <2>5
    <3>2. slice # Nil
      BY <2>1, <3>1, LookupFinds
    <3>3. PICK i \in 1..header.len :
            /\ i <= slice.len /\ i <= Capacity(slice)
            /\ At(slice, i) = At(header, i)
            /\ At(header, i) # Nil /\ entries[At(header, i)].name = hvpa
            /\ worker.pc = "clear" /\ i = header.len => worker.slot = header.len
      BY <2>1, <3>1, LookupFinds
    <3>4. AheadAt(hvpa, i)'
      <4>1. handler'.index <= i
        BY <2>2
      <4>2. QED
        BY <1>1, <2>2, <3>3, <4>1, Zenon DEF AheadAt, At, Capacity
    <3>5. QED
      BY <1>1, <2>2, <3>2, <3>4, Zenon
  <2>6. QED
    BY <2>4, <2>5 DEF AlwaysInv
<1>4. CASE ReadOther
  <2>1. /\ handler.pc = "scan" /\ loop' = loop /\ handler'.index = handler.index + 1
        /\ handler'.slice = handler.slice /\ handler'.labels = handler.labels
        /\ handler.index \in Nat
    BY <1>4 DEF ReadOther, Scanning, IInv, TypeOK, Handler
  <2>2. SUFFICES ASSUME ~loop.moved
                 PROVE  /\ loop.always \subseteq Offers(header, handler.labels)'
                        /\ \A hvpa \in loop.always :
                             handler.slice # Nil /\ \E i \in 1..header.len : AheadAt(hvpa, i)'
    BY <1>1, <2>1 DEF AlwaysInv
  <2>3. loop.always \subseteq Offers(header, handler.labels)
    BY <2>1, <2>2 DEF AlwaysInv
  <2>4. Offers(header, handler.labels)' = Offers(header, handler.labels)
    BY <1>1, <2>1 DEF Offers, SlotsOf, Slots, At
  <2>5. ASSUME NEW hvpa \in loop.always
        PROVE  handler.slice # Nil /\ \E i \in 1..header.len : AheadAt(hvpa, i)'
    <3>1. handler.slice # Nil /\ \E i \in 1..header.len : AheadAt(hvpa, i)
      BY <2>1, <2>2, <2>5 DEF AlwaysInv
    <3>2. PICK i \in 1..header.len : AheadAt(hvpa, i)
      BY <3>1
    <3>3. handler.index # i
      BY <1>4, <2>3, <2>5, <3>2, PassesOthers, Zenon DEF ReadOther
    <3>4. handler.index + 1 <= i
      BY <2>1, <3>2, <3>3 DEF AheadAt
    <3>5. AheadAt(hvpa, i)'
      BY <1>1, <2>1, <3>2, <3>4, Zenon DEF AheadAt, At, Capacity
    <3>6. QED
      BY <3>1, <3>5
  <2>6. QED
    BY <2>3, <2>4, <2>5
<1>5. CASE LookupIsFatal \/ ReadMatch \/ ReadHole \/ EndScan
  <2>1. handler'.pc # "scan"
    BY <1>5 DEF LookupIsFatal, ReadMatch, ReadHole, EndScan, Answer, HandlerIdle
  <2>2. QED
    BY <2>1, Zenon DEF AlwaysInv
<1>6. QED
  BY <1>3, <1>4, <1>5 DEF HandlerStep

-----------------------------------------------------------------------------
(* What the loop answers.                                                  *)

\* What the loop of getPodEventHandler (1574-1579) can still find in its copy of the
\* slice has been in cachedNames at some time since it looked up the namespace, and
\* what has been there all the time is still ahead of it, unless an entry was moved.
THEOREM LoopInvariance == Spec => []LoopInv
<1>1. Init => RoomInv /\ EverInv /\ AlwaysInv
  BY DEF Init, WorkerIdle, HandlerIdle, RoomInv, EverInv, AlwaysInv
<1>2. LoopInv /\ IInv' /\ [Next]_vars => RoomInv' /\ EverInv' /\ AlwaysInv'
  <2> SUFFICES ASSUME LoopInv, IInv', [Next]_vars
               PROVE  RoomInv' /\ EverInv' /\ AlwaysInv'
    OBVIOUS
  <2>1. IInv /\ RoomInv /\ EverInv /\ AlwaysInv
    BY DEF LoopInv
  <2>2. CASE WorkerStep
    <3>1. (\E hvpa \in Hvpas : ManageCache(hvpa)) \/ Proceed
      BY <2>2 DEF WorkerStep
    <3>2. QED
      BY <2>1, <2>2, <3>1, WorkerKeepsRoom, WorkerKeepsEver, WorkerKeepsAlways, Zenon
  <2>3. CASE HandlerStep
    BY <2>1, <2>3, HandlerKeepsEver, HandlerKeepsAlways
  <2>4. CASE UserStep \/ Restart
    BY <2>4, OthersKeepLoop
  <2>5. CASE UNCHANGED vars
    <3>1. UNCHANGED <<entries, arrays, header, worker, handler, loop>>
      BY <2>5 DEF vars
    <3>2. RoomInv' /\ EverInv'
      BY <2>1, <3>1 DEF RoomInv, Capacity, EverInv, Read, Offering
    <3>3. AlwaysInv'
      BY <2>1, <3>1 DEF AlwaysInv, AheadAt, Offers, SlotsOf, Slots, At, Capacity
    <3>4. QED
      BY <3>2, <3>3
  <2>6. QED
    BY <2>2, <2>3, <2>4, <2>5 DEF Next
<1>3. QED
  BY <1>1, <1>2, Invariance, PTL DEF Spec, LoopInv

\* Only the handler answers, at the end of its loop.
LEMMA WhoAnswers ==
    ASSUME IInv, [Next]_vars, handler.pc = "scan", handler'.pc = "answered"
    PROVE  \/ ReadMatch /\ handler'.found = entries[Element].name
           \/ EndScan /\ handler'.found = Nil
<1>1. CASE WorkerStep
  <2>1. handler' = handler
    BY <1>1, ArraysStay DEF WorkerStep, IInv
  <2>2. QED
    BY <2>1
<1>2. CASE UserStep \/ Restart \/ UNCHANGED vars
  BY <1>2 DEF UserStep, UserCreates, UserDeletes, UserEditsTarget, Apart, Restart, vars
<1>3. CASE ReadMatch \/ EndScan
  BY <1>3 DEF ReadMatch, EndScan, Answer, HandlerIdle
<1>4. CASE LookupIsFatal \/ ReadHole \/ ReadOther \/ \E labels \in Labels : Lookup(labels)
  BY <1>4 DEF LookupIsFatal, ReadHole, ReadOther, Lookup, Asks, HandlerIdle, IInv, TypeOK, Handler
<1>5. QED
  BY <1>1, <1>2, <1>3, <1>4 DEF Next, HandlerStep

\* The HVPA that getPodEventHandler picks for a pod had a matching selector in
\* cachedNames at some time of the loop, whatever ManageCache and removeFromCache
\* did to the slice and however old the array is that the loop still reads.
THEOREM AnswersAreFromCache == Spec => AnswersFromCache
<1>1. LoopInv /\ [Next]_vars =>
        (handler.pc = "scan" /\ handler'.pc = "answered" /\ handler'.found # Nil
           => handler'.found \in loop.ever)
  <2> SUFFICES ASSUME LoopInv, [Next]_vars, handler.pc = "scan", handler'.pc = "answered",
                      handler'.found # Nil
               PROVE  entries[Element].name \in loop.ever
    BY WhoAnswers DEF LoopInv
  <2>1. ReadMatch /\ IInv /\ EverInv
    BY WhoAnswers DEF LoopInv
  <2>2. /\ Scanning /\ ~IsHole /\ Matches(entries[Element].selector, handler.labels)
        /\ Element # Nil
    BY <2>1 DEF ReadMatch, IsHole
  <2>3. Element \in Read(arrays, handler.slice)
    BY <2>2, ReadSlot DEF Scanning, Slots, Element, Capacity, At
  <2>4. entries[Element].name \in Hvpas
    BY <2>1, <2>2, ReadsEntry DEF Entry
  <2>5. entries[Element].name \in Offering(entries, Read(arrays, handler.slice), handler.labels)
    BY <2>2, <2>3, <2>4 DEF Offering
  <2>6. QED
    BY <2>1, <2>5 DEF EverInv
<1>2. QED
  BY <1>1, LoopInvariance, PTL DEF Spec, AnswersFromCache

\* getPodEventHandler finds no HVPA for a pod, although one had a matching selector
\* in cachedNames all the time, only if removeFromCache moved an entry meanwhile.
THEOREM MissesNeedMove == Spec => MissesOnlyMoved
<1>1. LoopInv /\ [Next]_vars =>
        (handler.pc = "scan" /\ handler'.pc = "answered" /\ handler'.found = Nil /\ ~loop.moved
           => loop.always = {})
  <2> SUFFICES ASSUME LoopInv, [Next]_vars, handler.pc = "scan", handler'.pc = "answered",
                      handler'.found = Nil, ~loop.moved, NEW hvpa \in loop.always
               PROVE  FALSE
    OBVIOUS
  <2>1. IInv /\ AlwaysInv
    BY DEF LoopInv
  <2>2. CASE ReadMatch
    <3>1. entries[Element] \in Entry
      BY <2>1, <2>2, ReadsEntry DEF ReadMatch
    <3>2. handler'.found = entries[Element].name
      BY <2>2 DEF ReadMatch, Answer, HandlerIdle
    <3>3. QED
      BY <3>1, <3>2, CacheAssumption DEF Entry
  <2>3. CASE EndScan
    <3>1. ~Scanning
      BY <2>3 DEF EndScan
    <3>2. handler.slice # Nil /\ \E i \in 1..header.len : AheadAt(hvpa, i)
      BY <2>1 DEF AlwaysInv
    <3>3. handler.index <= handler.slice.len
      <4>1. PICK i \in 1..header.len : handler.index <= i /\ i <= handler.slice.len
        BY <3>2 DEF AheadAt
      <4>2. handler.index \in Nat /\ handler.slice.len \in Nat /\ i \in Int
        BY <2>1, <3>2 DEF IInv, TypeOK, Handler, Header
      <4>3. QED
        BY ONLY <4>1, <4>2
    <3>4. QED
      BY <2>1, <3>1, <3>2, <3>3 DEF Scanning, Slots, IInv, TypeOK, Handler, Header
  <2>4. QED
    BY <2>1, <2>2, <2>3, WhoAnswers
<1>2. QED
  BY <1>1, LoopInvariance, PTL DEF Spec, MissesOnlyMoved
=============================================================================
