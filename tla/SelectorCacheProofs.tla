------------------------- MODULE SelectorCacheProofs -------------------------
(***************************************************************************)
(* Theorems of SelectorCache for every set of HVPAs, labels and every      *)
(* number of edits: the slice that the worker shuffles is well formed when *)
(* the mutex is free, and the whole implements SelectorMap.                *)
(***************************************************************************)
EXTENDS SelectorCache, SequenceTheorems, TLAPS

-----------------------------------------------------------------------------
(* The heap, as a function of its arrays A and entries E.                  *)

HeapOK(A, E) ==
    /\ A \in Seq(Seq(Slot)) /\ E \in Seq(Entry)
    /\ \A a \in 1..Len(A) :
         Len(A[a]) >= 1 /\ \A i \in 1..Len(A[a]) : A[a][i] \in 1..Len(E) \union {Nil}

Sound(A, h) ==
    /\ h \in Header
    /\ h.array \in 1..Len(A) /\ h.len \in 0..Len(A[h.array])

Full(A, h) == \A i \in 1..h.len : A[h.array][i] # Nil

Distinct(A, E, h) ==
    \A i, j \in 1..h.len : E[A[h.array][i]].name = E[A[h.array][j]].name => i = j

Good(A, E, h) == Sound(A, h) /\ Full(A, h) /\ Distinct(A, E, h)

H(array, len) == [array |-> array, len |-> len]

-----------------------------------------------------------------------------
(* The inductive invariant: what the slice looks like at each step of      *)
(* ManageCache.                                                            *)

IdleInv ==
    worker.pc = "idle" =>
      worker = WorkerIdle /\ (header # Nil => Good(arrays, entries, header))

\* The slice of one nil is stored first; the one with the entry is its neighbour.
MakeInv ==
    worker.pc = "make" =>
      /\ header = Nil /\ Sound(arrays, worker.next)
      /\ worker.next.len = 1 /\ At(worker.next, 1) = Nil
      /\ Good(arrays, entries, H(worker.next.array + 1, 1))

MoveInv ==
    worker.pc = "move" =>
      /\ header # Nil /\ Good(arrays, entries, header)
      /\ worker.slot \in 1..header.len /\ worker.hvpa \in Hvpas
      /\ entries[At(header, worker.slot)].name = worker.hvpa

\* The last element is in its place twice, or it is the one to remove.
ClearInv ==
    worker.pc = "clear" =>
      /\ header # Nil /\ Sound(arrays, header) /\ Full(arrays, header)
      /\ worker.slot \in 1..header.len /\ worker.hvpa \in Hvpas
      /\ At(header, worker.slot) = At(header, header.len)
      /\ Distinct(arrays, entries, H(header.array, header.len - 1))
      /\ IF worker.slot = header.len
         THEN /\ Distinct(arrays, entries, header)
              /\ entries[At(header, header.len)].name = worker.hvpa
         ELSE \A i \in 1..header.len : entries[At(header, i)].name # worker.hvpa

Shrinks == /\ worker.next = H(header.array, header.len - 1)
           /\ header.len >= 1 /\ At(header, header.len) = Nil
Grows   == /\ worker.next.len = header.len + 1 /\ Full(arrays, header)
           /\ \A i \in 1..header.len : At(worker.next, i) = At(header, i)
Starts  == header.len = 1 /\ At(header, 1) = Nil /\ worker.next.len = 1

StoreInv ==
    worker.pc = "store" =>
      /\ header # Nil /\ Good(arrays, entries, worker.next)
      /\ Shrinks \/ Grows \/ Starts

SliceInv ==
    /\ worker \in Worker /\ HeapOK(arrays, entries)
    /\ header # Nil => Sound(arrays, header)
    /\ IdleInv /\ MakeInv /\ MoveInv /\ ClearInv /\ StoreInv

\* The array that the handler reads exists, however old it is.
HandlerInv ==
    handler.pc = "scan" /\ handler.slice # Nil => handler.slice.array \in 1..Len(arrays)

IInv == TypeOK /\ SliceInv /\ HandlerInv

-----------------------------------------------------------------------------
(* Sequences and the heap.                                                 *)

\* Assigning to an element of an array leaves the rest as it was.
Assigned(A, a, i, p) == [A EXCEPT ![a] = [A[a] EXCEPT ![i] = p]]

Assignable(A, a, i, p) ==
    A \in Seq(Seq(Slot)) /\ a \in 1..Len(A) /\ i \in 1..Len(A[a]) /\ p \in Slot

DiffersOnlyAt(A, a, i, p, B) ==
    /\ B \in Seq(Seq(Slot)) /\ Len(B) = Len(A)
    /\ \A b \in 1..Len(A) : Len(B[b]) = Len(A[b])
    /\ \A b \in 1..Len(A) : b # a => B[b] = A[b]
    /\ B[a][i] = p
    /\ \A j \in 1..Len(A[a]) : j # i => B[a][j] = A[a][j]

LEMMA AssignElement ==
    ASSUME NEW A, NEW a, NEW i, NEW p, Assignable(A, a, i, p)
    PROVE  DiffersOnlyAt(A, a, i, p, Assigned(A, a, i, p))
<1> DEFINE R == [A[a] EXCEPT ![i] = p]
           B == [A EXCEPT ![a] = R]
<1>1. /\ A \in Seq(Seq(Slot)) /\ a \in 1..Len(A) /\ i \in 1..Len(A[a]) /\ p \in Slot
      /\ A[a] \in Seq(Slot)
  BY DEF Assignable
<1>2. R \in Seq(Slot) /\ Len(R) = Len(A[a]) /\ R[i] = p
      /\ \A j \in 1..Len(A[a]) : j # i => R[j] = A[a][j]
  BY <1>1
<1> HIDE DEF R
<1>3. B \in Seq(Seq(Slot)) /\ Len(B) = Len(A) /\ B[a] = R
      /\ \A b \in 1..Len(A) : b # a => B[b] = A[b]
  BY <1>1, <1>2
<1> HIDE DEF B
<1>4. \A b \in 1..Len(A) : Len(B[b]) = Len(A[b])
  BY <1>1, <1>2, <1>3
<1>5. B[a][i] = p /\ \A j \in 1..Len(A[a]) : j # i => B[a][j] = A[a][j]
  BY ONLY <1>2, <1>3
<1>6. DiffersOnlyAt(A, a, i, p, B)
  BY ONLY <1>3, <1>4, <1>5, Zenon DEF DiffersOnlyAt
<1>7. QED
  BY <1>6 DEF R, B, Assigned

\* A new structure does not disturb the ones there are.
LEMMA Allocate ==
    ASSUME NEW A, NEW E, HeapOK(A, E), NEW n \in Entry
    PROVE  /\ HeapOK(A, Append(E, n))
           /\ Len(E) + 1 \in Slot
           /\ Len(Append(E, n)) = Len(E) + 1
           /\ Append(E, n)[Len(E) + 1] = n
           /\ \A p \in 1..Len(E) : Append(E, n)[p] = E[p]
<1>1. E \in Seq(Entry)
  BY DEF HeapOK
<1>2. /\ Append(E, n) \in Seq(Entry) /\ Len(Append(E, n)) = Len(E) + 1
      /\ Append(E, n)[Len(E) + 1] = n /\ \A p \in 1..Len(E) : Append(E, n)[p] = E[p]
  BY <1>1
<1>3. Len(E) \in Nat /\ Len(E) + 1 \in Slot
  BY <1>1 DEF Slot
<1>4. \A a \in 1..Len(A) :
        /\ Len(A[a]) >= 1
        /\ \A i \in 1..Len(A[a]) : A[a][i] \in 1..Len(Append(E, n)) \union {Nil}
  BY <1>2, <1>3 DEF HeapOK
<1>5. QED
  BY <1>2, <1>3, <1>4 DEF HeapOK

\* The elements of a slice point to entries.
LEMMA ElementExists ==
    ASSUME NEW A, NEW E, HeapOK(A, E), NEW h, Sound(A, h), NEW i \in 1..h.len
    PROVE  /\ i \in 1..Len(A[h.array])
           /\ A[h.array][i] \in Slot
           /\ A[h.array][i] # Nil =>
                A[h.array][i] \in 1..Len(E) /\ E[A[h.array][i]] \in Entry
<1>1. /\ h.array \in 1..Len(A) /\ h.len \in 0..Len(A[h.array])
      /\ A[h.array] \in Seq(Slot)
  BY DEF HeapOK, Sound
<1>2. i \in 1..Len(A[h.array])
  BY <1>1
<1>3. A[h.array][i] \in Slot
  BY <1>1, <1>2
<1>4. A[h.array][i] \in 1..Len(E) \union {Nil}
  BY <1>1, <1>2 DEF HeapOK
<1>5. QED
  BY <1>2, <1>3, <1>4 DEF HeapOK

-----------------------------------------------------------------------------
(* What append does.                                                       *)

\* A slice stays good when an entry is allocated.
LEMMA GoodAllocate ==
    ASSUME NEW A, NEW E, HeapOK(A, E), NEW n \in Entry, NEW h, Good(A, E, h)
    PROVE  Good(A, Append(E, n), h)
<1>1. \A i \in 1..h.len : Append(E, n)[A[h.array][i]] = E[A[h.array][i]]
  BY Allocate, ElementExists DEF Good, Full
<1>2. QED
  BY <1>1 DEF Good, Distinct

\* With a fresh name behind a good slice the longer slice is good.
LEMMA GoodLonger ==
    ASSUME NEW A, NEW E, HeapOK(A, E), NEW h, Good(A, E, h), NEW n \in Entry,
           \A i \in 1..h.len : E[A[h.array][i]].name # n.name,
           NEW B, NEW k, Sound(B, k), k.len = h.len + 1,
           \A i \in 1..h.len : B[k.array][i] = A[h.array][i],
           B[k.array][h.len + 1] = Len(E) + 1
    PROVE  Good(B, Append(E, n), k)
<1> DEFINE F == Append(E, n)
<1>1. /\ \A p \in 1..Len(E) : F[p] = E[p]
      /\ F[Len(E) + 1] = n /\ Len(E) + 1 \in Slot
  BY Allocate
<1>2. \A i \in 1..h.len : /\ A[h.array][i] \in 1..Len(E)
                          /\ F[B[k.array][i]] = E[A[h.array][i]]
  BY <1>1, ElementExists DEF Good, Full
<1>3. h.len \in Nat
  BY DEF Good, Sound, Header
<1>4. Full(B, k)
  <2> SUFFICES ASSUME NEW i \in 1..k.len
               PROVE  B[k.array][i] # Nil
    BY DEF Full
  <2>1. CASE i \in 1..h.len
    BY <2>1 DEF Good, Full
  <2>2. CASE i = h.len + 1
    BY <2>2, <1>1, CacheAssumption DEF Slot, HeapOK
  <2>3. QED
    BY <2>1, <2>2, <1>3
<1>5. Distinct(B, F, k)
  <2> SUFFICES ASSUME NEW i \in 1..k.len, NEW j \in 1..k.len,
                      F[B[k.array][i]].name = F[B[k.array][j]].name
               PROVE  i = j
    BY DEF Distinct
  <2>1. CASE i \in 1..h.len /\ j \in 1..h.len
    BY <2>1, <1>2 DEF Good, Distinct
  <2>2. CASE i = h.len + 1 /\ j \in 1..h.len
    BY <2>2, <1>1, <1>2
  <2>3. CASE j = h.len + 1 /\ i \in 1..h.len
    BY <2>3, <1>1, <1>2
  <2>4. QED
    BY <2>1, <2>2, <2>3, <1>3
<1>6. QED
  BY <1>4, <1>5 DEF Good

\* In place, if the array has room ...
LEMMA AppendsInPlace ==
    ASSUME NEW A, NEW E, HeapOK(A, E), NEW h, Good(A, E, h), NEW n \in Entry,
           \A i \in 1..h.len : E[A[h.array][i]].name # n.name,
           h.len < Len(A[h.array])
    PROVE  LET B == Assigned(A, h.array, h.len + 1, Len(E) + 1)
               F == Append(E, n)
           IN  /\ HeapOK(B, F) /\ Good(B, F, H(h.array, h.len + 1)) /\ Good(B, F, h)
               /\ \A i \in 1..h.len : B[h.array][i] = A[h.array][i]
<1> DEFINE p == Len(E) + 1
           B == Assigned(A, h.array, h.len + 1, p)
           F == Append(E, n)
           k == H(h.array, h.len + 1)
<1>1. /\ h \in Header /\ h.array \in 1..Len(A) /\ h.len \in Nat
      /\ A \in Seq(Seq(Slot)) /\ A[h.array] \in Seq(Slot)
      /\ h.len + 1 \in 1..Len(A[h.array]) /\ Len(A[h.array]) \in Nat
  BY DEF HeapOK, Good, Sound, Header
<1>2. p \in Slot /\ HeapOK(A, F) /\ Len(F) = p /\ p \in 1..Len(F)
  <2>1. HeapOK(A, F) /\ p \in Slot /\ Len(F) = p
    BY Allocate
  <2>2. p \in 1..p
    BY <2>1, CacheAssumption DEF Slot, HeapOK
  <2>3. QED
    BY <2>1, <2>2
<1>3. /\ B \in Seq(Seq(Slot)) /\ Len(B) = Len(A)
      /\ \A b \in 1..Len(A) : Len(B[b]) = Len(A[b])
      /\ \A b \in 1..Len(A) : b # h.array => B[b] = A[b]
      /\ B[h.array][h.len + 1] = p
      /\ \A j \in 1..Len(A[h.array]) : j # h.len + 1 => B[h.array][j] = A[h.array][j]
  <2> HIDE DEF p
  <2>1. Assignable(A, h.array, h.len + 1, p)
    BY <1>1, <1>2 DEF Assignable
  <2>2. DiffersOnlyAt(A, h.array, h.len + 1, p, B)
    BY ONLY <2>1, AssignElement, Zenon
  <2> HIDE DEF B
  <2>3. QED
    BY ONLY <2>2, Zenon DEF DiffersOnlyAt
<1> HIDE DEF B, F, p
<1>4. \A a \in 1..Len(B) :
        Len(B[a]) >= 1 /\ \A i \in 1..Len(B[a]) : B[a][i] \in 1..Len(F) \union {Nil}
  <2> SUFFICES ASSUME NEW a \in 1..Len(B)
               PROVE  /\ Len(B[a]) >= 1
                      /\ \A i \in 1..Len(B[a]) : B[a][i] \in 1..Len(F) \union {Nil}
    OBVIOUS
  <2>1. /\ a \in 1..Len(A) /\ Len(B[a]) = Len(A[a]) /\ Len(A[a]) >= 1
        /\ \A i \in 1..Len(A[a]) : A[a][i] \in 1..Len(F) \union {Nil}
    <3>1. a \in 1..Len(A) /\ Len(B[a]) = Len(A[a])
      BY <1>3
    <3>2. QED
      BY <1>2, <3>1 DEF HeapOK
  <2>2. ASSUME NEW i \in 1..Len(A[a])
        PROVE  B[a][i] \in 1..Len(F) \union {Nil}
    <3>1. CASE a # h.array
      <4>1. B[a] = A[a]
        BY <1>3, <2>1, <3>1
      <4>2. QED
        BY <2>1, <4>1
    <3>2. CASE a = h.array /\ i = h.len + 1
      BY <1>2, <1>3, <3>2
    <3>3. CASE a = h.array /\ i # h.len + 1
      <4>1. B[a][i] = A[a][i]
        BY <1>3, <3>3
      <4>2. QED
        BY <2>1, <4>1
    <3>4. QED
      BY <3>1, <3>2, <3>3
  <2>3. QED
    BY <2>1, <2>2
<1>5. HeapOK(B, F)
  BY <1>2, <1>3, <1>4 DEF HeapOK
<1>6. \A i \in 1..h.len : B[h.array][i] = A[h.array][i]
  <2> TAKE i \in 1..h.len
  <2>1. i \in 1..Len(A[h.array]) /\ i # h.len + 1
    BY <1>1
  <2>2. QED
    BY <1>3, <2>1
<1>7. /\ k.array = h.array /\ k.len = h.len + 1 /\ Sound(B, k) /\ Sound(B, h)
  BY <1>1, <1>3 DEF Sound, H, Header
<1>8. Good(B, F, k)
  <2>1. B[k.array][h.len + 1] = Len(E) + 1 /\ \A i \in 1..h.len : B[k.array][i] = A[h.array][i]
    BY <1>3, <1>6, <1>7 DEF p
  <2> HIDE DEF k
  <2>2. QED
    BY <1>7, <2>1, GoodLonger DEF F
<1>9. Good(B, F, h)
  <2>1. Good(A, F, h)
    BY GoodAllocate DEF F
  <2>2. QED
    BY <1>6, <1>7, <2>1 DEF Good, Full, Distinct
<1>10. QED
  BY <1>5, <1>6, <1>8, <1>9 DEF B, F, p

\* ... and in a new array of twice the size if it has not.
Twice(R, n, p) == [R \o [i \in 1..Len(R) |-> Nil] EXCEPT ![n + 1] = p]

Elsewhere(A, h, p) == Append(A, Twice(A[h.array], h.len, p))

IsTwice(R, m, p, G) ==
    /\ G \in Seq(Slot) /\ Len(G) = m + m /\ G[m + 1] = p
    /\ \A i \in 1..m : G[i] = R[i]
    /\ \A i \in m + 2 .. m + m : G[i] = Nil

LEMMA TwiceAsLong ==
    ASSUME NEW R, R \in Seq(Slot), NEW m, m = Len(R), m >= 1, NEW p, p \in Slot
    PROVE  IsTwice(R, m, p, Twice(R, m, p))
<1> DEFINE Z == [i \in 1..Len(R) |-> Nil]
           D == R \o Z
           G == [D EXCEPT ![m + 1] = p]
<1>1. m \in Nat /\ m >= 1
  OBVIOUS
<1>2. Z \in Seq(Slot) /\ Len(Z) = m /\ \A i \in 1..m : Z[i] = Nil
  BY <1>1 DEF Slot
<1> HIDE DEF Z
<1>3. /\ D \in Seq(Slot) /\ Len(D) = m + m
      /\ \A i \in 1..(m + m) : D[i] = IF i <= m THEN R[i] ELSE Z[i - m]
  BY <1>2, ConcatProperties
<1> HIDE DEF D
<1>4. \A i \in 1..m : D[i] = R[i]
  BY ONLY <1>1, <1>3
<1>5. \A i \in m + 2 .. m + m : D[i] = Nil
  BY ONLY <1>1, <1>2, <1>3
<1>6. /\ G \in Seq(Slot) /\ Len(G) = m + m /\ G[m + 1] = p
      /\ \A i \in 1..(m + m) : i # m + 1 => G[i] = D[i]
  BY <1>1, <1>3
<1> HIDE DEF G
<1>7. /\ \A i \in 1..m : i \in 1..(m + m) /\ i # m + 1
      /\ \A i \in m + 2 .. m + m : i \in 1..(m + m) /\ i # m + 1
  BY ONLY <1>1
<1>8. /\ \A i \in 1..m : G[i] = R[i]
      /\ \A i \in m + 2 .. m + m : G[i] = Nil
  BY ONLY <1>4, <1>5, <1>6, <1>7
<1>9. QED
  BY ONLY <1>6, <1>8 DEF G, D, Z, Twice, IsTwice

LEMMA AppendsElsewhere ==
    ASSUME NEW A, NEW E, HeapOK(A, E), NEW h, Good(A, E, h), NEW n \in Entry,
           \A i \in 1..h.len : E[A[h.array][i]].name # n.name,
           h.len = Len(A[h.array])
    PROVE  LET B == Elsewhere(A, h, Len(E) + 1)
               F == Append(E, n)
               k == H(Len(A) + 1, h.len + 1)
           IN  /\ HeapOK(B, F) /\ Good(B, F, k) /\ Good(B, F, h)
               /\ \A i \in 1..h.len : B[k.array][i] = A[h.array][i]
               /\ \A i \in 1..h.len : B[h.array][i] = A[h.array][i]
<1> DEFINE p == Len(E) + 1
           R == A[h.array]
           m == h.len
           G == Twice(R, m, p)
           B == Elsewhere(A, h, p)
           F == Append(E, n)
           k == H(Len(A) + 1, m + 1)
<1>1. /\ h \in Header /\ h.array \in 1..Len(A) /\ m \in Nat /\ m >= 1 /\ Len(R) = m
      /\ R \in Seq(Slot) /\ A \in Seq(Seq(Slot)) /\ Len(A) \in Nat
  BY DEF HeapOK, Good, Sound, Header
<1>2. p \in Slot /\ HeapOK(A, F) /\ Len(F) = p /\ p \in 1..Len(F)
  <2>1. HeapOK(A, F) /\ p \in Slot /\ Len(F) = p
    BY Allocate
  <2>2. p \in 1..p
    BY <2>1, CacheAssumption DEF Slot, HeapOK
  <2>3. QED
    BY <2>1, <2>2
<1> HIDE DEF p
<1>3. /\ G \in Seq(Slot) /\ Len(G) = m + m /\ G[m + 1] = p
      /\ \A i \in 1..m : G[i] = R[i]
      /\ \A i \in m + 2 .. m + m : G[i] = Nil
  <2> HIDE DEF R, m
  <2>1. R \in Seq(Slot) /\ m = Len(R) /\ m >= 1 /\ p \in Slot
    BY ONLY <1>1, <1>2
  <2>2. IsTwice(R, m, p, G)
    BY ONLY <2>1, TwiceAsLong, Zenon
  <2> HIDE DEF G
  <2>3. QED
    BY ONLY <2>2, Zenon DEF IsTwice
<1>4. /\ B \in Seq(Seq(Slot)) /\ Len(B) = Len(A) + 1 /\ B[Len(A) + 1] = G
      /\ \A b \in 1..Len(A) : B[b] = A[b]
  BY <1>1, <1>3 DEF Elsewhere
<1> HIDE DEF B, F, G
<1>5. \A i \in 1..Len(G) : G[i] \in 1..Len(F) \union {Nil}
  <2>1. \A i \in 1..m : R[i] \in 1..Len(F) \union {Nil}
    BY ONLY <1>1, <1>2 DEF HeapOK
  <2> HIDE DEF R, m
  <2> SUFFICES ASSUME NEW i \in 1..(m + m)
               PROVE  G[i] \in 1..Len(F) \union {Nil}
    BY <1>3
  <2>2. i \in 1..m \/ i = m + 1 \/ i \in m + 2 .. m + m
    BY <1>1
  <2>3. QED
    BY <2>1, <2>2, <1>2, <1>3
<1>6. HeapOK(B, F)
  <2>1. ASSUME NEW a \in 1..Len(B)
        PROVE  Len(B[a]) >= 1 /\ \A i \in 1..Len(B[a]) : B[a][i] \in 1..Len(F) \union {Nil}
    <3>1. CASE a = Len(A) + 1
      <4>1. B[a] = G
        BY ONLY <3>1, <1>4
      <4>2. Len(G) >= 1
        BY ONLY <1>1, <1>3
      <4>3. QED
        BY ONLY <4>1, <4>2, <1>5
    <3>2. CASE a \in 1..Len(A)
      <4>1. B[a] = A[a]
        BY ONLY <3>2, <1>4
      <4>2. Len(A[a]) >= 1 /\ \A i \in 1..Len(A[a]) : A[a][i] \in 1..Len(F) \union {Nil}
        BY ONLY <3>2, <1>2 DEF HeapOK
      <4>3. QED
        BY ONLY <4>1, <4>2
    <3>3. QED
      BY <3>1, <3>2, <1>1, <1>4
  <2>2. F \in Seq(Entry)
    BY ONLY <1>2 DEF HeapOK
  <2>3. QED
    BY ONLY <2>1, <2>2, <1>4 DEF HeapOK
<1>7. k.array = Len(A) + 1 /\ k.len = m + 1
  BY ONLY DEF H
<1>8. B[k.array] = G /\ B[h.array] = R
  BY ONLY <1>1, <1>4, <1>7
<1>9. Sound(B, k) /\ Sound(B, h)
  <2>1. k \in Header /\ m + 1 \in 0..(m + m) /\ m \in 0..m
    BY ONLY <1>1 DEF Header, H
  <2>2. k.array \in 1..Len(B) /\ h.array \in 1..Len(B)
    <3>1. Len(A) \in Nat /\ Len(B) = Len(A) + 1 /\ h.array \in 1..Len(A)
      BY ONLY <1>1, <1>4, Zenon
    <3> HIDE DEF k
    <3>2. QED
      BY ONLY <3>1, <1>7
  <2>3. Len(B[k.array]) = m + m /\ Len(B[h.array]) = m /\ h \in Header
    BY ONLY <1>1, <1>3, <1>8
  <2> HIDE DEF k, B, R, G
  <2>4. k.len \in 0..Len(B[k.array]) /\ h.len \in 0..Len(B[h.array])
    BY ONLY <2>1, <2>3, <1>7
  <2>5. QED
    BY ONLY <2>1, <2>2, <2>3, <2>4, Zenon DEF Sound
<1> HIDE DEF k
<1>10. /\ \A i \in 1..m : B[k.array][i] = R[i]
       /\ \A i \in 1..m : B[h.array][i] = R[i]
       /\ B[k.array][m + 1] = p
  BY ONLY <1>3, <1>8
<1>11. Good(B, F, k)
  <2>1. /\ k.len = h.len + 1 /\ B[k.array][h.len + 1] = Len(E) + 1
        /\ \A i \in 1..h.len : B[k.array][i] = A[h.array][i]
    BY ONLY <1>7, <1>10 DEF p
  <2> HIDE DEF R, m
  <2>2. QED
    BY <2>1, <1>9, GoodLonger DEF F
<1>12. Good(B, F, h)
  <2>1. Good(A, F, h)
    BY GoodAllocate DEF F
  <2>2. \A i \in 1..h.len : B[h.array][i] = A[h.array][i]
    BY ONLY <1>10
  <2>3. QED
    BY ONLY <1>9, <2>1, <2>2 DEF Good, Full, Distinct
<1>13. QED
  BY ONLY <1>6, <1>10, <1>11, <1>12 DEF B, F, p, k

-----------------------------------------------------------------------------
(* What removeFromCache does.                                              *)

\* An array may hold any pointer there is, and nil.
LEMMA HeapAssign ==
    ASSUME NEW A, NEW E, HeapOK(A, E), NEW a \in 1..Len(A), NEW i \in 1..Len(A[a]),
           NEW p \in Slot, p \in 1..Len(E) \union {Nil}
    PROVE  HeapOK(Assigned(A, a, i, p), E)
<1> DEFINE B == Assigned(A, a, i, p)
<1>1. A \in Seq(Seq(Slot))
  BY DEF HeapOK
<1>2. /\ B \in Seq(Seq(Slot)) /\ Len(B) = Len(A)
      /\ \A b \in 1..Len(A) : Len(B[b]) = Len(A[b])
      /\ \A b \in 1..Len(A) : b # a => B[b] = A[b]
      /\ B[a][i] = p
      /\ \A j \in 1..Len(A[a]) : j # i => B[a][j] = A[a][j]
  <2>1. Assignable(A, a, i, p)
    BY <1>1 DEF Assignable
  <2>2. DiffersOnlyAt(A, a, i, p, B)
    BY ONLY <2>1, AssignElement, Zenon
  <2> HIDE DEF B
  <2>3. QED
    BY ONLY <2>2, Zenon DEF DiffersOnlyAt
<1> HIDE DEF B
<1>3. ASSUME NEW b \in 1..Len(B)
      PROVE  Len(B[b]) >= 1 /\ \A j \in 1..Len(B[b]) : B[b][j] \in 1..Len(E) \union {Nil}
  <2>1. CASE b = a
    BY <2>1, <1>2 DEF HeapOK
  <2>2. CASE b # a
    BY <2>2, <1>2 DEF HeapOK
  <2>3. QED
    BY <2>1, <2>2
<1>4. HeapOK(B, E)
  BY <1>2, <1>3 DEF HeapOK
<1>5. QED
  BY <1>4 DEF B

\* The last element takes the place of the removed one.
Moved(A, h, s) == Assigned(A, h.array, s, A[h.array][h.len])

LEMMA Moves ==
    ASSUME NEW A, NEW E, HeapOK(A, E), NEW h, Good(A, E, h), NEW s, s \in 1..h.len
    PROVE  LET B == Moved(A, h, s)
               gone == E[A[h.array][s]].name
           IN  /\ HeapOK(B, E) /\ Sound(B, h) /\ Full(B, h)
               /\ B[h.array][s] = B[h.array][h.len]
               /\ B[h.array][s] = A[h.array][h.len]
               /\ \A i \in 1..h.len : i # s => B[h.array][i] = A[h.array][i]
               /\ Distinct(B, E, H(h.array, h.len - 1))
               /\ IF s = h.len
                  THEN Distinct(B, E, h) /\ E[B[h.array][h.len]].name = gone
                  ELSE \A i \in 1..h.len : E[B[h.array][i]].name # gone
<1> DEFINE p == A[h.array][h.len]
           B == Assigned(A, h.array, s, p)
           gone == E[A[h.array][s]].name
<1>1. /\ h \in Header /\ h.array \in 1..Len(A) /\ h.len \in Nat /\ h.len \in 1..h.len
      /\ A \in Seq(Seq(Slot)) /\ A[h.array] \in Seq(Slot) /\ s \in 1..Len(A[h.array])
      /\ 1..h.len \subseteq 1..Len(A[h.array]) /\ Sound(A, h)
  BY DEF HeapOK, Good, Sound, Header
<1>2. p \in Slot /\ p \in 1..Len(E)
  BY <1>1, ElementExists DEF Good, Full
<1>3. /\ Len(B) = Len(A)
      /\ \A b \in 1..Len(A) : Len(B[b]) = Len(A[b])
      /\ B[h.array][s] = p
      /\ \A j \in 1..Len(A[h.array]) : j # s => B[h.array][j] = A[h.array][j]
  <2> HIDE DEF p
  <2>1. Assignable(A, h.array, s, p)
    BY <1>1, <1>2 DEF Assignable
  <2>2. DiffersOnlyAt(A, h.array, s, p, B)
    BY ONLY <2>1, AssignElement, Zenon
  <2> HIDE DEF B
  <2>3. QED
    BY ONLY <2>2, Zenon DEF DiffersOnlyAt
<1>4. HeapOK(B, E)
  BY <1>1, <1>2, HeapAssign
<1> HIDE DEF B, p, Moved
<1>5. \A i \in 1..h.len : i # s => B[h.array][i] = A[h.array][i]
  BY <1>1, <1>3
<1>6. B[h.array][h.len] = p
  BY <1>1, <1>3, <1>5 DEF p
<1>7. Sound(B, h)
  BY <1>1, <1>3 DEF Sound
<1>8. Full(B, h)
  <2>1. \A i \in 1..h.len : A[h.array][i] # Nil
    BY DEF Good, Full
  <2>2. p # Nil
    BY <2>1, <1>1, Zenon DEF p
  <2>3. QED
    BY ONLY <2>1, <2>2, <1>3, <1>5, Zenon DEF Full
<1>9. \A i, j \in 1..h.len : E[A[h.array][i]].name = E[A[h.array][j]].name => i = j
  BY DEF Good, Distinct
<1>10. Distinct(B, E, H(h.array, h.len - 1))
  <2> SUFFICES ASSUME NEW i \in 1..(h.len - 1), NEW j \in 1..(h.len - 1),
                      E[B[h.array][i]].name = E[B[h.array][j]].name
               PROVE  i = j
    BY DEF Distinct, H
  <2>1. i \in 1..h.len /\ j \in 1..h.len /\ i # h.len /\ j # h.len
    BY <1>1
  <2>2. CASE i = s /\ j # s
    BY <2>1, <2>2, <1>1, <1>3, <1>5, <1>9 DEF p
  <2>3. CASE j = s /\ i # s
    BY <2>1, <2>3, <1>1, <1>3, <1>5, <1>9 DEF p
  <2>4. CASE i # s /\ j # s
    BY <2>1, <2>4, <1>5, <1>9
  <2>5. QED
    BY <2>2, <2>3, <2>4
<1>11. CASE s = h.len
  <2>1. \A i \in 1..h.len : B[h.array][i] = A[h.array][i]
    BY <1>11, <1>3, <1>5 DEF p
  <2>2. Distinct(B, E, h) /\ E[B[h.array][h.len]].name = gone
    BY <2>1, <1>1, <1>9, <1>11 DEF Distinct
  <2>3. QED
    BY <2>2, <1>3, <1>4, <1>5, <1>6, <1>7, <1>8, <1>10, <1>11 DEF B, p, Moved
<1>12. CASE s # h.len
  <2>1. \A i \in 1..h.len : E[B[h.array][i]].name # gone
    BY <1>1, <1>3, <1>5, <1>9, <1>12 DEF p
  <2>2. QED
    BY <2>1, <1>3, <1>4, <1>5, <1>6, <1>7, <1>8, <1>10, <1>12 DEF B, p, Moved
<1>13. QED
  BY <1>11, <1>12

\* Without the last element the slice is good again.
LEMMA Clears ==
    ASSUME NEW A, NEW E, HeapOK(A, E), NEW h, Sound(A, h), Full(A, h), h.len # 0,
           Distinct(A, E, H(h.array, h.len - 1))
    PROVE  LET B == Assigned(A, h.array, h.len, Nil)
           IN  /\ HeapOK(B, E) /\ Sound(B, h) /\ B[h.array][h.len] = Nil
               /\ \A i \in 1..(h.len - 1) : B[h.array][i] = A[h.array][i]
               /\ Good(B, E, H(h.array, h.len - 1))
<1> DEFINE B == Assigned(A, h.array, h.len, Nil)
           k == H(h.array, h.len - 1)
<1>1. /\ h \in Header /\ h.array \in 1..Len(A) /\ h.len \in Nat
      /\ A \in Seq(Seq(Slot)) /\ A[h.array] \in Seq(Slot) /\ h.len \in 1..Len(A[h.array])
  BY DEF HeapOK, Sound, Header
<1>2. Nil \in Slot
  BY DEF Slot
<1>3. /\ Len(B) = Len(A)
      /\ \A b \in 1..Len(A) : Len(B[b]) = Len(A[b])
      /\ B[h.array][h.len] = Nil
      /\ \A j \in 1..Len(A[h.array]) : j # h.len => B[h.array][j] = A[h.array][j]
  <2>1. Assignable(A, h.array, h.len, Nil)
    BY <1>1, <1>2 DEF Assignable
  <2>2. DiffersOnlyAt(A, h.array, h.len, Nil, B)
    BY ONLY <2>1, AssignElement, Zenon
  <2> HIDE DEF B
  <2>3. QED
    BY ONLY <2>2, Zenon DEF DiffersOnlyAt
<1>4. HeapOK(B, E)
  BY <1>1, <1>2, HeapAssign
<1> HIDE DEF B
<1>5. \A i \in 1..(h.len - 1) : B[h.array][i] = A[h.array][i]
  <2>1. \A i \in 1..(h.len - 1) : i \in 1..Len(A[h.array]) /\ i # h.len
    BY <1>1
  <2>2. QED
    BY ONLY <2>1, <1>3
<1>6. Sound(B, h) /\ Sound(B, k) /\ k.array = h.array /\ k.len = h.len - 1
  BY <1>1, <1>3 DEF Sound, H, Header
<1> HIDE DEF k
<1>7. Full(B, k)
  <2>1. \A i \in 1..(h.len - 1) : A[h.array][i] # Nil
    BY <1>1 DEF Full
  <2>2. QED
    BY <2>1, <1>5, <1>6 DEF Full
<1>8. Distinct(B, E, k)
  BY <1>5, <1>6 DEF Distinct, k, H
<1>9. QED
  BY <1>3, <1>4, <1>5, <1>6, <1>7, <1>8 DEF B, Good, k

-----------------------------------------------------------------------------
(* The steps of the worker keep the slice as it should be.                 *)

\* What ManageCache would cache is an entry.
LEMMA NewEntry ==
    ASSUME TypeOK, NEW hvpa \in Hvpas, Learns(hvpa)
    PROVE  New(hvpa) \in Entry /\ New(hvpa).name = hvpa
<1>1. SelectorOf(target[hvpa]) \in Selectors
  BY DEF TypeOK, Learns, Target, SelectorOf, Selectors
<1>2. QED
  BY <1>1 DEF New, Entry

\* Two elements behind a sequence.
LEMMA ConcatTwo ==
    ASSUME NEW S, NEW s \in Seq(S), NEW t \in Seq(S), Len(t) = 2
    PROVE  /\ s \o t \in Seq(S) /\ Len(s \o t) = Len(s) + 2
           /\ \A b \in 1..Len(s) : (s \o t)[b] = s[b]
           /\ (s \o t)[Len(s) + 1] = t[1] /\ (s \o t)[Len(s) + 2] = t[2]
<1>1. Len(s) \in Nat
  OBVIOUS
<1> DEFINE st == s \o t
<1>2. /\ st \in Seq(S) /\ Len(st) = Len(s) + Len(t)
      /\ \A i \in 1..(Len(s) + Len(t)) :
           st[i] = IF i <= Len(s) THEN s[i] ELSE t[i - Len(s)]
  BY ConcatProperties
<1> HIDE DEF st
<1>3. PICK n : n = Len(s) /\ n \in Nat
  BY <1>1
<1>4. \A i \in 1..(n + 2) : st[i] = IF i <= n THEN s[i] ELSE t[i - n]
  BY ONLY <1>2, <1>3, Len(t) = 2
<1>5. \A b \in 1..n : st[b] = s[b]
  BY ONLY <1>3, <1>4
<1>6. st[n + 1] = t[1] /\ st[n + 2] = t[2]
  BY ONLY <1>3, <1>4
<1>7. QED
  BY ONLY <1>2, <1>3, <1>5, <1>6, Len(t) = 2 DEF st

\* An HVPA without pointer is the name of no slot.
LEMMA NoPointer ==
    ASSUME NEW hvpa, PointersOf(hvpa) = {}, header # Nil, Full(arrays, header)
    PROVE  \A i \in 1..header.len : entries[arrays[header.array][i]].name # hvpa
BY DEF PointersOf, SlotsOf, Slots, At, Full

\* The two arrays of the first entry.
LEMMA HeapPair ==
    ASSUME NEW A, NEW E, HeapOK(A, E),
           NEW B \in Seq(Seq(Slot)), Len(B) = Len(A) + 2,
           \A b \in 1..Len(A) : B[b] = A[b],
           NEW x, x = Len(A) + 1, NEW y, y = Len(A) + 2,
           Len(B[x]) = 1, B[x][1] = Nil, Len(B[y]) = 1, B[y][1] \in 1..Len(E)
    PROVE  /\ HeapOK(B, E)
           /\ Sound(B, H(x, 1)) /\ Sound(B, H(y, 1))
<1>1. PICK n : n = Len(A) /\ n \in Nat
  <2>1. A \in Seq(Seq(Slot))
    BY ONLY HeapOK(A, E), Zenon DEF HeapOK
  <2>2. QED
    BY ONLY <2>1
<1>2. PICK l : l = Len(B)
  OBVIOUS
<1>3. /\ x \in 1..l /\ y \in 1..l
      /\ \A a \in 1..l : a \in 1..n \/ a = x \/ a = y
  <2>1. l = n + 2 /\ x = n + 1 /\ y = n + 2
    BY <1>1, <1>2, Zenon
  <2>2. QED
    BY ONLY <1>1, <2>1
<1>4. ASSUME NEW a \in 1..Len(B)
      PROVE  Len(B[a]) >= 1 /\ \A i \in 1..Len(B[a]) : B[a][i] \in 1..Len(E) \union {Nil}
  <2>1. CASE a \in 1..n
    BY <2>1, <1>1 DEF HeapOK
  <2>2. CASE a = x
    BY <2>2
  <2>3. CASE a = y
    BY <2>3
  <2>4. QED
    BY <2>1, <2>2, <2>3, <1>2, <1>3, Zenon
<1>5. HeapOK(B, E)
  BY <1>4 DEF HeapOK
<1>6. H(x, 1) \in Header /\ H(y, 1) \in Header
  BY <1>1 DEF H, Header
<1>7. 1 \in 0..Len(B[x]) /\ 1 \in 0..Len(B[y])
  OBVIOUS
<1>8. QED
  BY <1>2, <1>3, <1>5, <1>6, <1>7 DEF Sound, H

LEMMA FirstEntryKeeps ==
    ASSUME TypeOK, SliceInv, NEW hvpa \in Hvpas, FirstEntry(hvpa)
    PROVE  SliceInv'
<1> DEFINE F == Append(entries, New(hvpa))
           N == <<Nil>>
           Q == <<Len(entries) + 1>>
           P == <<N, Q>>
           B == arrays \o P
           x == Len(arrays) + 1
           y == Len(arrays) + 2
           k == H(x, 1)
           l == H(y, 1)
<1>1. /\ entries' = F /\ arrays' = B /\ header' = Nil
      /\ worker' = [WorkerIdle EXCEPT !.pc = "make", !.next = k]
  BY DEF FirstEntry, H
<1>2. /\ arrays \in Seq(Seq(Slot)) /\ Len(arrays) \in Nat
      /\ entries \in Seq(Entry) /\ Len(entries) \in Nat
      /\ New(hvpa) \in Entry
  BY NewEntry DEF TypeOK, FirstEntry
<1>3. HeapOK(arrays, F) /\ Len(entries) + 1 \in Slot /\ Len(F) = Len(entries) + 1
  BY <1>2, Allocate DEF SliceInv
<1>4. /\ N \in Seq(Slot) /\ Len(N) = 1 /\ N[1] = Nil
      /\ Q \in Seq(Slot) /\ Len(Q) = 1 /\ Q[1] = Len(entries) + 1
  BY <1>3 DEF Slot
<1> HIDE DEF N, Q, F
<1>5. P \in Seq(Seq(Slot)) /\ Len(P) = 2 /\ P[1] = N /\ P[2] = Q
  BY <1>4
<1> HIDE DEF P
<1>6. /\ B \in Seq(Seq(Slot)) /\ Len(B) = Len(arrays) + 2
      /\ \A b \in 1..Len(arrays) : B[b] = arrays[b]
      /\ B[x] = N /\ B[y] = Q
  BY <1>2, <1>5, ConcatTwo
<1> HIDE DEF B
<1>7. Len(B[x]) = 1 /\ B[x][1] = Nil /\ Len(B[y]) = 1 /\ B[y][1] = Len(entries) + 1
  <2> HIDE DEF x, y
  <2>1. QED
    BY <1>4, <1>6
<1>8. B[y][1] \in 1..Len(F) /\ B[y][1] # Nil
  BY <1>2, <1>3, <1>7, CacheAssumption
<1>9. HeapOK(B, F) /\ Sound(B, k) /\ Sound(B, l)
  BY <1>3, <1>6, <1>7, <1>8, HeapPair
<1>10. Good(B, F, l)
  <2>1. Full(B, l) /\ Distinct(B, F, l)
    BY <1>8 DEF Full, Distinct, H
  <2>2. QED
    BY <2>1, <1>9 DEF Good
<1>11. k \in Header /\ k.len = 1 /\ k.array = x /\ B[k.array][1] = Nil /\ H(k.array + 1, 1) = l
  BY <1>2, <1>7, <1>9 DEF Sound, H
<1> HIDE DEF k, l
<1>12. worker' \in Worker /\ worker'.pc = "make" /\ worker'.next = k
  BY <1>1, <1>11 DEF Worker, WorkerIdle
<1>13. MakeInv'
  BY <1>1, <1>9, <1>10, <1>11, <1>12 DEF MakeInv, At
<1>14. QED
  BY <1>1, <1>9, <1>12, <1>13 DEF SliceInv, IdleInv, MoveInv, ClearInv, StoreInv

LEMMA StoreNilsKeeps ==
    ASSUME TypeOK, SliceInv, StoreNils
    PROVE  SliceInv'
<1> DEFINE n == worker.next
           k == H(n.array + 1, 1)
<1>1. /\ header' = n /\ UNCHANGED <<entries, arrays>>
      /\ worker' = [WorkerIdle EXCEPT !.pc = "store", !.next = k]
  BY DEF StoreNils, Storing, H
<1>2. /\ Sound(arrays, n) /\ n.len = 1 /\ arrays[n.array][1] = Nil
      /\ Good(arrays, entries, k)
  BY DEF StoreNils, SliceInv, MakeInv, At
<1>3. n # Nil
  BY <1>2, CacheAssumption DEF Sound, Header
<1>4. k \in Header /\ k.len = 1
  BY <1>2 DEF Good, Sound, H
<1> HIDE DEF k, n
<1>5. worker' \in Worker /\ worker'.pc = "store" /\ worker'.next = k
  BY <1>1, <1>4 DEF Worker, WorkerIdle
<1>6. StoreInv'
  BY <1>1, <1>2, <1>3, <1>4, <1>5 DEF StoreInv, Starts, At
<1>7. QED
  BY <1>1, <1>2, <1>5, <1>6 DEF SliceInv, IdleInv, MakeInv, MoveInv, ClearInv

LEMMA UpdateEntryKeeps ==
    ASSUME TypeOK, SliceInv, NEW hvpa \in Hvpas, UpdateEntry(hvpa)
    PROVE  SliceInv'
<1>1. PICK pointer \in PointersOf(hvpa) : entries' = [entries EXCEPT ![pointer] = New(hvpa)]
  BY DEF UpdateEntry
<1>2. /\ UNCHANGED <<arrays, header, worker>> /\ worker.pc = "idle"
      /\ New(hvpa) \in Entry /\ New(hvpa).name = hvpa
  BY NewEntry DEF UpdateEntry, Learns
<1>3. header # Nil /\ Good(arrays, entries, header) /\ HeapOK(arrays, entries)
  BY <1>1, <1>2 DEF PointersOf, SlotsOf, Slots, SliceInv, IdleInv
<1>4. pointer \in 1..Len(entries) /\ entries[pointer].name = hvpa
  BY <1>1, <1>3, ElementExists DEF PointersOf, SlotsOf, Slots, At, Good
<1>5. /\ entries' \in Seq(Entry) /\ Len(entries') = Len(entries)
      /\ \A p \in 1..Len(entries) : entries'[p].name = entries[p].name
  BY <1>1, <1>2, <1>3, <1>4 DEF HeapOK
<1>6. HeapOK(arrays, entries')
  BY <1>3, <1>5 DEF HeapOK
<1>7. \A i \in 1..header.len : arrays[header.array][i] \in 1..Len(entries)
  BY <1>3, ElementExists DEF Good, Full
<1>8. Good(arrays, entries', header)
  BY <1>3, <1>5, <1>7 DEF Good, Distinct
<1>9. QED
  BY <1>2, <1>3, <1>6, <1>8
     DEF SliceInv, IdleInv, MakeInv, MoveInv, ClearInv, StoreInv, Good

LEMMA AppendEntryKeeps ==
    ASSUME TypeOK, SliceInv, NEW hvpa \in Hvpas, AppendEntry(hvpa)
    PROVE  SliceInv'
<1> DEFINE n == New(hvpa)
           F == Append(entries, n)
           p == Len(entries) + 1
<1>1. /\ entries' = F /\ header' = header /\ header # Nil
      /\ worker.pc = "idle" /\ PointersOf(hvpa) = {} /\ n \in Entry /\ n.name = hvpa
      /\ AppendInPlace(p) \/ AppendElsewhere(p)
  BY NewEntry DEF AppendEntry, Learns
<1>2. HeapOK(arrays, entries) /\ Good(arrays, entries, header)
  BY <1>1 DEF SliceInv, IdleInv
<1>3. \A i \in 1..header.len : entries[arrays[header.array][i]].name # n.name
  BY <1>1, <1>2, NoPointer DEF Good
<1> HIDE DEF n
<1>4. ASSUME NEW k, worker' = [WorkerIdle EXCEPT !.pc = "store", !.next = k],
             HeapOK(arrays', entries'), Good(arrays', entries', k),
             Good(arrays', entries', header), k.len = header.len + 1,
             \A i \in 1..header.len : arrays'[k.array][i] = arrays'[header.array][i]
      PROVE  SliceInv'
  <2>1. k \in Header
    BY <1>4 DEF Good, Sound
  <2>2. worker' \in Worker /\ worker'.pc = "store" /\ worker'.next = k
    BY <1>4, <2>1 DEF Worker, WorkerIdle
  <2>3. Grows'
    BY <1>1, <1>4, <2>2 DEF Grows, At, Good
  <2>4. StoreInv'
    BY <1>1, <1>4, <2>2, <2>3 DEF StoreInv
  <2>5. QED
    BY <1>1, <1>4, <2>2, <2>4 DEF SliceInv, IdleInv, MakeInv, MoveInv, ClearInv, Good
<1>5. CASE AppendInPlace(p)
  <2> DEFINE B == Assigned(arrays, header.array, header.len + 1, p)
             k == H(header.array, header.len + 1)
  <2>1. /\ header.len < Len(arrays[header.array]) /\ arrays' = B
        /\ worker' = [WorkerIdle EXCEPT !.pc = "store", !.next = k]
    BY <1>5 DEF AppendInPlace, Assigned, Storing, Capacity, H
  <2>2. /\ HeapOK(B, F) /\ Good(B, F, k) /\ Good(B, F, header)
        /\ \A i \in 1..header.len : B[header.array][i] = arrays[header.array][i]
    <3>1. n \in Entry /\ header.len < Len(arrays[header.array])
      BY <1>1, <2>1
    <3>2. QED
      BY <1>2, <1>3, <3>1, AppendsInPlace
  <2>3. k.array = header.array /\ k.len = header.len + 1
    BY DEF H
  <2> HIDE DEF B, k, F
  <2>4. QED
    BY <1>1, <1>4, <2>1, <2>2, <2>3
<1>6. CASE AppendElsewhere(p)
  <2> DEFINE B == Elsewhere(arrays, header, p)
             k == H(Len(arrays) + 1, header.len + 1)
  <2>1. /\ header.len = Len(arrays[header.array]) /\ arrays' = B
        /\ worker' = [WorkerIdle EXCEPT !.pc = "store", !.next = k]
    BY <1>6 DEF AppendElsewhere, Elsewhere, Twice, Doubled, Storing, Capacity, H
  <2>2. /\ HeapOK(B, F) /\ Good(B, F, k) /\ Good(B, F, header)
        /\ \A i \in 1..header.len : B[k.array][i] = arrays[header.array][i]
        /\ \A i \in 1..header.len : B[header.array][i] = arrays[header.array][i]
    <3>1. n \in Entry /\ header.len = Len(arrays[header.array])
      BY <1>1, <2>1
    <3>2. QED
      BY <1>2, <1>3, <3>1, AppendsElsewhere
  <2>3. k.len = header.len + 1
    BY DEF H
  <2> HIDE DEF B, k, F
  <2>4. QED
    BY <1>1, <1>4, <2>1, <2>2, <2>3
<1>7. QED
  BY <1>1, <1>5, <1>6

LEMMA StartRemovalKeeps ==
    ASSUME TypeOK, SliceInv, NEW hvpa \in Hvpas, StartRemoval(hvpa)
    PROVE  SliceInv'
<1>1. PICK slot \in SlotsOf(header, hvpa) :
        worker' = [WorkerIdle EXCEPT !.pc = "move", !.hvpa = hvpa, !.slot = slot]
  BY DEF StartRemoval
<1>2. UNCHANGED <<entries, arrays, header>> /\ worker.pc = "idle"
  BY DEF StartRemoval
<1>3. /\ header # Nil /\ slot \in 1..header.len
      /\ entries[arrays[header.array][slot]].name = hvpa
  BY <1>1 DEF SlotsOf, Slots, At
<1>4. HeapOK(arrays, entries) /\ Good(arrays, entries, header)
  BY <1>2, <1>3 DEF SliceInv, IdleInv
<1>5. slot \in Nat
  BY <1>3, <1>4 DEF Good, Sound, Header
<1>6. /\ worker' \in Worker /\ worker'.pc = "move"
      /\ worker'.hvpa = hvpa /\ worker'.slot = slot
  BY <1>1, <1>5 DEF Worker, WorkerIdle
<1>7. MoveInv'
  BY <1>2, <1>3, <1>4, <1>6 DEF MoveInv, At
<1>8. QED
  BY <1>2, <1>4, <1>6, <1>7 DEF SliceInv, IdleInv, MakeInv, ClearInv, StoreInv, Good

LEMMA MoveLastKeeps ==
    ASSUME TypeOK, SliceInv, MoveLast
    PROVE  SliceInv'
<1> DEFINE s == worker.slot
           B == Moved(arrays, header, s)
<1>1. /\ arrays' = B /\ UNCHANGED <<entries, header>>
      /\ worker.pc = "move" /\ worker' = [worker EXCEPT !.pc = "clear"]
  BY DEF MoveLast, Moved, Assigned, At
<1>2. /\ header # Nil /\ HeapOK(arrays, entries) /\ Good(arrays, entries, header)
      /\ s \in 1..header.len /\ worker.hvpa \in Hvpas
      /\ entries[arrays[header.array][s]].name = worker.hvpa
  BY <1>1 DEF SliceInv, MoveInv, At
<1>3. /\ HeapOK(B, entries) /\ Sound(B, header) /\ Full(B, header)
      /\ B[header.array][s] = B[header.array][header.len]
      /\ Distinct(B, entries, H(header.array, header.len - 1))
      /\ IF s = header.len
         THEN /\ Distinct(B, entries, header)
              /\ entries[B[header.array][header.len]].name = worker.hvpa
         ELSE \A i \in 1..header.len : entries[B[header.array][i]].name # worker.hvpa
  BY <1>2, Moves
<1> HIDE DEF B
<1>4. /\ worker' \in Worker /\ worker'.pc = "clear"
      /\ worker'.hvpa = worker.hvpa /\ worker'.slot = s
  BY <1>1 DEF SliceInv, Worker
<1>5. ClearInv'
  BY <1>1, <1>2, <1>3, <1>4 DEF ClearInv, At
<1>6. QED
  BY <1>1, <1>3, <1>4, <1>5 DEF SliceInv, IdleInv, MakeInv, MoveInv, StoreInv

LEMMA ClearLastKeeps ==
    ASSUME TypeOK, SliceInv, ClearLast
    PROVE  SliceInv'
<1> DEFINE B == Assigned(arrays, header.array, header.len, Nil)
           k == H(header.array, header.len - 1)
<1>1. /\ header # Nil /\ HeapOK(arrays, entries)
      /\ Sound(arrays, header) /\ Full(arrays, header) /\ worker.slot \in 1..header.len
      /\ Distinct(arrays, entries, k)
  BY DEF ClearLast, SliceInv, ClearInv
<1>2. header.len \in Nat /\ header.len >= 1 /\ header \in Header
  BY <1>1 DEF Sound, Header
<1>3. [header EXCEPT !.len = header.len - 1] = k
  BY <1>2 DEF Header, H
<1>4. /\ arrays' = B /\ UNCHANGED <<entries, header>> /\ worker.pc = "clear"
      /\ worker' = [WorkerIdle EXCEPT !.pc = "store", !.next = k]
  BY <1>3 DEF ClearLast, Assigned, Storing
<1>5. /\ HeapOK(B, entries) /\ Sound(B, header) /\ B[header.array][header.len] = Nil
      /\ Good(B, entries, k)
  BY <1>1, <1>2, Clears
<1>6. k \in Header
  BY <1>5 DEF Good, Sound
<1> HIDE DEF B
<1>7. worker' \in Worker /\ worker'.pc = "store" /\ worker'.next = k
  BY <1>4, <1>6 DEF Worker, WorkerIdle
<1>8. Shrinks'
  BY <1>2, <1>4, <1>5, <1>7 DEF Shrinks, At
<1>9. StoreInv'
  BY <1>1, <1>4, <1>5, <1>7, <1>8 DEF StoreInv
<1>10. QED
  BY <1>4, <1>5, <1>7, <1>9 DEF SliceInv, IdleInv, MakeInv, MoveInv, ClearInv

LEMMA StoreHeaderKeeps ==
    ASSUME TypeOK, SliceInv, StoreHeader
    PROVE  SliceInv'
<1>1. /\ header' = worker.next /\ worker' = WorkerIdle /\ UNCHANGED <<entries, arrays>>
      /\ worker.pc = "store"
  BY DEF StoreHeader
<1>2. HeapOK(arrays, entries) /\ Good(arrays, entries, worker.next)
  BY <1>1 DEF SliceInv, StoreInv
<1>3. worker' \in Worker /\ worker'.pc = "idle"
  BY <1>1 DEF Worker, WorkerIdle
<1>4. IdleInv'
  BY <1>1, <1>2 DEF IdleInv
<1>5. QED
  BY <1>1, <1>2, <1>3, <1>4 DEF SliceInv, MakeInv, MoveInv, ClearInv, StoreInv, Good

-----------------------------------------------------------------------------
(* Invariance.                                                             *)

\* No step of the worker drops an array.
LEMMA ArraysStay ==
    ASSUME TypeOK, SliceInv, (\E hvpa \in Hvpas : ManageCache(hvpa)) \/ Proceed
    PROVE  SliceInv' /\ Len(arrays) <= Len(arrays') /\ UNCHANGED <<exists, target, handler, edits>>
<1>1. arrays \in Seq(Seq(Slot)) /\ Len(arrays) \in Nat
  BY DEF TypeOK
<1>2. ASSUME NEW hvpa \in Hvpas, FirstEntry(hvpa)
      PROVE  SliceInv' /\ Len(arrays) <= Len(arrays') /\ UNCHANGED <<exists, target, handler, edits>>
  <2>1. SliceInv'
    BY <1>2, FirstEntryKeeps
  <2>2. Len(arrays') = Len(arrays) + 2
    <3>1. << <<Nil>>, <<Len(entries) + 1>> >> \in Seq(Seq(Slot))
      BY DEF TypeOK, Slot
    <3>2. QED
      BY <1>1, <1>2, <3>1, ConcatProperties DEF FirstEntry
  <2>3. QED
    BY <1>1, <1>2, <2>1, <2>2 DEF FirstEntry, Busy
<1>3. ASSUME NEW hvpa \in Hvpas, UpdateEntry(hvpa)
      PROVE  SliceInv' /\ Len(arrays) <= Len(arrays') /\ UNCHANGED <<exists, target, handler, edits>>
  <2>1. arrays' = arrays /\ UNCHANGED <<exists, target, handler, edits>>
    BY <1>3 DEF UpdateEntry, Busy
  <2>2. QED
    BY <1>1, <1>3, <2>1, UpdateEntryKeeps
<1>4. ASSUME NEW hvpa \in Hvpas, AppendEntry(hvpa)
      PROVE  SliceInv' /\ Len(arrays) <= Len(arrays') /\ UNCHANGED <<exists, target, handler, edits>>
  <2>1. Len(arrays) <= Len(arrays')
    BY <1>1, <1>4 DEF AppendEntry, AppendInPlace, AppendElsewhere
  <2>2. QED
    BY <1>4, <2>1, AppendEntryKeeps DEF AppendEntry, Busy
<1>5. ASSUME NEW hvpa \in Hvpas, StartRemoval(hvpa)
      PROVE  SliceInv' /\ Len(arrays) <= Len(arrays') /\ UNCHANGED <<exists, target, handler, edits>>
  <2>1. arrays' = arrays /\ UNCHANGED <<exists, target, handler, edits>>
    BY <1>5 DEF StartRemoval, Busy
  <2>2. QED
    BY <1>1, <1>5, <2>1, StartRemovalKeeps
<1>6. CASE StoreNils
  <2>1. arrays' = arrays /\ UNCHANGED <<exists, target, handler, edits>>
    BY <1>6 DEF StoreNils, Busy
  <2>2. QED
    BY <1>1, <1>6, <2>1, StoreNilsKeeps
<1>7. CASE MoveLast
  <2>1. Len(arrays) <= Len(arrays')
    BY <1>1, <1>7 DEF MoveLast
  <2>2. QED
    BY <1>7, <2>1, MoveLastKeeps DEF MoveLast, Busy
<1>8. CASE ClearLast
  <2>1. Len(arrays) <= Len(arrays')
    BY <1>1, <1>8 DEF ClearLast
  <2>2. QED
    BY <1>8, <2>1, ClearLastKeeps DEF ClearLast, Busy
<1>9. CASE StoreHeader
  <2>1. arrays' = arrays /\ UNCHANGED <<exists, target, handler, edits>>
    BY <1>9 DEF StoreHeader, Busy
  <2>2. QED
    BY <1>1, <1>9, <2>1, StoreHeaderKeeps
<1>10. QED
  BY <1>2, <1>3, <1>4, <1>5, <1>6, <1>7, <1>8, <1>9 DEF ManageCache, Proceed

LEMMA WorkerKeeps ==
    ASSUME IInv, WorkerStep
    PROVE  IInv'
<1>1. (\E hvpa \in Hvpas : ManageCache(hvpa)) \/ Proceed
  BY DEF WorkerStep
<1>2. SliceInv' /\ Len(arrays) <= Len(arrays') /\ UNCHANGED <<exists, target, handler, edits>>
  BY <1>1, ArraysStay DEF IInv
<1>3. loop' \in Loop
  <2>1. CASE handler.pc # "scan"
    BY <2>1 DEF WorkerStep, Witness, IInv, TypeOK
  <2>2. CASE handler.pc = "scan"
    <3>1. Offered(handler.labels)' \subseteq Hvpas
      BY DEF Offered, Offers
    <3>2. QED
      BY <2>2, <3>1 DEF WorkerStep, Witness, IInv, TypeOK, Loop
  <2>3. QED
    BY <2>1, <2>2
<1>4. TypeOK'
  <2>1. /\ (entries \in Seq(Entry) /\ arrays \in Seq(Seq(Slot)))'
        /\ (header \in Header \union {Nil} /\ worker \in Worker)'
    BY <1>2 DEF SliceInv, HeapOK, Sound
  <2>2. QED
    BY <1>2, <1>3, <2>1 DEF IInv, TypeOK
<1>5. HandlerInv'
  <2>1. Len(arrays) \in Nat /\ Len(arrays') \in Nat
    BY <1>4 DEF IInv, TypeOK
  <2>2. QED
    BY <1>2, <2>1 DEF IInv, HandlerInv
<1>6. QED
  BY <1>2, <1>4, <1>5 DEF IInv

\* What the handler reads is nil or points to an entry.
LEMMA ReadsEntry ==
    ASSUME IInv, Scanning, ~IsHole
    PROVE  entries[Element] \in Entry
<1>1. /\ handler.slice # Nil /\ handler.slice.array \in 1..Len(arrays)
      /\ handler.index \in 1..handler.slice.len /\ handler.index \in Nat \ {0}
  BY DEF Scanning, Slots, IInv, HandlerInv, TypeOK, Handler
<1>2. Element # Nil /\ handler.index <= Len(arrays[handler.slice.array])
  BY DEF IsHole, Element, Capacity
<1>3. arrays[handler.slice.array] \in Seq(Slot) /\ entries \in Seq(Entry)
  BY <1>1 DEF IInv, TypeOK
<1>4. handler.index \in 1..Len(arrays[handler.slice.array])
  BY <1>1, <1>2, <1>3
<1>5. Element \in 1..Len(entries)
  BY <1>1, <1>2, <1>4 DEF Element, Capacity, At, IInv, SliceInv, HeapOK
<1>6. QED
  BY <1>3, <1>5

\* A copy of the header, torn or not, is of arrays there are.
LEMMA CopiedHeader ==
    ASSUME IInv, NEW slice \in Headers
    PROVE  slice \in Header \union {Nil} /\ (slice # Nil => slice.array \in 1..Len(arrays))
<1>1. header \in Header \union {Nil} /\ (header # Nil => header.array \in 1..Len(arrays))
  BY DEF IInv, TypeOK, SliceInv, Sound
<1>2. CASE ~Assigning
  BY <1>1, <1>2 DEF Headers
<1>3. CASE Assigning
  <2>1. worker.next \in Header /\ worker.next.array \in 1..Len(arrays)
    BY <1>3 DEF Assigning, IInv, SliceInv, MakeInv, StoreInv, Good, Sound
  <2>2. QED
    BY <1>1, <1>3, <2>1 DEF Headers, Header
<1>4. QED
  BY <1>2, <1>3

LEMMA HandlerKeeps ==
    ASSUME IInv, HandlerStep
    PROVE  IInv'
<1>1. UNCHANGED <<exists, target, entries, arrays, header, worker, edits>>
  BY DEF HandlerStep, Lookup, LookupIsFatal, ReadMatch, ReadOther, ReadHole, EndScan, Answer, Look
<1>2. SliceInv'
  BY <1>1 DEF IInv, SliceInv, IdleInv, MakeInv, MoveInv, ClearInv, StoreInv, At,
              Shrinks, Grows, Starts
<1>3. NoLoop \in Loop /\ HandlerIdle \in Handler
  BY DEF NoLoop, Loop, HandlerIdle, Handler
<1>4. handler' \in Handler /\ loop' \in Loop /\ HandlerInv'
  <2>1. ASSUME NEW labels \in Labels, Lookup(labels)
        PROVE  handler' \in Handler /\ loop' \in Loop /\ HandlerInv'
    <3>1. PICK slice \in Headers :
            handler' = [HandlerIdle EXCEPT !.pc = "scan", !.slice = slice, !.labels = labels]
      BY <2>1 DEF Lookup
    <3>2. slice \in Header \union {Nil} /\ (slice # Nil => slice.array \in 1..Len(arrays))
      BY CopiedHeader
    <3>3. handler' = [pc |-> "scan", slice |-> slice, index |-> 1, labels |-> labels, found |-> Nil]
      BY <3>1 DEF HandlerIdle
    <3>4. handler' \in Handler /\ handler'.slice = slice
      BY <3>2, <3>3 DEF Handler
    <3>5. loop' \in Loop
      BY <2>1 DEF Lookup, Loop, Offered, Offers
    <3>6. QED
      BY <1>1, <3>2, <3>4, <3>5 DEF HandlerInv
  <2>2. CASE LookupIsFatal \/ ReadHole
    BY <1>3, <2>2 DEF LookupIsFatal, ReadHole, HandlerIdle, Handler, HandlerInv
  <2>3. CASE ReadMatch
    <3>1. entries[Element].name \in Hvpas
      BY <2>3, ReadsEntry DEF ReadMatch, Entry
    <3>2. QED
      BY <1>3, <2>3, <3>1 DEF ReadMatch, Answer, HandlerIdle, Handler, HandlerInv
  <2>4. CASE ReadOther
    <3>1. /\ handler \in Handler /\ loop \in Loop /\ handler.index \in Nat
          /\ handler' = [handler EXCEPT !.index = handler.index + 1] /\ loop' = loop
      BY <2>4 DEF ReadOther, IInv, TypeOK, Handler
    <3>2. handler.index + 1 \in Nat \ {0}
      BY <3>1
    <3>3. handler' \in Handler /\ handler'.slice = handler.slice /\ handler'.pc = handler.pc
      BY <3>1, <3>2 DEF Handler
    <3>4. QED
      BY <1>1, <3>1, <3>3 DEF HandlerInv, IInv
  <2>5. CASE EndScan
    BY <1>3, <2>5 DEF EndScan, Answer, HandlerIdle, Handler, HandlerInv
  <2>6. QED
    BY <2>1, <2>2, <2>3, <2>4, <2>5 DEF HandlerStep
<1>5. TypeOK'
  BY <1>1, <1>4 DEF IInv, TypeOK
<1>6. QED
  BY <1>2, <1>4, <1>5 DEF IInv

LEMMA OthersKeep ==
    ASSUME IInv, UserStep \/ Restart
    PROVE  IInv'
<1>1. CASE UserStep
  <2>1. UNCHANGED <<entries, arrays, header, worker, handler, loop>>
    BY <1>1 DEF UserStep, UserCreates, UserDeletes, UserEditsTarget, Apart
  <2>2. exists' \subseteq Hvpas /\ target' \in [Hvpas -> Target] /\ edits' \in 0..MaxEdits
    BY <1>1, CacheAssumption
       DEF UserStep, UserCreates, UserDeletes, UserEditsTarget, UserEdits, IInv, TypeOK
  <2>3. SliceInv' /\ HandlerInv'
    BY <2>1 DEF IInv, SliceInv, IdleInv, MakeInv, MoveInv, ClearInv, StoreInv, At,
                Shrinks, Grows, Starts, HandlerInv
  <2>4. QED
    BY <2>1, <2>2, <2>3 DEF IInv, TypeOK
<1>2. CASE Restart
  <2>1. /\ entries' = << >> /\ arrays' = << >> /\ header' = Nil
        /\ worker' = WorkerIdle /\ handler' = HandlerIdle /\ loop' = NoLoop
        /\ UNCHANGED <<exists, target, edits>>
    BY <1>2 DEF Restart
  <2>2. /\ WorkerIdle \in Worker /\ WorkerIdle.pc = "idle"
        /\ HandlerIdle \in Handler /\ HandlerIdle.pc = "idle" /\ NoLoop \in Loop
    BY DEF WorkerIdle, Worker, HandlerIdle, Handler, NoLoop, Loop
  <2>3. HeapOK(arrays', entries')
    BY <2>1 DEF HeapOK
  <2>4. SliceInv' /\ HandlerInv'
    BY <2>1, <2>2, <2>3
       DEF SliceInv, IdleInv, MakeInv, MoveInv, ClearInv, StoreInv, HandlerInv
  <2>5. QED
    BY <2>1, <2>2, <2>4 DEF IInv, TypeOK
<1>3. QED
  BY <1>1, <1>2

\* The slice is as it should be at every step of ManageCache: line by line.
THEOREM Invariance == Spec => []IInv
<1>1. Init => IInv
  <2> SUFFICES ASSUME Init PROVE IInv
    OBVIOUS
  <2>1. /\ WorkerIdle \in Worker /\ WorkerIdle.pc = "idle"
        /\ HandlerIdle \in Handler /\ HandlerIdle.pc = "idle" /\ NoLoop \in Loop
    BY DEF WorkerIdle, Worker, HandlerIdle, Handler, NoLoop, Loop
  <2>2. HeapOK(arrays, entries)
    BY DEF Init, HeapOK
  <2>3. SliceInv /\ HandlerInv
    BY <2>1, <2>2
       DEF Init, SliceInv, IdleInv, MakeInv, MoveInv, ClearInv, StoreInv, HandlerInv
  <2>4. QED
    BY <2>1, <2>3, CacheAssumption DEF Init, IInv, TypeOK, Target
<1>2. IInv /\ [Next]_vars => IInv'
  <2> SUFFICES ASSUME IInv, [Next]_vars PROVE IInv'
    OBVIOUS
  <2>1. CASE UNCHANGED vars
    BY <2>1 DEF vars, IInv, TypeOK, SliceInv, IdleInv, MakeInv, MoveInv, ClearInv, StoreInv, At,
                Shrinks, Grows, Starts, HandlerInv
  <2>2. QED
    BY <2>1, WorkerKeeps, HandlerKeeps, OthersKeep DEF Next
<1>3. QED
  BY <1>1, <1>2, PTL DEF Spec

\* Every variable keeps its type, the handler's answers included.
THEOREM TypeCorrect == Spec => []TypeOK
BY Invariance, PTL DEF IInv

\* Whenever the mutex is free the slice holds no nil and no HVPA twice.
THEOREM SliceWellFormed == Spec => []WellFormed
<1>1. IInv => WellFormed
  <2> SUFFICES ASSUME IInv, worker.pc = "idle", header # Nil
               PROVE  \A i \in 1..header.len :
                        /\ At(header, i) # Nil
                        /\ \A j \in 1..header.len :
                             entries[At(header, i)].name = entries[At(header, j)].name => i = j
    BY DEF WellFormed, Slots
  <2>1. QED
    BY DEF IInv, SliceInv, IdleInv, Good, Full, Distinct, At
<1>2. QED
  BY <1>1, Invariance, PTL

-----------------------------------------------------------------------------
(* The refinement.  What is known of an HVPA depends on the pointers in    *)
(* the slice only, wherever they are.                                      *)

Pointers(A, E, h, hvpa) ==
    {A[h.array][i] : i \in {j \in Slots(h) : /\ A[h.array][j] # Nil
                                             /\ E[A[h.array][j]].name = hvpa}}

KnownIn(A, E, h, hvpa) ==
    IF Pointers(A, E, h, hvpa) = {} THEN Nil
    ELSE E[The(Pointers(A, E, h, hvpa))].selector

LEMMA KnownHere ==
    ASSUME NEW hvpa
    PROVE  /\ PointersOf(hvpa) = Pointers(arrays, entries, header, hvpa)
           /\ Known(hvpa) = KnownIn(arrays, entries, header, hvpa)
           /\ PointersOf(hvpa)' = Pointers(arrays', entries', header', hvpa)
           /\ Known(hvpa)' = KnownIn(arrays', entries', header', hvpa)
<1>1. PointersOf(hvpa) = Pointers(arrays, entries, header, hvpa)
  BY DEF PointersOf, SlotsOf, At, Pointers
<1>2. PointersOf(hvpa)' = Pointers(arrays', entries', header', hvpa)
  BY DEF PointersOf, SlotsOf, At, Pointers, Slots
<1>3. QED
  BY <1>1, <1>2 DEF Known, KnownIn, Absent

\* The same pointers to the same selectors are the same knowledge ...
LEMMA SameKnowledge ==
    ASSUME NEW A, NEW E, NEW h, NEW B, NEW F, NEW k, NEW hvpa,
           Pointers(B, F, k, hvpa) = Pointers(A, E, h, hvpa),
           \A p \in Pointers(A, E, h, hvpa) : F[p] = E[p]
    PROVE  KnownIn(B, F, k, hvpa) = KnownIn(A, E, h, hvpa)
<1>1. CASE Pointers(A, E, h, hvpa) = {}
  BY <1>1 DEF KnownIn
<1>2. CASE Pointers(A, E, h, hvpa) # {}
  <2>1. The(Pointers(A, E, h, hvpa)) \in Pointers(A, E, h, hvpa)
    BY <1>2 DEF The
  <2>2. QED
    BY <1>2, <2>1 DEF KnownIn
<1>3. QED
  BY <1>1, <1>2

\* ... and one pointer is all the knowledge.
LEMMA OnePointer ==
    ASSUME NEW A, NEW E, NEW h, NEW hvpa, NEW p \in Pointers(A, E, h, hvpa),
           \A q \in Pointers(A, E, h, hvpa) : q = p
    PROVE  KnownIn(A, E, h, hvpa) = E[p].selector
<1>1. The(Pointers(A, E, h, hvpa)) \in Pointers(A, E, h, hvpa)
  BY DEF The
<1>2. QED
  BY <1>1 DEF KnownIn

\* With distinct names there is one pointer at most, the one in its slot.
LEMMA PointerInSlot ==
    ASSUME NEW A, NEW E, NEW h, Full(A, h), Distinct(A, E, h), h # Nil, NEW i \in 1..h.len
    PROVE  Pointers(A, E, h, E[A[h.array][i]].name) = {A[h.array][i]}
<1>1. \A j \in 1..h.len : A[h.array][j] # Nil
  BY DEF Full
<1>2. \A j \in 1..h.len : E[A[h.array][j]].name = E[A[h.array][i]].name => j = i
  BY DEF Distinct
<1>3. Slots(h) = 1..h.len
  BY DEF Slots
<1>4. QED
  BY <1>1, <1>2, <1>3 DEF Pointers

Sel == [hvpa \in Hvpas |-> Known(hvpa)]

\* A step that changes what is known of one HVPA at most.
LEMMA OneChange ==
    ASSUME NEW hvpa \in Hvpas, \A other \in Hvpas \ {hvpa} : Known(other)' = Known(other)
    PROVE  Sel' = [Sel EXCEPT ![hvpa] = Known(hvpa)']
BY DEF Sel

LEMMA NoChange ==
    ASSUME \A hvpa \in Hvpas : Known(hvpa)' = Known(hvpa)
    PROVE  Sel' = Sel
BY DEF Sel

\* The steps up to the store of a longer slice are not seen.
LEMMA BeforeStore ==
    ASSUME IInv, NEW hvpa,
           \/ hvpa \in Hvpas /\ (FirstEntry(hvpa) \/ AppendEntry(hvpa))
           \/ StoreNils
    PROVE  UNCHANGED <<exists, Sel, Missed>>
<1>1. exists' = exists /\ Missed = {} /\ Missed' = {}
  BY DEF FirstEntry, AppendEntry, AppendInPlace, AppendElsewhere, StoreNils, Storing, Learns,
         Missed, WorkerIdle, Busy
<1>2. CASE FirstEntry(hvpa) \/ StoreNils
  <2>1. \A other : PointersOf(other) = {} /\ PointersOf(other)' = {}
    <3>1. CASE FirstEntry(hvpa)
      BY <3>1 DEF FirstEntry, PointersOf, SlotsOf, Slots
    <3>2. CASE StoreNils
      <4>1. /\ header = Nil /\ header' = worker.next /\ arrays' = arrays
            /\ worker.next.len = 1 /\ arrays[worker.next.array][1] = Nil
        BY <3>2 DEF StoreNils, IInv, SliceInv, MakeInv, At
      <4>2. QED
        BY <4>1 DEF PointersOf, SlotsOf, Slots, At
    <3>3. QED
      BY <1>2, <3>1, <3>2
  <2>2. \A other : Known(other) = Nil /\ Known(other)' = Nil
    BY <2>1 DEF Known, Absent
  <2>3. QED
    BY <1>1, <2>2, NoChange
<1>3. CASE hvpa \in Hvpas /\ AppendEntry(hvpa)
  <2> DEFINE n == New(hvpa)
             p == Len(entries) + 1
  <2>1. /\ entries' = Append(entries, n) /\ header' = header /\ header # Nil
        /\ worker.pc = "idle" /\ n \in Entry
        /\ AppendInPlace(p) \/ AppendElsewhere(p)
    BY <1>3, NewEntry DEF AppendEntry, Learns, IInv
  <2>2. HeapOK(arrays, entries) /\ Good(arrays, entries, header)
    BY <2>1 DEF IInv, SliceInv, IdleInv
  <2> HIDE DEF n
  <2>3. /\ header.array \in 1..Len(arrays) /\ header.len \in Nat
        /\ arrays \in Seq(Seq(Slot)) /\ Len(arrays[header.array]) \in Nat
    BY <2>2 DEF Good, Sound, Header, HeapOK
  <2>4. \A i \in 1..header.len : arrays'[header.array][i] = arrays[header.array][i]
    <3>1. CASE AppendInPlace(p)
      BY <2>3, <3>1 DEF AppendInPlace
    <3>2. CASE AppendElsewhere(p)
      BY <2>3, <3>2 DEF AppendElsewhere
    <3>3. QED
      BY <2>1, <3>1, <3>2
  <2>5. \A i \in 1..header.len : /\ arrays[header.array][i] \in 1..Len(entries)
                                /\ entries'[arrays[header.array][i]] = entries[arrays[header.array][i]]
    BY <2>1, <2>2, Allocate, ElementExists DEF Good, Full
  <2>6. \A other \in Hvpas : Known(other)' = Known(other)
    <3> TAKE other \in Hvpas
    <3>1. Slots(header) = 1..header.len
      BY <2>1 DEF Slots
    <3>2. Pointers(arrays', entries', header, other) = Pointers(arrays, entries, header, other)
      BY <2>4, <2>5, <3>1 DEF Pointers
    <3>3. \A q \in Pointers(arrays, entries, header, other) : entries'[q] = entries[q]
      BY <2>5, <3>1 DEF Pointers
    <3>4. KnownIn(arrays', entries', header, other) = KnownIn(arrays, entries, header, other)
      BY <3>2, <3>3, SameKnowledge
    <3>5. QED
      BY <2>1, <3>4, KnownHere
  <2>7. QED
    BY <1>1, <2>6, NoChange
<1>4. QED
  BY <1>2, <1>3

\* A selector that changes in place is learnt.
LEMMA UpdateLearns ==
    ASSUME IInv, NEW hvpa \in Hvpas, UpdateEntry(hvpa)
    PROVE  Map!Learn(hvpa)
<1> DEFINE n == New(hvpa)
<1>1. PICK p \in PointersOf(hvpa) : entries' = [entries EXCEPT ![p] = n]
  BY DEF UpdateEntry
<1>2. /\ UNCHANGED <<exists, arrays, header, worker>> /\ worker.pc = "idle"
      /\ n \in Entry /\ n.name = hvpa
  BY NewEntry DEF UpdateEntry, Learns, Busy, IInv
<1>3. header # Nil /\ Good(arrays, entries, header) /\ HeapOK(arrays, entries)
  BY <1>1, <1>2 DEF PointersOf, SlotsOf, Slots, IInv, SliceInv, IdleInv
<1>4. PICK i \in 1..header.len : p = arrays[header.array][i] /\ entries[p].name = hvpa
  BY <1>1, <1>3 DEF PointersOf, SlotsOf, Slots, At
<1>5. p \in 1..Len(entries) /\ entries \in Seq(Entry)
  BY <1>3, <1>4, ElementExists DEF Good, Full, HeapOK
<1>6. entries'[p] = n /\ \A q \in 1..Len(entries) : q # p => entries'[q] = entries[q]
  BY <1>1, <1>5
<1> HIDE DEF n
<1>7. Full(arrays, header) /\ Distinct(arrays, entries', header)
  BY <1>2, <1>3, UpdateEntryKeeps DEF IInv, SliceInv, IdleInv, Good
<1>8. Pointers(arrays, entries', header, hvpa) = {p}
  <2>1. entries'[arrays[header.array][i]].name = hvpa
    BY <1>2, <1>4, <1>6
  <2>2. Pointers(arrays, entries', header, entries'[arrays[header.array][i]].name)
          = {arrays[header.array][i]}
    BY <1>3, <1>7, PointerInSlot
  <2>3. QED
    BY <1>4, <2>1, <2>2
<1>9. Known(hvpa)' = n.selector
  <2>1. KnownIn(arrays, entries', header, hvpa) = entries'[p].selector
    <3>1. p \in Pointers(arrays, entries', header, hvpa)
          /\ \A q \in Pointers(arrays, entries', header, hvpa) : q = p
      BY <1>8
    <3>2. QED
      BY <3>1, OnePointer
  <2>2. QED
    BY <1>2, <1>6, <2>1, KnownHere
<1>10. \A other \in Hvpas \ {hvpa} : Known(other)' = Known(other)
  <2> TAKE other \in Hvpas \ {hvpa}
  <2>1. \A q \in 1..Len(entries) : entries'[q].name = entries[q].name
    BY <1>2, <1>4, <1>6
  <2>2. \A j \in 1..header.len : arrays[header.array][j] \in 1..Len(entries)
    BY <1>3, ElementExists DEF Good, Full
  <2>3. Slots(header) = 1..header.len
    BY <1>3 DEF Slots
  <2>4. Pointers(arrays, entries', header, other) = Pointers(arrays, entries, header, other)
    BY <2>1, <2>2, <2>3 DEF Pointers
  <2>5. \A q \in Pointers(arrays, entries, header, other) : entries'[q] = entries[q]
    BY <1>4, <1>6, <2>2, <2>3 DEF Pointers
  <2>6. QED
    BY <1>2, <2>4, <2>5, SameKnowledge, KnownHere
<1>11. Missed = {} /\ Missed' = {}
  BY <1>2 DEF Missed
<1>12. n.selector \in Selectors
  BY <1>2 DEF Entry
<1>13. Sel' = [Sel EXCEPT ![hvpa] = n.selector]
  BY <1>9, <1>10, OneChange
<1>14. QED
  BY <1>2, <1>11, <1>12, <1>13 DEF Map!Learn, Sel

\* A removal that starts has found the HVPA gone.
LEMMA StartMisses ==
    ASSUME IInv, NEW hvpa \in Hvpas, StartRemoval(hvpa)
    PROVE  Map!Miss(hvpa)
<1>1. /\ hvpa \notin exists /\ SlotsOf(header, hvpa) # {} /\ worker.pc = "idle"
      /\ worker'.pc = "move" /\ worker'.hvpa = hvpa
      /\ UNCHANGED <<exists, entries, arrays, header>>
  BY DEF StartRemoval, WorkerIdle, Busy
<1>2. PointersOf(hvpa) # {}
  BY <1>1 DEF PointersOf
<1>3. \A other \in Hvpas : PointersOf(other)' = PointersOf(other) /\ Known(other)' = Known(other)
  BY <1>1, KnownHere
<1>4. Missed = {} /\ Missed' = {hvpa}
  BY <1>1, <1>2, <1>3 DEF Missed
<1>5. Known(hvpa) # Nil
  <2>1. header # Nil /\ HeapOK(arrays, entries) /\ Good(arrays, entries, header)
    BY <1>1 DEF SlotsOf, Slots, IInv, SliceInv, IdleInv
  <2>2. The(PointersOf(hvpa)) \in PointersOf(hvpa)
    BY <1>2 DEF The
  <2>3. PICK i \in 1..header.len : The(PointersOf(hvpa)) = arrays[header.array][i]
    BY <2>1, <2>2 DEF PointersOf, SlotsOf, Slots, At
  <2>4. entries[The(PointersOf(hvpa))] \in Entry
    BY <2>1, <2>3, ElementExists DEF Good, Full
  <2>5. Nil \notin Selectors
    BY CacheAssumption DEF Selectors
  <2>6. QED
    BY <1>2, <2>4, <2>5 DEF Known, Entry
<1>6. QED
  BY <1>1, <1>3, <1>4, <1>5, NoChange DEF Map!Miss, Sel, Absent

\* The move forgets the removed HVPA, unless it is the last one: then the
\* element is moved to its own place.
LEMMA MoveForgets ==
    ASSUME IInv, MoveLast
    PROVE  (\E hvpa \in Hvpas : Map!Forget(hvpa)) \/ UNCHANGED <<exists, Sel, Missed>>
<1>0. PICK gone : gone = worker.hvpa
  OBVIOUS
<1> DEFINE s == worker.slot
           B == Moved(arrays, header, s)
<1>1. /\ arrays' = B /\ UNCHANGED <<exists, entries, header>> /\ worker.pc = "move"
      /\ worker' = [worker EXCEPT !.pc = "clear"] /\ worker \in Worker
  BY DEF MoveLast, Moved, Assigned, At, Busy, IInv, TypeOK
<1>2. /\ header # Nil /\ HeapOK(arrays, entries) /\ Good(arrays, entries, header)
      /\ s \in 1..header.len /\ gone \in Hvpas
      /\ entries[arrays[header.array][s]].name = gone
  BY <1>0, <1>1 DEF IInv, SliceInv, MoveInv, At
<1>3. /\ B[header.array][s] = arrays[header.array][header.len]
      /\ \A i \in 1..header.len : i # s => B[header.array][i] = arrays[header.array][i]
      /\ s # header.len => \A i \in 1..header.len : entries[B[header.array][i]].name # gone
  <2>1. /\ B[header.array][s] = arrays[header.array][header.len]
        /\ \A i \in 1..header.len : i # s => B[header.array][i] = arrays[header.array][i]
    BY <1>2, Moves
  <2>2. s # header.len => \A i \in 1..header.len :
          entries[B[header.array][i]].name # entries[arrays[header.array][s]].name
    BY <1>2, Moves
  <2>3. QED
    BY <1>2, <2>1, <2>2
<1> HIDE DEF B
<1>4. /\ Slots(header) = 1..header.len /\ header.len \in 1..header.len
      /\ \A i \in 1..header.len : arrays[header.array][i] # Nil
  BY <1>2 DEF Slots, Good, Full, Sound, Header
<1>5. Pointers(arrays, entries, header, gone) # {}
  BY <1>2, <1>4 DEF Pointers
<1>6. worker'.pc = "clear" /\ worker'.hvpa = gone
  BY <1>0, <1>1 DEF Worker
<1>7. Missed = {gone}
  BY <1>0, <1>1, <1>2, <1>5, KnownHere DEF Missed
<1>8. CASE s = header.len
  <2>1. \A i \in 1..header.len : B[header.array][i] = arrays[header.array][i]
    BY <1>3, <1>8
  <2>2. \A other \in Hvpas : PointersOf(other)' = PointersOf(other) /\ Known(other)' = Known(other)
    <3> TAKE other \in Hvpas
    <3>1. Pointers(B, entries, header, other) = Pointers(arrays, entries, header, other)
      BY <1>4, <2>1 DEF Pointers
    <3>2. KnownIn(B, entries, header, other) = KnownIn(arrays, entries, header, other)
      BY <3>1, SameKnowledge
    <3>3. QED
      BY <1>1, <3>1, <3>2, KnownHere
  <2>3. Missed' = {gone}
    BY <1>2, <1>5, <1>6, <2>2, KnownHere DEF Missed
  <2>4. QED
    BY <1>1, <1>7, <2>2, <2>3, NoChange
<1>9. CASE s # header.len
  <2>1. Pointers(B, entries, header, gone) = {}
    BY <1>3, <1>4, <1>9 DEF Pointers
  <2>2. PointersOf(gone)' = {} /\ Known(gone)' = Nil
    BY <1>1, <2>1, KnownHere DEF KnownIn
  <2>3. \A other \in Hvpas \ {gone} : Known(other)' = Known(other)
    <3> TAKE other \in Hvpas \ {gone}
    <3>1. \A p : p \in Pointers(arrays, entries, header, other) <=>
                /\ p # Nil /\ entries[p].name = other
                /\ \E i \in 1..header.len : arrays[header.array][i] = p
      BY <1>4 DEF Pointers
    <3>2. \A p : p \in Pointers(B, entries, header, other) <=>
                /\ p # Nil /\ entries[p].name = other
                /\ \E i \in 1..header.len : B[header.array][i] = p
      BY <1>4 DEF Pointers
    <3>3. ASSUME NEW p, p # Nil, entries[p].name = other
          PROVE  (\E i \in 1..header.len : arrays[header.array][i] = p)
                 <=> (\E i \in 1..header.len : B[header.array][i] = p)
      <4>1. ASSUME NEW i \in 1..header.len, arrays[header.array][i] = p
            PROVE  \E j \in 1..header.len : B[header.array][j] = p
        <5>1. i # s
          BY <1>2, <3>3, <4>1
        <5>2. QED
          BY <1>3, <4>1, <5>1
      <4>2. ASSUME NEW i \in 1..header.len, B[header.array][i] = p
            PROVE  \E j \in 1..header.len : arrays[header.array][j] = p
        BY <1>3, <1>4, <4>2
      <4>3. QED
        BY <4>1, <4>2
    <3>4. Pointers(B, entries, header, other) = Pointers(arrays, entries, header, other)
      BY <3>1, <3>2, <3>3
    <3>5. KnownIn(B, entries, header, other) = KnownIn(arrays, entries, header, other)
      BY <3>4, SameKnowledge
    <3>6. QED
      BY <1>1, <3>5, KnownHere
  <2>4. Missed' = {}
    BY <1>6, <2>2 DEF Missed
  <2>5. Sel' = [Sel EXCEPT ![gone] = Nil]
    BY <1>2, <2>2, <2>3, OneChange
  <2>6. Map!Forget(gone)
    BY <1>1, <1>7, <2>4, <2>5 DEF Map!Forget, Sel, Absent
  <2>7. QED
    BY <1>2, <2>6
<1>10. QED
  BY <1>8, <1>9

\* Setting the last slot to nil forgets an HVPA that was in it, and nothing else:
\* the element that was moved is still in its new slot.
LEMMA ClearForgets ==
    ASSUME IInv, ClearLast
    PROVE  (\E hvpa \in Hvpas : Map!Forget(hvpa)) \/ UNCHANGED <<exists, Sel, Missed>>
<1>0. PICK gone : gone = worker.hvpa
  OBVIOUS
<1> DEFINE s == worker.slot
           n == header.len
           R == arrays[header.array]
           B == Assigned(arrays, header.array, header.len, Nil)
<1>1. /\ arrays' = B /\ UNCHANGED <<exists, entries, header>> /\ worker.pc = "clear"
      /\ worker'.pc = "store"
  BY DEF ClearLast, Assigned, Busy, Storing, WorkerIdle
<1>2. /\ header # Nil /\ HeapOK(arrays, entries) /\ Sound(arrays, header) /\ Full(arrays, header)
      /\ s \in 1..n /\ gone \in Hvpas /\ R[s] = R[n]
      /\ Distinct(arrays, entries, H(header.array, header.len - 1))
      /\ s = n => Distinct(arrays, entries, header) /\ entries[R[n]].name = gone
      /\ s # n => \A i \in 1..n : entries[R[i]].name # gone
  BY <1>0, <1>1 DEF IInv, SliceInv, ClearInv, At
<1>3. n \in Nat /\ n # 0 /\ n \in 1..n /\ Slots(header) = 1..n
  BY <1>2 DEF Sound, Header, Slots
<1>4. B[header.array][n] = Nil /\ \A i \in 1..(n - 1) : B[header.array][i] = R[i]
  <2>1. /\ HeapOK(arrays, entries) /\ Sound(arrays, header) /\ Full(arrays, header)
        /\ header.len # 0 /\ Distinct(arrays, entries, H(header.array, header.len - 1))
    BY <1>2, <1>3
  <2>2. B[header.array][header.len] = Nil
    BY <2>1, Clears
  <2>3. \A i \in 1..(header.len - 1) : B[header.array][i] = arrays[header.array][i]
    BY ONLY <2>1, Clears
  <2>4. QED
    BY <2>2, <2>3
<1> HIDE DEF B
<1>5. \A i \in 1..n : i = n \/ i \in 1..(n - 1)
  BY <1>3
<1>6. \A i \in 1..(n - 1) : i \in 1..n /\ i # n
  BY <1>3
<1>7. \A i \in 1..n : R[i] # Nil
  BY <1>2 DEF Full
<1>8. Missed' = {}
  BY <1>1 DEF Missed
<1>9. ASSUME NEW other, s = n => other # gone
      PROVE  Pointers(B, entries, header, other) = Pointers(arrays, entries, header, other)
  <2>1. \A p : p \in Pointers(arrays, entries, header, other) <=>
              /\ p # Nil /\ entries[p].name = other /\ \E i \in 1..n : R[i] = p
    BY <1>3 DEF Pointers
  <2>2. \A p : p \in Pointers(B, entries, header, other) <=>
              /\ p # Nil /\ entries[p].name = other /\ \E i \in 1..n : B[header.array][i] = p
    BY <1>3 DEF Pointers
  <2>3. ASSUME NEW p, p # Nil, entries[p].name = other
        PROVE  (\E i \in 1..n : R[i] = p) <=> (\E i \in 1..n : B[header.array][i] = p)
    <3>1. ASSUME NEW i \in 1..n, R[i] = p
          PROVE  \E j \in 1..n : B[header.array][j] = p
      <4>1. CASE i \in 1..(n - 1)
        BY <1>4, <1>6, <3>1, <4>1
      <4>2. CASE i = n
        <5>1. s # n
          BY <1>2, <1>9, <2>3, <3>1, <4>2
        <5>2. s \in 1..(n - 1)
          BY <1>2, <1>5, <5>1
        <5>3. QED
          BY <1>2, <1>4, <3>1, <4>2, <5>2
      <4>3. QED
        BY <1>5, <4>1, <4>2
    <3>2. ASSUME NEW i \in 1..n, B[header.array][i] = p
          PROVE  \E j \in 1..n : R[j] = p
      BY <1>4, <1>5, <2>3, <3>2
    <3>3. QED
      BY <3>1, <3>2
  <2>4. QED
    BY <2>1, <2>2, <2>3
<1>10. ASSUME NEW other, s = n => other # gone
       PROVE  PointersOf(other)' = PointersOf(other) /\ Known(other)' = Known(other)
  <2>1. Pointers(B, entries, header, other) = Pointers(arrays, entries, header, other)
    BY <1>9, <1>10
  <2>2. KnownIn(B, entries, header, other) = KnownIn(arrays, entries, header, other)
    BY <2>1, SameKnowledge
  <2>3. QED
    BY <1>1, <2>1, <2>2, KnownHere
<1>11. CASE s = n
  <2>1. Pointers(arrays, entries, header, gone) # {}
    BY <1>2, <1>3, <1>7, <1>11 DEF Pointers
  <2>2. Missed = {gone}
    BY <1>0, <1>1, <1>2, <2>1, KnownHere DEF Missed
  <2>3. Pointers(B, entries, header, gone) = {}
    <3>1. \A i \in 1..(n - 1) : entries[R[i]].name # gone
      BY <1>2, <1>3, <1>6, <1>11 DEF Distinct
    <3>2. \A i \in 1..n : B[header.array][i] # Nil => entries[B[header.array][i]].name # gone
      BY <1>4, <1>5, <3>1
    <3>3. QED
      BY <1>3, <3>2 DEF Pointers
  <2>4. Known(gone)' = Nil
    BY <1>1, <2>3, KnownHere DEF KnownIn
  <2>5. \A other \in Hvpas \ {gone} : Known(other)' = Known(other)
    BY <1>10
  <2>6. Sel' = [Sel EXCEPT ![gone] = Nil]
    BY <1>2, <2>4, <2>5, OneChange
  <2>7. Map!Forget(gone)
    BY <1>1, <1>8, <2>2, <2>6 DEF Map!Forget, Sel, Absent
  <2>8. QED
    BY <1>2, <2>7
<1>12. CASE s # n
  <2>1. Pointers(arrays, entries, header, gone) = {}
    BY <1>2, <1>3, <1>12 DEF Pointers
  <2>2. Missed = {}
    BY <1>0, <2>1, KnownHere DEF Missed
  <2>3. \A other \in Hvpas : Known(other)' = Known(other)
    BY <1>10, <1>12
  <2>4. QED
    BY <1>1, <1>8, <2>2, <2>3, NoChange
<1>13. QED
  BY <1>11, <1>12

\* The store of the shorter slice is not seen; that of a longer one learns the
\* HVPA of its last element.
LEMMA StoreLearns ==
    ASSUME IInv, StoreHeader
    PROVE  (\E hvpa \in Hvpas : Map!Learn(hvpa)) \/ UNCHANGED <<exists, Sel, Missed>>
<1>0. PICK next : next = worker.next
  OBVIOUS
<1>1. /\ header' = next /\ UNCHANGED <<exists, entries, arrays>>
      /\ worker.pc = "store" /\ worker'.pc = "idle"
  BY <1>0 DEF StoreHeader, Busy, WorkerIdle
<1>2. /\ header # Nil /\ HeapOK(arrays, entries) /\ Sound(arrays, header)
      /\ Good(arrays, entries, next) /\ (Shrinks \/ Grows \/ Starts)
  BY <1>0, <1>1 DEF IInv, SliceInv, StoreInv
<1>3. /\ next \in Header /\ next # Nil
      /\ Slots(header) = 1..header.len /\ Slots(next) = 1..next.len
      /\ header.len \in Nat /\ next.len \in Nat
  BY <1>2, CacheAssumption DEF Good, Sound, Header, Slots
<1>4. Missed = {} /\ Missed' = {}
  BY <1>1 DEF Missed
<1>5. CASE Shrinks
  <2>1. /\ next.array = header.array /\ next.len = header.len - 1 /\ header.len >= 1
        /\ arrays[header.array][header.len] = Nil
    BY <1>0, <1>5 DEF Shrinks, H, At
  <2>2. \A i \in 1..header.len : i = header.len \/ i \in 1..next.len
    BY <1>3, <2>1
  <2>3. \A i \in 1..next.len : i \in 1..header.len
    BY <1>3, <2>1
  <2>4. ASSUME NEW hvpa \in Hvpas
        PROVE  Known(hvpa)' = Known(hvpa)
    <3>1. Pointers(arrays, entries, next, hvpa) = Pointers(arrays, entries, header, hvpa)
      BY <1>3, <2>1, <2>2, <2>3 DEF Pointers
    <3>2. KnownIn(arrays, entries, next, hvpa) = KnownIn(arrays, entries, header, hvpa)
      BY <3>1, SameKnowledge
    <3>3. QED
      BY <1>1, <3>2, KnownHere
  <2>5. QED
    BY <1>1, <1>4, <2>4, NoChange
<1>6. CASE Grows \/ Starts
  <2>1. next.len \in 1..next.len
    BY <1>0, <1>3, <1>6 DEF Grows, Starts
  <2> DEFINE p == arrays[next.array][next.len]
  <2>2. PICK hvpa : hvpa = entries[p].name
    OBVIOUS
  <2>3. p # Nil /\ entries[p] \in Entry
    BY <1>2, <2>1, ElementExists DEF Good, Full
  <2>4. hvpa \in Hvpas /\ entries[p].selector \in Selectors
    BY <2>2, <2>3 DEF Entry
  <2>5. Pointers(arrays, entries, next, hvpa) = {p}
    <3>1. /\ Full(arrays, next) /\ Distinct(arrays, entries, next)
          /\ next # Nil /\ next.len \in 1..next.len
      BY <1>2, <1>3, <2>1 DEF Good
    <3>2. Pointers(arrays, entries, next, entries[arrays[next.array][next.len]].name)
            = {arrays[next.array][next.len]}
      BY <3>1, PointerInSlot
    <3>3. QED
      BY <2>2, <3>2
  <2>6. Known(hvpa)' = entries[p].selector
    <3>1. p \in Pointers(arrays, entries, next, hvpa)
          /\ \A q \in Pointers(arrays, entries, next, hvpa) : q = p
      BY <2>5
    <3>2. KnownIn(arrays, entries, next, hvpa) = entries[p].selector
      BY <3>1, OnePointer
    <3>3. QED
      BY <1>1, <3>2, KnownHere
  <2>7. ASSUME NEW other \in Hvpas \ {hvpa}
        PROVE  Known(other)' = Known(other)
    <3>1. Pointers(arrays, entries, next, other) = Pointers(arrays, entries, header, other)
      <4>1. entries[p].name # other
        BY <2>2, <2>7
      <4>2. CASE Starts
        <5>1. next.len = 1 /\ header.len = 1 /\ arrays[header.array][1] = Nil
          BY <1>0, <4>2 DEF Starts, At
        <5>2. QED
          BY <1>3, <4>1, <5>1 DEF Pointers
      <4>3. CASE Grows
        <5>1. /\ next.len = header.len + 1
              /\ \A i \in 1..header.len : arrays[next.array][i] = arrays[header.array][i]
          BY <1>0, <4>3 DEF Grows, At
        <5>2. \A i \in 1..next.len : i = next.len \/ i \in 1..header.len
          BY <1>3, <5>1
        <5>3. \A i \in 1..header.len : i \in 1..next.len
          BY <1>3, <5>1
        <5>4. QED
          BY <1>3, <4>1, <5>1, <5>2, <5>3 DEF Pointers
      <4>4. QED
        BY <1>6, <4>2, <4>3
    <3>2. KnownIn(arrays, entries, next, other) = KnownIn(arrays, entries, header, other)
      BY <3>1, SameKnowledge
    <3>3. QED
      BY <1>1, <3>2, KnownHere
  <2>8. Sel' = [Sel EXCEPT ![hvpa] = entries[p].selector]
    BY <2>4, <2>6, <2>7, OneChange
  <2>9. Map!Learn(hvpa)
    BY <1>1, <1>4, <2>4, <2>8 DEF Map!Learn, Sel
  <2>10. QED
    BY <2>4, <2>9
<1>7. QED
  BY <1>2, <1>5, <1>6

\* The handler's steps and the users' edits do not touch the slice.
LEMMA SliceAlone ==
    ASSUME UNCHANGED <<entries, arrays, header, worker>>
    PROVE  UNCHANGED <<Sel, Missed>>
<1>1. \A hvpa \in Hvpas : PointersOf(hvpa)' = PointersOf(hvpa) /\ Known(hvpa)' = Known(hvpa)
  BY KnownHere
<1>2. QED
  BY <1>1, NoChange DEF Missed

\* An empty map knows nothing.
LEMMA NothingKnown ==
    /\ header = Nil => Sel = [hvpa \in Hvpas |-> Nil] /\ Missed = {}
    /\ header' = Nil => Sel' = [hvpa \in Hvpas |-> Nil] /\ Missed' = {}
<1>1. ASSUME header = Nil
      PROVE  Sel = [hvpa \in Hvpas |-> Nil] /\ Missed = {}
  <2>1. \A hvpa \in Hvpas : PointersOf(hvpa) = {} /\ Known(hvpa) = Nil
    BY <1>1 DEF PointersOf, SlotsOf, Slots, Known, Absent
  <2>2. QED
    BY <2>1 DEF Sel, Missed
<1>2. ASSUME header' = Nil
      PROVE  Sel' = [hvpa \in Hvpas |-> Nil] /\ Missed' = {}
  <2>1. \A hvpa \in Hvpas : PointersOf(hvpa)' = {} /\ Known(hvpa)' = Nil
    BY <1>2 DEF PointersOf, SlotsOf, Slots, Known, Absent
  <2>2. QED
    BY <2>1 DEF Sel, Missed
<1>3. QED
  BY <1>1, <1>2

\* The slice, its arrays and their half-done changes implement a map that learns
\* and forgets one HVPA at a time, and forgets none that was not found gone.
THEOREM Refinement == Spec => ImplementsMap
<1>1. Init => Map!Init
  BY NothingKnown DEF Init, Map!Init, Sel, Absent
<1>2. IInv /\ [Next]_vars => [Map!Next]_(Map!vars)
  <2> SUFFICES ASSUME IInv, [Next]_vars
               PROVE  Map!Next \/ UNCHANGED <<exists, Sel, Missed>>
    BY DEF Map!vars, Sel
  <2>1. CASE WorkerStep
    <3>1. ASSUME NEW hvpa \in Hvpas, ManageCache(hvpa)
          PROVE  Map!Next \/ UNCHANGED <<exists, Sel, Missed>>
      BY <3>1, BeforeStore, UpdateLearns, StartMisses DEF ManageCache, Map!Next
    <3>2. CASE Proceed
      <4>1. CASE StoreNils
        BY <4>1, BeforeStore
      <4>2. CASE MoveLast \/ ClearLast \/ StoreHeader
        BY <4>2, MoveForgets, ClearForgets, StoreLearns DEF Map!Next
      <4>3. QED
        BY <3>2, <4>1, <4>2 DEF Proceed
    <3>3. QED
      BY <2>1, <3>1, <3>2 DEF WorkerStep
  <2>2. CASE HandlerStep
    <3>1. UNCHANGED <<exists, entries, arrays, header, worker>>
      BY <2>2 DEF HandlerStep, Lookup, LookupIsFatal, ReadMatch, ReadOther, ReadHole, EndScan,
                  Answer, Look
    <3>2. QED
      BY <3>1, SliceAlone
  <2>3. CASE UserStep
    <3>1. UNCHANGED <<Sel, Missed>>
      BY <2>3, SliceAlone DEF UserStep, UserCreates, UserDeletes, UserEditsTarget, Apart
    <3>2. PICK hvpa \in Hvpas : exists' \in {exists \union {hvpa}, exists \ {hvpa}, exists}
      BY <2>3 DEF UserStep, UserCreates, UserDeletes, UserEditsTarget
    <3>3. Map!Users(hvpa) \/ UNCHANGED <<exists, Sel, Missed>>
      BY <3>1, <3>2 DEF Map!Users, Sel
    <3>4. QED
      BY <3>3 DEF Map!Next
  <2>4. CASE Restart
    BY <2>4, NothingKnown DEF Restart, Map!StartAnew, Map!Next, Sel, Absent
  <2>5. CASE UNCHANGED vars
    BY <2>5, SliceAlone DEF vars
  <2>6. QED
    BY <2>1, <2>2, <2>3, <2>4, <2>5 DEF Next
<1>3. QED
  BY <1>1, <1>2, Invariance, PTL DEF Spec, ImplementsMap, Map!Spec
=============================================================================
