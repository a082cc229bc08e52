--------------------------- MODULE SelectorCache ---------------------------
(***************************************************************************)
(* cachedNames of controllers/hvpa_controller.go for one namespace, word   *)
(* by word: the slice of pointers that ManageCache and removeFromCache     *)
(* change under cacheMux, and the pod event handler that ranges over it    *)
(* without the mutex.                                                      *)
(*                                                                         *)
(* There is one reconcile worker, so nobody ever waits for the mutex; the  *)
(* handler runs in the goroutine of the pod informer.  A loop with range   *)
(* copies the slice's header once and then reads the elements one by one   *)
(* from the backing array, which the worker may be changing.  Arrays and   *)
(* entries live on a heap: an old one is still there for whoever holds it. *)
(***************************************************************************)
EXTENDS Integers, Sequences

CONSTANTS
    Hvpas,          \* names of HVPAs in the namespace
    Labels,         \* labels of pods; a selector selects one of them
    Everything,     \* the selector that matches every pod
    NoSelector,     \* a nil selector
    Nil,            \* a nil pointer, and the absence of a slice in the map
    MaxEdits        \* bound on what users do

ASSUME CacheAssumption ==
    /\ Everything \notin Labels /\ NoSelector \notin Labels \union {Everything}
    /\ Nil \notin Labels \union {Everything, NoSelector} \union Hvpas \union Nat
    /\ Nil \notin [array : Nat \ {0}, len : Nat]
    /\ MaxEdits \in Nat

VARIABLES
    exists,     \* HVPAs in the informer's cache
    target,     \* what the target of each HVPA has for spec.selector
    entries,    \* the hvpaObj structures ever allocated
    arrays,     \* the backing arrays ever allocated
    header,     \* the slice in the map, or Nil
    worker,     \* the reconcile worker, in ManageCache
    handler,    \* the pod event handler
    edits,
    loop        \* history of the handler's loop, read by the properties only

vars == <<exists, target, entries, arrays, header, worker, handler, edits, loop>>

-----------------------------------------------------------------------------
(* Types. *)

Selectors == Labels \union {Everything, NoSelector}

\* A LabelSelector; the plain map of a ReplicationController; no selector, for
\* a kind that the reconcile refuses after it has cached it (1447); or a target
\* that cannot be read.
Target == Labels \union {"plain", "none", "unreadable"}

Entry  == [name : Hvpas, selector : Selectors]
Slot   == (Nat \ {0}) \union {Nil}      \* a pointer into "entries"
Header == [array : Nat \ {0}, len : Nat]

\* "hvpa" is being removed from "slot"; "next" is about to be stored in the map.
Worker == [pc : {"idle", "make", "store", "move", "clear"},
           hvpa : Hvpas \union {Nil}, slot : Nat, next : Header \union {Nil}]

\* The loop over a copy of the header, for a pod with "labels".
Handler == [pc : {"idle", "scan", "answered", "crashed"},
            slice : Header \union {Nil}, index : Nat \ {0},
            labels : Labels \union {Nil}, found : Hvpas \union {Nil}]

\* HVPAs whose cached selector matched the pod at some time of the loop, those
\* whose selector did all the time, and whether an entry was moved meanwhile.
Loop == [ever : SUBSET Hvpas, always : SUBSET Hvpas, moved : BOOLEAN]

TypeOK ==
    /\ exists \subseteq Hvpas /\ target \in [Hvpas -> Target]
    /\ entries \in Seq(Entry) /\ arrays \in Seq(Seq(Slot))
    /\ header \in Header \union {Nil}
    /\ worker \in Worker /\ handler \in Handler
    /\ edits \in 0..MaxEdits /\ loop \in Loop

WorkerIdle  == [pc |-> "idle", hvpa |-> Nil, slot |-> 0, next |-> Nil]
HandlerIdle == [pc |-> "idle", slice |-> Nil, index |-> 1, labels |-> Nil, found |-> Nil]
NoLoop      == [ever |-> {}, always |-> {}, moved |-> FALSE]

Init ==
    /\ exists \in SUBSET Hvpas /\ target \in [Hvpas -> Labels]
    /\ entries = << >> /\ arrays = << >> /\ header = Nil
    /\ worker = WorkerIdle /\ handler = HandlerIdle
    /\ edits = 0 /\ loop = NoLoop

-----------------------------------------------------------------------------
(* Reading the slice. *)

Capacity(h) == Len(arrays[h.array])
Slots(h)    == IF h = Nil THEN {} ELSE 1..h.len
At(h, i)    == arrays[h.array][i]

\* The slots of a slice that hold an entry of the HVPA, and those entries.
SlotsOf(h, hvpa) == {i \in Slots(h) : At(h, i) # Nil /\ entries[At(h, i)].name = hvpa}
PointersOf(hvpa) == {At(header, i) : i \in SlotsOf(header, hvpa)}

\* getSelectorFromHvpa, where it returns no error: a missing selector is not
\* one (160-163), and json.Unmarshal drops the keys of a plain map.
SelectorOf(t) ==
    CASE t = "none"  -> NoSelector
      [] t = "plain" -> Everything
      [] OTHER       -> t

Matches(selector, labels) == selector = Everything \/ selector = labels

\* The HVPAs a slice offers for a pod.
Offers(h, labels) ==
    {hvpa \in Hvpas : \E i \in SlotsOf(h, hvpa) : Matches(entries[At(h, i)].selector, labels)}

-----------------------------------------------------------------------------
(* ManageCache.  Its search loops read what the worker alone writes, so    *)
(* they are part of the step that follows them.                            *)

Busy == UNCHANGED <<exists, target, handler, edits>>

Learns(hvpa) ==
    /\ worker.pc = "idle" /\ hvpa \in exists
    /\ target[hvpa] # "unreadable"

New(hvpa) == [name |-> hvpa, selector |-> SelectorOf(target[hvpa])]

Storing(next) == [WorkerIdle EXCEPT !.pc = "store", !.next = next]

\* The first HVPA of the namespace: the map gets a slice of one nil first.
FirstEntry(hvpa) ==
    /\ Learns(hvpa) /\ header = Nil
    /\ entries' = Append(entries, New(hvpa))
    /\ arrays' = arrays \o << <<Nil>>, <<Len(entries) + 1>> >>
    /\ worker' = [WorkerIdle EXCEPT !.pc = "make",
                                    !.next = [array |-> Len(arrays) + 1, len |-> 1]]
    /\ UNCHANGED header /\ Busy

StoreNils ==
    /\ worker.pc = "make"
    /\ header' = worker.next
    /\ worker' = Storing([array |-> worker.next.array + 1, len |-> 1])
    /\ UNCHANGED <<entries, arrays>> /\ Busy

\* The selector of a known HVPA changes in place, for all who hold the entry.
UpdateEntry_ChangesCopy(hvpa) == Learns(hvpa) /\ UNCHANGED vars

UpdateEntry(hvpa) ==
    /\ Learns(hvpa)
    /\ \E pointer \in PointersOf(hvpa) :
         /\ entries[pointer] # New(hvpa)
         /\ entries' = [entries EXCEPT ![pointer] = New(hvpa)]
    /\ UNCHANGED <<arrays, header, worker>> /\ Busy

\* append: in place if there is room, else in an array of twice the capacity.
Doubled(h) == arrays[h.array] \o [i \in 1..Capacity(h) |-> Nil]

AppendInPlace(pointer) ==
    /\ header.len < Capacity(header)
    /\ arrays' = [arrays EXCEPT ![header.array] =
                    [arrays[header.array] EXCEPT ![header.len + 1] = pointer]]
    /\ worker' = Storing([array |-> header.array, len |-> header.len + 1])

AppendElsewhere(pointer) ==
    /\ header.len = Capacity(header)
    /\ arrays' = Append(arrays, [Doubled(header) EXCEPT ![header.len + 1] = pointer])
    /\ worker' = Storing([array |-> Len(arrays) + 1, len |-> header.len + 1])

AppendEntry_ForgetsToLook(hvpa) ==
    /\ Learns(hvpa) /\ header # Nil
    /\ entries' = Append(entries, New(hvpa))
    /\ AppendInPlace(Len(entries) + 1) \/ AppendElsewhere(Len(entries) + 1)
    /\ UNCHANGED header /\ Busy

AppendEntry(hvpa) ==
    /\ Learns(hvpa) /\ header # Nil /\ PointersOf(hvpa) = {}
    /\ entries' = Append(entries, New(hvpa))
    /\ AppendInPlace(Len(entries) + 1) \/ AppendElsewhere(Len(entries) + 1)
    /\ UNCHANGED header /\ Busy

\* removeFromCache: the last element takes the place of the removed one ...
StartRemoval(hvpa) ==
    /\ worker.pc = "idle" /\ hvpa \notin exists
    /\ \E slot \in SlotsOf(header, hvpa) :
         /\ \A other \in SlotsOf(header, hvpa) : slot <= other
         /\ worker' = [WorkerIdle EXCEPT !.pc = "move", !.hvpa = hvpa, !.slot = slot]
    /\ UNCHANGED <<entries, arrays, header>> /\ Busy

MoveLast_KeepsSlot ==
    /\ worker.pc = "move"
    /\ worker' = [worker EXCEPT !.pc = "clear"]
    /\ UNCHANGED <<entries, arrays, header>> /\ Busy

MoveLast ==
    /\ worker.pc = "move"
    /\ arrays' = [arrays EXCEPT ![header.array] =
                    [arrays[header.array] EXCEPT ![worker.slot] = At(header, header.len)]]
    /\ worker' = [worker EXCEPT !.pc = "clear"]
    /\ UNCHANGED <<entries, header>> /\ Busy

\* ... the last slot is set to nil, and the slice gets shorter by one.
ClearLast_ShortensByTwo ==
    /\ worker.pc = "clear"
    /\ arrays' = [arrays EXCEPT ![header.array] =
                    [arrays[header.array] EXCEPT ![header.len] = Nil]]
    /\ worker' = Storing([header EXCEPT !.len = header.len - 2])
    /\ UNCHANGED <<entries, header>> /\ Busy

ClearLast ==
    /\ worker.pc = "clear"
    /\ arrays' = [arrays EXCEPT ![header.array] =
                    [arrays[header.array] EXCEPT ![header.len] = Nil]]
    /\ worker' = Storing([header EXCEPT !.len = header.len - 1])
    /\ UNCHANGED <<entries, header>> /\ Busy

\* The assignment to the map ends.
StoreHeader ==
    /\ worker.pc = "store"
    /\ header' = worker.next
    /\ worker' = WorkerIdle
    /\ UNCHANGED <<entries, arrays>> /\ Busy

-----------------------------------------------------------------------------
(* The handler's loop, lines 1574-1579. *)

Look == UNCHANGED <<exists, target, entries, arrays, header, worker, edits>>

Assigning == worker.pc \in {"make", "store"}

\* While the worker assigns to the map a lookup is fatal ("concurrent map read
\* and map write"), or sees old and new words of the header.
Headers ==
    IF ~Assigning THEN {header}
    ELSE {header, worker.next}
           \union IF header = Nil THEN {}
                  ELSE {[array |-> header.array, len |-> worker.next.len],
                        [array |-> worker.next.array, len |-> header.len]}

Asks == handler.pc \in {"idle", "answered"}

Offered(labels) ==
    Offers(header, labels) \union IF Assigning THEN Offers(worker.next, labels) ELSE {}

Lookup(labels) ==
    /\ Asks
    /\ \E slice \in Headers :
         handler' = [HandlerIdle EXCEPT !.pc = "scan", !.slice = slice, !.labels = labels]
    /\ loop' = [ever |-> Offered(labels), always |-> Offers(header, labels), moved |-> FALSE]
    /\ Look

LookupIsFatal ==
    /\ Asks /\ Assigning
    /\ handler' = [HandlerIdle EXCEPT !.pc = "crashed"]
    /\ loop' = NoLoop /\ Look

Scanning_StopsEarly ==
    handler.pc = "scan" /\ handler.index + 1 \in Slots(handler.slice)

Scanning == handler.pc = "scan" /\ handler.index \in Slots(handler.slice)

\* What the loop reads next.  Beyond the array lies memory of something else.
Element ==
    IF handler.index <= Capacity(handler.slice) THEN At(handler.slice, handler.index) ELSE Nil

\* A nil element or a nil selector is dereferenced.
IsHole == Element # Nil => entries[Element].selector = NoSelector

Answer(found) ==
    /\ handler' = [HandlerIdle EXCEPT !.pc = "answered", !.found = found]
    /\ loop' = NoLoop /\ Look

ReadMatch_IgnoresSelector ==
    /\ Scanning /\ ~IsHole
    /\ Answer(entries[Element].name)

ReadMatch ==
    /\ Scanning /\ ~IsHole
    /\ Matches(entries[Element].selector, handler.labels)
    /\ Answer(entries[Element].name)

ReadOther ==
    /\ Scanning /\ ~IsHole
    /\ ~Matches(entries[Element].selector, handler.labels)
    /\ handler' = [handler EXCEPT !.index = handler.index + 1]
    /\ UNCHANGED loop /\ Look

ReadHole ==
    /\ Scanning /\ IsHole
    /\ handler' = [HandlerIdle EXCEPT !.pc = "crashed"]
    /\ loop' = NoLoop /\ Look

EndScan ==
    /\ handler.pc = "scan" /\ ~Scanning
    /\ Answer(Nil)

-----------------------------------------------------------------------------
(* Everyone else. *)

Apart == UNCHANGED <<entries, arrays, header, worker, handler, loop>>

UserEdits == edits < MaxEdits /\ edits' = edits + 1

UserCreates(hvpa) ==
    /\ UserEdits /\ hvpa \notin exists
    /\ exists' = exists \union {hvpa}
    /\ UNCHANGED target /\ Apart

UserDeletes(hvpa) ==
    /\ UserEdits /\ hvpa \in exists
    /\ exists' = exists \ {hvpa}
    /\ UNCHANGED target /\ Apart

UserEditsTarget(hvpa) ==
    /\ UserEdits
    /\ \E t \in Target \ {target[hvpa]} : target' = [target EXCEPT ![hvpa] = t]
    /\ UNCHANGED exists /\ Apart

\* A panic ends the process; the next one starts with a nil map.
Restart ==
    /\ handler.pc = "crashed"
    /\ entries' = << >> /\ arrays' = << >> /\ header' = Nil
    /\ worker' = WorkerIdle /\ handler' = HandlerIdle /\ loop' = NoLoop
    /\ UNCHANGED <<exists, target, edits>>

-----------------------------------------------------------------------------

ManageCache(hvpa) ==
    FirstEntry(hvpa) \/ UpdateEntry(hvpa) \/ AppendEntry(hvpa) \/ StartRemoval(hvpa)

Proceed == StoreNils \/ MoveLast \/ ClearLast \/ StoreHeader

\* What a step of the worker means for a loop under way.
Witness ==
    loop' = IF handler.pc # "scan" THEN loop
            ELSE [ever   |-> loop.ever \union Offered(handler.labels)',
                  always |-> loop.always \intersect Offers(header, handler.labels)',
                  moved  |-> loop.moved \/ worker.pc = "move"]

WorkerStep ==
    /\ handler.pc # "crashed"
    /\ (\E hvpa \in Hvpas : ManageCache(hvpa)) \/ Proceed
    /\ Witness

HandlerStep ==
    \/ \E labels \in Labels : Lookup(labels)
    \/ LookupIsFatal \/ ReadMatch \/ ReadOther \/ ReadHole \/ EndScan

UserStep == \E hvpa \in Hvpas : UserCreates(hvpa) \/ UserDeletes(hvpa) \/ UserEditsTarget(hvpa)

Next == WorkerStep \/ HandlerStep \/ UserStep \/ Restart

Spec == Init /\ [][Next]_vars

\* The worker's queue brings every HVPA back, on events and on every resync, and
\* a crashed container is started again.
FairSpec == Spec /\ WF_vars(WorkerStep) /\ WF_vars(Restart)

-----------------------------------------------------------------------------
(* Properties. *)

\* Whenever the mutex is free the slice has one entry for each HVPA it knows and
\* no nil element: the reads of 191, 224 and 1499 are safe in the worker.
WellFormed ==
    worker.pc = "idle" =>
      \A i \in Slots(header) :
        /\ At(header, i) # Nil
        /\ \A j \in Slots(header) :
             entries[At(header, i)].name = entries[At(header, j)].name => i = j

\* The slice and its shuffling are a map from HVPAs to selectors: whatever the
\* worker has half done, each step changes what is known of one HVPA at most.
Absent == Nil
The(S) == CHOOSE x \in S : TRUE
Known(hvpa) ==
    IF PointersOf(hvpa) = {} THEN Absent ELSE entries[The(PointersOf(hvpa))].selector

Missed == {hvpa \in Hvpas : /\ worker.pc \in {"move", "clear"}
                            /\ worker.hvpa = hvpa /\ PointersOf(hvpa) # {}}

Map == INSTANCE SelectorMap
           WITH selectorOf <- [hvpa \in Hvpas |-> Known(hvpa)],
                missed <- Missed

ImplementsMap == Map!Spec

\* Reading without the mutex never makes an answer up: the HVPA the handler
\* finds had a matching selector in the cache at some time of the loop, however
\* old the array is that the loop still reads.
AnswersFromCache ==
    [][handler.pc = "scan" /\ handler'.pc = "answered" /\ handler'.found # Nil
       => handler'.found \in loop.ever]_vars

\* And it misses an HVPA that matched all the time only if removeFromCache moved
\* an entry meanwhile (and the freed slot was filled again).
MissesOnlyMoved ==
    [][handler.pc = "scan" /\ handler'.pc = "answered" /\ handler'.found = Nil /\ ~loop.moved
       => loop.always = {}]_vars

\* Unless crashes go on for ever, the cache ends up with the selector of every
\* HVPA whose target can be read and with no HVPA that is gone.
Mirrors ==
    \A hvpa \in Hvpas :
      /\ hvpa \notin exists => Known(hvpa) = Absent
      /\ hvpa \in exists /\ target[hvpa] # "unreadable"
           => Known(hvpa) = SelectorOf(target[hvpa])

CatchesUp == <>[](handler.pc # "crashed") => <>[]Mirrors
=============================================================================
