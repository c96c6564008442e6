---------------------------- MODULE ReleaseAcquire ----------------------------
(***************************************************************************)
(* ReleaseAcquireModel: the axioms a solver is given about the events of a *)
(* partial string x whose labels are memory accesses.  A solution s has    *)
(* the happens-before relation s.before, the value s.value[e] of each      *)
(* access and the store s.rf[l] each load reads from (Nowhere when it is   *)
(* no store of x).  A formula is TRUE of the solutions that satisfy it.    *)
(*                                                                         *)
(* assume_map maps each event to the assumption that guards it, or to      *)
(* itself; it is empty when the string has no control flow.                *)
(***************************************************************************)
EXTENDS PartialStrings, MemoryLabels

Nowhere == 0

Before(s, e, f) == <<e, f>> \in s.before

is_guarded(assume_map, e) == e \in DOMAIN assume_map /\ assume_map[e] # e

(***************************************************************************)
(* The assumptions above an event, and what they demand of the values read:*)
(* the least set that has the event's guard and the guards of its members. *)
(***************************************************************************)
Guards(assume_map) == {assume_map[e] : e \in {f \in DOMAIN assume_map : is_guarded(assume_map, f)}}

Assumptions(assume_map, e) ==
    {a \in Guards(assume_map) :
        \A S \in SUBSET Guards(assume_map) :
            (\A f \in S \cup {e} : is_guarded(assume_map, f) => assume_map[f] \in S) => a \in S}

Expected(x, assumption, value) ==
    IF is_assume_acquire_eq(x.labels[assumption])
    THEN value = byte(x.labels[assumption])
    ELSE value # byte(x.labels[assumption])

guard(assume_map, x, e, s) ==
    \A assumption \in Assumptions(assume_map, e) : Expected(x, assumption, s.value[assumption])

(***************************************************************************)
(* Filter: the events of one kind that access one address, among the       *)
(* addresses up to that of the largest label.                              *)
(***************************************************************************)
Addresses(x) == 0..address(x.max_label)

ReleaseStores(x, a) == {e \in EventsIn(x) : is_release_store(x.labels[e]) /\ address(x.labels[e]) = a}
AcquireLoads(x, a) == {e \in EventsIn(x) : is_acquire_load(x.labels[e]) /\ address(x.labels[e]) = a}
NoneStores(x, a) == {e \in EventsIn(x) : is_none_store(x.labels[e]) /\ address(x.labels[e]) = a}
NoneLoads(x, a) == {e \in EventsIn(x) : is_none_load(x.labels[e]) /\ address(x.labels[e]) = a}

(***************************************************************************)
(* The stores a load may read from: an assumption may only read from a     *)
(* store of a byte that fulfils it.                                        *)
(***************************************************************************)
Sources(x, load) ==
    {store \in ReleaseStores(x, address(x.labels[load])) :
        is_assume(x.labels[load]) => Expected(x, load, byte(x.labels[store]))}

StoresOfAnyByte(x, load) == ReleaseStores(x, address(x.labels[load]))

AllLoads(x) == UNION {AcquireLoads(x, a) : a \in Addresses(x)}

(***************************************************************************)
(* Some read-from: a load whose guard holds reads from a store, or, if it  *)
(* is an assumption of a program with control flow, contradicts it.        *)
(***************************************************************************)
Contradicted(assume_map, x, load, s) ==
    /\ assume_map # <<>>
    /\ is_assume(x.labels[load])
    /\ ~Expected(x, load, s.value[load])

SomeReadFrom(assume_map, x, s) ==
    \A load \in AllLoads(x) :
        guard(assume_map, x, load, s) =>
            \/ s.rf[load] \in Sources(x, load)
            \/ Contradicted(assume_map, x, load, s)

(***************************************************************************)
(* Synchronises-with, preceded by its form without the guard of the store. *)
(***************************************************************************)
SynchronizesWithAnyStore(assume_map, x, s) ==
    \A load \in AllLoads(x) : \A store \in Sources(x, load) :
        s.rf[load] = store => Before(s, store, load) /\ s.value[store] = s.value[load]

SynchronizesWith(assume_map, x, s) ==
    \A load \in AllLoads(x) : \A store \in Sources(x, load) :
        s.rf[load] = store =>
            /\ Before(s, store, load)
            /\ s.value[store] = s.value[load]
            /\ guard(assume_map, x, store, s)

ModificationOrder(x, s) ==
    \A a \in Addresses(x) : \A e, f \in ReleaseStores(x, a) :
        e < f => Before(s, e, f) \/ Before(s, f, e)

FromReadOfBlockedStores(assume_map, x, s) ==
    \A load \in AllLoads(x) : \A store \in Sources(x, load) :
        \A other \in ReleaseStores(x, address(x.labels[load])) \ {store} :
            s.rf[load] = store /\ Before(s, store, other) => Before(s, load, other)

FromRead(assume_map, x, s) ==
    \A load \in AllLoads(x) : \A store \in Sources(x, load) :
        \A other \in ReleaseStores(x, address(x.labels[load])) \ {store} :
            (/\ s.rf[load] = store
             /\ Before(s, store, other)
             /\ guard(assume_map, x, other, s))
                => Before(s, load, other)

StoredValues(x, s) ==
    \A a \in Addresses(x) : \A store \in ReleaseStores(x, a) :
        s.value[store] = byte(x.labels[store])

release_acquire(assume_map, x, s) ==
    /\ StoredValues(x, s)
    /\ SomeReadFrom(assume_map, x, s)
    /\ SynchronizesWith(assume_map, x, s)
    /\ ModificationOrder(x, s)
    /\ FromRead(assume_map, x, s)
=============================================================================
