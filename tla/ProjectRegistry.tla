-------------------------- MODULE ProjectRegistry --------------------------
(***************************************************************************)
(* The file .dsh-projects.json (class ProjectRegistry, instance/pool.ts):  *)
(* for every storage key the XFS project id its data is accounted to.      *)
(*                                                                         *)
(* The registry keeps nothing in memory.  Every method loads the file,     *)
(* and saves it as a whole; all methods go through one OperationQueue, so  *)
(* that they are one after the other (MutualExclusion of OperationQueue).  *)
(* Here a method is therefore an operator from file to file; who calls it, *)
(* and a save that fails or is cut short, is up to NodeStorage.            *)
(*                                                                         *)
(* Sizes are left out: only copies and resizes read them.                  *)
(***************************************************************************)
EXTENDS Integers

CONSTANTS StorageKeys,   \* the storage keys
          MaxId          \* bound: the last id (PROBE_PROJID - 1 in the code)

Ids == 2..MaxId

ASSUME RegistryAssumption == MaxId \in Int /\ MaxId >= 2

\* projid is 0 before the first allocation.
Records == [state : {"none", "pending", "done", "released"},
            projid : Ids \cup {0},
            retired : SUBSET Ids]

NoRecord == [state |-> "none", projid |-> 0, retired |-> {}]

\* What load writes when the pool is empty and has no registry.
EmptyRegistry == [k \in StorageKeys |-> NoRecord]

Files == [StorageKeys -> Records]

\* getUnlocked: a tombstone does not count as storage.
Active(r) == r.state \in {"pending", "done"}

\* Slip: tombstones are left out of `taken`.
HeldAlive(r) == (IF Active(r) THEN {r.projid} ELSE {}) \cup r.retired

\* The ids a key has been given so far.
Held(r) == (IF r.state = "none" THEN {} ELSE {r.projid}) \cup r.retired

Taken(f) == UNION {Held(f[k]) : k \in StorageKeys}

\* Slip: the check for the last id is > instead of >=.
FreeIdsAndProbe(f) == (2..(MaxId + 1)) \ Taken(f)

FreeIds(f) == Ids \ Taken(f)

\* The search from 2 upwards finds the only member, if there is one.
LowestFree(f) == {i \in FreeIds(f) : \A j \in FreeIds(f) : i <= j}

\* The id becomes one that the key has held, whatever happens to the record.
Allocate(f, k, i) ==
    [f EXCEPT ![k] = [state |-> "pending", projid |-> i, retired |-> Held(f[k])]]

Complete(f, k) ==
    [f EXCEPT ![k].state = "done"]

Release(f, k) ==
    IF Active(f[k]) THEN [f EXCEPT ![k].state = "released"] ELSE f

\* What load demands of a file: no id twice.
Distinct(f) ==
    \A k \in StorageKeys :
        /\ f[k].state # "none" => f[k].projid \notin f[k].retired
        /\ \A l \in StorageKeys \ {k} : Held(f[k]) \cap Held(f[l]) = {}
=============================================================================
