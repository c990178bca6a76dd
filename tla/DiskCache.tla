------------------------------ MODULE DiskCache ------------------------------
(***************************************************************************)
(* The cache of file data that a store node keeps on its local disk        *)
(* (cuckoo_store/src/disk_cache/disk_cache.cpp): the list of cached files  *)
(* with their pins, the space accounts, reservation and eviction.          *)
(*                                                                         *)
(* Every method runs under `mutex' (or `allocMutex') from its first line   *)
(* to its last and is one step here, with one exception: a clean-up that   *)
(* meets a pinned entry never advances its iterator and keeps the mutex    *)
(* for ever, which `looping' records.  Space is counted in blocks; the     *)
(* limits on inode numbers, which the code treats in the same way as the   *)
(* limits on blocks, are left out, and access times only order the list.   *)
(***************************************************************************)
EXTENDS Integers, Sequences, FiniteSets, FiniteSetsExt

CONSTANTS
    File,       \* the inode numbers of the files the cache may hold
    Size,       \* the blocks of a file that is not empty
    FreeTarget, \* freeRatio: the blocks a reservation leaves free
    BgUse,      \* 1 - bgFreeRatio: the blocks the background clean-up leaves in use
    Wrap        \* the counters are unsigned: 2^64, any larger bound will do

ASSUME CapAssumption == /\ {Size, FreeTarget, BgUse, Wrap} \subseteq Nat

VARIABLES
    path,        \* the content of the cache file of every inode, or "none"
    cacheItems,  \* the list of entries, oldest first
    totalCap,    \* the blocks of the disk
    usedCap, freeCap, reservedCap,
    looping      \* a clean-up holds `mutex' and will not give it back

cacheVars == <<path, cacheItems, totalCap, usedCap, freeCap, reservedCap, looping>>

InCache(f) == \E k \in DOMAIN cacheItems : cacheItems[k].file = f

Index(f) == CHOOSE k \in DOMAIN cacheItems : cacheItems[k].file = f

Refs(f) == IF InCache(f) THEN cacheItems[Index(f)].refs ELSE 0

ItemSize(f) == IF InCache(f) THEN cacheItems[Index(f)].size ELSE 0

SizeOfItems == MapThenSumSet(LAMBDA k : cacheItems[k].size, DOMAIN cacheItems)

(* statfs: the blocks no file occupies *)
DiskFree == totalCap - Size * Cardinality({f \in File : path[f] \notin {"none", "empty"}})

(* Moves n blocks from freeCap to usedCap; n may be negative. *)
Account(n) ==
    /\ usedCap' = (usedCap + n) % Wrap
    /\ freeCap' = (freeCap - n) % Wrap

Erased(F) == SelectSeq(cacheItems, LAMBDA item : item.file \notin F)

(* remove() on the cache files F *)
RemoveFiles(F) ==
    path' = [f \in File |-> IF f \in F THEN "none" ELSE path[f]]

(***************************************************************************)
(* Entries and pins                                                        *)
(***************************************************************************)
Pin(f) == cacheItems' = [cacheItems EXCEPT ![Index(f)].refs = @ + 1]

Unpin(f) ==
    /\ ~looping
    /\ cacheItems' = IF Refs(f) > 0 THEN [cacheItems EXCEPT ![Index(f)].refs = @ - 1]
                                    ELSE cacheItems
    /\ UNCHANGED <<path, usedCap, freeCap, reservedCap, looping, totalCap>>

Find(f, needPin) ==
    /\ ~looping
    /\ IF InCache(f) /\ needPin THEN Pin(f) ELSE UNCHANGED cacheItems
    /\ UNCHANGED <<path, usedCap, freeCap, reservedCap, looping, totalCap>>

InsertAndUpdate(f, size, needPin) ==
    /\ ~looping
    /\ Account(size - ItemSize(f))
    /\ cacheItems' = IF InCache(f)
                     THEN [cacheItems EXCEPT ![Index(f)].size = size]
                     ELSE Append(cacheItems, [file |-> f, size |-> size,
                                              refs |-> IF needPin THEN 1 ELSE 0])
    /\ UNCHANGED <<path, reservedCap, looping, totalCap>>

(* Raises the size of an entry; without an entry the caller sees FALSE. *)
Update(f, size) ==
    /\ ~looping
    /\ IF InCache(f) /\ size > ItemSize(f)
       THEN /\ Account(size - ItemSize(f))
            /\ cacheItems' = [cacheItems EXCEPT ![Index(f)].size = size]
       ELSE UNCHANGED <<cacheItems, usedCap, freeCap>>
    /\ UNCHANGED <<path, reservedCap, looping, totalCap>>

(* Adds to the size of an entry; without an entry the caller sees FALSE. *)
Add(f, size) ==
    /\ ~looping
    /\ IF InCache(f)
       THEN /\ Account(size)
            /\ cacheItems' = [cacheItems EXCEPT ![Index(f)].size = @ + size]
       ELSE UNCHANGED <<cacheItems, usedCap, freeCap>>
    /\ UNCHANGED <<path, reservedCap, looping, totalCap>>

(* Removes the file and its entry; a file that is gone keeps its entry. *)
Drop(f) ==
    IF path[f] = "none" THEN UNCHANGED cacheVars
    ELSE /\ RemoveFiles({f})
         /\ cacheItems' = Erased({f})
         /\ Account(-ItemSize(f))
         /\ UNCHANGED <<reservedCap, looping, totalCap>>

(* Whether the file is pinned does not matter. *)
Delete(f) ==
    /\ ~looping
    /\ IF InCache(f) THEN Drop(f) ELSE UNCHANGED cacheVars

DeleteOldCacheWithNoPin(f) ==
    /\ ~looping
    /\ IF InCache(f) /\ Refs(f) = 0 THEN Drop(f) ELSE UNCHANGED cacheVars


EvictItems(toFree) ==
    LET Removable == {k \in DOMAIN cacheItems : path[cacheItems[k].file] # "none"}
        FreedUpTo(k) == MapThenSumSet(LAMBDA j : cacheItems[j].size,
                                      {j \in Removable : j <= k})
        Looked == {k \in DOMAIN cacheItems : \A j \in 1..(k - 1) : FreedUpTo(j) < toFree}
        Pinned == {k \in Looked : cacheItems[k].refs > 0}
        Evicted == {k \in Looked \cap Removable : \A j \in Pinned : k < j}
        freed == MapThenSumSet(LAMBDA k : cacheItems[k].size, Evicted)
        files == {cacheItems[k].file : k \in Evicted}
    IN  /\ RemoveFiles(files)
        /\ cacheItems' = Erased(files)
        /\ usedCap' = (usedCap - freed) % Wrap
        /\ freeCap' = (DiskFree + freed) % Wrap
        /\ looping' = (Pinned # {})
        /\ UNCHANGED <<reservedCap, totalCap>>

ToFree(target, free) == Min({usedCap, Max({0, target - free})})

(* One round of the background thread. *)
CheckFreeSpace ==
    /\ ~looping
    /\ IF DiskFree < totalCap - BgUse
       THEN EvictItems(ToFree(totalCap - BgUse, DiskFree))
       ELSE /\ freeCap' = DiskFree
            /\ UNCHANGED <<path, cacheItems, usedCap, reservedCap, looping, totalCap>>

(* One round of the loop in PreAllocSpace, which holds allocMutex. *)
Evict(size) ==
    /\ ~looping
    /\ EvictItems(ToFree(FreeTarget, DiskFree - size - reservedCap))

Fits(size) == reservedCap + size < freeCap

Reserve(size) ==
    /\ reservedCap' = (reservedCap + size) % Wrap
    /\ UNCHANGED <<path, cacheItems, usedCap, freeCap, looping, totalCap>>

FreePreAllocSpace(size) ==
    /\ reservedCap' = (reservedCap - size) % Wrap
    /\ UNCHANGED <<path, cacheItems, usedCap, freeCap, looping, totalCap>>

(* Start: the cache is what ScanCache finds on a disk with room enough. *)
Start(items, cap) ==
    /\ totalCap = cap
    /\ cap > FreeTarget /\ BgUse > 0
    /\ cacheItems = items
    /\ usedCap = SizeOfItems
    /\ freeCap = DiskFree
    /\ reservedCap = 0
    /\ looping = FALSE
=============================================================================
