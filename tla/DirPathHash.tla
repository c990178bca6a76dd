----------------------------- MODULE DirPathHash -----------------------------
(***************************************************************************)
(* The cache of the directory table that the sessions of one metadata      *)
(* server share (dir_path_shmem/dir_path_hash.c), and what the end of a    *)
(* transaction does to it (transaction/transaction.c).                     *)
(*                                                                         *)
(* A key is a parent directory and a name; all keys here fall into one     *)
(* partition, so one LWLock protects the entries.  A step of the model is  *)
(* what the code does under one hold of that LWLock.  The reader-writer    *)
(* lock of an entry is taken at its word (module RWLock): it excludes, and *)
(* a session that holds it or waits for it keeps a reference.              *)
(*                                                                         *)
(* PostgreSQL is external: a read sees what is committed and the session's *)
(* own writes, a second writer of a row waits for the first, a prepared    *)
(* transaction outlives its session.                                       *)
(***************************************************************************)
EXTENDS Integers, Sequences, FiniteSets

CONSTANTS
    Session,     \* the backends of the server
    Key,         \* (parent, name) pairs of one partition
    NoKey,
    MaxInode,    \* bound: inode ids are 1 .. MaxInode
    Partition    \* bound: the partitions and the use that is made of them

ASSUME NoKeyAssumption == NoKey \notin Key
ASSUME FiniteAssumption == IsFiniteSet(Session) /\ IsFiniteSet(Key)
ASSUME BoundAssumption == MaxInode \in Nat
ASSUME PartitionAssumption ==
    Partition \subseteq [capacity : Nat, clearBegin : Nat, keys : SUBSET Key, inodes : 1 .. MaxInode,
                         txns : Nat, calls : Nat, ends : SUBSET {"rollback", "elsewhere", "exit"}]

VARIABLES
    part,      \* the partition, always the same
    table,     \* the committed directory table
    hash,      \* item->inodeId of the entries
    count,     \* PathDirHashEntryCount
    held,      \* the reader-writer locks of a session
    pc, op,    \* where a session is, and the arguments of its call
    seen,      \* what it read from the table in that call
    evict,     \* its call of EliminateDirPathHashByLRU, if any
    writes,    \* what its transaction has written to the table
    toCommit,  \* DirPathHashToCommitAction and ...ActionInfo
    phase,     \* "active", or "prepared" until its transaction is finished
    prepared,  \* the prepared transactions of the server
    budget,    \* transactions and calls left
    nextId     \* the next inode id

vars == <<table, hash, count, held, pc, op, seen, evict, writes, toCommit, phase,
          prepared, budget, nextId, part>>

Capacity == part.capacity      \* entries that fit into the partition
ClearBegin == part.clearBegin  \* MAX_BUCKET_SUM_LRU_CLAER_BEGIN / DIR_PATH_HASH_PARTITION_SIZE
MaxTxn == part.txns            \* bound: transactions per session
MaxCalls == part.calls         \* bound: calls per transaction

DIR_HASH_TABLE_PATH_NOT_EXIST == -1
DIR_HASH_TABLE_PATH_UNKNOWN == -2
Absent == -3   \* no entry

NotExist == DIR_HASH_TABLE_PATH_NOT_EXIST
Unknown == DIR_HASH_TABLE_PATH_UNKNOWN
Inode == 1 .. MaxInode

DirPathLockMode == {"DIR_LOCK_EXCLUSIVE", "DIR_LOCK_SHARED", "DIR_LOCK_NONE"}
NoEvict == [at |-> "no", key |-> NoKey]

NoWrites == [k \in {} |-> NotExist]
NoOp == [call |-> "none"]
Unlocked == [k \in Key |-> "none"]
FullBudget == [txns |-> MaxTxn, calls |-> MaxCalls]

Init ==
    /\ part \in Partition
    /\ table \in [Key -> {1, NotExist}]
    /\ \A k, l \in Key : table[k] = 1 => k \in part.keys /\ (table[l] = 1 => k = l)
    /\ hash = [k \in Key |-> Absent]
    /\ count = 0
    /\ held = [s \in Session |-> [k \in Key |-> "none"]]
    /\ pc = [s \in Session |-> "idle"]
    /\ op = [s \in Session |-> NoOp]
    /\ seen = [s \in Session |-> Unknown]
    /\ evict = [s \in Session |-> NoEvict]
    /\ writes = [s \in Session |-> NoWrites]
    /\ toCommit = [s \in Session |-> <<>>]
    /\ phase = [s \in Session |-> "active"]
    /\ prepared = {}
    /\ budget = [s \in Session |-> FullBudget]
    /\ nextId = 2

-----------------------------------------------------------------------------
Cached(k) == hash[k] # Absent
Entries == {k \in Key : Cached(k)}
Goto(s, l) == pc' = [pc EXCEPT ![s] = l]
Locks(s) == op[s].mode # "DIR_LOCK_NONE"
Pins(s, k) == held[s][k] # "none" \/ (pc[s] = "acquire" /\ op[s].key = k)

(* RWLockCheckDestroyable: nobody holds the lock of the entry or waits.      *)
Destroyable(k) == \A s \in Session : ~Pins(s, k)

(* What s reads from the directory table.                                    *)
Visible(s, k) == IF k \in DOMAIN writes[s] THEN writes[s][k] ELSE table[k]

(* After the LWLock is given up: wait for the entry's lock, or go on.        *)
Pin(s) == Goto(s, IF Locks(s) THEN "acquire" ELSE "return")

(* The first search, under the shared LWLock.  A delete is content with an   *)
(* entry whose inode is unknown.                                             *)
Usable(c, k) == Cached(k) /\ (hash[k] # Unknown \/ c = "delete")
Call(s, o) ==
    /\ pc[s] = "idle" /\ phase[s] = "active"
    /\ budget[s].txns > 0 /\ budget[s].calls > 0
    /\ budget' = [budget EXCEPT ![s].calls = @ - 1]
    /\ op' = [op EXCEPT ![s] = o]
    /\ Goto(s, IF Usable(o.call, o.key)
               THEN (IF o.mode = "DIR_LOCK_NONE" THEN "return" ELSE "acquire")
               ELSE IF o.call = "delete" THEN "enter" ELSE "table")
    /\ UNCHANGED <<table, hash, count, held, seen, evict, writes, toCommit, phase, prepared>>

(* The callers.  PathParseTreeInsert searches a component shared and a       *)
(* target exclusively; that a session may lock an entry twice is left to     *)
(* module RWLock.  Only CheckWhetherPathExistsInDirectoryTable does not      *)
(* lock, and a rename calls it before it locks or writes anything.           *)
SearchDirectoryByDirectoryHashTable(s, k, m) ==
    /\ IF m = "DIR_LOCK_NONE" THEN held[s] = Unlocked ELSE held[s][k] = "none"
    /\ Call(s, [call |-> "search", key |-> k, mode |-> m, inode |-> NotExist])
    /\ UNCHANGED nextId

(* Who inserts or deletes without a lock has it from a search, and has seen  *)
(* there that the directory does not or does exist.                          *)
WriteMode(s, k, m, exists) ==
    \/ m = "DIR_LOCK_EXCLUSIVE" /\ held[s][k] = "none"
    \/ /\ m = "DIR_LOCK_NONE" /\ held[s][k] = "exclusive"
       /\ k \notin DOMAIN writes[s] /\ (hash[k] # NotExist <=> exists)
InsertDirectoryByDirectoryHashTable(s, k, m) ==
    /\ nextId <= part.inodes /\ WriteMode(s, k, m, FALSE)
    /\ Call(s, [call |-> "insert", key |-> k, mode |-> m, inode |-> nextId])
    /\ nextId' = nextId + 1
DeleteDirectoryByDirectoryHashTable(s, k, m) ==
    /\ WriteMode(s, k, m, TRUE)
    /\ Call(s, [call |-> "delete", key |-> k, mode |-> m, inode |-> NotExist])
    /\ UNCHANGED nextId

(* SearchDirectoryTableInfo, without any lock.                               *)
ReadTable(s) ==
    /\ pc[s] = "table"
    /\ seen' = [seen EXCEPT ![s] = Visible(s, op[s].key)]
    /\ Goto(s, IF op[s].call = "insert" /\ seen'[s] # NotExist THEN "error" ELSE "enter")
    /\ UNCHANGED <<table, hash, count, held, op, evict, writes, toCommit, phase, prepared,
                   budget, nextId>>

(* HASH_ENTER_NULL under the exclusive LWLock: there is room for a new entry *)
Entering(s) == pc[s] = "enter" /\ evict[s] = NoEvict
AddEntry(s) == toCommit' =
    [toCommit EXCEPT ![s] = Append(@, [do |-> "A", key |-> op[s].key, inode |-> NotExist])]
EnterNewUncounted(s) ==   \* mutant: the counter is forgotten
    /\ Entering(s) /\ ~Cached(op[s].key) /\ Cardinality(Entries) < Capacity
    /\ hash' = [hash EXCEPT ![op[s].key] = IF op[s].call = "delete" THEN Unknown ELSE seen[s]]
    /\ AddEntry(s)
    /\ Pin(s)
    /\ UNCHANGED <<table, count, held, op, seen, evict, writes, phase, prepared, budget, nextId>>
EnterNew(s) ==
    /\ Entering(s) /\ ~Cached(op[s].key) /\ Cardinality(Entries) < Capacity
    /\ count' = count + 1
    /\ hash' = [hash EXCEPT ![op[s].key] = IF op[s].call = "delete" THEN Unknown ELSE seen[s]]
    /\ AddEntry(s)
    /\ Pin(s)
    /\ UNCHANGED <<table, held, op, seen, evict, writes, phase, prepared, budget, nextId>>

(* ... or the entry is there by now.  If it disagrees with what was read the *)
(* hash is said to be corrupt.                                               *)
SaysCorrupt(s) ==
    /\ Entering(s) /\ Cached(op[s].key) /\ op[s].call # "delete"
    /\ hash[op[s].key] \notin {Unknown, seen[s]}
EnterFound(s) ==
    /\ Entering(s) /\ Cached(op[s].key)
    /\ IF hash[op[s].key] = Unknown /\ op[s].call # "delete"
       THEN hash' = [hash EXCEPT ![op[s].key] = seen[s]]
       ELSE UNCHANGED hash
    /\ IF SaysCorrupt(s) THEN Goto(s, "error") ELSE Pin(s)
    /\ UNCHANGED <<table, count, held, op, seen, evict, writes, toCommit, phase, prepared,
                   budget, nextId>>

(* ... or there is no room.  A caller that does not lock needs no entry, one *)
(* that does calls EliminateDirPathHashByLRU and tries again.                *)
StartEliminate(s) == evict' = [evict EXCEPT ![s].at = "start"]
EnterNot(s) ==
    /\ Entering(s) /\ ~Cached(op[s].key) /\ Cardinality(Entries) = Capacity
    /\ IF Locks(s) THEN StartEliminate(s) /\ UNCHANGED pc
                   ELSE Goto(s, "return") /\ UNCHANGED evict
    /\ UNCHANGED <<table, hash, count, held, op, seen, writes, toCommit, phase, prepared,
                   budget, nextId>>

AcquireBesideWriter(s) ==   \* mutant: a reader does not wait for the writer
    /\ pc[s] = "acquire"
    /\ op[s].mode = "DIR_LOCK_EXCLUSIVE" => \A t \in Session : held[t][op[s].key] = "none"
    /\ held' = [held EXCEPT ![s][op[s].key] =
                  IF op[s].mode = "DIR_LOCK_EXCLUSIVE" THEN "exclusive" ELSE "shared"]
    /\ Goto(s, "return")
    /\ UNCHANGED <<table, hash, count, op, seen, evict, writes, toCommit, phase, prepared,
                   budget, nextId>>

(* RWLockAcquire and RWLockUndeclare.                                        *)
Acquire(s) ==
    /\ pc[s] = "acquire"
    /\ LET k == op[s].key  IN
        IF op[s].mode = "DIR_LOCK_EXCLUSIVE"
        THEN /\ \A t \in Session : held[t][k] = "none"
             /\ held' = [held EXCEPT ![s][k] = "exclusive"]
        ELSE /\ \A t \in Session : held[t][k] # "exclusive"
             /\ held' = [held EXCEPT ![s][k] = "shared"]
    /\ Goto(s, "return")
    /\ UNCHANGED <<table, hash, count, op, seen, evict, writes, toCommit, phase, prepared,
                   budget, nextId>>

(* The end of a call.  A search returns item->inodeId, read only now.  (One  *)
(* that did not lock may read an entry that has been evicted since.)         *)
(* PathParseTreeInsert gives the shared lock of a last component back if     *)
(* there is no such directory and need not be ...                            *)
Returned(s) == hash[op[s].key]
EndCall(s) ==
    /\ op' = [op EXCEPT ![s] = NoOp]
    /\ seen' = [seen EXCEPT ![s] = Unknown]
SearchReturns(s) ==
    /\ pc[s] = "return" /\ op[s].call = "search"
    /\ \/ UNCHANGED held
       \/ /\ op[s].mode = "DIR_LOCK_SHARED" /\ Returned(s) = NotExist
          /\ held' = [held EXCEPT ![s][op[s].key] = "none"]
    /\ Goto(s, "idle") /\ EndCall(s)
    /\ UNCHANGED <<table, hash, count, evict, writes, toCommit, phase, prepared,
                   budget, nextId>>

(* ... an insert or delete writes the row, unless another transaction has it *)
(* or the unique index or the scan says no ...                               *)
Blocked(s, k) ==
    \/ \E t \in Session \ {s} : k \in DOMAIN writes[t]
    \/ \E p \in prepared : k \in DOMAIN p.writes
RowFits(s) == (Visible(s, op[s].key) = NotExist) <=> (op[s].call = "insert")
UpdateEntry(s) ==
    IF Cached(op[s].key)
    THEN toCommit' = [toCommit EXCEPT ![s] =
                        Append(@, [do |-> "U", key |-> op[s].key, inode |-> op[s].inode])]
    ELSE UNCHANGED toCommit
WriteRow(s) ==
    /\ pc[s] = "return" /\ op[s].call # "search"
    /\ ~Blocked(s, op[s].key) /\ RowFits(s)
    /\ writes' = [writes EXCEPT ![s] = [k \in DOMAIN @ \cup {op[s].key} |->
                                          IF k = op[s].key THEN op[s].inode ELSE @[k]]]
    /\ UpdateEntry(s)
    /\ Goto(s, "idle") /\ EndCall(s)
    /\ UNCHANGED <<table, hash, count, held, evict, phase, prepared, budget, nextId>>
RowRefused(s) ==
    /\ pc[s] = "return" /\ op[s].call # "search"
    /\ ~RowFits(s) /\ (op[s].call = "insert" => ~Blocked(s, op[s].key))
    /\ Goto(s, "error")
    /\ UNCHANGED <<table, hash, count, held, op, seen, evict, writes, toCommit, phase,
                   prepared, budget, nextId>>

-----------------------------------------------------------------------------
(* EliminateDirPathHashByLRU, from a call that found no room or from the end *)
(* of a transaction, where the next action follows it.                       *)
NextAction(s) == toCommit' = [toCommit EXCEPT ![s] = Tail(@)]
EndEliminate(s) ==
    /\ evict' = [evict EXCEPT ![s] = NoEvict]
    /\ IF pc[s] = "callback" THEN NextAction(s) ELSE UNCHANGED toCommit

(* Nothing to do while the partition is small.                               *)
CheckCount(s) ==
    /\ evict[s].at = "start"
    /\ IF count <= ClearBegin
       THEN EndEliminate(s)
       ELSE evict' = [evict EXCEPT ![s].at = "choose"] /\ UNCHANGED toCommit
    /\ UNCHANGED <<table, hash, count, held, pc, op, seen, writes, phase, prepared, budget, nextId>>

(* Under the shared LWLock the clock finds an entry that is not in use, any  *)
(* one, or gives up.                                                         *)
ChooseVictim(s, k) ==
    /\ evict[s].at = "choose" /\ Cached(k) /\ Destroyable(k)
    /\ evict' = [evict EXCEPT ![s] = [at |-> "chosen", key |-> k]]
    /\ UNCHANGED <<table, hash, count, held, pc, op, seen, writes, toCommit, phase, prepared,
                   budget, nextId>>
NoVictim(s) ==
    /\ evict[s].at = "choose" /\ \A k \in Entries : ~Destroyable(k)
    /\ EndEliminate(s)
    /\ UNCHANGED <<table, hash, count, held, pc, op, seen, writes, phase, prepared, budget, nextId>>

RemoveVictimUnchecked(s) ==   \* mutant: the victim is not looked at again
    /\ evict[s].at = "chosen"
    /\ hash' = [hash EXCEPT ![evict[s].key] = Absent]
    /\ evict' = [evict EXCEPT ![s].at = "removed"]
    /\ UNCHANGED <<table, count, held, pc, op, seen, writes, toCommit, phase, prepared,
                   budget, nextId>>

(* The LWLock was given up in between: the victim may be gone or in use.     *)
RemoveVictim(s) ==
    /\ evict[s].at = "chosen"
    /\ IF Cached(evict[s].key) /\ Destroyable(evict[s].key)
       THEN /\ hash' = [hash EXCEPT ![evict[s].key] = Absent]
            /\ evict' = [evict EXCEPT ![s].at = "removed"]
       ELSE /\ evict' = [evict EXCEPT ![s] = [at |-> "choose", key |-> NoKey]]
            /\ UNCHANGED hash
    /\ UNCHANGED <<table, count, held, pc, op, seen, writes, toCommit, phase, prepared,
                   budget, nextId>>

(* The count is lowered after the LWLock has been given up.                  *)
CountVictim(s) ==
    /\ evict[s].at = "removed"
    /\ count' = count - 1
    /\ EndEliminate(s)
    /\ UNCHANGED <<table, hash, held, pc, op, seen, writes, phase, prepared, budget, nextId>>

-----------------------------------------------------------------------------
(* The end of a transaction.  PostgreSQL has committed when                  *)
(* XACT_EVENT_COMMIT is delivered ...                                        *)
Apply(w) == [k \in Key |-> IF k \in DOMAIN w THEN w[k] ELSE table[k]]
EndTxn(s) == budget' = [budget EXCEPT ![s] = [txns |-> @.txns - 1, calls |-> MaxCalls]]
InTxn(s) == pc[s] = "idle" /\ phase[s] = "active" /\ budget[s].calls < MaxCalls

CommitTransaction(s) ==
    /\ InTxn(s)
    /\ table' = Apply(writes[s])
    /\ writes' = [writes EXCEPT ![s] = NoWrites]
    /\ Goto(s, "callback")
    /\ UNCHANGED <<hash, count, held, op, seen, evict, toCommit, phase, prepared, budget, nextId>>

(* ... CommitForDirPathHash: a new entry may have to make another one go ... *)
CommitAdd(s) ==
    /\ pc[s] = "callback" /\ toCommit[s] # <<>> /\ Head(toCommit[s]).do = "A"
    /\ evict[s] = NoEvict
    /\ StartEliminate(s)
    /\ UNCHANGED <<table, hash, count, held, pc, op, seen, writes, toCommit, phase, prepared,
                   budget, nextId>>

CommitForgets(s) ==   \* mutant: the entry keeps its old inode
    /\ pc[s] = "callback" /\ toCommit[s] # <<>> /\ Head(toCommit[s]).do = "U"
    /\ NextAction(s)
    /\ UNCHANGED <<table, hash, count, held, pc, op, seen, evict, writes, phase, prepared,
                   budget, nextId>>

(* ... an entry that was inserted or deleted gets its inode ...              *)
CommitUpdate(s) ==
    /\ pc[s] = "callback" /\ toCommit[s] # <<>> /\ Head(toCommit[s]).do = "U"
    /\ LET k == Head(toCommit[s]).key
           room == Cached(k) \/ Cardinality(Entries) < Capacity
       IN /\ hash' = [hash EXCEPT ![k] = IF room THEN Head(toCommit[s]).inode ELSE Absent]
          /\ count' = IF ~Cached(k) /\ room THEN count + 1 ELSE count
    /\ NextAction(s)
    /\ UNCHANGED <<table, held, pc, op, seen, evict, writes, phase, prepared, budget, nextId>>

(* ... and all locks go (RWLockReleaseAll).                                  *)
CommitEnd(s) ==
    /\ pc[s] = "callback" /\ toCommit[s] = <<>>
    /\ held' = [held EXCEPT ![s] = Unlocked]
    /\ phase' = [phase EXCEPT ![s] = "active"]
    /\ Goto(s, "idle")
    /\ EndTxn(s)
    /\ UNCHANGED <<table, hash, count, op, seen, evict, writes, toCommit, prepared, nextId>>

(* XACT_EVENT_ABORT, after an ERROR of a call or of anything else.           *)
AbortTransaction(s) ==
    /\ pc[s] = "error" \/ InTxn(s)
    /\ writes' = [writes EXCEPT ![s] = NoWrites]
    /\ toCommit' = [toCommit EXCEPT ![s] = <<>>]
    /\ held' = [held EXCEPT ![s] = Unlocked]
    /\ Goto(s, "idle") /\ EndCall(s)
    /\ EndTxn(s)
    /\ UNCHANGED <<table, hash, count, evict, phase, prepared, nextId>>

(* XACT_EVENT_PREPARE only forgets the path tree: the session keeps its      *)
(* locks and its list.                                                       *)
PrepareTransaction(s) ==
    /\ InTxn(s) /\ writes[s] # NoWrites
    /\ prepared' = prepared \cup {[by |-> s, writes |-> writes[s]]}
    /\ writes' = [writes EXCEPT ![s] = NoWrites]
    /\ phase' = [phase EXCEPT ![s] = "prepared"]
    /\ UNCHANGED <<table, hash, count, held, pc, op, seen, evict, toCommit, budget, nextId>>

(* COMMIT PREPARED and ROLLBACK PREPARED are transactions of their own that  *)
(* commit: in the session that prepared, both deliver XACT_EVENT_COMMIT.     *)
FinishPrepared(s, p, commit) ==
    /\ pc[s] = "idle" /\ phase[s] = "prepared" /\ p \in prepared /\ p.by = s
    /\ table' = IF commit THEN Apply(p.writes) ELSE table
    /\ prepared' = prepared \ {p}
    /\ Goto(s, "callback")
    /\ UNCHANGED <<hash, count, held, op, seen, evict, writes, toCommit, phase, budget, nextId>>

(* The daemon of the CN does so over a session of its own, whose list is     *)
(* empty.                                                                    *)
FinishElsewhere(p, commit) ==
    /\ p \in prepared
    /\ table' = IF commit THEN Apply(p.writes) ELSE table
    /\ prepared' = prepared \ {p}
    /\ UNCHANGED <<hash, count, held, pc, op, seen, evict, writes, toCommit, phase, budget, nextId>>

(* CuckooCleanupOnExit: a session between two commands ends and another one  *)
(* takes its place.                                                          *)
SessionExit(s) ==
    /\ pc[s] = "idle" /\ (phase[s] = "prepared" \/ InTxn(s))
    /\ writes' = [writes EXCEPT ![s] = NoWrites]
    /\ toCommit' = [toCommit EXCEPT ![s] = <<>>]
    /\ held' = [held EXCEPT ![s] = Unlocked]
    /\ phase' = [phase EXCEPT ![s] = "active"]
    /\ EndTxn(s)
    /\ UNCHANGED <<table, hash, count, pc, op, seen, evict, prepared, nextId>>

-----------------------------------------------------------------------------
Calls(s) == \E k \in part.keys :
    \/ \E m \in DirPathLockMode : SearchDirectoryByDirectoryHashTable(s, k, m)
    \/ \E m \in {"DIR_LOCK_EXCLUSIVE", "DIR_LOCK_NONE"} :
        \/ InsertDirectoryByDirectoryHashTable(s, k, m)
        \/ DeleteDirectoryByDirectoryHashTable(s, k, m)

InCall(s) ==
    \/ ReadTable(s)
    \/ EnterNew(s) \/ EnterFound(s) \/ EnterNot(s)
    \/ Acquire(s)
    \/ SearchReturns(s) \/ WriteRow(s) \/ RowRefused(s)

Eliminate(s) ==
    \/ CheckCount(s)
    \/ NoVictim(s) \/ \E k \in Key : ChooseVictim(s, k)
    \/ RemoveVictim(s) \/ CountVictim(s)

Local(s) ==
    \/ Calls(s) \/ InCall(s) \/ Eliminate(s)
    \/ CommitTransaction(s) \/ CommitAdd(s) \/ CommitUpdate(s) \/ CommitEnd(s)
    \/ AbortTransaction(s)

TwoPhase(s) == PrepareTransaction(s) \/ \E p \in prepared : FinishPrepared(s, p, TRUE)
RollsBack(s) == \E p \in prepared : FinishPrepared(s, p, FALSE)
Resolves == \E p \in prepared, commit \in BOOLEAN : FinishElsewhere(p, commit)

Next ==
    /\ \/ \E s \in Session :
            \/ Local(s) \/ TwoPhase(s)
            \/ "rollback" \in part.ends /\ RollsBack(s)
            \/ "exit" \in part.ends /\ SessionExit(s)
       \/ "elsewhere" \in part.ends /\ Resolves
    /\ UNCHANGED part

Spec == Init /\ [][Next]_vars

-----------------------------------------------------------------------------
(* An entry that a session has locked, or whose lock it waits for, stays in  *)
(* the hash: eviction never takes it away (EliminateDirPathHashByLRU).       *)
LockedEntryStays == \A s \in Session, k \in Key : Pins(s, k) => Cached(k)

(* PathDirHashEntryCount is the number of entries, but for those removed and *)
(* not yet subtracted; it never drops below what is there.                   *)
CountIsExact == count = Cardinality(Entries)
                        + Cardinality({s \in Session : evict[s].at = "removed"})

(* The cache agrees with the directory table wherever nobody has the         *)
(* exclusive lock: what dir_path_hash.c:439 takes for granted.               *)
Agrees == \A k \in Key :
    Cached(k) /\ hash[k] # Unknown /\ (\A s \in Session : held[s][k] # "exclusive")
        => hash[k] = table[k]

(* It does as long as nothing is evicted and a session commits what it has   *)
(* prepared, although the table is read before the entry is locked.          *)
Undisturbed == Cardinality(part.keys) <= ClearBegin /\ part.ends = {}
Coherent == Undisturbed => Agrees

(* Then a search that has locked the entry returns what the table says,      *)
(* never the mark of an unknown inode, however the entry came about.         *)
LockedSearchIsFresh == Undisturbed => \A s \in Session :
    pc[s] = "return" /\ op[s].call = "search" /\ Locks(s)
        => Returned(s) = Visible(s, op[s].key)
=============================================================================
