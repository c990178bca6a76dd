--------------------------- MODULE DirPathHashProofs ---------------------------
(***************************************************************************)
(* Proofs about DirPathHash, for any number of sessions and of keys, any   *)
(* capacity and any number of transactions and calls.                      *)
(*                                                                         *)
(* The invariant has three layers.  The first says what a session at a     *)
(* certain place of a call or of a callback has, and is enough for the     *)
(* entries that stay and for the counter.  The second says who has which   *)
(* lock: whoever has written a row has its entry locked exclusively and    *)
(* carries an action that will give the entry the inode of that row.  The  *)
(* third relates the cache to the table, through the one window in which   *)
(* they differ: between the commit and that action.                        *)
(***************************************************************************)
EXTENDS DirPathHash, FiniteSetTheorems, TLAPS

-----------------------------------------------------------------------------
(* What a row can say, and what a session may have written.                  *)
Value == Inode \cup {NotExist}
Rows == UNION {[K -> Value] : K \in SUBSET Key}
CallRec == [call : {"search", "insert", "delete"}, key : Key, mode : DirPathLockMode, inode : Value]
Action == [do : {"A", "U"}, key : Key, inode : Value]

TypeOK ==
    /\ part \in Partition
    /\ table \in [Key -> Value]
    /\ hash \in [Key -> Value \cup {Unknown, Absent}]
    /\ count \in Int
    /\ held \in [Session -> [Key -> {"none", "shared", "exclusive"}]]
    /\ pc \in [Session -> {"idle", "table", "enter", "acquire", "return", "error", "callback"}]
    /\ op \in [Session -> CallRec \cup {NoOp}]
    /\ seen \in [Session -> Value \cup {Unknown}]
    /\ evict \in [Session -> [at : {"no", "start", "choose", "chosen", "removed"},
                              key : Key \cup {NoKey}]]
    /\ writes \in [Session -> Rows]
    /\ toCommit \in [Session -> Seq(Action)]
    /\ phase \in [Session -> {"active", "prepared"}]
    /\ prepared \subseteq [by : Session, writes : Rows]
    /\ nextId \in Nat \ {0}

(* A session in a call has its arguments, those of a lock when it waits for  *)
(* one, and what it has read when it is about to enter it.                   *)
InACall(s) == pc[s] \in {"table", "enter", "acquire", "return"}
CallInv == \A s \in Session :
    /\ InACall(s) => op[s] \in CallRec /\ op[s].key \in part.keys
    /\ pc[s] = "acquire" => Locks(s)
    /\ pc[s] = "enter" /\ op[s].call # "delete" => seen[s] \in Value

(* Eviction is called from a call that found no room, or for an action "A".  *)
EvictInv == \A s \in Session :
    /\ evict[s].at = "no" => evict[s] = NoEvict
    /\ evict[s].at = "chosen" => evict[s].key \in Key
    /\ evict[s].at # "no" => \/ pc[s] = "enter"
                             \/ /\ pc[s] = "callback"
                                /\ toCommit[s] # <<>> /\ Head(toCommit[s]).do = "A"

(* The keys in use are the partition's.                                      *)
KeysInv ==
    /\ \A k \in Key : Cached(k) => k \in part.keys
    /\ \A s \in Session : \A i \in 1 .. Len(toCommit[s]) : toCommit[s][i].key \in part.keys

(* The locks exclude, and a call has the one it asked for when it returns    *)
(* and none before.  Who inserts or deletes without locking has it already.  *)
Excludes == \A s, t \in Session, k \in Key :
    held[s][k] = "exclusive" /\ held[t][k] # "none" => s = t
HasItsLock(s) ==
    /\ pc[s] \in {"table", "enter", "acquire"} =>
        /\ held[s][op[s].key] = "none"
        /\ op[s].call = "search" \/ op[s].mode = "DIR_LOCK_EXCLUSIVE"
    /\ pc[s] = "return" =>
        /\ op[s].mode = "DIR_LOCK_SHARED" => held[s][op[s].key] = "shared"
        /\ op[s].mode = "DIR_LOCK_EXCLUSIVE" => held[s][op[s].key] = "exclusive"
        /\ op[s].call # "search" => held[s][op[s].key] = "exclusive"
        /\ op[s].key \notin DOMAIN writes[s]
LockInv == Excludes /\ \A s \in Session : HasItsLock(s)

(* An entry locked for other than a delete is known.                         *)
KnownInv == \A s \in Session :
    pc[s] \in {"acquire", "return"} /\ op[s].call # "delete" /\ Locks(s)
        => hash[op[s].key] \in Value

(* s will give the entry of k the inode v when its transaction has committed.*)
Updates(s, k, v) == \E i \in 1 .. Len(toCommit[s]) :
    toCommit[s][i] = [do |-> "U", key |-> k, inode |-> v]

(* s has written v to the row of k, in a transaction that is not finished.   *)
Wrote(s, k, v) ==
    \/ k \in DOMAIN writes[s] /\ writes[s][k] = v
    \/ \E p \in prepared : p.by = s /\ k \in DOMAIN p.writes /\ p.writes[k] = v

(* A written row is locked, and so is an entry that will be updated; a       *)
(* session that has prepared does nothing but finish.                        *)
WriteInv == \A s \in Session :
    /\ \A k \in DOMAIN writes[s] : held[s][k] = "exclusive"
    /\ \A k \in Key, v \in Value : Updates(s, k, v) => held[s][k] = "exclusive"
    /\ DOMAIN writes[s] # {} => pc[s] # "callback" /\ phase[s] = "active"
    /\ phase[s] = "prepared" => pc[s] \in {"idle", "callback"}

(* While the sessions finish what they have prepared: whatever row was       *)
(* written has its update coming, an update has its row written or committed.*)
RowInv == part.ends = {} =>
    /\ \A p \in prepared : phase[p.by] = "prepared" /\ pc[p.by] = "idle"
    /\ \A p, q \in prepared : p.by = q.by => p = q
    /\ \A s \in Session, k \in Key, v \in Value :
        /\ Wrote(s, k, v) => Updates(s, k, v)
        /\ Updates(s, k, v) => Wrote(s, k, v) \/ (pc[s] = "callback" /\ table[k] = v)

(* The transaction that wrote the row of k has committed, and has not yet    *)
(* updated the entry.                                                        *)
Due(k) == \E s \in Session, v \in Value : pc[s] = "callback" /\ Updates(s, k, v)

(* Nothing is evicted; an entry agrees with its row, and what a session has  *)
(* read and is about to enter still is what the row says, unless an update   *)
(* is due.                                                                   *)
CacheInv == Undisturbed =>
    /\ \A s \in Session : evict[s].at \in {"no", "start"}
    /\ \A k \in Key : hash[k] \in Value => hash[k] = table[k] \/ Due(k)
    /\ \A s \in Session :
        pc[s] = "enter" /\ op[s].call # "delete" /\ hash[op[s].key] \in {Absent, Unknown}
            => seen[s] = table[op[s].key] \/ Due(op[s].key)

IInv ==
    /\ TypeOK /\ CallInv /\ EvictInv /\ KeysInv
    /\ LockedEntryStays /\ CountIsExact
    /\ LockInv /\ KnownInv /\ WriteInv /\ RowInv /\ CacheInv

-----------------------------------------------------------------------------
(* The marks of the cache are no values of a row.                            *)
LEMMA MarksAreNoValues ==
    /\ Absent \notin Value /\ Unknown \notin Value /\ Absent # Unknown
    /\ NotExist \in Value
BY BoundAssumption, SMTT(60) DEF Value, Inode, Absent, Unknown, NotExist, DIR_HASH_TABLE_PATH_NOT_EXIST,
   DIR_HASH_TABLE_PATH_UNKNOWN

(* What the assumption on the partitions gives.                              *)
LEMMA PartitionTypes ==
    ASSUME part \in Partition
    PROVE  /\ part.keys \subseteq Key /\ IsFiniteSet(part.keys) /\ IsFiniteSet(Key)
           /\ Capacity \in Nat /\ ClearBegin \in Nat
           /\ 1 \in Value /\ \A n \in Nat \ {0} : n <= part.inodes => n \in Value
<1>1. part \in [capacity : Nat, clearBegin : Nat, keys : SUBSET Key, inodes : 1 .. MaxInode,
                txns : Nat, calls : Nat, ends : SUBSET {"rollback", "elsewhere", "exit"}]
  BY PartitionAssumption, ZenonT(60)
<1>2. /\ part.keys \subseteq Key /\ Capacity \in Nat /\ ClearBegin \in Nat
      /\ part.inodes \in 1 .. MaxInode
  BY <1>1, ZenonT(60) DEF Capacity, ClearBegin
<1>3. 1 \in Value /\ \A n \in Nat \ {0} : n <= part.inodes => n \in Value
  BY <1>2, BoundAssumption, SMTT(60) DEF Value, Inode
<1> QED
  BY <1>2, <1>3, FiniteAssumption, FS_Subset, ZenonT(60)

(* A value that a session sees in the table is one.                          *)
LEMMA VisibleIsValue ==
    ASSUME TypeOK, NEW s \in Session, NEW k \in Key
    PROVE  Visible(s, k) \in Value
<1>1. writes[s] \in Rows /\ table[k] \in Value
  BY ZenonT(60) DEF TypeOK
<1>2. k \in DOMAIN writes[s] => writes[s][k] \in Value
  BY <1>1, ZenonT(60) DEF Rows
<1> QED
  BY <1>1, <1>2, ZenonT(60) DEF Visible

-----------------------------------------------------------------------------
(* The calls: which arguments they have and what they rely on.               *)
Admitted(s, o) ==
    \/ /\ o.call = "search"
       /\ IF o.mode = "DIR_LOCK_NONE" THEN held[s] = Unlocked ELSE held[s][o.key] = "none"
    \/ /\ o.call # "search" /\ o.mode = "DIR_LOCK_EXCLUSIVE" /\ held[s][o.key] = "none"
    \/ /\ o.call # "search" /\ o.mode = "DIR_LOCK_NONE" /\ held[s][o.key] = "exclusive"
       /\ o.key \notin DOMAIN writes[s]
       /\ (o.call = "insert" => hash[o.key] = NotExist)

(* Every call is one of these.                                               *)
LEMMA CallsAre ==
    ASSUME TypeOK, NEW s \in Session, Calls(s)
    PROVE  \E o \in CallRec : /\ o.key \in part.keys /\ Call(s, o) /\ Admitted(s, o)
                               /\ nextId' \in Nat \ {0}
<1>0. part.keys \subseteq Key /\ \A n \in Nat \ {0} : n <= part.inodes => n \in Value
  BY PartitionTypes, ZenonT(60) DEF TypeOK
<1>1. PICK k \in part.keys :
        \/ \E m \in DirPathLockMode : SearchDirectoryByDirectoryHashTable(s, k, m)
        \/ \E m \in {"DIR_LOCK_EXCLUSIVE", "DIR_LOCK_NONE"} :
            \/ InsertDirectoryByDirectoryHashTable(s, k, m)
            \/ DeleteDirectoryByDirectoryHashTable(s, k, m)
  BY ZenonT(60) DEF Calls
<1>2. k \in Key /\ nextId \in Nat \ {0} /\ nextId + 1 \in Nat \ {0} /\ NotExist \in Value
  BY <1>0, MarksAreNoValues, SMTT(60) DEF TypeOK
<1>3. ASSUME NEW m \in DirPathLockMode, SearchDirectoryByDirectoryHashTable(s, k, m)
      PROVE  \E o \in CallRec : /\ o.key \in part.keys /\ Call(s, o) /\ Admitted(s, o)
                                 /\ nextId' \in Nat \ {0}
  <2> DEFINE o == [call |-> "search", key |-> k, mode |-> m, inode |-> NotExist]
  <2>1. o \in CallRec /\ o.key = k /\ o.mode = m /\ o.call = "search"
    BY <1>2, ZenonT(60) DEF CallRec
  <2>2. Call(s, o) /\ nextId' = nextId
    BY <1>3, ZenonT(60) DEF SearchDirectoryByDirectoryHashTable
  <2>3. Admitted(s, o)
    BY <1>3, ZenonT(60) DEF SearchDirectoryByDirectoryHashTable, Admitted
  <2> QED
    BY <2>1, <2>2, <2>3, <1>2, ZenonT(60)
<1>4. ASSUME NEW m \in {"DIR_LOCK_EXCLUSIVE", "DIR_LOCK_NONE"},
             InsertDirectoryByDirectoryHashTable(s, k, m)
      PROVE  \E o \in CallRec : /\ o.key \in part.keys /\ Call(s, o) /\ Admitted(s, o)
                                 /\ nextId' \in Nat \ {0}
  <2> DEFINE o == [call |-> "insert", key |-> k, mode |-> m, inode |-> nextId]
  <2>1. o \in CallRec /\ o.key = k /\ o.mode = m /\ o.call = "insert"
    BY <1>0, <1>2, <1>4, ZenonT(60) DEF CallRec, InsertDirectoryByDirectoryHashTable, DirPathLockMode
  <2>2. Call(s, o) /\ nextId' = nextId + 1
    BY <1>4, ZenonT(60) DEF InsertDirectoryByDirectoryHashTable
  <2>3. Admitted(s, o)
    BY <1>4, ZenonT(60) DEF InsertDirectoryByDirectoryHashTable, Admitted, WriteMode
  <2> QED
    BY <2>1, <2>2, <2>3, <1>2, ZenonT(60)
<1>5. ASSUME NEW m \in {"DIR_LOCK_EXCLUSIVE", "DIR_LOCK_NONE"},
             DeleteDirectoryByDirectoryHashTable(s, k, m)
      PROVE  \E o \in CallRec : /\ o.key \in part.keys /\ Call(s, o) /\ Admitted(s, o)
                                 /\ nextId' \in Nat \ {0}
  <2> DEFINE o == [call |-> "delete", key |-> k, mode |-> m, inode |-> NotExist]
  <2>1. o \in CallRec /\ o.key = k /\ o.mode = m /\ o.call = "delete"
    BY <1>2, ZenonT(60) DEF CallRec, DirPathLockMode
  <2>2. Call(s, o) /\ nextId' = nextId
    BY <1>5, ZenonT(60) DEF DeleteDirectoryByDirectoryHashTable
  <2>3. Admitted(s, o)
    BY <1>5, ZenonT(60) DEF DeleteDirectoryByDirectoryHashTable, Admitted, WriteMode
  <2> QED
    BY <2>1, <2>2, <2>3, <1>2, ZenonT(60)
<1> QED
  BY <1>1, <1>3, <1>4, <1>5, ZenonT(60)

-----------------------------------------------------------------------------
(* Where a call goes first.                                                  *)
First(o) == IF Usable(o.call, o.key)
            THEN (IF o.mode = "DIR_LOCK_NONE" THEN "return" ELSE "acquire")
            ELSE IF o.call = "delete" THEN "enter" ELSE "table"

LEMMA CallEffect ==
    ASSUME TypeOK, NEW s \in Session, Calls(s)
    PROVE  \E o \in CallRec :
              /\ o.key \in part.keys /\ Admitted(s, o)
              /\ pc[s] = "idle" /\ phase[s] = "active"
              /\ op' = [op EXCEPT ![s] = o]
              /\ pc' = [pc EXCEPT ![s] = First(o)]
              /\ UNCHANGED <<table, hash, count, held, seen, evict, writes, toCommit, phase, prepared>>
<1>1. PICK o \in CallRec : /\ o.key \in part.keys /\ Call(s, o) /\ Admitted(s, o)
                           /\ nextId' \in Nat \ {0}
  BY CallsAre, ZenonT(60)
<1> QED
  BY <1>1, ZenonT(60) DEF Call, Goto, First

(* The types of what several actions leave behind.                           *)
LEMMA EvictTypes ==
    ASSUME TypeOK, NEW s \in Session
    PROVE  /\ StartEliminate(s) => evict' \in [Session ->
                 [at : {"no", "start", "choose", "chosen", "removed"}, key : Key \cup {NoKey}]]
           /\ EndEliminate(s) => evict' \in [Session ->
                 [at : {"no", "start", "choose", "chosen", "removed"}, key : Key \cup {NoKey}]]
<1> DEFINE E == [at : {"no", "start", "choose", "chosen", "removed"}, key : Key \cup {NoKey}]
<1>1. evict \in [Session -> E] /\ evict[s] \in E
  BY ZenonT(60) DEF TypeOK
<1>2. NoEvict \in E /\ [evict[s] EXCEPT !.at = "start"] \in E
  BY <1>1, ZenonT(60) DEF NoEvict
<1>3. StartEliminate(s) => evict' = [evict EXCEPT ![s] = [evict[s] EXCEPT !.at = "start"]]
  BY <1>1, ZenonT(60) DEF StartEliminate
<1> HIDE DEF E
<1>4. StartEliminate(s) => evict' \in [Session -> E]
  BY <1>1, <1>2, <1>3, ZenonT(60)
<1>5. EndEliminate(s) => evict' \in [Session -> E]
  BY <1>1, <1>2, ZenonT(60) DEF EndEliminate
<1> QED
  BY <1>4, <1>5, ZenonT(60) DEF E

LEMMA TailTypes ==
    ASSUME TypeOK, NEW s \in Session, toCommit[s] # <<>>
    PROVE  /\ Tail(toCommit[s]) \in Seq(Action)
           /\ NextAction(s) => toCommit' \in [Session -> Seq(Action)]
<1>1. toCommit \in [Session -> Seq(Action)] /\ toCommit[s] \in Seq(Action)
  BY ZenonT(60) DEF TypeOK
<1>2. Tail(toCommit[s]) \in Seq(Action)
  BY <1>1, SMTT(60)
<1> QED
  BY <1>1, <1>2, ZenonT(60) DEF NextAction

(* A step of eviction that ends it, types and list.                          *)
LEMMA EndEliminateTypes ==
    ASSUME TypeOK, EvictInv, NEW s \in Session, evict[s].at # "no", EndEliminate(s)
    PROVE  toCommit' \in [Session -> Seq(Action)]
<1>1. CASE pc[s] = "callback"
  <2>1. toCommit[s] # <<>>
    BY <1>1, ZenonT(60) DEF EvictInv
  <2> QED
    BY <1>1, <2>1, TailTypes, ZenonT(60) DEF EndEliminate
<1>2. CASE pc[s] # "callback"
  BY <1>2, ZenonT(60) DEF EndEliminate, TypeOK
<1> QED
  BY <1>1, <1>2, ZenonT(60)

LEMMA HeldTypes ==
    ASSUME TypeOK, NEW s \in Session, NEW k, NEW m \in {"none", "shared", "exclusive"}
    PROVE  [held EXCEPT ![s][k] = m] \in [Session -> [Key -> {"none", "shared", "exclusive"}]]
<1>1. held[s] \in [Key -> {"none", "shared", "exclusive"}]
  BY ZenonT(60) DEF TypeOK
<1>2. [held[s] EXCEPT ![k] = m] \in [Key -> {"none", "shared", "exclusive"}]
  BY <1>1, ZenonT(60)
<1> QED
  BY <1>2, ZenonT(60) DEF TypeOK

LEMMA CallStepTypes ==
    ASSUME TypeOK, CallInv, NEW s \in Session, UNCHANGED part,
           Calls(s) \/ InCall(s)
    PROVE  TypeOK'
<1> USE DEF Goto, Pin
<1>1. CASE Calls(s)
  <2>1. PICK o \in CallRec : /\ o.key \in part.keys /\ Call(s, o) /\ Admitted(s, o)
                             /\ nextId' \in Nat \ {0}
    BY <1>1, CallsAre, ZenonT(60)
  <2> QED
    BY <2>1, ZenonT(60) DEF Call, TypeOK
<1>2. CASE ReadTable(s)
  <2>1. op[s] \in CallRec
    BY <1>2, ZenonT(60) DEF ReadTable, CallInv, InACall
  <2>2. Visible(s, op[s].key) \in Value
    BY <2>1, VisibleIsValue, ZenonT(60) DEF CallRec
  <2> QED
    BY <1>2, <2>2, ZenonT(60) DEF ReadTable, TypeOK
<1>3. CASE EnterNew(s)
  <2>1. op[s] \in CallRec /\ op[s].key \in Key
    BY <1>3, ZenonT(60) DEF EnterNew, Entering, CallInv, InACall, CallRec
  <2>2. [do |-> "A", key |-> op[s].key, inode |-> NotExist] \in Action
    BY <2>1, MarksAreNoValues, ZenonT(60) DEF Action
  <2>3. toCommit' \in [Session -> Seq(Action)]
    BY <1>3, <2>2, SMTT(60) DEF EnterNew, AddEntry, TypeOK
  <2>4. hash' \in [Key -> Value \cup {Unknown, Absent}] /\ count' \in Int
    BY <1>3, <2>1, SMTT(60) DEF EnterNew, TypeOK
  <2> QED
    BY <1>3, <2>3, <2>4, ZenonT(60) DEF EnterNew, TypeOK
<1>4. CASE EnterFound(s)
  <2>0. hash' = hash \/ hash' = [hash EXCEPT ![op[s].key] = seen[s]]
    BY <1>4, ZenonT(60) DEF EnterFound
  <2>1. hash' \in [Key -> Value \cup {Unknown, Absent}]
    <3>1. /\ hash \in [Key -> Value \cup {Unknown, Absent}]
          /\ seen[s] \in Value \cup {Unknown, Absent}
      BY ZenonT(60) DEF TypeOK
    <3> QED
      BY <2>0, <3>1, ZenonT(60)
  <2> QED
    BY <1>4, <2>1, ZenonT(60) DEF EnterFound, TypeOK
<1>5. CASE EnterNot(s)
  BY <1>5, EvictTypes, ZenonT(60) DEF EnterNot, TypeOK
<1>6. CASE Acquire(s)
  <2>1. held' \in [Session -> [Key -> {"none", "shared", "exclusive"}]]
    BY <1>6, HeldTypes, SMTT(60) DEF Acquire
  <2> QED
    BY <1>6, <2>1, ZenonT(60) DEF Acquire, TypeOK
<1>7. CASE SearchReturns(s)
  <2>1. held' \in [Session -> [Key -> {"none", "shared", "exclusive"}]]
    <3>1. [held EXCEPT ![s][op[s].key] = "none"]
            \in [Session -> [Key -> {"none", "shared", "exclusive"}]]
      BY HeldTypes, ZenonT(60)
    <3>2. held \in [Session -> [Key -> {"none", "shared", "exclusive"}]]
      BY ZenonT(60) DEF TypeOK
    <3> QED
      BY <1>7, <3>1, <3>2, ZenonT(60) DEF SearchReturns
  <2> QED
    BY <1>7, <2>1, ZenonT(60) DEF SearchReturns, TypeOK, EndCall
<1>8. CASE WriteRow(s)
  <2>1. op[s] \in CallRec
    BY <1>8, ZenonT(60) DEF WriteRow, CallInv, InACall
  <2>2. op[s].key \in Key /\ op[s].inode \in Value
    BY <2>1, ZenonT(60) DEF CallRec
  <2>3. [do |-> "U", key |-> op[s].key, inode |-> op[s].inode] \in Action
    BY <2>2, ZenonT(60) DEF Action
  <2>4. toCommit' \in [Session -> Seq(Action)]
    <3>1. Append(toCommit[s], [do |-> "U", key |-> op[s].key, inode |-> op[s].inode]) \in Seq(Action)
      BY <2>3, SMTT(60) DEF TypeOK
    <3> QED
      BY <1>8, <3>1, ZenonT(60) DEF WriteRow, UpdateEntry, TypeOK
  <2> DEFINE w == [k \in DOMAIN writes[s] \cup {op[s].key} |->
                     IF k = op[s].key THEN op[s].inode ELSE writes[s][k]]
  <2>5. w \in Rows
    <3>1. PICK K \in SUBSET Key : writes[s] \in [K -> Value]
      BY SMTT(60) DEF TypeOK, Rows
    <3>2. w \in [K \cup {op[s].key} -> Value]
      BY <3>1, <2>2, ZenonT(60)
    <3> QED
      BY <3>2, <2>2, ZenonT(60) DEF Rows
  <2>6. writes' = [writes EXCEPT ![s] = w]
    BY <1>8, ZenonT(60) DEF WriteRow
  <2> HIDE DEF w
  <2>7. writes' \in [Session -> Rows]
    BY <2>5, <2>6, ZenonT(60) DEF TypeOK
  <2> QED
    BY <1>8, <2>4, <2>7, ZenonT(60) DEF WriteRow, EndCall, TypeOK
<1>9. CASE RowRefused(s)
  BY <1>9, ZenonT(60) DEF RowRefused, TypeOK
<1> QED
  BY <1>1, <1>2, <1>3, <1>4, <1>5, <1>6, <1>7, <1>8, <1>9, ZenonT(60) DEF InCall

LEMMA OtherStepTypes ==
    ASSUME TypeOK, EvictInv, NEW s \in Session, UNCHANGED part,
           \/ Eliminate(s)
           \/ CommitTransaction(s) \/ CommitAdd(s) \/ CommitUpdate(s) \/ CommitEnd(s)
           \/ AbortTransaction(s) \/ PrepareTransaction(s) \/ SessionExit(s)
    PROVE  TypeOK'
<1> USE DEF Goto
<1> DEFINE E == [at : {"no", "start", "choose", "chosen", "removed"}, key : Key \cup {NoKey}]
<1>0. /\ evict \in [Session -> E] /\ evict[s] \in E
      /\ [evict[s] EXCEPT !.at = "choose"] \in E /\ [evict[s] EXCEPT !.at = "removed"] \in E
      /\ [at |-> "choose", key |-> NoKey] \in E
      /\ \A k \in Key : [at |-> "chosen", key |-> k] \in E
  <2>1. evict \in [Session -> E] /\ evict[s] \in E
    BY ZenonT(60) DEF TypeOK
  <2>2. [evict[s] EXCEPT !.at = "choose"] \in E /\ [evict[s] EXCEPT !.at = "removed"] \in E
    BY <2>1, ZenonT(60)
  <2> QED
    BY <2>1, <2>2, ZenonT(60)
<1>a. NoWrites \in Rows
  <2>1. NoWrites \in [{} -> Value]
    BY ZenonT(60) DEF NoWrites
  <2> QED
    BY <2>1, ZenonT(60) DEF Rows
<1>b. Unlocked \in [Key -> {"none", "shared", "exclusive"}]
  BY ZenonT(60) DEF Unlocked
<1>c. \A w \in Rows : Apply(w) \in [Key -> Value]
  BY SMTT(60) DEF Apply, Rows, TypeOK
<1>1. CASE CheckCount(s)
  <2>1. evict[s].at # "no"
    BY <1>1, ZenonT(60) DEF CheckCount
  <2>2. CASE EndEliminate(s)
    BY <1>1, <2>1, <2>2, EndEliminateTypes, EvictTypes, ZenonT(60) DEF CheckCount, TypeOK
  <2>3. CASE evict' = [evict EXCEPT ![s].at = "choose"] /\ UNCHANGED toCommit
    <3>1. evict' = [evict EXCEPT ![s] = [evict[s] EXCEPT !.at = "choose"]]
      BY <2>3, <1>0, ZenonT(60)
    <3>2. evict' \in [Session -> E]
      BY <3>1, <1>0, ZenonT(60)
    <3> QED
      BY <1>1, <2>3, <3>2, ZenonT(60) DEF CheckCount, TypeOK
  <2> QED
    BY <1>1, <2>2, <2>3, ZenonT(60) DEF CheckCount
<1>2. CASE NoVictim(s)
  BY <1>2, EndEliminateTypes, EvictTypes, ZenonT(60) DEF NoVictim, TypeOK
<1>3. ASSUME NEW k \in Key, ChooseVictim(s, k)
      PROVE  TypeOK'
  <2>1. evict' \in [Session -> E]
    BY <1>3, <1>0, ZenonT(60) DEF ChooseVictim
  <2> QED
    BY <1>3, <2>1, ZenonT(60) DEF ChooseVictim, TypeOK
<1>4. CASE RemoveVictim(s)
  <2>1. /\ \/ evict' = [evict EXCEPT ![s].at = "removed"]
           \/ evict' = [evict EXCEPT ![s] = [at |-> "choose", key |-> NoKey]]
        /\ hash' = hash \/ hash' = [hash EXCEPT ![evict[s].key] = Absent]
    BY <1>4, ZenonT(60) DEF RemoveVictim
  <2>2. evict' = [evict EXCEPT ![s].at = "removed"]
          => evict' = [evict EXCEPT ![s] = [evict[s] EXCEPT !.at = "removed"]]
    BY <1>0, ZenonT(60)
  <2>3. evict' \in [Session -> E]
    BY <1>0, <2>1, <2>2, SMTT(60)
  <2>4. hash' \in [Key -> Value \cup {Unknown, Absent}]
    BY <2>1, ZenonT(60) DEF TypeOK
  <2> QED
    BY <1>4, <2>3, <2>4, ZenonT(60) DEF RemoveVictim, TypeOK
<1>5. CASE CountVictim(s)
  <2>1. count' \in Int
    BY <1>5, SMTT(60) DEF CountVictim, TypeOK
  <2> QED
    BY <1>5, <2>1, EndEliminateTypes, EvictTypes, ZenonT(60) DEF CountVictim, TypeOK
<1>6. CASE CommitTransaction(s)
  BY <1>6, <1>a, <1>c, ZenonT(60) DEF CommitTransaction, TypeOK
<1>7. CASE CommitAdd(s)
  BY <1>7, EvictTypes, ZenonT(60) DEF CommitAdd, TypeOK
<1>8. CASE CommitUpdate(s)
  <2>1. toCommit' \in [Session -> Seq(Action)]
    BY <1>8, TailTypes, ZenonT(60) DEF CommitUpdate
  <2>2. Head(toCommit[s]) \in Action
    BY <1>8, SMTT(60) DEF CommitUpdate, TypeOK
  <2>3. Head(toCommit[s]).inode \in Value
    BY <2>2, ZenonT(60) DEF Action
  <2>4. hash' \in [Key -> Value \cup {Unknown, Absent}]
    BY <1>8, <2>3, ZenonT(60) DEF CommitUpdate, TypeOK
  <2>5. count' \in Int
    BY <1>8, SMTT(60) DEF CommitUpdate, TypeOK
  <2> QED
    BY <1>8, <2>1, <2>4, <2>5, ZenonT(60) DEF CommitUpdate, TypeOK
<1>9. CASE CommitEnd(s)
  BY <1>9, <1>b, ZenonT(60) DEF CommitEnd, TypeOK
<1>10. CASE AbortTransaction(s)
  BY <1>10, <1>a, <1>b, SMTT(60) DEF AbortTransaction, EndCall, TypeOK
<1>11. CASE PrepareTransaction(s)
  <2>1. [by |-> s, writes |-> writes[s]] \in [by : Session, writes : Rows]
    BY ZenonT(60) DEF TypeOK
  <2> QED
    BY <1>11, <1>a, <2>1, ZenonT(60) DEF PrepareTransaction, TypeOK
<1>12. CASE SessionExit(s)
  BY <1>12, <1>a, <1>b, SMTT(60) DEF SessionExit, TypeOK
<1> QED
  BY <1>1, <1>2, <1>3, <1>4, <1>5, <1>6, <1>7, <1>8, <1>9, <1>10, <1>11, <1>12, ZenonT(60) DEF Eliminate

LEMMA FinishTypes ==
    ASSUME TypeOK, UNCHANGED part, NEW p \in prepared, NEW commit \in BOOLEAN,
           (\E s \in Session : FinishPrepared(s, p, commit)) \/ FinishElsewhere(p, commit)
    PROVE  TypeOK'
<1>1. p.writes \in Rows
  BY ZenonT(60) DEF TypeOK
<1>2. Apply(p.writes) \in [Key -> Value]
  BY <1>1, SMTT(60) DEF Apply, Rows, TypeOK
<1>3. CASE FinishElsewhere(p, commit)
  BY <1>2, <1>3, ZenonT(60) DEF FinishElsewhere, TypeOK
<1>4. ASSUME NEW s \in Session, FinishPrepared(s, p, commit)
      PROVE  TypeOK'
  BY <1>2, <1>4, ZenonT(60) DEF FinishPrepared, TypeOK, Goto
<1> QED
  BY <1>3, <1>4, ZenonT(60)

-----------------------------------------------------------------------------
(* The steps of a session.                                                   *)
Step(s) ==
    \/ Local(s) \/ TwoPhase(s)
    \/ "rollback" \in part.ends /\ RollsBack(s)
    \/ "exit" \in part.ends /\ SessionExit(s)

Finishes(s) == \E p \in prepared, commit \in BOOLEAN : FinishPrepared(s, p, commit)

LEMMA StepTypes ==
    ASSUME TypeOK, CallInv, EvictInv, NEW s \in Session, UNCHANGED part, Step(s)
    PROVE  TypeOK'
BY CallStepTypes, OtherStepTypes, FinishTypes, ZenonT(60) DEF Step, Local, TwoPhase, RollsBack

LEMMA StepKeepsCallInv ==
    ASSUME TypeOK, CallInv, NEW s \in Session, UNCHANGED part, Step(s)
    PROVE  CallInv'
<1> USE DEF InACall, Locks
<1>1. CASE Calls(s)
  <2>1. PICK o \in CallRec :
            /\ o.key \in part.keys
            /\ op' = [op EXCEPT ![s] = o]
            /\ pc' = [pc EXCEPT ![s] = First(o)]
            /\ UNCHANGED seen
    BY <1>1, CallEffect, ZenonT(60)
  <2>2. /\ First(o) = "acquire" => o.mode # "DIR_LOCK_NONE"
        /\ First(o) = "enter" => o.call = "delete"
    BY ZenonT(60) DEF First
  <2> HIDE DEF First
  <2> QED
    BY <2>1, <2>2, ZenonT(60) DEF CallInv, TypeOK
<1>2. CASE ReadTable(s)
  <2>1. op[s] \in CallRec
    BY <1>2, ZenonT(60) DEF ReadTable, CallInv
  <2>2. Visible(s, op[s].key) \in Value
    BY <2>1, VisibleIsValue, ZenonT(60) DEF CallRec
  <2> QED
    BY <1>2, <2>2, ZenonT(60) DEF ReadTable, CallInv, Goto, TypeOK
<1>3. CASE EnterNew(s) \/ EnterFound(s) \/ EnterNot(s)
  <2>1. pc[s] = "enter" /\ UNCHANGED <<op, seen>>
    BY <1>3, ZenonT(60) DEF EnterNew, EnterFound, EnterNot, Entering
  <2>2. \/ UNCHANGED pc
        \/ pc' = [pc EXCEPT ![s] = IF Locks(s) THEN "acquire" ELSE "return"]
        \/ pc' = [pc EXCEPT ![s] = "return"]
        \/ pc' = [pc EXCEPT ![s] = "error"]
    BY <1>3, ZenonT(60) DEF EnterNew, EnterFound, EnterNot, Pin, Goto
  <2> QED
    BY <2>1, <2>2, ZenonT(60) DEF CallInv, TypeOK
<1>4. CASE Acquire(s) \/ RowRefused(s)
  BY <1>4, ZenonT(60) DEF Acquire, RowRefused, Goto, CallInv, TypeOK
<1>5. CASE SearchReturns(s) \/ WriteRow(s) \/ AbortTransaction(s)
  BY <1>5, SMTT(60) DEF SearchReturns, WriteRow, AbortTransaction, EndCall, Goto, CallInv, TypeOK
<1>6. CASE Eliminate(s) \/ CommitAdd(s) \/ CommitUpdate(s) \/ PrepareTransaction(s) \/ SessionExit(s)
  <2>1. UNCHANGED <<pc, op, seen>>
    BY <1>6, ZenonT(60) DEF Eliminate, CheckCount, NoVictim, ChooseVictim, RemoveVictim, CountVictim, CommitAdd,
         CommitUpdate, PrepareTransaction, SessionExit
  <2> QED
    BY <2>1, ZenonT(60) DEF CallInv
<1>7. CASE CommitTransaction(s) \/ CommitEnd(s) \/ Finishes(s)
  BY <1>7, SMTT(60) DEF CommitTransaction, CommitEnd, Finishes, FinishPrepared, Goto, CallInv, TypeOK
<1> QED
  BY <1>1, <1>2, <1>3, <1>4, <1>5, <1>6, <1>7, ZenonT(60)
     DEF Step, Local, InCall, TwoPhase, RollsBack, Finishes

LEMMA StepKeepsEvictInv ==
    ASSUME TypeOK, CallInv, EvictInv, NEW s \in Session, UNCHANGED part, Step(s)
    PROVE  EvictInv'
<1> DEFINE E == [at : {"no", "start", "choose", "chosen", "removed"}, key : Key \cup {NoKey}]
<1>0. NoEvict.at = "no" /\ evict \in [Session -> E] /\ toCommit \in [Session -> Seq(Action)]
      /\ pc \in [Session -> {"idle", "table", "enter", "acquire", "return", "error", "callback"}]
  BY ZenonT(60) DEF NoEvict, TypeOK
<1>1. CASE pc[s] \notin {"enter", "callback"} /\ UNCHANGED evict
           /\ \A t \in Session \ {s} : pc'[t] = pc[t] /\ toCommit'[t] = toCommit[t]
  <2>1. evict[s].at = "no"
    BY <1>1, ZenonT(60) DEF EvictInv
  <2> QED
    BY <1>1, <2>1, ZenonT(60) DEF EvictInv
<1>2. CASE Calls(s) \/ ReadTable(s) \/ Acquire(s) \/ SearchReturns(s) \/ WriteRow(s) \/ RowRefused(s)
           \/ AbortTransaction(s)
  <2>1. pc[s] \notin {"enter", "callback"} /\ UNCHANGED evict
    BY <1>2, CallEffect, ZenonT(60) DEF ReadTable, Acquire, SearchReturns, WriteRow, RowRefused,
         AbortTransaction, InTxn
  <2>2. \A t \in Session \ {s} : pc'[t] = pc[t] /\ toCommit'[t] = toCommit[t]
    <3>1. CASE Calls(s)
      BY <1>0, <3>1, CallEffect, SMTT(60)
    <3>2. CASE ~Calls(s)
      BY <1>0, <1>2, <3>2, ZenonT(60) DEF ReadTable, Acquire, SearchReturns, WriteRow, RowRefused,
           AbortTransaction, Goto, UpdateEntry
    <3> QED
      BY <3>1, <3>2, ZenonT(60)
  <2> QED
    BY <1>1, <2>1, <2>2, ZenonT(60)
<1>3. CASE CommitTransaction(s) \/ PrepareTransaction(s) \/ SessionExit(s) \/ Finishes(s)
  <2>1. pc[s] \notin {"enter", "callback"} /\ UNCHANGED evict
    BY <1>3, ZenonT(60) DEF CommitTransaction, PrepareTransaction, SessionExit, Finishes, FinishPrepared, InTxn
  <2>2. \A t \in Session \ {s} : pc'[t] = pc[t] /\ toCommit'[t] = toCommit[t]
    BY <1>0, <1>3, ZenonT(60) DEF CommitTransaction, PrepareTransaction, SessionExit, Finishes, FinishPrepared, Goto
  <2> QED
    BY <1>1, <2>1, <2>2, ZenonT(60)
<1>4. CASE EnterNew(s) \/ EnterFound(s)
  <2>1. evict[s] = NoEvict /\ UNCHANGED evict
    BY <1>4, ZenonT(60) DEF EnterNew, EnterFound, Entering
  <2>2. \A t \in Session \ {s} : pc'[t] = pc[t] /\ toCommit'[t] = toCommit[t]
    BY <1>0, <1>4, ZenonT(60) DEF EnterNew, EnterFound, Pin, Goto, AddEntry
  <2> QED
    BY <2>1, <2>2, <1>0, ZenonT(60) DEF EvictInv
<1>5. CASE EnterNot(s)
  <2>1. CASE Locks(s)
    <3>1. /\ pc[s] = "enter" /\ evict' = [evict EXCEPT ![s].at = "start"] /\ UNCHANGED <<pc, toCommit>>
      BY <1>5, <2>1, ZenonT(60) DEF EnterNot, Entering, StartEliminate
    <3>2. evict'[s].at = "start" /\ \A t \in Session \ {s} : evict'[t] = evict[t]
      BY <1>0, <3>1, ZenonT(60)
    <3> QED
      BY <3>1, <3>2, SMTT(60) DEF EvictInv
  <2>2. CASE ~Locks(s)
    BY <1>5, <2>2, <1>0, ZenonT(60) DEF EnterNot, Entering, Goto, EvictInv
  <2> QED
    BY <2>1, <2>2, ZenonT(60)
<1>6. CASE CheckCount(s) \/ NoVictim(s) \/ CountVictim(s)
  <2>1. CASE EndEliminate(s)
    BY <1>6, <2>1, <1>0, ZenonT(60)
       DEF CheckCount, NoVictim, CountVictim, EndEliminate, NextAction, EvictInv
  <2>2. CASE evict' = [evict EXCEPT ![s].at = "choose"] /\ UNCHANGED toCommit
    BY <1>6, <2>2, <1>0, ZenonT(60) DEF CheckCount, NoVictim, CountVictim, EvictInv
  <2> QED
    BY <1>6, <2>1, <2>2, ZenonT(60) DEF CheckCount, NoVictim, CountVictim
<1>7. ASSUME NEW k \in Key, ChooseVictim(s, k)
      PROVE  EvictInv'
  BY <1>7, <1>0, ZenonT(60) DEF ChooseVictim, EvictInv
<1>8. CASE RemoveVictim(s)
  <2>1. UNCHANGED <<pc, toCommit>> /\ evict[s].at = "chosen"
    BY <1>8, ZenonT(60) DEF RemoveVictim
  <2>2. CASE evict' = [evict EXCEPT ![s].at = "removed"]
    BY <2>1, <2>2, <1>0, ZenonT(60) DEF EvictInv
  <2>3. CASE evict' = [evict EXCEPT ![s] = [at |-> "choose", key |-> NoKey]]
    BY <2>1, <2>3, <1>0, ZenonT(60) DEF EvictInv
  <2> QED
    BY <1>8, <2>2, <2>3, ZenonT(60) DEF RemoveVictim
<1>9. CASE CommitAdd(s)
  BY <1>9, <1>0, ZenonT(60) DEF CommitAdd, StartEliminate, EvictInv
<1>10. CASE CommitUpdate(s) \/ CommitEnd(s)
  <2>1. evict[s].at = "no" /\ UNCHANGED evict
    BY <1>10, ZenonT(60) DEF CommitUpdate, CommitEnd, EvictInv
  <2>2. \A t \in Session \ {s} : pc'[t] = pc[t] /\ toCommit'[t] = toCommit[t]
    BY <1>0, <1>10, ZenonT(60) DEF CommitUpdate, CommitEnd, Goto, NextAction
  <2> QED
    BY <2>1, <2>2, ZenonT(60) DEF EvictInv
<1> QED
  BY <1>2, <1>3, <1>4, <1>5, <1>6, <1>7, <1>8, <1>9, <1>10, ZenonT(60)
     DEF Step, Local, InCall, Eliminate, TwoPhase, RollsBack, Finishes

(* The elements of a list that gets longer or shorter.                       *)
IsExtended(q, a, r) ==
    /\ \A i \in 1 .. Len(r) : r[i] = a \/ \E j \in 1 .. Len(q) : r[i] = q[j]
    /\ \A j \in 1 .. Len(q) : \E i \in 1 .. Len(r) : r[i] = q[j]
    /\ \E i \in 1 .. Len(r) : r[i] = a
LEMMA AppendElements ==
    ASSUME NEW S, NEW q \in Seq(S), NEW a \in S
    PROVE  IsExtended(q, a, Append(q, a))
<1>1. Len(Append(q, a)) = Len(q) + 1 /\ Len(q) \in Nat
  BY SMTT(60)
<1>2. \A i \in 1 .. Len(q) : Append(q, a)[i] = q[i]
  BY SMTT(60)
<1>3. Append(q, a)[Len(q) + 1] = a
  BY SMTT(60)
<1> QED
  BY <1>1, <1>2, <1>3, SMTT(60) DEF IsExtended

LEMMA TailElements ==
    ASSUME NEW S, NEW q \in Seq(S), q # <<>>
    PROVE  /\ \A i \in 1 .. Len(Tail(q)) : \E j \in 1 .. Len(q) : Tail(q)[i] = q[j]
           /\ \A j \in 1 .. Len(q) :
                q[j] = Head(q) \/ \E i \in 1 .. Len(Tail(q)) : Tail(q)[i] = q[j]
           /\ 1 \in 1 .. Len(q) /\ Head(q) = q[1] /\ Head(q) \in S
<1>1. Len(Tail(q)) = Len(q) - 1 /\ Len(q) \in Nat \ {0} /\ Head(q) = q[1]
  BY SMTT(60)
<1>2. \A i \in 1 .. Len(Tail(q)) : Tail(q)[i] = q[i + 1]
  BY SMTT(60)
<1>3. \A j \in 1 .. Len(q) : j # 1 => j - 1 \in 1 .. Len(Tail(q)) /\ Tail(q)[j - 1] = q[j]
  BY <1>1, <1>2, SMTT(60)
<1>4. \A i \in 1 .. Len(Tail(q)) : i + 1 \in 1 .. Len(q)
  BY <1>1, SMTT(60)
<1> QED
  BY <1>1, <1>2, <1>3, <1>4, SMTT(60)

LEMMA StepKeepsKeysInv ==
    ASSUME TypeOK, CallInv, EvictInv, KeysInv, NEW s \in Session, UNCHANGED part, Step(s)
    PROVE  KeysInv'
<1>0. /\ hash \in [Key -> Value \cup {Unknown, Absent}]
      /\ toCommit \in [Session -> Seq(Action)] /\ toCommit[s] \in Seq(Action)
  BY ZenonT(60) DEF TypeOK
<1> USE DEF Cached
<1>1. CASE UNCHANGED hash /\ UNCHANGED toCommit
  BY <1>1, ZenonT(60) DEF KeysInv
<1>2. CASE Calls(s)
  BY <1>1, <1>2, CallEffect, ZenonT(60)
<1>3. CASE ReadTable(s) \/ EnterNot(s) \/ Acquire(s) \/ SearchReturns(s) \/ RowRefused(s)
  BY <1>1, <1>3, ZenonT(60) DEF ReadTable, EnterNot, Acquire, SearchReturns, RowRefused
<1>4. CASE CommitTransaction(s) \/ CommitAdd(s) \/ CommitEnd(s) \/ PrepareTransaction(s) \/ Finishes(s)
  BY <1>1, <1>4, ZenonT(60)
     DEF CommitTransaction, CommitAdd, CommitEnd, PrepareTransaction, Finishes, FinishPrepared
<1>5. ASSUME EndEliminate(s), evict[s].at # "no"
      PROVE  \A t \in Session : \A i \in 1 .. Len(toCommit'[t]) : toCommit'[t][i].key \in part.keys
  <2>1. CASE pc[s] = "callback"
    <3>1. toCommit[s] # <<>>
      BY <2>1, <1>5, ZenonT(60) DEF EvictInv
    <3>2. toCommit' = [toCommit EXCEPT ![s] = Tail(toCommit[s])]
      BY <1>5, <2>1, ZenonT(60) DEF EndEliminate, NextAction
    <3>3. \A i \in 1 .. Len(Tail(toCommit[s])) : \E j \in 1 .. Len(toCommit[s]) :
            Tail(toCommit[s])[i] = toCommit[s][j]
      BY <1>0, <3>1, TailElements, ZenonT(60)
    <3> QED
      BY <1>0, <3>2, <3>3, ZenonT(60) DEF KeysInv
  <2>2. CASE pc[s] # "callback"
    BY <1>5, <2>2, ZenonT(60) DEF EndEliminate, KeysInv
  <2> QED
    BY <2>1, <2>2, ZenonT(60)
<1>6. CASE Eliminate(s)
  <2>1. \A k \in Key : hash'[k] # Absent => hash[k] # Absent
    BY <1>0, <1>6, ZenonT(60) DEF Eliminate, CheckCount, NoVictim, ChooseVictim, RemoveVictim, CountVictim
  <2>2. UNCHANGED toCommit \/ (EndEliminate(s) /\ evict[s].at # "no")
    BY <1>6, ZenonT(60) DEF Eliminate, CheckCount, NoVictim, ChooseVictim, RemoveVictim, CountVictim
  <2> QED
    BY <1>5, <2>1, <2>2, ZenonT(60) DEF KeysInv
<1>7. CASE EnterNew(s) \/ WriteRow(s) \/ EnterFound(s)
  <2>1. op[s].key \in part.keys
    BY <1>7, ZenonT(60) DEF EnterNew, EnterFound, Entering, WriteRow, CallInv, InACall
  <2>2. \/ UNCHANGED toCommit
        \/ \E a \in Action :
            a.key = op[s].key /\ toCommit' = [toCommit EXCEPT ![s] = Append(toCommit[s], a)]
    <3>1. op[s] \in CallRec
      BY <1>7, ZenonT(60) DEF EnterNew, EnterFound, Entering, WriteRow, CallInv, InACall
    <3>2. /\ [do |-> "A", key |-> op[s].key, inode |-> NotExist] \in Action
          /\ [do |-> "U", key |-> op[s].key, inode |-> op[s].inode] \in Action
      BY <3>1, MarksAreNoValues, ZenonT(60) DEF CallRec, Action
    <3> QED
      BY <1>7, <3>2, ZenonT(60) DEF EnterNew, EnterFound, WriteRow, AddEntry, UpdateEntry
  <2>3. \A t \in Session : \A i \in 1 .. Len(toCommit'[t]) : toCommit'[t][i].key \in part.keys
    <3>1. CASE UNCHANGED toCommit
      BY <3>1, ZenonT(60) DEF KeysInv
    <3>2. ASSUME NEW a \in Action, a.key = op[s].key,
                 toCommit' = [toCommit EXCEPT ![s] = Append(toCommit[s], a)]
          PROVE  \A t \in Session : \A i \in 1 .. Len(toCommit'[t]) : toCommit'[t][i].key \in part.keys
      <4>1. /\ IsExtended(toCommit[s], a, toCommit'[s])
            /\ \A t \in Session : t # s => toCommit'[t] = toCommit[t]
        BY <1>0, <3>2, AppendElements, ZenonT(60)
      <4>2. \A i \in 1 .. Len(toCommit'[s]) : toCommit'[s][i].key \in part.keys
        <5> TAKE i \in 1 .. Len(toCommit'[s])
        <5>1. toCommit'[s][i] = a \/ \E j \in 1 .. Len(toCommit[s]) : toCommit'[s][i] = toCommit[s][j]
          BY <4>1, ZenonT(60) DEF IsExtended
        <5> QED
          BY <2>1, <3>2, <5>1, ZenonT(60) DEF KeysInv
      <4> QED
        BY <4>1, <4>2, ZenonT(60) DEF KeysInv
    <3> QED
      BY <2>2, <3>1, <3>2, ZenonT(60)
  <2>4. \A k \in Key : k # op[s].key => hash'[k] = hash[k]
    BY <1>0, <1>7, ZenonT(60) DEF EnterNew, EnterFound, WriteRow
  <2> QED
    BY <2>1, <2>3, <2>4, ZenonT(60) DEF KeysInv
<1>8. CASE CommitUpdate(s)
  <2>1. toCommit[s] # <<>> /\ Head(toCommit[s]) = toCommit[s][1] /\ 1 \in 1 .. Len(toCommit[s])
    BY <1>0, <1>8, SMTT(60) DEF CommitUpdate
  <2>2. Head(toCommit[s]).key \in part.keys
    BY <2>1, ZenonT(60) DEF KeysInv
  <2>3. \A k \in Key : k # Head(toCommit[s]).key => hash'[k] = hash[k]
    BY <1>0, <1>8, ZenonT(60) DEF CommitUpdate
  <2>4. toCommit' = [toCommit EXCEPT ![s] = Tail(@)]
    BY <1>8, ZenonT(60) DEF CommitUpdate, NextAction
  <2> QED
    BY <1>0, <2>1, <2>2, <2>3, <2>4, SMTT(60) DEF KeysInv
<1>9. CASE AbortTransaction(s) \/ SessionExit(s)
  <2>1. toCommit' = [toCommit EXCEPT ![s] = <<>>] /\ UNCHANGED hash
    BY <1>9, ZenonT(60) DEF AbortTransaction, SessionExit
  <2> QED
    BY <1>0, <2>1, SMTT(60) DEF KeysInv
<1> QED
  BY <1>2, <1>3, <1>4, <1>6, <1>7, <1>8, <1>9, ZenonT(60)
     DEF Step, Local, InCall, TwoPhase, RollsBack, Finishes

-----------------------------------------------------------------------------
(* What a step may do to an entry: take a new one in, give it a value, or    *)
(* remove one that nobody pins.                                              *)
LEMMA CommitUpdateEffect ==
    ASSUME TypeOK, NEW s \in Session, CommitUpdate(s)
    PROVE  \E k \in Key, v \in Value :
              /\ toCommit[s] # <<>> /\ Head(toCommit[s]) = [do |-> "U", key |-> k, inode |-> v]
              /\ pc[s] = "callback"
              /\ toCommit' = [toCommit EXCEPT ![s] = Tail(@)]
              /\ \/ hash' = [hash EXCEPT ![k] = v]
                 \/ hash[k] = Absent /\ hash' = hash
              /\ UNCHANGED <<table, held, pc, op, seen, evict, writes, phase, prepared>>
<1>1. toCommit[s] \in Seq(Action) /\ toCommit[s] # <<>>
  BY ZenonT(60) DEF CommitUpdate, TypeOK
<1>2. PICK a \in Action : a = Head(toCommit[s])
  BY <1>1, SMTT(60)
<1>3. a.key \in Key /\ a.inode \in Value /\ a = [do |-> a.do, key |-> a.key, inode |-> a.inode]
  BY ZenonT(60) DEF Action
<1>4. a.do = "U"
  BY <1>2, ZenonT(60) DEF CommitUpdate
<1>5. \/ hash' = [hash EXCEPT ![a.key] = a.inode]
      \/ hash[a.key] = Absent /\ hash' = [hash EXCEPT ![a.key] = Absent]
  BY <1>2, ZenonT(60) DEF CommitUpdate, Cached
<1>6. hash[a.key] = Absent => [hash EXCEPT ![a.key] = Absent] = hash
  BY <1>3, SMTT(60) DEF TypeOK
<1> QED
  BY <1>1, <1>2, <1>3, <1>4, <1>5, <1>6, ZenonT(60) DEF CommitUpdate, NextAction

(* An entry that is pinned is there.                                         *)
LEMMA StepKeepsLocked ==
    ASSUME TypeOK, CallInv, LockedEntryStays, NEW s \in Session, UNCHANGED part, Step(s)
    PROVE  LockedEntryStays'
<1>0. /\ hash \in [Key -> Value \cup {Unknown, Absent}]
      /\ held \in [Session -> [Key -> {"none", "shared", "exclusive"}]]
      /\ pc \in [Session -> {"idle", "table", "enter", "acquire", "return", "error", "callback"}]
      /\ op \in [Session -> CallRec \cup {NoOp}]
      /\ seen[s] # Absent
  BY MarksAreNoValues, ZenonT(60) DEF TypeOK
<1>1. ASSUME \A t \in Session, k \in Key : Pins(t, k)' => Pins(t, k) \/ hash[k] # Absent,
             \A k \in Key : hash[k] # Absent => hash'[k] # Absent
      PROVE  LockedEntryStays'
  BY <1>1, ZenonT(60) DEF LockedEntryStays, Cached
<1>2. ASSUME UNCHANGED <<hash, op>>, 
             \A t \in Session, k \in Key : held'[t][k] # "none" => Pins(t, k),
             \A t \in Session : pc'[t] = "acquire" => pc[t] = "acquire"
      PROVE  LockedEntryStays'
  BY <1>2, SMTT(60) DEF LockedEntryStays, Cached, Pins
<1>3. CASE Calls(s)
  <2>1. PICK o \in CallRec :
            /\ op' = [op EXCEPT ![s] = o]
            /\ pc' = [pc EXCEPT ![s] = First(o)]
            /\ UNCHANGED <<hash, held>>
    BY <1>3, CallEffect, ZenonT(60)
  <2>2. First(o) = "acquire" => hash[o.key] # Absent
    BY ZenonT(60) DEF First, Usable, Cached
  <2>3. ASSUME NEW t \in Session, NEW k \in Key, Pins(t, k)'
        PROVE  Pins(t, k) \/ hash[k] # Absent
    BY <1>0, <2>1, <2>2, <2>3, ZenonT(60) DEF Pins
  <2> QED
    BY <1>1, <2>1, <2>3, ZenonT(60)
<1>4. CASE ReadTable(s) \/ EnterNot(s) \/ RowRefused(s) \/ CommitTransaction(s) \/ CommitAdd(s)
           \/ PrepareTransaction(s) \/ Finishes(s)
  <2>1. UNCHANGED <<hash, held, op>>
    BY <1>4, ZenonT(60) DEF ReadTable, EnterNot, RowRefused, CommitTransaction, CommitAdd, PrepareTransaction,
         Finishes, FinishPrepared
  <2>2. \A t \in Session : pc'[t] = "acquire" => pc[t] = "acquire"
    BY <1>0, <1>4, ZenonT(60) DEF ReadTable, EnterNot, RowRefused, CommitTransaction, CommitAdd,
         PrepareTransaction, Finishes, FinishPrepared, Goto
  <2> QED
    BY <1>2, <2>1, <2>2, ZenonT(60) DEF Pins
<1>5. CASE EnterNew(s) \/ EnterFound(s)
  <2>1. op[s] \in CallRec /\ op[s].key \in Key /\ UNCHANGED <<held, op>>
    BY <1>5, ZenonT(60) DEF EnterNew, EnterFound, Entering, CallInv, InACall, CallRec
  <2>2. /\ \A k \in Key : hash[k] # Absent => hash'[k] # Absent
        /\ hash'[op[s].key] # Absent
    BY <1>0, <1>5, <2>1, MarksAreNoValues, SMTT(60) DEF EnterNew, EnterFound, Cached
  <2>3. \A t \in Session : t # s => pc'[t] = pc[t]
    BY <1>0, <1>5, ZenonT(60) DEF EnterNew, EnterFound, Pin, Goto
  <2>4. ASSUME NEW t \in Session, NEW k \in Key, Pins(t, k)'
        PROVE  hash'[k] # Absent
    <3>1. CASE Pins(t, k)
      BY <3>1, <2>2, ZenonT(60) DEF LockedEntryStays, Cached
    <3>2. CASE ~Pins(t, k)
      <4>1. t = s /\ k = op[s].key
        BY <3>2, <2>1, <2>3, <2>4, ZenonT(60) DEF Pins, EnterNew, EnterFound, Entering
      <4> QED
        BY <4>1, <2>2, ZenonT(60)
    <3> QED
      BY <3>1, <3>2, ZenonT(60)
  <2> QED
    BY <2>4, ZenonT(60) DEF LockedEntryStays, Cached
<1>6. CASE Acquire(s)
  <2>1. UNCHANGED <<hash, op>> /\ pc' = [pc EXCEPT ![s] = "return"] /\ pc[s] = "acquire"
    BY <1>6, ZenonT(60) DEF Acquire, Goto
  <2>2. \E m \in {"shared", "exclusive"} : held' = [held EXCEPT ![s][op[s].key] = m]
    BY <1>6, ZenonT(60) DEF Acquire
  <2> QED
    BY <1>0, <1>2, <2>1, <2>2, SMTT(60) DEF Pins
<1>7. CASE SearchReturns(s)
  <2>1. UNCHANGED hash /\ pc' = [pc EXCEPT ![s] = "idle"] /\ op' = [op EXCEPT ![s] = NoOp]
    BY <1>7, ZenonT(60) DEF SearchReturns, Goto, EndCall
  <2>2. held' = held \/ held' = [held EXCEPT ![s][op[s].key] = "none"]
    BY <1>7, ZenonT(60) DEF SearchReturns
  <2> QED
    BY <1>0, <1>1, <2>1, <2>2, SMTT(60) DEF Pins
<1>8. CASE WriteRow(s)
  <2>1. UNCHANGED <<hash, held>> /\ pc' = [pc EXCEPT ![s] = "idle"] /\ op' = [op EXCEPT ![s] = NoOp]
    BY <1>8, ZenonT(60) DEF WriteRow, Goto, EndCall
  <2> QED
    BY <1>0, <1>1, <2>1, ZenonT(60) DEF Pins
<1>9. CASE CheckCount(s) \/ NoVictim(s) \/ (\E k \in Key : ChooseVictim(s, k)) \/ CountVictim(s)
  <2>1. UNCHANGED <<hash, held, op, pc>>
    BY <1>9, ZenonT(60) DEF CheckCount, NoVictim, ChooseVictim, CountVictim
  <2> QED
    BY <1>2, <2>1, ZenonT(60) DEF Pins
<1>10. CASE RemoveVictim(s)
  <2>1. UNCHANGED <<held, op, pc>>
    BY <1>10, ZenonT(60) DEF RemoveVictim
  <2>2. \A k \in Key : hash'[k] = hash[k] \/ \A t \in Session : ~Pins(t, k)
    BY <1>0, <1>10, ZenonT(60) DEF RemoveVictim, Destroyable
  <2> QED
    BY <2>1, <2>2, ZenonT(60) DEF LockedEntryStays, Cached, Pins
<1>11. CASE CommitUpdate(s)
  <2>1. /\ \A k \in Key : hash[k] # Absent => hash'[k] # Absent
        /\ UNCHANGED <<held, pc, op>>
    <3>1. PICK k \in Key, v \in Value :
            /\ hash' = [hash EXCEPT ![k] = v] \/ hash' = hash
            /\ UNCHANGED <<held, pc, op>>
      BY <1>0, <1>11, CommitUpdateEffect, ZenonT(60)
    <3>2. v # Absent
      BY MarksAreNoValues, ZenonT(60)
    <3> QED
      BY <1>0, <3>1, <3>2, ZenonT(60)
  <2> QED
    BY <1>1, <2>1, ZenonT(60) DEF Pins
<1>12. CASE CommitEnd(s) \/ SessionExit(s)
  <2>1. UNCHANGED <<hash, op>> /\ held' = [held EXCEPT ![s] = Unlocked]
    BY <1>12, ZenonT(60) DEF CommitEnd, SessionExit
  <2>2. \A t \in Session : pc'[t] = "acquire" => pc[t] = "acquire"
    BY <1>0, <1>12, ZenonT(60) DEF CommitEnd, SessionExit, Goto
  <2> QED
    BY <1>0, <1>2, <2>1, <2>2, ZenonT(60) DEF Pins, Unlocked
<1>13. CASE AbortTransaction(s)
  <2>1. /\ UNCHANGED hash /\ held' = [held EXCEPT ![s] = Unlocked]
        /\ pc' = [pc EXCEPT ![s] = "idle"] /\ op' = [op EXCEPT ![s] = NoOp]
    BY <1>13, ZenonT(60) DEF AbortTransaction, Goto, EndCall
  <2> QED
    BY <1>0, <1>1, <2>1, ZenonT(60) DEF Pins, Unlocked
<1> QED
  BY <1>3, <1>4, <1>5, <1>6, <1>7, <1>8, <1>9, <1>10, <1>11, <1>12, <1>13, ZenonT(60)
     DEF Step, Local, InCall, Eliminate, TwoPhase, RollsBack, Finishes

-----------------------------------------------------------------------------
(* The counter.  The sessions that have removed an entry and not counted it. *)
Removed == {s \in Session : evict[s].at = "removed"}

(* A step that leaves the entries and these sessions alone leaves the        *)
(* counter exact, if it leaves it alone ...                                  *)
LEMMA SameSetsSameCount ==
    ASSUME CountIsExact, UNCHANGED count,
           \A k \in Key : hash'[k] = Absent <=> hash[k] = Absent,
           \A t \in Session : evict'[t].at = "removed" <=> evict[t].at = "removed"
    PROVE  CountIsExact'
<1>1. Entries' = Entries /\ Removed' = Removed
  BY ZenonT(60) DEF Entries, Cached, Removed
<1> QED
  BY <1>1, ZenonT(60) DEF CountIsExact, Removed

(* ... and one that takes an entry in counts it.                             *)
LEMMA NewEntryIsCounted ==
    ASSUME TypeOK, CountIsExact, NEW k \in Key, NEW v, v # Absent, hash[k] = Absent,
           hash' = [hash EXCEPT ![k] = v], count' = count + 1, UNCHANGED evict
    PROVE  CountIsExact'
<1>1. Entries' = Entries \cup {k} /\ k \notin Entries
  BY ZenonT(60) DEF Entries, Cached, TypeOK
<1>2. IsFiniteSet(Entries) /\ IsFiniteSet(Removed)
  BY FiniteAssumption, FS_Subset, ZenonT(60) DEF Entries, Removed
<1>3. Cardinality(Entries') = Cardinality(Entries) + 1
  BY <1>1, <1>2, FS_AddElement, ZenonT(60)
<1>4. Removed' = Removed /\ Cardinality(Entries) \in Nat /\ Cardinality(Removed) \in Nat
  BY <1>2, FS_CardinalityType, ZenonT(60) DEF Removed
<1>5. count = Cardinality(Entries) + Cardinality(Removed)
  BY ZenonT(60) DEF CountIsExact, Removed
<1>6. count' = Cardinality(Entries') + Cardinality(Removed')
  BY <1>3, <1>4, <1>5, SMTT(60)
<1> QED
  BY <1>6, ZenonT(60) DEF CountIsExact, Removed

LEMMA StepKeepsCount ==
    ASSUME TypeOK, CallInv, EvictInv, CountIsExact, NEW s \in Session, UNCHANGED part, Step(s)
    PROVE  CountIsExact'
<1> DEFINE E == [at : {"no", "start", "choose", "chosen", "removed"}, key : Key \cup {NoKey}]
<1>0. /\ hash \in [Key -> Value \cup {Unknown, Absent}]
      /\ evict \in [Session -> E] /\ NoEvict.at = "no"
      /\ seen[s] # Absent
  BY MarksAreNoValues, ZenonT(60) DEF TypeOK, NoEvict
<1>1. CASE UNCHANGED <<hash, evict, count>>
  BY <1>1, SameSetsSameCount, ZenonT(60)
<1>2. CASE Calls(s)
  BY <1>1, <1>2, CallEffect, ZenonT(60)
<1>3. CASE ReadTable(s) \/ Acquire(s) \/ SearchReturns(s) \/ WriteRow(s) \/ RowRefused(s)
           \/ AbortTransaction(s)
  BY <1>1, <1>3, ZenonT(60) DEF ReadTable, Acquire, SearchReturns, WriteRow, RowRefused, AbortTransaction
<1>4. CASE CommitTransaction(s) \/ CommitEnd(s) \/ PrepareTransaction(s) \/ SessionExit(s) \/ Finishes(s)
  BY <1>1, <1>4, ZenonT(60)
     DEF CommitTransaction, CommitEnd, PrepareTransaction, SessionExit, Finishes, FinishPrepared
<1>5. CASE EnterNew(s)
  <2>1. op[s] \in CallRec /\ op[s].key \in Key
    BY <1>5, ZenonT(60) DEF EnterNew, Entering, CallInv, InACall, CallRec
  <2>2. \E v : v # Absent /\ hash' = [hash EXCEPT ![op[s].key] = v]
    BY <1>0, <1>5, MarksAreNoValues, ZenonT(60) DEF EnterNew
  <2> QED
    BY <1>5, <2>1, <2>2, NewEntryIsCounted, ZenonT(60) DEF EnterNew, Cached
<1>6. CASE EnterFound(s)
  <2>1. \A k \in Key : hash'[k] = Absent <=> hash[k] = Absent
    BY <1>0, <1>6, ZenonT(60) DEF EnterFound, Cached
  <2> QED
    BY <1>6, <2>1, SameSetsSameCount, ZenonT(60) DEF EnterFound
<1>7. CASE EnterNot(s) \/ CommitAdd(s)
  <2>1. evict[s].at = "no" /\ UNCHANGED <<hash, count>>
    BY <1>0, <1>7, ZenonT(60) DEF EnterNot, Entering, CommitAdd
  <2>2. evict' = evict \/ evict' = [evict EXCEPT ![s].at = "start"]
    BY <1>7, ZenonT(60) DEF EnterNot, CommitAdd, StartEliminate
  <2>3. \A t \in Session : evict'[t].at = "removed" <=> evict[t].at = "removed"
    BY <1>0, <2>1, <2>2, ZenonT(60)
  <2> QED
    BY <2>1, <2>3, SameSetsSameCount, ZenonT(60)
<1>8. CASE CheckCount(s) \/ NoVictim(s) \/ \E k \in Key : ChooseVictim(s, k)
  <2>1. evict[s].at \in {"start", "choose"} /\ UNCHANGED <<hash, count>>
    BY <1>8, ZenonT(60) DEF CheckCount, NoVictim, ChooseVictim
  <2>2. \/ evict' = [evict EXCEPT ![s].at = "choose"]
        \/ evict' = [evict EXCEPT ![s] = NoEvict]
        \/ \E k \in Key : evict' = [evict EXCEPT ![s] = [at |-> "chosen", key |-> k]]
    BY <1>8, ZenonT(60) DEF CheckCount, NoVictim, ChooseVictim, EndEliminate
  <2>3. \A t \in Session : evict'[t].at = "removed" <=> evict[t].at = "removed"
    BY <1>0, <2>1, <2>2, SMTT(60)
  <2> QED
    BY <2>1, <2>3, SameSetsSameCount, ZenonT(60)
<1>9. CASE RemoveVictim(s)
  <2>1. CASE Cached(evict[s].key) /\ Destroyable(evict[s].key)
    <3>1. /\ evict[s].at = "chosen" /\ evict[s].key \in Key /\ hash[evict[s].key] # Absent
          /\ hash' = [hash EXCEPT ![evict[s].key] = Absent]
          /\ evict' = [evict EXCEPT ![s].at = "removed"]
          /\ UNCHANGED count
      BY <1>9, <2>1, ZenonT(60) DEF RemoveVictim, EvictInv, Cached
    <3>2. Entries' = Entries \ {evict[s].key} /\ evict[s].key \in Entries
      BY <1>0, <3>1, ZenonT(60) DEF Entries, Cached
    <3>3. Removed' = Removed \cup {s} /\ s \notin Removed
      BY <1>0, <3>1, ZenonT(60) DEF Removed
    <3>4. IsFiniteSet(Entries) /\ IsFiniteSet(Removed)
      BY FiniteAssumption, FS_Subset, ZenonT(60) DEF Entries, Removed
    <3>5. Cardinality(Entries') = Cardinality(Entries) - 1
      BY <3>2, <3>4, FS_RemoveElement, ZenonT(60)
    <3>6. Cardinality(Removed') = Cardinality(Removed) + 1
      BY <3>3, <3>4, FS_AddElement, ZenonT(60)
    <3>7. Cardinality(Entries) \in Nat /\ Cardinality(Removed) \in Nat
      BY <3>4, FS_CardinalityType, ZenonT(60)
    <3>8. count = Cardinality(Entries) + Cardinality(Removed)
      BY ZenonT(60) DEF CountIsExact, Removed
    <3>9. count' = Cardinality(Entries') + Cardinality(Removed')
      BY <3>1, <3>5, <3>6, <3>7, <3>8, SMTT(60)
    <3> QED
      BY <3>9, ZenonT(60) DEF CountIsExact, Removed
  <2>2. CASE ~(Cached(evict[s].key) /\ Destroyable(evict[s].key))
    <3>1. /\ evict[s].at = "chosen" /\ UNCHANGED <<hash, count>>
          /\ evict' = [evict EXCEPT ![s] = [at |-> "choose", key |-> NoKey]]
      BY <1>9, <2>2, ZenonT(60) DEF RemoveVictim
    <3>2. \A t \in Session : evict'[t].at = "removed" <=> evict[t].at = "removed"
      BY <1>0, <3>1, ZenonT(60)
    <3> QED
      BY <3>1, <3>2, SameSetsSameCount, ZenonT(60)
  <2> QED
    BY <2>1, <2>2, ZenonT(60)
<1>10. CASE CountVictim(s)
  <2>1. /\ evict[s].at = "removed" /\ count' = count - 1 /\ UNCHANGED hash
        /\ evict' = [evict EXCEPT ![s] = NoEvict]
    BY <1>10, ZenonT(60) DEF CountVictim, EndEliminate
  <2>2. Entries' = Entries /\ Removed' = Removed \ {s} /\ s \in Removed
    BY <1>0, <2>1, ZenonT(60) DEF Entries, Cached, Removed
  <2>3. IsFiniteSet(Entries) /\ IsFiniteSet(Removed)
    BY FiniteAssumption, FS_Subset, ZenonT(60) DEF Entries, Removed
  <2>4. Cardinality(Removed') = Cardinality(Removed) - 1
    BY <2>2, <2>3, FS_RemoveElement, ZenonT(60)
  <2>5. Cardinality(Entries) \in Nat /\ Cardinality(Removed) \in Nat
    BY <2>3, FS_CardinalityType, ZenonT(60)
  <2>6. count = Cardinality(Entries) + Cardinality(Removed)
    BY ZenonT(60) DEF CountIsExact, Removed
  <2>7. count' = Cardinality(Entries') + Cardinality(Removed')
    BY <2>1, <2>2, <2>4, <2>5, <2>6, SMTT(60)
  <2> QED
    BY <2>7, ZenonT(60) DEF CountIsExact, Removed
<1>11. CASE CommitUpdate(s)
  <2> DEFINE k == Head(toCommit[s]).key
             v == Head(toCommit[s]).inode
             room == Cached(k) \/ Cardinality(Entries) < Capacity
  <2>1. Head(toCommit[s]) \in Action /\ UNCHANGED evict
    BY <1>11, SMTT(60) DEF CommitUpdate, TypeOK
  <2>2. k \in Key /\ v \in Value /\ v # Absent
    BY <2>1, MarksAreNoValues, ZenonT(60) DEF Action
  <2>3. /\ hash' = [hash EXCEPT ![k] = IF room THEN v ELSE Absent]
        /\ count' = IF ~Cached(k) /\ room THEN count + 1 ELSE count
    BY <1>11, ZenonT(60) DEF CommitUpdate
  <2> HIDE DEF k, v
  <2>4. CASE ~Cached(k) /\ room
    BY <2>1, <2>2, <2>3, <2>4, NewEntryIsCounted, ZenonT(60) DEF Cached
  <2>5. CASE Cached(k) \/ ~room
    <3>1. \A l \in Key : hash'[l] = Absent <=> hash[l] = Absent
      BY <1>0, <2>2, <2>3, <2>5, ZenonT(60) DEF Cached
    <3>2. UNCHANGED count
      BY <2>3, <2>5, ZenonT(60)
    <3> QED
      BY <2>1, <3>1, <3>2, SameSetsSameCount, ZenonT(60)
  <2> QED
    BY <2>4, <2>5, ZenonT(60)
<1> QED
  BY <1>2, <1>3, <1>4, <1>5, <1>6, <1>7, <1>8, <1>9, <1>10, <1>11, ZenonT(60)
     DEF Step, Local, InCall, Eliminate, TwoPhase, RollsBack, Finishes

-----------------------------------------------------------------------------
(* A step of a session leaves alone what belongs to another one.             *)
LEMMA OthersKeep ==
    ASSUME TypeOK, NEW s \in Session, Step(s), NEW t \in Session \ {s}
    PROVE  /\ pc'[t] = pc[t] /\ op'[t] = op[t] /\ held'[t] = held[t] /\ seen'[t] = seen[t]
           /\ evict'[t] = evict[t] /\ writes'[t] = writes[t] /\ toCommit'[t] = toCommit[t]
           /\ phase'[t] = phase[t]
<1>0. /\ pc = [u \in Session |-> pc[u]] /\ op = [u \in Session |-> op[u]]
      /\ held = [u \in Session |-> held[u]] /\ seen = [u \in Session |-> seen[u]]
      /\ evict = [u \in Session |-> evict[u]] /\ writes = [u \in Session |-> writes[u]]
      /\ toCommit = [u \in Session |-> toCommit[u]] /\ phase = [u \in Session |-> phase[u]]
  BY ZenonT(60) DEF TypeOK
<1> USE <1>0 DEF Goto, Pin, EndCall
<1>1. CASE Calls(s)
  BY <1>1, CallEffect, SMTT(60)
<1>2. CASE ReadTable(s)
  BY <1>2, ZenonT(60) DEF ReadTable
<1>3. CASE EnterNew(s)
  BY <1>3, ZenonT(60) DEF EnterNew, AddEntry
<1>4. CASE EnterFound(s)
  BY <1>4, ZenonT(60) DEF EnterFound
<1>5. CASE EnterNot(s)
  BY <1>5, ZenonT(60) DEF EnterNot, StartEliminate
<1>6. CASE Acquire(s)
  BY <1>6, ZenonT(60) DEF Acquire
<1>7. CASE SearchReturns(s)
  BY <1>7, ZenonT(60) DEF SearchReturns
<1>8. CASE WriteRow(s)
  BY <1>8, ZenonT(60) DEF WriteRow, UpdateEntry
<1>9. CASE RowRefused(s)
  BY <1>9, ZenonT(60) DEF RowRefused
<1>10. CASE CheckCount(s)
  BY <1>10, ZenonT(60) DEF CheckCount, EndEliminate, NextAction
<1>11. CASE NoVictim(s)
  BY <1>11, ZenonT(60) DEF NoVictim, EndEliminate, NextAction
<1>12. CASE \E k \in Key : ChooseVictim(s, k)
  BY <1>12, ZenonT(60) DEF ChooseVictim
<1>13. CASE RemoveVictim(s)
  BY <1>13, ZenonT(60) DEF RemoveVictim
<1>14. CASE CountVictim(s)
  BY <1>14, ZenonT(60) DEF CountVictim, EndEliminate, NextAction
<1>15. CASE CommitTransaction(s)
  BY <1>15, ZenonT(60) DEF CommitTransaction
<1>16. CASE CommitAdd(s)
  BY <1>16, ZenonT(60) DEF CommitAdd, StartEliminate
<1>17. CASE CommitUpdate(s)
  BY <1>17, ZenonT(60) DEF CommitUpdate, NextAction
<1>18. CASE CommitEnd(s)
  BY <1>18, ZenonT(60) DEF CommitEnd
<1>19. CASE AbortTransaction(s)
  BY <1>19, ZenonT(60) DEF AbortTransaction
<1>20. CASE PrepareTransaction(s)
  BY <1>20, ZenonT(60) DEF PrepareTransaction
<1>21. CASE Finishes(s)
  BY <1>21, ZenonT(60) DEF Finishes, FinishPrepared
<1>22. CASE SessionExit(s)
  BY <1>22, ZenonT(60) DEF SessionExit
<1> QED
  BY <1>1, <1>2, <1>3, <1>4, <1>5, <1>6, <1>7, <1>8, <1>9, <1>10, <1>11, <1>12, <1>13, <1>14, <1>15,
     <1>16, <1>17, <1>18, <1>19, <1>20, <1>21, <1>22, ZenonT(60)
     DEF Step, Local, InCall, Eliminate, TwoPhase, RollsBack, Finishes

(* The locks: only Acquire takes one, and only free ones.                    *)
LEMMA StepKeepsExcludes ==
    ASSUME TypeOK, Excludes, NEW s \in Session, Step(s)
    PROVE  Excludes'
<1>0. /\ held \in [Session -> [Key -> {"none", "shared", "exclusive"}]]
      /\ \A t \in Session \ {s} : held'[t] = held[t]
  BY OthersKeep, ZenonT(60) DEF TypeOK
<1>1. CASE \A k \in Key : held'[s][k] = held[s][k] \/ held'[s][k] = "none"
  <2>1. \A t \in Session, k \in Key : held'[t][k] = held[t][k] \/ held'[t][k] = "none"
    BY <1>0, <1>1, ZenonT(60)
  <2> QED
    BY <2>1, SMTT(60) DEF Excludes
<1>2. CASE Acquire(s)
  <2>1. CASE op[s].mode = "DIR_LOCK_EXCLUSIVE"
    <3>1. /\ \A t \in Session : held[t][op[s].key] = "none"
          /\ held' = [held EXCEPT ![s][op[s].key] = "exclusive"]
      BY <1>2, <2>1, ZenonT(60) DEF Acquire
    <3> QED
      BY <1>0, <3>1, SMTT(60) DEF Excludes
  <2>2. CASE op[s].mode # "DIR_LOCK_EXCLUSIVE"
    <3>1. /\ \A t \in Session : held[t][op[s].key] # "exclusive"
          /\ held' = [held EXCEPT ![s][op[s].key] = "shared"]
      BY <1>2, <2>2, ZenonT(60) DEF Acquire
    <3> QED
      BY <1>0, <3>1, SMTT(60) DEF Excludes
  <2> QED
    BY <2>1, <2>2, ZenonT(60)
<1>3. CASE Calls(s)
  BY <1>1, <1>3, CallEffect, ZenonT(60)
<1>4. CASE ReadTable(s) \/ EnterNew(s) \/ EnterFound(s) \/ EnterNot(s) \/ WriteRow(s) \/ RowRefused(s)
           \/ Eliminate(s)
  <2>1. UNCHANGED held
    BY <1>4, ZenonT(60) DEF ReadTable, EnterNew, EnterFound, EnterNot, WriteRow, RowRefused, Eliminate, CheckCount,
         NoVictim, ChooseVictim, RemoveVictim, CountVictim
  <2> QED
    BY <1>1, <2>1, ZenonT(60)
<1>5. CASE CommitTransaction(s) \/ CommitAdd(s) \/ CommitUpdate(s) \/ PrepareTransaction(s) \/ Finishes(s)
  <2>1. UNCHANGED held
    BY <1>5, ZenonT(60) DEF CommitTransaction, CommitAdd, CommitUpdate, PrepareTransaction, Finishes, FinishPrepared
  <2> QED
    BY <1>1, <2>1, ZenonT(60)
<1>6. CASE SearchReturns(s)
  <2>1. held' = held \/ held' = [held EXCEPT ![s][op[s].key] = "none"]
    BY <1>6, ZenonT(60) DEF SearchReturns
  <2> QED
    BY <1>0, <1>1, <2>1, ZenonT(60)
<1>7. CASE CommitEnd(s) \/ AbortTransaction(s) \/ SessionExit(s)
  <2>1. held' = [held EXCEPT ![s] = Unlocked]
    BY <1>7, ZenonT(60) DEF CommitEnd, AbortTransaction, SessionExit
  <2> QED
    BY <1>0, <1>1, <2>1, ZenonT(60) DEF Unlocked
<1> QED
  BY <1>2, <1>3, <1>4, <1>5, <1>6, <1>7, ZenonT(60)
     DEF Step, Local, InCall, TwoPhase, RollsBack, Finishes

LEMMA StepKeepsLockInv ==
    ASSUME TypeOK, CallInv, LockedEntryStays, LockInv, WriteInv, NEW s \in Session, UNCHANGED part, Step(s)
    PROVE  LockInv'
<1> USE DEF Goto
<1>0. /\ held \in [Session -> [Key -> {"none", "shared", "exclusive"}]]
      /\ pc \in [Session -> {"idle", "table", "enter", "acquire", "return", "error", "callback"}]
      /\ op \in [Session -> CallRec \cup {NoOp}]
      /\ writes \in [Session -> Rows]
      /\ HasItsLock(s)
  BY ZenonT(60) DEF TypeOK, LockInv
<1>1. SUFFICES HasItsLock(s)'
  <2>1. Excludes'
    BY StepKeepsExcludes, ZenonT(60) DEF LockInv
  <2>2. \A t \in Session \ {s} : HasItsLock(t)'
    BY OthersKeep, SMTT(60) DEF LockInv, HasItsLock
  <2> QED
    BY <1>1, <2>1, <2>2, ZenonT(60) DEF LockInv
<1>2. CASE pc'[s] \notin {"table", "enter", "acquire", "return"}
  BY <1>2, ZenonT(60) DEF HasItsLock
<1>3. CASE UNCHANGED <<pc, op, held, writes>>
  BY <1>0, <1>3, ZenonT(60) DEF HasItsLock
<1>4. CASE Calls(s)
  <2>1. PICK o \in CallRec :
            /\ o.key \in part.keys /\ Admitted(s, o)
            /\ op' = [op EXCEPT ![s] = o]
            /\ pc' = [pc EXCEPT ![s] = First(o)]
            /\ UNCHANGED <<held, writes>>
    BY <1>4, CallEffect, ZenonT(60)
  <2>2. o.key \in Key
    BY ZenonT(60) DEF CallRec
  <2>3. pc'[s] = First(o) /\ op'[s] = o /\ held'[s] = held[s] /\ writes'[s] = writes[s]
    BY <1>0, <2>1, ZenonT(60)
  <2>4. CASE o.mode = "DIR_LOCK_NONE" /\ o.call # "search"
    <3>1. /\ held[s][o.key] = "exclusive" /\ o.key \notin DOMAIN writes[s]
          /\ (o.call = "insert" => hash[o.key] = NotExist)
      BY <2>1, <2>4, ZenonT(60) DEF Admitted
    <3>2. Cached(o.key) /\ o.call \in {"insert", "delete"}
      BY <2>2, <2>4, <3>1, ZenonT(60) DEF LockedEntryStays, Pins, CallRec
    <3>3. First(o) = "return"
      BY <2>4, <3>1, <3>2, MarksAreNoValues, ZenonT(60) DEF First, Usable
    <3> QED
      BY <2>3, <2>4, <3>1, <3>3, ZenonT(60) DEF HasItsLock
  <2>5. CASE o.mode = "DIR_LOCK_NONE" /\ o.call = "search"
    <3>1. held[s] = Unlocked
      BY <2>1, <2>5, ZenonT(60) DEF Admitted
    <3>2. held[s][o.key] = "none" /\ o.key \notin DOMAIN writes[s]
      BY <2>2, <3>1, ZenonT(60) DEF Unlocked, WriteInv
    <3> QED
      BY <2>3, <2>5, <3>2, ZenonT(60) DEF HasItsLock
  <2>6. CASE o.mode # "DIR_LOCK_NONE"
    <3>1. held[s][o.key] = "none" /\ (o.call = "search" \/ o.mode = "DIR_LOCK_EXCLUSIVE")
      BY <2>1, <2>6, ZenonT(60) DEF Admitted
    <3>2. First(o) # "return"
      BY <2>6, ZenonT(60) DEF First
    <3> QED
      BY <2>3, <3>1, <3>2, ZenonT(60) DEF HasItsLock
  <2> QED
    BY <2>4, <2>5, <2>6, ZenonT(60)
<1>5. CASE ReadTable(s)
  <2>1. pc[s] = "table" /\ UNCHANGED <<op, held, writes>> /\ pc'[s] \in {"error", "enter"}
    BY <1>0, <1>5, ZenonT(60) DEF ReadTable
  <2> QED
    BY <1>0, <2>1, ZenonT(60) DEF HasItsLock
<1>6. CASE EnterNew(s) \/ EnterFound(s) \/ EnterNot(s)
  <2>1. pc[s] = "enter" /\ UNCHANGED <<op, held, writes>>
    BY <1>6, ZenonT(60) DEF EnterNew, EnterFound, EnterNot, Entering
  <2>2. \/ pc'[s] \in {"enter", "error"}
        \/ Locks(s) /\ pc'[s] = "acquire"
        \/ ~Locks(s) /\ pc'[s] = "return"
    BY <1>0, <1>6, <2>1, ZenonT(60) DEF EnterNew, EnterFound, EnterNot, Pin
  <2>3. held[s][op[s].key] = "none" /\ op[s].key \notin DOMAIN writes[s]
    BY <1>0, <2>1, SMTT(60) DEF HasItsLock, WriteInv
  <2> QED
    BY <1>0, <2>1, <2>2, <2>3, ZenonT(60) DEF HasItsLock, Locks
<1>7. CASE Acquire(s)
  <2>1. pc[s] = "acquire" /\ UNCHANGED <<op, writes>> /\ pc'[s] = "return"
    BY <1>0, <1>7, ZenonT(60) DEF Acquire
  <2>2. op[s].key \in Key /\ op[s].mode \in DirPathLockMode /\ Locks(s)
    BY <2>1, ZenonT(60) DEF CallInv, InACall, CallRec
  <2>3. held'[s][op[s].key] = IF op[s].mode = "DIR_LOCK_EXCLUSIVE" THEN "exclusive" ELSE "shared"
    BY <1>0, <1>7, <2>2, SMTT(60) DEF Acquire
  <2>4. op[s].key \notin DOMAIN writes[s]
    BY <1>0, <2>1, SMTT(60) DEF HasItsLock, WriteInv
  <2> QED
    BY <1>0, <2>1, <2>2, <2>3, <2>4, ZenonT(60) DEF HasItsLock
<1>8. CASE SearchReturns(s) \/ WriteRow(s) \/ RowRefused(s) \/ AbortTransaction(s)
  BY <1>0, <1>2, <1>8, ZenonT(60) DEF SearchReturns, WriteRow, RowRefused, AbortTransaction
<1>9. CASE Eliminate(s) \/ CommitAdd(s) \/ CommitUpdate(s)
  BY <1>3, <1>9, ZenonT(60) DEF Eliminate, CheckCount, NoVictim, ChooseVictim, RemoveVictim, CountVictim, CommitAdd,
     CommitUpdate
<1>10. CASE CommitTransaction(s) \/ CommitEnd(s) \/ Finishes(s)
  BY <1>0, <1>2, <1>10, ZenonT(60) DEF CommitTransaction, CommitEnd, Finishes, FinishPrepared
<1>11. CASE PrepareTransaction(s) \/ SessionExit(s)
  BY <1>2, <1>11, ZenonT(60) DEF PrepareTransaction, SessionExit, InTxn
<1> QED
  BY <1>4, <1>5, <1>6, <1>7, <1>8, <1>9, <1>10, <1>11, ZenonT(60)
     DEF Step, Local, InCall, TwoPhase, RollsBack, Finishes

(* The cache never forgets what it knows but by eviction.                    *)
LEMMA KnownStaysKnown ==
    ASSUME TypeOK, CallInv, NEW s \in Session, Step(s), NEW k \in Key, hash[k] \in Value
    PROVE  hash'[k] \in Value \/ (RemoveVictim(s) /\ Destroyable(k))
<1>0. hash \in [Key -> Value \cup {Unknown, Absent}]
  BY ZenonT(60) DEF TypeOK
<1>1. CASE UNCHANGED hash
  BY <1>1, ZenonT(60)
<1>2. CASE Calls(s)
  BY <1>1, <1>2, CallEffect, ZenonT(60)
<1>3. CASE ReadTable(s) \/ EnterNot(s) \/ Acquire(s) \/ SearchReturns(s) \/ WriteRow(s)
           \/ RowRefused(s) \/ AbortTransaction(s) \/ CommitTransaction(s)
  BY <1>1, <1>3, ZenonT(60) DEF ReadTable, EnterNot, Acquire, SearchReturns, WriteRow, RowRefused,
       AbortTransaction, CommitTransaction
<1>4. CASE CommitAdd(s) \/ CommitEnd(s) \/ PrepareTransaction(s) \/ SessionExit(s) \/ Finishes(s)
           \/ CheckCount(s) \/ NoVictim(s) \/ (\E l \in Key : ChooseVictim(s, l)) \/ CountVictim(s)
  BY <1>1, <1>4, ZenonT(60) DEF CommitAdd, CommitEnd, PrepareTransaction, SessionExit, Finishes, FinishPrepared,
       CheckCount, NoVictim, ChooseVictim, CountVictim
<1>5. CASE EnterNew(s) \/ EnterFound(s)
  <2>1. \/ hash' = hash
        \/ hash[op[s].key] \in {Absent, Unknown} /\ \E v : hash' = [hash EXCEPT ![op[s].key] = v]
    BY <1>5, ZenonT(60) DEF EnterNew, EnterFound, Cached
  <2> QED
    BY <1>0, <2>1, MarksAreNoValues, ZenonT(60)
<1>6. CASE RemoveVictim(s)
  BY <1>0, <1>6, ZenonT(60) DEF RemoveVictim
<1>7. CASE CommitUpdate(s)
  BY <1>0, <1>7, CommitUpdateEffect, ZenonT(60)
<1> QED
  BY <1>2, <1>3, <1>4, <1>5, <1>6, <1>7, ZenonT(60)
     DEF Step, Local, InCall, Eliminate, TwoPhase, RollsBack, Finishes

LEMMA StepKeepsKnownInv ==
    ASSUME TypeOK, CallInv, LockInv, KnownInv, LockedEntryStays,
           NEW s \in Session, UNCHANGED part, Step(s)
    PROVE  KnownInv'
<1> USE DEF Goto, Locks
<1>0. /\ hash \in [Key -> Value \cup {Unknown, Absent}]
      /\ pc \in [Session -> {"idle", "table", "enter", "acquire", "return", "error", "callback"}]
      /\ op \in [Session -> CallRec \cup {NoOp}]
  BY ZenonT(60) DEF TypeOK
<1> DEFINE K(t) == pc[t] \in {"acquire", "return"} /\ op[t].call # "delete" /\ Locks(t)
<1>1. ASSUME NEW t \in Session, K(t)
      PROVE  op[t].key \in Key /\ hash[op[t].key] \in Value /\ hash'[op[t].key] \in Value
  <2>1. op[t] \in CallRec /\ hash[op[t].key] \in Value
    BY <1>1, ZenonT(60) DEF CallInv, InACall, KnownInv
  <2>2. op[t].key \in Key /\ op[t].mode \in DirPathLockMode
    BY <2>1, ZenonT(60) DEF CallRec
  <2>3. Pins(t, op[t].key)
    <3>1. CASE pc[t] = "acquire"
      BY <3>1, ZenonT(60) DEF Pins
    <3>2. CASE pc[t] = "return"
      BY <1>1, <2>2, <3>2, ZenonT(60) DEF Pins, LockInv, HasItsLock, DirPathLockMode
    <3> QED
      BY <1>1, <3>1, <3>2, ZenonT(60)
  <2> QED
    BY <2>1, <2>2, <2>3, KnownStaysKnown, ZenonT(60) DEF Destroyable
<1>2. \A t \in Session \ {s} : pc'[t] = pc[t] /\ op'[t] = op[t]
  BY OthersKeep, ZenonT(60)
<1>3. CASE K(s)' => K(s) /\ op'[s] = op[s]
  <2>1. \A t \in Session : K(t)' => K(t) /\ op'[t] = op[t]
    BY <1>2, <1>3, ZenonT(60)
  <2> QED
    BY <1>1, <2>1, ZenonT(60) DEF KnownInv
<1>4. CASE K(s)' => hash'[op'[s].key] \in Value
  <2>1. \A t \in Session \ {s} : K(t)' => K(t) /\ op'[t] = op[t]
    BY <1>2, ZenonT(60)
  <2> QED
    BY <1>1, <1>4, <2>1, ZenonT(60) DEF KnownInv
<1>5. CASE Calls(s)
  <2>1. PICK o \in CallRec :
            /\ op' = [op EXCEPT ![s] = o]
            /\ pc' = [pc EXCEPT ![s] = First(o)]
            /\ UNCHANGED hash
    BY <1>5, CallEffect, ZenonT(60)
  <2>2. o.key \in Key
    BY ZenonT(60) DEF CallRec
  <2>3. First(o) \in {"acquire", "return"} /\ o.call # "delete" => hash[o.key] \in Value
    BY <1>0, <2>2, ZenonT(60) DEF First, Usable, Cached
  <2> QED
    BY <1>0, <1>4, <2>1, <2>3, ZenonT(60)
<1>6. CASE EnterNew(s) \/ EnterFound(s)
  <2>1. pc[s] = "enter" /\ UNCHANGED op /\ op[s].key \in Key
    BY <1>6, ZenonT(60) DEF EnterNew, EnterFound, Entering, CallInv, InACall, CallRec
  <2>2. op[s].call # "delete" => seen[s] \in Value
    BY <2>1, ZenonT(60) DEF CallInv
  <2>3. op[s].call # "delete" => hash'[op[s].key] \in Value
    BY <1>0, <1>6, <2>1, <2>2, ZenonT(60) DEF EnterNew, EnterFound, Cached
  <2> QED
    BY <1>4, <2>1, <2>3, ZenonT(60)
<1>7. CASE ReadTable(s) \/ EnterNot(s) \/ Acquire(s) \/ RowRefused(s)
  <2>1. UNCHANGED op /\ (K(s)' => K(s))
    BY <1>0, <1>7, ZenonT(60) DEF ReadTable, EnterNot, Entering, Acquire, RowRefused
  <2> QED
    BY <1>3, <2>1, ZenonT(60)
<1>8. CASE SearchReturns(s) \/ WriteRow(s) \/ AbortTransaction(s) \/ CommitTransaction(s)
           \/ CommitEnd(s) \/ Finishes(s)
  <2>1. pc'[s] \in {"idle", "callback"}
    BY <1>0, <1>8, ZenonT(60) DEF SearchReturns, WriteRow, AbortTransaction, CommitTransaction, CommitEnd, Finishes,
         FinishPrepared
  <2> QED
    BY <1>3, <2>1, ZenonT(60)
<1>9. CASE Eliminate(s) \/ CommitAdd(s) \/ CommitUpdate(s) \/ PrepareTransaction(s) \/ SessionExit(s)
  <2>1. UNCHANGED <<pc, op>>
    BY <1>9, ZenonT(60) DEF Eliminate, CheckCount, NoVictim, ChooseVictim, RemoveVictim, CountVictim, CommitAdd,
         CommitUpdate, PrepareTransaction, SessionExit
  <2> QED
    BY <1>3, <2>1, ZenonT(60)
<1> QED
  BY <1>5, <1>6, <1>7, <1>8, <1>9, ZenonT(60) DEF Step, Local, InCall, TwoPhase, RollsBack, Finishes

-----------------------------------------------------------------------------
(* The updates that a session has coming: one more with a row written, one   *)
(* less with an entry updated, none after an abort.                          *)
LEMMA UpdatesAppend ==
    ASSUME TypeOK, NEW s \in Session, NEW a \in Action, NEW k \in Key, NEW v \in Value,
           toCommit' = [toCommit EXCEPT ![s] = Append(toCommit[s], a)]
    PROVE  Updates(s, k, v)' <=> Updates(s, k, v) \/ a = [do |-> "U", key |-> k, inode |-> v]
<1> DEFINE q == toCommit[s]
<1>1. q \in Seq(Action) /\ toCommit'[s] = Append(q, a)
  BY ZenonT(60) DEF TypeOK
<1> HIDE DEF q
<1> DEFINE u == [do |-> "U", key |-> k, inode |-> v]
           l == Append(q, a)
<1>2. IsExtended(q, a, l)
  BY <1>1, AppendElements, ZenonT(60)
<1>3. Updates(s, k, v)' <=> \E i \in 1 .. Len(l) : l[i] = u
  BY <1>1, ZenonT(60) DEF Updates
<1>4. Updates(s, k, v) <=> \E i \in 1 .. Len(q) : q[i] = u
  BY ZenonT(60) DEF Updates, q
<1> HIDE DEF u, l
<1>5. (\E i \in 1 .. Len(l) : l[i] = u) <=> (\E i \in 1 .. Len(q) : q[i] = u) \/ a = u
  BY <1>2, ZenonT(60) DEF IsExtended
<1> QED
  BY <1>3, <1>4, <1>5, ZenonT(60) DEF u

LEMMA UpdatesTail ==
    ASSUME TypeOK, NEW s \in Session, NEW k \in Key, NEW v \in Value, toCommit[s] # <<>>,
           toCommit' = [toCommit EXCEPT ![s] = Tail(toCommit[s])]
    PROVE  /\ Updates(s, k, v)' => Updates(s, k, v)
           /\ Updates(s, k, v) => \/ Updates(s, k, v)'
                                  \/ Head(toCommit[s]) = [do |-> "U", key |-> k, inode |-> v]
           /\ Head(toCommit[s]) = [do |-> "U", key |-> k, inode |-> v] => Updates(s, k, v)
<1> DEFINE q == toCommit[s]
<1>1. q \in Seq(Action) /\ q # <<>> /\ toCommit'[s] = Tail(q)
  BY ZenonT(60) DEF TypeOK
<1> HIDE DEF q
<1>2. /\ \A i \in 1 .. Len(Tail(q)) : \E j \in 1 .. Len(q) : Tail(q)[i] = q[j]
      /\ \A j \in 1 .. Len(q) : q[j] = Head(q) \/ \E i \in 1 .. Len(Tail(q)) : Tail(q)[i] = q[j]
      /\ 1 \in 1 .. Len(q) /\ Head(q) = q[1]
  BY <1>1, TailElements, ZenonT(60)
<1> DEFINE u == [do |-> "U", key |-> k, inode |-> v]
           l == Tail(q)
<1>3. Updates(s, k, v)' <=> \E i \in 1 .. Len(l) : l[i] = u
  BY <1>1, ZenonT(60) DEF Updates
<1>4. Updates(s, k, v) <=> \E i \in 1 .. Len(q) : q[i] = u
  BY ZenonT(60) DEF Updates, q
<1> HIDE DEF u, l
<1>5. /\ (\E i \in 1 .. Len(l) : l[i] = u) => \E i \in 1 .. Len(q) : q[i] = u
      /\ (\E i \in 1 .. Len(q) : q[i] = u) => (\E i \in 1 .. Len(l) : l[i] = u) \/ Head(q) = u
      /\ Head(q) = u => \E i \in 1 .. Len(q) : q[i] = u
  <2>1. ASSUME NEW i \in 1 .. Len(l), l[i] = u
        PROVE  \E j \in 1 .. Len(q) : q[j] = u
    BY <1>2, <2>1, ZenonT(60) DEF l
  <2>2. ASSUME NEW j \in 1 .. Len(q), q[j] = u
        PROVE  (\E i \in 1 .. Len(l) : l[i] = u) \/ Head(q) = u
    BY <1>2, <2>2, ZenonT(60) DEF l
  <2>3. Head(q) = u => \E i \in 1 .. Len(q) : q[i] = u
    BY <1>2, ZenonT(60)
  <2> QED
    BY <2>1, <2>2, <2>3, ZenonT(60)
<1> QED
  BY <1>3, <1>4, <1>5, ZenonT(60) DEF u, q

LEMMA WriteRowEffect ==
    ASSUME TypeOK, CallInv, LockedEntryStays, LockInv, NEW s \in Session, WriteRow(s)
    PROVE  /\ op[s] \in CallRec /\ op[s].key \in Key /\ op[s].inode \in Value
           /\ held[s][op[s].key] = "exclusive" /\ op[s].key \notin DOMAIN writes[s]
           /\ pc[s] = "return" /\ pc'[s] = "idle"
           /\ DOMAIN writes'[s] = DOMAIN writes[s] \cup {op[s].key}
           /\ writes'[s][op[s].key] = op[s].inode
           /\ \A k \in DOMAIN writes[s] : writes'[s][k] = writes[s][k]
           /\ \A k \in Key, v \in Value :
                Updates(s, k, v)' <=> Updates(s, k, v) \/ (k = op[s].key /\ v = op[s].inode)
<1>1. pc[s] = "return" /\ op[s].call # "search" /\ op[s] \in CallRec
  BY ZenonT(60) DEF WriteRow, CallInv, InACall
<1>2. op[s].key \in Key /\ op[s].inode \in Value
  BY <1>1, ZenonT(60) DEF CallRec
<1>3. held[s][op[s].key] = "exclusive" /\ op[s].key \notin DOMAIN writes[s]
  BY <1>1, ZenonT(60) DEF LockInv, HasItsLock
<1>4. Cached(op[s].key)
  BY <1>2, <1>3, ZenonT(60) DEF LockedEntryStays, Pins
<1> DEFINE a == [do |-> "U", key |-> op[s].key, inode |-> op[s].inode]
<1>5. a \in Action
  BY <1>2, ZenonT(60) DEF Action
<1>6. toCommit' = [toCommit EXCEPT ![s] = Append(toCommit[s], a)]
  BY <1>4, ZenonT(60) DEF WriteRow, UpdateEntry
<1>7. ASSUME NEW k \in Key, NEW v \in Value
      PROVE  Updates(s, k, v)' <=> Updates(s, k, v) \/ (k = op[s].key /\ v = op[s].inode)
  <2>1. a = [do |-> "U", key |-> k, inode |-> v] <=> k = op[s].key /\ v = op[s].inode
    BY ZenonT(60)
  <2> HIDE DEF a
  <2> QED
    BY <1>5, <1>6, <2>1, UpdatesAppend, ZenonT(60)
<1>8. pc'[s] = "idle"
  BY ZenonT(60) DEF WriteRow, Goto, TypeOK
<1>9. writes'[s] = [k \in DOMAIN writes[s] \cup {op[s].key} |->
                      IF k = op[s].key THEN op[s].inode ELSE writes[s][k]]
  BY ZenonT(60) DEF WriteRow, TypeOK
<1> QED
  BY <1>1, <1>2, <1>3, <1>7, <1>8, <1>9, ZenonT(60)

(* The steps that leave the updates alone.                                   *)
Passes(s) ==
    \/ Calls(s) \/ ReadTable(s) \/ EnterNew(s) \/ EnterFound(s) \/ EnterNot(s) \/ Acquire(s)
    \/ SearchReturns(s) \/ RowRefused(s) \/ Eliminate(s) \/ CommitTransaction(s) \/ CommitAdd(s)
    \/ CommitEnd(s) \/ PrepareTransaction(s) \/ Finishes(s)

LEMMA SameUpdates ==
    ASSUME TypeOK, CallInv, EvictInv, NEW s \in Session, Passes(s), NEW k \in Key, NEW v \in Value
    PROVE  Updates(s, k, v)' <=> Updates(s, k, v)
<1>1. CASE UNCHANGED toCommit
  BY <1>1, ZenonT(60) DEF Updates
<1>2. CASE Calls(s)
  BY <1>1, <1>2, CallEffect, ZenonT(60)
<1>3. CASE ReadTable(s) \/ EnterFound(s) \/ EnterNot(s) \/ Acquire(s) \/ SearchReturns(s) \/ RowRefused(s)
  BY <1>1, <1>3, ZenonT(60) DEF ReadTable, EnterFound, EnterNot, Acquire, SearchReturns, RowRefused
<1>4. CASE CommitTransaction(s) \/ CommitAdd(s) \/ CommitEnd(s) \/ PrepareTransaction(s) \/ Finishes(s)
  BY <1>1, <1>4, ZenonT(60)
     DEF CommitTransaction, CommitAdd, CommitEnd, PrepareTransaction, Finishes, FinishPrepared
<1>5. CASE EnterNew(s)
  <2> DEFINE a == [do |-> "A", key |-> op[s].key, inode |-> NotExist]
  <2>1. a \in Action
    BY <1>5, MarksAreNoValues, ZenonT(60) DEF EnterNew, Entering, CallInv, InACall, CallRec, Action
  <2>2. toCommit' = [toCommit EXCEPT ![s] = Append(toCommit[s], a)]
    BY <1>5, ZenonT(60) DEF EnterNew, AddEntry
  <2>3. a # [do |-> "U", key |-> k, inode |-> v]
    BY ZenonT(60)
  <2> HIDE DEF a
  <2> QED
    BY <2>1, <2>2, <2>3, UpdatesAppend, ZenonT(60)
<1>6. CASE Eliminate(s)
  <2>1. UNCHANGED toCommit \/ (EndEliminate(s) /\ evict[s].at # "no")
    BY <1>6, ZenonT(60) DEF Eliminate, CheckCount, NoVictim, ChooseVictim, RemoveVictim, CountVictim
  <2>2. CASE EndEliminate(s) /\ evict[s].at # "no" /\ pc[s] = "callback"
    <3>1. toCommit[s] # <<>> /\ Head(toCommit[s]).do = "A"
      BY <2>2, ZenonT(60) DEF EvictInv
    <3>2. Head(toCommit[s]) # [do |-> "U", key |-> k, inode |-> v]
      BY <3>1, SMTT(60)
    <3>3. toCommit' = [toCommit EXCEPT ![s] = Tail(toCommit[s])]
      BY <2>2, ZenonT(60) DEF EndEliminate, NextAction
    <3> QED
      BY <3>1, <3>2, <3>3, UpdatesTail, ZenonT(60)
  <2> QED
    BY <1>1, <2>1, <2>2, ZenonT(60) DEF EndEliminate
<1> QED
  BY <1>2, <1>3, <1>4, <1>5, <1>6, ZenonT(60) DEF Passes

LEMMA AbortDropsUpdates ==
    ASSUME TypeOK, NEW s \in Session, AbortTransaction(s) \/ SessionExit(s)
    PROVE  /\ \A k \in Key, v \in Value : ~Updates(s, k, v)'
           /\ DOMAIN writes'[s] = {}
<1>1. toCommit'[s] = <<>> /\ writes'[s] = NoWrites
  BY ZenonT(60) DEF AbortTransaction, SessionExit, TypeOK
<1> QED
  BY <1>1, SMTT(60) DEF Updates, NoWrites

-----------------------------------------------------------------------------
(* Whatever is written is locked.                                            *)
LEMMA StepKeepsWriteInv ==
    ASSUME TypeOK, CallInv, EvictInv, LockedEntryStays, LockInv, WriteInv,
           NEW s \in Session, UNCHANGED part, Step(s)
    PROVE  WriteInv'
<1> USE DEF Goto
<1>0. /\ held \in [Session -> [Key -> {"none", "shared", "exclusive"}]]
      /\ pc \in [Session -> {"idle", "table", "enter", "acquire", "return", "error", "callback"}]
      /\ writes \in [Session -> Rows] /\ phase \in [Session -> {"active", "prepared"}]
  BY ZenonT(60) DEF TypeOK
<1> DEFINE W(t) ==
      /\ \A k \in DOMAIN writes[t] : held[t][k] = "exclusive"
      /\ \A k \in Key, v \in Value : Updates(t, k, v) => held[t][k] = "exclusive"
      /\ DOMAIN writes[t] # {} => pc[t] # "callback" /\ phase[t] = "active"
      /\ phase[t] = "prepared" => pc[t] \in {"idle", "callback"}
<1>1. W(s) /\ \A k \in DOMAIN writes[s] : k \in Key
  BY <1>0, SMTT(60) DEF WriteInv, Rows
<1>2. SUFFICES W(s)'
  <2>1. \A t \in Session \ {s} : W(t)'
    <3> TAKE t \in Session \ {s}
    <3>1. /\ pc'[t] = pc[t] /\ held'[t] = held[t] /\ writes'[t] = writes[t] /\ phase'[t] = phase[t]
          /\ toCommit'[t] = toCommit[t]
      BY OthersKeep, ZenonT(60)
    <3> QED
      BY <3>1, SMTT(60) DEF WriteInv, Updates
  <2> QED
    BY <1>2, <2>1, SMTT(60) DEF WriteInv
<1>3. ASSUME Passes(s)
      PROVE  \A k \in Key, v \in Value : Updates(s, k, v)' <=> Updates(s, k, v)
  BY <1>3, SameUpdates, ZenonT(60)
<1>4. CASE WriteRow(s)
  <2>1. UNCHANGED <<held, phase>>
    BY <1>4, ZenonT(60) DEF WriteRow
  <2> QED
    BY <1>0, <1>1, <1>4, <2>1, WriteRowEffect, SMTT(60)
<1>5. CASE CommitUpdate(s)
  <2>1. UNCHANGED <<pc, held, writes, phase>>
    BY <1>5, ZenonT(60) DEF CommitUpdate
  <2>2. \A k \in Key, v \in Value : Updates(s, k, v)' => Updates(s, k, v)
    BY <1>5, CommitUpdateEffect, UpdatesTail, ZenonT(60)
  <2> QED
    BY <1>1, <2>1, <2>2, ZenonT(60)
<1>6. CASE AbortTransaction(s) \/ SessionExit(s)
  <2>1. pc'[s] = "idle"
    BY <1>0, <1>6, ZenonT(60) DEF AbortTransaction, SessionExit
  <2> QED
    BY <2>1, <1>6, AbortDropsUpdates, ZenonT(60)
<1>7. CASE Calls(s)
  <2>1. UNCHANGED <<held, writes, phase>> /\ pc'[s] # "callback" /\ phase[s] = "active"
    BY <1>0, <1>7, CallEffect, ZenonT(60) DEF First
  <2> QED
    BY <1>1, <1>3, <1>7, <2>1, ZenonT(60) DEF Passes
<1>8. CASE ReadTable(s) \/ EnterNew(s) \/ EnterFound(s) \/ EnterNot(s) \/ RowRefused(s)
  <2>1. UNCHANGED <<held, writes, phase>> /\ pc[s] \notin {"idle", "callback"} /\ pc'[s] # "callback"
    BY <1>0, <1>8, ZenonT(60) DEF ReadTable, EnterNew, EnterFound, EnterNot, Entering, Pin, RowRefused
  <2> QED
    BY <1>1, <1>3, <1>8, <2>1, ZenonT(60) DEF Passes
<1>9. CASE Acquire(s)
  <2>1. UNCHANGED <<writes, phase>> /\ pc[s] = "acquire" /\ pc'[s] = "return"
    BY <1>0, <1>9, ZenonT(60) DEF Acquire
  <2>2. held[s][op[s].key] = "none" /\ \A k \in Key : k # op[s].key => held'[s][k] = held[s][k]
    BY <1>0, <1>9, SMTT(60) DEF Acquire, LockInv, HasItsLock
  <2> QED
    BY <1>1, <1>3, <1>9, <2>1, <2>2, ZenonT(60) DEF Passes
<1>10. CASE SearchReturns(s)
  <2>1. UNCHANGED <<writes, phase>> /\ pc[s] = "return" /\ pc'[s] = "idle"
    BY <1>0, <1>10, ZenonT(60) DEF SearchReturns
  <2>2. \A k \in Key : held[s][k] = "exclusive" => held'[s][k] = "exclusive"
    BY <1>0, <1>10, <2>1, SMTT(60) DEF SearchReturns, LockInv, HasItsLock
  <2> QED
    BY <1>1, <1>3, <1>10, <2>1, <2>2, ZenonT(60) DEF Passes
<1>11. CASE Eliminate(s) \/ CommitAdd(s)
  <2>1. UNCHANGED <<held, writes, phase, pc>>
    BY <1>11, ZenonT(60) DEF Eliminate, CheckCount, NoVictim, ChooseVictim, RemoveVictim, CountVictim, CommitAdd
  <2> QED
    BY <1>1, <1>3, <1>11, <2>1, ZenonT(60) DEF Passes
<1>12. CASE CommitTransaction(s)
  <2>1. UNCHANGED <<held, phase>> /\ writes'[s] = NoWrites /\ pc'[s] = "callback"
    BY <1>0, <1>12, ZenonT(60) DEF CommitTransaction
  <2>2. DOMAIN writes'[s] = {}
    BY <2>1, ZenonT(60) DEF NoWrites
  <2> QED
    BY <1>1, <1>3, <1>12, <2>1, <2>2, ZenonT(60) DEF Passes
<1>13. CASE CommitEnd(s)
  <2>1. UNCHANGED <<writes, toCommit>> /\ pc[s] = "callback" /\ toCommit[s] = <<>>
    BY <1>13, ZenonT(60) DEF CommitEnd
  <2>2. phase'[s] = "active"
    BY <1>0, <1>13, ZenonT(60) DEF CommitEnd
  <2>3. \A k \in Key, v \in Value : ~Updates(s, k, v)'
    BY <2>1, SMTT(60) DEF Updates
  <2>4. DOMAIN writes'[s] = {}
    BY <1>1, <2>1, ZenonT(60)
  <2> QED
    BY <2>2, <2>3, <2>4, ZenonT(60)
<1>14. CASE PrepareTransaction(s)
  <2>1. UNCHANGED <<held, pc>> /\ writes'[s] = NoWrites /\ pc[s] = "idle"
    BY <1>0, <1>14, ZenonT(60) DEF PrepareTransaction, InTxn
  <2>2. DOMAIN writes'[s] = {}
    BY <2>1, ZenonT(60) DEF NoWrites
  <2> QED
    BY <1>1, <1>3, <1>14, <2>1, <2>2, ZenonT(60) DEF Passes
<1>15. CASE Finishes(s)
  <2>1. UNCHANGED <<held, writes, phase>> /\ phase[s] = "prepared" /\ pc'[s] = "callback"
    BY <1>0, <1>15, ZenonT(60) DEF Finishes, FinishPrepared
  <2> QED
    BY <1>1, <1>3, <1>15, <2>1, ZenonT(60) DEF Passes
<1> QED
  BY <1>4, <1>5, <1>6, <1>7, <1>8, <1>9, <1>10, <1>11, <1>12, <1>13, <1>14, <1>15, ZenonT(60)
     DEF Step, Local, InCall, TwoPhase, RollsBack, Finishes

-----------------------------------------------------------------------------
(* Rows and updates, while the sessions finish what they have prepared.      *)
Pairs(t) ==
    \A k \in Key, v \in Value :
        /\ Wrote(t, k, v) => Updates(t, k, v)
        /\ Updates(t, k, v) => Wrote(t, k, v) \/ (pc[t] = "callback" /\ table[k] = v)
Prepared ==
    /\ \A p \in prepared : phase[p.by] = "prepared" /\ pc[p.by] = "idle"
    /\ \A p, q \in prepared : p.by = q.by => p = q

LEMMA RowInvParts == RowInv <=> (part.ends = {} => Prepared /\ \A t \in Session : Pairs(t))
BY ZenonT(60) DEF RowInv, Prepared, Pairs

(* A commit of s puts its rows into the table; the updates of the others are *)
(* of other keys.                                                            *)
LEMMA CommitKeepsOthers ==
    ASSUME TypeOK, Excludes, WriteInv, NEW s \in Session, NEW t \in Session \ {s},
           Pairs(t), NEW w \in Rows, table' = Apply(w),
           \A k \in DOMAIN w : held[s][k] = "exclusive",
           UNCHANGED held, pc'[t] = pc[t], toCommit'[t] = toCommit[t], writes'[t] = writes[t],
           \A p : p.by = t => (p \in prepared' <=> p \in prepared)
    PROVE  Pairs(t)'
<1> SUFFICES ASSUME NEW k \in Key, NEW v \in Value
             PROVE  /\ Wrote(t, k, v)' => Updates(t, k, v)'
                    /\ Updates(t, k, v)' => Wrote(t, k, v)' \/ (pc'[t] = "callback" /\ table'[k] = v)
  BY ZenonT(60) DEF Pairs
<1>1. Updates(t, k, v)' <=> Updates(t, k, v)
  BY ZenonT(60) DEF Updates
<1>2. Wrote(t, k, v)' <=> Wrote(t, k, v)
  BY ZenonT(60) DEF Wrote
<1>3. Updates(t, k, v) => table'[k] = table[k]
  <2>1. Updates(t, k, v) => held[t][k] = "exclusive"
    BY ZenonT(60) DEF WriteInv
  <2>2. Updates(t, k, v) => k \notin DOMAIN w
    BY <2>1, ZenonT(60) DEF Excludes
  <2> QED
    BY <2>2, ZenonT(60) DEF Apply
<1> QED
  BY <1>1, <1>2, <1>3, ZenonT(60) DEF Pairs

LEMMA StepKeepsRowInv ==
    ASSUME TypeOK, CallInv, EvictInv, LockedEntryStays, LockInv, WriteInv, RowInv,
           NEW s \in Session, UNCHANGED part, Step(s)
    PROVE  RowInv'
<1> USE DEF Goto
<1>0. /\ pc \in [Session -> {"idle", "table", "enter", "acquire", "return", "error", "callback"}]
      /\ writes \in [Session -> Rows] /\ phase \in [Session -> {"active", "prepared"}]
      /\ table \in [Key -> Value]
      /\ \A p \in prepared : p.by \in Session /\ p.writes \in Rows
  BY ZenonT(60) DEF TypeOK
<1>1. SUFFICES ASSUME part.ends = {}
               PROVE  Prepared' /\ \A t \in Session : Pairs(t)'
  BY ZenonT(60) DEF RowInv, Prepared, Pairs
<1>2. Prepared /\ \A t \in Session : Pairs(t)
  BY <1>1, RowInvParts, ZenonT(60)
<1>3. phase[s] = "active" \/ pc[s] # "idle" => \A p \in prepared : p.by # s
  BY <1>2, ZenonT(60) DEF Prepared
<1>4. \A t \in Session \ {s} : /\ pc'[t] = pc[t] /\ held'[t] = held[t] /\ writes'[t] = writes[t]
                               /\ toCommit'[t] = toCommit[t] /\ phase'[t] = phase[t]
  BY OthersKeep, ZenonT(60)
<1>5. \A t \in Session \ {s}, k \in Key, v \in Value : Updates(t, k, v)' <=> Updates(t, k, v)
  BY <1>4, ZenonT(60) DEF Updates
<1>6. ASSUME UNCHANGED <<table, prepared>>
      PROVE  \A t \in Session \ {s} : Pairs(t)'
  <2>1. \A t \in Session \ {s}, k \in Key, v \in Value : Wrote(t, k, v)' <=> Wrote(t, k, v)
    BY <1>4, <1>6, ZenonT(60) DEF Wrote
  <2> QED
    BY <1>2, <1>4, <1>5, <1>6, <2>1, ZenonT(60) DEF Pairs
<1>7. ASSUME UNCHANGED prepared, phase[s] = "active" \/ pc[s] # "idle"
      PROVE  Prepared'
  BY <1>0, <1>2, <1>3, <1>4, <1>7, ZenonT(60) DEF Prepared
<1>8. CASE /\ UNCHANGED <<table, prepared, writes>>
           /\ phase[s] = "active" \/ pc[s] # "idle"
           /\ pc[s] = "callback" => pc'[s] = "callback"
           /\ Passes(s)
  <2>1. \A k \in Key, v \in Value : Updates(s, k, v)' <=> Updates(s, k, v)
    BY <1>8, SameUpdates, ZenonT(60)
  <2>2. \A k \in Key, v \in Value : Wrote(s, k, v)' <=> Wrote(s, k, v)
    BY <1>8, ZenonT(60) DEF Wrote
  <2>3. Pairs(s)'
    BY <1>2, <1>8, <2>1, <2>2, ZenonT(60) DEF Pairs
  <2> QED
    BY <1>6, <1>7, <1>8, <2>3, ZenonT(60)
<1>9. CASE Calls(s)
  <2>1. UNCHANGED <<table, prepared, writes>> /\ phase[s] = "active" /\ pc[s] # "callback"
    BY <1>9, CallEffect, ZenonT(60)
  <2> QED
    BY <1>8, <1>9, <2>1, ZenonT(60) DEF Passes
<1>10. CASE ReadTable(s) \/ EnterNew(s) \/ EnterFound(s) \/ EnterNot(s) \/ Acquire(s)
            \/ SearchReturns(s) \/ RowRefused(s)
  <2>1. UNCHANGED <<table, prepared, writes>> /\ pc[s] \notin {"idle", "callback"}
    BY <1>10, ZenonT(60) DEF ReadTable, EnterNew, EnterFound, EnterNot, Entering, Acquire, SearchReturns,
         RowRefused
  <2> QED
    BY <1>8, <1>10, <2>1, ZenonT(60) DEF Passes
<1>11. CASE Eliminate(s)
  <2>1. UNCHANGED <<table, prepared, writes, pc>> /\ evict[s].at # "no"
    BY <1>11, ZenonT(60) DEF Eliminate, CheckCount, NoVictim, ChooseVictim, RemoveVictim, CountVictim
  <2>2. pc[s] # "idle"
    BY <2>1, ZenonT(60) DEF EvictInv
  <2> QED
    BY <1>8, <1>11, <2>1, <2>2, ZenonT(60) DEF Passes
<1>12. CASE CommitAdd(s)
  <2>1. UNCHANGED <<table, prepared, writes, pc>> /\ pc[s] # "idle"
    BY <1>12, ZenonT(60) DEF CommitAdd
  <2> QED
    BY <1>8, <1>12, <2>1, ZenonT(60) DEF Passes
<1>13. CASE WriteRow(s)
  <2>1. UNCHANGED <<table, prepared>>
    BY <1>13, ZenonT(60) DEF WriteRow
  <2>2. \A k \in Key, v \in Value :
            Wrote(s, k, v)' <=> Wrote(s, k, v) \/ (k = op[s].key /\ v = op[s].inode)
    BY <1>13, <2>1, WriteRowEffect, SMTT(60) DEF Wrote
  <2>3. Pairs(s)'
    BY <1>2, <1>13, <2>2, WriteRowEffect, SMTT(60) DEF Pairs
  <2>4. pc[s] # "idle"
    BY <1>13, ZenonT(60) DEF WriteRow
  <2> QED
    BY <1>6, <1>7, <2>1, <2>3, <2>4, ZenonT(60)
<1>14. CASE CommitUpdate(s)
  <2>1. UNCHANGED <<table, prepared, writes, pc>> /\ pc[s] = "callback"
    BY <1>14, ZenonT(60) DEF CommitUpdate
  <2>2. \A k \in Key, v \in Value : Updates(s, k, v)' => Updates(s, k, v)
    BY <1>14, CommitUpdateEffect, UpdatesTail, ZenonT(60)
  <2>3. \A k \in Key, v \in Value : ~Wrote(s, k, v) /\ ~Wrote(s, k, v)'
    BY <1>3, <2>1, ZenonT(60) DEF Wrote, WriteInv
  <2>4. Pairs(s)'
    BY <1>2, <2>1, <2>2, <2>3, ZenonT(60) DEF Pairs
  <2> QED
    BY <1>6, <1>7, <2>1, <2>4, ZenonT(60)
<1>15. CASE AbortTransaction(s)
  <2>1. UNCHANGED <<table, prepared>> /\ (phase[s] = "active" \/ pc[s] # "idle")
    BY <1>15, ZenonT(60) DEF AbortTransaction, InTxn
  <2>2. \A k \in Key, v \in Value : ~Wrote(s, k, v)' /\ ~Updates(s, k, v)'
    BY <1>3, <1>15, <2>1, AbortDropsUpdates, ZenonT(60) DEF Wrote
  <2>3. Pairs(s)'
    BY <2>2, ZenonT(60) DEF Pairs
  <2> QED
    BY <1>6, <1>7, <2>1, <2>3, ZenonT(60)
<1>16. CASE CommitEnd(s)
  <2>1. UNCHANGED <<table, prepared, writes, toCommit>> /\ pc[s] = "callback" /\ toCommit[s] = <<>>
    BY <1>16, ZenonT(60) DEF CommitEnd
  <2>2. \A k \in Key, v \in Value : ~Wrote(s, k, v)' /\ ~Updates(s, k, v)'
    BY <1>3, <2>1, SMTT(60) DEF Wrote, Updates, WriteInv
  <2>3. Pairs(s)'
    BY <2>2, ZenonT(60) DEF Pairs
  <2> QED
    BY <1>6, <1>7, <2>1, <2>3, ZenonT(60)
<1>17. CASE CommitTransaction(s)
  <2>1. /\ pc[s] = "idle" /\ phase[s] = "active" /\ pc'[s] = "callback" /\ table' = Apply(writes[s])
        /\ writes'[s] = NoWrites /\ UNCHANGED <<held, prepared>>
    BY <1>0, <1>17, ZenonT(60) DEF CommitTransaction, InTxn
  <2>2. \A k \in Key, v \in Value : Updates(s, k, v)' <=> Updates(s, k, v)
    BY <1>17, SameUpdates, ZenonT(60) DEF Passes
  <2>3. ASSUME NEW k \in Key, NEW v \in Value
        PROVE  ~Wrote(s, k, v)' /\ (Updates(s, k, v)' => table'[k] = v)
    <3>1. \A p \in prepared : p.by # s
      BY <1>3, <2>1, ZenonT(60)
    <3>2. DOMAIN writes'[s] = {}
      BY <2>1, ZenonT(60) DEF NoWrites
    <3>3. ~Wrote(s, k, v)'
      BY <2>1, <3>1, <3>2, ZenonT(60) DEF Wrote
    <3>4. Updates(s, k, v) => k \in DOMAIN writes[s] /\ writes[s][k] = v
      BY <1>2, <2>1, <3>1, SMTT(60) DEF Pairs, Wrote
    <3> QED
      BY <2>1, <2>2, <3>3, <3>4, ZenonT(60) DEF Apply
  <2>4. Pairs(s)'
    BY <2>1, <2>3, ZenonT(60) DEF Pairs
  <2>5. \A k \in DOMAIN writes[s] : held[s][k] = "exclusive"
    BY ZenonT(60) DEF WriteInv
  <2>6. \A t \in Session \ {s} : Pairs(t)'
    BY <1>0, <1>2, <1>4, <2>1, <2>5, CommitKeepsOthers, SMTT(60) DEF LockInv
  <2> QED
    BY <1>7, <2>1, <2>4, <2>6, ZenonT(60)
<1>18. CASE PrepareTransaction(s)
  <2> DEFINE n == [by |-> s, writes |-> writes[s]]
  <2>1. /\ pc[s] = "idle" /\ phase[s] = "active" /\ phase'[s] = "prepared"
        /\ prepared' = prepared \cup {n} /\ writes'[s] = NoWrites /\ UNCHANGED <<table, pc>>
    BY <1>0, <1>18, ZenonT(60) DEF PrepareTransaction, InTxn
  <2>2. \A p \in prepared : p.by # s
    BY <1>3, <2>1, ZenonT(60)
  <2>3. n.by = s /\ n.writes = writes[s] /\ DOMAIN writes'[s] = {}
    BY <2>1, ZenonT(60) DEF NoWrites
  <2> HIDE DEF n
  <2>4. Prepared'
    BY <1>0, <1>2, <1>4, <2>1, <2>2, <2>3, SMTT(60) DEF Prepared
  <2>5. \A k \in Key, v \in Value : Wrote(s, k, v)' <=> Wrote(s, k, v)
    BY <2>1, <2>2, <2>3, ZenonT(60) DEF Wrote
  <2>6. \A k \in Key, v \in Value : Updates(s, k, v)' <=> Updates(s, k, v)
    BY <1>18, SameUpdates, ZenonT(60) DEF Passes
  <2>7. Pairs(s)'
    BY <1>2, <2>1, <2>5, <2>6, ZenonT(60) DEF Pairs
  <2>8. \A t \in Session \ {s}, k \in Key, v \in Value : Wrote(t, k, v)' <=> Wrote(t, k, v)
    BY <1>4, <2>1, <2>3, ZenonT(60) DEF Wrote
  <2>9. \A t \in Session \ {s} : Pairs(t)'
    BY <1>2, <1>4, <1>5, <2>1, <2>8, ZenonT(60) DEF Pairs
  <2> QED
    BY <2>4, <2>7, <2>9, ZenonT(60)
<1>19. ASSUME NEW p \in prepared, FinishPrepared(s, p, TRUE)
       PROVE  Prepared' /\ \A t \in Session : Pairs(t)'
  <2>1. /\ pc[s] = "idle" /\ phase[s] = "prepared" /\ p.by = s /\ table' = Apply(p.writes)
        /\ prepared' = prepared \ {p} /\ pc'[s] = "callback" /\ UNCHANGED <<held, writes, phase>>
    BY <1>0, <1>19, ZenonT(60) DEF FinishPrepared
  <2>2. \A q \in prepared : q.by = s => q = p
    BY <1>2, <2>1, ZenonT(60) DEF Prepared
  <2>3. Prepared'
    BY <1>0, <1>2, <1>4, <2>1, <2>2, SMTT(60) DEF Prepared
  <2>4. DOMAIN writes[s] = {}
    BY <2>1, ZenonT(60) DEF WriteInv
  <2>5. \A k \in Key, v \in Value : Updates(s, k, v)' <=> Updates(s, k, v)
    BY <1>19, SameUpdates, ZenonT(60) DEF Passes, Finishes
  <2>6. ASSUME NEW k \in Key, NEW v \in Value
        PROVE  ~Wrote(s, k, v)' /\ (Updates(s, k, v)' => table'[k] = v)
    <3>1. ~Wrote(s, k, v)'
      BY <2>1, <2>2, <2>4, ZenonT(60) DEF Wrote
    <3>2. Updates(s, k, v) => k \in DOMAIN p.writes /\ p.writes[k] = v
      BY <1>2, <2>1, <2>2, <2>4, SMTT(60) DEF Pairs, Wrote
    <3> QED
      BY <2>1, <2>5, <3>1, <3>2, ZenonT(60) DEF Apply
  <2>7. Pairs(s)'
    BY <2>1, <2>6, ZenonT(60) DEF Pairs
  <2>8. ASSUME NEW k \in DOMAIN p.writes
        PROVE  held[s][k] = "exclusive"
    <3>1. k \in Key /\ p.writes[k] \in Value
      BY <1>0, SMTT(60) DEF Rows
    <3>2. Wrote(s, k, p.writes[k])
      BY <2>1, ZenonT(60) DEF Wrote
    <3> QED
      BY <1>2, <3>1, <3>2, SMTT(60) DEF Pairs, WriteInv
  <2>9. \A t \in Session \ {s} : Pairs(t)'
    BY <1>0, <1>2, <1>4, <2>1, <2>8, CommitKeepsOthers, SMTT(60) DEF LockInv
  <2> QED
    BY <2>3, <2>7, <2>9, ZenonT(60)
<1> QED
  BY <1>1, <1>9, <1>10, <1>11, <1>12, <1>13, <1>14, <1>15, <1>16, <1>17, <1>18, <1>19, ZenonT(60)
     DEF Step, Local, InCall, TwoPhase

-----------------------------------------------------------------------------
(* The cache and the table.  An update that is due stays so, until it is     *)
(* done.                                                                     *)
LEMMA DueStays ==
    ASSUME TypeOK, CallInv, EvictInv, NEW s \in Session, Passes(s) \/ WriteRow(s) \/ AbortTransaction(s),
           Step(s), NEW k \in Key, Due(k)
    PROVE  Due(k)'
<1>1. PICK t \in Session, v \in Value : pc[t] = "callback" /\ Updates(t, k, v)
  BY ZenonT(60) DEF Due
<1>2. CASE t # s
  <2>1. pc'[t] = pc[t] /\ toCommit'[t] = toCommit[t]
    BY <1>2, OthersKeep, ZenonT(60)
  <2> QED
    BY <1>1, <2>1, SMTT(60) DEF Due, Updates
<1>3. CASE t = s
  <2>1. ~CommitEnd(s)
    <3>1. toCommit[s] # <<>>
      BY <1>1, <1>3, SMTT(60) DEF Updates
    <3> QED
      BY <3>1, ZenonT(60) DEF CommitEnd
  <2>2. Eliminate(s) \/ CommitAdd(s)
    BY <1>1, <1>3, <2>1, CallEffect, ZenonT(60)
    DEF Passes, ReadTable, EnterNew, EnterFound, EnterNot, Entering, Acquire,
       SearchReturns, RowRefused, WriteRow, AbortTransaction, CommitTransaction, PrepareTransaction, InTxn,
       Finishes, FinishPrepared
  <2>3. UNCHANGED pc
    BY <2>2, ZenonT(60) DEF Eliminate, CheckCount, NoVictim, ChooseVictim, RemoveVictim, CountVictim, CommitAdd
  <2>4. Updates(s, k, v)'
    BY <1>1, <1>3, <2>2, SameUpdates, ZenonT(60) DEF Passes
  <2> QED
    BY <1>1, <1>3, <2>3, <2>4, ZenonT(60) DEF Due
<1> QED
  BY <1>2, <1>3, ZenonT(60)

(* The partition is below the mark at which eviction starts.                 *)
LEMMA NothingToEvict ==
    ASSUME TypeOK, KeysInv, CountIsExact, Undisturbed, \A t \in Session : evict[t].at \in {"no", "start"}
    PROVE  count <= ClearBegin
<1>1. IsFiniteSet(part.keys) /\ ClearBegin \in Nat
  BY PartitionTypes, ZenonT(60) DEF TypeOK
<1>2. Entries \subseteq part.keys
  BY ZenonT(60) DEF Entries, KeysInv
<1>3. /\ Cardinality(Entries) <= Cardinality(part.keys)
      /\ IsFiniteSet(Entries)
  BY <1>1, <1>2, FS_Subset, ZenonT(60)
<1>4. Cardinality(Entries) \in Nat /\ Cardinality(part.keys) \in Nat
  BY <1>1, <1>3, FS_CardinalityType, ZenonT(60)
<1>5. {t \in Session : evict[t].at = "removed"} = {}
  BY ZenonT(60)
<1>6. Cardinality({t \in Session : evict[t].at = "removed"}) = 0
  BY <1>5, FS_EmptySet, ZenonT(60)
<1>7. Cardinality(part.keys) <= ClearBegin
  BY ZenonT(60) DEF Undisturbed
<1> QED
  BY <1>1, <1>3, <1>4, <1>6, <1>7, SMTT(60) DEF CountIsExact

Agreeing(k) == hash[k] \in Value => hash[k] = table[k] \/ Due(k)
ReadIsFresh(t) ==
    pc[t] = "enter" /\ op[t].call # "delete" /\ hash[op[t].key] \in {Absent, Unknown}
        => seen[t] = table[op[t].key] \/ Due(op[t].key)
NotEvicting(t) == evict[t].at \in {"no", "start"}

(* What a step must see to, so that entries agree and reads are fresh: an    *)
(* entry or a row changes only if they agree then or an update is due.       *)
LEMMA CacheStep ==
    ASSUME TypeOK, CallInv, NEW s \in Session, Step(s),
           \A k \in Key : Agreeing(k), \A t \in Session : ReadIsFresh(t),
           \A k \in Key : Due(k) => Due(k)' \/ (hash'[k] \in Value /\ hash'[k] = table'[k]),
           \A k \in Key : table'[k] = table[k] \/ Due(k)',
           \A k \in Key : hash'[k] = hash[k] \/ (hash'[k] \in Value => hash'[k] = table'[k] \/ Due(k)'),
           \A k \in Key : hash[k] \in Value => hash'[k] \in Value,
           ReadIsFresh(s)'
    PROVE  (\A k \in Key : Agreeing(k)') /\ (\A t \in Session : ReadIsFresh(t)')
<1>1. ASSUME NEW k \in Key
      PROVE  Agreeing(k)'
  BY ZenonT(60) DEF Agreeing
<1>2. ASSUME NEW t \in Session \ {s}
      PROVE  ReadIsFresh(t)'
  <2>1. pc'[t] = pc[t] /\ op'[t] = op[t] /\ seen'[t] = seen[t]
    BY OthersKeep, ZenonT(60)
  <2>2. CASE pc[t] = "enter"
    <3>1. PICK k \in Key : k = op[t].key
      BY <2>2, ZenonT(60) DEF CallInv, InACall, CallRec
    <3>2. hash[k] \in Value \/ hash[k] \in {Absent, Unknown}
      BY ZenonT(60) DEF TypeOK
    <3>3. hash'[k] \in {Absent, Unknown} => hash[k] \in {Absent, Unknown}
      BY <3>2, MarksAreNoValues, ZenonT(60)
    <3>4. /\ Due(k) => Due(k)' \/ hash'[k] \in Value
          /\ table'[k] = table[k] \/ Due(k)'
      BY ZenonT(60)
    <3>5. \/ op[t].call = "delete"
          \/ seen[t] = table[k] \/ Due(k) \/ hash'[k] \notin {Absent, Unknown}
      <4>1. ReadIsFresh(t)
        BY ZenonT(60)
      <4> QED
        BY <4>1, <2>2, <3>1, <3>3, ZenonT(60) DEF ReadIsFresh
    <3>6. op[t].call # "delete" /\ hash'[k] \in {Absent, Unknown} => seen[t] = table'[k] \/ Due(k)'
      BY <3>4, <3>5, MarksAreNoValues, ZenonT(60)
    <3> QED
      BY <2>1, <3>1, <3>6, ZenonT(60) DEF ReadIsFresh
  <2>3. CASE pc[t] # "enter"
    BY <2>1, <2>3, ZenonT(60) DEF ReadIsFresh
  <2> QED
    BY <2>2, <2>3, ZenonT(60)
<1> QED
  BY <1>1, <1>2, ZenonT(60)

LEMMA StepKeepsNotEvicting ==
    ASSUME TypeOK, KeysInv, CountIsExact, Undisturbed, \A t \in Session : NotEvicting(t),
           NEW s \in Session, Step(s)
    PROVE  (\A t \in Session : NotEvicting(t)') /\ ~RemoveVictim(s)
<1>0. /\ evict \in [Session -> [at : {"no", "start", "choose", "chosen", "removed"}, key : Key \cup {NoKey}]]
      /\ NoEvict.at = "no" /\ evict[s].at \in {"no", "start"}
  BY ZenonT(60) DEF TypeOK, NoEvict, NotEvicting
<1>1. SUFFICES evict'[s].at \in {"no", "start"}
  BY <1>0, <1>1, OthersKeep, ZenonT(60) DEF NotEvicting, RemoveVictim
<1>2. CASE UNCHANGED evict
  BY <1>0, <1>2, ZenonT(60)
<1>3. CASE Calls(s)
  BY <1>2, <1>3, CallEffect, ZenonT(60)
<1>4. CASE ReadTable(s) \/ EnterNew(s) \/ EnterFound(s) \/ Acquire(s) \/ SearchReturns(s)
           \/ WriteRow(s) \/ RowRefused(s) \/ AbortTransaction(s)
  BY <1>2, <1>4, ZenonT(60) DEF ReadTable, EnterNew, EnterFound, Acquire, SearchReturns, WriteRow, RowRefused,
     AbortTransaction
<1>5. CASE CommitTransaction(s) \/ CommitUpdate(s) \/ CommitEnd(s) \/ PrepareTransaction(s)
           \/ SessionExit(s) \/ Finishes(s)
  BY <1>2, <1>5, ZenonT(60) DEF CommitTransaction, CommitUpdate, CommitEnd, PrepareTransaction, SessionExit, Finishes,
     FinishPrepared
<1>6. CASE EnterNot(s) \/ CommitAdd(s)
  <2>1. evict' = evict \/ evict' = [evict EXCEPT ![s].at = "start"]
    BY <1>6, ZenonT(60) DEF EnterNot, CommitAdd, StartEliminate
  <2> QED
    BY <1>0, <2>1, ZenonT(60)
<1>7. CASE Eliminate(s)
  <2>1. evict[s].at = "start" /\ CheckCount(s)
    BY <1>0, <1>7, ZenonT(60) DEF Eliminate, NoVictim, ChooseVictim, RemoveVictim, CountVictim, CheckCount
  <2>2. count <= ClearBegin
    BY NothingToEvict, ZenonT(60) DEF NotEvicting
  <2>3. evict' = [evict EXCEPT ![s] = NoEvict]
    BY <2>1, <2>2, ZenonT(60) DEF CheckCount, EndEliminate
  <2> QED
    BY <1>0, <2>3, ZenonT(60)
<1> QED
  BY <1>3, <1>4, <1>5, <1>6, <1>7, ZenonT(60) DEF Step, Local, InCall, TwoPhase, RollsBack, Finishes

LEMMA StepKeepsCache ==
    ASSUME TypeOK, TypeOK', CallInv, EvictInv, KeysInv, LockedEntryStays, LockInv, WriteInv, RowInv,
           Undisturbed, \A t \in Session : NotEvicting(t),
           \A k \in Key : Agreeing(k), \A t \in Session : ReadIsFresh(t),
           NEW s \in Session, UNCHANGED part, Step(s), ~RemoveVictim(s)
    PROVE  (\A k \in Key : Agreeing(k)') /\ (\A t \in Session : ReadIsFresh(t)')
<1> USE DEF Goto
<1>0. /\ hash \in [Key -> Value \cup {Unknown, Absent}] /\ table \in [Key -> Value]
      /\ table' \in [Key -> Value]
      /\ pc \in [Session -> {"idle", "table", "enter", "acquire", "return", "error", "callback"}]
      /\ op \in [Session -> CallRec \cup {NoOp}]
      /\ seen \in [Session -> Value \cup {Unknown}]
  BY ZenonT(60) DEF TypeOK
<1>1. part.ends = {} /\ \A t \in Session : Pairs(t)
  BY RowInvParts, ZenonT(60) DEF Undisturbed
<1>2. \A k \in Key : hash[k] \in Value => hash'[k] \in Value
  BY KnownStaysKnown, ZenonT(60)
<1>3. ASSUME pc'[s] # "enter" \/ op'[s].call = "delete"
      PROVE  ReadIsFresh(s)'
  BY <1>3, ZenonT(60) DEF ReadIsFresh
<1>4. ASSUME Passes(s) \/ WriteRow(s) \/ AbortTransaction(s), UNCHANGED <<hash, table>>, ReadIsFresh(s)'
      PROVE  (\A k \in Key : Agreeing(k)') /\ (\A t \in Session : ReadIsFresh(t)')
  <2>1. \A k \in Key : Due(k) => Due(k)'
    BY <1>4, DueStays, ZenonT(60)
  <2> QED
    BY <1>2, <1>4, <2>1, CacheStep, ZenonT(60)
<1>5. CASE Calls(s)
  <2>1. UNCHANGED <<hash, table>> /\ \E o : pc'[s] = First(o) /\ op'[s] = o
    BY <1>0, <1>5, CallEffect, SMTT(60)
  <2>2. pc'[s] # "enter" \/ op'[s].call = "delete"
    BY <2>1, ZenonT(60) DEF First
  <2> QED
    BY <1>3, <1>4, <1>5, <2>1, <2>2, ZenonT(60) DEF Passes
<1>6. CASE ReadTable(s)
  <2>1. PICK k \in Key : k = op[s].key
    BY <1>6, ZenonT(60) DEF ReadTable, CallInv, InACall, CallRec
  <2>2. k \notin DOMAIN writes[s]
    BY <1>6, <2>1, SMTT(60) DEF ReadTable, LockInv, HasItsLock, WriteInv
  <2>3. UNCHANGED <<hash, table, op>> /\ seen'[s] = table[k]
    BY <1>0, <1>6, <2>1, <2>2, ZenonT(60) DEF ReadTable, Visible
  <2>4. ReadIsFresh(s)'
    BY <2>1, <2>3, ZenonT(60) DEF ReadIsFresh
  <2> QED
    BY <1>4, <1>6, <2>3, <2>4, ZenonT(60) DEF Passes
<1>7. CASE EnterNew(s) \/ EnterFound(s)
  <2>1. PICK k \in Key : k = op[s].key
    BY <1>7, ZenonT(60) DEF EnterNew, EnterFound, Entering, CallInv, InACall, CallRec
  <2>2. pc[s] = "enter" /\ pc'[s] # "enter" /\ UNCHANGED table
    BY <1>0, <1>7, ZenonT(60) DEF EnterNew, EnterFound, Entering, Pin
  <2>3. \A l \in Key : Due(l) => Due(l)'
    BY <1>7, DueStays, ZenonT(60) DEF Passes
  <2>4. \/ hash' = hash
        \/ op[s].call = "delete" /\ hash' = [hash EXCEPT ![k] = Unknown]
        \/ /\ op[s].call # "delete" /\ hash[k] \in {Absent, Unknown}
           /\ hash' = [hash EXCEPT ![k] = seen[s]]
    BY <1>7, <2>1, ZenonT(60) DEF EnterNew, EnterFound, Cached
  <2>5. op[s].call # "delete" /\ hash[k] \in {Absent, Unknown} => seen[s] = table[k] \/ Due(k)
    <3>1. ReadIsFresh(s)
      BY ZenonT(60)
    <3> QED
      BY <3>1, <2>1, <2>2, ZenonT(60) DEF ReadIsFresh
  <2>6. ASSUME NEW l \in Key
        PROVE  hash'[l] = hash[l] \/ (hash'[l] \in Value => hash'[l] = table'[l] \/ Due(l)')
    BY <1>0, <2>2, <2>3, <2>4, <2>5, MarksAreNoValues, ZenonT(60)
  <2> QED
    BY <1>2, <1>3, <2>2, <2>3, <2>6, CacheStep, ZenonT(60)
<1>8. CASE EnterNot(s) \/ Acquire(s) \/ SearchReturns(s) \/ RowRefused(s) \/ WriteRow(s) \/ AbortTransaction(s)
  <2>1. UNCHANGED <<hash, table>>
    BY <1>8, ZenonT(60) DEF EnterNot, Acquire, SearchReturns, RowRefused, WriteRow, AbortTransaction
  <2>2. CASE pc'[s] # "enter"
    BY <1>3, <1>4, <1>8, <2>1, <2>2, ZenonT(60) DEF Passes
  <2>3. CASE pc'[s] = "enter"
    <3>1. EnterNot(s)
      BY <1>0, <1>8, <2>3, ZenonT(60) DEF Acquire, SearchReturns, RowRefused, WriteRow, AbortTransaction
    <3>2. UNCHANGED <<op, seen>> /\ pc[s] = "enter"
      BY <3>1, ZenonT(60) DEF EnterNot, Entering
    <3>3. PICK k \in Key : k = op[s].key
      BY <3>2, ZenonT(60) DEF CallInv, InACall, CallRec
    <3>4. Due(k) => Due(k)'
      BY <3>1, DueStays, ZenonT(60) DEF Passes
    <3>5. ReadIsFresh(s)
      BY ZenonT(60)
    <3>6. ReadIsFresh(s)'
      BY <2>1, <3>2, <3>3, <3>4, <3>5, ZenonT(60) DEF ReadIsFresh
    <3> QED
      BY <1>4, <2>1, <3>1, <3>6, ZenonT(60) DEF Passes
  <2> QED
    BY <2>2, <2>3, ZenonT(60)
<1>9. CASE Eliminate(s)
  <2>1. UNCHANGED <<hash, table, op, seen, pc>>
    BY <1>9, ZenonT(60) DEF Eliminate, CheckCount, NoVictim, ChooseVictim, CountVictim
  <2>2. CASE pc[s] # "enter"
    BY <1>3, <1>4, <1>9, <2>1, <2>2, ZenonT(60) DEF Passes
  <2>3. CASE pc[s] = "enter"
    <3>3. PICK k \in Key : k = op[s].key
      BY <2>3, ZenonT(60) DEF CallInv, InACall, CallRec
    <3>4. Due(k) => Due(k)'
      BY <1>9, DueStays, ZenonT(60) DEF Passes
    <3>5. ReadIsFresh(s)
      BY ZenonT(60)
    <3>6. ReadIsFresh(s)'
      BY <2>1, <3>3, <3>4, <3>5, ZenonT(60) DEF ReadIsFresh
    <3> QED
      BY <1>4, <1>9, <2>1, <3>6, ZenonT(60) DEF Passes
  <2> QED
    BY <2>2, <2>3, ZenonT(60)
<1>10. CASE CommitAdd(s) \/ CommitEnd(s) \/ PrepareTransaction(s)
  <2>1. UNCHANGED <<hash, table>> /\ pc'[s] # "enter"
    BY <1>0, <1>10, ZenonT(60) DEF CommitAdd, CommitEnd, PrepareTransaction, InTxn
  <2> QED
    BY <1>3, <1>4, <1>10, <2>1, ZenonT(60) DEF Passes
<1>11. CASE CommitTransaction(s) \/ Finishes(s)
  <2>1. pc[s] = "idle" /\ pc'[s] = "callback" /\ UNCHANGED hash
    BY <1>0, <1>11, ZenonT(60) DEF CommitTransaction, InTxn, Finishes, FinishPrepared
  <2>2. \A k \in Key : Due(k) => Due(k)'
    BY <1>11, DueStays, ZenonT(60) DEF Passes
  <2>3. ASSUME NEW k \in Key
        PROVE  table'[k] = table[k] \/ Due(k)'
    <3>1. \/ table' = table
          \/ table' = Apply(writes[s])
          \/ \E p \in prepared : p.by = s /\ table' = Apply(p.writes)
      BY <1>11, ZenonT(60) DEF CommitTransaction, Finishes, FinishPrepared
    <3>2. table'[k] = table[k] \/ Wrote(s, k, table'[k])
      BY <3>1, ZenonT(60) DEF Apply, Wrote
    <3>3. PICK v \in Value : v = table'[k]
      BY <1>0, ZenonT(60)
    <3>4. Wrote(s, k, v) => Updates(s, k, v)
      BY <1>1, ZenonT(60) DEF Pairs
    <3>5. Updates(s, k, v)' <=> Updates(s, k, v)
      BY <1>11, SameUpdates, ZenonT(60) DEF Passes
    <3> QED
      BY <2>1, <3>2, <3>3, <3>4, <3>5, ZenonT(60) DEF Due
  <2> QED
    BY <1>2, <1>3, <2>1, <2>2, <2>3, CacheStep, ZenonT(60)
<1>12. CASE CommitUpdate(s)
  <2>1. PICK k \in Key, v \in Value :
          /\ toCommit[s] # <<>> /\ Head(toCommit[s]) = [do |-> "U", key |-> k, inode |-> v]
          /\ pc[s] = "callback"
          /\ toCommit' = [toCommit EXCEPT ![s] = Tail(@)]
          /\ \/ hash' = [hash EXCEPT ![k] = v]
             \/ hash[k] = Absent /\ hash' = hash
          /\ UNCHANGED <<table, held, pc, op, seen, evict, writes, phase, prepared>>
    BY <1>12, CommitUpdateEffect, ZenonT(60)
  <2>2. Updates(s, k, v)
    BY <2>1, UpdatesTail, ZenonT(60)
  <2>3. hash[k] # Absent
    <3>1. held[s][k] = "exclusive"
      BY <2>2, ZenonT(60) DEF WriteInv
    <3> QED
      BY <3>1, ZenonT(60) DEF LockedEntryStays, Pins, Cached
  <2>4. ~Wrote(s, k, v)
    <3>1. DOMAIN writes[s] = {}
      BY <2>1, ZenonT(60) DEF WriteInv
    <3>2. \A p \in prepared : p.by # s
      BY <1>1, <2>1, ZenonT(60) DEF RowInv
    <3> QED
      BY <3>1, <3>2, ZenonT(60) DEF Wrote
  <2>5. table[k] = v
    BY <1>1, <2>2, <2>4, ZenonT(60) DEF Pairs
  <2>6. hash' = [hash EXCEPT ![k] = v] /\ hash'[k] = v
    BY <1>0, <2>1, <2>3, ZenonT(60)
  <2>7. ASSUME NEW l \in Key, Due(l), l # k
        PROVE  Due(l)'
    <3>1. PICK t \in Session, w \in Value : pc[t] = "callback" /\ Updates(t, l, w)
      BY <2>7, ZenonT(60) DEF Due
    <3>2. CASE t = s
      <4>1. Head(toCommit[s]) # [do |-> "U", key |-> l, inode |-> w]
        BY <2>1, <2>7, SMTT(60)
      <4>2. Updates(s, l, w)'
        BY <2>1, <3>1, <3>2, <4>1, UpdatesTail, ZenonT(60)
      <4> QED
        BY <2>1, <3>1, <3>2, <4>2, ZenonT(60) DEF Due
    <3>3. CASE t # s
      <4>1. toCommit'[t] = toCommit[t]
        BY <3>3, OthersKeep, ZenonT(60)
      <4>2. Updates(t, l, w)'
        BY <3>1, <4>1, ZenonT(60) DEF Updates
      <4> QED
        BY <2>1, <3>1, <4>2, ZenonT(60) DEF Due
    <3> QED
      BY <3>2, <3>3, ZenonT(60)
  <2>8. \A l \in Key : Due(l) => Due(l)' \/ (hash'[l] \in Value /\ hash'[l] = table'[l])
    BY <2>1, <2>5, <2>6, <2>7, ZenonT(60)
  <2>9. \A l \in Key : hash'[l] = hash[l] \/ (hash'[l] \in Value => hash'[l] = table'[l] \/ Due(l)')
    BY <1>0, <2>1, <2>5, <2>6, ZenonT(60)
  <2> QED
    BY <1>2, <1>3, <2>1, <2>8, <2>9, CacheStep, ZenonT(60)
<1> QED
  BY <1>1, <1>5, <1>6, <1>7, <1>8, <1>9, <1>10, <1>11, <1>12, ZenonT(60)
     DEF Step, Local, InCall, TwoPhase, RollsBack, Finishes

-----------------------------------------------------------------------------
LEMMA InitEstablishes == Init => IInv
<1> SUFFICES ASSUME Init PROVE IInv
  BY ZenonT(60)
<1>1. TypeOK
  <2>1. 1 \in Value /\ NotExist \in Value
    BY PartitionTypes, MarksAreNoValues, ZenonT(60) DEF Init
  <2>2. NoWrites \in Rows
    <3>1. NoWrites \in [{} -> Value]
      BY ZenonT(60) DEF NoWrites
    <3> QED
      BY <3>1, ZenonT(60) DEF Rows
  <2>3. NoEvict \in [at : {"no", "start", "choose", "chosen", "removed"}, key : Key \cup {NoKey}]
    BY ZenonT(60) DEF NoEvict
  <2>4. <<>> \in Seq(Action)
    BY SMTT(60)
  <2>5. table \in [Key -> Value]
    BY <2>1, ZenonT(60) DEF Init
  <2> QED
    BY <2>2, <2>3, <2>4, <2>5, SMTT(60) DEF Init, TypeOK
<1>2. CallInv /\ LockedEntryStays /\ LockInv /\ KnownInv
  BY ZenonT(60) DEF Init, CallInv, InACall, LockedEntryStays, Pins, LockInv, Excludes, HasItsLock, KnownInv
<1>3. EvictInv
  BY ZenonT(60) DEF Init, EvictInv, NoEvict
<1>4. KeysInv
  BY SMTT(60) DEF Init, KeysInv, Cached
<1>5. CountIsExact
  <2>1. Entries = {} /\ {s \in Session : evict[s].at = "removed"} = {}
    BY ZenonT(60) DEF Init, Entries, Cached, NoEvict
  <2>2. Cardinality(Entries) = 0 /\ Cardinality({s \in Session : evict[s].at = "removed"}) = 0
    BY <2>1, FS_EmptySet, ZenonT(60)
  <2>3. count = 0
    BY ZenonT(60) DEF Init
  <2> QED
    BY <2>2, <2>3, SMTT(60) DEF CountIsExact
<1>6. \A s \in Session, k \in Key, v \in Value : ~Updates(s, k, v) /\ ~Wrote(s, k, v)
  BY SMTT(60) DEF Init, Updates, Wrote, NoWrites
<1>7. WriteInv
  BY <1>6, ZenonT(60) DEF Init, WriteInv, NoWrites
<1>8. RowInv
  BY <1>6, ZenonT(60) DEF Init, RowInv
<1>9. CacheInv
  BY MarksAreNoValues, ZenonT(60) DEF Init, CacheInv, NoEvict
<1> QED
  BY <1>1, <1>2, <1>3, <1>4, <1>5, <1>7, <1>8, <1>9, ZenonT(60) DEF IInv

LEMMA CacheInvParts ==
    CacheInv <=> (Undisturbed => /\ \A t \in Session : NotEvicting(t)
                                 /\ \A k \in Key : Agreeing(k)
                                 /\ \A t \in Session : ReadIsFresh(t))
BY ZenonT(60) DEF CacheInv, NotEvicting, Agreeing, ReadIsFresh

LEMMA StepKeepsIInv ==
    ASSUME IInv, NEW s \in Session, UNCHANGED part, Step(s)
    PROVE  IInv'
<1> USE DEF IInv
<1>1. TypeOK' /\ CallInv' /\ EvictInv' /\ KeysInv'
  BY StepTypes, StepKeepsCallInv, StepKeepsEvictInv, StepKeepsKeysInv, ZenonT(60)
<1>2. LockedEntryStays' /\ CountIsExact'
  BY StepKeepsLocked, StepKeepsCount, ZenonT(60)
<1>3. LockInv' /\ KnownInv' /\ WriteInv'
  BY StepKeepsLockInv, StepKeepsKnownInv, StepKeepsWriteInv, ZenonT(60)
<1>4. RowInv'
  BY StepKeepsRowInv, ZenonT(60)
<1>5. CacheInv'
  <2> SUFFICES ASSUME Undisturbed
               PROVE  /\ \A t \in Session : NotEvicting(t)'
                      /\ \A k \in Key : Agreeing(k)'
                      /\ \A t \in Session : ReadIsFresh(t)'
    BY ZenonT(60) DEF Undisturbed, ClearBegin, CacheInv, NotEvicting, Agreeing, ReadIsFresh
  <2>1. /\ \A t \in Session : NotEvicting(t)
        /\ \A k \in Key : Agreeing(k)
        /\ \A t \in Session : ReadIsFresh(t)
    BY CacheInvParts, ZenonT(60)
  <2>2. (\A t \in Session : NotEvicting(t)') /\ ~RemoveVictim(s)
    BY <2>1, StepKeepsNotEvicting, ZenonT(60)
  <2>3. (\A k \in Key : Agreeing(k)') /\ (\A t \in Session : ReadIsFresh(t)')
    BY <1>1, <2>1, <2>2, StepKeepsCache, ZenonT(60)
  <2> QED
    BY <2>2, <2>3, ZenonT(60)
<1> QED
  BY <1>1, <1>2, <1>3, <1>4, <1>5, ZenonT(60)

(* A transaction that is finished elsewhere changes the table and nothing    *)
(* else of this; it happens where nothing is said of the two.                *)
LEMMA ElsewhereKeepsIInv ==
    ASSUME IInv, UNCHANGED part, "elsewhere" \in part.ends, Resolves
    PROVE  IInv'
<1>1. PICK p \in prepared, commit \in BOOLEAN : FinishElsewhere(p, commit)
  BY ZenonT(60) DEF Resolves
<1>2. UNCHANGED <<hash, count, held, pc, op, seen, evict, writes, toCommit, phase>>
  BY <1>1, ZenonT(60) DEF FinishElsewhere
<1>3. TypeOK'
  BY <1>1, FinishTypes, ZenonT(60) DEF IInv
<1>4. CallInv' /\ EvictInv' /\ KeysInv' /\ LockedEntryStays' /\ CountIsExact'
  BY <1>2, ZenonT(60)
  DEF IInv, CallInv, InACall, Locks, EvictInv, KeysInv, Cached, LockedEntryStays, Pins, CountIsExact, Entries
<1>5. LockInv' /\ KnownInv' /\ WriteInv'
  <2>1. LockInv'
    BY <1>2, ZenonT(60) DEF IInv, LockInv, Excludes, HasItsLock
  <2>2. KnownInv'
    BY <1>2, ZenonT(60) DEF IInv, KnownInv, Locks
  <2>3. \A s \in Session, k \in Key, v \in Value : Updates(s, k, v)' <=> Updates(s, k, v)
    BY <1>2, ZenonT(60) DEF Updates
  <2>4. WriteInv'
    BY <1>2, <2>3, ZenonT(60) DEF IInv, WriteInv
  <2> QED
    BY <2>1, <2>2, <2>4, ZenonT(60)
<1>6. RowInv' /\ CacheInv'
  BY ZenonT(60) DEF RowInv, CacheInv, Undisturbed
<1> QED
  BY <1>3, <1>4, <1>5, <1>6, ZenonT(60) DEF IInv

LEMMA StutterKeepsIInv ==
    ASSUME IInv, UNCHANGED vars
    PROVE  IInv'
<1> USE DEF vars
<1>1. TypeOK' /\ CallInv' /\ EvictInv' /\ KeysInv'
  BY ZenonT(60) DEF IInv, TypeOK, CallInv, InACall, Locks, EvictInv, KeysInv, Cached
<1>2. LockedEntryStays' /\ CountIsExact'
  BY ZenonT(60) DEF IInv, Cached, LockedEntryStays, Pins, CountIsExact, Entries
<1>3. LockInv' /\ KnownInv' /\ WriteInv'
  <2>1. LockInv'
    BY ZenonT(60) DEF IInv, LockInv, Excludes, HasItsLock
  <2>2. KnownInv'
    BY ZenonT(60) DEF IInv, KnownInv, Locks
  <2>3. \A s \in Session, k \in Key, v \in Value : Updates(s, k, v)' <=> Updates(s, k, v)
    BY ZenonT(60) DEF Updates
  <2>4. WriteInv'
    BY <2>3, ZenonT(60) DEF IInv, WriteInv
  <2> QED
    BY <2>1, <2>2, <2>4, ZenonT(60)
<1>4. \A s \in Session, k \in Key, v \in Value :
        /\ Updates(s, k, v)' <=> Updates(s, k, v)
        /\ Wrote(s, k, v)' <=> Wrote(s, k, v)
  BY ZenonT(60) DEF Updates, Wrote
<1>5. RowInv'
  BY <1>4, SMTT(60) DEF IInv, RowInv
<1>6. \A k \in Key : Due(k)' <=> Due(k)
  BY <1>4, ZenonT(60) DEF Due
<1>7. CacheInv'
  <2>1. \A t \in Session : ReadIsFresh(t) => ReadIsFresh(t)'
    <3> SUFFICES ASSUME NEW t \in Session, ReadIsFresh(t), pc[t] = "enter"
                 PROVE  ReadIsFresh(t)'
      BY ZenonT(60) DEF ReadIsFresh
    <3>1. PICK k \in Key : k = op[t].key
      BY ZenonT(60) DEF IInv, CallInv, InACall, CallRec
    <3> QED
      BY <1>6, <3>1, ZenonT(60) DEF ReadIsFresh
  <2>2. \A k \in Key : Agreeing(k) => Agreeing(k)'
    BY <1>6, ZenonT(60) DEF Agreeing
  <2>3. Undisturbed' => Undisturbed
    BY ZenonT(60) DEF Undisturbed, ClearBegin
  <2>4. Undisturbed' => /\ \A t \in Session : evict'[t].at \in {"no", "start"}
                        /\ \A k \in Key : Agreeing(k)'
                        /\ \A t \in Session : ReadIsFresh(t)'
    BY <2>1, <2>2, <2>3, CacheInvParts, ZenonT(60) DEF IInv, NotEvicting
  <2> QED
    BY <2>4, ZenonT(60) DEF CacheInv, Agreeing, ReadIsFresh
<1> QED
  BY <1>1, <1>2, <1>3, <1>5, <1>7, ZenonT(60) DEF IInv

(* The invariant holds in every behaviour.                                   *)
LEMMA IInvHolds == Spec => []IInv
<1>1. IInv /\ [Next]_vars => IInv'
  <2> SUFFICES ASSUME IInv, [Next]_vars PROVE IInv'
    BY ZenonT(60)
  <2>1. CASE Next
    BY <2>1, StepKeepsIInv, ElsewhereKeepsIInv, ZenonT(60) DEF Next, Step
  <2>2. CASE UNCHANGED vars
    BY <2>2, StutterKeepsIInv, ZenonT(60)
  <2> QED
    BY <2>1, <2>2, ZenonT(60)
<1> QED
  BY <1>1, InitEstablishes, PTL DEF Spec

-----------------------------------------------------------------------------
(* Eviction never takes an entry away that a session has locked or waits     *)
(* for: EliminateDirPathHashByLRU looks at its victim again under the        *)
(* exclusive LWLock, and a victim is never one that somebody uses by then.   *)
THEOREM LockedEntriesStay == Spec => []LockedEntryStays
<1>1. IInv => LockedEntryStays
  BY ZenonT(60) DEF IInv
<1> QED
  BY <1>1, IInvHolds, PTL

(* PathDirHashEntryCount, raised when an entry is made and lowered after the *)
(* LWLock of a removal has been given up, is never off by more than the      *)
(* removals that are on their way.                                           *)
THEOREM CounterIsExact == Spec => []CountIsExact
<1>1. IInv => CountIsExact
  BY ZenonT(60) DEF IInv
<1> QED
  BY <1>1, IInvHolds, PTL

(* While nothing has to be evicted and the sessions commit what they have    *)
(* prepared, an entry that nobody has locked exclusively agrees with its     *)
(* row, although the table is read before the entry is locked.               *)
THEOREM CacheIsCoherent == Spec => []Coherent
<1>1. IInv => Coherent
  <2> SUFFICES ASSUME IInv, Undisturbed, NEW k \in Key, Cached(k), hash[k] # Unknown,
                      \A s \in Session : held[s][k] # "exclusive"
               PROVE  hash[k] = table[k]
    BY ZenonT(60) DEF Coherent, Agrees
  <2>1. hash[k] \in Value
    BY ZenonT(60) DEF IInv, TypeOK, Cached
  <2>2. ~Due(k)
    BY ZenonT(60) DEF IInv, WriteInv, Due
  <2> QED
    BY <2>1, <2>2, ZenonT(60) DEF IInv, CacheInv
<1> QED
  BY <1>1, IInvHolds, PTL

(* A search that has locked the entry then returns what the table says.      *)
THEOREM LockedSearchesAreFresh == Spec => []LockedSearchIsFresh
<1>1. IInv => LockedSearchIsFresh
  <2> SUFFICES ASSUME IInv, Undisturbed, NEW s \in Session, pc[s] = "return", op[s].call = "search", Locks(s)
               PROVE  Returned(s) = Visible(s, op[s].key)
    BY ZenonT(60) DEF LockedSearchIsFresh
  <2>1. op[s] \in CallRec /\ op[s].key \in Key /\ op[s].mode \in DirPathLockMode
    BY ZenonT(60) DEF IInv, CallInv, InACall, CallRec
  <2>2. op[s].key \notin DOMAIN writes[s] /\ held[s][op[s].key] # "none"
    BY <2>1, ZenonT(60) DEF IInv, LockInv, HasItsLock, Locks, DirPathLockMode
  <2>3. hash[op[s].key] \in Value
    BY ZenonT(60) DEF IInv, KnownInv
  <2>4. ~Due(op[s].key)
    <3>1. ASSUME NEW t \in Session, NEW v \in Value, pc[t] = "callback", Updates(t, op[s].key, v)
          PROVE  FALSE
      <4>1. held[t][op[s].key] = "exclusive"
        BY <2>1, <3>1, SMTT(60) DEF IInv, WriteInv
      <4>2. t = s
        BY <2>1, <2>2, <4>1, ZenonT(60) DEF IInv, LockInv, Excludes
      <4> QED
        BY <3>1, <4>2, ZenonT(60)
    <3> QED
      BY <3>1, ZenonT(60) DEF Due
  <2>5. hash[op[s].key] = table[op[s].key]
    BY <2>1, <2>3, <2>4, ZenonT(60) DEF IInv, CacheInv
  <2> QED
    BY <2>2, <2>5, ZenonT(60) DEF Returned, Visible
<1> QED
  BY <1>1, IInvHolds, PTL
=============================================================================
