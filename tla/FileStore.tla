------------------------------ MODULE FileStore ------------------------------
(***************************************************************************)
(* A store node (cuckoo_store/): the data of one file in its disk cache    *)
(* and in the object storage, and everything that happens to the file at   *)
(* the same time: fuse calls on this node, rpc calls of other nodes, loads *)
(* in the thread pool, eviction, and the deletion of the file.             *)
(*                                                                         *)
(* An open instance is one open() of the file.  The threads that serve a   *)
(* Remote instance are the handlers of its rpc calls: a call that its      *)
(* client gave up after a timeout goes on here beside the next one.        *)
(*                                                                         *)
(* A file is written as a whole; its content is the instance that wrote it *)
(* last, "old" (what the storage held first), "empty" or "partial".  A     *)
(* descriptor is "linked" when it refers to the file under the cache path, *)
(* "lost" when that file has been removed.                                 *)
(***************************************************************************)
EXTENDS DiskCache, FileLock, SequencesExt

CONSTANTS
    Thread,
    Inst,
    Remote,     \* the instances other nodes opened here
    Writer,     \* opened for writing an existing file
    Creator,    \* opened for writing by create
    Large,      \* a large file opened for reading
    Small,      \* a small file opened for reading: read at once
    Deleter,    \* unlink calls, one each
    Scenario,   \* what a behaviour is about: the instances that are
                \* opened, the files in the cache, the size of the disk
    inode,      \* the file
    NoInst,
    MaxFaults   \* how often the object storage refuses a request

VARIABLES
    obs,        \* the content of the object, or "none"
    inst,       \* the open instances
    thr,        \* the threads
    task,       \* the load of the file that an instance asked for
    unlinked,   \* the metadata servers have removed the file
    faults

vars == <<cacheVars, lockVars, obs, inst, thr, task, unlinked, faults>>

IdleThread == [pc |-> "idle", i |-> NoInst, op |-> "none", use |-> "none",
               amt |-> 0, tries |-> 0, got |-> "none"]

NoTask == [pc |-> "none", holds |-> FALSE, sync |-> FALSE, data |-> "none", fd |-> "none"]

NewInst(i) == [st |-> "new", fd |-> "none", opened |-> FALSE,
               cur |-> IF i \in Creator THEN 0 ELSE Size,
               writes |-> FALSE, fail |-> FALSE, flushed |-> FALSE]

NoInstance == [st |-> "closed", fd |-> "none", opened |-> FALSE, cur |-> 0,
               writes |-> FALSE, fail |-> FALSE, flushed |-> FALSE]

Init ==
    \E s \in Scenario :
        /\ inst = [i \in Inst |-> IF i \in s.open THEN NewInst(i) ELSE NoInstance]
        /\ obs = IF s.open \cap Creator = {} THEN "old" ELSE "none"
        /\ path = [f \in File |-> IF f \in s.cached THEN "old" ELSE "none"]
        /\ \E items \in SetToSeqs(s.cached) :
               Start([k \in DOMAIN items |->
                         [file |-> items[k], size |-> Size, refs |-> 0]], s.cap)
        /\ LockInit
        /\ thr = [t \in Thread |-> IdleThread]
        /\ task = [i \in Inst |-> NoTask]
        /\ unlinked = FALSE
        /\ faults = 0

(***************************************************************************)
(* Helpers                                                                 *)
(***************************************************************************)
Goto(t, pc) == thr' = [thr EXCEPT ![t].pc = pc]

Return(t) == thr' = [thr EXCEPT ![t] = IdleThread]

MayWrite(i) == i \in Writer \cup Creator

(* open(..., O_CREAT) on the cache path *)
CreateFile == path' = IF path[inode] = "none" THEN [path EXCEPT ![inode] = "empty"] ELSE path

(* What remove() of the cache file does to the descriptors open on it. *)
Lost(x) == IF path[inode] # "none" /\ path'[inode] = "none" /\ x.fd = "linked"
           THEN [x EXCEPT !.fd = "lost"] ELSE x

LoseDescriptors ==
    /\ inst' = [i \in Inst |-> Lost(inst[i])]
    /\ task' = [i \in Inst |-> Lost(task[i])]

(* The thread goes on with the call that made it open the file. *)
Opened(t) ==
    LET r == thr[t] IN
    CASE r.op = "open"  -> Return(t)
      [] r.op = "write" -> thr' = [thr EXCEPT ![t].pc = "alloc", ![t].use = "write",
                                              ![t].amt = Size - inst[r.i].cur]
      [] r.op = "read"  -> Goto(t, "read")
      [] r.op = "small" -> Return(t)

(* The instance after OpenFile has returned 0, or an error. *)
OpenInst(t, fd) ==
    inst' = [inst EXCEPT ![thr[t].i] = IF thr[t].op = "small" THEN NoInstance
                                       ELSE [@ EXCEPT !.fd = fd, !.opened = TRUE, !.st = "open"]]

FailedInst(t) ==
    LET r == thr[t] IN
    inst' = [inst EXCEPT ![r.i] = IF r.op \in {"open", "small"} THEN NoInstance
                                  ELSE [@ EXCEPT !.fail = @ \/ r.op = "write"]]

(***************************************************************************)
(* A call begins.  Fuse calls on a local instance come one after another.  *)
(* The handler of an rpc call has looked the instance up and waits for its *)
(* closeMutex; to open is the first call.                                  *)
(***************************************************************************)
Ops(i) == IF i \in Small THEN {"small"}
          ELSE IF MayWrite(i) THEN {"write", "read", "flush", "close"}
          ELSE IF i \in Large THEN {"read", "flush", "close"} ELSE {}

Begin(t, i, op, pc) ==
    thr' = [thr EXCEPT ![t] = [IdleThread EXCEPT !.pc = pc, !.i = i, !.op = op]]

FuseCall(t, i, op) ==
    /\ thr[t].pc = "idle"
    /\ i \notin Remote /\ inst[i].st # "closed" /\ op \in Ops(i)
    /\ \A u \in Thread : thr[u].i # i
    /\ UNCHANGED <<cacheVars, lockVars, obs, task, unlinked, faults>>

(* A small file is read while it is opened, and needs no descriptor.       *)
CuckooOpen(t, i) ==
    /\ FuseCall(t, i, "small")
    /\ Begin(t, i, "small", "find")
    /\ UNCHANGED inst

(* The first write or read opens the cache file.                           *)
WriteFile(t, i) ==
    /\ FuseCall(t, i, "write")
    /\ inst' = [inst EXCEPT ![i].writes = TRUE]
    /\ thr' = [thr EXCEPT ![t] = [IdleThread EXCEPT
                   !.pc = IF inst[i].opened THEN "alloc" ELSE "find",
                   !.i = i, !.op = "write", !.use = "write", !.amt = Size - inst[i].cur]]

ReadFile(t, i) ==
    /\ FuseCall(t, i, "read") /\ inst[i].cur > 0
    /\ Begin(t, i, "read", IF inst[i].opened THEN "read" ELSE "find")
    /\ UNCHANGED inst

CuckooClose(t, i, op) ==
    /\ FuseCall(t, i, op)
    /\ Begin(t, i, op, "sync")
    /\ UNCHANGED inst

(* nodeFail: the client comes here because another node did not answer. *)
NewRpc(t, i, op) ==
    /\ thr[t].pc = "idle" /\ i \in Remote
    /\ inst[i].st = "new" /\ \A u \in Thread : thr[u].i # i
    /\ \E pc \in {"find", "old"} : Begin(t, i, op, pc)
    /\ UNCHANGED <<cacheVars, lockVars, obs, inst, task, unlinked, faults>>

OpenFileRpc(t, i) == i \notin Small /\ NewRpc(t, i, "open")
ReadSmallFileRpc(t, i) == i \in Small /\ NewRpc(t, i, "small")

(* The other handlers look the instance up first. *)
GetOpenInstanceByFd(t, i, op) ==
    /\ thr[t].pc = "idle" /\ i \in Remote
    /\ inst[i].st = "open" /\ op \in Ops(i)
    /\ Begin(t, i, op, "lock")
    /\ UNCHANGED <<cacheVars, lockVars, obs, inst, task, unlinked, faults>>

(* The threads that hold closeMutex of i, shared or not *)
Holders(i) == {u \in Thread : thr[u].i = i /\ thr[u].pc # "lock" /\ inst[i].st # "new"}

MayLock(t, i) ==
    \A u \in Holders(i) : {thr[u].op, thr[t].op} \cap {"flush", "close"} = {}

HandlerFindsClosed(t) ==
    LET r == thr[t] IN
    /\ r.pc = "lock" /\ MayLock(t, r.i) /\ inst[r.i].st = "closed"
    /\ Return(t)
    /\ UNCHANGED <<cacheVars, lockVars, obs, inst, task, unlinked, faults>>

(* A variant that does not look whether the instance is closed. *)
MayUseClosed(t) == thr[t].pc = "lock" /\ MayLock(t, thr[t].i)

MayUse(t) == thr[t].pc = "lock" /\ MayLock(t, thr[t].i) /\ inst[thr[t].i].st # "closed"

(* writeCnt++, then WriteLocalFileForBrpc *)
WriteLocalFile(t) ==
    /\ inst' = [inst EXCEPT ![thr[t].i].writes = TRUE]
    /\ thr' = [thr EXCEPT ![t].pc = "alloc", ![t].use = "write",
                          ![t].amt = Size - inst[thr[t].i].cur]

HandleWrite(t) ==
    /\ thr[t].op = "write" /\ MayUse(t)
    /\ WriteLocalFile(t)
    /\ UNCHANGED <<cacheVars, lockVars, obs, task, unlinked, faults>>

HandleRead(t) ==
    /\ thr[t].op = "read" /\ MayUse(t)
    /\ Goto(t, "read")
    /\ UNCHANGED <<cacheVars, lockVars, obs, inst, task, unlinked, faults>>


(* A flush or close may carry the rest of the client's buffer. *)
HandleClose(t) ==
    /\ thr[t].op \in {"flush", "close"} /\ MayUse(t)
    /\ \/ MayWrite(thr[t].i) /\ WriteLocalFile(t)
       \/ Goto(t, "sync") /\ UNCHANGED inst
    /\ UNCHANGED <<cacheVars, lockVars, obs, task, unlinked, faults>>

(***************************************************************************)
(* OpenFile, and ReadSmallFiles, which opens and reads at once             *)
(***************************************************************************)
DropOld(t) ==
    /\ thr[t].pc = "old"
    /\ DeleteOldCacheWithNoPin(inode)
    /\ LoseDescriptors
    /\ Goto(t, "find")
    /\ UNCHANGED <<lockVars, obs, unlinked, faults>>

(* A hit pins the file.  On a miss a writer loads the file and waits for   *)
(* it, a creator makes it, a reader has it loaded and does not wait.       *)
FindFile(t) ==
    LET i == thr[t].i IN
    /\ thr[t].pc = "find" /\ i \notin Small
    /\ Find(inode, TRUE)
    /\ Goto(t, CASE InCache(inode)                       -> "openhit"
                 [] ~InCache(inode) /\ i \in Writer      -> "wait"
                 [] ~InCache(inode) /\ i \in Creator     -> "create"
                 [] ~InCache(inode) /\ i \in Large       -> "try")
    /\ UNCHANGED <<lockVars, obs, inst, task, unlinked, faults>>

(* On a miss the caller on this node reads the object; the one on another  *)
(* node is told to do so, and the file is loaded.                          *)
LookForSmallFile(t, miss) ==
    /\ thr[t].pc = "find"
    /\ Find(inode, TRUE)
    /\ Goto(t, IF InCache(inode) THEN "openhit" ELSE miss)
    /\ UNCHANGED <<lockVars, obs, inst, task, unlinked, faults>>

ReadSmallFiles(t) == thr[t].i \in Small \ Remote /\ LookForSmallFile(t, "fetch")
ReadSmallFilesForBrpc(t) == thr[t].i \in Small \cap Remote /\ LookForSmallFile(t, "try")

OpenCached(t) ==
    /\ thr[t].pc = "openhit" /\ thr[t].op # "small"
    /\ IF path[inode] = "none"
       THEN Goto(t, "unpinfail") /\ UNCHANGED inst
       ELSE OpenInst(t, "linked") /\ Opened(t)
    /\ UNCHANGED <<cacheVars, lockVars, obs, task, unlinked, faults>>

ReadCachedSmallFile(t) ==
    /\ thr[t].pc = "openhit" /\ thr[t].op = "small"
    /\ IF path[inode] = "none" THEN Goto(t, "unpinfail")
       ELSE thr' = [thr EXCEPT ![t].pc = "unpin", ![t].got = path[inode]]
    /\ UNCHANGED <<cacheVars, lockVars, obs, inst, task, unlinked, faults>>

UnpinFailed(t) ==
    /\ thr[t].pc = "unpinfail"
    /\ Unpin(inode)
    /\ FailedInst(t) /\ Return(t)
    /\ UNCHANGED <<lockVars, obs, task, unlinked, faults>>

CreateCached(t) ==
    LET r == thr[t] IN
    /\ r.pc = "create"
    /\ CreateFile
    /\ IF r.i \in Creator
       THEN inst' = [inst EXCEPT ![r.i].fd = "linked"] /\ Goto(t, "insert")
       ELSE OpenInst(t, "linked") /\ Opened(t)
    /\ UNCHANGED <<cacheItems, usedCap, freeCap, reservedCap, looping, totalCap>>
    /\ UNCHANGED <<lockVars, obs, task, unlinked, faults>>

InsertCreated(t) ==
    /\ thr[t].pc = "insert"
    /\ InsertAndUpdate(inode, 0, TRUE)
    /\ OpenInst(t, inst[thr[t].i].fd) /\ Opened(t)
    /\ UNCHANGED <<lockVars, obs, task, unlinked, faults>>

(* ReadSmallFiles on this node, on a miss: the object, or an error *)
FetchObject(t) ==
    /\ thr[t].pc = "fetch"
    /\ \/ /\ obs # "none"
          /\ thr' = [thr EXCEPT ![t].pc = "try", ![t].got = obs]
          /\ UNCHANGED <<inst, faults>>
       \/ /\ obs = "none" \/ faults < MaxFaults
          /\ faults' = IF obs = "none" THEN faults ELSE faults + 1
          /\ FailedInst(t) /\ Return(t)
    /\ UNCHANGED <<cacheVars, lockVars, obs, task, unlinked>>

(***************************************************************************)
(* DownLoadFromStorage (a writer waits for the lock and for the load) and  *)
(* WriteToFileAsync (a reader tries the lock and leaves the rest to the    *)
(* thread pool).                                                           *)
(***************************************************************************)
WaitLock(t) ==
    /\ thr[t].pc = "wait"
    /\ \/ Acquire /\ Goto(t, "refind")
       \/ Enqueue(t) /\ Goto(t, "waiting")
    /\ UNCHANGED <<cacheVars, obs, inst, task, unlinked, faults>>

WakeUp(t) ==
    /\ thr[t].pc = "waiting"
    /\ \/ AcquireAfterWait(t) /\ Goto(t, "refind")
       \/ WaitAgain(t) /\ UNCHANGED thr
    /\ UNCHANGED <<cacheVars, obs, inst, task, unlinked, faults>>

TryLock(t) ==
    /\ thr[t].pc = "try"
    /\ \/ Acquire /\ Goto(t, "refind") /\ UNCHANGED inst
       \/ locked /\ OpenInst(t, "none") /\ Opened(t) /\ UNCHANGED lockVars
    /\ UNCHANGED <<cacheVars, obs, task, unlinked, faults>>


(* Under the lock: another thread may have brought the file in. *)
FindAgain(t) ==
    LET sync == thr[t].i \in Writer IN
    /\ thr[t].pc = "refind"
    /\ Find(inode, sync)
    /\ IF ~InCache(inode)
       THEN /\ thr' = [thr EXCEPT ![t].pc = "alloc", ![t].use = "load", ![t].amt = Size]
            /\ UNCHANGED <<lockVars, inst>>
       ELSE /\ ReleaseFileLock
            /\ IF sync THEN Goto(t, "create") /\ UNCHANGED inst
                       ELSE OpenInst(t, "none") /\ Opened(t)
    /\ UNCHANGED <<obs, task, unlinked, faults>>

(***************************************************************************)
(* PreAllocSpace, for a load or for a write.  allocMutex is held while     *)
(* files are evicted, which is tried three times.                          *)
(***************************************************************************)
AllocMutexFree == \A u \in Thread : thr[u].pc \notin {"evict", "evicted"}

Reserved(t) ==
    /\ Reserve(thr[t].amt)
    /\ Goto(t, IF thr[t].use = "load" THEN "spawn" ELSE "pwrite")
    /\ UNCHANGED <<lockVars, inst>>

(* -ENOSPC: a load gives its lock back, a write of a fuse call marks the   *)
(* instance, the handler of a flush or close goes on with its flush.       *)
NoSpace(t) ==
    LET r == thr[t] IN
    /\ UNCHANGED cacheVars
    /\ IF r.use = "load" THEN ReleaseFileLock /\ FailedInst(t) /\ Return(t)
       ELSE /\ inst' = [inst EXCEPT ![r.i].fail = @ \/ r.i \notin Remote]
            /\ IF r.op = "write" THEN Return(t) ELSE Goto(t, "sync")
            /\ UNCHANGED lockVars

PreAllocSpace(t) ==
    /\ thr[t].pc = "alloc" /\ AllocMutexFree
    /\ IF Fits(thr[t].amt) THEN Reserved(t)
       ELSE /\ thr' = [thr EXCEPT ![t].pc = "evict", ![t].tries = 3]
            /\ UNCHANGED <<cacheVars, lockVars, inst>>
    /\ UNCHANGED <<obs, task, unlinked, faults>>

EvictForSpace(t) ==
    /\ thr[t].pc = "evict"
    /\ Evict(thr[t].amt)
    /\ LoseDescriptors
    /\ IF looping' THEN UNCHANGED thr
       ELSE thr' = [thr EXCEPT ![t].pc = "evicted", ![t].tries = @ - 1]
    /\ UNCHANGED <<lockVars, obs, unlinked, faults>>

TryReserve(t) ==
    /\ thr[t].pc = "evicted"
    /\ CASE Fits(thr[t].amt) -> Reserved(t)
         [] ~Fits(thr[t].amt) /\ thr[t].tries = 0 -> NoSpace(t)
         [] OTHER -> Goto(t, "evict") /\ UNCHANGED <<cacheVars, lockVars, inst>>
    /\ UNCHANGED <<obs, task, unlinked, faults>>

(***************************************************************************)
(* The load.  A writer runs it itself; for a reader it is a task of the    *)
(* thread pool.  The task of WriteToFileAsync keeps the file lock, the     *)
(* task of DownLoadFromStorage does not capture it: the lock is given back *)
(* when DownLoadFromStorage returns.                                       *)
(***************************************************************************)
MakeTask(i, pc, data, keepsLock) ==
    /\ CreateFile
    /\ task' = [task EXCEPT ![i] = [pc |-> pc, holds |-> keepsLock, sync |-> i \in Writer,
                                    data |-> data, fd |-> "linked"]]
    /\ IF keepsLock THEN UNCHANGED lockVars ELSE ReleaseFileLock
    /\ UNCHANGED <<cacheItems, usedCap, freeCap, reservedCap, looping, totalCap>>
    /\ UNCHANGED <<obs, unlinked, faults>>

StartLoad(t) ==
    LET i == thr[t].i IN
    /\ thr[t].pc = "spawn" /\ i \notin Small
    /\ MakeTask(i, "read", "none", i \in Writer)
    /\ IF i \in Writer THEN Goto(t, "loading") /\ UNCHANGED inst
                       ELSE OpenInst(t, "none") /\ Opened(t)

StartLoadForBrpc(t) ==
    LET i == thr[t].i IN
    /\ thr[t].pc = "spawn" /\ i \in Small \cap Remote
    /\ MakeTask(i, "read", "none", FALSE)
    /\ OpenInst(t, "none") /\ Opened(t)

(* The content is what was read before the lock was taken. *)
WriteToFileAsync(t) ==
    LET i == thr[t].i IN
    /\ thr[t].pc = "spawn" /\ i \in Small \ Remote
    /\ MakeTask(i, "write", thr[t].got, TRUE)
    /\ OpenInst(t, "none") /\ Opened(t)

WriteThrough(x, data) == path' = IF x.fd = "linked" THEN [path EXCEPT ![inode] = data] ELSE path

(* ReadObject, first and last part *)
LoadPart(i) ==
    /\ task[i].pc = "read" /\ obs # "none"
    /\ WriteThrough(task[i], IF path[inode] = obs THEN obs ELSE "partial")
    /\ task' = [task EXCEPT ![i].pc = "write", ![i].data = obs]
    /\ UNCHANGED <<cacheItems, usedCap, freeCap, reservedCap, looping, totalCap>>
    /\ UNCHANGED <<lockVars, obs, inst, thr, unlinked, faults>>

LoadRest(i) ==
    /\ task[i].pc = "write"
    /\ WriteThrough(task[i], task[i].data)
    /\ task' = [task EXCEPT ![i].pc = "insert", ![i].fd = "none"]
    /\ UNCHANGED <<cacheItems, usedCap, freeCap, reservedCap, looping, totalCap>>
    /\ UNCHANGED <<lockVars, obs, inst, thr, unlinked, faults>>

(* A variant that does not look at what ReadObject returned. *)
LoadFailsUnseen(i) ==
    /\ task[i].pc = "write" /\ i \notin Small \ Remote
    /\ faults < MaxFaults /\ faults' = faults + 1
    /\ task' = [task EXCEPT ![i].pc = "insert", ![i].fd = "none"]
    /\ UNCHANGED <<cacheVars, lockVars, obs, inst, thr, unlinked>>

(* ReadObject fails: the cache file is removed. *)
LoadFails(i) ==
    /\ task[i].pc \in {"read", "write"}
    /\ IF obs = "none" /\ task[i].pc = "read" THEN UNCHANGED faults
       ELSE i \notin Small \ Remote /\ faults < MaxFaults /\ faults' = faults + 1
    /\ RemoveFiles({inode})
    /\ inst' = [j \in Inst |-> Lost(inst[j])]
    /\ task' = [j \in Inst |-> IF j = i THEN [task[i] EXCEPT !.pc = "failed", !.fd = "none"]
                                        ELSE Lost(task[j])]
    /\ UNCHANGED <<cacheItems, usedCap, freeCap, reservedCap, looping, totalCap>>
    /\ UNCHANGED <<lockVars, obs, thr, unlinked>>

InsertLoaded(i) ==
    /\ task[i].pc = "insert"
    /\ InsertAndUpdate(inode, Size, task[i].sync)
    /\ task' = [task EXCEPT ![i].pc = "loaded"]
    /\ UNCHANGED <<lockVars, obs, inst, thr, unlinked, faults>>

(* A variant that gives the reservation back only after a success. *)
LoadEndsReserved(i) ==
    LET t == CHOOSE u \in Thread : thr[u].i = i IN
    /\ task[i].pc \in {"loaded", "failed"} /\ AllocMutexFree
    /\ IF task[i].pc = "loaded" THEN FreePreAllocSpace(Size) ELSE UNCHANGED cacheVars
    /\ IF task[i].holds THEN ReleaseFileLock ELSE UNCHANGED lockVars
    /\ task' = [task EXCEPT ![i] = NoTask]
    /\ CASE ~task[i].sync -> UNCHANGED <<inst, thr>>
         [] task[i].sync /\ task[i].pc = "loaded" -> Goto(t, "create") /\ UNCHANGED inst
         [] OTHER -> FailedInst(t) /\ Return(t)
    /\ UNCHANGED <<obs, unlinked, faults>>

LoadEnds(i) ==
    LET t == CHOOSE u \in Thread : thr[u].i = i IN
    /\ task[i].pc \in {"loaded", "failed"} /\ AllocMutexFree
    /\ FreePreAllocSpace(Size)
    /\ IF task[i].holds THEN ReleaseFileLock ELSE UNCHANGED lockVars
    /\ task' = [task EXCEPT ![i] = NoTask]
    /\ CASE ~task[i].sync -> UNCHANGED <<inst, thr>>
         [] task[i].sync /\ task[i].pc = "loaded" -> Goto(t, "create") /\ UNCHANGED inst
         [] OTHER -> FailedInst(t) /\ Return(t)
    /\ UNCHANGED <<obs, unlinked, faults>>

(***************************************************************************)
(* WriteStream::PersistToFile for a fuse call, WriteLocalFileForBrpc for   *)
(* the handler of an rpc call                                              *)
(***************************************************************************)
WriteContent(t) ==
    /\ thr[t].pc = "pwrite"
    /\ WriteThrough(inst[thr[t].i], thr[t].i)
    /\ Goto(t, "grow")
    /\ UNCHANGED <<cacheItems, usedCap, freeCap, reservedCap, looping, totalCap>>
    /\ UNCHANGED <<lockVars, obs, inst, task, unlinked, faults>>

PersistToFile(t) == thr[t].i \notin Remote /\ WriteContent(t)

CutIntoFile(t) == thr[t].i \in Remote /\ WriteContent(t)

AddToEntry(t) ==
    /\ thr[t].pc = "grow" /\ thr[t].i \notin Remote
    /\ Add(inode, thr[t].amt)
    /\ Goto(t, IF InCache(inode) THEN "written" ELSE "unwritten")
    /\ UNCHANGED <<lockVars, obs, inst, task, unlinked, faults>>

UpdateEntry(t) ==
    LET i == thr[t].i IN
    /\ thr[t].pc = "grow" /\ i \in Remote
    /\ Update(inode, Size)
    /\ inst' = [inst EXCEPT ![i].cur = Size]
    /\ Goto(t, IF InCache(inode) THEN "written" ELSE "unwritten")
    /\ UNCHANGED <<lockVars, obs, task, unlinked, faults>>

(* Only a fuse call remembers in the instance that a write has failed. *)
WriteEnds(t) ==
    LET r == thr[t]
        ok == r.pc = "written"
    IN  /\ r.pc \in {"written", "unwritten"} /\ AllocMutexFree
        /\ FreePreAllocSpace(r.amt)
        /\ inst' = [inst EXCEPT ![r.i].cur = IF ok THEN Size ELSE @,
                                ![r.i].fail = @ \/ (~ok /\ r.i \notin Remote)]
        /\ IF r.op = "write" THEN Return(t)
           ELSE thr' = [thr EXCEPT ![t].pc = "sync", ![t].amt = 0]
        /\ UNCHANGED <<lockVars, obs, task, unlinked, faults>>

(***************************************************************************)
(* ReadFileLR.  A handler that cannot read the cache file returns an error *)
(* and the client reads the object.                                        *)
(***************************************************************************)
TestLock(t) ==
    LET r == thr[t] IN
    /\ r.pc = "read"
    /\ Goto(t, IF inst[r.i].fd # "none" /\ ~TestLocked THEN "pread" ELSE "readobs")
    /\ UNCHANGED <<cacheVars, lockVars, obs, inst, task, unlinked, faults>>

ReadData(t) ==
    LET r == thr[t] IN
    /\ r.pc \in {"pread", "readobs"}
    /\ thr' = [thr EXCEPT ![t].pc = "answer",
                          ![t].got = CASE r.pc = "readobs"            -> obs
                                       [] inst[r.i].fd = "linked"     -> path[inode]
                                       [] OTHER                       -> "none"]
    /\ UNCHANGED <<cacheVars, lockVars, obs, inst, task, unlinked, faults>>

Answer(t) ==
    /\ thr[t].pc = "answer"
    /\ Return(t)
    /\ UNCHANGED <<cacheVars, lockVars, obs, inst, task, unlinked, faults>>

(***************************************************************************)
(* CloseTmpFiles, to flush or to close; a close flushes first unless a     *)
(* flush has come before.  What is uploaded is the file under the cache    *)
(* path, whatever the descriptor refers to.                                *)
(***************************************************************************)
CloseInst(i) == inst' = [inst EXCEPT ![i] = NoInstance]

NothingToClose(t) ==
    LET r == thr[t] IN
    /\ r.pc = "sync" /\ inst[r.i].fd = "none"
    /\ IF r.op = "close" THEN CloseInst(r.i) ELSE UNCHANGED inst
    /\ Return(t)
    /\ UNCHANGED <<cacheVars, lockVars, obs, task, unlinked, faults>>

FlushSize(t) ==
    LET r == thr[t] IN
    /\ r.pc = "sync" /\ inst[r.i].fd # "none"
    /\ r.op = "flush" \/ ~inst[r.i].flushed
    /\ InsertAndUpdate(inode, inst[r.i].cur, FALSE)
    /\ inst' = [inst EXCEPT ![r.i].flushed = TRUE]
    /\ CASE inst[r.i].writes /\ ~inst[r.i].fail -> Goto(t, "put")
         [] OTHER -> IF r.op = "flush" THEN Return(t) ELSE Goto(t, "close")
    /\ UNCHANGED <<lockVars, obs, task, unlinked, faults>>

FlushToStorage(t) ==
    LET r == thr[t] IN
    /\ r.pc = "put"
    /\ \/ /\ path[inode] # "none"
          /\ obs' = path[inode]
          /\ inst' = [inst EXCEPT ![r.i].fail = FALSE]
          /\ UNCHANGED faults
       \/ /\ path[inode] = "none" \/ faults < MaxFaults
          /\ faults' = IF path[inode] = "none" THEN faults ELSE faults + 1
          /\ inst' = [inst EXCEPT ![r.i].fail = TRUE]
          /\ UNCHANGED obs
    /\ IF r.op = "flush" THEN Return(t) ELSE Goto(t, "close")
    /\ UNCHANGED <<cacheVars, lockVars, task, unlinked>>

CloseFlushed(t) ==
    LET r == thr[t] IN
    /\ \/ r.pc = "close"
       \/ r.pc = "sync" /\ r.op = "close" /\ inst[r.i].flushed /\ inst[r.i].fd # "none"
    /\ inst' = [inst EXCEPT ![r.i].fd = "none"]
    /\ Goto(t, "unpin")
    /\ UNCHANGED <<cacheVars, lockVars, obs, task, unlinked, faults>>

UnpinClosed(t) ==
    /\ thr[t].pc = "unpin"
    /\ Unpin(inode)
    /\ CloseInst(thr[t].i)
    /\ Return(t)
    /\ UNCHANGED <<lockVars, obs, task, unlinked, faults>>

(***************************************************************************)
(* CuckooUnlink: the metadata first, then DeleteFiles                      *)
(***************************************************************************)
Unlink(t, i) ==
    /\ thr[t].pc = "idle" /\ i \in Deleter /\ inst[i].st = "new"
    /\ unlinked' = TRUE
    /\ inst' = [inst EXCEPT ![i] = NoInstance]
    /\ Begin(t, NoInst, "delete", "look")
    /\ UNCHANGED <<cacheVars, lockVars, obs, task, faults>>

FindToDelete(t) ==
    /\ thr[t].pc = "look"
    /\ Find(inode, FALSE)
    /\ Goto(t, IF InCache(inode) THEN "delete" ELSE "deleteobs")
    /\ UNCHANGED <<lockVars, obs, inst, task, unlinked, faults>>

DeleteCached(t) ==
    /\ thr[t].pc = "delete"
    /\ Delete(inode)
    /\ LoseDescriptors
    /\ IF InCache(inode) /\ path[inode] = "none" THEN Return(t) ELSE Goto(t, "deleteobs")
    /\ UNCHANGED <<lockVars, obs, unlinked, faults>>

DeleteObject(t) ==
    /\ thr[t].pc = "deleteobs"
    /\ \/ obs' = "none" /\ UNCHANGED faults
       \/ faults < MaxFaults /\ faults' = faults + 1 /\ UNCHANGED obs
    /\ Return(t)
    /\ UNCHANGED <<cacheVars, lockVars, inst, task, unlinked>>

(* The clean-up thread of the disk cache. *)
CleanUp ==
    /\ CheckFreeSpace
    /\ LoseDescriptors
    /\ UNCHANGED <<lockVars, obs, thr, unlinked, faults>>

Step(t) ==
    \/ HandlerFindsClosed(t) \/ HandleWrite(t) \/ HandleRead(t) \/ HandleClose(t)
    \/ DropOld(t) \/ FindFile(t) \/ ReadSmallFiles(t) \/ ReadSmallFilesForBrpc(t)
    \/ OpenCached(t) \/ ReadCachedSmallFile(t) \/ UnpinFailed(t)
    \/ CreateCached(t) \/ InsertCreated(t) \/ FetchObject(t)
    \/ WaitLock(t) \/ WakeUp(t) \/ TryLock(t) \/ FindAgain(t)
    \/ PreAllocSpace(t) \/ EvictForSpace(t) \/ TryReserve(t)
    \/ StartLoad(t) \/ StartLoadForBrpc(t) \/ WriteToFileAsync(t)
    \/ PersistToFile(t) \/ CutIntoFile(t) \/ AddToEntry(t) \/ UpdateEntry(t) \/ WriteEnds(t)
    \/ TestLock(t) \/ ReadData(t) \/ Answer(t)
    \/ NothingToClose(t) \/ FlushSize(t) \/ FlushToStorage(t) \/ CloseFlushed(t) \/ UnpinClosed(t)
    \/ FindToDelete(t) \/ DeleteCached(t) \/ DeleteObject(t)

Load(i) == LoadPart(i) \/ LoadRest(i) \/ LoadFails(i) \/ InsertLoaded(i) \/ LoadEnds(i)

Next ==
    \/ \E t \in Thread : Step(t)
    \/ \E t \in Thread, i \in Inst :
        \/ CuckooOpen(t, i) \/ WriteFile(t, i) \/ ReadFile(t, i) \/ Unlink(t, i)
        \/ \E op \in {"flush", "close"} : CuckooClose(t, i, op)
        \/ OpenFileRpc(t, i) \/ ReadSmallFileRpc(t, i)
        \/ \E op \in {"write", "read", "flush", "close"} : GetOpenInstanceByFd(t, i, op)
    \/ \E i \in Inst : Load(i)
    \/ CleanUp

Spec == Init /\ [][Next]_vars

-----------------------------------------------------------------------------

(* The space accounts of the disk cache agree with what they count: usedCap *)
(* with the sizes of the entries, reservedCap with the reservations of the  *)
(* loads and writes in progress, on every path out of them.                 *)
SpaceAccounted ==
    LET writing == {t \in Thread : thr[t].pc \in {"spawn", "pwrite", "grow", "written", "unwritten"}}
        loading == {i \in Inst : task[i].pc # "none"}
    IN  /\ usedCap = SizeOfItems
        /\ reservedCap = MapThenSumSet(LAMBDA t : thr[t].amt, writing)
                         + Size * Cardinality(loading)

(* A thread that waits for the file lock is not forgotten: while the lock   *)
(* is free, one of the waiting threads is awake.                            *)
WaiterIsWoken == waiting # {} /\ ~locked => notified # {}



(* No handler of a late rpc call uses the descriptor of an instance that    *)
(* another handler has closed.                                              *)
ClosedIsClosed ==
    \A t \in Thread : thr[t].pc \in {"pwrite", "pread", "put"} => inst[thr[t].i].fd # "none"

(* No read of a file that exists returns one that is only partly loaded, or *)
(* not loaded yet: only the file that was just created is read as empty.    *)
ReadsWhole ==
    unlinked \/ \A t \in Thread : /\ thr[t].got # "partial"
                                  /\ thr[t].got = "empty" => thr[t].i \in Creator


=============================================================================
