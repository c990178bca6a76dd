-------------------------- MODULE FileStoreProofs --------------------------
(***************************************************************************)
(* The file lock of a store node forgets no waiter, for any number of      *)
(* threads, instances and files.  Every step of the store either leaves    *)
(* the lock alone or makes one of the calls of file_lock.cpp, and each of  *)
(* those keeps a waiter awake while the lock is free.                      *)
(***************************************************************************)
EXTENDS FileStore, TLAPS

LockCall ==
    \/ UNCHANGED lockVars
    \/ Acquire
    \/ \E t \in Thread : Enqueue(t) \/ AcquireAfterWait(t) \/ WaitAgain(t)
    \/ ReleaseFileLock

(* No call of file_lock.cpp leaves the lock free with every waiter asleep.   *)
LEMMA LockCallWakes == WaiterIsWoken /\ LockCall => WaiterIsWoken'
<1> SUFFICES ASSUME WaiterIsWoken, LockCall PROVE WaiterIsWoken'
  BY ZenonT(60)
<1>1. CASE UNCHANGED lockVars
  BY <1>1, ZenonT(60) DEF WaiterIsWoken, lockVars
<1>2. CASE Acquire
  BY <1>2, ZenonT(60) DEF WaiterIsWoken, Acquire
<1>3. ASSUME NEW t \in Thread, Enqueue(t) \/ AcquireAfterWait(t) \/ WaitAgain(t)
      PROVE  WaiterIsWoken'
  BY <1>3, SMTT(60) DEF WaiterIsWoken, Enqueue, AcquireAfterWait, WaitAgain
<1>4. CASE ReleaseFileLock
  BY <1>4, ZenonT(60) DEF WaiterIsWoken, ReleaseFileLock
<1> QED
  BY <1>1, <1>2, <1>3, <1>4, ZenonT(60) DEF LockCall

(* The calls that begin: fuse calls, rpc calls and unlink (cuckoo_meta.cpp,  *)
(* brpc_main.cpp) do not touch the lock.                                     *)
LEMMA CallsLeaveLock ==
    ASSUME NEW t \in Thread, NEW i \in Inst, NEW op,
           \/ CuckooOpen(t, i) \/ WriteFile(t, i) \/ ReadFile(t, i) \/ Unlink(t, i)
           \/ CuckooClose(t, i, op)
           \/ OpenFileRpc(t, i) \/ ReadSmallFileRpc(t, i) \/ GetOpenInstanceByFd(t, i, op)
    PROVE  LockCall
  BY ZenonT(60) DEF LockCall, CuckooOpen, WriteFile, ReadFile, Unlink, CuckooClose, OpenFileRpc,
               ReadSmallFileRpc, GetOpenInstanceByFd, FuseCall, NewRpc

(* Handlers, reads, writes, flushes and deletions leave the lock alone       *)
(* (cuckoo_store.cpp; TestLocked only looks at it).                          *)
LEMMA UseLeavesLock ==
    ASSUME NEW t \in Thread,
           \/ HandlerFindsClosed(t) \/ HandleWrite(t) \/ HandleRead(t) \/ HandleClose(t)
           \/ DropOld(t) \/ FindFile(t) \/ ReadSmallFiles(t) \/ ReadSmallFilesForBrpc(t)
           \/ OpenCached(t) \/ ReadCachedSmallFile(t) \/ UnpinFailed(t)
           \/ CreateCached(t) \/ InsertCreated(t) \/ FetchObject(t) \/ EvictForSpace(t)
           \/ PersistToFile(t) \/ CutIntoFile(t) \/ AddToEntry(t) \/ UpdateEntry(t)
           \/ WriteEnds(t) \/ TestLock(t) \/ ReadData(t) \/ Answer(t)
           \/ NothingToClose(t) \/ FlushSize(t) \/ FlushToStorage(t) \/ CloseFlushed(t)
           \/ UnpinClosed(t) \/ FindToDelete(t) \/ DeleteCached(t) \/ DeleteObject(t)
    PROVE  LockCall
<1>1. CASE HandlerFindsClosed(t) \/ HandleWrite(t) \/ HandleRead(t) \/ HandleClose(t)
  BY <1>1, ZenonT(60) DEF LockCall, HandlerFindsClosed, HandleWrite, HandleRead, HandleClose
<1>2. CASE \/ DropOld(t) \/ FindFile(t) \/ ReadSmallFiles(t) \/ ReadSmallFilesForBrpc(t)
           \/ OpenCached(t) \/ ReadCachedSmallFile(t) \/ UnpinFailed(t)
  BY <1>2, ZenonT(60) DEF LockCall, DropOld, FindFile, ReadSmallFiles, ReadSmallFilesForBrpc,
                     LookForSmallFile, OpenCached, ReadCachedSmallFile, UnpinFailed
<1>3. CASE CreateCached(t) \/ InsertCreated(t) \/ FetchObject(t) \/ EvictForSpace(t)
  BY <1>3, ZenonT(60) DEF LockCall, CreateCached, InsertCreated, FetchObject, EvictForSpace
<1>4. CASE \/ PersistToFile(t) \/ CutIntoFile(t) \/ AddToEntry(t) \/ UpdateEntry(t)
           \/ WriteEnds(t) \/ TestLock(t) \/ ReadData(t) \/ Answer(t)
  BY <1>4, ZenonT(60) DEF LockCall, PersistToFile, CutIntoFile, WriteContent, AddToEntry,
                     UpdateEntry, WriteEnds, TestLock, ReadData, Answer
<1>5. CASE \/ NothingToClose(t) \/ FlushSize(t) \/ FlushToStorage(t) \/ CloseFlushed(t)
           \/ UnpinClosed(t) \/ FindToDelete(t) \/ DeleteCached(t) \/ DeleteObject(t)
  BY <1>5, ZenonT(60) DEF LockCall, NothingToClose, FlushSize, FlushToStorage, CloseFlushed,
                     UnpinClosed, FindToDelete, DeleteCached, DeleteObject
<1> QED
  BY <1>1, <1>2, <1>3, <1>4, <1>5, ZenonT(60)

(* DownLoadFromStorage, PreAllocSpace and WriteToFileAsync take the lock,    *)
(* wait for it or give it back; a step makes at most one such call.          *)
LEMMA LoadingCallsLock ==
    ASSUME NEW t \in Thread,
           \/ WaitLock(t) \/ WakeUp(t) \/ TryLock(t) \/ FindAgain(t)
           \/ PreAllocSpace(t) \/ TryReserve(t)
           \/ StartLoad(t) \/ StartLoadForBrpc(t) \/ WriteToFileAsync(t)
    PROVE  LockCall
<1>1. CASE WaitLock(t) \/ WakeUp(t)
  BY <1>1, ZenonT(60) DEF LockCall, WaitLock, WakeUp
<1>2. CASE TryLock(t) \/ FindAgain(t)
  BY <1>2, ZenonT(60) DEF LockCall, TryLock, FindAgain
<1>3. Reserved(t) \/ NoSpace(t) => LockCall
  BY ZenonT(60) DEF LockCall, Reserved, NoSpace
<1>4. CASE PreAllocSpace(t)
  BY <1>3, <1>4, ZenonT(60) DEF LockCall, PreAllocSpace
<1>5. CASE TryReserve(t)
  <2>1. \/ Reserved(t) \/ NoSpace(t) \/ UNCHANGED <<cacheVars, lockVars, inst>>
    BY <1>5, ZenonT(60) DEF TryReserve
  <2> QED
    BY <1>3, <2>1, ZenonT(60) DEF LockCall
<1>6. CASE StartLoad(t) \/ StartLoadForBrpc(t) \/ WriteToFileAsync(t)
  BY <1>6, ZenonT(60) DEF LockCall, StartLoad, StartLoadForBrpc, WriteToFileAsync, MakeTask
<1> QED
  BY <1>1, <1>2, <1>4, <1>5, <1>6, ZenonT(60)

(* The load of a file in a thread of the pool, which gives its lock back.    *)
LEMMA LoadCallsLock == ASSUME NEW i \in Inst, Load(i) PROVE LockCall
  BY ZenonT(60) DEF LockCall, Load, LoadPart, LoadRest, LoadFails, InsertLoaded, LoadEnds

LEMMA NextCallsLock == [Next]_vars => LockCall
<1> SUFFICES ASSUME [Next]_vars PROVE LockCall
  BY ZenonT(60)
<1>1. CASE UNCHANGED vars
  BY <1>1, ZenonT(60) DEF LockCall, vars
<1>2. CASE \E t \in Thread : Step(t)
  BY <1>2, UseLeavesLock, LoadingCallsLock, ZenonT(60) DEF Step
<1>3. CASE CleanUp
  BY <1>3, ZenonT(60) DEF LockCall, CleanUp
<1>4. CASE \E i \in Inst : Load(i)
  BY <1>4, LoadCallsLock, ZenonT(60)
<1>5. CASE \E t \in Thread, i \in Inst :
            \/ CuckooOpen(t, i) \/ WriteFile(t, i) \/ ReadFile(t, i) \/ Unlink(t, i)
            \/ \E op \in {"flush", "close"} : CuckooClose(t, i, op)
            \/ OpenFileRpc(t, i) \/ ReadSmallFileRpc(t, i)
            \/ \E op \in {"write", "read", "flush", "close"} : GetOpenInstanceByFd(t, i, op)
  BY <1>5, CallsLeaveLock, ZenonT(60)
<1> QED
  BY <1>1, <1>2, <1>3, <1>4, <1>5, ZenonT(60) DEF Next

(* A thread that waits for a file lock is not forgotten: while the lock is   *)
(* free one of those that wait is awake (FileLock::ReleaseFileLock notifies  *)
(* all of them), for every number of threads, instances and files.           *)
THEOREM WaiterIsNotForgotten == Spec => []WaiterIsWoken
<1>1. Init => WaiterIsWoken
  BY ZenonT(60) DEF Init, LockInit, WaiterIsWoken
<1>2. WaiterIsWoken /\ [Next]_vars => WaiterIsWoken'
  BY NextCallsLock, LockCallWakes, ZenonT(60)
<1> QED
  BY <1>1, <1>2, PTL DEF Spec
=============================================================================
