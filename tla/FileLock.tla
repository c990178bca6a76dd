------------------------------ MODULE FileLock -------------------------------
(***************************************************************************)
(* The locks that a store node takes on a file while it loads the file     *)
(* into its cache (cuckoo_store/src/util/file_lock.cpp), for one inode.    *)
(* The store takes them in mode X only.  The calls run under the mutex of  *)
(* the table; a waiter sleeps on the condition variable of the entry,      *)
(* which exists as long as somebody holds the lock or waits for it.        *)
(***************************************************************************)
VARIABLES
    locked,   \* lockCount # 0
    waiting,  \* the threads counted in waitingThreads
    notified  \* those of them that notify_all has woken

lockVars == <<locked, waiting, notified>>

LockInit == locked = FALSE /\ waiting = {} /\ notified = {}

(* innerGetFileLock without wait, on a lock that is free *)
Acquire ==
    /\ ~locked
    /\ locked' = TRUE
    /\ UNCHANGED <<waiting, notified>>

(* innerGetFileLock with wait, on a lock that is held *)
Enqueue(t) ==
    /\ locked
    /\ waiting' = waiting \cup {t}
    /\ UNCHANGED <<locked, notified>>

(* A notified waiter finds the lock free and takes it ... *)
AcquireAfterWait(t) ==
    /\ t \in notified
    /\ ~locked
    /\ locked' = TRUE
    /\ waiting' = waiting \ {t}
    /\ notified' = notified \ {t}

(* ... or finds that another thread was quicker and sleeps again. *)
WaitAgain(t) ==
    /\ t \in notified
    /\ locked
    /\ notified' = notified \ {t}
    /\ UNCHANGED <<locked, waiting>>

(* A variant that does not wake the waiting threads. *)
ReleaseSilently ==
    /\ locked' = FALSE
    /\ UNCHANGED <<waiting, notified>>

ReleaseFileLock ==
    /\ locked' = FALSE
    /\ notified' = waiting
    /\ UNCHANGED waiting

(* TestLocked in mode X: the entry exists. *)
TestLocked == locked \/ waiting # {}
=============================================================================
