------------------------------- MODULE RWLock -------------------------------
(***************************************************************************)
(* The shared-memory reader-writer locks of CuckooFS (utils/rwlock.c).     *)
(*                                                                         *)
(* A lock is one 64-bit word: 24 bits that count the shared holders, one   *)
(* bit for the exclusive holder, a count of references above them and a    *)
(* flag that an exclusive waiter sets.  The word is changed by atomic      *)
(* additions and, to take the lock, by a compare-and-exchange loop.  Here  *)
(* the word is the record of its fields, over the integers: that no field  *)
(* ever borrows from or carries into its neighbour is part of what is      *)
(* checked.                                                                *)
(*                                                                         *)
(* held_rwlocks is the bag of a process's handles.  Its order only decides *)
(* which of several handles of one lock goes first.                        *)
(***************************************************************************)
EXTENDS Integers, FiniteSets

CONSTANTS
    Proc,     \* the PostgreSQL backends of a server
    Lock,     \* the locks: one per entry of the directory path hash
    NoLock,   \* the lock of a process that is in no call
    MaxHeld,  \* MAX_SIMUL_RWLOCKS
    MaxSkewed \* bound on the processes whose count is wrong at a time

ASSUME ProcAssumption == IsFiniteSet(Proc)
ASSUME NoLockAssumption == NoLock \notin Lock
ASSUME MaxHeldAssumption == MaxHeld \in Nat
ASSUME MaxSkewedAssumption == MaxSkewed \in Nat

VARIABLES
    word,     \* RWLock.state
    handles,  \* held_rwlocks: how many handles of a lock in each mode
    numHeld,  \* num_held_rwlocks
    holdoff,  \* InterruptHoldoffCount, as far as the locks raise it
    pc,       \* where a process is in RWLockAcquire or RWLockRelease
    call,     \* the arguments of that call
    old,      \* old_state of RWLockAttemptLock
    all,      \* in RWLockReleaseAll, at "commit" or (keeping the count) "abort"
    skewed    \* history: since an ERROR last reset holdoff, an ERROR was caught or a
              \* transaction rolled back without one while locks were held

vars == <<word, handles, numHeld, holdoff, pc, call, old, all, skewed>>

LockMode == {"RW_EXCLUSIVE", "RW_SHARED"}
Mode == LockMode \cup {"RW_DECLARE"}
Word == [shared : Nat, exclusive : Nat, ref : Nat, waiter : BOOLEAN]

(* The values the variables can take: no field of a word is ever negative.   *)
TypeOK ==
    /\ word \in [Lock -> Word]
    /\ handles \in [Proc -> [Lock -> [Mode -> Nat]]]
    /\ numHeld \in [Proc -> 0 .. MaxHeld]
    /\ holdoff \in [Proc -> Int]
    /\ pc \in [Proc -> {"idle", "read", "cas", "unref"}]
    /\ call \in [Proc -> [lock : Lock \cup {NoLock}, mode : Mode]]
    /\ old \in [Proc -> Word]
    /\ all \in [Proc -> {"no", "commit", "abort"}]
    /\ skewed \in [Proc -> BOOLEAN]

Free == [shared |-> 0, exclusive |-> 0, ref |-> 0, waiter |-> FALSE]
NoCall == [lock |-> NoLock, mode |-> "RW_DECLARE"]

Init ==
    /\ word = [l \in Lock |-> Free]
    /\ handles = [p \in Proc |-> [l \in Lock |-> [m \in Mode |-> 0]]]
    /\ numHeld = [p \in Proc |-> 0]
    /\ holdoff = [p \in Proc |-> 0]
    /\ pc = [p \in Proc |-> "idle"]
    /\ call = [p \in Proc |-> NoCall]
    /\ old = [p \in Proc |-> Free]
    /\ all = [p \in Proc |-> "no"]
    /\ skewed = [p \in Proc |-> FALSE]

-----------------------------------------------------------------------------
(* A local variable that is out of scope has its initial value again.        *)
OutOfScope(p) == old' = [old EXCEPT ![p] = Free]
Return(p) ==
    /\ pc' = [pc EXCEPT ![p] = "idle"]
    /\ call' = [call EXCEPT ![p] = NoCall]

(* The process runs the code of its transaction.                             *)
Running(p) == pc[p] = "idle" /\ all[p] = "no"

AddHandle(p, l, m) ==
    /\ handles' = [handles EXCEPT ![p][l][m] = @ + 1]
    /\ numHeld' = [numHeld EXCEPT ![p] = @ + 1]
RemoveHandle(p, l, m) ==
    /\ handles[p][l][m] > 0
    /\ handles' = [handles EXCEPT ![p][l][m] = @ - 1]
    /\ numHeld' = [numHeld EXCEPT ![p] = @ - 1]

(* RWLockDeclare: the caller still holds the lock of the hash partition.     *)
RWLockDeclare(p, l) ==
    /\ Running(p) /\ numHeld[p] < MaxHeld
    /\ holdoff' = [holdoff EXCEPT ![p] = @ + 1]
    /\ word' = [word EXCEPT ![l].ref = @ + 1]
    /\ AddHandle(p, l, "RW_DECLARE")
    /\ UNCHANGED <<pc, call, old, all, skewed>>

(* What RWLockUndeclare does, h being the count it finds.                    *)
Undeclare(p, l, h) ==
    /\ RemoveHandle(p, l, "RW_DECLARE")
    /\ word' = [word EXCEPT ![l].ref = @ - 1]
    /\ holdoff' = [holdoff EXCEPT ![p] = h - 1]
    /\ UNCHANGED <<pc, call, old>>

RWLockUndeclare(p, l) ==
    /\ Running(p)
    /\ Undeclare(p, l, holdoff[p])
    /\ UNCHANGED <<all, skewed>>

(* A plausible slip: the reference is only taken with the lock.              *)
RWLockAcquireWithoutReference(p, l, m) ==
    /\ Running(p) /\ numHeld[p] < MaxHeld
    /\ holdoff' = [holdoff EXCEPT ![p] = @ + 1]
    /\ call' = [call EXCEPT ![p] = [lock |-> l, mode |-> m]]
    /\ pc' = [pc EXCEPT ![p] = "read"]
    /\ UNCHANGED <<word, handles, numHeld, old, all, skewed>>

(* RWLockAcquire takes its reference before the first attempt.               *)
RWLockAcquire(p, l, m) ==
    /\ Running(p) /\ numHeld[p] < MaxHeld
    /\ holdoff' = [holdoff EXCEPT ![p] = @ + 1]
    /\ word' = [word EXCEPT ![l].ref = @ + 1]
    /\ call' = [call EXCEPT ![p] = [lock |-> l, mode |-> m]]
    /\ pc' = [pc EXCEPT ![p] = "read"]
    /\ UNCHANGED <<handles, numHeld, old, all, skewed>>

(* RWLockAttemptLock: the read ...                                           *)
AttemptRead(p) ==
    /\ pc[p] = "read"
    /\ old' = [old EXCEPT ![p] = word[call[p].lock]]
    /\ pc' = [pc EXCEPT ![p] = "cas"]
    /\ UNCHANGED <<word, handles, numHeld, holdoff, call, all, skewed>>

(* Plausible slips: a writer looks at the exclusive bit only; a reader does  *)
(* not look at the flag; the flag is not cleared.                            *)
LockFreeIgnoresShared(p) ==
    IF call[p].mode = "RW_EXCLUSIVE" THEN old[p].exclusive = 0
    ELSE old[p].exclusive = 0 /\ ~old[p].waiter
LockFreeIgnoresWaiter(p) ==
    IF call[p].mode = "RW_EXCLUSIVE"
    THEN old[p].shared = 0 /\ old[p].exclusive = 0
    ELSE old[p].exclusive = 0
AcquiredKeepsFlag(p) ==
    IF call[p].mode = "RW_EXCLUSIVE"
    THEN [old[p] EXCEPT !.exclusive = @ + 1]
    ELSE [old[p] EXCEPT !.shared = @ + 1]

(* ... what it decides from the value read ...                               *)
LockFree(p) ==
    IF call[p].mode = "RW_EXCLUSIVE"
    THEN old[p].shared = 0 /\ old[p].exclusive = 0
    ELSE old[p].exclusive = 0 /\ ~old[p].waiter
Acquired(p) ==
    IF call[p].mode = "RW_EXCLUSIVE"
    THEN [old[p] EXCEPT !.exclusive = @ + 1, !.waiter = FALSE]
    ELSE [old[p] EXCEPT !.shared = @ + 1]
NotAcquired(p) ==
    IF call[p].mode = "RW_EXCLUSIVE" THEN [old[p] EXCEPT !.waiter = TRUE] ELSE old[p]

(* ... and the compare-and-exchange, which fails if the word has changed.    *)
CasFails(p) ==
    /\ pc[p] = "cas" /\ word[call[p].lock] # old[p]
    /\ old' = [old EXCEPT ![p] = word[call[p].lock]]
    /\ UNCHANGED <<word, handles, numHeld, holdoff, pc, call, all, skewed>>

CasAcquires(p) ==
    /\ pc[p] = "cas" /\ word[call[p].lock] = old[p] /\ LockFree(p)
    /\ word' = [word EXCEPT ![call[p].lock] = Acquired(p)]
    /\ AddHandle(p, call[p].lock, call[p].mode)
    /\ Return(p) /\ OutOfScope(p)
    /\ UNCHANGED <<holdoff, all, skewed>>

(* Not acquired: perform_spin_delay, then another attempt.                   *)
CasWaits(p) ==
    /\ pc[p] = "cas" /\ word[call[p].lock] = old[p] /\ ~LockFree(p)
    /\ word' = [word EXCEPT ![call[p].lock] = NotAcquired(p)]
    /\ pc' = [pc EXCEPT ![p] = "read"]
    /\ OutOfScope(p)
    /\ UNCHANGED <<handles, numHeld, holdoff, call, all, skewed>>

(* What RWLockRelease does first: the holder's share of the word goes ...    *)
Release(p, l, m, h) ==
    /\ RemoveHandle(p, l, m)
    /\ IF m = "RW_EXCLUSIVE"
       THEN word' = [word EXCEPT ![l].exclusive = @ - 1]
       ELSE word' = [word EXCEPT ![l].shared = @ - 1]
    /\ holdoff' = [holdoff EXCEPT ![p] = h]
    /\ call' = [call EXCEPT ![p] = [lock |-> l, mode |-> m]]
    /\ pc' = [pc EXCEPT ![p] = "unref"]
    /\ UNCHANGED old

(* The callers undeclare a lock before they release it                       *)
(* (dir_path_hash.c:385,468,534), so the handle found is never RW_DECLARE.   *)
RWLockRelease(p, l, m) ==
    /\ Running(p)
    /\ Release(p, l, m, holdoff[p])
    /\ UNCHANGED <<all, skewed>>

(* ... then its reference.                                                   *)
Unref(p) ==
    /\ pc[p] = "unref"
    /\ word' = [word EXCEPT ![call[p].lock].ref = @ - 1]
    /\ holdoff' = [holdoff EXCEPT ![p] = @ - 1]
    /\ Return(p)
    /\ UNCHANGED <<handles, numHeld, old, all, skewed>>

(* The end of a transaction: XACT_EVENT_COMMIT calls RWLockReleaseAll(false).*)
CommitEvent(p) ==
    /\ Running(p)
    /\ all' = [all EXCEPT ![p] = "commit"]
    /\ UNCHANGED <<word, handles, numHeld, holdoff, pc, call, old, skewed>>

(* An ERROR that nobody catches, for instance of a process that has too many *)
(* locks, resets the count of holdoffs; XACT_EVENT_ABORT then calls          *)
(* RWLockReleaseAll(true).                                                   *)
AbortEvent(p) ==
    /\ Running(p)
    /\ holdoff' = [holdoff EXCEPT ![p] = 0]
    /\ all' = [all EXCEPT ![p] = "abort"]
    /\ skewed' = [skewed EXCEPT ![p] = FALSE]
    /\ UNCHANGED <<word, handles, numHeld, pc, call, old>>

(* What leaves the count wrong if the process holds locks.                   *)
MaySkew(p) ==
    \/ numHeld[p] = 0
    \/ ~skewed[p] /\ Cardinality({q \in Proc : skewed[q]}) < MaxSkewed

(* The ROLLBACK that the coordinator sends to its workers is not an ERROR:   *)
(* XACT_EVENT_ABORT comes with the count as the locks have raised it.        *)
RollbackEvent(p) ==
    /\ Running(p) /\ MaySkew(p)
    /\ all' = [all EXCEPT ![p] = "abort"]
    /\ skewed' = [skewed EXCEPT ![p] = @ \/ numHeld[p] > 0]
    /\ UNCHANGED <<word, handles, numHeld, holdoff, pc, call, old>>

(* The ERROR of a row that exists already is caught by CuckooCreateHandle,   *)
(* which goes on with its locks and the count reset.                         *)
ErrorCaught(p) ==
    /\ Running(p) /\ MaySkew(p)
    /\ holdoff' = [holdoff EXCEPT ![p] = 0]
    /\ skewed' = [skewed EXCEPT ![p] = numHeld[p] > 0]
    /\ UNCHANGED <<word, handles, numHeld, pc, call, old, all>>

(* A plausible slip: keepInterruptHoldoffCount is ignored.                   *)
HoldoffInLoopDrops(p) == holdoff[p]

(* One turn of the loop of RWLockReleaseAll.                                 *)
HoldoffInLoop(p) == IF all[p] = "abort" THEN holdoff[p] + 1 ELSE holdoff[p]
ReleaseOne(p, l, m) ==
    /\ pc[p] = "idle" /\ all[p] # "no"
    /\ IF m = "RW_DECLARE" THEN Undeclare(p, l, HoldoffInLoop(p))
       ELSE Release(p, l, m, HoldoffInLoop(p))
    /\ UNCHANGED <<all, skewed>>

ReleaseAllEnd(p) ==
    /\ pc[p] = "idle" /\ all[p] # "no" /\ numHeld[p] = 0
    /\ all' = [all EXCEPT ![p] = "no"]
    /\ UNCHANGED <<word, handles, numHeld, holdoff, pc, call, old, skewed>>

(* RWLockCheckDestroyable: the entry of the lock may be reused.              *)
RWLockCheckDestroyable(l) == word[l].ref = 0

-----------------------------------------------------------------------------
Attempt(p) == AttemptRead(p) \/ CasFails(p) \/ CasAcquires(p) \/ CasWaits(p)

ReleaseAll(p) ==
    \/ \E l \in Lock, m \in Mode : ReleaseOne(p, l, m)
    \/ ReleaseAllEnd(p)

Next == \E p \in Proc :
    \/ \E l \in Lock : RWLockDeclare(p, l) \/ RWLockUndeclare(p, l)
    \/ \E l \in Lock, m \in LockMode : RWLockAcquire(p, l, m) \/ RWLockRelease(p, l, m)
    \/ Attempt(p) \/ Unref(p)
    \/ CommitEvent(p) \/ AbortEvent(p) \/ RollbackEvent(p) \/ ErrorCaught(p)
    \/ ReleaseAll(p)

Spec == Init /\ [][Next]_vars

(* Processes go on spinning, and a transaction ends.  A compare-and-exchange *)
(* that fails is repeated at once with the value just read, so it does not   *)
(* fail for ever against processes that come and go.                         *)
Fairness == \A p \in Proc :
    /\ WF_vars(Attempt(p)) /\ SF_vars(CasAcquires(p)) /\ SF_vars(CasWaits(p))
    /\ WF_vars(Unref(p)) /\ WF_vars(ReleaseAll(p))
    /\ WF_vars(CommitEvent(p))

FairSpec == Spec /\ Fairness

-----------------------------------------------------------------------------
Holds(p, l, m) == handles[p][l][m] > 0
Waits(p, l, m) == pc[p] \in {"read", "cas"} /\ call[p] = [lock |-> l, mode |-> m]

(* An exclusive holder is alone: no other process holds the lock in any      *)
(* mode, whatever interleaving of reads, compare-and-exchanges, failures and *)
(* releases led there (RWLockAttemptLock, RWLockRelease).                    *)
MutualExclusion == \A p \in Proc, l \in Lock : Holds(p, l, "RW_EXCLUSIVE") =>
    /\ handles[p][l]["RW_EXCLUSIVE"] = 1 /\ ~Holds(p, l, "RW_SHARED")
    /\ \A q \in Proc \ {p}, m \in LockMode : ~Holds(q, l, m)

(* RWLockCheckDestroyable lets an entry of the hash be reused only when no   *)
(* process has a handle of its lock, waits for it or still has to write to   *)
(* its word.                                                                 *)
DestroyableIsUnused == \A l \in Lock : RWLockCheckDestroyable(l) => \A p \in Proc :
    /\ \A m \in Mode : ~Holds(p, l, m)
    /\ call[p].lock # l

(* Interrupts are held off once per handle and call, and the count is not    *)
(* driven below zero by RWLockReleaseAll after an error (rwlock.c:186-191),  *)
(* also if it was wrong before that error.  A caught ERROR and a ROLLBACK    *)
(* without one, with locks held, do leave it wrong (skewed).                 *)
HoldoffBalanced == \A p \in Proc : ~skewed[p] =>
    holdoff[p] = (IF all[p] = "abort" THEN 0 ELSE numHeld[p])
                 + (IF pc[p] = "idle" THEN 0 ELSE 1)

(* The flag that keeps readers out stands for a process that waits for the   *)
(* exclusive lock: when the last one has got it the flag is gone, else no    *)
(* reader would ever get the lock again (RWLockAttemptLock).                 *)
FlagHasWaiter == \A l \in Lock : word[l].waiter =>
    \E p \in Proc : Waits(p, l, "RW_EXCLUSIVE")

(* rwlock.c:15-16: of the exclusive waiters of a lock one gets it, readers   *)
(* that come later do not keep it out.                                       *)
WriterEnters == \A l \in Lock :
    (\E p \in Proc : Waits(p, l, "RW_EXCLUSIVE"))
        ~> (\E p \in Proc : Holds(p, l, "RW_EXCLUSIVE"))

-----------------------------------------------------------------------------
(* The inductive invariant.  The word of a lock counts what the processes    *)
(* have: a token stands for one handle.                                      *)
TokensIn(h) == UNION {{<<x[1], x[2], x[3], i>> : i \in 1 .. h[x[1]][x[2]][x[3]]} :
                         x \in Proc \X Lock \X Mode}
Tokens == TokensIn(handles)
OfProc(T, p) == {t \in T : t[1] = p}
OfLock(T, l) == {t \in T : t[2] = l}
OfMode(T, l, m) == {t \in T : t[2] = l /\ t[3] = m}
Calling(l) == {p \in Proc : call[p].lock = l}

CountInv ==
    /\ IsFiniteSet(Tokens)
    /\ \A p \in Proc : numHeld[p] = Cardinality(OfProc(Tokens, p))
    /\ \A l \in Lock :
        /\ word[l].shared = Cardinality(OfMode(Tokens, l, "RW_SHARED"))
        /\ word[l].exclusive = Cardinality(OfMode(Tokens, l, "RW_EXCLUSIVE"))
        /\ word[l].ref = Cardinality(OfLock(Tokens, l)) + Cardinality(Calling(l))

(* The two lock fields exclude each other.                                   *)
LockInv == \A l \in Lock :
    word[l].exclusive = 0 \/ (word[l].exclusive = 1 /\ word[l].shared = 0)

CallInv == \A p \in Proc :
    /\ pc[p] = "idle" <=> call[p].lock = NoLock
    /\ pc[p] # "idle" => call[p].mode \in LockMode
    /\ pc[p] \in {"read", "cas"} => all[p] = "no" /\ numHeld[p] < MaxHeld

(* Each of the properties follows from this, and every step preserves it.    *)
IInv == TypeOK /\ CallInv /\ CountInv /\ LockInv /\ HoldoffBalanced /\ FlagHasWaiter
=============================================================================
