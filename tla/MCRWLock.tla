------------------------------ MODULE MCRWLock ------------------------------
(* Small instances of RWLock for TLC.                                        *)
EXTENDS RWLock, TLC

Symmetry == Permutations(Proc)

(* Three processes compete while all counts are right, two while one of them *)
(* is wrong.                                                                 *)
AtRest(p) == Running(p) /\ numHeld[p] = 0
SkewedInPairs ==
    (\E p \in Proc : skewed[p]) => \E q \in Proc : AtRest(q) /\ ~skewed[q]

(* What p asks of a lock, for the specifications with fairness.  A caller in *)
(* dir_path_hash.c declares a lock only while it acquires it; the            *)
(* declaration adds a reference as the call itself does, and is left out.    *)
Declares(p) == \E l \in Lock :
    handles'[p][l]["RW_DECLARE"] # handles[p][l]["RW_DECLARE"]
AcquiresAgain(p, m) ==
    /\ pc[p] = "idle" /\ pc'[p] = "read" /\ call'[p].mode = m
    /\ \E n \in LockMode : Holds(p, call'[p].lock, n)

(* PathParseTreeInsert finds the directories that the transaction has locked *)
(* in its tree and does not lock them again.                                 *)
FairCallers ==
    /\ Init /\ Fairness
    /\ [][Next /\ \A p \in Proc : ~Declares(p) /\ \A m \in LockMode : ~AcquiresAgain(p, m)]_vars

(* A path with a missing directory is an exception: PATH_IS_INVALID is       *)
(* returned with the shared lock taken and no node in the tree               *)
(* (path_parse.c:145-148), and the next path of the batch locks it again.    *)
FairBatches ==
    /\ Init /\ Fairness
    /\ [][Next /\ \A p \in Proc : ~Declares(p) /\ ~AcquiresAgain(p, "RW_EXCLUSIVE")]_vars
=============================================================================
