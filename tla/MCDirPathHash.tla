--------------------------- MODULE MCDirPathHash ---------------------------
(* Instances of DirPathHash for TLC.                                         *)
EXTENDS DirPathHash, TLC

CONSTANTS k1, k2

Sym == Permutations(Session)

(* Room for everything, and prepared transactions commit in their session.   *)
Roomy == [capacity |-> 2, clearBegin |-> 2, keys |-> {k1}, inodes |-> 3, txns |-> 3, calls |-> 2,
          ends |-> {}]

(* Two directories with room for one, and every way a transaction can end.   *)
Crowded == [capacity |-> 1, clearBegin |-> 0, keys |-> {k1, k2}, inodes |-> 2, txns |-> 2,
            calls |-> 1, ends |-> {"rollback", "elsewhere", "exit"}]

RoomyOrCrowded == {Roomy, Crowded}

(* A prepared transaction is rolled back in its session: Agrees fails.       *)
RollsBackOnly == {[Roomy EXCEPT !.txns = 2, !.ends = {"rollback"}]}
=============================================================================
