--------------------------- MODULE NamespaceTree ---------------------------
(* What Namespace promises: its properties, and the tree it implements.       *)
EXTENDS Namespace, SequencesExt

CONSTANT Depth \* longest path of the tree

-----------------------------------------------------------------------------
(* The state the coordinator's commits have decided on: its own replica, and  *)
(* the rows with the writes of decided transactions the workers still hold.   *)

Decided == {p \in Proc : txn[p].pc = "commit"}
DecidedRows ==
    LET ins == UNION {DOMAIN pend[p][w].rowIns : p \in Decided, w \in Worker}
        del == UNION {pend[p][w].rowDel : p \in Decided, w \in Worker}
    IN [key \in ins |-> LET p == CHOOSE q \in Decided :
                                    key \in DOMAIN pend[q][Home(key)].rowIns
                        IN pend[p][Home(key)].rowIns[key]]
       @@ Without(inodeTable, del)

DirectoryOf(dirs, path) ==
    LET d[i \in 0..Len(path)] ==
          IF i = 0 THEN Root ELSE Cell(dirs, <<d[i - 1], path[i]>>, NotExist)
    IN d[Len(path)]

Path == UNION {[1..n -> Name] : n \in 1..Depth}
DecidedTree ==
    LET rows == DecidedRows
        Kind(path) ==
          LET key == <<DirectoryOf(dirTable[CN], Front(path)), Last(path)>> IN
          IF key \notin DOMAIN rows THEN "none" ELSE IF rows[key].dir THEN "dir" ELSE "file"
    IN [path \in Path |-> Kind(path)]

Tree == INSTANCE FileTree WITH tree <- DecidedTree

-----------------------------------------------------------------------------

(* The operations appear to happen one at a time on one tree: a batch of      *)
(* mkdir, a rename of a subtree, an rmdir of an empty directory are atomic,   *)
(* whatever runs beside them and whenever the workers commit.  Only a step    *)
(* after which the tables are torn, an unlink of a directory or a rename that *)
(* was overtaken after its first search, is none of the operations, and so    *)
(* may be those that follow it.                                               *)
ImplementsTree == Tree!Init /\ [][Tree!Next \/ torn']_DecidedTree

(* An entry that some backend holds a shared lock on says the same on its     *)
(* server as on the coordinator: every worker may resolve paths alone.        *)
ReplicasAgree == \A p \in Proc, s \in Server : \A l \in locks[p][s] :
    l.mode = "S" => Cell(dirTable[s], l.key, NotExist) = Cell(dirTable[CN], l.key, NotExist)

(* A path a backend has resolved, or a part of one, leads to the same         *)
(* directory until its transaction commits or ends.                           *)
PathStable == \A p \in Proc :
    txn[p].pc \in {"resolve", "handle", "calls", "calls2"} =>
      LET t == txn[p]
          made == {k \in DOMAIN node[p] : node[p][k].mode = "XC"}
          dirs == [k \in made |-> node[p][k].ino] @@ dirTable[t.at]
      IN /\ \A i \in DOMAIN t.info : t.info[i].code = "SUCCESS" =>
              t.info[i].key[1] \in {DirectoryOf(dirs, Front(t.paths[i])), NotExist}
         /\ t.pc = "resolve" =>
              t.cur \in {DirectoryOf(dirs, SubSeq(t.paths[t.k], 1, t.c - 1)), NotExist}

(* The directory table and the inode table tell the same story: the entries   *)
(* are the rows of directories, with their ids, until an unlink of a          *)
(* directory or a rename that was overtaken tears them apart.                 *)
TablesAgree == torn \/
    {<<k, dirTable[CN][k]>> : k \in DOMAIN dirTable[CN]}
    = {<<k, DecidedRows[k].ino>> : k \in {key \in DOMAIN DecidedRows : DecidedRows[key].dir}}

(* p asks for a shared lock again that a path of its batch has left behind,   *)
(* and that has an exclusive waiter by now: both wait for p (path_parse.c,    *)
(* PATH_IS_INVALID after SearchDirectoryByDirectoryHashTable).                *)
Relocks(p) ==
    LET t == txn[p] IN
    /\ t.pc = "resolve"
    /\ LET key == <<t.cur, t.paths[t.k][t.c]>> IN
       key \in flag[t.at] /\ [key |-> key, mode |-> "S"] \in locks[p][t.at]

(* p waits on worker w for a row that q has written.                          *)
WaitsForRow(p, w, q) ==
    /\ \E do \in {"insertRow", "unlinkRow", "takeRow", "putRow"} : Doing(p, w, do)
    /\ LET key == Head(work[p][w]).key IN
       key \in DOMAIN pend[q][w].rowIns \cup pend[q][w].rowDel

(* Two transactions of the coordinator wait for each other on two workers,    *)
(* whose deadlock detectors each see half of the cycle.                       *)
RowsCross == \E p, q \in Proc : p # q /\ \E v, w \in Worker :
    v # w /\ WaitsForRow(p, v, q) /\ WaitsForRow(q, w, p)

(* Whatever locks and rows the requests in flight wait for, one of them can   *)
(* go on: the order of the paths in batches and renames, and the order of     *)
(* coordinator and workers, leave no other deadlock than the two above.       *)
NoDeadlock ==
    \/ \A p \in Proc : txn[p].pc = "idle"
    \/ \E p \in Proc : ENABLED Step(p)
    \/ RowsCross
    \/ \E p \in Proc : Relocks(p)
=============================================================================
