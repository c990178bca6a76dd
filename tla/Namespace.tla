----------------------------- MODULE Namespace -----------------------------
(* The metadata operations of meta_handle.c.  Every server keeps a replica of *)
(* the directory table (which directory is called what below which), the      *)
(* workers share the inode table (one row per file or directory).  A backend  *)
(* resolves the paths of its request under the path locks of path_parse.c on  *)
(* its own server; mkdir, rmdir and rename then call every worker, which take *)
(* the exclusive locks again on their replica, and commit on the coordinator  *)
(* (CN) before the workers.  The locks are those of RWLock, the commit that   *)
(* of TwoPhaseCommit without its faults: one step per server here.            *)
EXTENDS Integers, Sequences, FiniteSets, TLC

CONSTANTS
    Proc,        \* client requests in flight: one backend on the CN or a worker
    Worker,
    CN,
    Name,        \* file names; numbers, so that pathcmp can order them
    MaxInode,    \* bound on the inode ids handed out
    Home(_),     \* worker of an inode row, by parent id and hash of the name
    Start        \* by name: the tables at the start [dirs, rows], the requests
                 \* [op, paths] the clients may ask, and the bound on their number

Server == Worker \cup {CN}
NotExist == -1
Root == 0
Inode == Root..MaxInode
Key == (Inode \cup {NotExist}) \X Name
CNOps == {"mkdir", "rmdir", "rename"}
BatchOps == {"mkdir", "create", "stat", "open", "close", "unlink"}
Ops == CNOps \cup BatchOps \cup {"readdir", "opendir", "utimens", "chown", "chmod"}

VARIABLES
    dirTable,   \* dirTable[s]: key -> directory id, committed, on server s
    inodeTable, \* key -> [ino, dir], committed, on worker Home(key)
    txn,        \* txn[p]: the transaction of backend p
    node,       \* node[p]: the path parse tree, key -> [ino, mode]
    locks,      \* locks[p][s]: locks [key, mode] held for p on server s
    pend,       \* pend[p][s]: uncommitted writes of p on server s
    work,       \* work[p][w]: sub-operations worker w still has to run for p
    nextInode,  \* inode ids handed out so far
    clients,    \* [start, left]: where it began, the requests still to come
    flag,       \* flag[s]: keys whose lock has RW_FLAG_HAS_EXCLUSIVE_WAITER on s
    torn        \* history: the tables were told different things, see Tears

vars == <<dirTable, inodeTable, txn, node, locks, pend, work, nextInode, clients, flag, torn>>

NoWrites == [dirIns |-> <<>>, dirDel |-> {}, rowIns |-> <<>>, rowDel |-> {}]
Idle == [pc |-> "idle"]
Without(f, S) == [k \in DOMAIN f \ S |-> f[k]]
Cell(f, k, none) == IF k \in DOMAIN f THEN f[k] ELSE none

Init ==
    /\ clients \in {[start |-> i, left |-> Start[i].left] : i \in DOMAIN Start}
    /\ dirTable = [s \in Server |-> Start[clients.start].dirs]
    /\ inodeTable = Start[clients.start].rows
    /\ txn = [p \in Proc |-> Idle]
    /\ node = [p \in Proc |-> <<>>]
    /\ locks = [p \in Proc |-> [s \in Server |-> {}]]
    /\ pend = [p \in Proc |-> [s \in Server |-> NoWrites]]
    /\ work = [p \in Proc |-> [w \in Worker |-> <<>>]]
    /\ nextInode = Cardinality(DOMAIN inodeTable)
    /\ flag = [s \in Server |-> {}]
    /\ torn = FALSE

-----------------------------------------------------------------------------
(* Directory table, inode table and locks as one transaction sees them.       *)

(* A search sees the committed entries and the transaction's own writes.      *)
SearchDirectory(p, s, key) ==
    Cell(pend[p][s].dirIns @@ Without(dirTable[s], pend[p][s].dirDel), key, NotExist)

Rows(p, w) == pend[p][w].rowIns @@ Without(inodeTable, pend[p][w].rowDel)

(* Another transaction has written the row and is not over: a writer waits.   *)
RowBusy(p, key) == \E q \in Proc \ {p} :
    key \in DOMAIN pend[q][Home(key)].rowIns \cup pend[q][Home(key)].rowDel

(* RWLockAttemptLock: an exclusive lock needs a lock that nobody holds, a     *)
(* shared one a lock without exclusive holder and without exclusive waiter.   *)
HeldAs(s, key, mode) == \E q \in Proc : [key |-> key, mode |-> mode] \in locks[q][s]
MayLock(s, key, mode) ==
    /\ ~HeldAs(s, key, "X")
    /\ IF mode = "X" THEN ~HeldAs(s, key, "S") ELSE key \notin flag[s]
Unflagged(s, key) == [flag EXCEPT ![s] = @ \ {key}]
Acquire(p, s, key, mode) ==
    /\ MayLock(s, key, mode)
    /\ locks' = [locks EXCEPT ![p][s] = @ \cup {[key |-> key, mode |-> mode]}]
    /\ flag' = IF mode = "X" THEN Unflagged(s, key) ELSE flag

-----------------------------------------------------------------------------
(* Requests.                                                                  *)

(* pathcmp: component by component, a directory before what is below it.      *)
RECURSIVE PathLess(_, _)
PathLess(a, b) ==
    /\ b # <<>>
    /\ \/ a = <<>>
       \/ Head(a) < Head(b)
       \/ Head(a) = Head(b) /\ PathLess(Tail(a), Tail(b))

(* The flags each handler gives PathParseTreeInsert for path number k.        *)
Flags(t, k) ==
    CASE t.op = "mkdir" -> {"directory", "created", "under"}
      [] t.op = "create" -> {"created"}
      [] t.op \in {"stat", "unlink"} -> {}
      [] t.op \in {"open", "close", "utimens", "chown", "chmod"} -> {"shared"}
      [] t.op \in {"readdir", "opendir"} -> {"shared", "directory"}
      [] t.op = "rmdir" -> {"directory", "deleted"}
      [] t.op = "rename" ->
            (IF t.src # NotExist THEN {"directory"} ELSE {})
            \cup (IF k = t.dst THEN {"created", "input"} ELSE {"deleted"})

(* Mutant: the batch is taken as it comes.                                    *)
ProcessUnsorted(p) == \E r \in Start[clients.start].asks, s \in Server :
    /\ txn[p].pc = "idle" /\ clients.left > 0
    /\ (s = CN) <=> (r.op \in CNOps)
    /\ txn' = [txn EXCEPT ![p] =
         [pc |-> IF r.op = "rename" THEN "check" ELSE "resolve",
          op |-> r.op, paths |-> r.paths, at |-> s, k |-> 1, c |-> 1, cur |-> Root,
          info |-> <<>>, dst |-> IF r.op = "rename" THEN 2 ELSE 0, src |-> NotExist,
          moved |-> <<>>, failed |-> FALSE, todo |-> Worker]]
    /\ clients' = [clients EXCEPT !.left = @ - 1]
    /\ UNCHANGED <<dirTable, inodeTable, node, locks, flag, pend, work, nextInode, torn>>

(* MetaProcess: the batch is sorted by path; rename keeps track of which of   *)
(* its two paths is the destination.                                          *)
CuckooMetaProcess(p) == \E r \in Start[clients.start].asks, s \in Server :
    /\ txn[p].pc = "idle" /\ clients.left > 0
    /\ (s = CN) <=> (r.op \in CNOps)
    /\ txn' = [txn EXCEPT ![p] =
         [pc |-> IF r.op = "rename" THEN "check" ELSE "resolve",
          op |-> r.op, paths |-> SortSeq(r.paths, PathLess), at |-> s,
          k |-> 1, c |-> 1, cur |-> Root, info |-> <<>>,
          dst |-> IF r.op # "rename" THEN 0
                  ELSE IF PathLess(r.paths[2], r.paths[1]) THEN 1 ELSE 2,
          src |-> NotExist, moved |-> <<>>,
          failed |-> FALSE, todo |-> Worker]]
    /\ clients' = [clients EXCEPT !.left = @ - 1]
    /\ UNCHANGED <<dirTable, inodeTable, node, locks, flag, pend, work, nextInode, torn>>

Info(t, code, ino) ==
    [code |-> code, key |-> <<t.cur, t.paths[t.k][Len(t.paths[t.k])]>>, ino |-> ino]

(* The result of one path; a batch goes on after a failure, a single request  *)
(* raises an ERROR.                                                           *)
PathDone(t, code, ino) ==
    [t EXCEPT !.info = Append(@, Info(t, code, ino)),
              !.pc = IF code # "SUCCESS" /\ t.op \notin BatchOps THEN "error"
                     ELSE IF t.k = Len(t.paths) THEN "handle" ELSE "resolve",
              !.k = @ + 1, !.c = 1, !.cur = Root]
Into(t, ino) == [t EXCEPT !.c = @ + 1, !.cur = ino]

(* GenerateInodeIdBySeqAndNodeId: an id no one has had before.                *)
NewInode == nextInode + 1

-----------------------------------------------------------------------------
(* CheckWhetherPathExistsInDirectoryTable: rename looks its source up without *)
(* locks, one component at a time, to learn whether it is a directory.        *)
CheckWhetherPathExistsInDirectoryTable(p) ==
    LET t == txn[p]
        path == t.paths[3 - t.dst]
        ino == SearchDirectory(p, CN, <<t.cur, path[t.c]>>)
    IN /\ t.pc = "check"
       /\ txn' = [txn EXCEPT ![p] =
            IF ino # NotExist /\ t.c < Len(path) THEN Into(t, ino)
            ELSE [t EXCEPT !.pc = "resolve", !.c = 1, !.cur = Root, !.src = ino]]
       /\ UNCHANGED <<dirTable, inodeTable, node, locks, flag, pend, work, nextInode, clients, torn>>

(* Mutant: the components above the target are looked up without locks.       *)
DescendUnlocked(p) ==
    LET t == txn[p]
        path == t.paths[t.k]
        key == <<t.cur, path[t.c]>>
        ino == IF key \in DOMAIN node[p] THEN node[p][key].ino ELSE SearchDirectory(p, t.at, key)
    IN /\ t.pc = "resolve" /\ t.c < Len(path)
       /\ txn' = [txn EXCEPT ![p] =
            IF ino = NotExist THEN PathDone(t, "PATH_IS_INVALID", NotExist) ELSE Into(t, ino)]
       /\ UNCHANGED <<dirTable, inodeTable, node, locks, flag, pend, work, nextInode, clients, torn>>

(* PathParseTreeInsert, a component above the target: its shared lock is      *)
(* taken unless the tree has it, and a directory that this transaction is     *)
(* removing or creating by a rename may not be entered.  A failed search      *)
(* leaves its lock behind; a node that was no directory is entered with the   *)
(* id -1.                                                                     *)
PathParseDescend(p) ==
    LET t == txn[p]
        path == t.paths[t.k]
        key == <<t.cur, path[t.c]>>
        known == key \in DOMAIN node[p]
        ino == SearchDirectory(p, t.at, key)
    IN /\ t.pc = "resolve" /\ t.c < Len(path)
       /\ \/ /\ known /\ node[p][key].mode = "X"
             /\ txn' = [txn EXCEPT ![p] = PathDone(t, "PATH_LOCK_CONFLICT", NotExist)]
             /\ UNCHANGED <<node, locks, flag>>
          \/ /\ known /\ node[p][key].mode \in {"S", "XC"}
             /\ txn' = [txn EXCEPT ![p] = Into(t, node[p][key].ino)]
             /\ UNCHANGED <<node, locks, flag>>
          \/ /\ known /\ node[p][key].mode = "none"
             /\ Acquire(p, t.at, <<node[p][key].ino, key[2]>>, "S")
             /\ txn' = [txn EXCEPT ![p] = Into(t, node[p][key].ino)]
             /\ node' = [node EXCEPT ![p][key].mode = "S"]
          \/ /\ ~known /\ Acquire(p, t.at, key, "S")
             /\ IF ino = NotExist
                THEN /\ txn' = [txn EXCEPT ![p] = PathDone(t, "PATH_IS_INVALID", NotExist)]
                     /\ UNCHANGED node
                ELSE /\ txn' = [txn EXCEPT ![p] = Into(t, ino)]
                     /\ node' = [node EXCEPT ![p] =
                                   (key :> [ino |-> ino, mode |-> "S"]) @@ @]
       /\ UNCHANGED <<dirTable, inodeTable, pend, work, nextInode, clients, torn>>

(* The four endings of PathParseTreeInsert, chosen by the flags.              *)
Target(t) == <<t.cur, t.paths[t.k][t.c]>>
AtTarget(p) == txn[p].pc = "resolve" /\ txn[p].c = Len(txn[p].paths[txn[p].k])

(* A directory to be created: its entry is locked exclusively and gets a new  *)
(* id, or the id the caller passed in (rename).                               *)
ParseCreatedDirectory(p) ==
    LET t == txn[p]
        key == Target(t)
        flags == Flags(t, t.k)
        old == SearchDirectory(p, t.at, key)
        ino == IF "input" \in flags THEN t.src
               ELSE IF old # NotExist THEN old ELSE NewInode
    IN /\ AtTarget(p) /\ {"created", "directory"} \subseteq flags
       /\ IF key \in DOMAIN node[p]
          THEN /\ txn' = [txn EXCEPT ![p] = PathDone(t, "PATH_EXISTS", NotExist)]
               /\ UNCHANGED <<node, locks, flag, nextInode>>
          ELSE /\ Acquire(p, t.at, key, "X")
               /\ ino \in Inode
               /\ nextInode' = IF ino > nextInode THEN ino ELSE nextInode
               /\ node' = [node EXCEPT ![p] = (key :>
                    [ino |-> ino, mode |-> IF "under" \in flags THEN "XC" ELSE "X"]) @@ @]
               /\ txn' = [txn EXCEPT ![p] =
                    PathDone(t, IF old = NotExist THEN "SUCCESS" ELSE "PATH_EXISTS", ino)]
       /\ UNCHANGED <<dirTable, inodeTable, pend, work, clients, torn>>

(* A directory to be removed: locked exclusively, unless this transaction     *)
(* already holds a lock on it.                                                *)
ParseDeletedDirectory(p) ==
    LET t == txn[p]
        key == Target(t)
        ino == SearchDirectory(p, t.at, key)
    IN /\ AtTarget(p) /\ {"deleted", "directory"} \subseteq Flags(t, t.k)
       /\ IF key \in DOMAIN node[p] /\ node[p][key].mode # "none"
          THEN /\ txn' = [txn EXCEPT ![p] = PathDone(t, "PATH_LOCK_CONFLICT", NotExist)]
               /\ UNCHANGED <<node, locks, flag>>
          ELSE /\ Acquire(p, t.at, key, "X")
               /\ IF ino = NotExist
                  THEN /\ txn' = [txn EXCEPT ![p] = PathDone(t, "PATH_NOT_EXISTS", NotExist)]
                       /\ UNCHANGED node
                  ELSE /\ txn' = [txn EXCEPT ![p] = PathDone(t, "SUCCESS", ino)]
                       /\ node' = [node EXCEPT ![p] = (key :> [ino |-> ino, mode |-> "X"]) @@ @]
       /\ UNCHANGED <<dirTable, inodeTable, pend, work, nextInode, clients, torn>>

(* A target that may be a directory: its shared lock is kept only if it is.   *)
ParseSharedTarget(p) ==
    LET t == txn[p]
        key == Target(t)
        ino == SearchDirectory(p, t.at, key)
        must == "directory" \in Flags(t, t.k)
    IN /\ AtTarget(p) /\ "shared" \in Flags(t, t.k)
       /\ IF key \in DOMAIN node[p]
          THEN /\ txn' = [txn EXCEPT ![p] = PathDone(t, "SUCCESS", node[p][key].ino)]
               /\ UNCHANGED <<node, locks, flag>>
          ELSE /\ IF ino = NotExist /\ ~must
                  THEN MayLock(t.at, key, "S") /\ UNCHANGED <<locks, flag>>
                  ELSE Acquire(p, t.at, key, "S")
               /\ txn' = [txn EXCEPT ![p] = PathDone(t,
                    IF ino = NotExist /\ must THEN "PATH_NOT_EXISTS" ELSE "SUCCESS", ino)]
               /\ node' = IF ino = NotExist /\ must THEN node
                          ELSE [node EXCEPT ![p] = (key :> [ino |-> ino,
                                 mode |-> IF ino = NotExist THEN "none" ELSE "S"]) @@ @]
       /\ UNCHANGED <<dirTable, inodeTable, pend, work, nextInode, clients, torn>>

(* A file: no lock of its own; one that is to be created gets an id.          *)
ParseFile(p) ==
    LET t == txn[p]
        flags == Flags(t, t.k)
        new == "created" \in flags /\ "input" \notin flags
    IN /\ AtTarget(p) /\ "directory" \notin flags /\ "shared" \notin flags
       /\ nextInode < MaxInode \/ ~new
       /\ nextInode' = IF new THEN NewInode ELSE nextInode
       /\ txn' = [txn EXCEPT ![p] =
            PathDone(t, "SUCCESS", IF new THEN NewInode ELSE NotExist)]
       /\ UNCHANGED <<dirTable, inodeTable, node, locks, flag, pend, work, clients, torn>>

-----------------------------------------------------------------------------
(* The handlers that run on one worker.  The paths whose row is elsewhere     *)
(* are answered WRONG_WORKER; the rest is read or written, and the locks go.  *)

Handling(p, ops) == txn[p].pc = "handle" /\ txn[p].op \in ops

(* The rows of the batch this worker has, in the order of the batch.          *)
Mine(p) == {i \in DOMAIN txn[p].info :
    txn[p].info[i].code = "SUCCESS" /\ Home(txn[p].info[i].key) = txn[p].at}
MyKeys(p) == {txn[p].info[i].key : i \in Mine(p)}

(* The transaction is over on its own server: RWLockReleaseAll and            *)
(* TransactionLevelPathParseReset.                                            *)
Ends(p) ==
    /\ txn' = [txn EXCEPT ![p] = Idle]
    /\ node' = [node EXCEPT ![p] = <<>>]
    /\ locks' = [locks EXCEPT ![p][txn[p].at] = {}]
    /\ UNCHANGED <<dirTable, work, pend, nextInode, clients, flag>>

(* A write of a row that another transaction has written waits for it, and    *)
(* ends in an ERROR if that one has changed the row (simple_heap_update,      *)
(* simple_heap_delete).                                                       *)
RaisesError(p) ==
    /\ txn' = [txn EXCEPT ![p].pc = "error"]
    /\ UNCHANGED <<dirTable, inodeTable, node, locks, flag, pend, work, nextInode, clients, torn>>

(* An inode is inserted only if its row is new; the first of a batch wins and *)
(* the others, rolled back to their subtransaction, are FILE_EXISTS.          *)
FirstOf(p, key) == CHOOSE i \in Mine(p) :
    /\ txn[p].info[i].key = key
    /\ \A j \in Mine(p) : txn[p].info[j].key = key => i <= j
CreatedRows(p) == [key \in MyKeys(p) \ DOMAIN inodeTable |->
    [ino |-> txn[p].info[FirstOf(p, key)].ino, dir |-> FALSE]]

CuckooCreateHandle(p) ==
    /\ Handling(p, {"create"})
    /\ \A key \in MyKeys(p) : ~RowBusy(p, key)
    /\ inodeTable' = inodeTable @@ CreatedRows(p)
    /\ Ends(p) /\ UNCHANGED torn

Reads(p) == Ends(p) /\ UNCHANGED <<inodeTable, torn>>

CuckooStatHandle(p) == Handling(p, {"stat"}) /\ Reads(p)
CuckooOpenHandle(p) == Handling(p, {"open"}) /\ Reads(p)
CuckooReadDirHandle(p) == Handling(p, {"readdir"}) /\ Reads(p)
CuckooOpenDirHandle(p) == Handling(p, {"opendir"}) /\ Reads(p)

(* The rows of the batch that are there are free to be written.               *)
RowsFree(p) == \A key \in MyKeys(p) \cap DOMAIN inodeTable : ~RowBusy(p, key)

(* An update of attributes leaves id and kind of the row alone.               *)
SearchAndUpdateInodeTableInfo(p) == RowsFree(p) /\ (Reads(p) \/ RaisesError(p))

CuckooCloseHandle(p) == Handling(p, {"close"}) /\ SearchAndUpdateInodeTableInfo(p)
CuckooUtimeNsHandle(p) == Handling(p, {"utimens"}) /\ SearchAndUpdateInodeTableInfo(p)
CuckooChownHandle(p) == Handling(p, {"chown"}) /\ SearchAndUpdateInodeTableInfo(p)
CuckooChmodHandle(p) == Handling(p, {"chmod"}) /\ SearchAndUpdateInodeTableInfo(p)

(* The row goes whatever it is; PROGRAM_ERROR for a directory only colours    *)
(* the answer, and the transaction commits: the directory keeps its entry.    *)
CuckooUnlinkHandle(p) ==
    /\ Handling(p, {"unlink"}) /\ RowsFree(p)
    /\ \/ /\ inodeTable' = Without(inodeTable, MyKeys(p))
          /\ torn' = (torn \/ \E key \in MyKeys(p) \cap DOMAIN inodeTable : inodeTable[key].dir)
          /\ Ends(p)
       \/ RaisesError(p)

-----------------------------------------------------------------------------
(* The handlers of the coordinator: its own replica is written, and each      *)
(* worker gets its sub-operations.                                            *)

Do(what, key, ino) == [do |-> what, key |-> key, ino |-> ino]
Ok(p) == SelectSeq(txn[p].info, LAMBDA i : i.code = "SUCCESS")
Call(p, calls) ==
    /\ work' = [work EXCEPT ![p] = calls]
    /\ txn' = [txn EXCEPT ![p].pc = "calls"]
    /\ UNCHANGED <<dirTable, inodeTable, node, locks, flag, nextInode, clients, torn>>

(* Every worker creates the directories; the inode rows go to their workers.  *)
CuckooMkdirHandle(p) ==
    LET new == Ok(p)
        At(w) == SelectSeq(new, LAMBDA i : Home(i.key) = w)
    IN /\ Handling(p, {"mkdir"})
       /\ \/ new = <<>> /\ Reads(p)
          \/ /\ new # <<>>
             /\ pend' = [pend EXCEPT ![p][CN].dirIns =
                  [key \in {new[i].key : i \in DOMAIN new} |->
                     (CHOOSE i \in {new[j] : j \in DOMAIN new} : i.key = key).ino]]
             /\ Call(p, [w \in Worker |->
                  [i \in DOMAIN new |-> Do("insertDir", new[i].key, new[i].ino)]
                  \o [i \in DOMAIN At(w) |-> Do("insertRow", At(w)[i].key, At(w)[i].ino)]])

(* Mutant: the row of the removed directory is forgotten.                     *)
RmdirKeepsRow(p) ==
    LET d == txn[p].info[1] IN
    /\ Handling(p, {"rmdir"})
    /\ pend' = [pend EXCEPT ![p][CN].dirDel = {d.key}]
    /\ Call(p, [w \in Worker |->
         <<Do("deleteDir", d.key, d.ino), Do("checkEmpty", d.key, d.ino)>>])

(* Every worker removes the entry and looks for rows below the directory.     *)
CuckooRmdirHandle(p) ==
    LET d == txn[p].info[1] IN
    /\ Handling(p, {"rmdir"})
    /\ pend' = [pend EXCEPT ![p][CN].dirDel = {d.key}]
    /\ Call(p, [w \in Worker |->
         <<Do("deleteDir", d.key, d.ino), Do("checkEmpty", d.key, d.ino)>>
         \o IF Home(d.key) = w THEN <<Do("unlinkRow", d.key, d.ino)>> ELSE <<>>])

(* The entry moves on every worker, in the order of the locks; the row moves  *)
(* on its worker, or is taken there and inserted on the other one later.      *)
CuckooRenameHandle(p) ==
    LET t == txn[p]
        dst == t.info[t.dst]
        src == t.info[3 - t.dst]
        delete == Do("deleteDir", src.key, t.src)
        insert == Do("insertDir", dst.key, t.src)
    IN /\ Handling(p, {"rename"})
       /\ pend' = IF t.src = NotExist THEN pend
                  ELSE [pend EXCEPT ![p][CN].dirDel = {src.key},
                                    ![p][CN].dirIns = dst.key :> t.src]
       /\ Call(p, [w \in Worker |->
            (IF t.src = NotExist THEN <<>>
             ELSE IF t.dst = 1 THEN <<insert, delete>> ELSE <<delete, insert>>)
            \o (IF Home(src.key) = w THEN <<Do("takeRow", src.key, NotExist)>> ELSE <<>>)
            \o (IF Home(src.key) = w /\ Home(dst.key) = w
                THEN <<Do("putRow", dst.key, NotExist)>> ELSE <<>>)])

AllCalled(p) ==
    txn[p].pc \in {"calls", "calls2"} /\ ~txn[p].failed /\ \A w \in Worker : work[p][w] = <<>>
CrossWorker(p) ==
    /\ txn[p].op = "rename"
    /\ Home(txn[p].info[1].key) # Home(txn[p].info[2].key)

(* Steps 5 and 6 of rename: the row taken on the source worker is inserted on *)
(* the other one.                                                             *)
RenameCallsSubCreate(p) ==
    LET dst == txn[p].info[txn[p].dst].key IN
    /\ AllCalled(p) /\ txn[p].pc = "calls" /\ CrossWorker(p)
    /\ work' = [work EXCEPT ![p][Home(dst)] = <<Do("putRow", dst, NotExist)>>]
    /\ txn' = [txn EXCEPT ![p].pc = "calls2"]
    /\ UNCHANGED <<dirTable, inodeTable, node, locks, flag, pend, nextInode, clients, torn>>

-----------------------------------------------------------------------------
(* The sub-operations on worker w.                                            *)

Doing(p, w, what) ==
    /\ txn[p].pc \in {"calls", "calls2", "abort"} /\ work[p][w] # <<>>
    /\ Head(work[p][w]).do = what
Did(p, w) ==
    /\ work' = [work EXCEPT ![p][w] = Tail(@)]
    /\ UNCHANGED <<dirTable, inodeTable, node, nextInode, clients, torn>>

(* An ERROR ends the transaction on the worker at once: XACT_EVENT_ABORT.     *)
Failed(p, w) ==
    /\ work' = [work EXCEPT ![p][w] = <<>>]
    /\ txn' = [txn EXCEPT ![p].failed = TRUE]
    /\ pend' = [pend EXCEPT ![p][w] = NoWrites]
    /\ locks' = [locks EXCEPT ![p][w] = {}]
    /\ UNCHANGED <<dirTable, inodeTable, node, nextInode, clients, torn>>

(* Mutant: the worker inserts without the lock.                               *)
SubMkdirUnlocked(p, w) ==
    LET do == Head(work[p][w]) IN
    /\ Doing(p, w, "insertDir")
    /\ IF SearchDirectory(p, w, do.key) # NotExist THEN Failed(p, w)
       ELSE /\ pend' = [pend EXCEPT ![p][w].dirIns = (do.key :> do.ino) @@ @]
            /\ Did(p, w) /\ UNCHANGED <<txn, locks>>
    /\ UNCHANGED flag

(* InsertDirectoryByDirectoryHashTable under the exclusive lock.              *)
CuckooMkdirSubMkdirHandle(p, w) ==
    LET do == Head(work[p][w]) IN
    /\ Doing(p, w, "insertDir") /\ MayLock(w, do.key, "X")
    /\ IF SearchDirectory(p, w, do.key) # NotExist
       THEN Failed(p, w) /\ flag' = Unflagged(w, do.key)
       ELSE /\ Acquire(p, w, do.key, "X")
            /\ pend' = [pend EXCEPT ![p][w].dirIns = (do.key :> do.ino) @@ @]
            /\ Did(p, w) /\ UNCHANGED txn

(* DeleteDirectoryByDirectoryHashTable under the exclusive lock.              *)
DeleteDirectoryByDirectoryHashTable(p, w) ==
    LET do == Head(work[p][w]) IN
    /\ Doing(p, w, "deleteDir") /\ MayLock(w, do.key, "X")
    /\ IF SearchDirectory(p, w, do.key) = NotExist
       THEN Failed(p, w) /\ flag' = Unflagged(w, do.key)
       ELSE /\ Acquire(p, w, do.key, "X")
            /\ pend' = [pend EXCEPT ![p][w].dirDel = @ \cup {do.key}]
            /\ Did(p, w) /\ UNCHANGED txn

(* Mutant: the directory may have content.                                    *)
SubRmdirIgnoresContent(p, w) ==
    /\ Doing(p, w, "checkEmpty")
    /\ Did(p, w) /\ UNCHANGED <<txn, locks, flag, pend>>

(* No row of this worker is below the directory.                              *)
CuckooRmdirSubRmdirHandle(p, w) ==
    LET dir == dirTable[w][Head(work[p][w]).key] IN
    /\ Doing(p, w, "checkEmpty")
    /\ IF \E key \in DOMAIN Rows(p, w) : Home(key) = w /\ key[1] = dir
       THEN Failed(p, w) /\ UNCHANGED flag
       ELSE Did(p, w) /\ UNCHANGED <<txn, locks, flag, pend>>

InsertRow(p, w, key, row) ==
    /\ ~RowBusy(p, key)
    /\ IF key \in DOMAIN Rows(p, w) THEN Failed(p, w)
       ELSE /\ pend' = [pend EXCEPT ![p][w].rowIns = (key :> row) @@ @]
            /\ Did(p, w) /\ UNCHANGED <<txn, locks>>
    /\ UNCHANGED flag

CuckooMkdirSubCreateHandle(p, w) ==
    /\ Doing(p, w, "insertRow")
    /\ InsertRow(p, w, Head(work[p][w]).key, [ino |-> Head(work[p][w]).ino, dir |-> TRUE])

(* The row of a removed directory, or of the source of a rename, goes; the    *)
(* delete waits for another transaction's write of the row, and fails if that *)
(* one has changed it.                                                        *)
DeleteRow(p, w, key, seen) ==
    /\ ~RowBusy(p, key)
    /\ \/ Failed(p, w)
       \/ /\ key \in DOMAIN Rows(p, w)
          /\ pend' = [pend EXCEPT ![p][w].rowDel = @ \cup {key}]
          /\ txn' = [txn EXCEPT ![p].moved = IF seen THEN <<Rows(p, w)[key]>> ELSE @]
          /\ Did(p, w) /\ UNCHANGED locks
    /\ UNCHANGED flag

CuckooRmdirSubUnlinkHandle(p, w) ==
    Doing(p, w, "unlinkRow") /\ DeleteRow(p, w, Head(work[p][w]).key, FALSE)

CuckooRenameSubRenameLocallyHandle(p, w) ==
    Doing(p, w, "takeRow") /\ DeleteRow(p, w, Head(work[p][w]).key, TRUE)

CuckooRenameSubCreateHandle(p, w) ==
    Doing(p, w, "putRow") /\ InsertRow(p, w, Head(work[p][w]).key, txn[p].moved[1])

-----------------------------------------------------------------------------
(* The end of a coordinator transaction.                                      *)

ApplyDirs(s, w) == w.dirIns @@ Without(dirTable[s], w.dirDel)

(* What a rename does that another request has overtaken since it looked its  *)
(* source up: it moves a row of the other kind, or an entry whose id is not   *)
(* the one it gives to the new entry.                                         *)
Tears(p) ==
    /\ txn[p].op = "rename"
    /\ LET row == txn[p].moved[1] IN
       IF row.dir THEN row.ino # txn[p].src ELSE txn[p].src # NotExist

(* Every worker has prepared: the coordinator commits, and its locks stay.    *)
CommitOnCN(p) ==
    /\ AllCalled(p) /\ (txn[p].pc = "calls2" \/ ~CrossWorker(p))
    /\ dirTable' = [dirTable EXCEPT ![CN] = ApplyDirs(CN, pend[p][CN])]
    /\ pend' = [pend EXCEPT ![p][CN] = NoWrites]
    /\ txn' = [txn EXCEPT ![p].pc = "commit"]
    /\ torn' = (torn \/ Tears(p))
    /\ UNCHANGED <<inodeTable, node, locks, flag, work, nextInode, clients>>

(* COMMIT PREPARED on worker w, which also releases the locks there.          *)
CommitOnWorker(p, w) ==
    /\ txn[p].pc = "commit" /\ w \in txn[p].todo
    /\ dirTable' = [dirTable EXCEPT ![w] = ApplyDirs(w, pend[p][w])]
    /\ inodeTable' = pend[p][w].rowIns @@ Without(inodeTable, pend[p][w].rowDel)
    /\ pend' = [pend EXCEPT ![p][w] = NoWrites]
    /\ locks' = [locks EXCEPT ![p][w] = {}]
    /\ txn' = [txn EXCEPT ![p].todo = @ \ {w}]
    /\ UNCHANGED <<node, work, nextInode, clients, flag, torn>>

(* The coordinator aborts, after a failed sub-operation or for a reason of    *)
(* its own, and lets its locks go before the workers roll back.               *)
AbortOnCN(p) ==
    /\ txn[p].pc \in {"calls", "calls2"}
    /\ txn' = [txn EXCEPT ![p].pc = "abort"]
    /\ node' = [node EXCEPT ![p] = <<>>]
    /\ locks' = [locks EXCEPT ![p][CN] = {}]
    /\ pend' = [pend EXCEPT ![p][CN] = NoWrites]
    /\ UNCHANGED <<dirTable, inodeTable, work, nextInode, clients, flag, torn>>

(* ROLLBACK on worker w, once it has answered what it was sent.               *)
AbortOnWorker(p, w) ==
    /\ txn[p].pc = "abort" /\ w \in txn[p].todo /\ work[p][w] = <<>>
    /\ pend' = [pend EXCEPT ![p][w] = NoWrites]
    /\ locks' = [locks EXCEPT ![p][w] = {}]
    /\ txn' = [txn EXCEPT ![p].todo = @ \ {w}]
    /\ UNCHANGED <<dirTable, inodeTable, node, work, nextInode, clients, flag, torn>>

(* Nothing is left to do, or an ERROR ended the transaction before it called  *)
(* anyone.                                                                    *)
Finish(p) ==
    /\ txn[p].pc = "error" \/ (txn[p].pc \in {"commit", "abort"} /\ txn[p].todo = {})
    /\ Reads(p)

-----------------------------------------------------------------------------
(* An attempt at an exclusive lock that fails sets the flag, and is repeated. *)
(* The locks backend p, or a worker for it, is about to take exclusively:     *)
Wanted(p) ==
    LET t == txn[p]
        here == IF AtTarget(p) /\ "directory" \in Flags(t, t.k)
                   /\ \/ "created" \in Flags(t, t.k) /\ Target(t) \notin DOMAIN node[p]
                      \/ "deleted" \in Flags(t, t.k)
                         /\ ~(Target(t) \in DOMAIN node[p] /\ node[p][Target(t)].mode # "none")
                THEN {<<t.at, Target(t)>>} ELSE {}
    IN here \cup {<<w, Head(work[p][w]).key>> : w \in {v \in Worker :
                      Doing(p, v, "insertDir") \/ Doing(p, v, "deleteDir")}}

RWLockAttemptFails(p) == \E l \in Wanted(p) :
    /\ ~MayLock(l[1], l[2], "X") /\ l[2] \notin flag[l[1]]
    /\ flag' = [flag EXCEPT ![l[1]] = @ \cup {l[2]}]
    /\ UNCHANGED <<dirTable, inodeTable, txn, node, locks, pend, work, nextInode, clients, torn>>

-----------------------------------------------------------------------------
Resolve(p) ==
    \/ CheckWhetherPathExistsInDirectoryTable(p) \/ PathParseDescend(p)
    \/ ParseCreatedDirectory(p) \/ ParseDeletedDirectory(p)
    \/ ParseSharedTarget(p) \/ ParseFile(p)
Handle(p) ==
    \/ CuckooMkdirHandle(p) \/ CuckooCreateHandle(p) \/ CuckooStatHandle(p)
    \/ CuckooOpenHandle(p) \/ CuckooCloseHandle(p) \/ CuckooUnlinkHandle(p)
    \/ CuckooReadDirHandle(p) \/ CuckooOpenDirHandle(p) \/ CuckooRmdirHandle(p)
    \/ CuckooRenameHandle(p) \/ CuckooUtimeNsHandle(p) \/ CuckooChownHandle(p)
    \/ CuckooChmodHandle(p) \/ RenameCallsSubCreate(p)
SubOperation(p, w) ==
    \/ CuckooMkdirSubMkdirHandle(p, w) \/ DeleteDirectoryByDirectoryHashTable(p, w)
    \/ CuckooRmdirSubRmdirHandle(p, w) \/ CuckooMkdirSubCreateHandle(p, w)
    \/ CuckooRmdirSubUnlinkHandle(p, w) \/ CuckooRenameSubRenameLocallyHandle(p, w)
    \/ CuckooRenameSubCreateHandle(p, w)
End(p) ==
    \/ CommitOnCN(p) \/ Finish(p)
    \/ \E w \in Worker : CommitOnWorker(p, w) \/ AbortOnWorker(p, w)

(* What backend p does of itself once it has a request.                       *)
Step(p) ==
    \/ Resolve(p) \/ Handle(p) \/ End(p) \/ RWLockAttemptFails(p)
    \/ \E w \in Worker : SubOperation(p, w)
    \/ txn[p].pc # "idle" /\ txn[p].failed /\ AbortOnCN(p)

(* All requests served: the system is at rest.                                *)
Rest == /\ clients.left = 0 /\ \A p \in Proc : txn[p].pc = "idle"
        /\ UNCHANGED vars

Next ==
    \/ \E p \in Proc : CuckooMetaProcess(p) \/ Step(p) \/ AbortOnCN(p)
    \/ Rest

Spec == Init /\ [][Next]_vars
=============================================================================
