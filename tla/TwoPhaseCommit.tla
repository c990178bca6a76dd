--------------------------- MODULE TwoPhaseCommit ---------------------------
(***************************************************************************)
(* The implicit two-phase commit of the CuckooFS metadata engine.          *)
(*                                                                         *)
(* mkdir, rmdir and rename run in a backend of the coordinator node (CN).  *)
(* The backend keeps one libpq connection per worker across transactions,  *)
(* with a transactionState beside it; the transaction callbacks of         *)
(* transaction.c drive PREPARE TRANSACTION, COMMIT PREPARED and their      *)
(* counterparts over those connections.  What a failure leaves behind is   *)
(* resolved by the clean-up daemon of the CN.                              *)
(*                                                                         *)
(* Every one of the three operations sends its writes to all workers       *)
(* (meta_handle.c:161,1200,1490), so every transaction here has all of     *)
(* Worker as participants.  What a command writes is abstracted to the     *)
(* fate of the transaction on each worker.                                 *)
(***************************************************************************)
EXTENDS Naturals, FiniteSets

CONSTANTS
    Worker,      \* the metadata servers other than the CN
    Backend,     \* the PostgreSQL backends of the CN that serve meta calls
    Txn,         \* the distributed transactions that are ever started
    NoTxn,       \* not a transaction
    NoWorker,    \* not a worker
    MaxFaults    \* bound on crashes and lost connections

ASSUME WorkerAssumption == IsFiniteSet(Worker) /\ Worker # {}
ASSUME NoTxnAssumption == NoTxn \notin Txn
ASSUME NoWorkerAssumption == NoWorker \notin Worker
ASSUME MaxFaultsAssumption == MaxFaults \in Nat

VARIABLES
    \* one CN backend
    pc,          \* where it is in the life of a transaction
    txn,         \* its transaction
    todo,        \* workers whose answers the current loop still has to read
    failed,      \* errorMsg of CuckooRemoteCommandPrepare is not empty
    localWrite,  \* LocalServerWrite
    rows,        \* workers for which it wrote a 2PC record in this transaction
    \* the connection of a backend to a worker
    conn,        \* ForeignServerConnection.transactionState
    link,        \* "good", "broken" (not noticed yet) or "bad" (CONNECTION_BAD)
    req,         \* the command on its way to the worker
    rep,         \* the answer not yet read
    sess,        \* the transaction whose block is open in the worker's session
    \* the CN's shared and durable state
    cn,          \* fate of the transaction in the CN's own database
    via,         \* how it was committed: "onePhase" or "twoPhase"
    fresh,       \* history: every connection was in state NONE at its start
    inprogress,  \* InprogressTransactions, in shared memory
    record,      \* committed rows of cuckoo_distributed_transaction
    \* the workers
    up,
    out,         \* fate of the transaction on the worker
    late,        \* commands that arrive after the CN gave the connection up
    \* the clean-up daemon
    dpc, dsrv, dleft, setA, setB, setC, setD,
    dele,        \* record rows deleted by the transaction of this pass
    unsent,      \* commands left in RemoteConnectionCommandCache by an error
    dlink,
    faults

backendVars == <<pc, txn, todo, failed, localWrite, rows>>
connVars == <<conn, link, req, rep, sess>>
cnVars == <<cn, via, fresh, inprogress, record>>
workerVars == <<up, out, late>>
daemonVars == <<dpc, dsrv, dleft, setA, setB, setC, setD, dele, unsent, dlink>>
vars == <<backendVars, connVars, cnVars, workerVars, daemonVars, faults>>

(* transactionState of a connection *)
ConnState == {"NONE", "WRITE", "PREPARE"}
LinkState == {"good", "broken", "bad"}
(* "BEGIN": BEGIN and the meta call; "RUN": the meta call without BEGIN;     *)
(* "JUNK": the uninitialised buffer sent when no gid was ever formatted.     *)
Command == {"BEGIN", "RUN", "PREPARE", "COMMIT", "ROLLBACK",
            "COMMIT PREPARED", "ROLLBACK PREPARED", "JUNK"}
Request == [cmd : Command, t : Txn]
NoReq == [cmd |-> "none", t |-> NoTxn]
Resolution == {"COMMIT PREPARED", "ROLLBACK PREPARED"}
DaemonCall == [w : Worker, cmd : {"SELECT"}, t : {NoTxn}]
              \cup [w : Worker, cmd : Resolution, t : Txn]
(* fate of a transaction on a worker *)
Fate == {"none", "open", "prepared", "committed", "aborted"}

BackendTypeOK ==
    /\ pc \in [Backend -> {"idle", "run", "run2", "prepare", "commit",
                           "error", "abort"}]
    /\ txn \in [Backend -> Txn \cup {NoTxn}]
    /\ todo \in [Backend -> SUBSET Worker]
    /\ failed \in [Backend -> BOOLEAN]
    /\ localWrite \in [Backend -> BOOLEAN]
    /\ rows \in [Backend -> SUBSET Worker]
ConnTypeOK ==
    /\ conn \in [Backend -> [Worker -> ConnState]]
    /\ link \in [Backend -> [Worker -> LinkState]]
    /\ req \in [Backend -> [Worker -> Request \cup {NoReq}]]
    /\ rep \in [Backend -> [Worker -> {"none", "ok", "err"}]]
    /\ sess \in [Backend -> [Worker -> Txn \cup {NoTxn}]]
CNTypeOK ==
    /\ cn \in [Txn -> {"new", "active", "committed", "aborted"}]
    /\ via \in [Txn -> {"none", "onePhase", "twoPhase"}]
    /\ fresh \in [Txn -> BOOLEAN]
    /\ inprogress \in SUBSET Txn
    /\ record \in SUBSET (Worker \X Txn)
WorkerTypeOK ==
    /\ up \in [Worker -> BOOLEAN]
    /\ out \in [Txn -> [Worker -> Fate]]
    /\ late \in SUBSET [w : Worker, cmd : Command, t : Txn]
DaemonTypeOK ==
    /\ dpc \in {"sleep", "next", "A", "B", "C", "D", "resolve", "rollback"}
    /\ dsrv \in Worker \cup {NoWorker}
    /\ dleft \in SUBSET Worker
    /\ setA \in SUBSET Txn /\ setB \in SUBSET Txn
    /\ setC \in SUBSET Txn /\ setD \in SUBSET Txn
    /\ dele \in SUBSET (Worker \X Txn)
    /\ unsent \in SUBSET DaemonCall
    /\ dlink \in [Worker -> LinkState]

(* The values the variables can take.                                        *)
TypeOK ==
    /\ BackendTypeOK /\ ConnTypeOK /\ CNTypeOK /\ WorkerTypeOK /\ DaemonTypeOK
    /\ faults \in 0 .. MaxFaults

(* A link is "bad" as long as no connection was ever made.                   *)
Init ==
    /\ pc = [b \in Backend |-> "idle"]
    /\ txn = [b \in Backend |-> NoTxn]
    /\ todo = [b \in Backend |-> {}]
    /\ failed = [b \in Backend |-> FALSE]
    /\ localWrite = [b \in Backend |-> FALSE]
    /\ rows = [b \in Backend |-> {}]
    /\ conn = [b \in Backend |-> [w \in Worker |-> "NONE"]]
    /\ link = [b \in Backend |-> [w \in Worker |-> "bad"]]
    /\ req = [b \in Backend |-> [w \in Worker |-> NoReq]]
    /\ rep = [b \in Backend |-> [w \in Worker |-> "none"]]
    /\ sess = [b \in Backend |-> [w \in Worker |-> NoTxn]]
    /\ cn = [t \in Txn |-> "new"]
    /\ via = [t \in Txn |-> "none"]
    /\ fresh = [t \in Txn |-> FALSE]
    /\ inprogress = {}
    /\ record = {}
    /\ up = [w \in Worker |-> TRUE]
    /\ out = [t \in Txn |-> [w \in Worker |-> "none"]]
    /\ late = {}
    /\ dpc = "sleep"
    /\ dsrv = NoWorker
    /\ dleft = {}
    /\ setA = {} /\ setB = {} /\ setC = {} /\ setD = {}
    /\ dele = {}
    /\ unsent = {}
    /\ dlink = [w \in Worker |-> "bad"]
    /\ faults = 0

-----------------------------------------------------------------------------
(***************************************************************************)
(* Connections.                                                            *)
(***************************************************************************)

(* GetForeignServerConnection can return the connections of all workers:     *)
(* a connection that is known to be bad is opened anew.                      *)
Connectable(b) == \A w \in Worker : link[b][w] = "bad" => up[w]

LinkAfterConnect(b) == [w \in Worker |->
    IF link[b][w] = "bad" THEN "good" ELSE link[b][w]]

(* ... which resets its transactionState.                                    *)
ConnAfterConnect(b) == [w \in Worker |->
    IF link[b][w] = "bad" THEN "NONE" ELSE conn[b][w]]

(* ClearPGresultInPGconn waits for the answers still under way ...           *)
NothingUnderWay(b) == \A w \in Worker : req[b][w] = NoReq

(* Commands of t sent to the workers of S over the links l: what goes out on *)
(* a broken connection is lost.                                              *)
Sent(b, t, S, l, cmd) == [w \in Worker |->
    IF w \in S /\ l[w] = "good" THEN [cmd |-> cmd[w], t |-> t] ELSE req[b][w]]
Same(cmd) == [w \in Worker |-> cmd]

(* The answer to the last command on the connection is an error or, on a     *)
(* broken connection, will never come.                                       *)
Refused(b, w) == rep[b][w] = "err" \/ (rep[b][w] = "none" /\ link[b][w] = "broken")
LinkAfterRead(b, w) ==
    [link EXCEPT ![b][w] = IF rep[b][w] = "none" THEN "bad" ELSE @]

-----------------------------------------------------------------------------
(***************************************************************************)
(* A backend of the CN.                                                    *)
(***************************************************************************)

(* The handler runs its local part and sends its meta calls to all workers   *)
(* (CuckooSendCommandAndWaitForResult).  BEGIN goes out, and the state is    *)
(* advanced, only on a connection in state NONE.  lw: mkdir and rmdir        *)
(* register a local write, rename does not (meta_handle.c:117,1180).         *)
(* A session in which an earlier transaction's block is still open is not    *)
(* followed further.                                                         *)
CallMeta(b, t, lw) ==
    /\ pc[b] = "idle" /\ cn[t] = "new"
    /\ NothingUnderWay(b) /\ \A w \in Worker : sess[b][w] = NoTxn
    /\ Connectable(b)
    /\ txn' = [txn EXCEPT ![b] = t]
    /\ localWrite' = [localWrite EXCEPT ![b] = lw]
    /\ cn' = [cn EXCEPT ![t] = "active"]
    /\ rep' = [rep EXCEPT ![b] = [w \in Worker |-> "none"]]
    /\ LET l == LinkAfterConnect(b)
           c == ConnAfterConnect(b)
           Cmd == [w \in Worker |-> IF c[w] = "NONE" THEN "BEGIN" ELSE "RUN"]
           Send(S) ==
               /\ req' = [req EXCEPT ![b] = Sent(b, t, S, l, Cmd)]
               /\ conn' = [conn EXCEPT ![b] = [w \in Worker |->
                      IF w \in S /\ c[w] = "NONE" THEN "WRITE" ELSE c[w]]]
       IN /\ fresh' = [fresh EXCEPT ![t] = \A w \in Worker : c[w] = "NONE"]
          /\ \/ /\ Send(Worker)
                /\ link' = [link EXCEPT ![b] = l]
                /\ pc' = [pc EXCEPT ![b] = "run"]
                /\ todo' = [todo EXCEPT ![b] = Worker]
             \/ \E x \in Worker, S \in SUBSET Worker : \* sending to x fails
                /\ l[x] = "broken" /\ x \notin S
                /\ Send(S)
                /\ link' = [link EXCEPT ![b] = [l EXCEPT ![x] = "bad"]]
                /\ pc' = [pc EXCEPT ![b] = "error"]
                /\ UNCHANGED todo
    /\ UNCHANGED <<failed, rows, sess, via, inprogress, record>>
    /\ UNCHANGED <<workerVars, daemonVars, faults>>

(* GetForeignServerConnection raises ERROR: some worker cannot be reached.   *)
CallMetaUnreachable(b, t, lw) ==
    /\ pc[b] = "idle" /\ cn[t] = "new"
    /\ ~Connectable(b)
    /\ txn' = [txn EXCEPT ![b] = t]
    /\ localWrite' = [localWrite EXCEPT ![b] = lw]
    /\ cn' = [cn EXCEPT ![t] = "active"]
    /\ pc' = [pc EXCEPT ![b] = "error"]
    /\ UNCHANGED <<todo, failed, rows, via, fresh, inprogress, record>>
    /\ UNCHANGED <<connVars, workerVars, daemonVars, faults>>

(* Mutants: a refused call does not raise ERROR; an answer that cannot come  *)
(* any more is waited for.                                                   *)
ReadAnswerIgnoresError(b, w) ==
    /\ pc[b] \in {"run", "run2"} /\ w \in todo[b]
    /\ rep[b][w] = "ok" \/ Refused(b, w)
    /\ todo' = [todo EXCEPT ![b] = @ \ {w}]
    /\ link' = LinkAfterRead(b, w)
    /\ rep' = [rep EXCEPT ![b][w] = "none"]
    /\ UNCHANGED <<pc, txn, failed, localWrite, rows, conn, req, sess>>
    /\ UNCHANGED <<cnVars, workerVars, daemonVars, faults>>
ReadAnswerWaits(b, w) ==
    /\ pc[b] \in {"run", "run2"} /\ w \in todo[b]
    /\ \/ /\ rep[b][w] = "ok"
          /\ todo' = [todo EXCEPT ![b] = @ \ {w}]
          /\ UNCHANGED pc
       \/ /\ rep[b][w] = "err"
          /\ pc' = [pc EXCEPT ![b] = "error"]
          /\ todo' = [todo EXCEPT ![b] = {}]
    /\ rep' = [rep EXCEPT ![b][w] = "none"]
    /\ UNCHANGED <<txn, failed, localWrite, rows, conn, link, req, sess>>
    /\ UNCHANGED <<cnVars, workerVars, daemonVars, faults>>

(* The answers of a round are read one worker at a time; the first bad one   *)
(* raises ERROR.                                                             *)
ReadAnswer(b, w) ==
    /\ pc[b] \in {"run", "run2"} /\ w \in todo[b]
    /\ \/ /\ rep[b][w] = "ok"
          /\ todo' = [todo EXCEPT ![b] = @ \ {w}]
          /\ UNCHANGED <<pc, link>>
       \/ /\ Refused(b, w)
          /\ pc' = [pc EXCEPT ![b] = "error"]
          /\ todo' = [todo EXCEPT ![b] = {}]
          /\ link' = LinkAfterRead(b, w)
    /\ rep' = [rep EXCEPT ![b][w] = "none"]
    /\ UNCHANGED <<txn, failed, localWrite, rows, conn, req, sess>>
    /\ UNCHANGED <<cnVars, workerVars, daemonVars, faults>>

(* The second round of a rename between workers: RENAME_SUB_CREATE goes to   *)
(* the worker of the destination alone.                                      *)
RenameSubCreate(b, w) ==
    /\ pc[b] = "run" /\ todo[b] = {} /\ ~localWrite[b]
    /\ pc' = [pc EXCEPT ![b] = "run2"]
    /\ todo' = [todo EXCEPT ![b] = {w}]
    /\ req' = [req EXCEPT ![b] = Sent(b, txn[b], {w}, link[b], Same("RUN"))]
    /\ UNCHANGED <<txn, failed, localWrite, rows, conn, link, rep, sess>>
    /\ UNCHANGED <<cnVars, workerVars, daemonVars, faults>>

(* CuckooRemoteCommandPrepare counts the servers that wrote ...              *)
Writers(b) == {w \in Worker : conn[b][w] = "WRITE"}
WriteServerCount(b) == Cardinality(Writers(b)) + IF localWrite[b] THEN 1 ELSE 0
NeedTwoPhase(b) == WriteServerCount(b) >= 2

(* ... and does nothing if there are fewer than two of them.                 *)
PreCommitOnePhase(b) ==
    /\ pc[b] \in {"run", "run2"} /\ todo[b] = {}
    /\ ~NeedTwoPhase(b)
    /\ pc' = [pc EXCEPT ![b] = "prepare"]
    /\ via' = [via EXCEPT ![txn[b]] = "onePhase"]
    /\ UNCHANGED <<txn, todo, failed, localWrite, rows>>
    /\ UNCHANGED <<connVars, cn, fresh, inprogress, record>>
    /\ UNCHANGED <<workerVars, daemonVars, faults>>

(* Otherwise it names the transaction, enters it in InprogressTransactions   *)
(* and sends PREPARE TRANSACTION to every worker that wrote.                 *)
PreCommitTwoPhase(b) ==
    /\ pc[b] \in {"run", "run2"} /\ todo[b] = {}
    /\ NeedTwoPhase(b)
    /\ via' = [via EXCEPT ![txn[b]] = "twoPhase"]
    /\ inprogress' = inprogress \cup {txn[b]}
    /\ \/ /\ req' = [req EXCEPT ![b] =
                       Sent(b, txn[b], Writers(b), link[b], Same("PREPARE"))]
          /\ pc' = [pc EXCEPT ![b] = "prepare"]
          /\ todo' = [todo EXCEPT ![b] = Writers(b)]
          /\ UNCHANGED link
       \/ \E x \in Writers(b), S \in SUBSET Writers(b) :
          /\ link[b][x] = "broken" /\ x \notin S
          /\ req' = [req EXCEPT ![b] =
                       Sent(b, txn[b], S, link[b], Same("PREPARE"))]
          /\ link' = [link EXCEPT ![b][x] = "bad"]
          /\ pc' = [pc EXCEPT ![b] = "error"]
          /\ UNCHANGED todo
    /\ UNCHANGED <<txn, failed, localWrite, rows, conn, rep, sess>>
    /\ UNCHANGED <<cn, fresh, record, workerVars, daemonVars, faults>>

(* A worker that answers OK is noted as prepared, and a 2PC record is        *)
(* written for it in the CN's still open transaction.                        *)
ReadPrepareAnswer(b, w) ==
    /\ pc[b] = "prepare" /\ w \in todo[b]
    /\ \/ /\ rep[b][w] = "ok"
          /\ conn' = [conn EXCEPT ![b][w] = "PREPARE"]
          /\ rows' = [rows EXCEPT ![b] = @ \cup {w}]
          /\ UNCHANGED <<failed, link>>
       \/ /\ Refused(b, w)
          /\ failed' = [failed EXCEPT ![b] = TRUE]
          /\ link' = LinkAfterRead(b, w)
          /\ UNCHANGED <<conn, rows>>
    /\ todo' = [todo EXCEPT ![b] = @ \ {w}]
    /\ rep' = [rep EXCEPT ![b][w] = "none"]
    /\ UNCHANGED <<pc, txn, localWrite, req, sess>>
    /\ UNCHANGED <<cnVars, workerVars, daemonVars, faults>>

PrepareFailed(b) ==
    /\ pc[b] = "prepare" /\ todo[b] = {} /\ failed[b]
    /\ pc' = [pc EXCEPT ![b] = "error"]
    /\ UNCHANGED <<txn, todo, failed, localWrite, rows, connVars>>
    /\ UNCHANGED <<cnVars, workerVars, daemonVars, faults>>

(* The CN commits: its own writes and the 2PC records become durable and     *)
(* visible together.  CuckooRemoteCommandCommit then sends each connection   *)
(* what its transactionState asks for; without a gid the buffer holding      *)
(* COMMIT PREPARED was never filled.  When a send fails it returns.          *)
Commit(b) ==
    /\ pc[b] = "prepare" /\ todo[b] = {} /\ ~failed[b]
    /\ cn' = [cn EXCEPT ![txn[b]] = "committed"]
    /\ record' = record \cup (rows[b] \X {txn[b]})
    /\ LET T == {w \in Worker : conn[b][w] # "NONE"}
           Cmd == [w \in Worker |->
                     IF conn[b][w] = "WRITE" THEN "COMMIT"
                     ELSE IF via[txn[b]] = "twoPhase" THEN "COMMIT PREPARED"
                     ELSE "JUNK"]
       IN \/ /\ req' = [req EXCEPT ![b] = Sent(b, txn[b], T, link[b], Cmd)]
             /\ todo' = [todo EXCEPT ![b] = T]
             /\ UNCHANGED link
          \/ \E x \in T, S \in SUBSET T :
             /\ link[b][x] = "broken" /\ x \notin S
             /\ req' = [req EXCEPT ![b] = Sent(b, txn[b], S, link[b], Cmd)]
             /\ link' = [link EXCEPT ![b][x] = "bad"]
             /\ UNCHANGED todo
    /\ pc' = [pc EXCEPT ![b] = "commit"]
    /\ UNCHANGED <<txn, failed, localWrite, rows, conn, rep, sess>>
    /\ UNCHANGED <<via, fresh, inprogress, workerVars, daemonVars, faults>>

(* Reading the answers stops at the first bad one: the connections not yet   *)
(* read keep their transactionState.                                         *)
ReadCommitAnswer(b, w) ==
    /\ pc[b] = "commit" /\ w \in todo[b]
    /\ \/ /\ rep[b][w] = "ok"
          /\ conn' = [conn EXCEPT ![b][w] = "NONE"]
          /\ todo' = [todo EXCEPT ![b] = @ \ {w}]
          /\ UNCHANGED link
       \/ /\ Refused(b, w)
          /\ todo' = [todo EXCEPT ![b] = {}]
          /\ link' = LinkAfterRead(b, w)
          /\ UNCHANGED conn
    /\ rep' = [rep EXCEPT ![b][w] = "none"]
    /\ UNCHANGED <<pc, txn, failed, localWrite, rows, req, sess>>
    /\ UNCHANGED <<cnVars, workerVars, daemonVars, faults>>

(* Mutants: the transaction stays in InprogressTransactions; the set is      *)
(* cleared for all transactions.                                             *)
EndTransactionKeepsInprogress(b) ==
    /\ pc[b] \in {"commit", "abort"} /\ todo[b] = {}
    /\ pc' = [pc EXCEPT ![b] = "idle"]
    /\ txn' = [txn EXCEPT ![b] = NoTxn]
    /\ failed' = [failed EXCEPT ![b] = FALSE]
    /\ localWrite' = [localWrite EXCEPT ![b] = FALSE]
    /\ rows' = [rows EXCEPT ![b] = {}]
    /\ UNCHANGED <<todo, connVars, cnVars, workerVars, daemonVars, faults>>

(* The rest of either callback: ClearRemoteTransactionGid and                *)
(* ClearRemoteConnectionCommand.                                             *)
EndTransaction(b) ==
    /\ pc[b] \in {"commit", "abort"} /\ todo[b] = {}
    /\ inprogress' = inprogress \ {txn[b]}
    /\ pc' = [pc EXCEPT ![b] = "idle"]
    /\ txn' = [txn EXCEPT ![b] = NoTxn]
    /\ failed' = [failed EXCEPT ![b] = FALSE]
    /\ localWrite' = [localWrite EXCEPT ![b] = FALSE]
    /\ rows' = [rows EXCEPT ![b] = {}]
    /\ UNCHANGED <<todo, connVars, cn, via, fresh, record>>
    /\ UNCHANGED <<workerVars, daemonVars, faults>>

(* After ERROR the CN aborts and CuckooRemoteCommandAbort tells the workers. *)
Abort(b) ==
    /\ pc[b] = "error"
    /\ Connectable(b) /\ NothingUnderWay(b)
    /\ cn' = [cn EXCEPT ![txn[b]] = "aborted"]
    /\ LET l == LinkAfterConnect(b)
           c == ConnAfterConnect(b)
           T == {w \in Worker : c[w] # "NONE"}
           Cmd == [w \in Worker |->
                     IF c[w] = "WRITE" THEN "ROLLBACK"
                     ELSE IF via[txn[b]] = "twoPhase" THEN "ROLLBACK PREPARED"
                     ELSE "JUNK"]
       IN /\ req' = [req EXCEPT ![b] = Sent(b, txn[b], T, l, Cmd)]
          /\ link' = [link EXCEPT ![b] = l]
          /\ conn' = [conn EXCEPT ![b] = c]
          /\ todo' = [todo EXCEPT ![b] = T]
    /\ rep' = [rep EXCEPT ![b] = [w \in Worker |-> "none"]]
    /\ pc' = [pc EXCEPT ![b] = "abort"]
    /\ UNCHANGED <<txn, failed, localWrite, rows, sess, via, fresh, inprogress>>
    /\ UNCHANGED <<record, workerVars, daemonVars, faults>>

(* Whatever the answer is, the connection is in state NONE afterwards.       *)
ReadAbortAnswer(b, w) ==
    /\ pc[b] = "abort" /\ w \in todo[b]
    /\ rep[b][w] = "ok" \/ Refused(b, w)
    /\ conn' = [conn EXCEPT ![b][w] = "NONE"]
    /\ todo' = [todo EXCEPT ![b] = @ \ {w}]
    /\ link' = LinkAfterRead(b, w)
    /\ rep' = [rep EXCEPT ![b][w] = "none"]
    /\ UNCHANGED <<pc, txn, failed, localWrite, rows, req, sess>>
    /\ UNCHANGED <<cnVars, workerVars, daemonVars, faults>>

-----------------------------------------------------------------------------
(***************************************************************************)
(* Loss of a backend, of the CN or of a connection.                        *)
(***************************************************************************)

(* What is under way on the connections of S is still in the network.        *)
UnderWay(S) ==
    {[w |-> p[2], cmd |-> req[p[1]][p[2]].cmd, t |-> req[p[1]][p[2]].t] :
        p \in {q \in S : req[q[1]][q[2]] # NoReq}}

(* A backend exits between transactions: CuckooCleanupOnExit closes its      *)
(* connections.                                                              *)
BackendExit(b) ==
    /\ pc[b] = "idle" /\ \E w \in Worker : link[b][w] # "bad"
    /\ conn' = [conn EXCEPT ![b] = [w \in Worker |-> "NONE"]]
    /\ link' = [link EXCEPT ![b] = [w \in Worker |-> "bad"]]
    /\ late' = late \cup UnderWay({b} \X Worker)
    /\ req' = [req EXCEPT ![b] = [w \in Worker |-> NoReq]]
    /\ rep' = [rep EXCEPT ![b] = [w \in Worker |-> "none"]]
    /\ sess' = [sess EXCEPT ![b] = [w \in Worker |-> NoTxn]]
    /\ UNCHANGED <<backendVars, cnVars, up, out, daemonVars, faults>>

(* The CN loses every process and its shared memory; the committed records   *)
(* remain, a transaction that had not committed is aborted.                  *)
CNRestart ==
    /\ pc' = [b \in Backend |-> "idle"]
    /\ txn' = [b \in Backend |-> NoTxn]
    /\ todo' = [b \in Backend |-> {}]
    /\ failed' = [b \in Backend |-> FALSE]
    /\ localWrite' = [b \in Backend |-> FALSE]
    /\ rows' = [b \in Backend |-> {}]
    /\ conn' = [b \in Backend |-> [w \in Worker |-> "NONE"]]
    /\ link' = [b \in Backend |-> [w \in Worker |-> "bad"]]
    /\ late' = late \cup UnderWay(Backend \X Worker)
    /\ req' = [b \in Backend |-> [w \in Worker |-> NoReq]]
    /\ rep' = [b \in Backend |-> [w \in Worker |-> "none"]]
    /\ sess' = [b \in Backend |-> [w \in Worker |-> NoTxn]]
    /\ cn' = [t \in Txn |-> IF cn[t] = "active" THEN "aborted" ELSE cn[t]]
    /\ inprogress' = {}
    /\ dpc' = "sleep" /\ dsrv' = NoWorker /\ dleft' = {}
    /\ setA' = {} /\ setB' = {} /\ setC' = {} /\ setD' = {}
    /\ dele' = {} /\ unsent' = {}
    /\ dlink' = [w \in Worker |-> "bad"]
    /\ UNCHANGED <<via, fresh, record, up, out>>

CNCrash ==
    /\ faults < MaxFaults /\ faults' = faults + 1
    /\ CNRestart

(* GetForeignServerConnection raises ERROR inside the abort callback; the    *)
(* errors nest until PostgreSQL gives up with PANIC.                         *)
AbortPanic(b) ==
    /\ pc[b] = "error" /\ ~Connectable(b)
    /\ CNRestart
    /\ UNCHANGED faults

(* A connection is lost without either end noticing at once.  An answer      *)
(* that has already reached the CN can still be read.                        *)
Break(b, w) ==
    /\ faults < MaxFaults /\ faults' = faults + 1
    /\ link[b][w] = "good"
    /\ link' = [link EXCEPT ![b][w] = "broken"]
    /\ late' = late \cup UnderWay({<<b, w>>})
    /\ req' = [req EXCEPT ![b][w] = NoReq]
    /\ sess' = [sess EXCEPT ![b][w] = NoTxn]
    /\ UNCHANGED <<backendVars, conn, rep, cnVars, up, out, daemonVars>>

-----------------------------------------------------------------------------
(***************************************************************************)
(* A worker: PostgreSQL, external to the repository, as the CN uses it.    *)
(***************************************************************************)

(* The session executes the command it received: t's fate becomes f, the     *)
(* session's block s, the answer a.                                          *)
Answer(b, w, f, s, a) ==
    /\ out' = [out EXCEPT ![req[b][w].t][w] = f]
    /\ sess' = [sess EXCEPT ![b][w] = s]
    /\ rep' = [rep EXCEPT ![b][w] = a]
    /\ req' = [req EXCEPT ![b][w] = NoReq]

(* A meta call inside a block may succeed or fail.  Without a block it is    *)
(* a transaction of its own.  PREPARE, COMMIT and ROLLBACK outside a block   *)
(* only warn.                                                                *)
Exec(b, w) ==
    /\ req[b][w] # NoReq
    /\ LET t == req[b][w].t
           f == out[t][w]
           Is(cmd) == req[b][w].cmd = cmd
           inBlock == sess[b][w] = t
       IN \/ Is("BEGIN") /\ \/ Answer(b, w, "open", t, "ok")
                            \/ Answer(b, w, "aborted", NoTxn, "err")
          \/ Is("RUN") /\ inBlock /\ \/ Answer(b, w, f, t, "ok")
                                     \/ Answer(b, w, "aborted", NoTxn, "err")
          \/ Is("RUN") /\ ~inBlock
             /\ \/ Answer(b, w, "committed", NoTxn, "ok")
                \/ Answer(b, w, IF f = "none" THEN "aborted" ELSE f, NoTxn, "err")
          \/ Is("PREPARE") /\ inBlock
             /\ \/ Answer(b, w, "prepared", NoTxn, "ok")
                \/ Answer(b, w, "aborted", NoTxn, "err")
          \/ Is("COMMIT") /\ inBlock /\ Answer(b, w, "committed", NoTxn, "ok")
          \/ Is("ROLLBACK") /\ inBlock /\ Answer(b, w, "aborted", NoTxn, "ok")
          \/ /\ Is("PREPARE") \/ Is("COMMIT") \/ Is("ROLLBACK")
             /\ ~inBlock /\ Answer(b, w, f, sess[b][w], "ok")
          \/ Is("COMMIT PREPARED") /\ f = "prepared"
             /\ Answer(b, w, "committed", sess[b][w], "ok")
          \/ Is("ROLLBACK PREPARED") /\ f = "prepared"
             /\ Answer(b, w, "aborted", sess[b][w], "ok")
          \/ /\ Is("COMMIT PREPARED") \/ Is("ROLLBACK PREPARED")
             /\ f # "prepared" /\ Answer(b, w, f, sess[b][w], "err")
          \/ Is("JUNK") /\ Answer(b, w, f, sess[b][w], "err")
    /\ UNCHANGED <<backendVars, conn, link, cnVars, up, late, daemonVars, faults>>

(* The fates a command can have on its transaction when nobody reads the     *)
(* answer any more; a block it opens or leaves open ends with its session.   *)
LateFates(cmd, f) ==
    {f} \cup
    (IF cmd = "BEGIN" /\ f = "none" THEN {"aborted"} ELSE {}) \cup
    (IF cmd = "RUN" /\ f = "none" THEN {"committed"} ELSE {}) \cup
    (IF cmd = "PREPARE" /\ f = "open" THEN {"prepared"} ELSE {}) \cup
    (IF cmd = "COMMIT" /\ f = "open" THEN {"committed"} ELSE {}) \cup
    (IF cmd = "COMMIT PREPARED" /\ f = "prepared" THEN {"committed"} ELSE {}) \cup
    (IF cmd = "ROLLBACK PREPARED" /\ f = "prepared" THEN {"aborted"} ELSE {})

(* A command of a connection the CN has given up is executed or dropped.     *)
LateExec(m) ==
    /\ m \in late /\ up[m.w]
    /\ late' = late \ {m}
    /\ \E f \in LateFates(m.cmd, out[m.t][m.w]) :
          out' = [out EXCEPT ![m.t][m.w] = f]
    /\ UNCHANGED <<backendVars, connVars, cnVars, up, daemonVars, faults>>

(* The worker notices that a client is gone and aborts its open block.       *)
SessionEnd(t, w) ==
    /\ out[t][w] = "open"
    /\ \A b \in Backend : sess[b][w] # t
    /\ \A m \in late : m.w = w => m.t # t
    /\ out' = [out EXCEPT ![t][w] = "aborted"]
    /\ UNCHANGED <<backendVars, connVars, cnVars, up, late, daemonVars, faults>>

(* A crash keeps committed and prepared transactions.                        *)
WorkerCrash(w) ==
    /\ faults < MaxFaults /\ faults' = faults + 1
    /\ up[w]
    /\ up' = [up EXCEPT ![w] = FALSE]
    /\ out' = [t \in Txn |-> [out[t] EXCEPT ![w] =
                 IF @ = "open" THEN "aborted" ELSE @]]
    /\ late' = {m \in late : m.w # w}
    /\ link' = [b \in Backend |-> [link[b] EXCEPT ![w] =
                  IF @ = "good" THEN "broken" ELSE @]]
    /\ req' = [b \in Backend |-> [req[b] EXCEPT ![w] = NoReq]]
    /\ sess' = [b \in Backend |-> [sess[b] EXCEPT ![w] = NoTxn]]
    /\ dlink' = [dlink EXCEPT ![w] = IF @ = "good" THEN "broken" ELSE @]
    /\ UNCHANGED <<backendVars, conn, rep, cnVars>>
    /\ UNCHANGED <<dpc, dsrv, dleft, setA, setB, setC, setD, dele, unsent>>

WorkerRestart(w) ==
    /\ ~up[w]
    /\ up' = [up EXCEPT ![w] = TRUE]
    /\ UNCHANGED <<backendVars, connVars, cnVars, out, late, daemonVars, faults>>

-----------------------------------------------------------------------------
(***************************************************************************)
(* The clean-up daemon of the CN.  One pass visits the workers one after   *)
(* the other inside one transaction of the CN.                             *)
(***************************************************************************)

PreparedOn(w) == {t \in Txn : out[t][w] = "prepared"}

DaemonWakeUp ==
    /\ dpc = "sleep"
    /\ dpc' = "next"
    /\ dleft' = Worker
    /\ UNCHANGED <<dsrv, setA, setB, setC, setD, dele, unsent, dlink>>
    /\ UNCHANGED <<backendVars, connVars, cnVars, workerVars, faults>>

DaemonNextServer(w) ==
    /\ dpc = "next" /\ w \in dleft
    /\ dpc' = "A"
    /\ dsrv' = w
    /\ dleft' = dleft \ {w}
    /\ UNCHANGED <<setA, setB, setC, setD, dele, unsent, dlink>>
    /\ UNCHANGED <<backendVars, connVars, cnVars, workerVars, faults>>

(* A remote call of the daemon also sends what an earlier error left in the  *)
(* command cache, and needs the connections of all those workers.            *)
Targets(m) == {x.w : x \in unsent \cup {m}}
Usable(w) == dlink[w] = "good" \/ (dlink[w] = "bad" /\ up[w])
DlinkAfterConnect(S) == [w \in Worker |->
    IF w \in S /\ dlink[w] = "bad" THEN "good" ELSE dlink[w]]
Resolutions(S) == {m \in S : m.cmd # "SELECT"}
Select(w) == [w |-> w, cmd |-> "SELECT", t |-> NoTxn]

(* The error is caught, and the next worker's turn comes.                    *)
LeaveServer ==
    /\ dpc' = "next" /\ dsrv' = NoWorker
    /\ setA' = {} /\ setB' = {} /\ setC' = {} /\ setD' = {}

(* The remote call m fails.  When a worker cannot be connected nothing is    *)
(* sent and everything stays in the cache; on a broken connection some of    *)
(* it may stay, what was sent may still be executed.  A left-over COMMIT     *)
(* PREPARED or ROLLBACK PREPARED may also be refused.                        *)
DaemonCallFails(m) ==
    /\ (\E w \in Targets(m) : ~Usable(w)) \/ Resolutions(unsent) # {}
    /\ IF \E w \in Targets(m) : dlink[w] = "bad" /\ ~up[w]
       THEN /\ unsent' = unsent \cup {m}
            /\ UNCHANGED <<dlink, late>>
       ELSE /\ unsent' \in SUBSET (unsent \cup {m})
            /\ \/ UNCHANGED late
               \/ late' = late \cup Resolutions((unsent \cup {m}) \ unsent')
            /\ dlink' = [w \in Worker |->
                 IF w \in Targets(m) /\ dlink[w] = "broken" THEN "bad"
                 ELSE DlinkAfterConnect(Targets(m))[w]]
    /\ LeaveServer
    /\ UNCHANGED <<dleft, dele, up, out>>
    /\ UNCHANGED <<backendVars, connVars, cnVars, faults>>

(* Set A: the transactions of this CN prepared on the worker.  The first     *)
(* result is taken, which may be the answer to a left-over command.          *)
DaemonReadA ==
    /\ dpc = "A"
    /\ \A w \in Targets(Select(dsrv)) : Usable(w)
    /\ dlink' = DlinkAfterConnect(Targets(Select(dsrv)))
    /\ unsent' = {}
    /\ late' = late \cup Resolutions(unsent)
    /\ \E m \in unsent \cup {Select(dsrv)} :
          setA' = IF m.cmd = "SELECT" THEN PreparedOn(m.w) ELSE {}
    /\ dpc' = "B"
    /\ UNCHANGED <<dsrv, dleft, setB, setC, setD, dele, up, out>>
    /\ UNCHANGED <<backendVars, connVars, cnVars, faults>>

DaemonReadAFails == dpc = "A" /\ DaemonCallFails(Select(dsrv))

(* Set B: the transactions in progress on the CN.                            *)
DaemonReadB ==
    /\ dpc = "B"
    /\ setB' = inprogress
    /\ dpc' = "C"
    /\ UNCHANGED <<dsrv, dleft, setA, setC, setD, dele, unsent, dlink>>
    /\ UNCHANGED <<backendVars, connVars, cnVars, workerVars, faults>>

(* Set C: the 2PC records of the worker, as one scan sees them.              *)
DaemonReadC ==
    /\ dpc = "C"
    /\ setC' = {t \in Txn : <<dsrv, t>> \in record}
    /\ dpc' = "D"
    /\ UNCHANGED <<dsrv, dleft, setA, setB, setD, dele, unsent, dlink>>
    /\ UNCHANGED <<backendVars, connVars, cnVars, workerVars, faults>>

(* Set D: the prepared transactions again.                                   *)
DaemonReadD ==
    /\ dpc = "D"
    /\ Usable(dsrv)
    /\ setD' = PreparedOn(dsrv)
    /\ dlink' = DlinkAfterConnect({dsrv})
    /\ dpc' = "resolve"
    /\ UNCHANGED <<dsrv, dleft, setA, setB, setC, dele, unsent>>
    /\ UNCHANGED <<backendVars, connVars, cnVars, workerVars, faults>>

DaemonReadDFails == dpc = "D" /\ DaemonCallFails(Select(dsrv))

(* COMMIT PREPARED or ROLLBACK PREPARED of t on the worker at hand; an       *)
(* error if t is not prepared there any more.                                *)
Resolve(t, f) ==
    /\ Usable(dsrv)
    /\ dlink' = DlinkAfterConnect({dsrv})
    /\ IF out[t][dsrv] = "prepared"
       THEN /\ out' = [out EXCEPT ![t][dsrv] = f]
            /\ setA' = setA \ {t}
            /\ setC' = setC \ {t}
            /\ UNCHANGED <<dpc, dsrv, setB, setD>>
       ELSE out' = out /\ LeaveServer
    /\ UNCHANGED <<dleft, dele, unsent, up, late>>
    /\ UNCHANGED <<backendVars, connVars, cnVars, faults>>

CommitPrepared(t) ==
    [w |-> dsrv, cmd |-> "COMMIT PREPARED", t |-> t]
RollbackPrepared(t) ==
    [w |-> dsrv, cmd |-> "ROLLBACK PREPARED", t |-> t]

(* A record is skipped: its transaction is in progress, or was prepared      *)
(* only after set A was read.                                                *)
DaemonSkipRecord(t) ==
    /\ dpc = "resolve" /\ t \in setC
    /\ t \in setB \/ (t \notin setA /\ t \in setD)
    /\ setC' = setC \ {t}
    /\ UNCHANGED <<dpc, dsrv, dleft, setA, setB, setD, dele, unsent, dlink>>
    /\ UNCHANGED <<backendVars, connVars, cnVars, workerVars, faults>>

(* A transaction with a record that nobody drives any more is committed.     *)
DaemonCommits(t) ==
    /\ dpc = "resolve" /\ t \in setC
    /\ t \notin setB /\ t \in setA /\ t \in setD
    /\ Resolve(t, "committed")

DaemonCommitFails(t) ==
    /\ dpc = "resolve" /\ t \in setC
    /\ t \notin setB /\ t \in setA /\ t \in setD
    /\ DaemonCallFails(CommitPrepared(t))

(* Mutants: the record is deleted without looking at set D; it is only       *)
(* skipped.                                                                  *)
DaemonDeletesRecordEarly(t) ==
    /\ dpc = "resolve" /\ t \in setC
    /\ t \notin setB
    /\ dele' = dele \cup {<<dsrv, t>>}
    /\ setC' = setC \ {t}
    /\ setA' = setA \ {t}
    /\ UNCHANGED <<dpc, dsrv, dleft, setB, setD, unsent, dlink>>
    /\ UNCHANGED <<backendVars, connVars, cnVars, workerVars, faults>>
DaemonKeepsRecord(t) ==
    /\ dpc = "resolve" /\ t \in setC
    /\ t \notin setB /\ t \notin setD
    /\ setC' = setC \ {t}
    /\ setA' = setA \ {t}
    /\ UNCHANGED <<dpc, dsrv, dleft, setB, setD, dele, unsent, dlink>>
    /\ UNCHANGED <<backendVars, connVars, cnVars, workerVars, faults>>

(* A record whose transaction is no longer prepared is deleted.              *)
DaemonDeletesRecord(t) ==
    /\ dpc = "resolve" /\ t \in setC
    /\ t \notin setB /\ t \notin setD
    /\ dele' = dele \cup {<<dsrv, t>>}
    /\ setC' = setC \ {t}
    /\ setA' = setA \ {t}
    /\ UNCHANGED <<dpc, dsrv, dleft, setB, setD, unsent, dlink>>
    /\ UNCHANGED <<backendVars, connVars, cnVars, workerVars, faults>>

DaemonEndOfRecords ==
    /\ dpc = "resolve" /\ setC = {}
    /\ dpc' = "rollback"
    /\ UNCHANGED <<dsrv, dleft, setA, setB, setC, setD, dele, unsent, dlink>>
    /\ UNCHANGED <<backendVars, connVars, cnVars, workerVars, faults>>

(* Mutant: transactions in progress are rolled back, too.                    *)
DaemonRollsBackAll(t) ==
    /\ dpc = "rollback" /\ t \in setA
    /\ Resolve(t, "aborted")

(* What is left in A and is not in progress never got its record.            *)
DaemonRollsBack(t) ==
    /\ dpc = "rollback" /\ t \in setA /\ t \notin setB
    /\ Resolve(t, "aborted")

DaemonRollbackFails(t) ==
    /\ dpc = "rollback" /\ t \in setA /\ t \notin setB
    /\ DaemonCallFails(RollbackPrepared(t))

DaemonServerDone ==
    /\ dpc = "rollback" /\ setA \subseteq setB
    /\ LeaveServer
    /\ UNCHANGED <<dleft, dele, unsent, dlink>>
    /\ UNCHANGED <<backendVars, connVars, cnVars, workerVars, faults>>

(* CommitTransactionCommand: the deletions become durable.  Its PRE_COMMIT   *)
(* callback needs every connection used in the pass once more.               *)
DaemonPassEnd ==
    /\ dpc = "next" /\ dleft = {}
    /\ \A w \in Worker : dlink[w] = "bad" => up[w]
    /\ record' = record \ dele
    /\ dlink' = DlinkAfterConnect(Worker)
    /\ dpc' = "sleep"
    /\ dele' = {} /\ unsent' = {}
    /\ UNCHANGED <<dsrv, dleft, setA, setB, setC, setD>>
    /\ UNCHANGED <<backendVars, connVars, cn, via, fresh, inprogress>>
    /\ UNCHANGED <<workerVars, faults>>

(* Otherwise the daemon exits with its transaction aborted and is started    *)
(* again (bgw_restart_time).                                                 *)
DaemonExit ==
    /\ dpc = "next" /\ dleft = {}
    /\ \E w \in Worker : dlink[w] = "bad" /\ ~up[w]
    /\ dlink' = [w \in Worker |-> "bad"]
    /\ dpc' = "sleep"
    /\ dele' = {} /\ unsent' = {}
    /\ UNCHANGED <<dsrv, dleft, setA, setB, setC, setD>>
    /\ UNCHANGED <<backendVars, connVars, cnVars, workerVars, faults>>

DaemonBreak(w) ==
    /\ faults < MaxFaults /\ faults' = faults + 1
    /\ dlink[w] = "good"
    /\ dlink' = [dlink EXCEPT ![w] = "broken"]
    /\ UNCHANGED <<dpc, dsrv, dleft, setA, setB, setC, setD, dele, unsent>>
    /\ UNCHANGED <<backendVars, connVars, cnVars, workerVars>>

-----------------------------------------------------------------------------
BackendNext(b) ==
    \/ \E t \in Txn, lw \in BOOLEAN :
          CallMeta(b, t, lw) \/ CallMetaUnreachable(b, t, lw)
    \/ \E w \in Worker :
          \/ ReadAnswer(b, w) \/ RenameSubCreate(b, w)
          \/ ReadPrepareAnswer(b, w) \/ ReadCommitAnswer(b, w)
          \/ ReadAbortAnswer(b, w)
    \/ PreCommitOnePhase(b) \/ PreCommitTwoPhase(b) \/ PrepareFailed(b)
    \/ Commit(b) \/ Abort(b) \/ EndTransaction(b) \/ BackendExit(b)

WorkerNext ==
    \/ \E w \in Worker :
          \/ \E b \in Backend : Exec(b, w)
          \/ \E t \in Txn : SessionEnd(t, w)
          \/ WorkerRestart(w)
    \/ \E m \in late : LateExec(m)

DaemonNext ==
    \/ DaemonWakeUp \/ \E w \in Worker : DaemonNextServer(w)
    \/ DaemonReadA \/ DaemonReadAFails \/ DaemonReadB \/ DaemonReadC
    \/ DaemonReadD \/ DaemonReadDFails
    \/ \E t \in Txn :
          \/ DaemonSkipRecord(t) \/ DaemonCommits(t) \/ DaemonCommitFails(t)
          \/ DaemonDeletesRecord(t) \/ DaemonRollsBack(t)
          \/ DaemonRollbackFails(t)
    \/ DaemonEndOfRecords \/ DaemonServerDone \/ DaemonPassEnd \/ DaemonExit

FaultNext ==
    \/ CNCrash \/ \E b \in Backend : AbortPanic(b)
    \/ \E w \in Worker :
          \/ WorkerCrash(w) \/ DaemonBreak(w)
          \/ \E b \in Backend : Break(b, w)

Next == (\E b \in Backend : BackendNext(b)) \/ WorkerNext \/ DaemonNext \/ FaultNext

Spec == Init /\ [][Next]_vars

(* What keeps going: a backend finishes the transaction it has begun, a      *)
(* worker executes what it received, notices dead clients and is restarted   *)
(* by its supervisor, the daemon wakes up every 60 seconds.  Clients owe     *)
(* nothing, and nothing is assumed of faults but that they are finitely many.*)
BackendProgress(b) ==
    \/ \E w \in Worker :
          \/ ReadAnswer(b, w) \/ ReadPrepareAnswer(b, w)
          \/ ReadCommitAnswer(b, w) \/ ReadAbortAnswer(b, w)
    \/ PreCommitOnePhase(b) \/ PreCommitTwoPhase(b) \/ PrepareFailed(b)
    \/ Commit(b) \/ Abort(b) \/ EndTransaction(b)

Fairness ==
    /\ \A b \in Backend : WF_vars(BackendProgress(b))
    /\ \A b \in Backend, w \in Worker : WF_vars(Exec(b, w))
    /\ \A w \in Worker : WF_vars(WorkerRestart(w))
    /\ \A w \in Worker, t \in Txn : WF_vars(SessionEnd(t, w))
    /\ WF_vars(\E m \in late : LateExec(m))
    /\ WF_vars(DaemonNext)

FairSpec == Spec /\ Fairness

-----------------------------------------------------------------------------
(***************************************************************************)
(* Correctness.                                                            *)
(***************************************************************************)

(* A transaction that ran inside a block of its own on every worker and went *)
(* through the two phases.                                                   *)
TwoPhase(t) == fresh[t] /\ via[t] = "twoPhase"

(* Atomicity of such a transaction, whatever crashes, lost connections, late *)
(* commands and clean-up passes do (CuckooRemoteCommandPrepare, -Commit,     *)
(* -Abort and CleanupPreparedTransactions together): once the CN has         *)
(* committed, no worker can have rolled back, and no worker commits unless   *)
(* the CN did.                                                               *)
Agreement(t) ==
    /\ cn[t] = "committed" =>
          \A w \in Worker : out[t][w] \in {"prepared", "committed"}
    /\ (\E w \in Worker : out[t][w] = "committed") => cn[t] = "committed"
AtomicCommit == \A t \in Txn : TwoPhase(t) => Agreement(t)

(* A committed transaction that is still prepared somewhere has its 2PC      *)
(* record there: otherwise the daemon would take it for one that failed in   *)
(* the prepare phase (Write2PCRecord, transaction_cleanup.c:388-402).        *)
InDoubtHasRecord == \A t \in Txn, w \in Worker :
    TwoPhase(t) /\ cn[t] = "committed" /\ out[t][w] = "prepared"
        => <<w, t>> \in record

(* The fate of a transaction on a worker is final: no retry, late command or *)
(* clean-up changes a committed or aborted transaction again.                *)
FateIsFinal == [][\A t \in Txn, w \in Worker :
    out[t][w] \in {"committed", "aborted"} => out'[t][w] = out[t][w]]_out

(* No transaction stays prepared, holding its locks on a worker, for ever:   *)
(* the backend or, after any failure, the daemon resolves it.                *)
InDoubtIsResolved == \A t \in Txn, w \in Worker :
    out[t][w] = "prepared" ~> out[t][w] \in {"committed", "aborted"}

(* Every 2PC record is deleted again, so that the table does not grow with   *)
(* the number of transactions (transaction_cleanup.c:367-374).               *)
RecordIsReclaimed == \A t \in Txn, w \in Worker :
    <<w, t>> \in record ~> <<w, t>> \notin record

(* Whatever fails, the backend becomes free for the next meta call.          *)
TransactionEnds == \A b \in Backend : pc[b] # "idle" ~> pc[b] = "idle"

(* docs/design.md:30 promises atomicity of every directory and rename        *)
(* operation: an aborted one leaves nothing behind on any worker, and none   *)
(* is committed on the CN but rolled back on a worker.                       *)
EveryTransactionIsAtomic == \A t \in Txn, w \in Worker :
    /\ ~(cn[t] = "aborted" /\ out[t][w] = "committed")
    /\ ~(cn[t] = "committed" /\ out[t][w] = "aborted")
-----------------------------------------------------------------------------
(***************************************************************************)
(* The inductive invariant behind AtomicCommit and InDoubtHasRecord.       *)
(***************************************************************************)

Decided(t) == cn[t] \in {"committed", "aborted"}

(* A backend owns its transaction alone, and the transaction's state on the  *)
(* CN follows from where the backend is.                                     *)
OwnerInv ==
    /\ \A b \in Backend : pc[b] = "idle" <=> txn[b] = NoTxn
    /\ \A b, c \in Backend : txn[b] = txn[c] /\ txn[b] # NoTxn => b = c
    /\ \A b \in Backend :
          /\ pc[b] \in {"run", "run2"} =>
                cn[txn[b]] = "active" /\ via[txn[b]] = "none"
          /\ pc[b] = "prepare" => cn[txn[b]] = "active" /\ via[txn[b]] # "none"
          /\ pc[b] = "error" => cn[txn[b]] = "active"
          /\ pc[b] = "commit" => cn[txn[b]] = "committed"
          /\ pc[b] = "abort" => cn[txn[b]] = "aborted"

(* A transaction that was not begun has left no trace; one that is being     *)
(* decided in two phases is in progress; prepared means two phases; only a   *)
(* committed transaction has a record.                                       *)
TxnInv == \A t \in Txn :
    /\ cn[t] = "new" => via[t] = "none" /\ \A w \in Worker : out[t][w] = "none"
    /\ cn[t] = "active" /\ via[t] = "twoPhase" => t \in inprogress
    /\ \A w \in Worker : out[t][w] = "prepared" => via[t] = "twoPhase"
    /\ \A w \in Worker : <<w, t>> \in record => cn[t] = "committed"
    /\ \A w \in Worker : fresh[t] /\ out[t][w] = "committed" => cn[t] = "committed"

(* What a command may find at the worker, wherever it is.                    *)
CommandInv(w, cmd, t) ==
    /\ cn[t] # "new"
    /\ cmd = "PREPARE" => via[t] = "twoPhase"
    /\ cmd = "COMMIT" => cn[t] = "committed" /\ ~TwoPhase(t)
    /\ cmd = "COMMIT PREPARED" => cn[t] = "committed"
    /\ cmd = "ROLLBACK" => cn[t] = "aborted"
    /\ cmd = "ROLLBACK PREPARED" =>
          /\ Decided(t)
          /\ TwoPhase(t) => cn[t] = "aborted" \/ out[t][w] = "committed"

(* A command on a connection belongs to the backend's transaction, or is     *)
(* left over from one that is decided.                                       *)
ReqOK(b, w) ==
    /\ CommandInv(w, req[b][w].cmd, req[b][w].t)
    /\ link[b][w] = "good"
    /\ \/ txn[b] = req[b][w].t
       \/ pc[b] \in {"idle", "error"} /\ Decided(req[b][w].t)
    /\ req[b][w].cmd \in {"BEGIN", "RUN", "PREPARE"} =>
          txn[b] = req[b][w].t /\ cn[req[b][w].t] = "active"
    /\ req[b][w].cmd = "RUN" /\ fresh[req[b][w].t] => sess[b][w] = req[b][w].t
    /\ pc[b] \in {"run", "run2", "prepare"} => w \in todo[b] /\ rep[b][w] = "none"
ReqInv == \A b \in Backend, w \in Worker : req[b][w] # NoReq => ReqOK(b, w)

(* The same of commands under way, and of the sessions.                      *)
LateInv ==
    /\ \A m \in late :
          /\ CommandInv(m.w, m.cmd, m.t)
          /\ m.cmd = "RUN" /\ fresh[m.t] => out[m.t][m.w] # "none"
    /\ \A b \in Backend, w \in Worker :
          sess[b][w] # NoTxn => out[sess[b][w]][w] # "none"

(* The connections of a backend in the run and in the prepare phase.         *)
RunOK(b, w) ==
    /\ conn[b][w] = "WRITE"
    /\ link[b][w] = "good" /\ req[b][w] = NoReq /\ rep[b][w] # "err"
          => sess[b][w] = txn[b]
PrepareOK(b, w) ==
    /\ w \in todo[b] =>
          /\ conn[b][w] = "WRITE"
          /\ req[b][w] # NoReq =>
                req[b][w].cmd = "PREPARE" /\ sess[b][w] = txn[b]
          /\ rep[b][w] = "ok" => out[txn[b]][w] = "prepared"
    /\ w \notin todo[b] => \/ failed[b]
                           \/ /\ conn[b][w] = "PREPARE" /\ w \in rows[b]
                              /\ out[txn[b]][w] = "prepared"
PhaseOK(b, w) ==
    /\ pc[b] \in {"run", "run2"} /\ w \notin todo[b] => rep[b][w] = "none"
    /\ pc[b] \in {"run", "run2"} /\ fresh[txn[b]] => RunOK(b, w)
    /\ pc[b] = "prepare" /\ TwoPhase(txn[b]) => PrepareOK(b, w)
PhaseInv == \A b \in Backend, w \in Worker : PhaseOK(b, w)

(* The daemon resolves only what is decided, and the way it was decided:     *)
(* what the sets of the worker at hand say stays true while they are used.   *)
SetInv ==
    /\ dpc = "rollback" => setC = {}
    /\ \A t \in setA : via[t] = "twoPhase"
    /\ \A t \in setC : cn[t] = "committed"
    /\ dpc \in {"C", "D", "resolve", "rollback"} =>
          \A t \in setA \ setB : Decided(t)
    /\ dpc \in {"D", "resolve", "rollback"} => \A t \in setA \ setB :
          TwoPhase(t) /\ cn[t] = "committed" /\ out[t][dsrv] = "prepared"
              => t \in setC
    /\ dpc = "resolve" => \A t \in setC \ setD :
          TwoPhase(t) => out[t][dsrv] = "committed"
DaemonInv ==
    /\ \A m \in unsent : m.cmd # "SELECT" => CommandInv(m.w, m.cmd, m.t)
    /\ \A w \in Worker, t \in Txn : <<w, t>> \in dele =>
          cn[t] = "committed" /\ (TwoPhase(t) => out[t][w] = "committed")
    /\ dpc \in {"A", "B", "C", "D", "resolve", "rollback"} => dsrv \in Worker
    /\ SetInv

IInv ==
    /\ TypeOK /\ OwnerInv /\ TxnInv /\ ReqInv /\ LateInv /\ PhaseInv /\ DaemonInv
    /\ AtomicCommit /\ InDoubtHasRecord
=============================================================================
