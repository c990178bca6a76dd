--------------------------- MODULE ConnectionPool ---------------------------
(***************************************************************************)
(* The connection pool process of a metadata server (connection_pool/).    *)
(*                                                                         *)
(* MetaCall, in a brpc thread, hands a job to the pool: a job that may be  *)
(* batched joins the open batch task of its type, another job gets a task  *)
(* of its own.  The first job of a task queues it.  The manager thread     *)
(* takes a connection, then a task, opens a new batch if the task was the  *)
(* open one, and gives the task to the connection.  The thread of the      *)
(* connection copies the parameters to shared memory, has a backend        *)
(* execute them in one transaction, answers the jobs and goes back to the  *)
(* pool.                                                                   *)
(*                                                                         *)
(* A section under a mutex is one step, with the notify_one that follows   *)
(* it.  A wait on a condition variable sleeps in the step that finds its   *)
(* predicate false; notify_one wakes one sleeper, or nobody.  Stop         *)
(* notifies without the mutex: a thread that has evaluated its predicate   *)
(* and not yet fallen asleep misses it.                                    *)
(***************************************************************************)
EXTENDS Integers, Sequences, FiniteSets, Functions

CONSTANTS
    Job,          \* the requests, each with its brpc thread
    BatchType,    \* the request types that support batches
    Type(_),      \* the type of a job's request
    Count(_),     \* type_size(): the operations of a job
    Conn,         \* the connections
    PendingMax,   \* pendingTaskBufferMaxSize
    BatchMax,     \* batchTaskBufferMaxSize
    ShmemBlocks   \* how many blocks the shared memory holds

(* There are finitely many requests, types and connections.                  *)
ASSUME FiniteAssumption ==
    IsFiniteSet(Job) /\ IsFiniteSet(BatchType) /\ IsFiniteSet(Conn)

(* The types that support no batch: PLAIN_COMMAND has no reply in shared     *)
(* memory, the others (OPENDIR, READDIR, RENAME ...) do.                     *)
Batches(j) == Type(j) \in BatchType
NoReply(j) == Type(j) = "PLAIN_COMMAND"

(* Tasks are named by small numbers, like addresses: the name of a deleted   *)
(* task is used again.                                                       *)
TaskId == 1 .. Cardinality(Job) + Cardinality(BatchType)
None == 0
NoConn == "none"

VARIABLES
    thread,     \* where the brpc thread of a job is in MetaCall
    inserts,    \* toInsertTask of that thread
    answered,   \* how often the client of a job has been answered
    astray,     \* the jobs that were answered with results of other operations
    tasks,      \* the live tasks: jobList and isBatch
    open,       \* supportBatchTaskList: the task that jobs of a type join
    pending,    \* pendingTask
    free,       \* connPool
    manager,    \* the manager thread: where it is, its connection, its task
    working,    \* PGConnectionPool::working
    conn,       \* the connections: where the thread is, taskToExec, working
    shmem,      \* the blocks of shared memory in use, and for what
    destroyer,  \* where the thread is that runs the destructor
    alive       \* no thread of the process has thrown

vars == <<thread, inserts, answered, astray, tasks, open, pending, free, manager, working, conn, shmem,
          destroyer, alive>>

jobVars == <<thread, inserts, answered, astray>>
stopVars == <<working, destroyer, alive>>

Fresh == CHOOSE t \in TaskId : t \notin DOMAIN tasks
NewTask(batch, jobs) == [isBatch |-> batch, jobList |-> jobs]
Add(t, task) == [u \in DOMAIN tasks \cup {t} |-> IF u = t THEN task ELSE tasks[u]]
Delete(t) == [u \in DOMAIN tasks \ {t} |-> tasks[u]]

(* The connections in the order of their creation, the tasks of the types in *)
(* some order.                                                               *)
InitialFree == CHOOSE s \in [1 .. Cardinality(Conn) -> Conn] : IsInjective(s)
InitialOpen == CHOOSE f \in [BatchType -> 1 .. Cardinality(BatchType)] :
    \A a, b \in BatchType : a # b => f[a] # f[b]

Init ==
    /\ thread = [j \in Job |-> "new"]
    /\ inserts = [j \in Job |-> None]
    /\ answered = [j \in Job |-> 0]
    /\ astray = {}
    /\ open = InitialOpen
    /\ tasks = [t \in 1 .. Cardinality(BatchType) |-> NewTask(TRUE, <<>>)]
    /\ pending = <<>>
    /\ free = InitialFree
    /\ manager = [pc |-> "get", conn |-> NoConn, task |-> None]
    /\ working = TRUE
    /\ conn = [c \in Conn |-> [pc |-> "check", task |-> None, result |-> "none", working |-> TRUE]]
    /\ shmem = {}
    /\ destroyer = "none"
    /\ alive = TRUE

(* notify_one on a condition variable some threads of S sleep on.            *)
Woken(S) == IF S = {} THEN {{}} ELSE {{x} : x \in S}

-----------------------------------------------------------------------------
(* MetaCall and DispatchAsyncMetaServiceJob                                  *)

Asleep(pc, t) == {j \in Job : thread[j] = pc /\ Type(j) = t}
SleepOnPending == {j \in Job : thread[j] = "sleep_pending"}
WakeJobs(R, S) ==
    thread' = [j \in Job |-> IF j \in R THEN "batch" ELSE IF j \in S THEN "push" ELSE thread[j]]

(* MetaCall dispatches the job it has built; the server accepts requests     *)
(* until the pool is stopped.                                                *)
MetaCall(j) == thread[j] = "new" /\ destroyer = "none"
Dispatches(j) == Batches(j) /\ (MetaCall(j) \/ thread[j] = "batch")

(* A job of its own task.                                                    *)
DispatchSingle(j) ==
    /\ MetaCall(j) /\ ~Batches(j)
    /\ tasks' = Add(Fresh, NewTask(FALSE, <<j>>))
    /\ inserts' = [inserts EXCEPT ![j] = Fresh]
    /\ thread' = [thread EXCEPT ![j] = "push"]
    /\ UNCHANGED <<answered, astray, open, pending, free, manager, conn, shmem, stopVars>>

(* Under taskMutex: the job waits while the open batch is full, and queues   *)
(* the task if it is the first.                                              *)
OpenTask(j) == tasks[open[Type(j)]]

BatchFull(j) ==
    /\ Dispatches(j) /\ Len(OpenTask(j).jobList) >= BatchMax
    /\ thread' = [thread EXCEPT ![j] = "sleep_batch"]
    /\ UNCHANGED <<inserts, answered, astray, tasks, open, pending, free, manager, conn, shmem, stopVars>>

JoinBatch(j) ==
    LET t == open[Type(j)]
        first == tasks[t].jobList = <<>>
    IN  /\ Dispatches(j) /\ Len(tasks[t].jobList) < BatchMax
        /\ tasks' = [tasks EXCEPT ![t].jobList = Append(@, j)]
        /\ inserts' = [inserts EXCEPT ![j] = IF first THEN t ELSE None]
        /\ thread' = [thread EXCEPT ![j] = IF first THEN "push" ELSE "returned"]
        /\ UNCHANGED <<answered, astray, open, pending, free, manager, conn, shmem, stopVars>>

PendingFull(j) ==
    /\ thread[j] = "push" /\ Len(pending) >= PendingMax
    /\ thread' = [thread EXCEPT ![j] = "sleep_pending"]
    /\ UNCHANGED <<inserts, answered, astray, tasks, open, pending, free, manager, conn, shmem, stopVars>>

(* A notify_one the manager may wait for.                                    *)
WakeManager(pc) == IF manager.pc = pc THEN [manager EXCEPT !.pc = "wait"] ELSE manager

PushTask(j) ==
    /\ thread[j] = "push" /\ Len(pending) < PendingMax
    /\ pending' = Append(pending, inserts[j])
    /\ inserts' = [inserts EXCEPT ![j] = None]
    /\ thread' = [thread EXCEPT ![j] = "returned"]
    /\ manager' = WakeManager("asleep")
    /\ UNCHANGED <<answered, astray, tasks, open, free, conn, shmem, stopVars>>

-----------------------------------------------------------------------------
(* BackgroundPoolManager                                                     *)

(* GetPGConnection: it waits for a connection, stopped or not.               *)
GetPGConnection ==
    /\ manager.pc = "get"
    /\ IF free # <<>>
       THEN /\ manager' = [manager EXCEPT !.pc = "wait", !.conn = Head(free)]
            /\ free' = Tail(free)
       ELSE /\ manager' = [manager EXCEPT !.pc = "sleep_conn"]
            /\ UNCHANGED free
    /\ UNCHANGED <<jobVars, tasks, open, pending, conn, shmem, stopVars>>

(* It waits for a task or for the stop.                                      *)
ManagerSleeps ==
    /\ manager.pc = "wait" /\ pending = <<>> /\ working
    /\ manager' = [manager EXCEPT !.pc = "asleep"]
    /\ UNCHANGED <<jobVars, tasks, open, pending, free, conn, shmem, stopVars>>

ManagerStops ==
    /\ manager.pc = "wait" /\ ~working
    /\ manager' = [manager EXCEPT !.pc = "exited"]
    /\ UNCHANGED <<jobVars, tasks, open, pending, free, conn, shmem, stopVars>>

(* The task leaves the queue and, if it is the open batch of a type, a new   *)
(* one is opened and one thread that waits for room in it is woken; so is    *)
(* one that waits for room in the queue.                                     *)
TakeTask ==
    /\ manager.pc = "wait" /\ pending # <<>> /\ working
    /\ pending' = Tail(pending)
    /\ manager' = [manager EXCEPT !.pc = "exec", !.task = Head(pending)]
    /\ UNCHANGED <<inserts, answered, astray, free, conn, shmem, stopVars>>

Reopen(type) ==
    /\ open' = [open EXCEPT ![type] = Fresh]
    /\ tasks' = Add(Fresh, NewTask(TRUE, <<>>))

IsOpen(task) == \E type \in BatchType : open[type] = task

(* Plausible slips: jobs go on to join the task; nobody is told of the room. *)
PopTaskKeepsOpen ==
    /\ TakeTask
    /\ \E S \in Woken(SleepOnPending) : WakeJobs({}, S)
    /\ UNCHANGED <<open, tasks>>

PopTask ==
    /\ TakeTask
    /\ \E S \in Woken(SleepOnPending) :
       \/ \E type \in BatchType : \E R \in Woken(Asleep("sleep_batch", type)) :
             open[type] = Head(pending) /\ Reopen(type) /\ WakeJobs(R, S)
       \/ ~IsOpen(Head(pending)) /\ WakeJobs({}, S) /\ UNCHANGED <<open, tasks>>

(* PGConnection::Exec waits until the connection has dropped its last task,  *)
(* gives it the new one and wakes it.                                        *)
ExecWaits ==
    /\ manager.pc = "exec" /\ conn[manager.conn].task # None
    /\ manager' = [manager EXCEPT !.pc = "sleep_exec"]
    /\ UNCHANGED <<jobVars, tasks, open, pending, free, conn, shmem, stopVars>>

Exec ==
    /\ manager.pc = "exec" /\ conn[manager.conn].task = None
    /\ conn' = [conn EXCEPT ![manager.conn].task = manager.task,
                            ![manager.conn].pc = IF @ = "asleep" THEN "check" ELSE @]
    /\ manager' = [pc |-> IF working THEN "get" ELSE "exited", conn |-> NoConn, task |-> None]
    /\ UNCHANGED <<jobVars, tasks, open, pending, free, shmem, stopVars>>

-----------------------------------------------------------------------------
(* PGConnection::BackgroundWorker                                            *)

Jobs(c) == tasks[conn[c].task].jobList
ConnGoes(c, pc) == conn' = [conn EXCEPT ![c].pc = pc]

(* A block holds the parameters or the reply of a connection's task, or is   *)
(* lost.                                                                     *)
Room == Cardinality(shmem) < ShmemBlocks
Param(c) == <<"param", c>>
Reply(c) == <<"reply", c>>
LostBlocks == {b \in shmem : b[1] = "lost"}

WorkerSleeps(c) ==
    /\ conn[c].pc = "check" /\ conn[c].task = None /\ conn[c].working
    /\ ConnGoes(c, "asleep")
    /\ UNCHANGED <<jobVars, tasks, open, pending, free, manager, shmem, stopVars>>

(* The loop ends when the connection is stopped, a task given or not.        *)
WorkerStops(c) ==
    /\ conn[c].pc = "check" /\ ~conn[c].working
    /\ ConnGoes(c, "exited")
    /\ UNCHANGED <<jobVars, tasks, open, pending, free, manager, shmem, stopVars>>

HasTask(c) == conn[c].pc = "check" /\ conn[c].working /\ conn[c].task # None
IsBatch(c) == tasks[conn[c].task].isBatch

CopyParams(c) ==
    /\ Room
    /\ shmem' = shmem \cup {Param(c)}
    /\ ConnGoes(c, "sent")
    /\ UNCHANGED <<jobVars, tasks, open, pending, free, manager, stopVars>>

(* The parameters of all jobs of a batch are copied to one block, and one    *)
(* statement is sent for them.                                               *)
SendBatch(c) == HasTask(c) /\ IsBatch(c) /\ CopyParams(c)

(* A job of its own: operations of one type make one statement, but every    *)
(* plain command is a statement; all are sent as one query.                  *)
SendSingle(c) == HasTask(c) /\ ~IsBatch(c) /\ CopyParams(c)
Statements(j) == IF NoReply(j) THEN Count(j) ELSE 1

(* "memory exceed limit.": the exception leaves the thread and ends the      *)
(* process.                                                                  *)
Throws ==
    /\ alive' = FALSE
    /\ UNCHANGED <<jobVars, tasks, open, pending, free, manager, conn, shmem, working, destroyer>>
ThrowNoMemory(c) == HasTask(c) /\ ~Room /\ Throws

(* The backend runs cuckoo_meta_call_by_serialized_shmem_internal in a       *)
(* transaction: it succeeds with a reply in shared memory, fails before it   *)
(* has the reply (also when there is no room for it), or fails at the commit *)
(* and nobody learns of the reply's address.                                 *)
BackendReplies(c) ==
    /\ conn[c].pc = "sent"
    /\ ~NoReply(Head(Jobs(c))) => Room
    /\ shmem' = IF NoReply(Head(Jobs(c))) THEN shmem ELSE shmem \cup {Reply(c)}
    /\ conn' = [conn EXCEPT ![c].pc = "result", ![c].result = "ok"]
    /\ UNCHANGED <<jobVars, tasks, open, pending, free, manager, stopVars>>

BackendFails(c) ==
    /\ conn[c].pc = "sent"
    /\ conn' = [conn EXCEPT ![c].pc = "result", ![c].result = "error"]
    /\ UNCHANGED <<jobVars, tasks, open, pending, free, manager, shmem, stopVars>>

CommitFails(c) ==
    /\ conn[c].pc = "sent" /\ ~NoReply(Head(Jobs(c))) /\ Room
    /\ shmem' = shmem \cup {<<"lost", Cardinality(LostBlocks)>>}
    /\ conn' = [conn EXCEPT ![c].pc = "result", ![c].result = "error"]
    /\ UNCHANGED <<jobVars, tasks, open, pending, free, manager, stopVars>>

(* A query ends at the statement that fails: there are fewer results than    *)
(* statements unless it was the last, "reply count cannot match request".    *)
ThrowMissingReply(c) ==
    /\ conn[c].pc = "sent" /\ ~IsBatch(c) /\ Statements(Head(Jobs(c))) > 1
    /\ Throws

(* The operations of a job and, one after the other, those of a batch.  The  *)
(* reply of a batch has one item per operation in this order; a job gets the *)
(* next type_size() of them.  After an error every job gets the error.       *)
Own(j) == [k \in 1 .. Count(j) |-> <<j, k>>]
Params(c) ==
    LET upTo[i \in 0 .. Len(Jobs(c))] == IF i = 0 THEN <<>> ELSE upTo[i - 1] \o Own(Jobs(c)[i])
    IN  upTo[Len(Jobs(c))]
Before(c, i) == FoldFunction(LAMBDA j, n : Count(j) + n, 0, SubSeq(Jobs(c), 1, i - 1))

(* A plausible slip: an item per job.                                        *)
ReplyPartByJob(c, i) == SubSeq(Params(c), i, i + Count(Jobs(c)[i]) - 1)
ReplyPart(c, i) == SubSeq(Params(c), Before(c, i) + 1, Before(c, i) + Count(Jobs(c)[i]))

(* What a job gets for its own: the error, or an item for each operation.    *)
GetsOwn(c, i) == conn[c].result = "error" \/ ReplyPart(c, i) = Own(Jobs(c)[i])

SendAnswers(c) ==
    /\ answered' = [j \in Job |-> IF j \in Range(Jobs(c)) THEN answered[j] + 1 ELSE answered[j]]
    /\ astray' = astray \cup {Jobs(c)[i] : i \in {k \in DOMAIN Jobs(c) : ~GetsOwn(c, k)}}

(* The parameters are freed, the answers are sent, the reply is freed.       *)
FreeParam(c) ==
    /\ conn[c].pc = "result"
    /\ shmem' = shmem \ {Param(c)}
    /\ ConnGoes(c, "answer")
    /\ UNCHANGED <<jobVars, tasks, open, pending, free, manager, stopVars>>

(* A plausible slip: the reply stays where it is.                            *)
AnswerKeepsReply(c) ==
    /\ SendAnswers(c)
    /\ conn' = [conn EXCEPT ![c].pc = "readd", ![c].result = "none"]
    /\ UNCHANGED <<thread, inserts, tasks, open, pending, free, manager, shmem, stopVars>>

Answer(c) ==
    /\ SendAnswers(c)
    /\ shmem' = shmem \ {Reply(c)}
    /\ conn' = [conn EXCEPT ![c].pc = "readd", ![c].result = "none"]
    /\ UNCHANGED <<thread, inserts, tasks, open, pending, free, manager, stopVars>>

(* A single job gets the replies of its statements one after the other.      *)
AnswerBatch(c) == conn[c].pc = "answer" /\ IsBatch(c) /\ Answer(c)
AnswerSingle(c) == conn[c].pc = "answer" /\ ~IsBatch(c) /\ Answer(c)

(* ReaddWorkingPGConnection: the connection is in the pool before it has     *)
(* dropped its task.                                                         *)
ReaddWorkingPGConnection(c) ==
    /\ conn[c].pc = "readd"
    /\ free' = Append(free, c)
    /\ manager' = IF manager.pc = "sleep_conn" THEN [manager EXCEPT !.pc = "get"] ELSE manager
    /\ ConnGoes(c, "delete")
    /\ UNCHANGED <<jobVars, tasks, open, pending, shmem, stopVars>>

(* The jobs and the task are deleted, then taskToExec is cleared.            *)
DeleteTask(c) ==
    /\ conn[c].pc = "delete"
    /\ tasks' = Delete(conn[c].task)
    /\ ConnGoes(c, "clear")
    /\ UNCHANGED <<jobVars, open, pending, free, manager, shmem, stopVars>>

ClearTask(c) ==
    /\ conn[c].pc = "clear"
    /\ conn' = [conn EXCEPT ![c].task = None, ![c].pc = IF conn[c].working THEN "check" ELSE "exited"]
    /\ manager' = IF manager.pc = "sleep_exec" /\ manager.conn = c
                  THEN [manager EXCEPT !.pc = "exec"] ELSE manager
    /\ UNCHANGED <<jobVars, tasks, open, pending, free, shmem, stopVars>>

-----------------------------------------------------------------------------
(* ~PGConnectionPool                                                         *)

(* RunUntilAskedToQuit has stopped the server and joined it: every request   *)
(* that was accepted is answered.                                            *)
Joined == \A j \in Job : thread[j] = "new" \/ answered[j] > 0

(* Stop of the pool, then of every connection.  A sleeper is woken, or has   *)
(* missed the notification.                                                  *)
Stop ==
    /\ destroyer = "none" /\ Joined
    /\ working' = FALSE
    /\ manager' \in {manager, WakeManager("asleep")}
    /\ destroyer' = "stop_conns"
    /\ UNCHANGED <<jobVars, tasks, open, pending, free, conn, shmem, alive>>

StopConns ==
    /\ destroyer = "stop_conns"
    /\ \E missed \in SUBSET {c \in Conn : conn[c].pc = "asleep"} :
       conn' = [c \in Conn |-> [conn[c] EXCEPT !.working = FALSE,
                                   !.pc = IF @ = "asleep" /\ c \notin missed THEN "check" ELSE @]]
    /\ destroyer' = "delete"
    /\ UNCHANGED <<jobVars, tasks, open, pending, free, manager, shmem, working, alive>>

(* The destructor of a connection joins its thread.  It stops it once more,  *)
(* which can be missed like the first stop.                                  *)
StopConnAgain(c) ==
    /\ destroyer = "delete" /\ conn[c].pc = "asleep"
    /\ ConnGoes(c, "check")
    /\ UNCHANGED <<jobVars, tasks, open, pending, free, manager, shmem, stopVars>>

DeleteConn(c) ==
    /\ destroyer = "delete" /\ conn[c].pc = "exited"
    /\ ConnGoes(c, "deleted")
    /\ UNCHANGED <<jobVars, tasks, open, pending, free, manager, shmem, stopVars>>

JoinManager ==
    /\ destroyer = "delete" /\ \A c \in Conn : conn[c].pc = "deleted"
    /\ manager.pc = "exited"
    /\ destroyer' = "done"
    /\ UNCHANGED <<jobVars, tasks, open, pending, free, manager, conn, shmem, working, alive>>

-----------------------------------------------------------------------------
JobStep(j) ==
    \/ DispatchSingle(j) \/ BatchFull(j) \/ JoinBatch(j)
    \/ PendingFull(j) \/ PushTask(j)

ManagerStep ==
    \/ GetPGConnection \/ ManagerSleeps \/ ManagerStops
    \/ PopTask \/ ExecWaits \/ Exec

ConnStep(c) ==
    \/ WorkerSleeps(c) \/ WorkerStops(c)
    \/ SendBatch(c) \/ SendSingle(c) \/ ThrowNoMemory(c)
    \/ BackendReplies(c) \/ BackendFails(c) \/ CommitFails(c) \/ ThrowMissingReply(c)
    \/ FreeParam(c) \/ AnswerBatch(c) \/ AnswerSingle(c) \/ ReaddWorkingPGConnection(c)
    \/ DeleteTask(c) \/ ClearTask(c)

DestroyerStep ==
    \/ Stop \/ StopConns \/ JoinManager
    \/ \E c \in Conn : StopConnAgain(c) \/ DeleteConn(c)

Next ==
    /\ alive
    /\ \/ \E j \in Job : JobStep(j)
       \/ ManagerStep
       \/ \E c \in Conn : ConnStep(c)
       \/ DestroyerStep

Spec == Init /\ [][Next]_vars

(* Every thread runs; mutexes are granted, queries end.  The server need not *)
(* be stopped.                                                               *)
Fairness ==
    /\ \A j \in Job : WF_vars(alive /\ thread[j] # "new" /\ JobStep(j))
    /\ WF_vars(alive /\ ManagerStep)
    /\ \A c \in Conn : WF_vars(alive /\ ConnStep(c))

FairSpec == Spec /\ Fairness

-----------------------------------------------------------------------------

(* No client is answered twice.                                              *)
AnsweredOnce == \A j \in Job : answered[j] <= 1

(* A client is answered once, with the error of the transaction or with the  *)
(* results of its own operations, however the jobs of a batch came together. *)
AnsweredOwn == astray = {} /\ AnsweredOnce

(* No thread can reach a deleted object: a connection gives itself back to   *)
(* the pool before it deletes its task, and the destructor deletes the       *)
(* connections before it has joined the manager.                             *)
NothingDangles ==
    /\ Range(open) \subseteq DOMAIN tasks
    /\ Range(pending) \subseteq DOMAIN tasks
    /\ \A j \in Job : inserts[j] # None => inserts[j] \in DOMAIN tasks
    /\ manager.task # None => manager.task \in DOMAIN tasks
    /\ \A c \in Conn : conn[c].task # None /\ conn[c].pc # "clear" => conn[c].task \in DOMAIN tasks
    /\ manager.pc \in {"exec", "sleep_exec"} => conn[manager.conn].pc # "deleted"

(* Shared memory is used by a connection that executes a task, or was left   *)
(* behind by a backend whose commit failed.                                  *)
ShmemAccounted ==
    LET Replied(c) == conn[c].pc \in {"result", "answer"} /\ conn[c].result = "ok"
    IN  shmem \ LostBlocks =
            {Param(c) : c \in {d \in Conn : conn[d].pc \in {"sent", "result"}}}
            \cup {Reply(c) : c \in {d \in Conn : Replied(d) /\ ~NoReply(Head(Jobs(d)))}}

=============================================================================
