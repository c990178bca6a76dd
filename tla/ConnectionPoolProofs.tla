------------------------ MODULE ConnectionPoolProofs ------------------------
(***************************************************************************)
(* A task of the connection pool is in one place at a time, so nothing     *)
(* that is still referred to is deleted, shared memory is accounted for    *)
(* and no client is answered twice: for every number of requests, types,   *)
(* connections and every length of the queue and of the batches.           *)
(***************************************************************************)
EXTENDS ConnectionPool, FiniteSetTheorems, TLAPS

ThreadPc == {"new", "batch", "sleep_batch", "push", "sleep_pending", "returned"}
ManagerPc == {"get", "sleep_conn", "wait", "asleep", "exec", "sleep_exec", "exited"}
ConnPc == {"check", "asleep", "sent", "result", "answer", "readd", "delete", "clear", "exited", "deleted"}
Task == [isBatch : BOOLEAN, jobList : Seq(Job)]

TypeOK ==
    /\ thread \in [Job -> ThreadPc]
    /\ inserts \in [Job -> TaskId \cup {None}]
    /\ answered \in [Job -> Nat]
    /\ DOMAIN tasks \subseteq TaskId /\ tasks \in [DOMAIN tasks -> Task]
    /\ open \in [BatchType -> TaskId]
    /\ pending \in Seq(TaskId)
    /\ free \in Seq(Conn)
    /\ manager \in [pc : ManagerPc, conn : Conn \cup {NoConn}, task : TaskId \cup {None}]
    /\ conn \in [Conn -> [pc : ConnPc, task : TaskId \cup {None}, result : {"none", "ok", "error"},
                          working : BOOLEAN]]
    /\ working \in BOOLEAN /\ alive \in BOOLEAN
    /\ destroyer \in {"none", "stop_conns", "delete", "done"}

JobsOf(t) == Range(tasks[t].jobList)

(* The connection refers to its task: in "clear" it has deleted it.          *)
Live(c) == conn[c].task # None /\ conn[c].pc # "clear"

(* The task is executed and answered, or not yet.                            *)
Done(t) == \E c \in Conn : conn[c].task = t /\ conn[c].pc \in {"readd", "delete"}

(* Where the threads are decides what they refer to.                         *)
PcInv ==
    /\ \A j \in Job : inserts[j] # None <=> thread[j] \in {"push", "sleep_pending"}
    /\ manager.task # None <=> manager.pc \in {"exec", "sleep_exec"}
    /\ manager.pc \in {"wait", "asleep", "exec", "sleep_exec"} => manager.conn \in Conn
    /\ \A c \in Conn :
        /\ conn[c].pc \in {"sent", "result", "answer", "readd", "delete", "clear"} => conn[c].task # None
        /\ conn[c].result # "none" <=> conn[c].pc \in {"result", "answer"}
        /\ conn[c].pc = "deleted" => destroyer \in {"delete", "done"}

(* A job is in one task at most, once.                                       *)
JobInv ==
    /\ \A t \in DOMAIN tasks : IsInjective(tasks[t].jobList)
    /\ \A t \in DOMAIN tasks : \A j \in JobsOf(t) : thread[j] \in {"push", "sleep_pending", "returned"}
    /\ \A t, u \in DOMAIN tasks : t # u => JobsOf(t) \cap JobsOf(u) = {}

(* Every reference is to a task that lives.                                  *)
RefInv ==
    /\ \A b \in BatchType : open[b] \in DOMAIN tasks
    /\ \A j \in Job : inserts[j] # None => inserts[j] \in DOMAIN tasks
    /\ Range(pending) \subseteq DOMAIN tasks
    /\ manager.task # None => manager.task \in DOMAIN tasks
    /\ \A c \in Conn : Live(c) => conn[c].task \in DOMAIN tasks

(* From the job that queues it to the connection that deletes it a task is   *)
(* in one place.                                                             *)
PlaceInv ==
    /\ \A i, j \in Job : inserts[i] # None /\ inserts[i] = inserts[j] => i = j
    /\ \A j \in Job : inserts[j] # None =>
        inserts[j] \notin Range(pending) /\ inserts[j] # manager.task
    /\ \A j \in Job, c \in Conn : Live(c) => inserts[j] # conn[c].task
    /\ IsInjective(pending)
    /\ manager.task \notin Range(pending)
    /\ \A c \in Conn : Live(c) => conn[c].task \notin Range(pending) /\ conn[c].task # manager.task
    /\ \A c, d \in Conn : Live(c) /\ Live(d) /\ conn[c].task = conn[d].task => c = d

(* An open task is open for one type and not given to the manager yet; while *)
(* no job has joined it, it is nowhere else, and every other task has a job. *)
OpenInv ==
    /\ \A a, b \in BatchType : open[a] = open[b] => a = b
    /\ \A b \in BatchType : open[b] # manager.task
    /\ \A b \in BatchType, c \in Conn : Live(c) => open[b] # conn[c].task
    /\ \A t \in DOMAIN tasks : JobsOf(t) = {} => \E b \in BatchType : open[b] = t
    /\ \A j \in Job : inserts[j] # None => JobsOf(inserts[j]) # {}
    /\ \A t \in Range(pending) : JobsOf(t) # {}
    /\ manager.task # None => JobsOf(manager.task) # {}
    /\ \A c \in Conn : Live(c) => JobsOf(conn[c].task) # {}

(* The jobs of a task have no answer until a connection has executed it.     *)
AnswerInv ==
    /\ \A j \in Job : answered[j] \in {0, 1}
    /\ \A j \in Job : thread[j] \notin {"push", "sleep_pending", "returned"} => answered[j] = 0
    /\ \A t \in DOMAIN tasks : ~Done(t) => \A j \in JobsOf(t) : answered[j] = 0

(* The destructor runs once every request is answered: no task is left.      *)
StopInv ==
    destroyer # "none" => ~working /\ manager.pc \notin {"exec", "sleep_exec"}

(* The blocks of shared memory.                                              *)
BlockInv ==
    /\ shmem \subseteq ({"param", "reply"} \X Conn) \cup ({"lost"} \X Nat)
    /\ IsFiniteSet(shmem)
    /\ ShmemAccounted

IInv == /\ TypeOK /\ PcInv /\ JobInv /\ RefInv /\ PlaceInv /\ OpenInv
        /\ AnswerInv /\ StopInv /\ BlockInv

-----------------------------------------------------------------------------
(* Sequences without duplicates                                              *)

LEMMA AppendNew ==
  ASSUME NEW S, NEW s \in Seq(S), NEW e \in S, IsInjective(s), e \notin Range(s)
  PROVE  /\ Append(s, e) \in Seq(S)
         /\ IsInjective(Append(s, e))
         /\ Range(Append(s, e)) = Range(s) \cup {e}
  <1>1. /\ Append(s, e) \in Seq(S) /\ DOMAIN s = 1 .. Len(s) /\ Len(s) \in Nat
        /\ DOMAIN Append(s, e) = 1 .. Len(s) + 1
        /\ \A i \in 1 .. Len(s) : Append(s, e)[i] = s[i]
        /\ Append(s, e)[Len(s) + 1] = e
    BY SMTT(60)
  <1>2. IsInjective(Append(s, e))
    BY <1>1, SMTT(60) DEF IsInjective, Range
  <1>3. Range(Append(s, e)) = Range(s) \cup {e}
    BY <1>1, SMTT(60) DEF Range
  <1> QED BY <1>1, <1>2, <1>3, ZenonT(60)

LEMMA TailDrops ==
  ASSUME NEW S, NEW s \in Seq(S), s # <<>>, IsInjective(s)
  PROVE  /\ Tail(s) \in Seq(S) /\ Head(s) \in S /\ Head(s) \in Range(s)
         /\ IsInjective(Tail(s))
         /\ Range(Tail(s)) = Range(s) \ {Head(s)}
  <1>1. /\ Tail(s) \in Seq(S) /\ DOMAIN s = 1 .. Len(s) /\ Len(s) \in Nat \ {0}
        /\ DOMAIN Tail(s) = 1 .. Len(s) - 1
        /\ \A i \in 1 .. Len(s) - 1 : Tail(s)[i] = s[i + 1]
        /\ Head(s) = s[1]
    BY SMTT(60)
  <1>2. IsInjective(Tail(s))
    BY <1>1, SMTT(60) DEF IsInjective
  <1>3. Head(s) \in Range(s) /\ Head(s) \in S
    BY <1>1, SMTT(60) DEF Range
  <1>4. Range(Tail(s)) \subseteq Range(s) \ {Head(s)}
    BY <1>1, SMTT(60) DEF Range, IsInjective
  <1>5. ASSUME NEW x \in Range(s), x # Head(s)
        PROVE  x \in Range(Tail(s))
    <2>1. PICK i \in 1 .. Len(s) : x = s[i]
      BY <1>1, ZenonT(60) DEF Range
    <2>2. i - 1 \in 1 .. Len(s) - 1 /\ Tail(s)[i - 1] = x
      BY <1>1, <1>5, <2>1, SMTT(60)
    <2> QED BY <1>1, <2>2, ZenonT(60) DEF Range
  <1> QED BY <1>1, <1>2, <1>3, <1>4, <1>5, ZenonT(60)

LEMMA RangeEmpty ==
  ASSUME NEW S, NEW s \in Seq(S)
  PROVE  /\ Range(s) \subseteq S
         /\ Range(s) = {} <=> s = <<>>
         /\ s # <<>> => Head(s) \in Range(s)
  <1>1. DOMAIN s = 1 .. Len(s) /\ Len(s) \in Nat /\ (Len(s) = 0 <=> s = <<>>)
    BY SMTT(60)
  <1>2. s # <<>> => Head(s) = s[1] /\ 1 \in DOMAIN s
    BY <1>1, SMTT(60)
  <1>3. Range(s) \subseteq S
    BY <1>1, \A i \in 1 .. Len(s) : s[i] \in S, ZenonT(60) DEF Range
  <1>4. Range(s) = {} <=> s = <<>>
    <2>1. s # <<>> => s[1] \in Range(s)
      BY <1>1, SMTT(60) DEF Range
    <2>2. s = <<>> => Range(s) = {}
      BY <1>1, SMTT(60) DEF Range
    <2> QED BY <2>1, <2>2, ZenonT(60)
  <1> QED BY <1>2, <1>3, <1>4, ZenonT(60) DEF Range

-----------------------------------------------------------------------------
(* There is a name for a new task                                            *)

LEMMA ConstantTypes ==
  /\ Cardinality(Job) \in Nat /\ Cardinality(BatchType) \in Nat
  /\ IsFiniteSet(TaskId) /\ TaskId \subseteq Nat \ {0}
  /\ Cardinality(TaskId) = Cardinality(Job) + Cardinality(BatchType)
  <1>1. Cardinality(Job) \in Nat /\ Cardinality(BatchType) \in Nat
    BY FiniteAssumption, FS_CardinalityType, ZenonT(60)
  <1> DEFINE n == Cardinality(Job) + Cardinality(BatchType)
  <1>2. IsFiniteSet(1 .. n) /\ Cardinality(1 .. n) = IF 1 > n THEN 0 ELSE n - 1 + 1
    <2>1. 1 \in Int /\ n \in Int
      BY <1>1, SMTT(60)
    <2> HIDE DEF n
    <2> QED BY <2>1, FS_Interval, ZenonT(60)
  <1> QED BY <1>1, <1>2, SMTT(60) DEF TaskId

LEMMA NoneIsNoTask == None \notin TaskId /\ None \notin {t \in TaskId : TRUE}
  BY SMTT(60) DEF None, TaskId

(* The tasks that have a job are at most as many as the jobs in tasks; the   *)
(* others are open for a type.                                               *)
LEMMA FreshExists ==
  ASSUME TypeOK, JobInv, OpenInv, NEW J \in SUBSET Job, NEW B \in SUBSET BatchType,
         \A t \in DOMAIN tasks : JobsOf(t) \subseteq J,
         \A t \in DOMAIN tasks : JobsOf(t) = {} => \E b \in B : open[b] = t,
         J # Job \/ B # BatchType
  PROVE  Fresh \in TaskId /\ Fresh \notin DOMAIN tasks
  <1> DEFINE N == {t \in DOMAIN tasks : JobsOf(t) # {}}
             E == {t \in DOMAIN tasks : JobsOf(t) = {}}
             f == [t \in N |-> CHOOSE j \in JobsOf(t) : TRUE]
             g == [t \in E |-> CHOOSE b \in B : open[b] = t]
  <1>0. /\ IsFiniteSet(J) /\ IsFiniteSet(B) /\ Cardinality(J) \in Nat /\ Cardinality(B) \in Nat
        /\ Cardinality(J) <= Cardinality(Job) /\ Cardinality(B) <= Cardinality(BatchType)
        /\ Cardinality(J) + Cardinality(B) < Cardinality(Job) + Cardinality(BatchType)
    <2>1. /\ IsFiniteSet(J) /\ Cardinality(J) <= Cardinality(Job)
          /\ Cardinality(Job) = Cardinality(J) => Job = J
      BY FiniteAssumption, FS_Subset, ZenonT(60)
    <2>2. /\ IsFiniteSet(B) /\ Cardinality(B) <= Cardinality(BatchType)
          /\ Cardinality(BatchType) = Cardinality(B) => BatchType = B
      BY FiniteAssumption, FS_Subset, ZenonT(60)
    <2>3. Cardinality(J) \in Nat /\ Cardinality(B) \in Nat
      BY <2>1, <2>2, FS_CardinalityType, ZenonT(60)
    <2> QED BY <2>1, <2>2, <2>3, ConstantTypes, SMTT(60)
  <1>1. f \in Injection(N, J)
    <2>1. \A t \in N : f[t] \in JobsOf(t) /\ f[t] \in J
      BY ZenonT(60)
    <2>2. \A t, u \in N : f[t] = f[u] => t = u
      BY <2>1, SMTT(60) DEF JobInv
    <2> QED BY <2>1, <2>2, ZenonT(60) DEF Injection, IsInjective
  <1>2. g \in Injection(E, B)
    <2>1. \A t \in E : g[t] \in B /\ open[g[t]] = t
      BY ZenonT(60)
    <2> QED BY <2>1, SMTT(60) DEF Injection, IsInjective
  <1>3. IsFiniteSet(N) /\ Cardinality(N) <= Cardinality(J)
    BY <1>0, <1>1, FS_Injection, ZenonT(60)
  <1>4. IsFiniteSet(E) /\ Cardinality(E) <= Cardinality(B)
    BY <1>0, <1>2, FS_Injection, ZenonT(60)
  <1>5. /\ IsFiniteSet(N \cup E)
        /\ Cardinality(N \cup E) = Cardinality(N) + Cardinality(E) - Cardinality(N \cap E)
    BY <1>3, <1>4, FS_Union, ZenonT(60)
  <1>6. N \cap E = {} /\ N \cup E = DOMAIN tasks
    BY ZenonT(60)
  <1>7. Cardinality(DOMAIN tasks) <= Cardinality(J) + Cardinality(B)
    <2>1. Cardinality(N) \in Nat /\ Cardinality(E) \in Nat
      BY <1>3, <1>4, FS_CardinalityType, ZenonT(60)
    <2>2. Cardinality(N \cup E) = Cardinality(N) + Cardinality(E) - 0
      BY <1>5, <1>6, FS_EmptySet, ZenonT(60)
    <2> QED BY <1>0, <1>3, <1>4, <1>6, <2>1, <2>2, SMTT(60)
  <1>8. DOMAIN tasks # TaskId
    <2>1. Cardinality(DOMAIN tasks) \in Nat
      BY <1>5, <1>6, FS_CardinalityType, ZenonT(60)
    <2> QED BY <1>0, <1>7, <2>1, ConstantTypes, SMTT(60)
  <1> QED BY <1>8, ZenonT(60) DEF Fresh, TypeOK

-----------------------------------------------------------------------------
(* What the operations do to the tasks                                       *)

LEMMA TaskAdded ==
  ASSUME TypeOK, NEW t \in TaskId, NEW k \in Task, tasks' = Add(t, k)
  PROVE  /\ DOMAIN tasks' = DOMAIN tasks \cup {t} /\ DOMAIN tasks' \subseteq TaskId
         /\ tasks' \in [DOMAIN tasks' -> Task]
         /\ tasks'[t] = k
         /\ \A u \in DOMAIN tasks : u # t => tasks'[u] = tasks[u]
  BY ZenonT(60) DEF TypeOK, Add

LEMMA TaskDeleted ==
  ASSUME TypeOK, NEW t, tasks' = Delete(t)
  PROVE  /\ DOMAIN tasks' = DOMAIN tasks \ {t} /\ DOMAIN tasks' \subseteq TaskId
         /\ tasks' \in [DOMAIN tasks' -> Task]
         /\ \A u \in DOMAIN tasks : u # t => tasks'[u] = tasks[u]
  BY ZenonT(60) DEF TypeOK, Delete

LEMMA TaskJoined ==
  ASSUME TypeOK, NEW t \in DOMAIN tasks, NEW j \in Job, IsInjective(tasks[t].jobList),
         j \notin JobsOf(t), tasks' = [tasks EXCEPT ![t].jobList = Append(@, j)]
  PROVE  /\ DOMAIN tasks' = DOMAIN tasks
         /\ tasks' \in [DOMAIN tasks' -> Task]
         /\ \A u \in DOMAIN tasks : u # t => tasks'[u] = tasks[u]
         /\ IsInjective(tasks'[t].jobList)
         /\ Range(tasks'[t].jobList) = JobsOf(t) \cup {j}
  <1>1. tasks[t] \in Task /\ tasks[t].jobList \in Seq(Job)
    BY ZenonT(60) DEF TypeOK, Task
  <1>2. /\ Append(tasks[t].jobList, j) \in Seq(Job)
        /\ IsInjective(Append(tasks[t].jobList, j))
        /\ Range(Append(tasks[t].jobList, j)) = JobsOf(t) \cup {j}
    BY <1>1, AppendNew, SMTT(60) DEF JobsOf
  <1>3. /\ DOMAIN tasks' = DOMAIN tasks
        /\ \A u \in DOMAIN tasks : u # t => tasks'[u] = tasks[u]
        /\ tasks'[t] = [tasks[t] EXCEPT !.jobList = Append(tasks[t].jobList, j)]
    BY ZenonT(60) DEF TypeOK
  <1>4. tasks'[t] = [isBatch |-> tasks[t].isBatch, jobList |-> Append(tasks[t].jobList, j)]
    BY <1>1, <1>3, ZenonT(60) DEF Task
  <1>5. tasks'[t] \in Task /\ tasks'[t].jobList = Append(tasks[t].jobList, j)
    BY <1>1, <1>2, <1>4, ZenonT(60) DEF Task
  <1>6. tasks' \in [DOMAIN tasks' -> Task]
    BY <1>3, <1>5, ZenonT(60) DEF TypeOK
  <1> QED BY <1>2, <1>3, <1>5, <1>6, ZenonT(60)

(* A job that is dispatched is in no task, so there is a name for its task.  *)
LEMMA DispatchedIsNew ==
  ASSUME TypeOK, JobInv, NEW j \in Job, thread[j] \in {"new", "batch"}
  PROVE  \A t \in DOMAIN tasks : j \notin JobsOf(t)
  BY ZenonT(60) DEF JobInv

LEMMA JobsTyped ==
  ASSUME TypeOK, NEW t \in DOMAIN tasks
  PROVE  /\ tasks[t] \in Task /\ tasks[t].jobList \in Seq(Job) /\ JobsOf(t) \subseteq Job
         /\ JobsOf(t) = {} <=> tasks[t].jobList = <<>>
         /\ tasks[t].jobList # <<>> => Head(tasks[t].jobList) \in JobsOf(t)
  <1>1. tasks[t] \in Task /\ tasks[t].jobList \in Seq(Job)
    BY ZenonT(60) DEF TypeOK, Task
  <1> QED BY <1>1, RangeEmpty, SMTT(60) DEF JobsOf

LEMMA FreshForSingle ==
  ASSUME TypeOK, JobInv, OpenInv, NEW j \in Job, MetaCall(j)
  PROVE  Fresh \in TaskId /\ Fresh \notin DOMAIN tasks
  <1>1. \A t \in DOMAIN tasks : JobsOf(t) \subseteq Job \ {j}
    BY JobsTyped, DispatchedIsNew, ZenonT(60) DEF MetaCall
  <1>2. \A t \in DOMAIN tasks : JobsOf(t) = {} => \E b \in BatchType : open[b] = t
    BY ZenonT(60) DEF OpenInv
  <1>3. Job \ {j} \in SUBSET Job /\ BatchType \in SUBSET BatchType /\ Job \ {j} # Job
    BY ZenonT(60)
  <1> QED BY <1>1, <1>2, <1>3, FreshExists, ZenonT(60)

LEMMA FreshForReopen ==
  ASSUME TypeOK, JobInv, OpenInv, NEW b \in BatchType, pending # <<>>, open[b] = Head(pending)
  PROVE  Fresh \in TaskId /\ Fresh \notin DOMAIN tasks
  <1>1. \A t \in DOMAIN tasks : JobsOf(t) \subseteq Job
    BY JobsTyped, ZenonT(60)
  <1>2. Head(pending) \in Range(pending)
    BY RangeEmpty, ZenonT(60) DEF TypeOK
  <1>3. JobsOf(open[b]) # {}
    BY <1>2, ZenonT(60) DEF OpenInv
  <1>4. \A t \in DOMAIN tasks : JobsOf(t) = {} => \E a \in BatchType \ {b} : open[a] = t
    BY <1>3, ZenonT(60) DEF OpenInv
  <1>5. Job \in SUBSET Job /\ BatchType \ {b} \in SUBSET BatchType /\ BatchType \ {b} # BatchType
    BY ZenonT(60)
  <1> QED BY <1>1, <1>4, <1>5, FreshExists, ZenonT(60)

-----------------------------------------------------------------------------
(* The initial state                                                         *)

LEMMA InitialOpenIsInjective ==
  /\ InitialOpen \in [BatchType -> 1 .. Cardinality(BatchType)]
  /\ \A a, b \in BatchType : a # b => InitialOpen[a] # InitialOpen[b]
  /\ \A t \in 1 .. Cardinality(BatchType) : \E b \in BatchType : InitialOpen[b] = t
  <1> DEFINE N == 1 .. Cardinality(BatchType)
  <1>1. IsFiniteSet(N) /\ Cardinality(N) = Cardinality(BatchType)
    <2>1. 1 \in Int /\ Cardinality(BatchType) \in Int /\ Cardinality(BatchType) >= 0
      BY ConstantTypes, SMTT(60)
    <2> QED BY <2>1, FS_Interval, SMTT(60)
  <1>2. ExistsBijection(BatchType, N)
    BY <1>1, FiniteAssumption, FS_SameCardinalityBij, ZenonT(60)
  <1>3. PICK f : f \in Bijection(BatchType, N)
    BY <1>2, ZenonT(60) DEF ExistsBijection
  <1>4. f \in [BatchType -> N] /\ \A a, b \in BatchType : a # b => f[a] # f[b]
    BY <1>3, ZenonT(60) DEF Bijection, Injection, IsInjective
  <1>5. /\ InitialOpen \in [BatchType -> N]
        /\ \A a, b \in BatchType : a # b => InitialOpen[a] # InitialOpen[b]
    BY <1>4, ZenonT(60) DEF InitialOpen
  <1>6. InitialOpen \in Injection(BatchType, N)
    BY <1>5, ZenonT(60) DEF Injection, IsInjective
  <1>7. InitialOpen \in Surjection(BatchType, N)
    BY <1>1, <1>6, FS_Injection, ZenonT(60)
  <1> QED BY <1>5, <1>7, ZenonT(60) DEF Surjection

LEMMA AllConnsFree == InitialFree \in Seq(Conn)
  <1>1. Cardinality(Conn) \in Nat /\ ExistsBijection(1 .. Cardinality(Conn), Conn)
    BY FiniteAssumption, FS_CardinalityType, ZenonT(60)
  <1>2. PICK f : f \in Bijection(1 .. Cardinality(Conn), Conn)
    BY <1>1, ZenonT(60) DEF ExistsBijection
  <1>3. f \in [1 .. Cardinality(Conn) -> Conn] /\ IsInjective(f)
    BY <1>2, ZenonT(60) DEF Bijection, Injection
  <1>4. InitialFree \in [1 .. Cardinality(Conn) -> Conn]
    BY <1>3, ZenonT(60) DEF InitialFree
  <1> QED BY <1>1, <1>4, SMTT(60)

LEMMA InitIInv == Init => IInv
  <1> SUFFICES ASSUME Init PROVE IInv
    BY ZenonT(60)
  <1> USE DEF Init
  <1>1. TypeOK
    <2>1. TaskId = 1 .. Cardinality(Job) + Cardinality(BatchType)
      BY ZenonT(60) DEF TaskId
    <2>2. 1 .. Cardinality(BatchType) \subseteq TaskId
      BY <2>1, ConstantTypes, SMTT(60)
    <2>3. open \in [BatchType -> TaskId]
      BY <2>2, InitialOpenIsInjective, ZenonT(60)
    <2>4. DOMAIN tasks \subseteq TaskId /\ tasks \in [DOMAIN tasks -> Task]
      BY <2>2, SMTT(60) DEF NewTask, Task
    <2>5. /\ manager \in [pc : ManagerPc, conn : Conn \cup {NoConn}, task : TaskId \cup {None}]
          /\ conn \in [Conn -> [pc : ConnPc, task : TaskId \cup {None}, result : {"none", "ok", "error"},
                                working : BOOLEAN]]
      BY ZenonT(60) DEF ManagerPc, ConnPc
    <2>6. thread \in [Job -> ThreadPc] /\ inserts \in [Job -> TaskId \cup {None}]
      BY ZenonT(60) DEF ThreadPc
    <2>7. pending \in Seq(TaskId) /\ answered \in [Job -> Nat]
      BY SMTT(60)
    <2> QED BY <2>3, <2>4, <2>5, <2>6, <2>7, AllConnsFree, ZenonT(60) DEF TypeOK
  <1>2. \A t \in DOMAIN tasks : JobsOf(t) = {} /\ tasks[t].jobList = <<>>
    BY SMTT(60) DEF JobsOf, NewTask, Range
  <1>3. Range(pending) = {} /\ IsInjective(pending)
    BY SMTT(60) DEF Range, IsInjective
  <1>4. PcInv
    BY ZenonT(60) DEF PcInv
  <1>5. JobInv
    <2>1. IsInjective(<<>>)
      BY SMTT(60) DEF IsInjective
    <2> QED BY <1>2, <2>1, ZenonT(60) DEF JobInv
  <1>6. RefInv
    BY <1>3, InitialOpenIsInjective, ZenonT(60) DEF RefInv, Live
  <1>7. PlaceInv
    BY <1>3, ZenonT(60) DEF PlaceInv, Live
  <1>8. OpenInv
    <2>1. \A b \in BatchType : open[b] # None
      BY InitialOpenIsInjective, SMTT(60) DEF None
    <2>2. \A t \in DOMAIN tasks : \E b \in BatchType : open[b] = t
      BY InitialOpenIsInjective, ZenonT(60)
    <2> QED BY <1>3, <2>1, <2>2, InitialOpenIsInjective, ZenonT(60) DEF OpenInv, Live
  <1>9. AnswerInv
    BY <1>2, ZenonT(60) DEF AnswerInv
  <1>10. StopInv
    BY ZenonT(60) DEF StopInv
  <1>11. BlockInv
    BY FS_EmptySet, ZenonT(60) DEF BlockInv, ShmemAccounted, LostBlocks
  <1> QED BY <1>1, <1>4, <1>5, <1>6, <1>7, <1>8, <1>9, <1>10, <1>11, ZenonT(60) DEF IInv

-----------------------------------------------------------------------------
(* Types                                                                     *)

ManagerType == [pc : ManagerPc, conn : Conn \cup {NoConn}, task : TaskId \cup {None}]
ConnType == [pc : ConnPc, task : TaskId \cup {None}, result : {"none", "ok", "error"}, working : BOOLEAN]

LEMMA ConnGoesTyped ==
  ASSUME TypeOK, NEW c \in Conn, NEW pc \in ConnPc, ConnGoes(c, pc)
  PROVE  /\ conn' \in [Conn -> ConnType]
         /\ \A d \in Conn : d # c => conn'[d] = conn[d]
         /\ /\ conn'[c].pc = pc /\ conn'[c].task = conn[c].task
            /\ conn'[c].result = conn[c].result /\ conn'[c].working = conn[c].working
  <1>1. conn \in [Conn -> ConnType] /\ conn' = [conn EXCEPT ![c].pc = pc]
    BY ZenonT(60) DEF TypeOK, ConnGoes, ConnType
  <1>2. conn' = [conn EXCEPT ![c] = [conn[c] EXCEPT !.pc = pc]] /\ conn[c] \in ConnType
    BY <1>1, ZenonT(60)
  <1>3. [conn[c] EXCEPT !.pc = pc] \in ConnType
    BY <1>2, ZenonT(60) DEF ConnType
  <1>4. conn'[c] = [conn[c] EXCEPT !.pc = pc] /\ conn' \in [Conn -> ConnType]
        /\ \A d \in Conn : d # c => conn'[d] = conn[d]
    BY <1>1, <1>2, <1>3, ZenonT(60)
  <1> QED BY <1>2, <1>4, ZenonT(60) DEF ConnType

LEMMA ExecEffect ==
  ASSUME TypeOK, PcInv, Exec
  PROVE  LET m == manager.conn IN
         /\ m \in Conn /\ conn' \in [Conn -> ConnType]
         /\ \A d \in Conn : d # m => conn'[d] = conn[d]
         /\ conn'[m].task = manager.task /\ conn'[m].result = conn[m].result
         /\ conn'[m].pc = conn[m].pc \/ (conn[m].pc = "asleep" /\ conn'[m].pc = "check")
  <1> DEFINE m == manager.conn
             pc == IF conn[m].pc = "asleep" THEN "check" ELSE conn[m].pc
  <1>1. m \in Conn /\ manager.task \in TaskId \cup {None}
    BY ZenonT(60) DEF Exec, PcInv, TypeOK
  <1>2. conn \in [Conn -> ConnType] /\ conn[m] \in ConnType
    BY <1>1, ZenonT(60) DEF TypeOK, ConnType
  <1>3. /\ DOMAIN conn' = Conn /\ conn' = [d \in Conn |-> conn'[d]]
        /\ \A d \in Conn : d # m => conn'[d] = conn[d]
        /\ conn'[m] = [conn[m] EXCEPT !.task = manager.task, !.pc = pc]
    BY <1>1, <1>2, ZenonT(60) DEF Exec, ConnType
  <1>4. pc \in ConnPc /\ (pc = conn[m].pc \/ (conn[m].pc = "asleep" /\ pc = "check"))
    BY <1>2, ZenonT(60) DEF ConnType, ConnPc
  <1> HIDE DEF pc
  <1>5. conn'[m] \in ConnType
    BY <1>1, <1>2, <1>3, <1>4, ZenonT(60) DEF ConnType
  <1>6. conn'[m].task = manager.task /\ conn'[m].result = conn[m].result /\ conn'[m].pc = pc
    BY <1>2, <1>3, ZenonT(60) DEF ConnType
  <1>7. \A d \in Conn : conn'[d] \in ConnType
    BY <1>2, <1>3, <1>5, ZenonT(60)
  <1> QED BY <1>1, <1>3, <1>4, <1>6, <1>7, ZenonT(60)

(* A connection gets its result.                                             *)
LEMMA ResultTyped ==
  ASSUME TypeOK, NEW c \in Conn, NEW r \in {"ok", "error"},
         conn' = [conn EXCEPT ![c].pc = "result", ![c].result = r]
  PROVE  /\ conn' \in [Conn -> ConnType]
         /\ \A d \in Conn : d # c => conn'[d] = conn[d]
         /\ /\ conn'[c].pc = "result" /\ conn'[c].task = conn[c].task
            /\ conn'[c].result = r /\ conn'[c].working = conn[c].working
  <1>1. conn \in [Conn -> ConnType] /\ "result" \in ConnPc /\ r \in {"none", "ok", "error"}
    BY ZenonT(60) DEF TypeOK, ConnType, ConnPc
  <1>2. conn' = [conn EXCEPT ![c] = [conn[c] EXCEPT !.pc = "result", !.result = r]] /\ conn[c] \in ConnType
    BY <1>1, ZenonT(60)
  <1>3. [conn[c] EXCEPT !.pc = "result", !.result = r] \in ConnType
    BY <1>1, <1>2, ZenonT(60) DEF ConnType
  <1>4. conn'[c] = [conn[c] EXCEPT !.pc = "result", !.result = r] /\ conn' \in [Conn -> ConnType]
        /\ \A d \in Conn : d # c => conn'[d] = conn[d]
    BY <1>1, <1>2, <1>3, ZenonT(60)
  <1> QED BY <1>2, <1>4, ZenonT(60) DEF ConnType

LEMMA ConnsStopped ==
  ASSUME TypeOK, StopConns
  PROVE  /\ conn' \in [Conn -> ConnType]
         /\ \A d \in Conn :
              /\ conn'[d].task = conn[d].task /\ conn'[d].result = conn[d].result
              /\ conn'[d].pc = conn[d].pc \/ (conn[d].pc = "asleep" /\ conn'[d].pc = "check")
  <1>1. PICK missed : conn' = [c \in Conn |-> [conn[c] EXCEPT !.working = FALSE,
                                   !.pc = IF @ = "asleep" /\ c \notin missed THEN "check" ELSE @]]
    BY ZenonT(60) DEF StopConns
  <1>2. \A d \in Conn : conn[d] \in ConnType
    BY ZenonT(60) DEF TypeOK, ConnType
  <1>3. ASSUME NEW d \in Conn
        PROVE  /\ conn'[d] \in ConnType
               /\ conn'[d].task = conn[d].task /\ conn'[d].result = conn[d].result
               /\ conn'[d].pc = conn[d].pc \/ (conn[d].pc = "asleep" /\ conn'[d].pc = "check")
    <2>1. conn'[d] = [conn[d] EXCEPT !.working = FALSE,
                                     !.pc = IF @ = "asleep" /\ d \notin missed THEN "check" ELSE @]
      BY <1>1, ZenonT(60)
    <2> DEFINE pc == IF conn[d].pc = "asleep" /\ d \notin missed THEN "check" ELSE conn[d].pc
    <2>2. conn[d] \in ConnType /\ pc \in ConnPc
      BY <1>2, ZenonT(60) DEF ConnType, ConnPc
    <2>3. conn'[d] = [conn[d] EXCEPT !.working = FALSE, !.pc = pc]
      BY <2>1, <2>2, ZenonT(60) DEF ConnType
    <2>4. pc = conn[d].pc \/ (conn[d].pc = "asleep" /\ pc = "check")
      BY ZenonT(60)
    <2> HIDE DEF pc
    <2>5. conn'[d] \in ConnType
      BY <2>2, <2>3, ZenonT(60) DEF ConnType
    <2>6. conn'[d].task = conn[d].task /\ conn'[d].result = conn[d].result /\ conn'[d].pc = pc
      BY <2>2, <2>3, ZenonT(60) DEF ConnType
    <2> QED BY <2>4, <2>5, <2>6, ZenonT(60)
  <1>4. conn' = [d \in Conn |-> conn'[d]]
    BY <1>1, ZenonT(60)
  <1> QED BY <1>3, <1>4, ZenonT(60)

LEMMA WakeManagerTyped ==
  ASSUME TypeOK, NEW pc
  PROVE  /\ WakeManager(pc) \in ManagerType
         /\ WakeManager(pc).task = manager.task /\ WakeManager(pc).conn = manager.conn
         /\ WakeManager(pc).pc \in {manager.pc, "wait"}
         /\ manager.pc # pc => WakeManager(pc) = manager
         /\ manager.pc = pc => WakeManager(pc).pc = "wait"
  BY ZenonT(60) DEF TypeOK, WakeManager, ManagerType, ManagerPc

LEMMA WakeJobsTyped ==
  ASSUME TypeOK, NEW R, NEW S, WakeJobs(R, S)
  PROVE  thread' \in [Job -> ThreadPc]
  BY ZenonT(60) DEF TypeOK, WakeJobs, ThreadPc

LEMMA JobStepType ==
  ASSUME IInv, NEW j \in Job, JobStep(j)
  PROVE  TypeOK'
  <1> USE DEF IInv
  <1>1. CASE DispatchSingle(j)
    <2>1. Fresh \in TaskId /\ Fresh \notin DOMAIN tasks
      BY <1>1, FreshForSingle, ZenonT(60) DEF DispatchSingle
    <2>2. NewTask(FALSE, <<j>>) \in Task
      BY SMTT(60) DEF NewTask, Task
    <2>3. DOMAIN tasks' \subseteq TaskId /\ tasks' \in [DOMAIN tasks' -> Task]
      BY <1>1, <2>1, <2>2, TaskAdded, ZenonT(60) DEF DispatchSingle
    <2> QED BY <1>1, <2>1, <2>3, ZenonT(60) DEF DispatchSingle, TypeOK, ThreadPc, stopVars
  <1>2. CASE BatchFull(j)
    BY <1>2, ZenonT(60) DEF BatchFull, TypeOK, ThreadPc, stopVars
  <1>3. CASE JoinBatch(j)
    <2>1. open[Type(j)] \in DOMAIN tasks /\ thread[j] \in {"new", "batch"}
      BY <1>3, ZenonT(60) DEF JoinBatch, Dispatches, MetaCall, Batches, RefInv
    <2>2. DOMAIN tasks' \subseteq TaskId /\ tasks' \in [DOMAIN tasks' -> Task]
      BY <1>3, <2>1, DispatchedIsNew, TaskJoined, ZenonT(60) DEF JoinBatch, TypeOK, JobInv
    <2>3. inserts' \in [Job -> TaskId \cup {None}] /\ thread' \in [Job -> ThreadPc]
      BY <1>3, <2>1, ZenonT(60) DEF JoinBatch, TypeOK, ThreadPc
    <2> QED BY <1>3, <2>2, <2>3, ZenonT(60) DEF JoinBatch, TypeOK, stopVars
  <1>4. CASE PendingFull(j)
    BY <1>4, ZenonT(60) DEF PendingFull, TypeOK, ThreadPc, stopVars
  <1>5. CASE PushTask(j)
    <2>1. inserts[j] \in TaskId
      BY <1>5, ZenonT(60) DEF PushTask, PcInv, TypeOK
    <2>2. pending' \in Seq(TaskId)
      BY <1>5, <2>1, SMTT(60) DEF PushTask, TypeOK
    <2>3. manager' \in ManagerType
      BY <1>5, WakeManagerTyped, ZenonT(60) DEF PushTask
    <2> QED BY <1>5, <2>2, <2>3, ZenonT(60) DEF PushTask, TypeOK, ThreadPc, ManagerType, stopVars
  <1> QED BY <1>1, <1>2, <1>3, <1>4, <1>5, ZenonT(60) DEF JobStep

LEMMA ManagerStepType ==
  ASSUME IInv, ManagerStep
  PROVE  TypeOK'
  <1> USE DEF IInv
  <1>0. manager \in ManagerType
    BY ZenonT(60) DEF TypeOK, ManagerType
  <1>1. CASE GetPGConnection
    <2>1. free # <<>> => Head(free) \in Conn /\ Tail(free) \in Seq(Conn)
      BY SMTT(60) DEF TypeOK
    <2>2. manager' \in ManagerType /\ free' \in Seq(Conn)
      <3>1. "wait" \in ManagerPc /\ "sleep_conn" \in ManagerPc
        BY ZenonT(60) DEF ManagerPc
      <3>2. CASE free # <<>>
        BY <1>0, <1>1, <2>1, <3>1, <3>2, ZenonT(60) DEF GetPGConnection, ManagerType
      <3>3. CASE free = <<>>
        BY <1>0, <1>1, <3>1, <3>3, ZenonT(60) DEF GetPGConnection, TypeOK, ManagerType
      <3> QED BY <3>2, <3>3, ZenonT(60)
    <2> QED BY <1>1, <2>2, ZenonT(60) DEF GetPGConnection, TypeOK, ManagerType, jobVars, stopVars
  <1>2. CASE ManagerSleeps
    BY <1>2, ZenonT(60) DEF ManagerSleeps, TypeOK, ManagerPc, jobVars, stopVars
  <1>3. CASE ManagerStops
    BY <1>3, ZenonT(60) DEF ManagerStops, TypeOK, ManagerPc, jobVars, stopVars
  <1>4. CASE PopTask
    <2>1. Head(pending) \in TaskId /\ Tail(pending) \in Seq(TaskId)
      BY <1>4, SMTT(60) DEF PopTask, TakeTask, TypeOK
    <2>2. manager' \in ManagerType
      BY <1>0, <1>4, <2>1, ZenonT(60) DEF PopTask, TakeTask, ManagerPc, ManagerType
    <2>3. thread' \in [Job -> ThreadPc]
      BY <1>4, WakeJobsTyped, ZenonT(60) DEF PopTask
    <2>4. /\ open' \in [BatchType -> TaskId]
          /\ DOMAIN tasks' \subseteq TaskId /\ tasks' \in [DOMAIN tasks' -> Task]
      <3>1. CASE UNCHANGED <<open, tasks>>
        BY <3>1, ZenonT(60) DEF TypeOK
      <3>2. ASSUME NEW b \in BatchType, open[b] = Head(pending), Reopen(b)
            PROVE  /\ open' \in [BatchType -> TaskId]
                   /\ DOMAIN tasks' \subseteq TaskId /\ tasks' \in [DOMAIN tasks' -> Task]
        <4>1. Fresh \in TaskId
          BY <1>4, <3>2, FreshForReopen, ZenonT(60) DEF PopTask, TakeTask
        <4>2. NewTask(TRUE, <<>>) \in Task
          BY SMTT(60) DEF NewTask, Task
        <4> QED BY <3>2, <4>1, <4>2, TaskAdded, ZenonT(60) DEF Reopen, TypeOK
      <3> QED BY <1>4, <3>1, <3>2, ZenonT(60) DEF PopTask
    <2> QED BY <1>4, <2>1, <2>2, <2>3, <2>4, ZenonT(60) DEF PopTask, TakeTask, TypeOK, ManagerType, stopVars
  <1>5. CASE ExecWaits
    BY <1>5, ZenonT(60) DEF ExecWaits, TypeOK, ManagerPc, jobVars, stopVars
  <1>6. CASE Exec
    <2>1. manager' \in ManagerType
      BY <1>6, ZenonT(60) DEF Exec, ManagerPc, ManagerType
    <2>2. conn' \in [Conn -> ConnType]
      BY <1>6, ExecEffect, ZenonT(60)
    <2> QED BY <1>6, <2>1, <2>2, ZenonT(60) DEF Exec, TypeOK, ManagerType, ConnType, jobVars, stopVars
  <1> QED BY <1>1, <1>2, <1>3, <1>4, <1>5, <1>6, ZenonT(60) DEF ManagerStep

LEMMA ConnStepType ==
  ASSUME IInv, NEW c \in Conn, ConnStep(c)
  PROVE  TypeOK'
  <1> USE DEF IInv
  <1>0. /\ conn' \in [Conn -> ConnType] /\ manager' \in ManagerType /\ free' \in Seq(Conn)
        /\ DOMAIN tasks' \subseteq TaskId /\ tasks' \in [DOMAIN tasks' -> Task]
        /\ answered' \in [Job -> Nat]
        /\ UNCHANGED <<thread, inserts, open, pending, working, destroyer>>
        /\ alive' \in BOOLEAN
        => TypeOK'
    BY ZenonT(60) DEF TypeOK, ConnType, ManagerType
  <1>1. /\ conn \in [Conn -> ConnType] /\ manager \in ManagerType /\ free \in Seq(Conn)
        /\ DOMAIN tasks \subseteq TaskId /\ tasks \in [DOMAIN tasks -> Task]
        /\ answered \in [Job -> Nat] /\ alive \in BOOLEAN
    BY ZenonT(60) DEF TypeOK, ConnType, ManagerType
  <1> USE DEF jobVars, stopVars
  <1>2. CASE WorkerSleeps(c)
    BY <1>0, <1>1, <1>2, ConnGoesTyped, ZenonT(60) DEF WorkerSleeps, ConnPc
  <1>3. CASE WorkerStops(c)
    BY <1>0, <1>1, <1>3, ConnGoesTyped, ZenonT(60) DEF WorkerStops, ConnPc
  <1>4. CASE SendBatch(c) \/ SendSingle(c)
    BY <1>0, <1>1, <1>4, ConnGoesTyped, ZenonT(60) DEF SendBatch, SendSingle, CopyParams, ConnPc
  <1>5. CASE ThrowNoMemory(c) \/ ThrowMissingReply(c)
    BY <1>0, <1>1, <1>5, ZenonT(60) DEF ThrowNoMemory, ThrowMissingReply, Throws
  <1>6. CASE BackendReplies(c)
    BY <1>0, <1>1, <1>6, ResultTyped, ZenonT(60) DEF BackendReplies
  <1>7. CASE BackendFails(c) \/ CommitFails(c)
    BY <1>0, <1>1, <1>7, ResultTyped, ZenonT(60) DEF BackendFails, CommitFails
  <1>8. CASE FreeParam(c)
    BY <1>0, <1>1, <1>8, ConnGoesTyped, ZenonT(60) DEF FreeParam, ConnPc
  <1>9. CASE AnswerBatch(c) \/ AnswerSingle(c)
    <2>1. Answer(c)
      BY <1>9, ZenonT(60) DEF AnswerBatch, AnswerSingle
    <2>2. answered' \in [Job -> Nat]
      BY <1>1, <2>1, SMTT(60) DEF Answer, SendAnswers
    <2>3. conn' \in [Conn -> ConnType]
      <3>1. conn' = [conn EXCEPT ![c].pc = "readd", ![c].result = "none"] /\ conn[c] \in ConnType
        BY <1>1, <2>1, ZenonT(60) DEF Answer
      <3>2. "readd" \in ConnPc /\ "none" \in {"none", "ok", "error"}
        BY ZenonT(60) DEF ConnPc
      <3>3. [conn[c] EXCEPT !.pc = "readd", !.result = "none"] \in ConnType
        BY <3>1, <3>2, ZenonT(60) DEF ConnType
      <3> QED BY <1>1, <3>1, <3>3, ZenonT(60)
    <2> QED BY <1>0, <1>1, <2>1, <2>2, <2>3, ZenonT(60) DEF Answer
  <1>10. CASE ReaddWorkingPGConnection(c)
    <2>1. manager' \in ManagerType /\ free' \in Seq(Conn)
      BY <1>1, <1>10, SMTT(60) DEF ReaddWorkingPGConnection, ManagerType, ManagerPc
    <2> QED BY <1>0, <1>1, <1>10, <2>1, ConnGoesTyped, ZenonT(60) DEF ReaddWorkingPGConnection, ConnPc
  <1>11. CASE DeleteTask(c)
    BY <1>0, <1>1, <1>11, ConnGoesTyped, TaskDeleted, ZenonT(60) DEF DeleteTask, ConnPc
  <1>12. CASE ClearTask(c)
    <2>1. manager' \in ManagerType
      BY <1>1, <1>12, ZenonT(60) DEF ClearTask, ManagerType, ManagerPc
    <2>2. conn' \in [Conn -> ConnType]
      <3> DEFINE pc == IF conn[c].working THEN "check" ELSE "exited"
      <3>1. conn' = [conn EXCEPT ![c].task = None, ![c].pc = pc] /\ conn[c] \in ConnType
        BY <1>1, <1>12, ZenonT(60) DEF ClearTask
      <3>2. pc \in ConnPc
        BY ZenonT(60) DEF ConnPc
      <3> HIDE DEF pc
      <3>3. [conn[c] EXCEPT !.task = None, !.pc = pc] \in ConnType
        BY <3>1, <3>2, ZenonT(60) DEF ConnType
      <3> QED BY <1>1, <3>1, <3>3, ZenonT(60)
    <2> QED BY <1>0, <1>1, <1>12, <2>1, <2>2, ZenonT(60) DEF ClearTask
  <1> QED BY <1>2, <1>3, <1>4, <1>5, <1>6, <1>7, <1>8, <1>9, <1>10, <1>11, <1>12, ZenonT(60) DEF ConnStep

LEMMA DestroyerStepType ==
  ASSUME IInv, DestroyerStep
  PROVE  TypeOK'
  <1> USE DEF IInv, jobVars, stopVars
  <1>1. CASE Stop
    <2>1. manager' \in ManagerType
      BY <1>1, WakeManagerTyped, SMTT(60) DEF Stop, TypeOK, ManagerType
    <2> QED BY <1>1, <2>1, ZenonT(60) DEF Stop, TypeOK, ManagerType
  <1>2. CASE StopConns
    <2>1. conn' \in [Conn -> ConnType]
      BY <1>2, ConnsStopped, ZenonT(60)
    <2> QED BY <1>2, <2>1, ZenonT(60) DEF StopConns, TypeOK, ConnType
  <1>3. CASE JoinManager
    BY <1>3, ZenonT(60) DEF JoinManager, TypeOK
  <1>4. ASSUME NEW c \in Conn, StopConnAgain(c) \/ DeleteConn(c)
        PROVE  TypeOK'
    <2>1. conn' \in [Conn -> ConnType]
      BY <1>4, ConnGoesTyped, ZenonT(60) DEF StopConnAgain, DeleteConn, ConnPc
    <2> QED BY <1>4, <2>1, ZenonT(60) DEF StopConnAgain, DeleteConn, TypeOK, ConnType
  <1> QED BY <1>1, <1>2, <1>3, <1>4, ZenonT(60) DEF DestroyerStep

-----------------------------------------------------------------------------
(* What every step but five leaves where it is                               *)

KeepsPlaces ==
    /\ UNCHANGED <<inserts, tasks, open, pending>>
    /\ manager'.task = manager.task
    /\ \A c \in Conn : Live(c)' = Live(c) /\ (Live(c) => conn'[c].task = conn[c].task)

MovesTask ==
    \/ \E j \in Job : DispatchSingle(j) \/ JoinBatch(j) \/ PushTask(j)
    \/ PopTask \/ Exec
    \/ \E c \in Conn : DeleteTask(c)

LEMMA OtherStepsKeepPlaces ==
  ASSUME IInv, Next
  PROVE  KeepsPlaces \/ MovesTask
  <1> USE DEF jobVars, stopVars
  <1>0. /\ conn \in [Conn -> ConnType] /\ manager \in ManagerType
        /\ \A c \in Conn : conn[c].pc \in {"sent", "result", "answer", "readd", "delete", "clear"} =>
              conn[c].task # None
    BY ZenonT(60) DEF IInv, TypeOK, ConnType, ManagerType, PcInv
  <1>1. ASSUME NEW j \in Job, JobStep(j)
        PROVE  KeepsPlaces \/ MovesTask
    <2>1. CASE BatchFull(j) \/ PendingFull(j)
      BY <2>1, ZenonT(60) DEF BatchFull, PendingFull, KeepsPlaces, Live
    <2> QED BY <1>1, <2>1, ZenonT(60) DEF JobStep, MovesTask
  <1>2. CASE ManagerStep
    <2>1. CASE GetPGConnection
      BY <1>0, <2>1, ZenonT(60) DEF GetPGConnection, KeepsPlaces, Live, ManagerType
    <2>2. CASE ManagerSleeps \/ ManagerStops \/ ExecWaits
      BY <1>0, <2>2, ZenonT(60) DEF ManagerSleeps, ManagerStops, ExecWaits, KeepsPlaces, Live, ManagerType
    <2> QED BY <1>2, <2>1, <2>2, ZenonT(60) DEF ManagerStep, MovesTask
  <1>3. ASSUME NEW c \in Conn, ConnStep(c)
        PROVE  KeepsPlaces \/ MovesTask
    <2>1. ASSUME NEW pc \in ConnPc \ {"clear"}, ConnGoes(c, pc), conn[c].pc # "clear",
                 UNCHANGED <<inserts, tasks, open, pending>>, manager'.task = manager.task
          PROVE  KeepsPlaces
      BY <2>1, ConnGoesTyped, ZenonT(60) DEF IInv, KeepsPlaces, Live
    <2>2. CASE WorkerSleeps(c)
      BY <2>1, <2>2, ZenonT(60) DEF WorkerSleeps, ConnPc
    <2>3. CASE WorkerStops(c)
      BY <2>1, <2>3, ZenonT(60) DEF WorkerStops, ConnPc
    <2>4. CASE SendBatch(c) \/ SendSingle(c)
      BY <2>1, <2>4, ZenonT(60) DEF SendBatch, SendSingle, HasTask, CopyParams, ConnPc
    <2>5. CASE ThrowNoMemory(c) \/ ThrowMissingReply(c)
      BY <2>5, ZenonT(60) DEF ThrowNoMemory, ThrowMissingReply, Throws, KeepsPlaces, Live
    <2>6. CASE BackendReplies(c)
      <3>1. /\ \A e \in Conn : e # c => conn'[e] = conn[e]
            /\ conn'[c].pc = "result" /\ conn'[c].task = conn[c].task /\ conn[c].pc = "sent"
            /\ UNCHANGED <<inserts, tasks, open, pending, manager>>
        BY <2>6, ResultTyped, ZenonT(60) DEF IInv, BackendReplies
      <3> QED BY <3>1, ZenonT(60) DEF KeepsPlaces, Live
    <2>7. CASE BackendFails(c) \/ CommitFails(c)
      BY <2>7, ResultTyped, SMTT(60) DEF IInv, BackendFails, CommitFails, KeepsPlaces, Live
    <2>8. CASE FreeParam(c)
      BY <2>1, <2>8, ZenonT(60) DEF FreeParam, ConnPc
    <2>9. CASE AnswerBatch(c) \/ AnswerSingle(c)
      BY <1>0, <2>9, SMTT(60) DEF AnswerBatch, AnswerSingle, Answer, KeepsPlaces, Live, ConnType
    <2>10. CASE ReaddWorkingPGConnection(c)
      <3>1. manager'.task = manager.task
        BY <1>0, <2>10, ZenonT(60) DEF ReaddWorkingPGConnection, ManagerType
      <3> QED BY <2>1, <2>10, <3>1, ZenonT(60) DEF ReaddWorkingPGConnection, ConnPc
    <2>11. CASE ClearTask(c)
      <3>1. manager'.task = manager.task
        BY <1>0, <2>11, ZenonT(60) DEF ClearTask, ManagerType
      <3>2. conn'[c].task = None /\ \A d \in Conn : d # c => conn'[d] = conn[d]
        BY <1>0, <2>11, ZenonT(60) DEF ClearTask, ConnType
      <3> QED BY <2>11, <3>1, <3>2, ZenonT(60) DEF ClearTask, KeepsPlaces, Live
    <2> QED BY <1>3, <2>2, <2>3, <2>4, <2>5, <2>6, <2>7, <2>8, <2>9, <2>10, <2>11, ZenonT(60) DEF ConnStep, MovesTask
  <1>4. CASE DestroyerStep
    <2>1. CASE Stop
      <3>1. manager'.task = manager.task
        BY <2>1, WakeManagerTyped, ZenonT(60) DEF IInv, Stop
      <3> QED BY <2>1, <3>1, ZenonT(60) DEF Stop, KeepsPlaces, Live
    <2>2. CASE StopConns
      <3>1. \A d \in Conn : conn'[d].task = conn[d].task /\ (conn'[d].pc = "clear" <=> conn[d].pc = "clear")
        BY <2>2, ConnsStopped, ZenonT(60) DEF IInv
      <3> QED BY <2>2, <3>1, ZenonT(60) DEF StopConns, KeepsPlaces, Live
    <2>3. CASE JoinManager
      BY <2>3, ZenonT(60) DEF JoinManager, KeepsPlaces, Live
    <2>4. ASSUME NEW c \in Conn, StopConnAgain(c) \/ DeleteConn(c)
          PROVE  KeepsPlaces
      <3>1. PICK pc \in ConnPc : /\ ConnGoes(c, pc) /\ pc # "clear" /\ conn[c].pc # "clear"
                                 /\ UNCHANGED <<inserts, tasks, open, pending, manager>>
        BY <2>4, ZenonT(60) DEF StopConnAgain, DeleteConn, ConnPc
      <3>2. /\ \A d \in Conn : d # c => conn'[d] = conn[d]
            /\ conn'[c].pc = pc /\ conn'[c].task = conn[c].task
        BY <3>1, ConnGoesTyped, ZenonT(60) DEF IInv
      <3> QED BY <3>1, <3>2, ZenonT(60) DEF KeepsPlaces, Live
    <2> QED BY <1>4, <2>1, <2>2, <2>3, <2>4, ZenonT(60) DEF DestroyerStep
  <1> QED BY <1>1, <1>2, <1>3, <1>4, ZenonT(60) DEF Next

(* The effect of the others on the tasks and the references to them.         *)
LEMMA DispatchSingleEffect ==
  ASSUME IInv, NEW j \in Job, DispatchSingle(j)
  PROVE  /\ Fresh \in TaskId \ DOMAIN tasks /\ inserts[j] = None
         /\ DOMAIN tasks' = DOMAIN tasks \cup {Fresh}
         /\ IsInjective(tasks'[Fresh].jobList) /\ Range(tasks'[Fresh].jobList) = {j}
         /\ \A u \in DOMAIN tasks : tasks'[u] = tasks[u]
         /\ inserts' = [inserts EXCEPT ![j] = Fresh]
         /\ thread' = [thread EXCEPT ![j] = "push"]
         /\ thread[j] = "new" /\ \A t \in DOMAIN tasks : j \notin JobsOf(t)
         /\ UNCHANGED <<answered, open, pending, manager, conn, shmem, free, working, destroyer>>
  <1>1. Fresh \in TaskId /\ Fresh \notin DOMAIN tasks
    BY FreshForSingle, ZenonT(60) DEF IInv, DispatchSingle
  <1>2. NewTask(FALSE, <<j>>) \in Task
    BY SMTT(60) DEF NewTask, Task
  <1>3. NewTask(FALSE, <<j>>).jobList = <<j>>
    BY ZenonT(60) DEF NewTask
  <1>4. IsInjective(<<j>>) /\ Range(<<j>>) = {j}
    BY SMTT(60) DEF IsInjective, Range
  <1>5. /\ DOMAIN tasks' = DOMAIN tasks \cup {Fresh} /\ tasks'[Fresh] = NewTask(FALSE, <<j>>)
        /\ \A u \in DOMAIN tasks : tasks'[u] = tasks[u]
    BY <1>1, <1>2, TaskAdded, ZenonT(60) DEF IInv, DispatchSingle
  <1>6. thread[j] = "new" /\ inserts[j] = None
    BY ZenonT(60) DEF DispatchSingle, MetaCall, IInv, PcInv
  <1>7. \A t \in DOMAIN tasks : j \notin JobsOf(t)
    BY <1>6, DispatchedIsNew, ZenonT(60) DEF IInv
  <1> QED BY <1>1, <1>3, <1>4, <1>5, <1>6, <1>7, ZenonT(60) DEF DispatchSingle, stopVars

LEMMA JoinBatchEffect ==
  ASSUME IInv, NEW j \in Job, JoinBatch(j)
  PROVE  LET t == open[Type(j)] IN
         /\ Type(j) \in BatchType /\ t \in DOMAIN tasks /\ t \in TaskId
         /\ thread[j] \in {"new", "batch"} /\ inserts[j] = None
         /\ \A u \in DOMAIN tasks : j \notin JobsOf(u)
         /\ DOMAIN tasks' = DOMAIN tasks
         /\ \A u \in DOMAIN tasks : u # t => tasks'[u] = tasks[u]
         /\ IsInjective(tasks'[t].jobList) /\ Range(tasks'[t].jobList) = JobsOf(t) \cup {j}
         /\ inserts' = [inserts EXCEPT ![j] = IF JobsOf(t) = {} THEN t ELSE None]
         /\ thread' = [thread EXCEPT ![j] = IF JobsOf(t) = {} THEN "push" ELSE "returned"]
         /\ UNCHANGED <<answered, open, pending, manager, conn, shmem, free, working, destroyer>>
  <1> DEFINE t == open[Type(j)]
  <1>1. Type(j) \in BatchType /\ thread[j] \in {"new", "batch"}
    BY ZenonT(60) DEF JoinBatch, Dispatches, MetaCall, Batches
  <1>2. t \in DOMAIN tasks /\ t \in TaskId
    BY <1>1, ZenonT(60) DEF IInv, RefInv, TypeOK
  <1>3. \A u \in DOMAIN tasks : j \notin JobsOf(u)
    BY <1>1, DispatchedIsNew, ZenonT(60) DEF IInv
  <1>4. IsInjective(tasks[t].jobList)
    BY <1>2, ZenonT(60) DEF IInv, JobInv
  <1>5. tasks[t].jobList = <<>> <=> JobsOf(t) = {}
    BY <1>2, JobsTyped, ZenonT(60) DEF IInv
  <1>6. tasks' = [tasks EXCEPT ![t].jobList = Append(@, j)]
    BY ZenonT(60) DEF JoinBatch
  <1>7. inserts[j] = None
    BY <1>1, ZenonT(60) DEF IInv, PcInv
  <1>8. /\ inserts' = [inserts EXCEPT ![j] = IF JobsOf(t) = {} THEN t ELSE None]
        /\ thread' = [thread EXCEPT ![j] = IF JobsOf(t) = {} THEN "push" ELSE "returned"]
        /\ UNCHANGED <<answered, open, pending, manager, conn, shmem, free, working, destroyer>>
    BY <1>5, ZenonT(60) DEF JoinBatch, stopVars
  <1> HIDE DEF t
  <1>9. /\ DOMAIN tasks' = DOMAIN tasks
        /\ \A u \in DOMAIN tasks : u # t => tasks'[u] = tasks[u]
        /\ IsInjective(tasks'[t].jobList) /\ Range(tasks'[t].jobList) = JobsOf(t) \cup {j}
    BY <1>2, <1>3, <1>4, <1>6, TaskJoined, ZenonT(60) DEF IInv
  <1> QED BY <1>1, <1>2, <1>3, <1>7, <1>8, <1>9, ZenonT(60) DEF t

LEMMA PushTaskEffect ==
  ASSUME IInv, NEW j \in Job, PushTask(j)
  PROVE  /\ inserts[j] \in TaskId /\ inserts[j] # None
         /\ IsInjective(pending') /\ Range(pending') = Range(pending) \cup {inserts[j]}
         /\ inserts' = [inserts EXCEPT ![j] = None]
         /\ thread' = [thread EXCEPT ![j] = "returned"] /\ thread[j] = "push"
         /\ manager'.task = manager.task
         /\ UNCHANGED <<answered, open, tasks, conn, shmem, free, working, destroyer>>
  <1>1. inserts[j] \in TaskId /\ inserts[j] # None /\ thread[j] = "push"
    BY NoneIsNoTask, ZenonT(60) DEF PushTask, IInv, PcInv, TypeOK
  <1>2. IsInjective(pending) /\ inserts[j] \notin Range(pending)
    BY <1>1, ZenonT(60) DEF IInv, PlaceInv
  <1>3. IsInjective(pending') /\ Range(pending') = Range(pending) \cup {inserts[j]}
    BY <1>1, <1>2, AppendNew, SMTT(60) DEF PushTask, IInv, TypeOK
  <1>4. manager'.task = manager.task
    BY WakeManagerTyped, ZenonT(60) DEF PushTask, IInv
  <1> QED BY <1>1, <1>3, <1>4, ZenonT(60) DEF PushTask, stopVars

LEMMA PopTaskEffect ==
  ASSUME IInv, PopTask
  PROVE  /\ manager.task = None /\ manager'.task = Head(pending) /\ Head(pending) # None
         /\ Head(pending) \in Range(pending)
         /\ IsInjective(pending') /\ Range(pending') = Range(pending) \ {Head(pending)}
         /\ \/ /\ UNCHANGED <<open, tasks>>
               /\ \A b \in BatchType : open[b] # Head(pending)
            \/ \E b \in BatchType :
                /\ open[b] = Head(pending)
                /\ Fresh \in TaskId \ DOMAIN tasks
                /\ open' = [open EXCEPT ![b] = Fresh]
                /\ DOMAIN tasks' = DOMAIN tasks \cup {Fresh}
                /\ \A u \in DOMAIN tasks : tasks'[u] = tasks[u]
                /\ IsInjective(tasks'[Fresh].jobList) /\ Range(tasks'[Fresh].jobList) = {}
         /\ UNCHANGED <<answered, inserts, conn, shmem, free, working, destroyer>>
  <1>1. manager.task = None /\ manager'.task = Head(pending) /\ pending # <<>> /\ pending' = Tail(pending)
    BY ZenonT(60) DEF PopTask, TakeTask, IInv, PcInv, TypeOK
  <1>2. /\ Head(pending) \in TaskId /\ Head(pending) \in Range(pending)
        /\ IsInjective(pending') /\ Range(pending') = Range(pending) \ {Head(pending)}
    BY <1>1, TailDrops, ZenonT(60) DEF IInv, TypeOK, PlaceInv
  <1>3. ASSUME NEW b \in BatchType, open[b] = Head(pending), Reopen(b)
        PROVE  /\ Fresh \in TaskId \ DOMAIN tasks
               /\ open' = [open EXCEPT ![b] = Fresh]
               /\ DOMAIN tasks' = DOMAIN tasks \cup {Fresh}
               /\ \A u \in DOMAIN tasks : tasks'[u] = tasks[u]
               /\ IsInjective(tasks'[Fresh].jobList) /\ Range(tasks'[Fresh].jobList) = {}
    <2>1. Fresh \in TaskId /\ Fresh \notin DOMAIN tasks
      BY <1>1, <1>3, FreshForReopen, ZenonT(60) DEF IInv
    <2>2. NewTask(TRUE, <<>>) \in Task /\ NewTask(TRUE, <<>>).jobList = <<>>
      BY SMTT(60) DEF NewTask, Task
    <2>3. IsInjective(<<>>) /\ Range(<<>>) = {}
      BY SMTT(60) DEF IsInjective, Range
    <2> QED BY <1>3, <2>1, <2>2, <2>3, TaskAdded, ZenonT(60) DEF Reopen, IInv
  <1>4. \/ /\ UNCHANGED <<open, tasks>>
           /\ \A b \in BatchType : open[b] # Head(pending)
        \/ \E b \in BatchType : open[b] = Head(pending) /\ Reopen(b)
    BY ZenonT(60) DEF PopTask, IsOpen
  <1>5. UNCHANGED <<answered, inserts, conn, shmem, free, working, destroyer>>
    BY ZenonT(60) DEF PopTask, TakeTask, stopVars
  <1> QED BY <1>1, <1>2, <1>3, <1>4, <1>5, NoneIsNoTask, ZenonT(60)

(* The jobs of a task after a step.                                          *)
NewJobs(t) == Range(tasks'[t].jobList)

(* OpenInv after a step, in terms of the values after it.                    *)
LEMMA OpenIntro ==
  ASSUME \A a, b \in BatchType : open'[a] = open'[b] => a = b,
         \A b \in BatchType : open'[b] # manager'.task,
         \A b \in BatchType, c \in Conn : Live(c)' => open'[b] # conn'[c].task,
         \A t \in DOMAIN tasks' : NewJobs(t) = {} => \E b \in BatchType : open'[b] = t,
         \A j \in Job : inserts'[j] # None => NewJobs(inserts'[j]) # {},
         \A t \in Range(pending') : NewJobs(t) # {},
         manager'.task # None => NewJobs(manager'.task) # {},
         \A c \in Conn : Live(c)' => NewJobs(conn'[c].task) # {}
  PROVE  OpenInv'
  BY ZenonT(60) DEF OpenInv, JobsOf, NewJobs, Live

-----------------------------------------------------------------------------
(* References and places                                                     *)

LEMMA DispatchSinglePlaces ==
  ASSUME IInv, NEW j \in Job, DispatchSingle(j)
  PROVE  RefInv' /\ PlaceInv' /\ OpenInv'
  <1> DEFINE n == Fresh
  <1>1. /\ n \notin DOMAIN tasks /\ DOMAIN tasks' = DOMAIN tasks \cup {n} /\ n # None
        /\ \A u \in DOMAIN tasks : NewJobs(u) = JobsOf(u)
        /\ NewJobs(n) = {j}
        /\ inserts'[j] = n /\ \A i \in Job : i # j => inserts'[i] = inserts[i]
        /\ UNCHANGED <<open, pending, manager, conn>>
    <2>1. /\ n \in TaskId \ DOMAIN tasks /\ DOMAIN tasks' = DOMAIN tasks \cup {n}
          /\ Range(tasks'[n].jobList) = {j}
          /\ \A u \in DOMAIN tasks : tasks'[u] = tasks[u]
          /\ inserts' = [inserts EXCEPT ![j] = n]
          /\ UNCHANGED <<open, pending, manager, conn>>
      BY DispatchSingleEffect, ZenonT(60)
    <2>2. inserts \in [Job -> TaskId \cup {None}]
      BY ZenonT(60) DEF IInv, TypeOK
    <2> HIDE DEF n
    <2> QED BY <2>1, <2>2, NoneIsNoTask, ZenonT(60) DEF JobsOf, NewJobs
  <1>2. RefInv /\ PlaceInv /\ OpenInv
    BY ZenonT(60) DEF IInv
  <1> HIDE DEF n
  <1>3. RefInv'
    BY <1>1, <1>2, ZenonT(60) DEF RefInv, Live
  <1>4. PlaceInv'
    BY <1>1, <1>2, SMTT(60) DEF RefInv, PlaceInv, Live
  <1>5. OpenInv'
    <2>1. \A i \in Job : inserts'[i] # None => NewJobs(inserts'[i]) # {}
      BY <1>1, <1>2, SMTT(60) DEF RefInv, OpenInv
    <2>2. \A u \in DOMAIN tasks' : NewJobs(u) = {} => \E b \in BatchType : open[b] = u
      BY <1>1, <1>2, ZenonT(60) DEF OpenInv
    <2>3. /\ \A u \in Range(pending) : NewJobs(u) # {}
          /\ manager.task # None => NewJobs(manager.task) # {}
          /\ \A c \in Conn : Live(c) => NewJobs(conn[c].task) # {}
      BY <1>1, <1>2, SMTT(60) DEF RefInv, OpenInv
    <2>4. /\ \A a, b \in BatchType : open'[a] = open'[b] => a = b
          /\ \A b \in BatchType : open'[b] # manager'.task
          /\ \A b \in BatchType, c \in Conn : Live(c)' => open'[b] # conn'[c].task
      BY <1>1, <1>2, ZenonT(60) DEF OpenInv, Live
    <2>5. /\ \A u \in DOMAIN tasks' : NewJobs(u) = {} => \E b \in BatchType : open'[b] = u
          /\ \A u \in Range(pending') : NewJobs(u) # {}
          /\ manager'.task # None => NewJobs(manager'.task) # {}
          /\ \A c \in Conn : Live(c)' => NewJobs(conn'[c].task) # {}
      BY <1>1, <2>2, <2>3, ZenonT(60) DEF Live
    <2> QED BY <2>1, <2>4, <2>5, OpenIntro, ZenonT(60)
  <1> QED BY <1>3, <1>4, <1>5, ZenonT(60)

LEMMA JoinBatchPlaces ==
  ASSUME IInv, NEW j \in Job, JoinBatch(j)
  PROVE  RefInv' /\ PlaceInv' /\ OpenInv'
  <1> DEFINE t == open[Type(j)]
  <1>1. /\ Type(j) \in BatchType /\ t \in DOMAIN tasks /\ t # None
        /\ DOMAIN tasks' = DOMAIN tasks /\ inserts[j] = None
        /\ \A u \in DOMAIN tasks : u # t => NewJobs(u) = JobsOf(u)
        /\ NewJobs(t) = JobsOf(t) \cup {j}
        /\ inserts'[j] = IF JobsOf(t) = {} THEN t ELSE None
        /\ \A i \in Job : i # j => inserts'[i] = inserts[i]
        /\ UNCHANGED <<open, pending, manager, conn>>
    <2>1. /\ Type(j) \in BatchType /\ t \in DOMAIN tasks /\ t \in TaskId
          /\ DOMAIN tasks' = DOMAIN tasks /\ inserts[j] = None
          /\ \A u \in DOMAIN tasks : u # t => tasks'[u] = tasks[u]
          /\ Range(tasks'[t].jobList) = JobsOf(t) \cup {j}
          /\ inserts' = [inserts EXCEPT ![j] = IF JobsOf(t) = {} THEN t ELSE None]
          /\ UNCHANGED <<open, pending, manager, conn>>
      BY JoinBatchEffect, ZenonT(60)
    <2>2. inserts \in [Job -> TaskId \cup {None}]
      BY ZenonT(60) DEF IInv, TypeOK
    <2> HIDE DEF t
    <2> QED BY <2>1, <2>2, NoneIsNoTask, ZenonT(60) DEF JobsOf, NewJobs
  <1>2. RefInv /\ PlaceInv /\ OpenInv
    BY ZenonT(60) DEF IInv
  <1>3. /\ \A b \in BatchType : open[b] = t => b = Type(j)
        /\ t # manager.task /\ \A c \in Conn : Live(c) => t # conn[c].task
    BY <1>1, <1>2, ZenonT(60) DEF OpenInv
  <1>4. JobsOf(t) = {} => t \notin Range(pending) /\ \A i \in Job : inserts[i] # t
    BY <1>1, <1>2, ZenonT(60) DEF OpenInv
  <1> HIDE DEF t
  <1>5. RefInv'
    BY <1>1, <1>2, ZenonT(60) DEF RefInv, Live
  <1>6. PlaceInv'
    BY <1>1, <1>2, <1>3, <1>4, SMTT(60) DEF PlaceInv, Live
  <1>7. OpenInv'
    <2>1. \A u \in DOMAIN tasks : NewJobs(u) = {} => JobsOf(u) = {} /\ u # t
      BY <1>1, ZenonT(60)
    <2>2. \A u \in DOMAIN tasks : JobsOf(u) # {} \/ u = t => NewJobs(u) # {}
      BY <1>1, ZenonT(60)
    <2>3. \A i \in Job : inserts'[i] # None => NewJobs(inserts'[i]) # {}
      BY <1>1, <1>2, <2>2, ZenonT(60) DEF RefInv, OpenInv
    <2>4. /\ \A u \in Range(pending) : NewJobs(u) # {}
          /\ manager.task # None => NewJobs(manager.task) # {}
          /\ \A c \in Conn : Live(c) => NewJobs(conn[c].task) # {}
      BY <1>2, <2>2, ZenonT(60) DEF RefInv, OpenInv
    <2>5. /\ \A a, b \in BatchType : open'[a] = open'[b] => a = b
          /\ \A b \in BatchType : open'[b] # manager'.task
          /\ \A b \in BatchType, c \in Conn : Live(c)' => open'[b] # conn'[c].task
      BY <1>1, <1>2, ZenonT(60) DEF OpenInv, Live
    <2>6. /\ \A u \in DOMAIN tasks' : NewJobs(u) = {} => \E b \in BatchType : open'[b] = u
          /\ \A u \in Range(pending') : NewJobs(u) # {}
          /\ manager'.task # None => NewJobs(manager'.task) # {}
          /\ \A c \in Conn : Live(c)' => NewJobs(conn'[c].task) # {}
      BY <1>1, <1>2, <2>1, <2>4, ZenonT(60) DEF Live, OpenInv
    <2> QED BY <2>3, <2>5, <2>6, OpenIntro, ZenonT(60)
  <1> QED BY <1>5, <1>6, <1>7, ZenonT(60)

LEMMA PushTaskPlaces ==
  ASSUME IInv, NEW j \in Job, PushTask(j)
  PROVE  RefInv' /\ PlaceInv' /\ OpenInv'
  <1>1. /\ inserts[j] # None /\ IsInjective(pending')
        /\ Range(pending') = Range(pending) \cup {inserts[j]}
        /\ inserts'[j] = None /\ \A i \in Job : i # j => inserts'[i] = inserts[i]
        /\ manager'.task = manager.task
        /\ UNCHANGED <<open, tasks, conn>>
    BY PushTaskEffect, SMTT(60) DEF IInv, TypeOK
  <1>2. RefInv /\ PlaceInv /\ OpenInv
    BY ZenonT(60) DEF IInv
  <1>3. RefInv'
    BY <1>1, <1>2, ZenonT(60) DEF RefInv, Live
  <1>4. PlaceInv'
    <2>1. /\ \A c \in Conn : Live(c) => conn[c].task \notin Range(pending')
          /\ \A i \in Job : i # j /\ inserts[i] # None => inserts[i] \notin Range(pending')
          /\ manager.task \notin Range(pending')
      BY <1>1, <1>2, ZenonT(60) DEF PlaceInv
    <2> QED BY <1>1, <1>2, <2>1, SMTT(60) DEF PlaceInv, Live
  <1>5. OpenInv'
    BY <1>1, <1>2, SMTT(60) DEF RefInv, OpenInv, Live, JobsOf
  <1> QED BY <1>3, <1>4, <1>5, ZenonT(60)

LEMMA PopTaskPlaces ==
  ASSUME IInv, PopTask
  PROVE  RefInv' /\ PlaceInv' /\ OpenInv'
  <1> DEFINE h == Head(pending)
  <1>1. /\ manager.task = None /\ manager'.task = h /\ h # None /\ h \in Range(pending)
        /\ IsInjective(pending') /\ Range(pending') = Range(pending) \ {h}
        /\ UNCHANGED <<inserts, conn>>
    BY PopTaskEffect, ZenonT(60)
  <1>2. RefInv /\ PlaceInv /\ OpenInv
    BY ZenonT(60) DEF IInv
  <1>3. \/ /\ UNCHANGED <<open, tasks>>
           /\ \A b \in BatchType : open[b] # h
        \/ \E b \in BatchType : \E n \in TaskId \ DOMAIN tasks :
            /\ open[b] = h
            /\ open'[b] = n /\ \A a \in BatchType : a # b => open'[a] = open[a]
            /\ DOMAIN tasks' = DOMAIN tasks \cup {n}
            /\ \A u \in DOMAIN tasks : tasks'[u] = tasks[u]
            /\ Range(tasks'[n].jobList) = {}
    <2>1. open \in [BatchType -> TaskId]
      BY ZenonT(60) DEF IInv, TypeOK
    <2>2. \/ /\ UNCHANGED <<open, tasks>>
             /\ \A b \in BatchType : open[b] # h
          \/ \E b \in BatchType :
              /\ open[b] = h
              /\ Fresh \in TaskId \ DOMAIN tasks
              /\ open' = [open EXCEPT ![b] = Fresh]
              /\ DOMAIN tasks' = DOMAIN tasks \cup {Fresh}
              /\ \A u \in DOMAIN tasks : tasks'[u] = tasks[u]
              /\ Range(tasks'[Fresh].jobList) = {}
      BY PopTaskEffect, ZenonT(60)
    <2> HIDE DEF h
    <2>3. ASSUME NEW b \in BatchType, open' = [open EXCEPT ![b] = Fresh]
          PROVE  open'[b] = Fresh /\ \A a \in BatchType : a # b => open'[a] = open[a]
      BY <2>1, <2>3, ZenonT(60)
    <2> QED BY <2>2, <2>3, ZenonT(60)
  <1> HIDE DEF h
  <1>4. PlaceInv'
    BY <1>1, <1>2, ZenonT(60) DEF PlaceInv, Live
  <1>5. CASE UNCHANGED <<open, tasks>> /\ \A b \in BatchType : open[b] # h
    <2>1. RefInv'
      BY <1>1, <1>2, <1>5, ZenonT(60) DEF RefInv, Live
    <2>2. OpenInv'
      BY <1>1, <1>2, <1>5, ZenonT(60) DEF OpenInv, Live, JobsOf
    <2> QED BY <1>4, <2>1, <2>2, ZenonT(60)
  <1>6. ASSUME NEW b \in BatchType, NEW n \in TaskId \ DOMAIN tasks,
               open[b] = h,
               open'[b] = n /\ \A a \in BatchType : a # b => open'[a] = open[a],
               DOMAIN tasks' = DOMAIN tasks \cup {n},
               \A u \in DOMAIN tasks : tasks'[u] = tasks[u],
               Range(tasks'[n].jobList) = {}
        PROVE  RefInv' /\ OpenInv'
    <2>1. n # None /\ (\A u \in DOMAIN tasks : NewJobs(u) = JobsOf(u)) /\ NewJobs(n) = {}
      BY <1>6, NoneIsNoTask, ZenonT(60) DEF JobsOf, NewJobs
    <2>2. RefInv'
      BY <1>1, <1>2, <1>6, ZenonT(60) DEF RefInv, Live
    <2>3. JobsOf(h) # {} /\ h \in DOMAIN tasks
      BY <1>1, <1>2, ZenonT(60) DEF OpenInv, RefInv
    <2>4. /\ \A c \in Conn : Live(c) => conn[c].task # n /\ conn[c].task # h /\ conn[c].task \in DOMAIN tasks
          /\ n # h /\ \A i \in Job : inserts[i] # None => inserts[i] \in DOMAIN tasks
          /\ Range(pending) \subseteq DOMAIN tasks
      BY <1>1, <1>2, <2>3, ZenonT(60) DEF RefInv, PlaceInv
    <2>5. /\ \A a, e \in BatchType : open'[a] = open'[e] => a = e
          /\ \A a \in BatchType : open'[a] # h
      BY <1>2, <1>6, <2>4, SMTT(60) DEF OpenInv, RefInv
    <2>6. \A t \in DOMAIN tasks' : NewJobs(t) = {} => \E a \in BatchType : open'[a] = t
      BY <1>2, <1>6, <2>1, <2>3, SMTT(60) DEF OpenInv
    <2>7. \A a \in BatchType, c \in Conn : Live(c) => open'[a] # conn[c].task
      BY <1>2, <1>6, <2>4, SMTT(60) DEF OpenInv
    <2>8. /\ \A i \in Job : inserts[i] # None => NewJobs(inserts[i]) # {}
          /\ \A u \in Range(pending) : NewJobs(u) # {}
          /\ NewJobs(h) # {}
          /\ \A c \in Conn : Live(c) => NewJobs(conn[c].task) # {}
      BY <1>2, <2>1, <2>3, <2>4, SMTT(60) DEF OpenInv
    <2>9. /\ \A i \in Job : inserts'[i] # None => NewJobs(inserts'[i]) # {}
          /\ \A u \in Range(pending') : NewJobs(u) # {}
          /\ NewJobs(manager'.task) # {}
          /\ \A c \in Conn : Live(c)' => NewJobs(conn'[c].task) # {}
      BY <1>1, <2>8, ZenonT(60) DEF Live
    <2>10. /\ \A a \in BatchType : open'[a] # manager'.task
           /\ \A a \in BatchType, c \in Conn : Live(c)' => open'[a] # conn'[c].task
      BY <1>1, <2>5, <2>7, ZenonT(60) DEF Live
    <2> QED BY <2>2, <2>5, <2>6, <2>9, <2>10, OpenIntro, ZenonT(60)
  <1> QED BY <1>3, <1>4, <1>5, <1>6, ZenonT(60)

LEMMA ExecPlaces ==
  ASSUME IInv, Exec
  PROVE  RefInv' /\ PlaceInv' /\ OpenInv'
  <1> DEFINE m == manager.conn
             t == manager.task
  <1>1. /\ m \in Conn /\ conn[m].task = None /\ t # None
        /\ \A d \in Conn : d # m => conn'[d] = conn[d]
        /\ conn'[m].task = t
        /\ manager'.task = None
        /\ UNCHANGED <<inserts, open, tasks, pending>>
    BY ExecEffect, ZenonT(60) DEF IInv, PcInv, Exec, jobVars
  <1>2. RefInv /\ PlaceInv /\ OpenInv
    BY ZenonT(60) DEF IInv
  <1>3. \A b \in BatchType : open[b] # None
    BY NoneIsNoTask, ZenonT(60) DEF IInv, TypeOK
  <1>4. None \notin Range(pending)
    BY NoneIsNoTask, <1>2, ZenonT(60) DEF RefInv, IInv, TypeOK
  <1>5. /\ \A d \in Conn : d # m => (Live(d)' <=> Live(d)) /\ conn'[d].task = conn[d].task
        /\ ~Live(m)
    BY <1>1, ZenonT(60) DEF Live
  <1> HIDE DEF m, t
  <1>6. RefInv'
    BY <1>1, <1>2, <1>5, ZenonT(60) DEF RefInv, t
  <1>7. PlaceInv'
    <2>1. /\ \A j \in Job : inserts[j] # t
          /\ t \notin Range(pending) /\ \A c \in Conn : Live(c) => conn[c].task # t
      BY <1>1, <1>2, ZenonT(60) DEF PlaceInv, t
    <2>2. /\ \A j \in Job, c \in Conn : Live(c)' => inserts[j] # conn'[c].task
          /\ \A c \in Conn : Live(c)' => conn'[c].task \notin Range(pending)
      BY <1>1, <1>2, <1>5, <2>1, SMTT(60) DEF PlaceInv
    <2>3. \A c, d \in Conn : Live(c)' /\ Live(d)' /\ conn'[c].task = conn'[d].task => c = d
      BY <1>1, <1>2, <1>5, <2>1, SMTT(60) DEF PlaceInv
    <2>4. \A c \in Conn : Live(c)' => conn'[c].task # None
      BY ZenonT(60) DEF Live
    <2> QED BY <1>1, <1>2, <1>4, <2>2, <2>3, <2>4, ZenonT(60) DEF PlaceInv
  <1>8. OpenInv'
    BY <1>1, <1>2, <1>3, <1>5, SMTT(60) DEF OpenInv, JobsOf, t
  <1> QED BY <1>6, <1>7, <1>8, ZenonT(60)

LEMMA DeleteTaskPlaces ==
  ASSUME IInv, NEW c \in Conn, DeleteTask(c)
  PROVE  RefInv' /\ PlaceInv' /\ OpenInv'
  <1> DEFINE t == conn[c].task
  <1>1. /\ DOMAIN tasks' = DOMAIN tasks \ {t} /\ \A u \in DOMAIN tasks : u # t => NewJobs(u) = JobsOf(u)
        /\ \A d \in Conn : d # c => conn'[d] = conn[d]
        /\ conn'[c].pc = "clear" /\ conn[c].pc = "delete"
        /\ UNCHANGED <<inserts, open, pending, manager>>
    <2>1. DOMAIN tasks' = DOMAIN tasks \ {t} /\ \A u \in DOMAIN tasks : u # t => tasks'[u] = tasks[u]
      BY TaskDeleted, ZenonT(60) DEF DeleteTask, IInv
    <2>2. /\ conn[c].pc = "delete" /\ conn'[c].pc = "clear"
          /\ \A d \in Conn : d # c => conn'[d] = conn[d]
      BY ConnGoesTyped, ZenonT(60) DEF DeleteTask, IInv, ConnPc
    <2>3. UNCHANGED <<inserts, open, pending, manager>>
      BY ZenonT(60) DEF DeleteTask, jobVars
    <2> QED BY <2>1, <2>2, <2>3, ZenonT(60) DEF JobsOf, NewJobs
  <1>2. Live(c) /\ ~Live(c)' /\ \A d \in Conn : d # c => (Live(d)' <=> Live(d))
    BY <1>1, ZenonT(60) DEF Live, IInv, PcInv
  <1>3. RefInv /\ PlaceInv /\ OpenInv
    BY ZenonT(60) DEF IInv
  <1>4. /\ \A b \in BatchType : open[b] # t
        /\ \A j \in Job : inserts[j] # t
        /\ t \notin Range(pending) /\ manager.task # t
        /\ \A d \in Conn : d # c /\ Live(d) => conn[d].task # t
    BY <1>2, <1>3, ZenonT(60) DEF PlaceInv, OpenInv
  <1> HIDE DEF t
  <1>5. RefInv'
    BY <1>1, <1>2, <1>3, <1>4, ZenonT(60) DEF RefInv
  <1>6. PlaceInv'
    BY <1>1, <1>2, <1>3, SMTT(60) DEF PlaceInv
  <1>7. OpenInv'
    <2>1. /\ \A j \in Job : inserts[j] # None => NewJobs(inserts[j]) # {}
          /\ \A u \in Range(pending) : NewJobs(u) # {}
          /\ manager.task # None => NewJobs(manager.task) # {}
          /\ \A d \in Conn : d # c /\ Live(d) => NewJobs(conn[d].task) # {}
      <3>1. /\ \A j \in Job : inserts[j] # None => inserts[j] \in DOMAIN tasks \ {t} /\ JobsOf(inserts[j]) # {}
            /\ \A u \in Range(pending) : u \in DOMAIN tasks \ {t} /\ JobsOf(u) # {}
            /\ manager.task # None => manager.task \in DOMAIN tasks \ {t} /\ JobsOf(manager.task) # {}
            /\ \A d \in Conn : d # c /\ Live(d) => conn[d].task \in DOMAIN tasks \ {t} /\ JobsOf(conn[d].task) # {}
        BY <1>3, <1>4, ZenonT(60) DEF RefInv, OpenInv
      <3> QED BY <1>1, <3>1, ZenonT(60)
    <2>2. \A u \in DOMAIN tasks' : NewJobs(u) = {} => \E b \in BatchType : open'[b] = u
      BY <1>1, <1>3, ZenonT(60) DEF OpenInv
    <2>3. /\ \A a, b \in BatchType : open'[a] = open'[b] => a = b
          /\ \A b \in BatchType : open'[b] # manager'.task
      BY <1>1, <1>3, ZenonT(60) DEF OpenInv
    <2>4. \A d \in Conn : Live(d)' =>
            /\ NewJobs(conn'[d].task) # {}
            /\ \A b \in BatchType : open'[b] # conn'[d].task
      <3>1. \A d \in Conn : Live(d)' => d # c /\ Live(d) /\ conn'[d].task = conn[d].task
        BY <1>1, <1>2, ZenonT(60)
      <3>2. \A d \in Conn : Live(d) => \A b \in BatchType : open'[b] # conn[d].task
        BY <1>1, <1>3, ZenonT(60) DEF OpenInv
      <3> QED BY <2>1, <3>1, <3>2, ZenonT(60)
    <2>5. /\ \A j \in Job : inserts'[j] # None => NewJobs(inserts'[j]) # {}
          /\ \A u \in Range(pending') : NewJobs(u) # {}
          /\ manager'.task # None => NewJobs(manager'.task) # {}
      BY <1>1, <2>1, ZenonT(60)
    <2> QED BY <2>2, <2>3, <2>4, <2>5, OpenIntro, ZenonT(60)
  <1> QED BY <1>5, <1>6, <1>7, ZenonT(60)

(* Every step keeps the references alive and each task in one place.         *)
LEMMA PlacesStep ==
  ASSUME IInv, Next
  PROVE  RefInv' /\ PlaceInv' /\ OpenInv'
  <1>1. CASE KeepsPlaces
    <2>1. RefInv'
      BY <1>1, ZenonT(60) DEF IInv, KeepsPlaces, RefInv
    <2>2. PlaceInv'
      BY <1>1, ZenonT(60) DEF IInv, KeepsPlaces, PlaceInv
    <2>3. OpenInv'
      BY <1>1, SMTT(60) DEF IInv, KeepsPlaces, OpenInv, JobsOf
    <2> QED BY <2>1, <2>2, <2>3, ZenonT(60)
  <1> QED
    BY <1>1, OtherStepsKeepPlaces, DispatchSinglePlaces, JoinBatchPlaces, PushTaskPlaces, PopTaskPlaces,
       ExecPlaces, DeleteTaskPlaces, ZenonT(60) DEF MovesTask

-----------------------------------------------------------------------------
(* Where the threads are                                                     *)

LEMMA WokenAreAsleep ==
  ASSUME NEW X, NEW R \in Woken(X)
  PROVE  R \subseteq X
  BY ZenonT(60) DEF Woken

(* Who waits for room in a batch goes on, who waits for room in the queue    *)
(* pushes; nobody else moves.                                                *)
LEMMA PopTaskWakes ==
  ASSUME IInv, PopTask, NEW j \in Job
  PROVE  \/ thread'[j] = thread[j]
         \/ thread[j] = "sleep_batch" /\ thread'[j] = "batch"
         \/ thread[j] = "sleep_pending" /\ thread'[j] = "push"
  <1>1. PICK R, S : /\ R = {} \/ \E b \in BatchType : R \in Woken(Asleep("sleep_batch", b))
                    /\ S \in Woken(SleepOnPending) /\ WakeJobs(R, S)
    BY ZenonT(60) DEF PopTask
  <1>2. /\ \A i \in R : i \in Job /\ thread[i] = "sleep_batch"
        /\ \A i \in S : i \in Job /\ thread[i] = "sleep_pending"
    BY <1>1, WokenAreAsleep, ZenonT(60) DEF Asleep, SleepOnPending
  <1> QED BY <1>1, <1>2, ZenonT(60) DEF WakeJobs

(* A step that is no thread's of a job and not the manager's pop.            *)
LEMMA OthersLeaveJobs ==
  ASSUME Next
  PROVE  (\E j \in Job : JobStep(j)) \/ PopTask \/ UNCHANGED <<inserts, thread>>
  <1> USE DEF jobVars
  <1>1. CASE ManagerStep
    BY <1>1, ZenonT(60) DEF ManagerStep, GetPGConnection, ManagerSleeps, ManagerStops, ExecWaits, Exec
  <1>2. ASSUME NEW c \in Conn, ConnStep(c)
        PROVE  UNCHANGED <<inserts, thread>>
    BY <1>2, ZenonT(60) DEF ConnStep, WorkerSleeps, WorkerStops, SendBatch, SendSingle, CopyParams, ThrowNoMemory,
                BackendReplies, BackendFails, CommitFails, ThrowMissingReply, Throws, FreeParam,
                AnswerBatch, AnswerSingle, Answer, ReaddWorkingPGConnection, DeleteTask, ClearTask
  <1>3. CASE DestroyerStep
    BY <1>3, ZenonT(60) DEF DestroyerStep, Stop, StopConns, JoinManager, StopConnAgain, DeleteConn
  <1> QED BY <1>1, <1>2, <1>3, ZenonT(60) DEF Next

LEMMA JobPcStep ==
  ASSUME IInv, Next, NEW j \in Job
  PROVE  inserts'[j] # None <=> thread'[j] \in {"push", "sleep_pending"}
  <1>0. /\ inserts[j] # None <=> thread[j] \in {"push", "sleep_pending"}
        /\ thread \in [Job -> ThreadPc] /\ inserts \in [Job -> TaskId \cup {None}]
    BY ZenonT(60) DEF IInv, PcInv, TypeOK
  <1> USE DEF jobVars, stopVars
  <1>1. ASSUME NEW i \in Job, JobStep(i)
        PROVE  inserts'[j] # None <=> thread'[j] \in {"push", "sleep_pending"}
    <2>1. CASE DispatchSingle(i)
      BY <1>0, <2>1, DispatchSingleEffect, NoneIsNoTask, SMTT(60)
    <2>2. CASE BatchFull(i)
      BY <1>0, <2>2, ZenonT(60) DEF BatchFull, Dispatches, MetaCall
    <2>3. CASE JoinBatch(i)
      <3> DEFINE t == open[Type(i)]
      <3>1. /\ t \in TaskId /\ inserts' = [inserts EXCEPT ![i] = IF JobsOf(t) = {} THEN t ELSE None]
            /\ thread' = [thread EXCEPT ![i] = IF JobsOf(t) = {} THEN "push" ELSE "returned"]
        BY <2>3, JoinBatchEffect, ZenonT(60)
      <3>2. t # None
        BY <3>1, NoneIsNoTask, ZenonT(60)
      <3> HIDE DEF t
      <3> QED BY <1>0, <3>1, <3>2, ZenonT(60)
    <2>4. CASE PendingFull(i)
      BY <1>0, <2>4, ZenonT(60) DEF PendingFull
    <2>5. CASE PushTask(i)
      BY <1>0, <2>5, ZenonT(60) DEF PushTask
    <2> QED BY <1>1, <2>1, <2>2, <2>3, <2>4, <2>5, ZenonT(60) DEF JobStep
  <1>2. CASE PopTask
    <2>1. inserts' = inserts
      BY <1>2, PopTaskEffect, ZenonT(60)
    <2> QED BY <1>0, <1>2, <2>1, PopTaskWakes, ZenonT(60)
  <1>3. CASE UNCHANGED <<inserts, thread>>
    BY <1>0, <1>3, ZenonT(60)
  <1>4. (\E i \in Job : JobStep(i)) \/ PopTask \/ UNCHANGED <<inserts, thread>>
    BY OthersLeaveJobs, ZenonT(60)
  <1> QED BY <1>1, <1>2, <1>3, <1>4, ZenonT(60)

LEMMA ManagerPcStep ==
  ASSUME IInv, Next
  PROVE  /\ manager'.task # None <=> manager'.pc \in {"exec", "sleep_exec"}
         /\ manager'.pc \in {"wait", "asleep", "exec", "sleep_exec"} => manager'.conn \in Conn
  <1>0. /\ manager.task # None <=> manager.pc \in {"exec", "sleep_exec"}
        /\ manager.pc \in {"wait", "asleep", "exec", "sleep_exec"} => manager.conn \in Conn
        /\ manager \in ManagerType
    BY ZenonT(60) DEF IInv, PcInv, TypeOK, ManagerType
  <1>1. ASSUME NEW j \in Job, JobStep(j), ~ UNCHANGED manager
        PROVE  manager' = WakeManager("asleep")
    BY <1>1, ZenonT(60) DEF JobStep, DispatchSingle, BatchFull, JoinBatch, PendingFull, PushTask
  <1>2. manager' = WakeManager("asleep") =>
            /\ manager'.task # None <=> manager'.pc \in {"exec", "sleep_exec"}
            /\ manager'.pc \in {"wait", "asleep", "exec", "sleep_exec"} => manager'.conn \in Conn
    BY <1>0, WakeManagerTyped, SMTT(60) DEF IInv
  <1>3. CASE ManagerStep
    <2>1. CASE GetPGConnection
      <3>1. free # <<>> => Head(free) \in Conn
        BY SMTT(60) DEF IInv, TypeOK
      <3> QED BY <1>0, <2>1, <3>1, ZenonT(60) DEF GetPGConnection, ManagerType
    <2>2. CASE ManagerSleeps \/ ManagerStops \/ ExecWaits
      BY <1>0, <2>2, ZenonT(60) DEF ManagerSleeps, ManagerStops, ExecWaits, ManagerType
    <2>3. CASE PopTask
      <3>1. manager' = [manager EXCEPT !.pc = "exec", !.task = Head(pending)] /\ manager.pc = "wait"
        BY <2>3, ZenonT(60) DEF PopTask, TakeTask
      <3>2. Head(pending) # None
        BY <2>3, PopTaskEffect, ZenonT(60)
      <3> QED BY <1>0, <3>1, <3>2, ZenonT(60) DEF ManagerType
    <2>4. CASE Exec
      BY <2>4, ZenonT(60) DEF Exec
    <2> QED BY <1>3, <2>1, <2>2, <2>3, <2>4, ZenonT(60) DEF ManagerStep
  <1>4. ASSUME NEW c \in Conn, ConnStep(c)
        PROVE  /\ manager'.task # None <=> manager'.pc \in {"exec", "sleep_exec"}
               /\ manager'.pc \in {"wait", "asleep", "exec", "sleep_exec"} => manager'.conn \in Conn
    <2>1. CASE ReaddWorkingPGConnection(c)
      BY <1>0, <2>1, ZenonT(60) DEF ReaddWorkingPGConnection, ManagerType
    <2>2. CASE ClearTask(c)
      BY <1>0, <2>2, ZenonT(60) DEF ClearTask, ManagerType
    <2>3. CASE UNCHANGED manager
      BY <1>0, <2>3, ZenonT(60)
    <2>4. ReaddWorkingPGConnection(c) \/ ClearTask(c) \/ UNCHANGED manager
      BY <1>4, ZenonT(60) DEF ConnStep, WorkerSleeps, WorkerStops, SendBatch, SendSingle, CopyParams, ThrowNoMemory,
                  BackendReplies, BackendFails, CommitFails, ThrowMissingReply, Throws, FreeParam,
                  AnswerBatch, AnswerSingle, Answer, DeleteTask
    <2> QED BY <2>1, <2>2, <2>3, <2>4, ZenonT(60)
  <1>5. CASE DestroyerStep
    <2>1. UNCHANGED manager \/ manager' = WakeManager("asleep")
      BY <1>5, ZenonT(60) DEF DestroyerStep, Stop, StopConns, JoinManager, StopConnAgain, DeleteConn
    <2> QED BY <1>0, <1>2, <2>1, ZenonT(60)
  <1> QED BY <1>0, <1>1, <1>2, <1>3, <1>4, <1>5, ZenonT(60) DEF Next

(* What a connection may do in one step, seen by the others.                 *)
LEMMA ConnPcStep ==
  ASSUME IInv, Next, NEW d \in Conn
  PROVE  /\ conn'[d].pc \in {"sent", "result", "answer", "readd", "delete", "clear"} => conn'[d].task # None
         /\ conn'[d].result # "none" <=> conn'[d].pc \in {"result", "answer"}
         /\ conn'[d].pc = "deleted" => destroyer' \in {"delete", "done"}
  <1> DEFINE Good(r, z) ==
        /\ r.pc \in {"sent", "result", "answer", "readd", "delete", "clear"} => r.task # None
        /\ r.result # "none" <=> r.pc \in {"result", "answer"}
        /\ r.pc = "deleted" => z \in {"delete", "done"}
  <1>0. conn \in [Conn -> ConnType] /\ \A e \in Conn : Good(conn[e], destroyer)
    BY ZenonT(60) DEF IInv, PcInv, TypeOK, ConnType
  <1> USE DEF jobVars, stopVars
  <1>1. CASE conn'[d] = conn[d] /\ destroyer' = destroyer
    BY <1>0, <1>1, ZenonT(60)
  <1>2. ASSUME NEW j \in Job, JobStep(j)
        PROVE  UNCHANGED <<conn, destroyer>>
    BY <1>2, ZenonT(60) DEF JobStep, DispatchSingle, BatchFull, JoinBatch, PendingFull, PushTask
  <1>3. CASE ManagerStep
    <2>1. CASE Exec
      <3>1. manager.task # None /\ destroyer' = destroyer
        BY <2>1, ZenonT(60) DEF IInv, PcInv, Exec
      <3> QED BY <1>0, <2>1, <3>1, ExecEffect, ZenonT(60) DEF IInv
    <2>2. Exec \/ UNCHANGED <<conn, destroyer>>
      BY <1>3, ZenonT(60) DEF ManagerStep, GetPGConnection, ManagerSleeps, ManagerStops, ExecWaits, PopTask, TakeTask
    <2> QED BY <1>1, <2>1, <2>2, ZenonT(60)
  <1>4. ASSUME NEW c \in Conn, ConnStep(c)
        PROVE  Good(conn'[d], destroyer')
    <2>0. destroyer' = destroyer
      BY <1>4, ZenonT(60) DEF ConnStep, WorkerSleeps, WorkerStops, SendBatch, SendSingle, CopyParams, ThrowNoMemory,
                  BackendReplies, BackendFails, CommitFails, ThrowMissingReply, Throws, FreeParam,
                  AnswerBatch, AnswerSingle, Answer, DeleteTask, ReaddWorkingPGConnection, ClearTask
    <2>1. CASE WorkerSleeps(c) \/ WorkerStops(c)
      BY <1>0, <2>0, <2>1, ConnGoesTyped, SMTT(60) DEF IInv, WorkerSleeps, WorkerStops, ConnPc
    <2>2. CASE SendBatch(c) \/ SendSingle(c)
      BY <1>0, <2>0, <2>2, ConnGoesTyped, SMTT(60) DEF IInv, SendBatch, SendSingle, HasTask, CopyParams, ConnPc
    <2>3. CASE ThrowNoMemory(c) \/ ThrowMissingReply(c)
      BY <1>1, <2>0, <2>3, ZenonT(60) DEF ThrowNoMemory, ThrowMissingReply, Throws
    <2>4. CASE BackendReplies(c)
      <3>1. conn' = [conn EXCEPT ![c].pc = "result", ![c].result = "ok"] /\ conn[c].pc = "sent"
        BY <2>4, ZenonT(60) DEF BackendReplies
      <3>2. /\ \A e \in Conn : e # c => conn'[e] = conn[e]
            /\ conn'[c].pc = "result" /\ conn'[c].task = conn[c].task /\ conn'[c].result = "ok"
        BY <3>1, ResultTyped, ZenonT(60) DEF IInv
      <3> QED BY <1>0, <2>0, <3>1, <3>2, ZenonT(60)
    <2>5. CASE BackendFails(c) \/ CommitFails(c)
      BY <1>0, <2>0, <2>5, ResultTyped, SMTT(60) DEF IInv, BackendFails, CommitFails
    <2>6. CASE FreeParam(c)
      BY <1>0, <2>0, <2>6, ConnGoesTyped, SMTT(60) DEF IInv, FreeParam, ConnPc
    <2>7. CASE AnswerBatch(c) \/ AnswerSingle(c)
      BY <1>0, <2>0, <2>7, SMTT(60) DEF AnswerBatch, AnswerSingle, Answer, ConnType
    <2>8. CASE ReaddWorkingPGConnection(c)
      BY <1>0, <2>0, <2>8, ConnGoesTyped, SMTT(60) DEF IInv, ReaddWorkingPGConnection, ConnPc
    <2>9. CASE DeleteTask(c)
      BY <1>0, <2>0, <2>9, ConnGoesTyped, SMTT(60) DEF IInv, DeleteTask, ConnPc
    <2>10. CASE ClearTask(c)
      BY <1>0, <2>0, <2>10, ZenonT(60) DEF ClearTask, ConnType
    <2> QED BY <1>4, <2>1, <2>2, <2>3, <2>4, <2>5, <2>6, <2>7, <2>8, <2>9, <2>10, ZenonT(60) DEF ConnStep
  <1>5. CASE DestroyerStep
    <2>1. CASE Stop
      BY <1>0, <2>1, ZenonT(60) DEF Stop
    <2>2. CASE StopConns
      <3>1. /\ conn'[d].task = conn[d].task /\ conn'[d].result = conn[d].result
            /\ conn'[d].pc = conn[d].pc \/ (conn[d].pc = "asleep" /\ conn'[d].pc = "check")
        BY <2>2, ConnsStopped, ZenonT(60) DEF IInv
      <3>2. destroyer = "stop_conns" /\ destroyer' = "delete"
        BY <2>2, ZenonT(60) DEF StopConns
      <3> QED BY <1>0, <3>1, <3>2, ZenonT(60)
    <2>3. CASE JoinManager
      BY <1>0, <2>3, ZenonT(60) DEF JoinManager
    <2>4. ASSUME NEW c \in Conn, StopConnAgain(c) \/ DeleteConn(c)
          PROVE  Good(conn'[d], destroyer')
      BY <1>0, <2>4, ConnGoesTyped, SMTT(60) DEF IInv, StopConnAgain, DeleteConn, ConnPc
    <2> QED BY <1>5, <2>1, <2>2, <2>3, <2>4, ZenonT(60) DEF DestroyerStep
  <1> QED BY <1>1, <1>2, <1>3, <1>4, <1>5, ZenonT(60) DEF Next

LEMMA PcStep ==
  ASSUME IInv, Next
  PROVE  PcInv'
  BY JobPcStep, ManagerPcStep, ConnPcStep, ZenonT(60) DEF PcInv

-----------------------------------------------------------------------------
(* Jobs and answers                                                          *)

LEMMA JobStepJobs ==
  ASSUME IInv, NEW j \in Job, JobStep(j)
  PROVE  JobInv' /\ AnswerInv'
  <1>0. /\ JobInv /\ AnswerInv /\ thread \in [Job -> ThreadPc]
        /\ \A t \in DOMAIN tasks : JobsOf(t) \subseteq Job
    BY JobsTyped, ZenonT(60) DEF IInv, TypeOK
  <1>1. CASE DispatchSingle(j)
    <2> DEFINE n == Fresh
    <2>1. /\ n \notin DOMAIN tasks /\ DOMAIN tasks' = DOMAIN tasks \cup {n}
          /\ \A u \in DOMAIN tasks : tasks'[u] = tasks[u]
          /\ IsInjective(tasks'[n].jobList) /\ NewJobs(n) = {j}
          /\ \A u \in DOMAIN tasks : j \notin JobsOf(u)
          /\ thread' = [thread EXCEPT ![j] = "push"] /\ thread[j] = "new"
          /\ UNCHANGED <<answered, conn>>
      BY <1>1, DispatchSingleEffect, ZenonT(60) DEF NewJobs
    <2> HIDE DEF n
    <2>2. \A u \in DOMAIN tasks : NewJobs(u) = JobsOf(u)
      BY <2>1, ZenonT(60) DEF JobsOf, NewJobs
    <2>3. JobInv'
      <3>1. \A t \in DOMAIN tasks' : IsInjective(tasks'[t].jobList)
        BY <1>0, <2>1, ZenonT(60) DEF JobInv
      <3>2. \A t \in DOMAIN tasks' : \A i \in NewJobs(t) : thread'[i] \in {"push", "sleep_pending", "returned"}
        BY <1>0, <2>1, <2>2, ZenonT(60) DEF JobInv
      <3>3. \A t, u \in DOMAIN tasks' : t # u => NewJobs(t) \cap NewJobs(u) = {}
        BY <1>0, <2>1, <2>2, SMTT(60) DEF JobInv
      <3> QED BY <3>1, <3>2, <3>3, ZenonT(60) DEF JobInv, JobsOf, NewJobs
    <2>4. AnswerInv'
      <3>1. \A t \in DOMAIN tasks' : ~Done(t) => \A i \in NewJobs(t) : answered[i] = 0
        BY <1>0, <2>1, <2>2, ZenonT(60) DEF AnswerInv
      <3>2. \A i \in Job : thread'[i] \notin {"push", "sleep_pending", "returned"} => answered[i] = 0
        BY <1>0, <2>1, ZenonT(60) DEF AnswerInv
      <3> QED BY <1>0, <2>1, <3>1, <3>2, ZenonT(60) DEF AnswerInv, JobsOf, NewJobs, Done
    <2> QED BY <2>3, <2>4, ZenonT(60)
  <1>2. CASE JoinBatch(j)
    <2> DEFINE n == open[Type(j)]
    <2>1. /\ n \in DOMAIN tasks /\ DOMAIN tasks' = DOMAIN tasks
          /\ \A u \in DOMAIN tasks : u # n => tasks'[u] = tasks[u]
          /\ IsInjective(tasks'[n].jobList) /\ NewJobs(n) = JobsOf(n) \cup {j}
          /\ \A u \in DOMAIN tasks : j \notin JobsOf(u)
          /\ thread[j] \in {"new", "batch"}
          /\ \A i \in Job : i # j => thread'[i] = thread[i]
          /\ thread'[j] \in {"push", "returned"}
          /\ UNCHANGED <<answered, conn>>
      BY <1>0, <1>2, JoinBatchEffect, ZenonT(60) DEF NewJobs
    <2> HIDE DEF n
    <2>2. \A u \in DOMAIN tasks : u # n => NewJobs(u) = JobsOf(u)
      BY <2>1, ZenonT(60) DEF JobsOf, NewJobs
    <2>3. JobInv'
      <3>1. \A t \in DOMAIN tasks' : IsInjective(tasks'[t].jobList)
        BY <1>0, <2>1, ZenonT(60) DEF JobInv
      <3>2. \A t \in DOMAIN tasks' : \A i \in NewJobs(t) : thread'[i] \in {"push", "sleep_pending", "returned"}
        BY <1>0, <2>1, <2>2, SMTT(60) DEF JobInv
      <3>3. \A t, u \in DOMAIN tasks' : t # u => NewJobs(t) \cap NewJobs(u) = {}
        BY <1>0, <2>1, <2>2, SMTT(60) DEF JobInv
      <3> QED BY <3>1, <3>2, <3>3, ZenonT(60) DEF JobInv, JobsOf, NewJobs
    <2>4. AnswerInv'
      <3>1. \A t \in DOMAIN tasks' : ~Done(t) => \A i \in NewJobs(t) : answered[i] = 0
        BY <1>0, <2>1, <2>2, SMTT(60) DEF AnswerInv
      <3>2. \A i \in Job : thread'[i] \notin {"push", "sleep_pending", "returned"} => answered[i] = 0
        BY <1>0, <2>1, ZenonT(60) DEF AnswerInv
      <3> QED BY <1>0, <2>1, <3>1, <3>2, ZenonT(60) DEF AnswerInv, JobsOf, NewJobs, Done
    <2> QED BY <2>3, <2>4, ZenonT(60)
  <1>3. CASE BatchFull(j) \/ PendingFull(j) \/ PushTask(j)
    <2>1. /\ UNCHANGED <<answered, tasks, conn>>
          /\ \A i \in Job : i # j => thread'[i] = thread[i]
          /\ \/ thread[j] \in {"new", "batch"} /\ thread'[j] = "sleep_batch"
             \/ thread[j] = "push" /\ thread'[j] \in {"sleep_pending", "returned"}
      BY <1>0, <1>3, ZenonT(60) DEF BatchFull, PendingFull, PushTask, Dispatches, MetaCall
    <2>2. JobInv'
      BY <1>0, <2>1, ZenonT(60) DEF JobInv, JobsOf
    <2>3. AnswerInv'
      BY <1>0, <2>1, ZenonT(60) DEF AnswerInv, JobsOf, Done
    <2> QED BY <2>2, <2>3, ZenonT(60)
  <1> QED BY <1>1, <1>2, <1>3, ZenonT(60) DEF JobStep

LEMMA PopTaskJobs ==
  ASSUME IInv, PopTask
  PROVE  JobInv' /\ AnswerInv'
  <1>0. JobInv /\ AnswerInv /\ \A t \in DOMAIN tasks : JobsOf(t) \subseteq Job
    BY JobsTyped, ZenonT(60) DEF IInv
  <1>1. \A j \in Job : /\ thread[j] \in {"push", "sleep_pending", "returned"}
                             <=> thread'[j] \in {"push", "sleep_pending", "returned"}
    BY PopTaskWakes, ZenonT(60)
  <1>2. UNCHANGED <<answered, conn>>
    BY PopTaskEffect, ZenonT(60)
  <1>3. CASE UNCHANGED tasks
    BY <1>0, <1>1, <1>2, <1>3, ZenonT(60) DEF JobInv, AnswerInv, JobsOf, Done
  <1>4. ASSUME NEW n, n \notin DOMAIN tasks, DOMAIN tasks' = DOMAIN tasks \cup {n},
               \A u \in DOMAIN tasks : tasks'[u] = tasks[u],
               IsInjective(tasks'[n].jobList), NewJobs(n) = {}
        PROVE  JobInv' /\ AnswerInv'
    <2>1. \A u \in DOMAIN tasks : NewJobs(u) = JobsOf(u)
      BY <1>4, ZenonT(60) DEF JobsOf, NewJobs
    <2>2. JobInv'
      <3>1. \A t \in DOMAIN tasks' : IsInjective(tasks'[t].jobList)
        BY <1>0, <1>4, ZenonT(60) DEF JobInv
      <3>2. \A t \in DOMAIN tasks' : \A i \in NewJobs(t) : thread'[i] \in {"push", "sleep_pending", "returned"}
        BY <1>0, <1>1, <1>4, <2>1, ZenonT(60) DEF JobInv
      <3>3. \A t, u \in DOMAIN tasks' : t # u => NewJobs(t) \cap NewJobs(u) = {}
        BY <1>0, <1>4, <2>1, ZenonT(60) DEF JobInv
      <3> QED BY <3>1, <3>2, <3>3, ZenonT(60) DEF JobInv, JobsOf, NewJobs
    <2>3. AnswerInv'
      <3>1. \A t \in DOMAIN tasks' : ~Done(t) => \A i \in NewJobs(t) : answered[i] = 0
        BY <1>0, <1>4, <2>1, ZenonT(60) DEF AnswerInv
      <3> QED BY <1>0, <1>1, <1>2, <3>1, ZenonT(60) DEF AnswerInv, JobsOf, NewJobs, Done
    <2> QED BY <2>2, <2>3, ZenonT(60)
  <1>5. \/ UNCHANGED tasks
        \/ \E n : /\ n \notin DOMAIN tasks /\ DOMAIN tasks' = DOMAIN tasks \cup {n}
                  /\ \A u \in DOMAIN tasks : tasks'[u] = tasks[u]
                  /\ IsInjective(tasks'[n].jobList) /\ NewJobs(n) = {}
    BY PopTaskEffect, ZenonT(60) DEF NewJobs
  <1> QED BY <1>3, <1>4, <1>5, ZenonT(60)

LEMMA AnswerJobs ==
  ASSUME IInv, NEW c \in Conn, conn[c].pc = "answer", Answer(c)
  PROVE  JobInv' /\ AnswerInv'
  <1> DEFINE t == conn[c].task
  <1>1. /\ UNCHANGED <<tasks, thread>>
        /\ \A d \in Conn : d # c => conn'[d] = conn[d]
        /\ conn'[c].pc = "readd" /\ conn'[c].task = t
    BY SMTT(60) DEF Answer, IInv, TypeOK
  <1>2. JobInv /\ AnswerInv /\ \A u \in DOMAIN tasks : JobsOf(u) \subseteq Job
    BY JobsTyped, ZenonT(60) DEF IInv
  <1>3. Live(c) /\ t \in DOMAIN tasks
    BY ZenonT(60) DEF Live, IInv, PcInv, RefInv
  <1>4. ~Done(t)
    BY <1>3, ZenonT(60) DEF Done, Live, IInv, PlaceInv
  <1>5. \A j \in Job : answered'[j] = IF j \in JobsOf(t) THEN answered[j] + 1 ELSE answered[j]
    BY ZenonT(60) DEF Answer, SendAnswers, Jobs, JobsOf
  <1>6. \A j \in JobsOf(t) : j \in Job /\ answered[j] = 0
    BY <1>2, <1>3, <1>4, ZenonT(60) DEF AnswerInv
  <1>7. JobInv'
    BY <1>1, <1>2, ZenonT(60) DEF JobInv, JobsOf
  <1> HIDE DEF t
  <1>8. AnswerInv'
    <2>1. \A j \in Job : answered'[j] \in {0, 1}
      BY <1>2, <1>5, <1>6, SMTT(60) DEF AnswerInv
    <2>2. \A j \in Job : thread'[j] \notin {"push", "sleep_pending", "returned"} => answered'[j] = 0
      BY <1>1, <1>2, <1>3, <1>5, ZenonT(60) DEF AnswerInv, JobInv
    <2>3. \A u \in DOMAIN tasks' : ~Done(u)' => \A j \in JobsOf(u) : answered'[j] = 0
      <3> SUFFICES ASSUME NEW u \in DOMAIN tasks', ~Done(u)', NEW j \in JobsOf(u)
                   PROVE  answered'[j] = 0
        BY ZenonT(60)
      <3>1. u # t
        BY <1>1, ZenonT(60) DEF Done
      <3>2. ~Done(u)
        BY <1>1, ZenonT(60) DEF Done
      <3>3. j \in Job /\ j \notin JobsOf(t) /\ answered[j] = 0
        BY <1>1, <1>2, <1>3, <3>1, <3>2, ZenonT(60) DEF JobInv, AnswerInv
      <3> QED BY <1>5, <3>3, ZenonT(60)
    <2> QED BY <1>1, <2>1, <2>2, <2>3, ZenonT(60) DEF AnswerInv, JobsOf
  <1> QED BY <1>7, <1>8, ZenonT(60)

LEMMA DeleteTaskJobs ==
  ASSUME IInv, NEW c \in Conn, DeleteTask(c)
  PROVE  JobInv' /\ AnswerInv'
  <1> DEFINE t == conn[c].task
  <1>1. DOMAIN tasks' = DOMAIN tasks \ {t} /\ \A u \in DOMAIN tasks : u # t => tasks'[u] = tasks[u]
    BY TaskDeleted, ZenonT(60) DEF DeleteTask, IInv
  <1>2. /\ \A d \in Conn : d # c => conn'[d] = conn[d]
        /\ UNCHANGED <<thread, answered>>
    BY ConnGoesTyped, ZenonT(60) DEF DeleteTask, IInv, ConnPc, jobVars
  <1>3. JobInv /\ AnswerInv
    BY ZenonT(60) DEF IInv
  <1>4. \A u : Done(u) /\ u # t => Done(u)'
    BY <1>2, ZenonT(60) DEF Done
  <1> HIDE DEF t
  <1>5. \A u \in DOMAIN tasks' : NewJobs(u) = JobsOf(u)
    BY <1>1, ZenonT(60) DEF NewJobs, JobsOf
  <1>6. JobInv'
    BY <1>1, <1>2, <1>3, <1>5, ZenonT(60) DEF JobInv, JobsOf, NewJobs
  <1>7. AnswerInv'
    BY <1>1, <1>2, <1>3, <1>4, <1>5, ZenonT(60) DEF AnswerInv, JobsOf, NewJobs
  <1> QED BY <1>6, <1>7, ZenonT(60)

(* The other steps change neither the jobs of a task nor who is answered.    *)
KeepsAnswers ==
    /\ UNCHANGED <<thread, answered, tasks>>
    /\ \A t \in TaskId : Done(t)' <=> Done(t)

LEMMA OtherStepsKeepAnswers ==
  ASSUME IInv, Next
  PROVE  \/ KeepsAnswers
         \/ \E j \in Job : JobStep(j)
         \/ PopTask
         \/ \E c \in Conn : DeleteTask(c) \/ (conn[c].pc = "answer" /\ Answer(c))
  <1> USE DEF jobVars, stopVars
  <1>0. conn \in [Conn -> ConnType] /\ TypeOK
    BY ZenonT(60) DEF IInv, TypeOK, ConnType
  <1>1. CASE ManagerStep
    <2>1. CASE Exec
      <3>1. /\ manager.conn \in Conn /\ conn[manager.conn].task = None
            /\ conn[manager.conn].pc \notin {"readd", "delete"}
        BY <2>1, ExecEffect, ZenonT(60) DEF Exec, IInv, PcInv
      <3>2. conn'[manager.conn].pc \notin {"readd", "delete"}
            /\ \A d \in Conn : d # manager.conn => conn'[d] = conn[d]
        BY <2>1, <3>1, ExecEffect, ZenonT(60) DEF IInv
      <3> QED BY <2>1, <3>1, <3>2, ZenonT(60) DEF Exec, KeepsAnswers, Done
    <2>2. Exec \/ PopTask \/ UNCHANGED <<thread, answered, tasks, conn>>
      BY <1>1, ZenonT(60) DEF ManagerStep, GetPGConnection, ManagerSleeps, ManagerStops, ExecWaits
    <2> QED BY <2>1, <2>2, ZenonT(60) DEF KeepsAnswers, Done
  <1>2. ASSUME NEW c \in Conn, ConnStep(c)
        PROVE  KeepsAnswers \/ DeleteTask(c) \/ (conn[c].pc = "answer" /\ Answer(c))
    <2>1. ASSUME NEW pc \in ConnPc, ConnGoes(c, pc), UNCHANGED <<thread, answered, tasks>>,
                 conn[c].pc \in {"readd", "delete"} <=> pc \in {"readd", "delete"}
          PROVE  KeepsAnswers
      BY <1>0, <2>1, ConnGoesTyped, SMTT(60) DEF KeepsAnswers, Done
    <2>2. CASE WorkerSleeps(c)
      BY <2>1, <2>2, ZenonT(60) DEF WorkerSleeps, ConnPc
    <2>3. CASE WorkerStops(c)
      BY <2>1, <2>3, ZenonT(60) DEF WorkerStops, ConnPc
    <2>4. CASE SendBatch(c) \/ SendSingle(c)
      BY <2>1, <2>4, ZenonT(60) DEF SendBatch, SendSingle, HasTask, CopyParams, ConnPc
    <2>5. CASE ThrowNoMemory(c) \/ ThrowMissingReply(c)
      BY <2>5, ZenonT(60) DEF ThrowNoMemory, ThrowMissingReply, Throws, KeepsAnswers, Done
    <2>6. CASE BackendReplies(c)
      <3>1. conn' = [conn EXCEPT ![c].pc = "result", ![c].result = "ok"] /\ conn[c].pc = "sent"
        BY <2>6, ZenonT(60) DEF BackendReplies
      <3>2. /\ \A e \in Conn : e # c => conn'[e] = conn[e]
            /\ conn'[c].pc = "result" /\ conn'[c].task = conn[c].task /\ conn'[c].result = "ok"
        BY <1>0, <3>1, ResultTyped, ZenonT(60)
      <3> QED BY <2>6, <3>1, <3>2, ZenonT(60) DEF BackendReplies, KeepsAnswers, Done
    <2>7. CASE BackendFails(c) \/ CommitFails(c)
      <3>1. /\ conn' = [conn EXCEPT ![c].pc = "result", ![c].result = "error"] /\ conn[c].pc = "sent"
            /\ UNCHANGED <<thread, answered, tasks>>
        BY <2>7, ZenonT(60) DEF BackendFails, CommitFails
      <3>2. /\ \A e \in Conn : e # c => conn'[e] = conn[e]
            /\ conn'[c].pc = "result" /\ conn'[c].task = conn[c].task
        BY <1>0, <3>1, ResultTyped, ZenonT(60)
      <3> QED BY <3>1, <3>2, ZenonT(60) DEF KeepsAnswers, Done
    <2>8. CASE FreeParam(c)
      BY <2>1, <2>8, ZenonT(60) DEF FreeParam, ConnPc
    <2>9. CASE AnswerBatch(c) \/ AnswerSingle(c)
      BY <2>9, ZenonT(60) DEF AnswerBatch, AnswerSingle
    <2>10. CASE ReaddWorkingPGConnection(c)
      BY <2>1, <2>10, ZenonT(60) DEF ReaddWorkingPGConnection, ConnPc
    <2>11. CASE ClearTask(c)
      BY <1>0, <2>11, SMTT(60) DEF ClearTask, KeepsAnswers, Done, ConnType
    <2> QED BY <1>2, <2>2, <2>3, <2>4, <2>5, <2>6, <2>7, <2>8, <2>9, <2>10, <2>11, ZenonT(60) DEF ConnStep
  <1>3. CASE DestroyerStep
    <2>1. CASE Stop \/ JoinManager
      BY <2>1, ZenonT(60) DEF Stop, JoinManager, KeepsAnswers, Done
    <2>2. CASE StopConns
      BY <1>0, <2>2, ConnsStopped, ZenonT(60) DEF StopConns, KeepsAnswers, Done
    <2>3. ASSUME NEW c \in Conn, StopConnAgain(c) \/ DeleteConn(c)
          PROVE  KeepsAnswers
      BY <1>0, <2>3, ConnGoesTyped, ZenonT(60) DEF StopConnAgain, DeleteConn, ConnPc, KeepsAnswers, Done
    <2> QED BY <1>3, <2>1, <2>2, <2>3, ZenonT(60) DEF DestroyerStep
  <1> QED BY <1>1, <1>2, <1>3, ZenonT(60) DEF Next

LEMMA JobsStep ==
  ASSUME IInv, Next
  PROVE  JobInv' /\ AnswerInv'
  <1>1. CASE KeepsAnswers
    <2>1. UNCHANGED <<thread, answered, tasks>> /\ \A t \in DOMAIN tasks : Done(t)' <=> Done(t)
      BY <1>1, ZenonT(60) DEF IInv, TypeOK, KeepsAnswers
    <2>2. JobInv'
      BY <2>1, ZenonT(60) DEF IInv, JobInv, JobsOf
    <2>3. AnswerInv'
      BY <2>1, ZenonT(60) DEF IInv, AnswerInv, JobsOf
    <2> QED BY <2>2, <2>3, ZenonT(60)
  <1> QED
    BY <1>1, OtherStepsKeepAnswers, JobStepJobs, PopTaskJobs, DeleteTaskJobs, AnswerJobs, ZenonT(60)

-----------------------------------------------------------------------------
(* The destructor                                                            *)

(* While the manager holds a task there is a request without an answer.      *)
LEMMA JoinedHasNoTask ==
  ASSUME IInv, Joined
  PROVE  manager.pc \notin {"exec", "sleep_exec"}
  <1> SUFFICES ASSUME manager.pc \in {"exec", "sleep_exec"} PROVE FALSE
    BY ZenonT(60)
  <1> DEFINE t == manager.task
  <1>1. t # None /\ t \in DOMAIN tasks /\ JobsOf(t) # {}
    BY ZenonT(60) DEF IInv, PcInv, RefInv, OpenInv
  <1>2. ~Done(t)
    BY <1>1, ZenonT(60) DEF IInv, PlaceInv, Done, Live
  <1>3. PICK j \in JobsOf(t) : TRUE
    BY <1>1, ZenonT(60)
  <1>4. j \in Job
    BY <1>1, JobsTyped, ZenonT(60) DEF IInv
  <1>5. answered[j] = 0 /\ thread[j] # "new"
    BY <1>1, <1>2, ZenonT(60) DEF IInv, AnswerInv, JobInv
  <1> QED BY <1>4, <1>5, SMTT(60) DEF Joined

LEMMA StopStep ==
  ASSUME IInv, Next
  PROVE  StopInv'
  <1>0. StopInv /\ manager \in ManagerType
    BY ZenonT(60) DEF IInv, TypeOK, ManagerType
  <1> USE DEF jobVars, stopVars
  <1>1. ASSUME NEW j \in Job, JobStep(j)
        PROVE  StopInv'
    <2>1. UNCHANGED <<working, destroyer>> /\ (UNCHANGED manager \/ manager' = WakeManager("asleep"))
      BY <1>1, ZenonT(60) DEF JobStep, DispatchSingle, BatchFull, JoinBatch, PendingFull, PushTask
    <2> QED BY <1>0, <2>1, WakeManagerTyped, ZenonT(60) DEF IInv, StopInv
  <1>2. CASE ManagerStep
    <2>1. UNCHANGED <<working, destroyer>>
      BY <1>2, ZenonT(60) DEF ManagerStep, GetPGConnection, ManagerSleeps, ManagerStops, PopTask, TakeTask,
                  ExecWaits, Exec
    <2>2. manager'.pc \in {"exec", "sleep_exec"} => working \/ manager.pc \in {"exec", "sleep_exec"}
      BY <1>0, <1>2, ZenonT(60) DEF ManagerStep, GetPGConnection, ManagerSleeps, ManagerStops, PopTask, TakeTask,
                  ExecWaits, Exec, ManagerType
    <2> QED BY <1>0, <2>1, <2>2, ZenonT(60) DEF StopInv
  <1>3. ASSUME NEW c \in Conn, ConnStep(c)
        PROVE  StopInv'
    <2>1. UNCHANGED <<working, destroyer>>
      BY <1>3, ZenonT(60) DEF ConnStep, WorkerSleeps, WorkerStops, SendBatch, SendSingle, CopyParams, ThrowNoMemory,
                  BackendReplies, BackendFails, CommitFails, ThrowMissingReply, Throws, FreeParam,
                  AnswerBatch, AnswerSingle, Answer, DeleteTask, ReaddWorkingPGConnection, ClearTask
    <2>2. ReaddWorkingPGConnection(c) \/ ClearTask(c) \/ UNCHANGED manager
      BY <1>3, ZenonT(60) DEF ConnStep, WorkerSleeps, WorkerStops, SendBatch, SendSingle, CopyParams, ThrowNoMemory,
                  BackendReplies, BackendFails, CommitFails, ThrowMissingReply, Throws, FreeParam,
                  AnswerBatch, AnswerSingle, Answer, DeleteTask
    <2>3. manager'.pc \in {"exec", "sleep_exec"} => manager.pc \in {"exec", "sleep_exec"}
      BY <1>0, <2>2, ZenonT(60) DEF ReaddWorkingPGConnection, ClearTask, ManagerType
    <2> QED BY <1>0, <2>1, <2>3, ZenonT(60) DEF StopInv
  <1>4. CASE DestroyerStep
    <2>1. CASE Stop
      BY <2>1, JoinedHasNoTask, WakeManagerTyped, ZenonT(60) DEF IInv, Stop, StopInv
    <2>2. CASE ~Stop
      <3>1. UNCHANGED <<working, manager>> /\ destroyer # "none"
        BY <1>4, <2>2, ZenonT(60) DEF DestroyerStep, StopConns, JoinManager, StopConnAgain, DeleteConn
      <3> QED BY <1>0, <3>1, ZenonT(60) DEF StopInv
    <2> QED BY <2>1, <2>2, ZenonT(60)
  <1> QED BY <1>1, <1>2, <1>3, <1>4, ZenonT(60) DEF Next

-----------------------------------------------------------------------------
(* Shared memory                                                             *)

Executes(c) == conn[c].pc \in {"sent", "result", "answer"}
HasReply(c) ==
    conn[c].pc \in {"result", "answer"} /\ conn[c].result = "ok" /\ ~NoReply(Head(Jobs(c)))
BlockType == ({"param", "reply"} \X Conn) \cup ({"lost"} \X Nat)

(* A block per connection and use: P the connections with parameters, R the  *)
(* ones with a reply.                                                        *)
LEMMA AccountedByConn ==
  ASSUME NEW B \in SUBSET BlockType, NEW P \in SUBSET Conn, NEW R \in SUBSET Conn
  PROVE  B \ {b \in B : b[1] = "lost"} = {Param(c) : c \in P} \cup {Reply(c) : c \in R} <=>
            \A c \in Conn : (Param(c) \in B <=> c \in P) /\ (Reply(c) \in B <=> c \in R)
  <1>1. B \ {b \in B : b[1] = "lost"} = {b \in B : b \in {"param", "reply"} \X Conn}
    BY ZenonT(60) DEF BlockType
  <1>2. \A b \in {"param", "reply"} \X Conn : \E c \in Conn : b = Param(c) \/ b = Reply(c)
    BY SMTT(60) DEF Param, Reply
  <1>3. /\ \A c \in Conn : Param(c) \in {"param", "reply"} \X Conn /\ Reply(c) \in {"param", "reply"} \X Conn
        /\ \A c, d \in Conn : Param(c) # Reply(d)
        /\ \A c, d \in Conn : Param(c) = Param(d) => c = d
        /\ \A c, d \in Conn : Reply(c) = Reply(d) => c = d
    BY ZenonT(60) DEF Param, Reply
  <1>4. ASSUME B \ {b \in B : b[1] = "lost"} = {Param(c) : c \in P} \cup {Reply(c) : c \in R}, NEW c \in Conn
        PROVE  (Param(c) \in B <=> c \in P) /\ (Reply(c) \in B <=> c \in R)
    <2>1. /\ Param(c) \in B <=> Param(c) \in {Param(d) : d \in P} \cup {Reply(d) : d \in R}
          /\ Reply(c) \in B <=> Reply(c) \in {Param(d) : d \in P} \cup {Reply(d) : d \in R}
      BY <1>1, <1>3, <1>4, ZenonT(60)
    <2> QED BY <1>3, <2>1, ZenonT(60)
  <1>5. ASSUME \A c \in Conn : (Param(c) \in B <=> c \in P) /\ (Reply(c) \in B <=> c \in R)
        PROVE  B \ {b \in B : b[1] = "lost"} = {Param(c) : c \in P} \cup {Reply(c) : c \in R}
    BY <1>1, <1>2, <1>3, <1>5, SMTT(60)
  <1> QED BY <1>4, <1>5, ZenonT(60)

(* The jobs of a task that is executed stay what they are.                   *)
LEMMA ExecutedTaskStays ==
  ASSUME IInv, Next, NEW c \in Conn, Executes(c)
  PROVE  tasks'[conn[c].task] = tasks[conn[c].task]
  <1>1. Live(c) /\ conn[c].task \in DOMAIN tasks
    BY ZenonT(60) DEF Live, Executes, IInv, PcInv, RefInv
  <1>2. ASSUME NEW j \in Job, DispatchSingle(j)
        PROVE  tasks'[conn[c].task] = tasks[conn[c].task]
    BY <1>1, <1>2, DispatchSingleEffect, ZenonT(60)
  <1>3. ASSUME NEW j \in Job, JoinBatch(j)
        PROVE  tasks'[conn[c].task] = tasks[conn[c].task]
    <2>1. /\ Type(j) \in BatchType
          /\ \A u \in DOMAIN tasks : u # open[Type(j)] => tasks'[u] = tasks[u]
      BY <1>3, JoinBatchEffect, ZenonT(60)
    <2>2. open[Type(j)] # conn[c].task
      BY <1>1, <2>1, ZenonT(60) DEF IInv, OpenInv
    <2> QED BY <1>1, <2>1, <2>2, ZenonT(60)
  <1>4. CASE PopTask
    BY <1>1, <1>4, PopTaskEffect, ZenonT(60)
  <1>5. ASSUME NEW d \in Conn, DeleteTask(d)
        PROVE  tasks'[conn[c].task] = tasks[conn[c].task]
    <2>1. c # d /\ Live(d)
      BY <1>5, ZenonT(60) DEF DeleteTask, Executes, Live, IInv, PcInv
    <2>2. conn[c].task # conn[d].task
      BY <1>1, <2>1, ZenonT(60) DEF IInv, PlaceInv
    <2>3. tasks' = Delete(conn[d].task) /\ TypeOK
      BY <1>5, ZenonT(60) DEF DeleteTask, IInv
    <2> QED BY <1>1, <2>2, <2>3, TaskDeleted, ZenonT(60)
  <1>6. (\E j \in Job : PushTask(j)) \/ Exec \/ KeepsPlaces => tasks' = tasks
    BY ZenonT(60) DEF PushTask, Exec, KeepsPlaces
  <1> QED BY <1>2, <1>3, <1>4, <1>5, <1>6, OtherStepsKeepPlaces, ZenonT(60) DEF MovesTask

(* The steps that take or free no block.                                     *)
KeepsBlocks ==
    /\ UNCHANGED shmem
    /\ \A d \in Conn :
        /\ Executes(d)' <=> Executes(d)
        /\ Executes(d) => /\ conn'[d].pc = conn[d].pc /\ conn'[d].task = conn[d].task
                          /\ conn'[d].result = conn[d].result

UsesBlocks(c) ==
    SendBatch(c) \/ SendSingle(c) \/ BackendReplies(c) \/ BackendFails(c) \/ CommitFails(c)
    \/ FreeParam(c) \/ AnswerBatch(c) \/ AnswerSingle(c)

LEMMA OtherStepsKeepBlocks ==
  ASSUME IInv, Next
  PROVE  KeepsBlocks \/ \E c \in Conn : UsesBlocks(c)
  <1> USE DEF jobVars, stopVars
  <1>0. conn \in [Conn -> ConnType] /\ TypeOK
    BY ZenonT(60) DEF IInv, TypeOK, ConnType
  <1>1. ASSUME NEW j \in Job, JobStep(j)
        PROVE  UNCHANGED <<shmem, conn>>
    BY <1>1, ZenonT(60) DEF JobStep, DispatchSingle, BatchFull, JoinBatch, PendingFull, PushTask
  <1>2. CASE ManagerStep
    <2>1. CASE Exec
      <3>1. /\ manager.conn \in Conn /\ ~Executes(manager.conn)
        BY <2>1, ExecEffect, ZenonT(60) DEF Exec, IInv, PcInv, Executes
      <3>2. conn'[manager.conn].pc \notin {"sent", "result", "answer"}
            /\ \A d \in Conn : d # manager.conn => conn'[d] = conn[d]
        BY <2>1, <3>1, ExecEffect, ZenonT(60) DEF IInv, Executes
      <3> QED BY <2>1, <3>1, <3>2, ZenonT(60) DEF Exec, KeepsBlocks, Executes
    <2>2. Exec \/ UNCHANGED <<shmem, conn>>
      BY <1>2, ZenonT(60) DEF ManagerStep, GetPGConnection, ManagerSleeps, ManagerStops, PopTask, TakeTask, ExecWaits
    <2> QED BY <2>1, <2>2, ZenonT(60) DEF KeepsBlocks, Executes
  <1>3. ASSUME NEW c \in Conn, ConnStep(c), ~UsesBlocks(c)
        PROVE  KeepsBlocks
    <2>1. ASSUME NEW pc \in ConnPc \ {"sent", "result", "answer"}, ConnGoes(c, pc), ~Executes(c),
                 UNCHANGED shmem
          PROVE  KeepsBlocks
      BY <1>0, <2>1, ConnGoesTyped, ZenonT(60) DEF KeepsBlocks, Executes
    <2>2. CASE WorkerSleeps(c)
      BY <2>1, <2>2, ZenonT(60) DEF WorkerSleeps, ConnPc, Executes
    <2>3. CASE WorkerStops(c)
      BY <2>1, <2>3, ZenonT(60) DEF WorkerStops, ConnPc, Executes
    <2>4. CASE ThrowNoMemory(c) \/ ThrowMissingReply(c)
      BY <2>4, ZenonT(60) DEF ThrowNoMemory, ThrowMissingReply, Throws, KeepsBlocks, Executes
    <2>5. CASE ReaddWorkingPGConnection(c)
      BY <2>1, <2>5, ZenonT(60) DEF ReaddWorkingPGConnection, ConnPc, Executes
    <2>6. CASE DeleteTask(c)
      BY <2>1, <2>6, ZenonT(60) DEF DeleteTask, ConnPc, Executes
    <2>7. CASE ClearTask(c)
      BY <1>0, <2>7, ZenonT(60) DEF ClearTask, KeepsBlocks, Executes, ConnType
    <2> QED BY <1>3, <2>2, <2>3, <2>4, <2>5, <2>6, <2>7, ZenonT(60) DEF ConnStep, UsesBlocks
  <1>4. CASE DestroyerStep
    <2>1. CASE Stop \/ JoinManager
      BY <2>1, ZenonT(60) DEF Stop, JoinManager, KeepsBlocks, Executes
    <2>2. CASE StopConns
      BY <1>0, <2>2, ConnsStopped, ZenonT(60) DEF StopConns, KeepsBlocks, Executes
    <2>3. ASSUME NEW c \in Conn, StopConnAgain(c) \/ DeleteConn(c)
          PROVE  KeepsBlocks
      BY <1>0, <2>3, ConnGoesTyped, ZenonT(60) DEF StopConnAgain, DeleteConn, ConnPc, KeepsBlocks, Executes
    <2> QED BY <1>4, <2>1, <2>2, <2>3, ZenonT(60) DEF DestroyerStep
  <1>5. UNCHANGED <<shmem, conn>> => KeepsBlocks
    BY ZenonT(60) DEF KeepsBlocks, Executes
  <1> QED BY <1>1, <1>2, <1>3, <1>4, <1>5, ZenonT(60) DEF Next

(* The block of a lost reply is neither a parameter nor a reply.             *)
LEMMA BlocksDiffer ==
  /\ \A c \in Conn : Param(c) \in BlockType /\ Reply(c) \in BlockType
  /\ \A c, d \in Conn : Param(c) # Reply(d)
  /\ \A c, d \in Conn : (Param(c) = Param(d) => c = d) /\ (Reply(c) = Reply(d) => c = d)
  /\ \A n \in Nat : <<"lost", n>> \in BlockType /\ \A c \in Conn : Param(c) # <<"lost", n>> /\ Reply(c) # <<"lost", n>>
  BY ZenonT(60) DEF Param, Reply, BlockType

HadReply(c, pc, result) == pc \in {"result", "answer"} /\ result = "ok" /\ ~NoReply(Head(Jobs(c)))

LEMMA BlockStep ==
  ASSUME IInv, Next
  PROVE  BlockInv'
  <1>0. /\ conn \in [Conn -> ConnType] /\ TypeOK
        /\ shmem \subseteq BlockType /\ IsFiniteSet(shmem)
        /\ \A c \in Conn : /\ Param(c) \in shmem <=> conn[c].pc \in {"sent", "result"}
                           /\ Reply(c) \in shmem <=> HasReply(c)
    <2> DEFINE P == {c \in Conn : conn[c].pc \in {"sent", "result"}}
               R == {c \in Conn : HasReply(c)}
    <2>1. shmem \subseteq BlockType /\ IsFiniteSet(shmem) /\ ShmemAccounted
      BY ZenonT(60) DEF IInv, BlockInv, BlockType
    <2>2. shmem \ {b \in shmem : b[1] = "lost"} = {Param(c) : c \in P} \cup {Reply(c) : c \in R}
      BY <2>1, ZenonT(60) DEF ShmemAccounted, LostBlocks, HasReply
    <2>3. \A c \in Conn : (Param(c) \in shmem <=> c \in P) /\ (Reply(c) \in shmem <=> c \in R)
      <3> HIDE DEF P, R
      <3>1. P \in SUBSET Conn /\ R \in SUBSET Conn
        BY ZenonT(60) DEF P, R
      <3> QED BY <2>1, <2>2, <3>1, AccountedByConn, ZenonT(60)
    <2> QED BY <2>1, <2>3, ZenonT(60) DEF IInv, TypeOK, ConnType
  <1>1. SUFFICES /\ shmem' \subseteq BlockType /\ IsFiniteSet(shmem')
                 /\ \A d \in Conn : /\ Param(d) \in shmem' <=> conn'[d].pc \in {"sent", "result"}
                                    /\ Reply(d) \in shmem' <=> HasReply(d)'
    <2> DEFINE P == {c \in Conn : conn'[c].pc \in {"sent", "result"}}
               R == {c \in Conn : HasReply(c)'}
    <2>1. shmem' \ {b \in shmem' : b[1] = "lost"} = {Param(c) : c \in P} \cup {Reply(c) : c \in R}
      <3> HIDE DEF P, R
      <3>1. P \in SUBSET Conn /\ R \in SUBSET Conn /\ shmem' \in SUBSET BlockType
        BY <1>1, ZenonT(60) DEF P, R
      <3>2. \A c \in Conn : (Param(c) \in shmem' <=> c \in P) /\ (Reply(c) \in shmem' <=> c \in R)
        BY <1>1, ZenonT(60) DEF P, R
      <3> QED BY <1>1, <3>1, <3>2, AccountedByConn, ZenonT(60)
    <2>2. ShmemAccounted'
      BY <2>1, ZenonT(60) DEF ShmemAccounted, LostBlocks, HasReply, Param, Reply
    <2> QED BY <1>1, <2>2, ZenonT(60) DEF BlockInv, BlockType
  <1>2. ASSUME NEW d \in Conn, Executes(d), conn'[d].task = conn[d].task
        PROVE  HasReply(d)' <=> HadReply(d, conn'[d].pc, conn'[d].result)
    BY <1>2, ExecutedTaskStays, ZenonT(60) DEF HasReply, HadReply, Jobs
  <1>3. \A d \in Conn : HasReply(d) <=> HadReply(d, conn[d].pc, conn[d].result)
    BY ZenonT(60) DEF HasReply, HadReply
  <1>4. \A d \in Conn : ~Executes(d)' => ~HasReply(d)' /\ conn'[d].pc \notin {"sent", "result"}
    BY ZenonT(60) DEF Executes, HasReply
  <1>5. \A d \in Conn : ~Executes(d) => ~HasReply(d) /\ conn[d].pc \notin {"sent", "result"}
    BY ZenonT(60) DEF Executes, HasReply
  <1>6. CASE KeepsBlocks
    <2>1. \A d \in Conn : Executes(d) => (HasReply(d)' <=> HasReply(d))
      BY <1>2, <1>3, <1>6, ZenonT(60) DEF KeepsBlocks
    <2> QED BY <1>0, <1>4, <1>5, <1>6, <2>1, ZenonT(60) DEF KeepsBlocks
  <1>7. ASSUME NEW c \in Conn, UsesBlocks(c),
               \A d \in Conn : d # c => conn'[d] = conn[d],
               conn'[c].task = conn[c].task
        PROVE  \A d \in Conn : d # c => (HasReply(d)' <=> HasReply(d))
    <2>1. ASSUME NEW d \in Conn, d # c, Executes(d)
          PROVE  HasReply(d)' <=> HasReply(d)
      BY <1>2, <1>3, <1>7, <2>1, ZenonT(60)
    <2>2. ASSUME NEW d \in Conn, d # c, ~Executes(d)
          PROVE  ~HasReply(d)'
      BY <1>4, <1>7, <2>2, ZenonT(60) DEF Executes
    <2> QED BY <1>5, <2>1, <2>2, ZenonT(60)
  <1>8. ASSUME NEW c \in Conn, SendBatch(c) \/ SendSingle(c)
        PROVE  /\ shmem' \subseteq BlockType /\ IsFiniteSet(shmem')
               /\ \A d \in Conn : /\ Param(d) \in shmem' <=> conn'[d].pc \in {"sent", "result"}
                                  /\ Reply(d) \in shmem' <=> HasReply(d)'
    <2>1. shmem' = shmem \cup {Param(c)} /\ ConnGoes(c, "sent") /\ conn[c].pc = "check"
      BY <1>8, ZenonT(60) DEF SendBatch, SendSingle, CopyParams, HasTask
    <2>2. /\ \A d \in Conn : d # c => conn'[d] = conn[d]
          /\ conn'[c].pc = "sent" /\ conn'[c].task = conn[c].task
      BY <1>0, <2>1, ConnGoesTyped, ZenonT(60) DEF ConnPc
    <2>3. \A d \in Conn : d # c => (HasReply(d)' <=> HasReply(d))
      BY <1>7, <1>8, <2>2, ZenonT(60) DEF UsesBlocks
    <2>4. ~HasReply(c)' /\ ~HasReply(c)
      BY <2>1, <2>2, ZenonT(60) DEF HasReply
    <2> QED BY <1>0, <2>1, <2>2, <2>3, <2>4, BlocksDiffer, FS_AddElement, ZenonT(60)
  <1>9. ASSUME NEW c \in Conn, BackendReplies(c) \/ BackendFails(c) \/ CommitFails(c)
        PROVE  /\ shmem' \subseteq BlockType /\ IsFiniteSet(shmem')
               /\ \A d \in Conn : /\ Param(d) \in shmem' <=> conn'[d].pc \in {"sent", "result"}
                                  /\ Reply(d) \in shmem' <=> HasReply(d)'
    <2>0. PICK r \in {"ok", "error"} :
            /\ conn[c].pc = "sent" /\ conn' = [conn EXCEPT ![c].pc = "result", ![c].result = r]
            /\ \/ r = "ok" /\ shmem' = IF NoReply(Head(Jobs(c))) THEN shmem ELSE shmem \cup {Reply(c)}
               \/ r = "error" /\ shmem' = shmem
               \/ r = "error" /\ shmem' = shmem \cup {<<"lost", Cardinality(LostBlocks)>>}
      BY <1>9, ZenonT(60) DEF BackendReplies, BackendFails, CommitFails
    <2>1. /\ \A d \in Conn : d # c => conn'[d] = conn[d]
          /\ conn'[c].pc = "result" /\ conn'[c].task = conn[c].task /\ conn'[c].result = r
      BY <1>0, <2>0, ResultTyped, ZenonT(60)
    <2>2. \A d \in Conn : d # c => (HasReply(d)' <=> HasReply(d))
      BY <1>7, <1>9, <2>1, ZenonT(60) DEF UsesBlocks
    <2>3. HasReply(c)' <=> r = "ok" /\ ~NoReply(Head(Jobs(c)))
      BY <1>2, <2>0, <2>1, ZenonT(60) DEF Executes, HadReply
    <2>4. ~HasReply(c)
      BY <2>0, ZenonT(60) DEF HasReply
    <2>5. Cardinality(LostBlocks) \in Nat
      BY <1>0, FS_Subset, FS_CardinalityType, ZenonT(60) DEF LostBlocks
    <2>6. IsFiniteSet(shmem')
      BY <1>0, <2>0, FS_AddElement, ZenonT(60)
    <2>7. shmem' \subseteq BlockType
      BY <1>0, <2>0, <2>5, BlocksDiffer, SMTT(60)
    <2> QED BY <1>0, <2>0, <2>1, <2>2, <2>3, <2>4, <2>5, <2>6, <2>7, BlocksDiffer, ZenonT(60)
  <1>10. ASSUME NEW c \in Conn, FreeParam(c)
         PROVE  /\ shmem' \subseteq BlockType /\ IsFiniteSet(shmem')
                /\ \A d \in Conn : /\ Param(d) \in shmem' <=> conn'[d].pc \in {"sent", "result"}
                                   /\ Reply(d) \in shmem' <=> HasReply(d)'
    <2>1. shmem' = shmem \ {Param(c)} /\ ConnGoes(c, "answer") /\ conn[c].pc = "result"
      BY <1>10, ZenonT(60) DEF FreeParam
    <2>2. /\ \A d \in Conn : d # c => conn'[d] = conn[d]
          /\ conn'[c].pc = "answer" /\ conn'[c].task = conn[c].task /\ conn'[c].result = conn[c].result
      BY <1>0, <2>1, ConnGoesTyped, ZenonT(60) DEF ConnPc
    <2>3. \A d \in Conn : d # c => (HasReply(d)' <=> HasReply(d))
      BY <1>7, <1>10, <2>2, ZenonT(60) DEF UsesBlocks
    <2>4. HasReply(c)' <=> HasReply(c)
      BY <1>2, <1>3, <2>1, <2>2, ZenonT(60) DEF Executes, HadReply
    <2>5. IsFiniteSet(shmem')
      BY <1>0, <2>1, FS_RemoveElement, ZenonT(60)
    <2> QED BY <1>0, <2>1, <2>2, <2>3, <2>4, <2>5, BlocksDiffer, ZenonT(60)
  <1>11. ASSUME NEW c \in Conn, AnswerBatch(c) \/ AnswerSingle(c)
         PROVE  /\ shmem' \subseteq BlockType /\ IsFiniteSet(shmem')
                /\ \A d \in Conn : /\ Param(d) \in shmem' <=> conn'[d].pc \in {"sent", "result"}
                                   /\ Reply(d) \in shmem' <=> HasReply(d)'
    <2>1. shmem' = shmem \ {Reply(c)} /\ conn[c].pc = "answer"
      BY <1>11, ZenonT(60) DEF AnswerBatch, AnswerSingle, Answer
    <2>2. /\ \A d \in Conn : d # c => conn'[d] = conn[d]
          /\ conn'[c].pc = "readd" /\ conn'[c].task = conn[c].task
      BY <1>0, <1>11, SMTT(60) DEF AnswerBatch, AnswerSingle, Answer, ConnType
    <2>3. \A d \in Conn : d # c => (HasReply(d)' <=> HasReply(d))
      BY <1>7, <1>11, <2>2, ZenonT(60) DEF UsesBlocks
    <2>4. ~HasReply(c)'
      BY <2>2, ZenonT(60) DEF HasReply
    <2>5. IsFiniteSet(shmem')
      BY <1>0, <2>1, FS_RemoveElement, ZenonT(60)
    <2> QED BY <1>0, <2>1, <2>2, <2>3, <2>4, <2>5, BlocksDiffer, ZenonT(60)
  <1> QED BY <1>6, <1>8, <1>9, <1>10, <1>11, OtherStepsKeepBlocks, ZenonT(60) DEF UsesBlocks

-----------------------------------------------------------------------------
LEMMA TypeStep ==
  ASSUME IInv, Next
  PROVE  TypeOK'
  BY JobStepType, ManagerStepType, ConnStepType, DestroyerStepType, ZenonT(60) DEF Next

LEMMA AlwaysIInv == Spec => []IInv
  <1>1. ASSUME IInv, [Next]_vars
        PROVE  IInv'
    <2>1. CASE Next
      BY <1>1, <2>1, TypeStep, PcStep, JobsStep, PlacesStep, StopStep, BlockStep, ZenonT(60) DEF IInv
    <2>2. CASE UNCHANGED vars
      <3> USE <1>1, <2>2 DEF vars, IInv
      <3>1. TypeOK' /\ PcInv' /\ StopInv'
        BY ZenonT(60) DEF TypeOK, PcInv, StopInv
      <3>2. JobInv' /\ AnswerInv'
        BY ZenonT(60) DEF JobInv, AnswerInv, JobsOf, Done
      <3>3. RefInv' /\ PlaceInv'
        BY ZenonT(60) DEF RefInv, PlaceInv, Live
      <3>4. OpenInv'
        BY ZenonT(60) DEF OpenInv, JobsOf, Live
      <3>5. BlockInv'
        BY ZenonT(60) DEF BlockInv, ShmemAccounted, LostBlocks, Jobs
      <3> QED BY <3>1, <3>2, <3>3, <3>4, <3>5, ZenonT(60)
    <2> QED BY <1>1, <2>1, <2>2, ZenonT(60)
  <1> QED BY <1>1, InitIInv, PTL DEF Spec

(* No thread of the pool can reach a task or a connection that is deleted,   *)
(* although a connection goes back to the pool before it deletes its task    *)
(* and the connections are deleted before the manager is joined.             *)
THEOREM NothingIsReachedAfterDelete == Spec => []NothingDangles
  <1>1. IInv => NothingDangles
    <2> SUFFICES ASSUME IInv PROVE NothingDangles
      BY ZenonT(60)
    <2>1. Range(open) \subseteq DOMAIN tasks
      BY SMTT(60) DEF IInv, TypeOK, RefInv, Range
    <2>2. manager.pc \in {"exec", "sleep_exec"} => conn[manager.conn].pc # "deleted"
      BY ZenonT(60) DEF IInv, PcInv, StopInv
    <2> QED BY <2>1, <2>2, ZenonT(60) DEF IInv, RefInv, NothingDangles, Live
  <1> QED BY <1>1, AlwaysIInv, PTL

(* Shared memory is in use for a task that is executed, or was lost by a     *)
(* backend whose commit failed: the pool frees every block it can know of.   *)
THEOREM BlocksAreAccountedFor == Spec => []ShmemAccounted
  <1>1. IInv => ShmemAccounted
    BY ZenonT(60) DEF IInv, BlockInv
  <1> QED BY <1>1, AlwaysIInv, PTL

(* No client is answered twice, however jobs are batched and connections     *)
(* taken and returned.                                                       *)
THEOREM NoSecondAnswer == Spec => []AnsweredOnce
  <1>1. IInv => AnsweredOnce
    BY SMTT(60) DEF IInv, AnswerInv, AnsweredOnce
  <1> QED BY <1>1, AlwaysIInv, PTL
=============================================================================
