------------------------ MODULE TwoPhaseCommitProofs ------------------------
(***************************************************************************)
(* Proofs about TwoPhaseCommit, for any number of workers, backends,       *)
(* transactions and faults: every step keeps the types, the fates of a     *)
(* transaction, its records and its owner.                                 *)
(***************************************************************************)
EXTENDS TwoPhaseCommit, TLAPS

(* Init establishes the types. *)
LEMMA TypeInit == Init => TypeOK
  BY MaxFaultsAssumption, SMTT(60)
  DEF Init, TypeOK, BackendTypeOK, ConnTypeOK, CNTypeOK, WorkerTypeOK,
      DaemonTypeOK, ConnState, LinkState, Fate

(* What the actions of the workers and of the daemon leave alone. *)
LEMMA WorkerFrame ==
  ASSUME WorkerNext
  PROVE  UNCHANGED <<backendVars, conn, link, cnVars, daemonVars, faults>>
<1>1. ASSUME NEW b \in Backend, NEW w \in Worker, Exec(b, w)
      PROVE  UNCHANGED <<backendVars, conn, link, cnVars, daemonVars, faults>>
  BY <1>1, ZenonT(60) DEF Exec
<1> QED
  BY <1>1, ZenonT(60) DEF WorkerNext, SessionEnd, WorkerRestart, LateExec, connVars

(* The daemon touches no backend, no connection of theirs and no fate on the *)
(* CN.                                                                       *)
LEMMA DaemonFrame ==
  ASSUME DaemonNext
  PROVE  UNCHANGED <<backendVars, connVars, cn, via, fresh, inprogress, up, faults>>
<1> USE DEF cnVars, workerVars
<1>1. ASSUME NEW m, DaemonCallFails(m)
      PROVE  UNCHANGED <<backendVars, connVars, cn, via, fresh, inprogress, up, faults>>
  BY <1>1, ZenonT(60) DEF DaemonCallFails
<1>2. ASSUME NEW t \in Txn, DaemonCommits(t) \/ DaemonRollsBack(t)
      PROVE  UNCHANGED <<backendVars, connVars, cn, via, fresh, inprogress, up, faults>>
  BY <1>2, ZenonT(60) DEF DaemonCommits, DaemonRollsBack, Resolve
<1>3. ASSUME NEW t \in Txn,
             DaemonSkipRecord(t) \/ DaemonDeletesRecord(t)
             \/ DaemonCommitFails(t) \/ DaemonRollbackFails(t)
      PROVE  UNCHANGED <<backendVars, connVars, cn, via, fresh, inprogress, up, faults>>
  BY <1>1, <1>3, ZenonT(60) DEF DaemonSkipRecord, DaemonDeletesRecord, DaemonCommitFails,
      DaemonRollbackFails
<1>4. ASSUME DaemonReadA \/ DaemonReadB \/ DaemonReadC \/ DaemonReadD
             \/ DaemonReadAFails \/ DaemonReadDFails
      PROVE  UNCHANGED <<backendVars, connVars, cn, via, fresh, inprogress, up, faults>>
  BY <1>1, <1>4, ZenonT(60) DEF DaemonReadA, DaemonReadB, DaemonReadC, DaemonReadD,
      DaemonReadAFails, DaemonReadDFails
<1>5. ASSUME DaemonWakeUp \/ (\E w \in Worker : DaemonNextServer(w))
             \/ DaemonEndOfRecords \/ DaemonServerDone \/ DaemonPassEnd \/ DaemonExit
      PROVE  UNCHANGED <<backendVars, connVars, cn, via, fresh, inprogress, up, faults>>
  BY <1>5, ZenonT(60) DEF DaemonWakeUp, DaemonNextServer, DaemonEndOfRecords, DaemonServerDone,
      DaemonPassEnd, DaemonExit
<1> QED
  BY <1>2, <1>3, <1>4, <1>5, ZenonT(60) DEF DaemonNext

(* A fault is a restart of the CN, a crash of a worker or a lost connection. *)
LEMMA FaultCases ==
  ASSUME FaultNext
  PROVE  \/ CNRestart /\ faults' \in {faults, faults + 1}
         \/ \E w \in Worker : WorkerCrash(w) \/ DaemonBreak(w)
         \/ \E b \in Backend, w \in Worker : Break(b, w)
  BY ZenonT(60) DEF FaultNext, CNCrash, AbortPanic

(* Every step keeps the types of the backends' variables.                    *)
LEMMA BackendTypeStep == TypeOK /\ [Next]_vars => BackendTypeOK'
<1> SUFFICES ASSUME BackendTypeOK, [Next]_vars PROVE BackendTypeOK'
  BY ZenonT(60) DEF TypeOK
<1> USE DEF BackendTypeOK
<1>1. ASSUME NEW b \in Backend, NEW t \in Txn, NEW lw \in BOOLEAN,
             CallMeta(b, t, lw) \/ CallMetaUnreachable(b, t, lw)
      PROVE  BackendTypeOK'
  BY <1>1, SMTT(60) DEF CallMeta, CallMetaUnreachable
<1>2. ASSUME NEW b \in Backend, NEW w \in Worker,
             ReadAnswer(b, w) \/ RenameSubCreate(b, w)
      PROVE  BackendTypeOK'
  BY <1>2, SMTT(60) DEF ReadAnswer, RenameSubCreate
<1>3. ASSUME NEW b \in Backend, NEW w \in Worker, ReadPrepareAnswer(b, w)
      PROVE  BackendTypeOK'
  <2>1. failed' = [failed EXCEPT ![b] = TRUE] \/ failed' = failed
    BY <1>3, ZenonT(60) DEF ReadPrepareAnswer
  <2>2. rows' = [rows EXCEPT ![b] = @ \cup {w}] \/ rows' = rows
    BY <1>3, ZenonT(60) DEF ReadPrepareAnswer
  <2>3. failed' \in [Backend -> BOOLEAN]
    <3>1. failed \in [Backend -> BOOLEAN]
      BY ZenonT(60) DEF BackendTypeOK
    <3>2. CASE failed' = failed
      BY <3>1, <3>2, ZenonT(60)
    <3>3. CASE failed' = [failed EXCEPT ![b] = TRUE]
      BY ONLY <3>1, <3>3, ZenonT(60)
    <3> QED
      BY <2>1, <3>2, <3>3, ZenonT(60)
  <2>4. rows' \in [Backend -> SUBSET Worker]
    BY <2>2, SMTT(60) DEF BackendTypeOK
  <2> QED
    BY <1>3, <2>3, <2>4, ZenonT(60) DEF ReadPrepareAnswer
<1>4. ASSUME NEW b \in Backend, NEW w \in Worker,
             ReadCommitAnswer(b, w) \/ ReadAbortAnswer(b, w)
      PROVE  BackendTypeOK'
  BY <1>4, SMTT(60) DEF ReadCommitAnswer, ReadAbortAnswer
<1>5. ASSUME NEW b \in Backend,
             PreCommitOnePhase(b) \/ PreCommitTwoPhase(b) \/ PrepareFailed(b)
      PROVE  BackendTypeOK'
  BY <1>5, SMTT(60) DEF PreCommitOnePhase, PreCommitTwoPhase, PrepareFailed, Writers
<1>6. ASSUME NEW b \in Backend, Commit(b)
      PROVE  BackendTypeOK'
  <2>1. /\ pc' = [pc EXCEPT ![b] = "commit"] /\ UNCHANGED <<txn, failed, localWrite, rows>>
        /\ \/ todo' = todo
           \/ todo' = [todo EXCEPT ![b] = {w \in Worker : conn[b][w] # "NONE"}]
    BY <1>6, ZenonT(60) DEF Commit
  <2>2. pc' \in [Backend -> {"idle", "run", "run2", "prepare", "commit", "error", "abort"}]
    BY <2>1, ZenonT(60)
  <2>3. todo' \in [Backend -> SUBSET Worker]
    BY <2>1, SMTT(60)
  <2> QED
    BY <2>1, <2>2, <2>3, ZenonT(60)
<1>7. ASSUME NEW b \in Backend, Abort(b)
      PROVE  BackendTypeOK'
  BY <1>7, ZenonT(60) DEF Abort
<1>8. ASSUME NEW b \in Backend, EndTransaction(b)
      PROVE  BackendTypeOK'
  BY <1>8, ZenonT(60) DEF EndTransaction
<1>9. CASE CNRestart
  BY <1>9, ZenonT(60) DEF CNRestart
<1>10. CASE UNCHANGED backendVars
  BY <1>10, ZenonT(60) DEF backendVars
<1>11. ASSUME NEW b \in Backend, BackendNext(b)
       PROVE  BackendTypeOK'
  BY <1>1, <1>2, <1>3, <1>4, <1>5, <1>6, <1>7, <1>8, <1>10, <1>11, ZenonT(60)
  DEF BackendNext, BackendExit
<1>12. CASE FaultNext
  BY <1>9, <1>10, <1>12, FaultCases, ZenonT(60) DEF WorkerCrash, DaemonBreak, Break
<1> QED
  BY <1>10, <1>11, <1>12, WorkerFrame, DaemonFrame, ZenonT(60) DEF Next, vars

(* What goes out and comes in on connections keeps the types. *)
LEMMA SentType ==
  ASSUME ConnTypeOK, NEW b \in Backend, NEW t \in Txn, NEW S, NEW l,
         NEW cmd \in [Worker -> Command]
  PROVE  Sent(b, t, S, l, cmd) \in [Worker -> Request \cup {NoReq}]
  BY SMTT(60) DEF ConnTypeOK, Sent, Request

(* Opening the bad connections anew keeps their types.                       *)
LEMMA ConnectType ==
  ASSUME ConnTypeOK, NEW b \in Backend
  PROVE  /\ LinkAfterConnect(b) \in [Worker -> LinkState]
         /\ ConnAfterConnect(b) \in [Worker -> ConnState]
  BY SMTT(60) DEF ConnTypeOK, LinkAfterConnect, ConnAfterConnect, LinkState, ConnState

(* Noticing a broken connection while reading keeps the types of the links.  *)
LEMMA ReadType ==
  ASSUME ConnTypeOK, NEW b \in Backend, NEW w \in Worker
  PROVE  LinkAfterRead(b, w) \in [Backend -> [Worker -> LinkState]]
  BY ZenonT(60) DEF ConnTypeOK, LinkAfterRead, LinkState

(* A command executed by a worker keeps the types of what it changes.        *)
LEMMA ExecType ==
  ASSUME ConnTypeOK, WorkerTypeOK, NEW b \in Backend, NEW w \in Worker, Exec(b, w)
  PROVE  ConnTypeOK' /\ WorkerTypeOK'
<1>1. req[b][w] # NoReq
  BY ZenonT(60) DEF Exec
<1>2. /\ req[b][w].t \in Txn /\ out[req[b][w].t][w] \in Fate
      /\ sess[b][w] \in Txn \cup {NoTxn}
  BY <1>1, SMTT(60) DEF ConnTypeOK, WorkerTypeOK, Request
<1>3. PICK f \in Fate, s \in Txn \cup {NoTxn}, a \in {"ok", "err"} : Answer(b, w, f, s, a)
  <2> DEFINE t == req[b][w].t
             g == out[t][w]
  <2>1. \/ Answer(b, w, "open", t, "ok") \/ Answer(b, w, "aborted", NoTxn, "err")
        \/ Answer(b, w, g, t, "ok") \/ Answer(b, w, "committed", NoTxn, "ok")
        \/ Answer(b, w, IF g = "none" THEN "aborted" ELSE g, NoTxn, "err")
        \/ Answer(b, w, "prepared", NoTxn, "ok") \/ Answer(b, w, "aborted", NoTxn, "ok")
        \/ Answer(b, w, g, sess[b][w], "ok") \/ Answer(b, w, g, sess[b][w], "err")
        \/ Answer(b, w, "committed", sess[b][w], "ok")
        \/ Answer(b, w, "aborted", sess[b][w], "ok")
    BY ZenonT(60) DEF Exec
  <2>2. t \in Txn /\ g \in Fate
    BY <1>2, ZenonT(60)
  <2> HIDE DEF t, g
  <2> QED
    BY <1>2, <2>1, <2>2, ZenonT(60) DEF Fate
<1>4. UNCHANGED <<conn, link, up, late>>
  BY ZenonT(60) DEF Exec
<1>5. ConnTypeOK'
  BY <1>3, <1>4, ZenonT(60) DEF ConnTypeOK, Answer
<1>6. WorkerTypeOK'
  BY <1>2, <1>3, <1>4, ZenonT(60) DEF WorkerTypeOK, Answer
<1> QED
  BY <1>5, <1>6, ZenonT(60)

(* What is under way on connections is a set of well-formed commands.        *)
LEMMA UnderWayType ==
  ASSUME ConnTypeOK, NEW S \in SUBSET (Backend \X Worker)
  PROVE  UnderWay(S) \in SUBSET [w : Worker, cmd : Command, t : Txn]
<1> SUFFICES ASSUME NEW p \in S, req[p[1]][p[2]] # NoReq
             PROVE  [w |-> p[2], cmd |-> req[p[1]][p[2]].cmd, t |-> req[p[1]][p[2]].t]
                      \in [w : Worker, cmd : Command, t : Txn]
  BY ZenonT(60) DEF UnderWay
<1> p[1] \in Backend /\ p[2] \in Worker
  BY ZenonT(60)
<1> QED
  BY SMTT(60) DEF ConnTypeOK, Request

(* A backend past "idle" has a transaction. *)
HasTxn == \A b \in Backend : pc[b] # "idle" => txn[b] \in Txn

(* A step of a backend keeps the types of the connections.                   *)
LEMMA ConnTypeBackend ==
  ASSUME TypeOK, HasTxn, NEW b \in Backend, BackendNext(b)
  PROVE  ConnTypeOK'
<1> USE DEF ConnTypeOK
<1>0. ConnTypeOK
  BY ZenonT(60) DEF TypeOK
<1>1. ASSUME NEW t \in Txn, NEW lw \in BOOLEAN, CallMeta(b, t, lw)
      PROVE  ConnTypeOK'
  <2> DEFINE l == LinkAfterConnect(b)
             c == ConnAfterConnect(b)
             cmd == [w \in Worker |-> IF c[w] = "NONE" THEN "BEGIN" ELSE "RUN"]
             d(S) == [w \in Worker |->
                        IF w \in S /\ c[w] = "NONE" THEN "WRITE" ELSE c[w]]
  <2>1. PICK S \in SUBSET Worker :
          /\ req' = [req EXCEPT ![b] = Sent(b, t, S, l, cmd)]
          /\ conn' = [conn EXCEPT ![b] = d(S)]
    BY <1>1, ZenonT(60) DEF CallMeta
  <2>2. \/ link' = [link EXCEPT ![b] = l]
        \/ \E x \in Worker : link' = [link EXCEPT ![b] = [l EXCEPT ![x] = "bad"]]
    BY <1>1, ZenonT(60) DEF CallMeta
  <2>3. l \in [Worker -> LinkState] /\ c \in [Worker -> ConnState]
    BY <1>0, ConnectType, ZenonT(60)
  <2>4. cmd \in [Worker -> Command]
    BY ZenonT(60) DEF Command
  <2>5. d(S) \in [Worker -> ConnState]
    <3> HIDE DEF c
    <3> QED BY <2>3, ZenonT(60) DEF ConnState
  <2>6. Sent(b, t, S, l, cmd) \in [Worker -> Request \cup {NoReq}]
    <3> HIDE DEF l, cmd
    <3> QED BY <1>0, <2>4, SentType, ZenonT(60)
  <2>7. rep' = [rep EXCEPT ![b] = [w \in Worker |-> "none"]] /\ sess' = sess
    BY <1>1, ZenonT(60) DEF CallMeta
  <2> HIDE DEF l, c, cmd, d
  <2> QED
    <3>1. link' \in [Backend -> [Worker -> LinkState]]
      <4>1. "bad" \in LinkState
        BY ZenonT(60) DEF LinkState
      <4>2. \A x \in Worker : [l EXCEPT ![x] = "bad"] \in [Worker -> LinkState]
        BY <2>3, <4>1, ZenonT(60)
      <4> QED
        <5>1. PICK m \in [Worker -> LinkState] : link' = [link EXCEPT ![b] = m]
          BY <2>2, <2>3, <4>2, ZenonT(60)
        <5> QED
          BY <1>0, <5>1, ZenonT(60)
    <3>2. req' \in [Backend -> [Worker -> Request \cup {NoReq}]]
      BY <1>0, <2>1, <2>6, ZenonT(60)
    <3>3. conn' \in [Backend -> [Worker -> ConnState]]
      BY <1>0, <2>1, <2>5, ZenonT(60)
    <3>4. [w \in Worker |-> "none"] \in [Worker -> {"none", "ok", "err"}]
      BY ZenonT(60)
    <3>5. rep' \in [Backend -> [Worker -> {"none", "ok", "err"}]] /\ sess' = sess
      BY <1>0, <2>7, <3>4, ZenonT(60)
    <3> QED
      BY <1>0, <3>1, <3>2, <3>3, <3>5, ZenonT(60)
<1>2. ASSUME NEW w \in Worker,
             \/ ReadAnswer(b, w) \/ ReadPrepareAnswer(b, w)
             \/ ReadCommitAnswer(b, w) \/ ReadAbortAnswer(b, w)
      PROVE  ConnTypeOK'
  <2>1. \/ conn' = conn \/ conn' = [conn EXCEPT ![b][w] = "PREPARE"]
        \/ conn' = [conn EXCEPT ![b][w] = "NONE"]
    BY <1>2, ZenonT(60) DEF ReadAnswer, ReadPrepareAnswer, ReadCommitAnswer, ReadAbortAnswer
  <2>2. link' = link \/ link' = LinkAfterRead(b, w)
    BY <1>2, ZenonT(60) DEF ReadAnswer, ReadPrepareAnswer, ReadCommitAnswer, ReadAbortAnswer
  <2>3. rep' = [rep EXCEPT ![b][w] = "none"] /\ UNCHANGED <<req, sess>>
    BY <1>2, ZenonT(60) DEF ReadAnswer, ReadPrepareAnswer, ReadCommitAnswer, ReadAbortAnswer
  <2>4. LinkAfterRead(b, w) \in [Backend -> [Worker -> LinkState]]
    BY <1>0, ReadType, ZenonT(60)
  <2>5. conn' \in [Backend -> [Worker -> ConnState]]
    <3>1. "PREPARE" \in ConnState /\ "NONE" \in ConnState
      BY ZenonT(60) DEF ConnState
    <3>2. conn \in [Backend -> [Worker -> ConnState]]
      BY <1>0, ZenonT(60)
    <3>3. CASE conn' = [conn EXCEPT ![b][w] = "PREPARE"]
      BY <3>1, <3>2, <3>3, ZenonT(60)
    <3>4. CASE conn' = [conn EXCEPT ![b][w] = "NONE"]
      BY <3>1, <3>2, <3>4, ZenonT(60)
    <3> QED BY <2>1, <3>2, <3>3, <3>4, ZenonT(60)
  <2>6. link' \in [Backend -> [Worker -> LinkState]]
    BY <1>0, <2>2, <2>4, ZenonT(60)
  <2> QED
    BY <1>0, <2>3, <2>5, <2>6, ZenonT(60)
<1>3. ASSUME NEW w \in Worker, RenameSubCreate(b, w)
      PROVE  ConnTypeOK'
  <2>1. txn[b] \in Txn /\ Same("RUN") \in [Worker -> Command]
    BY <1>3, ZenonT(60) DEF RenameSubCreate, HasTxn, Same, Command
  <2>2. Sent(b, txn[b], {w}, link[b], Same("RUN")) \in [Worker -> Request \cup {NoReq}]
    BY <1>0, <2>1, SentType, ZenonT(60)
  <2> QED
    BY <1>0, <1>3, <2>2, ZenonT(60) DEF RenameSubCreate
<1>4. CASE PreCommitTwoPhase(b)
  <2>1. txn[b] \in Txn /\ Same("PREPARE") \in [Worker -> Command]
    BY <1>4, ZenonT(60) DEF PreCommitTwoPhase, HasTxn, Same, Command
  <2>2. PICK S : req' = [req EXCEPT ![b] = Sent(b, txn[b], S, link[b], Same("PREPARE"))]
    BY <1>4, ZenonT(60) DEF PreCommitTwoPhase
  <2>3. link' = link \/ \E x \in Worker : link' = [link EXCEPT ![b][x] = "bad"]
    BY <1>4, ZenonT(60) DEF PreCommitTwoPhase, Writers
  <2>4. UNCHANGED <<conn, rep, sess>>
    BY <1>4, ZenonT(60) DEF PreCommitTwoPhase
  <2>5. Sent(b, txn[b], S, link[b], Same("PREPARE")) \in [Worker -> Request \cup {NoReq}]
    BY <1>0, <2>1, SentType, ZenonT(60)
  <2>6. link' \in [Backend -> [Worker -> LinkState]]
    <3>1. "bad" \in LinkState
      BY ZenonT(60) DEF LinkState
    <3>2. ASSUME NEW x \in Worker, link' = [link EXCEPT ![b][x] = "bad"]
          PROVE  link' \in [Backend -> [Worker -> LinkState]]
      BY <1>0, <3>1, <3>2, ZenonT(60)
    <3> QED BY <1>0, <2>3, <3>2, ZenonT(60)
  <2> QED
    BY <1>0, <2>2, <2>4, <2>5, <2>6, ZenonT(60)
<1>5. CASE Commit(b)
  <2> DEFINE cmd == [w \in Worker |->
                       IF conn[b][w] = "WRITE" THEN "COMMIT"
                       ELSE IF via[txn[b]] = "twoPhase" THEN "COMMIT PREPARED"
                       ELSE "JUNK"]
  <2>1. txn[b] \in Txn /\ cmd \in [Worker -> Command]
    BY <1>5, ZenonT(60) DEF Commit, HasTxn, Command
  <2>2. PICK S : req' = [req EXCEPT ![b] = Sent(b, txn[b], S, link[b], cmd)]
    BY <1>5, ZenonT(60) DEF Commit
  <2>3. link' = link \/ \E x \in Worker : link' = [link EXCEPT ![b][x] = "bad"]
    BY <1>5, ZenonT(60) DEF Commit
  <2>4. UNCHANGED <<conn, rep, sess>>
    BY <1>5, ZenonT(60) DEF Commit
  <2>5. Sent(b, txn[b], S, link[b], cmd) \in [Worker -> Request \cup {NoReq}]
    <3> HIDE DEF cmd
    <3> QED BY <1>0, <2>1, SentType, ZenonT(60)
  <2> HIDE DEF cmd
  <2>6. link' \in [Backend -> [Worker -> LinkState]]
    <3>1. "bad" \in LinkState
      BY ZenonT(60) DEF LinkState
    <3>2. ASSUME NEW x \in Worker, link' = [link EXCEPT ![b][x] = "bad"]
          PROVE  link' \in [Backend -> [Worker -> LinkState]]
      BY <1>0, <3>1, <3>2, ZenonT(60)
    <3> QED BY <1>0, <2>3, <3>2, ZenonT(60)
  <2> QED
    BY <1>0, <2>2, <2>4, <2>5, <2>6, ZenonT(60)
<1>6. CASE Abort(b)
  <2> DEFINE l == LinkAfterConnect(b)
             c == ConnAfterConnect(b)
             cmd == [w \in Worker |->
                       IF c[w] = "WRITE" THEN "ROLLBACK"
                       ELSE IF via[txn[b]] = "twoPhase" THEN "ROLLBACK PREPARED"
                       ELSE "JUNK"]
  <2>1. txn[b] \in Txn /\ cmd \in [Worker -> Command]
    BY <1>6, ZenonT(60) DEF Abort, HasTxn, Command
  <2>2. PICK S : req' = [req EXCEPT ![b] = Sent(b, txn[b], S, l, cmd)]
    BY <1>6, ZenonT(60) DEF Abort
  <2>3. link' = [link EXCEPT ![b] = l] /\ conn' = [conn EXCEPT ![b] = c]
    BY <1>6, ZenonT(60) DEF Abort
  <2>4. rep' = [rep EXCEPT ![b] = [w \in Worker |-> "none"]] /\ sess' = sess
    BY <1>6, ZenonT(60) DEF Abort
  <2>5. l \in [Worker -> LinkState] /\ c \in [Worker -> ConnState]
    BY <1>0, ConnectType, ZenonT(60)
  <2>6. Sent(b, txn[b], S, l, cmd) \in [Worker -> Request \cup {NoReq}]
    <3> HIDE DEF cmd, l
    <3> QED BY <1>0, <2>1, SentType, ZenonT(60)
  <2> HIDE DEF cmd, l, c
  <2> QED
    BY <1>0, <2>2, <2>3, <2>4, <2>5, <2>6, ZenonT(60)
<1>7. CASE BackendExit(b)
  BY <1>0, <1>7, ZenonT(60) DEF BackendExit, ConnState, LinkState
<1>8. CASE UNCHANGED connVars
  BY <1>0, <1>8, ZenonT(60) DEF connVars
<1> QED
  BY <1>1, <1>2, <1>3, <1>4, <1>5, <1>6, <1>7, <1>8, ZenonT(60)
  DEF BackendNext, CallMetaUnreachable, PreCommitOnePhase, PrepareFailed, EndTransaction

(* Every step keeps the types of the connections.                            *)
LEMMA ConnTypeStep ==
  ASSUME TypeOK, HasTxn, [Next]_vars
  PROVE  ConnTypeOK'
<1>0. ConnTypeOK /\ WorkerTypeOK
  BY ZenonT(60) DEF TypeOK
<1>1. ASSUME NEW b \in Backend, BackendNext(b)
      PROVE  ConnTypeOK'
  BY <1>1, ConnTypeBackend, ZenonT(60)
<1>2. CASE WorkerNext
  <2>1. ASSUME NEW b \in Backend, NEW w \in Worker, Exec(b, w)
        PROVE  ConnTypeOK'
    BY <1>0, <2>1, ExecType, ZenonT(60)
  <2> QED
    BY <1>0, <1>2, <2>1, ZenonT(60) DEF WorkerNext, SessionEnd, WorkerRestart, LateExec, connVars,
       ConnTypeOK
<1>3. CASE CNRestart
  BY <1>0, <1>3, ZenonT(60) DEF CNRestart, ConnTypeOK, ConnState, LinkState
<1>4. ASSUME NEW w \in Worker, WorkerCrash(w)
      PROVE  ConnTypeOK'
  BY <1>0, <1>4, ZenonT(60) DEF WorkerCrash, ConnTypeOK, LinkState
<1>5. ASSUME NEW b \in Backend, NEW w \in Worker, Break(b, w)
      PROVE  ConnTypeOK'
  BY <1>0, <1>5, ZenonT(60) DEF Break, ConnTypeOK, LinkState
<1>6. CASE UNCHANGED connVars
  BY <1>0, <1>6, ZenonT(60) DEF ConnTypeOK, connVars
<1>7. CASE FaultNext
  BY <1>3, <1>4, <1>5, <1>6, <1>7, FaultCases, ZenonT(60) DEF DaemonBreak
<1> QED
  BY <1>1, <1>2, <1>6, <1>7, DaemonFrame, ZenonT(60) DEF Next, vars

(* Every step keeps the types of the CN's shared and durable state.          *)
LEMMA CNTypeStep ==
  ASSUME TypeOK, HasTxn, [Next]_vars
  PROVE  CNTypeOK'
<1> USE DEF CNTypeOK
<1>0. CNTypeOK
  BY ZenonT(60) DEF TypeOK
<1>1. ASSUME NEW b \in Backend, BackendNext(b)
      PROVE  CNTypeOK'
  <2>1. ASSUME NEW t \in Txn, NEW lw \in BOOLEAN, CallMeta(b, t, lw)
        PROVE  CNTypeOK'
    <3>1. fresh' = [fresh EXCEPT ![t] = \A w \in Worker : ConnAfterConnect(b)[w] = "NONE"]
          /\ cn' = [cn EXCEPT ![t] = "active"] /\ UNCHANGED <<via, inprogress, record>>
      BY <2>1, ZenonT(60) DEF CallMeta
    <3>2. (\A w \in Worker : ConnAfterConnect(b)[w] = "NONE") \in BOOLEAN
      BY ZenonT(60)
    <3>3. fresh' \in [Txn -> BOOLEAN]
      BY <1>0, <3>1, <3>2, ZenonT(60)
    <3> QED
      BY <1>0, <3>1, <3>3, ZenonT(60)
  <2>2. CASE \E t \in Txn, lw \in BOOLEAN : CallMetaUnreachable(b, t, lw)
    BY <1>0, <2>2, ZenonT(60) DEF CallMetaUnreachable
  <2>3. CASE PreCommitOnePhase(b) \/ PreCommitTwoPhase(b)
    <3>1. txn[b] \in Txn
      BY <2>3, ZenonT(60) DEF PreCommitOnePhase, PreCommitTwoPhase, HasTxn
    <3> QED
      BY <1>0, <2>3, <3>1, ZenonT(60) DEF PreCommitOnePhase, PreCommitTwoPhase
  <2>4. CASE Commit(b)
    <3>1. txn[b] \in Txn /\ rows[b] \subseteq Worker
      BY <2>4, ZenonT(60) DEF Commit, HasTxn, TypeOK, BackendTypeOK
    <3>2. cn' = [cn EXCEPT ![txn[b]] = "committed"]
          /\ record' = record \cup (rows[b] \X {txn[b]}) /\ UNCHANGED <<via, fresh, inprogress>>
      BY <2>4, ZenonT(60) DEF Commit
    <3> QED
      BY <1>0, <3>1, <3>2, ZenonT(60)
  <2>5. CASE Abort(b)
    <3>1. txn[b] \in Txn
      BY <2>5, ZenonT(60) DEF Abort, HasTxn
    <3> QED
      BY <1>0, <2>5, <3>1, ZenonT(60) DEF Abort
  <2>6. CASE EndTransaction(b)
    BY <1>0, <2>6, ZenonT(60) DEF EndTransaction
  <2>7. CASE UNCHANGED cnVars
    BY <1>0, <2>7, ZenonT(60) DEF cnVars
  <2>8. ASSUME NEW w \in Worker,
               \/ ReadAnswer(b, w) \/ RenameSubCreate(b, w) \/ ReadPrepareAnswer(b, w)
               \/ ReadCommitAnswer(b, w) \/ ReadAbortAnswer(b, w)
        PROVE  CNTypeOK'
    BY <2>7, <2>8, ZenonT(60) DEF ReadAnswer, RenameSubCreate, ReadPrepareAnswer, ReadCommitAnswer,
       ReadAbortAnswer
  <2> QED
    BY <1>1, <2>1, <2>2, <2>3, <2>4, <2>5, <2>6, <2>7, <2>8, ZenonT(60)
    DEF BackendNext, PrepareFailed, BackendExit
<1>2. CASE DaemonNext
  <2>1. record' \subseteq record
    <3>1. ASSUME NEW m, DaemonCallFails(m)
          PROVE  record' = record
      BY <3>1, ZenonT(60) DEF DaemonCallFails, cnVars
    <3>2. ASSUME NEW t \in Txn, DaemonCommits(t) \/ DaemonRollsBack(t)
          PROVE  record' = record
      BY <3>2, ZenonT(60) DEF DaemonCommits, DaemonRollsBack, Resolve, cnVars
    <3> QED
      BY <1>2, <3>1, <3>2, ZenonT(60) DEF DaemonNext, cnVars, DaemonSkipRecord, DaemonDeletesRecord,
         DaemonCommitFails, DaemonRollbackFails, DaemonReadA, DaemonReadB, DaemonReadC,
         DaemonReadD, DaemonReadAFails, DaemonReadDFails, DaemonWakeUp, DaemonNextServer,
         DaemonEndOfRecords, DaemonServerDone, DaemonPassEnd, DaemonExit
  <2> QED
    BY <1>0, <1>2, <2>1, DaemonFrame, ZenonT(60)
<1>3. CASE CNRestart
  BY <1>0, <1>3, ZenonT(60) DEF CNRestart
<1>4. CASE UNCHANGED cnVars
  BY <1>0, <1>4, ZenonT(60) DEF cnVars
<1>5. CASE FaultNext
  BY <1>3, <1>4, <1>5, FaultCases, ZenonT(60) DEF WorkerCrash, Break, DaemonBreak
<1> QED
  BY <1>1, <1>2, <1>4, <1>5, WorkerFrame, ZenonT(60) DEF Next, vars

(* The transaction of a command of the daemon is a transaction. *)
LEMMA ResolutionsType ==
  ASSUME DaemonTypeOK, NEW m \in DaemonCall
  PROVE  /\ unsent \cup {m} \subseteq DaemonCall
         /\ Resolutions(unsent \cup {m}) \subseteq [w : Worker, cmd : Command, t : Txn]
<1>1. unsent \cup {m} \subseteq DaemonCall
  BY ZenonT(60) DEF DaemonTypeOK
<1>2. ASSUME NEW x \in DaemonCall, x.cmd # "SELECT"
      PROVE  x \in [w : Worker, cmd : Command, t : Txn]
  BY <1>2, ZenonT(60) DEF DaemonCall, Resolution, Command
<1> QED
  BY <1>1, <1>2, ZenonT(60) DEF Resolutions

(* Resolving a prepared transaction keeps the daemon's and the workers'      *)
(* types.                                                                    *)
LEMMA ResolveType ==
  ASSUME DaemonTypeOK, WorkerTypeOK, NEW t \in Txn, NEW f \in Fate, dsrv \in Worker,
         Resolve(t, f)
  PROVE  DaemonTypeOK' /\ WorkerTypeOK'
<1>1. DlinkAfterConnect({dsrv}) \in [Worker -> LinkState]
  BY ZenonT(60) DEF DlinkAfterConnect, DaemonTypeOK, LinkState
<1>2. CASE out[t][dsrv] = "prepared"
  <2>1. out' \in [Txn -> [Worker -> Fate]]
    BY <1>2, SMTT(60) DEF Resolve, WorkerTypeOK
  <2>2. WorkerTypeOK'
    BY <2>1, ZenonT(60) DEF Resolve, WorkerTypeOK
  <2>3. DaemonTypeOK'
    BY <1>1, <1>2, ZenonT(60) DEF Resolve, DaemonTypeOK
  <2> QED
    BY <2>2, <2>3, ZenonT(60)
<1>3. CASE out[t][dsrv] # "prepared"
  BY <1>1, <1>3, ZenonT(60) DEF Resolve, LeaveServer, DaemonTypeOK, WorkerTypeOK
<1> QED
  BY <1>2, <1>3, ZenonT(60)

(* So does a remote call of the daemon that fails.                           *)
LEMMA CallFailsType ==
  ASSUME DaemonTypeOK, WorkerTypeOK, NEW m \in DaemonCall, DaemonCallFails(m)
  PROVE  DaemonTypeOK' /\ WorkerTypeOK'
<1>1. /\ unsent \cup {m} \subseteq DaemonCall
      /\ Resolutions(unsent \cup {m}) \subseteq [w : Worker, cmd : Command, t : Txn]
  BY ResolutionsType, ZenonT(60)
<1>2. unsent' \subseteq unsent \cup {m} /\ late' \subseteq late \cup Resolutions(unsent \cup {m})
  BY ZenonT(60) DEF DaemonCallFails, Resolutions
<1>3. dlink' \in [Worker -> LinkState]
  BY ZenonT(60) DEF DaemonCallFails, DaemonTypeOK, DlinkAfterConnect, LinkState
<1>4. LeaveServer /\ UNCHANGED <<dleft, dele, up, out>>
  BY ZenonT(60) DEF DaemonCallFails
<1>5. unsent' \subseteq DaemonCall
  BY <1>1, <1>2, ZenonT(60)
<1>6. late' \subseteq [w : Worker, cmd : Command, t : Txn]
  BY <1>1, <1>2, ZenonT(60) DEF WorkerTypeOK
<1> QED
  BY <1>3, <1>4, <1>5, <1>6, ZenonT(60) DEF DaemonTypeOK, WorkerTypeOK, LeaveServer

(* The daemon is at a worker whenever it works on one. *)
AtWorker == dpc \in {"A", "B", "C", "D", "resolve", "rollback"} => dsrv \in Worker

(* A step of the daemon keeps its types and those of the workers.            *)
LEMMA DaemonTypeDaemon ==
  ASSUME DaemonTypeOK, WorkerTypeOK, CNTypeOK, AtWorker, DaemonNext
  PROVE  DaemonTypeOK' /\ WorkerTypeOK'
<1> USE DEF AtWorker
<1>1. ASSUME NEW t \in Txn, DaemonCommits(t) \/ DaemonRollsBack(t)
      PROVE  DaemonTypeOK' /\ WorkerTypeOK'
  <2>1. dsrv \in Worker /\ (Resolve(t, "committed") \/ Resolve(t, "aborted"))
    BY <1>1, ZenonT(60) DEF DaemonCommits, DaemonRollsBack
  <2>2. "committed" \in Fate /\ "aborted" \in Fate
    BY ZenonT(60) DEF Fate
  <2> QED
    BY <2>1, <2>2, ResolveType, ZenonT(60)
<1>2. CASE DaemonReadAFails \/ DaemonReadDFails
  <2>1. dsrv \in Worker /\ DaemonCallFails(Select(dsrv))
    BY <1>2, ZenonT(60) DEF DaemonReadAFails, DaemonReadDFails
  <2>2. Select(dsrv) \in DaemonCall
    BY <2>1, ZenonT(60) DEF Select, DaemonCall
  <2> QED
    BY <2>1, <2>2, CallFailsType, ZenonT(60)
<1>3. ASSUME NEW t \in Txn, DaemonCommitFails(t) \/ DaemonRollbackFails(t)
      PROVE  DaemonTypeOK' /\ WorkerTypeOK'
  <2>1. /\ dsrv \in Worker
        /\ DaemonCallFails(CommitPrepared(t)) \/ DaemonCallFails(RollbackPrepared(t))
    BY <1>3, ZenonT(60) DEF DaemonCommitFails, DaemonRollbackFails
  <2>2. CommitPrepared(t) \in DaemonCall /\ RollbackPrepared(t) \in DaemonCall
    BY <2>1, ZenonT(60) DEF CommitPrepared, RollbackPrepared, Resolution, DaemonCall
  <2> QED
    BY <2>1, <2>2, CallFailsType, ZenonT(60)
<1>4. CASE DaemonReadA
  <2>1. dsrv \in Worker
    BY <1>4, ZenonT(60) DEF DaemonReadA
  <2>2. Select(dsrv) \in DaemonCall
    BY <2>1, ZenonT(60) DEF Select, DaemonCall
  <2>3. Resolutions(unsent) \subseteq [w : Worker, cmd : Command, t : Txn]
    BY <2>2, ResolutionsType, ZenonT(60) DEF Resolutions
  <2>4. WorkerTypeOK'
    BY <1>4, <2>3, ZenonT(60) DEF DaemonReadA, WorkerTypeOK
  <2>5. dlink' \in [Worker -> LinkState]
    BY <1>4, ZenonT(60) DEF DaemonReadA, DlinkAfterConnect, DaemonTypeOK, LinkState
  <2>6. setA' \subseteq Txn
    BY <1>4, ZenonT(60) DEF DaemonReadA, PreparedOn
  <2> QED
    BY <1>4, <2>4, <2>5, <2>6, ZenonT(60) DEF DaemonReadA, DaemonTypeOK
<1>5. CASE DaemonReadB \/ DaemonReadC
  BY <1>5, ZenonT(60) DEF DaemonReadB, DaemonReadC, DaemonTypeOK, WorkerTypeOK, CNTypeOK, workerVars
<1>6. CASE DaemonReadD
  <2>1. dlink' \in [Worker -> LinkState]
    BY <1>6, ZenonT(60) DEF DaemonReadD, DlinkAfterConnect, DaemonTypeOK, LinkState
  <2> QED
    BY <1>6, <2>1, ZenonT(60) DEF DaemonReadD, PreparedOn, DaemonTypeOK, WorkerTypeOK, workerVars
<1>7. ASSUME NEW t \in Txn, DaemonSkipRecord(t)
      PROVE  DaemonTypeOK' /\ WorkerTypeOK'
  BY <1>7, ZenonT(60) DEF DaemonSkipRecord, DaemonTypeOK, WorkerTypeOK, workerVars
<1>8. ASSUME NEW t \in Txn, DaemonDeletesRecord(t)
      PROVE  DaemonTypeOK' /\ WorkerTypeOK'
  BY <1>8, SMTT(60) DEF DaemonDeletesRecord, DaemonTypeOK, WorkerTypeOK, workerVars
<1>9. CASE DaemonWakeUp \/ (\E w \in Worker : DaemonNextServer(w)) \/ DaemonEndOfRecords
  BY <1>9, ZenonT(60) DEF DaemonWakeUp, DaemonNextServer, DaemonEndOfRecords, DaemonTypeOK,
     WorkerTypeOK, workerVars
<1>10. CASE DaemonServerDone
  BY <1>10, ZenonT(60) DEF DaemonServerDone, LeaveServer, DaemonTypeOK, WorkerTypeOK, workerVars
<1>11. CASE DaemonPassEnd \/ DaemonExit
  BY <1>11, ZenonT(60) DEF DaemonPassEnd, DaemonExit, DlinkAfterConnect, LinkState, DaemonTypeOK,
     WorkerTypeOK, workerVars
<1> QED
  BY <1>1, <1>2, <1>3, <1>4, <1>5, <1>6, <1>7, <1>8, <1>9, <1>10, <1>11, ZenonT(60) DEF DaemonNext

(* Every step keeps the types of the daemon and of the workers.              *)
LEMMA DaemonTypeStep ==
  ASSUME TypeOK, AtWorker, [Next]_vars
  PROVE  DaemonTypeOK' /\ WorkerTypeOK'
<1>0. ConnTypeOK /\ DaemonTypeOK /\ WorkerTypeOK /\ CNTypeOK
  BY ZenonT(60) DEF TypeOK
<1>1. CASE DaemonNext
  BY <1>0, <1>1, DaemonTypeDaemon, ZenonT(60)
<1>2. ASSUME NEW b \in Backend, BackendNext(b)
      PROVE  UNCHANGED <<daemonVars, up, out>> /\ late' \subseteq late \cup UnderWay(Backend \X Worker)
  <2>1. ASSUME NEW t \in Txn, NEW lw \in BOOLEAN,
               CallMeta(b, t, lw) \/ CallMetaUnreachable(b, t, lw)
        PROVE  UNCHANGED <<daemonVars, workerVars>>
    BY <2>1, ZenonT(60) DEF CallMeta, CallMetaUnreachable
  <2>2. ASSUME NEW w \in Worker,
               \/ ReadAnswer(b, w) \/ RenameSubCreate(b, w) \/ ReadPrepareAnswer(b, w)
               \/ ReadCommitAnswer(b, w) \/ ReadAbortAnswer(b, w)
        PROVE  UNCHANGED <<daemonVars, workerVars>>
    BY <2>2, ZenonT(60) DEF ReadAnswer, RenameSubCreate, ReadPrepareAnswer, ReadCommitAnswer,
       ReadAbortAnswer
  <2>3. CASE PreCommitOnePhase(b) \/ PreCommitTwoPhase(b) \/ PrepareFailed(b)
    BY <2>3, ZenonT(60) DEF PreCommitOnePhase, PreCommitTwoPhase, PrepareFailed, workerVars
  <2>4. CASE Commit(b) \/ Abort(b) \/ EndTransaction(b)
    BY <2>4, ZenonT(60) DEF Commit, Abort, EndTransaction, workerVars
  <2>5. CASE BackendExit(b)
    BY <2>5, ZenonT(60) DEF BackendExit, UnderWay
  <2> QED
    BY <1>2, <2>1, <2>2, <2>3, <2>4, <2>5, ZenonT(60) DEF BackendNext, workerVars
<1>3. UnderWay(Backend \X Worker) \subseteq [w : Worker, cmd : Command, t : Txn]
  BY <1>0, UnderWayType, ZenonT(60)
<1>4. ASSUME NEW b \in Backend, BackendNext(b)
      PROVE  DaemonTypeOK' /\ WorkerTypeOK'
  <2>1. DaemonTypeOK'
    BY <1>0, <1>2, <1>4, ZenonT(60) DEF daemonVars, DaemonTypeOK
  <2>2. WorkerTypeOK'
    BY <1>0, <1>2, <1>3, <1>4, ZenonT(60) DEF WorkerTypeOK
  <2> QED
    BY <2>1, <2>2, ZenonT(60)
<1>5. CASE WorkerNext
  <2>1. ASSUME NEW b \in Backend, NEW w \in Worker, Exec(b, w)
        PROVE  WorkerTypeOK'
    BY <1>0, <2>1, ExecType, ZenonT(60)
  <2>2. ASSUME NEW w \in Worker, NEW t \in Txn, SessionEnd(t, w)
        PROVE  WorkerTypeOK'
    BY <1>0, <2>2, ZenonT(60) DEF SessionEnd, WorkerTypeOK, Fate
  <2>3. ASSUME NEW w \in Worker, WorkerRestart(w)
        PROVE  WorkerTypeOK'
    BY <1>0, <2>3, ZenonT(60) DEF WorkerRestart, WorkerTypeOK
  <2>4. ASSUME NEW m \in late, LateExec(m)
        PROVE  WorkerTypeOK'
    <3>1. m.t \in Txn /\ m.w \in Worker /\ out[m.t][m.w] \in Fate
      BY <1>0, ZenonT(60) DEF WorkerTypeOK
    <3>2. LateFates(m.cmd, out[m.t][m.w]) \subseteq Fate
      BY <3>1, ZenonT(60) DEF LateFates, Fate
    <3> QED
      BY <1>0, <2>4, <3>1, <3>2, SMTT(60) DEF LateExec, WorkerTypeOK
  <2> QED
    BY <1>0, <1>5, <2>1, <2>2, <2>3, <2>4, WorkerFrame, ZenonT(60)
    DEF WorkerNext, DaemonTypeOK, daemonVars
<1>6. CASE CNRestart
  BY <1>0, <1>3, <1>6, ZenonT(60) DEF CNRestart, DaemonTypeOK, WorkerTypeOK, LinkState
<1>7. ASSUME NEW w \in Worker, WorkerCrash(w)
      PROVE  DaemonTypeOK' /\ WorkerTypeOK'
  <2>1. WorkerTypeOK'
    BY <1>0, <1>7, ZenonT(60) DEF WorkerCrash, WorkerTypeOK, Fate
  <2>2. DaemonTypeOK'
    BY <1>0, <1>7, ZenonT(60) DEF WorkerCrash, DaemonTypeOK, LinkState
  <2> QED
    BY <2>1, <2>2, ZenonT(60)
<1>8. ASSUME NEW w \in Worker, DaemonBreak(w)
      PROVE  DaemonTypeOK' /\ WorkerTypeOK'
  BY <1>0, <1>8, ZenonT(60) DEF DaemonBreak, DaemonTypeOK, WorkerTypeOK, workerVars, LinkState
<1>9. ASSUME NEW b \in Backend, NEW w \in Worker, Break(b, w)
      PROVE  DaemonTypeOK' /\ WorkerTypeOK'
  <2>1. UnderWay({<<b, w>>}) \subseteq [w : Worker, cmd : Command, t : Txn]
    BY <1>0, UnderWayType, SMTT(60)
  <2> QED
    BY <1>0, <1>9, <2>1, ZenonT(60) DEF Break, DaemonTypeOK, WorkerTypeOK, daemonVars
<1>10. CASE FaultNext
  BY <1>6, <1>7, <1>8, <1>9, <1>10, FaultCases, ZenonT(60)
<1>11. CASE UNCHANGED vars
  BY <1>0, <1>11, ZenonT(60) DEF vars, daemonVars, workerVars, DaemonTypeOK, WorkerTypeOK
<1> QED
  BY <1>1, <1>4, <1>5, <1>10, <1>11, ZenonT(60) DEF Next

(* Faults stay within their bound.                                           *)
LEMMA FaultsTypeStep ==
  ASSUME TypeOK, [Next]_vars
  PROVE  faults' \in 0 .. MaxFaults
<1>1. ASSUME NEW b \in Backend, BackendNext(b)
      PROVE  faults' = faults
  <2>1. ASSUME NEW t \in Txn, NEW lw \in BOOLEAN,
               CallMeta(b, t, lw) \/ CallMetaUnreachable(b, t, lw)
        PROVE  faults' = faults
    BY <2>1, ZenonT(60) DEF CallMeta, CallMetaUnreachable
  <2>2. ASSUME NEW w \in Worker,
               \/ ReadAnswer(b, w) \/ RenameSubCreate(b, w) \/ ReadPrepareAnswer(b, w)
               \/ ReadCommitAnswer(b, w) \/ ReadAbortAnswer(b, w)
        PROVE  faults' = faults
    BY <2>2, ZenonT(60) DEF ReadAnswer, RenameSubCreate, ReadPrepareAnswer, ReadCommitAnswer,
       ReadAbortAnswer
  <2> QED
    BY <1>1, <2>1, <2>2, ZenonT(60) DEF BackendNext, PreCommitOnePhase, PreCommitTwoPhase,
       PrepareFailed, Commit, Abort, EndTransaction, BackendExit
<1>2. CASE FaultNext
  <2>1. faults' = faults \/ (faults < MaxFaults /\ faults' = faults + 1)
    BY <1>2, ZenonT(60) DEF FaultNext, CNCrash, AbortPanic, WorkerCrash, DaemonBreak, Break
  <2>2. faults \in 0 .. MaxFaults
    BY ZenonT(60) DEF TypeOK
  <2> QED
    BY <2>1, <2>2, MaxFaultsAssumption, SMTT(60)
<1> QED
  BY <1>1, <1>2, WorkerFrame, DaemonFrame, ZenonT(60) DEF Next, vars, TypeOK

-----------------------------------------------------------------------------
(* What every step does to the fates of a transaction, its records and its   *)
(* owner: the first conjuncts of IInv.                                       *)

(* A backend that is not idle has a transaction.                             *)
LEMMA OwnerHasTxn ==
  ASSUME TypeOK, OwnerInv
  PROVE  HasTxn
  BY ZenonT(60) DEF TypeOK, BackendTypeOK, OwnerInv, HasTxn

(* Every step keeps each transaction with one backend at most.               *)
LEMMA OwnerStep ==
  ASSUME TypeOK, OwnerInv, TxnInv, [Next]_vars
  PROVE  OwnerInv'
<1>0. HasTxn /\ BackendTypeOK /\ CNTypeOK
  BY OwnerHasTxn, ZenonT(60) DEF TypeOK
<1> USE DEF OwnerInv
<1>1. ASSUME NEW b \in Backend, NEW t \in Txn, NEW lw \in BOOLEAN,
             CallMeta(b, t, lw) \/ CallMetaUnreachable(b, t, lw)
      PROVE  OwnerInv'
  <2>1. pc[b] = "idle" /\ cn[t] = "new" /\ via[t] = "none" /\ t # NoTxn
    BY <1>1, NoTxnAssumption, ZenonT(60) DEF CallMeta, CallMetaUnreachable, TxnInv
  <2>2. /\ txn' = [txn EXCEPT ![b] = t] /\ cn' = [cn EXCEPT ![t] = "active"] /\ via' = via
        /\ pc' = [pc EXCEPT ![b] = "run"] \/ pc' = [pc EXCEPT ![b] = "error"]
    BY <1>1, ZenonT(60) DEF CallMeta, CallMetaUnreachable, cnVars
  <2>3. \A c \in Backend : txn[c] # t
    BY <1>0, <2>1, SMTT(60) DEF BackendTypeOK
  <2> QED
    BY <1>0, <2>1, <2>2, <2>3, SMTT(60) DEF BackendTypeOK, CNTypeOK
<1>2. ASSUME NEW b \in Backend, NEW w \in Worker,
             ReadAnswer(b, w) \/ RenameSubCreate(b, w)
      PROVE  OwnerInv'
  <2>1. pc[b] \in {"run", "run2"} /\ UNCHANGED <<txn, cn, via>>
    BY <1>2, ZenonT(60) DEF ReadAnswer, RenameSubCreate, cnVars
  <2>2. pc' = pc \/ pc' = [pc EXCEPT ![b] = "run2"] \/ pc' = [pc EXCEPT ![b] = "error"]
    BY <1>2, ZenonT(60) DEF ReadAnswer, RenameSubCreate
  <2> QED
    BY <1>0, <2>1, <2>2, SMTT(60) DEF BackendTypeOK
<1>3. ASSUME NEW b \in Backend, PreCommitOnePhase(b) \/ PreCommitTwoPhase(b)
      PROVE  OwnerInv'
  <2>1. pc[b] \in {"run", "run2"} /\ UNCHANGED <<txn, cn>>
    BY <1>3, ZenonT(60) DEF PreCommitOnePhase, PreCommitTwoPhase
  <2>2. pc' = [pc EXCEPT ![b] = "prepare"] \/ pc' = [pc EXCEPT ![b] = "error"]
    BY <1>3, ZenonT(60) DEF PreCommitOnePhase, PreCommitTwoPhase
  <2>3. PICK v \in {"onePhase", "twoPhase"} : via' = [via EXCEPT ![txn[b]] = v]
    BY <1>3, ZenonT(60) DEF PreCommitOnePhase, PreCommitTwoPhase
  <2> QED
    BY <1>0, <2>1, <2>2, <2>3, SMTT(60) DEF BackendTypeOK, CNTypeOK, HasTxn
<1>4. ASSUME NEW b \in Backend, PrepareFailed(b)
      PROVE  OwnerInv'
  BY <1>0, <1>4, SMTT(60) DEF PrepareFailed, cnVars, BackendTypeOK
<1>5. ASSUME NEW b \in Backend, Commit(b)
      PROVE  OwnerInv'
  <2>1. /\ pc[b] = "prepare" /\ UNCHANGED <<txn, via>> /\ pc' = [pc EXCEPT ![b] = "commit"]
        /\ cn' = [cn EXCEPT ![txn[b]] = "committed"]
    BY <1>5, ZenonT(60) DEF Commit
  <2> QED
    BY <1>0, <2>1, SMTT(60) DEF BackendTypeOK, CNTypeOK, HasTxn
<1>6. ASSUME NEW b \in Backend, Abort(b)
      PROVE  OwnerInv'
  <2>1. /\ pc[b] = "error" /\ UNCHANGED <<txn, via>> /\ pc' = [pc EXCEPT ![b] = "abort"]
        /\ cn' = [cn EXCEPT ![txn[b]] = "aborted"]
    BY <1>6, ZenonT(60) DEF Abort
  <2> QED
    BY <1>0, <2>1, SMTT(60) DEF BackendTypeOK, CNTypeOK, HasTxn
<1>7. ASSUME NEW b \in Backend, EndTransaction(b)
      PROVE  OwnerInv'
  BY <1>0, <1>7, SMTT(60) DEF EndTransaction, BackendTypeOK
<1>8. CASE CNRestart
  BY <1>8, ZenonT(60) DEF CNRestart
<1>9. CASE UNCHANGED <<pc, txn, cn, via>>
  BY <1>9, ZenonT(60)
<1>10. ASSUME NEW b \in Backend, NEW w \in Worker,
              ReadPrepareAnswer(b, w) \/ ReadCommitAnswer(b, w) \/ ReadAbortAnswer(b, w)
       PROVE  OwnerInv'
  BY <1>9, <1>10, ZenonT(60) DEF ReadPrepareAnswer, ReadCommitAnswer, ReadAbortAnswer, cnVars
<1>11. ASSUME NEW b \in Backend, BackendNext(b)
       PROVE  OwnerInv'
  BY <1>1, <1>2, <1>3, <1>4, <1>5, <1>6, <1>7, <1>9, <1>10, <1>11, ZenonT(60)
  DEF BackendNext, BackendExit, backendVars, cnVars
<1>12. CASE FaultNext
  BY <1>8, <1>9, <1>12, FaultCases, ZenonT(60) DEF WorkerCrash, DaemonBreak, Break, backendVars, cnVars
<1> QED
  BY <1>9, <1>11, <1>12, WorkerFrame, DaemonFrame, ZenonT(60) DEF Next, vars, backendVars, cnVars

(* The fate of a transaction on the CN, and how it got there, is settled     *)
(* once: only a backend that runs it, or a restart, changes it.              *)
CNSettled(t) ==
  /\ cn[t] # "new" => cn'[t] # "new" /\ fresh'[t] = fresh[t]
  /\ Decided(t) => cn'[t] = cn[t] /\ via'[t] = via[t]
  /\ via[t] # "none" => via'[t] = via[t]
  /\ cn'[t] = "new" => via'[t] = via[t]
  /\ cn'[t] = "committed" => cn[t] = "committed" \/ \E b \in Backend : txn[b] = t /\ Commit(b)

(* Every step keeps what is settled on the CN.                               *)
LEMMA CNStep ==
  ASSUME TypeOK, OwnerInv, [Next]_vars, NEW t \in Txn
  PROVE  CNSettled(t)
<1>0. HasTxn /\ BackendTypeOK /\ CNTypeOK
  BY OwnerHasTxn, ZenonT(60) DEF TypeOK
<1> USE DEF CNSettled, Decided
<1>1. ASSUME NEW b \in Backend, NEW s \in Txn, NEW lw \in BOOLEAN,
             CallMeta(b, s, lw) \/ CallMetaUnreachable(b, s, lw)
      PROVE  CNSettled(t)
  <2>1. cn[s] = "new" /\ cn' = [cn EXCEPT ![s] = "active"] /\ via' = via
    BY <1>1, ZenonT(60) DEF CallMeta, CallMetaUnreachable
  <2>2. \A r \in Txn : r # s => fresh'[r] = fresh[r]
    BY <1>0, <1>1, ZenonT(60) DEF CallMeta, CallMetaUnreachable, CNTypeOK
  <2> QED
    BY <1>0, <2>1, <2>2, ZenonT(60) DEF CNTypeOK
<1>2. ASSUME NEW b \in Backend, PreCommitOnePhase(b) \/ PreCommitTwoPhase(b)
      PROVE  CNSettled(t)
  <2>1. pc[b] \in {"run", "run2"} /\ UNCHANGED <<cn, fresh>>
    BY <1>2, ZenonT(60) DEF PreCommitOnePhase, PreCommitTwoPhase
  <2>2. \E v : via' = [via EXCEPT ![txn[b]] = v]
    BY <1>2, ZenonT(60) DEF PreCommitOnePhase, PreCommitTwoPhase
  <2>3. cn[txn[b]] = "active" /\ via[txn[b]] = "none"
    BY <2>1, ZenonT(60) DEF OwnerInv
  <2> QED
    BY <1>0, <2>1, <2>2, <2>3, ZenonT(60) DEF CNTypeOK
<1>3. ASSUME NEW b \in Backend, Commit(b) \/ Abort(b)
      PROVE  CNSettled(t)
  <2>1. pc[b] \in {"prepare", "error"} /\ UNCHANGED <<via, fresh>>
    BY <1>3, ZenonT(60) DEF Commit, Abort
  <2>2. cn[txn[b]] = "active" /\ txn[b] \in Txn
    BY <1>0, <2>1, ZenonT(60) DEF OwnerInv, HasTxn
  <2>3. \/ Commit(b) /\ cn' = [cn EXCEPT ![txn[b]] = "committed"]
        \/ cn' = [cn EXCEPT ![txn[b]] = "aborted"]
    BY <1>3, ZenonT(60) DEF Commit, Abort
  <2> QED
    BY <1>0, <2>1, <2>2, <2>3, SMTT(60) DEF CNTypeOK
<1>4. CASE CNRestart
  BY <1>0, <1>4, ZenonT(60) DEF CNRestart, CNTypeOK
<1>5. CASE UNCHANGED <<cn, via, fresh>>
  BY <1>5, ZenonT(60)
<1>6. ASSUME NEW b \in Backend, NEW w \in Worker,
             \/ ReadAnswer(b, w) \/ RenameSubCreate(b, w) \/ ReadPrepareAnswer(b, w)
             \/ ReadCommitAnswer(b, w) \/ ReadAbortAnswer(b, w)
      PROVE  CNSettled(t)
  BY <1>5, <1>6, ZenonT(60) DEF ReadAnswer, RenameSubCreate, ReadPrepareAnswer, ReadCommitAnswer,
     ReadAbortAnswer, cnVars
<1>7. ASSUME NEW b \in Backend, BackendNext(b)
      PROVE  CNSettled(t)
  BY <1>1, <1>2, <1>3, <1>5, <1>6, <1>7, ZenonT(60)
  DEF BackendNext, PrepareFailed, EndTransaction, BackendExit, cnVars
<1>8. CASE FaultNext
  BY <1>4, <1>5, <1>8, FaultCases, ZenonT(60) DEF WorkerCrash, DaemonBreak, Break, cnVars
<1> QED
  BY <1>5, <1>7, <1>8, WorkerFrame, DaemonFrame, ZenonT(60) DEF Next, vars, cnVars

(* How the fate of t on w may change in one step.                            *)
OutChange(t, w) ==
  out'[t][w] # out[t][w] =>
    /\ out'[t][w] # "none" /\ cn[t] # "new"
    /\ out'[t][w] = "prepared" => via[t] = "twoPhase"
    /\ out'[t][w] = "committed" /\ fresh[t] => cn[t] = "committed"
    /\ TwoPhase(t) /\ cn[t] = "committed" => out'[t][w] = "committed"
    /\ TwoPhase(t) => out[t][w] # "committed"
    /\ TwoPhase(t) /\ cn[t] = "active" /\ out[t][w] = "prepared" =>
          \E b \in Backend : txn[b] = t /\ req[b][w] # NoReq /\ Exec(b, w)

(* What executing the command on a connection does to the fates.             *)
LEMMA ExecOut ==
  ASSUME ConnTypeOK, WorkerTypeOK, NEW b \in Backend, NEW w \in Worker, Exec(b, w)
  PROVE  /\ req[b][w] # NoReq /\ req[b][w].t \in Txn
         /\ \A t \in Txn, x \in Worker :
               t # req[b][w].t \/ x # w => out'[t][x] = out[t][x]
         /\ LET g == out[req[b][w].t][w]
                f == out'[req[b][w].t][w]
                cmd == req[b][w].cmd
            IN  \/ f = g
                \/ cmd = "BEGIN" /\ f \in {"open", "aborted"}
                \/ cmd = "RUN" /\ f = "aborted"
                \/ cmd = "RUN" /\ sess[b][w] # req[b][w].t /\ f = "committed"
                \/ cmd = "PREPARE" /\ f \in {"prepared", "aborted"}
                \/ cmd = "COMMIT" /\ f = "committed"
                \/ cmd = "ROLLBACK" /\ f = "aborted"
                \/ cmd = "COMMIT PREPARED" /\ g = "prepared" /\ f = "committed"
                \/ cmd = "ROLLBACK PREPARED" /\ g = "prepared" /\ f = "aborted"
<1>1. req[b][w] # NoReq
  BY ZenonT(60) DEF Exec
<1>2. req[b][w].t \in Txn
  BY <1>1, ZenonT(60) DEF ConnTypeOK, Request
<1> DEFINE t == req[b][w].t
           g == out[t][w]
           cmd == req[b][w].cmd
           Ans(f) == \E s, a : Answer(b, w, f, s, a)
<1>3. \/ Ans(g)
      \/ cmd = "BEGIN" /\ (Ans("open") \/ Ans("aborted"))
      \/ cmd = "RUN" /\ Ans("aborted")
      \/ cmd = "RUN" /\ sess[b][w] # t /\ Ans("committed")
      \/ cmd = "PREPARE" /\ (Ans("prepared") \/ Ans("aborted"))
      \/ cmd = "COMMIT" /\ Ans("committed")
      \/ cmd = "ROLLBACK" /\ Ans("aborted")
      \/ cmd = "COMMIT PREPARED" /\ g = "prepared" /\ Ans("committed")
      \/ cmd = "ROLLBACK PREPARED" /\ g = "prepared" /\ Ans("aborted")
  BY ZenonT(60) DEF Exec
<1>4. ASSUME NEW f, Ans(f)
      PROVE  out'[t][w] = f /\ \A s \in Txn, x \in Worker :
                                   s # t \/ x # w => out'[s][x] = out[s][x]
  BY <1>2, <1>4, SMTT(60) DEF Answer, WorkerTypeOK
<1> HIDE DEF t, g, cmd, Ans
<1>5. \A s \in Txn, x \in Worker : s # t \/ x # w => out'[s][x] = out[s][x]
  BY <1>3, <1>4, ZenonT(60)
<1>6. LET f == out'[t][w]
      IN  \/ f = g
          \/ cmd = "BEGIN" /\ f \in {"open", "aborted"}
          \/ cmd = "RUN" /\ f = "aborted"
          \/ cmd = "RUN" /\ sess[b][w] # t /\ f = "committed"
          \/ cmd = "PREPARE" /\ f \in {"prepared", "aborted"}
          \/ cmd = "COMMIT" /\ f = "committed"
          \/ cmd = "ROLLBACK" /\ f = "aborted"
          \/ cmd = "COMMIT PREPARED" /\ g = "prepared" /\ f = "committed"
          \/ cmd = "ROLLBACK PREPARED" /\ g = "prepared" /\ f = "aborted"
  BY <1>3, <1>4, ZenonT(60)
<1> QED
  BY <1>1, <1>2, <1>5, <1>6, ZenonT(60) DEF t, g, cmd

(* A command executed on a connection changes fates only as OutChange says.  *)
LEMMA OutStepExec ==
  ASSUME IInv, NEW b \in Backend, NEW w \in Worker, Exec(b, w),
         NEW t \in Txn, NEW x \in Worker
  PROVE  OutChange(t, x)
<1>0. ConnTypeOK /\ WorkerTypeOK /\ CNTypeOK
  BY ZenonT(60) DEF IInv, TypeOK
<1>1. CASE t # req[b][w].t \/ x # w
  <2>0. \A s \in Txn, y \in Worker :
           s # req[b][w].t \/ y # w => out'[s][y] = out[s][y]
    BY <1>0, ExecOut, ZenonT(60)
  <2>1. out'[t][x] = out[t][x]
    BY <1>1, <2>0, ZenonT(60)
  <2> QED
    BY <2>1, ZenonT(60) DEF OutChange
<1>2. CASE t = req[b][w].t /\ x = w
  <2>1. /\ CommandInv(w, req[b][w].cmd, t)
        /\ req[b][w].cmd \in {"BEGIN", "RUN", "PREPARE"} =>
              txn[b] = t /\ cn[t] = "active"
        /\ req[b][w].cmd = "RUN" /\ fresh[t] => sess[b][w] = t
    <3>1. ReqInv /\ req[b][w] # NoReq
      BY ZenonT(60) DEF IInv, Exec
    <3> QED
      BY <1>2, <3>1, SMTT(60) DEF ReqInv, ReqOK
  <2>2. /\ fresh[t] /\ out[t][w] = "committed" => cn[t] = "committed"
        /\ out[t][w] = "prepared" => via[t] = "twoPhase"
    BY SMTT(60) DEF IInv, TxnInv
  <2> DEFINE cmd == req[b][w].cmd
  <2>3. LET g == out[t][w]
            f == out'[t][w]
        IN  \/ f = g
            \/ cmd = "BEGIN" /\ f \in {"open", "aborted"}
            \/ cmd = "RUN" /\ f = "aborted"
            \/ cmd = "RUN" /\ sess[b][w] # t /\ f = "committed"
            \/ cmd = "PREPARE" /\ f \in {"prepared", "aborted"}
            \/ cmd = "COMMIT" /\ f = "committed"
            \/ cmd = "ROLLBACK" /\ f = "aborted"
            \/ cmd = "COMMIT PREPARED" /\ g = "prepared" /\ f = "committed"
            \/ cmd = "ROLLBACK PREPARED" /\ g = "prepared" /\ f = "aborted"
    <3> HIDE DEF cmd
    <3>1. LET g == out[req[b][w].t][w]
              f == out'[req[b][w].t][w]
          IN  \/ f = g
              \/ cmd = "BEGIN" /\ f \in {"open", "aborted"}
              \/ cmd = "RUN" /\ f = "aborted"
              \/ cmd = "RUN" /\ sess[b][w] # req[b][w].t /\ f = "committed"
              \/ cmd = "PREPARE" /\ f \in {"prepared", "aborted"}
              \/ cmd = "COMMIT" /\ f = "committed"
              \/ cmd = "ROLLBACK" /\ f = "aborted"
              \/ cmd = "COMMIT PREPARED" /\ g = "prepared" /\ f = "committed"
              \/ cmd = "ROLLBACK PREPARED" /\ g = "prepared" /\ f = "aborted"
      BY <1>0, ExecOut, ZenonT(60) DEF cmd
    <3> QED
      BY <1>2, <3>1, ZenonT(60)
  <2>4. req[b][w] # NoReq
    BY ZenonT(60) DEF Exec
  <2> HIDE DEF cmd
  <2>5. CASE out'[t][w] # out[t][w] /\ TwoPhase(t) /\ cn[t] = "active" /\ out[t][w] = "prepared"
    <3>1. txn[b] = t
      BY <2>1, <2>3, <2>5, ZenonT(60) DEF CommandInv, cmd
    <3> QED
      BY <2>1, <2>3, <2>4, <2>5, <3>1, <1>2, ZenonT(60) DEF CommandInv, cmd, OutChange, TwoPhase
  <2>6. CASE ~(TwoPhase(t) /\ cn[t] = "active" /\ out[t][w] = "prepared")
    BY <1>2, <2>1, <2>2, <2>3, <2>6, ZenonT(60) DEF CommandInv, cmd, OutChange, TwoPhase
  <2> QED
    BY <1>2, <2>5, <2>6, ZenonT(60) DEF OutChange
<1> QED
  BY <1>1, <1>2, ZenonT(60)

(* Every step changes fates only as OutChange says.                          *)
LEMMA OutStep ==
  ASSUME IInv, [Next]_vars, NEW t \in Txn, NEW x \in Worker
  PROVE  OutChange(t, x)
<1>0. /\ ConnTypeOK /\ WorkerTypeOK /\ CNTypeOK /\ TxnInv /\ LateInv /\ DaemonInv
      /\ OwnerInv /\ AtomicCommit
  BY ZenonT(60) DEF IInv, TypeOK
<1>1. CASE UNCHANGED out
  BY <1>1, ZenonT(60) DEF OutChange
<1>2. ASSUME NEW b \in Backend, BackendNext(b)
      PROVE  UNCHANGED out
  <2>1. ASSUME NEW s \in Txn, NEW lw \in BOOLEAN,
               CallMeta(b, s, lw) \/ CallMetaUnreachable(b, s, lw)
        PROVE  UNCHANGED out
    BY <2>1, ZenonT(60) DEF CallMeta, CallMetaUnreachable, workerVars
  <2>2. ASSUME NEW w \in Worker,
               \/ ReadAnswer(b, w) \/ RenameSubCreate(b, w) \/ ReadPrepareAnswer(b, w)
               \/ ReadCommitAnswer(b, w) \/ ReadAbortAnswer(b, w)
        PROVE  UNCHANGED out
    BY <2>2, ZenonT(60) DEF ReadAnswer, RenameSubCreate, ReadPrepareAnswer, ReadCommitAnswer,
       ReadAbortAnswer, workerVars
  <2> QED
    BY <1>2, <2>1, <2>2, ZenonT(60) DEF BackendNext, PreCommitOnePhase, PreCommitTwoPhase,
       PrepareFailed, Commit, Abort, EndTransaction, BackendExit, workerVars
<1>3. ASSUME NEW b \in Backend, NEW w \in Worker, Exec(b, w)
      PROVE  OutChange(t, x)
  BY <1>3, OutStepExec, ZenonT(60)
<1>4. ASSUME NEW w \in Worker, NEW s \in Txn, SessionEnd(s, w)
      PROVE  OutChange(t, x)
  <2>1. out[s][w] = "open" /\ out' = [out EXCEPT ![s][w] = "aborted"]
    BY <1>4, ZenonT(60) DEF SessionEnd
  <2> QED
    BY <1>0, <2>1, SMTT(60) DEF OutChange, WorkerTypeOK, TxnInv, AtomicCommit, Agreement
<1>5. ASSUME NEW m \in late, LateExec(m)
      PROVE  OutChange(t, x)
  <2>1. m.t \in Txn /\ m.w \in Worker
    BY <1>0, ZenonT(60) DEF WorkerTypeOK
  <2>2. PICK f \in LateFates(m.cmd, out[m.t][m.w]) : out' = [out EXCEPT ![m.t][m.w] = f]
    BY <1>5, ZenonT(60) DEF LateExec
  <2>3. CASE t # m.t \/ x # m.w
    BY <1>0, <2>1, <2>2, <2>3, ZenonT(60) DEF WorkerTypeOK, OutChange
  <2>4. CASE t = m.t /\ x = m.w
    <3>1. /\ CommandInv(x, m.cmd, t)
          /\ m.cmd = "RUN" /\ fresh[t] => out[t][x] # "none"
      BY <1>0, <2>4, ZenonT(60) DEF LateInv
    <3>2. out'[t][x] = f
      BY <1>0, <2>1, <2>2, <2>4, ZenonT(60) DEF WorkerTypeOK
    <3>3. \/ f = out[t][x]
          \/ m.cmd = "BEGIN" /\ out[t][x] = "none" /\ f = "aborted"
          \/ m.cmd = "RUN" /\ out[t][x] = "none" /\ f = "committed"
          \/ m.cmd = "PREPARE" /\ out[t][x] = "open" /\ f = "prepared"
          \/ m.cmd = "COMMIT" /\ out[t][x] = "open" /\ f = "committed"
          \/ m.cmd = "COMMIT PREPARED" /\ out[t][x] = "prepared" /\ f = "committed"
          \/ m.cmd = "ROLLBACK PREPARED" /\ out[t][x] = "prepared" /\ f = "aborted"
      BY <2>2, <2>4, ZenonT(60) DEF LateFates
    <3>4. TwoPhase(t) /\ cn[t] = "committed" => out[t][x] \in {"prepared", "committed"}
      BY <1>0, ZenonT(60) DEF AtomicCommit, Agreement
    <3> QED
      BY <3>1, <3>2, <3>3, <3>4, ZenonT(60) DEF OutChange, CommandInv
  <2> QED
    BY <2>3, <2>4, ZenonT(60)
<1>6. CASE WorkerNext
  BY <1>1, <1>3, <1>4, <1>5, <1>6, ZenonT(60) DEF WorkerNext, WorkerRestart
<1>7. ASSUME NEW w \in Worker, WorkerCrash(w)
      PROVE  OutChange(t, x)
  <2>1. out'[t][x] = out[t][x] \/ (out[t][x] = "open" /\ out'[t][x] = "aborted")
    BY <1>0, <1>7, ZenonT(60) DEF WorkerCrash, WorkerTypeOK
  <2> QED
    BY <1>0, <2>1, ZenonT(60) DEF OutChange, TxnInv, AtomicCommit, Agreement
<1>8. CASE FaultNext
  BY <1>1, <1>7, <1>8, FaultCases, ZenonT(60) DEF CNRestart, DaemonBreak, Break, workerVars
<1>9. ASSUME NEW s \in Txn, DaemonCommits(s)
      PROVE  OutChange(t, x)
  <2>1. s \in setC /\ Resolve(s, "committed") /\ dsrv \in Worker
    BY <1>0, <1>9, ZenonT(60) DEF DaemonCommits, DaemonInv, SetInv
  <2>2. cn[s] = "committed"
    BY <1>0, <2>1, ZenonT(60) DEF DaemonInv, SetInv
  <2>3. out' = out \/ (out[s][dsrv] = "prepared" /\ out' = [out EXCEPT ![s][dsrv] = "committed"])
    BY <2>1, ZenonT(60) DEF Resolve
  <2> QED
    BY <1>0, <1>1, <2>1, <2>2, <2>3, SMTT(60) DEF OutChange, WorkerTypeOK
<1>10. ASSUME NEW s \in Txn, DaemonRollsBack(s)
       PROVE  OutChange(t, x)
  <2>1. dpc = "rollback" /\ s \in setA \ setB /\ Resolve(s, "aborted") /\ dsrv \in Worker
    BY <1>0, <1>10, ZenonT(60) DEF DaemonRollsBack, DaemonInv, SetInv
  <2>2. Decided(s) /\ ~(TwoPhase(s) /\ cn[s] = "committed" /\ out[s][dsrv] = "prepared")
    BY <1>0, <2>1, ZenonT(60) DEF DaemonInv, SetInv
  <2>3. out' = out \/ (out[s][dsrv] = "prepared" /\ out' = [out EXCEPT ![s][dsrv] = "aborted"])
    BY <2>1, ZenonT(60) DEF Resolve
  <2> QED
    BY <1>0, <1>1, <2>1, <2>2, <2>3, SMTT(60) DEF OutChange, WorkerTypeOK, Decided
<1>11. CASE DaemonNext
  <2>1. ASSUME NEW m, DaemonCallFails(m)
        PROVE  UNCHANGED out
    BY <2>1, ZenonT(60) DEF DaemonCallFails
  <2> QED
    BY <1>1, <1>9, <1>10, <1>11, <2>1, ZenonT(60) DEF DaemonNext, DaemonSkipRecord, DaemonDeletesRecord,
       DaemonCommitFails, DaemonRollbackFails, DaemonReadA, DaemonReadB, DaemonReadC,
       DaemonReadD, DaemonReadAFails, DaemonReadDFails, DaemonWakeUp, DaemonNextServer,
       DaemonEndOfRecords, DaemonServerDone, DaemonPassEnd, DaemonExit, workerVars
<1> QED
  BY <1>1, <1>2, <1>6, <1>8, <1>11, ZenonT(60) DEF Next, vars, workerVars

(* Records and the in-progress set follow the fate on the CN.                *)
RecordChange(t) ==
  /\ cn'[t] = "active" /\ via'[t] = "twoPhase" => t \in inprogress'
  /\ \A w \in Worker :
        /\ <<w, t>> \in record' => <<w, t>> \in record \/ cn'[t] = "committed"
        /\ <<w, t>> \in record => <<w, t>> \in record' \/ <<w, t>> \in dele

(* Every step changes the records only as RecordChange says.                 *)
LEMMA RecordStep ==
  ASSUME TypeOK, OwnerInv, TxnInv, [Next]_vars, NEW t \in Txn
  PROVE  RecordChange(t)
<1>0. HasTxn /\ BackendTypeOK /\ CNTypeOK
  BY OwnerHasTxn, ZenonT(60) DEF TypeOK
<1>1. /\ cn[t] = "new" => via[t] = "none"
      /\ cn[t] = "active" /\ via[t] = "twoPhase" => t \in inprogress
  BY ZenonT(60) DEF TxnInv
<1> USE DEF RecordChange
<1>2. CASE UNCHANGED <<cn, via, inprogress, record>>
  BY <1>1, <1>2, ZenonT(60)
<1>3. ASSUME NEW b \in Backend, NEW s \in Txn, NEW lw \in BOOLEAN,
             CallMeta(b, s, lw) \/ CallMetaUnreachable(b, s, lw)
      PROVE  RecordChange(t)
  <2>1. cn[s] = "new" /\ cn' = [cn EXCEPT ![s] = "active"] /\ UNCHANGED <<via, inprogress, record>>
    BY <1>3, ZenonT(60) DEF CallMeta, CallMetaUnreachable
  <2> QED
    BY <1>0, <1>1, <2>1, ZenonT(60) DEF CNTypeOK
<1>4. ASSUME NEW b \in Backend, PreCommitOnePhase(b) \/ PreCommitTwoPhase(b)
      PROVE  RecordChange(t)
  <2>1. txn[b] \in Txn /\ UNCHANGED <<cn, record>>
    BY <1>0, <1>4, ZenonT(60) DEF PreCommitOnePhase, PreCommitTwoPhase, HasTxn
  <2>2. \/ via' = [via EXCEPT ![txn[b]] = "onePhase"] /\ inprogress' = inprogress
        \/ via' = [via EXCEPT ![txn[b]] = "twoPhase"] /\ inprogress' = inprogress \cup {txn[b]}
    BY <1>4, ZenonT(60) DEF PreCommitOnePhase, PreCommitTwoPhase
  <2> QED
    BY <1>0, <1>1, <2>1, <2>2, ZenonT(60) DEF CNTypeOK
<1>5. ASSUME NEW b \in Backend, Commit(b)
      PROVE  RecordChange(t)
  <2>1. txn[b] \in Txn
    BY <1>0, <1>5, ZenonT(60) DEF Commit, HasTxn
  <2>2. /\ cn' = [cn EXCEPT ![txn[b]] = "committed"] /\ UNCHANGED <<via, inprogress>>
        /\ record' = record \cup (rows[b] \X {txn[b]})
    BY <1>5, ZenonT(60) DEF Commit
  <2> QED
    BY <1>0, <1>1, <2>1, <2>2, ZenonT(60) DEF CNTypeOK
<1>6. ASSUME NEW b \in Backend, Abort(b)
      PROVE  RecordChange(t)
  <2>1. cn' = [cn EXCEPT ![txn[b]] = "aborted"] /\ UNCHANGED <<via, inprogress, record>>
    BY <1>6, ZenonT(60) DEF Abort
  <2> QED
    BY <1>0, <1>1, <2>1, ZenonT(60) DEF CNTypeOK
<1>7. ASSUME NEW b \in Backend, EndTransaction(b)
      PROVE  RecordChange(t)
  <2>1. pc[b] \in {"commit", "abort"} /\ UNCHANGED <<cn, via, record>>
        /\ inprogress' = inprogress \ {txn[b]}
    BY <1>7, ZenonT(60) DEF EndTransaction
  <2>2. cn[txn[b]] # "active"
    BY <2>1, ZenonT(60) DEF OwnerInv
  <2> QED
    BY <1>1, <2>1, <2>2, ZenonT(60)
<1>8. CASE CNRestart
  BY <1>0, <1>8, ZenonT(60) DEF CNRestart, CNTypeOK
<1>9. ASSUME NEW b \in Backend, NEW w \in Worker,
             \/ ReadAnswer(b, w) \/ RenameSubCreate(b, w) \/ ReadPrepareAnswer(b, w)
             \/ ReadCommitAnswer(b, w) \/ ReadAbortAnswer(b, w)
      PROVE  RecordChange(t)
  BY <1>2, <1>9, ZenonT(60) DEF ReadAnswer, RenameSubCreate, ReadPrepareAnswer, ReadCommitAnswer,
     ReadAbortAnswer, cnVars
<1>10. ASSUME NEW b \in Backend, BackendNext(b)
       PROVE  RecordChange(t)
  BY <1>2, <1>3, <1>4, <1>5, <1>6, <1>7, <1>9, <1>10, ZenonT(60)
  DEF BackendNext, PrepareFailed, BackendExit, cnVars
<1>11. CASE FaultNext
  BY <1>2, <1>8, <1>11, FaultCases, ZenonT(60) DEF WorkerCrash, DaemonBreak, Break, cnVars
<1>12. CASE DaemonNext
  <2>1. UNCHANGED <<cn, via, inprogress>>
    BY <1>12, DaemonFrame, ZenonT(60)
  <2>2. record' = record \/ record' = record \ dele
    <3>1. ASSUME NEW m, DaemonCallFails(m)
          PROVE  record' = record
      BY <3>1, ZenonT(60) DEF DaemonCallFails, cnVars
    <3>2. ASSUME NEW s \in Txn, DaemonCommits(s) \/ DaemonRollsBack(s)
          PROVE  record' = record
      BY <3>2, ZenonT(60) DEF DaemonCommits, DaemonRollsBack, Resolve, cnVars
    <3> QED
      BY <1>12, <3>1, <3>2, ZenonT(60) DEF DaemonNext, cnVars, DaemonSkipRecord, DaemonDeletesRecord,
         DaemonCommitFails, DaemonRollbackFails, DaemonReadA, DaemonReadB, DaemonReadC,
         DaemonReadD, DaemonReadAFails, DaemonReadDFails, DaemonWakeUp, DaemonNextServer,
         DaemonEndOfRecords, DaemonServerDone, DaemonPassEnd, DaemonExit
  <2> QED
    BY <1>1, <2>1, <2>2, ZenonT(60)
<1> QED
  BY <1>2, <1>10, <1>11, <1>12, WorkerFrame, ZenonT(60) DEF Next, vars, cnVars

(* Every step keeps what is known of single transactions.                    *)
LEMMA TxnStep ==
  ASSUME IInv, [Next]_vars
  PROVE  TxnInv'
<1>0. TypeOK /\ OwnerInv /\ TxnInv
  BY ZenonT(60) DEF IInv
<1> SUFFICES ASSUME NEW t \in Txn, NEW w \in Worker
             PROVE  /\ cn'[t] = "new" => via'[t] = "none" /\ out'[t][w] = "none"
                    /\ cn'[t] = "active" /\ via'[t] = "twoPhase" => t \in inprogress'
                    /\ out'[t][w] = "prepared" => via'[t] = "twoPhase"
                    /\ <<w, t>> \in record' => cn'[t] = "committed"
                    /\ fresh'[t] /\ out'[t][w] = "committed" => cn'[t] = "committed"
  BY WorkerAssumption, ZenonT(60) DEF TxnInv
<1>1. CNSettled(t) /\ OutChange(t, w) /\ RecordChange(t)
  BY <1>0, CNStep, OutStep, RecordStep, ZenonT(60)
<1>2. /\ cn[t] = "new" => via[t] = "none" /\ out[t][w] = "none"
      /\ out[t][w] = "prepared" => via[t] = "twoPhase"
      /\ <<w, t>> \in record => cn[t] = "committed"
      /\ fresh[t] /\ out[t][w] = "committed" => cn[t] = "committed"
  BY <1>0, SMTT(60) DEF TxnInv
<1> QED
  BY <1>1, <1>2, ZenonT(60) DEF CNSettled, OutChange, RecordChange, Decided

(* At the moment of the commit every worker is prepared and has its row.     *)
LEMMA CommitPoint ==
  ASSUME IInv, NEW b \in Backend, Commit(b), TwoPhase(txn[b]), NEW w \in Worker
  PROVE  /\ out'[txn[b]][w] = "prepared"
         /\ <<w, txn[b]>> \in record'
<1>1. pc[b] = "prepare" /\ todo[b] = {} /\ ~failed[b]
  BY ZenonT(60) DEF Commit
<1>2. out[txn[b]][w] = "prepared" /\ w \in rows[b]
  BY <1>1, SMTT(60) DEF IInv, PhaseInv, PhaseOK, PrepareOK
<1>3. out' = out /\ record' = record \cup (rows[b] \X {txn[b]})
  BY ZenonT(60) DEF Commit, workerVars
<1> QED
  BY <1>2, <1>3, ZenonT(60)

(* Every step keeps the agreement of the CN and the workers, and the records *)
(* of transactions in doubt.                                                 *)
LEMMA AtomicStep ==
  ASSUME IInv, [Next]_vars
  PROVE  AtomicCommit' /\ InDoubtHasRecord'
<1>0. TypeOK /\ OwnerInv /\ TxnInv /\ AtomicCommit /\ InDoubtHasRecord /\ DaemonInv
  BY ZenonT(60) DEF IInv
<1>1. TxnInv'
  BY TxnStep, ZenonT(60)
<1>2. ASSUME NEW t \in Txn, NEW w \in Worker, TwoPhase(t)', cn'[t] = "committed"
      PROVE  /\ out'[t][w] \in {"prepared", "committed"}
             /\ out'[t][w] = "prepared" => <<w, t>> \in record'
  <2>1. CNSettled(t) /\ OutChange(t, w) /\ RecordChange(t)
    BY <1>0, CNStep, OutStep, RecordStep, ZenonT(60)
  <2>2. CASE cn[t] = "committed"
    <3>1. TwoPhase(t)
      BY <1>2, <2>1, <2>2, ZenonT(60) DEF CNSettled, TwoPhase, Decided
    <3>2. /\ out[t][w] \in {"prepared", "committed"}
          /\ out[t][w] = "prepared" => <<w, t>> \in record
      BY <1>0, <2>2, <3>1, ZenonT(60) DEF AtomicCommit, Agreement, InDoubtHasRecord
    <3>3. <<w, t>> \in dele => out[t][w] = "committed"
      BY <1>0, <3>1, ZenonT(60) DEF DaemonInv
    <3> QED
      BY <2>1, <2>2, <3>1, <3>2, <3>3, ZenonT(60) DEF OutChange, RecordChange
  <2>3. CASE cn[t] # "committed"
    <3>1. PICK b \in Backend : txn[b] = t /\ Commit(b)
      BY <1>2, <2>1, <2>3, ZenonT(60) DEF CNSettled
    <3>2. TwoPhase(t)
      BY <1>2, <3>1, ZenonT(60) DEF Commit, TwoPhase
    <3> QED
      BY <3>1, <3>2, CommitPoint, ZenonT(60)
  <2> QED
    BY <2>2, <2>3, ZenonT(60)
<1>3. ASSUME NEW t \in Txn, NEW w \in Worker, TwoPhase(t)', out'[t][w] = "committed"
      PROVE  cn'[t] = "committed"
  BY <1>1, <1>3, ZenonT(60) DEF TxnInv, TwoPhase
<1>4. AtomicCommit'
  BY <1>2, <1>3, ZenonT(60) DEF AtomicCommit, Agreement, TwoPhase
<1>5. InDoubtHasRecord'
  BY <1>2, ZenonT(60) DEF InDoubtHasRecord, TwoPhase
<1> QED
  BY <1>4, <1>5, ZenonT(60)

(* Wherever a command is, it stays as harmless as it was.                    *)
LEMMA CommandStep ==
  ASSUME IInv, [Next]_vars, NEW w \in Worker, NEW cmd, NEW t \in Txn,
         CommandInv(w, cmd, t)
  PROVE  CommandInv(w, cmd, t)'
<1>1. CNSettled(t) /\ OutChange(t, w)
  BY CNStep, OutStep, ZenonT(60) DEF IInv
<1>2. TwoPhase(t)' /\ Decided(t) => TwoPhase(t)
  BY <1>1, ZenonT(60) DEF CNSettled, TwoPhase, CommandInv, Decided
<1>3. cmd = "ROLLBACK PREPARED" =>
         Decided(t)' /\ (TwoPhase(t)' => cn'[t] = "aborted" \/ out'[t][w] = "committed")
  BY <1>1, <1>2, ZenonT(60) DEF CNSettled, OutChange, CommandInv, Decided
<1> QED
  BY <1>1, <1>2, <1>3, ZenonT(60) DEF CommandInv, CNSettled, Decided
=============================================================================
