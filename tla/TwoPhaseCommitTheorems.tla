----------------------- MODULE TwoPhaseCommitTheorems -----------------------
(***************************************************************************)
(* Every step of TwoPhaseCommit keeps the commands in order: those on the  *)
(* connections of the backends, and those that still travel when their     *)
(* connection is gone.  Then the rest of the inductive invariant, and the  *)
(* theorems, for any number of workers, backends, transactions and faults. *)
(***************************************************************************)
EXTENDS TwoPhaseCommitProofs

-----------------------------------------------------------------------------
(* The commands on the connections.                                          *)

(* A backend that stays in its phase, or moves on among those before the     *)
(* decision, keeps what is on its connections in order.                      *)
LEMMA ReqKept ==
  ASSUME IInv, [Next]_vars, NEW b \in Backend, NEW w \in Worker,
         req[b][w] # NoReq,
         req'[b][w] = req[b][w], sess'[b][w] = sess[b][w], txn'[b] = txn[b],
         link'[b][w] = link[b][w],
         \/ pc'[b] = pc[b] /\ rep'[b][w] = rep[b][w] /\ (w \in todo[b] => w \in todo'[b])
         \/ pc'[b] = pc[b] /\ pc[b] \in {"commit", "abort"}
         \/ pc'[b] = "error"
  PROVE  ReqOK(b, w)'
<1>0. TypeOK /\ OwnerInv /\ OwnerInv' /\ ConnTypeOK /\ ReqOK(b, w)
  BY OwnerStep, ZenonT(60) DEF IInv, TypeOK, ReqInv
<1>1. req[b][w].t \in Txn /\ req[b][w].t # NoTxn
  BY <1>0, NoTxnAssumption, SMTT(60) DEF ConnTypeOK, Request
<1>2. CNSettled(req[b][w].t)
  BY <1>0, <1>1, CNStep, ZenonT(60)
<1>3. CommandInv(w, req[b][w].cmd, req[b][w].t)'
  BY <1>0, <1>1, CommandStep, ZenonT(60) DEF ReqOK
<1>4. \/ txn'[b] = req[b][w].t
      \/ pc'[b] \in {"idle", "error"} /\ Decided(req[b][w].t)'
  BY <1>0, <1>2, ZenonT(60) DEF ReqOK, CNSettled, Decided
<1>5. req[b][w].cmd \in {"BEGIN", "RUN", "PREPARE"} =>
         txn'[b] = req[b][w].t /\ cn'[req[b][w].t] = "active"
  <2> SUFFICES ASSUME req[b][w].cmd \in {"BEGIN", "RUN", "PREPARE"}
               PROVE  cn'[txn[b]] = "active"
    BY <1>0, ZenonT(60) DEF ReqOK
  <2>1. txn[b] = req[b][w].t /\ cn[txn[b]] = "active"
    BY <1>0, ZenonT(60) DEF ReqOK
  <2>2. pc[b] \in {"run", "run2", "prepare", "error"}
    BY <1>0, <1>1, <2>1, SMTT(60) DEF OwnerInv, TypeOK, BackendTypeOK
  <2> QED
    BY <1>0, <2>2, SMTT(60) DEF OwnerInv
<1>6. req[b][w].cmd = "RUN" /\ fresh'[req[b][w].t] => sess'[b][w] = req[b][w].t
  BY <1>0, <1>2, ZenonT(60) DEF ReqOK, CommandInv, CNSettled
<1>7. pc'[b] \in {"run", "run2", "prepare"} => w \in todo'[b] /\ rep'[b][w] = "none"
  BY <1>0, ZenonT(60) DEF ReqOK
<1> QED
  BY <1>0, <1>3, <1>4, <1>5, <1>6, <1>7, ZenonT(60) DEF ReqOK, Decided

(* What a backend sends is in order at once. *)
LEMMA ReqCallMeta ==
  ASSUME IInv, NEW b \in Backend, NEW t \in Txn, NEW lw \in BOOLEAN,
         CallMeta(b, t, lw), NEW w \in Worker, req'[b][w] # NoReq
  PROVE  ReqOK(b, w)'
<1>0. BackendTypeOK /\ ConnTypeOK /\ CNTypeOK
  BY ZenonT(60) DEF IInv, TypeOK
<1> DEFINE l == LinkAfterConnect(b)
           c == ConnAfterConnect(b)
           cmd == [x \in Worker |-> IF c[x] = "NONE" THEN "BEGIN" ELSE "RUN"]
<1>1. \/ /\ req' = [req EXCEPT ![b] = Sent(b, t, Worker, l, cmd)]
         /\ pc' = [pc EXCEPT ![b] = "run"] /\ todo' = [todo EXCEPT ![b] = Worker]
         /\ link' = [link EXCEPT ![b] = l]
      \/ \E x \in Worker, S \in SUBSET Worker :
         /\ req' = [req EXCEPT ![b] = Sent(b, t, S, l, cmd)]
         /\ pc' = [pc EXCEPT ![b] = "error"]
         /\ l[x] = "broken"
         /\ link' = [link EXCEPT ![b] = [l EXCEPT ![x] = "bad"]]
  BY ZenonT(60) DEF CallMeta
<1>2. /\ req[b][w] = NoReq /\ txn' = [txn EXCEPT ![b] = t]
      /\ cn' = [cn EXCEPT ![t] = "active"] /\ rep' = [rep EXCEPT ![b] = [x \in Worker |-> "none"]]
      /\ fresh' = [fresh EXCEPT ![t] = \A x \in Worker : c[x] = "NONE"]
  BY ZenonT(60) DEF CallMeta, NothingUnderWay
<1>3. l \in [Worker -> LinkState] /\ c \in [Worker -> ConnState]
  BY <1>0, ConnectType, ZenonT(60)
<1>4. cmd[w] = IF c[w] = "NONE" THEN "BEGIN" ELSE "RUN"
  BY ZenonT(60)
<1> HIDE DEF l, c, cmd
<1>5. l[w] = "good" /\ req'[b][w] = [cmd |-> cmd[w], t |-> t] /\ link'[b][w] = "good"
  BY <1>0, <1>1, <1>2, <1>3, SMTT(60) DEF Sent, ConnTypeOK
<1>6. pc'[b] \in {"run", "error"} /\ (pc'[b] = "run" => w \in todo'[b]) /\ rep'[b][w] = "none"
  BY <1>0, <1>1, <1>2, ZenonT(60) DEF BackendTypeOK, ConnTypeOK
<1>7. txn'[b] = t /\ cn'[t] = "active"
  BY <1>0, <1>2, ZenonT(60) DEF BackendTypeOK, CNTypeOK
<1>8. fresh'[t] => c[w] = "NONE"
  BY <1>0, <1>2, ZenonT(60) DEF CNTypeOK
<1>9. req'[b][w].cmd = cmd[w] /\ req'[b][w].t = t
  BY <1>5, SMTT(60)
<1>10. cmd[w] \in {"BEGIN", "RUN"} /\ ~(cmd[w] = "RUN" /\ fresh'[t])
  BY <1>4, <1>8, ZenonT(60)
<1> QED
  BY <1>5, <1>6, <1>7, <1>9, <1>10, ZenonT(60) DEF ReqOK, CommandInv

(* The second round of a rename sends RUN, in a block if the connections     *)
(* were fresh.                                                               *)
LEMMA ReqRenameSubCreate ==
  ASSUME IInv, [Next]_vars, NEW b \in Backend, NEW v \in Worker, RenameSubCreate(b, v),
         NEW w \in Worker, req'[b][w] # NoReq
  PROVE  ReqOK(b, w)'
<1>0. /\ BackendTypeOK /\ ConnTypeOK /\ CNTypeOK /\ OwnerInv /\ OwnerInv' /\ HasTxn
      /\ PhaseInv /\ ReqInv
  BY OwnerStep, OwnerHasTxn, ZenonT(60) DEF IInv, TypeOK
<1>1. /\ pc[b] = "run" /\ todo[b] = {} /\ pc' = [pc EXCEPT ![b] = "run2"]
      /\ todo' = [todo EXCEPT ![b] = {v}]
      /\ req' = [req EXCEPT ![b] = Sent(b, txn[b], {v}, link[b], Same("RUN"))]
      /\ UNCHANGED <<txn, link, rep, sess, cn, via, fresh>>
  BY ZenonT(60) DEF RenameSubCreate, cnVars
<1>2. req[b][w] = NoReq /\ rep[b][w] = "none"
  BY <1>0, <1>1, SMTT(60) DEF ReqInv, ReqOK, PhaseInv, PhaseOK
<1>3. w = v /\ link[b][w] = "good" /\ req'[b][w] = [cmd |-> "RUN", t |-> txn[b]]
  BY <1>0, <1>1, <1>2, ZenonT(60) DEF Sent, Same, ConnTypeOK
<1>4. fresh[txn[b]] => sess[b][w] = txn[b]
  BY <1>0, <1>1, <1>2, <1>3, ZenonT(60) DEF PhaseInv, PhaseOK, RunOK
<1>5. cn[txn[b]] = "active"
  BY <1>0, <1>1, ZenonT(60) DEF OwnerInv
<1>6. pc'[b] = "run2" /\ w \in todo'[b]
  BY <1>0, <1>1, <1>3, ZenonT(60) DEF BackendTypeOK
<1>7. req'[b][w].cmd = "RUN" /\ req'[b][w].t = txn[b]
  BY <1>3, SMTT(60)
<1> QED
  BY <1>1, <1>2, <1>3, <1>4, <1>5, <1>6, <1>7, ZenonT(60) DEF ReqOK, CommandInv

(* PREPARE is sent only by the owner of an undecided transaction.            *)
LEMMA ReqPreCommitTwoPhase ==
  ASSUME IInv, [Next]_vars, NEW b \in Backend, PreCommitTwoPhase(b),
         NEW w \in Worker, req'[b][w] # NoReq
  PROVE  ReqOK(b, w)'
<1>0. /\ BackendTypeOK /\ ConnTypeOK /\ CNTypeOK /\ OwnerInv /\ HasTxn
      /\ PhaseInv /\ ReqInv
  BY OwnerHasTxn, ZenonT(60) DEF IInv, TypeOK
<1>1. /\ pc[b] \in {"run", "run2"} /\ todo[b] = {}
      /\ via' = [via EXCEPT ![txn[b]] = "twoPhase"]
      /\ UNCHANGED <<txn, rep, sess, cn, fresh>>
  BY ZenonT(60) DEF PreCommitTwoPhase
<1>2. \/ /\ req' = [req EXCEPT ![b] =
                     Sent(b, txn[b], Writers(b), link[b], Same("PREPARE"))]
         /\ pc' = [pc EXCEPT ![b] = "prepare"] /\ todo' = [todo EXCEPT ![b] = Writers(b)]
         /\ link' = link
      \/ \E x \in Writers(b), S \in SUBSET Writers(b) :
         /\ link[b][x] = "broken"
         /\ req' = [req EXCEPT ![b] = Sent(b, txn[b], S, link[b], Same("PREPARE"))]
         /\ link' = [link EXCEPT ![b][x] = "bad"]
         /\ pc' = [pc EXCEPT ![b] = "error"]
  BY ZenonT(60) DEF PreCommitTwoPhase
<1>3. req[b][w] = NoReq /\ rep[b][w] = "none"
  BY <1>0, <1>1, SMTT(60) DEF ReqInv, ReqOK, PhaseInv, PhaseOK
<1>4. /\ link[b][w] = "good" /\ req'[b][w] = [cmd |-> "PREPARE", t |-> txn[b]]
      /\ link'[b][w] = "good"
  BY <1>0, <1>2, <1>3, SMTT(60) DEF Sent, Same, ConnTypeOK, Writers
<1>5. pc'[b] = "error" \/ (pc'[b] = "prepare" /\ w \in todo'[b])
  BY <1>0, <1>2, <1>3, SMTT(60) DEF Sent, ConnTypeOK, BackendTypeOK
<1>6. cn[txn[b]] = "active" /\ via'[txn[b]] = "twoPhase"
  BY <1>0, <1>1, ZenonT(60) DEF OwnerInv, HasTxn, CNTypeOK
<1>7. req'[b][w].cmd = "PREPARE" /\ req'[b][w].t = txn[b]
  BY <1>4, SMTT(60)
<1> QED
  BY <1>1, <1>3, <1>4, <1>5, <1>6, <1>7, ZenonT(60) DEF ReqOK, CommandInv

(* What is sent after the commit is sent for a committed transaction.        *)
LEMMA ReqCommit ==
  ASSUME IInv, [Next]_vars, NEW b \in Backend, Commit(b),
         NEW w \in Worker, req'[b][w] # NoReq
  PROVE  ReqOK(b, w)'
<1>0. /\ BackendTypeOK /\ ConnTypeOK /\ CNTypeOK /\ OwnerInv /\ HasTxn
      /\ PhaseInv /\ ReqInv
  BY OwnerHasTxn, ZenonT(60) DEF IInv, TypeOK
<1> DEFINE cmd == [x \in Worker |->
                     IF conn[b][x] = "WRITE" THEN "COMMIT"
                     ELSE IF via[txn[b]] = "twoPhase" THEN "COMMIT PREPARED"
                     ELSE "JUNK"]
<1>1. /\ pc[b] = "prepare" /\ todo[b] = {} /\ ~failed[b] /\ pc' = [pc EXCEPT ![b] = "commit"]
      /\ cn' = [cn EXCEPT ![txn[b]] = "committed"]
      /\ UNCHANGED <<txn, rep, sess, via, fresh>>
  BY ZenonT(60) DEF Commit
<1>2. \/ /\ \E S \in SUBSET Worker : req' = [req EXCEPT ![b] = Sent(b, txn[b], S, link[b], cmd)]
         /\ link' = link
      \/ \E x \in Worker, S \in SUBSET Worker :
         /\ link[b][x] = "broken"
         /\ req' = [req EXCEPT ![b] = Sent(b, txn[b], S, link[b], cmd)]
         /\ link' = [link EXCEPT ![b][x] = "bad"]
  BY ZenonT(60) DEF Commit
<1>3. req[b][w] = NoReq
  BY <1>0, <1>1, SMTT(60) DEF ReqInv, ReqOK
<1>4. TwoPhase(txn[b]) => conn[b][w] = "PREPARE"
  BY <1>0, <1>1, ZenonT(60) DEF PhaseInv, PhaseOK, PrepareOK
<1>5. cmd[w] \in {"COMMIT", "COMMIT PREPARED", "JUNK"} /\ (cmd[w] = "COMMIT" => ~TwoPhase(txn[b]))
  BY <1>4, ZenonT(60)
<1> HIDE DEF cmd
<1>6. req'[b][w] = [cmd |-> cmd[w], t |-> txn[b]] /\ link'[b][w] = "good"
  BY <1>0, <1>2, <1>3, SMTT(60) DEF Sent, ConnTypeOK
<1>7. pc'[b] = "commit" /\ cn'[txn[b]] = "committed"
  BY <1>0, <1>1, ZenonT(60) DEF BackendTypeOK, CNTypeOK, HasTxn
<1>8. req'[b][w].cmd = cmd[w] /\ req'[b][w].t = txn[b]
  BY <1>6, SMTT(60)
<1> QED
  BY <1>1, <1>5, <1>6, <1>7, <1>8, ZenonT(60) DEF ReqOK, CommandInv, TwoPhase, Decided

(* What is sent by the abort callback is sent for an aborted transaction.    *)
LEMMA ReqAbort ==
  ASSUME IInv, [Next]_vars, NEW b \in Backend, Abort(b),
         NEW w \in Worker, req'[b][w] # NoReq
  PROVE  ReqOK(b, w)'
<1>0. BackendTypeOK /\ ConnTypeOK /\ CNTypeOK /\ HasTxn
  BY OwnerHasTxn, ZenonT(60) DEF IInv, TypeOK
<1> DEFINE l == LinkAfterConnect(b)
           c == ConnAfterConnect(b)
           cmd == [x \in Worker |->
                     IF c[x] = "WRITE" THEN "ROLLBACK"
                     ELSE IF via[txn[b]] = "twoPhase" THEN "ROLLBACK PREPARED"
                     ELSE "JUNK"]
<1>1. /\ pc[b] = "error" /\ pc' = [pc EXCEPT ![b] = "abort"] /\ req[b][w] = NoReq
      /\ cn' = [cn EXCEPT ![txn[b]] = "aborted"]
      /\ link' = [link EXCEPT ![b] = l]
      /\ UNCHANGED <<txn, sess, via, fresh>>
  BY ZenonT(60) DEF Abort, NothingUnderWay
<1>2. \E S \in SUBSET Worker : req' = [req EXCEPT ![b] = Sent(b, txn[b], S, l, cmd)]
  BY ZenonT(60) DEF Abort
<1>3. cmd[w] \in {"ROLLBACK", "ROLLBACK PREPARED", "JUNK"}
  BY ZenonT(60)
<1>4. l \in [Worker -> LinkState]
  BY <1>0, ConnectType, ZenonT(60)
<1> HIDE DEF cmd, c, l
<1>5. req'[b][w] = [cmd |-> cmd[w], t |-> txn[b]] /\ link'[b][w] = "good"
  BY <1>0, <1>1, <1>2, <1>4, SMTT(60) DEF Sent, ConnTypeOK
<1>6. pc'[b] = "abort" /\ cn'[txn[b]] = "aborted"
  BY <1>0, <1>1, ZenonT(60) DEF BackendTypeOK, CNTypeOK, HasTxn
<1>7. req'[b][w].cmd = cmd[w] /\ req'[b][w].t = txn[b]
  BY <1>5, SMTT(60)
<1> QED
  BY <1>1, <1>3, <1>5, <1>6, <1>7, ZenonT(60) DEF ReqOK, CommandInv, Decided

(* A step of one backend leaves the others and their connections alone.      *)
LEMMA BackendFrame ==
  ASSUME BackendTypeOK, ConnTypeOK, NEW b \in Backend, NEW c \in Backend, c # b,
         BackendNext(b)
  PROVE  /\ UNCHANGED <<req[c], sess[c], rep[c], link[c], conn[c]>>
         /\ UNCHANGED <<pc[c], txn[c], todo[c], failed[c], rows[c]>>
<1> DEFINE Same2 == /\ UNCHANGED <<req[c], sess[c], rep[c], link[c], conn[c]>>
                    /\ UNCHANGED <<pc[c], txn[c], todo[c], failed[c], rows[c]>>
<1> USE DEF BackendTypeOK, ConnTypeOK
<1>1. ASSUME NEW t \in Txn, NEW lw \in BOOLEAN, CallMeta(b, t, lw)
      PROVE  Same2
  BY <1>1, SMTT(60) DEF CallMeta
<1>2. ASSUME NEW t \in Txn, NEW lw \in BOOLEAN, CallMetaUnreachable(b, t, lw)
      PROVE  Same2
  BY <1>2, ZenonT(60) DEF CallMetaUnreachable, connVars
<1>3. ASSUME NEW w \in Worker, ReadAnswer(b, w) \/ RenameSubCreate(b, w)
      PROVE  Same2
  BY <1>3, ZenonT(60) DEF ReadAnswer, RenameSubCreate, LinkAfterRead
<1>4. ASSUME NEW w \in Worker, ReadPrepareAnswer(b, w)
      PROVE  Same2
  BY <1>4, ZenonT(60) DEF ReadPrepareAnswer, LinkAfterRead
<1>5. ASSUME NEW w \in Worker, ReadCommitAnswer(b, w) \/ ReadAbortAnswer(b, w)
      PROVE  Same2
  BY <1>5, ZenonT(60) DEF ReadCommitAnswer, ReadAbortAnswer, LinkAfterRead
<1>6. CASE PreCommitOnePhase(b) \/ PreCommitTwoPhase(b) \/ PrepareFailed(b)
  BY <1>6, ZenonT(60) DEF PreCommitOnePhase, PreCommitTwoPhase, PrepareFailed, connVars
<1>7. CASE Commit(b)
  BY <1>7, ZenonT(60) DEF Commit
<1>8. CASE Abort(b)
  BY <1>8, ZenonT(60) DEF Abort
<1>9. CASE EndTransaction(b) \/ BackendExit(b)
  BY <1>9, SMTT(60) DEF EndTransaction, BackendExit, connVars, backendVars
<1> QED
  BY <1>1, <1>2, <1>3, <1>4, <1>5, <1>6, <1>7, <1>8, <1>9, ZenonT(60) DEF BackendNext

(* Every step keeps the commands on the connections in order.                *)
LEMMA ReqStep ==
  ASSUME IInv, [Next]_vars
  PROVE  ReqInv'
<1> SUFFICES ASSUME NEW c \in Backend, NEW x \in Worker, req'[c][x] # NoReq
             PROVE  ReqOK(c, x)'
  BY ZenonT(60) DEF ReqInv
<1>0. BackendTypeOK /\ ConnTypeOK /\ CNTypeOK /\ OwnerInv /\ ReqInv
  BY ZenonT(60) DEF IInv, TypeOK
<1>1. CASE /\ req'[c][x] = req[c][x] /\ sess'[c][x] = sess[c][x] /\ txn'[c] = txn[c]
           /\ pc'[c] = pc[c] /\ rep'[c][x] = rep[c][x] /\ todo'[c] = todo[c]
           /\ link'[c][x] = link[c][x]
  BY <1>1, ReqKept, ZenonT(60)
<1>2. ASSUME NEW b \in Backend, BackendNext(b), c # b
      PROVE  ReqOK(c, x)'
  BY <1>0, <1>1, <1>2, BackendFrame, ZenonT(60)
<1>3. ASSUME BackendNext(c)
      PROVE  ReqOK(c, x)'
  <2>1. ASSUME NEW t \in Txn, NEW lw \in BOOLEAN, CallMeta(c, t, lw)
        PROVE  ReqOK(c, x)'
    BY <2>1, ReqCallMeta, ZenonT(60)
  <2>2. ASSUME NEW t \in Txn, NEW lw \in BOOLEAN, CallMetaUnreachable(c, t, lw)
        PROVE  ReqOK(c, x)'
    <3>1. /\ pc[c] = "idle" /\ cn[t] = "new" /\ pc'[c] = "error" /\ txn'[c] = t
          /\ cn' = [cn EXCEPT ![t] = "active"] /\ UNCHANGED <<req, sess, link>>
      BY <1>0, <2>2, ZenonT(60) DEF CallMetaUnreachable, connVars, BackendTypeOK
    <3>2. ReqOK(c, x) /\ req[c][x].t \in Txn /\ txn[c] = NoTxn
      BY <1>0, <3>1, SMTT(60) DEF ReqInv, ConnTypeOK, Request, OwnerInv
    <3>3. Decided(req[c][x].t) /\ req[c][x].cmd \notin {"BEGIN", "RUN", "PREPARE"}
      BY <3>2, NoTxnAssumption, ZenonT(60) DEF ReqOK
    <3>4. Decided(req[c][x].t)'
      BY <1>0, <3>1, <3>2, <3>3, ZenonT(60) DEF Decided, CNTypeOK
    <3>5. CommandInv(x, req[c][x].cmd, req[c][x].t)'
      BY <3>1, <3>2, CommandStep, ZenonT(60) DEF ReqOK
    <3> QED
      BY <3>1, <3>2, <3>3, <3>4, <3>5, ZenonT(60) DEF ReqOK, Decided
  <2>3. ASSUME NEW w \in Worker, ReadAnswer(c, w)
        PROVE  ReqOK(c, x)'
    <3>1. CASE req[c][x] = NoReq
      BY <2>3, <3>1, ZenonT(60) DEF ReadAnswer
    <3>2. CASE x = w
      <4>1. ReqOK(c, x) /\ pc[c] \in {"run", "run2"}
        BY <1>0, <2>3, ZenonT(60) DEF ReqInv, ReadAnswer
      <4>2. rep[c][x] = "none" /\ link[c][x] = "good"
        BY <4>1, ZenonT(60) DEF ReqOK
      <4> QED
        BY <2>3, <3>2, <4>2, ZenonT(60) DEF ReadAnswer, Refused
    <3>3. CASE x # w /\ req[c][x] # NoReq
      <4>1. UNCHANGED <<req, sess, txn>> /\ rep'[c][x] = rep[c][x] /\ link'[c][x] = link[c][x]
        BY <1>0, <2>3, <3>3, SMTT(60) DEF ReadAnswer, LinkAfterRead, ConnTypeOK
      <4>2. pc'[c] = "error" \/ (pc'[c] = pc[c] /\ (x \in todo[c] => x \in todo'[c]))
        BY <1>0, <2>3, <3>3, ZenonT(60) DEF ReadAnswer, BackendTypeOK
      <4> QED
        BY <3>3, <4>1, <4>2, ReqKept, ZenonT(60)
    <3> QED
      BY <3>1, <3>2, <3>3, ZenonT(60)
  <2>4. ASSUME NEW w \in Worker, RenameSubCreate(c, w)
        PROVE  ReqOK(c, x)'
    BY <2>4, ReqRenameSubCreate, ZenonT(60)
  <2>5. ASSUME NEW w \in Worker, ReadPrepareAnswer(c, w)
        PROVE  ReqOK(c, x)'
    <3>1. ReqOK(c, x) /\ pc[c] = "prepare" /\ UNCHANGED <<req, sess, txn, pc>>
      BY <1>0, <2>5, ZenonT(60) DEF ReqInv, ReadPrepareAnswer
    <3>2. x # w
      BY <2>5, <3>1, ZenonT(60) DEF ReadPrepareAnswer, ReqOK, Refused
    <3>3. rep'[c][x] = rep[c][x] /\ link'[c][x] = link[c][x] /\ (x \in todo[c] => x \in todo'[c])
      BY <1>0, <2>5, <3>2, SMTT(60) DEF ReadPrepareAnswer, LinkAfterRead, ConnTypeOK, BackendTypeOK
    <3> QED
      BY <3>1, <3>3, ReqKept, ZenonT(60)
  <2>6. ASSUME NEW w \in Worker, ReadCommitAnswer(c, w) \/ ReadAbortAnswer(c, w)
        PROVE  ReqOK(c, x)'
    <3>1. /\ ReqOK(c, x) /\ pc[c] \in {"commit", "abort"} /\ UNCHANGED <<req, sess, txn, pc>>
      BY <1>0, <2>6, ZenonT(60) DEF ReqInv, ReadCommitAnswer, ReadAbortAnswer
    <3>2. link'[c][x] = link[c][x]
      <4>1. link' = link \/ (link' = LinkAfterRead(c, w) /\ Refused(c, w))
            \/ (link' = LinkAfterRead(c, w) /\ rep[c][w] = "ok")
        BY <2>6, ZenonT(60) DEF ReadCommitAnswer, ReadAbortAnswer
      <4>2. link[c][x] = "good"
        BY <3>1, ZenonT(60) DEF ReqOK
      <4> QED
        BY <1>0, <4>1, <4>2, SMTT(60) DEF LinkAfterRead, Refused, ConnTypeOK
    <3> QED
      BY <3>1, <3>2, ReqKept, ZenonT(60)
  <2>7. CASE PreCommitOnePhase(c)
    <3>1. ReqOK(c, x) /\ pc[c] \in {"run", "run2"} /\ todo[c] = {}
      BY <1>0, <2>7, ZenonT(60) DEF ReqInv, PreCommitOnePhase, connVars
    <3> QED
      BY <3>1, ZenonT(60) DEF ReqOK
  <2>8. CASE PreCommitTwoPhase(c)
    BY <2>8, ReqPreCommitTwoPhase, ZenonT(60)
  <2>9. CASE PrepareFailed(c)
    <3>1. pc'[c] = "error" /\ UNCHANGED <<req, sess, txn, link>>
      BY <1>0, <2>9, ZenonT(60) DEF PrepareFailed, connVars, BackendTypeOK
    <3> QED
      BY <3>1, ReqKept, ZenonT(60)
  <2>10. CASE Commit(c)
    BY <2>10, ReqCommit, ZenonT(60)
  <2>11. CASE Abort(c)
    BY <2>11, ReqAbort, ZenonT(60)
  <2>12. CASE EndTransaction(c)
    <3>1. /\ pc[c] \in {"commit", "abort"} /\ pc'[c] = "idle"
          /\ UNCHANGED <<req, sess, link, cn, fresh>>
      BY <1>0, <2>12, ZenonT(60) DEF EndTransaction, connVars, BackendTypeOK
    <3>2. ReqOK(c, x) /\ Decided(txn[c]) /\ req[c][x].t \in Txn
      BY <1>0, <3>1, SMTT(60) DEF ReqInv, OwnerInv, Decided, ConnTypeOK, Request
    <3>3. Decided(req[c][x].t) /\ req[c][x].cmd \notin {"BEGIN", "RUN", "PREPARE"}
      BY <3>1, <3>2, ZenonT(60) DEF ReqOK, Decided
    <3>4. CommandInv(x, req[c][x].cmd, req[c][x].t)'
      BY <3>1, <3>2, CommandStep, ZenonT(60) DEF ReqOK
    <3> QED
      BY <3>1, <3>2, <3>3, <3>4, ZenonT(60) DEF ReqOK, Decided
  <2>13. CASE BackendExit(c)
    BY <1>0, <2>13, ZenonT(60) DEF BackendExit, ConnTypeOK
  <2> QED
    BY <1>3, <2>1, <2>2, <2>3, <2>4, <2>5, <2>6, <2>7, <2>8, <2>9, <2>10, <2>11, <2>12, <2>13, ZenonT(60)
    DEF BackendNext
<1>4. ASSUME NEW b \in Backend, BackendNext(b)
      PROVE  ReqOK(c, x)'
  BY <1>2, <1>3, <1>4, ZenonT(60)
<1>5. ASSUME NEW b \in Backend, NEW w \in Worker, Exec(b, w)
      PROVE  ReqOK(c, x)'
  <2>1. UNCHANGED <<pc, txn, todo, link>>
    BY <1>5, ZenonT(60) DEF Exec, backendVars
  <2>2. PICK f, s, a : Answer(b, w, f, s, a)
    BY <1>5, ZenonT(60) DEF Exec
  <2>3. c # b \/ x # w
    BY <1>0, <2>2, ZenonT(60) DEF Answer, ConnTypeOK
  <2>4. req'[c][x] = req[c][x] /\ sess'[c][x] = sess[c][x] /\ rep'[c][x] = rep[c][x]
    BY <1>0, <2>2, <2>3, ZenonT(60) DEF Answer, ConnTypeOK
  <2> QED
    BY <1>1, <2>1, <2>4, ZenonT(60)
<1>6. CASE UNCHANGED <<connVars, backendVars>>
  BY <1>1, <1>6, ZenonT(60) DEF connVars, backendVars
<1>7. CASE WorkerNext
  BY <1>5, <1>6, <1>7, ZenonT(60) DEF WorkerNext, SessionEnd, WorkerRestart, LateExec
<1>8. CASE CNRestart
  BY <1>8, ZenonT(60) DEF CNRestart
<1>9. ASSUME NEW w \in Worker, WorkerCrash(w)
      PROVE  ReqOK(c, x)'
  <2>1. x # w /\ UNCHANGED <<pc, txn, todo, rep>>
    BY <1>0, <1>9, ZenonT(60) DEF WorkerCrash, ConnTypeOK, backendVars
  <2>2. req'[c][x] = req[c][x] /\ sess'[c][x] = sess[c][x] /\ link'[c][x] = link[c][x]
    BY <1>0, <1>9, <2>1, ZenonT(60) DEF WorkerCrash, ConnTypeOK
  <2> QED
    BY <1>1, <2>1, <2>2, ZenonT(60)
<1>10. ASSUME NEW b \in Backend, NEW w \in Worker, Break(b, w)
       PROVE  ReqOK(c, x)'
  <2>1. (c # b \/ x # w) /\ UNCHANGED <<pc, txn, todo, rep>>
    BY <1>0, <1>10, ZenonT(60) DEF Break, ConnTypeOK, backendVars
  <2>2. req'[c][x] = req[c][x] /\ sess'[c][x] = sess[c][x] /\ link'[c][x] = link[c][x]
    BY <1>0, <1>10, <2>1, ZenonT(60) DEF Break, ConnTypeOK
  <2> QED
    BY <1>1, <2>1, <2>2, ZenonT(60)
<1>11. CASE FaultNext
  BY <1>6, <1>8, <1>9, <1>10, <1>11, FaultCases, ZenonT(60) DEF DaemonBreak
<1> QED
  BY <1>4, <1>6, <1>7, <1>11, DaemonFrame, ZenonT(60) DEF Next, vars

-----------------------------------------------------------------------------
(* The commands under way, and those of the daemon.                          *)

Harmless(m) ==
  /\ CommandInv(m.w, m.cmd, m.t)
  /\ m.cmd = "RUN" /\ fresh[m.t] => out[m.t][m.w] # "none"

(* A harmless command stays harmless.                                        *)
LEMMA HarmlessKept ==
  ASSUME IInv, [Next]_vars, NEW m, m.w \in Worker, m.t \in Txn, Harmless(m)
  PROVE  Harmless(m)'
<1>1. CommandInv(m.w, m.cmd, m.t)'
  BY CommandStep, ZenonT(60) DEF Harmless
<1>2. CNSettled(m.t) /\ OutChange(m.t, m.w)
  BY CNStep, OutStep, ZenonT(60) DEF IInv
<1> QED
  BY <1>1, <1>2, ZenonT(60) DEF Harmless, CommandInv, CNSettled, OutChange

(* What is under way on connections is harmless when it becomes late.        *)
LEMMA UnderWayHarmless ==
  ASSUME IInv, NEW S \in SUBSET (Backend \X Worker), NEW m \in UnderWay(S)
  PROVE  m.w \in Worker /\ m.t \in Txn /\ Harmless(m)
<1>0. ConnTypeOK /\ ReqInv /\ LateInv
  BY ZenonT(60) DEF IInv, TypeOK
<1>1. PICK b \in Backend, w \in Worker :
         req[b][w] # NoReq /\ m = [w |-> w, cmd |-> req[b][w].cmd, t |-> req[b][w].t]
  <2>1. PICK p \in S : /\ req[p[1]][p[2]] # NoReq
                       /\ m = [w |-> p[2], cmd |-> req[p[1]][p[2]].cmd, t |-> req[p[1]][p[2]].t]
    BY ZenonT(60) DEF UnderWay
  <2>2. p[1] \in Backend /\ p[2] \in Worker
    BY ZenonT(60)
  <2> QED
    BY <2>1, <2>2, ZenonT(60)
<1>2. m.w = w /\ m.cmd = req[b][w].cmd /\ m.t = req[b][w].t
  BY <1>1, ZenonT(60)
<1>3. ReqOK(b, w) /\ req[b][w].t \in Txn
  BY <1>0, <1>1, SMTT(60) DEF ReqInv, ConnTypeOK, Request
<1>4. req[b][w].cmd = "RUN" /\ fresh[req[b][w].t] => out[req[b][w].t][w] # "none"
  BY <1>0, <1>3, NoTxnAssumption, ZenonT(60) DEF ReqOK, LateInv
<1> QED
  BY <1>2, <1>3, <1>4, ZenonT(60) DEF ReqOK, Harmless

(* A command of the daemon's that fails is harmless, too.                    *)
LEMMA DaemonCallHarmless ==
  ASSUME IInv, NEW m \in DaemonCall, m.cmd # "SELECT",
         \/ m \in unsent
         \/ \E t \in Txn : DaemonCommitFails(t) /\ m = CommitPrepared(t)
         \/ \E t \in Txn : DaemonRollbackFails(t) /\ m = RollbackPrepared(t)
  PROVE  m.w \in Worker /\ m.t \in Txn /\ Harmless(m)
<1>0. DaemonInv /\ AtomicCommit /\ WorkerTypeOK /\ CNTypeOK
  BY ZenonT(60) DEF IInv, TypeOK
<1>1. m.w \in Worker /\ m.t \in Txn /\ m.cmd \in {"COMMIT PREPARED", "ROLLBACK PREPARED"}
  BY ZenonT(60) DEF DaemonCall, Resolution
<1>2. CASE m \in unsent
  BY <1>0, <1>1, <1>2, ZenonT(60) DEF DaemonInv, Harmless
<1>3. ASSUME NEW t \in Txn, DaemonCommitFails(t), m = CommitPrepared(t)
      PROVE  Harmless(m)
  <2>1. m.w = dsrv /\ m.t = t /\ m.cmd = "COMMIT PREPARED"
    BY <1>3, ZenonT(60) DEF CommitPrepared
  <2>2. cn[t] = "committed"
    BY <1>0, <1>3, ZenonT(60) DEF DaemonCommitFails, DaemonInv, SetInv
  <2> QED
    BY <2>1, <2>2, ZenonT(60) DEF Harmless, CommandInv
<1>4. ASSUME NEW t \in Txn, DaemonRollbackFails(t), m = RollbackPrepared(t)
      PROVE  Harmless(m)
  <2>1. m.w = dsrv /\ m.t = t /\ m.cmd = "ROLLBACK PREPARED"
    BY <1>4, ZenonT(60) DEF RollbackPrepared
  <2>2. dpc = "rollback" /\ t \in setA \ setB /\ setC = {} /\ dsrv \in Worker
    BY <1>0, <1>4, ZenonT(60) DEF DaemonRollbackFails, DaemonInv, SetInv
  <2>3. Decided(t) /\ ~(TwoPhase(t) /\ cn[t] = "committed" /\ out[t][dsrv] = "prepared")
    BY <1>0, <2>2, ZenonT(60) DEF DaemonInv, SetInv
  <2>4. TwoPhase(t) /\ cn[t] = "committed" => out[t][dsrv] = "committed"
    BY <1>0, <2>2, <2>3, ZenonT(60) DEF AtomicCommit, Agreement
  <2> QED
    BY <2>1, <2>3, <2>4, ZenonT(60) DEF Harmless, CommandInv, Decided
<1> QED
  BY <1>1, <1>2, <1>3, <1>4, ZenonT(60)

(* Where the commands under way come from.                                   *)
LEMMA LateSource ==
  ASSUME IInv, [Next]_vars, NEW m \in late'
  PROVE  m.w \in Worker /\ m.t \in Txn /\ Harmless(m)
<1>0. WorkerTypeOK /\ DaemonTypeOK /\ DaemonInv /\ LateInv
  BY ZenonT(60) DEF IInv, TypeOK
<1>1. CASE m \in late
  BY <1>0, <1>1, ZenonT(60) DEF WorkerTypeOK, LateInv, Harmless
<1>2. ASSUME NEW b \in Backend, BackendNext(b)
      PROVE  m \in late \/ m \in UnderWay({b} \X Worker)
  <2>1. ASSUME NEW t \in Txn, NEW lw \in BOOLEAN,
               CallMeta(b, t, lw) \/ CallMetaUnreachable(b, t, lw)
        PROVE  late' = late
    BY <2>1, ZenonT(60) DEF CallMeta, CallMetaUnreachable, workerVars
  <2>2. ASSUME NEW w \in Worker,
               \/ ReadAnswer(b, w) \/ RenameSubCreate(b, w) \/ ReadPrepareAnswer(b, w)
               \/ ReadCommitAnswer(b, w) \/ ReadAbortAnswer(b, w)
        PROVE  late' = late
    BY <2>2, ZenonT(60) DEF ReadAnswer, RenameSubCreate, ReadPrepareAnswer, ReadCommitAnswer,
       ReadAbortAnswer, workerVars
  <2> QED
    BY <1>2, <2>1, <2>2, ZenonT(60) DEF BackendNext, PreCommitOnePhase, PreCommitTwoPhase,
       PrepareFailed, Commit, Abort, EndTransaction, BackendExit, workerVars
<1>3. CASE FaultNext
  <2>1. m \in late \/ m \in UnderWay(Backend \X Worker)
        \/ \E b \in Backend, w \in Worker : m \in UnderWay({<<b, w>>})
    BY <1>3, FaultCases, ZenonT(60) DEF CNRestart, WorkerCrash, DaemonBreak, Break, workerVars
  <2>2. ASSUME NEW S \in SUBSET (Backend \X Worker), m \in UnderWay(S)
        PROVE  m.w \in Worker /\ m.t \in Txn /\ Harmless(m)
    BY <2>2, UnderWayHarmless, ZenonT(60)
  <2>3. Backend \X Worker \in SUBSET (Backend \X Worker)
        /\ \A b \in Backend, w \in Worker : {<<b, w>>} \in SUBSET (Backend \X Worker)
    BY SMTT(60)
  <2> QED
    BY <1>1, <2>1, <2>2, <2>3, ZenonT(60)
<1>4. CASE WorkerNext
  <2>1. ASSUME NEW b \in Backend, NEW w \in Worker, Exec(b, w)
        PROVE  late' = late
    BY <2>1, ZenonT(60) DEF Exec
  <2>2. m \in late
    BY <1>4, <2>1, ZenonT(60) DEF WorkerNext, SessionEnd, WorkerRestart, LateExec
  <2> QED
    BY <1>1, <2>2, ZenonT(60)
<1>5. CASE DaemonNext
  <2>1. CASE DaemonReadA
    <3>1. m \in late \/ (m \in unsent /\ m.cmd # "SELECT")
      BY <2>1, ZenonT(60) DEF DaemonReadA, Resolutions
    <3>2. unsent \subseteq DaemonCall
      BY <1>0, ZenonT(60) DEF DaemonTypeOK
    <3> QED
      BY <1>1, <3>1, <3>2, DaemonCallHarmless, ZenonT(60)
  <2>2. ASSUME NEW k, DaemonCallFails(k)
        PROVE  m \in late \/ (m \in unsent \cup {k} /\ m.cmd # "SELECT")
    BY <2>2, ZenonT(60) DEF DaemonCallFails, Resolutions
  <2>3. CASE DaemonReadAFails \/ DaemonReadDFails
    <3>1. m \in late \/ (m \in unsent \cup {Select(dsrv)} /\ m.cmd # "SELECT")
      BY <2>2, <2>3, ZenonT(60) DEF DaemonReadAFails, DaemonReadDFails
    <3>2. unsent \subseteq DaemonCall /\ Select(dsrv).cmd = "SELECT"
      BY <1>0, ZenonT(60) DEF DaemonTypeOK, Select
    <3> QED
      BY <1>1, <3>1, <3>2, DaemonCallHarmless, ZenonT(60)
  <2>4. ASSUME NEW t \in Txn, DaemonCommitFails(t)
        PROVE  m.w \in Worker /\ m.t \in Txn /\ Harmless(m)
    <3>1. m \in late \/ (m \in unsent \cup {CommitPrepared(t)} /\ m.cmd # "SELECT")
      BY <2>2, <2>4, ZenonT(60) DEF DaemonCommitFails
    <3>2. unsent \cup {CommitPrepared(t)} \subseteq DaemonCall
      <4>1. dsrv \in Worker
        BY <1>0, <2>4, ZenonT(60) DEF DaemonCommitFails, DaemonInv, SetInv
      <4>2. CommitPrepared(t) \in DaemonCall
        BY <4>1, ZenonT(60) DEF CommitPrepared, DaemonCall, Resolution
      <4> QED
        BY <1>0, <4>2, ZenonT(60) DEF DaemonTypeOK
    <3> QED
      BY <1>1, <2>4, <3>1, <3>2, DaemonCallHarmless, ZenonT(60)
  <2>5. ASSUME NEW t \in Txn, DaemonRollbackFails(t)
        PROVE  m.w \in Worker /\ m.t \in Txn /\ Harmless(m)
    <3>1. m \in late \/ (m \in unsent \cup {RollbackPrepared(t)} /\ m.cmd # "SELECT")
      BY <2>2, <2>5, ZenonT(60) DEF DaemonRollbackFails
    <3>2. unsent \cup {RollbackPrepared(t)} \subseteq DaemonCall
      <4>1. dsrv \in Worker
        BY <1>0, <2>5, ZenonT(60) DEF DaemonRollbackFails, DaemonInv, SetInv
      <4>2. RollbackPrepared(t) \in DaemonCall
        BY <4>1, ZenonT(60) DEF RollbackPrepared, DaemonCall, Resolution
      <4> QED
        BY <1>0, <4>2, ZenonT(60) DEF DaemonTypeOK
    <3> QED
      BY <1>1, <2>5, <3>1, <3>2, DaemonCallHarmless, ZenonT(60)
  <2>6. CASE UNCHANGED late
    BY <1>1, <2>6, ZenonT(60)
  <2>7. ASSUME NEW t \in Txn, DaemonCommits(t) \/ DaemonRollsBack(t)
        PROVE  UNCHANGED late
    BY <2>7, ZenonT(60) DEF DaemonCommits, DaemonRollsBack, Resolve
  <2> QED
    BY <1>5, <2>1, <2>3, <2>4, <2>5, <2>6, <2>7, ZenonT(60) DEF DaemonNext, DaemonSkipRecord,
       DaemonDeletesRecord, DaemonReadB, DaemonReadC, DaemonReadD, DaemonWakeUp,
       DaemonNextServer, DaemonEndOfRecords, DaemonServerDone, DaemonPassEnd, DaemonExit,
       workerVars
<1> QED
  BY <1>1, <1>2, <1>3, <1>4, <1>5, UnderWayHarmless, ZenonT(60) DEF Next, vars, workerVars

(* Every step keeps the late commands harmless.                              *)
LEMMA LateStep ==
  ASSUME IInv, [Next]_vars
  PROVE  LateInv'
<1>0. ConnTypeOK /\ WorkerTypeOK /\ LateInv
  BY ZenonT(60) DEF IInv, TypeOK
<1>1. ASSUME NEW m \in late'
      PROVE  Harmless(m)'
  BY <1>1, LateSource, HarmlessKept, ZenonT(60)
<1>2. ASSUME NEW b \in Backend, NEW w \in Worker, sess'[b][w] # NoTxn
      PROVE  out'[sess'[b][w]][w] # "none"
  <2>1. CASE sess'[b][w] = sess[b][w]
    <3>1. sess[b][w] \in Txn /\ out[sess[b][w]][w] # "none"
      BY <1>0, <1>2, <2>1, ZenonT(60) DEF LateInv, ConnTypeOK
    <3>2. OutChange(sess[b][w], w)
      BY <3>1, OutStep, ZenonT(60)
    <3> QED
      BY <2>1, <3>1, <3>2, ZenonT(60) DEF OutChange
  <2>2. CASE Exec(b, w) /\ sess'[b][w] # sess[b][w]
    <3> DEFINE t == req[b][w].t
    <3>1. t \in Txn
      <4>1. req[b][w] # NoReq
        BY <2>2, ZenonT(60) DEF Exec
      <4> QED
        BY <1>0, <4>1, ZenonT(60) DEF ConnTypeOK, Request
    <3>2. \/ Answer(b, w, "open", t, "ok")
          \/ \E f, a : Answer(b, w, f, NoTxn, a)
          \/ \E f, a : Answer(b, w, f, sess[b][w], a)
      BY <2>2, ZenonT(60) DEF Exec
    <3>3. ASSUME NEW f, NEW s, NEW a, Answer(b, w, f, s, a)
          PROVE  sess'[b][w] = s /\ out'[t][w] = f
      BY <1>0, <3>1, <3>3, ZenonT(60) DEF Answer, ConnTypeOK, WorkerTypeOK
    <3> HIDE DEF t
    <3>4. sess'[b][w] = t /\ out'[t][w] = "open"
      BY <1>2, <2>2, <3>2, <3>3, ZenonT(60)
    <3> QED
      BY <3>4, ZenonT(60)
  <2>3. sess'[b][w] = sess[b][w] \/ Exec(b, w)
    <3>1. ASSUME NEW c \in Backend, BackendNext(c)
          PROVE  sess'[b][w] = sess[b][w]
      <4>1. ASSUME NEW t \in Txn, NEW lw \in BOOLEAN,
                   CallMeta(c, t, lw) \/ CallMetaUnreachable(c, t, lw)
            PROVE  sess' = sess
        BY <4>1, ZenonT(60) DEF CallMeta, CallMetaUnreachable, connVars
      <4>2. ASSUME NEW x \in Worker,
                   \/ ReadAnswer(c, x) \/ RenameSubCreate(c, x) \/ ReadPrepareAnswer(c, x)
                   \/ ReadCommitAnswer(c, x) \/ ReadAbortAnswer(c, x)
            PROVE  sess' = sess
        BY <4>2, ZenonT(60) DEF ReadAnswer, RenameSubCreate, ReadPrepareAnswer, ReadCommitAnswer,
           ReadAbortAnswer
      <4>3. CASE BackendExit(c)
        BY <1>0, <1>2, <4>3, ZenonT(60) DEF BackendExit, ConnTypeOK
      <4> QED
        BY <3>1, <4>1, <4>2, <4>3, ZenonT(60) DEF BackendNext, PreCommitOnePhase, PreCommitTwoPhase,
           PrepareFailed, Commit, Abort, EndTransaction, connVars
    <3>2. ASSUME NEW c \in Backend, NEW x \in Worker, Exec(c, x), c # b \/ x # w
          PROVE  sess'[b][w] = sess[b][w]
      <4>1. PICK f, s, a : Answer(c, x, f, s, a)
        BY <3>2, ZenonT(60) DEF Exec
      <4> QED
        BY <1>0, <3>2, <4>1, ZenonT(60) DEF Answer, ConnTypeOK
    <3>3. CASE FaultNext
      <4>1. CASE CNRestart
        BY <1>2, <4>1, ZenonT(60) DEF CNRestart
      <4>2. ASSUME NEW x \in Worker, WorkerCrash(x)
            PROVE  sess'[b][w] = sess[b][w]
        BY <1>0, <1>2, <4>2, ZenonT(60) DEF WorkerCrash, ConnTypeOK
      <4>3. ASSUME NEW c \in Backend, NEW x \in Worker, Break(c, x)
            PROVE  sess'[b][w] = sess[b][w]
        BY <1>0, <1>2, <4>3, ZenonT(60) DEF Break, ConnTypeOK
      <4> QED
        BY <3>3, <4>1, <4>2, <4>3, FaultCases, ZenonT(60) DEF DaemonBreak, connVars
    <3>4. CASE WorkerNext
      BY <3>2, <3>4, ZenonT(60) DEF WorkerNext, SessionEnd, WorkerRestart, LateExec, connVars
    <3> QED
      BY <3>1, <3>3, <3>4, DaemonFrame, ZenonT(60) DEF Next, vars, connVars
  <2> QED
    BY <2>1, <2>2, <2>3, ZenonT(60)
<1> QED
  BY <1>1, <1>2, ZenonT(60) DEF LateInv, Harmless

-----------------------------------------------------------------------------
(* Every step keeps what a backend knows of a worker in agreement with the   *)
(* phase of its transaction.                                                 *)

(* The run and the prepare phase.                                            *)

(* A connection that a step leaves alone, or that it breaks, stays in order. *)
LEMMA PhaseKept ==
  ASSUME IInv, [Next]_vars, NEW b \in Backend, NEW w \in Worker,
         pc'[b] = pc[b], txn'[b] = txn[b], conn'[b][w] = conn[b][w],
         rep'[b][w] = rep[b][w],
         (w \in todo'[b]) <=> (w \in todo[b]),
         failed[b] => failed'[b], w \in rows[b] => w \in rows'[b],
         \/ /\ req'[b][w] = req[b][w] /\ sess'[b][w] = sess[b][w]
            /\ link'[b][w] = "good" => link[b][w] = "good"
         \/ /\ req'[b][w] = NoReq /\ link'[b][w] # "good"
            /\ out[txn[b]][w] = "prepared" => out'[txn[b]][w] = "prepared"
  PROVE  PhaseOK(b, w)'
<1>0. TypeOK /\ BackendTypeOK /\ ConnTypeOK /\ OwnerInv /\ HasTxn /\ PhaseOK(b, w)
  BY OwnerHasTxn, ZenonT(60) DEF IInv, TypeOK, PhaseInv
<1>1. ASSUME pc[b] \in {"run", "run2", "prepare"}
      PROVE  /\ txn[b] \in Txn /\ cn[txn[b]] = "active"
             /\ fresh'[txn[b]] = fresh[txn[b]]
             /\ via[txn[b]] # "none" => via'[txn[b]] = via[txn[b]]
  <2>1. txn[b] \in Txn /\ cn[txn[b]] = "active"
    BY <1>0, <1>1, ZenonT(60) DEF HasTxn, OwnerInv
  <2> QED
    BY <1>0, <2>1, CNStep, ZenonT(60) DEF CNSettled
<1>2. pc'[b] \in {"run", "run2"} /\ w \notin todo'[b] => rep'[b][w] = "none"
  BY <1>0, ZenonT(60) DEF PhaseOK
<1>3. ASSUME pc'[b] \in {"run", "run2"}, fresh'[txn'[b]]
      PROVE  RunOK(b, w)'
  <2>1. RunOK(b, w)
    BY <1>0, <1>1, <1>3, ZenonT(60) DEF PhaseOK
  <2> QED
    BY <2>1, ZenonT(60) DEF RunOK
<1>4. ASSUME pc'[b] = "prepare", TwoPhase(txn[b])'
      PROVE  PrepareOK(b, w)'
  <2>1. TwoPhase(txn[b]) /\ cn[txn[b]] = "active" /\ txn[b] \in Txn
    <3>1. via[txn[b]] # "none"
      <4>1. pc[b] = "prepare"
        BY <1>4, ZenonT(60)
      <4> QED
        BY <1>0, <4>1, ZenonT(60) DEF OwnerInv
    <3> QED
      BY <1>1, <1>4, <3>1, ZenonT(60) DEF TwoPhase
  <2>2. PrepareOK(b, w)
    BY <1>0, <1>4, <2>1, ZenonT(60) DEF PhaseOK
  <2>3. out[txn[b]][w] = "prepared" => out'[txn[b]][w] = "prepared"
    <3> SUFFICES ASSUME out[txn[b]][w] = "prepared", out'[txn[b]][w] # "prepared"
                 PROVE  FALSE
      BY ZenonT(60)
    <3>1. PICK c \in Backend : txn[c] = txn[b] /\ req[c][w] # NoReq /\ Exec(c, w)
      BY <2>1, OutStep, ZenonT(60) DEF OutChange
    <3>2. c = b
      BY <1>0, <2>1, <3>1, NoTxnAssumption, ZenonT(60) DEF OwnerInv
    <3>3. req'[b][w] = NoReq
      <4>1. \E f, s, a : Answer(b, w, f, s, a)
        BY <3>1, <3>2, ZenonT(60) DEF Exec
      <4> QED
        BY <1>0, <4>1, SMTT(60) DEF Answer, ConnTypeOK
    <3> QED
      BY <3>1, <3>2, <3>3, ZenonT(60)
  <2> QED
    BY <2>2, <2>3, ZenonT(60) DEF PrepareOK
<1> QED
  BY <1>2, <1>3, <1>4, ZenonT(60) DEF PhaseOK, TwoPhase

(* A transaction over fresh connections begins with BEGIN on all of them.    *)
LEMMA PhaseCallMeta ==
  ASSUME IInv, NEW b \in Backend, NEW t \in Txn, NEW lw \in BOOLEAN,
         CallMeta(b, t, lw), NEW w \in Worker
  PROVE  PhaseOK(b, w)'
<1>0. BackendTypeOK /\ ConnTypeOK /\ CNTypeOK
  BY ZenonT(60) DEF IInv, TypeOK
<1> DEFINE l == LinkAfterConnect(b)
           c == ConnAfterConnect(b)
           cmd == [x \in Worker |-> IF c[x] = "NONE" THEN "BEGIN" ELSE "RUN"]
           d == [x \in Worker |-> IF x \in Worker /\ c[x] = "NONE" THEN "WRITE" ELSE c[x]]
<1>1. \/ /\ req' = [req EXCEPT ![b] = Sent(b, t, Worker, l, cmd)]
         /\ conn' = [conn EXCEPT ![b] = d]
         /\ pc' = [pc EXCEPT ![b] = "run"] /\ todo' = [todo EXCEPT ![b] = Worker]
         /\ link' = [link EXCEPT ![b] = l]
      \/ pc' = [pc EXCEPT ![b] = "error"]
  BY ZenonT(60) DEF CallMeta
<1>2. /\ txn' = [txn EXCEPT ![b] = t]
      /\ fresh' = [fresh EXCEPT ![t] = \A x \in Worker : c[x] = "NONE"]
  BY ZenonT(60) DEF CallMeta
<1>3. c[w] = "NONE" => d[w] = "WRITE"
  BY ZenonT(60)
<1> HIDE DEF l, c, cmd, d
<1>4. CASE pc' = [pc EXCEPT ![b] = "error"]
  BY <1>0, <1>4, ZenonT(60) DEF PhaseOK, BackendTypeOK
<1>5. CASE /\ req' = [req EXCEPT ![b] = Sent(b, t, Worker, l, cmd)]
           /\ conn' = [conn EXCEPT ![b] = d]
           /\ pc' = [pc EXCEPT ![b] = "run"] /\ todo' = [todo EXCEPT ![b] = Worker]
           /\ link' = [link EXCEPT ![b] = l]
  <2>1. pc'[b] = "run" /\ w \in todo'[b] /\ txn'[b] = t
    BY <1>0, <1>2, <1>5, ZenonT(60) DEF BackendTypeOK
  <2>2. fresh'[t] => conn'[b][w] = "WRITE"
    BY <1>0, <1>2, <1>3, <1>5, ZenonT(60) DEF ConnTypeOK, CNTypeOK
  <2>3. link'[b][w] = "good" => req'[b][w] # NoReq
    BY <1>0, <1>5, NoTxnAssumption, ZenonT(60) DEF Sent, ConnTypeOK, NoReq
  <2> QED
    BY <2>1, <2>2, <2>3, ZenonT(60) DEF PhaseOK, RunOK
<1> QED
  BY <1>1, <1>4, <1>5, ZenonT(60)

(* A round that goes on has an open block on every good connection.          *)
LEMMA PhaseReadAnswer ==
  ASSUME IInv, [Next]_vars, NEW b \in Backend, NEW v \in Worker,
         ReadAnswer(b, v) \/ RenameSubCreate(b, v), NEW w \in Worker
  PROVE  PhaseOK(b, w)'
<1>0. TypeOK /\ BackendTypeOK /\ ConnTypeOK /\ OwnerInv /\ PhaseOK(b, w) /\ ReqInv
  BY ZenonT(60) DEF IInv, TypeOK, PhaseInv
<1>1. UNCHANGED <<txn, conn, sess, fresh>> /\ pc[b] \in {"run", "run2"}
  BY ZenonT(60) DEF ReadAnswer, RenameSubCreate, cnVars
<1>2. req[b][w] # NoReq => w \in todo[b] /\ rep[b][w] = "none"
  BY <1>0, <1>1, SMTT(60) DEF ReqInv, ReqOK
<1>3. CASE pc' = [pc EXCEPT ![b] = "error"]
  BY <1>0, <1>3, ZenonT(60) DEF PhaseOK, BackendTypeOK
<1>4. CASE ReadAnswer(b, v) /\ rep[b][v] = "ok" /\ todo' = [todo EXCEPT ![b] = @ \ {v}]
           /\ UNCHANGED <<pc, link>>
  <2>1. rep' = [rep EXCEPT ![b][v] = "none"] /\ req' = req
    BY <1>4, ZenonT(60) DEF ReadAnswer
  <2>2. /\ w # v => rep'[b][w] = rep[b][w] /\ (w \in todo'[b] <=> w \in todo[b])
        /\ w = v => rep'[b][w] = "none" /\ rep[b][w] = "ok"
    BY <1>0, <1>4, <2>1, ZenonT(60) DEF ConnTypeOK, BackendTypeOK
  <2> QED
    BY <1>0, <1>1, <1>2, <1>4, <2>1, <2>2, ZenonT(60) DEF PhaseOK, RunOK
<1>5. CASE RenameSubCreate(b, v)
  <2>1. /\ pc[b] = "run" /\ todo[b] = {} /\ pc' = [pc EXCEPT ![b] = "run2"]
        /\ req' = [req EXCEPT ![b] = Sent(b, txn[b], {v}, link[b], Same("RUN"))]
        /\ UNCHANGED <<link, rep>>
    BY <1>5, ZenonT(60) DEF RenameSubCreate
  <2>2. rep[b][w] = "none" /\ (fresh[txn[b]] => RunOK(b, w))
    BY <1>0, <2>1, ZenonT(60) DEF PhaseOK
  <2>3. txn[b] # NoTxn
    BY <1>0, <2>1, ZenonT(60) DEF OwnerInv
  <2>4. req'[b][w] = req[b][w] \/ req'[b][w] # NoReq
    BY <1>0, <2>1, <2>3, ZenonT(60) DEF Sent, ConnTypeOK, NoReq
  <2>5. pc'[b] = "run2"
    BY <1>0, <2>1, ZenonT(60) DEF BackendTypeOK
  <2> QED
    BY <1>1, <2>1, <2>2, <2>4, <2>5, ZenonT(60) DEF PhaseOK, RunOK
<1>6. \/ pc' = [pc EXCEPT ![b] = "error"]
      \/ ReadAnswer(b, v) /\ rep[b][v] = "ok" /\ todo' = [todo EXCEPT ![b] = @ \ {v}]
         /\ UNCHANGED <<pc, link>>
      \/ RenameSubCreate(b, v)
  BY ZenonT(60) DEF ReadAnswer
<1> QED
  BY <1>3, <1>4, <1>5, <1>6, ZenonT(60)

(* The prepare phase begins with PREPARE in an open block on every worker.   *)
LEMMA PhasePreCommit ==
  ASSUME IInv, [Next]_vars, NEW b \in Backend,
         PreCommitOnePhase(b) \/ PreCommitTwoPhase(b), NEW w \in Worker
  PROVE  PhaseOK(b, w)'
<1>0. /\ TypeOK /\ BackendTypeOK /\ ConnTypeOK /\ CNTypeOK /\ OwnerInv /\ HasTxn
      /\ PhaseOK(b, w) /\ ReqInv
  BY OwnerHasTxn, ZenonT(60) DEF IInv, TypeOK, PhaseInv
<1>1. pc[b] \in {"run", "run2"} /\ todo[b] = {} /\ UNCHANGED <<txn, fresh>> /\ txn[b] \in Txn
  BY <1>0, ZenonT(60) DEF PreCommitOnePhase, PreCommitTwoPhase, HasTxn
<1>2. CASE PreCommitOnePhase(b)
  <2>1. pc'[b] = "prepare" /\ via'[txn[b]] = "onePhase"
    BY <1>0, <1>1, <1>2, ZenonT(60) DEF PreCommitOnePhase, BackendTypeOK, CNTypeOK
  <2> QED
    BY <1>1, <2>1, ZenonT(60) DEF PhaseOK, TwoPhase
<1>3. CASE pc' = [pc EXCEPT ![b] = "error"]
  BY <1>0, <1>3, ZenonT(60) DEF PhaseOK, BackendTypeOK
<1>4. CASE /\ req' = [req EXCEPT ![b] =
                       Sent(b, txn[b], Writers(b), link[b], Same("PREPARE"))]
           /\ pc' = [pc EXCEPT ![b] = "prepare"]
           /\ todo' = [todo EXCEPT ![b] = Writers(b)]
           /\ UNCHANGED <<link, conn, rep, sess>>
  <2>1. pc'[b] = "prepare" /\ (w \in todo'[b] <=> w \in Writers(b))
    BY <1>0, <1>4, ZenonT(60) DEF BackendTypeOK
  <2>2. req[b][w] = NoReq /\ rep[b][w] = "none"
    BY <1>0, <1>1, SMTT(60) DEF ReqInv, ReqOK, PhaseOK
  <2>3. ASSUME TwoPhase(txn[b])'
        PROVE  PrepareOK(b, w)'
    <3>1. RunOK(b, w)
      BY <1>0, <1>1, <2>3, ZenonT(60) DEF PhaseOK, TwoPhase
    <3>2. conn[b][w] = "WRITE" /\ w \in todo'[b]
      BY <2>1, <3>1, ZenonT(60) DEF RunOK, Writers
    <3>3. req'[b][w] # NoReq => req'[b][w].cmd = "PREPARE" /\ link[b][w] = "good"
      BY <1>0, <1>4, <2>2, ZenonT(60) DEF Sent, Same, ConnTypeOK
    <3> QED
      BY <1>1, <1>4, <2>2, <3>1, <3>2, <3>3, ZenonT(60) DEF PrepareOK, RunOK
  <2> QED
    BY <1>1, <2>1, <2>3, ZenonT(60) DEF PhaseOK, TwoPhase
<1>5. \/ PreCommitOnePhase(b)
      \/ pc' = [pc EXCEPT ![b] = "error"]
      \/ /\ req' = [req EXCEPT ![b] =
                     Sent(b, txn[b], Writers(b), link[b], Same("PREPARE"))]
         /\ pc' = [pc EXCEPT ![b] = "prepare"]
         /\ todo' = [todo EXCEPT ![b] = Writers(b)]
         /\ UNCHANGED <<link, conn, rep, sess>>
  BY ZenonT(60) DEF PreCommitTwoPhase
<1> QED
  BY <1>2, <1>3, <1>4, <1>5, ZenonT(60)

(* A worker that is counted as prepared is prepared and has its row.         *)
LEMMA PhaseReadPrepareAnswer ==
  ASSUME IInv, [Next]_vars, NEW b \in Backend, NEW v \in Worker,
         ReadPrepareAnswer(b, v), NEW w \in Worker
  PROVE  PhaseOK(b, w)'
<1>0. TypeOK /\ BackendTypeOK /\ ConnTypeOK /\ PhaseOK(b, w)
  BY ZenonT(60) DEF IInv, TypeOK, PhaseInv
<1>1. /\ pc[b] = "prepare" /\ v \in todo[b] /\ UNCHANGED <<pc, txn, req, sess, fresh, via, out>>
      /\ todo' = [todo EXCEPT ![b] = @ \ {v}] /\ rep' = [rep EXCEPT ![b][v] = "none"]
  BY ZenonT(60) DEF ReadPrepareAnswer, cnVars, workerVars
<1>2. \/ /\ rep[b][v] = "ok" /\ conn' = [conn EXCEPT ![b][v] = "PREPARE"]
         /\ rows' = [rows EXCEPT ![b] = @ \cup {v}] /\ failed' = failed
      \/ failed' = [failed EXCEPT ![b] = TRUE] /\ UNCHANGED <<conn, rows>>
  BY ZenonT(60) DEF ReadPrepareAnswer
<1>3. CASE w = v
  <2>1. w \notin todo'[b]
    BY <1>0, <1>1, <1>3, ZenonT(60) DEF BackendTypeOK
  <2>2. failed'[b] \/ (rep[b][w] = "ok" /\ conn'[b][w] = "PREPARE" /\ w \in rows'[b])
    BY <1>0, <1>2, <1>3, SMTT(60) DEF BackendTypeOK, ConnTypeOK
  <2> QED
    BY <1>0, <1>1, <1>3, <2>1, <2>2, ZenonT(60) DEF PhaseOK, PrepareOK, TwoPhase
<1>4. CASE w # v
  <2>1. /\ (w \in todo'[b]) <=> (w \in todo[b])
        /\ rep'[b][w] = rep[b][w] /\ conn'[b][w] = conn[b][w]
        /\ failed[b] => failed'[b]
        /\ w \in rows[b] => w \in rows'[b]
    BY <1>0, <1>1, <1>2, <1>4, SMTT(60) DEF BackendTypeOK, ConnTypeOK
  <2> QED
    BY <1>0, <1>1, <2>1, ZenonT(60) DEF PhaseOK, PrepareOK, TwoPhase
<1> QED
  BY <1>3, <1>4, ZenonT(60)

(* A worker answers PREPARE with OK only when the transaction is prepared.   *)
LEMMA PhaseExec ==
  ASSUME IInv, [Next]_vars, NEW b \in Backend, NEW w \in Worker, Exec(b, w)
  PROVE  PhaseOK(b, w)'
<1>0. /\ TypeOK /\ BackendTypeOK /\ ConnTypeOK /\ WorkerTypeOK /\ PhaseOK(b, w) /\ OwnerInv
      /\ HasTxn
  BY OwnerHasTxn, ZenonT(60) DEF IInv, TypeOK, PhaseInv
<1>1. UNCHANGED <<pc, txn, todo, failed, rows, conn, link, via, fresh>> /\ req[b][w] # NoReq
  BY ZenonT(60) DEF Exec, backendVars, cnVars
<1>2. ReqOK(b, w)
  BY <1>1, ZenonT(60) DEF IInv, ReqInv
<1> DEFINE t == req[b][w].t
           cmd == req[b][w].cmd
<1>3. t \in Txn
  BY <1>0, <1>1, ZenonT(60) DEF ConnTypeOK, Request
<1>4. ASSUME NEW f, NEW s, NEW a, Answer(b, w, f, s, a)
      PROVE  /\ out'[t][w] = f /\ sess'[b][w] = s /\ rep'[b][w] = a /\ req'[b][w] = NoReq
  BY <1>0, <1>3, <1>4, ZenonT(60) DEF Answer, ConnTypeOK, WorkerTypeOK
<1>5. ASSUME pc[b] \in {"run", "run2"}, fresh[txn[b]]
      PROVE  RunOK(b, w)'
  <2>1. txn[b] = t /\ cn[t] = "active" /\ via[t] = "none"
    BY <1>0, <1>2, <1>5, SMTT(60) DEF ReqOK, OwnerInv
  <2>2. /\ cmd \notin {"PREPARE", "COMMIT", "ROLLBACK", "COMMIT PREPARED"}
        /\ cmd = "RUN" => sess[b][w] = t
        /\ cmd # "ROLLBACK PREPARED"
    BY <1>2, <1>5, <2>1, ZenonT(60) DEF ReqOK, CommandInv, Decided
  <2>3. (\E f : Answer(b, w, f, t, "ok")) \/ (\E f, s : Answer(b, w, f, s, "err"))
    BY <2>2, ZenonT(60) DEF Exec
  <2>4. rep'[b][w] = "err" \/ sess'[b][w] = t
    <3> HIDE DEF t
    <3> QED BY <1>4, <2>3, ZenonT(60)
  <2>5. conn[b][w] = "WRITE"
    BY <1>0, <1>5, ZenonT(60) DEF PhaseOK, RunOK
  <2> QED
    BY <1>1, <2>1, <2>4, <2>5, ZenonT(60) DEF RunOK
<1>6. ASSUME pc[b] = "prepare", TwoPhase(txn[b])
      PROVE  PrepareOK(b, w)'
  <2>1. PrepareOK(b, w) /\ w \in todo[b] /\ txn[b] = t
    BY <1>0, <1>2, <1>6, ZenonT(60) DEF PhaseOK, ReqOK
  <2>2. cmd = "PREPARE" /\ sess[b][w] = t /\ conn[b][w] = "WRITE"
    BY <1>1, <2>1, ZenonT(60) DEF PrepareOK
  <2>3. (\E s : Answer(b, w, "prepared", s, "ok")) \/ (\E f, s : Answer(b, w, f, s, "err"))
    BY <2>2, ZenonT(60) DEF Exec
  <2>4. req'[b][w] = NoReq /\ (rep'[b][w] = "err" \/ out'[t][w] = "prepared")
    <3> HIDE DEF t
    <3> QED BY <1>4, <2>3, ZenonT(60)
  <2> QED
    BY <1>1, <2>1, <2>2, <2>4, ZenonT(60) DEF PrepareOK
<1>7. pc[b] \in {"run", "run2"} => w \in todo[b]
  BY <1>2, ZenonT(60) DEF ReqOK
<1> QED
  BY <1>1, <1>5, <1>6, <1>7, ZenonT(60) DEF PhaseOK, TwoPhase

(* Every step keeps the connections of the run and the prepare phase in      *)
(* order.                                                                    *)
LEMMA PhaseStep ==
  ASSUME IInv, [Next]_vars
  PROVE  PhaseInv'
<1> SUFFICES ASSUME NEW c \in Backend, NEW x \in Worker
             PROVE  PhaseOK(c, x)'
  BY ZenonT(60) DEF PhaseInv
<1>0. BackendTypeOK /\ ConnTypeOK /\ WorkerTypeOK /\ OwnerInv /\ HasTxn
  BY OwnerHasTxn, ZenonT(60) DEF IInv, TypeOK
<1>1. CASE /\ UNCHANGED <<req[c][x], sess[c][x], rep[c][x], link[c][x], conn[c][x]>>
           /\ UNCHANGED <<pc[c], txn[c], todo[c], failed[c], rows[c]>>
  BY <1>1, PhaseKept, ZenonT(60)
<1>2. CASE pc'[c] \notin {"run", "run2", "prepare"}
  BY <1>2, ZenonT(60) DEF PhaseOK
<1>3. ASSUME BackendNext(c)
      PROVE  PhaseOK(c, x)'
  <2>1. ASSUME NEW t \in Txn, NEW lw \in BOOLEAN, CallMeta(c, t, lw)
        PROVE  PhaseOK(c, x)'
    BY <2>1, PhaseCallMeta, ZenonT(60)
  <2>2. ASSUME NEW t \in Txn, NEW lw \in BOOLEAN, CallMetaUnreachable(c, t, lw)
        PROVE  PhaseOK(c, x)'
    BY <1>0, <1>2, <2>2, ZenonT(60) DEF CallMetaUnreachable, BackendTypeOK
  <2>3. ASSUME NEW w \in Worker, ReadAnswer(c, w) \/ RenameSubCreate(c, w)
        PROVE  PhaseOK(c, x)'
    BY <2>3, PhaseReadAnswer, ZenonT(60)
  <2>4. ASSUME NEW w \in Worker, ReadPrepareAnswer(c, w)
        PROVE  PhaseOK(c, x)'
    BY <2>4, PhaseReadPrepareAnswer, ZenonT(60)
  <2>5. ASSUME NEW w \in Worker, ReadCommitAnswer(c, w) \/ ReadAbortAnswer(c, w)
        PROVE  PhaseOK(c, x)'
    BY <1>2, <2>5, ZenonT(60) DEF ReadCommitAnswer, ReadAbortAnswer
  <2>6. CASE PreCommitOnePhase(c) \/ PreCommitTwoPhase(c)
    BY <2>6, PhasePreCommit, ZenonT(60)
  <2>7. CASE PrepareFailed(c)
    BY <1>0, <1>2, <2>7, ZenonT(60) DEF PrepareFailed, BackendTypeOK
  <2>8. CASE Commit(c)
    BY <1>0, <1>2, <2>8, ZenonT(60) DEF Commit, BackendTypeOK
  <2>9. CASE Abort(c)
    BY <1>0, <1>2, <2>9, ZenonT(60) DEF Abort, BackendTypeOK
  <2>10. CASE EndTransaction(c) \/ BackendExit(c)
    BY <1>0, <1>2, <2>10, ZenonT(60) DEF EndTransaction, BackendExit, BackendTypeOK, backendVars
  <2> QED
    BY <1>3, <2>1, <2>2, <2>3, <2>4, <2>5, <2>6, <2>7, <2>8, <2>9, <2>10, ZenonT(60) DEF BackendNext
<1>4. ASSUME NEW b \in Backend, BackendNext(b)
      PROVE  PhaseOK(c, x)'
  <2>1. CASE b # c
    BY <1>0, <1>1, <1>4, <2>1, BackendFrame, ZenonT(60)
  <2> QED
    BY <1>3, <1>4, <2>1, ZenonT(60)
<1>5. ASSUME NEW b \in Backend, NEW w \in Worker, Exec(b, w)
      PROVE  PhaseOK(c, x)'
  <2>1. CASE c = b /\ x = w
    BY <1>5, <2>1, PhaseExec, ZenonT(60)
  <2>2. CASE c # b \/ x # w
    <3>1. PICK f, s, a : Answer(b, w, f, s, a)
      BY <1>5, ZenonT(60) DEF Exec
    <3>2. UNCHANGED <<req[c][x], sess[c][x], rep[c][x]>>
      BY <1>0, <2>2, <3>1, ZenonT(60) DEF Answer, ConnTypeOK
    <3>3. UNCHANGED <<link, conn, backendVars>>
      BY <1>5, ZenonT(60) DEF Exec
    <3> QED
      BY <1>1, <3>2, <3>3, ZenonT(60) DEF backendVars
  <2> QED
    BY <2>1, <2>2, ZenonT(60)
<1>6. CASE UNCHANGED <<connVars, backendVars>>
  BY <1>1, <1>6, ZenonT(60) DEF connVars, backendVars
<1>7. CASE WorkerNext
  BY <1>5, <1>6, <1>7, ZenonT(60) DEF WorkerNext, SessionEnd, WorkerRestart, LateExec
<1>8. CASE CNRestart
  BY <1>2, <1>8, ZenonT(60) DEF CNRestart
<1>9. ASSUME NEW w \in Worker, WorkerCrash(w)
      PROVE  PhaseOK(c, x)'
  <2>1. UNCHANGED <<backendVars, conn, rep>>
    BY <1>9, ZenonT(60) DEF WorkerCrash
  <2>2. CASE x # w
    <3>1. UNCHANGED <<req[c][x], sess[c][x], link[c][x]>>
      BY <1>0, <1>9, <2>2, ZenonT(60) DEF WorkerCrash, ConnTypeOK
    <3> QED
      BY <1>1, <2>1, <3>1, ZenonT(60) DEF backendVars
  <2>3. CASE x = w /\ txn[c] \in Txn
    <3>1. req'[c][x] = NoReq /\ link'[c][x] # "good"
      BY <1>0, <1>9, <2>3, ZenonT(60) DEF WorkerCrash, ConnTypeOK
    <3>2. out[txn[c]][x] = "prepared" => out'[txn[c]][x] = "prepared"
      BY <1>0, <1>9, <2>3, ZenonT(60) DEF WorkerCrash, WorkerTypeOK
    <3> QED
      BY <2>1, <3>1, <3>2, PhaseKept, ZenonT(60) DEF backendVars
  <2>4. CASE txn[c] \notin Txn
    <3>1. pc[c] = "idle"
      BY <1>0, <2>4, ZenonT(60) DEF OwnerInv, BackendTypeOK
    <3> QED
      BY <1>2, <2>1, <3>1, ZenonT(60) DEF backendVars
  <2> QED
    BY <2>2, <2>3, <2>4, ZenonT(60)
<1>10. ASSUME NEW b \in Backend, NEW w \in Worker, Break(b, w)
       PROVE  PhaseOK(c, x)'
  <2>1. UNCHANGED <<backendVars, conn, rep, out>>
    BY <1>10, ZenonT(60) DEF Break
  <2>2. CASE c # b \/ x # w
    <3>1. UNCHANGED <<req[c][x], sess[c][x], link[c][x]>>
      BY <1>0, <1>10, <2>2, ZenonT(60) DEF Break, ConnTypeOK
    <3> QED
      BY <1>1, <2>1, <3>1, ZenonT(60) DEF backendVars
  <2>3. CASE c = b /\ x = w
    <3>1. req'[c][x] = NoReq /\ link'[c][x] # "good"
      BY <1>0, <1>10, <2>3, ZenonT(60) DEF Break, ConnTypeOK
    <3> QED
      BY <2>1, <3>1, PhaseKept, ZenonT(60) DEF backendVars
  <2> QED
    BY <2>2, <2>3, ZenonT(60)
<1>11. CASE FaultNext
  BY <1>6, <1>8, <1>9, <1>10, <1>11, FaultCases, ZenonT(60) DEF DaemonBreak
<1> QED
  BY <1>4, <1>6, <1>7, <1>11, DaemonFrame, ZenonT(60) DEF Next, vars

-----------------------------------------------------------------------------
(* The clean-up daemon preserves the inductive invariant; then the theorems. *)

(* What is decided about a transaction stays decided, the same way.          *)
LEMMA DecidedStep ==
  ASSUME IInv, [Next]_vars, NEW t \in Txn
  PROVE  /\ via[t] = "twoPhase" => via'[t] = "twoPhase"
         /\ cn[t] = "committed" => cn'[t] = "committed"
         /\ Decided(t) => Decided(t)'
         /\ Decided(t) /\ cn'[t] = "committed" => cn[t] = "committed"
         /\ Decided(t) /\ TwoPhase(t)' => TwoPhase(t)
<1>1. CNSettled(t)
  BY CNStep, ZenonT(60) DEF IInv
<1> QED
  BY <1>1, ZenonT(60) DEF CNSettled, Decided, TwoPhase

(* The fate of a committed transaction on a worker moves one way only.       *)
LEMMA CommittedStep ==
  ASSUME IInv, [Next]_vars, NEW t \in Txn, NEW w \in Worker,
         TwoPhase(t), cn[t] = "committed"
  PROVE  /\ out[t][w] = "committed" => out'[t][w] = "committed"
         /\ out'[t][w] = "prepared" => out[t][w] = "prepared"
<1>1. OutChange(t, w)
  BY OutStep, ZenonT(60)
<1> QED
  BY <1>1, ZenonT(60) DEF OutChange

(* The sets of the worker at hand, while no or only a resolved transaction   *)
(* leaves them.                                                              *)
LEMMA SetsKept ==
  ASSUME IInv, [Next]_vars, dpc' = dpc, dsrv' = dsrv, setB' = setB, setD' = setD,
         setA' \subseteq setA, setC' \subseteq setC,
         \A t \in setA' \ setB : t \in setC => t \in setC'
  PROVE  SetInv'
<1>0. DaemonTypeOK /\ SetInv /\ (dpc \in {"D", "resolve", "rollback"} => dsrv \in Worker)
  BY ZenonT(60) DEF IInv, TypeOK, DaemonInv
<1>1. setA \subseteq Txn /\ setC \subseteq Txn
  BY <1>0, ZenonT(60) DEF DaemonTypeOK
<1>2. dpc' = "rollback" => setC' = {}
  BY <1>0, ZenonT(60) DEF SetInv
<1>3. (\A t \in setA' : via'[t] = "twoPhase") /\ (\A t \in setC' : cn'[t] = "committed")
  BY <1>0, <1>1, DecidedStep, ZenonT(60) DEF SetInv
<1>4. dpc' \in {"C", "D", "resolve", "rollback"} => \A t \in setA' \ setB' : Decided(t)'
  <2>1. ASSUME dpc \in {"C", "D", "resolve", "rollback"}, NEW t \in setA' \ setB
        PROVE  Decided(t)'
    <3>1. t \in Txn /\ Decided(t)
      BY <1>0, <1>1, <2>1, ZenonT(60) DEF SetInv
    <3> QED
      BY <3>1, DecidedStep, ZenonT(60)
  <2> QED
    BY <2>1, ZenonT(60) DEF Decided
<1>5. ASSUME dpc \in {"D", "resolve", "rollback"}, NEW t \in setA' \ setB,
             TwoPhase(t)', cn'[t] = "committed", out'[t][dsrv] = "prepared"
      PROVE  t \in setC'
  <2>1. t \in Txn /\ Decided(t) /\ dsrv \in Worker
    BY <1>0, <1>1, <1>5, ZenonT(60) DEF SetInv
  <2>2. TwoPhase(t) /\ cn[t] = "committed"
    BY <1>5, <2>1, DecidedStep, ZenonT(60)
  <2>3. out[t][dsrv] = "prepared"
    BY <1>5, <2>1, <2>2, CommittedStep, ZenonT(60)
  <2> QED
    BY <1>0, <1>5, <2>2, <2>3, ZenonT(60) DEF SetInv
<1>6. ASSUME dpc = "resolve", NEW t \in setC' \ setD, TwoPhase(t)'
      PROVE  out'[t][dsrv] = "committed"
  <2>1. t \in Txn /\ cn[t] = "committed" /\ dsrv \in Worker
    BY <1>0, <1>1, <1>6, ZenonT(60) DEF SetInv
  <2>2. TwoPhase(t)
    BY <1>6, <2>1, DecidedStep, ZenonT(60) DEF Decided
  <2>3. out[t][dsrv] = "committed"
    BY <1>0, <1>6, <2>2, ZenonT(60) DEF SetInv
  <2> QED
    BY <2>1, <2>2, <2>3, CommittedStep, ZenonT(60)
<1>7. dpc' \in {"D", "resolve", "rollback"} => \A t \in setA' \ setB' :
         TwoPhase(t)' /\ cn'[t] = "committed" /\ out'[t][dsrv'] = "prepared" => t \in setC'
  BY <1>5, ZenonT(60)
<1>8. dpc' = "resolve" => \A t \in setC' \ setD' :
         TwoPhase(t)' => out'[t][dsrv'] = "committed"
  BY <1>6, ZenonT(60)
<1> QED
  BY <1>2, <1>3, <1>4, <1>7, <1>8, ZenonT(60) DEF SetInv, TwoPhase, Decided

(* Between workers, and before set B is read, less is asked of the sets.     *)
LEMMA SetsLeft ==
  ASSUME IInv, [Next]_vars, dpc' \notin {"C", "D", "resolve", "rollback"},
         setA' \subseteq setA, setC' \subseteq setC
  PROVE  SetInv'
<1>0. setA \subseteq Txn /\ setC \subseteq Txn /\ SetInv
  BY ZenonT(60) DEF IInv, TypeOK, DaemonTypeOK, DaemonInv
<1>1. (\A t \in setA' : via'[t] = "twoPhase") /\ (\A t \in setC' : cn'[t] = "committed")
  BY <1>0, DecidedStep, ZenonT(60) DEF SetInv
<1> QED
  BY <1>1, ZenonT(60) DEF SetInv

(* Reading set A: only a transaction in two phases is ever prepared.         *)
LEMMA SetsReadA ==
  ASSUME IInv, [Next]_vars, DaemonReadA
  PROVE  SetInv'
<1>0. DaemonTypeOK /\ SetInv /\ TxnInv /\ (dpc = "A" => dsrv \in Worker)
  BY ZenonT(60) DEF IInv, TypeOK, DaemonInv
<1>1. /\ dpc = "A" /\ dpc' = "B" /\ setC' = setC /\ UNCHANGED <<cn, via>>
  BY ZenonT(60) DEF DaemonReadA, cnVars
<1>2. PICK m \in unsent \cup {Select(dsrv)} :
         setA' = IF m.cmd = "SELECT" THEN PreparedOn(m.w) ELSE {}
  BY ZenonT(60) DEF DaemonReadA
<1>3. m.w \in Worker
  BY <1>0, <1>1, <1>2, SMTT(60) DEF DaemonTypeOK, DaemonCall, Select
<1>4. \A t \in setA' : via[t] = "twoPhase"
  BY <1>0, <1>2, <1>3, SMTT(60) DEF PreparedOn, TxnInv
<1> QED
  BY <1>0, <1>1, <1>4, ZenonT(60) DEF SetInv

(* Reading set B after set A: what was prepared and is not in progress any   *)
(* more is decided.                                                          *)
LEMMA SetsReadB ==
  ASSUME IInv, DaemonReadB
  PROVE  SetInv'
<1>0. DaemonTypeOK /\ CNTypeOK /\ SetInv /\ TxnInv
  BY ZenonT(60) DEF IInv, TypeOK, DaemonInv
<1>1. /\ dpc = "B" /\ dpc' = "C" /\ setB' = inprogress /\ UNCHANGED <<setA, setC, cn, via>>
  BY ZenonT(60) DEF DaemonReadB, cnVars
<1>2. ASSUME NEW t \in setA \ inprogress
      PROVE  cn[t] \in {"committed", "aborted"}
  <2>1. t \in Txn /\ via[t] = "twoPhase"
    BY <1>0, ZenonT(60) DEF SetInv, DaemonTypeOK
  <2> QED
    BY <1>0, <2>1, ZenonT(60) DEF TxnInv, CNTypeOK
<1> QED
  BY <1>0, <1>1, <1>2, ZenonT(60) DEF SetInv, Decided

(* Reading set C after set B: a committed transaction still prepared here    *)
(* has its record.                                                           *)
LEMMA SetsReadC ==
  ASSUME IInv, DaemonReadC
  PROVE  SetInv'
<1>0. DaemonTypeOK /\ SetInv /\ TxnInv /\ InDoubtHasRecord /\ (dpc = "C" => dsrv \in Worker)
  BY ZenonT(60) DEF IInv, TypeOK, DaemonInv
<1>1. /\ dpc = "C" /\ dpc' = "D" /\ setC' = {t \in Txn : <<dsrv, t>> \in record}
      /\ UNCHANGED <<setA, setB, dsrv, cn, via, fresh, out>>
  BY ZenonT(60) DEF DaemonReadC, cnVars, workerVars
<1>2. \A t \in setC' : cn[t] = "committed"
  BY <1>0, <1>1, ZenonT(60) DEF TxnInv
<1>3. \A t \in setA \ setB :
         TwoPhase(t) /\ cn[t] = "committed" /\ out[t][dsrv] = "prepared" => t \in setC'
  BY <1>0, <1>1, ZenonT(60) DEF InDoubtHasRecord, DaemonTypeOK
<1> QED
  BY <1>0, <1>1, <1>2, <1>3, ZenonT(60) DEF SetInv, Decided, TwoPhase

(* Reading set D: a transaction with a record that is not prepared is        *)
(* committed here.                                                           *)
LEMMA SetsReadD ==
  ASSUME IInv, DaemonReadD
  PROVE  SetInv'
<1>0. DaemonTypeOK /\ SetInv /\ AtomicCommit /\ (dpc = "D" => dsrv \in Worker)
  BY ZenonT(60) DEF IInv, TypeOK, DaemonInv
<1>1. /\ dpc = "D" /\ dpc' = "resolve" /\ setD' = PreparedOn(dsrv)
      /\ UNCHANGED <<setA, setB, setC, dsrv, cn, via, fresh, out>>
  BY ZenonT(60) DEF DaemonReadD, cnVars, workerVars
<1>2. ASSUME NEW t \in setC \ setD', TwoPhase(t)
      PROVE  out[t][dsrv] = "committed"
  <2>1. t \in Txn /\ cn[t] = "committed" /\ out[t][dsrv] # "prepared"
    BY <1>0, <1>1, <1>2, ZenonT(60) DEF SetInv, DaemonTypeOK, PreparedOn
  <2> QED
    BY <1>0, <1>1, <1>2, <2>1, ZenonT(60) DEF AtomicCommit, Agreement
<1> QED
  BY <1>0, <1>1, <1>2, ZenonT(60) DEF SetInv, Decided, TwoPhase

(* Outside the daemon's own steps its sets and its place stay, unless the CN *)
(* restarts.                                                                 *)
LEMMA DaemonIdle ==
  ASSUME [Next]_vars
  PROVE  \/ DaemonNext
         \/ CNRestart
         \/ UNCHANGED <<dpc, dsrv, setA, setB, setC, setD, dele, unsent>>
<1>1. ASSUME NEW b \in Backend, BackendNext(b)
      PROVE  UNCHANGED daemonVars
  <2>1. ASSUME NEW t \in Txn, NEW lw \in BOOLEAN,
               CallMeta(b, t, lw) \/ CallMetaUnreachable(b, t, lw)
        PROVE  UNCHANGED daemonVars
    BY <2>1, ZenonT(60) DEF CallMeta, CallMetaUnreachable
  <2>2. ASSUME NEW w \in Worker,
               \/ ReadAnswer(b, w) \/ RenameSubCreate(b, w) \/ ReadPrepareAnswer(b, w)
               \/ ReadCommitAnswer(b, w) \/ ReadAbortAnswer(b, w)
        PROVE  UNCHANGED daemonVars
    BY <2>2, ZenonT(60) DEF ReadAnswer, RenameSubCreate, ReadPrepareAnswer, ReadCommitAnswer,
       ReadAbortAnswer
  <2>3. CASE PreCommitOnePhase(b) \/ PreCommitTwoPhase(b) \/ PrepareFailed(b)
    BY <2>3, ZenonT(60) DEF PreCommitOnePhase, PreCommitTwoPhase, PrepareFailed
  <2>4. CASE Commit(b) \/ Abort(b) \/ EndTransaction(b) \/ BackendExit(b)
    BY <2>4, ZenonT(60) DEF Commit, Abort, EndTransaction, BackendExit
  <2> QED
    BY <1>1, <2>1, <2>2, <2>3, <2>4, ZenonT(60) DEF BackendNext
<1>2. CASE FaultNext
  BY <1>2, FaultCases, ZenonT(60) DEF WorkerCrash, DaemonBreak, Break, daemonVars
<1> QED
  BY <1>1, <1>2, WorkerFrame, ZenonT(60) DEF Next, vars, daemonVars

(* Every step keeps what the daemon's sets say.                              *)
LEMMA SetStep ==
  ASSUME IInv, [Next]_vars
  PROVE  SetInv'
<1>1. CASE UNCHANGED <<dpc, dsrv, setA, setB, setC, setD, dele, unsent>>
  BY <1>1, SetsKept, ZenonT(60)
<1>2. CASE CNRestart
  <2>1. dpc' = "sleep" /\ setA' = {} /\ setC' = {}
    BY <1>2, ZenonT(60) DEF CNRestart
  <2> QED
    BY <2>1, SetsLeft, ZenonT(60)
<1>3. CASE LeaveServer
  BY <1>3, SetsLeft, ZenonT(60) DEF LeaveServer
<1>4. ASSUME NEW m, DaemonCallFails(m)
      PROVE  SetInv'
  BY <1>3, <1>4, ZenonT(60) DEF DaemonCallFails
<1>5. ASSUME NEW t \in Txn, DaemonCommits(t) \/ DaemonRollsBack(t)
      PROVE  SetInv'
  <2>1. PICK f : Resolve(t, f)
    BY <1>5, ZenonT(60) DEF DaemonCommits, DaemonRollsBack
  <2>2. CASE LeaveServer
    BY <1>3, <2>2, ZenonT(60)
  <2>3. CASE /\ setA' = setA \ {t} /\ setC' = setC \ {t}
             /\ UNCHANGED <<dpc, dsrv, setB, setD>>
    BY <2>3, SetsKept, ZenonT(60)
  <2> QED
    BY <2>1, <2>2, <2>3, ZenonT(60) DEF Resolve
<1>6. ASSUME NEW t \in Txn, DaemonSkipRecord(t)
      PROVE  SetInv'
  <2>1. /\ setC' = setC \ {t} /\ (t \in setB \/ t \notin setA)
        /\ UNCHANGED <<dpc, dsrv, setA, setB, setD>>
    BY <1>6, ZenonT(60) DEF DaemonSkipRecord
  <2> QED
    BY <2>1, SetsKept, ZenonT(60)
<1>7. ASSUME NEW t \in Txn, DaemonDeletesRecord(t)
      PROVE  SetInv'
  <2>1. /\ setC' = setC \ {t} /\ setA' = setA \ {t} /\ UNCHANGED <<dpc, dsrv, setB, setD>>
    BY <1>7, ZenonT(60) DEF DaemonDeletesRecord
  <2> QED
    BY <2>1, SetsKept, ZenonT(60)
<1>8. ASSUME NEW t \in Txn, DaemonCommitFails(t) \/ DaemonRollbackFails(t)
      PROVE  SetInv'
  BY <1>4, <1>8, ZenonT(60) DEF DaemonCommitFails, DaemonRollbackFails
<1>9. ASSUME NEW w \in Worker, DaemonNextServer(w)
      PROVE  SetInv'
  BY <1>9, SetsLeft, ZenonT(60) DEF DaemonNextServer
<1>10. CASE DaemonWakeUp \/ DaemonPassEnd \/ DaemonExit
  BY <1>10, SetsLeft, ZenonT(60) DEF DaemonWakeUp, DaemonPassEnd, DaemonExit
<1>11. CASE DaemonEndOfRecords
  <2>1. /\ dpc = "resolve" /\ dpc' = "rollback" /\ setC = {}
        /\ UNCHANGED <<dsrv, setA, setB, setC, setD, cn, via, fresh, out>>
    BY <1>11, ZenonT(60) DEF DaemonEndOfRecords, cnVars, workerVars
  <2> QED
    BY <2>1, ZenonT(60) DEF IInv, DaemonInv, SetInv, Decided, TwoPhase
<1>12. CASE DaemonReadAFails \/ DaemonReadDFails \/ DaemonServerDone
  BY <1>3, <1>4, <1>12, ZenonT(60) DEF DaemonReadAFails, DaemonReadDFails, DaemonServerDone
<1>13. CASE DaemonNext
  BY <1>5, <1>6, <1>7, <1>8, <1>9, <1>10, <1>11, <1>12, <1>13, SetsReadA, SetsReadB,
     SetsReadC, SetsReadD, ZenonT(60)
  DEF DaemonNext
<1> QED
  BY <1>1, <1>2, <1>13, DaemonIdle, ZenonT(60)

(* Where the commands left in the daemon's cache come from.                  *)
LEMMA UnsentStep ==
  ASSUME IInv, [Next]_vars, NEW m \in unsent', m.cmd # "SELECT"
  PROVE  CommandInv(m.w, m.cmd, m.t)'
<1>0. DaemonTypeOK /\ AtWorker
  BY ZenonT(60) DEF IInv, TypeOK, DaemonInv, AtWorker
<1>1. ASSUME m \in DaemonCall,
             \/ m \in unsent
             \/ \E t \in Txn : DaemonCommitFails(t) /\ m = CommitPrepared(t)
             \/ \E t \in Txn : DaemonRollbackFails(t) /\ m = RollbackPrepared(t)
      PROVE  CommandInv(m.w, m.cmd, m.t)'
  <2>1. m.w \in Worker /\ m.t \in Txn /\ Harmless(m)
    BY <1>1, DaemonCallHarmless, ZenonT(60)
  <2> QED
    BY <2>1, CommandStep, ZenonT(60) DEF Harmless
<1>2. CASE m \in unsent
  BY <1>0, <1>1, <1>2, ZenonT(60) DEF DaemonTypeOK
<1>3. ASSUME NEW c, DaemonCallFails(c)
      PROVE  m \in unsent \/ m = c
  BY <1>3, SMTT(60) DEF DaemonCallFails
<1>4. ASSUME NEW t \in Txn, DaemonCommitFails(t)
      PROVE  CommandInv(m.w, m.cmd, m.t)'
  <2>1. CASE m = CommitPrepared(t)
    <3>1. dsrv \in Worker
      BY <1>0, <1>4, ZenonT(60) DEF DaemonCommitFails, AtWorker
    <3>2. m \in DaemonCall
      BY <2>1, <3>1, ZenonT(60) DEF CommitPrepared, DaemonCall, Resolution
    <3> QED
      BY <1>1, <1>4, <2>1, <3>2, ZenonT(60)
  <2> QED
    BY <1>2, <1>3, <1>4, <2>1, ZenonT(60) DEF DaemonCommitFails
<1>5. ASSUME NEW t \in Txn, DaemonRollbackFails(t)
      PROVE  CommandInv(m.w, m.cmd, m.t)'
  <2>1. CASE m = RollbackPrepared(t)
    <3>1. dsrv \in Worker
      BY <1>0, <1>5, ZenonT(60) DEF DaemonRollbackFails, AtWorker
    <3>2. m \in DaemonCall
      BY <2>1, <3>1, ZenonT(60) DEF RollbackPrepared, DaemonCall, Resolution
    <3> QED
      BY <1>1, <1>5, <2>1, <3>2, ZenonT(60)
  <2> QED
    BY <1>2, <1>3, <1>5, <2>1, ZenonT(60) DEF DaemonRollbackFails
<1>6. CASE DaemonReadAFails \/ DaemonReadDFails
  BY <1>2, <1>3, <1>6, SMTT(60) DEF DaemonReadAFails, DaemonReadDFails, Select
<1>7. ASSUME NEW t \in Txn, DaemonCommits(t) \/ DaemonRollsBack(t) \/ DaemonSkipRecord(t)
                            \/ DaemonDeletesRecord(t)
      PROVE  m \in unsent
  BY <1>7, ZenonT(60) DEF DaemonCommits, DaemonRollsBack, Resolve, DaemonSkipRecord, DaemonDeletesRecord
<1>8. CASE DaemonNext
  BY <1>2, <1>4, <1>5, <1>6, <1>7, <1>8, ZenonT(60)
  DEF DaemonNext, DaemonWakeUp, DaemonNextServer, DaemonReadA, DaemonReadB, DaemonReadC,
      DaemonReadD, DaemonEndOfRecords, DaemonServerDone, DaemonPassEnd, DaemonExit
<1> QED
  BY <1>2, <1>8, DaemonIdle, ZenonT(60) DEF CNRestart

(* A record is deleted only where its transaction is committed.              *)
LEMMA DeleStep ==
  ASSUME IInv, [Next]_vars, NEW w \in Worker, NEW t \in Txn, <<w, t>> \in dele'
  PROVE  cn'[t] = "committed" /\ (TwoPhase(t)' => out'[t][w] = "committed")
<1>1. ASSUME <<w, t>> \notin dele
      PROVE  w = dsrv /\ t \in setC \ setD /\ dpc = "resolve"
  <2>1. ASSUME NEW s \in Txn, DaemonDeletesRecord(s)
        PROVE  w = dsrv /\ t \in setC \ setD /\ dpc = "resolve"
    BY <1>1, <2>1, ZenonT(60) DEF DaemonDeletesRecord
  <2>2. ASSUME NEW s \in Txn,
               \/ DaemonCommits(s) \/ DaemonRollsBack(s) \/ DaemonSkipRecord(s)
               \/ DaemonCommitFails(s) \/ DaemonRollbackFails(s)
        PROVE  dele' = dele
    BY <2>2, ZenonT(60) DEF DaemonCommits, DaemonRollsBack, Resolve, DaemonSkipRecord,
       DaemonCommitFails, DaemonRollbackFails, DaemonCallFails
  <2>3. CASE DaemonNext
    BY <1>1, <2>1, <2>2, <2>3, ZenonT(60)
    DEF DaemonNext, DaemonWakeUp, DaemonNextServer, DaemonReadA, DaemonReadB, DaemonReadC,
        DaemonReadD, DaemonEndOfRecords, DaemonServerDone, DaemonPassEnd, DaemonExit,
        DaemonReadAFails, DaemonReadDFails, DaemonCallFails
  <2> QED
    BY <1>1, <2>3, DaemonIdle, ZenonT(60) DEF CNRestart
<1>2. cn[t] = "committed" /\ (TwoPhase(t) => out[t][w] = "committed")
  BY <1>1, ZenonT(60) DEF IInv, DaemonInv, SetInv
<1>3. cn'[t] = "committed" /\ (TwoPhase(t)' => TwoPhase(t))
  BY <1>2, DecidedStep, ZenonT(60) DEF Decided
<1> QED
  BY <1>2, <1>3, CommittedStep, ZenonT(60)

(* While the daemon works on a worker it knows which.                        *)
LEMMA AtWorkerStep ==
  ASSUME AtWorker, [Next]_vars
  PROVE  AtWorker'
<1> USE DEF AtWorker
<1>1. ASSUME NEW m, DaemonCallFails(m)
      PROVE  AtWorker'
  BY <1>1, ZenonT(60) DEF DaemonCallFails, LeaveServer
<1>2. ASSUME NEW t \in Txn,
             \/ DaemonCommits(t) \/ DaemonRollsBack(t) \/ DaemonSkipRecord(t)
             \/ DaemonDeletesRecord(t)
      PROVE  AtWorker'
  BY <1>2, ZenonT(60) DEF DaemonCommits, DaemonRollsBack, Resolve, LeaveServer, DaemonSkipRecord,
     DaemonDeletesRecord
<1>3. CASE DaemonNext
  BY <1>1, <1>2, <1>3, ZenonT(60)
  DEF DaemonNext, DaemonWakeUp, DaemonNextServer, DaemonReadA, DaemonReadB, DaemonReadC,
      DaemonReadD, DaemonEndOfRecords, DaemonServerDone, DaemonPassEnd, DaemonExit,
      DaemonReadAFails, DaemonReadDFails, DaemonCommitFails, DaemonRollbackFails, LeaveServer
<1> QED
  BY <1>3, DaemonIdle, ZenonT(60) DEF CNRestart

-----------------------------------------------------------------------------
(* The initial state satisfies the inductive invariant.                      *)
LEMMA IInvInit == Init => IInv
<1> SUFFICES ASSUME Init PROVE IInv
  BY ZenonT(60)
<1>1. TypeOK
  BY TypeInit, ZenonT(60)
<1>2. OwnerInv /\ TxnInv /\ ReqInv /\ LateInv
  BY ZenonT(60) DEF Init, OwnerInv, TxnInv, ReqInv, LateInv
<1>3. PhaseInv /\ DaemonInv
  BY ZenonT(60) DEF Init, PhaseInv, PhaseOK, DaemonInv, SetInv
<1>4. AtomicCommit /\ InDoubtHasRecord
  BY ZenonT(60) DEF Init, AtomicCommit, InDoubtHasRecord, TwoPhase
<1> QED
  BY <1>1, <1>2, <1>3, <1>4, ZenonT(60) DEF IInv

(* Every step preserves it.                                                  *)
LEMMA IInvStep == IInv /\ [Next]_vars => IInv'
<1> SUFFICES ASSUME IInv, [Next]_vars PROVE IInv'
  BY ZenonT(60)
<1>1. TypeOK /\ OwnerInv /\ TxnInv /\ HasTxn /\ AtWorker
  BY OwnerHasTxn, ZenonT(60) DEF IInv, TypeOK, DaemonInv, AtWorker
<1>2. TypeOK'
  BY <1>1, BackendTypeStep, ConnTypeStep, CNTypeStep, DaemonTypeStep, FaultsTypeStep, ZenonT(60) DEF TypeOK
<1>3. OwnerInv'
  BY <1>1, OwnerStep, ZenonT(60)
<1>4. AtWorker'
  BY <1>1, AtWorkerStep, ZenonT(60)
<1>5. DaemonInv'
  BY <1>4, SetStep, UnsentStep, DeleStep, ZenonT(60) DEF DaemonInv, AtWorker
<1> QED
  BY <1>2, <1>3, <1>5, TxnStep, ReqStep, LateStep, PhaseStep, AtomicStep, ZenonT(60) DEF IInv

(* The variables of the two-phase commit keep their types whatever fails:    *)
(* in particular every command on a connection, under way or left in the     *)
(* daemon's cache names a real transaction.                                  *)
THEOREM TypeCorrect == Spec => []TypeOK
<1>1. IInv => TypeOK
  BY ZenonT(60) DEF IInv
<1> QED
  BY <1>1, IInvInit, IInvStep, PTL DEF Spec

(* Atomicity of every transaction that went through the two phases over      *)
(* fresh connections (CuckooRemoteCommandPrepare, -Commit, -Abort and        *)
(* CleanupPreparedTransactions): the CN and all workers agree.               *)
THEOREM TwoPhaseIsAtomic == Spec => []AtomicCommit
<1>1. IInv => AtomicCommit
  BY ZenonT(60) DEF IInv
<1> QED
  BY <1>1, IInvInit, IInvStep, PTL DEF Spec

(* The 2PC record of a committed transaction is there as long as a worker    *)
(* has it prepared (Write2PCRecord, and the deletion in                      *)
(* CleanupPreparedTransactions): the daemon never loses one that is in doubt.*)
THEOREM RecordOutlivesDoubt == Spec => []InDoubtHasRecord
<1>1. IInv => InDoubtHasRecord
  BY ZenonT(60) DEF IInv
<1> QED
  BY <1>1, IInvInit, IInvStep, PTL DEF Spec
=============================================================================
