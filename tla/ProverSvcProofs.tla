--------------------------- MODULE ProverSvcProofs ---------------------------
(***************************************************************************)
(* The settlement loop with the prover service in it takes only steps of   *)
(* the settlement loop, whatever the service does: the theorems of         *)
(* SettlementProofs hold of it, and only what was proved is sent to L1.    *)
(***************************************************************************)
EXTENDS ProverSvc, SettlementProofs

ProverTypeOK ==
  /\ mode \in ProofKind
  /\ call \in [Request -> CallStatus]
  /\ worker \in [Request -> [status : WorkerStatus, mode : ProofKind]]

\* A request calls the prover once, while it is proving; what it goes on with is
\* the proof of the thread that this call started, which nothing replaces.
CallInv ==
  \A r \in Request :
    /\ call[r] # "none" => pc[r] = "proving"
    /\ call[r] = "ok" => worker[r].status = "proved"
    /\ worker[r].status = "proved" => Provable(r)
    /\ pc[r] = "idle" => worker[r].status = "none"
    /\ pc[r] \in {"idle", "proving"} => l1tx[r] = "none"
    /\ pc[r] = "submitting" => worker[r].status = "proved"

PInv == ProverTypeOK /\ CallInv /\ SentIsProved

USE ProverSvcAssumption, SettlementAssumption
    DEF ProverTypeOK, CallInv, SentIsProved, CallStatus, WorkerStatus, NoWorker

----------------------------------------------------------------------------

LEMMA InitPInv == ProverInit => PInv
BY DEF ProverInit, Init, PInv, TypeOK

\* A step of the service alone is a stutter of the settlement loop.
LEMMA ServiceStep ==
  ASSUME IInv, PInv,
         Serve \/ ServiceDies
           \/ \E r \in Request : WorkerEnds(r) \/ run_off_runtime(r) \/ PostProve(r)
  PROVE  PInv' /\ UNCHANGED vars
<1>1. UNCHANGED vars
  BY DEF Serve, ServiceDies, WorkerEnds, run_off_runtime, PostProve
<1>2. UNCHANGED <<pc, l1tx, job>> /\ \A r \in Request : Provable(r)' = Provable(r)
  BY <1>1 DEF vars, Provable
<1>3. CASE Serve
  BY <1>2, <1>3 DEF Serve, PInv
<1>4. CASE ServiceDies
  BY <1>2, <1>4 DEF ServiceDies, PInv
<1>5. ASSUME NEW r \in Request, WorkerEnds(r)
      PROVE  PInv'
  BY <1>2, <1>5 DEF WorkerEnds, PInv
<1>6. ASSUME NEW r \in Request, run_off_runtime(r)
      PROVE  PInv'
  BY <1>2, <1>6 DEF run_off_runtime, PInv
<1>7. ASSUME NEW r \in Request, PostProve(r)
      PROVE  PInv'
  BY <1>2, <1>7 DEF PostProve, PInv
<1>8. QED
  BY <1>1, <1>3, <1>4, <1>5, <1>6, <1>7

\* The end of a call is the end of the loop's `prove`, with the same outcome.
LEMMA ProveStep ==
  ASSUME IInv, PInv, NEW r \in Request,
         ProofReceived(r) \/ Timeout(r) \/ ErrorReceived(r)
  PROVE  PInv' /\ Next
<1>1. TypeOK
  BY DEF IInv
<1>2. Proved(r) \/ ProveFailed(r)
  BY DEF ProofReceived, Timeout, ErrorReceived, EndCall, Goto, Proved, ProveFailed, PInv
<1>3. \A q \in Request : Provable(q)' = Provable(q)
  BY DEF ProofReceived, Timeout, ErrorReceived, Provable
<1>4. /\ UNCHANGED <<mode, worker, l1tx>>
      /\ call' = [call EXCEPT ![r] = "none"]
      /\ \/ pc' = [pc EXCEPT ![r] = "submitting"] /\ call[r] = "ok"
         \/ pc' = [pc EXCEPT ![r] = "restoring"]
  BY DEF ProofReceived, Timeout, ErrorReceived, EndCall, Goto
<1>5. pc \in [Request -> Label]
  BY <1>1 DEF TypeOK
<1>6. PInv'
  BY <1>3, <1>4, <1>5 DEF PInv
<1>7. QED
  BY <1>2, <1>6 DEF Next, Progress

\* A proof of another kind than the verifier's is one of the reverts that
\* the loop expects.
LEMMA MineProofStep ==
  ASSUME IInv, PInv, NEW r \in Request, MineProof(r)
  PROVE  PInv' /\ Next
<1>1. TypeOK
  BY DEF IInv
<1>2. CASE submitBatch(pv(r), worker[r].mode) /\ l1tx' = [l1tx EXCEPT ![r] = "succeeded"]
  <2>1. worker[r].mode = Verifier
    BY <1>2 DEF submitBatch, Accepted, VerifyProof
  <2>2. Mine(r)
    BY <1>2, <2>1 DEF MineProof, Mine
  <2>3. \A q \in Request : Provable(q)' = Provable(q)
    BY DEF MineProof, Provable
  <2>4. PInv'
    BY <1>1, <1>2, <2>1, <2>3 DEF MineProof, PInv, TypeOK, proverVars
  <2>5. QED
    BY <2>2, <2>4 DEF Next
<1>3. CASE l1tx' = [l1tx EXCEPT ![r] = "reverted"] /\ UNCHANGED rollupVars
  <2>1. Mine(r)
    BY <1>3 DEF MineProof, Mine
  <2>2. \A q \in Request : Provable(q)' = Provable(q)
    BY DEF MineProof, Provable
  <2>3. PInv'
    BY <1>1, <1>3, <2>2 DEF MineProof, PInv, TypeOK, proverVars
  <2>4. QED
    BY <2>1, <2>3 DEF Next
<1>4. QED
  BY <1>2, <1>3 DEF MineProof

\* After the proof the handler is that of the loop.
LEMMA AfterProofStep ==
  ASSUME IInv, PInv, NEW r \in Request, AfterProof(r)
  PROVE  PInv' /\ Next
<1>1. TypeOK
  BY DEF IInv
<1>2. Next
  BY DEF AfterProof, Next, Progress
<1>3. UNCHANGED <<job, proverVars>>
  BY DEF AfterProof, Sent, SendFailed, ReceiptOk, ReceiptReverted, ReceiptFailed,
         Restore, Commit, Respond
<1>4. \A q \in Request : Provable(q)' = Provable(q)
  BY <1>3 DEF Provable
<1>5. ASSUME NEW q \in Request, q # r
      PROVE  pc'[q] = pc[q] /\ l1tx'[q] = l1tx[q]
  BY <1>1, <1>5
  DEF AfterProof, Sent, SendFailed, ReceiptOk, ReceiptReverted, ReceiptFailed,
      Restore, Commit, Respond, Goto, Finish, TypeOK
<1>6. /\ pc[r] \notin {"idle", "proving"}
      /\ pc'[r] \notin {"idle", "proving", "submitting"}
      /\ l1tx'[r] = l1tx[r] \/ (pc[r] = "submitting" /\ l1tx'[r] = "pending")
  BY <1>1
  DEF AfterProof, Sent, SendFailed, ReceiptOk, ReceiptReverted, ReceiptFailed,
      Restore, Commit, Respond, Goto, Finish, TypeOK
<1>7. PInv'
  BY <1>3, <1>4, <1>5, <1>6 DEF PInv, proverVars
<1>8. QED
  BY <1>2, <1>7

\* Callers that are gone leave their threads, and perhaps a transaction, behind.
LEMMA GoneStep ==
  ASSUME IInv, PInv, CallersGone
  PROVE  PInv' /\ Next
<1>1. TypeOK
  BY DEF IInv
<1>2. Next
  BY DEF CallersGone, Next
<1>3. UNCHANGED <<job, mode, worker>> /\ \A q \in Request : Provable(q)' = Provable(q)
  BY DEF CallersGone, Crash, Disconnect, Provable
<1>4. ASSUME NEW q \in Request
      PROVE  /\ pc'[q] = pc[q] \/ (pc[q] \in Live /\ pc'[q] = "done")
             /\ l1tx'[q] = l1tx[q] \/ (pc[q] = "submitting" /\ l1tx'[q] = "pending")
  <2>1. CASE Crash
    BY <1>1, <2>1 DEF Crash, MaybeSent, TypeOK
  <2>2. CASE \E r \in Request : Disconnect(r)
    BY <1>1, <2>2 DEF Disconnect, MaybeSent, Finish, TypeOK
  <2>3. QED
    BY <2>1, <2>2 DEF CallersGone
<1>5. /\ call' \in [Request -> CallStatus]
      /\ \A q \in Request : call'[q] = "none" \/ (call'[q] = call[q] /\ pc'[q] = pc[q])
  <2>1. CASE Crash /\ call' = [r \in Request |-> "none"]
    BY <2>1
  <2>2. CASE \E r \in Request : Disconnect(r) /\ call' = [call EXCEPT ![r] = "none"]
    BY <1>1, <2>2 DEF Disconnect, Finish, TypeOK, PInv
  <2>3. QED
    BY <2>1, <2>2 DEF CallersGone
<1>6. PInv'
  BY <1>3, <1>4, <1>5 DEF PInv, Live, Label
<1>7. QED
  BY <1>2, <1>6

\* What does not call the prover.
LEMMA AroundStep ==
  ASSUME IInv, PInv, Around
  PROVE  PInv' /\ Next
<1>1. TypeOK
  BY DEF IInv
<1>2. Next
  BY DEF Around, RestartWithProver, Next
<1>3. UNCHANGED proverVars
  BY DEF Around
<1>4. ASSUME UNCHANGED <<pc, job, l1tx>>
      PROVE  PInv'
  BY <1>3, <1>4 DEF PInv, proverVars, Provable
<1>5. ASSUME NEW tx \in Txs, submit_tx(tx) \/ reject_tx(tx)
      PROVE  PInv'
  BY <1>4, <1>5 DEF submit_tx, reject_tx, vars
<1>6. ASSUME RestartWithProver \/ RestartBails
      PROVE  PInv'
  BY <1>4, <1>6 DEF RestartWithProver, Restart, RestartBails, vars
<1>7. ASSUME NEW r \in Request, Trigger(r)
      PROVE  PInv'
  <2>1. /\ pc[r] = "idle" /\ l1tx' = l1tx /\ pc'[r] \in {"done", "proving"}
        /\ \A q \in Request \ {r} : pc'[q] = pc[q] /\ job'[q] = job[q]
    BY <1>1, <1>7 DEF Trigger, TriggerEmpty, TriggerDrain, Goto, Finish, TypeOK
  <2>2. \A q \in Request \ {r} : Provable(q)' = Provable(q)
    BY <2>1 DEF Provable
  <2>3. QED
    BY <1>3, <2>1, <2>2 DEF PInv, proverVars
<1>8. ASSUME NEW r \in Request, Evict(r)
      PROVE  PInv'
  <2>1. \A q \in Request : Provable(q)' = Provable(q)
    BY <1>8 DEF Evict, Provable
  <2>2. QED
    BY <1>1, <1>3, <1>8, <2>1 DEF Evict, PInv, proverVars, TypeOK
<1>9. QED
  BY <1>2, <1>5, <1>6, <1>7, <1>8 DEF Around

LEMMA NextPInv ==
  ASSUME IInv, PInv, [ProverNext]_proverSvcVars
  PROVE  PInv' /\ [Next]_vars
<1>1. CASE Serve \/ ServiceDies
  BY <1>1, ServiceStep
<1>2. CASE CallersGone
  BY <1>2, GoneStep
<1>3. CASE Around
  BY <1>3, AroundStep
<1>4. ASSUME NEW r \in Request,
             WorkerEnds(r) \/ run_off_runtime(r) \/ Prove(r) \/ AfterProof(r) \/ MineProof(r)
      PROVE  PInv' /\ [Next]_vars
  BY <1>4, ServiceStep, ProveStep, AfterProofStep, MineProofStep DEF Prove
<1>5. CASE UNCHANGED proverSvcVars
  BY <1>5 DEF proverSvcVars, proverVars, vars, PInv, Provable
<1>6. QED
  BY <1>1, <1>2, <1>3, <1>4, <1>5 DEF ProverNext

\* The two inductive invariants, of the loop and of the calls, hold together.
LEMMA ProverInvariance == ProverSpec => [](IInv /\ PInv)
<1>1. ProverInit => IInv /\ PInv
  BY InitIInv, InitPInv DEF ProverInit
<1>2. IInv /\ PInv /\ [ProverNext]_proverSvcVars => (IInv /\ PInv)'
  BY NextPInv, NextIInv
<1>3. QED
  BY <1>1, <1>2, PTL DEF ProverSpec

----------------------------------------------------------------------------

\* Whatever the service does (dies, restarts in another mode, panics, answers
\* late), what it does to the sequencer and to L1 is a behaviour of Settlement,
\* so that every invariant proved of Settlement holds with the service in it.
THEOREM ImplementsSpec == ProverSpec => Spec
<1>1. ProverInit => Init
  BY DEF ProverInit
<1>2. IInv /\ PInv /\ [ProverNext]_proverSvcVars => [Next]_vars
  BY NextPInv
<1>3. QED
  BY <1>1, <1>2, ProverInvariance, PTL DEF ProverSpec, Spec

\* No transaction reaches L1 without a proof by a thread of its own request, although
\* threads fail, hang and outlive their calls and the service restarts.
THEOREM OnlyProofsAreSent == ProverSpec => []SentIsProved
<1>1. PInv => SentIsProved
  BY DEF PInv
<1>2. QED
  BY <1>1, ProverInvariance, PTL
=============================================================================
