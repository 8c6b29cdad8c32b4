------------------------------ MODULE ProverSvc ------------------------------
(***************************************************************************)
(* The prover service and its one client: ProverClient::prove of the       *)
(* sequencer, and crates/prover-svc/src/main.rs with the OS thread that    *)
(* each POST /prove starts, composed with the settlement loop.  Settlement *)
(* takes `prove` for one step that succeeds or fails; here it is a call    *)
(* over HTTP to a process that restarts, perhaps in another PROOF_MODE,    *)
(* and to a thread that may fail, panic or never end, and that nobody      *)
(* stops when its caller is gone.                                          *)
(***************************************************************************)
EXTENDS Settlement

CONSTANT Modes   \* the PROOF_MODEs in which an operator starts the service

\* ProofMode, the mode that Settlement knows, is the one the contract was deployed
\* for and the service is first started in.
ASSUME ProverSvcAssumption ==
  /\ Modes \subseteq ProofKind
  /\ ProofMode \in Modes
  /\ ProofMode = Verifier
  /\ {"prove", "revert"} \subseteq Faults

VARIABLES serving,  \* is the prover-svc process up
          mode,     \* its AppState.mode
          call,     \* what ProverClient::prove sees of its POST /prove
          worker    \* the thread that run_off_runtime started for it

proverVars == <<serving, mode, call, worker>>

\* waiting: connected, no answer yet; ok: 200; error: 400, 413 or 500, or the
\* connection broke. A call that is over, and one that is not yet made, is none.
CallStatus == {"none", "waiting", "ok", "error"}

\* proved: the closure has returned a proof. One that has returned Err, or has
\* panicked and dropped its end of the channel, leaves nothing.
WorkerStatus == {"none", "running", "proved"}

NoWorker == [status |-> "none", mode |-> ProofMode]

ProverInit ==
  /\ Init
  /\ serving = TRUE
  /\ mode = ProofMode
  /\ call = [r \in Request |-> "none"]
  /\ worker = [r \in Request |-> NoWorker]

----------------------------------------------------------------------------
(* prover-svc.                                                             *)

\* The mode is read from the environment once, before the runtime is started.
Serve ==
  /\ ~serving
  /\ serving' = TRUE
  /\ mode' \in Modes
  /\ UNCHANGED <<vars, call, worker>>

\* The handlers and the threads die with the process.
ServiceDies ==
  /\ serving
  /\ serving' = FALSE
  /\ call' = [r \in Request |-> IF call[r] = "waiting" THEN "error" ELSE call[r]]
  /\ worker' = [r \in Request |->
                  IF worker[r].status = "running" THEN NoWorker ELSE worker[r]]
  /\ UNCHANGED <<vars, mode>>

\* The thread shares nothing with the handler but the channel, into which it
\* sends whether or not somebody waits. A guest that rejects the batch makes
\* the prover return an Err; proving may also fail by itself.
WorkerEnds(r) ==
  /\ worker[r].status = "running"
  /\ \/ Provable(r) /\ worker' = [worker EXCEPT ![r].status = "proved"]
     \/ worker' = [worker EXCEPT ![r] = NoWorker]
  /\ UNCHANGED <<vars, serving, mode, call>>

\* rx.await in run_off_runtime, and the rest of the handler: there is one as
\* long as its client is connected. An Err is a 400, a dropped channel a 500.
run_off_runtime(r) ==
  /\ pc[r] = "proving" /\ call[r] = "waiting"
  /\ worker[r].status # "running"
  /\ call' = [call EXCEPT ![r] = IF worker[r].status = "proved" THEN "ok" ELSE "error"]
  /\ UNCHANGED <<vars, serving, mode, worker>>

----------------------------------------------------------------------------
(* ProverClient::prove, and what trigger_batch does with its result.       *)

\* The handler copies the mode and starts a thread, unless the body, which
\* carries the whole state, is over the 2 MB that the Json extractor takes.
PostProve(r) ==
  /\ pc[r] = "proving" /\ call[r] = "none"
  /\ serving
  /\ \/ /\ call' = [call EXCEPT ![r] = "waiting"]
        /\ worker' = [worker EXCEPT ![r] = [status |-> "running", mode |-> mode]]
     \/ call' = [call EXCEPT ![r] = "error"] /\ UNCHANGED worker
  /\ UNCHANGED <<vars, serving, mode>>

EndCall(r, label) ==
  /\ Goto(r, label)
  /\ call' = [call EXCEPT ![r] = "none"]

\* Mutant: the status of the answer is not looked at.
AnyAnswerIsProof(r) ==
  /\ pc[r] = "proving" /\ call[r] \in {"ok", "error"}
  /\ EndCall(r, "submitting")
  /\ UNCHANGED <<sequencerVars, rollupVars, up, job, answer, l1tx, accepted>>
  /\ UNCHANGED <<serving, mode, worker>>

\* 200, whose hex and 96 bytes of public values always decode.
ProofReceived(r) ==
  /\ pc[r] = "proving" /\ call[r] = "ok"
  /\ EndCall(r, "submitting")
  /\ UNCHANGED <<sequencerVars, rollupVars, up, job, answer, l1tx, accepted>>
  /\ UNCHANGED <<serving, mode, worker>>

\* Mutant: the client has no timeout.
TimeoutNever(r) == FALSE /\ pc[r] = "proving" /\ UNCHANGED <<vars, proverVars>>

\* No complete answer for two hours, although one may be on its way.
Timeout(r) ==
  /\ pc[r] = "proving" /\ call[r] \in {"waiting", "ok"}
  /\ EndCall(r, "restoring")
  /\ UNCHANGED <<sequencerVars, rollupVars, up, job, answer, l1tx, accepted>>
  /\ UNCHANGED <<serving, mode, worker>>

\* An error status, or no connection: refused, or broken while it lasted.
ErrorReceived(r) ==
  /\ pc[r] = "proving"
  /\ call[r] = "error" \/ (call[r] = "none" /\ ~serving)
  /\ EndCall(r, "restoring")
  /\ UNCHANGED <<sequencerVars, rollupVars, up, job, answer, l1tx, accepted>>
  /\ UNCHANGED <<serving, mode, worker>>

Prove(r) == PostProve(r) \/ ProofReceived(r) \/ Timeout(r) \/ ErrorReceived(r)

----------------------------------------------------------------------------
(* The settlement loop around the call.                                    *)

\* The proof is of the mode its thread was started in.
MineProof(r) ==
  /\ l1tx[r] = "pending"
  /\ \/ /\ submitBatch(pv(r), worker[r].mode)
        /\ l1tx' = [l1tx EXCEPT ![r] = "succeeded"]
     \/ /\ ~Accepted(pv(r), worker[r].mode)
        /\ l1tx' = [l1tx EXCEPT ![r] = "reverted"]
        /\ UNCHANGED rollupVars
  /\ UNCHANGED <<sequencerVars, up, pc, job, answer, accepted, proverVars>>

AfterProof(r) ==
  /\ Sent(r) \/ SendFailed(r) \/ ReceiptOk(r) \/ ReceiptReverted(r) \/ ReceiptFailed(r)
     \/ Restore(r) \/ Commit(r) \/ Respond(r)
  /\ UNCHANGED proverVars

\* main asks for the prover's /info before it looks at L1.
RestartWithProver == serving /\ Restart

\* The callers are gone, and with them the handlers they waited for; the threads
\* know nothing of it.
CallersGone ==
  /\ \/ Crash /\ call' = [r \in Request |-> "none"]
     \/ \E r \in Request : Disconnect(r) /\ call' = [call EXCEPT ![r] = "none"]
  /\ UNCHANGED <<serving, mode, worker>>

Around ==
  /\ \/ \E tx \in Txs : submit_tx(tx) \/ reject_tx(tx)
     \/ \E r \in Request : Trigger(r) \/ Evict(r)
     \/ RestartWithProver \/ RestartBails
  /\ UNCHANGED proverVars

ProverNext ==
  \/ Serve \/ ServiceDies \/ CallersGone \/ Around
  \/ \E r \in Request :
       WorkerEnds(r) \/ run_off_runtime(r) \/ Prove(r) \/ AfterProof(r) \/ MineProof(r)

proverSvcVars == <<vars, proverVars>>

\* As in Settlement, for the client's side only: nothing says that the service
\* comes back, that a thread ends or that a handler gets to answer.
ProverSpec ==
  /\ ProverInit /\ [][ProverNext]_proverSvcVars
  /\ \A r \in Request :
       /\ WF_proverSvcVars(Prove(r))
       /\ WF_proverSvcVars(AfterProof(r))
       /\ WF_proverSvcVars(MineProof(r))

----------------------------------------------------------------------------
(* Properties.                                                             *)

\* Settlement is what a caller of the service may count on: each call ends, in
\* a proof or an error (and never in one that does not decode), no thread that
\* outlives its call moves a request, and a proof of the wrong kind does no more
\* than revert. The fairness that Settlement assumes of a request is included.
ImplementsSettlement == FairSpec

\* What is sent to L1 has been proved, by a thread of the request's own.
SentIsProved ==
  \A r \in Request : l1tx[r] # "none" => worker[r].status = "proved"
=============================================================================
