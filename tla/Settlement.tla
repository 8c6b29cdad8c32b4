----------------------------- MODULE Settlement -----------------------------
(***************************************************************************)
(* The settlement loop of the rollup: the POST /tx and POST /batch         *)
(* handlers of crates/sequencer/src/routes.rs over the SequencerState they *)
(* share, the prover service and the L1 they call, and the Rollup          *)
(* contract.  Each `.await` of trigger_batch is a boundary between two     *)
(* steps: the handlers of other requests, L1, a client that hangs up and a *)
(* crash of the process may all come in between.                           *)
(***************************************************************************)
EXTENDS SequencerState, Rollup, FiniteSets

CONSTANTS Genesis,    \* the state of genesis.json
          Txs,        \* the transactions clients may submit
          Request,    \* the POST /batch requests
          ProofMode,  \* PROOF_MODE of the prover service
          Faults      \* what may go wrong around the sequencer

\* prove      prover-svc answers an error          malformed   ... undecodable bytes
\* send       L1 refuses the transaction           sendLost    ... or takes it, but says it failed
\* receipt    waiting for the receipt fails        evict       L1 drops a pending transaction
\* revert     a transaction reverts although the contract would take its batch: the
\*            proof is of another kind or program, or it is out of its fixed gas
\* disconnect a client of POST /batch hangs up     crash       the sequencer process dies
FaultKind == {"prove", "malformed", "send", "sendLost", "receipt",
              "evict", "revert", "disconnect", "crash"}

ASSUME SettlementAssumption ==
  /\ Genesis \in State
  /\ Txs \subseteq Tx
  /\ ProofMode \in ProofKind
  /\ Faults \subseteq FaultKind

\* genesis.json lists the accounts.
ASSUME GenesisAssumption == IsFiniteSet(DOMAIN Genesis)

\* No account sends 2^64 transactions, so that no nonce wraps.
ASSUME NonceAssumption == \A tx \in Txs : tx.nonce < MaxU64

VARIABLES up,        \* is the sequencer process running
          pc,        \* where each POST /batch request is in trigger_batch
          job,       \* the (prev_state, batch) that drain_for_batch gave it
          answer,    \* what its client was told
          l1tx,      \* its submitBatch transaction on L1
          accepted   \* history: the transactions POST /tx has accepted

vars == <<sequencerVars, rollupVars, up, pc, job, answer, l1tx, accepted>>

----------------------------------------------------------------------------

Label == {"idle", "proving", "submitting", "awaiting", "restoring",
          "committing", "responding", "done"}

Live == Label \ {"idle", "done"}

Job == [prev_state : State, txs : Batch]

NoJob == [prev_state |-> [a \in {} |-> DefaultAccount], txs |-> <<>>]

\* empty: 400, the mempool is empty; failed: 500, proving or L1 failed;
\* diverged: 500, settled on L1 but commit_batch failed; settled: 200;
\* lost: the connection is gone.
Status == {"none", "empty", "failed", "diverged", "settled", "lost"}

Answer == [status : Status, batch_number : U64]

NoAnswer == [status |-> "none", batch_number |-> 0]

Tell(status) == [status |-> status, batch_number |-> 0]

L1Status == {"none", "pending", "succeeded", "reverted", "dropped"}

\* The public values of the proof of a request's job, which the sequencer sends
\* to L1 as they are and whose second word is its new_root_pv.
pv(r) == apply_batch(job[r].prev_state, job[r].txs)

Goto(r, label) == pc' = [pc EXCEPT ![r] = label]

Finish(r, status) ==
  /\ pc' = [pc EXCEPT ![r] = "done"]
  /\ answer' = [answer EXCEPT ![r] = Tell(status)]

Init ==
  /\ InitialSequencer(Genesis)
  /\ constructor(merkle_root(Genesis))
  /\ up = TRUE
  /\ pc = [r \in Request |-> "idle"]
  /\ job = [r \in Request |-> NoJob]
  /\ answer = [r \in Request |-> NoAnswer]
  /\ l1tx = [r \in Request |-> "none"]
  /\ accepted = {}

----------------------------------------------------------------------------
(* POST /tx                                                                *)

submit_tx(tx) ==
  /\ up
  /\ admit_tx(tx)
  /\ accepted' = accepted \cup {tx}
  /\ UNCHANGED <<rollupVars, up, pc, job, answer, l1tx>>

\* 400, rejected by stf.
reject_tx(tx) ==
  /\ up
  /\ ~Applies(speculative_state, tx)
  /\ UNCHANGED vars

----------------------------------------------------------------------------
(* POST /batch: trigger_batch, one action per stretch between two awaits.  *)

TriggerEmpty(r) ==
  /\ up
  /\ pc[r] = "idle"
  /\ mempool = <<>>
  /\ Finish(r, "empty")
  /\ UNCHANGED <<sequencerVars, rollupVars, up, job, l1tx, accepted>>

TriggerDrain(r) ==
  /\ up
  /\ pc[r] = "idle"
  /\ mempool # <<>>
  /\ job' = [job EXCEPT ![r] = [prev_state |-> canonical_state, txs |-> mempool]]
  /\ drain_for_batch
  /\ Goto(r, "proving")
  /\ UNCHANGED <<rollupVars, up, answer, l1tx, accepted>>

\* The guest runs apply_batch and panics if it rejects a transaction, so there
\* is a proof only of a batch that applies.
Provable(r) == apply_txs(job[r].prev_state, job[r].txs).ok

Proved(r) ==
  /\ pc[r] = "proving"
  /\ Provable(r)
  /\ Goto(r, "submitting")
  /\ UNCHANGED <<sequencerVars, rollupVars, up, job, answer, l1tx, accepted>>

ProveFailed(r) ==
  /\ pc[r] = "proving"
  /\ "prove" \in Faults \/ ~Provable(r)
  /\ Goto(r, "restoring")
  /\ UNCHANGED <<sequencerVars, rollupVars, up, job, answer, l1tx, accepted>>

\* Bad hex, or public values that are not 96 bytes: returns at once.
ProofMalformed(r) ==
  /\ pc[r] = "proving"
  /\ "malformed" \in Faults
  /\ Finish(r, "failed")
  /\ UNCHANGED <<sequencerVars, rollupVars, up, job, l1tx, accepted>>

\* l1.submit_batch: send(), which succeeds, fails, or fails after the node took
\* the transaction.
Sent(r) ==
  /\ pc[r] = "submitting"
  /\ l1tx' = [l1tx EXCEPT ![r] = "pending"]
  /\ Goto(r, "awaiting")
  /\ UNCHANGED <<sequencerVars, rollupVars, up, job, answer, accepted>>

SendFailed(r) ==
  /\ pc[r] = "submitting"
  /\ \/ "send" \in Faults /\ l1tx' = l1tx
     \/ "sendLost" \in Faults /\ l1tx' = [l1tx EXCEPT ![r] = "pending"]
  /\ Goto(r, "restoring")
  /\ UNCHANGED <<sequencerVars, rollupVars, up, job, answer, accepted>>

\* Mutant: receipt.status() is not looked at.
ReceiptAnyStatus(r) ==
  /\ pc[r] = "awaiting"
  /\ l1tx[r] \in {"succeeded", "reverted"}
  /\ Goto(r, "committing")
  /\ UNCHANGED <<sequencerVars, rollupVars, up, job, answer, l1tx, accepted>>

\* Mutant: the commit is skipped.
ReceiptWithoutCommit(r) ==
  /\ pc[r] = "awaiting"
  /\ l1tx[r] = "succeeded"
  /\ Goto(r, "responding")
  /\ UNCHANGED <<sequencerVars, rollupVars, up, job, answer, l1tx, accepted>>

\* get_receipt().await, which has no timeout.
ReceiptOk(r) ==
  /\ pc[r] = "awaiting"
  /\ l1tx[r] = "succeeded"
  /\ Goto(r, "committing")
  /\ UNCHANGED <<sequencerVars, rollupVars, up, job, answer, l1tx, accepted>>

\* Mutant: a batch that reverted is sent again.
ResendReverted(r) ==
  /\ pc[r] = "awaiting"
  /\ l1tx[r] = "reverted"
  /\ Goto(r, "submitting")
  /\ UNCHANGED <<sequencerVars, rollupVars, up, job, answer, l1tx, accepted>>

ReceiptReverted(r) ==
  /\ pc[r] = "awaiting"
  /\ l1tx[r] = "reverted"
  /\ Goto(r, "restoring")
  /\ UNCHANGED <<sequencerVars, rollupVars, up, job, answer, l1tx, accepted>>

ReceiptFailed(r) ==
  /\ pc[r] = "awaiting"
  /\ "receipt" \in Faults
  /\ Goto(r, "restoring")
  /\ UNCHANGED <<sequencerVars, rollupVars, up, job, answer, l1tx, accepted>>

\* The error arms of prove (routes.rs:237-243) and of submit_batch (276-284) do the
\* same, once they get the write lock.
Restore(r) ==
  /\ pc[r] = "restoring"
  /\ restore_mempool(job[r].txs)
  /\ Finish(r, "failed")
  /\ UNCHANGED <<rollupVars, up, job, l1tx, accepted>>

Commit(r) ==
  /\ pc[r] = "committing"
  /\ commit_batch(job[r].txs, pv(r).newRoot)
  /\ IF CommitSucceeds(job[r].txs, pv(r).newRoot)
     THEN Goto(r, "responding") /\ UNCHANGED answer
     ELSE Finish(r, "diverged")
  /\ UNCHANGED <<rollupVars, up, job, l1tx, accepted>>

\* The batch number is read under a second lock, taken after the commit's. The
\* RwLock is fair, so that once read() is polled no later writer overtakes it: it is
\* between the release of the first lock and that poll that another batch may commit.
Respond(r) ==
  /\ pc[r] = "responding"
  /\ Goto(r, "done")
  /\ answer' = [answer EXCEPT ![r] =
                  [status |-> "settled", batch_number |-> batch_count]]
  /\ UNCHANGED <<sequencerVars, rollupVars, up, job, l1tx, accepted>>

----------------------------------------------------------------------------
(* L1.  Pending transactions are mined in any order.                       *)

Mine(r) ==
  /\ l1tx[r] = "pending"
  /\ \/ /\ submitBatch(pv(r), ProofMode)
        /\ l1tx' = [l1tx EXCEPT ![r] = "succeeded"]
     \/ /\ "revert" \in Faults \/ ~Accepted(pv(r), ProofMode)
        /\ l1tx' = [l1tx EXCEPT ![r] = "reverted"]
        /\ UNCHANGED rollupVars
  /\ UNCHANGED <<sequencerVars, up, pc, job, answer, accepted>>

Evict(r) ==
  /\ "evict" \in Faults
  /\ l1tx[r] = "pending"
  /\ l1tx' = [l1tx EXCEPT ![r] = "dropped"]
  /\ UNCHANGED <<sequencerVars, rollupVars, up, pc, job, answer, accepted>>

----------------------------------------------------------------------------
(* Clients that hang up, and the process.                                  *)

\* A request dropped while send() is on its way to the node may leave a
\* transaction there.
MaybeSent(dropped) ==
  \E sent \in SUBSET {r \in dropped : pc[r] = "submitting"} :
    l1tx' = [r \in Request |-> IF r \in sent THEN "pending" ELSE l1tx[r]]

\* The server drops the handler's future at the await it is in.
Disconnect(r) ==
  /\ "disconnect" \in Faults
  /\ pc[r] \in Live
  /\ Finish(r, "lost")
  /\ MaybeSent({r})
  /\ UNCHANGED <<sequencerVars, rollupVars, up, job, accepted>>

\* Nothing of the SequencerState is on disk; what the variables hold while the
\* process is down is read by nobody.
Crash ==
  LET live == {r \in Request : pc[r] \in Live}
  IN  /\ "crash" \in Faults
      /\ up
      /\ up' = FALSE
      /\ pc' = [r \in Request |-> IF r \in live THEN "done" ELSE pc[r]]
      /\ answer' = [r \in Request |-> IF r \in live THEN Tell("lost") ELSE answer[r]]
      /\ MaybeSent(live)
      /\ UNCHANGED <<sequencerVars, rollupVars, job, accepted>>

\* main: starts from genesis.json, and bails out if L1 is not there any more.
Restart ==
  /\ ~up
  /\ stateRoot = merkle_root(Genesis)
  /\ up' = TRUE
  /\ from_genesis(Genesis)
  /\ UNCHANGED <<rollupVars, pc, job, answer, l1tx, accepted>>

RestartBails ==
  /\ ~up
  /\ stateRoot # merkle_root(Genesis)
  /\ UNCHANGED vars

----------------------------------------------------------------------------

\* The steps of a request that need nobody else to act.
Progress(r) ==
  \/ Proved(r) \/ ProveFailed(r) \/ ProofMalformed(r)
  \/ Sent(r) \/ SendFailed(r)
  \/ ReceiptOk(r) \/ ReceiptReverted(r) \/ ReceiptFailed(r)
  \/ Restore(r) \/ Commit(r) \/ Respond(r)

Trigger(r) == TriggerEmpty(r) \/ TriggerDrain(r)

Next ==
  \/ \E tx \in Txs : submit_tx(tx) \/ reject_tx(tx)
  \/ \E r \in Request : Trigger(r) \/ Progress(r) \/ Mine(r) \/ Evict(r) \/ Disconnect(r)
  \/ Crash \/ Restart \/ RestartBails

Spec == Init /\ [][Next]_vars

\* Tokio polls every handler that can go on and its RwLock is fair; L1 mines
\* what is pending. Nobody has to start the process again after a crash.
FairSpec ==
  /\ Spec
  /\ \A r \in Request : WF_vars(Progress(r)) /\ WF_vars(Mine(r))
=============================================================================
