------------------------ MODULE SettlementProperties ------------------------
(***************************************************************************)
(* What the settlement loop must guarantee.  The properties are checked by *)
(* the configurations of MCSettlement; the safety properties are proved in *)
(* SettlementProofs, SettlementOutcomeProofs and SettlementSupplyProofs.   *)
(***************************************************************************)
EXTENDS Settlement, FiniteSetsExt

\* Every variable has the type the code gives it.
TypeOK ==
  /\ canonical_state \in State
  /\ canonical_root \in Root
  /\ speculative_state \in State
  /\ mempool \in Seq(Txs)
  /\ batch_count \in U64
  /\ stateRoot \in Root
  /\ batchCount \in U64
  /\ settled \in Seq(BatchSettled)
  /\ up \in BOOLEAN
  /\ pc \in [Request -> Label]
  /\ job \in [Request -> [prev_state : State, txs : Seq(Txs)]]
  /\ answer \in [Request -> Answer]
  /\ l1tx \in [Request -> L1Status]
  /\ accepted \in SUBSET Txs

----------------------------------------------------------------------------
(* The sequencer's view and L1.                                            *)

\* The canonical state is one that L1 has been in: either the one it is in now,
\* with batch_count the number of its last event, or the one before its last
\* event. However the handlers interleave and whatever fails, the sequencer
\* never leaves the history of L1 and is never more than one batch behind it.
CanonicalTrailsL1 ==
  /\ canonical_root = merkle_root(canonical_state)
  /\ \/ canonical_root = stateRoot /\ batch_count = batchCount
     \/ /\ settled # <<>>
        /\ canonical_root = settled[Len(settled)].prevRoot
        /\ batchCount = WrappingSucc(batch_count)

\* commit_batch of a settled batch finds the canonical state at the batch's
\* prev_state, so neither of its two errors (re-apply diverged, root mismatch),
\* the first of which leaves half a batch in the canonical state, can be reached.
CommitNeverDiverges ==
  \A r \in Request :
    pc[r] = "committing" => CommitSucceeds(job[r].txs, pv(r).newRoot)

\* speculative_state is canonical_state with the mempool applied, in order and
\* without a rejection, so the mempool as a whole can always be proved.
SpeculativeIsCanonicalPlusMempool ==
  apply_txs(canonical_state, mempool) = [ok |-> TRUE, state |-> speculative_state]

\* The prover never rejects a batch that the sequencer drained.
DrainedBatchIsProvable ==
  \A r \in Request : pc[r] \in Live => Provable(r)

\* Nothing is on its way between the sequencer and L1.
Quiescent ==
  up /\ \A r \in Request : pc[r] \notin Live /\ l1tx[r] # "pending"

\* canonical_state mirrors what the L1 contract has accepted: once no request
\* is in flight the two roots are the same.
CanonicalMirrorsL1 == Quiescent => canonical_root = stateRoot

----------------------------------------------------------------------------
(* Transactions and answers.                                               *)

Entries(txs) == {txs[i] : i \in 1..Len(txs)}

\* Two different transactions of one sender for one nonce.
Equivocate(tx1, tx2) ==
  tx1 # tx2 /\ tx1.from = tx2.from /\ tx1.nonce = tx2.nonce

Pending(tx) == tx \in Entries(mempool)

InFlight(tx) ==
  \E r \in Request : pc[r] \in Live \ {"responding"} /\ tx \in Entries(job[r].txs)

Settled(tx) == \E i \in 1..Len(settled) : tx \in Entries(settled[i].batchHash)

\* As long as no sender signs two transactions for one nonce, a transaction
\* that POST /tx accepted is in the mempool, in a batch in flight or settled:
\* the silent drops of restore_mempool and commit_batch only ever drop copies.
NoAcceptedTxIsLost ==
  (\A tx1, tx2 \in accepted : ~Equivocate(tx1, tx2)) =>
    \A tx \in accepted : Pending(tx) \/ InFlight(tx) \/ Settled(tx)

\* No nonce of an account takes effect twice on L1, and so no transaction does,
\* although one that is in flight can be submitted again and one that failed is
\* queued again.
NoNonceSettledTwice ==
  \A i, j \in 1..Len(settled) :
    \A k \in 1..Len(settled[i].batchHash), l \in 1..Len(settled[j].batchHash) :
      LET tx1 == settled[i].batchHash[k]
          tx2 == settled[j].batchHash[l]
      IN  tx1.from = tx2.from /\ tx1.nonce = tx2.nonce => i = j /\ k = l

\* No batch leads back to a root that it or an earlier batch has left. The comparison
\* of prevRoot with stateRoot is all that keeps submitBatch from a proof of the past,
\* so a root that came back would let an old transaction on L1 settle after all.
NoRootComesBack ==
  \A i, j \in 1..Len(settled) : i <= j => settled[i].prevRoot # settled[j].newRoot

Balances(s) == [x \in DOMAIN s |-> s[x].balance]

TotalBalance(s) == MapThenSumSet(LAMBDA x : Balances(s)[x], DOMAIN s)

\* No batch mints or burns: L1 always stands at a state with the total balance
\* of genesis.
SupplyIsConserved == TotalBalance(StateOf(stateRoot)) = TotalBalance(Genesis)

\* A request that is answered 200 has settled, and one that is answered an
\* error has not and never will.
AnswersAreTrue ==
  \A r \in Request :
    /\ answer[r].status = "settled" => l1tx[r] = "succeeded"
    /\ answer[r].status \in {"empty", "failed"} => l1tx[r] \notin {"pending", "succeeded"}

\* The batch number of a 200 is the number of the event of that very batch.
BatchNumberIsOwn ==
  \A r \in Request :
    answer[r].status = "settled" =>
      \E i \in 1..Len(settled) :
        /\ settled[i].batchNumber = answer[r].batch_number
        /\ settled[i].prevRoot = pv(r).prevRoot

----------------------------------------------------------------------------
(* The promise to the users: ValidityRollup, with the state that stateRoot *)
(* commits to as the ledger.                                               *)

BatchesSettled == [i \in 1..Len(settled) |-> settled[i].batchHash]

Promise == INSTANCE ValidityRollup WITH ledger  <- StateOf(stateRoot),
                                        history <- BatchesSettled,
                                        Run     <- apply_txs

\* L1 moves from genesis by valid batches only, each on the state before it.
ImplementsValidityRollup == Promise!Spec

----------------------------------------------------------------------------
(* Liveness.                                                               *)

\* Every POST /batch is answered, whatever fails around it, with one exception:
\* get_receipt has no timeout, so the handler of a transaction that L1 dropped
\* waits for ever.
EveryBatchIsAnswered ==
  \A r \in Request : pc[r] \in Live ~> pc[r] = "done" \/ l1tx[r] = "dropped"

\* A batch settled on L1 whose handler is gone without a 200: its client hung up,
\* the process died, or L1 had taken the transaction and said it failed.
Abandoned(r) == l1tx[r] = "succeeded" /\ answer[r].status \in {"failed", "lost"}

\* The canonical state catches up with L1, unless the handler that had to is gone.
CanonicalCatchesUp ==
  canonical_root # stateRoot ~>
    canonical_root = stateRoot \/ \E r \in Request : Abandoned(r)
=============================================================================
