--------------------------- MODULE SequencerState ---------------------------
(***************************************************************************)
(* crates/sequencer/src/state.rs: the two layered states of the sequencer  *)
(* and the mempool.  One operator per method; the handlers of routes.rs    *)
(* call them with the RwLock held, so each is part of one atomic step.     *)
(***************************************************************************)
EXTENDS Stf

VARIABLES canonical_state,    \* what the sequencer believes L1 has accepted
          canonical_root,
          speculative_state,  \* canonical_state with the mempool applied
          mempool,
          batch_count

sequencerVars ==
  <<canonical_state, canonical_root, speculative_state, mempool, batch_count>>

----------------------------------------------------------------------------

InitialSequencer(genesis) ==
  /\ canonical_state = genesis
  /\ canonical_root = merkle_root(genesis)
  /\ speculative_state = genesis
  /\ mempool = <<>>
  /\ batch_count = 0

\* The same assignments by a process that starts again.
from_genesis(genesis) ==
  /\ canonical_state' = genesis
  /\ canonical_root' = merkle_root(genesis)
  /\ speculative_state' = genesis
  /\ mempool' = <<>>
  /\ batch_count' = 0

\* Works on a clone of the speculative state: a rejected transaction leaves
\* everything as it was.
admit_tx(tx) ==
  /\ Applies(speculative_state, tx)
  /\ speculative_state' = Applied(speculative_state, tx)
  /\ mempool' = Append(mempool, tx)
  /\ UNCHANGED <<canonical_state, canonical_root, batch_count>>

\* Mutant: the speculative state keeps the drained transactions.
drain_keeping_speculative ==
  /\ mempool' = <<>>
  /\ UNCHANGED <<speculative_state, canonical_state, canonical_root, batch_count>>

\* The drained transactions and the canonical snapshot are kept by the caller.
drain_for_batch ==
  /\ mempool' = <<>>
  /\ speculative_state' = canonical_state
  /\ UNCHANGED <<canonical_state, canonical_root, batch_count>>

\* Transactions tried in order on top of a state: those that apply are queued,
\* the others silently dropped. restore_mempool and the `retain` of
\* commit_batch are both this loop.
AdmitStep(r, tx) ==
  IF Applies(r.state, tx)
  THEN [state |-> Applied(r.state, tx), pool |-> Append(r.pool, tx)]
  ELSE r

AdmitRun(s, pool, txs) ==
  LET run[i \in 0..Len(txs)] ==
        IF i = 0 THEN [state |-> s, pool |-> pool]
                 ELSE AdmitStep(run[i - 1], txs[i])
  IN  run

admit_all(s, pool, txs) == AdmitRun(s, pool, txs)[Len(txs)]

\* Mutant: the restored transactions replace the mempool.
restore_replacing_mempool(txs) ==
  LET restored == admit_all(canonical_state, <<>>, txs)
  IN  /\ speculative_state' = restored.state
      /\ mempool' = restored.pool
      /\ UNCHANGED <<canonical_state, canonical_root, batch_count>>

restore_mempool(txs) ==
  LET restored == admit_all(speculative_state, mempool, txs)
  IN  /\ speculative_state' = restored.state
      /\ mempool' = restored.pool
      /\ UNCHANGED <<canonical_state, canonical_root, batch_count>>

\* commit_batch re-runs the batch on the canonical state itself, so an error
\* leaves that state changed and the other fields as they were.
CommitSucceeds(txs, new_root) ==
  LET rerun == apply_txs(canonical_state, txs)
  IN  rerun.ok /\ merkle_root(rerun.state) = new_root

\* Mutant: the mempool is kept as it is, and left out of the speculative state.
commit_without_rebuild(txs, new_root) ==
  LET rerun == apply_txs(canonical_state, txs)
  IN  /\ canonical_state' = rerun.state
      /\ speculative_state' = rerun.state
      /\ canonical_root' = new_root
      /\ batch_count' = WrappingSucc(batch_count)
      /\ UNCHANGED mempool

commit_batch(txs, new_root) ==
  LET rerun    == apply_txs(canonical_state, txs)
      retained == admit_all(rerun.state, <<>>, mempool)
  IN  /\ canonical_state' = rerun.state
      /\ IF CommitSucceeds(txs, new_root)
         THEN /\ canonical_root' = new_root
              /\ batch_count' = WrappingSucc(batch_count)
              /\ mempool' = retained.pool
              /\ speculative_state' = retained.state
         ELSE UNCHANGED <<canonical_root, batch_count, mempool, speculative_state>>
=============================================================================
