--------------------------- MODULE ValidityRollup ---------------------------
(***************************************************************************)
(* What the rollup promises its users, whatever the sequencer, the prover  *)
(* service or the network do: the ledger on L1 starts at genesis and moves *)
(* only by non-empty batches of transactions that the state transition     *)
(* function accepts, one after the other, each on the outcome of the last. *)
(***************************************************************************)
EXTENDS Naturals, Sequences

CONSTANTS Genesis,
          Run(_, _)   \* Run(s, txs): does the batch apply to s (ok), and to what (state)

VARIABLES ledger,   \* the state L1 stands at
          history   \* the batches that led there

Init == ledger = Genesis /\ history = <<>>

SettleBatch(txs) ==
  /\ txs # <<>>
  /\ Run(ledger, txs).ok
  /\ ledger' = Run(ledger, txs).state
  /\ history' = Append(history, txs)

\* Some batch is settled: the one that is new in the history.
Settle ==
  /\ Len(history') = Len(history) + 1
  /\ SettleBatch(history'[Len(history')])

Spec == Init /\ [][Settle]_<<ledger, history>>
=============================================================================
