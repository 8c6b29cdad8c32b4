----------------------------- MODULE MCProverSvc -----------------------------
(***************************************************************************)
(* An instance of ProverSvc for TLC.                                       *)
(***************************************************************************)
EXTENDS ProverSvc

CONSTANTS a, b   \* addresses

MCGenesis == [x \in {a, b} |-> [balance |-> 2, nonce |-> 0]]

\* Two transfers for one nonce: what arrives while a batch is in flight competes
\* with it.
MCTxs ==
  {[from |-> a, to |-> b, amount |-> n, nonce |-> 0, signer |-> a] : n \in 1..2}
=============================================================================
