---------------------------- MODULE MCWebClient ----------------------------
(***************************************************************************)
(* Instances of WebClient for TLC.                                         *)
(***************************************************************************)
EXTENDS WebClient, SettlementProperties

CONSTANT bob

MCGenesis == [x \in {alice} |-> [balance |-> 3, nonce |-> 0]]

\* Transfers of alice to bob, one for each nonce.
MCTxs ==
  {[from |-> alice, to |-> bob, amount |-> 1, nonce |-> n, signer |-> alice] :
     n \in 0..1}

MCFirstTx == {tx \in MCTxs : tx.nonce = 0}
=============================================================================
