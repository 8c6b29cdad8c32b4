---------------------------- MODULE MCSettlement ----------------------------
(***************************************************************************)
(* Instances of Settlement for TLC.                                        *)
(***************************************************************************)
EXTENDS SettlementProperties, Ledger, TLC

CONSTANTS a, b, c   \* addresses: numbers, for the order that Ledger needs

Account0(balance) == [balance |-> balance, nonce |-> 0]

MCGenesis == [x \in {a, b} |-> IF x = a THEN Account0(2) ELSE Account0(1)]

Signed(from, to, amount, nonce) ==
  [from |-> from, to |-> to, amount |-> amount, nonce |-> nonce, signer |-> from]

\* A transfer, another by the same sender for the same nonce, one that the
\* second account can afford at genesis, and one that needs the first and the third.
MCTxs == {Signed(a, b, 1, 0), Signed(a, c, 2, 0), Signed(b, a, 1, 0), Signed(a, c, 2, 1)}

\* ... and what the guards of apply_tx must turn down in every state: a self
\* transfer, a forgery and, from MCRichGenesis on with MaxU64 = 7, an overflow of b.
MCProbingTxs ==
  MCTxs \cup {Signed(a, a, 2, 0), [Signed(b, a, 1, 0) EXCEPT !.signer = a],
              Signed(c, b, 5, 0)}

MCRichGenesis ==
  [x \in {a, b, c} |-> CASE x = a -> Account0(2) [] x = b -> Account0(4) [] x = c -> Account0(5)]

\* Two transfers for one nonce: enough for a batch to conflict with what arrived
\* while it was in flight, and small enough for liveness.
MCRivalTxs == {Signed(a, b, 1, 0), Signed(a, c, 2, 0)}

\* Requests differ in nothing but their name.
RequestSymmetry == Permutations(Request)
=============================================================================
