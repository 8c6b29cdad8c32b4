-------------------------------- MODULE Stf --------------------------------
(***************************************************************************)
(* The state transition function of the rollup: crates/shared-types (Tx,   *)
(* Account, State, merkle_root) and crates/stf (apply_tx, apply_batch).    *)
(* The SP1 guest proves it and the sequencer re-runs it, so every other    *)
(* module of the project is built on this one.                             *)
(*                                                                         *)
(* A State is the sorted account vector of the code, seen as the function  *)
(* it represents: an account that was never written is absent from the     *)
(* domain, which is not the same as an account written with zeros (the     *)
(* two have different roots).                                              *)
(***************************************************************************)
EXTENDS Integers, Sequences

CONSTANTS Address,   \* 20-byte account addresses
          MaxU64     \* the largest u64: balances, amounts and nonces

ASSUME MaxU64Assumption == MaxU64 \in Nat

U64 == 0..MaxU64

Account == [balance : U64, nonce : U64]

State == UNION {[A -> Account] : A \in SUBSET Address}

\* `signer` is the address that recover_address finds for the signature; a
\* signature that recovers no key is one whose signer is not `from`.
Tx == [from : Address, to : Address, amount : U64, nonce : U64, signer : Address]

Batch == Seq(Tx)

----------------------------------------------------------------------------
(* State: get, set, merkle_root.                                           *)

DefaultAccount == [balance |-> 0, nonce |-> 0]

get(s, a) == IF a \in DOMAIN s THEN s[a] ELSE DefaultAccount

set(s, a, account) ==
  [x \in DOMAIN s \cup {a} |-> IF x = a THEN account ELSE s[x]]

\* keccak256 over the (address, balance, nonce) entries in address order. The
\* entries have fixed width, so the preimage is the set of entries, and the
\* digest is taken to be collision free: it is represented by its preimage.
merkle_root(s) == {<<a, s[a].balance, s[a].nonce>> : a \in DOMAIN s}

\* bytes32(0), which is the digest of no state.
ZeroRoot == {<<>>}

Root == (SUBSET (Address \X U64 \X U64)) \cup {ZeroRoot}

\* The state a root commits to.
StateOf(root) ==
  [a \in {e[1] : e \in root} |->
     LET entry == CHOOSE e \in root : e[1] = a
     IN  [balance |-> entry[2], nonce |-> entry[3]]]

----------------------------------------------------------------------------
(* apply_tx and the folds over it.                                         *)

\* `nonce += 1` on a u64: a release build wraps.
WrappingSucc(n) == IF n = MaxU64 THEN 0 ELSE n + 1

recover_address(tx) == tx.signer

\* Mutant: no SelfTransfer check.
SelfTransferApplies(s, tx) ==
  /\ recover_address(tx) = tx.from
  /\ get(s, tx.from).nonce = tx.nonce
  /\ get(s, tx.from).balance >= tx.amount
  /\ get(s, tx.to).balance + tx.amount <= MaxU64

\* Mutant: the sum is not checked for overflow.
UncheckedApplies(s, tx) ==
  /\ tx.from # tx.to
  /\ recover_address(tx) = tx.from
  /\ get(s, tx.from).nonce = tx.nonce
  /\ get(s, tx.from).balance >= tx.amount

\* The early returns of apply_tx, none of which changes the state: SelfTransfer,
\* BadSignature, NonceMismatch, InsufficientBalance, Overflow.
Applies(s, tx) ==
  /\ tx.from # tx.to
  /\ recover_address(tx) = tx.from
  /\ get(s, tx.from).nonce = tx.nonce
  /\ get(s, tx.from).balance >= tx.amount
  /\ get(s, tx.to).balance + tx.amount <= MaxU64

\* Mutant: the nonce is not counted.
SameNonceApplied(s, tx) ==
  LET debited  == [get(s, tx.from) EXCEPT !.balance = @ - tx.amount]
      credited == [get(s, tx.to) EXCEPT !.balance = @ + tx.amount]
  IN  set(set(s, tx.from, debited), tx.to, credited)

\* What apply_tx writes: both accounts are read first, then set one by one.
Applied(s, tx) ==
  LET from_acc == get(s, tx.from)
      to_acc   == get(s, tx.to)
      debited  == [balance |-> from_acc.balance - tx.amount,
                   nonce   |-> WrappingSucc(from_acc.nonce)]
      credited == [to_acc EXCEPT !.balance = @ + tx.amount]
  IN  set(set(s, tx.from, debited), tx.to, credited)

\* apply_tx(&mut state, tx)? in a loop: the first error stops it and leaves the
\* state with the transactions before it applied.
ApplyStep(r, tx) ==
  IF r.ok /\ Applies(r.state, tx)
  THEN [ok |-> TRUE, state |-> Applied(r.state, tx)]
  ELSE [ok |-> FALSE, state |-> r.state]

ApplyRun(s, txs) ==
  LET run[i \in 0..Len(txs)] ==
        IF i = 0 THEN [ok |-> TRUE, state |-> s]
                 ELSE ApplyStep(run[i - 1], txs[i])
  IN  run

apply_txs(s, txs) == ApplyRun(s, txs)[Len(txs)]

\* The public values (prevRoot, newRoot, batchHash) of apply_batch on a batch
\* it does not reject. The batch hash is keccak256 over the transactions in
\* order, again represented by its preimage.
PublicValues == [prevRoot : Root, newRoot : Root, batchHash : Batch]

apply_batch(prev_state, txs) ==
  [prevRoot  |-> merkle_root(prev_state),
   newRoot   |-> merkle_root(apply_txs(prev_state, txs).state),
   batchHash |-> txs]
=============================================================================
