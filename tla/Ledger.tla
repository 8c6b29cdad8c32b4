------------------------------- MODULE Ledger -------------------------------
(***************************************************************************)
(* The State of crates/shared-types as it is stored: a vector of entries   *)
(* that `set` keeps in address order by binary search, which the genesis   *)
(* loaders fill, and whose concatenation is what merkle_root hashes.  Stf  *)
(* and SequencerState work on the function that the vector represents;     *)
(* this module says what that representation needs in order to be sound.   *)
(***************************************************************************)
EXTENDS SequencerState, SequencesExt

\* Addresses are compared byte by byte, as the numbers they write.
ASSUME AddressAssumption == Address \subseteq Nat /\ IsFiniteSet(Address)

Entry == [address : Address, account : Account]

EntryOf(address, account) == [address |-> address, account |-> account]

----------------------------------------------------------------------------

\* slice::binary_search_by_key, whose result is meaningless on a vector that is
\* not sorted: Ok(index), or Err(index) with the place to insert at. The window is
\* what remains to be searched.
binary_search(accounts, address) ==
  LET search[w \in [lo : 1..Len(accounts) + 1, hi : 0..Len(accounts)]] ==
        LET mid == (w.lo + w.hi) \div 2
        IN  IF w.lo > w.hi THEN [ok |-> FALSE, index |-> w.lo]
            ELSE IF accounts[mid].address = address THEN [ok |-> TRUE, index |-> mid]
            ELSE IF accounts[mid].address < address THEN search[[lo |-> mid + 1, hi |-> w.hi]]
            ELSE search[[lo |-> w.lo, hi |-> mid - 1]]
  IN  search[[lo |-> 1, hi |-> Len(accounts)]]

VecGet(accounts, address) ==
  LET found == binary_search(accounts, address)
  IN  IF found.ok THEN accounts[found.index].account ELSE DefaultAccount

\* Mutant: a new entry is pushed at the end.
VecPush(accounts, address, account) ==
  LET found == binary_search(accounts, address)
  IN  IF found.ok
      THEN [accounts EXCEPT ![found.index].account = account]
      ELSE Append(accounts, EntryOf(address, account))

VecSet(accounts, address, account) ==
  LET found == binary_search(accounts, address)
  IN  IF found.ok
      THEN [accounts EXCEPT ![found.index].account = account]
      ELSE InsertAt(accounts, found.index, EntryOf(address, account))

\* apply_tx on the vector: its early returns, and what it writes.
VecApplies(accounts, tx) ==
  /\ tx.from # tx.to
  /\ recover_address(tx) = tx.from
  /\ VecGet(accounts, tx.from).nonce = tx.nonce
  /\ VecGet(accounts, tx.from).balance >= tx.amount
  /\ VecGet(accounts, tx.to).balance + tx.amount <= MaxU64

VecApplied(accounts, tx) ==
  LET from_acc == VecGet(accounts, tx.from)
      to_acc   == VecGet(accounts, tx.to)
      debited  == [balance |-> from_acc.balance - tx.amount,
                   nonce   |-> WrappingSucc(from_acc.nonce)]
      credited == [to_acc EXCEPT !.balance = @ + tx.amount]
  IN  VecSet(VecSet(accounts, tx.from, debited), tx.to, credited)

\* apply_batch on the vector, as the guest runs it.
VecApplyStep(r, tx) ==
  IF r.ok /\ VecApplies(r.accounts, tx)
  THEN [ok |-> TRUE, accounts |-> VecApplied(r.accounts, tx)]
  ELSE [ok |-> FALSE, accounts |-> r.accounts]

VecApplyRun(accounts, txs) ==
  LET run[i \in 0..Len(txs)] ==
        IF i = 0 THEN [ok |-> TRUE, accounts |-> accounts]
                 ELSE VecApplyStep(run[i - 1], txs[i])
  IN  run

vec_apply_txs(accounts, txs) == VecApplyRun(accounts, txs)[Len(txs)]

\* The digest of merkle_root, represented by what is hashed, from end to end.
VecRoot(accounts) ==
  [i \in 1..Len(accounts) |-> <<accounts[i].address, accounts[i].account.balance,
                               accounts[i].account.nonce>>]

\* Genesis::into_state: the entries of genesis.json are set one after the other,
\* so that of several for one address the last one counts.
LoadRun(accounts) ==
  LET run[i \in 0..Len(accounts)] ==
        IF i = 0 THEN <<>>
                 ELSE VecSet(run[i - 1], accounts[i].address, accounts[i].account)
  IN  run

into_state(accounts) == LoadRun(accounts)[Len(accounts)]

\* The root that the deployment script writes into the contract.
compute_root(accounts) == VecRoot(into_state(accounts))

----------------------------------------------------------------------------

InAddressOrder(vec) ==
  \A i, j \in 1..Len(vec) : i < j => vec[i].address < vec[j].address

EntriesOf(s) == {EntryOf(x, s[x]) : x \in DOMAIN s}

\* The vector is sorted, without duplicates, and holds the entries of the state.
Represents(vec, s) ==
  /\ vec \in Seq(Entry)
  /\ InAddressOrder(vec)
  /\ ToSet(vec) = EntriesOf(s)

VecOfState(s) == CHOOSE vec \in SetToSeqs(EntriesOf(s)) : InAddressOrder(vec)

\* The sorted vector of the code does what Stf says of functions, in every state
\* the sequencer comes to: a lookup finds each account, a transfer keeps the
\* vector sorted and without duplicates wherever it inserts, the mempool leads to the
\* vector of the speculative state, and entries loaded in any order, after an
\* outdated one, give the same vector. So the root, which hashes the vector from end
\* to end, depends on the accounts and not on the order in which the sequencer, the
\* guest and compute_root came to write them, and the set that Stf takes for it is
\* as good.
VectorImplementsState ==
  LET s   == canonical_state
      vec == VecOfState(s)
  IN  /\ Represents(vec, s)
      /\ \A x \in Address : VecGet(vec, x) = get(s, x)
      /\ \A tx \in Tx :
           /\ VecApplies(vec, tx) <=> Applies(s, tx)
           /\ Applies(s, tx) => VecApplied(vec, tx) = VecOfState(Applied(s, tx))
      /\ vec_apply_txs(vec, mempool) =
           [ok |-> TRUE, accounts |-> VecOfState(speculative_state)]
      /\ \A entries \in SetToSeqs(ToSet(vec)), x \in DOMAIN s :
           /\ into_state(<<EntryOf(x, DefaultAccount)>> \o entries) = vec
           /\ ToSet(compute_root(entries)) = merkle_root(s)
=============================================================================
