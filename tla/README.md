# A verification project for zk-rollup

TLA+ models of the rollup's settlement loop, of the prover service behind it, of
the page that uses it and of the script that starts it, the TLC configurations that check
them, and TLAPS proofs of their main properties. The models are translated from
the sources under `src/`; where prose and code differ the models follow the
code.

## 1. Inventory

| component | code | state | operations |
|---|---|---|---|
| state transition function | `crates/shared-types`, `crates/stf` | none | `State::get/set/merkle_root`, `recover_address`, `apply_tx`, `apply_batch` |
| `SequencerState` | `crates/sequencer/src/state.rs` | canonical and speculative state, canonical root, mempool, batch count | `from_genesis`, `admit_tx`, `drain_for_batch`, `restore_mempool`, `commit_batch` |
| HTTP handlers | `crates/sequencer/src/routes.rs` | one future per request | `POST /tx`, `POST /batch`, read-only GETs |
| L1 client | `crates/sequencer/src/l1.rs` | none | `state_root`, `submit_batch` (send, receipt, status) |
| sequencer start | `crates/sequencer/src/main.rs`, `genesis.rs` | none on disk but `genesis.json` | load genesis, compare with L1, serve |
| guest, prover | `sp1-program-stf`, `sp1-script`, `prover-svc`, `sequencer/src/prover.rs` | proof mode, verification key, one OS thread per proof | `/prove`, `/execute`, `/info` |
| `Rollup` contract | `contracts/src/Rollup.sol` | `stateRoot`, `batchCount`, events | `constructor`, `submitBatch` |
| deployment | `contracts/script/Deploy.s.sol` | none | picks the verifier by `PROOF_MODE` |
| demo orchestrator | `index.ts` | child processes | starts everything in order, drives one batch |
| web client | `web/app.tsx` | last polled info, mempool, accounts | poll, submit a transfer, trigger a batch |
| command line tools | `bin/*.rs` | none | straight-line drivers |

**How they interact.** Clients call the sequencer over HTTP. `POST /tx` applies
a transaction to the speculative state and queues it. `POST /batch` drains the
queue under the write lock, *releases the lock*, asks prover-svc for a proof
(minutes to hours), sends the proof to L1, waits for the receipt, takes the
lock again to commit or to restore, and once more to read the batch number.
All handlers share one `SequencerState` behind an `RwLock`; nothing keeps two
`POST /batch` from running at the same time. The contract takes a proof only
if its `prevRoot` is the present `stateRoot`. That comparison is the only thing
that orders concurrent batches.

**What is hard here.**
- Every `.await` of `trigger_batch` lets other handlers, L1 or a crash in. While
  a batch is in flight the speculative state collapses to the canonical one,
  so transactions are accepted that conflict with the batch, and the same
  transaction can be accepted again.
- `restore_mempool` and `commit_batch` drop silently what no longer applies.
- A failure that L1 reports may be none (lost receipt, lost send).
- prover-svc proves on threads that nobody stops and that may fail, panic or hang,
  for a client that waits two hours; it may come back in another `PROOF_MODE`,
  while the sequencer keeps the one it saw when it started.
- A client that hangs up makes axum drop the handler at the await it is in.
- The process keeps nothing on disk.
- `commit_batch` mutates the canonical state before it can fail.
- The page adds up two answers that the sequencer gave at different times, and
  its refreshes overlap.
- The orchestrator's `shutdown()` awaits while `main()` goes on; three programs
  read `PROOF_MODE`, each in its own way.

**What makes each part correct.** STF: no minting, types kept, the guest and
the sequencer agree. `SequencerState`: speculative = canonical + mempool, so that
what is drained can be proved. Handlers: the canonical state follows L1's
history; nothing accepted is lost, nothing settles twice, answers are true and
always come. Contract: a chain of valid batches from genesis. Deployment: prover
and verifier match. Orchestrator: it ends, and leaves nothing behind. Web
client: what it reports as submitted is what will settle, and it comes to know
the next nonce.

The hazards, each with its line and the properties meant for it, are listed in
`PROJECT.json`.

## 2. Modules

```
Stf <- SequencerState <--+-------------- Ledger <------------+
 ^                       |                                   |
 +--- Rollup <-----------+-- Settlement <- SettlementProperties <- MCSettlement
                                                 |
                                     ValidityRollup (INSTANCE)

Settlement <- ProverSvc <- MCProverSvc
Settlement <- WebClient <- MCWebClient (and of SettlementProperties)
Orchestrator <- MCOrchestrator

StfProofs, SettlementProperties <- SettlementProofs
SettlementProofs <- SettlementOutcomeProofs <- SettlementSupplyProofs
SettlementProofs, Ledger    <- LedgerProofs
SettlementProofs, ProverSvc <- ProverSvcProofs
SettlementProofs, WebClient <- WebClientProofs
Orchestrator <- OrchestratorProofs
```

- **Stf** - `State`, `Tx`, the digests, `apply_tx` as a guard (`Applies`: its
  five early returns) and an effect (`Applied`), `apply_batch`. The sorted
  vector of accounts is the function it represents, with never-written accounts
  outside the domain. `MaxU64` is the largest u64; nonces and batch counts wrap
  (`profile.release` leaves overflow checks off and Solidity says `unchecked`),
  credited balances are checked, debited ones guarded.
- **Ledger** - that sorted vector: binary search, `VecGet` and `VecSet` for
  `State::get` and `State::set`, `apply_tx` with its guards (`VecApplies`) and its
  two writes (`VecApplied`), `apply_batch` (`vec_apply_txs`), `merkle_root` over
  the vector from end to end, and the loops of `Genesis::into_state` and
  `compute_root`. Addresses are numbers here, for their order. `Represents` relates
  a vector and a function: sorted, without duplicates, and with the same entries.
- **SequencerState** - one operator per method of `state.rs`. Each method runs
  with the write lock held, hence is (part of) one step. `admit_all` is the loop
  that `restore_mempool` and the `retain` of `commit_batch` share.
- **Rollup** - the contract: `Accepted` is the conjunction of the three
  checks, `submitBatch` the effect, `settled` the events.
- **Settlement** - the composition. `pc[r]` is where a `POST /batch` request
  is in `trigger_batch`:

  | `pc` | the code is at | actions that leave it |
  |---|---|---|
  | idle | request not yet read | `TriggerEmpty`, `TriggerDrain` |
  | proving | `prover.prove().await` | `Proved`, `ProveFailed`, `ProofMalformed` |
  | submitting | `send().await` | `Sent`, `SendFailed` |
  | awaiting | `get_receipt().await` | `ReceiptOk`, `ReceiptReverted`, `ReceiptFailed` |
  | restoring | `state.write().await` of an error path | `Restore` |
  | committing | `state.write().await` before `commit_batch` | `Commit` |
  | responding | `state.read().await` | `Respond` |

  `Mine` and `Evict` are L1; `Disconnect`, `Crash`, `Restart` and `RestartBails`
  the world around. `job[r]` is the handler's `(prev_state, batch)`, `l1tx[r]`
  its transaction on L1, `answer[r]` what the client was told; `accepted` is a
  history variable. The constant `Faults` says which faults may happen.
- **ValidityRollup** - the abstract specification: a ledger that starts at
  genesis and moves by non-empty batches that apply. `Promise` in
  SettlementProperties instantiates it with the state `stateRoot` commits to.
- **SettlementProperties**, **MCSettlement** - the properties; the instances.
- **ProverSvc** - `Settlement` with the prover's side of a batch taken apart.
  `serving` and `mode` are the process and its `AppState.mode`, `call[r]` what
  `ProverClient::prove` sees of its POST, `worker[r]` the thread that
  `run_off_runtime` has started, which goes on when its caller is gone
  (`CallersGone`, `Timeout`). `PostProve` is the call up to the handler's await,
  `run_off_runtime` the handler's answer, `ProofReceived`, `Timeout` and
  `ErrorReceived` the ends of the call, in place of `Proved` and `ProveFailed`.
  `MineProof` is `Mine` with the proof kind of the thread that made it. The state
  a POST carries is always the request's job, hence not a variable.
- **WebClient** - `web/app.tsx` on top of `Settlement`. `view` is the React state,
  `fetched[f]` the answers that refresh `f` has so far: `GetMempool` and
  `GetAccount` happen in either order and at different times; `SetUp`, `SetMempool`
  and `SetAccounts` are the three state updates, with an await before each. `posting` and
  `batching` are the `submitting` and `batching` of the page. `Serve` lets the
  sequencer and L1 act for the page's requests; `Offline` lets any fetch fail,
  with the request or only its answer lost. `OneByOne` restricts the *user*, not
  the code: no click before the last one is answered.
- **Orchestrator** - `index.ts`, run after run, with `Deploy.s.sol` and the three
  readings of `PROOF_MODE` and the preset `SP1_VERIFIER`. `pc` is the await (or the synchronous command) that
  `main()` is at; a rejected wait goes to `thrown`, from where `shutdown()` has
  been called. `procs` are the children known to `shutdown()`, `shutdowns` the sets
  that its calls wait for, `alive` all processes, `listening` who has the ports.
  `listening` is what makes runs meet: a health check is answered by whoever has
  the port. On anvil the Rollup's address depends only on whether it is the
  deployer's first contract (verifier preset) or its second (`SameAddress`), hence
  `RollupOf`. `SignalAt` says where Ctrl-C may come.
- **StfProofs** - lemmas about the operators: what a transaction and a batch do,
  the order of the states, sums over finite sets. **SettlementProofs** - what
  `admit_all` does, types, the order of the ledgers, the refinement.
  **LedgerProofs** - the vector and the function. **SettlementOutcomeProofs** - what becomes of transactions and
  answers. **SettlementSupplyProofs** - balances added up, and why nothing
  accepted is lost. **ProverSvcProofs**, **WebClientProofs**,
  **OrchestratorProofs** - the other components. See section 5.

Definitions marked `Mutant:` are variants of a definition with a plausible
defect. No specification uses them; each property is checked to fail when the
definition behaves like its mutant.

**Abstractions.** A digest is represented by its preimage, so it is collision
free (the fixed width of the hashed entries makes the preimage of a root the
set of its entries). A signature is the address it recovers to. A proof that
the verifier takes is a proof of its public values (soundness of SP1); the
guest panics on a batch that `apply_batch` rejects, so there is no such proof.
L1 never reorganises, mines pending transactions in any order, and nobody but
this sequencer submits batches. Why a transaction reverts (a proof of another
kind or program, the fixed gas limit of `l1.rs:71`) is left open: the fault
`revert` lets any transaction do so.

## 3. Runs

The runs of the settlement loop use module MCSettlement. Genesis has two accounts with
balances 2 and 1, a third address, whose number is between theirs, starts empty,
`MaxU64` is 7. `settlement_faults` starts from balances 2, 4 and 5 instead, more than
fits in one account.

| run | instance | checks |
|---|---|---|
| `settlement_races` | 3 requests, 4 transactions, proving and sending may fail, transactions may revert | `CanonicalMirrorsL1`, `NoAcceptedTxIsLost`, `AnswersAreTrue` |
| `settlement_faults` | 2 requests, 4 transactions and 3 that probe the guards of `apply_tx`, all faults | `TypeOK`, `CanonicalTrailsL1`, `CommitNeverDiverges`, `SpeculativeIsCanonicalPlusMempool`, `DrainedBatchIsProvable`, `NoNonceSettledTwice`, `NoRootComesBack`, `SupplyIsConserved`, `ImplementsValidityRollup` |
| `settlement_live` | 2 requests, 2 rival transactions, all faults, fairness | `EveryBatchIsAnswered`, `CanonicalCatchesUp`, `VectorImplementsState` |
| `receipt_lost`, `proof_malformed`, `batch_number` | the fault in question only | the three findings of section 6 |

The prover service, the page and the script have modules MCProverSvc, MCWebClient
and MCOrchestrator:

| run | instance | checks |
|---|---|---|
| `prover_svc` | 2 requests, 2 rival transactions, a service that dies and restarts in either mode, clients that hang up, crashes, fairness of the client's side | `SentIsProved`, `ImplementsSettlement` |
| `web_one_by_one` | 2 batches, 2 refreshes that overlap, proving, sending and receipts that fail, sends that fail after L1 has taken the transaction, reverts, one click at a time | `SubmittedNoncesDiffer`, `BatchNumberIsOwn` |
| `web_refresh` | 1 batch, 2 refreshes that overlap, clicks at any time, connections that break, fairness | `ViewCatchesUp` |
| `orchestrator` | 2 runs in any two of 72 environments, any step may fail, fairness | `PairsProverWithVerifier`, `SettledOnOwnRollup`, `NoOrphans`, `EveryRunEnds` |
| `ctrl_c`, `proof_mode` | Ctrl-C at any await; a `PROOF_MODE` nobody documents | findings 4 and 5 |

**What they show.** With errors that are what they say (the prover failed, the
node refused), the sequencer is right: the canonical root is L1's whenever
nothing is in flight, every accepted transaction is queued, in flight or settled
(unless its sender signed two for one nonce), and answers are true. Under *all*
faults L1 stays right (`ImplementsValidityRollup`, `NoNonceSettledTwice`) and leaves each
root for good (`NoRootComesBack`), so that a transaction that was given up for lost can
settle while its root is the present one, or never; the
sequencer never leaves L1's history: it is at L1's state or one batch behind
it. It can be stuck there (`receipt_lost`).

Every `POST /batch` ends under all faults (`EveryBatchIsAnswered`), with the
one exception that the code has: `get_receipt` has no timeout, so that the handler
of a transaction which L1 drops waits for ever. The canonical state catches up
with L1 unless the handler that had to commit is gone or was told that a
transaction L1 has taken had failed (`Abandoned`). `prover_svc` shows that
`Settlement` is what a client of prover-svc may count on: whatever becomes of the
process and its threads, a call ends in a proof of its own batch or in an error,
a late answer moves nothing, and a service that came back in another mode
makes batches revert and no more. `ProofMalformed` is a fault of `Settlement` that
the service, as it is written, never causes.
`VectorImplementsState` ties the function `State` of `Stf` to the vector of the
code, and so the three programs that compute a root (guest, sequencer,
`compute_root`) to each other: it is checked, and proved, for transfers between any two
accounts, one of which lies between those of genesis, for the mempool applied as a batch,
and for the entries of the state in every order after an outdated duplicate.

The page signs stale nonces all the time; the sequencer turns them down
as long as nothing is in flight, so that a user who waits for answers is told
the truth (`web_one_by_one`). The page asks for one batch at a time, so that finding 3
cannot reach it while its connection holds, although a batch it was told had failed may
settle while it waits for the next one. A user who goes on while a batch is in flight is not
covered: the speculative state has then collapsed (`state.rs:50-52`), and a
second transfer with a nonce of the batch is accepted and dropped at the
commit. The README of the code mentions the collapse, which is why this is a
restriction of the run and not a finding. The orchestrator pairs prover and
verifier for every documented spelling of `PROOF_MODE` in any case, and for
every `SP1_PROVER`; a run that fails anywhere stops its children. An
`SP1_VERIFIER` counts on anvil too, where nothing has that address
(`index.ts:334`): prover and verifier do not match then, but no run takes it for
a success.

**Bounds.** Requests, transactions and the accounts of genesis are finite sets,
so every behaviour is finite up to loops: a `POST /batch` request is used once,
and a transaction can be accepted as often as the code accepts it. The number
of requests bounds the mempools and batches that matter. Two requests are
enough for each pairwise race: two batches from one canonical state, a batch
that settles under another's restore, a restart with an orphan on L1. A third
lets a batch be drained from what a failed one restored while another commits;
the property that can only fail in that way (`NoAcceptedTxIsLost`) runs with
three. The transactions contain a pair of rivals for one nonce, a chain of two
nonces that needs a transfer from another sender in between, and a transfer
that only applies in some orders. Three more probe the
guards in every state of `settlement_faults`: a self transfer, a forgery, and a transfer
that its sender can afford and that would overflow its receiver; the overdraft is
among the others. In the other runs the supply fits in `MaxU64` = 7, so that no credited
balance overflows; wrapping of a nonce happens in none (`NonceAssumption`). Requests are interchangeable, so `settlement_races`, which
has invariants only, uses symmetry; the runs with temporal properties do not.

ProverSvc: two requests, so that the thread of one batch can outlive its call while
another batch with the same transactions is proved; two modes; no bound on how
often the service restarts or a client hangs up.
WebClient: one account, since nonces of different accounts do not meet; two
refreshes are enough for one to overwrite the other; two nonces (one in
`web_refresh`), so that a batch of both, of one, or of one twice occurs.
Orchestrator: two runs, since only what the last run has left can matter to the
next; the spellings are those of the documents, the comments and the code.

**Deadlock** is checked in every run. The system never stops because `reject_tx`
is enabled whenever no transaction can be admitted, and `RestartBails` loops when
a start does not match L1.

**Fairness** (`FairSpec`). Weak fairness of each request's own steps: tokio
polls every future that is woken and its `RwLock` queues waiters first come,
first served, so that a handler that can go on does. Weak fairness of mining: L1
mines what is pending and not dropped. None is assumed of clients, of
faults, of the start of requests or of somebody who starts the process again after
a crash. The prover's answer is part of a request's own steps because
`ProverClient` has a timeout of two hours; `ProverSpec`, which is fair to the
steps of the client only (connecting, the timeout, the handler after it) and to
mining, and to no step of the service, is shown to imply it.
`WebFairSpec` is weakly fair to each refresh (the interval keeps firing), to the
answers of POST requests and to the sequencer's steps; whether fetches fail is not
constrained, `ViewCatchesUp` speaks of executions where the page is connected
from some point on. `FairSpec` of Orchestrator is weakly fair to `main()`, whose
every wait has a deadline that is the action `Fail`, to the end of `shutdown()`
and to the death of killed processes; it takes for granted that `forge` and
`compute-root` return, and not that any service comes up.

## 4. What is only model-checked

Every invariant that a passing run checks is also proved. Liveness is out of the prover's reach
and stays with TLC: `EveryBatchIsAnswered`, `CanonicalCatchesUp`, `ViewCatchesUp`,
`EveryRunEnds`, and the fairness in `ImplementsSettlement`, whose safety part is proved.
The findings of section 6 are behaviours that TLC shows.

## 5. Proofs

All theorems are for every value of the constants: every genesis, address set and
word size, any sets of transactions and requests, any number of refreshes of the page
and of runs of the script. Where a theorem excludes faults it says so:

| module | theorem | statement | excluded |
|---|---|---|---|
| SettlementProofs | `Invariance` | the inductive invariant `IInv` | |
| | `TypeCorrect` | `Spec => []TypeOK` | |
| | `CanonicalTrails` | `Spec => []CanonicalTrailsL1` | |
| | `CommitIsSafe` | `Spec => []CommitNeverDiverges` | |
| | `SpeculativeIsCoherent` | `Spec => []SpeculativeIsCanonicalPlusMempool` | |
| | `DrainedBatchesProve` | `Spec => []DrainedBatchIsProvable` | |
| | `Refinement` | `Spec => ImplementsValidityRollup` | |
| SettlementOutcomeProofs | `NoncesSettleOnce` | `Spec => []NoNonceSettledTwice` | |
| | `RootsAreLeftForGood` | `Spec => []NoRootComesBack` | |
| | `SettledMeansOnL1` | a 200 means that L1 has an event with this batch and the roots of its proof | |
| | `StrandedForGood` | `Spec => [](Stranded => []Stranded)`: behind L1 with nobody left to commit is for ever | |
| | `AnswersHold` | `Spec => []AnswersAreTrue` | `receipt`, `sendLost` |
| | `MirrorsUnlessAbandoned` | the canonical root is L1's when nothing is on its way, unless a request is `Abandoned` | |
| | `CanonicalMirrors` | `Spec => []CanonicalMirrorsL1` | `receipt`, `sendLost`, `disconnect`, `crash` |
| SettlementSupplyProofs | `SupplyConserved` | `Spec => []SupplyIsConserved` | |
| | `AcceptedIsKept` | `Spec => []NoAcceptedTxIsLost` | `malformed`, `disconnect`, `crash` |
| LedgerProofs | `VectorsImplementStates` | `Spec => []VectorImplementsState` | |
| | `LastEntryCounts` | `into_state` of any list of entries: sorted, the last entry for an address counts | |
| ProverSvcProofs | `ImplementsSpec` | `ProverSpec => Spec` | |
| | `OnlyProofsAreSent` | `ProverSpec => []SentIsProved` | |
| WebClientProofs | `PageUsesSettlement` | `WebSpec => Spec /\ []PageInv` | |
| | `SubmittedOnce` | `WebSpec => []SubmittedNoncesDiffer` | `malformed`; `Patient` user |
| | `ReportsOwnNumber` | `WebSpec => []BatchNumberIsOwn` | broken connections (`Offline`) |
| OrchestratorProofs | `RunsLeaveNothing` | `Spec => []NoOrphans` | Ctrl-C before the batch has settled |
| | `SettledOnOwn` | `Spec => []SettledOnOwnRollup` | the same |
| | `ProverFitsVerifier` | `Spec => []PairsProverWithVerifier` | the same, and unknown spellings |

**Assumptions.** `MaxU64Assumption`, `VerifierAssumption`, `SettlementAssumption`,
`WebClientAssumption`, `OrchestratorAssumption` (types of the constants),
`AddressAssumption` (addresses are numbers of 20 bytes: ordered, and finitely many),
`GenesisAssumption` (`genesis.json` is a finite list) and `NonceAssumption`: no client
submits a transaction whose nonce is the largest u64, so no nonce wraps. Without the
last a wrapped account could repeat its past, and the order below would have a cycle.
`ProverSvcAssumption` says that the contract was deployed for the mode the
service is first started in. All are evaluated by TLC in the runs.

The faults that are excluded above are no convenience: with `receipt` or `sendLost` a
request is told that a batch failed which settles (finding 1), a handler whose client
hangs up, or whose process crashes, commits nothing and puts nothing back, and
`malformed` is finding 2. `evict` and `revert`, by which L1 drops a transaction or
refuses it, and `prove` and `send` are excluded nowhere.
`AcceptedIsKept` needs the supply to fit in a balance
(`TotalBalance(Genesis) <= MaxU64`): `into_state` does not check that, and beyond
it an accepted transaction can come to overflow its receiver and be dropped.

**The order of the ledgers.** The obvious invariant, `CanonicalTrailsL1`, is not
inductive: nothing in it keeps L1 from taking a second batch before the first is
committed. What does is that states never come back. A transaction that applies
raises its sender's nonce and no nonce falls, so a non-empty batch moves the
ledger strictly forward in the order `Before` (`BatchBefore`). `IInv` says that
every job in flight was drained at or before the canonical state, and that the
canonical state is at or before L1's (`JobInv`, `LedgerInv`). So when L1 accepts
a batch, the equality of the roots, and with `RootInjective` of the states,
squeezes all three together: the batch starts at the canonical state. Until the
request commits, L1 is strictly ahead of everything in flight and accepts
nothing else, hence there is one uncommitted batch at most and it starts at the
canonical state (`CommitInv`). The remaining conjuncts are the coherence of
the mempool (`Coherent`) and the control facts (`ControlInv`). A request that is
lost or gives up only weakens the obligations on it, which is why the proof is
the same for every set of faults. `Restart` needs that genesis is before every
state L1 reaches by a batch.

**Outcomes.** `NoncesSettleOnce` follows from the same order: L1 is past every
transaction it has settled (`Past`), a batch applies where L1 stands, and so
its nonces are new; within a batch they differ because each raises its sender's
(`BatchNonces`). `RootsAreLeftForGood` is the same order seen from the contract:
every root it has left commits to a state strictly before the one it stands at
(`RootsInv`), so no valid batch leads back. `MirrorInv` says whose fault it is when the canonical state is
behind: there is a request with a batch that L1 took, which is about to commit it or has
given it up (`Behind`). Nothing makes up for the latter (`StrandedForGood`): whatever is
on its way was drained at or before the canonical state, which is strictly before L1's, so
L1 refuses it, and a restart finds L1 past genesis. `RequestInv` holds what each stage of a handler knows of its
transaction.

**Balances.** `SumEquation` brings the library's fold over a set to the form that
proofs need, one element and the rest; a transaction moves an amount between two
terms, or within one (`AppliedTotal`), and a batch is many of those.

**Nothing is lost** is the deepest of them. An accepted transaction may drop out of
the mempool when it no longer applies where `restore_mempool` or `commit_batch`
re-admit it, so that one has to know it never stops applying before its nonce is used.
Nonces say when its turn is, but a balance says whether it can pay, and the order in
which others pay it depends on how requests interleave. `Reached(A, s)` settles
this: with one transaction per sender and nonce (`OneEach`), the balances of any state
that the system can reach are those of genesis plus the *net effect of the set*
of accepted transactions whose nonce the state is past (`Done`, `Net`), in whatever
order they came. If a transaction applied in one reached state it therefore applies
in every later one that has not yet used its nonce: nobody but its sender can have
taken money from its account, and the sender's nonce stands still (`AppliesLater`).
`AdmitAllKeeps` carries that through the loop that drops what does not apply, where
pool and past together never lose a nonce. `Kept` says it of the whole system.

**The vector.** That `State::get` and `State::set` on the vector do what a function does
is an induction for each loop. A vector in address order has exactly one place for an
address (`IsPlace`, `PlaceExists`), and binary search finds it from every window around
it: the result that the place determines (`SearchResult`) satisfies the equation of the
search (`ResultStep`), and a recursive function has one solution, which follows from a
least counterexample on the size of the window (`SearchFinds`). From the place follow
what `VecGet` reads and that `VecSet` replaces or inserts without disturbing the order
(`SetRepresents`). A state has one vector (`RepresentsUnique`, `Agree`), and has one
at all, by induction on its accounts (`VectorExists`). Then each loop of the code, applied to
vectors that represent, gives vectors that represent: `apply_batch` (`BatchRepresents`) and
`into_state` (`LoadedBy` says which state a list of entries loads). `IInv` says that
the states of the sequencer are states.

**The prover service.** `ProverSvcProofs` carries `IInv` along with `PInv`: a request
calls the prover once, while it is proving, and its thread's proof is of its batch and is
replaced by no other thread. So a call that was answered 200 stands for a batch that
`Proved` may take, and every other end of a call for `ProveFailed`; a proof of the
wrong kind is a case of `revert`. Each step of `ProverSpec` is then a step of
`Spec` or a stutter, and the theorems above hold with the service in the loop.

**The page.** Every step of `WebSpec` is one of `Spec` or a stutter of it
(`PageUsesSettlement`), so `IInv` holds under the page. `WorkInv` is what the user's
patience gives: while a transfer is being posted nothing is in flight, and every nonce
that was reported as submitted is used up in the speculative state or, during a batch,
in the outcome of that batch. The page's own nonces may be as old as they like: they
do not occur in the proof. `ReportsOwnNumber` has to exclude that another batch
commits between the commit and the answer. Requests that failed, as the page was told,
may still be pending on L1; `NumberInv` says that all of them have drained at or before
the state that the request of the page drained at, so that once L1 has taken that request
it takes none of the others.

**The script.** `OrchInv` says that the runs do not meet: all processes that exist,
all that have a port and all that any call of `shutdown()` waits for are children of
the present run (`ChildrenInv`). Each of the three needs the others, and all need that
no `shutdown()` begins while `main()` can still start a child: `SignalsWhenParked`,
Ctrl-C after the batch, as `index.ts` asks for. Without it there is finding 4.
`SpellingsAreKnown` lists the values of `PROOF_MODE` that the code and its comments
mention; without it there is finding 5.

Facts about the loops over a batch need induction on its length. The lemmas do
it with a least counterexample (`LeastNatural`, from the well-foundedness of
`<` on the naturals), and `ApplyRunDef`, `AdmitRunDef`, `VecApplyRunDef` and
`LoadRunDef` obtain the equations of the recursive functions the same way.

## 6. Findings

1. **A lost receipt is taken for a failed batch** (run `receipt_lost`,
   `l1.rs:76`). An error of `get_receipt()` restores the transactions although
   the batch may settle. If it does, the canonical state stays one batch behind,
   and every later batch reverts with `StaleStateRoot` (theorem `StrandedForGood`). `state.rs:9`
   says that `canonical_state` mirrors what the L1 contract has accepted. The
   same state is reached by a client that hangs up during `POST /batch`.
2. **An answer that does not decode loses the batch** (run `proof_malformed`,
   `routes.rs:253`). These early returns skip `restore_mempool`. `state.rs:56`
   says "so we don't lose user txs".
3. **The batch number may be another batch's** (run `batch_number`,
   `routes.rs:303`). It is read under a second lock; `web/app.tsx:198` reports it
   as the number of the batch settled in the given L1 transaction. The window is
   narrow: tokio's `RwLock` admits a queued reader before a later writer, so the other
   batch has to take the lock between the drop of the write guard and the first
   poll of `read()`, when the handler's thread is preempted there.
4. **Ctrl-C may leave a child behind** (run `ctrl_c`, `index.ts:108`).
   `shutdown()` kills and awaits the children of that moment; meanwhile `main()`
   goes on and may spawn another, which `process.exit` leaves running. Only
   anvil's port is checked before a run, so that the next one talks to what
   was left. `index.ts:8-9` says that Ctrl-C tears everything down and that the
   script always boots from a clean state.
5. **An unknown `PROOF_MODE` pairs mock proofs with the Groth16 verifier** (run
   `proof_mode`, `sp1-script/src/lib.rs:32` and `Deploy.s.sol:37`). `README.md:226-227`
   says that the orchestrator refuses combinations that silently produce empty
   bytes.

## 7. Not modelled, and the plan

Left out for good: the command line tools but `compute_root` (straight-line drivers
of modelled functions), the GET endpoints and prover-svc's `/execute`, `/info` and
`/vkey` (they change nothing), parsing and formatting, build files, SP1 itself and
the vendored contracts. The page's rendering, toasts and batch history, and the
static server `web.ts`, keep no state that another part reads. Reorganisations of
L1: the sequencer takes one confirmation for final (`l1.rs:77`) and has no code
that meets a reorganisation, so that every property of a model with one would be
about L1 and not about the code.

What could still be proved is `AnswersAreTrue` with `receipt` and `sendLost`, for the
requests whose own receipt and sending did not fail; that needs a history variable that
says for which they did.
`SubmittedNoncesDiffer` does not survive connections that break: the page then takes a
batch for over which the sequencer still works on, and the user is back in the case that
`OneByOne` excludes.
