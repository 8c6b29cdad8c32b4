-------------------------- MODULE SettlementProofs --------------------------
(***************************************************************************)
(* Proofs about Settlement, for every genesis, every set of transactions   *)
(* and requests and every set of faults.                                   *)
(*                                                                         *)
(* The argument: nonces order the states of the ledger, and a batch that   *)
(* applies moves it strictly forward.  Whatever is in flight was drained   *)
(* from a canonical state at or before the present one, which is at or     *)
(* before L1's.  So when L1 takes a batch, the canonical state is the      *)
(* batch's prev_state; until the batch is committed L1 is strictly ahead   *)
(* of everything in flight and takes no other.                             *)
(***************************************************************************)
EXTENDS SettlementProperties, StfProofs

----------------------------------------------------------------------------
(* The loops of SequencerState: trying transactions one by one keeps "the  *)
(* state is the base with the pool applied".                               *)

\* AdmitRun satisfies the recursive equation that defines it.
LEMMA AdmitRunDef ==
  ASSUME NEW s, NEW pool, NEW txs \in Batch
  PROVE  AdmitRun(s, pool, txs) =
           [i \in 0..Len(txs) |->
              IF i = 0 THEN [state |-> s, pool |-> pool]
                       ELSE AdmitStep(AdmitRun(s, pool, txs)[i - 1], txs[i])]
<1> DEFINE Eqn(n, g) ==
      g = [i \in 0..n |-> IF i = 0 THEN [state |-> s, pool |-> pool]
                                  ELSE AdmitStep(g[i - 1], txs[i])]
           Undefined == {n \in Nat : ~ \E g : Eqn(n, g)}
<1>1. Undefined = {}
  <2>1. SUFFICES ASSUME Undefined # {} PROVE FALSE
    OBVIOUS
  <2>2. PICK m \in Undefined : \A k \in Undefined : m <= k
    <3> HIDE DEF Undefined
    <3>1. Undefined \in SUBSET Nat
      BY DEF Undefined
    <3> QED BY <2>1, <3>1, LeastNatural
  <2>3. Eqn(0, [i \in 0..0 |-> [state |-> s, pool |-> pool]])
    OBVIOUS
  <2>4. m # 0
    BY <2>2, <2>3
  <2>5. m - 1 \in Nat /\ m - 1 \notin Undefined
    <3>1. m \in Nat /\ m # 0 /\ m - 1 \in Nat /\ ~(m <= m - 1)
      BY <2>4
    <3> QED BY <2>2, <3>1
  <2>6. PICK g : Eqn(m - 1, g)
    BY <2>5
  <2> DEFINE h == [i \in 0..m |-> IF i < m THEN g[i] ELSE AdmitStep(g[m - 1], txs[m])]
  <2>7. Eqn(m, h)
    <3> SUFFICES ASSUME NEW i \in 0..m
                 PROVE  h[i] = IF i = 0 THEN [state |-> s, pool |-> pool]
                                        ELSE AdmitStep(h[i - 1], txs[i])
      OBVIOUS
    <3>1. CASE i = m
      BY <2>4, <2>5, <3>1
    <3>2. CASE i # m
      <4>1. i \in 0..(m - 1) /\ i < m
        BY <2>5, <3>2
      <4>2. h[i] = g[i]
        BY <4>1
      <4>3. i # 0 => h[i - 1] = g[i - 1]
        BY <4>1
      <4>4. g[i] = IF i = 0 THEN [state |-> s, pool |-> pool]
                            ELSE AdmitStep(g[i - 1], txs[i])
        BY <2>6, <4>1
      <4> QED BY <4>2, <4>3, <4>4
    <3> QED BY <3>1, <3>2
  <2> QED BY <2>2, <2>7
<1>2. Len(txs) \in Nat
  BY DEF Batch
<1>3. \E g : Eqn(Len(txs), g)
  BY <1>1, <1>2
<1>4. QED
  BY <1>3 DEF AdmitRun

\* The run at the start, and one transaction later.
LEMMA AdmitRunAt ==
  ASSUME NEW s, NEW pool, NEW txs \in Batch
  PROVE  /\ AdmitRun(s, pool, txs)[0] = [state |-> s, pool |-> pool]
         /\ \A i \in 1..Len(txs) :
              AdmitRun(s, pool, txs)[i] = AdmitStep(AdmitRun(s, pool, txs)[i - 1], txs[i])
<1> DEFINE R == AdmitRun(s, pool, txs)
           body(j) == IF j = 0 THEN [state |-> s, pool |-> pool]
                               ELSE AdmitStep(R[j - 1], txs[j])
<1>1. Len(txs) \in Nat
  BY DEF Batch
<1>2. R = [j \in 0..Len(txs) |-> body(j)]
  BY AdmitRunDef
<1> HIDE DEF R
<1>3. R[0] = body(0)
  <2> HIDE DEF body
  <2> QED BY <1>1, <1>2
<1>4. ASSUME NEW i \in 1..Len(txs)
      PROVE  R[i] = AdmitStep(R[i - 1], txs[i])
  <2>1. i \in 0..Len(txs) /\ i # 0
    BY <1>1
  <2>2. R[i] = body(i)
    <3> HIDE DEF body
    <3> QED BY <1>2, <2>1
  <2> QED BY <2>1, <2>2
<1>5. QED
  BY <1>3, <1>4 DEF R

----------------------------------------------------------------------------

\* Appending a transaction to a batch adds one step to its run.
LEMMA ApplyAppend ==
  ASSUME NEW s \in State, NEW txs \in Batch, NEW tx \in Tx
  PROVE  apply_txs(s, Append(txs, tx)) = ApplyStep(apply_txs(s, txs), tx)
<1> DEFINE longer == Append(txs, tx)
           P == ApplyRun(s, txs)
           R == ApplyRun(s, longer)
           Bad == {i \in 0..Len(txs) : R[i] # P[i]}
<1>1. /\ longer \in Batch
      /\ Len(txs) \in Nat
      /\ Len(longer) = Len(txs) + 1
      /\ longer[Len(txs) + 1] = tx
      /\ \A i \in 1..Len(txs) : longer[i] = txs[i]
  BY DEF Batch
<1> HIDE DEF longer
<1>2. P[0] = [ok |-> TRUE, state |-> s] /\
      \A i \in 1..Len(txs) : P[i] = ApplyStep(P[i - 1], txs[i])
  BY ApplyRunAt
<1>3. R[0] = [ok |-> TRUE, state |-> s] /\
      \A i \in 1..Len(longer) : R[i] = ApplyStep(R[i - 1], longer[i])
  BY <1>1, ApplyRunAt
<1> HIDE DEF P, R
<1>4. Bad = {}
  <2>1. SUFFICES ASSUME Bad # {} PROVE FALSE
    OBVIOUS
  <2>2. PICK m \in Bad : \A k \in Bad : m <= k
    <3>1. Bad \in SUBSET Nat
      BY <1>1
    <3> HIDE DEF Bad
    <3> QED BY <2>1, <3>1, LeastNatural
  <2>3. m # 0
    BY <1>2, <1>3, <2>2
  <2>4. /\ m \in 1..Len(txs) /\ m \in 1..Len(longer)
        /\ m - 1 \in 0..Len(txs) /\ ~(m <= m - 1)
    BY <1>1, <2>2, <2>3
  <2>5. R[m - 1] = P[m - 1]
    BY <2>2, <2>4
  <2>6. R[m] = P[m]
    BY <1>1, <1>2, <1>3, <2>4, <2>5
  <2> QED BY <2>2, <2>6
<1>5. R[Len(txs)] = P[Len(txs)]
  BY <1>1, <1>4
<1>6. R[Len(longer)] = ApplyStep(P[Len(txs)], tx)
  <2>1. Len(longer) \in 1..Len(longer) /\ Len(longer) - 1 = Len(txs)
    BY <1>1
  <2> QED BY <1>1, <1>3, <1>5, <2>1
<1>7. QED
  BY <1>6 DEF apply_txs, P, R, longer

\* The empty batch applies and changes nothing.
LEMMA ApplyNone ==
  ASSUME NEW s
  PROVE  apply_txs(s, <<>>) = [ok |-> TRUE, state |-> s]
<1>1. <<>> \in Batch /\ Len(<<>>) = 0
  BY DEF Batch
<1>2. QED
  BY <1>1, ApplyRunAt DEF apply_txs

----------------------------------------------------------------------------

\* `state` is `base` with `pool`, a sequence of known transactions, applied.
Coherent(known, base, state, pool) ==
  /\ state \in State
  /\ pool \in Seq(known)
  /\ apply_txs(base, pool) = [ok |-> TRUE, state |-> state]

\* One step of the loop of restore_mempool keeps state and pool coherent.
LEMMA AdmitCoherent ==
  ASSUME NEW known \in SUBSET Tx, NEW base \in State, NEW state, NEW pool,
         Coherent(known, base, state, pool), NEW tx \in known, Applies(state, tx)
  PROVE  Coherent(known, base, Applied(state, tx), Append(pool, tx))
<1>1. state \in State /\ pool \in Seq(known) /\ pool \in Batch /\ tx \in Tx
  BY DEF Coherent, Batch
<1>2. apply_txs(base, Append(pool, tx)) = ApplyStep([ok |-> TRUE, state |-> state], tx)
  BY <1>1, ApplyAppend DEF Coherent
<1>3. Applied(state, tx) \in State
  BY <1>1, AppliedType
<1>4. QED
  BY <1>1, <1>2, <1>3 DEF Coherent, ApplyStep

\* What restore_mempool and commit_batch leave is coherent again.
LEMMA AdmitAllCoherent ==
  ASSUME NEW known \in SUBSET Tx, NEW base \in State, NEW state, NEW pool,
         Coherent(known, base, state, pool), NEW txs \in Seq(known)
  PROVE  Coherent(known, base, admit_all(state, pool, txs).state,
                  admit_all(state, pool, txs).pool)
<1> DEFINE R == AdmitRun(state, pool, txs)
           Good(r) == Coherent(known, base, r.state, r.pool)
           Bad == {i \in 0..Len(txs) : ~Good(R[i])}
<1>1. txs \in Batch /\ Len(txs) \in Nat /\ \A i \in 1..Len(txs) : txs[i] \in known
  BY DEF Batch
<1>2. R[0] = [state |-> state, pool |-> pool] /\
      \A i \in 1..Len(txs) : R[i] = AdmitStep(R[i - 1], txs[i])
  BY <1>1, AdmitRunAt
<1> HIDE DEF R
<1>3. Good(R[0])
  BY <1>2
<1>4. ASSUME NEW i \in 1..Len(txs), Good(R[i - 1])
      PROVE  Good(R[i])
  <2> DEFINE before == R[i - 1]
  <2>1. R[i] = AdmitStep(before, txs[i]) /\ txs[i] \in known /\ Good(before)
    BY <1>1, <1>2, <1>4
  <2> HIDE DEF before
  <2>2. CASE Applies(before.state, txs[i])
    <3>1. R[i] = [state |-> Applied(before.state, txs[i]), pool |-> Append(before.pool, txs[i])]
      BY <2>1, <2>2 DEF AdmitStep
    <3> QED BY <2>1, <2>2, <3>1, AdmitCoherent
  <2>3. CASE ~Applies(before.state, txs[i])
    BY <2>1, <2>3 DEF AdmitStep
  <2> QED BY <2>2, <2>3
<1> HIDE DEF Good
<1>5. Bad = {}
  <2>1. SUFFICES ASSUME Bad # {} PROVE FALSE
    OBVIOUS
  <2>2. PICK m \in Bad : \A k \in Bad : m <= k
    <3>1. Bad \in SUBSET Nat
      BY <1>1
    <3> HIDE DEF Bad
    <3> QED BY <2>1, <3>1, LeastNatural
  <2>3. m # 0
    BY <1>3, <2>2
  <2>4. m \in 1..Len(txs) /\ m - 1 \in 0..Len(txs) /\ ~(m <= m - 1)
    BY <1>1, <2>2, <2>3
  <2>5. Good(R[m - 1])
    BY <2>2, <2>4
  <2> QED BY <1>4, <2>2, <2>4, <2>5
<1>6. Good(R[Len(txs)])
  BY <1>1, <1>5
<1>7. QED
  BY <1>6 DEF admit_all, R, Good

\* Transactions that apply one after the other are all queued, and nothing else
\* happens to the state.
LEMMA AdmitAllApplies ==
  ASSUME NEW s \in State, NEW pool, NEW txs \in Batch, apply_txs(s, txs).ok
  PROVE  admit_all(s, pool, txs).state = apply_txs(s, txs).state
<1> DEFINE S    == [i \in 0..Len(txs) |-> ApplyRun(s, txs)[i].state]
           R    == AdmitRun(s, pool, txs)
           Good == {i \in 0..Len(txs) : R[i].state = S[i]}
<1>1. Len(txs) \in Nat
  BY DEF Batch
<1>2. /\ S[0] = s /\ S[Len(txs)] = apply_txs(s, txs).state
      /\ \A i \in 1..Len(txs) : Applies(S[i - 1], txs[i]) /\ S[i] = Applied(S[i - 1], txs[i])
  <2>1. /\ 0 \in 0..Len(txs) /\ Len(txs) \in 0..Len(txs)
        /\ \A i \in 1..Len(txs) : i - 1 \in 0..Len(txs) /\ i \in 0..Len(txs)
    BY <1>1
  <2>2. ApplyRun(s, txs)[0] = [ok |-> TRUE, state |-> s]
    BY ApplyRunAt
  <2>3. \A i \in 1..Len(txs) : Applies(S[i - 1], txs[i]) /\ S[i] = Applied(S[i - 1], txs[i])
    BY <2>1, RunApplies
  <2>4. S[0] = s /\ S[Len(txs)] = apply_txs(s, txs).state
    BY <2>1, <2>2 DEF apply_txs
  <2> QED BY <2>3, <2>4
<1>3. /\ R[0] = [state |-> s, pool |-> pool]
      /\ \A i \in 1..Len(txs) : R[i] = AdmitStep(R[i - 1], txs[i])
      /\ admit_all(s, pool, txs) = R[Len(txs)]
  BY AdmitRunAt DEF admit_all
<1> HIDE DEF S, R
<1>4. 0 \in Good
  BY <1>1, <1>2, <1>3
<1>5. ASSUME NEW i \in 1..Len(txs), i - 1 \in Good
      PROVE  i \in Good
  <2>1. R[i - 1].state = S[i - 1]
    BY <1>5
  <2>2. R[i].state = Applied(S[i - 1], txs[i])
    <3>1. Applies(R[i - 1].state, txs[i])
      BY <1>2, <2>1
    <3>2. R[i] = AdmitStep(R[i - 1], txs[i])
      BY <1>3
    <3>3. AdmitStep(R[i - 1], txs[i]).state = Applied(R[i - 1].state, txs[i])
      BY <3>1 DEF AdmitStep
    <3> QED BY <2>1, <3>2, <3>3
  <2>3. i \in 0..Len(txs)
    BY <1>1
  <2> QED BY <1>2, <2>2, <2>3
<1>6. Len(txs) \in Good
  <2> HIDE DEF Good
  <2>1. \A i \in 0..Len(txs) : i \in Good
    BY <1>1, <1>4, <1>5, Upwards
  <2> QED BY <1>1, <2>1
<1>7. QED
  BY <1>2, <1>3, <1>6

----------------------------------------------------------------------------
(* The inductive invariant.                                                *)

L1State == StateOf(stateRoot)

\* Has drained the mempool.
Drained(r) == pc[r] \in Live \/ l1tx[r] # "none"

\* L1 has taken the batch of a request that is still going to commit it.
Uncommitted(r) == pc[r] \in {"awaiting", "committing"} /\ l1tx[r] = "succeeded"

Outcome(r) == apply_txs(job[r].prev_state, job[r].txs).state

LedgerInv ==
  /\ L1State \in State
  /\ stateRoot = merkle_root(L1State)
  /\ AtMost(canonical_state, L1State)
  /\ canonical_root = stateRoot => batch_count = batchCount
  /\ \/ settled = <<>> /\ batchCount = 0 /\ L1State = Genesis
     \/ Before(Genesis, L1State)

JobInv ==
  \A r \in Request : Drained(r) =>
    /\ job[r].txs # <<>>
    /\ Provable(r)
    /\ AtMost(job[r].prev_state, canonical_state)

ControlInv ==
  /\ ~up => \A r \in Request : pc[r] \notin Live
  /\ \A r \in Request :
       /\ pc[r] \in {"idle", "proving", "submitting"} => l1tx[r] = "none"
       /\ pc[r] = "committing" => l1tx[r] = "succeeded"

CommitInv ==
  /\ \A r \in Request :
       Uncommitted(r) => job[r].prev_state = canonical_state /\ Outcome(r) = L1State
  /\ \A r, q \in Request : Uncommitted(r) /\ Uncommitted(q) => r = q

IInv ==
  /\ TypeOK
  /\ CanonicalTrailsL1
  /\ Coherent(Txs, canonical_state, speculative_state, mempool)
  /\ LedgerInv
  /\ JobInv
  /\ ControlInv
  /\ CommitInv

----------------------------------------------------------------------------
(* Facts about single states.                                              *)

\* The transactions of clients are transactions, with a nonce that does not wrap.
LEMMA TxsAreTx ==
  ASSUME NEW txs \in Seq(Txs)
  PROVE  txs \in Batch /\ \A i \in 1..Len(txs) : txs[i].nonce < MaxU64
<1>1. Txs \subseteq Tx
  BY SettlementAssumption
<1>2. Len(txs) \in Nat /\ \A i \in 1..Len(txs) : txs[i] \in Txs
  OBVIOUS
<1>3. txs \in Seq(Tx)
  BY <1>1
<1>4. QED
  BY <1>2, <1>3, NonceAssumption DEF Batch

\* The outcome of a drained batch is a state strictly after its prev_state.
LEMMA OutcomeAfter ==
  ASSUME TypeOK, JobInv, NEW r \in Request, Drained(r)
  PROVE  /\ job[r].prev_state \in State
         /\ job[r].txs \in Seq(Txs)
         /\ job[r].txs \in Batch
         /\ Outcome(r) \in State
         /\ Before(job[r].prev_state, Outcome(r))
<1>1. job[r].prev_state \in State /\ job[r].txs \in Seq(Txs)
  BY DEF TypeOK
<1>2. job[r].txs \in Batch /\ \A i \in 1..Len(job[r].txs) : job[r].txs[i].nonce < MaxU64
  BY <1>1, TxsAreTx
<1>3. job[r].txs # <<>> /\ apply_txs(job[r].prev_state, job[r].txs).ok
  BY DEF JobInv, Provable
<1>4. Outcome(r) \in State
  BY <1>1, <1>2, ApplyTxsType DEF Outcome, ApplyResult
<1>5. QED
  BY <1>1, <1>2, <1>3, <1>4, BatchBefore DEF Outcome

\* The roots in the public values of a job are those of its prev_state and outcome.
LEMMA PublicValuesOf ==
  ASSUME TypeOK, JobInv, NEW r \in Request, Drained(r)
  PROVE  /\ pv(r).prevRoot = merkle_root(job[r].prev_state)
         /\ pv(r).newRoot = merkle_root(Outcome(r))
         /\ pv(r).batchHash = job[r].txs
         /\ pv(r).prevRoot \in Root
         /\ pv(r).newRoot \in Root
<1>1. job[r].prev_state \in State /\ Outcome(r) \in State
  BY OutcomeAfter
<1>2. /\ pv(r).prevRoot = merkle_root(job[r].prev_state)
      /\ pv(r).newRoot = merkle_root(Outcome(r))
      /\ pv(r).batchHash = job[r].txs
  BY DEF pv, apply_batch, Outcome
<1>3. QED
  BY <1>1, <1>2, RootType

\* A batch that L1 has taken and its request is about to commit is committed.
LEMMA UncommittedCommits ==
  ASSUME IInv, NEW r \in Request, Uncommitted(r)
  PROVE  /\ Drained(r)
         /\ apply_txs(canonical_state, job[r].txs) = [ok |-> TRUE, state |-> L1State]
         /\ pv(r).newRoot = stateRoot
         /\ CommitSucceeds(job[r].txs, pv(r).newRoot)
         /\ Before(canonical_state, L1State)
<1>1. Drained(r)
  BY DEF Uncommitted, Drained
<1>2. job[r].prev_state = canonical_state /\ Outcome(r) = L1State
  BY DEF IInv, CommitInv
<1>3. Before(canonical_state, L1State)
  BY <1>1, <1>2, OutcomeAfter DEF IInv
<1>4. apply_txs(canonical_state, job[r].txs) \in ApplyResult
  BY <1>1, <1>2, OutcomeAfter, ApplyTxsType DEF IInv
<1>5. apply_txs(canonical_state, job[r].txs).ok
  BY <1>1, <1>2 DEF IInv, JobInv, Provable
<1>6. apply_txs(canonical_state, job[r].txs).state = L1State
  BY <1>2 DEF Outcome
<1>7. apply_txs(canonical_state, job[r].txs) = [ok |-> TRUE, state |-> L1State]
  BY <1>4, <1>5, <1>6 DEF ApplyResult
<1>8. pv(r).newRoot = stateRoot
  BY <1>1, <1>2, PublicValuesOf DEF IInv, LedgerInv
<1>9. QED
  BY <1>1, <1>3, <1>7, <1>8 DEF CommitSucceeds, IInv, LedgerInv

----------------------------------------------------------------------------
(* The inductive invariant.                                                *)

\* The invariant holds at the start.
LEMMA InitIInv == Init => IInv
<1> SUFFICES ASSUME Init PROVE IInv
  OBVIOUS
<1> USE SettlementAssumption, MaxU64Assumption
    DEF Init, InitialSequencer, constructor
<1>1. L1State = Genesis
  BY StateOfRoot DEF L1State
<1>2. <<>> \in Seq(Txs) /\ <<>> \in Seq(BatchSettled)
  OBVIOUS
<1>3. NoJob \in [prev_state : State, txs : Seq(Txs)]
  <2>1. [x \in {} |-> DefaultAccount] \in [{} -> Account]
    OBVIOUS
  <2> QED BY <1>2, <2>1 DEF NoJob, State
<1>4. NoAnswer \in Answer /\ merkle_root(Genesis) \in Root
  BY RootType DEF NoAnswer, Answer, Status, U64
<1>5. TypeOK
  BY <1>2, <1>3, <1>4 DEF TypeOK, Label, L1Status, U64
<1>6. CanonicalTrailsL1
  BY DEF CanonicalTrailsL1
<1>7. Coherent(Txs, canonical_state, speculative_state, mempool)
  BY <1>2, ApplyNone DEF Coherent
<1>8. LedgerInv
  BY <1>1 DEF LedgerInv, AtMost
<1>9. JobInv /\ ControlInv /\ CommitInv
  BY DEF JobInv, ControlInv, CommitInv, Drained, Uncommitted, Live, Label
<1>10. QED
  BY <1>5, <1>6, <1>7, <1>8, <1>9 DEF IInv

\* A step that only moves requests along.
LEMMA Steady ==
  ASSUME IInv, UNCHANGED <<sequencerVars, rollupVars, job>>,
         up' \in BOOLEAN, pc' \in [Request -> Label], answer' \in [Request -> Answer],
         l1tx' \in [Request -> L1Status], accepted' \in SUBSET Txs,
         \A r \in Request : Drained(r)' => Drained(r),
         \A r \in Request : Uncommitted(r)' => Uncommitted(r),
         ControlInv'
  PROVE  IInv'
<1> USE DEF sequencerVars, rollupVars
<1>1. TypeOK'
  BY DEF IInv, TypeOK
<1>2. CanonicalTrailsL1'
  BY DEF IInv, CanonicalTrailsL1
<1>3. Coherent(Txs, canonical_state, speculative_state, mempool)'
  BY DEF IInv, Coherent
<1>4. LedgerInv'
  BY DEF IInv, LedgerInv, L1State
<1>5. JobInv'
  BY DEF IInv, JobInv, Provable
<1>6. CommitInv'
  BY DEF IInv, CommitInv, Outcome, L1State
<1>7. QED
  BY <1>1, <1>2, <1>3, <1>4, <1>5, <1>6 DEF IInv

\* ... one request, to the label, answer and L1 status given.
LEMMA RequestMoves ==
  ASSUME IInv, NEW r \in Request,
         NEW label \in Label, NEW ans \in Answer, NEW status \in L1Status,
         pc' = [pc EXCEPT ![r] = label],
         answer' = [answer EXCEPT ![r] = ans],
         l1tx' = [l1tx EXCEPT ![r] = status],
         UNCHANGED <<sequencerVars, rollupVars, up, job, accepted>>,
         label \in Live => pc[r] \in Live,
         label \in Live \/ status # "none" => Drained(r),
         label \in {"awaiting", "committing"} /\ status = "succeeded" => Uncommitted(r),
         label \in {"idle", "proving", "submitting"} => status = "none",
         label = "committing" => status = "succeeded"
  PROVE  IInv'
<1>1. TypeOK /\ ControlInv
  BY DEF IInv
<1>2. up' \in BOOLEAN /\ accepted' \in SUBSET Txs
  BY <1>1 DEF TypeOK
<1>3. /\ pc' \in [Request -> Label]
      /\ answer' \in [Request -> Answer]
      /\ l1tx' \in [Request -> L1Status]
  BY <1>1 DEF TypeOK
<1>4. /\ pc'[r] = label /\ l1tx'[r] = status
      /\ \A q \in Request : q # r => pc'[q] = pc[q] /\ l1tx'[q] = l1tx[q]
  BY <1>1 DEF TypeOK
<1>5. /\ \A q \in Request : Drained(q)' => Drained(q)
      /\ \A q \in Request : Uncommitted(q)' => Uncommitted(q)
  BY <1>4 DEF Drained, Uncommitted
<1>6. ControlInv'
  BY <1>1, <1>4 DEF ControlInv
<1>7. QED
  BY <1>2, <1>3, <1>5, <1>6, Steady

\* The steps of a request that neither touch the SequencerState nor L1.
LEMMA RequestStep ==
  ASSUME IInv, NEW r \in Request,
         TriggerEmpty(r) \/ Proved(r) \/ ProveFailed(r) \/ ProofMalformed(r)
           \/ Sent(r) \/ SendFailed(r) \/ ReceiptOk(r) \/ ReceiptReverted(r)
           \/ ReceiptFailed(r) \/ Respond(r) \/ Evict(r)
  PROVE  IInv'
<1>1. /\ pc[r] \in Label /\ answer[r] \in Answer /\ l1tx[r] \in L1Status
      /\ batch_count \in U64 /\ ControlInv
  BY DEF IInv, TypeOK
<1>2. /\ pc = [pc EXCEPT ![r] = pc[r]]
      /\ answer = [answer EXCEPT ![r] = answer[r]]
      /\ l1tx = [l1tx EXCEPT ![r] = l1tx[r]]
  BY DEF IInv, TypeOK
<1>3. \A status \in Status : Tell(status) \in Answer
  BY MaxU64Assumption DEF Tell, Answer, U64
<1>4. [status |-> "settled", batch_number |-> batch_count] \in Answer
  BY <1>1 DEF Answer, Status
<1>5. /\ \A q \in Live : q \in Label
      /\ Live = {"proving", "submitting", "awaiting", "restoring", "committing", "responding"}
      /\ {"proving", "submitting", "awaiting", "restoring", "committing",
          "responding", "done"} \subseteq Label
      /\ {"empty", "failed"} \subseteq Status
      /\ {"pending", "dropped"} \subseteq L1Status
  BY DEF Live, Label, Status, L1Status
<1>6. (pc[r] \in Live \/ l1tx[r] # "none") <=> Drained(r)
  BY DEF Drained
<1>7. pc[r] \in {"awaiting", "committing"} /\ l1tx[r] = "succeeded" <=> Uncommitted(r)
  BY DEF Uncommitted
<1>8. /\ pc[r] \in {"idle", "proving", "submitting"} => l1tx[r] = "none"
      /\ pc[r] = "committing" => l1tx[r] = "succeeded"
  BY <1>1 DEF ControlInv
<1> USE <1>1, <1>2, <1>5, <1>6, <1>7, <1>8, RequestMoves DEF Goto, Finish
<1>9. CASE TriggerEmpty(r)
  BY <1>3, <1>9 DEF TriggerEmpty
<1>10. CASE Proved(r)
  BY <1>10 DEF Proved
<1>11. CASE ProveFailed(r)
  BY <1>11 DEF ProveFailed
<1>12. CASE ProofMalformed(r)
  BY <1>3, <1>12 DEF ProofMalformed
<1>13. CASE Sent(r)
  BY <1>13 DEF Sent
<1>14. CASE SendFailed(r)
  <2>1. pc[r] = "submitting" /\ pc' = [pc EXCEPT ![r] = "restoring"]
    BY <1>14 DEF SendFailed
  <2>2. UNCHANGED <<sequencerVars, rollupVars, up, job, answer, accepted>>
    BY <1>14 DEF SendFailed
  <2>3. l1tx' = l1tx \/ l1tx' = [l1tx EXCEPT ![r] = "pending"]
    BY <1>14 DEF SendFailed
  <2>4. CASE l1tx' = l1tx
    BY <2>1, <2>2, <2>4
  <2>5. CASE l1tx' = [l1tx EXCEPT ![r] = "pending"]
    BY <2>1, <2>2, <2>5
  <2> QED BY <2>3, <2>4, <2>5
<1>15. CASE ReceiptOk(r)
  BY <1>15 DEF ReceiptOk
<1>16. CASE ReceiptReverted(r)
  BY <1>16 DEF ReceiptReverted
<1>17. CASE ReceiptFailed(r)
  BY <1>17 DEF ReceiptFailed
<1>18. CASE Respond(r)
  BY <1>4, <1>18 DEF Respond
<1>19. CASE Evict(r)
  BY <1>19 DEF Evict
<1>20. QED
  BY <1>9, <1>10, <1>11, <1>12, <1>13, <1>14, <1>15, <1>16, <1>17, <1>18, <1>19

\* POST /tx.
LEMMA SubmitStep ==
  ASSUME IInv, NEW tx \in Txs, submit_tx(tx)
  PROVE  IInv'
<1> USE DEF submit_tx, admit_tx, rollupVars
<1>1. Coherent(Txs, canonical_state, speculative_state', mempool')
  <2>1. Txs \in SUBSET Tx /\ canonical_state \in State
    BY SettlementAssumption DEF IInv, TypeOK
  <2> QED BY <2>1, AdmitCoherent DEF IInv
<1>2. TypeOK'
  BY <1>1 DEF IInv, TypeOK, Coherent
<1>3. CanonicalTrailsL1' /\ LedgerInv'
  BY DEF IInv, CanonicalTrailsL1, LedgerInv, L1State
<1>4. JobInv' /\ ControlInv' /\ CommitInv'
  BY DEF IInv, JobInv, Provable, Drained, ControlInv, CommitInv, Uncommitted, Outcome, L1State
<1>5. QED
  BY <1>1, <1>2, <1>3, <1>4 DEF IInv

\* trigger_batch drains the mempool.
LEMMA DrainStep ==
  ASSUME IInv, NEW r \in Request, TriggerDrain(r)
  PROVE  IInv'
<1> USE DEF TriggerDrain, drain_for_batch, rollupVars, Goto
<1>1. TypeOK
  BY DEF IInv
<1>2. canonical_state \in State /\ <<>> \in Seq(Txs) /\ mempool \in Seq(Txs)
  BY <1>1 DEF TypeOK
<1>3. Coherent(Txs, canonical_state, speculative_state, mempool)'
  BY <1>2, ApplyNone DEF Coherent
<1>4. TypeOK'
  BY <1>1, <1>2 DEF TypeOK, Label
<1>5. CanonicalTrailsL1' /\ LedgerInv'
  BY DEF IInv, CanonicalTrailsL1, LedgerInv, L1State
<1>6. pc'[r] = "proving" /\ l1tx'[r] = "none" /\ up
  BY <1>1 DEF TypeOK, IInv, ControlInv
<1>7. \A q \in Request : q # r => pc'[q] = pc[q] /\ job'[q] = job[q]
  BY <1>1 DEF TypeOK
<1>8. ControlInv'
  BY <1>6, <1>7 DEF IInv, ControlInv
<1>9. JobInv'
  <2>1. job'[r] = [prev_state |-> canonical_state, txs |-> mempool]
    BY <1>1 DEF TypeOK
  <2>2. job'[r].txs # <<>> /\ Provable(r)' /\ AtMost(job'[r].prev_state, canonical_state')
    BY <2>1 DEF Provable, IInv, Coherent, AtMost
  <2>3. ASSUME NEW q \in Request, q # r, Drained(q)'
        PROVE  /\ job'[q].txs # <<>>
               /\ Provable(q)'
               /\ AtMost(job'[q].prev_state, canonical_state')
    BY <1>7, <2>3 DEF Drained, Provable, IInv, JobInv
  <2> QED BY <2>2, <2>3 DEF JobInv
<1>10. CommitInv'
  <2>1. ASSUME NEW q \in Request, Uncommitted(q)'
        PROVE  /\ Uncommitted(q)
               /\ job'[q] = job[q]
    BY <1>6, <1>7, <2>1 DEF Uncommitted
  <2> QED BY <2>1 DEF IInv, CommitInv, Outcome, L1State
<1>11. QED
  BY <1>3, <1>4, <1>5, <1>8, <1>9, <1>10 DEF IInv

\* A failed batch puts its transactions back.
LEMMA RestoreStep ==
  ASSUME IInv, NEW r \in Request, Restore(r)
  PROVE  IInv'
<1> USE DEF Restore, restore_mempool, rollupVars, Finish, Tell
<1>1. TypeOK
  BY DEF IInv
<1>2. Coherent(Txs, canonical_state, speculative_state', mempool')
  <2>1. Txs \in SUBSET Tx /\ canonical_state \in State /\ job[r].txs \in Seq(Txs)
    BY <1>1, SettlementAssumption DEF TypeOK
  <2> QED BY <2>1, AdmitAllCoherent DEF IInv
<1>3. TypeOK'
  BY <1>1, <1>2, MaxU64Assumption DEF TypeOK, Coherent, Label, Answer, Status, U64
<1>4. CanonicalTrailsL1' /\ LedgerInv'
  BY DEF IInv, CanonicalTrailsL1, LedgerInv, L1State
<1>5. pc'[r] = "done" /\ pc[r] = "restoring" /\ \A q \in Request : q # r => pc'[q] = pc[q]
  BY <1>1 DEF TypeOK
<1>6. ControlInv'
  BY <1>5 DEF IInv, ControlInv, Live, Label
<1>7. canonical_state' = canonical_state /\ stateRoot' = stateRoot /\ job' = job /\ l1tx' = l1tx
  OBVIOUS
<1> HIDE DEF Restore, restore_mempool, rollupVars, Finish, Tell
<1>8. \A q \in Request : Drained(q)' => Drained(q)
  BY <1>5, <1>7 DEF Drained, Live, Label
<1>9. \A q \in Request : Uncommitted(q)' => Uncommitted(q)
  BY <1>5, <1>7 DEF Uncommitted
<1>10. JobInv'
  BY <1>7, <1>8 DEF IInv, JobInv, Provable
<1>11. CommitInv'
  BY <1>7, <1>9 DEF IInv, CommitInv, Outcome, L1State
<1>12. QED
  BY <1>2, <1>7, <1>3, <1>4, <1>6, <1>10, <1>11 DEF IInv

\* commit_batch after the receipt.
LEMMA CommitStep ==
  ASSUME IInv, NEW r \in Request, Commit(r)
  PROVE  IInv'
<1>1. TypeOK /\ ControlInv /\ JobInv
  BY DEF IInv
<1>2. pc[r] = "committing" /\ Uncommitted(r) /\ up
  BY <1>1 DEF Commit, ControlInv, Uncommitted, Live, Label, TypeOK
<1>3. /\ Drained(r)
      /\ apply_txs(canonical_state, job[r].txs) = [ok |-> TRUE, state |-> L1State]
      /\ pv(r).newRoot = stateRoot
      /\ CommitSucceeds(job[r].txs, pv(r).newRoot)
      /\ Before(canonical_state, L1State)
  BY <1>2, UncommittedCommits
<1> DEFINE retained == admit_all(L1State, <<>>, mempool)
<1>4. /\ canonical_state' = L1State
      /\ canonical_root' = stateRoot
      /\ batch_count' = WrappingSucc(batch_count)
      /\ mempool' = retained.pool
      /\ speculative_state' = retained.state
  BY <1>3 DEF Commit, commit_batch
<1>5. /\ UNCHANGED <<stateRoot, batchCount, settled, up, job, l1tx, accepted, answer>>
      /\ pc' = [pc EXCEPT ![r] = "responding"]
  BY <1>3 DEF Commit, rollupVars, Goto
<1>6. L1State \in State /\ stateRoot = merkle_root(L1State) /\ canonical_state \in State
  BY <1>1 DEF IInv, LedgerInv, TypeOK
<1>7. Coherent(Txs, canonical_state, speculative_state, mempool)'
  <2>1. Coherent(Txs, L1State, L1State, <<>>)
    BY <1>6, ApplyNone DEF Coherent
  <2>2. mempool \in Seq(Txs) /\ Txs \in SUBSET Tx
    BY <1>1, SettlementAssumption DEF TypeOK
  <2>3. Coherent(Txs, L1State, retained.state, retained.pool)
    BY <1>6, <2>1, <2>2, AdmitAllCoherent
  <2> HIDE DEF retained
  <2> QED BY <1>4, <2>3
<1>8. batch_count' = batchCount
  <2>1. canonical_root # stateRoot
    <3>1. canonical_state # L1State
      BY <1>3, <1>6, BeforeAsymmetric DEF AtMost
    <3> QED BY <1>6, <3>1, RootInjective DEF IInv, CanonicalTrailsL1
  <2> QED BY <1>4, <2>1 DEF IInv, CanonicalTrailsL1
<1>9. TypeOK'
  <2> HIDE DEF retained
  <2> QED BY <1>1, <1>4, <1>5, <1>6, <1>7, <1>8 DEF TypeOK, Coherent, Label
<1>10. CanonicalTrailsL1'
  BY <1>4, <1>5, <1>6, <1>8 DEF CanonicalTrailsL1
<1>11. L1State' = L1State
  BY <1>5 DEF L1State
<1>12. LedgerInv'
  BY <1>4, <1>5, <1>6, <1>8, <1>11 DEF IInv, LedgerInv, AtMost
<1>13. \A q \in Request : q # r => pc'[q] = pc[q]
  BY <1>1, <1>5 DEF TypeOK
<1>14. pc'[r] = "responding"
  BY <1>1, <1>5 DEF TypeOK
<1>15. ControlInv'
  BY <1>1, <1>2, <1>5, <1>13, <1>14 DEF ControlInv
<1>16. JobInv'
  <2> SUFFICES ASSUME NEW q \in Request, Drained(q)'
               PROVE  /\ job[q].txs # <<>>
                      /\ Provable(q)
                      /\ AtMost(job[q].prev_state, L1State)
    BY <1>4, <1>5 DEF JobInv, Provable
  <2>1. Drained(q)
    BY <1>3, <1>5, <1>13 DEF Drained
  <2>2. job[q].prev_state \in State /\ AtMost(job[q].prev_state, canonical_state)
    BY <1>1, <2>1 DEF JobInv, TypeOK
  <2>3. AtMost(job[q].prev_state, L1State)
    BY <1>3, <1>6, <2>2, BeforeTransitive DEF AtMost
  <2> QED BY <1>1, <2>1, <2>3 DEF JobInv
<1>17. CommitInv'
  <2>1. \A q \in Request : ~Uncommitted(q)'
    BY <1>2, <1>5, <1>13, <1>14 DEF IInv, CommitInv, Uncommitted
  <2> QED BY <2>1 DEF CommitInv
<1>18. QED
  BY <1>7, <1>9, <1>10, <1>12, <1>15, <1>16, <1>17 DEF IInv

\* The heart of the argument: L1 takes a batch.
LEMMA SettleStep ==
  ASSUME IInv, NEW r \in Request, Mine(r), l1tx'[r] = "succeeded"
  PROVE  /\ IInv'
         /\ L1State' = Outcome(r)
         /\ job[r].prev_state = L1State
         /\ Drained(r)
         /\ submitBatch(pv(r), ProofMode)
<1>1. TypeOK /\ ControlInv /\ JobInv
  BY DEF IInv
<1>2. l1tx[r] = "pending" /\ Drained(r)
  BY DEF Mine, Drained
<1>3. /\ submitBatch(pv(r), ProofMode)
      /\ l1tx' = [l1tx EXCEPT ![r] = "succeeded"]
      /\ UNCHANGED <<sequencerVars, up, pc, job, answer, accepted>>
  BY <1>1 DEF Mine, TypeOK
<1>4. /\ job[r].prev_state \in State
      /\ job[r].txs \in Batch
      /\ Outcome(r) \in State
      /\ Before(job[r].prev_state, Outcome(r))
  BY <1>1, <1>2, OutcomeAfter
<1>5. /\ pv(r).prevRoot = merkle_root(job[r].prev_state)
      /\ pv(r).newRoot = merkle_root(Outcome(r))
      /\ pv(r).batchHash = job[r].txs
      /\ pv(r).prevRoot \in Root /\ pv(r).newRoot \in Root
  BY <1>1, <1>2, PublicValuesOf
<1>6. L1State \in State /\ stateRoot = merkle_root(L1State) /\ canonical_state \in State
  BY <1>1 DEF IInv, LedgerInv, TypeOK
<1>7. pv(r).prevRoot = stateRoot /\ stateRoot' = merkle_root(Outcome(r))
  BY <1>3, <1>5 DEF submitBatch, Accepted
<1>8. job[r].prev_state = L1State
  BY <1>4, <1>5, <1>6, <1>7, RootInjective
<1>9. canonical_state = L1State
  <2>1. AtMost(L1State, canonical_state) /\ AtMost(canonical_state, L1State)
    BY <1>1, <1>2, <1>8 DEF JobInv, IInv, LedgerInv
  <2> QED BY <1>6, <2>1, BeforeAsymmetric DEF AtMost
<1>10. L1State' = Outcome(r)
  BY <1>4, <1>7, StateOfRoot DEF L1State
<1>11. batch_count = batchCount /\ canonical_root = stateRoot
  BY <1>6, <1>9 DEF IInv, CanonicalTrailsL1, LedgerInv
<1>12. UNCHANGED <<canonical_state, canonical_root, speculative_state, mempool, batch_count>>
  BY <1>3 DEF sequencerVars
<1> DEFINE event == [batchNumber |-> batchCount', prevRoot |-> pv(r).prevRoot,
                     newRoot |-> pv(r).newRoot, batchHash |-> pv(r).batchHash]
<1>13. batchCount' = WrappingSucc(batchCount) /\ settled' = Append(settled, event)
  BY <1>3 DEF submitBatch
<1>14. TypeOK'
  <2>1. batchCount' \in U64
    BY <1>1, <1>13, MaxU64Assumption DEF TypeOK, WrappingSucc, U64
  <2>2. event \in BatchSettled
    BY <1>4, <1>5, <2>1 DEF BatchSettled
  <2>3. settled' \in Seq(BatchSettled)
    <3> HIDE DEF event
    <3> QED BY <1>1, <1>13, <2>2 DEF TypeOK
  <2>4. stateRoot' \in Root
    BY <1>5, <1>7
  <2> QED BY <1>1, <1>3, <1>12, <2>1, <2>3, <2>4 DEF TypeOK, L1Status
<1>15. CanonicalTrailsL1'
  <2>1. settled' # <<>> /\ settled'[Len(settled')].prevRoot = stateRoot
    <3>1. settled \in Seq(BatchSettled) /\ event.prevRoot = stateRoot
      BY <1>1, <1>7 DEF TypeOK
    <3> HIDE DEF event
    <3> QED BY <1>13, <3>1
  <2> QED BY <1>11, <1>12, <1>13, <2>1 DEF IInv, CanonicalTrailsL1
<1>16. Coherent(Txs, canonical_state, speculative_state, mempool)'
  BY <1>12 DEF IInv, Coherent
<1>17. LedgerInv'
  <2>1. Before(canonical_state, Outcome(r))
    BY <1>4, <1>8, <1>9
  <2>2. stateRoot' # canonical_root
    <3>1. Outcome(r) # L1State
      BY <1>4, <1>6, <1>8, BeforeAsymmetric DEF AtMost
    <3> QED BY <1>4, <1>6, <1>7, <1>11, <3>1, RootInjective
  <2>3. Before(Genesis, Outcome(r))
    <3>1. L1State = Genesis \/ Before(Genesis, L1State)
      BY DEF IInv, LedgerInv
    <3> QED BY <1>4, <1>6, <1>8, <3>1, BeforeTransitive, SettlementAssumption DEF AtMost
  <2> QED BY <1>4, <1>7, <1>10, <1>12, <2>1, <2>2, <2>3 DEF LedgerInv, AtMost
<1>18. /\ l1tx'[r] = "succeeded" /\ pc' = pc /\ job' = job /\ up' = up
       /\ \A q \in Request : q # r => l1tx'[q] = l1tx[q]
  BY <1>1, <1>3 DEF TypeOK
<1>19. ControlInv'
  BY <1>1, <1>2, <1>18 DEF ControlInv
<1>20. JobInv'
  BY <1>1, <1>2, <1>12, <1>18 DEF JobInv, Drained, Provable
<1>21. CommitInv'
  <2>1. ASSUME NEW q \in Request, q # r PROVE ~Uncommitted(q)'
    <3>1. SUFFICES ASSUME Uncommitted(q) PROVE FALSE
      BY <1>18, <2>1 DEF Uncommitted
    <3>2. Before(canonical_state, L1State)
      BY <3>1, UncommittedCommits
    <3> QED BY <1>6, <1>9, <3>2, BeforeAsymmetric DEF AtMost
  <2>2. job'[r].prev_state = canonical_state' /\ Outcome(r)' = L1State'
    BY <1>8, <1>9, <1>10, <1>12, <1>18 DEF Outcome
  <2> QED BY <2>1, <2>2 DEF CommitInv
<1>22. QED
  BY <1>2, <1>3, <1>8, <1>10, <1>14, <1>15, <1>16, <1>17, <1>19, <1>20, <1>21 DEF IInv

\* L1 takes the transaction of a request or reverts it.
LEMMA MineStep ==
  ASSUME IInv, NEW r \in Request, Mine(r)
  PROVE  IInv'
<1>1. CASE l1tx'[r] = "succeeded"
  BY <1>1, SettleStep
<1>2. CASE l1tx'[r] # "succeeded"
  <2>1. TypeOK /\ ControlInv
    BY DEF IInv
  <2>2. /\ l1tx[r] = "pending"
        /\ l1tx' = [l1tx EXCEPT ![r] = "reverted"]
        /\ UNCHANGED <<sequencerVars, rollupVars, up, pc, job, answer, accepted>>
    BY <1>2, <2>1 DEF Mine, TypeOK
  <2>3. pc = [pc EXCEPT ![r] = pc[r]] /\ answer = [answer EXCEPT ![r] = answer[r]]
    BY <2>1 DEF TypeOK
  <2>4. pc[r] \in Label /\ answer[r] \in Answer /\ "reverted" \in L1Status
    BY <2>1 DEF TypeOK, L1Status
  <2>5. Drained(r) /\ pc[r] \notin {"idle", "proving", "submitting", "committing"}
    BY <2>1, <2>2 DEF Drained, ControlInv
  <2> QED BY <2>2, <2>3, <2>4, <2>5, RequestMoves
<1>3. QED
  BY <1>1, <1>2

\* Clients that hang up, and the crash of the process.
LEMMA HangupStep ==
  ASSUME IInv, Crash \/ \E r \in Request : Disconnect(r)
  PROVE  IInv'
<1>1. TypeOK /\ ControlInv
  BY DEF IInv
<1>2. PICK gone \in SUBSET {r \in Request : pc[r] \in Live} :
        /\ pc' = [r \in Request |-> IF r \in gone THEN "done" ELSE pc[r]]
        /\ answer' = [r \in Request |-> IF r \in gone THEN Tell("lost") ELSE answer[r]]
        /\ MaybeSent(gone)
        /\ up' = up \/ (up' = FALSE /\ gone = {r \in Request : pc[r] \in Live})
        /\ UNCHANGED <<sequencerVars, rollupVars, job, accepted>>
  <2>1. CASE Crash
    BY <2>1 DEF Crash
  <2>2. CASE \E r \in Request : Disconnect(r)
    <3>1. PICK r \in Request : Disconnect(r)
      BY <2>2
    <3>2. /\ pc' = [q \in Request |-> IF q \in {r} THEN "done" ELSE pc[q]]
          /\ answer' = [q \in Request |-> IF q \in {r} THEN Tell("lost") ELSE answer[q]]
      BY <1>1, <3>1 DEF Disconnect, Finish, TypeOK
    <3>3. {r} \in SUBSET {q \in Request : pc[q] \in Live} /\ MaybeSent({r}) /\ up' = up
          /\ UNCHANGED <<sequencerVars, rollupVars, job, accepted>>
      BY <3>1 DEF Disconnect
    <3> QED BY <3>2, <3>3
  <2> QED BY <2>1, <2>2
<1>3. PICK sent \in SUBSET {r \in gone : pc[r] = "submitting"} :
        l1tx' = [r \in Request |-> IF r \in sent THEN "pending" ELSE l1tx[r]]
  BY <1>2 DEF MaybeSent
<1>4. up' \in BOOLEAN /\ accepted' \in SUBSET Txs
  BY <1>1, <1>2 DEF TypeOK
<1>5. /\ pc' \in [Request -> Label]
      /\ answer' \in [Request -> Answer]
      /\ l1tx' \in [Request -> L1Status]
  <2>1. Tell("lost") \in Answer
    BY MaxU64Assumption DEF Tell, Answer, Status, U64
  <2>2. answer' \in [Request -> Answer]
    BY <1>1, <1>2, <2>1 DEF TypeOK
  <2>3. pc' \in [Request -> Label]
    BY <1>1, <1>2 DEF TypeOK, Label
  <2>4. l1tx' \in [Request -> L1Status]
    BY <1>1, <1>3 DEF TypeOK, L1Status
  <2> QED BY <2>2, <2>3, <2>4
<1>6. ASSUME NEW q \in Request
      PROVE  /\ Drained(q)' => Drained(q)
             /\ Uncommitted(q)' => Uncommitted(q)
             /\ pc'[q] \in {"idle", "proving", "submitting"} => l1tx'[q] = "none"
             /\ pc'[q] = "committing" => l1tx'[q] = "succeeded"
             /\ pc'[q] \in Live => pc[q] \in Live /\ q \notin gone
  <2>1. CASE q \in gone
    <3>1. pc'[q] = "done" /\ pc[q] \in Live
      BY <1>2, <2>1
    <3> QED BY <3>1 DEF Drained, Uncommitted, Live, Label
  <2>2. CASE q \notin gone
    <3>1. pc'[q] = pc[q] /\ l1tx'[q] = l1tx[q]
      BY <1>2, <1>3, <2>2
    <3> QED BY <1>1, <2>2, <3>1 DEF Drained, Uncommitted, ControlInv
  <2> QED BY <2>1, <2>2
<1>7. ControlInv'
  <2>1. ~up' => \A r \in Request : pc'[r] \notin Live
    BY <1>1, <1>2, <1>6 DEF ControlInv, TypeOK
  <2> QED BY <1>6, <2>1 DEF ControlInv
<1>8. QED
  BY <1>2, <1>4, <1>5, <1>6, <1>7, Steady

\* The process starts again from genesis.
LEMMA RestartStep ==
  ASSUME IInv, Restart
  PROVE  IInv'
<1> USE SettlementAssumption DEF Restart, from_genesis, rollupVars
<1>1. TypeOK /\ ControlInv /\ LedgerInv
  BY DEF IInv
<1>2. L1State = Genesis /\ stateRoot = merkle_root(Genesis)
  BY StateOfRoot DEF L1State
<1>3. ~Before(Genesis, L1State)
  BY <1>2, BeforeAsymmetric DEF AtMost
<1>4. batchCount = 0
  BY <1>1, <1>3 DEF LedgerInv
<1>5. \A r \in Request : pc[r] \notin Live
  BY <1>1 DEF ControlInv
<1>6. <<>> \in Seq(Txs) /\ 0 \in U64 /\ merkle_root(Genesis) \in Root
  BY RootType, MaxU64Assumption DEF U64
<1>7. TypeOK'
  BY <1>1, <1>6 DEF TypeOK
<1>8. CanonicalTrailsL1'
  BY <1>2, <1>4 DEF CanonicalTrailsL1
<1>9. Coherent(Txs, canonical_state, speculative_state, mempool)'
  BY <1>6, ApplyNone DEF Coherent
<1>10. LedgerInv'
  BY <1>1, <1>2, <1>4 DEF LedgerInv, AtMost, L1State
<1>11. ControlInv'
  BY <1>1 DEF ControlInv
<1>12. JobInv'
  <2> SUFFICES ASSUME NEW r \in Request, Drained(r)
               PROVE  AtMost(job[r].prev_state, Genesis)
    BY DEF IInv, JobInv, Drained, Provable
  <2>1. /\ job[r].prev_state \in State /\ canonical_state \in State
        /\ AtMost(job[r].prev_state, canonical_state)
        /\ AtMost(canonical_state, Genesis)
    BY <1>1, <1>2 DEF TypeOK, LedgerInv, IInv, JobInv
  <2> QED BY <2>1, BeforeTransitive
<1>13. CommitInv'
  BY <1>5 DEF CommitInv, Uncommitted, Live, Label
<1>14. QED
  BY <1>7, <1>8, <1>9, <1>10, <1>11, <1>12, <1>13 DEF IInv

\* Rejections, a start that bails out, and stuttering.
LEMMA StutterStep ==
  ASSUME IInv, UNCHANGED vars
  PROVE  IInv'
<1>1. TypeOK /\ ControlInv
  BY DEF IInv
<1>2. UNCHANGED <<sequencerVars, rollupVars, up, pc, job, answer, l1tx, accepted>>
  BY DEF vars
<1>3. /\ up' \in BOOLEAN /\ pc' \in [Request -> Label] /\ answer' \in [Request -> Answer]
      /\ l1tx' \in [Request -> L1Status] /\ accepted' \in SUBSET Txs
  BY <1>1, <1>2 DEF TypeOK
<1>4. ControlInv'
  BY <1>1, <1>2 DEF ControlInv
<1>5. \A r \in Request : Drained(r)' => Drained(r)
  BY <1>2 DEF Drained
<1>6. \A r \in Request : Uncommitted(r)' => Uncommitted(r)
  BY <1>2 DEF Uncommitted
<1>7. QED
  BY <1>2, <1>3, <1>4, <1>5, <1>6, Steady

\* Every step preserves the invariant.
LEMMA NextIInv == IInv /\ [Next]_vars => IInv'
<1> SUFFICES ASSUME IInv, [Next]_vars
             PROVE  IInv'
  OBVIOUS
<1>1. ASSUME NEW tx \in Txs, submit_tx(tx) \/ reject_tx(tx)
      PROVE  IInv'
  BY <1>1, SubmitStep, StutterStep DEF reject_tx
<1>2. ASSUME NEW r \in Request, Trigger(r) \/ Progress(r) \/ Evict(r)
      PROVE  IInv'
  BY <1>2, RequestStep, DrainStep, RestoreStep, CommitStep DEF Trigger, Progress
<1>3. ASSUME NEW r \in Request, Mine(r)
      PROVE  IInv'
  BY <1>3, MineStep
<1>4. ASSUME NEW r \in Request, Disconnect(r)
      PROVE  IInv'
  BY <1>4, HangupStep
<1>5. CASE Crash
  BY <1>5, HangupStep
<1>6. CASE Restart
  BY <1>6, RestartStep
<1>7. CASE RestartBails \/ UNCHANGED vars
  BY <1>7, StutterStep DEF RestartBails
<1>8. QED
  BY <1>1, <1>2, <1>3, <1>4, <1>5, <1>6, <1>7 DEF Next

\* The inductive invariant holds throughout.
THEOREM Invariance == Spec => []IInv
BY InitIInv, NextIInv, PTL DEF Spec

----------------------------------------------------------------------------
(* What follows from it.                                                   *)

\* Every variable keeps the type the code gives it.
THEOREM TypeCorrect == Spec => []TypeOK
<1>1. IInv => TypeOK
  BY DEF IInv
<1>2. QED
  BY <1>1, Invariance, PTL

\* The canonical state is L1's or the one before L1's last batch.
THEOREM CanonicalTrails == Spec => []CanonicalTrailsL1
<1>1. IInv => CanonicalTrailsL1
  BY DEF IInv
<1>2. QED
  BY <1>1, Invariance, PTL

\* The error paths of commit_batch are never taken.
THEOREM CommitIsSafe == Spec => []CommitNeverDiverges
<1>1. IInv => CommitNeverDiverges
  <2> SUFFICES ASSUME IInv, NEW r \in Request, pc[r] = "committing"
               PROVE  CommitSucceeds(job[r].txs, pv(r).newRoot)
    BY DEF CommitNeverDiverges
  <2>1. Uncommitted(r)
    BY DEF IInv, ControlInv, Uncommitted
  <2> QED BY <2>1, UncommittedCommits
<1>2. QED
  BY <1>1, Invariance, PTL

\* The speculative state is the canonical state with the mempool applied.
THEOREM SpeculativeIsCoherent == Spec => []SpeculativeIsCanonicalPlusMempool
<1>1. IInv => SpeculativeIsCanonicalPlusMempool
  BY DEF IInv, Coherent, SpeculativeIsCanonicalPlusMempool
<1>2. QED
  BY <1>1, Invariance, PTL

\* The prover accepts every batch the sequencer drains.
THEOREM DrainedBatchesProve == Spec => []DrainedBatchIsProvable
<1>1. IInv => DrainedBatchIsProvable
  BY DEF IInv, JobInv, Drained, DrainedBatchIsProvable
<1>2. QED
  BY <1>1, Invariance, PTL

----------------------------------------------------------------------------
(* Settlement implements ValidityRollup.                                   *)

\* Every step but L1 taking a batch leaves the contract alone.
LEMMA OnlyL1Settles ==
  ASSUME Next, \A r \in Request : ~Mine(r)
  PROVE  UNCHANGED <<stateRoot, settled>>
<1> USE DEF rollupVars
<1>1. ASSUME NEW tx \in Txs, submit_tx(tx) \/ reject_tx(tx)
      PROVE  UNCHANGED <<stateRoot, settled>>
  BY <1>1 DEF submit_tx, reject_tx, vars
<1>2. ASSUME NEW r \in Request, Trigger(r)
      PROVE  UNCHANGED <<stateRoot, settled>>
  BY <1>2 DEF Trigger, TriggerEmpty, TriggerDrain
<1>3. ASSUME NEW r \in Request, Progress(r)
      PROVE  UNCHANGED <<stateRoot, settled>>
  BY <1>3 DEF Progress, Proved, ProveFailed, ProofMalformed, Sent, SendFailed, ReceiptOk,
              ReceiptReverted, ReceiptFailed, Restore, Commit, Respond
<1>4. ASSUME NEW r \in Request, Evict(r) \/ Disconnect(r)
      PROVE  UNCHANGED <<stateRoot, settled>>
  BY <1>4 DEF Evict, Disconnect
<1>5. CASE Crash \/ Restart \/ RestartBails
  BY <1>5 DEF Crash, Restart, RestartBails, vars
<1>6. QED
  BY <1>1, <1>2, <1>3, <1>4, <1>5 DEF Next

\* What one more BatchSettled event adds to the list of settled batches.
LEMMA EventAppended ==
  ASSUME TypeOK, NEW event, settled' = Append(settled, event)
  PROVE  /\ Len(BatchesSettled') = Len(BatchesSettled) + 1
         /\ BatchesSettled'[Len(BatchesSettled')] = event.batchHash
         /\ BatchesSettled' = Append(BatchesSettled, event.batchHash)
<1> DEFINE n == Len(settled)
           old == [i \in 1..n |-> settled[i].batchHash]
           new == [i \in 1..(n + 1) |-> settled'[i].batchHash]
<1>1. /\ n \in Nat /\ Len(settled') = n + 1
      /\ \A i \in 1..n : settled'[i] = settled[i]
      /\ settled'[n + 1] = event
  BY DEF TypeOK
<1>2. BatchesSettled = old /\ BatchesSettled' = new
  BY <1>1 DEF BatchesSettled
<1>3. Len(old) = n /\ Len(new) = n + 1 /\ new[n + 1] = event.batchHash
  BY <1>1
<1>4. Append(old, event.batchHash) =
        [i \in 1..(n + 1) |-> IF i <= n THEN old[i] ELSE event.batchHash]
  <2>1. old \in Seq({settled[i].batchHash : i \in 1..n})
    BY <1>1
  <2> HIDE DEF old
  <2> QED BY <1>1, <1>3, <2>1
<1>5. ASSUME NEW i \in 1..(n + 1)
      PROVE  new[i] = IF i <= n THEN old[i] ELSE event.batchHash
  BY <1>1
<1>6. new = Append(old, event.batchHash)
  <2> HIDE DEF old
  <2> QED BY <1>4, <1>5
<1>7. QED
  <2> HIDE DEF old, new
  <2> QED BY <1>2, <1>3, <1>6

\* A step in which L1 takes a batch is a step of ValidityRollup.
LEMMA PromiseKept ==
  ASSUME IInv, [Next]_vars
  PROVE  [Promise!Settle]_<<StateOf(stateRoot), BatchesSettled>>
<1>1. ASSUME NEW r \in Request, Mine(r), l1tx'[r] = "succeeded"
      PROVE  Promise!Settle
  <2>1. /\ StateOf(stateRoot)' = Outcome(r)
        /\ job[r].prev_state = StateOf(stateRoot)
        /\ Drained(r)
        /\ submitBatch(pv(r), ProofMode)
    BY <1>1, SettleStep DEF L1State
  <2>2. job[r].txs # <<>> /\ apply_txs(StateOf(stateRoot), job[r].txs).ok
    BY <2>1 DEF IInv, JobInv, Provable
  <2>3. apply_txs(StateOf(stateRoot), job[r].txs).state = StateOf(stateRoot)'
    BY <2>1 DEF Outcome
  <2> DEFINE event == [batchNumber |-> batchCount', prevRoot |-> pv(r).prevRoot,
                       newRoot |-> pv(r).newRoot, batchHash |-> pv(r).batchHash]
  <2>4. settled' = Append(settled, event) /\ event.batchHash = job[r].txs
    BY <2>1 DEF submitBatch, pv, apply_batch
  <2>5. /\ Len(BatchesSettled') = Len(BatchesSettled) + 1
        /\ BatchesSettled'[Len(BatchesSettled')] = job[r].txs
        /\ BatchesSettled' = Append(BatchesSettled, job[r].txs)
    <3> HIDE DEF event
    <3> QED BY <2>4, EventAppended DEF IInv
  <2>6. Promise!SettleBatch(job[r].txs)
    <3> HIDE DEF event
    <3> QED BY <2>2, <2>3, <2>5 DEF Promise!SettleBatch
  <2> HIDE DEF event
  <2> QED BY <2>5, <2>6 DEF Promise!Settle
<1>2. ASSUME NEW r \in Request, Mine(r), l1tx'[r] # "succeeded"
      PROVE  UNCHANGED <<stateRoot, settled>>
  BY <1>2 DEF Mine, rollupVars, IInv, TypeOK
<1>3. ASSUME \A r \in Request : ~Mine(r)
      PROVE  UNCHANGED <<stateRoot, settled>>
  BY <1>3, OnlyL1Settles DEF vars, rollupVars
<1>4. UNCHANGED <<stateRoot, settled>> => UNCHANGED <<StateOf(stateRoot), BatchesSettled>>
  BY DEF BatchesSettled
<1>5. QED
  BY <1>1, <1>2, <1>3, <1>4

\* Whatever fails, L1 moves by valid batches only, each on the one before.
THEOREM Refinement == Spec => ImplementsValidityRollup
<1>1. Init => Promise!Init
  <2> SUFFICES ASSUME Init PROVE Promise!Init
    OBVIOUS
  <2>1. StateOf(stateRoot) = Genesis
    BY StateOfRoot, SettlementAssumption DEF Init, constructor
  <2>2. BatchesSettled = <<>>
    BY DEF BatchesSettled, Init, constructor
  <2> QED BY <2>1, <2>2 DEF Promise!Init
<1>2. IInv /\ [Next]_vars => [Promise!Settle]_<<StateOf(stateRoot), BatchesSettled>>
  BY PromiseKept
<1>3. QED
  BY <1>1, <1>2, Invariance, PTL DEF Spec, ImplementsValidityRollup, Promise!Spec
=============================================================================
