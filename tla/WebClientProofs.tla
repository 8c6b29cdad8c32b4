--------------------------- MODULE WebClientProofs ---------------------------
(***************************************************************************)
(* The page of WebClient never reports two transfers for one nonce, if its *)
(* user lets a batch finish and its connection holds.  What the page knows *)
(* plays no part in that: its nonces may be as old as they like, since the *)
(* sequencer turns down all but the next one.  The part is played by the   *)
(* sequencer never going back behind what it has accepted.                 *)
(***************************************************************************)
EXTENDS WebClient, SettlementProofs

\* The page sends transfers of alice, and one batch request at a time.
PageInv ==
  /\ posting = None \/ (posting \in Txs /\ posting.from = alice)
  /\ batching = None \/ batching \in Request
  /\ toasts \in Seq(Txs)

\* The steps of the page and of what it calls are steps of Settlement.
LEMMA PageStep ==
  ASSUME PageInv, [WebNext]_webVars
  PROVE  PageInv' /\ [Next]_vars
<1> USE DEF PageInv
<1>1. ASSUME NEW f \in Refresh, refresh(f)
      PROVE  PageInv' /\ UNCHANGED vars
  BY <1>1 DEF refresh, Begin, GetMempool, GetAccount, SetUp, SetMempool, SetAccounts, RefreshFails
<1>2. ASSUME NEW tx \in Txs, Transfer(tx)
      PROVE  PageInv' /\ UNCHANGED vars
  BY <1>2 DEF Transfer, FromAlice
<1>3. CASE PostAccepted
  BY <1>3 DEF PostAccepted, Next
<1>4. CASE PostRejected
  BY <1>4 DEF PostRejected, Next
<1>5. CASE PostFails
  BY <1>5 DEF PostFails, Next
<1>6. ASSUME NEW r \in Request, ClickBatch(r)
      PROVE  PageInv' /\ UNCHANGED vars
  BY <1>6 DEF ClickBatch
<1>7. ASSUME NEW r \in Request, Serve(r), UNCHANGED clientVars
      PROVE  PageInv' /\ Next
  BY <1>7 DEF Serve, Next, clientVars
<1>8. CASE BatchAnswered
  BY <1>8 DEF BatchAnswered
<1>9. CASE BatchFails
  BY <1>9 DEF BatchFails, Next
<1>10. CASE UNCHANGED webVars
  BY <1>10 DEF webVars, clientVars
<1>11. QED
  BY <1>1, <1>2, <1>3, <1>4, <1>5, <1>6, <1>7, <1>8, <1>9, <1>10 DEF WebNext

\* Whatever is proved of Settlement holds under the page.
THEOREM PageUsesSettlement == WebSpec => Spec /\ []PageInv
<1>1. WebInit => Init /\ PageInv
  BY DEF WebInit, PageInv
<1>2. PageInv /\ [WebNext]_webVars => PageInv' /\ [Next]_vars
  BY PageStep
<1>3. QED
  BY <1>1, <1>2, PTL DEF WebSpec, Spec

----------------------------------------------------------------------------

\* Every nonce that was reported as submitted is used up in the state.
UsedUp(s) ==
  \A i \in 1..Len(toasts) :
    toasts[i].nonce \in Nat /\ toasts[i].nonce < get(s, alice).nonce

\* Proves or settles what it took from the mempool.
AtWork(r) == pc[r] \in Live \ {"responding"}

WorkInv ==
  /\ SubmittedNoncesDiffer
  /\ batching # None => posting = None
  /\ \A r \in Request :
       /\ pc[r] \in Live => batching = r
       /\ AtWork(r) => /\ mempool = <<>>
                       /\ speculative_state = canonical_state
                       /\ job[r].prev_state = canonical_state
                       /\ UsedUp(Outcome(r))
  /\ (\A r \in Request : ~AtWork(r)) => UsedUp(speculative_state)

\* Only the request of the page is live, so while it is not nobody works.
LEMMA NobodyElse ==
  ASSUME WorkInv, NEW r \in Request
  PROVE  /\ batching = None => pc[r] \notin Live
         /\ pc[r] \in Live => \A q \in Request : q # r => pc[q] \notin Live
         /\ batching = r /\ pc[r] \notin Live => \A q \in Request : pc[q] \notin Live
BY WebClientAssumption DEF WorkInv

\* A step of the page that leaves the sequencer alone.
LEMMA WorkIdle ==
  ASSUME WorkInv, UNCHANGED <<vars, toasts>>,
         batching' # None => posting' = None,
         \A r \in Request : pc[r] \in Live => batching' = r
  PROVE  WorkInv'
<1>1. UNCHANGED <<canonical_state, speculative_state, mempool, job, pc, toasts>>
  BY DEF vars, sequencerVars
<1>2. \A r \in Request : /\ AtWork(r)' = AtWork(r) /\ UsedUp(Outcome(r))' = UsedUp(Outcome(r))
                         /\ pc'[r] = pc[r]
  BY <1>1 DEF AtWork, UsedUp, Outcome
<1>3. SubmittedNoncesDiffer' /\ UsedUp(speculative_state)' = UsedUp(speculative_state)
  BY <1>1 DEF WorkInv, SubmittedNoncesDiffer, UsedUp
<1>4. QED
  BY <1>1, <1>2, <1>3 DEF WorkInv

\* A step of a request that keeps at work, or was not and is not.
LEMMA WorkKept ==
  ASSUME WorkInv, UNCHANGED <<canonical_state, speculative_state, mempool, job, clientVars>>,
         \A r \in Request : (pc'[r] \in Live => pc[r] \in Live) /\ (AtWork(r)' <=> AtWork(r))
  PROVE  WorkInv'
<1>1. UNCHANGED <<canonical_state, speculative_state, mempool, job, toasts, batching, posting>>
  BY DEF clientVars
<1>2. \A r \in Request : UsedUp(Outcome(r))' = UsedUp(Outcome(r))
  BY <1>1 DEF UsedUp, Outcome
<1>3. SubmittedNoncesDiffer' /\ UsedUp(speculative_state)' = UsedUp(speculative_state)
  BY <1>1 DEF WorkInv, SubmittedNoncesDiffer, UsedUp
<1>4. QED
  BY <1>1, <1>2, <1>3 DEF WorkInv

\* A transfer that is reported as submitted has the nonce after all those before.
LEMMA WorkPost ==
  ASSUME IInv, PageInv, WorkInv, PostAccepted
  PROVE  WorkInv'
<1> DEFINE s == speculative_state
           n == Len(toasts)
<1>1. /\ posting \in Txs /\ posting.from = alice /\ posting # None
      /\ toasts' = Append(toasts, posting) /\ toasts \in Seq(Txs)
      /\ Applies(s, posting) /\ speculative_state' = Applied(s, posting)
      /\ UNCHANGED <<pc, batching>> /\ posting' = None
  BY DEF PostAccepted, PageInv, submit_tx, admit_tx
<1>2. batching = None /\ \A r \in Request : pc[r] \notin Live /\ ~AtWork(r)
  BY <1>1, NobodyElse DEF WorkInv, AtWork
<1>3. UsedUp(s)
  BY <1>2 DEF WorkInv
<1>4. /\ s \in State /\ posting \in Tx /\ posting.nonce \in Nat /\ posting.nonce < MaxU64
      /\ posting.nonce = get(s, alice).nonce
  BY <1>1, SettlementAssumption, NonceAssumption, MaxU64Assumption
     DEF IInv, TypeOK, Tx, U64, Applies
<1>5. get(speculative_state', alice).nonce = posting.nonce + 1
  <2>1. WrappingSucc(posting.nonce) = posting.nonce + 1
    BY <1>4, MaxU64Assumption DEF WrappingSucc
  <2> QED BY <1>1, <1>4, <2>1, AppliedNonce, WebClientAssumption
<1>6. /\ n \in Nat /\ Len(toasts') = n + 1
      /\ \A i \in 1..n : toasts'[i] = toasts[i]
      /\ toasts'[n + 1] = posting
  BY <1>1
<1>7. \A i \in 1..n : toasts[i].nonce \in Nat /\ toasts[i].nonce < posting.nonce
  BY <1>3, <1>4 DEF UsedUp
<1> HIDE DEF s, n
<1>8. ASSUME NEW i \in 1..(n + 1)
      PROVE  toasts'[i].nonce \in Nat /\ toasts'[i].nonce < posting.nonce + 1
  <2>1. CASE i \in 1..n
    BY <1>4, <1>6, <1>7, <2>1
  <2>2. CASE i = n + 1
    BY <1>4, <1>6, <2>2
  <2> QED BY <1>6, <2>1, <2>2
<1>9. UsedUp(speculative_state)'
  BY <1>5, <1>6, <1>8 DEF UsedUp
<1>10. ASSUME NEW i \in 1..(n + 1), NEW j \in 1..(n + 1), i # j
       PROVE  toasts'[i].nonce # toasts'[j].nonce
  <2>1. CASE i \in 1..n /\ j \in 1..n
    BY <1>6, <1>10, <2>1 DEF WorkInv, SubmittedNoncesDiffer, n
  <2>2. CASE i \in 1..n /\ j = n + 1
    BY <1>4, <1>6, <1>7, <2>2
  <2>3. CASE i = n + 1 /\ j \in 1..n
    BY <1>4, <1>6, <1>7, <2>3
  <2> QED BY <1>6, <1>10, <2>1, <2>2, <2>3
<1>11. SubmittedNoncesDiffer'
  BY <1>6, <1>10 DEF SubmittedNoncesDiffer
<1>12. \A r \in Request : pc'[r] \notin Live /\ ~AtWork(r)'
  BY <1>1, <1>2 DEF AtWork
<1>13. QED
  BY <1>1, <1>9, <1>11, <1>12 DEF WorkInv

\* The batch takes along what was used up, and the speculative state waits for it.
LEMMA WorkDrain ==
  ASSUME IInv, WorkInv, NEW r \in Request, batching = r, TriggerDrain(r), UNCHANGED clientVars
  PROVE  WorkInv'
<1>1. /\ pc[r] = "idle" /\ pc \in [Request -> Label] /\ pc' = [pc EXCEPT ![r] = "proving"]
      /\ job \in [Request -> [prev_state : State, txs : Seq(Txs)]]
      /\ job' = [job EXCEPT ![r] = [prev_state |-> canonical_state, txs |-> mempool]]
      /\ mempool' = <<>> /\ speculative_state' = canonical_state
      /\ canonical_state' = canonical_state
      /\ UNCHANGED <<toasts, batching, posting>>
  BY DEF TriggerDrain, drain_for_batch, Goto, clientVars, IInv, TypeOK
<1>2. \A q \in Request : pc[q] \notin Live /\ ~AtWork(q)
  BY <1>1, NobodyElse DEF AtWork, Live
<1>3. UsedUp(speculative_state)
  BY <1>2 DEF WorkInv
<1>4. Outcome(r)' = speculative_state /\ job'[r].prev_state = canonical_state
  <2>1. apply_txs(canonical_state, mempool) = [ok |-> TRUE, state |-> speculative_state]
    BY DEF IInv, Coherent
  <2> QED BY <1>1, <2>1 DEF Outcome
<1>5. UsedUp(Outcome(r))'
  BY <1>1, <1>3, <1>4 DEF UsedUp
<1>6. \A q \in Request : q # r => pc'[q] \notin Live /\ ~AtWork(q)'
  BY <1>1, <1>2 DEF AtWork
<1>7. AtWork(r)' /\ pc'[r] = "proving"
  BY <1>1 DEF AtWork, Live, Label
<1>8. SubmittedNoncesDiffer' /\ (batching' # None => posting' = None)
  BY <1>1 DEF WorkInv, SubmittedNoncesDiffer
<1>9. QED
  BY <1>1, <1>4, <1>5, <1>6, <1>7, <1>8 DEF WorkInv

\* Back in the mempool or committed, the speculative state has the batch again.
LEMMA WorkDone ==
  ASSUME IInv, WorkInv, NEW r \in Request, Restore(r) \/ Commit(r), UNCHANGED clientVars
  PROVE  WorkInv'
<1> DEFINE txs == job[r].txs
<1>1. AtWork(r) /\ pc[r] \in Live /\ Drained(r) /\ pc \in [Request -> Label]
  BY DEF Restore, Commit, AtWork, Live, Label, Drained, IInv, TypeOK
<1>2. /\ mempool = <<>> /\ speculative_state = canonical_state
      /\ job[r].prev_state = canonical_state /\ UsedUp(Outcome(r))
  BY <1>1 DEF WorkInv
<1>3. /\ canonical_state \in State /\ txs \in Batch /\ <<>> \in Batch
      /\ apply_txs(canonical_state, txs).ok
      /\ apply_txs(canonical_state, txs).state = Outcome(r) /\ Outcome(r) \in State
  BY <1>1, <1>2, OutcomeAfter DEF IInv, TypeOK, JobInv, Provable, Outcome, Batch
<1>4. speculative_state' = Outcome(r) /\ ~AtWork(r)'
      /\ \A q \in Request : q # r => pc'[q] = pc[q]
  <2>1. CASE Restore(r)
    <3>1. speculative_state' = admit_all(canonical_state, <<>>, txs).state
      BY <1>2, <2>1 DEF Restore, restore_mempool
    <3>2. admit_all(canonical_state, <<>>, txs).state = Outcome(r)
      <4> DEFINE s == canonical_state
                 none == <<>>
      <4> HIDE DEF s, none, txs
      <4>1. admit_all(s, none, txs).state = apply_txs(s, txs).state
        BY <1>3, AdmitAllApplies DEF s
      <4> QED BY <1>3, <4>1 DEF s, none
    <3>3. pc' = [pc EXCEPT ![r] = "done"]
      BY <2>1 DEF Restore, Finish
    <3> QED BY <1>1, <3>1, <3>2, <3>3 DEF AtWork, Live
  <2>2. CASE Commit(r)
    <3>1. Uncommitted(r)
      BY <2>2 DEF Commit, IInv, ControlInv, Uncommitted
    <3>2. CommitSucceeds(txs, pv(r).newRoot)
      BY <3>1, UncommittedCommits
    <3>3. speculative_state' = admit_all(Outcome(r), <<>>, <<>>).state
      BY <1>2, <1>3, <2>2, <3>2 DEF Commit, commit_batch
    <3>4. admit_all(Outcome(r), <<>>, <<>>).state = Outcome(r)
      <4> DEFINE s == Outcome(r)
                 none == <<>>
      <4>1. s \in State /\ none \in Batch /\ apply_txs(s, none) = [ok |-> TRUE, state |-> s]
        BY <1>3, ApplyNone
      <4> HIDE DEF s, none
      <4>2. admit_all(s, none, none).state = apply_txs(s, none).state
        BY <4>1, AdmitAllApplies
      <4> QED BY <4>1, <4>2 DEF s, none
    <3>5. pc' = [pc EXCEPT ![r] = "responding"]
      BY <2>2, <3>2 DEF Commit, Goto
    <3> QED BY <1>1, <3>3, <3>4, <3>5 DEF AtWork
  <2> QED BY <2>1, <2>2
<1>5. UNCHANGED <<toasts, batching, posting>>
  BY DEF clientVars
<1>6. UsedUp(speculative_state)'
  BY <1>2, <1>4, <1>5 DEF UsedUp
<1>7. SubmittedNoncesDiffer' /\ (batching' # None => posting' = None)
  BY <1>5 DEF WorkInv, SubmittedNoncesDiffer
<1>8. \A q \in Request : ~AtWork(q)' /\ (pc'[q] \in Live => batching' = q)
  <2>1. batching' = r
    BY <1>1, <1>5 DEF WorkInv
  <2>2. \A q \in Request : q # r => pc'[q] \notin Live
    BY <1>1, <1>4, NobodyElse
  <2> QED BY <1>4, <2>1, <2>2 DEF AtWork
<1>9. QED
  BY <1>6, <1>7, <1>8 DEF WorkInv

\* One click at a time, on a connection that holds, and batches are not dropped.
Patient == OneByOne /\ ~Offline /\ "malformed" \notin Faults

LEMMA WorkServe ==
  ASSUME Patient, IInv, WorkInv, NEW r \in Request, Serve(r), UNCHANGED clientVars
  PROVE  WorkInv'
<1>1. CASE batching = r /\ TriggerDrain(r)
  BY <1>1, WorkDrain
<1>2. CASE Restore(r) \/ Commit(r)
  BY <1>2, WorkDone
<1>3. CASE TriggerEmpty(r) \/ Proved(r) \/ ProveFailed(r) \/ ProofMalformed(r)
             \/ Sent(r) \/ SendFailed(r) \/ ReceiptOk(r) \/ ReceiptReverted(r)
             \/ ReceiptFailed(r) \/ Respond(r) \/ Mine(r)
  <2>1. pc \in [Request -> Label]
    BY DEF IInv, TypeOK
  <2>2. UNCHANGED <<canonical_state, speculative_state, mempool, job>>
    BY <1>3 DEF TriggerEmpty, Proved, ProveFailed, ProofMalformed, Sent, SendFailed, ReceiptOk,
                ReceiptReverted, ReceiptFailed, Respond, Mine, sequencerVars
  <2>3. /\ \A q \in Request : q # r => pc'[q] = pc[q]
        /\ pc'[r] \in Live => pc[r] \in Live
        /\ pc'[r] \in Live \ {"responding"} <=> pc[r] \in Live \ {"responding"}
    <3> USE <2>1 DEF Goto, Finish, Live, Label
    <3>1. CASE TriggerEmpty(r)
      BY <3>1 DEF TriggerEmpty
    <3>2. CASE Proved(r) \/ ProveFailed(r)
      BY <3>2 DEF Proved, ProveFailed
    <3>3. CASE ProofMalformed(r)
      BY <3>3 DEF ProofMalformed, Patient
    <3>4. CASE Sent(r) \/ SendFailed(r)
      BY <3>4 DEF Sent, SendFailed
    <3>5. CASE ReceiptOk(r) \/ ReceiptReverted(r) \/ ReceiptFailed(r)
      BY <3>5 DEF ReceiptOk, ReceiptReverted, ReceiptFailed
    <3>6. CASE Respond(r)
      BY <3>6 DEF Respond
    <3>7. CASE Mine(r)
      BY <3>7 DEF Mine
    <3> QED BY <1>3, <3>1, <3>2, <3>3, <3>4, <3>5, <3>6, <3>7
  <2>4. \A q \in Request : (pc'[q] \in Live => pc[q] \in Live) /\ (AtWork(q)' <=> AtWork(q))
    BY <2>3 DEF AtWork
  <2> QED BY <2>2, <2>4, WorkKept
<1>4. QED
  BY <1>1, <1>2, <1>3 DEF Serve, Trigger, Progress

LEMMA WorkStep ==
  ASSUME Patient, IInv, PageInv, WorkInv, [WebNext]_webVars
  PROVE  WorkInv'
<1> DEFINE Alone == /\ UNCHANGED <<vars, toasts>>
                    /\ batching' # None => posting' = None
                    /\ \A r \in Request : pc[r] \in Live => batching' = r
<1>1. Alone => WorkInv'
  BY WorkIdle
<1>2. ASSUME NEW f \in Refresh, refresh(f)
      PROVE  Alone
  <2>1. UNCHANGED <<vars, toasts, posting, batching>>
    BY <1>2 DEF refresh, Begin, GetMempool, GetAccount, SetUp, SetMempool, SetAccounts, RefreshFails
  <2> QED BY <2>1 DEF WorkInv
<1>3. ASSUME NEW tx \in Txs, Transfer(tx)
      PROVE  Alone
  <2>1. batching = None /\ UNCHANGED <<vars, toasts, batching>>
    BY <1>3 DEF Transfer, Patient
  <2> QED BY <2>1, NobodyElse
<1>4. CASE PostAccepted
  BY <1>4, WorkPost
<1>5. CASE PostRejected
  <2>1. posting' = None /\ UNCHANGED <<vars, toasts, batching>>
    BY <1>5 DEF PostRejected, reject_tx
  <2> QED BY <1>1, <2>1 DEF WorkInv
<1>6. CASE PostFails \/ BatchFails
  BY <1>6 DEF PostFails, BatchFails, Patient
<1>7. ASSUME NEW r \in Request, ClickBatch(r)
      PROVE  Alone
  <2>1. batching = None /\ posting = None /\ UNCHANGED <<vars, toasts, posting>>
    BY <1>7 DEF ClickBatch, Patient
  <2> QED BY <2>1, NobodyElse
<1>8. ASSUME NEW r \in Request, Serve(r), UNCHANGED clientVars
      PROVE  WorkInv'
  BY <1>8, WorkServe
<1>9. CASE BatchAnswered
  <2>1. /\ batching # None /\ pc[batching] = "done" /\ batching' = None
        /\ UNCHANGED <<vars, toasts>>
    BY <1>9 DEF BatchAnswered
  <2>2. \A r \in Request : pc[r] \notin Live
    BY <2>1 DEF WorkInv, Live
  <2> QED BY <1>1, <2>1, <2>2
<1>10. CASE UNCHANGED webVars
  <2>1. UNCHANGED <<vars, toasts, posting, batching>>
    BY <1>10 DEF webVars, clientVars
  <2> QED BY <1>1, <2>1 DEF WorkInv
<1> HIDE DEF Alone
<1>11. QED
  BY <1>1, <1>2, <1>3, <1>4, <1>5, <1>6, <1>7, <1>8, <1>9, <1>10 DEF WebNext

\* No two transfers are reported as submitted for one nonce, for any number of
\* refreshes that overlap and overwrite each other, of batches and of transfers,
\* and whatever becomes of the batches on L1.
THEOREM SubmittedOnce ==
  ASSUME Patient
  PROVE  WebSpec => []SubmittedNoncesDiffer
<1>1. WebInit => WorkInv
  <2> SUFFICES ASSUME WebInit PROVE WorkInv
    OBVIOUS
  <2>1. toasts = <<>> /\ batching = None /\ posting = None
        /\ \A r \in Request : pc[r] = "idle"
    BY DEF WebInit, Init
  <2> QED BY <2>1 DEF WorkInv, SubmittedNoncesDiffer, UsedUp, AtWork, Live
<1>2. IInv /\ PageInv /\ WorkInv /\ [WebNext]_webVars => WorkInv'
  BY WorkStep
<1>3. WorkInv => SubmittedNoncesDiffer
  BY DEF WorkInv
<1>4. QED
  BY <1>1, <1>2, <1>3, PageUsesSettlement, Invariance, PTL DEF WebSpec

----------------------------------------------------------------------------
(* The number of a batch.                                                  *)

LastEvent == settled[Len(settled)]

\* L1 has taken the batch of a request that has not answered yet.
JustSettled(r) == Uncommitted(r) \/ pc[r] = "responding"

\* While the request of the page is on its way L1 takes no other batch: the requests
\* that were given up before it, whose transactions may still be pending, have drained
\* at or before the state it has drained at.
NumberInv ==
  /\ BatchNumberIsOwn
  /\ settled # <<>> => LastEvent.batchNumber = batchCount
  /\ \A r \in Request :
       /\ pc[r] \in Live => batching = r
       /\ answer[r].status = "settled" => pc[r] = "done"
       /\ JustSettled(r) => settled # <<>> /\ LastEvent.prevRoot = pv(r).prevRoot
       /\ pc[r] = "responding" =>
            canonical_root = stateRoot /\ Before(job[r].prev_state, L1State)
       /\ pc[r] \in Live => \A q \in Request :
            Drained(q) => AtMost(job[q].prev_state, job[r].prev_state)

\* A step that settles, drains, commits and answers nothing.
LEMMA NumberKept ==
  ASSUME NumberInv, UNCHANGED <<rollupVars, canonical_root, job>>,
         \A r \in Request :
           /\ pc'[r] \in Live => batching' = r /\ pc[r] \in Live
           /\ pc[r] = "done" => pc'[r] = "done"
           /\ answer'[r].status = "settled" => answer'[r] = answer[r]
           /\ JustSettled(r)' => JustSettled(r)
           /\ pc'[r] = "responding" => pc[r] = "responding"
           /\ Drained(r)' => Drained(r)
  PROVE  NumberInv'
<1>1. UNCHANGED <<stateRoot, batchCount, settled, canonical_root, job>>
  BY DEF rollupVars
<1>2. LastEvent' = LastEvent /\ L1State' = L1State /\ \A r : pv(r)' = pv(r)
  BY <1>1 DEF LastEvent, L1State, pv
<1>3. BatchNumberIsOwn'
  BY <1>1, <1>2 DEF NumberInv, BatchNumberIsOwn
<1>4. QED
  BY <1>1, <1>2, <1>3 DEF NumberInv

\* Nothing is live when the page's request drains.
LEMMA NumberDrain ==
  ASSUME IInv, NumberInv, NEW r \in Request, batching = r, TriggerDrain(r),
         UNCHANGED clientVars
  PROVE  NumberInv'
<1>1. /\ pc[r] = "idle" /\ pc \in [Request -> Label] /\ pc' = [pc EXCEPT ![r] = "proving"]
      /\ job \in [Request -> [prev_state : State, txs : Seq(Txs)]]
      /\ job' = [job EXCEPT ![r] = [prev_state |-> canonical_state, txs |-> mempool]]
      /\ UNCHANGED <<stateRoot, batchCount, settled, canonical_root, answer, l1tx, batching>>
  BY DEF TriggerDrain, drain_for_batch, Goto, clientVars, rollupVars, IInv, TypeOK
<1>2. /\ \A q \in Request : pc[q] \notin Live
      /\ \A q \in Request : ~JustSettled(q)
  BY <1>1 DEF NumberInv, Live, Label, JustSettled, Uncommitted
<1>3. /\ LastEvent' = LastEvent /\ pc'[r] = "proving" /\ job'[r].prev_state = canonical_state
      /\ \A q \in Request : q # r => pc'[q] = pc[q] /\ job'[q] = job[q]
  BY <1>1 DEF LastEvent
<1>4. /\ \A q \in Request : q # r => ~JustSettled(q)'
      /\ ~JustSettled(r)' /\ \A q \in Request : pc'[q] # "responding"
  BY <1>1, <1>2, <1>3 DEF JustSettled, Uncommitted, Live, Label
<1>5. \A q \in Request : q # r /\ Drained(q)' => AtMost(job[q].prev_state, canonical_state)
  BY <1>1, <1>3 DEF IInv, JobInv, Drained
<1>6. ASSUME NEW q \in Request, Drained(q)'
      PROVE  AtMost(job'[q].prev_state, job'[r].prev_state)
  BY <1>3, <1>5, <1>6 DEF AtMost
<1>7. BatchNumberIsOwn'
  <2>1. \A q \in Request : answer[q].status = "settled" => pv(q)' = pv(q)
    BY <1>1, <1>3 DEF NumberInv, pv
  <2> QED BY <1>1, <2>1 DEF NumberInv, BatchNumberIsOwn
<1>8. \A q \in Request : pc'[q] \in Live => q = r
  BY <1>2, <1>3
<1>9. \A q \in Request : answer'[q].status = "settled" => pc'[q] = "done"
  BY <1>1, <1>3 DEF NumberInv
<1>10. QED
  BY <1>1, <1>3, <1>4, <1>6, <1>7, <1>8, <1>9 DEF NumberInv

\* commit_batch brings the canonical state to where L1 is.
LEMMA NumberCommit ==
  ASSUME IInv, NumberInv, NEW r \in Request, Commit(r), UNCHANGED clientVars
  PROVE  NumberInv'
<1>1. Uncommitted(r) /\ pc[r] \in Live /\ pc \in [Request -> Label]
  BY DEF Commit, IInv, ControlInv, Uncommitted, TypeOK, Live, Label
<1>2. /\ CommitSucceeds(job[r].txs, pv(r).newRoot) /\ pv(r).newRoot = stateRoot
      /\ apply_txs(canonical_state, job[r].txs) = [ok |-> TRUE, state |-> L1State]
      /\ Before(canonical_state, L1State) /\ job[r].prev_state = canonical_state
  BY <1>1, UncommittedCommits DEF IInv, CommitInv
<1>3. /\ pc' = [pc EXCEPT ![r] = "responding"] /\ canonical_root' = stateRoot
      /\ UNCHANGED <<stateRoot, batchCount, settled, job, answer, l1tx, batching>>
  BY <1>2 DEF Commit, commit_batch, Goto, rollupVars, clientVars
<1>4. /\ LastEvent' = LastEvent /\ L1State' = L1State /\ \A q : pv(q)' = pv(q)
      /\ \A q \in Request : q # r => pc[q] \notin Live
      /\ \A q \in Request : q # r => pc'[q] = pc[q]
      /\ pc'[r] = "responding"
  BY <1>1, <1>3 DEF LastEvent, L1State, pv, NumberInv
<1>5. /\ \A q \in Request : q # r => ~JustSettled(q)' /\ pc'[q] # "responding"
      /\ \A q \in Request : Drained(q)' => Drained(q)
  BY <1>1, <1>3, <1>4 DEF JustSettled, Uncommitted, Live, Label, Drained
<1>6. JustSettled(r)
  BY <1>1 DEF JustSettled
<1>7. BatchNumberIsOwn'
  BY <1>3, <1>4 DEF NumberInv, BatchNumberIsOwn
<1>8. \A q \in Request : answer'[q].status = "settled" => pc'[q] = "done"
  BY <1>1, <1>3, <1>4 DEF NumberInv, Live
<1>9. QED
  BY <1>1, <1>2, <1>3, <1>4, <1>5, <1>6, <1>7, <1>8 DEF NumberInv

\* L1 has taken nothing since, so the number that is read is that of the batch.
LEMMA NumberRespond ==
  ASSUME IInv, NumberInv, NEW r \in Request, Respond(r), UNCHANGED clientVars
  PROVE  NumberInv'
<1>1. /\ pc[r] = "responding" /\ pc \in [Request -> Label] /\ answer \in [Request -> Answer]
      /\ pc' = [pc EXCEPT ![r] = "done"]
      /\ answer' = [answer EXCEPT ![r] = [status |-> "settled", batch_number |-> batch_count]]
      /\ UNCHANGED <<stateRoot, batchCount, settled, canonical_root, job, l1tx, batching>>
  BY DEF Respond, Goto, IInv, TypeOK, rollupVars, sequencerVars, clientVars
<1>2. /\ LastEvent.batchNumber = batch_count /\ LastEvent.prevRoot = pv(r).prevRoot
      /\ settled # <<>> /\ settled \in Seq(BatchSettled)
  BY <1>1 DEF NumberInv, JustSettled, IInv, LedgerInv, TypeOK
<1>3. Len(settled) \in 1..Len(settled)
  BY <1>2
<1>4. /\ LastEvent' = LastEvent /\ L1State' = L1State /\ \A q : pv(q)' = pv(q)
      /\ pc'[r] = "done"
      /\ answer'[r] = [status |-> "settled", batch_number |-> batch_count]
      /\ \A q \in Request : q # r => pc'[q] = pc[q] /\ answer'[q] = answer[q]
  BY <1>1 DEF LastEvent, L1State, pv
<1>5. ASSUME NEW q \in Request, answer'[q].status = "settled"
      PROVE  \E i \in 1..Len(settled) : /\ settled[i].batchNumber = answer'[q].batch_number
                                        /\ settled[i].prevRoot = pv(q).prevRoot
  <2>1. CASE q = r
    <3>1. answer'[q].batch_number = batch_count
      BY <1>4, <2>1
    <3> QED BY <1>2, <1>3, <2>1, <3>1 DEF LastEvent
  <2>2. CASE q # r
    BY <1>4, <1>5, <2>2 DEF NumberInv, BatchNumberIsOwn
  <2> QED BY <2>1, <2>2
<1>6. BatchNumberIsOwn'
  BY <1>1, <1>4, <1>5 DEF BatchNumberIsOwn
<1>7. \A q \in Request : /\ pc'[q] \in Live => pc[q] \in Live /\ q # r
                         /\ JustSettled(q)' => JustSettled(q)
                         /\ pc'[q] = "responding" => pc[q] = "responding"
                         /\ Drained(q)' => Drained(q)
                         /\ answer'[q].status = "settled" => pc'[q] = "done"
  BY <1>1, <1>4 DEF NumberInv, JustSettled, Uncommitted, Drained, Live, Label
<1>8. QED
  BY <1>1, <1>4, <1>6, <1>7 DEF NumberInv

\* L1 takes a batch: no request is between the batch it has settled and its answer.
LEMMA NumberMine ==
  ASSUME IInv, NumberInv, NEW r \in Request, Mine(r), l1tx'[r] = "succeeded",
         UNCHANGED clientVars
  PROVE  NumberInv'
<1>1. /\ L1State' = Outcome(r) /\ job[r].prev_state = L1State /\ Drained(r)
      /\ submitBatch(pv(r), ProofMode)
      /\ l1tx \in [Request -> L1Status] /\ l1tx[r] = "pending"
      /\ \A q \in Request : q # r => l1tx'[q] = l1tx[q]
      /\ UNCHANGED <<canonical_root, pc, job, answer, batching>>
  BY SettleStep DEF Mine, IInv, TypeOK, sequencerVars, clientVars
<1>2. L1State \in State /\ canonical_state \in State
      /\ \A q \in Request : job[q].prev_state \in State
  BY DEF IInv, LedgerInv, TypeOK
<1>3. ASSUME NEW q \in Request PROVE ~JustSettled(q)
  <2>1. CASE Uncommitted(q)
    <3>1. Before(canonical_state, L1State)
      BY <2>1, UncommittedCommits
    <3>2. AtMost(L1State, canonical_state)
      BY <1>1 DEF IInv, JobInv
    <3> QED BY <1>2, <3>1, <3>2, BeforeAsymmetric
  <2>2. CASE pc[q] = "responding"
    <3>1. Before(job[q].prev_state, L1State) /\ AtMost(L1State, job[q].prev_state)
      BY <1>1, <2>2 DEF NumberInv, Live, Label
    <3> QED BY <1>2, <3>1, BeforeAsymmetric
  <2> QED BY <2>1, <2>2 DEF JustSettled
<1> DEFINE event == [batchNumber |-> batchCount', prevRoot |-> pv(r).prevRoot,
                     newRoot |-> pv(r).newRoot, batchHash |-> pv(r).batchHash]
           n == Len(settled)
<1>4. settled' = Append(settled, event) /\ settled \in Seq(BatchSettled)
  BY <1>1 DEF submitBatch, IInv, TypeOK
<1>5. event.batchNumber = batchCount' /\ event.prevRoot = pv(r).prevRoot
  OBVIOUS
<1> HIDE DEF event
<1>6. /\ n \in Nat /\ Len(settled') = n + 1 /\ settled' # <<>> /\ settled'[n + 1] = event
      /\ \A i \in 1..n : settled'[i] = settled[i]
  BY <1>4
<1>7. LastEvent' = event
  BY <1>6 DEF LastEvent
<1> HIDE DEF n
<1>8. \A q : pv(q)' = pv(q)
  BY <1>1 DEF pv
<1>9. \A q \in Request : /\ JustSettled(q)' => q = r
                         /\ pc'[q] # "responding"
                         /\ Drained(q)' => Drained(q)
  BY <1>1, <1>3 DEF JustSettled, Uncommitted, Drained
<1>10. BatchNumberIsOwn'
  <2>1. \A i \in 1..n : i \in 1..(n + 1)
    BY <1>6
  <2> QED BY <1>1, <1>6, <1>8, <2>1 DEF NumberInv, BatchNumberIsOwn, n
<1>11. QED
  BY <1>1, <1>5, <1>6, <1>7, <1>8, <1>9, <1>10 DEF NumberInv

LEMMA NumberServe ==
  ASSUME IInv, NumberInv, NEW r \in Request, Serve(r), UNCHANGED clientVars
  PROVE  NumberInv'
<1>1. CASE batching = r /\ TriggerDrain(r)
  BY <1>1, NumberDrain
<1>2. CASE Commit(r)
  BY <1>2, NumberCommit
<1>3. CASE Respond(r)
  BY <1>3, NumberRespond
<1>4. CASE Mine(r) /\ l1tx'[r] = "succeeded"
  BY <1>4, NumberMine
<1>5. CASE \/ TriggerEmpty(r) \/ Proved(r) \/ ProveFailed(r) \/ ProofMalformed(r)
           \/ Sent(r) \/ SendFailed(r) \/ ReceiptOk(r) \/ ReceiptReverted(r)
           \/ ReceiptFailed(r) \/ Restore(r) \/ (Mine(r) /\ l1tx'[r] # "succeeded")
  <2>1. /\ pc \in [Request -> Label] /\ answer \in [Request -> Answer]
        /\ l1tx \in [Request -> L1Status]
    BY DEF IInv, TypeOK
  <2> DEFINE Moves(q) ==
        /\ pc'[q] \in Live => pc[q] \in Live
        /\ pc[q] = "done" => pc'[q] = "done"
        /\ answer'[q].status = "settled" => answer'[q] = answer[q]
        /\ Uncommitted(q)' => Uncommitted(q)
        /\ pc'[q] = "responding" => pc[q] = "responding"
        /\ Drained(q)' => Drained(q)
  <2>2. (\A q \in Request : Moves(q)) /\ UNCHANGED <<rollupVars, canonical_root, job>>
    <3> USE <2>1 DEF Goto, Finish, Tell, Live, Label, Uncommitted, Drained
    <3>1. CASE TriggerEmpty(r)
      BY <3>1 DEF TriggerEmpty, sequencerVars
    <3>2. CASE Proved(r) \/ ProveFailed(r) \/ ProofMalformed(r)
      BY <3>2 DEF Proved, ProveFailed, ProofMalformed, sequencerVars
    <3>3. CASE Sent(r) \/ SendFailed(r)
      BY <3>3 DEF Sent, SendFailed, sequencerVars
    <3>4. CASE ReceiptOk(r) \/ ReceiptReverted(r) \/ ReceiptFailed(r)
      BY <3>4 DEF ReceiptOk, ReceiptReverted, ReceiptFailed, sequencerVars
    <3>5. CASE Restore(r)
      BY <3>5 DEF Restore, restore_mempool
    <3>6. CASE Mine(r) /\ l1tx'[r] # "succeeded"
      BY <3>6 DEF Mine, sequencerVars
    <3> QED BY <1>5, <3>1, <3>2, <3>3, <3>4, <3>5, <3>6
  <2>3. \A q \in Request : JustSettled(q)' => JustSettled(q)
    BY <2>2 DEF JustSettled
  <2>4. \A q \in Request : pc'[q] \in Live => batching' = q
    BY <2>2 DEF NumberInv, clientVars
  <2> QED BY <2>2, <2>3, <2>4, NumberKept
<1>6. QED
  BY <1>1, <1>2, <1>3, <1>4, <1>5 DEF Serve, Trigger, Progress

LEMMA NumberStep ==
  ASSUME ~Offline, IInv, NumberInv, [WebNext]_webVars
  PROVE  NumberInv'
<1> DEFINE Alone == /\ UNCHANGED <<rollupVars, canonical_root, job, pc, answer, l1tx>>
                    /\ \A r \in Request : pc[r] \in Live => batching' = r
<1>1. Alone => NumberInv'
  <2>1. SUFFICES ASSUME Alone PROVE NumberInv'
    OBVIOUS
  <2>2. \A r \in Request : /\ JustSettled(r)' => JustSettled(r)
                           /\ Drained(r)' => Drained(r)
    BY <2>1 DEF JustSettled, Uncommitted, Drained
  <2> QED BY <2>1, <2>2, NumberKept
<1>2. ASSUME NEW r \in Request, ClickBatch(r)
      PROVE  Alone
  <2>1. batching = None /\ UNCHANGED vars
    BY <1>2 DEF ClickBatch
  <2>2. \A q \in Request : pc[q] \notin Live
    BY <2>1, WebClientAssumption DEF NumberInv
  <2> QED BY <2>1, <2>2 DEF vars, sequencerVars
<1>3. ASSUME BatchAnswered PROVE Alone
  <2>1. pc[batching] = "done" /\ UNCHANGED vars
    BY <1>3 DEF BatchAnswered
  <2>2. \A q \in Request : pc[q] \notin Live
    BY <2>1 DEF NumberInv, Live
  <2> QED BY <2>1, <2>2 DEF vars, sequencerVars
<1>4. ASSUME PostAccepted PROVE Alone
  <2>1. submit_tx(posting) /\ batching' = batching
    BY <1>4 DEF PostAccepted
  <2> QED BY <2>1 DEF submit_tx, admit_tx, NumberInv
<1>5. ASSUME UNCHANGED <<vars, batching>> PROVE Alone
  BY <1>5 DEF vars, sequencerVars, NumberInv
<1> HIDE DEF Alone
<1>6. ASSUME NEW f \in Refresh, refresh(f)
      PROVE  UNCHANGED <<vars, batching>>
  BY <1>6 DEF refresh, Begin, GetMempool, GetAccount, SetUp, SetMempool, SetAccounts, RefreshFails
<1>7. (\E tx \in Txs : Transfer(tx)) \/ PostRejected \/ UNCHANGED webVars
        => UNCHANGED <<vars, batching>>
  BY DEF Transfer, PostRejected, reject_tx, webVars, clientVars
<1>8. ~PostFails /\ ~BatchFails
  BY DEF PostFails, BatchFails
<1>9. QED
  BY <1>1, <1>2, <1>3, <1>4, <1>5, <1>6, <1>7, <1>8, NumberServe DEF WebNext

\* The batch number that the page reports with a transaction on L1 is the number of the
\* batch in that transaction, if its connections hold: the page asks for one batch at a
\* time, and that no other batch settles in between is true although transactions of
\* batches that were given up may be pending.
THEOREM ReportsOwnNumber ==
  ASSUME ~Offline
  PROVE  WebSpec => []BatchNumberIsOwn
<1>1. WebInit => NumberInv
  <2> SUFFICES ASSUME WebInit PROVE NumberInv
    OBVIOUS
  <2>1. /\ settled = <<>>
        /\ \A r \in Request : /\ pc[r] = "idle" /\ answer[r].status = "none"
                              /\ ~JustSettled(r) /\ pc[r] \notin Live
    BY DEF WebInit, Init, constructor, JustSettled, Uncommitted, Live, NoAnswer
  <2> QED BY <2>1 DEF NumberInv, BatchNumberIsOwn
<1>2. IInv /\ NumberInv /\ [WebNext]_webVars => NumberInv'
  BY NumberStep
<1>3. NumberInv => BatchNumberIsOwn
  BY DEF NumberInv
<1>4. QED
  BY <1>1, <1>2, <1>3, PageUsesSettlement, Invariance, PTL DEF WebSpec
=============================================================================
