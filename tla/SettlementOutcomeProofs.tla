----------------------- MODULE SettlementOutcomeProofs -----------------------
(***************************************************************************)
(* What becomes of transactions and answers in Settlement: no nonce is     *)
(* settled twice, answers are true, and the canonical state mirrors L1.    *)
(*                                                                         *)
(* The first holds because L1 takes a batch on the state it stands at      *)
(* only, and every transaction it settles moves the nonce of its sender.   *)
(* The others hold because a request that is done with its transaction, or *)
(* is being told that it failed, has none that L1 may still take: that is  *)
(* true only while L1's answers reach the sequencer, so those theorems     *)
(* name the faults they exclude.  What holds under every fault: a 200 is   *)
(* true, and a batch that was given up is never made up for.               *)
(***************************************************************************)
EXTENDS SettlementProofs

\* A ledger is past a transaction.
Past(s, tx) ==
  /\ tx.from \in Address
  /\ tx.nonce \in Nat
  /\ tx.nonce < get(s, tx.from).nonce

SettledInv ==
  /\ \A i \in 1..Len(settled) : \A k \in 1..Len(settled[i].batchHash) :
       Past(L1State, settled[i].batchHash[k])
  /\ NoNonceSettledTwice

\* L1 may take, or has taken, the batch of a handler that goes on as if it had not.
Unnoticed(r) == pc[r] = "restoring" \/ answer[r].status \in {"failed", "lost"}

RequestInv(r) ==
  /\ pc[r] # "done" => answer[r].status = "none"
  /\ pc[r] = "responding" \/ answer[r].status = "settled" => l1tx[r] = "succeeded"
  /\ answer[r].status = "empty" => l1tx[r] = "none"
  /\ l1tx[r] = "pending" => pc[r] = "awaiting" \/ Unnoticed(r)
  /\ {"receipt", "sendLost"} \cap Faults = {} =>
       (pc[r] = "restoring" \/ answer[r].status = "failed" =>
          l1tx[r] \notin {"pending", "succeeded"})
  /\ {"disconnect", "crash"} \cap Faults = {} => answer[r].status # "lost"

\* The canonical state is behind L1 only by a batch whose handler is going to
\* commit it, or has given it up.
Behind(r) == Uncommitted(r) \/ (l1tx[r] = "succeeded" /\ Unnoticed(r))

MirrorInv == canonical_state # L1State => \E r \in Request : Behind(r)

OutcomeInv ==
  /\ SettledInv
  /\ \A r \in Request : RequestInv(r)
  /\ MirrorInv

----------------------------------------------------------------------------
(* What L1 has settled.                                                    *)

\* L1 settles a batch none of whose nonces it has settled before.
LEMMA SettledGrows ==
  ASSUME IInv, SettledInv, NEW r \in Request, Mine(r), l1tx'[r] = "succeeded"
  PROVE  SettledInv'
<1> DEFINE txs == job[r].txs
           n   == Len(settled)
<1>1. /\ L1State' = Outcome(r) /\ job[r].prev_state = L1State
      /\ Drained(r) /\ submitBatch(pv(r), ProofMode)
  BY SettleStep
<1>2. /\ txs \in Batch /\ L1State \in State /\ Outcome(r) \in State
      /\ \A k \in 1..Len(txs) : txs[k].nonce < MaxU64
  BY <1>1, OutcomeAfter, TxsAreTx DEF IInv
<1>3. apply_txs(L1State, txs).ok /\ apply_txs(L1State, txs).state = Outcome(r)
  BY <1>1 DEF IInv, JobInv, Provable, Outcome
<1>4. /\ NoLess(L1State, Outcome(r))
      /\ \A k \in 1..Len(txs) :
           /\ txs[k].from \in Address /\ txs[k].nonce \in Nat
           /\ get(L1State, txs[k].from).nonce <= txs[k].nonce
           /\ txs[k].nonce < get(Outcome(r), txs[k].from).nonce
           /\ \A l \in 1..Len(txs) :
                txs[k].from = txs[l].from /\ txs[k].nonce = txs[l].nonce => k = l
  <2> HIDE DEF txs
  <2> QED BY <1>2, <1>3, BatchNonces
<1>5. /\ n \in Nat /\ Len(settled') = n + 1
      /\ \A i \in 1..n : settled'[i] = settled[i]
      /\ settled'[n + 1].batchHash = txs
  <2> DEFINE event == [batchNumber |-> batchCount', prevRoot |-> pv(r).prevRoot,
                       newRoot |-> pv(r).newRoot, batchHash |-> pv(r).batchHash]
  <2>1. settled' = Append(settled, event) /\ event.batchHash = txs
    BY <1>1 DEF submitBatch, pv, apply_batch
  <2>2. settled \in Seq(BatchSettled)
    BY DEF IInv, TypeOK
  <2> HIDE DEF event
  <2> QED BY <2>1, <2>2
<1> DEFINE old == [i \in 1..n |-> settled[i].batchHash]
           new == [i \in 1..(n + 1) |-> settled'[i].batchHash]
<1>6. /\ n \in Nat /\ new[n + 1] = txs
      /\ \A i \in 1..n : new[i] = old[i]
  <2> HIDE DEF txs, n
  <2> QED BY <1>5
<1>7. ASSUME NEW i \in 1..n, NEW k \in 1..Len(old[i])
      PROVE  Past(L1State, old[i][k])
  BY DEF SettledInv
<1>8. \A i, j \in 1..n : \A k \in 1..Len(old[i]), l \in 1..Len(old[j]) :
        old[i][k].from = old[j][l].from /\ old[i][k].nonce = old[j][l].nonce => i = j /\ k = l
  BY DEF SettledInv, NoNonceSettledTwice
<1>9. (\A i \in 1..(n + 1) : \A k \in 1..Len(new[i]) : Past(Outcome(r), new[i][k]))
      /\ (\A i, j \in 1..(n + 1) : \A k \in 1..Len(new[i]), l \in 1..Len(new[j]) :
            new[i][k].from = new[j][l].from /\ new[i][k].nonce = new[j][l].nonce
              => i = j /\ k = l)
      => SettledInv'
  BY <1>1, <1>5 DEF SettledInv, NoNonceSettledTwice
<1> HIDE DEF txs, n, old, new
<1>10. ASSUME NEW tx, Past(L1State, tx)
       PROVE  Past(Outcome(r), tx)
  <2>1. tx.from \in Address /\ tx.nonce \in Nat /\ tx.nonce < get(L1State, tx.from).nonce
    BY <1>10 DEF Past
  <2>2. get(L1State, tx.from).nonce \in Nat /\ get(Outcome(r), tx.from).nonce \in Nat
    BY <1>2, <2>1, NonceType
  <2>3. get(L1State, tx.from).nonce <= get(Outcome(r), tx.from).nonce
    BY <1>4, <2>1 DEF NoLess
  <2>4. tx.nonce < get(Outcome(r), tx.from).nonce
    BY <2>1, <2>2, <2>3
  <2> QED BY <2>1, <2>4 DEF Past
<1>11. ASSUME NEW l \in 1..Len(txs)
       PROVE  Past(Outcome(r), txs[l])
  BY <1>4 DEF Past
<1>12. ASSUME NEW tx, Past(L1State, tx), NEW l \in 1..Len(txs)
       PROVE  ~(tx.from = txs[l].from /\ tx.nonce = txs[l].nonce)
  <2>1. SUFFICES ASSUME tx.from = txs[l].from, tx.nonce = txs[l].nonce PROVE FALSE
    OBVIOUS
  <2>2. txs[l].nonce \in Nat /\ txs[l].nonce < get(L1State, txs[l].from).nonce
    BY <1>12, <2>1 DEF Past
  <2>3. txs[l].from \in Address /\ get(L1State, txs[l].from).nonce <= txs[l].nonce
    BY <1>4
  <2>4. get(L1State, txs[l].from).nonce \in Nat
    BY <1>2, <2>3, NonceType
  <2> QED BY <2>2, <2>3, <2>4
<1>13. ASSUME NEW i \in 1..(n + 1), NEW k \in 1..Len(new[i])
       PROVE  Past(Outcome(r), new[i][k])
  <2>1. CASE i \in 1..n
    BY <1>6, <1>7, <1>10, <1>13, <2>1
  <2>2. CASE i = n + 1
    BY <1>6, <1>11, <1>13, <2>2
  <2> QED BY <1>6, <2>1, <2>2
<1>14. ASSUME NEW i \in 1..(n + 1), NEW j \in 1..(n + 1),
              NEW k \in 1..Len(new[i]), NEW l \in 1..Len(new[j]),
              new[i][k].from = new[j][l].from, new[i][k].nonce = new[j][l].nonce
       PROVE  i = j /\ k = l
  <2>1. CASE i \in 1..n /\ j \in 1..n
    <3>1. new[i] = old[i] /\ new[j] = old[j]
      BY <1>6, <2>1
    <3>2. /\ k \in 1..Len(old[i]) /\ l \in 1..Len(old[j])
          /\ old[i][k].from = old[j][l].from /\ old[i][k].nonce = old[j][l].nonce
      BY <1>14, <3>1
    <3> QED BY <1>8, <2>1, <3>2
  <2>2. CASE i \in 1..n /\ j = n + 1
    <3>1. new[i] = old[i] /\ new[j] = txs
      BY <1>6, <2>2
    <3>2. k \in 1..Len(old[i]) /\ l \in 1..Len(txs) /\ Past(L1State, old[i][k])
      BY <1>7, <1>14, <2>2, <3>1
    <3> QED BY <1>12, <1>14, <3>1, <3>2
  <2>3. CASE i = n + 1 /\ j \in 1..n
    <3>1. new[i] = txs /\ new[j] = old[j]
      BY <1>6, <2>3
    <3>2. k \in 1..Len(txs) /\ l \in 1..Len(old[j]) /\ Past(L1State, old[j][l])
      BY <1>7, <1>14, <2>3, <3>1
    <3> QED BY <1>12, <1>14, <3>1, <3>2
  <2>4. CASE i = n + 1 /\ j = n + 1
    BY <1>4, <1>6, <1>14, <2>4
  <2> QED BY <1>6, <2>1, <2>2, <2>3, <2>4
<1>15. QED
  BY <1>9, <1>13, <1>14

\* A step by which L1 takes no batch leaves the contract alone.
LEMMA NothingSettles ==
  ASSUME IInv, [Next]_vars, ~ \E r \in Request : Mine(r) /\ l1tx'[r] = "succeeded"
  PROVE  UNCHANGED <<stateRoot, settled>>
<1>1. ASSUME NEW r \in Request, Mine(r)
      PROVE  UNCHANGED <<stateRoot, settled>>
  BY <1>1 DEF Mine, rollupVars, IInv, TypeOK
<1>2. CASE \A r \in Request : ~Mine(r)
  BY <1>2, OnlyL1Settles DEF vars, rollupVars
<1>3. QED
  BY <1>1, <1>2

\* Nothing but L1 taking a batch changes what is settled.
LEMMA SettledStep ==
  ASSUME IInv, SettledInv, [Next]_vars
  PROVE  SettledInv'
<1>1. CASE \E r \in Request : Mine(r) /\ l1tx'[r] = "succeeded"
  BY <1>1, SettledGrows
<1>2. CASE ~ \E r \in Request : Mine(r) /\ l1tx'[r] = "succeeded"
  <2>1. UNCHANGED <<stateRoot, settled>>
    BY <1>2, NothingSettles
  <2>2. L1State' = L1State /\ NoNonceSettledTwice' = NoNonceSettledTwice
    BY <2>1 DEF L1State, NoNonceSettledTwice
  <2>3. \A tx : Past(L1State, tx)' = Past(L1State, tx)
    BY <2>2 DEF Past
  <2> QED BY <2>1, <2>2, <2>3 DEF SettledInv
<1>3. QED
  BY <1>1, <1>2

\* A root that L1 has left, with the state it commits to.
LeftBehind(root) == \E s \in State : root = merkle_root(s) /\ Before(s, L1State)

RootsInv ==
  /\ \A i \in 1..Len(settled) : LeftBehind(settled[i].prevRoot)
  /\ NoRootComesBack

\* L1 settles a batch on the state it stands at, and leaves that state for good.
LEMMA RootsGrow ==
  ASSUME IInv, RootsInv, NEW r \in Request, Mine(r), l1tx'[r] = "succeeded"
  PROVE  RootsInv'
<1> DEFINE n == Len(settled)
<1>1. /\ L1State' = Outcome(r) /\ job[r].prev_state = L1State
      /\ Drained(r) /\ submitBatch(pv(r), ProofMode)
  BY SettleStep
<1>2. L1State \in State /\ Outcome(r) \in State /\ Before(L1State, Outcome(r))
  BY <1>1, OutcomeAfter DEF IInv
<1>3. pv(r).prevRoot = merkle_root(L1State) /\ pv(r).newRoot = merkle_root(Outcome(r))
  BY <1>1, PublicValuesOf DEF IInv
<1>4. /\ n \in Nat /\ Len(settled') = n + 1
      /\ \A i \in 1..n : settled'[i] = settled[i]
      /\ settled'[n + 1].prevRoot = pv(r).prevRoot
      /\ settled'[n + 1].newRoot = pv(r).newRoot
  <2> DEFINE event == [batchNumber |-> batchCount', prevRoot |-> pv(r).prevRoot,
                       newRoot |-> pv(r).newRoot, batchHash |-> pv(r).batchHash]
  <2>1. /\ settled' = Append(settled, event)
        /\ event.prevRoot = pv(r).prevRoot /\ event.newRoot = pv(r).newRoot
    BY <1>1 DEF submitBatch
  <2>2. settled \in Seq(BatchSettled)
    BY DEF IInv, TypeOK
  <2> HIDE DEF event
  <2> QED BY <2>1, <2>2
<1> HIDE DEF n
<1>5. ASSUME NEW i \in 1..(n + 1)
      PROVE  \E s \in State : settled'[i].prevRoot = merkle_root(s) /\ Before(s, Outcome(r))
  <2>1. CASE i \in 1..n
    <3>1. settled'[i].prevRoot = settled[i].prevRoot
      BY <1>4, <2>1
    <3>2. PICK s \in State : settled[i].prevRoot = merkle_root(s) /\ Before(s, L1State)
      BY <2>1 DEF RootsInv, LeftBehind, n
    <3>3. Before(s, Outcome(r))
      BY <1>2, <3>2, BeforeTransitive, BeforeAsymmetric DEF AtMost
    <3> QED BY <3>1, <3>2, <3>3
  <2>2. CASE i = n + 1
    BY <1>2, <1>3, <1>4, <2>2
  <2> QED BY <1>4, <2>1, <2>2
<1>6. ASSUME NEW i \in 1..(n + 1)
      PROVE  settled'[i].prevRoot # pv(r).newRoot
  <2>1. PICK s \in State : settled'[i].prevRoot = merkle_root(s) /\ Before(s, Outcome(r))
    BY <1>5
  <2>2. s # Outcome(r)
    BY <1>2, <2>1, BeforeAsymmetric DEF AtMost
  <2> QED BY <1>2, <1>3, <2>1, <2>2, RootInjective
<1>7. ASSUME NEW i \in 1..(n + 1), NEW j \in 1..(n + 1), i <= j
      PROVE  settled'[i].prevRoot # settled'[j].newRoot
  <2>1. CASE j = n + 1
    BY <1>4, <1>6, <2>1
  <2>2. CASE j \in 1..n
    <3>1. i \in 1..n /\ settled'[i] = settled[i] /\ settled'[j] = settled[j]
      BY <1>4, <1>7, <2>2
    <3> QED BY <1>7, <2>2, <3>1 DEF RootsInv, NoRootComesBack, n
  <2> QED BY <1>4, <2>1, <2>2
<1>8. \A i \in 1..Len(settled') : LeftBehind(settled[i].prevRoot)'
  BY <1>1, <1>4, <1>5 DEF LeftBehind
<1>9. NoRootComesBack'
  BY <1>4, <1>7 DEF NoRootComesBack
<1>10. QED
  BY <1>8, <1>9 DEF RootsInv

LEMMA RootsStep ==
  ASSUME IInv, RootsInv, [Next]_vars
  PROVE  RootsInv'
<1>1. CASE \E r \in Request : Mine(r) /\ l1tx'[r] = "succeeded"
  BY <1>1, RootsGrow
<1>2. CASE ~ \E r \in Request : Mine(r) /\ l1tx'[r] = "succeeded"
  <2>1. UNCHANGED <<stateRoot, settled>>
    BY <1>2, NothingSettles
  <2>2. L1State' = L1State /\ NoRootComesBack' = NoRootComesBack
    BY <2>1 DEF L1State, NoRootComesBack
  <2>3. \A root : LeftBehind(root)' = LeftBehind(root)
    BY <2>2 DEF LeftBehind
  <2> QED BY <2>1, <2>2, <2>3 DEF RootsInv
<1>3. QED
  BY <1>1, <1>2

----------------------------------------------------------------------------
(* What requests are answered.                                             *)

\* A request that nothing happens to.
LEMMA RequestKept ==
  ASSUME NEW q \in Request, RequestInv(q),
         pc'[q] = pc[q], answer'[q] = answer[q], l1tx'[q] = l1tx[q]
  PROVE  RequestInv(q)'
BY DEF RequestInv, Unnoticed

\* A step of one request, or of L1 with its transaction.
LEMMA OwnStep ==
  ASSUME IInv, NEW r \in Request, RequestInv(r),
         Trigger(r) \/ Progress(r) \/ Mine(r) \/ Evict(r)
  PROVE  /\ RequestInv(r)'
         /\ \A q \in Request : q # r =>
              pc'[q] = pc[q] /\ answer'[q] = answer[q] /\ l1tx'[q] = l1tx[q]
<1>1. /\ pc \in [Request -> Label] /\ answer \in [Request -> Answer]
      /\ l1tx \in [Request -> L1Status] /\ batch_count \in U64
  BY DEF IInv, TypeOK
<1>2. /\ pc[r] \in {"idle", "proving", "submitting"} => l1tx[r] = "none"
      /\ pc[r] = "committing" => l1tx[r] = "succeeded"
  BY DEF IInv, ControlInv
<1>3. \A status : Tell(status).status = status
  BY DEF Tell
<1> USE <1>1, <1>2, <1>3 DEF Goto, Finish, RequestInv, Unnoticed
<1>4. CASE TriggerEmpty(r)
  BY <1>4 DEF TriggerEmpty
<1>5. CASE TriggerDrain(r)
  BY <1>5 DEF TriggerDrain
<1>6. CASE Proved(r)
  BY <1>6 DEF Proved
<1>7. CASE ProveFailed(r)
  BY <1>7 DEF ProveFailed
<1>8. CASE ProofMalformed(r)
  BY <1>8 DEF ProofMalformed
<1>9. CASE Sent(r)
  BY <1>9 DEF Sent
<1>10. CASE SendFailed(r)
  BY <1>10 DEF SendFailed
<1>11. CASE ReceiptOk(r)
  BY <1>11 DEF ReceiptOk
<1>12. CASE ReceiptReverted(r)
  BY <1>12 DEF ReceiptReverted
<1>13. CASE ReceiptFailed(r)
  BY <1>13 DEF ReceiptFailed
<1>14. CASE Restore(r)
  BY <1>14 DEF Restore
<1>15. CASE Commit(r)
  <2>1. pc[r] = "committing" /\ l1tx' = l1tx
    BY <1>15 DEF Commit
  <2>2. \/ pc' = [pc EXCEPT ![r] = "responding"] /\ answer' = answer
        \/ pc' = [pc EXCEPT ![r] = "done"] /\ answer' = [answer EXCEPT ![r] = Tell("diverged")]
    BY <1>15 DEF Commit
  <2> QED BY <2>1, <2>2
<1>16. CASE Respond(r)
  BY <1>16 DEF Respond
<1>17. CASE Mine(r)
  BY <1>17 DEF Mine
<1>18. CASE Evict(r)
  BY <1>18 DEF Evict
<1>19. QED
  BY <1>4, <1>5, <1>6, <1>7, <1>8, <1>9, <1>10, <1>11, <1>12, <1>13, <1>14, <1>15, <1>16,
     <1>17, <1>18 DEF Trigger, Progress

\* What a client that hangs up, or a crash, does to a request.
LEMMA HangupEffect ==
  ASSUME IInv, Crash \/ \E r \in Request : Disconnect(r), NEW q \in Request
  PROVE  \/ pc'[q] = pc[q] /\ answer'[q] = answer[q] /\ l1tx'[q] = l1tx[q]
         \/ /\ {"disconnect", "crash"} \cap Faults # {}
            /\ pc[q] \in Live /\ pc'[q] = "done" /\ answer'[q] = Tell("lost")
            /\ l1tx'[q] = l1tx[q] \/ (pc[q] = "submitting" /\ l1tx'[q] = "pending")
<1>1. /\ pc \in [Request -> Label] /\ answer \in [Request -> Answer]
      /\ l1tx \in [Request -> L1Status]
  BY DEF IInv, TypeOK
<1>2. CASE Crash
  <2>1. PICK sent \in SUBSET {r \in {r \in Request : pc[r] \in Live} : pc[r] = "submitting"} :
          l1tx' = [r \in Request |-> IF r \in sent THEN "pending" ELSE l1tx[r]]
    BY <1>2 DEF Crash, MaybeSent
  <2>2. /\ "crash" \in Faults
        /\ pc'[q] = IF pc[q] \in Live THEN "done" ELSE pc[q]
        /\ answer'[q] = IF pc[q] \in Live THEN Tell("lost") ELSE answer[q]
    BY <1>2 DEF Crash
  <2>3. l1tx'[q] = l1tx[q] \/ (pc[q] \in Live /\ pc[q] = "submitting" /\ l1tx'[q] = "pending")
    BY <2>1
  <2> QED BY <2>2, <2>3
<1>3. CASE \E r \in Request : Disconnect(r)
  <2>1. PICK r \in Request : Disconnect(r)
    BY <1>3
  <2>2. PICK sent \in SUBSET {x \in {r} : pc[x] = "submitting"} :
          l1tx' = [x \in Request |-> IF x \in sent THEN "pending" ELSE l1tx[x]]
    BY <2>1 DEF Disconnect, MaybeSent
  <2>3. /\ "disconnect" \in Faults /\ pc[r] \in Live
        /\ pc' = [pc EXCEPT ![r] = "done"]
        /\ answer' = [answer EXCEPT ![r] = Tell("lost")]
    BY <2>1 DEF Disconnect, Finish
  <2>4. l1tx'[q] = l1tx[q] \/ (q = r /\ pc[q] = "submitting" /\ l1tx'[q] = "pending")
    BY <2>2
  <2>5. CASE q = r
    BY <1>1, <2>3, <2>4, <2>5
  <2>6. CASE q # r
    BY <1>1, <2>3, <2>4, <2>6
  <2> QED BY <2>5, <2>6
<1>4. QED
  BY <1>2, <1>3

\* Clients that hang up and crashes.
LEMMA HangupRequests ==
  ASSUME IInv, NEW q \in Request, RequestInv(q), Crash \/ \E r \in Request : Disconnect(r)
  PROVE  RequestInv(q)'
<1>1. CASE pc'[q] = pc[q] /\ answer'[q] = answer[q] /\ l1tx'[q] = l1tx[q]
  BY <1>1, RequestKept
<1>2. CASE ~(pc'[q] = pc[q] /\ answer'[q] = answer[q] /\ l1tx'[q] = l1tx[q])
  <2>1. /\ {"disconnect", "crash"} \cap Faults # {}
        /\ pc'[q] = "done" /\ answer'[q].status = "lost"
    BY <1>2, HangupEffect DEF Tell
  <2> QED BY <2>1 DEF RequestInv, Unnoticed
<1>3. QED
  BY <1>1, <1>2

\* The steps that concern no request.
LEMMA OtherSteps ==
  ASSUME \/ \E tx \in Txs : submit_tx(tx) \/ reject_tx(tx)
         \/ Restart \/ RestartBails \/ UNCHANGED vars
  PROVE  UNCHANGED <<pc, answer, l1tx>>
BY DEF submit_tx, reject_tx, Restart, RestartBails, vars

\* Every step preserves what is known of requests.
LEMMA RequestsStep ==
  ASSUME IInv, \A r \in Request : RequestInv(r), [Next]_vars
  PROVE  \A r \in Request : RequestInv(r)'
<1> SUFFICES ASSUME NEW q \in Request PROVE RequestInv(q)'
  OBVIOUS
<1>1. ASSUME NEW r \in Request, Trigger(r) \/ Progress(r) \/ Mine(r) \/ Evict(r)
      PROVE  RequestInv(q)'
  BY <1>1, OwnStep, RequestKept
<1>2. CASE Crash \/ \E r \in Request : Disconnect(r)
  BY <1>2, HangupRequests
<1>3. CASE \/ \E tx \in Txs : submit_tx(tx) \/ reject_tx(tx)
           \/ Restart \/ RestartBails \/ UNCHANGED vars
  BY <1>3, OtherSteps, RequestKept
<1>4. QED
  BY <1>1, <1>2, <1>3 DEF Next

----------------------------------------------------------------------------
(* The canonical state and L1.                                             *)

\* Nothing that a request does, short of the commit, makes up for a batch that the
\* canonical state is behind by.
LEMMA BehindKept ==
  ASSUME IInv, NEW r \in Request, RequestInv(r), Behind(r),
         Trigger(r) \/ Progress(r) \/ Mine(r) \/ Evict(r), ~Commit(r)
  PROVE  Behind(r)'
<1>1. /\ pc \in [Request -> Label] /\ answer \in [Request -> Answer]
      /\ l1tx \in [Request -> L1Status]
  BY DEF IInv, TypeOK
<1>2. /\ l1tx[r] = "succeeded"
      /\ \/ pc[r] \in {"awaiting", "committing", "restoring"}
         \/ pc[r] = "done" /\ answer[r].status \in {"failed", "lost"}
  BY DEF Behind, Uncommitted, Unnoticed, RequestInv
<1>3. ReceiptOk(r) \/ ReceiptFailed(r) \/ Restore(r)
  BY <1>2 DEF Trigger, TriggerEmpty, TriggerDrain, Progress, Proved, ProveFailed,
     ProofMalformed, Sent, SendFailed, ReceiptReverted, Respond, Mine, Evict
<1> USE <1>1, <1>2 DEF Behind, Uncommitted, Unnoticed, Goto, Finish, Tell
<1>4. CASE ReceiptOk(r)
  BY <1>4 DEF ReceiptOk
<1>5. CASE ReceiptFailed(r)
  BY <1>5 DEF ReceiptFailed
<1>6. CASE Restore(r)
  BY <1>6 DEF Restore
<1>7. QED
  BY <1>3, <1>4, <1>5, <1>6

\* Only a commit and a start of the process change the canonical state.
LEMMA CanonicalKept ==
  ASSUME [Next]_vars, \A r \in Request : ~Commit(r), ~Restart
  PROVE  canonical_state' = canonical_state
<1> USE DEF sequencerVars
<1>1. ASSUME NEW tx \in Txs, submit_tx(tx) \/ reject_tx(tx)
      PROVE  canonical_state' = canonical_state
  BY <1>1 DEF submit_tx, admit_tx, reject_tx, vars
<1>2. ASSUME NEW r \in Request, Trigger(r)
      PROVE  canonical_state' = canonical_state
  BY <1>2 DEF Trigger, TriggerEmpty, TriggerDrain, drain_for_batch
<1>3. ASSUME NEW r \in Request, Progress(r)
      PROVE  canonical_state' = canonical_state
  BY <1>3 DEF Progress, Proved, ProveFailed, ProofMalformed, Sent, SendFailed, ReceiptOk,
              ReceiptReverted, ReceiptFailed, Restore, restore_mempool, Respond
<1>4. ASSUME NEW r \in Request, Mine(r) \/ Evict(r) \/ Disconnect(r)
      PROVE  canonical_state' = canonical_state
  BY <1>4 DEF Mine, Evict, Disconnect
<1>5. CASE Crash \/ RestartBails \/ UNCHANGED vars
  BY <1>5 DEF Crash, RestartBails, vars
<1>6. QED
  BY <1>1, <1>2, <1>3, <1>4, <1>5 DEF Next

\* A commit brings the canonical state to L1's.
LEMMA CommitMirrors ==
  ASSUME IInv, NEW r \in Request, Commit(r)
  PROVE  canonical_state' = L1State'
<1>1. Uncommitted(r)
  BY DEF IInv, ControlInv, Uncommitted, Commit
<1>2. apply_txs(canonical_state, job[r].txs) = [ok |-> TRUE, state |-> L1State]
  BY <1>1, UncommittedCommits
<1>3. canonical_state' = L1State
  BY <1>2 DEF Commit, commit_batch
<1>4. stateRoot' = stateRoot
  BY DEF Commit, rollupVars
<1>5. QED
  BY <1>3, <1>4 DEF L1State

\* ... and so does a start, which L1 must be at genesis for.
LEMMA RestartMirrors ==
  ASSUME Restart
  PROVE  canonical_state' = L1State'
BY StateOfRoot, SettlementAssumption DEF Restart, from_genesis, rollupVars, L1State

\* A batch that L1 takes is one that the canonical state is then behind by.
LEMMA SettleLeavesBehind ==
  ASSUME IInv, NEW r \in Request, RequestInv(r), Mine(r), l1tx'[r] = "succeeded"
  PROVE  Behind(r)'
BY DEF Mine, RequestInv, Behind, Uncommitted, Unnoticed

\* Every step preserves what is known of the canonical state.
LEMMA MirrorStep ==
  ASSUME IInv, \A r \in Request : RequestInv(r), MirrorInv, [Next]_vars
  PROVE  MirrorInv'
<1>1. CASE \E r \in Request : Commit(r)
  BY <1>1, CommitMirrors DEF MirrorInv
<1>2. CASE Restart
  BY <1>2, RestartMirrors DEF MirrorInv
<1>3. CASE \E r \in Request : Mine(r) /\ l1tx'[r] = "succeeded"
  BY <1>3, SettleLeavesBehind DEF MirrorInv
<1>4. CASE /\ \A r \in Request : ~Commit(r) /\ ~(Mine(r) /\ l1tx'[r] = "succeeded")
           /\ ~Restart
  <2>1. canonical_state' = canonical_state
    BY <1>4, CanonicalKept
  <2>2. L1State' = L1State
    <3>1. ASSUME NEW r \in Request, Mine(r)
          PROVE  stateRoot' = stateRoot
      BY <1>4, <3>1 DEF Mine, rollupVars, IInv, TypeOK
    <3>2. ASSUME \A r \in Request : ~Mine(r)
          PROVE  stateRoot' = stateRoot
      BY <3>2, OnlyL1Settles DEF vars, rollupVars
    <3>3. stateRoot' = stateRoot
      BY <3>1, <3>2
    <3> QED BY <3>3 DEF L1State
  <2>3. ASSUME NEW q \in Request, Behind(q)
        PROVE  Behind(q)'
    <3>1. ASSUME pc'[q] = pc[q], answer'[q] = answer[q], l1tx'[q] = l1tx[q]
          PROVE  Behind(q)'
      BY <2>3, <3>1 DEF Behind, Uncommitted, Unnoticed
    <3>2. ASSUME NEW r \in Request, Trigger(r) \/ Progress(r) \/ Mine(r) \/ Evict(r)
          PROVE  Behind(q)'
      <4>1. CASE q = r
        BY <1>4, <2>3, <3>2, <4>1, BehindKept
      <4>2. CASE q # r
        BY <3>1, <3>2, <4>2, OwnStep
      <4> QED BY <4>1, <4>2
    <3>3. CASE Crash \/ \E r \in Request : Disconnect(r)
      <4>1. CASE answer'[q] = Tell("lost")
        <5>1. pc[q] # "submitting" /\ l1tx[q] = "succeeded"
          BY <2>3 DEF Behind, Uncommitted, Unnoticed, IInv, ControlInv
        <5>2. l1tx'[q] = "succeeded"
          BY <3>3, <5>1, HangupEffect
        <5> QED BY <4>1, <5>2 DEF Behind, Unnoticed, Tell
      <4>2. CASE answer'[q] # Tell("lost")
        BY <3>1, <3>3, <4>2, HangupEffect
      <4> QED BY <4>1, <4>2
    <3>4. CASE \/ \E tx \in Txs : submit_tx(tx) \/ reject_tx(tx)
               \/ Restart \/ RestartBails \/ UNCHANGED vars
      BY <3>1, <3>4, OtherSteps
    <3> QED BY <3>2, <3>3, <3>4 DEF Next
  <2> QED BY <2>1, <2>2, <2>3 DEF MirrorInv
<1>5. QED
  BY <1>1, <1>2, <1>3, <1>4

----------------------------------------------------------------------------

\* The invariant holds throughout.
THEOREM OutcomeInvariance == Spec => []OutcomeInv
<1>1. Init => OutcomeInv
  <2> SUFFICES ASSUME Init PROVE OutcomeInv
    OBVIOUS
  <2>1. settled = <<>> /\ canonical_state = Genesis /\ L1State = Genesis
    BY StateOfRoot, SettlementAssumption DEF Init, InitialSequencer, constructor, L1State
  <2>2. SettledInv
    BY <2>1 DEF SettledInv, NoNonceSettledTwice
  <2>3. \A r \in Request : RequestInv(r)
    BY DEF Init, RequestInv, Unnoticed, NoAnswer
  <2> QED BY <2>1, <2>2, <2>3 DEF OutcomeInv, MirrorInv
<1>2. IInv /\ OutcomeInv /\ [Next]_vars => OutcomeInv'
  BY SettledStep, RequestsStep, MirrorStep DEF OutcomeInv
<1>3. QED
  BY <1>1, <1>2, Invariance, PTL DEF Spec

\* Whatever fails, L1 settles no nonce of an account twice.
THEOREM NoncesSettleOnce == Spec => []NoNonceSettledTwice
<1>1. OutcomeInv => NoNonceSettledTwice
  BY DEF OutcomeInv, SettledInv
<1>2. QED
  BY <1>1, OutcomeInvariance, PTL

\* Whatever fails, L1 never comes back to a root that it has left: a proof made for a
\* state of the past is refused for good.
THEOREM RootsAreLeftForGood == Spec => []NoRootComesBack
<1>1. Init => RootsInv
  <2>1. Init => settled = <<>>
    BY DEF Init, constructor
  <2> QED BY <2>1 DEF RootsInv, NoRootComesBack
<1>2. IInv /\ RootsInv /\ [Next]_vars => RootsInv'
  BY RootsStep
<1>3. RootsInv => NoRootComesBack
  BY DEF RootsInv
<1>4. QED
  BY <1>1, <1>2, <1>3, Invariance, PTL DEF Spec

\* As long as the sequencer hears of the transactions that L1 takes, and of what
\* becomes of them, a 200 means settled and an error means never.
THEOREM AnswersHold ==
  ASSUME {"receipt", "sendLost"} \cap Faults = {}
  PROVE  Spec => []AnswersAreTrue
<1>1. OutcomeInv => AnswersAreTrue
  BY DEF OutcomeInv, RequestInv, AnswersAreTrue
<1>2. QED
  BY <1>1, OutcomeInvariance, PTL

\* Whatever fails, once nothing is on its way the canonical state is L1's, unless
\* some request gave up a batch that L1 took.
THEOREM MirrorsUnlessAbandoned ==
  Spec => [](Quiescent => canonical_root = stateRoot \/ \E r \in Request : Abandoned(r))
<1>1. IInv /\ OutcomeInv =>
        (Quiescent => canonical_root = stateRoot \/ \E r \in Request : Abandoned(r))
  <2> SUFFICES ASSUME IInv, OutcomeInv, Quiescent, canonical_root # stateRoot
               PROVE  \E r \in Request : Abandoned(r)
    OBVIOUS
  <2>1. canonical_state # L1State
    BY DEF IInv, CanonicalTrailsL1, LedgerInv
  <2>2. PICK r \in Request : Behind(r)
    BY <2>1 DEF OutcomeInv, MirrorInv
  <2>3. pc[r] \notin Live
    BY DEF Quiescent
  <2>4. Abandoned(r)
    BY <2>2, <2>3 DEF Behind, Uncommitted, Unnoticed, Abandoned, Live, Label
  <2> QED BY <2>4
<1>2. QED
  BY <1>1, Invariance, OutcomeInvariance, PTL

\* As long as no request loses sight of its transaction and none is lost, the
\* canonical state is L1's whenever nothing is on its way.
THEOREM CanonicalMirrors ==
  ASSUME {"receipt", "sendLost", "disconnect", "crash"} \cap Faults = {}
  PROVE  Spec => []CanonicalMirrorsL1
<1>1. OutcomeInv => ~ \E r \in Request : Abandoned(r)
  BY DEF OutcomeInv, RequestInv, Abandoned
<1>2. (Quiescent => canonical_root = stateRoot \/ \E r \in Request : Abandoned(r))
        /\ ~(\E r \in Request : Abandoned(r))
        => CanonicalMirrorsL1
  BY DEF CanonicalMirrorsL1
<1>3. QED
  BY <1>1, <1>2, OutcomeInvariance, MirrorsUnlessAbandoned, PTL

----------------------------------------------------------------------------
(* What it means that L1 has taken the batch of a request.                 *)

\* A request's transaction has succeeded by L1 taking it and in no other way; the
\* job stays what it was, and the handler does not come back to the commit.
LEMMA SucceededBefore ==
  ASSUME IInv, [Next]_vars, NEW q \in Request, ~Mine(q), l1tx'[q] = "succeeded"
  PROVE  /\ l1tx[q] = "succeeded" /\ job'[q] = job[q]
         /\ pc'[q] \in {"awaiting", "committing"} => pc[q] \in {"awaiting", "committing"}
<1>1. /\ pc \in [Request -> Label] /\ l1tx \in [Request -> L1Status]
      /\ DOMAIN job = Request
  BY DEF IInv, TypeOK
<1>2. pc[q] \in {"idle", "proving", "submitting"} => l1tx[q] = "none"
  BY DEF IInv, ControlInv
<1> USE <1>1, <1>2 DEF Goto, Finish
<1>3. ASSUME NEW r \in Request, Trigger(r)
      PROVE  /\ l1tx[q] = "succeeded" /\ job'[q] = job[q]
             /\ pc'[q] \in {"awaiting", "committing"} => pc[q] \in {"awaiting", "committing"}
  <2>1. /\ pc[r] = "idle" /\ l1tx' = l1tx
        /\ pc' = [pc EXCEPT ![r] = "done"] \/ pc' = [pc EXCEPT ![r] = "proving"]
        /\ job' = job \/ \E j : job' = [job EXCEPT ![r] = j]
    BY <1>3 DEF Trigger, TriggerEmpty, TriggerDrain
  <2> QED BY <2>1
<1>4. ASSUME NEW r \in Request, Progress(r)
      PROVE  /\ l1tx[q] = "succeeded" /\ job'[q] = job[q]
             /\ pc'[q] \in {"awaiting", "committing"} => pc[q] \in {"awaiting", "committing"}
  <2>1. CASE Sent(r) \/ SendFailed(r)
    BY <2>1 DEF Sent, SendFailed
  <2>2. CASE ReceiptOk(r)
    BY <2>2 DEF ReceiptOk
  <2>3. CASE ~(Sent(r) \/ SendFailed(r) \/ ReceiptOk(r))
    <3>1. /\ l1tx' = l1tx /\ job' = job
          /\ \E label \in {"submitting", "restoring", "responding", "done"} :
               pc' = [pc EXCEPT ![r] = label]
      BY <1>4, <2>3 DEF Progress, Proved, ProveFailed, ProofMalformed, ReceiptReverted,
                        ReceiptFailed, Restore, Commit, Respond
    <3> QED BY <3>1
  <2> QED BY <2>1, <2>2, <2>3
<1>5. ASSUME NEW r \in Request, r # q, Mine(r)
      PROVE  /\ l1tx[q] = "succeeded" /\ job'[q] = job[q]
             /\ pc'[q] \in {"awaiting", "committing"} => pc[q] \in {"awaiting", "committing"}
  BY <1>5 DEF Mine
<1>6. ASSUME NEW r \in Request, Evict(r)
      PROVE  /\ l1tx[q] = "succeeded" /\ job'[q] = job[q]
             /\ pc'[q] \in {"awaiting", "committing"} => pc[q] \in {"awaiting", "committing"}
  BY <1>6 DEF Evict
<1>7. CASE Crash \/ \E r \in Request : Disconnect(r)
  <2>1. job' = job
    BY <1>7 DEF Crash, Disconnect
  <2>2. l1tx'[q] = l1tx[q] /\ (pc'[q] = pc[q] \/ pc'[q] = "done")
    BY <1>7, HangupEffect
  <2> QED BY <2>1, <2>2
<1>8. CASE \/ \E tx \in Txs : submit_tx(tx) \/ reject_tx(tx)
           \/ Restart \/ RestartBails \/ UNCHANGED vars
  <2>1. job' = job
    BY <1>8 DEF submit_tx, reject_tx, Restart, RestartBails, vars
  <2>2. UNCHANGED <<pc, l1tx>>
    BY <1>8, OtherSteps
  <2> QED BY <2>1, <2>2
<1>9. QED
  BY <1>3, <1>4, <1>5, <1>6, <1>7, <1>8 DEF Next

\* Some event of the contract is that of the batch of a request.
OnL1(r) ==
  \E i \in 1..Len(settled) : /\ settled[i].batchHash = job[r].txs
                             /\ settled[i].prevRoot = pv(r).prevRoot
                             /\ settled[i].newRoot = pv(r).newRoot

EventInv == \A r \in Request : l1tx[r] = "succeeded" => OnL1(r)

LEMMA EventStep ==
  ASSUME IInv, EventInv, [Next]_vars
  PROVE  EventInv'
<1> SUFFICES ASSUME NEW q \in Request, l1tx'[q] = "succeeded"
             PROVE  OnL1(q)'
  BY DEF EventInv
<1>1. CASE \E r \in Request : Mine(r) /\ l1tx'[r] = "succeeded"
  <2>1. PICK r \in Request : Mine(r) /\ l1tx'[r] = "succeeded"
    BY <1>1
  <2> DEFINE n == Len(settled)
             event == [batchNumber |-> batchCount', prevRoot |-> pv(r).prevRoot,
                       newRoot |-> pv(r).newRoot, batchHash |-> pv(r).batchHash]
  <2>2. submitBatch(pv(r), ProofMode) /\ job' = job
    BY <2>1, SettleStep DEF Mine
  <2>3. /\ n \in Nat /\ Len(settled') = n + 1 /\ settled'[n + 1] = event
        /\ \A i \in 1..n : settled'[i] = settled[i]
    <3>1. settled' = Append(settled, event)
      BY <2>2 DEF submitBatch
    <3>2. settled \in Seq(BatchSettled)
      BY DEF IInv, TypeOK
    <3> HIDE DEF event
    <3> QED BY <3>1, <3>2
  <2>4. pv(q)' = pv(q)
    BY <2>2 DEF pv
  <2>5. CASE q = r
    <3>1. /\ event.batchHash = job[q].txs /\ event.prevRoot = pv(q).prevRoot
          /\ event.newRoot = pv(q).newRoot
      BY <2>5 DEF pv, apply_batch
    <3>2. n + 1 \in 1..Len(settled')
      BY <2>3
    <3> HIDE DEF event
    <3> QED BY <2>2, <2>3, <2>4, <3>1, <3>2 DEF OnL1
  <2>6. CASE q # r
    <3>1. l1tx[q] = "succeeded"
      BY <2>1, <2>6 DEF Mine, IInv, TypeOK
    <3>2. PICK i \in 1..n : /\ settled[i].batchHash = job[q].txs
                            /\ settled[i].prevRoot = pv(q).prevRoot
                            /\ settled[i].newRoot = pv(q).newRoot
      BY <3>1 DEF EventInv, OnL1
    <3>3. i \in 1..Len(settled') /\ settled'[i] = settled[i]
      BY <2>3
    <3> QED BY <2>2, <2>4, <3>2, <3>3 DEF OnL1
  <2> QED BY <2>5, <2>6
<1>2. CASE ~ \E r \in Request : Mine(r) /\ l1tx'[r] = "succeeded"
  <2>1. settled' = settled
    BY <1>2, NothingSettles
  <2>2. l1tx[q] = "succeeded" /\ job'[q] = job[q]
    BY <1>2, SucceededBefore
  <2>3. OnL1(q) /\ pv(q)' = pv(q)
    BY <2>2 DEF EventInv, pv
  <2> QED BY <2>1, <2>2, <2>3 DEF OnL1
<1>3. QED
  BY <1>1, <1>2

\* Whatever fails, a 200 of POST /batch means that this very batch is among those
\* that L1 has settled, from the root and to the root of its proof.
THEOREM SettledMeansOnL1 ==
  Spec => [](\A r \in Request : answer[r].status = "settled" => OnL1(r))
<1>1. Init => EventInv
  BY DEF Init, EventInv
<1>2. IInv /\ EventInv /\ [Next]_vars => EventInv'
  BY EventStep
<1>3. OutcomeInv /\ EventInv => \A r \in Request : answer[r].status = "settled" => OnL1(r)
  BY DEF OutcomeInv, RequestInv, EventInv
<1>4. QED
  BY <1>1, <1>2, <1>3, Invariance, OutcomeInvariance, PTL DEF Spec

----------------------------------------------------------------------------
(* Once behind, for ever behind.                                           *)

\* L1 is ahead of the sequencer, and no handler is going to commit what it took.
Stranded ==
  /\ canonical_root # stateRoot
  /\ \A r \in Request : ~Uncommitted(r)

\* In terms of the states that the roots commit to.
LEMMA RootsTell ==
  ASSUME IInv
  PROVE  canonical_root = stateRoot <=> canonical_state = L1State
BY RootInjective DEF IInv, TypeOK, CanonicalTrailsL1, LedgerInv

\* All that is on its way was drained at or before the canonical state, so that L1
\* refuses it.
LEMMA StrandedStep ==
  ASSUME IInv, Stranded, [Next]_vars
  PROVE  Stranded' /\ UNCHANGED <<stateRoot, settled, canonical_state>>
<1>1. IInv'
  BY NextIInv
<1>2. /\ canonical_state # L1State
      /\ canonical_state \in State /\ L1State \in State
      /\ AtMost(canonical_state, L1State)
  BY RootsTell DEF Stranded, IInv, TypeOK, LedgerInv
<1>3. ASSUME NEW r \in Request, Mine(r), l1tx'[r] = "succeeded"
      PROVE  FALSE
  <2>1. job[r].prev_state = L1State /\ Drained(r)
    BY <1>3, SettleStep
  <2>2. AtMost(L1State, canonical_state)
    BY <2>1 DEF IInv, JobInv
  <2>3. Before(canonical_state, L1State)
    BY <1>2 DEF AtMost
  <2> QED BY <1>2, <2>2, <2>3, BeforeAsymmetric
<1>4. UNCHANGED <<stateRoot, settled>>
  BY <1>3, NothingSettles
<1>5. \A r \in Request : ~Uncommitted(r)'
  BY <1>3, SucceededBefore DEF Stranded, Uncommitted
<1>6. \A r \in Request : ~Commit(r)
  BY DEF Stranded, Uncommitted, Commit, IInv, ControlInv
<1>7. ~Restart
  <2>1. SUFFICES ASSUME Restart PROVE FALSE
    OBVIOUS
  <2>2. L1State = Genesis
    BY <2>1, StateOfRoot, SettlementAssumption DEF Restart, L1State
  <2>3. settled # <<>>
    BY DEF Stranded, IInv, CanonicalTrailsL1
  <2>4. Before(Genesis, L1State)
    BY <2>3 DEF IInv, LedgerInv
  <2>5. ~Before(Genesis, Genesis)
    BY BeforeAsymmetric, SettlementAssumption DEF AtMost
  <2> QED BY <2>2, <2>4, <2>5
<1>8. canonical_state' = canonical_state
  BY <1>6, <1>7, CanonicalKept
<1>9. canonical_root' = canonical_root
  BY <1>1, <1>8 DEF IInv, CanonicalTrailsL1
<1>10. QED
  BY <1>4, <1>5, <1>8, <1>9 DEF Stranded

\* A sequencer that is behind L1, with nobody left to commit what L1 took, stays
\* behind for ever: no later batch settles, no restart helps.
THEOREM StrandedForGood == Spec => [](Stranded => []Stranded)
<1>1. IInv /\ Stranded /\ [Next]_vars => Stranded'
  BY StrandedStep
<1>2. QED
  BY <1>1, Invariance, PTL DEF Spec
=============================================================================
