----------------------------- MODULE WebClient -----------------------------
(***************************************************************************)
(* web/app.tsx: the page that signs alice's transfers, on top of the       *)
(* sequencer of Settlement.  It derives the nonce of a transfer from the   *)
(* answers of two GET requests, which the sequencer serves at different    *)
(* times, and several refreshes may be under way at once.                  *)
(***************************************************************************)
EXTENDS Settlement

CONSTANTS alice,     \* the account of the page
          Refresh,   \* bound: the refreshes that may overlap
          OneByOne,  \* does the user wait for the answer to one click before the next
          Offline,   \* may a fetch fail
          None       \* what the page does not know, or is not doing

ASSUME WebClientAssumption ==
  /\ alice \in Address
  /\ OneByOne \in BOOLEAN /\ Offline \in BOOLEAN
  /\ None \notin Request

VARIABLES view,      \* React state: `up`, `mempool`, and alice's nonce in `accounts`
          fetched,   \* the answers each refresh has so far
          posting,   \* the transfer on its way to POST /tx (`submitting`)
          batching,  \* the POST /batch under way (`batching`)
          toasts     \* history: the transfers that were reported as submitted

clientVars == <<view, fetched, posting, batching, toasts>>

NotFetching == [stage |-> "idle", mempool |-> None, nonce |-> None]

WebInit ==
  /\ Init
  /\ view = [up |-> FALSE, mempool |-> <<>>, nonce |-> None]
  /\ fetched = [f \in Refresh |-> NotFetching]
  /\ posting = None
  /\ batching = None
  /\ toasts = <<>>

----------------------------------------------------------------------------
(* refresh                                                                 *)

\* Every 1.5 seconds, and after each success, whether the last one is over or not.
Begin(f) ==
  /\ fetched[f].stage = "idle"
  /\ fetched' = [fetched EXCEPT ![f].stage = "fetching"]
  /\ UNCHANGED <<vars, view, posting, batching, toasts>>

GetMempool(f) ==
  /\ fetched[f].stage = "fetching" /\ fetched[f].mempool = None
  /\ fetched' = [fetched EXCEPT ![f].mempool = mempool]
  /\ UNCHANGED <<vars, view, posting, batching, toasts>>

\* GET /state/:addr answers from the canonical state.
GetAccount(f) ==
  /\ fetched[f].stage = "fetching" /\ fetched[f].nonce = None
  /\ fetched' = [fetched EXCEPT ![f].nonce = get(canonical_state, alice).nonce]
  /\ UNCHANGED <<vars, view, posting, batching, toasts>>

\* All answers are there: setUp(true), and with an await before each of them
\* setMempool and setAccounts.
SetUp(f) ==
  /\ fetched[f].stage = "fetching"
  /\ fetched[f].mempool # None /\ fetched[f].nonce # None
  /\ view' = [view EXCEPT !.up = TRUE]
  /\ fetched' = [fetched EXCEPT ![f].stage = "up"]
  /\ UNCHANGED <<vars, posting, batching, toasts>>

SetMempool(f) ==
  /\ fetched[f].stage = "up"
  /\ view' = [view EXCEPT !.mempool = fetched[f].mempool]
  /\ fetched' = [fetched EXCEPT ![f].stage = "setting", ![f].mempool = None]
  /\ UNCHANGED <<vars, posting, batching, toasts>>

\* Mutant: the accounts are set once.
SetAccountsOnce(f) ==
  /\ fetched[f].stage = "setting"
  /\ view' = [view EXCEPT !.nonce = IF @ = None THEN fetched[f].nonce ELSE @]
  /\ fetched' = [fetched EXCEPT ![f] = NotFetching]
  /\ UNCHANGED <<vars, posting, batching, toasts>>

SetAccounts(f) ==
  /\ fetched[f].stage = "setting"
  /\ view' = [view EXCEPT !.nonce = fetched[f].nonce]
  /\ fetched' = [fetched EXCEPT ![f] = NotFetching]
  /\ UNCHANGED <<vars, posting, batching, toasts>>

\* The catch of refresh.
RefreshFails(f) ==
  /\ Offline
  /\ fetched[f].stage # "idle"
  /\ view' = [view EXCEPT !.up = FALSE]
  /\ fetched' = [fetched EXCEPT ![f] = NotFetching]
  /\ UNCHANGED <<vars, posting, batching, toasts>>

refresh(f) ==
  \/ Begin(f) \/ GetMempool(f) \/ GetAccount(f)
  \/ SetUp(f) \/ SetMempool(f) \/ SetAccounts(f) \/ RefreshFails(f)

----------------------------------------------------------------------------
(* submitTransfer                                                          *)

FromAlice(tx) == tx.from = alice

\* The nonce of the account, plus the account's entries in the mempool.
NextNonce == view.nonce + Len(SelectSeq(view.mempool, FromAlice))

Transfer(tx) ==
  /\ view.up
  /\ posting = None
  /\ OneByOne => batching = None
  /\ view.nonce # None
  /\ FromAlice(tx) /\ tx.nonce = NextNonce
  /\ posting' = tx
  /\ UNCHANGED <<vars, view, fetched, batching, toasts>>

PostAccepted ==
  /\ posting # None
  /\ submit_tx(posting)
  /\ toasts' = Append(toasts, posting)
  /\ posting' = None
  /\ UNCHANGED <<view, fetched, batching>>

PostRejected ==
  /\ posting # None
  /\ reject_tx(posting)
  /\ posting' = None
  /\ UNCHANGED <<view, fetched, batching, toasts>>

\* The catch of submitTransfer: the request is lost, or its answer is.
PostFails ==
  /\ Offline
  /\ posting # None
  /\ submit_tx(posting) \/ UNCHANGED vars
  /\ posting' = None
  /\ UNCHANGED <<view, fetched, batching, toasts>>

----------------------------------------------------------------------------
(* triggerBatch                                                            *)

\* The button is enabled while the page knows of something to batch.
ClickBatch(r) ==
  /\ view.up
  /\ batching = None
  /\ OneByOne => posting = None
  /\ view.mempool # <<>>
  /\ pc[r] = "idle"
  /\ batching' = r
  /\ UNCHANGED <<vars, view, fetched, posting, toasts>>

BatchAnswered ==
  /\ batching # None
  /\ pc[batching] = "done"
  /\ batching' = None
  /\ UNCHANGED <<vars, view, fetched, posting, toasts>>

\* The catch of triggerBatch: the connection breaks, and the server notices or not.
BatchFails ==
  /\ Offline
  /\ batching # None
  /\ Disconnect(batching) \/ UNCHANGED vars
  /\ batching' = None
  /\ UNCHANGED <<view, fetched, posting, toasts>>

----------------------------------------------------------------------------

\* The sequencer and L1, for the request of the page.
Serve(r) == (batching = r /\ Trigger(r)) \/ Progress(r) \/ Mine(r)

WebNext ==
  \/ \E f \in Refresh : refresh(f)
  \/ \E tx \in Txs : Transfer(tx)
  \/ PostAccepted \/ PostRejected \/ PostFails
  \/ \E r \in Request : ClickBatch(r) \/ (Serve(r) /\ UNCHANGED clientVars)
  \/ BatchAnswered \/ BatchFails

webVars == <<vars, clientVars>>

WebSpec == WebInit /\ [][WebNext]_webVars

\* The interval keeps firing, and the sequencer and the network answer.
WebFairSpec ==
  /\ WebSpec
  /\ \A f \in Refresh : WF_webVars(refresh(f))
  /\ WF_webVars(PostAccepted \/ PostRejected)
  /\ WF_webVars(BatchAnswered)
  /\ \A r \in Request : WF_webVars(Serve(r) /\ UNCHANGED clientVars)

----------------------------------------------------------------------------
(* Properties.                                                             *)

\* No two transfers are reported as submitted for one nonce: of two such
\* transfers commit_batch silently drops one, and the page has told the user of
\* success. (Holds for a user who lets a batch finish: see OneByOne.)
SubmittedNoncesDiffer ==
  \A i, j \in 1..Len(toasts) : i # j => toasts[i].nonce # toasts[j].nonce

\* The page is connected, and nothing is under way but refreshes.
Quiet ==
  /\ view.up
  /\ posting = None /\ batching = None
  /\ \A r \in Request : pc[r] \notin Live

\* If the user stops clicking and the connection is back, the page comes to know
\* the nonce that POST /tx accepts, and keeps to it: refreshes that overlap and
\* overwrite each other with older answers do not leave it behind.
ViewCatchesUp ==
  <>[]Quiet => <>[](view.nonce # None /\ NextNonce = get(speculative_state, alice).nonce)
=============================================================================
