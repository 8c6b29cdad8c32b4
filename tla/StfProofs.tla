----------------------------- MODULE StfProofs -----------------------------
(***************************************************************************)
(* Lemmas about the state transition function: its types, that the root    *)
(* determines the state, the order that nonces give to states, and sums.   *)
(* Induction over a batch is by the least counterexample (LeastNatural).   *)
(***************************************************************************)
EXTENDS Stf, NaturalsInduction, WellFoundedInduction, SequenceTheorems,
        FiniteSetTheorems, FiniteSetsExt, TLAPS

\* Every non-empty set of naturals has a least element.
LEMMA LeastNatural ==
  ASSUME NEW S \in SUBSET Nat, S # {}
  PROVE  \E m \in S : \A k \in S : m <= k
<1>1. IsWellFoundedOn(OpToRel(<, Nat), Nat)
  BY NatLessThanWellFounded
<1>2. PICK m \in S : \A k \in S : ~ (<<k, m>> \in OpToRel(<, Nat))
  BY <1>1, WFMin, Zenon
<1>3. \A k \in S : ~ (k < m)
  BY <1>2 DEF OpToRel
<1>4. m \in Nat /\ \A k \in S : k \in Nat
  OBVIOUS
<1>5. QED
  BY <1>3, <1>4

\* A set of positions that holds the first one and with each the next is all of them.
LEMMA Upwards ==
  ASSUME NEW n \in Nat, NEW G, 0 \in G, \A i \in 1..n : i - 1 \in G => i \in G
  PROVE  \A i \in 0..n : i \in G
<1> DEFINE Bad == {i \in 0..n : i \notin G}
<1>1. SUFFICES ASSUME Bad # {} PROVE FALSE
  OBVIOUS
<1>2. PICK m \in Bad : \A k \in Bad : m <= k
  <2>1. Bad \in SUBSET Nat
    OBVIOUS
  <2> HIDE DEF Bad
  <2> QED BY <1>1, <2>1, LeastNatural
<1>3. m \in 1..n /\ m - 1 \in 0..n /\ ~(m <= m - 1)
  BY <1>2
<1>4. m - 1 \in G
  BY <1>2, <1>3
<1>5. QED
  BY <1>2, <1>3, <1>4

\* ApplyRun satisfies the recursive equation that defines it.
LEMMA ApplyRunDef ==
  ASSUME NEW s, NEW txs \in Batch
  PROVE  ApplyRun(s, txs) =
           [i \in 0..Len(txs) |->
              IF i = 0 THEN [ok |-> TRUE, state |-> s]
                       ELSE ApplyStep(ApplyRun(s, txs)[i - 1], txs[i])]
<1> DEFINE Eqn(n, g) ==
      g = [i \in 0..n |-> IF i = 0 THEN [ok |-> TRUE, state |-> s]
                                  ELSE ApplyStep(g[i - 1], txs[i])]
           Undefined == {n \in Nat : ~ \E g : Eqn(n, g)}
<1>1. Undefined = {}
  <2>1. SUFFICES ASSUME Undefined # {} PROVE FALSE
    OBVIOUS
  <2>2. PICK m \in Undefined : \A k \in Undefined : m <= k
    <3> HIDE DEF Undefined
    <3>1. Undefined \in SUBSET Nat
      BY DEF Undefined
    <3> QED BY <2>1, <3>1, LeastNatural
  <2>3. Eqn(0, [i \in 0..0 |-> [ok |-> TRUE, state |-> s]])
    OBVIOUS
  <2>4. m # 0
    BY <2>2, <2>3
  <2>5. m - 1 \in Nat /\ m - 1 \notin Undefined
    <3>1. m \in Nat /\ m # 0 /\ m - 1 \in Nat /\ ~(m <= m - 1)
      BY <2>4
    <3> QED BY <2>2, <3>1
  <2>6. PICK g : Eqn(m - 1, g)
    BY <2>5
  <2> DEFINE h == [i \in 0..m |-> IF i < m THEN g[i] ELSE ApplyStep(g[m - 1], txs[m])]
  <2>7. Eqn(m, h)
    <3> SUFFICES ASSUME NEW i \in 0..m
                 PROVE  h[i] = IF i = 0 THEN [ok |-> TRUE, state |-> s]
                                        ELSE ApplyStep(h[i - 1], txs[i])
      OBVIOUS
    <3>1. CASE i = m
      BY <2>4, <2>5, <3>1
    <3>2. CASE i # m
      <4>1. i \in 0..(m - 1) /\ i < m
        BY <2>5, <3>2
      <4>2. h[i] = g[i]
        BY <4>1
      <4>3. i # 0 => h[i - 1] = g[i - 1]
        BY <4>1
      <4>4. g[i] = IF i = 0 THEN [ok |-> TRUE, state |-> s]
                                        ELSE ApplyStep(g[i - 1], txs[i])
        BY <2>6, <4>1
      <4> QED BY <4>2, <4>3, <4>4
    <3> QED BY <3>1, <3>2
  <2> QED BY <2>2, <2>7
<1>2. Len(txs) \in Nat
  BY DEF Batch
<1>3. \E g : Eqn(Len(txs), g)
  BY <1>1, <1>2
<1>4. QED
  BY <1>3 DEF ApplyRun

----------------------------------------------------------------------------
(* Accounts and transactions.                                              *)

\* get returns an account.
LEMMA GetType ==
  ASSUME NEW s \in State, NEW x \in Address
  PROVE  get(s, x) \in Account
BY MaxU64Assumption DEF State, get, DefaultAccount, Account, U64

\* set returns a state.
LEMMA SetType ==
  ASSUME NEW s \in State, NEW x \in Address, NEW account \in Account
  PROVE  set(s, x, account) \in State
<1>1. PICK A \in SUBSET Address : s \in [A -> Account]
  BY DEF State
<1>2. set(s, x, account) \in [A \cup {x} -> Account]
  BY <1>1 DEF set
<1>3. A \cup {x} \in SUBSET Address
  BY <1>1
<1>4. QED
  BY <1>2, <1>3 DEF State

\* get after set.
LEMMA GetSet ==
  ASSUME NEW s, NEW x, NEW account, NEW y
  PROVE  get(set(s, x, account), y) = IF y = x THEN account ELSE get(s, y)
BY DEF get, set

\* apply_tx returns a state.
LEMMA AppliedType ==
  ASSUME NEW s \in State, NEW tx \in Tx, Applies(s, tx)
  PROVE  Applied(s, tx) \in State
<1> DEFINE from_acc == get(s, tx.from)
           to_acc   == get(s, tx.to)
           debited  == [balance |-> from_acc.balance - tx.amount,
                        nonce   |-> WrappingSucc(from_acc.nonce)]
           credited == [to_acc EXCEPT !.balance = @ + tx.amount]
<1>1. from_acc \in Account /\ to_acc \in Account
  BY GetType DEF Tx
<1>2. debited \in Account
  BY <1>1, MaxU64Assumption DEF Applies, Account, Tx, U64, WrappingSucc
<1>3. credited \in Account
  BY <1>1, MaxU64Assumption DEF Applies, Account, Tx, U64
<1>4. set(s, tx.from, debited) \in State
  BY <1>2, SetType DEF Tx
<1>5. set(set(s, tx.from, debited), tx.to, credited) \in State
  <2> HIDE DEF debited, credited
  <2> QED BY <1>3, <1>4, SetType DEF Tx
<1>6. QED
  BY <1>5 DEF Applied

\* A transaction moves the nonce of its sender and no other.
LEMMA AppliedNonce ==
  ASSUME NEW s \in State, NEW tx \in Tx, Applies(s, tx), NEW x \in Address
  PROVE  get(Applied(s, tx), x).nonce =
           IF x = tx.from THEN WrappingSucc(tx.nonce) ELSE get(s, x).nonce
<1> DEFINE from_acc == get(s, tx.from)
           to_acc   == get(s, tx.to)
           debited  == [balance |-> from_acc.balance - tx.amount,
                        nonce   |-> WrappingSucc(from_acc.nonce)]
           credited == [to_acc EXCEPT !.balance = @ + tx.amount]
<1>1. from_acc \in Account /\ to_acc \in Account
  BY GetType DEF Tx
<1>2. debited.nonce = WrappingSucc(tx.nonce) /\ credited.nonce = to_acc.nonce
  BY <1>1 DEF Applies, Account
<1>3. tx.from # tx.to
  BY DEF Applies
<1>4. get(Applied(s, tx), x) =
        IF x = tx.to THEN credited ELSE IF x = tx.from THEN debited ELSE get(s, x)
  <2> HIDE DEF debited, credited
  <2>1. Applied(s, tx) = set(set(s, tx.from, debited), tx.to, credited)
    BY DEF Applied, debited, credited
  <2> QED BY <2>1, GetSet
<1>5. QED
  <2> HIDE DEF debited, credited
  <2> QED BY <1>2, <1>3, <1>4

----------------------------------------------------------------------------
(* merkle_root is injective.                                               *)

\* A root commits to the state it is the root of.
LEMMA StateOfRoot ==
  ASSUME NEW s \in State
  PROVE  StateOf(merkle_root(s)) = s
<1>1. PICK A \in SUBSET Address : s \in [A -> Account]
  BY DEF State
<1>2. {e[1] : e \in merkle_root(s)} = A
  <2>1. ASSUME NEW x \in A
        PROVE  x \in {e[1] : e \in merkle_root(s)}
    <3>1. <<x, s[x].balance, s[x].nonce>> \in merkle_root(s)
      BY <1>1 DEF merkle_root
    <3>2. <<x, s[x].balance, s[x].nonce>>[1] = x
      OBVIOUS
    <3> QED BY <3>1, <3>2
  <2>2. ASSUME NEW e \in merkle_root(s)
        PROVE  e[1] \in A
    BY <1>1 DEF merkle_root
  <2> QED BY <2>1, <2>2
<1> DEFINE entry(x) == CHOOSE e \in merkle_root(s) : e[1] = x
<1>3. ASSUME NEW x \in A
      PROVE  entry(x) = <<x, s[x].balance, s[x].nonce>>
  BY <1>1 DEF merkle_root
<1>4. ASSUME NEW x \in A
      PROVE  s[x] = [balance |-> s[x].balance, nonce |-> s[x].nonce]
  BY <1>1 DEF Account
<1>5. StateOf(merkle_root(s)) =
        [x \in A |-> [balance |-> entry(x)[2], nonce |-> entry(x)[3]]]
  BY <1>2 DEF StateOf
<1>6. ASSUME NEW x \in A
      PROVE  [balance |-> entry(x)[2], nonce |-> entry(x)[3]] = s[x]
  <2> HIDE DEF entry
  <2> QED BY <1>3, <1>4
<1>7. QED
  <2> HIDE DEF entry
  <2> QED BY <1>1, <1>5, <1>6

\* Two states with one root are the same.
LEMMA RootInjective ==
  ASSUME NEW s \in State, NEW t \in State, merkle_root(s) = merkle_root(t)
  PROVE  s = t
BY StateOfRoot

\* The digest of a state is a root, and never bytes32(0).
LEMMA RootType ==
  ASSUME NEW s \in State
  PROVE  merkle_root(s) \in Root /\ merkle_root(s) # ZeroRoot
<1>1. PICK A \in SUBSET Address : s \in [A -> Account]
  BY DEF State
<1>2. merkle_root(s) \in SUBSET (Address \X U64 \X U64)
  BY <1>1 DEF merkle_root, Account
<1>3. <<>> \notin merkle_root(s)
  BY DEF merkle_root
<1>4. QED
  BY <1>2, <1>3 DEF Root, ZeroRoot

----------------------------------------------------------------------------
(* Runs of apply_tx over a batch.                                          *)

ApplyResult == [ok : BOOLEAN, state : State]

\* The run at the start, and one transaction later.
LEMMA ApplyRunAt ==
  ASSUME NEW s, NEW txs \in Batch
  PROVE  /\ ApplyRun(s, txs)[0] = [ok |-> TRUE, state |-> s]
         /\ \A i \in 1..Len(txs) :
              ApplyRun(s, txs)[i] = ApplyStep(ApplyRun(s, txs)[i - 1], txs[i])
<1> DEFINE R == ApplyRun(s, txs)
<1>1. Len(txs) \in Nat
  BY DEF Batch
<1>2. R = [i \in 0..Len(txs) |-> IF i = 0 THEN [ok |-> TRUE, state |-> s]
                                         ELSE ApplyStep(R[i - 1], txs[i])]
  BY ApplyRunDef
<1> HIDE DEF R
<1>3. R[0] = [ok |-> TRUE, state |-> s]
  BY <1>1, <1>2
<1>4. ASSUME NEW i \in 1..Len(txs)
      PROVE  R[i] = ApplyStep(R[i - 1], txs[i])
  <2>1. i \in 0..Len(txs) /\ i # 0
    BY <1>1
  <2> DEFINE body(j) == IF j = 0 THEN [ok |-> TRUE, state |-> s]
                                 ELSE ApplyStep(R[j - 1], txs[j])
  <2>2. R = [j \in 0..Len(txs) |-> body(j)]
    BY <1>2
  <2>3. R[i] = body(i)
    <3> HIDE DEF body
    <3> QED BY <2>1, <2>2
  <2> QED BY <2>1, <2>3
<1>5. QED
  BY <1>3, <1>4 DEF R

\* One step of the loop of apply_batch is well typed.
LEMMA ApplyStepType ==
  ASSUME NEW r \in ApplyResult, NEW tx \in Tx
  PROVE  ApplyStep(r, tx) \in ApplyResult
<1>1. r.ok \in BOOLEAN /\ r.state \in State
  BY DEF ApplyResult
<1>2. CASE r.ok /\ Applies(r.state, tx)
  <2>1. Applied(r.state, tx) \in State
    BY <1>1, <1>2, AppliedType
  <2> QED BY <1>2, <2>1 DEF ApplyStep, ApplyResult
<1>3. CASE ~(r.ok /\ Applies(r.state, tx))
  BY <1>1, <1>3 DEF ApplyStep, ApplyResult
<1>4. QED
  BY <1>2, <1>3

\* The loop of apply_batch is well typed throughout.
LEMMA ApplyRunType ==
  ASSUME NEW s \in State, NEW txs \in Batch
  PROVE  \A i \in 0..Len(txs) : ApplyRun(s, txs)[i] \in ApplyResult
<1> DEFINE R == ApplyRun(s, txs)
           Bad == {i \in 0..Len(txs) : R[i] \notin ApplyResult}
<1>1. Len(txs) \in Nat /\ \A i \in 1..Len(txs) : txs[i] \in Tx
  BY DEF Batch
<1>2. R[0] = [ok |-> TRUE, state |-> s] /\
      \A i \in 1..Len(txs) : R[i] = ApplyStep(R[i - 1], txs[i])
  BY ApplyRunAt
<1> HIDE DEF R
<1>3. SUFFICES ASSUME Bad # {} PROVE FALSE
  BY DEF R
<1>4. PICK m \in Bad : \A k \in Bad : m <= k
  <2>1. Bad \in SUBSET Nat
    BY <1>1
  <2> HIDE DEF Bad
  <2> QED BY <1>3, <2>1, LeastNatural
<1>5. R[0] \in ApplyResult
  BY <1>2 DEF ApplyResult
<1>6. m \in 1..Len(txs) /\ m - 1 \in 0..Len(txs) /\ ~(m <= m - 1)
  BY <1>1, <1>4, <1>5
<1>7. R[m - 1] \in ApplyResult
  BY <1>4, <1>6
<1>8. R[m] \in ApplyResult
  BY <1>1, <1>2, <1>6, <1>7, ApplyStepType
<1>9. QED
  BY <1>4, <1>8

\* ... and so is its outcome.
LEMMA ApplyTxsType ==
  ASSUME NEW s \in State, NEW txs \in Batch
  PROVE  apply_txs(s, txs) \in ApplyResult
<1>1. Len(txs) \in 0..Len(txs)
  BY DEF Batch
<1>2. QED
  BY <1>1, ApplyRunType DEF apply_txs

----------------------------------------------------------------------------
(* Nonces order the states of a ledger.                                    *)

NoLess(s, t) == \A x \in Address : get(s, x).nonce <= get(t, x).nonce

Before(s, t) ==
  NoLess(s, t) /\ \E x \in Address : get(s, x).nonce < get(t, x).nonce

AtMost(s, t) == s = t \/ Before(s, t)

\* Nonces are naturals.
LEMMA NonceType ==
  ASSUME NEW s \in State, NEW x \in Address
  PROVE  get(s, x).nonce \in Nat
BY GetType, MaxU64Assumption DEF Account, U64

\* The nonce order on states is transitive.
LEMMA BeforeTransitive ==
  ASSUME NEW s \in State, NEW t \in State, NEW u \in State,
         AtMost(s, t), AtMost(t, u)
  PROVE  AtMost(s, u) /\ (s # t => Before(s, u)) /\ (t # u => Before(s, u))
<1>1. ASSUME Before(s, t), Before(t, u) PROVE Before(s, u)
  <2>1. \A x \in Address : /\ get(s, x).nonce \in Nat
                          /\ get(t, x).nonce \in Nat
                          /\ get(u, x).nonce \in Nat
    BY NonceType
  <2> QED BY <1>1, <2>1 DEF Before, NoLess
<1>2. QED
  BY <1>1 DEF AtMost

\* ... and has no cycles.
LEMMA BeforeAsymmetric ==
  ASSUME NEW s \in State, NEW t \in State, AtMost(s, t)
  PROVE  ~Before(t, s)
<1>1. \A x \in Address : get(s, x).nonce \in Nat /\ get(t, x).nonce \in Nat
  BY NonceType
<1>2. QED
  BY <1>1 DEF AtMost, Before, NoLess

\* A transaction that applies moves the ledger strictly forward.
LEMMA AppliedBefore ==
  ASSUME NEW s \in State, NEW tx \in Tx, tx.nonce < MaxU64, Applies(s, tx)
  PROVE  Before(s, Applied(s, tx))
<1>1. tx.from \in Address /\ tx.nonce \in Nat /\ get(s, tx.from).nonce = tx.nonce
  BY MaxU64Assumption DEF Tx, U64, Applies
<1>2. WrappingSucc(tx.nonce) = tx.nonce + 1
  BY <1>1, MaxU64Assumption DEF WrappingSucc
<1>3. \A x \in Address : /\ get(s, x).nonce \in Nat
                        /\ get(Applied(s, tx), x).nonce =
                             IF x = tx.from THEN tx.nonce + 1 ELSE get(s, x).nonce
  BY <1>2, NonceType, AppliedNonce
<1>4. QED
  BY <1>1, <1>3 DEF Before, NoLess

\* A batch that applies moves the ledger strictly forward.
LEMMA BatchBefore ==
  ASSUME NEW s \in State, NEW txs \in Batch,
         \A i \in 1..Len(txs) : txs[i].nonce < MaxU64,
         txs # <<>>, apply_txs(s, txs).ok
  PROVE  Before(s, apply_txs(s, txs).state)
<1> DEFINE R == ApplyRun(s, txs)
           Good(i) == R[i].ok => AtMost(s, R[i].state) /\ (i > 0 => Before(s, R[i].state))
           Bad == {i \in 0..Len(txs) : ~Good(i)}
<1>1. Len(txs) \in Nat /\ Len(txs) > 0 /\ \A i \in 1..Len(txs) : txs[i] \in Tx
  BY DEF Batch
<1>2. R[0] = [ok |-> TRUE, state |-> s] /\
      \A i \in 1..Len(txs) : R[i] = ApplyStep(R[i - 1], txs[i])
  BY ApplyRunAt
<1>3. \A i \in 0..Len(txs) : R[i] \in ApplyResult
  BY ApplyRunType
<1> HIDE DEF R
<1>4. Bad = {}
  <2>1. SUFFICES ASSUME Bad # {} PROVE FALSE
    OBVIOUS
  <2>2. PICK m \in Bad : \A k \in Bad : m <= k
    <3>1. Bad \in SUBSET Nat
      BY <1>1
    <3> HIDE DEF Bad
    <3> QED BY <2>1, <3>1, LeastNatural
  <2>3. Good(0)
    BY <1>2 DEF AtMost
  <2>4. m \in 1..Len(txs) /\ m - 1 \in 0..Len(txs) /\ ~(m <= m - 1)
    <3>1. m # 0
      BY <2>2, <2>3
    <3> QED BY <1>1, <2>2, <3>1
  <2>5. Good(m - 1)
    BY <2>2, <2>4
  <2> DEFINE before == R[m - 1]
  <2>6. R[m] = ApplyStep(before, txs[m]) /\ R[m].ok /\ before \in ApplyResult
    BY <1>2, <1>3, <2>2, <2>4
  <2>7. before.ok /\ Applies(before.state, txs[m]) /\ R[m].state = Applied(before.state, txs[m])
    BY <2>6 DEF ApplyStep
  <2>8. AtMost(s, before.state)
    BY <2>5, <2>7
  <2>9. before.state \in State /\ R[m].state \in State /\ txs[m] \in Tx
    BY <1>1, <1>3, <2>4, <2>6 DEF ApplyResult
  <2> HIDE DEF before
  <2>10. Before(before.state, R[m].state)
    BY <2>4, <2>7, <2>9, AppliedBefore
  <2>11. Before(s, R[m].state)
    <3>1. AtMost(before.state, R[m].state) /\ before.state # R[m].state
      BY <2>9, <2>10, BeforeAsymmetric DEF AtMost
    <3> QED BY <2>8, <2>9, <3>1, BeforeTransitive
  <2>12. Good(m)
    BY <2>11 DEF AtMost
  <2> QED BY <2>2, <2>12
<1>5. Good(Len(txs))
  BY <1>1, <1>4
<1>6. QED
  BY <1>1, <1>5 DEF apply_txs, R

\* The order that compares nonces only is reflexive and transitive.
LEMMA NoLessTransitive ==
  ASSUME NEW s \in State, NEW t \in State, NEW u \in State
  PROVE  /\ NoLess(s, s)
         /\ NoLess(s, t) /\ NoLess(t, u) => NoLess(s, u)
<1>1. \A x \in Address : /\ get(s, x).nonce \in Nat
                        /\ get(t, x).nonce \in Nat
                        /\ get(u, x).nonce \in Nat
  BY NonceType
<1>2. QED
  BY <1>1 DEF NoLess

\* Of a batch that applies, every transaction does, on the outcome of those before it.
LEMMA RunApplies ==
  ASSUME NEW s \in State, NEW txs \in Batch, apply_txs(s, txs).ok
  PROVE  \A i \in 1..Len(txs) :
           /\ ApplyRun(s, txs)[i - 1].state \in State
           /\ ApplyRun(s, txs)[i].state \in State
           /\ Applies(ApplyRun(s, txs)[i - 1].state, txs[i])
           /\ ApplyRun(s, txs)[i].state = Applied(ApplyRun(s, txs)[i - 1].state, txs[i])
<1> DEFINE R == ApplyRun(s, txs)
           Bad == {k \in 0..Len(txs) : ~R[Len(txs) - k].ok}
<1>1. Len(txs) \in Nat
  BY DEF Batch
<1>2. R[0] = [ok |-> TRUE, state |-> s] /\
      \A i \in 1..Len(txs) : R[i] = ApplyStep(R[i - 1], txs[i])
  BY ApplyRunAt
<1>3. \A i \in 0..Len(txs) : R[i] \in ApplyResult
  BY ApplyRunType
<1>4. R[Len(txs)].ok
  BY DEF apply_txs
<1> HIDE DEF R
<1>5. ASSUME NEW i \in 1..Len(txs), R[i].ok
      PROVE  /\ R[i - 1].ok
             /\ R[i - 1].state \in State /\ R[i].state \in State
             /\ Applies(R[i - 1].state, txs[i])
             /\ R[i].state = Applied(R[i - 1].state, txs[i])
  <2> DEFINE before == R[i - 1]
             after  == R[i]
  <2>1. before \in ApplyResult /\ after \in ApplyResult
    BY <1>1, <1>3
  <2>2. after = ApplyStep(before, txs[i]) /\ after.ok
    BY <1>2, <1>5
  <2> HIDE DEF before, after
  <2>3. before.state \in State /\ after.state \in State
    BY <2>1 DEF ApplyResult
  <2>4. before.ok /\ Applies(before.state, txs[i]) /\ after.state = Applied(before.state, txs[i])
    BY <2>2 DEF ApplyStep
  <2> QED BY <2>3, <2>4 DEF before, after
<1>6. Bad = {}
  <2>1. SUFFICES ASSUME Bad # {} PROVE FALSE
    OBVIOUS
  <2>2. PICK k \in Bad : \A j \in Bad : k <= j
    <3>1. Bad \in SUBSET Nat
      BY <1>1
    <3> HIDE DEF Bad
    <3> QED BY <2>1, <3>1, LeastNatural
  <2>3. k \in 1..Len(txs)
    <3>1. k # 0
      BY <1>1, <1>4, <2>2
    <3> QED BY <1>1, <2>2, <3>1
  <2>4. k - 1 \in 0..Len(txs) /\ k - 1 \notin Bad
    BY <1>1, <2>2, <2>3
  <2> DEFINE i == Len(txs) - (k - 1)
  <2>5. R[i].ok
    BY <2>4
  <2>6. i \in 1..Len(txs) /\ i - 1 = Len(txs) - k
    BY <1>1, <2>3
  <2>7. R[i - 1].ok
    <3> HIDE DEF i
    <3> QED BY <1>5, <2>5, <2>6
  <2>8. R[Len(txs) - k].ok
    BY <2>6, <2>7
  <2> QED BY <2>2, <2>8
<1>7. \A i \in 1..Len(txs) : R[i].ok
  <2> SUFFICES ASSUME NEW i \in 1..Len(txs) PROVE R[i].ok
    OBVIOUS
  <2>1. Len(txs) - i \in 0..Len(txs) /\ Len(txs) - (Len(txs) - i) = i
    BY <1>1
  <2> QED BY <1>6, <2>1
<1>8. QED
  BY <1>5, <1>7 DEF R

\* In the run of a batch that applies no nonce ever falls.
LEMMA RunForward ==
  ASSUME NEW s \in State, NEW txs \in Batch,
         \A i \in 1..Len(txs) : txs[i].nonce < MaxU64,
         apply_txs(s, txs).ok
  PROVE  \A i, j \in 0..Len(txs) :
           i <= j => NoLess(ApplyRun(s, txs)[i].state, ApplyRun(s, txs)[j].state)
<1> DEFINE S == [i \in 0..Len(txs) |-> ApplyRun(s, txs)[i].state]
<1>1. Len(txs) \in Nat /\ \A i \in 1..Len(txs) : txs[i] \in Tx
  BY DEF Batch
<1>2. \A i \in 0..Len(txs) : S[i] \in State
  BY ApplyRunType DEF ApplyResult
<1>3. ASSUME NEW i \in 1..Len(txs)
      PROVE  NoLess(S[i - 1], S[i])
  <2>1. /\ S[i - 1] \in State /\ S[i] = Applied(S[i - 1], txs[i])
        /\ Applies(S[i - 1], txs[i])
    BY <1>1, RunApplies
  <2>2. txs[i] \in Tx /\ txs[i].nonce < MaxU64
    BY <1>1
  <2> HIDE DEF S
  <2> QED BY <2>1, <2>2, AppliedBefore DEF Before
<1> HIDE DEF S
<1>4. ASSUME NEW i \in 0..Len(txs), NEW j \in 0..Len(txs), i <= j
      PROVE  NoLess(S[i], S[j])
  <2> DEFINE Bad == {k \in i..Len(txs) : ~NoLess(S[i], S[k])}
  <2>1. SUFFICES ASSUME Bad # {} PROVE FALSE
    BY <1>1, <1>4
  <2>2. PICK m \in Bad : \A k \in Bad : m <= k
    <3>1. Bad \in SUBSET Nat
      BY <1>1
    <3> HIDE DEF Bad
    <3> QED BY <2>1, <3>1, LeastNatural
  <2>3. m # i
    BY <1>2, <2>2, NoLessTransitive
  <2>4. m - 1 \in i..Len(txs) /\ m \in 1..Len(txs) /\ m - 1 \in 0..Len(txs) /\ m - 1 \notin Bad
    BY <1>1, <2>2, <2>3
  <2>5. NoLess(S[i], S[m - 1]) /\ NoLess(S[m - 1], S[m])
    BY <1>3, <2>4
  <2>6. S[i] \in State /\ S[m - 1] \in State /\ S[m] \in State
    BY <1>2, <2>4
  <2>7. NoLess(S[i], S[m])
    BY <2>5, <2>6, NoLessTransitive
  <2> QED BY <2>2, <2>7
<1>5. QED
  BY <1>4 DEF S

\* Of a batch that applies, every transaction has a nonce that was not used
\* before the batch, is used up after it, and occurs once.
LEMMA BatchNonces ==
  ASSUME NEW s \in State, NEW txs \in Batch,
         \A i \in 1..Len(txs) : txs[i].nonce < MaxU64,
         apply_txs(s, txs).ok
  PROVE  /\ NoLess(s, apply_txs(s, txs).state)
         /\ \A k \in 1..Len(txs) :
              /\ txs[k].from \in Address /\ txs[k].nonce \in Nat
              /\ get(s, txs[k].from).nonce <= txs[k].nonce
              /\ txs[k].nonce < get(apply_txs(s, txs).state, txs[k].from).nonce
              /\ \A l \in 1..Len(txs) :
                   txs[k].from = txs[l].from /\ txs[k].nonce = txs[l].nonce => k = l
<1> DEFINE S == [i \in 0..Len(txs) |-> ApplyRun(s, txs)[i].state]
<1>1. Len(txs) \in Nat /\ \A i \in 1..Len(txs) : txs[i] \in Tx
  BY DEF Batch
<1>2. S[0] = s /\ S[Len(txs)] = apply_txs(s, txs).state
  <2>1. ApplyRun(s, txs)[0] = [ok |-> TRUE, state |-> s]
    BY ApplyRunAt
  <2> QED BY <1>1, <2>1 DEF apply_txs
<1>3. \A i \in 0..Len(txs) : S[i] \in State
  BY ApplyRunType DEF ApplyResult
<1>4. \A i, j \in 0..Len(txs) : i <= j => NoLess(S[i], S[j])
  BY RunForward
<1>5. ASSUME NEW k \in 1..Len(txs)
      PROVE  /\ k \in 0..Len(txs) /\ k - 1 \in 0..Len(txs)
             /\ Applies(S[k - 1], txs[k])
             /\ S[k] = Applied(S[k - 1], txs[k])
  <2>1. k \in 0..Len(txs) /\ k - 1 \in 0..Len(txs)
    BY <1>1
  <2> QED BY <2>1, RunApplies
<1> HIDE DEF S
<1>6. ASSUME NEW k \in 1..Len(txs)
      PROVE  /\ txs[k].from \in Address /\ txs[k].nonce \in Nat
             /\ get(S[k - 1], txs[k].from).nonce = txs[k].nonce
             /\ get(S[k], txs[k].from).nonce = txs[k].nonce + 1
  <2>1. txs[k] \in Tx /\ txs[k].nonce < MaxU64 /\ S[k - 1] \in State
    BY <1>1, <1>3, <1>5
  <2>2. txs[k].from \in Address /\ txs[k].nonce \in Nat
    BY <2>1, MaxU64Assumption DEF Tx, U64
  <2>3. get(S[k], txs[k].from).nonce = WrappingSucc(txs[k].nonce)
    BY <1>5, <2>1, <2>2, AppliedNonce
  <2>4. WrappingSucc(txs[k].nonce) = txs[k].nonce + 1
    BY <2>1, <2>2, MaxU64Assumption DEF WrappingSucc
  <2> QED BY <1>5, <2>2, <2>3, <2>4 DEF Applies
<1>7. ASSUME NEW k \in 1..Len(txs), NEW l \in 1..Len(txs), k < l
      PROVE  ~(txs[k].from = txs[l].from /\ txs[k].nonce = txs[l].nonce)
  <2>1. NoLess(S[k], S[l - 1])
    BY <1>1, <1>4, <1>5, <1>7
  <2>2. get(S[l - 1], txs[k].from).nonce \in Nat
    BY <1>3, <1>5, <1>6, NonceType
  <2>3. txs[k].nonce < get(S[l - 1], txs[k].from).nonce
    BY <1>6, <2>1, <2>2 DEF NoLess
  <2>4. get(S[l - 1], txs[l].from).nonce = txs[l].nonce
    BY <1>6
  <2>5. txs[k].nonce \in Nat
    BY <1>6
  <2> QED BY <2>2, <2>3, <2>4, <2>5
<1>8. ASSUME NEW k \in 1..Len(txs), NEW l \in 1..Len(txs),
             txs[k].from = txs[l].from, txs[k].nonce = txs[l].nonce
      PROVE  k = l
  <2>1. ~(k < l)
    BY <1>7, <1>8
  <2>2. ~(l < k)
    BY <1>7, <1>8
  <2> QED BY <1>1, <2>1, <2>2
<1>9. NoLess(S[0], S[Len(txs)])
  BY <1>1, <1>4
<1>10. ASSUME NEW k \in 1..Len(txs)
       PROVE  /\ txs[k].from \in Address /\ txs[k].nonce \in Nat
              /\ get(S[0], txs[k].from).nonce <= txs[k].nonce
              /\ txs[k].nonce < get(S[Len(txs)], txs[k].from).nonce
  <2>1. NoLess(S[0], S[k - 1]) /\ NoLess(S[k], S[Len(txs)])
    BY <1>1, <1>4, <1>5
  <2>2. get(S[Len(txs)], txs[k].from).nonce \in Nat
    BY <1>1, <1>3, <1>6, NonceType
  <2> QED BY <1>6, <2>1, <2>2 DEF NoLess
<1>11. QED
  BY <1>2, <1>8, <1>9, <1>10

----------------------------------------------------------------------------
(* Sums over finite sets.  MapThenSumSet adds the elements one by one in   *)
(* an order of its own; these lemmas say that the order does not matter.   *)

\* The sum of the values that f has on S.
SumOf(f, S) == MapThenSumSet(LAMBDA x : f[x], S)

Pick(S) == CHOOSE x \in S : TRUE

\* g adds up the values of f over each of the sets.
Adds(g, f, sets) ==
  g = [T \in sets |-> IF T = {} THEN 0 ELSE f[Pick(T)] + g[T \ {Pick(T)}]]

\* Of the subsets of a finite set that are not as they should be one is smallest.
LEMMA SmallestSet ==
  ASSUME NEW S, IsFiniteSet(S), NEW Bad \in SUBSET (SUBSET S), Bad # {}
  PROVE  \E T \in Bad : /\ IsFiniteSet(T)
                        /\ \A U \in SUBSET T : U # T => U \notin Bad
<1> DEFINE Sizes == {Cardinality(T) : T \in Bad}
<1>1. \A T \in SUBSET S : IsFiniteSet(T) /\ Cardinality(T) \in Nat
  BY FS_Subset, FS_CardinalityType
<1>2. Sizes \in SUBSET Nat /\ Sizes # {}
  BY <1>1
<1>3. PICK m \in Sizes : \A k \in Sizes : m <= k
  <2> HIDE DEF Sizes
  <2> QED BY <1>2, LeastNatural
<1>4. PICK T \in Bad : \A U \in Bad : Cardinality(T) <= Cardinality(U)
  BY <1>3
<1>5. ASSUME NEW U \in SUBSET T, U # T, U \in Bad
      PROVE  FALSE
  <2>1. Cardinality(U) <= Cardinality(T) /\ Cardinality(U) # Cardinality(T)
    BY <1>1, <1>5, FS_Subset
  <2>2. Cardinality(T) <= Cardinality(U)
    BY <1>4, <1>5
  <2> QED BY <1>1, <2>1, <2>2
<1>6. QED
  BY <1>1, <1>5

\* There is a function that adds up f over every subset of a finite set.
LEMMA AddsExists ==
  ASSUME NEW f, NEW S, IsFiniteSet(S)
  PROVE  \E g : Adds(g, f, SUBSET S)
<1> DEFINE Sized(n) == {T \in SUBSET S : Cardinality(T) <= n}
           Undefined == {n \in Nat : ~ \E g : Adds(g, f, Sized(n))}
<1>1. \A T \in SUBSET S : /\ IsFiniteSet(T) /\ Cardinality(T) \in Nat
                          /\ Cardinality(T) <= Cardinality(S)
                          /\ T = {} <=> Cardinality(T) = 0
  BY FS_Subset, FS_CardinalityType, FS_EmptySet
<1>2. ASSUME NEW T \in SUBSET S, T # {}
      PROVE  /\ Pick(T) \in T
             /\ T \ {Pick(T)} \in SUBSET S
             /\ Cardinality(T \ {Pick(T)}) = Cardinality(T) - 1
  <2>1. Pick(T) \in T
    BY <1>2 DEF Pick
  <2> QED BY <1>1, <2>1, FS_RemoveElement
<1>3. Undefined = {}
  <2>1. SUFFICES ASSUME Undefined # {} PROVE FALSE
    OBVIOUS
  <2>2. PICK m \in Undefined : \A k \in Undefined : m <= k
    <3>1. Undefined \in SUBSET Nat
      OBVIOUS
    <3> HIDE DEF Undefined
    <3> QED BY <2>1, <3>1, LeastNatural
  <2>3. m # 0
    <3>1. \A T \in Sized(0) : T = {}
      BY <1>1
    <3>2. Adds([T \in Sized(0) |-> 0], f, Sized(0))
      <4> HIDE DEF Sized
      <4> QED BY <3>1 DEF Adds
    <3> HIDE DEF Sized
    <3> QED BY <2>2, <3>2
  <2>4. m - 1 \in Nat /\ m - 1 \notin Undefined
    <3>1. m \in Nat /\ m - 1 \in Nat /\ ~(m <= m - 1)
      BY <2>2, <2>3
    <3> HIDE DEF Undefined
    <3> QED BY <2>2, <3>1
  <2>5. PICK g : Adds(g, f, Sized(m - 1))
    BY <2>4
  <2> DEFINE h == [T \in Sized(m) |-> IF T \in Sized(m - 1) THEN g[T]
                                      ELSE f[Pick(T)] + g[T \ {Pick(T)}]]
  <2>6. ASSUME NEW T \in Sized(m)
        PROVE  h[T] = IF T = {} THEN 0 ELSE f[Pick(T)] + h[T \ {Pick(T)}]
    <3>1. T \in SUBSET S /\ Cardinality(T) <= m
      OBVIOUS
    <3>2. {} \in Sized(m - 1)
      BY <1>1, <2>4
    <3>3. ASSUME NEW U \in Sized(m - 1)
          PROVE  U \in Sized(m) /\ g[U] = IF U = {} THEN 0 ELSE f[Pick(U)] + g[U \ {Pick(U)}]
      <4>1. U \in Sized(m)
        BY <1>1, <2>4
      <4> HIDE DEF Sized
      <4> QED BY <2>5, <4>1 DEF Adds
    <3>4. ASSUME T # {} PROVE T \ {Pick(T)} \in Sized(m - 1)
      BY <1>1, <1>2, <2>4, <3>1, <3>4
    <3> HIDE DEF Sized
    <3>5. CASE T \in Sized(m - 1)
      <4>1. T # {} => h[T \ {Pick(T)}] = g[T \ {Pick(T)}]
        BY <3>3, <3>4
      <4> QED BY <3>3, <3>5, <4>1
    <3>6. CASE T \notin Sized(m - 1)
      <4>1. T # {}
        BY <3>2, <3>6
      <4>2. h[T \ {Pick(T)}] = g[T \ {Pick(T)}]
        BY <3>3, <3>4, <4>1
      <4> QED BY <3>6, <4>1, <4>2
    <3> QED BY <3>5, <3>6
  <2>7. Adds(h, f, Sized(m))
    <3>1. h = [T \in Sized(m) |-> h[T]]
      OBVIOUS
    <3> HIDE DEF Sized, h
    <3> QED BY <2>6, <3>1 DEF Adds
  <2> HIDE DEF Sized, h
  <2> QED BY <2>2, <2>7
<1>4. Cardinality(S) \in Nat /\ Sized(Cardinality(S)) = SUBSET S
  BY <1>1, FS_CardinalityType
<1> HIDE DEF Sized
<1>5. QED
  BY <1>3, <1>4

\* ... and only one.
LEMMA AddsUnique ==
  ASSUME NEW f, NEW R, NEW S \in SUBSET R, IsFiniteSet(S),
         NEW g, Adds(g, f, SUBSET S), NEW h, Adds(h, f, SUBSET R)
  PROVE  g[S] = h[S]
<1> DEFINE Bad == {T \in SUBSET S : g[T] # h[T]}
<1>1. SUFFICES ASSUME Bad # {} PROVE FALSE
  OBVIOUS
<1>2. PICK T \in Bad : IsFiniteSet(T) /\ \A V \in SUBSET T : V # T => V \notin Bad
  <2>1. Bad \in SUBSET (SUBSET S)
    OBVIOUS
  <2> HIDE DEF Bad
  <2> QED BY <1>1, <2>1, SmallestSet
<1>3. T \in SUBSET S /\ T \in SUBSET R
  BY <1>2
<1>4. /\ g[T] = IF T = {} THEN 0 ELSE f[Pick(T)] + g[T \ {Pick(T)}]
      /\ h[T] = IF T = {} THEN 0 ELSE f[Pick(T)] + h[T \ {Pick(T)}]
  BY <1>3 DEF Adds
<1>5. T # {}
  BY <1>2, <1>4
<1>6. Pick(T) \in T
  BY <1>5 DEF Pick
<1>7. T \ {Pick(T)} \in SUBSET T /\ T \ {Pick(T)} # T /\ T \ {Pick(T)} \in SUBSET S
  BY <1>3, <1>6
<1>8. g[T \ {Pick(T)}] = h[T \ {Pick(T)}]
  BY <1>2, <1>7
<1>9. QED
  BY <1>2, <1>4, <1>5, <1>8

\* The sum over a set, from the sum over the set without the element picked first.
LEMMA SumEquation ==
  ASSUME NEW f, NEW S, IsFiniteSet(S)
  PROVE  SumOf(f, S) = IF S = {} THEN 0 ELSE f[Pick(S)] + SumOf(f, S \ {Pick(S)})
<1> DEFINE sum(T) == CHOOSE h : Adds(h, f, SUBSET T)
<1>1. ASSUME NEW T, IsFiniteSet(T)
      PROVE  SumOf(f, T) = sum(T)[T] /\ Adds(sum(T), f, SUBSET T)
  <2>1. SumOf(f, T) = sum(T)[T]
    BY DEF SumOf, MapThenSumSet, MapThenFoldSet, Adds, Pick
  <2>2. Adds(sum(T), f, SUBSET T)
    BY <1>1, AddsExists
  <2> QED BY <2>1, <2>2
<1> HIDE DEF sum
<1>2. sum(S)[S] = IF S = {} THEN 0 ELSE f[Pick(S)] + sum(S)[S \ {Pick(S)}]
  BY <1>1 DEF Adds
<1>3. ASSUME NEW T \in SUBSET S
      PROVE  SumOf(f, T) = sum(S)[T]
  <2>1. IsFiniteSet(T) /\ T \in SUBSET S
    BY FS_Subset
  <2> DEFINE g == sum(T)
             h == sum(S)
  <2>2. Adds(g, f, SUBSET T) /\ Adds(h, f, SUBSET S)
    BY <1>1, <2>1
  <2>3. g[T] = h[T]
    <3> HIDE DEF g, h
    <3> QED BY <2>1, <2>2, AddsUnique
  <2> QED BY <1>1, <2>1, <2>3
<1>4. QED
  BY <1>2, <1>3

\* A sum of integers is one, and may be taken with any element first.
LEMMA SumWithout ==
  ASSUME NEW S, IsFiniteSet(S), NEW f, \A x \in S : f[x] \in Int
  PROVE  /\ SumOf(f, S) \in Int
         /\ \A x \in S : SumOf(f, S) = f[x] + SumOf(f, S \ {x})
<1> DEFINE Good(T) == /\ SumOf(f, T) \in Int
                      /\ \A x \in T : SumOf(f, T) = f[x] + SumOf(f, T \ {x})
           Bad == {T \in SUBSET S : ~Good(T)}
<1>1. SUFFICES ASSUME Bad # {} PROVE FALSE
  OBVIOUS
<1>2. PICK T \in Bad : IsFiniteSet(T) /\ \A V \in SUBSET T : V # T => V \notin Bad
  <2>1. Bad \in SUBSET (SUBSET S)
    OBVIOUS
  <2> HIDE DEF Bad
  <2> QED BY <1>1, <2>1, SmallestSet
<1>3. T \in SUBSET S /\ IsFiniteSet(T) /\ ~Good(T)
  BY <1>2
<1>4. ASSUME NEW x \in T
      PROVE  T \ {x} \in SUBSET S /\ Good(T \ {x})
  <2>1. T \ {x} \in SUBSET S /\ T \ {x} \in SUBSET T /\ T \ {x} # T
    BY <1>3
  <2> HIDE DEF Good
  <2> QED BY <1>2, <2>1
<1> DEFINE p == Pick(T)
<1>5. CASE T = {}
  <2>1. SumOf(f, T) = 0
    BY <1>3, <1>5, SumEquation
  <2>2. Good(T)
    BY <1>5, <2>1
  <2> QED BY <1>3, <2>2
<1>6. CASE T # {}
  <2>1. p \in T
    BY <1>6 DEF Pick
  <2>2. SumOf(f, T) = f[p] + SumOf(f, T \ {p})
    BY <1>3, <1>6, SumEquation
  <2> HIDE DEF p
  <2>3. f[p] \in Int /\ SumOf(f, T \ {p}) \in Int
    BY <1>3, <1>4, <2>1
  <2>4. ASSUME NEW x \in T, x # p
        PROVE  SumOf(f, T) = f[x] + SumOf(f, T \ {x})
    <3> DEFINE both == T \ {p, x}
    <3>1. (T \ {p}) \ {x} = both /\ (T \ {x}) \ {p} = both /\ x \in T \ {p} /\ p \in T \ {x}
      BY <2>1, <2>4
    <3>2. SumOf(f, T \ {p}) = f[x] + SumOf(f, both) /\ SumOf(f, T \ {x}) = f[p] + SumOf(f, both)
      BY <1>4, <2>1, <2>4, <3>1
    <3>3. both \in SUBSET S /\ both \in SUBSET T /\ both # T
      BY <1>3, <2>1
    <3>4. f[x] \in Int /\ SumOf(f, both) \in Int
      <4> HIDE DEF Good, both
      <4>1. Good(both)
        BY <1>2, <3>3
      <4> QED BY <1>3, <4>1 DEF Good
    <3> HIDE DEF both
    <3> QED BY <2>2, <2>3, <3>2, <3>4
  <2>5. SumOf(f, T) \in Int
    BY <2>2, <2>3
  <2>6. ASSUME NEW x \in T
        PROVE  SumOf(f, T) = f[x] + SumOf(f, T \ {x})
    BY <2>2, <2>4
  <2> QED BY <1>3, <2>5, <2>6
<1>7. QED
  BY <1>5, <1>6

\* A sum depends on the values it adds up only.
LEMMA SumSame ==
  ASSUME NEW S, IsFiniteSet(S), NEW f, NEW g, \A x \in S : f[x] \in Int /\ g[x] = f[x]
  PROVE  SumOf(g, S) = SumOf(f, S)
<1> DEFINE Bad == {T \in SUBSET S : SumOf(g, T) # SumOf(f, T)}
<1>1. SUFFICES ASSUME Bad # {} PROVE FALSE
  OBVIOUS
<1>2. PICK T \in Bad : IsFiniteSet(T) /\ \A V \in SUBSET T : V # T => V \notin Bad
  <2>1. Bad \in SUBSET (SUBSET S)
    OBVIOUS
  <2> HIDE DEF Bad
  <2> QED BY <1>1, <2>1, SmallestSet
<1>3. T \in SUBSET S /\ IsFiniteSet(T)
  BY <1>2
<1>4. T # {}
  <2>1. SUFFICES ASSUME T = {} PROVE FALSE
    OBVIOUS
  <2>2. SumOf(f, T) = 0 /\ SumOf(g, T) = 0
    BY <1>3, <2>1, SumEquation
  <2> QED BY <1>2, <2>2
<1>5. PICK x \in T : TRUE
  BY <1>4
<1>6. /\ SumOf(f, T) = f[x] + SumOf(f, T \ {x})
      /\ SumOf(g, T) = g[x] + SumOf(g, T \ {x})
  <2>1. \A y \in T : f[y] \in Int /\ g[y] \in Int
    BY <1>3
  <2> QED BY <1>3, <2>1, SumWithout
<1>7. T \ {x} \in SUBSET S /\ T \ {x} \in SUBSET T /\ T \ {x} # T
  BY <1>3, <1>5
<1>8. SumOf(f, T \ {x}) = SumOf(g, T \ {x})
  BY <1>2, <1>7
<1>9. QED
  BY <1>2, <1>3, <1>6, <1>8

\* A sum with one more element.
LEMMA SumAdd ==
  ASSUME NEW S, IsFiniteSet(S), NEW x, x \notin S,
         NEW f, \A y \in S \cup {x} : f[y] \in Int
  PROVE  SumOf(f, S \cup {x}) = f[x] + SumOf(f, S)
<1> DEFINE T == S \cup {x}
<1>1. IsFiniteSet(T) /\ x \in T /\ T \ {x} = S
  BY FS_AddElement
<1>2. \A y \in T : f[y] \in Int
  OBVIOUS
<1> HIDE DEF T
<1>3. SumOf(f, T) = f[x] + SumOf(f, T \ {x})
  BY <1>1, <1>2, SumWithout
<1>4. QED
  BY <1>1, <1>3 DEF T

\* Leaving out what is not negative does not make a sum larger.
LEMMA SumMonotone ==
  ASSUME NEW U, IsFiniteSet(U), NEW S \in SUBSET U, NEW f, \A x \in U : f[x] \in Int,
         \A x \in U \ S : f[x] >= 0
  PROVE  SumOf(f, S) <= SumOf(f, U)
<1> DEFINE Between == {T \in SUBSET U : S \subseteq T}
           Bad == {T \in Between : ~(SumOf(f, S) <= SumOf(f, T))}
<1>1. SUFFICES ASSUME Bad # {} PROVE FALSE
  OBVIOUS
<1>2. PICK T \in Bad : IsFiniteSet(T) /\ \A V \in SUBSET T : V # T => V \notin Bad
  <2>1. Bad \in SUBSET (SUBSET U)
    OBVIOUS
  <2> HIDE DEF Bad
  <2> QED BY <1>1, <2>1, SmallestSet
<1>3. T \in SUBSET U /\ S \subseteq T /\ IsFiniteSet(T) /\ IsFiniteSet(S)
  BY <1>2, FS_Subset
<1>4. SumOf(f, S) \in Int
  BY <1>3, SumWithout
<1>5. PICK x \in T : x \notin S
  <2>1. T # S
    BY <1>2, <1>4
  <2> HIDE DEF Bad
  <2> QED BY <1>3, <2>1
<1>6. /\ T \ {x} \in SUBSET U /\ S \subseteq T \ {x}
      /\ T \ {x} \in SUBSET T /\ T \ {x} # T /\ IsFiniteSet(T \ {x})
  BY <1>3, <1>5, FS_Subset
<1>7. SumOf(f, S) <= SumOf(f, T \ {x})
  BY <1>2, <1>6
<1>8. SumOf(f, T) = f[x] + SumOf(f, T \ {x}) /\ SumOf(f, T \ {x}) \in Int
  BY <1>3, <1>6, SumWithout
<1>9. f[x] \in Int /\ f[x] >= 0
  BY <1>3, <1>5
<1>10. SumOf(f, S) <= SumOf(f, T)
  BY <1>4, <1>7, <1>8, <1>9
<1>11. QED
  BY <1>2, <1>10
=============================================================================
