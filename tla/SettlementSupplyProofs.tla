----------------------- MODULE SettlementSupplyProofs -----------------------
(***************************************************************************)
(* Balances in Settlement: no batch mints or burns, and, because it does   *)
(* not, a transaction that POST /tx has accepted is never lost.            *)
(***************************************************************************)
EXTENDS SettlementOutcomeProofs

----------------------------------------------------------------------------
(* The total balance of a state.                                           *)

FiniteState(s) == s \in State /\ IsFiniteSet(DOMAIN s)

\* The total of a state, and that two of its accounts hold no more than it.
LEMMA TotalBounds ==
  ASSUME NEW s, FiniteState(s)
  PROVE  /\ TotalBalance(s) \in Nat
         /\ \A x, y \in Address :
              x # y => get(s, x).balance + get(s, y).balance <= TotalBalance(s)
<1> DEFINE f == Balances(s)
           D == DOMAIN s
<1>1. TotalBalance(s) = SumOf(f, D)
  BY DEF TotalBalance, SumOf
<1>2. /\ IsFiniteSet(D) /\ D \in SUBSET Address
      /\ \A x \in D : f[x] \in Nat /\ f[x] = get(s, x).balance
      /\ \A x \in Address \ D : get(s, x).balance = 0
  BY GetType, MaxU64Assumption
     DEF FiniteState, State, Account, U64, Balances, get, DefaultAccount
<1> HIDE DEF f, D
<1>3. \A T \in SUBSET D : /\ IsFiniteSet(T) /\ SumOf(f, T) \in Int
                          /\ \A x \in T : SumOf(f, T) = f[x] + SumOf(f, T \ {x})
  <2> SUFFICES ASSUME NEW T \in SUBSET D
               PROVE  /\ IsFiniteSet(T) /\ SumOf(f, T) \in Int
                      /\ \A x \in T : SumOf(f, T) = f[x] + SumOf(f, T \ {x})
    OBVIOUS
  <2>1. IsFiniteSet(T) /\ \A x \in T : f[x] \in Int
    BY <1>2, FS_Subset
  <2> QED BY <2>1, SumWithout
<1>4. ASSUME NEW T \in SUBSET D
      PROVE  SumOf(f, T) >= 0
  <2>1. SumOf(f, {}) = 0
    BY FS_EmptySet, SumEquation
  <2>2. IsFiniteSet(T) /\ {} \in SUBSET T /\ (\A x \in T : f[x] \in Int)
        /\ \A x \in T \ {} : f[x] >= 0
    BY <1>2, <1>3
  <2>3. SumOf(f, {}) <= SumOf(f, T)
    BY <2>2, SumMonotone
  <2> QED BY <1>3, <2>1, <2>3
<1>5. ASSUME NEW x \in Address
      PROVE  get(s, x).balance \in Nat /\ get(s, x).balance <= SumOf(f, D)
  <2>1. CASE x \in D
    <3>1. D \in SUBSET D /\ D \ {x} \in SUBSET D
      OBVIOUS
    <3>2. /\ SumOf(f, D) = f[x] + SumOf(f, D \ {x})
          /\ SumOf(f, D \ {x}) \in Int /\ SumOf(f, D \ {x}) >= 0
      BY <1>3, <1>4, <2>1, <3>1
    <3> QED BY <1>2, <2>1, <3>2
  <2>2. CASE x \notin D
    BY <1>2, <1>4, <2>2
  <2> QED BY <2>1, <2>2
<1>6. ASSUME NEW x \in Address, NEW y \in Address, x # y
      PROVE  get(s, x).balance + get(s, y).balance <= SumOf(f, D)
  <2>1. CASE x \in D /\ y \in D
    <3>1. SumOf(f, D) = f[x] + SumOf(f, D \ {x})
      BY <1>3, <2>1
    <3>2. D \ {x} \in SUBSET D /\ y \in D \ {x} /\ (D \ {x}) \ {y} \in SUBSET D
      BY <1>6, <2>1
    <3>3. SumOf(f, D \ {x}) = f[y] + SumOf(f, (D \ {x}) \ {y})
      BY <1>3, <3>2
    <3>4. SumOf(f, (D \ {x}) \ {y}) \in Int /\ SumOf(f, (D \ {x}) \ {y}) >= 0
      BY <1>3, <1>4, <3>2
    <3> QED BY <1>2, <2>1, <3>1, <3>3, <3>4
  <2>2. CASE x \notin D
    BY <1>2, <1>3, <1>5, <2>2
  <2>3. CASE y \notin D
    BY <1>2, <1>3, <1>5, <2>3
  <2> QED BY <2>1, <2>2, <2>3
<1>7. SumOf(f, D) \in Int /\ SumOf(f, D) >= 0
  BY <1>3, <1>4
<1>8. QED
  BY <1>1, <1>6, <1>7

\* Writing an account changes the total by what it changes the account's balance.
LEMMA TotalSet ==
  ASSUME NEW s, FiniteState(s), NEW x \in Address, NEW account \in Account
  PROVE  /\ FiniteState(set(s, x, account))
         /\ TotalBalance(set(s, x, account)) =
              TotalBalance(s) - get(s, x).balance + account.balance
<1> DEFINE t    == set(s, x, account)
           f    == Balances(s)
           g    == Balances(t)
           D    == DOMAIN s
           rest == D \ {x}
<1>1. s \in State /\ IsFiniteSet(D) /\ t \in State /\ DOMAIN t = rest \cup {x}
  BY SetType DEF FiniteState, set
<1>2. /\ TotalBalance(s) = SumOf(f, D) /\ TotalBalance(t) = SumOf(g, rest \cup {x})
      /\ g[x] = account.balance /\ account.balance \in Nat
      /\ \A y \in rest : f[y] \in Int /\ g[y] = f[y] /\ g[y] \in Int
      /\ x \in D => f[x] = get(s, x).balance /\ f[x] \in Int
      /\ x \notin D => get(s, x).balance = 0
  <2>1. TotalBalance(s) = SumOf(f, D) /\ TotalBalance(t) = SumOf(g, rest \cup {x})
    BY <1>1 DEF TotalBalance, SumOf
  <2>2. \A y \in D : f[y] = s[y].balance /\ s[y].balance \in Int
    BY <1>1, MaxU64Assumption DEF Balances, State, Account, U64
  <2>3. \A y \in rest \cup {x} : g[y] = IF y = x THEN account.balance ELSE s[y].balance
    BY <1>1 DEF Balances, set
  <2>4. account.balance \in Nat
    BY MaxU64Assumption DEF Account, U64
  <2>5. get(s, x).balance = IF x \in D THEN s[x].balance ELSE 0
    BY DEF get, DefaultAccount
  <2> HIDE DEF t, f, g
  <2> QED BY <2>1, <2>2, <2>3, <2>4, <2>5
<1>3. IsFiniteSet(rest) /\ x \notin rest /\ IsFiniteSet(rest \cup {x})
  BY <1>1, FS_Subset, FS_AddElement
<1> HIDE DEF t, f, g, D
<1>4. SumOf(g, rest) = SumOf(f, rest) /\ SumOf(f, rest) \in Int
  <2> HIDE DEF rest
  <2> QED BY <1>2, <1>3, SumSame, SumWithout
<1>5. SumOf(g, rest \cup {x}) = g[x] + SumOf(g, rest)
  <2>1. \A y \in rest \cup {x} : g[y] \in Int
    BY <1>2
  <2> HIDE DEF rest
  <2> QED BY <1>3, <2>1, SumAdd
<1>6. SumOf(f, D) = get(s, x).balance + SumOf(f, rest)
  <2>1. CASE x \in D
    <3>1. \A y \in D : f[y] \in Int
      BY <1>2, <2>1
    <3>2. SumOf(f, D) = f[x] + SumOf(f, rest)
      BY <1>1, <2>1, <3>1, SumWithout
    <3> QED BY <1>2, <2>1, <3>2
  <2>2. CASE x \notin D
    <3>1. rest = D
      BY <2>2
    <3> HIDE DEF rest
    <3> QED BY <1>2, <1>4, <2>2, <3>1
  <2> QED BY <2>1, <2>2
<1>7. get(s, x).balance \in Int
  BY <1>2
<1> HIDE DEF rest
<1>8. TotalBalance(t) = TotalBalance(s) - get(s, x).balance + account.balance
  BY <1>2, <1>4, <1>5, <1>6, <1>7
<1>9. FiniteState(t)
  BY <1>1, <1>3 DEF FiniteState
<1>10. QED
  BY <1>8, <1>9 DEF t

\* A transfer credits what it debits.
LEMMA AppliedTotal ==
  ASSUME NEW s, FiniteState(s), NEW tx \in Tx, Applies(s, tx)
  PROVE  /\ FiniteState(Applied(s, tx))
         /\ TotalBalance(Applied(s, tx)) = TotalBalance(s)
         /\ \A x \in Address :
              get(Applied(s, tx), x).balance =
                IF x = tx.to THEN get(s, x).balance + tx.amount
                ELSE IF x = tx.from THEN get(s, x).balance - tx.amount
                ELSE get(s, x).balance
<1> DEFINE debited  == [balance |-> get(s, tx.from).balance - tx.amount,
                        nonce   |-> WrappingSucc(get(s, tx.from).nonce)]
           credited == [get(s, tx.to) EXCEPT !.balance = @ + tx.amount]
           half     == set(s, tx.from, debited)
           whole    == set(half, tx.to, credited)
<1>1. /\ tx.from \in Address /\ tx.to \in Address /\ tx.from # tx.to
      /\ tx.amount \in Nat
      /\ get(s, tx.from) \in Account /\ get(s, tx.to) \in Account
      /\ get(s, tx.from).balance >= tx.amount
      /\ get(s, tx.to).balance + tx.amount <= MaxU64
  BY GetType, MaxU64Assumption DEF FiniteState, Applies, Tx, U64
<1>2. debited \in Account /\ credited \in Account
      /\ credited.balance = get(s, tx.to).balance + tx.amount
  BY <1>1, MaxU64Assumption DEF Account, U64, WrappingSucc
<1>3. get(half, tx.to) = get(s, tx.to)
  BY <1>1, GetSet
<1>4. Applied(s, tx) = whole
  BY DEF Applied
<1>5. debited.balance = get(s, tx.from).balance - tx.amount
  OBVIOUS
<1> HIDE DEF debited, credited
<1>6. /\ FiniteState(half)
      /\ TotalBalance(half) = TotalBalance(s) - get(s, tx.from).balance + debited.balance
  BY <1>1, <1>2, TotalSet
<1>7. FiniteState(whole)
      /\ TotalBalance(whole) = TotalBalance(half) - get(half, tx.to).balance + credited.balance
  <2> HIDE DEF half
  <2> QED BY <1>1, <1>2, <1>6, TotalSet
<1>8. \A x \in Address :
        get(whole, x) = IF x = tx.to THEN credited
                        ELSE IF x = tx.from THEN debited ELSE get(s, x)
  BY GetSet
<1> HIDE DEF half, whole
<1>9. TotalBalance(s) \in Nat /\ get(s, tx.from).balance \in Int /\ get(s, tx.to).balance \in Int
  BY <1>1, TotalBounds, MaxU64Assumption DEF Account, U64
<1>10. TotalBalance(whole) = TotalBalance(s)
  BY <1>1, <1>2, <1>3, <1>5, <1>6, <1>7, <1>9
<1>11. \A x \in Address :
         get(whole, x).balance =
           IF x = tx.to THEN get(s, x).balance + tx.amount
           ELSE IF x = tx.from THEN get(s, x).balance - tx.amount
           ELSE get(s, x).balance
  BY <1>1, <1>2, <1>5, <1>8
<1>12. QED
  BY <1>4, <1>7, <1>10, <1>11

\* No batch mints or burns.
LEMMA BatchTotal ==
  ASSUME NEW s, FiniteState(s), NEW txs \in Batch, apply_txs(s, txs).ok
  PROVE  /\ FiniteState(apply_txs(s, txs).state)
         /\ TotalBalance(apply_txs(s, txs).state) = TotalBalance(s)
<1> DEFINE S    == [i \in 0..Len(txs) |-> ApplyRun(s, txs)[i].state]
           Good == {i \in 0..Len(txs) : /\ FiniteState(S[i])
                                        /\ TotalBalance(S[i]) = TotalBalance(s)}
<1>1. Len(txs) \in Nat /\ \A i \in 1..Len(txs) : txs[i] \in Tx
  BY DEF Batch
<1>2. S[0] = s /\ S[Len(txs)] = apply_txs(s, txs).state
  <2>1. ApplyRun(s, txs)[0] = [ok |-> TRUE, state |-> s]
    BY ApplyRunAt
  <2>2. 0 \in 0..Len(txs) /\ Len(txs) \in 0..Len(txs)
    BY <1>1
  <2> QED BY <2>1, <2>2 DEF apply_txs
<1>3. \A i \in 1..Len(txs) : Applies(S[i - 1], txs[i]) /\ S[i] = Applied(S[i - 1], txs[i])
  <2>1. s \in State /\ \A i \in 1..Len(txs) : i - 1 \in 0..Len(txs) /\ i \in 0..Len(txs)
    BY <1>1 DEF FiniteState
  <2> QED BY <2>1, RunApplies
<1> HIDE DEF S
<1>4. 0 \in Good
  BY <1>1, <1>2
<1>5. ASSUME NEW i \in 1..Len(txs), i - 1 \in Good
      PROVE  i \in Good
  <2>1. FiniteState(S[i - 1]) /\ TotalBalance(S[i - 1]) = TotalBalance(s)
    BY <1>5
  <2>2. FiniteState(S[i]) /\ TotalBalance(S[i]) = TotalBalance(s)
    BY <1>1, <1>3, <2>1, AppliedTotal
  <2> QED BY <1>1, <2>2
<1>6. Len(txs) \in Good
  <2> HIDE DEF Good
  <2>1. \A i \in 0..Len(txs) : i \in Good
    BY <1>1, <1>4, <1>5, Upwards
  <2> QED BY <1>1, <2>1
<1>7. QED
  BY <1>2, <1>6

----------------------------------------------------------------------------
(* The supply.                                                             *)

SupplyInv == FiniteState(L1State) /\ SupplyIsConserved

\* The total balance of the state L1 stands at is that of genesis, whatever fails.
THEOREM SupplyConserved == Spec => []SupplyIsConserved
<1>1. Init => SupplyInv
  <2> SUFFICES ASSUME Init PROVE SupplyInv
    OBVIOUS
  <2>1. L1State = Genesis /\ StateOf(stateRoot) = Genesis
    BY StateOfRoot, SettlementAssumption DEF Init, constructor, L1State
  <2> QED BY <2>1, SettlementAssumption, GenesisAssumption
          DEF SupplyInv, FiniteState, SupplyIsConserved
<1>2. IInv /\ SupplyInv /\ [Next]_vars => SupplyInv'
  <2> SUFFICES ASSUME IInv, SupplyInv, [Next]_vars PROVE SupplyInv'
    OBVIOUS
  <2>1. CASE \E r \in Request : Mine(r) /\ l1tx'[r] = "succeeded"
    <3>1. PICK r \in Request : Mine(r) /\ l1tx'[r] = "succeeded"
      BY <2>1
    <3>2. L1State' = Outcome(r) /\ job[r].prev_state = L1State /\ Drained(r)
      BY <3>1, SettleStep
    <3>3. job[r].txs \in Batch /\ apply_txs(L1State, job[r].txs).ok
          /\ apply_txs(L1State, job[r].txs).state = Outcome(r)
      BY <3>2, OutcomeAfter DEF IInv, JobInv, Provable, Outcome
    <3>4. FiniteState(Outcome(r)) /\ TotalBalance(Outcome(r)) = TotalBalance(L1State)
      BY <3>3, BatchTotal DEF SupplyInv
    <3>5. L1State = StateOf(stateRoot) /\ StateOf(stateRoot)' = Outcome(r)
      BY <3>2 DEF L1State
    <3> QED BY <3>2, <3>4, <3>5 DEF SupplyInv, SupplyIsConserved
  <2>2. CASE ~ \E r \in Request : Mine(r) /\ l1tx'[r] = "succeeded"
    <3>1. UNCHANGED stateRoot
      BY <2>2, NothingSettles
    <3> QED BY <3>1 DEF SupplyInv, SupplyIsConserved, L1State
  <2> QED BY <2>1, <2>2
<1>3. SupplyInv => SupplyIsConserved
  BY DEF SupplyInv
<1>4. QED
  BY <1>1, <1>2, <1>3, Invariance, PTL DEF Spec

----------------------------------------------------------------------------
(* Ledgers that a set of transactions leads to.                            *)

\* No two transactions of one sender for one nonce.
OneEach(txs) == \A tx1, tx2 \in txs : ~Equivocate(tx1, tx2)

\* Those of a set of transactions that are done in a state.
Done(A, s) == {tx \in A : tx.nonce < get(s, tx.from).nonce}

\* What a transaction does to the balance of an account.
Net(x) == [tx \in Txs |-> (IF tx.to = x THEN tx.amount ELSE 0)
                          - (IF tx.from = x THEN tx.amount ELSE 0)]

\* The state is what the transactions done in it make of genesis, in whatever
\* order they were applied.
Reached(A, s) ==
  /\ FiniteState(s)
  /\ TotalBalance(s) = TotalBalance(Genesis)
  /\ \A x \in Address :
       /\ get(s, x).balance = get(Genesis, x).balance + SumOf(Net(x), Done(A, s))
       /\ get(Genesis, x).nonce <= get(s, x).nonce
       /\ \A n \in U64 :
            get(Genesis, x).nonce <= n /\ n < get(s, x).nonce =>
              \E tx \in A : tx.from = x /\ tx.nonce = n

\* The types that reasoning about transactions and their effects needs.
LEMMA ReachedTypes ==
  ASSUME NEW A \in SUBSET Txs, IsFiniteSet(A), NEW s, Reached(A, s)
  PROVE  /\ s \in State
         /\ A \subseteq Tx
         /\ Done(A, s) \in SUBSET A /\ IsFiniteSet(Done(A, s))
         /\ \A tx \in A : /\ tx \in Tx
                          /\ tx.from \in Address /\ tx.to \in Address
                          /\ tx.amount \in Nat /\ tx.nonce \in U64
                          /\ tx.nonce \in Nat /\ tx.nonce < MaxU64
                          /\ \A x : Net(x)[tx] \in Int
<1>1. s \in State
  BY DEF Reached, FiniteState
<1>2. A \subseteq Tx
  BY SettlementAssumption
<1>3. Done(A, s) \in SUBSET A /\ IsFiniteSet(Done(A, s))
  BY FS_Subset DEF Done
<1>4. ASSUME NEW tx \in A
      PROVE  /\ tx.from \in Address /\ tx.to \in Address
             /\ tx.amount \in Nat /\ tx.nonce \in U64
             /\ tx.nonce \in Nat /\ tx.nonce < MaxU64
             /\ \A x : Net(x)[tx] \in Int
  <2>1. tx \in Tx /\ tx \in Txs /\ tx.nonce < MaxU64
    BY <1>2, NonceAssumption
  <2>2. /\ tx.from \in Address /\ tx.to \in Address
        /\ tx.amount \in Nat /\ tx.nonce \in Nat /\ tx.nonce \in U64
    BY <2>1, MaxU64Assumption DEF Tx, U64
  <2> QED BY <2>1, <2>2 DEF Net
<1>5. QED
  BY <1>1, <1>2, <1>3, <1>4

\* A transaction that applies is done with it, and no other is.
LEMMA ReachedApplied ==
  ASSUME NEW A \in SUBSET Txs, IsFiniteSet(A), OneEach(A),
         NEW s, Reached(A, s), NEW tx \in A, Applies(s, tx)
  PROVE  /\ Reached(A, Applied(s, tx))
         /\ Done(A, Applied(s, tx)) = Done(A, s) \cup {tx}
         /\ tx \notin Done(A, s)
<1> DEFINE t == Applied(s, tx)
<1>1. /\ s \in State /\ FiniteState(s) /\ tx \in Tx /\ tx.nonce \in Nat
      /\ tx.nonce < MaxU64 /\ get(s, tx.from).nonce = tx.nonce /\ tx.from # tx.to
      /\ tx.nonce \in U64 /\ tx.from \in Address /\ tx.to \in Address /\ tx.amount \in Nat
  BY ReachedTypes DEF Applies, Reached
<1>2. /\ FiniteState(t) /\ t \in State /\ TotalBalance(t) = TotalBalance(s)
      /\ \A x \in Address :
           get(t, x).balance = IF x = tx.to THEN get(s, x).balance + tx.amount
                               ELSE IF x = tx.from THEN get(s, x).balance - tx.amount
                               ELSE get(s, x).balance
  BY <1>1, AppliedTotal DEF FiniteState
<1>3. \A x \in Address : get(t, x).nonce = IF x = tx.from THEN tx.nonce + 1
                                           ELSE get(s, x).nonce
  BY <1>1, AppliedNonce, MaxU64Assumption DEF WrappingSucc, U64
<1> HIDE DEF t
<1>4. tx \notin Done(A, s)
  BY <1>1 DEF Done
<1>5. Done(A, t) = Done(A, s) \cup {tx}
  <2>1. ASSUME NEW u \in A
        PROVE  u.nonce < get(t, u.from).nonce <=> u.nonce < get(s, u.from).nonce \/ u = tx
    <3>1. u.from \in Address /\ u.nonce \in Nat
      BY ReachedTypes
    <3>2. CASE u.from # tx.from
      BY <1>3, <3>1, <3>2
    <3>3. CASE u.from = tx.from
      <4>1. get(t, u.from).nonce = tx.nonce + 1 /\ get(s, u.from).nonce = tx.nonce
        BY <1>1, <1>3, <3>3
      <4>2. u.nonce = tx.nonce => u = tx
        BY <3>3 DEF OneEach, Equivocate
      <4> QED BY <1>1, <3>1, <4>1, <4>2
    <3> QED BY <3>2, <3>3
  <2> QED BY <2>1 DEF Done
<1>6. ASSUME NEW x \in Address
      PROVE  get(t, x).balance = get(Genesis, x).balance + SumOf(Net(x), Done(A, t))
  <2>1. \A u \in Done(A, s) \cup {tx} : Net(x)[u] \in Int
    BY ReachedTypes
  <2>2. IsFiniteSet(Done(A, s))
    BY ReachedTypes
  <2>3. SumOf(Net(x), Done(A, s) \cup {tx}) = Net(x)[tx] + SumOf(Net(x), Done(A, s))
    <3> DEFINE D == Done(A, s)
               f == Net(x)
    <3> HIDE DEF D, f
    <3>1. IsFiniteSet(D) /\ tx \notin D /\ \A u \in D \cup {tx} : f[u] \in Int
      BY <1>4, <2>1, <2>2 DEF D, f
    <3>2. SumOf(f, D \cup {tx}) = f[tx] + SumOf(f, D)
      BY <3>1, SumAdd
    <3> QED BY <3>2 DEF D, f
  <2>4. Net(x)[tx] = (IF tx.to = x THEN tx.amount ELSE 0) - (IF tx.from = x THEN tx.amount ELSE 0)
    BY DEF Net
  <2>5. SumOf(Net(x), Done(A, s)) \in Int
    <3> DEFINE D == Done(A, s)
               f == Net(x)
    <3> HIDE DEF D, f
    <3>1. IsFiniteSet(D) /\ \A u \in D : f[u] \in Int
      BY <2>1, <2>2 DEF D, f
    <3>2. SumOf(f, D) \in Int
      BY <3>1, SumWithout
    <3> QED BY <3>2 DEF D, f
  <2>6. get(s, x).balance = get(Genesis, x).balance + SumOf(Net(x), Done(A, s))
    BY DEF Reached
  <2>7. get(Genesis, x).balance \in Int
    BY GetType, SettlementAssumption, MaxU64Assumption DEF Account, U64
  <2>8. get(t, x).balance = get(s, x).balance + Net(x)[tx]
    BY <1>1, <1>2, <2>4, <2>5, <2>6, <2>7
  <2>9. Net(x)[tx] \in Int
    BY <2>1
  <2> QED BY <1>5, <2>3, <2>5, <2>6, <2>7, <2>8, <2>9
<1>7. ASSUME NEW x \in Address
      PROVE  /\ get(Genesis, x).nonce <= get(t, x).nonce
             /\ \A n \in U64 :
                  get(Genesis, x).nonce <= n /\ n < get(t, x).nonce =>
                    \E u \in A : u.from = x /\ u.nonce = n
  <2>1. /\ get(Genesis, x).nonce <= get(s, x).nonce
        /\ \A n \in U64 :
             get(Genesis, x).nonce <= n /\ n < get(s, x).nonce =>
               \E u \in A : u.from = x /\ u.nonce = n
    BY DEF Reached
  <2>2. get(Genesis, x).nonce \in Nat /\ get(s, x).nonce \in Nat /\ U64 \subseteq Int
    BY <1>1, NonceType, SettlementAssumption DEF U64
  <2>3. CASE x # tx.from
    BY <1>3, <2>1, <2>3
  <2>4. CASE x = tx.from
    <3>1. get(t, x).nonce = tx.nonce + 1 /\ get(s, x).nonce = tx.nonce
      BY <1>1, <1>3, <2>4
    <3>2. ASSUME NEW n \in U64, get(Genesis, x).nonce <= n, n < get(t, x).nonce
          PROVE  \E u \in A : u.from = x /\ u.nonce = n
      <4>1. CASE n = tx.nonce
        BY <2>4, <4>1
      <4>2. CASE n # tx.nonce
        <5>1. n < get(s, x).nonce
          BY <1>1, <2>2, <3>1, <3>2, <4>2
        <5> QED BY <2>1, <3>2, <5>1
      <4> QED BY <4>1, <4>2
    <3> QED BY <2>1, <2>2, <3>1, <3>2
  <2> QED BY <2>3, <2>4
<1>8. TotalBalance(t) = TotalBalance(Genesis)
  BY <1>2 DEF Reached
<1>9. Reached(A, t)
  BY <1>2, <1>6, <1>7, <1>8 DEF Reached
<1>10. QED
  BY <1>4, <1>5, <1>9 DEF t

\* After a batch that applies exactly its transactions are done too.
LEMMA ReachedBatch ==
  ASSUME NEW A \in SUBSET Txs, IsFiniteSet(A), OneEach(A), NEW s, Reached(A, s),
         NEW txs \in Seq(Txs), Entries(txs) \subseteq A, apply_txs(s, txs).ok
  PROVE  /\ Reached(A, apply_txs(s, txs).state)
         /\ Done(A, apply_txs(s, txs).state) = Done(A, s) \cup Entries(txs)
<1> DEFINE S    == [i \in 0..Len(txs) |-> ApplyRun(s, txs)[i].state]
           Good == {i \in 0..Len(txs) :
                      /\ Reached(A, S[i])
                      /\ Done(A, S[i]) = Done(A, s) \cup {txs[j] : j \in 1..i}}
<1>1. /\ Len(txs) \in Nat /\ \A i \in 1..Len(txs) : txs[i] \in A
      /\ txs \in Batch /\ s \in State
  BY TxsAreTx, ReachedTypes DEF Entries
<1>2. S[0] = s /\ S[Len(txs)] = apply_txs(s, txs).state
  <2>1. ApplyRun(s, txs)[0] = [ok |-> TRUE, state |-> s]
    BY <1>1, ApplyRunAt
  <2>2. 0 \in 0..Len(txs) /\ Len(txs) \in 0..Len(txs)
    BY <1>1
  <2> QED BY <2>1, <2>2 DEF apply_txs
<1>3. \A i \in 1..Len(txs) : Applies(S[i - 1], txs[i]) /\ S[i] = Applied(S[i - 1], txs[i])
  <2>1. \A i \in 1..Len(txs) : i - 1 \in 0..Len(txs) /\ i \in 0..Len(txs)
    BY <1>1
  <2> QED BY <1>1, <2>1, RunApplies
<1> HIDE DEF S
<1>4. 0 \in Good
  <2>1. 0 \in 0..Len(txs) /\ 1..0 = {}
    BY <1>1
  <2> QED BY <1>2, <2>1
<1>5. ASSUME NEW i \in 1..Len(txs), i - 1 \in Good
      PROVE  i \in Good
  <2>1. /\ Reached(A, S[i - 1])
        /\ Done(A, S[i - 1]) = Done(A, s) \cup {txs[j] : j \in 1..(i - 1)}
    BY <1>5
  <2>2. /\ Reached(A, S[i])
        /\ Done(A, S[i]) = Done(A, S[i - 1]) \cup {txs[i]}
    BY <1>1, <1>3, <2>1, ReachedApplied
  <2>3. /\ i \in 0..Len(txs)
        /\ 1..i = 1..(i - 1) \cup {i}
    BY <1>1
  <2>4. {txs[j] : j \in 1..i} = {txs[j] : j \in 1..(i - 1)} \cup {txs[i]}
    BY <2>3
  <2>5. Done(A, S[i]) = Done(A, s) \cup {txs[j] : j \in 1..i}
    BY <2>1, <2>2, <2>4
  <2> QED BY <2>2, <2>3, <2>5
<1>6. Len(txs) \in Good
  <2> HIDE DEF Good
  <2>1. \A i \in 0..Len(txs) : i \in Good
    BY <1>1, <1>4, <1>5, Upwards
  <2> QED BY <1>1, <2>1
<1>7. QED
  BY <1>2, <1>6 DEF Entries

\* What applies in a state applies in a later one in which it is not done: its
\* sender has the same nonce and can only have received since, and no balance
\* overflows as long as all of them together fit.
LEMMA AppliesLater ==
  ASSUME TotalBalance(Genesis) <= MaxU64,
         NEW A \in SUBSET Txs, IsFiniteSet(A), NEW s, Reached(A, s),
         NEW u, Reached(A, u), NoLess(s, u),
         NEW tx \in A, Applies(s, tx), tx \notin Done(A, u)
  PROVE  Applies(u, tx)
<1> DEFINE x == tx.from
           f == Net(x)
           D == Done(A, s)
           E == Done(A, u)
<1>1. /\ s \in State /\ u \in State /\ tx.amount \in Nat /\ tx.nonce \in Nat
      /\ tx.from \in Address /\ tx.to \in Address
  BY ReachedTypes
<1>2. /\ tx.from # tx.to /\ recover_address(tx) = tx.from
      /\ get(s, x).nonce = tx.nonce /\ get(s, x).balance >= tx.amount
  BY DEF Applies
<1>3. \A y \in Address : /\ get(s, y).nonce \in Nat /\ get(u, y).nonce \in Nat
                         /\ get(s, y).nonce <= get(u, y).nonce
  BY <1>1, NonceType DEF NoLess
<1>4. get(u, x).nonce = tx.nonce
  <2>1. ~(tx.nonce < get(u, tx.from).nonce)
    BY DEF Done
  <2> QED BY <1>1, <1>2, <1>3, <2>1
<1>5. \A v \in A : v.from \in Address /\ v.nonce \in Nat /\ v.amount \in Nat /\ f[v] \in Int
  BY ReachedTypes
<1>6. D \in SUBSET E
  BY <1>3, <1>5 DEF Done
<1>7. \A v \in E \ D : f[v] >= 0
  <2>1. ASSUME NEW v \in E \ D
        PROVE  v.from # x
    BY <1>2, <1>4 DEF Done
  <2>2. ASSUME NEW v \in E \ D
        PROVE  f[v] = IF v.to = x THEN v.amount ELSE 0
    <3>1. v \in A /\ v \in Txs
      BY DEF Done
    <3>2. f[v] = (IF v.to = x THEN v.amount ELSE 0) - (IF v.from = x THEN v.amount ELSE 0)
      BY <3>1 DEF Net
    <3>3. v.from # x /\ v.amount \in Nat
      BY <1>5, <2>1, <3>1
    <3> HIDE DEF f, x
    <3> QED BY <3>2, <3>3
  <2>3. \A v \in E \ D : v \in A
    BY DEF Done
  <2> HIDE DEF f, D, E
  <2> QED BY <1>5, <2>2, <2>3
<1>8. IsFiniteSet(D) /\ IsFiniteSet(E) /\ \A v \in E : f[v] \in Int
  BY <1>5, ReachedTypes DEF Done
<1>9. SumOf(f, D) <= SumOf(f, E) /\ SumOf(f, D) \in Int /\ SumOf(f, E) \in Int
  <2> HIDE DEF f, D, E
  <2>1. \A v \in D : f[v] \in Int
    BY <1>6, <1>8
  <2> QED BY <1>6, <1>7, <1>8, <2>1, SumMonotone, SumWithout
<1>10. get(u, x).balance >= get(s, x).balance /\ get(u, x).balance \in Int
       /\ get(s, x).balance \in Int
  <2>1. get(s, x).balance = get(Genesis, x).balance + SumOf(f, D)
    BY <1>1 DEF Reached
  <2>2. get(u, x).balance = get(Genesis, x).balance + SumOf(f, E)
    BY <1>1 DEF Reached
  <2>3. get(Genesis, x).balance \in Int
    BY <1>1, GetType, SettlementAssumption, MaxU64Assumption DEF Account, U64
  <2> HIDE DEF x, f, D, E
  <2> QED BY <1>9, <2>1, <2>2, <2>3
<1>11. get(u, tx.to).balance + tx.amount <= MaxU64
  <2>1. /\ TotalBalance(u) \in Nat
        /\ get(u, x).balance + get(u, tx.to).balance <= TotalBalance(u)
    BY <1>1, <1>2, TotalBounds DEF Reached
  <2>2. TotalBalance(u) = TotalBalance(Genesis)
    BY DEF Reached
  <2>3. get(u, tx.to).balance \in Int
    BY <1>1, GetType, MaxU64Assumption DEF Account, U64
  <2>4. get(u, x).balance >= tx.amount
    <3> HIDE DEF x
    <3> QED BY <1>1, <1>2, <1>10
  <2> HIDE DEF x
  <2> QED BY <1>1, <1>10, <2>1, <2>2, <2>3, <2>4, MaxU64Assumption
<1>12. get(u, x).balance >= tx.amount
  <2> HIDE DEF x
  <2> QED BY <1>1, <1>2, <1>10
<1>13. QED
  BY <1>2, <1>4, <1>11, <1>12 DEF Applies

\* The entries of a longer sequence.
LEMMA EntriesAppend ==
  ASSUME NEW S, NEW txs \in Seq(S), NEW tx
  PROVE  Entries(Append(txs, tx)) = Entries(txs) \cup {tx}
<1>1. /\ Len(txs) \in Nat /\ Len(Append(txs, tx)) = Len(txs) + 1
      /\ \A i \in 1..Len(txs) : Append(txs, tx)[i] = txs[i]
      /\ Append(txs, tx)[Len(txs) + 1] = tx
  OBVIOUS
<1>2. 1..(Len(txs) + 1) = 1..Len(txs) \cup {Len(txs) + 1}
  BY <1>1
<1>3. QED
  BY <1>1, <1>2 DEF Entries

----------------------------------------------------------------------------
(* What restore_mempool and commit_batch drop.                             *)

\* The queue r holds accepted transactions that take base past the state s.
Ahead(A, base, s, r) ==
  /\ Reached(A, s)
  /\ Reached(A, r.state)
  /\ NoLess(s, r.state)
  /\ r.pool \in Seq(Txs)
  /\ Entries(r.pool) \subseteq A
  /\ Done(A, r.state) = Done(A, base) \cup Entries(r.pool)

\* A transaction that applies to s is queued, unless it is done already.
LEMMA AdmitOne ==
  ASSUME TotalBalance(Genesis) <= MaxU64,
         NEW A \in SUBSET Txs, IsFiniteSet(A), OneEach(A), NEW base, NEW s, NEW r,
         Ahead(A, base, s, r), NEW tx \in A, Applies(s, tx)
  PROVE  /\ Ahead(A, base, Applied(s, tx), AdmitStep(r, tx))
         /\ Entries(r.pool) \subseteq Entries(AdmitStep(r, tx).pool)
         /\ tx \in Done(A, base) \cup Entries(AdmitStep(r, tx).pool)
<1> DEFINE u == r.state
           t == Applied(s, tx)
           v == Applied(u, tx)
<1>1. /\ Reached(A, s) /\ Reached(A, u) /\ NoLess(s, u) /\ r.pool \in Seq(Txs)
      /\ Entries(r.pool) \subseteq A /\ Done(A, u) = Done(A, base) \cup Entries(r.pool)
  BY DEF Ahead
<1>2. /\ Reached(A, t) /\ s \in State /\ u \in State /\ t \in State
      /\ tx \in Tx /\ tx \in Txs /\ tx.nonce \in Nat /\ tx.nonce < MaxU64
  BY <1>1, ReachedApplied, ReachedTypes
<1>3. ASSUME NEW x \in Address
      PROVE  /\ get(t, x).nonce = IF x = tx.from THEN tx.nonce + 1 ELSE get(s, x).nonce
             /\ get(s, x).nonce <= get(u, x).nonce
             /\ get(u, x).nonce \in Nat
  <2>1. get(t, x).nonce = IF x = tx.from THEN WrappingSucc(tx.nonce) ELSE get(s, x).nonce
    BY <1>2, AppliedNonce
  <2>2. WrappingSucc(tx.nonce) = tx.nonce + 1
    BY <1>2, MaxU64Assumption DEF WrappingSucc
  <2>3. get(s, x).nonce <= get(u, x).nonce
    BY <1>1 DEF NoLess
  <2>4. get(u, x).nonce \in Nat
    BY <1>2, NonceType
  <2> QED BY <2>1, <2>2, <2>3, <2>4
<1>4. CASE tx \in Done(A, u)
  <2>1. tx.nonce < get(u, tx.from).nonce
    BY <1>4 DEF Done
  <2>2. ~Applies(u, tx)
    BY <1>2, <2>1 DEF Applies
  <2>3. NoLess(t, u)
    <3> SUFFICES ASSUME NEW x \in Address PROVE get(t, x).nonce <= get(u, x).nonce
      BY DEF NoLess
    <3> HIDE DEF t, u
    <3> QED BY <1>2, <1>3, <2>1
  <2>4. AdmitStep(r, tx) = r
    BY <2>2 DEF AdmitStep
  <2>5. Ahead(A, base, t, r)
    BY <1>1, <1>2, <2>3 DEF Ahead
  <2> QED BY <1>1, <1>4, <2>4, <2>5
<1>5. CASE tx \notin Done(A, u)
  <2>1. Applies(u, tx)
    BY <1>1, <1>5, AppliesLater
  <2>2. /\ AdmitStep(r, tx).state = v
        /\ AdmitStep(r, tx).pool = Append(r.pool, tx)
    BY <2>1 DEF AdmitStep
  <2>3. Reached(A, v) /\ Done(A, v) = Done(A, u) \cup {tx}
    BY <1>1, <2>1, ReachedApplied
  <2>4. /\ Append(r.pool, tx) \in Seq(Txs)
        /\ Entries(Append(r.pool, tx)) = Entries(r.pool) \cup {tx}
    BY <1>1, <1>2, EntriesAppend
  <2>5. NoLess(t, v)
    <3> SUFFICES ASSUME NEW x \in Address PROVE get(t, x).nonce <= get(v, x).nonce
      BY DEF NoLess
    <3>1. get(v, x).nonce = IF x = tx.from THEN tx.nonce + 1 ELSE get(u, x).nonce
      BY <1>2, <2>1, AppliedNonce, MaxU64Assumption DEF WrappingSucc
    <3> HIDE DEF t, u, v
    <3> QED BY <1>2, <1>3, <3>1
  <2> HIDE DEF t, u, v
  <2>6. Done(A, v) = Done(A, base) \cup Entries(AdmitStep(r, tx).pool)
    BY <1>1, <2>2, <2>3, <2>4
  <2>7. Ahead(A, base, t, AdmitStep(r, tx))
    BY <1>1, <1>2, <2>2, <2>3, <2>4, <2>5, <2>6 DEF Ahead
  <2> QED BY <2>2, <2>4, <2>7 DEF t
<1>6. QED
  BY <1>4, <1>5

\* Transactions that made a batch on an earlier state are all queued on top of a
\* later one, except those that are done in it; and what was queued stays.
LEMMA AdmitAllKeeps ==
  ASSUME TotalBalance(Genesis) <= MaxU64,
         NEW A \in SUBSET Txs, IsFiniteSet(A), OneEach(A),
         NEW base, Reached(A, base), NEW state, NEW pool,
         Coherent(Txs, base, state, pool), Entries(pool) \subseteq A,
         NEW s, Reached(A, s), NoLess(s, base),
         NEW txs \in Seq(Txs), Entries(txs) \subseteq A, apply_txs(s, txs).ok
  PROVE  /\ Entries(pool) \subseteq Entries(admit_all(state, pool, txs).pool)
         /\ Entries(admit_all(state, pool, txs).pool) \subseteq A
         /\ Entries(txs) \subseteq
              Done(A, base) \cup Entries(admit_all(state, pool, txs).pool)
<1> DEFINE S    == [i \in 0..Len(txs) |-> ApplyRun(s, txs)[i].state]
           R    == AdmitRun(state, pool, txs)
           Good == {i \in 0..Len(txs) :
                      /\ Ahead(A, base, S[i], R[i])
                      /\ Entries(pool) \subseteq Entries(R[i].pool)
                      /\ \A j \in 1..i : txs[j] \in Done(A, base) \cup Entries(R[i].pool)}
<1>1. /\ Len(txs) \in Nat /\ \A i \in 1..Len(txs) : txs[i] \in A
      /\ txs \in Batch /\ s \in State /\ base \in State
  BY TxsAreTx, ReachedTypes DEF Entries
<1>2. /\ S[0] = s
      /\ \A i \in 1..Len(txs) : Applies(S[i - 1], txs[i]) /\ S[i] = Applied(S[i - 1], txs[i])
  <2>1. /\ 0 \in 0..Len(txs)
        /\ \A i \in 1..Len(txs) : i - 1 \in 0..Len(txs) /\ i \in 0..Len(txs)
    BY <1>1
  <2>2. ApplyRun(s, txs)[0] = [ok |-> TRUE, state |-> s]
    BY <1>1, ApplyRunAt
  <2> QED BY <1>1, <2>1, <2>2, RunApplies
<1>3. /\ R[0] = [state |-> state, pool |-> pool]
      /\ \A i \in 1..Len(txs) : R[i] = AdmitStep(R[i - 1], txs[i])
      /\ admit_all(state, pool, txs) = R[Len(txs)]
  BY <1>1, AdmitRunAt DEF admit_all
<1>4. /\ pool \in Seq(Txs) /\ pool \in Batch /\ state \in State
      /\ apply_txs(base, pool).ok /\ apply_txs(base, pool).state = state
      /\ \A i \in 1..Len(pool) : pool[i].nonce < MaxU64
  BY TxsAreTx DEF Coherent
<1> HIDE DEF S, R
<1>5. 0 \in Good
  <2>1. Reached(A, state) /\ Done(A, state) = Done(A, base) \cup Entries(pool)
    BY <1>4, ReachedBatch
  <2>2. NoLess(base, state)
    BY <1>1, <1>4, BatchNonces
  <2>3. NoLess(s, state)
    BY <1>1, <1>4, <2>2, NoLessTransitive
  <2>4. Ahead(A, base, s, [state |-> state, pool |-> pool])
    BY <1>4, <2>1, <2>3 DEF Ahead
  <2>5. 0 \in 0..Len(txs) /\ 1..0 = {} /\ R[0].pool = pool
    BY <1>1, <1>3
  <2> QED BY <1>2, <1>3, <2>4, <2>5
<1>6. ASSUME NEW i \in 1..Len(txs), i - 1 \in Good
      PROVE  i \in Good
  <2>1. /\ Ahead(A, base, S[i - 1], R[i - 1])
        /\ Entries(pool) \subseteq Entries(R[i - 1].pool)
        /\ \A j \in 1..(i - 1) : txs[j] \in Done(A, base) \cup Entries(R[i - 1].pool)
    BY <1>6
  <2>2. /\ Ahead(A, base, S[i], R[i])
        /\ Entries(R[i - 1].pool) \subseteq Entries(R[i].pool)
        /\ txs[i] \in Done(A, base) \cup Entries(R[i].pool)
    <3>1. /\ txs[i] \in A /\ Applies(S[i - 1], txs[i])
          /\ S[i] = Applied(S[i - 1], txs[i]) /\ R[i] = AdmitStep(R[i - 1], txs[i])
      BY <1>1, <1>2, <1>3
    <3> QED BY <2>1, <3>1, AdmitOne
  <2>3. i \in 0..Len(txs) /\ \A j \in 1..i : j \in 1..(i - 1) \/ j = i
    BY <1>1
  <2>4. \A j \in 1..i : txs[j] \in Done(A, base) \cup Entries(R[i].pool)
    BY <2>1, <2>2, <2>3
  <2> QED BY <2>1, <2>2, <2>3, <2>4
<1>7. Len(txs) \in Good
  <2> HIDE DEF Good
  <2>1. \A i \in 0..Len(txs) : i \in Good
    BY <1>1, <1>5, <1>6, Upwards
  <2> QED BY <1>1, <2>1
<1>8. /\ Entries(pool) \subseteq Entries(R[Len(txs)].pool)
      /\ Entries(R[Len(txs)].pool) \subseteq A
      /\ \A j \in 1..Len(txs) : txs[j] \in Done(A, base) \cup Entries(R[Len(txs)].pool)
  BY <1>7 DEF Ahead
<1>9. Entries(txs) \subseteq Done(A, base) \cup Entries(R[Len(txs)].pool)
  <2> DEFINE kept == Done(A, base) \cup Entries(R[Len(txs)].pool)
  <2>1. \A j \in 1..Len(txs) : txs[j] \in kept
    BY <1>8
  <2> HIDE DEF kept
  <2>2. Entries(txs) \subseteq kept
    BY <2>1 DEF Entries
  <2> QED BY <2>2 DEF kept
<1>10. QED
  BY <1>3, <1>8, <1>9

\* One more accepted transaction is not done in any state reached before.
LEMMA ReachedGrows ==
  ASSUME NEW A \in SUBSET Txs, IsFiniteSet(A), NEW tx \in Txs, OneEach(A \cup {tx}),
         get(Genesis, tx.from).nonce <= tx.nonce, NEW s, Reached(A, s)
  PROVE  /\ Reached(A \cup {tx}, s)
         /\ Done(A \cup {tx}, s) = Done(A, s)
<1> DEFINE B == A \cup {tx}
<1>1. tx \in A \/ ~(tx.nonce < get(s, tx.from).nonce)
  <2>1. SUFFICES ASSUME tx.nonce < get(s, tx.from).nonce PROVE tx \in A
    OBVIOUS
  <2>2. tx.nonce \in U64 /\ tx.from \in Address
    BY SettlementAssumption DEF Tx
  <2>3. PICK u \in A : u.from = tx.from /\ u.nonce = tx.nonce
    BY <2>1, <2>2 DEF Reached
  <2> QED BY <2>3 DEF OneEach, Equivocate
<1>2. Done(B, s) = Done(A, s)
  BY <1>1 DEF Done
<1>3. Reached(B, s)
  BY <1>2 DEF Reached
<1>4. QED
  BY <1>2, <1>3

----------------------------------------------------------------------------
(* No accepted transaction is lost.                                        *)

\* No handler drops its batch: it decodes the proof and lives to the end.
HandlersLive == {"malformed", "disconnect", "crash"} \cap Faults = {}

Kept ==
  /\ IsFiniteSet(accepted)
  /\ up
  /\ Reached(accepted, L1State)
  /\ Reached(accepted, canonical_state)
  /\ Entries(mempool) \subseteq accepted
  /\ \A r \in Request : Drained(r) => /\ Entries(job[r].txs) \subseteq accepted
                                      /\ Reached(accepted, job[r].prev_state)
  /\ \A tx \in Done(accepted, L1State) : Settled(tx)
  /\ \A tx \in accepted : Pending(tx) \/ InFlight(tx) \/ Settled(tx)

KeptInv == OneEach(accepted) => Kept

Waiting(r) == pc[r] \in Live \ {"responding"}

\* A step that moves no transaction.
LEMMA KeptSteady ==
  ASSUME Kept, UNCHANGED <<canonical_state, mempool, stateRoot, settled, up, job, accepted>>,
         \A r \in Request : (Drained(r)' => Drained(r)) /\ (Waiting(r) => Waiting(r)')
  PROVE  Kept'
<1>1. L1State' = L1State
  BY DEF L1State
<1>2. /\ IsFiniteSet(accepted') /\ up'
      /\ Reached(accepted', L1State') /\ Reached(accepted', canonical_state')
      /\ Entries(mempool') \subseteq accepted'
  BY <1>1 DEF Kept
<1>3. \A r \in Request : Drained(r)' => /\ Entries(job'[r].txs) \subseteq accepted'
                                        /\ Reached(accepted', job'[r].prev_state)
  BY DEF Kept
<1>4. \A tx : (Settled(tx) => Settled(tx)') /\ (Pending(tx) => Pending(tx)')
  BY DEF Settled, Pending
<1>5. \A tx : InFlight(tx) => InFlight(tx)'
  BY DEF InFlight, Waiting
<1>6. \A tx \in Done(accepted', L1State') : Settled(tx)'
  BY <1>1, <1>4 DEF Kept
<1>7. \A tx \in accepted' : Pending(tx)' \/ InFlight(tx)' \/ Settled(tx)'
  BY <1>4, <1>5 DEF Kept
<1>8. QED
  BY <1>2, <1>3, <1>6, <1>7 DEF Kept

\* POST /tx.
LEMMA KeptSubmit ==
  ASSUME IInv, Kept, NEW tx \in Txs, submit_tx(tx), OneEach(accepted')
  PROVE  Kept'
<1> DEFINE A == accepted
<1>1. /\ accepted' = A \cup {tx} /\ mempool' = Append(mempool, tx)
      /\ Applies(speculative_state, tx)
      /\ UNCHANGED <<canonical_state, stateRoot, settled, up, job, pc, l1tx>>
  BY DEF submit_tx, admit_tx, rollupVars
<1>2. /\ A \in SUBSET Txs /\ mempool \in Seq(Txs) /\ canonical_state \in State
      /\ Coherent(Txs, canonical_state, speculative_state, mempool)
  BY DEF IInv, TypeOK
<1>3. L1State' = L1State
  BY <1>1 DEF L1State
<1>4. get(Genesis, tx.from).nonce <= tx.nonce
  <2>1. /\ tx.from \in Address /\ tx.nonce \in Nat
    BY SettlementAssumption, MaxU64Assumption DEF Tx, U64
  <2>2. NoLess(canonical_state, speculative_state)
    <3>1. /\ mempool \in Batch /\ \A i \in 1..Len(mempool) : mempool[i].nonce < MaxU64
      BY <1>2, TxsAreTx
    <3>2. apply_txs(canonical_state, mempool) = [ok |-> TRUE, state |-> speculative_state]
      BY <1>2 DEF Coherent
    <3> QED BY <1>2, <3>1, <3>2, BatchNonces
  <2>3. get(Genesis, tx.from).nonce <= get(canonical_state, tx.from).nonce
    BY <2>1 DEF Kept, Reached
  <2>4. get(canonical_state, tx.from).nonce <= get(speculative_state, tx.from).nonce
    BY <2>1, <2>2 DEF NoLess
  <2>5. get(speculative_state, tx.from).nonce = tx.nonce
    BY <1>1 DEF Applies
  <2>6. get(Genesis, tx.from).nonce \in Nat /\ get(canonical_state, tx.from).nonce \in Nat
    BY <1>2, <2>1, NonceType, SettlementAssumption
  <2> QED BY <2>1, <2>3, <2>4, <2>5, <2>6
<1>5. ASSUME NEW s, Reached(A, s)
      PROVE  Reached(accepted', s) /\ Done(accepted', s) = Done(A, s)
  <2>1. IsFiniteSet(A) /\ OneEach(A \cup {tx})
    BY <1>1 DEF Kept
  <2> HIDE DEF A
  <2>2. Reached(A \cup {tx}, s) /\ Done(A \cup {tx}, s) = Done(A, s)
    BY <1>2, <1>4, <1>5, <2>1, ReachedGrows
  <2> QED BY <1>1, <2>2
<1>6. IsFiniteSet(accepted') /\ up'
  BY <1>1, FS_AddElement DEF Kept
<1>7. Reached(accepted', L1State') /\ Reached(accepted', canonical_state')
  BY <1>1, <1>3, <1>5 DEF Kept
<1>8. Entries(mempool') = Entries(mempool) \cup {tx}
  BY <1>1, <1>2, EntriesAppend
<1>9. \A r \in Request : Drained(r)' => /\ Entries(job'[r].txs) \subseteq accepted'
                                        /\ Reached(accepted', job'[r].prev_state)
  BY <1>1, <1>5 DEF Kept, Drained
<1>10. \A u : /\ Settled(u) => Settled(u)'
              /\ InFlight(u) => InFlight(u)'
              /\ Pending(u) \/ u = tx => Pending(u)'
  BY <1>1, <1>8 DEF Settled, InFlight, Pending
<1>11. \A u \in Done(accepted', L1State') : Settled(u)'
  BY <1>3, <1>5, <1>10 DEF Kept
<1>12. \A u \in accepted' : Pending(u)' \/ InFlight(u)' \/ Settled(u)'
  BY <1>1, <1>10 DEF Kept
<1>13. Entries(mempool') \subseteq accepted'
  BY <1>1, <1>8 DEF Kept
<1>14. QED
  BY <1>6, <1>7, <1>9, <1>11, <1>12, <1>13 DEF Kept

\* The mempool becomes a batch in flight.
LEMMA KeptDrain ==
  ASSUME IInv, Kept, NEW r \in Request, TriggerDrain(r)
  PROVE  Kept'
<1>1. /\ pc[r] = "idle" /\ pc \in [Request -> Label]
      /\ pc' = [pc EXCEPT ![r] = "proving"]
      /\ job' = [job EXCEPT ![r] = [prev_state |-> canonical_state, txs |-> mempool]]
      /\ job \in [Request -> [prev_state : State, txs : Seq(Txs)]]
      /\ mempool' = <<>>
      /\ UNCHANGED <<canonical_state, stateRoot, settled, up, accepted, l1tx>>
  BY DEF TriggerDrain, drain_for_batch, Goto, rollupVars, IInv, TypeOK
<1>2. L1State' = L1State
  BY <1>1 DEF L1State
<1>3. /\ job'[r].prev_state = canonical_state /\ job'[r].txs = mempool
      /\ \A q \in Request : q # r => job'[q] = job[q] /\ pc'[q] = pc[q] /\ l1tx'[q] = l1tx[q]
      /\ pc'[r] = "proving"
  BY <1>1
<1>4. /\ IsFiniteSet(accepted') /\ up'
      /\ Reached(accepted', L1State') /\ Reached(accepted', canonical_state')
  BY <1>1, <1>2 DEF Kept
<1>5. Entries(mempool') \subseteq accepted'
  BY <1>1 DEF Entries
<1>6. \A q \in Request : Drained(q)' => /\ Entries(job'[q].txs) \subseteq accepted'
                                        /\ Reached(accepted', job'[q].prev_state)
  BY <1>1, <1>3 DEF Kept, Drained
<1>7. \A tx : Settled(tx) => Settled(tx)'
  BY <1>1 DEF Settled
<1>8. ASSUME NEW tx, Pending(tx)
      PROVE  InFlight(tx)'
  BY <1>3, <1>8 DEF InFlight, Pending, Live, Label
<1>9. ASSUME NEW tx, InFlight(tx)
      PROVE  InFlight(tx)'
  <2>1. PICK q \in Request : pc[q] \in Live \ {"responding"} /\ tx \in Entries(job[q].txs)
    BY <1>9 DEF InFlight
  <2>2. q # r
    BY <1>1, <2>1 DEF Live
  <2> QED BY <1>3, <2>1, <2>2 DEF InFlight
<1>10. \A tx \in Done(accepted', L1State') : Settled(tx)'
  BY <1>1, <1>2, <1>7 DEF Kept
<1>11. \A tx \in accepted' : Pending(tx)' \/ InFlight(tx)' \/ Settled(tx)'
  BY <1>1, <1>7, <1>8, <1>9 DEF Kept
<1>12. QED
  BY <1>4, <1>5, <1>6, <1>10, <1>11 DEF Kept

\* What is done in the canonical state is settled on L1.
LEMMA DoneIsSettled ==
  ASSUME IInv, Kept, NEW tx \in Done(accepted, canonical_state)
  PROVE  Settled(tx)
<1>1. canonical_state \in State /\ L1State \in State /\ accepted \in SUBSET Txs
      /\ NoLess(canonical_state, L1State)
  BY NoLessTransitive DEF IInv, TypeOK, LedgerInv, AtMost, Before
<1>2. /\ tx \in accepted /\ tx \in Tx /\ tx.nonce < get(canonical_state, tx.from).nonce
  BY <1>1, SettlementAssumption DEF Done
<1>3. tx.from \in Address /\ tx.nonce \in Nat
  BY <1>2, MaxU64Assumption DEF Tx, U64
<1>4. /\ get(canonical_state, tx.from).nonce \in Nat /\ get(L1State, tx.from).nonce \in Nat
      /\ get(canonical_state, tx.from).nonce <= get(L1State, tx.from).nonce
  BY <1>1, <1>3, NonceType DEF NoLess
<1>5. tx.nonce < get(L1State, tx.from).nonce
  BY <1>2, <1>3, <1>4
<1>6. QED
  BY <1>2, <1>5 DEF Kept, Done

\* A batch that failed goes back to the mempool.
LEMMA KeptRestore ==
  ASSUME TotalBalance(Genesis) <= MaxU64,
         IInv, Kept, OneEach(accepted), NEW r \in Request, Restore(r)
  PROVE  Kept'
<1> DEFINE s == job[r].prev_state
           txs == job[r].txs
           restored == admit_all(speculative_state, mempool, txs)
<1>1. /\ pc[r] = "restoring" /\ pc \in [Request -> Label]
      /\ pc' = [pc EXCEPT ![r] = "done"]
      /\ mempool' = restored.pool
      /\ UNCHANGED <<canonical_state, stateRoot, settled, up, accepted, l1tx, job>>
  BY DEF Restore, restore_mempool, Finish, rollupVars, IInv, TypeOK
<1>2. /\ L1State' = L1State /\ Drained(r)
      /\ \A q \in Request : q # r => pc'[q] = pc[q]
  BY <1>1 DEF L1State, Drained, Live, Label
<1>3. /\ accepted \in SUBSET Txs /\ IsFiniteSet(accepted)
      /\ Reached(accepted, canonical_state) /\ Reached(accepted, s)
      /\ Coherent(Txs, canonical_state, speculative_state, mempool)
      /\ Entries(mempool) \subseteq accepted /\ Entries(txs) \subseteq accepted
      /\ txs \in Seq(Txs) /\ apply_txs(s, txs).ok
  BY <1>2, OutcomeAfter DEF Kept, IInv, TypeOK, JobInv, Provable
<1>4. NoLess(s, canonical_state)
  <2>1. s \in State /\ AtMost(s, canonical_state)
    BY <1>2, OutcomeAfter DEF IInv, JobInv
  <2> QED BY <2>1, NoLessTransitive DEF AtMost, Before
<1>5. /\ Entries(mempool) \subseteq Entries(restored.pool)
      /\ Entries(restored.pool) \subseteq accepted
      /\ Entries(txs) \subseteq Done(accepted, canonical_state) \cup Entries(restored.pool)
  <2> HIDE DEF s, txs
  <2> QED BY <1>3, <1>4, AdmitAllKeeps
<1> HIDE DEF restored
<1>6. /\ IsFiniteSet(accepted') /\ up' /\ Entries(mempool') \subseteq accepted'
      /\ Reached(accepted', L1State') /\ Reached(accepted', canonical_state')
  BY <1>1, <1>2, <1>5 DEF Kept
<1>7. \A q \in Request : Drained(q)' => /\ Entries(job'[q].txs) \subseteq accepted'
                                        /\ Reached(accepted', job'[q].prev_state)
  BY <1>1, <1>2 DEF Kept, Drained
<1>8. \A tx : Settled(tx) => Settled(tx)'
  BY <1>1 DEF Settled
<1>9. \A tx : Pending(tx) => Pending(tx)'
  BY <1>1, <1>5 DEF Pending
<1>10. ASSUME NEW tx, InFlight(tx)
       PROVE  InFlight(tx)' \/ Pending(tx)' \/ Settled(tx)'
  <2>1. PICK q \in Request : pc[q] \in Live \ {"responding"} /\ tx \in Entries(job[q].txs)
    BY <1>10 DEF InFlight
  <2>2. CASE q # r
    BY <1>1, <1>2, <2>1, <2>2 DEF InFlight
  <2>3. CASE q = r
    <3>1. tx \in Done(accepted, canonical_state) \/ tx \in Entries(restored.pool)
      BY <1>5, <2>1, <2>3
    <3> QED BY <1>1, <1>8, <3>1, DoneIsSettled DEF Pending
  <2> QED BY <2>2, <2>3
<1>11. \A tx \in Done(accepted', L1State') : Settled(tx)'
  BY <1>1, <1>2, <1>8 DEF Kept
<1>12. \A tx \in accepted' : Pending(tx)' \/ InFlight(tx)' \/ Settled(tx)'
  BY <1>1, <1>8, <1>9, <1>10 DEF Kept
<1>13. QED
  BY <1>6, <1>7, <1>11, <1>12 DEF Kept

\* A batch that L1 has taken is committed, and the mempool rebuilt on top of it.
LEMMA KeptCommit ==
  ASSUME TotalBalance(Genesis) <= MaxU64,
         IInv, Kept, OneEach(accepted), NEW r \in Request, Commit(r)
  PROVE  Kept'
<1> DEFINE txs == job[r].txs
           retained == admit_all(L1State, <<>>, mempool)
<1>1. pc[r] = "committing" /\ Uncommitted(r) /\ pc \in [Request -> Label]
  BY DEF Commit, IInv, ControlInv, TypeOK, Uncommitted
<1>2. /\ Drained(r)
      /\ apply_txs(canonical_state, txs) = [ok |-> TRUE, state |-> L1State]
      /\ CommitSucceeds(txs, pv(r).newRoot)
  BY <1>1, UncommittedCommits
<1>3. /\ canonical_state' = L1State /\ mempool' = retained.pool
      /\ pc' = [pc EXCEPT ![r] = "responding"]
      /\ UNCHANGED <<stateRoot, settled, up, accepted, l1tx, job>>
  BY <1>2 DEF Commit, commit_batch, Goto, rollupVars
<1>4. L1State' = L1State /\ \A q \in Request : q # r => pc'[q] = pc[q]
  BY <1>1, <1>3 DEF L1State
<1>5. /\ accepted \in SUBSET Txs /\ IsFiniteSet(accepted)
      /\ Reached(accepted, canonical_state) /\ Reached(accepted, L1State)
      /\ mempool \in Seq(Txs) /\ Entries(mempool) \subseteq accepted
      /\ apply_txs(canonical_state, mempool).ok
      /\ canonical_state \in State /\ L1State \in State
      /\ txs \in Seq(Txs) /\ Entries(txs) \subseteq accepted
  BY <1>2, OutcomeAfter DEF Kept, IInv, TypeOK, Coherent, LedgerInv
<1>6. NoLess(canonical_state, L1State)
  BY <1>5, NoLessTransitive DEF IInv, LedgerInv, AtMost, Before
<1>7. /\ Entries(retained.pool) \subseteq accepted
      /\ Entries(mempool) \subseteq Done(accepted, L1State) \cup Entries(retained.pool)
  <2>1. Coherent(Txs, L1State, L1State, <<>>) /\ Entries(<<>>) \subseteq accepted
    BY <1>5, ApplyNone DEF Coherent, Entries
  <2> DEFINE u == L1State
             none == <<>>
  <2> HIDE DEF u, none
  <2>2. /\ Entries(admit_all(u, none, mempool).pool) \subseteq accepted
        /\ Entries(mempool) \subseteq
             Done(accepted, u) \cup Entries(admit_all(u, none, mempool).pool)
    BY <1>5, <1>6, <2>1, AdmitAllKeeps DEF u, none
  <2> QED BY <2>2 DEF u, none
<1>8. Entries(txs) \subseteq Done(accepted, L1State)
  <2>1. apply_txs(canonical_state, txs).ok /\ apply_txs(canonical_state, txs).state = L1State
    BY <1>2
  <2> HIDE DEF txs
  <2>2. Done(accepted, L1State) = Done(accepted, canonical_state) \cup Entries(txs)
    BY <1>5, <2>1, ReachedBatch
  <2> QED BY <2>2
<1> HIDE DEF retained
<1>9. /\ IsFiniteSet(accepted') /\ up' /\ Entries(mempool') \subseteq accepted'
      /\ Reached(accepted', L1State') /\ Reached(accepted', canonical_state')
  BY <1>3, <1>4, <1>5, <1>7 DEF Kept
<1>10. \A q \in Request : Drained(q)' => /\ Entries(job'[q].txs) \subseteq accepted'
                                         /\ Reached(accepted', job'[q].prev_state)
  BY <1>2, <1>3, <1>4 DEF Kept, Drained
<1>11. \A tx : Settled(tx) => Settled(tx)'
  BY <1>3 DEF Settled
<1>12. \A tx \in Done(accepted', L1State') : Settled(tx)'
  BY <1>3, <1>4, <1>11 DEF Kept
<1>13. ASSUME NEW tx, Pending(tx)
       PROVE  Pending(tx)' \/ Settled(tx)'
  BY <1>3, <1>4, <1>7, <1>12, <1>13 DEF Pending
<1>14. ASSUME NEW tx, InFlight(tx)
       PROVE  InFlight(tx)' \/ Settled(tx)'
  <2>1. PICK q \in Request : pc[q] \in Live \ {"responding"} /\ tx \in Entries(job[q].txs)
    BY <1>14 DEF InFlight
  <2>2. CASE q # r
    BY <1>3, <1>4, <2>1, <2>2 DEF InFlight
  <2>3. CASE q = r
    BY <1>3, <1>4, <1>8, <1>12, <2>1, <2>3
  <2> QED BY <2>2, <2>3
<1>15. \A tx \in accepted' : Pending(tx)' \/ InFlight(tx)' \/ Settled(tx)'
  BY <1>3, <1>11, <1>13, <1>14 DEF Kept
<1>16. QED
  BY <1>9, <1>10, <1>12, <1>15 DEF Kept

\* L1 takes a batch.
LEMMA KeptSettle ==
  ASSUME IInv, Kept, OneEach(accepted),
         NEW r \in Request, Mine(r), l1tx'[r] = "succeeded"
  PROVE  Kept'
<1> DEFINE txs == job[r].txs
           event == [batchNumber |-> batchCount', prevRoot |-> pv(r).prevRoot,
                     newRoot |-> pv(r).newRoot, batchHash |-> pv(r).batchHash]
<1>1. /\ L1State' = Outcome(r) /\ job[r].prev_state = L1State
      /\ Drained(r) /\ settled' = Append(settled, event) /\ event.batchHash = txs
  BY SettleStep DEF submitBatch, pv, apply_batch
<1>2. /\ UNCHANGED <<canonical_state, mempool, up, pc, job, accepted>>
      /\ l1tx[r] = "pending" /\ l1tx \in [Request -> L1Status]
      /\ l1tx' = [l1tx EXCEPT ![r] = "succeeded"]
  <2>1. l1tx[r] = "pending" /\ l1tx \in [Request -> L1Status]
    BY DEF Mine, IInv, TypeOK
  <2>2. UNCHANGED <<canonical_state, mempool, up, pc, job, accepted>>
    BY DEF Mine, sequencerVars
  <2>3. l1tx' = [l1tx EXCEPT ![r] = "succeeded"] \/ l1tx' = [l1tx EXCEPT ![r] = "reverted"]
    BY DEF Mine
  <2>4. l1tx' = [l1tx EXCEPT ![r] = "succeeded"]
    BY <2>1, <2>3
  <2> QED BY <2>1, <2>2, <2>4
<1>3. /\ accepted \in SUBSET Txs /\ IsFiniteSet(accepted) /\ Reached(accepted, L1State)
      /\ txs \in Seq(Txs) /\ Entries(txs) \subseteq accepted
      /\ apply_txs(L1State, txs).ok /\ apply_txs(L1State, txs).state = Outcome(r)
  BY <1>1, OutcomeAfter DEF Kept, IInv, TypeOK, JobInv, Provable, Outcome
<1>4. /\ Reached(accepted, Outcome(r))
      /\ Done(accepted, Outcome(r)) = Done(accepted, L1State) \cup Entries(txs)
  <2> HIDE DEF txs
  <2> QED BY <1>3, ReachedBatch
<1>5. \A tx : Settled(tx) \/ tx \in Entries(txs) => Settled(tx)'
  <2>1. settled \in Seq(BatchSettled)
    BY DEF IInv, TypeOK
  <2> HIDE DEF event, txs
  <2>2. /\ Len(settled) \in Nat /\ Len(settled') = Len(settled) + 1
        /\ \A i \in 1..Len(settled) : settled'[i] = settled[i]
        /\ settled'[Len(settled) + 1] = event
    BY <1>1, <2>1
  <2>3. /\ Len(settled) + 1 \in 1..Len(settled')
        /\ \A i \in 1..Len(settled) : i \in 1..Len(settled')
    BY <2>2
  <2> QED BY <1>1, <2>2, <2>3 DEF Settled
<1> HIDE DEF event
<1>6. /\ IsFiniteSet(accepted') /\ up' /\ Entries(mempool') \subseteq accepted'
      /\ Reached(accepted', L1State') /\ Reached(accepted', canonical_state')
  BY <1>1, <1>2, <1>4 DEF Kept
<1>7. \A q \in Request : Drained(q)' => /\ Entries(job'[q].txs) \subseteq accepted'
                                        /\ Reached(accepted', job'[q].prev_state)
  BY <1>1, <1>2 DEF Kept, Drained
<1>8. \A tx \in Done(accepted', L1State') : Settled(tx)'
  BY <1>1, <1>2, <1>4, <1>5 DEF Kept
<1>9. \A tx : (Pending(tx) => Pending(tx)') /\ (InFlight(tx) => InFlight(tx)')
  BY <1>2 DEF Pending, InFlight
<1>10. \A tx \in accepted' : Pending(tx)' \/ InFlight(tx)' \/ Settled(tx)'
  BY <1>2, <1>5, <1>9 DEF Kept
<1>11. QED
  BY <1>6, <1>7, <1>8, <1>10 DEF Kept

\* Every other step of a request moves no transaction.
LEMMA KeptRequestStep ==
  ASSUME HandlersLive, IInv, Kept, NEW r \in Request,
         TriggerEmpty(r) \/ Proved(r) \/ ProveFailed(r) \/ ProofMalformed(r)
           \/ Sent(r) \/ SendFailed(r) \/ ReceiptOk(r) \/ ReceiptReverted(r)
           \/ ReceiptFailed(r) \/ Respond(r) \/ Evict(r)
           \/ (Mine(r) /\ l1tx'[r] # "succeeded")
  PROVE  Kept'
<1> USE DEF Goto, Finish
<1>1. pc \in [Request -> Label] /\ l1tx \in [Request -> L1Status]
  BY DEF IInv, TypeOK
<1>2. /\ UNCHANGED <<canonical_state, mempool, stateRoot, settled, up, job, accepted>>
      /\ \A q \in Request : q # r => pc'[q] = pc[q] /\ l1tx'[q] = l1tx[q]
      /\ Drained(r)' => Drained(r)
      /\ Waiting(r) => Waiting(r)'
  <2> USE <1>1 DEF sequencerVars, rollupVars, Drained, Waiting, Live, Label
  <2>1. CASE TriggerEmpty(r)
    BY <2>1 DEF TriggerEmpty
  <2>2. CASE Proved(r)
    BY <2>2 DEF Proved
  <2>3. CASE ProveFailed(r)
    BY <2>3 DEF ProveFailed
  <2>4. CASE ProofMalformed(r)
    BY <2>4 DEF ProofMalformed, HandlersLive
  <2>5. CASE Sent(r)
    BY <2>5 DEF Sent
  <2>6. CASE SendFailed(r)
    <3>1. /\ pc[r] = "submitting" /\ pc' = [pc EXCEPT ![r] = "restoring"]
          /\ UNCHANGED <<canonical_state, mempool, stateRoot, settled, up, job, accepted>>
      BY <2>6 DEF SendFailed
    <3>2. l1tx' = l1tx \/ l1tx' = [l1tx EXCEPT ![r] = "pending"]
      BY <2>6 DEF SendFailed
    <3> QED BY <3>1, <3>2
  <2>7. CASE ReceiptOk(r)
    BY <2>7 DEF ReceiptOk
  <2>8. CASE ReceiptReverted(r)
    BY <2>8 DEF ReceiptReverted
  <2>9. CASE ReceiptFailed(r)
    BY <2>9 DEF ReceiptFailed
  <2>10. CASE Respond(r)
    BY <2>10 DEF Respond
  <2>11. CASE Evict(r)
    BY <2>11 DEF Evict
  <2>12. CASE Mine(r) /\ l1tx'[r] # "succeeded"
    <3>1. /\ l1tx[r] = "pending" /\ l1tx' = [l1tx EXCEPT ![r] = "reverted"]
          /\ UNCHANGED <<sequencerVars, rollupVars, up, pc, job, accepted>>
      BY <2>12 DEF Mine
    <3> QED BY <3>1
  <2> QED BY <2>1, <2>2, <2>3, <2>4, <2>5, <2>6, <2>7, <2>8, <2>9, <2>10, <2>11, <2>12
<1>3. \A q \in Request : (Drained(q)' => Drained(q)) /\ (Waiting(q) => Waiting(q)')
  <2>1. ASSUME NEW q \in Request, q # r
        PROVE  (Drained(q)' => Drained(q)) /\ (Waiting(q) => Waiting(q)')
    BY <1>2, <2>1 DEF Drained, Waiting
  <2> QED BY <1>2, <2>1
<1>4. QED
  BY <1>2, <1>3, KeptSteady

LEMMA KeptStep ==
  ASSUME HandlersLive, TotalBalance(Genesis) <= MaxU64, IInv, KeptInv, [Next]_vars
  PROVE  KeptInv'
<1>1. SUFFICES ASSUME OneEach(accepted') PROVE Kept'
  BY DEF KeptInv
<1>2. ASSUME accepted' = accepted
      PROVE  OneEach(accepted) /\ Kept
  BY <1>1, <1>2 DEF KeptInv
<1>3. ASSUME NEW tx \in Txs, submit_tx(tx)
      PROVE  Kept'
  <2>1. OneEach(accepted)
    BY <1>1, <1>3 DEF submit_tx, OneEach
  <2> QED BY <1>1, <1>3, <2>1, KeptSubmit DEF KeptInv
<1>4. ASSUME UNCHANGED vars
      PROVE  Kept'
  <2>1. UNCHANGED <<canonical_state, mempool, stateRoot, settled, up, job, accepted, pc, l1tx>>
    BY <1>4 DEF vars, sequencerVars, rollupVars
  <2>2. \A r \in Request : (Drained(r)' => Drained(r)) /\ (Waiting(r) => Waiting(r)')
    BY <2>1 DEF Drained, Waiting
  <2> QED BY <1>2, <2>1, <2>2, KeptSteady
<1>5. ASSUME NEW r \in Request,
             Trigger(r) \/ Progress(r) \/ Mine(r) \/ Evict(r) \/ Disconnect(r)
      PROVE  Kept'
  <2>1. accepted' = accepted
    BY <1>5 DEF Trigger, TriggerEmpty, TriggerDrain, Progress, Proved, ProveFailed,
                ProofMalformed, Sent, SendFailed, ReceiptOk, ReceiptReverted, ReceiptFailed,
                Restore, Commit, Respond, Mine, Evict, Disconnect
  <2>2. OneEach(accepted) /\ Kept
    BY <1>2, <2>1
  <2>3. CASE TriggerDrain(r)
    BY <2>2, <2>3, KeptDrain
  <2>4. CASE Restore(r)
    BY <2>2, <2>4, KeptRestore
  <2>5. CASE Commit(r)
    BY <2>2, <2>5, KeptCommit
  <2>6. CASE Mine(r) /\ l1tx'[r] = "succeeded"
    BY <2>2, <2>6, KeptSettle
  <2>7. CASE Disconnect(r)
    BY <2>7 DEF Disconnect, HandlersLive
  <2>8. CASE \/ TriggerEmpty(r) \/ Proved(r) \/ ProveFailed(r) \/ ProofMalformed(r)
             \/ Sent(r) \/ SendFailed(r) \/ ReceiptOk(r) \/ ReceiptReverted(r)
             \/ ReceiptFailed(r) \/ Respond(r) \/ Evict(r)
             \/ (Mine(r) /\ l1tx'[r] # "succeeded")
    BY <2>2, <2>8, KeptRequestStep
  <2> QED BY <1>5, <2>3, <2>4, <2>5, <2>6, <2>7, <2>8 DEF Trigger, Progress
<1>6. CASE Crash
  BY <1>6 DEF Crash, HandlersLive
<1>7. CASE Restart
  <2>1. accepted' = accepted /\ ~up
    BY <1>7 DEF Restart
  <2> QED BY <1>2, <2>1 DEF Kept
<1>8. QED
  BY <1>3, <1>4, <1>5, <1>6, <1>7 DEF Next, reject_tx, RestartBails

LEMMA InitKept == Init => KeptInv
<1> SUFFICES ASSUME Init PROVE Kept
  BY DEF KeptInv
<1>1. /\ accepted = {} /\ up /\ mempool = <<>> /\ canonical_state = Genesis
      /\ stateRoot = merkle_root(Genesis)
      /\ \A r \in Request : pc[r] = "idle" /\ l1tx[r] = "none"
  BY DEF Init, InitialSequencer, constructor
<1>2. L1State = Genesis
  BY <1>1, StateOfRoot, SettlementAssumption DEF L1State
<1>3. Done({}, Genesis) = {}
  BY DEF Done
<1>4. \A x : SumOf(Net(x), {}) = 0
  BY FS_EmptySet, SumEquation
<1>5. ASSUME NEW x \in Address
      PROVE  get(Genesis, x).balance \in Int /\ get(Genesis, x).nonce \in Nat
  BY GetType, SettlementAssumption, MaxU64Assumption DEF Account, U64
<1>6. Reached({}, Genesis)
  <2>1. FiniteState(Genesis)
    BY SettlementAssumption, GenesisAssumption DEF FiniteState
  <2>2. ASSUME NEW x \in Address
        PROVE  get(Genesis, x).balance = get(Genesis, x).balance + SumOf(Net(x), Done({}, Genesis))
    BY <1>3, <1>4, <1>5
  <2>3. ASSUME NEW x \in Address, NEW n \in U64
        PROVE  ~(get(Genesis, x).nonce <= n /\ n < get(Genesis, x).nonce)
    BY <1>5, MaxU64Assumption DEF U64
  <2>4. ASSUME NEW x \in Address
        PROVE  get(Genesis, x).nonce <= get(Genesis, x).nonce
    BY <1>5
  <2> QED BY <2>1, <2>2, <2>3, <2>4 DEF Reached
<1>7. Entries(mempool) \subseteq {}
  BY <1>1 DEF Entries
<1>8. \A r \in Request : ~Drained(r)
  BY <1>1 DEF Drained, Live
<1>9. QED
  BY <1>1, <1>2, <1>3, <1>6, <1>7, <1>8, FS_EmptySet DEF Kept

\* If no sender signs two transactions for one nonce, every transaction that
\* POST /tx accepted is in the mempool, in a batch in flight or settled: with any
\* number of requests, transactions and accounts, and also when receipts are lost
\* or L1 takes what it said it refused. The faults excluded are those that make a
\* handler drop its batch, and the supply has to fit in a balance.
THEOREM AcceptedIsKept ==
  ASSUME HandlersLive, TotalBalance(Genesis) <= MaxU64
  PROVE  Spec => []NoAcceptedTxIsLost
<1>1. Init => KeptInv
  BY InitKept
<1>2. IInv /\ KeptInv /\ [Next]_vars => KeptInv'
  BY KeptStep
<1>3. KeptInv => NoAcceptedTxIsLost
  BY DEF KeptInv, Kept, OneEach, NoAcceptedTxIsLost
<1>4. QED
  BY <1>1, <1>2, <1>3, Invariance, PTL DEF Spec
=============================================================================
