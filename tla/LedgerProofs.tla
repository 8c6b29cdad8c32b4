---------------------------- MODULE LedgerProofs ----------------------------
(***************************************************************************)
(* Proofs about Ledger: the sorted vector of the code does what Stf says   *)
(* of functions.  A binary search in a sorted vector comes to the place of *)
(* the address; hence `get` finds what is there, `set` keeps the vector    *)
(* sorted and without duplicates, and a state has one vector only.         *)
(***************************************************************************)
EXTENDS Ledger, SettlementProofs

\* The place of an address: all entries before it are smaller, none from it on is.
IsPlace(vec, address, p) ==
  /\ p \in 1..Len(vec) + 1
  /\ \A i \in 1..Len(vec) : i < p => vec[i].address < address
  /\ \A i \in 1..Len(vec) : p <= i => address <= vec[i].address

\* What a vector of entries is made of.
LEMMA EntryType ==
  ASSUME NEW vec \in Seq(Entry)
  PROVE  /\ Len(vec) \in Nat
         /\ \A i \in 1..Len(vec) :
              /\ vec[i] \in Entry
              /\ vec[i].address \in Address /\ vec[i].address \in Nat
              /\ vec[i].account \in Account
              /\ vec[i] = EntryOf(vec[i].address, vec[i].account)
<1>1. Len(vec) \in Nat /\ \A i \in 1..Len(vec) : vec[i] \in Entry
  OBVIOUS
<1>2. ASSUME NEW e \in Entry
      PROVE  /\ e.address \in Address /\ e.address \in Nat /\ e.account \in Account
             /\ e = EntryOf(e.address, e.account)
  BY AddressAssumption DEF Entry, EntryOf
<1>3. QED
  BY <1>1, <1>2

\* Every address has a place in a sorted vector.
LEMMA PlaceExists ==
  ASSUME NEW vec \in Seq(Entry), InAddressOrder(vec), NEW x \in Address
  PROVE  \E p : IsPlace(vec, x, p)
<1> DEFINE n == Len(vec)
           After == {i \in 1..n + 1 : i <= n => x <= vec[i].address}
<1>1. n \in Nat /\ x \in Nat /\ \A i \in 1..n : vec[i].address \in Nat
  BY EntryType, AddressAssumption
<1>2. PICK p \in After : \A k \in After : p <= k
  <2>1. After \in SUBSET Nat /\ n + 1 \in After
    BY <1>1
  <2> HIDE DEF After
  <2> QED BY <2>1, LeastNatural
<1>3. ASSUME NEW i \in 1..n, i < p
      PROVE  vec[i].address < x
  <2>1. i \notin After
    BY <1>1, <1>2, <1>3
  <2> QED BY <1>1, <2>1
<1>4. ASSUME NEW i \in 1..n, p <= i
      PROVE  x <= vec[i].address
  <2>1. p \in 1..n /\ x <= vec[p].address
    BY <1>1, <1>2, <1>4
  <2>2. CASE i = p
    BY <2>1, <2>2
  <2>3. CASE i # p
    <3>1. p < i
      BY <1>1, <1>4, <2>1, <2>3
    <3>2. vec[p].address < vec[i].address
      BY <2>1, <3>1 DEF InAddressOrder
    <3> QED BY <1>1, <2>1, <3>2
  <2> QED BY <2>2, <2>3
<1>5. QED
  BY <1>2, <1>3, <1>4 DEF IsPlace

----------------------------------------------------------------------------
(* The search.                                                             *)

Window(n) == [lo : 1..n + 1, hi : 0..n]

\* One step of binary_search, which goes on by f.
SearchAt(vec, address, f, w, mid) ==
  IF w.lo > w.hi THEN [ok |-> FALSE, index |-> w.lo]
  ELSE IF vec[mid].address = address THEN [ok |-> TRUE, index |-> mid]
  ELSE IF vec[mid].address < address THEN f[[lo |-> mid + 1, hi |-> w.hi]]
  ELSE f[[lo |-> w.lo, hi |-> mid - 1]]

SearchStep(vec, address, f, w) == SearchAt(vec, address, f, w, (w.lo + w.hi) \div 2)

\* What the search of a window comes to when p is the place in the whole vector.
SearchResult(vec, address, p, w) ==
  IF w.lo <= p /\ p <= w.hi /\ vec[p].address = address
  THEN [ok |-> TRUE, index |-> p]
  ELSE [ok |-> FALSE, index |-> IF p <= w.lo \/ w.lo > w.hi THEN w.lo
                                ELSE IF p > w.hi THEN w.hi + 1 ELSE p]

\* What windows are measured by, for the induction on their size.
LEMMA Measure ==
  ASSUME NEW n \in Nat, NEW lo \in 1..n + 1, NEW hi \in 0..n
  PROVE  hi - lo + n + 1 \in Nat
OBVIOUS

LEMMA SmallerMeasure ==
  ASSUME NEW n \in Nat, NEW lo \in 1..n + 1, NEW hi \in 0..n,
         NEW lo2 \in 1..n + 1, NEW hi2 \in 0..n, hi2 - lo2 < hi - lo
  PROVE  ~(hi - lo + n + 1 <= hi2 - lo2 + n + 1)
OBVIOUS

\* The middle of a window lies in it, and so do the windows on both sides of it.
LEMMA Middle ==
  ASSUME NEW n \in Nat, NEW w \in Window(n), w.lo <= w.hi,
         NEW mid, mid = (w.lo + w.hi) \div 2
  PROVE  /\ mid \in 1..n /\ w.lo <= mid /\ mid <= w.hi
         /\ [lo |-> mid + 1, hi |-> w.hi] \in Window(n)
         /\ [lo |-> w.lo, hi |-> mid - 1] \in Window(n)
<1>1. w.lo \in 1..n + 1 /\ w.hi \in 0..n
  BY DEF Window
<1>2. mid \in 1..n /\ w.lo <= mid /\ mid <= w.hi
  BY <1>1
<1>3. mid + 1 \in 1..n + 1 /\ mid - 1 \in 0..n
  BY <1>2
<1>4. QED
  BY <1>1, <1>2, <1>3 DEF Window

\* In a sorted vector the results are what one step makes of the results of the
\* smaller windows.
LEMMA ResultStep ==
  ASSUME NEW vec \in Seq(Entry), NEW x \in Address, NEW p, IsPlace(vec, x, p),
         NEW f, NEW w \in Window(Len(vec)),
         f = [v \in Window(Len(vec)) |-> SearchResult(vec, x, p, v)],
         InAddressOrder(vec)
  PROVE  SearchStep(vec, x, f, w) = SearchResult(vec, x, p, w)
<1> DEFINE n == Len(vec)
           mid == (w.lo + w.hi) \div 2
           right == [lo |-> mid + 1, hi |-> w.hi]
           left == [lo |-> w.lo, hi |-> mid - 1]
<1>1. /\ n \in Nat /\ x \in Nat /\ \A i \in 1..n : vec[i].address \in Nat
      /\ p \in 1..n + 1
      /\ \A i \in 1..n : i < p => vec[i].address < x
      /\ \A i \in 1..n : p <= i => x <= vec[i].address
      /\ w.lo \in 1..n + 1 /\ w.hi \in 0..n
  BY EntryType, AddressAssumption DEF IsPlace, Window
<1>2. SearchStep(vec, x, f, w) = SearchAt(vec, x, f, w, mid)
  BY DEF SearchStep
<1>3. CASE w.lo > w.hi
  <2> HIDE DEF mid
  <2> QED BY <1>1, <1>2, <1>3 DEF SearchAt, SearchResult
<1>4. CASE w.lo <= w.hi
  <2>1. /\ mid \in 1..n /\ w.lo <= mid /\ mid <= w.hi
        /\ right \in Window(n) /\ left \in Window(n)
    <3> HIDE DEF mid
    <3> QED BY <1>1, <1>4, Middle DEF mid
  <2> HIDE DEF mid
  <2>2. /\ right.lo = mid + 1 /\ right.hi = w.hi
        /\ left.lo = w.lo /\ left.hi = mid - 1
    OBVIOUS
  <2>3. f[right] = SearchResult(vec, x, p, right) /\ f[left] = SearchResult(vec, x, p, left)
    <3> HIDE DEF right, left
    <3> QED BY <2>1
  <2>4. CASE vec[mid].address = x
    <3>1. mid = p
      <4>1. ~(mid < p)
        BY <1>1, <2>1, <2>4
      <4>2. ASSUME p < mid PROVE FALSE
        <5>1. p \in 1..n
          BY <1>1, <2>1, <4>2
        <5>2. vec[p].address < vec[mid].address
          BY <2>1, <4>2, <5>1 DEF InAddressOrder
        <5>3. x <= vec[p].address
          BY <1>1, <5>1
        <5> QED BY <1>1, <2>4, <5>1, <5>2, <5>3
      <4> QED BY <1>1, <2>1, <4>1, <4>2
    <3>2. SearchAt(vec, x, f, w, mid) = [ok |-> TRUE, index |-> mid]
      BY <1>1, <1>4, <2>4 DEF SearchAt
    <3>3. SearchResult(vec, x, p, w) = [ok |-> TRUE, index |-> mid]
      BY <2>1, <2>4, <3>1 DEF SearchResult
    <3> QED BY <1>2, <3>2, <3>3
  <2>5. CASE vec[mid].address < x
    <3>1. mid < p
      BY <1>1, <2>1, <2>5
    <3>2. SearchAt(vec, x, f, w, mid) = f[right]
      <4> HIDE DEF right, left
      <4>1. ~(w.lo > w.hi) /\ vec[mid].address # x /\ ~(vec[mid].address > x)
        BY <1>1, <1>4, <2>1, <2>5
      <4> QED BY <1>4, <2>5, <4>1 DEF SearchAt, right
    <3> HIDE DEF right, left
    <3>3. SearchResult(vec, x, p, right) = SearchResult(vec, x, p, w)
      <4>1. /\ (w.lo <= p /\ p <= w.hi) <=> (right.lo <= p /\ p <= right.hi)
            /\ (IF p <= w.lo \/ w.lo > w.hi THEN w.lo ELSE IF p > w.hi THEN w.hi + 1 ELSE p)
                 = (IF p <= right.lo \/ right.lo > right.hi THEN right.lo
                    ELSE IF p > right.hi THEN right.hi + 1 ELSE p)
        BY <1>1, <1>4, <2>1, <2>2, <3>1
      <4> QED BY <4>1 DEF SearchResult
    <3> QED BY <1>2, <2>3, <3>2, <3>3
  <2>6. CASE vec[mid].address > x
    <3>1. p <= mid
      <4>1. ASSUME mid < p PROVE FALSE
        BY <1>1, <2>1, <2>6, <4>1
      <4> QED BY <1>1, <2>1, <4>1
    <3>2. SearchAt(vec, x, f, w, mid) = f[left]
      <4> HIDE DEF right, left
      <4>1. ~(w.lo > w.hi) /\ vec[mid].address # x /\ ~(vec[mid].address < x)
        BY <1>1, <1>4, <2>1, <2>6
      <4> QED BY <1>4, <2>6, <4>1 DEF SearchAt, left
    <3>3. p = mid => vec[p].address # x
      BY <1>1, <2>1, <2>6
    <3> HIDE DEF right, left
    <3>4. SearchResult(vec, x, p, left) = SearchResult(vec, x, p, w)
      <4>1. (w.lo <= p /\ p <= w.hi /\ vec[p].address = x)
              <=> (left.lo <= p /\ p <= left.hi /\ vec[p].address = x)
        BY <1>1, <1>4, <2>1, <2>2, <3>1, <3>3
      <4>2. (IF p <= w.lo \/ w.lo > w.hi THEN w.lo ELSE IF p > w.hi THEN w.hi + 1 ELSE p)
              = (IF p <= left.lo \/ left.lo > left.hi THEN left.lo
                 ELSE IF p > left.hi THEN left.hi + 1 ELSE p)
        BY <1>1, <1>4, <2>1, <2>2, <3>1
      <4> QED BY <4>1, <4>2 DEF SearchResult
    <3> QED BY <1>2, <2>3, <3>2, <3>4
  <2> QED BY <1>1, <2>1, <2>4, <2>5, <2>6
<1>5. QED
  BY <1>1, <1>3, <1>4

\* A binary search in a sorted vector finds the address, or the place to insert it.
LEMMA SearchFinds ==
  ASSUME NEW vec \in Seq(Entry), NEW x \in Address, NEW p, IsPlace(vec, x, p),
         InAddressOrder(vec)
  PROVE  /\ binary_search(vec, x).ok <=> p <= Len(vec) /\ vec[p].address = x
         /\ binary_search(vec, x).index = p
<1> DEFINE n == Len(vec)
           Eqn(f) == f = [w \in Window(n) |-> SearchStep(vec, x, f, w)]
           F == [w \in Window(n) |-> SearchResult(vec, x, p, w)]
           all == [lo |-> 1, hi |-> n]
           search == CHOOSE f : Eqn(f)
           Bad == {k \in Nat : \E w \in Window(n) :
                                 search[w] # F[w] /\ k = w.hi - w.lo + n + 1}
<1>1. n \in Nat /\ p \in 1..n + 1 /\ all \in Window(n) /\ all.lo = 1 /\ all.hi = n
  BY EntryType DEF IsPlace, Window
<1>2. binary_search(vec, x) = search[all]
  BY DEF binary_search, SearchStep, SearchAt, Window
<1>3. \A w \in Window(n) : SearchStep(vec, x, F, w) = F[w]
  <2>1. \A w \in Window(n) : F[w] = SearchResult(vec, x, p, w)
    OBVIOUS
  <2>2. SUFFICES ASSUME NEW w \in Window(n)
                 PROVE  SearchStep(vec, x, F, w) = SearchResult(vec, x, p, w)
    BY <2>1
  <2>3. F = [v \in Window(n) |-> SearchResult(vec, x, p, v)]
    OBVIOUS
  <2> HIDE DEF F
  <2> QED BY <2>3, ResultStep
<1>4. Eqn(F)
  BY <1>3
<1> HIDE DEF F
<1>5. Eqn(search)
  <2>1. \E f : Eqn(f)
    BY <1>4
  <2> HIDE DEF Eqn
  <2> QED BY <2>1
<1>6. \A w \in Window(n) : search[w] = SearchStep(vec, x, search, w)
  <2> HIDE DEF search
  <2> QED BY <1>5
<1> HIDE DEF search, Eqn
<1>7. Bad = {}
  <2>1. SUFFICES ASSUME Bad # {} PROVE FALSE
    OBVIOUS
  <2>2. PICK m \in Bad : \A k \in Bad : m <= k
    <3>1. Bad \in SUBSET Nat
      OBVIOUS
    <3> HIDE DEF Bad
    <3> QED BY <2>1, <3>1, LeastNatural
  <2>3. PICK w \in Window(n) : search[w] # F[w] /\ m = w.hi - w.lo + n + 1
    BY <2>2
  <2>4. w.lo \in 1..n + 1 /\ w.hi \in 0..n
    BY DEF Window
  <2>5. ASSUME NEW v \in Window(n), v.hi - v.lo < w.hi - w.lo
        PROVE  search[v] = F[v]
    <3>1. v.lo \in 1..n + 1 /\ v.hi \in 0..n
      BY DEF Window
    <3>2. v.hi - v.lo + n + 1 \in Nat
      <4> HIDE DEF n
      <4> QED BY <1>1, <3>1, Measure
    <3>3. ~(m <= v.hi - v.lo + n + 1)
      <4> HIDE DEF n
      <4>1. ~(w.hi - w.lo + n + 1 <= v.hi - v.lo + n + 1)
        BY <1>1, <2>4, <2>5, <3>1, SmallerMeasure
      <4> QED BY <2>3, <4>1
    <3>4. v.hi - v.lo + n + 1 \notin Bad
      BY <2>2, <3>3
    <3> QED BY <3>2, <3>4
  <2> DEFINE mid == (w.lo + w.hi) \div 2
             right == [lo |-> mid + 1, hi |-> w.hi]
             left == [lo |-> w.lo, hi |-> mid - 1]
  <2>6. ASSUME w.lo <= w.hi
        PROVE  search[right] = F[right] /\ search[left] = F[left]
    <3>1. /\ mid \in 1..n /\ w.lo <= mid /\ mid <= w.hi
          /\ right \in Window(n) /\ left \in Window(n)
      <4> HIDE DEF mid
      <4> QED BY <1>1, <2>6, Middle DEF mid
    <3> HIDE DEF mid
    <3>2. /\ right.lo = mid + 1 /\ right.hi = w.hi
          /\ left.lo = w.lo /\ left.hi = mid - 1
      OBVIOUS
    <3> HIDE DEF right, left
    <3>3. right.hi - right.lo < w.hi - w.lo /\ left.hi - left.lo < w.hi - w.lo
      BY <1>1, <2>4, <3>1, <3>2
    <3> QED BY <2>5, <3>1, <3>3
  <2>7. SearchStep(vec, x, search, w) = SearchStep(vec, x, F, w)
    <3>1. SearchAt(vec, x, search, w, mid) = SearchAt(vec, x, F, w, mid)
      <4> HIDE DEF mid
      <4>1. CASE w.lo > w.hi
        BY <2>4, <4>1 DEF SearchAt
      <4>2. CASE w.lo <= w.hi
        BY <2>4, <2>6, <4>2 DEF SearchAt
      <4> QED BY <2>4, <4>1, <4>2
    <3> QED BY <3>1 DEF SearchStep
  <2> QED BY <1>3, <1>6, <2>3, <2>7
<1> HIDE DEF all
<1>8. search[all] = F[all]
  <2>1. all.hi - all.lo + n + 1 \in Nat
    <3> HIDE DEF n
    <3> QED BY <1>1
  <2> QED BY <1>1, <1>7, <2>1
<1>9. F[all] = SearchResult(vec, x, p, all)
  BY <1>1 DEF F
<1>10. /\ SearchResult(vec, x, p, all).ok <=> p <= n /\ vec[p].address = x
       /\ SearchResult(vec, x, p, all).index = p
  <2> HIDE DEF n
  <2>1. (1 <= p /\ p <= n /\ vec[p].address = x) <=> (p <= n /\ vec[p].address = x)
    BY <1>1
  <2>2. (IF p <= 1 \/ 1 > n THEN 1 ELSE IF p > n THEN n + 1 ELSE p) = p
    BY <1>1
  <2>3. CASE p <= n /\ vec[p].address = x
    <3>1. SearchResult(vec, x, p, all) = [ok |-> TRUE, index |-> p]
      BY <1>1, <2>1, <2>3 DEF SearchResult
    <3> QED BY <2>3, <3>1
  <2>4. CASE ~(p <= n /\ vec[p].address = x)
    <3>1. SearchResult(vec, x, p, all) = [ok |-> FALSE, index |-> p]
      BY <1>1, <2>1, <2>2, <2>4 DEF SearchResult
    <3> QED BY <2>4, <3>1
  <2> QED BY <2>3, <2>4
<1>11. QED
  BY <1>2, <1>8, <1>9, <1>10

----------------------------------------------------------------------------
(* get and set.                                                            *)

\* In a sorted vector no address occurs twice.
LEMMA NoDuplicates ==
  ASSUME NEW vec \in Seq(Entry), InAddressOrder(vec),
         NEW i \in 1..Len(vec), NEW j \in 1..Len(vec), vec[i].address = vec[j].address
  PROVE  i = j
<1>1. vec[i].address \in Nat /\ vec[j].address \in Nat /\ Len(vec) \in Nat
  BY EntryType
<1>2. CASE i < j
  <2>1. vec[i].address < vec[j].address
    BY <1>2 DEF InAddressOrder
  <2> QED BY <1>1, <2>1
<1>3. CASE j < i
  <2>1. vec[j].address < vec[i].address
    BY <1>3 DEF InAddressOrder
  <2> QED BY <1>1, <2>1
<1>4. QED
  BY <1>1, <1>2, <1>3

\* An address that occurs at all occurs at its place.
LEMMA AtItsPlace ==
  ASSUME NEW vec \in Seq(Entry), InAddressOrder(vec), NEW x \in Address,
         NEW p, IsPlace(vec, x, p), NEW i \in 1..Len(vec), vec[i].address = x
  PROVE  p = i
<1>1. Len(vec) \in Nat /\ x \in Nat /\ \A j \in 1..Len(vec) : vec[j].address \in Nat
  BY EntryType, AddressAssumption
<1>2. /\ p \in 1..Len(vec) + 1
      /\ \A j \in 1..Len(vec) : j < p => vec[j].address < x
      /\ \A j \in 1..Len(vec) : p <= j => x <= vec[j].address
  BY DEF IsPlace
<1>3. ~(i < p)
  BY <1>1, <1>2
<1>4. p \in 1..Len(vec) /\ p <= i /\ x <= vec[p].address
  BY <1>1, <1>2, <1>3
<1>5. ~(p < i)
  <2>1. p < i => vec[p].address < vec[i].address
    BY <1>4 DEF InAddressOrder
  <2> QED BY <1>1, <1>4, <2>1
<1>6. QED
  BY <1>1, <1>4, <1>5

\* A vector that represents a state holds its accounts, each once.
LEMMA Represented ==
  ASSUME NEW s \in State, NEW vec, Represents(vec, s)
  PROVE  /\ vec \in Seq(Entry)
         /\ Len(vec) \in Nat
         /\ InAddressOrder(vec)
         /\ \A i \in 1..Len(vec) :
              /\ vec[i].address \in DOMAIN s
              /\ vec[i].account = s[vec[i].address]
              /\ vec[i] = EntryOf(vec[i].address, s[vec[i].address])
         /\ \A y \in DOMAIN s : \E i \in 1..Len(vec) : vec[i] = EntryOf(y, s[y])
<1>1. vec \in Seq(Entry) /\ Len(vec) \in Nat /\ InAddressOrder(vec)
      /\ DOMAIN vec = 1..Len(vec)
  BY DEF Represents
<1>2. {vec[i] : i \in 1..Len(vec)} = {EntryOf(y, s[y]) : y \in DOMAIN s}
  BY <1>1 DEF Represents, ToSet, EntriesOf
<1>3. ASSUME NEW i \in 1..Len(vec)
      PROVE  /\ vec[i].address \in DOMAIN s
             /\ vec[i].account = s[vec[i].address]
             /\ vec[i] = EntryOf(vec[i].address, s[vec[i].address])
  <2>1. PICK y \in DOMAIN s : vec[i] = EntryOf(y, s[y])
    BY <1>2
  <2>2. vec[i].address = y /\ vec[i].account = s[y]
    BY <2>1 DEF EntryOf
  <2> QED BY <2>1, <2>2
<1>4. \A y \in DOMAIN s : \E i \in 1..Len(vec) : vec[i] = EntryOf(y, s[y])
  BY <1>2
<1>5. QED
  BY <1>1, <1>3, <1>4

\* Conversely, a sorted vector that holds all accounts of a state and no others.
LEMMA Representing ==
  ASSUME NEW s, NEW vec \in Seq(Entry), InAddressOrder(vec),
         \A i \in 1..Len(vec) :
           vec[i].address \in DOMAIN s /\ vec[i] = EntryOf(vec[i].address, s[vec[i].address]),
         \A y \in DOMAIN s : \E i \in 1..Len(vec) : vec[i] = EntryOf(y, s[y])
  PROVE  Represents(vec, s)
<1>1. {vec[i] : i \in 1..Len(vec)} = {EntryOf(y, s[y]) : y \in DOMAIN s}
  <2>1. ASSUME NEW i \in 1..Len(vec)
        PROVE  \E y \in DOMAIN s : vec[i] = EntryOf(y, s[y])
    OBVIOUS
  <2>2. \A y \in DOMAIN s : \E i \in 1..Len(vec) : EntryOf(y, s[y]) = vec[i]
    <3> TAKE y \in DOMAIN s
    <3>1. PICK i \in 1..Len(vec) : vec[i] = EntryOf(y, s[y])
      OBVIOUS
    <3> QED BY <3>1
  <2> DEFINE A == {vec[i] : i \in 1..Len(vec)}
             B == {EntryOf(y, s[y]) : y \in DOMAIN s}
  <2>3. ASSUME NEW e \in A PROVE e \in B
    <3>1. PICK i \in 1..Len(vec) : e = vec[i]
      OBVIOUS
    <3> QED BY <2>1, <3>1, Zenon
  <2>4. ASSUME NEW e \in B PROVE e \in A
    <3>1. PICK y \in DOMAIN s : e = EntryOf(y, s[y])
      OBVIOUS
    <3> QED BY <2>2, <3>1, Zenon
  <2> HIDE DEF A, B
  <2>5. A = B
    BY <2>3, <2>4, Zenon
  <2> QED BY <2>5 DEF A, B
<1>2. DOMAIN vec = 1..Len(vec)
  OBVIOUS
<1>3. QED
  BY <1>1, <1>2 DEF Represents, ToSet, EntriesOf

\* Where an account of the state is found.
LEMMA PlaceInState ==
  ASSUME NEW s \in State, NEW vec, Represents(vec, s), NEW x \in Address,
         NEW p, IsPlace(vec, x, p)
  PROVE  /\ binary_search(vec, x).ok <=> x \in DOMAIN s
         /\ binary_search(vec, x).index = p
         /\ x \in DOMAIN s => p \in 1..Len(vec) /\ vec[p] = EntryOf(x, s[x])
<1>1. /\ vec \in Seq(Entry) /\ Len(vec) \in Nat /\ InAddressOrder(vec)
      /\ \A i \in 1..Len(vec) : vec[i].address \in DOMAIN s
      /\ \A y \in DOMAIN s : \E i \in 1..Len(vec) : vec[i] = EntryOf(y, s[y])
  BY Represented
<1>2. p \in 1..Len(vec) + 1
  BY DEF IsPlace
<1>3. x \in DOMAIN s => p \in 1..Len(vec) /\ vec[p] = EntryOf(x, s[x])
  <2> SUFFICES ASSUME x \in DOMAIN s
               PROVE  p \in 1..Len(vec) /\ vec[p] = EntryOf(x, s[x])
    OBVIOUS
  <2>1. PICK i \in 1..Len(vec) : vec[i] = EntryOf(x, s[x])
    BY <1>1
  <2>2. vec[i].address = x
    BY <2>1 DEF EntryOf
  <2>3. p = i
    BY <1>1, <2>2, AtItsPlace
  <2> QED BY <2>1, <2>3
<1>4. (p <= Len(vec) /\ vec[p].address = x) <=> x \in DOMAIN s
  <2>1. ASSUME x \in DOMAIN s
        PROVE  p <= Len(vec) /\ vec[p].address = x
    <3>1. p \in 1..Len(vec) /\ vec[p] = EntryOf(x, s[x])
      BY <1>3, <2>1
    <3> QED BY <1>1, <3>1 DEF EntryOf
  <2>2. ASSUME p <= Len(vec), vec[p].address = x
        PROVE  x \in DOMAIN s
    <3>1. p \in 1..Len(vec)
      BY <1>1, <1>2, <2>2
    <3> QED BY <1>1, <2>2, <3>1
  <2> QED BY <2>1, <2>2
<1>5. /\ binary_search(vec, x).ok <=> p <= Len(vec) /\ vec[p].address = x
      /\ binary_search(vec, x).index = p
  BY <1>1, SearchFinds
<1>6. QED
  BY <1>3, <1>4, <1>5

\* State::get.
LEMMA GetRepresents ==
  ASSUME NEW s \in State, NEW vec, Represents(vec, s), NEW x \in Address
  PROVE  VecGet(vec, x) = get(s, x)
<1>1. PICK p : IsPlace(vec, x, p)
  BY Represented, PlaceExists
<1>2. /\ binary_search(vec, x).ok <=> x \in DOMAIN s
      /\ binary_search(vec, x).index = p
      /\ x \in DOMAIN s => p \in 1..Len(vec) /\ vec[p] = EntryOf(x, s[x])
  BY <1>1, PlaceInState
<1> DEFINE found == binary_search(vec, x)
<1>3. (found.ok <=> x \in DOMAIN s) /\ found.index = p
  BY <1>2
<1>4. VecGet(vec, x) = IF found.ok THEN vec[found.index].account ELSE DefaultAccount
  BY DEF VecGet
<1> HIDE DEF found
<1>5. x \in DOMAIN s => vec[p].account = s[x]
  BY <1>2 DEF EntryOf
<1>6. QED
  BY <1>3, <1>4, <1>5 DEF get

\* The elements of a sequence with one more inserted.
LEMMA Inserted ==
  ASSUME NEW S, NEW q \in Seq(S), NEW e \in S, NEW p \in 1..Len(q) + 1
  PROVE  /\ InsertAt(q, p, e) \in Seq(S)
         /\ Len(InsertAt(q, p, e)) = Len(q) + 1
         /\ \A i \in 1..Len(q) + 1 :
              InsertAt(q, p, e)[i] = IF i < p THEN q[i] ELSE IF i = p THEN e ELSE q[i - 1]
<1> DEFINE before == SubSeq(q, 1, p - 1)
           after  == SubSeq(q, p, Len(q))
<1>1. Len(q) \in Nat
  OBVIOUS
<1>2. /\ before \in Seq(S) /\ Len(before) = p - 1
      /\ \A i \in 1..p - 1 : before[i] = q[i]
  BY <1>1
<1>3. /\ after \in Seq(S) /\ Len(after) = Len(q) + 1 - p
      /\ \A i \in 1..Len(q) + 1 - p : after[i] = q[p + i - 1]
  BY <1>1
<1>4. InsertAt(q, p, e) = before \o <<e>> \o after
  BY DEF InsertAt
<1> HIDE DEF before, after
<1> DEFINE front == before \o <<e>>
<1>5. /\ front \in Seq(S) /\ Len(front) = p
      /\ \A i \in 1..p : front[i] = IF i < p THEN q[i] ELSE e
  <2>1. front \in Seq(S) /\ Len(front) = p
    BY <1>1, <1>2
  <2>2. ASSUME NEW i \in 1..p
        PROVE  front[i] = IF i < p THEN q[i] ELSE e
    BY <1>1, <1>2
  <2> QED BY <2>1, <2>2
<1> HIDE DEF front
<1>6. /\ front \o after \in Seq(S) /\ Len(front \o after) = Len(q) + 1
  BY <1>1, <1>3, <1>5
<1>7. ASSUME NEW i \in 1..Len(q) + 1
      PROVE  (front \o after)[i] = IF i < p THEN q[i] ELSE IF i = p THEN e ELSE q[i - 1]
  <2>1. CASE i <= p
    <3>1. i \in 1..Len(front)
      BY <1>1, <1>5, <2>1
    <3>2. (front \o after)[i] = front[i]
      BY <1>3, <1>5, <3>1
    <3>3. i \in 1..p /\ (~(i < p) => i = p)
      BY <1>1, <2>1
    <3> QED BY <1>5, <3>2, <3>3
  <2>2. CASE i > p
    <3>1. i - p \in 1..Len(q) + 1 - p /\ p + (i - p) - 1 = i - 1
      BY <1>1, <2>2
    <3>2. (front \o after)[i] = after[i - p]
      BY <1>1, <1>3, <1>5, <2>2, <3>1
    <3>3. after[i - p] = q[i - 1]
      BY <1>3, <3>1
    <3>4. ~(i < p) /\ i # p
      BY <1>1, <2>2
    <3> QED BY <3>2, <3>3, <3>4
  <2>3. i <= p \/ i > p
    BY <1>1
  <2> QED BY <2>1, <2>2, <2>3, Zenon
<1>8. InsertAt(q, p, e) = front \o after
  BY <1>4 DEF front
<1>9. QED
  BY <1>6, <1>7, <1>8

\* The entries of a vector with the account of one replaced.
LEMMA Replaced ==
  ASSUME NEW vec \in Seq(Entry), NEW p \in 1..Len(vec), NEW account \in Account
  PROVE  LET w == [vec EXCEPT ![p].account = account]
         IN  /\ w \in Seq(Entry) /\ Len(w) = Len(vec)
             /\ w[p] = EntryOf(vec[p].address, account)
             /\ \A i \in 1..Len(vec) : i # p => w[i] = vec[i]
<1> DEFINE w == [vec EXCEPT ![p].account = account]
           e == [vec[p] EXCEPT !.account = account]
<1>1. Len(vec) \in Nat /\ vec[p] = EntryOf(vec[p].address, vec[p].account)
      /\ vec[p].address \in Address
  BY EntryType
<1>2. e = EntryOf(vec[p].address, account)
  BY <1>1 DEF EntryOf
<1>3. e \in Entry
  BY <1>1, <1>2 DEF Entry, EntryOf
<1>4. w = [vec EXCEPT ![p] = e]
  OBVIOUS
<1> HIDE DEF e
<1>5. w = [i \in 1..Len(vec) |-> IF i = p THEN e ELSE vec[i]]
  BY <1>1, <1>4
<1> HIDE DEF w
<1>6. w \in Seq(Entry) /\ Len(w) = Len(vec)
  BY <1>1, <1>3, <1>5
<1>7. w[p] = e /\ \A i \in 1..Len(vec) : i # p => w[i] = vec[i]
  BY <1>5
<1>8. QED
  BY <1>2, <1>6, <1>7 DEF w

\* State::set keeps the vector sorted and changes one account.
LEMMA SetRepresents ==
  ASSUME NEW s \in State, NEW vec, Represents(vec, s), NEW x \in Address,
         NEW account \in Account
  PROVE  Represents(VecSet(vec, x, account), set(s, x, account))
<1> DEFINE n == Len(vec)
           t == set(s, x, account)
           entry == EntryOf(x, account)
           w == VecSet(vec, x, account)
           found == binary_search(vec, x)
<1>1. /\ vec \in Seq(Entry) /\ n \in Nat /\ InAddressOrder(vec)
      /\ \A i \in 1..n :
           vec[i].address \in DOMAIN s /\ vec[i] = EntryOf(vec[i].address, s[vec[i].address])
      /\ \A y \in DOMAIN s : \E i \in 1..n : vec[i] = EntryOf(y, s[y])
  BY Represented
<1>2. /\ DOMAIN t = DOMAIN s \cup {x} /\ t[x] = account
      /\ \A y \in DOMAIN s : y # x => t[y] = s[y]
  BY DEF set
<1>3. entry \in Entry /\ entry.address = x
  BY DEF Entry, EntryOf
<1>4. PICK p : IsPlace(vec, x, p)
  BY <1>1, PlaceExists
<1>5. /\ found.ok <=> x \in DOMAIN s
      /\ found.index = p
      /\ x \in DOMAIN s => p \in 1..n /\ vec[p] = EntryOf(x, s[x])
  BY <1>4, PlaceInState
<1>6. w = IF found.ok THEN [vec EXCEPT ![found.index].account = account]
                      ELSE InsertAt(vec, found.index, entry)
  BY DEF VecSet
<1>7. \A i \in 1..n : vec[i].address \in Nat
  BY <1>1, EntryType
<1>8. ASSUME NEW y \in DOMAIN s, y # x
      PROVE  EntryOf(y, s[y]) = EntryOf(y, t[y])
  BY <1>2, <1>8
<1> HIDE DEF w, t, found, n
<1>9. CASE x \in DOMAIN s
  <2>1. p \in 1..n /\ vec[p].address = x /\ w = [vec EXCEPT ![p].account = account]
    BY <1>5, <1>6, <1>9 DEF EntryOf
  <2>2. /\ w \in Seq(Entry) /\ Len(w) = n /\ w[p] = entry
        /\ \A i \in 1..n : i # p => w[i] = vec[i]
    BY <1>1, <2>1, Replaced DEF n
  <2>3. \A i \in 1..n : w[i].address = vec[i].address
    BY <1>3, <2>1, <2>2
  <2>4. InAddressOrder(w)
    BY <1>1, <2>2, <2>3 DEF InAddressOrder, n
  <2>5. ASSUME NEW i \in 1..n
        PROVE  w[i].address \in DOMAIN t /\ w[i] = EntryOf(w[i].address, t[w[i].address])
    <3>1. CASE i = p
      BY <1>2, <1>3, <2>2, <3>1
    <3>2. CASE i # p
      <4>1. w[i] = vec[i] /\ vec[i].address # x
        BY <1>1, <2>1, <2>2, <3>2, NoDuplicates DEF n
      <4> QED BY <1>1, <1>2, <4>1
    <3> QED BY <3>1, <3>2
  <2>6. ASSUME NEW y \in DOMAIN t
        PROVE  \E i \in 1..n : w[i] = EntryOf(y, t[y])
    <3>1. CASE y = x
      BY <1>2, <2>1, <2>2, <3>1
    <3>2. CASE y # x
      <4>1. y \in DOMAIN s
        BY <1>2, <3>2
      <4>2. PICK i \in 1..n : vec[i] = EntryOf(y, s[y])
        BY <1>1, <4>1
      <4>3. i # p
        BY <2>1, <3>2, <4>2 DEF EntryOf
      <4> QED BY <1>8, <2>2, <3>2, <4>1, <4>2, <4>3
    <3> QED BY <3>1, <3>2
  <2>7. Represents(w, t)
    BY <2>2, <2>4, <2>5, <2>6, Representing
  <2> QED BY <2>7 DEF w, t
<1>10. CASE x \notin DOMAIN s
  <2>1. /\ p \in 1..n + 1
        /\ \A i \in 1..n : i < p => vec[i].address < x
        /\ \A i \in 1..n : p <= i => x < vec[i].address
    <3>1. /\ p \in 1..n + 1
          /\ \A i \in 1..n : i < p => vec[i].address < x
          /\ \A i \in 1..n : p <= i => x <= vec[i].address
      BY <1>4 DEF IsPlace, n
    <3>2. \A i \in 1..n : vec[i].address # x
      BY <1>1, <1>10
    <3>3. x \in Nat
      BY AddressAssumption
    <3> QED BY <1>7, <3>1, <3>2, <3>3
  <2>2. w = InsertAt(vec, p, entry)
    BY <1>5, <1>6, <1>10
  <2>3. /\ w \in Seq(Entry) /\ Len(w) = n + 1
        /\ \A i \in 1..n + 1 :
             w[i] = IF i < p THEN vec[i] ELSE IF i = p THEN entry ELSE vec[i - 1]
    <3> HIDE DEF entry
    <3>1. p \in 1..Len(vec) + 1 /\ n = Len(vec)
      BY <2>1 DEF n
    <3> QED BY <1>1, <1>3, <2>2, <3>1, Inserted
  <2>4. /\ w[p] = entry
        /\ \A i \in 1..n : i < p => w[i] = vec[i]
        /\ \A i \in 1..n : p <= i => w[i + 1] = vec[i]
        /\ \A i \in 1..n + 1 :
             \/ i = p
             \/ i < p /\ i \in 1..n /\ w[i] = vec[i]
             \/ p < i /\ i - 1 \in 1..n /\ p <= i - 1 /\ w[i] = vec[i - 1]
    <3> HIDE DEF entry
    <3>1. w[p] = entry
      BY <2>1, <2>3
    <3>2. ASSUME NEW i \in 1..n, i < p
          PROVE  w[i] = vec[i]
      <4>1. i \in 1..n + 1
        BY <1>1
      <4> QED BY <2>3, <3>2, <4>1
    <3>3. ASSUME NEW i \in 1..n, p <= i
          PROVE  w[i + 1] = vec[i]
      <4>1. /\ i + 1 \in 1..n + 1 /\ ~(i + 1 < p) /\ i + 1 # p
            /\ (i + 1) - 1 = i
        BY <1>1, <2>1, <3>3
      <4> QED BY <2>3, <4>1
    <3>4. ASSUME NEW i \in 1..n + 1
          PROVE  \/ i = p
                 \/ i < p /\ i \in 1..n /\ w[i] = vec[i]
                 \/ p < i /\ i - 1 \in 1..n /\ p <= i - 1 /\ w[i] = vec[i - 1]
      <4>1. CASE i < p
        <5>1. i \in 1..n
          BY <1>1, <2>1, <4>1
        <5> QED BY <3>2, <4>1, <5>1
      <4>2. CASE p < i
        <5>1. i - 1 \in 1..n /\ p <= i - 1 /\ ~(i < p) /\ i # p
          BY <1>1, <2>1, <4>2
        <5> QED BY <2>3, <4>2, <5>1
      <4>3. i < p \/ p < i \/ i = p
        BY <1>1, <2>1
      <4> QED BY <4>1, <4>2, <4>3, Zenon
    <3> QED BY <3>1, <3>2, <3>3, <3>4
  <2>5. InAddressOrder(w)
    <3> SUFFICES ASSUME NEW i \in 1..n + 1, NEW j \in 1..n + 1, i < j
                 PROVE  w[i].address < w[j].address
      BY <2>3 DEF InAddressOrder
    <3>1. \A k, l \in 1..n : k < l => vec[k].address < vec[l].address
      BY <1>1 DEF InAddressOrder, n
    <3>2. CASE i = p
      <4>1. j - 1 \in 1..n /\ p <= j - 1 /\ w[j] = vec[j - 1]
        BY <1>1, <2>1, <2>4, <3>2
      <4> QED BY <1>3, <2>1, <2>4, <3>2, <4>1
    <3>3. CASE i < p
      <4>1. i \in 1..n /\ w[i] = vec[i]
        BY <1>1, <2>1, <2>4, <3>3
      <4>2. CASE j = p
        BY <1>3, <2>1, <2>4, <3>3, <4>1, <4>2
      <4>3. CASE j < p
        <5>1. j \in 1..n
          BY <1>1, <2>1, <4>3
        <5>2. w[j] = vec[j]
          BY <2>4, <4>3, <5>1
        <5> QED BY <3>1, <4>1, <5>1, <5>2
      <4>4. CASE p < j
        <5>1. j - 1 \in 1..n /\ p <= j - 1 /\ i < j - 1 /\ w[j] = vec[j - 1]
          BY <1>1, <2>1, <2>4, <3>3, <4>4
        <5> QED BY <3>1, <4>1, <5>1
      <4> QED BY <1>1, <2>1, <4>2, <4>3, <4>4
    <3>4. CASE p < i
      <4>1. /\ i - 1 \in 1..n /\ w[i] = vec[i - 1]
            /\ j - 1 \in 1..n /\ w[j] = vec[j - 1] /\ i - 1 < j - 1
        BY <1>1, <2>1, <2>4, <3>4
      <4> QED BY <3>1, <4>1
    <3> QED BY <1>1, <2>1, <3>2, <3>3, <3>4
  <2>6. ASSUME NEW i \in 1..n + 1
        PROVE  w[i].address \in DOMAIN t /\ w[i] = EntryOf(w[i].address, t[w[i].address])
    <3>1. CASE w[i] = entry
      BY <1>2, <1>3, <3>1
    <3>2. ASSUME NEW k \in 1..n, w[i] = vec[k]
          PROVE  w[i].address \in DOMAIN t /\ w[i] = EntryOf(w[i].address, t[w[i].address])
      <4>1. vec[k].address # x /\ vec[k].address \in DOMAIN s
        BY <1>1, <1>10
      <4> QED BY <1>1, <1>2, <3>2, <4>1
    <3> QED BY <2>4, <3>1, <3>2
  <2>7. ASSUME NEW y \in DOMAIN t
        PROVE  \E i \in 1..n + 1 : w[i] = EntryOf(y, t[y])
    <3>1. CASE y = x
      BY <1>2, <2>1, <2>4, <3>1
    <3>2. CASE y # x
      <4>1. y \in DOMAIN s
        BY <1>2, <3>2
      <4>2. PICK k \in 1..n : vec[k] = EntryOf(y, s[y])
        BY <1>1, <4>1
      <4>3. PICK i \in 1..n + 1 : w[i] = vec[k]
        <5>1. CASE k < p
          BY <1>1, <2>4, <5>1
        <5>2. CASE p <= k
          BY <1>1, <2>4, <5>2
        <5> QED BY <1>1, <2>1, <5>1, <5>2
      <4> QED BY <1>8, <3>2, <4>1, <4>2, <4>3
    <3> QED BY <3>1, <3>2
  <2>8. Represents(w, t)
    BY <2>3, <2>5, <2>6, <2>7, Representing
  <2> QED BY <2>8 DEF w, t
<1>11. QED
  BY <1>9, <1>10

----------------------------------------------------------------------------
(* The vector of a state.                                                  *)

\* Of two vectors for one state, each is as long as the other and agrees with it.
LEMMA Agree ==
  ASSUME NEW s \in State, NEW v, Represents(v, s), NEW w, Represents(w, s)
  PROVE  \A i \in 1..Len(v) : i <= Len(w) /\ w[i] = v[i]
<1> DEFINE Bad == {i \in 1..Len(v) : ~(i <= Len(w) /\ w[i] = v[i])}
<1>1. SUFFICES ASSUME Bad # {} PROVE FALSE
  OBVIOUS
<1>2. PICK m \in Bad : \A k \in Bad : m <= k
  <2>1. Bad \in SUBSET Nat
    OBVIOUS
  <2> HIDE DEF Bad
  <2> QED BY <1>1, <2>1, LeastNatural
<1>3. m \in 1..Len(v) /\ \A k \in 1..Len(v) : ~(m <= k) => k <= Len(w) /\ w[k] = v[k]
  BY <1>2
<1> HIDE DEF Bad
<1>4. /\ v \in Seq(Entry) /\ Len(v) \in Nat /\ InAddressOrder(v)
      /\ \A i \in 1..Len(v) :
           v[i].address \in DOMAIN s /\ v[i] = EntryOf(v[i].address, s[v[i].address])
      /\ \A y \in DOMAIN s : \E i \in 1..Len(v) : v[i] = EntryOf(y, s[y])
  BY Represented
<1>5. /\ w \in Seq(Entry) /\ Len(w) \in Nat /\ InAddressOrder(w)
      /\ \A i \in 1..Len(w) :
           w[i].address \in DOMAIN s /\ w[i] = EntryOf(w[i].address, s[w[i].address])
      /\ \A y \in DOMAIN s : \E i \in 1..Len(w) : w[i] = EntryOf(y, s[y])
  BY Represented
\* The entry at m is in the other vector, at m or behind it.
<1>6. PICK j \in 1..Len(w) : w[j] = v[m]
  <2>1. v[m].address \in DOMAIN s /\ v[m] = EntryOf(v[m].address, s[v[m].address])
    BY <1>3, <1>4
  <2>2. PICK j \in 1..Len(w) : w[j] = EntryOf(v[m].address, s[v[m].address])
    BY <1>5, <2>1
  <2> QED BY <2>1, <2>2
<1>7. ~(j < m)
  <2>1. SUFFICES ASSUME j < m PROVE FALSE
    OBVIOUS
  <2>2. j \in 1..Len(v) /\ ~(m <= j)
    <3>1. m \in 1..Len(v)
      BY <1>3
    <3> QED BY <1>4, <1>5, <2>1, <3>1
  <2>3. v[j] = v[m]
    BY <1>3, <1>6, <2>2
  <2>4. j = m
    BY <1>3, <1>4, <2>2, <2>3, NoDuplicates
  <2> QED BY <1>3, <1>4, <2>1, <2>4
<1>8. m \in 1..Len(w)
  BY <1>3, <1>4, <1>5, <1>7
\* Behind it would leave no place for the entry that the other vector has at m.
<1>9. ~(m < j)
  <2>1. SUFFICES ASSUME m < j PROVE FALSE
    OBVIOUS
  <2>2. w[m].address < v[m].address
    BY <1>5, <1>6, <1>8, <2>1 DEF InAddressOrder
  <2>3. PICK l \in 1..Len(v) : v[l] = w[m]
    <3>1. w[m].address \in DOMAIN s /\ w[m] = EntryOf(w[m].address, s[w[m].address])
      BY <1>5, <1>8
    <3>2. PICK l \in 1..Len(v) : v[l] = EntryOf(w[m].address, s[w[m].address])
      BY <1>4, <3>1
    <3> QED BY <3>1, <3>2
  <2>4. l < m
    <3>1. v[l].address < v[m].address /\ v[l].address \in Nat /\ v[m].address \in Nat
      BY <1>3, <1>4, <2>2, <2>3, EntryType
    <3>2. m < l => v[m].address < v[l].address
      BY <1>3, <1>4 DEF InAddressOrder
    <3>3. m = l => v[m].address = v[l].address
      OBVIOUS
    <3>4. m < l \/ m = l \/ l < m
      BY <1>3, <1>4
    <3> QED BY <3>1, <3>2, <3>3, <3>4
  <2>5. l \in 1..Len(w) /\ w[l] = w[m]
    <3>1. ~(m <= l)
      BY <1>3, <1>4, <2>4
    <3>2. l <= Len(w) /\ w[l] = v[l]
      BY <1>3, <3>1
    <3> QED BY <1>4, <1>5, <2>3, <3>2
  <2>6. l = m
    BY <1>5, <1>8, <2>5, NoDuplicates
  <2> QED BY <1>3, <1>4, <2>4, <2>6
<1>10. j = m
  BY <1>3, <1>4, <1>5, <1>7, <1>9
<1>11. m \notin Bad
  BY <1>5, <1>6, <1>8, <1>10 DEF Bad
<1>12. QED
  BY <1>2, <1>11

\* A state has one vector.
LEMMA RepresentsUnique ==
  ASSUME NEW s \in State, NEW v, Represents(v, s), NEW w, Represents(w, s)
  PROVE  v = w
<1>1. v \in Seq(Entry) /\ Len(v) \in Nat /\ w \in Seq(Entry) /\ Len(w) \in Nat
  BY Represented
<1>2. \A i \in 1..Len(v) : i <= Len(w) /\ w[i] = v[i]
  BY Agree
<1>3. \A i \in 1..Len(w) : i <= Len(v) /\ v[i] = w[i]
  BY Agree
<1>4. Len(v) = Len(w)
  <2>1. Len(v) <= Len(w)
    BY <1>1, <1>2
  <2>2. Len(w) <= Len(v)
    BY <1>1, <1>3
  <2> QED BY <1>1, <2>1, <2>2
<1>5. QED
  BY <1>1, <1>2, <1>4, SeqEqual

\* Every state has a vector: a state with one account less has one.
LEMMA VectorExists ==
  ASSUME NEW s \in State
  PROVE  \E vec : Represents(vec, s)
<1> DEFINE Bad == {t \in State : ~ \E vec : Represents(vec, t)}
           Sizes == {Cardinality(DOMAIN t) : t \in Bad}
<1>1. SUFFICES ASSUME Bad # {} PROVE FALSE
  OBVIOUS
<1>2. \A t \in State : IsFiniteSet(DOMAIN t) /\ Cardinality(DOMAIN t) \in Nat
  <2> TAKE t \in State
  <2>1. DOMAIN t \in SUBSET Address
    BY DEF State
  <2>2. IsFiniteSet(DOMAIN t)
    BY <2>1, AddressAssumption, FS_Subset
  <2> QED BY <2>2, FS_CardinalityType
<1>3. PICK m \in Sizes : \A k \in Sizes : m <= k
  <2>1. Sizes \in SUBSET Nat /\ Sizes # {}
    BY <1>1, <1>2
  <2> HIDE DEF Sizes
  <2> QED BY <2>1, LeastNatural
<1>4. PICK t \in Bad : m = Cardinality(DOMAIN t)
  BY <1>3
<1>5. t \in State /\ DOMAIN t \in SUBSET Address
  BY DEF State
<1>6. DOMAIN t # {}
  <2>1. SUFFICES ASSUME DOMAIN t = {} PROVE FALSE
    OBVIOUS
  <2>2. Represents(<<>>, t)
    BY <2>1 DEF Represents, InAddressOrder, ToSet, EntriesOf
  <2> QED BY <1>4, <2>2
<1>7. PICK x \in DOMAIN t : TRUE
  BY <1>6
<1> DEFINE less == [y \in DOMAIN t \ {x} |-> t[y]]
<1>8. less \in State
  <2>1. t \in [DOMAIN t -> Account]
    BY <1>5 DEF State
  <2>2. less \in [DOMAIN t \ {x} -> Account] /\ DOMAIN t \ {x} \in SUBSET Address
    BY <1>5, <2>1
  <2> QED BY <2>2 DEF State
<1>9. less \notin Bad
  <2>1. /\ Cardinality(DOMAIN less) = Cardinality(DOMAIN t) - 1
    BY <1>2, <1>5, <1>7, FS_RemoveElement
  <2>2. ~(m <= Cardinality(DOMAIN less))
    BY <1>2, <1>4, <1>5, <2>1
  <2> QED BY <1>3, <2>2
<1>10. PICK vec : Represents(vec, less)
  BY <1>8, <1>9
<1>11. t[x] \in Account /\ x \in Address
  BY <1>5, <1>7 DEF State
<1>12. t = set(less, x, t[x])
  BY <1>5, <1>7 DEF set, State
<1>13. Represents(VecSet(vec, x, t[x]), t)
  <2> HIDE DEF less
  <2>1. Represents(VecSet(vec, x, t[x]), set(less, x, t[x]))
    BY <1>8, <1>10, <1>11, SetRepresents
  <2> QED BY <1>12, <2>1
<1>14. QED
  BY <1>4, <1>13

\* An ordering of a finite set holds each element once.
LEMMA Permutation ==
  ASSUME NEW S, IsFiniteSet(S), NEW f \in SetToSeqs(S)
  PROVE  /\ f \in Seq(S) /\ Len(f) \in Nat
         /\ \A e \in S : \E i \in 1..Len(f) : f[i] = e
         /\ \A i, j \in 1..Len(f) : i # j => f[i] # f[j]
         /\ ToSet(f) = S
<1> DEFINE n == Cardinality(S)
<1>1. n \in Nat
  BY FS_CardinalityType
<1>2. f \in [1..n -> S] /\ \A i, j \in 1..n : i # j => f[i] # f[j]
  BY DEF SetToSeqs
<1> HIDE DEF n
<1>3. f \in Injection(1..n, S)
  BY <1>2 DEF Injection, IsInjective
<1>4. Cardinality(1..n) = n /\ IsFiniteSet(1..n)
  <2>1. IF 1 > n THEN n = 0 ELSE n - 1 + 1 = n
    BY <1>1
  <2> QED BY <1>1, <2>1, FS_Interval
<1>5. f \in Surjection(1..n, S)
  BY <1>3, <1>4, FS_Injection DEF n
<1>6. \A e \in S : \E i \in 1..n : f[i] = e
  BY <1>5 DEF Surjection
<1>7. f \in Seq(S) /\ Len(f) = n
  BY <1>1, <1>2
<1>8. ToSet(f) = S
  <2>1. DOMAIN f = 1..n
    BY <1>2
  <2> QED BY <1>2, <1>6, <2>1 DEF ToSet
<1>9. QED
  BY <1>1, <1>2, <1>6, <1>7, <1>8

\* The entries of a state are finitely many, and its vector is an ordering of them.
LEMMA VectorIsOrdering ==
  ASSUME NEW s \in State, NEW vec, Represents(vec, s)
  PROVE  /\ IsFiniteSet(EntriesOf(s)) /\ EntriesOf(s) \in SUBSET Entry
         /\ vec \in SetToSeqs(EntriesOf(s))
<1> DEFINE E == EntriesOf(s)
           n == Len(vec)
<1>1. vec \in Seq(Entry) /\ n \in Nat /\ InAddressOrder(vec) /\ ToSet(vec) = E
  BY Represented DEF Represents
<1> HIDE DEF E
<1>2. DOMAIN vec = 1..n /\ vec \in [1..n -> Entry]
  BY <1>1
<1>3. \A i \in 1..n : vec[i] \in E
  BY <1>1, <1>2 DEF ToSet
<1>4. \A e \in E : \E i \in 1..n : vec[i] = e
  BY <1>1, <1>2 DEF ToSet
<1>5. E \in SUBSET Entry
  BY <1>2, <1>4
<1>6. \A i, j \in 1..n : vec[i] = vec[j] => i = j
  BY <1>1, NoDuplicates
<1>7. vec \in [1..n -> E]
  BY <1>2, <1>3
<1>8. vec \in Bijection(1..n, E)
  BY <1>4, <1>6, <1>7 DEF Bijection, Injection, Surjection, IsInjective
<1>9. IsFiniteSet(E) /\ Cardinality(E) = n
  <2>1. ExistsBijection(1..n, E)
    BY <1>8 DEF ExistsBijection
  <2> QED BY <1>1, <2>1, FS_CountingElements, FS_NatBijection
<1>10. vec \in SetToSeqs(E)
  BY <1>6, <1>7, <1>9 DEF SetToSeqs
<1>11. QED
  BY <1>5, <1>9, <1>10 DEF E

\* VecOfState finds the vector.
LEMMA VecOfStateRepresents ==
  ASSUME NEW s \in State
  PROVE  Represents(VecOfState(s), s)
<1> DEFINE vec == VecOfState(s)
<1>1. PICK v : Represents(v, s)
  BY VectorExists
<1>2. /\ IsFiniteSet(EntriesOf(s)) /\ EntriesOf(s) \in SUBSET Entry
      /\ v \in SetToSeqs(EntriesOf(s)) /\ InAddressOrder(v)
  BY <1>1, VectorIsOrdering DEF Represents
<1>3. vec \in SetToSeqs(EntriesOf(s)) /\ InAddressOrder(vec)
  BY <1>2 DEF VecOfState
<1> HIDE DEF vec
<1>4. vec \in Seq(EntriesOf(s)) /\ ToSet(vec) = EntriesOf(s)
  BY <1>2, <1>3, Permutation
<1>5. vec \in Seq(Entry)
  BY <1>2, <1>4
<1>6. QED
  BY <1>3, <1>4, <1>5 DEF Represents, vec

\* Whatever represents a state is the vector that VecOfState finds.
LEMMA IsVecOfState ==
  ASSUME NEW s \in State, NEW vec, Represents(vec, s)
  PROVE  vec = VecOfState(s)
BY VecOfStateRepresents, RepresentsUnique

\* The set of what merkle_root hashes is the set that Stf takes for the root.
LEMMA RootRepresents ==
  ASSUME NEW s \in State, NEW vec, Represents(vec, s)
  PROVE  ToSet(VecRoot(vec)) = merkle_root(s)
<1> DEFINE n == Len(vec)
           pre == VecRoot(vec)
           root == merkle_root(s)
<1>1. /\ n \in Nat
      /\ \A i \in 1..n :
           vec[i].address \in DOMAIN s /\ vec[i].account = s[vec[i].address]
      /\ \A y \in DOMAIN s : \E i \in 1..n : vec[i] = EntryOf(y, s[y])
  BY Represented
<1>2. DOMAIN pre = 1..n /\ \A i \in 1..n :
        pre[i] = <<vec[i].address, vec[i].account.balance, vec[i].account.nonce>>
  BY DEF VecRoot
<1> HIDE DEF pre, n
<1>3. ASSUME NEW e \in ToSet(pre) PROVE e \in root
  <2>1. PICK i \in 1..n : e = pre[i]
    BY <1>2 DEF ToSet
  <2> DEFINE y == vec[i].address
  <2>2. y \in DOMAIN s /\ e = <<y, s[y].balance, s[y].nonce>>
    BY <1>1, <1>2, <2>1
  <2> HIDE DEF y
  <2> QED BY <2>2 DEF merkle_root
<1>4. ASSUME NEW e \in root PROVE e \in ToSet(pre)
  <2>1. PICK y \in DOMAIN s : e = <<y, s[y].balance, s[y].nonce>>
    BY DEF merkle_root
  <2>2. PICK i \in 1..n : vec[i] = EntryOf(y, s[y])
    BY <1>1
  <2>3. vec[i].address = y /\ vec[i].account = s[y]
    BY <2>2 DEF EntryOf
  <2>4. e = pre[i]
    BY <1>2, <2>1, <2>3
  <2> QED BY <1>2, <2>4 DEF ToSet
<1> HIDE DEF root
<1>5. ToSet(pre) = root
  BY <1>3, <1>4
<1>6. QED
  BY <1>5 DEF pre, root

----------------------------------------------------------------------------
(* apply_tx and apply_batch over the vector.                               *)

\* The guards of apply_tx read the same accounts.
LEMMA AppliesRepresents ==
  ASSUME NEW s \in State, NEW vec, Represents(vec, s), NEW tx \in Tx
  PROVE  VecApplies(vec, tx) <=> Applies(s, tx)
<1>1. tx.from \in Address /\ tx.to \in Address
  BY DEF Tx
<1>2. VecGet(vec, tx.from) = get(s, tx.from) /\ VecGet(vec, tx.to) = get(s, tx.to)
  BY <1>1, GetRepresents
<1>3. QED
  BY <1>2 DEF VecApplies, Applies

\* apply_tx writes the same accounts.
LEMMA AppliedRepresents ==
  ASSUME NEW s \in State, NEW vec, Represents(vec, s), NEW tx \in Tx, Applies(s, tx)
  PROVE  Represents(VecApplied(vec, tx), Applied(s, tx))
<1> DEFINE from_acc == get(s, tx.from)
           to_acc   == get(s, tx.to)
           debited  == [balance |-> from_acc.balance - tx.amount,
                        nonce   |-> WrappingSucc(from_acc.nonce)]
           credited == [to_acc EXCEPT !.balance = @ + tx.amount]
           once     == set(s, tx.from, debited)
           vecOnce  == VecSet(vec, tx.from, debited)
<1>1. tx.from \in Address /\ tx.to \in Address
  BY DEF Tx
<1>2. from_acc \in Account /\ to_acc \in Account
  BY <1>1, GetType
<1>3. debited \in Account
  BY <1>2, MaxU64Assumption DEF Applies, Account, Tx, U64, WrappingSucc
<1>4. credited \in Account
  BY <1>2, MaxU64Assumption DEF Applies, Account, Tx, U64
<1>5. VecGet(vec, tx.from) = from_acc /\ VecGet(vec, tx.to) = to_acc
  BY <1>1, GetRepresents
<1>6. VecApplied(vec, tx) = VecSet(vecOnce, tx.to, credited)
  BY <1>5 DEF VecApplied
<1>7. Applied(s, tx) = set(once, tx.to, credited)
  BY DEF Applied
<1> HIDE DEF debited, credited
<1>8. once \in State /\ Represents(vecOnce, once)
  BY <1>1, <1>3, SetType, SetRepresents
<1> HIDE DEF once, vecOnce
<1>9. Represents(VecSet(vecOnce, tx.to, credited), set(once, tx.to, credited))
  BY <1>1, <1>4, <1>8, SetRepresents
<1>10. QED
  BY <1>6, <1>7, <1>9

\* VecApplyRun satisfies the recursive equation that defines it.
LEMMA VecApplyRunDef ==
  ASSUME NEW vec, NEW txs \in Batch
  PROVE  VecApplyRun(vec, txs) =
           [i \in 0..Len(txs) |->
              IF i = 0 THEN [ok |-> TRUE, accounts |-> vec]
                       ELSE VecApplyStep(VecApplyRun(vec, txs)[i - 1], txs[i])]
<1> DEFINE Eqn(n, g) ==
      g = [i \in 0..n |-> IF i = 0 THEN [ok |-> TRUE, accounts |-> vec]
                                  ELSE VecApplyStep(g[i - 1], txs[i])]
           Undefined == {n \in Nat : ~ \E g : Eqn(n, g)}
<1>1. Undefined = {}
  <2>1. SUFFICES ASSUME Undefined # {} PROVE FALSE
    OBVIOUS
  <2>2. PICK m \in Undefined : \A k \in Undefined : m <= k
    <3> HIDE DEF Undefined
    <3>1. Undefined \in SUBSET Nat
      BY DEF Undefined
    <3> QED BY <2>1, <3>1, LeastNatural
  <2>3. Eqn(0, [i \in 0..0 |-> [ok |-> TRUE, accounts |-> vec]])
    OBVIOUS
  <2>4. m # 0
    BY <2>2, <2>3
  <2>5. m - 1 \in Nat /\ m - 1 \notin Undefined
    <3>1. m \in Nat /\ m # 0 /\ m - 1 \in Nat /\ ~(m <= m - 1)
      BY <2>4
    <3> QED BY <2>2, <3>1
  <2>6. PICK g : Eqn(m - 1, g)
    BY <2>5
  <2> DEFINE h == [i \in 0..m |-> IF i < m THEN g[i] ELSE VecApplyStep(g[m - 1], txs[m])]
  <2>7. Eqn(m, h)
    <3> SUFFICES ASSUME NEW i \in 0..m
                 PROVE  h[i] = IF i = 0 THEN [ok |-> TRUE, accounts |-> vec]
                                        ELSE VecApplyStep(h[i - 1], txs[i])
      OBVIOUS
    <3>1. CASE i = m
      BY <2>4, <2>5, <3>1
    <3>2. CASE i # m
      <4>1. i \in 0..(m - 1) /\ i < m
        BY <2>5, <3>2
      <4>2. h[i] = g[i]
        BY <4>1
      <4>3. i # 0 => h[i - 1] = g[i - 1]
        BY <4>1
      <4>4. g[i] = IF i = 0 THEN [ok |-> TRUE, accounts |-> vec]
                            ELSE VecApplyStep(g[i - 1], txs[i])
        BY <2>6, <4>1
      <4> QED BY <4>2, <4>3, <4>4
    <3> QED BY <3>1, <3>2
  <2> QED BY <2>2, <2>7
<1>2. Len(txs) \in Nat
  BY DEF Batch
<1>3. \E g : Eqn(Len(txs), g)
  BY <1>1, <1>2
<1>4. QED
  BY <1>3 DEF VecApplyRun

\* The result r over a vector is the result q over the state it represents.
SameResult(r, q) ==
  /\ q.state \in State
  /\ r = [ok |-> q.ok, accounts |-> r.accounts]
  /\ Represents(r.accounts, q.state)

\* One transaction keeps the results the same.
LEMMA StepRepresents ==
  ASSUME NEW r, NEW q, SameResult(r, q), NEW tx \in Tx
  PROVE  SameResult(VecApplyStep(r, tx), ApplyStep(q, tx))
<1>1. /\ q.state \in State /\ Represents(r.accounts, q.state)
      /\ r.ok = q.ok
  BY DEF SameResult
<1>2. VecApplies(r.accounts, tx) <=> Applies(q.state, tx)
  BY <1>1, AppliesRepresents
<1>3. CASE r.ok /\ Applies(q.state, tx)
  <2>1. /\ VecApplyStep(r, tx) = [ok |-> TRUE, accounts |-> VecApplied(r.accounts, tx)]
        /\ ApplyStep(q, tx) = [ok |-> TRUE, state |-> Applied(q.state, tx)]
    BY <1>1, <1>2, <1>3 DEF VecApplyStep, ApplyStep
  <2>2. Applied(q.state, tx) \in State
        /\ Represents(VecApplied(r.accounts, tx), Applied(q.state, tx))
    BY <1>1, <1>3, AppliedType, AppliedRepresents
  <2> QED BY <2>1, <2>2 DEF SameResult
<1>4. CASE ~(r.ok /\ Applies(q.state, tx))
  <2>1. /\ VecApplyStep(r, tx) = [ok |-> FALSE, accounts |-> r.accounts]
        /\ ApplyStep(q, tx) = [ok |-> FALSE, state |-> q.state]
    BY <1>1, <1>2, <1>4 DEF VecApplyStep, ApplyStep
  <2> QED BY <1>1, <2>1 DEF SameResult
<1>5. QED
  BY <1>3, <1>4

\* A batch is accepted over the vector when it is over the state, and leads to the
\* vector of the same state.
LEMMA BatchRepresents ==
  ASSUME NEW s \in State, NEW vec, Represents(vec, s), NEW txs \in Batch
  PROVE  SameResult(vec_apply_txs(vec, txs), apply_txs(s, txs))
<1> DEFINE R == VecApplyRun(vec, txs)
           Q == ApplyRun(s, txs)
           body(i) == IF i = 0 THEN [ok |-> TRUE, accounts |-> vec]
                               ELSE VecApplyStep(R[i - 1], txs[i])
           Good == {i \in 0..Len(txs) : SameResult(R[i], Q[i])}
<1>1. Len(txs) \in Nat /\ \A i \in 1..Len(txs) : txs[i] \in Tx
  BY DEF Batch
<1>2. R = [i \in 0..Len(txs) |-> body(i)]
  BY VecApplyRunDef
<1>3. /\ Q[0] = [ok |-> TRUE, state |-> s]
      /\ \A i \in 1..Len(txs) : Q[i] = ApplyStep(Q[i - 1], txs[i])
  BY ApplyRunAt
<1> HIDE DEF R, Q
<1>4. \A i \in 0..Len(txs) : R[i] = body(i)
  <2> HIDE DEF body
  <2> QED BY <1>2
<1>5. R[0] = [ok |-> TRUE, accounts |-> vec]
  <2>1. R[0] = body(0)
    <3> HIDE DEF body
    <3> QED BY <1>1, <1>4
  <2> QED BY <2>1
<1>6. ASSUME NEW i \in 1..Len(txs)
      PROVE  R[i] = VecApplyStep(R[i - 1], txs[i])
  <2>1. i \in 0..Len(txs) /\ i # 0
    BY <1>1
  <2>2. R[i] = body(i)
    <3> HIDE DEF body
    <3> QED BY <1>4, <2>1
  <2> QED BY <2>1, <2>2
<1>7. 0 \in Good
  <2>1. SameResult([ok |-> TRUE, accounts |-> vec], [ok |-> TRUE, state |-> s])
    BY DEF SameResult
  <2>2. SameResult(R[0], Q[0]) /\ 0 \in 0..Len(txs)
    BY <1>1, <1>3, <1>5, <2>1
  <2> QED BY <2>2
<1>8. ASSUME NEW i \in 1..Len(txs), i - 1 \in Good
      PROVE  i \in Good
  <2>1. SameResult(R[i - 1], Q[i - 1])
    BY <1>8
  <2>2. SameResult(VecApplyStep(R[i - 1], txs[i]), ApplyStep(Q[i - 1], txs[i]))
    BY <1>1, <2>1, StepRepresents
  <2>3. i \in 0..Len(txs)
    BY <1>1
  <2> QED BY <1>3, <1>6, <2>2, <2>3
<1>9. Len(txs) \in Good
  <2> HIDE DEF Good
  <2>1. \A i \in 0..Len(txs) : i \in Good
    BY <1>1, <1>7, <1>8, Upwards
  <2> QED BY <1>1, <2>1
<1>10. QED
  BY <1>9 DEF R, Q, vec_apply_txs, apply_txs

----------------------------------------------------------------------------
(* Genesis::into_state.                                                    *)

\* LoadRun satisfies the recursive equation that defines it.
LEMMA LoadRunDef ==
  ASSUME NEW entries \in Seq(Entry)
  PROVE  LoadRun(entries) =
           [i \in 0..Len(entries) |->
              IF i = 0 THEN <<>>
                       ELSE VecSet(LoadRun(entries)[i - 1], entries[i].address,
                                   entries[i].account)]
<1> DEFINE Next1(vec, i) == VecSet(vec, entries[i].address, entries[i].account)
           Eqn(n, g) == g = [i \in 0..n |-> IF i = 0 THEN <<>> ELSE Next1(g[i - 1], i)]
           Undefined == {n \in Nat : ~ \E g : Eqn(n, g)}
<1>1. Undefined = {}
  <2> HIDE DEF Next1
  <2>1. SUFFICES ASSUME Undefined # {} PROVE FALSE
    OBVIOUS
  <2>2. PICK m \in Undefined : \A k \in Undefined : m <= k
    <3> HIDE DEF Undefined
    <3>1. Undefined \in SUBSET Nat
      BY DEF Undefined
    <3> QED BY <2>1, <3>1, LeastNatural
  <2>3. Eqn(0, [i \in 0..0 |-> <<>>])
    OBVIOUS
  <2>4. m # 0
    BY <2>2, <2>3
  <2>5. m - 1 \in Nat /\ m - 1 \notin Undefined
    <3>1. m \in Nat /\ m # 0 /\ m - 1 \in Nat /\ ~(m <= m - 1)
      BY <2>4
    <3> QED BY <2>2, <3>1
  <2>6. PICK g : Eqn(m - 1, g)
    BY <2>5
  <2> DEFINE h == [i \in 0..m |-> IF i < m THEN g[i] ELSE Next1(g[m - 1], m)]
  <2>7. Eqn(m, h)
    <3> SUFFICES ASSUME NEW i \in 0..m
                 PROVE  h[i] = IF i = 0 THEN <<>> ELSE Next1(h[i - 1], i)
      OBVIOUS
    <3>1. CASE i = m
      BY <2>4, <2>5, <3>1
    <3>2. CASE i # m
      <4>1. i \in 0..(m - 1) /\ i < m
        BY <2>5, <3>2
      <4>2. h[i] = g[i]
        BY <4>1
      <4>3. i # 0 => h[i - 1] = g[i - 1]
        BY <4>1
      <4>4. g[i] = IF i = 0 THEN <<>> ELSE Next1(g[i - 1], i)
        BY <2>6, <4>1
      <4> QED BY <4>2, <4>3, <4>4
    <3> QED BY <3>1, <3>2
  <2> QED BY <2>2, <2>7
<1>2. Len(entries) \in Nat
  OBVIOUS
<1>3. \E g : Eqn(Len(entries), g)
  <2> HIDE DEF Eqn
  <2> QED BY <1>1, <1>2
<1>4. QED
  BY <1>3 DEF LoadRun

\* What the first n entries leave of an address is what the last of them says.
LoadedBy(entries, n, t) ==
  /\ t \in State
  /\ DOMAIN t = {entries[k].address : k \in 1..n}
  /\ \A k \in 1..n :
       (\A l \in k + 1..n : entries[l].address # entries[k].address)
         => t[entries[k].address] = entries[k].account

\* One more entry.
LEMMA LoadedStep ==
  ASSUME NEW entries \in Seq(Entry), NEW n \in 1..Len(entries),
         NEW t, LoadedBy(entries, n - 1, t)
  PROVE  LoadedBy(entries, n, set(t, entries[n].address, entries[n].account))
<1> DEFINE x == entries[n].address
           u == set(t, x, entries[n].account)
<1>1. /\ Len(entries) \in Nat
      /\ x \in Address /\ entries[n].account \in Account
  BY EntryType
<1>2. /\ t \in State
      /\ DOMAIN t = {entries[k].address : k \in 1..n - 1}
      /\ \A k \in 1..n - 1 :
           (\A l \in k + 1..n - 1 : entries[l].address # entries[k].address)
             => t[entries[k].address] = entries[k].account
  BY DEF LoadedBy
<1>3. u \in State
  BY <1>1, <1>2, SetType
<1>4. /\ DOMAIN u = DOMAIN t \cup {x} /\ u[x] = entries[n].account
      /\ \A y \in DOMAIN t : y # x => u[y] = t[y]
  BY DEF set
<1> HIDE DEF u
<1>5. DOMAIN u = {entries[k].address : k \in 1..n}
  <2>1. \A k \in 1..n : k = n \/ k \in 1..n - 1
    BY <1>1
  <2>2. n \in 1..n /\ \A k \in 1..n - 1 : k \in 1..n
    BY <1>1
  <2> QED BY <1>2, <1>4, <2>1, <2>2
<1>6. ASSUME NEW k \in 1..n, \A l \in k + 1..n : entries[l].address # entries[k].address
      PROVE  u[entries[k].address] = entries[k].account
  <2>1. CASE k = n
    BY <1>4, <2>1
  <2>2. CASE k # n
    <3>1. k \in 1..n - 1 /\ n \in k + 1..n /\ \A l \in k + 1..n - 1 : l \in k + 1..n
      BY <1>1, <2>2
    <3>2. entries[k].address # x
      BY <1>6, <3>1
    <3>3. t[entries[k].address] = entries[k].account
      BY <1>2, <1>6, <3>1
    <3>4. entries[k].address \in DOMAIN t
      BY <1>2, <3>1
    <3> QED BY <1>4, <3>2, <3>3, <3>4
  <2> QED BY <2>1, <2>2
<1>7. QED
  BY <1>3, <1>5, <1>6 DEF LoadedBy, u

\* into_state makes the vector of the state in which every address has the account
\* of its last entry, whatever the order of the entries and the duplicates in them.
THEOREM LastEntryCounts ==
  ASSUME NEW entries \in Seq(Entry)
  PROVE  \E t : LoadedBy(entries, Len(entries), t) /\ Represents(into_state(entries), t)
<1> DEFINE n == Len(entries)
           R == LoadRun(entries)
           body(i) == IF i = 0 THEN <<>>
                      ELSE VecSet(R[i - 1], entries[i].address, entries[i].account)
           Good == {i \in 0..n : \E t : LoadedBy(entries, i, t) /\ Represents(R[i], t)}
<1>1. n \in Nat /\ \A i \in 1..n : entries[i].address \in Address
                                /\ entries[i].account \in Account
  BY EntryType
<1>2. R = [i \in 0..n |-> body(i)]
  BY LoadRunDef
<1> HIDE DEF R
<1>3. \A i \in 0..n : R[i] = body(i)
  <2> HIDE DEF body
  <2> QED BY <1>2
<1>4. 0 \in Good
  <2> DEFINE none == [x \in {} |-> DefaultAccount]
  <2>1. R[0] = <<>>
    <3>1. R[0] = body(0)
      <4> HIDE DEF body
      <4> QED BY <1>1, <1>3
    <3> QED BY <3>1
  <2>2. none \in State
    <3>1. none \in [{} -> Account] /\ {} \in SUBSET Address
      OBVIOUS
    <3> QED BY <3>1 DEF State
  <2>3. LoadedBy(entries, 0, none)
    BY <2>2 DEF LoadedBy
  <2>4. Represents(<<>>, none)
    BY DEF Represents, InAddressOrder, ToSet, EntriesOf
  <2> HIDE DEF none
  <2> QED BY <1>1, <2>1, <2>3, <2>4
<1>5. ASSUME NEW i \in 1..n, i - 1 \in Good
      PROVE  i \in Good
  <2>1. PICK t : LoadedBy(entries, i - 1, t) /\ Represents(R[i - 1], t)
    BY <1>5
  <2>2. i \in 0..n /\ i # 0
    BY <1>1
  <2>3. R[i] = VecSet(R[i - 1], entries[i].address, entries[i].account)
    <3>1. R[i] = body(i)
      <4> HIDE DEF body
      <4> QED BY <1>3, <2>2
    <3> QED BY <2>2, <3>1
  <2> DEFINE u == set(t, entries[i].address, entries[i].account)
  <2>4. LoadedBy(entries, i, u)
    BY <2>1, LoadedStep
  <2>5. Represents(R[i], u)
    <3>1. t \in State
      BY <2>1 DEF LoadedBy
    <3> QED BY <1>1, <2>1, <2>3, <3>1, SetRepresents
  <2> HIDE DEF u
  <2> QED BY <2>2, <2>4, <2>5
<1>6. n \in Good
  <2> HIDE DEF Good
  <2>1. \A i \in 0..n : i \in Good
    BY <1>1, <1>4, <1>5, Upwards
  <2> QED BY <1>1, <2>1
<1>7. QED
  BY <1>6 DEF R, into_state

\* Entries among which the last one for each account of a state says what the state
\* says load the vector of that state.
LEMMA LoadsState ==
  ASSUME NEW s \in State, NEW entries \in Seq(Entry),
         \A k \in 1..Len(entries) : entries[k].address \in DOMAIN s,
         \A y \in DOMAIN s : \E k \in 1..Len(entries) :
           /\ entries[k] = EntryOf(y, s[y])
           /\ \A l \in k + 1..Len(entries) : entries[l].address # y
  PROVE  Represents(into_state(entries), s)
<1> DEFINE n == Len(entries)
<1>1. PICK t : LoadedBy(entries, n, t) /\ Represents(into_state(entries), t)
  BY LastEntryCounts
<1>2. /\ t \in State
      /\ DOMAIN t = {entries[k].address : k \in 1..n}
      /\ \A k \in 1..n :
           (\A l \in k + 1..n : entries[l].address # entries[k].address)
             => t[entries[k].address] = entries[k].account
  BY <1>1 DEF LoadedBy
<1>3. ASSUME NEW y \in DOMAIN s
      PROVE  y \in DOMAIN t /\ t[y] = s[y]
  <2>1. PICK k \in 1..n : /\ entries[k] = EntryOf(y, s[y])
                          /\ \A l \in k + 1..n : entries[l].address # y
    OBVIOUS
  <2>2. entries[k].address = y /\ entries[k].account = s[y]
    BY <2>1 DEF EntryOf
  <2> QED BY <1>2, <2>1, <2>2
<1>4. DOMAIN t = DOMAIN s
  <2>1. \A y \in DOMAIN t : y \in DOMAIN s
    BY <1>2
  <2> QED BY <1>3, <2>1
<1>5. t = s
  <2>1. s = [y \in DOMAIN s |-> s[y]] /\ t = [y \in DOMAIN t |-> t[y]]
    BY <1>2 DEF State
  <2> QED BY <1>3, <1>4, <2>1
<1>6. QED
  BY <1>1, <1>5

\* The entries of a state, loaded in any order and after an outdated one.
LEMMA LoadsInAnyOrder ==
  ASSUME NEW s \in State, NEW entries \in SetToSeqs(EntriesOf(s)), NEW x \in DOMAIN s
  PROVE  /\ Represents(into_state(entries), s)
         /\ Represents(into_state(<<EntryOf(x, DefaultAccount)>> \o entries), s)
<1> DEFINE n == Len(entries)
           outdated == EntryOf(x, DefaultAccount)
           q == <<outdated>> \o entries
<1>1. IsFiniteSet(EntriesOf(s)) /\ EntriesOf(s) \in SUBSET Entry
  BY VecOfStateRepresents, VectorIsOrdering
<1>2. /\ entries \in Seq(EntriesOf(s)) /\ n \in Nat
      /\ \A e \in EntriesOf(s) : \E i \in 1..n : entries[i] = e
      /\ \A i, j \in 1..n : i # j => entries[i] # entries[j]
  BY <1>1, Permutation
<1>3. entries \in Seq(Entry)
  BY <1>1, <1>2
<1>4. ASSUME NEW k \in 1..n
      PROVE  /\ entries[k].address \in DOMAIN s
             /\ entries[k] = EntryOf(entries[k].address, s[entries[k].address])
  <2>1. entries[k] \in EntriesOf(s)
    BY <1>2
  <2>2. PICK y \in DOMAIN s : entries[k] = EntryOf(y, s[y])
    BY <2>1 DEF EntriesOf
  <2>3. entries[k].address = y
    BY <2>2 DEF EntryOf
  <2> QED BY <2>2, <2>3
<1>5. ASSUME NEW y \in DOMAIN s
      PROVE  \E k \in 1..n : /\ entries[k] = EntryOf(y, s[y])
                            /\ \A l \in 1..n : l # k => entries[l].address # y
  <2>1. EntryOf(y, s[y]) \in EntriesOf(s)
    BY DEF EntriesOf
  <2>2. PICK k \in 1..n : entries[k] = EntryOf(y, s[y])
    BY <1>2, <2>1
  <2>3. ASSUME NEW l \in 1..n, l # k
        PROVE  entries[l].address # y
    <3>1. entries[l] # entries[k]
      BY <1>2, <2>3
    <3>2. entries[l] = EntryOf(entries[l].address, s[entries[l].address])
      BY <1>4
    <3> QED BY <2>2, <3>1, <3>2
  <2> QED BY <2>2, <2>3
<1>6. Represents(into_state(entries), s)
  <2>1. ASSUME NEW y \in DOMAIN s
        PROVE  \E k \in 1..n : /\ entries[k] = EntryOf(y, s[y])
                              /\ \A l \in k + 1..n : entries[l].address # y
    <3>1. PICK k \in 1..n : /\ entries[k] = EntryOf(y, s[y])
                            /\ \A l \in 1..n : l # k => entries[l].address # y
      BY <1>5
    <3>2. \A l \in k + 1..n : l \in 1..n /\ l # k
      BY <1>2
    <3> QED BY <3>1, <3>2
  <2> QED BY <1>3, <1>4, <2>1, LoadsState
<1>7. x \in Address /\ outdated \in Entry /\ outdated.address = x
  <2>1. x \in Address
    BY DEF State
  <2>2. DefaultAccount \in Account
    BY MaxU64Assumption DEF DefaultAccount, Account, U64
  <2> QED BY <2>1, <2>2 DEF Entry, EntryOf
<1> HIDE DEF outdated
<1>8. /\ q \in Seq(Entry) /\ Len(q) = n + 1 /\ q[1] = outdated
      /\ \A k \in 1..n : q[k + 1] = entries[k]
  <2>1. q \in Seq(Entry) /\ Len(q) = n + 1 /\ q[1] = outdated
    BY <1>2, <1>3, <1>7
  <2>2. ASSUME NEW k \in 1..n
        PROVE  q[k + 1] = entries[k]
    BY <1>2, <1>3, <1>7
  <2> QED BY <2>1, <2>2
<1> HIDE DEF q
<1>9. \A l \in 1..n + 1 : l = 1 \/ (l - 1 \in 1..n /\ q[l] = entries[l - 1])
  <2> TAKE l \in 1..n + 1
  <2> DEFINE k == l - 1
  <2>1. l # 1 => k \in 1..n /\ k + 1 = l
    BY <1>2
  <2>2. k \in 1..n => q[k + 1] = entries[k]
    BY <1>8
  <2>3. l # 1 => k \in 1..n /\ q[l] = entries[k]
    <3> HIDE DEF k
    <3> QED BY <2>1, <2>2
  <2> QED BY <2>3
<1>10. Represents(into_state(q), s)
  <2>1. ASSUME NEW l \in 1..Len(q)
        PROVE  q[l].address \in DOMAIN s
    <3>1. l \in 1..n + 1
      BY <1>8
    <3>2. CASE l = 1
      BY <1>7, <1>8, <3>2
    <3>3. CASE l - 1 \in 1..n /\ q[l] = entries[l - 1]
      BY <1>4, <3>3
    <3> QED BY <1>9, <3>1, <3>2, <3>3
  <2>2. ASSUME NEW y \in DOMAIN s
        PROVE  \E k \in 1..Len(q) : /\ q[k] = EntryOf(y, s[y])
                                   /\ \A l \in k + 1..Len(q) : q[l].address # y
    <3>1. PICK k \in 1..n : /\ entries[k] = EntryOf(y, s[y])
                            /\ \A l \in 1..n : l # k => entries[l].address # y
      BY <1>5
    <3>2. k + 1 \in 1..Len(q)
      BY <1>2, <1>8
    <3>3. q[k + 1] = EntryOf(y, s[y])
      <4>1. q[k + 1] = entries[k]
        BY <1>8
      <4> QED BY <3>1, <4>1
    <3>4. ASSUME NEW l \in k + 1 + 1..Len(q)
          PROVE  q[l].address # y
      <4>1. l \in 1..n + 1 /\ l # 1 /\ l - 1 # k
        BY <1>2, <1>8
      <4>2. l - 1 \in 1..n /\ q[l] = entries[l - 1]
        BY <1>9, <4>1
      <4> QED BY <3>1, <4>1, <4>2
    <3> QED BY <3>2, <3>3, <3>4
  <2>3. q \in Seq(Entry)
    BY <1>8
  <2> QED BY <2>1, <2>2, <2>3, LoadsState
<1>11. QED
  BY <1>6, <1>10 DEF q, outdated

----------------------------------------------------------------------------

\* In every state that the sequencer comes to, the sorted vector of shared-types
\* does what the function of Stf does: State::get and State::set by binary search,
\* apply_tx and apply_batch as the guest runs them, merkle_root, and the loaders of
\* genesis.json in whatever order and with whatever duplicates.
THEOREM VectorsImplementStates == Spec => []VectorImplementsState
<1>1. IInv => VectorImplementsState
  <2> SUFFICES ASSUME IInv PROVE VectorImplementsState
    OBVIOUS
  <2> DEFINE s   == canonical_state
             vec == VecOfState(s)
  <2>1. s \in State /\ speculative_state \in State /\ mempool \in Batch
        /\ apply_txs(s, mempool) = [ok |-> TRUE, state |-> speculative_state]
    <3>1. canonical_state \in State
      BY DEF IInv, TypeOK
    <3>2. /\ speculative_state \in State /\ mempool \in Seq(Txs)
          /\ apply_txs(canonical_state, mempool) = [ok |-> TRUE, state |-> speculative_state]
      BY DEF IInv, Coherent
    <3>3. mempool \in Batch
      BY <3>2, TxsAreTx
    <3> QED BY <3>1, <3>2, <3>3
  <2> HIDE DEF s
  <2>2. Represents(vec, s)
    BY <2>1, VecOfStateRepresents
  <2>3. \A x \in Address : VecGet(vec, x) = get(s, x)
    BY <2>1, <2>2, GetRepresents
  <2>4. ASSUME NEW tx \in Tx
        PROVE  /\ VecApplies(vec, tx) <=> Applies(s, tx)
               /\ Applies(s, tx) => VecApplied(vec, tx) = VecOfState(Applied(s, tx))
    <3> HIDE DEF vec
    <3>1. VecApplies(vec, tx) <=> Applies(s, tx)
      BY <2>1, <2>2, AppliesRepresents
    <3>2. ASSUME Applies(s, tx)
          PROVE  VecApplied(vec, tx) = VecOfState(Applied(s, tx))
      BY <2>1, <2>2, <3>2, AppliedType, AppliedRepresents, IsVecOfState
    <3> QED BY <3>1, <3>2
  <2>5. vec_apply_txs(vec, mempool) = [ok |-> TRUE, accounts |-> VecOfState(speculative_state)]
    <3> HIDE DEF vec
    <3>1. SameResult(vec_apply_txs(vec, mempool), apply_txs(s, mempool))
      BY <2>1, <2>2, BatchRepresents
    <3> DEFINE r == vec_apply_txs(vec, mempool)
    <3>2. r = [ok |-> TRUE, accounts |-> r.accounts] /\ Represents(r.accounts, speculative_state)
      BY <2>1, <3>1 DEF SameResult
    <3> HIDE DEF r
    <3>3. r.accounts = VecOfState(speculative_state)
      BY <2>1, <3>2, IsVecOfState
    <3> QED BY <3>2, <3>3 DEF r
  <2>6. ASSUME NEW entries \in SetToSeqs(ToSet(vec)), NEW x \in DOMAIN s
        PROVE  /\ into_state(<<EntryOf(x, DefaultAccount)>> \o entries) = vec
               /\ ToSet(compute_root(entries)) = merkle_root(s)
    <3>1. entries \in SetToSeqs(EntriesOf(s))
      BY <2>2 DEF Represents
    <3>2. /\ Represents(into_state(entries), s)
          /\ Represents(into_state(<<EntryOf(x, DefaultAccount)>> \o entries), s)
      BY <2>1, <3>1, LoadsInAnyOrder
    <3>3. ToSet(compute_root(entries)) = merkle_root(s)
      BY <2>1, <3>2, RootRepresents DEF compute_root
    <3>4. into_state(<<EntryOf(x, DefaultAccount)>> \o entries) = vec
      BY <2>1, <3>2, IsVecOfState
    <3> QED BY <3>3, <3>4
  <2>7. QED
    BY <2>2, <2>3, <2>4, <2>5, <2>6 DEF VectorImplementsState, s
<1>2. QED
  BY <1>1, Invariance, PTL
=============================================================================
