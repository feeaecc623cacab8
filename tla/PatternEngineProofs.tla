------------------------- MODULE PatternEngineProofs -------------------------
(* Theorems about PatternEngine, for every value of its constants.          *)
EXTENDS PatternEngine, DataLemmas, SequenceTheorems

-----------------------------------------------------------------------------
(* Types                                                                    *)

Transfers == [at : Nat, amount : Nat \ {0}]

Typed ==
  /\ rows \in Seq(Transfers)
  /\ now \in 0 .. MaxNow
  /\ \A i \in DOMAIN rows : rows[i].at <= now
  /\ history \in Seq(Transfers)
  /\ \A i \in DOMAIN history : history[i].at <= now
  /\ history = PairHistory(rows, now)

LEMMA TxFields ==
  ASSUME NEW h \in Seq(Transfers), NEW i \in DOMAIN h
  PROVE  h[i].at \in Nat /\ h[i].amount \in Nat \ {0}
<1>1. h[i] \in Transfers
  BY ElementOfSeq
<1> QED
  BY <1>1 DEF Transfers

-----------------------------------------------------------------------------
(* The order of the transfers                                               *)

Before(h, i) == {j \in DOMAIN h : Earlier(h, j, i)}

(* Earlier is a strict total order.                                         *)
LEMMA EarlierOrder ==
  ASSUME NEW h \in Seq(Transfers)
  PROVE  /\ \A i \in DOMAIN h : ~Earlier(h, i, i)
         /\ \A i, j, k \in DOMAIN h : Earlier(h, i, j) /\ Earlier(h, j, k) => Earlier(h, i, k)
         /\ \A i, j \in DOMAIN h : Earlier(h, i, j) \/ Earlier(h, j, i) \/ i = j
<1>1. DOMAIN h \in SUBSET Nat
  OBVIOUS
<1>2. \A i \in DOMAIN h : h[i].at \in Nat
  BY TxFields
<1> QED
  BY <1>1, <1>2 DEF Earlier

LEMMA FiniteDomain ==
  ASSUME NEW h \in Seq(Transfers)
  PROVE  /\ DOMAIN h = 1 .. Len(h) /\ Len(h) \in Nat
         /\ IsFiniteSet(DOMAIN h) /\ Cardinality(DOMAIN h) = Len(h)
<1>1. DOMAIN h = 1 .. Len(h) /\ Len(h) \in Nat
  OBVIOUS
<1>2. PICK n \in Nat : n = Len(h)
  BY <1>1
<1>3. IsFiniteSet(1 .. n) /\ Cardinality(1 .. n) = IF 1 > n THEN 0 ELSE n - 1 + 1
  BY FS_Interval
<1> QED
  BY <1>1, <1>2, <1>3

LEMMA BeforeFinite ==
  ASSUME NEW h \in Seq(Transfers), NEW i \in DOMAIN h
  PROVE  /\ IsFiniteSet(DOMAIN h) /\ Cardinality(DOMAIN h) = Len(h)
         /\ IsFiniteSet(Before(h, i)) /\ Cardinality(Before(h, i)) \in 0 .. Len(h) - 1
<1>1. DOMAIN h = 1 .. Len(h) /\ Len(h) \in Nat
  OBVIOUS
<1>2. IsFiniteSet(DOMAIN h) /\ Cardinality(DOMAIN h) = Len(h)
  BY FiniteDomain
<1>3. Before(h, i) \in SUBSET (DOMAIN h) /\ i \notin Before(h, i)
  BY EarlierOrder DEF Before
<1>4. /\ IsFiniteSet(Before(h, i)) /\ Cardinality(Before(h, i)) <= Cardinality(DOMAIN h)
      /\ Cardinality(DOMAIN h) = Cardinality(Before(h, i)) => DOMAIN h = Before(h, i)
  BY <1>2, <1>3, FS_Subset
<1>5. Cardinality(Before(h, i)) \in Nat
  BY <1>4, FS_CardinalityType
<1> QED
  BY <1>1, <1>2, <1>3, <1>4, <1>5

(* The earlier of two transfers has fewer before it.                        *)
LEMMA FewerBefore ==
  ASSUME NEW h \in Seq(Transfers), NEW i \in DOMAIN h, NEW j \in DOMAIN h, Earlier(h, i, j)
  PROVE  Cardinality(Before(h, i)) < Cardinality(Before(h, j))
<1>1. Before(h, i) \in SUBSET Before(h, j)
  BY EarlierOrder, Zenon DEF Before
<1>2. i \in Before(h, j) /\ i \notin Before(h, i)
  BY EarlierOrder DEF Before
<1>3. IsFiniteSet(Before(h, j)) /\ Cardinality(Before(h, j)) \in Nat /\ Cardinality(Before(h, i)) \in Nat
  BY BeforeFinite
<1>4. /\ Cardinality(Before(h, i)) <= Cardinality(Before(h, j))
      /\ Cardinality(Before(h, j)) = Cardinality(Before(h, i)) => Before(h, j) = Before(h, i)
  BY <1>1, <1>3, FS_Subset
<1> QED
  BY <1>2, <1>3, <1>4

(* Every transfer has its place in the order, and every place its transfer. *)
LEMMA RankIsBijective ==
  ASSUME NEW h \in Seq(Transfers), NEW k \in 1 .. Len(h)
  PROVE  \E i \in DOMAIN h : Cardinality(Before(h, i)) = k - 1
<1> DEFINE rank == [i \in DOMAIN h |-> Cardinality(Before(h, i))]
           places == 0 .. Len(h) - 1
<1>1. rank \in [DOMAIN h -> places]
  BY BeforeFinite
<1>2. \A i, j \in DOMAIN h : rank[i] = rank[j] => i = j
  <2> SUFFICES ASSUME NEW i \in DOMAIN h, NEW j \in DOMAIN h, i # j PROVE rank[i] # rank[j]
    OBVIOUS
  <2>1. Cardinality(Before(h, i)) \in Nat /\ Cardinality(Before(h, j)) \in Nat
    BY BeforeFinite
  <2>2. Cardinality(Before(h, i)) < Cardinality(Before(h, j)) \/ Cardinality(Before(h, j)) < Cardinality(Before(h, i))
    BY EarlierOrder, FewerBefore
  <2> QED
    BY <2>1, <2>2
<1>3. IsFiniteSet(places) /\ Cardinality(places) = Len(h)
  <2> DEFINE last == Len(h) - 1
  <2>1. last \in Int /\ last >= 0
    OBVIOUS
  <2>2. IsFiniteSet(0 .. last) /\ Cardinality(0 .. last) = IF 0 > last THEN 0 ELSE last - 0 + 1
    <3> HIDE DEF last
    <3> QED
      BY <2>1, FS_Interval
  <2> QED
    BY <2>1, <2>2
<1>4. Cardinality(DOMAIN h) = Len(h)
  BY FiniteDomain
<1>5. k - 1 \in places
  OBVIOUS
<1>6. rank \in Injection(DOMAIN h, places)
  <2> HIDE DEF rank, places
  <2> QED
    BY <1>1, <1>2 DEF Injection, IsInjective
<1>7. rank \in Surjection(DOMAIN h, places)
  <2> HIDE DEF rank, places
  <2> QED
    BY <1>3, <1>4, <1>6, FS_Injection
<1>8. \E i \in DOMAIN h : rank[i] = k - 1
  <2> HIDE DEF rank, places
  <2> QED
    BY <1>5, <1>7 DEF Surjection
<1> QED
  BY <1>8

LEMMA NthFacts ==
  ASSUME NEW h \in Seq(Transfers), NEW k \in 1 .. Len(h)
  PROVE  Nth(h, k) \in DOMAIN h /\ Cardinality(Before(h, Nth(h, k))) = k - 1
<1>1. PICK i \in DOMAIN h : Cardinality(Before(h, i)) = k - 1
  BY RankIsBijective
<1>2. Nth(h, k) = CHOOSE x \in DOMAIN h : Cardinality(Before(h, x)) = k - 1
  BY Zenon DEF Nth, Before
<1> QED
  BY <1>1, <1>2, Zenon

(* Nth lists the transfers in the order of Earlier.                         *)
LEMMA NthOrder ==
  ASSUME NEW h \in Seq(Transfers), NEW j \in 1 .. Len(h), NEW k \in 1 .. Len(h)
  PROVE  Earlier(h, Nth(h, j), Nth(h, k)) <=> j < k
<1>1. /\ Nth(h, j) \in DOMAIN h /\ Cardinality(Before(h, Nth(h, j))) = j - 1
      /\ Nth(h, k) \in DOMAIN h /\ Cardinality(Before(h, Nth(h, k))) = k - 1
  BY NthFacts
<1>2. ASSUME Earlier(h, Nth(h, j), Nth(h, k)) PROVE j < k
  BY <1>1, <1>2, FewerBefore
<1>3. ASSUME j < k PROVE Earlier(h, Nth(h, j), Nth(h, k))
  <2>1. CASE Nth(h, j) = Nth(h, k)
    BY <1>1, <1>3, <2>1
  <2>2. CASE Earlier(h, Nth(h, k), Nth(h, j))
    BY <1>1, <1>3, <2>2, FewerBefore
  <2> QED
    BY <1>1, <2>1, <2>2, EarlierOrder
<1> QED
  BY <1>2, <1>3

LEMMA NthOnto ==
  ASSUME NEW h \in Seq(Transfers), NEW i \in DOMAIN h
  PROVE  \E k \in 1 .. Len(h) : Nth(h, k) = i
<1> DEFINE k == Cardinality(Before(h, i)) + 1
<1>1. k \in 1 .. Len(h) /\ Cardinality(Before(h, i)) = k - 1
  BY BeforeFinite
<1>2. Nth(h, k) \in DOMAIN h /\ Cardinality(Before(h, Nth(h, k))) = k - 1
  BY <1>1, NthFacts
<1> HIDE DEF k
<1>3. ~Earlier(h, Nth(h, k), i) /\ ~Earlier(h, i, Nth(h, k))
  BY <1>1, <1>2, FewerBefore
<1>4. Nth(h, k) = i
  BY <1>2, <1>3, EarlierOrder
<1> QED
  BY <1>1, <1>4

LEMMA MostRecentFacts ==
  ASSUME NEW h \in Seq(Transfers), NEW T \in SUBSET (DOMAIN h), T # {}
  PROVE  MostRecent(h, T) \in T /\ \A u \in T : ~Earlier(h, MostRecent(h, T), u)
<1> DEFINE rank == [i \in T |-> Cardinality(Before(h, i))]
<1>1. IsFiniteSet(T)
  BY FiniteDomain, FS_Subset
<1>2. \A i \in T : Cardinality(Before(h, i)) \in Int
  BY BeforeFinite
<1>3. rank \in [T -> Int]
  BY <1>2
<1>4. PICK e \in T : \A g \in T : rank[g] <= rank[e]
  <2> HIDE DEF rank
  <2> QED
    BY <1>1, <1>3, Attained
<1>5. \A u \in T : ~Earlier(h, e, u)
  BY <1>2, <1>4, FewerBefore
<1> QED
  BY <1>5, Zenon DEF MostRecent

-----------------------------------------------------------------------------
(* What an analysis reads                                                   *)

LEMMA InOrderFacts ==
  ASSUME NEW r \in Seq(Transfers)
  PROVE  /\ InOrder(r) \in Seq(Transfers) /\ Len(InOrder(r)) = Len(r)
         /\ \A k \in 1 .. Len(r) : \E i \in DOMAIN r : InOrder(r)[k] = r[i]
         /\ \A j, k \in 1 .. Len(r) : j < k => InOrder(r)[j].at <= InOrder(r)[k].at
<1>1. DOMAIN r = 1 .. Len(r) /\ Len(r) \in Nat
  BY LenProperties
<1>2. \A k \in 1 .. Len(r) : Nth(r, k) \in DOMAIN r /\ InOrder(r)[k] = r[Nth(r, k)] /\ r[Nth(r, k)] \in Transfers
  <2> SUFFICES ASSUME NEW k \in 1 .. Len(r)
               PROVE  Nth(r, k) \in DOMAIN r /\ InOrder(r)[k] = r[Nth(r, k)] /\ r[Nth(r, k)] \in Transfers
    OBVIOUS
  <2>1. Nth(r, k) \in DOMAIN r
    BY NthFacts
  <2>2. r[Nth(r, k)] \in Transfers
    BY <1>1, <2>1, ElementOfSeq
  <2> QED
    BY <1>1, <2>1, <2>2 DEF InOrder
<1>3. InOrder(r) \in [1 .. Len(r) -> Transfers]
  BY <1>1, <1>2 DEF InOrder
<1>4. InOrder(r) \in Seq(Transfers) /\ Len(InOrder(r)) = Len(r)
  BY <1>1, <1>3
<1>5. ASSUME NEW j \in 1 .. Len(r), NEW k \in 1 .. Len(r), j < k
      PROVE  InOrder(r)[j].at <= InOrder(r)[k].at
  <2>1. Earlier(r, Nth(r, j), Nth(r, k))
    BY <1>5, NthOrder
  <2>2. r[Nth(r, j)].at \in Nat /\ r[Nth(r, k)].at \in Nat
    BY <1>2, TxFields
  <2> QED
    BY <1>2, <2>1, <2>2 DEF Earlier
<1> QED
  BY <1>2, <1>4, <1>5

LEMMA UnreadFacts ==
  ASSUME NEW r \in Seq(Transfers), NEW n \in Nat
  PROVE  /\ Unread(r, n) \in 0 .. Len(r)
         /\ Unread(r, n) <= Unread(r, n + 1)
<1>1. IsFiniteSet(DOMAIN r) /\ Cardinality(DOMAIN r) = Len(r) /\ Len(r) \in Nat
  BY FiniteDomain
<1>2. Lookback \in Nat /\ HistoryLimit \in Nat
  BY PatternAssumption DEF PatternAssumption
<1>3. TooOld(r, n) \subseteq TooOld(r, n + 1)
  BY <1>2, TxFields DEF TooOld
<1>4. /\ TooOld(r, n + 1) \in SUBSET (DOMAIN r) /\ IsFiniteSet(TooOld(r, n + 1))
      /\ Cardinality(TooOld(r, n + 1)) <= Len(r)
  BY <1>1, FS_Subset DEF TooOld
<1>5. Cardinality(TooOld(r, n)) <= Cardinality(TooOld(r, n + 1)) /\ IsFiniteSet(TooOld(r, n))
  BY <1>3, <1>4, FS_Subset
<1>6. PICK a \in Nat : a = Cardinality(TooOld(r, n))
  BY <1>5, FS_CardinalityType
<1>7. PICK b \in Nat : b = Cardinality(TooOld(r, n + 1))
  BY <1>4, FS_CardinalityType
<1>8. PICK c \in Int : c = Len(r) - HistoryLimit
  BY <1>1, <1>2
<1>9. Unread(r, n) = Max({a, c}) /\ Unread(r, n + 1) = Max({b, c})
  BY <1>6, <1>7, <1>8 DEF Unread
<1>10. a <= b /\ b <= Len(r) /\ c <= Len(r)
  BY <1>1, <1>2, <1>4, <1>5, <1>6, <1>7, <1>8
<1>11. /\ Max({a, c}) \in {a, c} /\ a <= Max({a, c}) /\ c <= Max({a, c})
       /\ Max({b, c}) \in {b, c} /\ b <= Max({b, c}) /\ c <= Max({b, c})
  BY MaxOfTwo
<1> QED
  BY <1>1, <1>9, <1>10, <1>11

(* The rows without the first d in the order of their times.                *)
Rest(r, d) == SubSeq(InOrder(r), d + 1, Len(r))

LEMMA RestFacts ==
  ASSUME NEW r \in Seq(Transfers), NEW d \in 0 .. Len(r)
  PROVE  /\ Rest(r, d) \in Seq(Transfers) /\ Len(Rest(r, d)) = Len(r) - d
         /\ \A i \in 1 .. Len(r) - d : Rest(r, d)[i] = InOrder(r)[d + i]
<1>1. Len(r) \in Nat /\ d \in Nat /\ d + 1 \in Int
  BY LenProperties
<1>2. InOrder(r) \in Seq(Transfers) /\ Len(InOrder(r)) = Len(r)
  BY InOrderFacts
<1>3. \A i \in d + 1 .. Len(r) : InOrder(r)[i] \in Transfers
  BY <1>1, <1>2, ElementOfSeq
<1>4. /\ Rest(r, d) \in Seq(Transfers)
      /\ Len(Rest(r, d)) = IF d + 1 <= Len(r) THEN Len(r) - (d + 1) + 1 ELSE 0
      /\ \A i \in 1 .. Len(r) - (d + 1) + 1 : Rest(r, d)[i] = InOrder(r)[(d + 1) + i - 1]
  BY <1>1, <1>3, SubSeqProperties DEF Rest
<1> QED
  BY <1>1, <1>4

(* In the order of their times, and so of their places.                     *)
Ordered(h) == \A i, j \in DOMAIN h : i < j => h[i].at <= h[j].at

LEMMA RestOrdered ==
  ASSUME NEW r \in Seq(Transfers), NEW d \in 0 .. Len(r)
  PROVE  /\ Ordered(Rest(r, d))
         /\ \A i \in DOMAIN Rest(r, d) : \E j \in DOMAIN r : Rest(r, d)[i] = r[j]
<1>1. /\ Len(r) \in Nat /\ d \in Nat /\ DOMAIN Rest(r, d) = 1 .. Len(r) - d
      /\ \A i \in 1 .. Len(r) - d : Rest(r, d)[i] = InOrder(r)[d + i] /\ d + i \in 1 .. Len(r)
  <2>1. Len(r) \in Nat
    BY LenProperties
  <2>2. Rest(r, d) \in Seq(Transfers) /\ Len(Rest(r, d)) = Len(r) - d
    BY RestFacts
  <2>3. \A i \in 1 .. Len(r) - d : Rest(r, d)[i] = InOrder(r)[d + i]
    BY RestFacts
  <2>4. DOMAIN Rest(r, d) = 1 .. Len(r) - d
    BY <2>2, LenProperties
  <2>5. d \in Nat /\ \A i \in 1 .. Len(r) - d : d + i \in 1 .. Len(r)
    BY <2>1
  <2> QED
    BY <2>1, <2>3, <2>4, <2>5
<1>2. \A k \in 1 .. Len(r) : InOrder(r)[k].at \in Nat
  BY InOrderFacts, TxFields
<1>3. \A j, k \in 1 .. Len(r) : j < k => InOrder(r)[j].at <= InOrder(r)[k].at
  BY InOrderFacts
<1>4. ASSUME NEW i \in 1 .. Len(r) - d, NEW j \in 1 .. Len(r) - d, i < j
      PROVE  Rest(r, d)[i].at <= Rest(r, d)[j].at
  <2>1. d + i \in 1 .. Len(r) /\ d + j \in 1 .. Len(r) /\ d + i < d + j
    BY <1>1, <1>4
  <2> QED
    BY <1>1, <1>3, <2>1
<1>5. \A i \in 1 .. Len(r) - d : \E j \in DOMAIN r : Rest(r, d)[i] = r[j]
  BY <1>1, InOrderFacts
<1> QED
  BY <1>1, <1>4, <1>5 DEF Ordered

LEMMA ReadFacts ==
  ASSUME NEW r \in Seq(Transfers), NEW n \in Nat, \A i \in DOMAIN r : r[i].at <= n
  PROVE  /\ PairHistory(r, n) \in Seq(Transfers) /\ Ordered(PairHistory(r, n))
         /\ \A i \in DOMAIN PairHistory(r, n) : PairHistory(r, n)[i].at <= n
<1>1. PICK d \in 0 .. Len(r) : d = Unread(r, n)
  BY UnreadFacts
<1>2. PairHistory(r, n) = Rest(r, d)
  BY <1>1 DEF PairHistory, Rest
<1> QED
  BY <1>2, RestFacts, RestOrdered

LEMMA InitTyped == Init => Typed
<1> SUFFICES ASSUME Init PROVE Typed
  OBVIOUS
<1>1. rows = <<>> /\ history = <<>> /\ now = 0 /\ now \in 0 .. MaxNow
  BY PatternAssumption DEF Init, PatternAssumption
<1>2. rows \in Seq(Transfers) /\ Len(rows) = 0 /\ DOMAIN rows = {}
  BY <1>1
<1>3. \A i \in DOMAIN rows : rows[i].at <= now
  BY <1>2
<1>4. PairHistory(rows, now) \in Seq(Transfers) /\ Len(PairHistory(rows, now)) = 0
  <2>1. PICK d \in 0 .. Len(rows) : d = Unread(rows, now)
    BY <1>1, <1>2, UnreadFacts
  <2>2. PairHistory(rows, now) = Rest(rows, d)
    BY <2>1 DEF PairHistory, Rest
  <2>3. d = 0
    BY <1>2, <2>1
  <2>4. Rest(rows, d) \in Seq(Transfers) /\ Len(Rest(rows, d)) = Len(rows) - d
    BY <1>2, <2>1, RestFacts
  <2> QED
    BY <1>2, <2>2, <2>3, <2>4
<1>5. PairHistory(rows, now) = <<>>
  BY <1>4, EmptySeq
<1> QED
  BY <1>1, <1>2, <1>3, <1>5 DEF Typed

(* A batch extends the rows.                                                *)
LEMMA StoreFacts ==
  ASSUME Typed, NEW b \in Batches, Store(b)
  PROVE  /\ rows' \in Seq(Transfers)
         /\ Len(rows') = Len(rows) + Len(b)
         /\ DOMAIN rows = 1 .. Len(rows) /\ DOMAIN rows' = 1 .. Len(rows) + Len(b)
         /\ \A i \in DOMAIN rows : rows'[i] = rows[i]
         /\ \A i \in DOMAIN rows' : rows'[i].at <= now
<1> DEFINE new == [i \in DOMAIN b |-> [at |-> now - b[i].ago, amount |-> b[i].amount]]
<1>1. b \in Seq([ago : Nat, amount : Nat \ {0}]) /\ now \in Nat /\ rows \in Seq(Transfers)
  BY PatternAssumption DEF PatternAssumption, Typed
<1>2. ASSUME NEW i \in DOMAIN b PROVE new[i] \in Transfers /\ new[i].at <= now
  <2>1. b[i].ago \in Nat /\ b[i].amount \in Nat \ {0}
    <3>1. i \in 1 .. Len(b)
      BY <1>1
    <3>2. b[i] \in [ago : Nat, amount : Nat \ {0}]
      BY <1>1, <3>1, ElementOfSeq
    <3> QED
      BY <3>2
  <2>2. b[i].ago <= now
    BY DEF Store
  <2>3. now - b[i].ago \in Nat /\ now - b[i].ago <= now
    BY <1>1, <2>1, <2>2
  <2> QED
    BY <2>1, <2>3 DEF Transfers
<1>3. new \in Seq(Transfers) /\ Len(new) = Len(b)
  <2>1. Len(b) \in Nat /\ DOMAIN b = 1 .. Len(b)
    BY <1>1
  <2>2. new \in [1 .. Len(b) -> Transfers]
    BY <1>2, <2>1
  <2> QED
    BY <2>1, <2>2
<1>4. rows' = rows \o new
  BY DEF Store
<1> HIDE DEF new
<1>5. rows' \in Seq(Transfers) /\ Len(rows') = Len(rows) + Len(b)
  <2>1. rows \o new \in Seq(Transfers) /\ Len(rows \o new) = Len(rows) + Len(new)
    BY <1>1, <1>3, ConcatProperties
  <2> QED
    BY <1>3, <1>4, <2>1
<1>6. \A i \in 1 .. Len(rows) : rows'[i] = rows[i]
  BY <1>1, <1>3, <1>4
<1>7. DOMAIN rows = 1 .. Len(rows) /\ DOMAIN rows' = 1 .. Len(rows) + Len(b)
  BY <1>1, <1>5
<1>8. ASSUME NEW i \in 1 .. Len(rows) + Len(b) PROVE rows'[i].at <= now
  <2>1. CASE i <= Len(rows)
    BY <2>1, <1>1, <1>6, <1>7 DEF Typed
  <2>2. CASE ~(i <= Len(rows))
    <3>1. rows'[i] = new[i - Len(rows)] /\ i - Len(rows) \in DOMAIN b
      BY <2>2, <1>1, <1>3, <1>4
    <3> QED
      BY <3>1, <1>2
  <2> QED
    BY <2>1, <2>2
<1> QED
  BY <1>5, <1>6, <1>7, <1>8

LEMMA TypedKeeps == Typed /\ [Next]_vars => Typed'
<1> SUFFICES ASSUME Typed, [Next]_vars PROVE Typed'
  OBVIOUS
<1>1. ASSUME NEW b \in Batches, Store(b) PROVE Typed'
  <2>1. now' = now /\ history' = PairHistory(rows', now') /\ now \in Nat
    BY <1>1 DEF Store, Typed
  <2>2. rows' \in Seq(Transfers) /\ \A i \in DOMAIN rows' : rows'[i].at <= now'
    BY <1>1, <2>1, StoreFacts
  <2> QED
    BY <2>1, <2>2, ReadFacts DEF Typed
<1>2. CASE Tick
  <2>1. \A i \in DOMAIN rows : rows[i].at \in Nat
    BY TxFields DEF Typed
  <2>2. now \in Nat /\ MaxNow \in Nat
    BY PatternAssumption DEF PatternAssumption, Typed
  <2>3. now' \in 0 .. MaxNow /\ now <= now' /\ now' \in Nat
    BY <1>2, <2>2 DEF Tick
  <2>4. rows' = rows /\ history' = PairHistory(rows', now')
    BY <1>2 DEF Tick
  <2>5. \A i \in DOMAIN rows : rows[i].at <= now'
    BY <2>1, <2>2, <2>3 DEF Typed
  <2> QED
    BY <2>3, <2>4, <2>5, ReadFacts DEF Typed
<1>3. CASE UNCHANGED vars
  BY <1>3 DEF vars, Typed
<1> QED
  BY <1>1, <1>2, <1>3 DEF Next

LEMMA AlwaysTyped == Spec => []Typed
BY InitTyped, TypedKeeps, PTL DEF Spec

-----------------------------------------------------------------------------
(* The sequences found among the first k transfers                          *)

Pairs(h) == [test : DOMAIN h, large : DOMAIN h]

(* The transfers that Paired may take as the test of x.                     *)
Tests(h, S, x) == {t \in DOMAIN h \ Used(S) : MayFollow(h, t, x)}

LEMMA PairedFacts ==
  ASSUME NEW h \in Seq(Transfers), NEW S \in SUBSET Pairs(h), NEW x \in DOMAIN h
  PROVE  /\ Tests(h, S, x) = {} => Paired(h, S, x) = S
         /\ Tests(h, S, x) # {} =>
              \E t \in Tests(h, S, x) : /\ \A u \in Tests(h, S, x) : ~Earlier(h, t, u)
                                        /\ Paired(h, S, x) = S \union {[test |-> t, large |-> x]}
         /\ Paired(h, S, x) \in SUBSET Pairs(h)
         /\ S \subseteq Paired(h, S, x)
<1>1. Paired(h, S, x) = IF Tests(h, S, x) = {} THEN S
                        ELSE S \union {[test |-> MostRecent(h, Tests(h, S, x)), large |-> x]}
  BY Zenon DEF Paired, Tests
<1>2. CASE Tests(h, S, x) = {}
  BY <1>1, <1>2
<1>3. CASE Tests(h, S, x) # {}
  <2>1. PICK t : t = MostRecent(h, Tests(h, S, x))
    OBVIOUS
  <2>2. Tests(h, S, x) \in SUBSET (DOMAIN h)
    BY DEF Tests
  <2>3. t \in Tests(h, S, x) /\ \A u \in Tests(h, S, x) : ~Earlier(h, t, u)
    BY <1>3, <2>1, <2>2, MostRecentFacts
  <2>4. Paired(h, S, x) = S \union {[test |-> t, large |-> x]}
    BY <1>1, <1>3, <2>1
  <2>5. [test |-> t, large |-> x] \in Pairs(h)
    BY <2>2, <2>3 DEF Pairs
  <2> QED
    BY <1>3, <2>3, <2>4, <2>5
<1> QED
  BY <1>2, <1>3

LEMMA FoundFacts ==
  ASSUME NEW h \in Seq(Transfers)
  PROVE  /\ Found(h)[0] = {}
         /\ \A k \in 1 .. Len(h) : Found(h)[k] = Paired(h, Found(h)[k - 1], Nth(h, k))
         /\ \A k \in 0 .. Len(h) : Found(h)[k] \in SUBSET Pairs(h)
<1> DEFINE N == Len(h)
           V == SUBSET Pairs(h)
           step == [a \in V \X (1 .. N) |-> Paired(h, a[1], Nth(h, a[2]))]
           Eq(f) == [k \in 0 .. N |-> IF k = 0 THEN {} ELSE Paired(h, f[k - 1], Nth(h, k))]
<1>1. step \in [V \X (1 .. N) -> V]
  <2> SUFFICES ASSUME NEW S \in V, NEW k \in 1 .. N PROVE Paired(h, S, Nth(h, k)) \in V
    OBVIOUS
  <2>1. Nth(h, k) \in DOMAIN h
    BY NthFacts
  <2> QED
    BY <2>1, PairedFacts
<1>2. N \in Nat /\ {} \in V
  OBVIOUS
<1>3. PICK f \in [0 .. N -> V] : f[0] = {} /\ \A k \in 1 .. N : f[k] = step[<<f[k - 1], k>>]
  <2> HIDE DEF step, V, N
  <2>1. PICK f : Recurs(f, N, V, {}, step)
    BY <1>1, <1>2, RecursionExists
  <2> QED
    BY <2>1, Zenon DEF Recurs
<1>4. \A k \in 1 .. N : f[k] = Paired(h, f[k - 1], Nth(h, k))
  <2> SUFFICES ASSUME NEW k \in 1 .. N PROVE f[k] = Paired(h, f[k - 1], Nth(h, k))
    OBVIOUS
  <2>1. k - 1 \in 0 .. N
    BY <1>2
  <2>2. <<f[k - 1], k>> \in V \X (1 .. N)
    BY <2>1
  <2>3. step[<<f[k - 1], k>>] = Paired(h, f[k - 1], Nth(h, k))
    BY <2>2
  <2> QED
    BY <1>3, <2>3
<1>5. f = Eq(f)
  <2>1. \A k \in 0 .. N : f[k] = IF k = 0 THEN {} ELSE Paired(h, f[k - 1], Nth(h, k))
    BY <1>2, <1>3, <1>4
  <2> QED
    BY <2>1
<1>6. Found(h) = CHOOSE g : g = Eq(g)
  BY Zenon DEF Found
<1>7. Found(h) = Eq(Found(h))
  <2> HIDE DEF Eq
  <2> QED
    BY <1>5, <1>6, Zenon
<1>8. \A k \in 0 .. N : Found(h)[k] = IF k = 0 THEN {} ELSE Paired(h, Found(h)[k - 1], Nth(h, k))
  <2> HIDE DEF N
  <2> QED
    BY <1>7, Zenon
<1>9. Found(h)[0] = {} /\ \A k \in 1 .. N : Found(h)[k] = Paired(h, Found(h)[k - 1], Nth(h, k))
  BY <1>2, <1>8
<1> DEFINE I == {k \in Nat : k <= N => Found(h)[k] \in V}
<1>10. 0 \in I
  BY <1>2, <1>9
<1>11. ASSUME NEW k \in Nat, k \in I PROVE k + 1 \in I
  <2> SUFFICES ASSUME k + 1 <= N PROVE Found(h)[k + 1] \in V
    OBVIOUS
  <2>1. Found(h)[k] \in V /\ k + 1 \in 1 .. N /\ (k + 1) - 1 = k
    BY <1>2, <1>11
  <2>2. Found(h)[k + 1] = Paired(h, Found(h)[k], Nth(h, k + 1))
    BY <1>9, <2>1
  <2> QED
    <3>1. PICK x : x = Nth(h, k + 1)
      OBVIOUS
    <3>2. x \in DOMAIN h
      BY <1>2, <2>1, <3>1, NthFacts
    <3>3. PICK S : S = Found(h)[k]
      OBVIOUS
    <3>4. S \in SUBSET Pairs(h)
      BY <2>1, <3>3, Zenon
    <3>5. Paired(h, S, x) \in SUBSET Pairs(h)
      BY <3>2, <3>4, PairedFacts, Zenon
    <3> QED
      BY <2>2, <3>1, <3>3, <3>5, Zenon
<1>12. \A k \in Nat : k \in I
  <2> HIDE DEF I
  <2> QED
    BY <1>10, <1>11, SetInduction
<1> QED
  BY <1>9, <1>12

(* The transfers whose turn is over after k turns.                          *)
Visited(h, k) == {Nth(h, j) : j \in 1 .. k}

(* What holds after k turns: two transfers for each sequence, all of them   *)
(* visited, and no visited transfer without a sequence that could have one. *)
Turn(h, k) ==
  LET S == Found(h)[k] IN
  /\ S \in SUBSET Pairs(h)
  /\ IsFiniteSet(S) /\ IsFiniteSet(Used(S)) /\ Cardinality(Used(S)) = 2 * Cardinality(S)
  /\ \A s \in S : MayFollow(h, s.test, s.large)
  /\ \A s, u \in S : s.test # u.large
  /\ Used(S) \subseteq Visited(h, k)
  /\ \A t \in DOMAIN h, x \in Visited(h, k) :
       MayFollow(h, t, x) =>
         t \in Used(S) \/ \E s \in S : s.large = x /\ ~Earlier(h, s.test, t)

LEMMA UsedMore ==
  ASSUME NEW S, NEW r
  PROVE  Used(S \union {r}) = Used(S) \union {r.test} \union {r.large}
BY DEF Used

LEMMA VisitedMore ==
  ASSUME NEW h, NEW k \in Nat
  PROVE  Visited(h, k + 1) = Visited(h, k) \union {Nth(h, k + 1)}
<1>1. 1 .. k + 1 = (1 .. k) \union {k + 1}
  OBVIOUS
<1> QED
  BY <1>1 DEF Visited

(* A transfer that comes after all the visited ones may follow only these.  *)
LEMMA FollowsVisited ==
  ASSUME NEW h \in Seq(Transfers), NEW k \in Nat, k + 1 <= Len(h),
         NEW t \in DOMAIN h, MayFollow(h, t, Nth(h, k + 1))
  PROVE  t \in Visited(h, k)
<1>1. PICK j \in 1 .. Len(h) : Nth(h, j) = t
  BY NthOnto
<1>2. k + 1 \in 1 .. Len(h)
  BY LenProperties
<1>3. Earlier(h, Nth(h, j), Nth(h, k + 1))
  BY <1>1 DEF MayFollow
<1>4. j < k + 1
  BY <1>2, <1>3, NthOrder
<1>5. j \in 1 .. k
  BY <1>4
<1> QED
  BY <1>1, <1>5 DEF Visited

LEMMA NotYetVisited ==
  ASSUME NEW h \in Seq(Transfers), NEW k \in Nat, k + 1 <= Len(h)
  PROVE  Nth(h, k + 1) \notin Visited(h, k)
<1> SUFFICES ASSUME NEW j \in 1 .. k, Nth(h, k + 1) = Nth(h, j) PROVE FALSE
  BY DEF Visited
<1>1. j \in 1 .. Len(h) /\ k + 1 \in 1 .. Len(h) /\ j < k + 1
  BY LenProperties
<1>2. Earlier(h, Nth(h, j), Nth(h, k + 1)) /\ Nth(h, j) \in DOMAIN h
  BY <1>1, NthOrder, NthFacts
<1> QED
  BY <1>2, EarlierOrder

LEMMA FirstTurn ==
  ASSUME NEW h \in Seq(Transfers)
  PROVE  Turn(h, 0)
<1>1. Found(h)[0] = {}
  BY FoundFacts
<1>2. Used({}) = {} /\ Visited(h, 0) = {}
  BY DEF Used, Visited
<1>3. IsFiniteSet({}) /\ Cardinality({}) = 0
  BY FS_EmptySet
<1>4. Cardinality({}) = 2 * Cardinality({})
  BY <1>3
<1> QED
  BY <1>1, <1>2, <1>3, <1>4, Zenon DEF Turn

LEMMA NextTurn ==
  ASSUME NEW h \in Seq(Transfers), NEW k \in Nat, k + 1 <= Len(h), Turn(h, k)
  PROVE  Turn(h, k + 1)
<1> DEFINE S == Found(h)[k]
           x == Nth(h, k + 1)
           R == Found(h)[k + 1]
<1>1. k + 1 \in 1 .. Len(h) /\ (k + 1) - 1 = k
  BY LenProperties
<1>2. R = Paired(h, S, x)
  BY <1>1, FoundFacts
<1>3. x \in DOMAIN h /\ x \notin Visited(h, k)
  BY <1>1, NthFacts, NotYetVisited
<1>4. Visited(h, k + 1) = Visited(h, k) \union {x}
  BY VisitedMore
<1>5. /\ S \in SUBSET Pairs(h)
      /\ IsFiniteSet(S) /\ IsFiniteSet(Used(S)) /\ Cardinality(Used(S)) = 2 * Cardinality(S)
      /\ \A s \in S : MayFollow(h, s.test, s.large)
      /\ \A s, u \in S : s.test # u.large
      /\ Used(S) \subseteq Visited(h, k)
      /\ \A t \in DOMAIN h, y \in Visited(h, k) :
           MayFollow(h, t, y) =>
             t \in Used(S) \/ \E s \in S : s.large = y /\ ~Earlier(h, s.test, t)
  BY Zenon DEF Turn
<1> HIDE DEF S, x, R
<1>6. CASE Tests(h, S, x) = {}
  <2>1. R = S
    BY <1>2, <1>3, <1>5, <1>6, PairedFacts
  <2>2. Used(S) \subseteq Visited(h, k + 1)
    BY <1>4, <1>5
  <2>3. ASSUME NEW t \in DOMAIN h, NEW y \in Visited(h, k + 1), MayFollow(h, t, y)
        PROVE  t \in Used(S) \/ \E s \in S : s.large = y /\ ~Earlier(h, s.test, t)
    <3>1. CASE y = x
      BY <1>6, <2>3, <3>1 DEF Tests
    <3>2. CASE y \in Visited(h, k)
      BY <1>5, <2>3, <3>2
    <3> QED
      BY <1>4, <3>1, <3>2
  <2>4. Turn(h, k + 1) <=>
          /\ S \in SUBSET Pairs(h)
          /\ IsFiniteSet(S) /\ IsFiniteSet(Used(S)) /\ Cardinality(Used(S)) = 2 * Cardinality(S)
          /\ \A s \in S : MayFollow(h, s.test, s.large)
          /\ \A s, u \in S : s.test # u.large
          /\ Used(S) \subseteq Visited(h, k + 1)
          /\ \A t \in DOMAIN h, y \in Visited(h, k + 1) :
               MayFollow(h, t, y) =>
                 t \in Used(S) \/ \E s \in S : s.large = y /\ ~Earlier(h, s.test, t)
    BY <2>1, Zenon DEF Turn, R
  <2> QED
    BY <1>5, <2>2, <2>3, <2>4, Zenon
<1>7. CASE Tests(h, S, x) # {}
  <2>1. PICK t \in Tests(h, S, x) : /\ \A u \in Tests(h, S, x) : ~Earlier(h, t, u)
                                    /\ R = S \union {[test |-> t, large |-> x]}
    BY <1>2, <1>3, <1>5, <1>7, PairedFacts
  <2>2. t \in DOMAIN h /\ t \notin Used(S) /\ MayFollow(h, t, x)
    BY DEF Tests
  <2>3. t \in Visited(h, k)
    BY <2>2, FollowsVisited DEF x
  <2>4. x \notin Used(S) \union {t} /\ t # x
    BY <1>3, <1>5, <2>3
  <2>5. PICK r : r = [test |-> t, large |-> x]
    OBVIOUS
  <2>6. r.test = t /\ r.large = x /\ r \in Pairs(h)
    BY <1>3, <2>2, <2>5 DEF Pairs
  <2>7. R = S \union {r} /\ Used(R) = Used(S) \union {t} \union {x}
    <3>1. R = S \union {r}
      BY <2>1, <2>5, Zenon
    <3>2. Used(S \union {r}) = Used(S) \union {r.test} \union {r.large}
      BY UsedMore
    <3> QED
      BY <2>6, <3>1, <3>2, Zenon
  <2>8. r \notin S
    BY <2>2, <2>6 DEF Used
  <2>9. IsFiniteSet(R) /\ Cardinality(R) = Cardinality(S) + 1
    BY <1>5, <2>7, <2>8, FS_AddElement
  <2>10. IsFiniteSet(Used(S) \union {t}) /\ Cardinality(Used(S) \union {t}) = Cardinality(Used(S)) + 1
    BY <1>5, <2>2, FS_AddElement
  <2>11. IsFiniteSet(Used(R)) /\ Cardinality(Used(R)) = Cardinality(Used(S) \union {t}) + 1
    <3>1. PICK U : U = Used(S) \union {t}
      OBVIOUS
    <3>2. IsFiniteSet(U) /\ x \notin U /\ Used(R) = U \union {x}
      BY <2>4, <2>7, <2>10, <3>1, Zenon
    <3>3. IsFiniteSet(U \union {x}) /\ Cardinality(U \union {x}) = Cardinality(U) + 1
      BY <3>2, FS_AddElement
    <3> QED
      BY <3>1, <3>2, <3>3, Zenon
  <2>12. Cardinality(Used(R)) = 2 * Cardinality(R)
    <3>1. Cardinality(S) \in Nat
      BY <1>5, FS_CardinalityType
    <3> QED
      BY <1>5, <2>9, <2>10, <2>11, <3>1
  <2>13. \A s \in R : MayFollow(h, s.test, s.large)
    BY <1>5, <2>2, <2>6, <2>7
  <2>14. Used(R) \subseteq Visited(h, k + 1)
    BY <1>4, <1>5, <2>3, <2>7
  <2>15. ASSUME NEW u \in DOMAIN h, NEW y \in Visited(h, k + 1), MayFollow(h, u, y)
         PROVE  u \in Used(R) \/ \E s \in R : s.large = y /\ ~Earlier(h, s.test, u)
    <3>1. CASE y = x /\ u \in Used(S)
      BY <2>7, <3>1
    <3>2. CASE y = x /\ u \notin Used(S)
      <4>1. u \in Tests(h, S, x)
        BY <2>15, <3>2 DEF Tests
      <4> QED
        BY <2>1, <2>6, <2>7, <3>2, <4>1
    <3>3. CASE y \in Visited(h, k)
      BY <1>5, <2>7, <2>15, <3>3
    <3> QED
      BY <1>4, <3>1, <3>2, <3>3
  <2>16. R \in SUBSET Pairs(h)
    BY <1>5, <2>6, <2>7
  <2>17. ASSUME NEW s \in R, NEW u \in R PROVE s.test # u.large
    <3>1. (s \in S \/ s = r) /\ (u \in S \/ u = r)
      BY <2>7
    <3>2. \A v \in S : v.test \in Used(S) /\ v.large \in Used(S)
      BY DEF Used
    <3> QED
      BY <1>5, <2>2, <2>4, <2>6, <3>1, <3>2
  <2> QED
    BY <2>9, <2>11, <2>12, <2>13, <2>14, <2>15, <2>16, <2>17, Zenon DEF Turn, R
<1> QED
  BY <1>6, <1>7

LEMMA EveryTurn ==
  ASSUME NEW h \in Seq(Transfers), NEW k \in 0 .. Len(h)
  PROVE  Turn(h, k)
<1> DEFINE I == {n \in Nat : n <= Len(h) => Turn(h, n)}
<1>1. 0 \in I
  BY FirstTurn
<1>2. ASSUME NEW n \in Nat, n \in I PROVE n + 1 \in I
  <2>1. n <= Len(h) => Turn(h, n)
    BY <1>2
  <2>2. n + 1 <= Len(h) => Turn(h, n + 1)
    BY <2>1, NextTurn, LenProperties
  <2> QED
    BY <2>2
<1>3. \A n \in Nat : n \in I
  <2> HIDE DEF I
  <2> QED
    BY <1>1, <1>2, SetInduction
<1>4. k \in Nat /\ k <= Len(h) /\ k \in I
  BY <1>3, LenProperties
<1> QED
  BY <1>4

(* After the last turn every transfer is visited.                           *)
LEMMA DetectedFacts ==
  ASSUME NEW h \in Seq(Transfers)
  PROVE  /\ DetectSequences(h) \in SUBSET Pairs(h)
         /\ IsFiniteSet(DetectSequences(h))
         /\ Cardinality(Used(DetectSequences(h))) = 2 * Cardinality(DetectSequences(h))
         /\ \A s \in DetectSequences(h) : MayFollow(h, s.test, s.large)
         /\ \A s, u \in DetectSequences(h) : s.test # u.large
         /\ \A t, x \in DOMAIN h :
              MayFollow(h, t, x) =>
                \/ t \in Used(DetectSequences(h))
                \/ \E s \in DetectSequences(h) : s.large = x /\ ~Earlier(h, s.test, t)
<1>1. Len(h) \in 0 .. Len(h)
  BY LenProperties
<1>2. Turn(h, Len(h))
  BY <1>1, EveryTurn
<1>3. \A x \in DOMAIN h : x \in Visited(h, Len(h))
  BY NthOnto DEF Visited
<1> QED
  BY <1>2, <1>3, Zenon DEF Turn, DetectSequences

(* No tranche and no chain of growing transfers is counted twice            *)
(* (pattern_engine.py:135-163): whatever was transferred, when and in which *)
(* order it came, n sequences are 2 * n transfers.                          *)
THEOREM RepetitionIsEvidence == Spec => []SequencesSound
<1>1. Typed => SequencesSound
  BY DetectedFacts, Zenon DEF Typed, SequencesSound, Sequences
<1> QED
  BY <1>1, AlwaysTyped, PTL

(* Whatever was transferred, a transfer that could be the test of a later   *)
(* one is used, or the later one has a more recent test                     *)
(* (pattern_engine.py:148-162).                                             *)
THEOREM NoEvidenceOverlooked == Spec => []NoneMissed
<1>1. Typed => NoneMissed
  BY DetectedFacts, Zenon DEF Typed, NoneMissed, Sequences
<1> QED
  BY <1>1, AlwaysTyped, PTL

-----------------------------------------------------------------------------
(* Newer transfers                                                          *)

(* g goes on from h with transfers that are not older than those of h.      *)
GoesOn(h, g) ==
  /\ h \in Seq(Transfers) /\ g \in Seq(Transfers) /\ Len(h) <= Len(g)
  /\ \A i \in DOMAIN h : g[i] = h[i]
  /\ \A i \in DOMAIN h, j \in DOMAIN g \ DOMAIN h : h[i].at <= g[j].at

LEMMA SameOrder ==
  ASSUME NEW h, NEW g, GoesOn(h, g), NEW i \in DOMAIN h
  PROVE  /\ i \in DOMAIN g /\ DOMAIN h \subseteq DOMAIN g
         /\ \A j \in DOMAIN h : Earlier(g, j, i) <=> Earlier(h, j, i)
         /\ \A j \in DOMAIN g \ DOMAIN h : ~Earlier(g, j, i)
<1>1. /\ h \in Seq(Transfers) /\ g \in Seq(Transfers)
      /\ DOMAIN h = 1 .. Len(h) /\ DOMAIN g = 1 .. Len(g)
      /\ Len(h) \in Nat /\ Len(g) \in Nat /\ Len(h) <= Len(g)
  BY FiniteDomain DEF GoesOn
<1>2. DOMAIN h \subseteq DOMAIN g
  BY <1>1
<1>3. \A j \in DOMAIN h : Earlier(g, j, i) <=> Earlier(h, j, i)
  BY Zenon DEF GoesOn, Earlier
<1>4. ASSUME NEW j \in DOMAIN g \ DOMAIN h PROVE ~Earlier(g, j, i)
  <2>1. h[i].at <= g[j].at /\ g[i] = h[i]
    BY DEF GoesOn
  <2>2. h[i].at \in Nat /\ g[j].at \in Nat
    BY <1>1, TxFields
  <2>3. ~(j < i)
    BY <1>1
  <2> QED
    BY <2>1, <2>2, <2>3 DEF Earlier
<1> QED
  BY <1>2, <1>3, <1>4

LEMMA SameNth ==
  ASSUME NEW h, NEW g, GoesOn(h, g), NEW k \in 1 .. Len(h)
  PROVE  Nth(g, k) = Nth(h, k)
<1>1. h \in Seq(Transfers) /\ g \in Seq(Transfers) /\ k \in 1 .. Len(g)
  BY FiniteDomain DEF GoesOn
<1>2. Nth(h, k) \in DOMAIN h /\ Cardinality(Before(h, Nth(h, k))) = k - 1
  BY <1>1, NthFacts
<1>3. Nth(g, k) \in DOMAIN g /\ Cardinality(Before(g, Nth(g, k))) = k - 1
  BY <1>1, NthFacts
<1>4. Nth(h, k) \in DOMAIN g /\ Before(g, Nth(h, k)) = Before(h, Nth(h, k))
  BY <1>2, SameOrder DEF Before
<1>5. Cardinality(Before(g, Nth(h, k))) = k - 1
  BY <1>2, <1>4, Zenon
<1>6. ~Earlier(g, Nth(g, k), Nth(h, k)) /\ ~Earlier(g, Nth(h, k), Nth(g, k))
  BY <1>1, <1>3, <1>4, <1>5, FewerBefore
<1> QED
  BY <1>1, <1>3, <1>4, <1>6, EarlierOrder

LEMMA SamePaired ==
  ASSUME NEW h, NEW g, GoesOn(h, g), NEW S \in SUBSET Pairs(h), NEW x \in DOMAIN h
  PROVE  Paired(g, S, x) = Paired(h, S, x)
<1>1. h \in Seq(Transfers) /\ g \in Seq(Transfers)
  BY DEF GoesOn
<1>2. \A t \in DOMAIN h : MayFollow(g, t, x) <=> MayFollow(h, t, x)
  <2>1. \A t \in DOMAIN h : g[t] = h[t] /\ g[x] = h[x] /\ (Earlier(g, t, x) <=> Earlier(h, t, x))
    BY SameOrder DEF GoesOn
  <2> QED
    BY <2>1, Zenon DEF MayFollow
<1>3. \A t \in DOMAIN g \ DOMAIN h : ~MayFollow(g, t, x)
  BY SameOrder DEF MayFollow
<1>4. DOMAIN h \subseteq DOMAIN g
  BY SameOrder
<1>5. Tests(g, S, x) = Tests(h, S, x)
  BY <1>2, <1>3, <1>4 DEF Tests
<1> DEFINE T == Tests(h, S, x)
<1>6. T \in SUBSET (DOMAIN h)
  BY DEF Tests
<1>7. \A t, u \in T : Earlier(g, t, u) <=> Earlier(h, t, u)
  BY <1>6, SameOrder
<1>8. MostRecent(g, T) = MostRecent(h, T)
  <2> HIDE DEF T
  <2>1. \A t \in T : (\A u \in T : ~Earlier(g, t, u)) <=> (\A u \in T : ~Earlier(h, t, u))
    BY <1>7, Zenon
  <2>2. (CHOOSE t \in T : \A u \in T : ~Earlier(g, t, u)) = (CHOOSE t \in T : \A u \in T : ~Earlier(h, t, u))
    BY <2>1
  <2> QED
    BY <2>2, Zenon DEF MostRecent
<1>9. Paired(h, S, x) = IF T = {} THEN S ELSE S \union {[test |-> MostRecent(h, T), large |-> x]}
  BY Zenon DEF Paired, Tests
<1>10. Paired(g, S, x) = IF T = {} THEN S ELSE S \union {[test |-> MostRecent(g, T), large |-> x]}
  <2>1. Paired(g, S, x) = IF Tests(g, S, x) = {} THEN S
                          ELSE S \union {[test |-> MostRecent(g, Tests(g, S, x)), large |-> x]}
    BY Zenon DEF Paired, Tests
  <2> QED
    BY <1>5, <2>1, Zenon
<1>11. CASE T = {}
  BY <1>9, <1>10, <1>11, Zenon
<1>12. CASE T # {}
  BY <1>8, <1>9, <1>10, <1>12, Zenon
<1> HIDE DEF T
<1> QED
  BY <1>11, <1>12

(* The turns of the older transfers are what they were.                     *)
LEMMA SameFound ==
  ASSUME NEW h, NEW g, GoesOn(h, g)
  PROVE  Found(g)[Len(h)] = DetectSequences(h)
<1>1. h \in Seq(Transfers) /\ g \in Seq(Transfers) /\ Len(h) \in Nat /\ Len(g) \in Nat /\ Len(h) <= Len(g)
  BY FiniteDomain DEF GoesOn
<1> DEFINE I == {n \in Nat : n <= Len(h) => Found(g)[n] = Found(h)[n]}
<1>2. 0 \in I
  <2>1. Found(g)[0] = Found(h)[0]
    BY <1>1, FoundFacts, Zenon
  <2> QED
    BY <2>1
<1>3. ASSUME NEW n \in Nat, n \in I PROVE n + 1 \in I
  <2> SUFFICES ASSUME n + 1 <= Len(h) PROVE Found(g)[n + 1] = Found(h)[n + 1]
    OBVIOUS
  <2>1. /\ n \in 0 .. Len(h) /\ n + 1 \in 1 .. Len(h) /\ n + 1 \in 1 .. Len(g)
        /\ (n + 1) - 1 = n /\ Found(g)[n] = Found(h)[n]
    BY <1>1, <1>3
  <2>2. Found(g)[n + 1] = Paired(g, Found(g)[n], Nth(g, n + 1))
    BY <1>1, <2>1, FoundFacts
  <2>3. Found(h)[n + 1] = Paired(h, Found(h)[n], Nth(h, n + 1))
    BY <1>1, <2>1, FoundFacts
  <2>4. Nth(g, n + 1) = Nth(h, n + 1) /\ Nth(h, n + 1) \in DOMAIN h
    BY <1>1, <2>1, SameNth, NthFacts
  <2>5. Found(h)[n] \in SUBSET Pairs(h)
    BY <1>1, <2>1, FoundFacts
  <2>6. Paired(g, Found(h)[n], Nth(h, n + 1)) = Paired(h, Found(h)[n], Nth(h, n + 1))
    BY <2>4, <2>5, SamePaired
  <2> QED
    BY <2>1, <2>2, <2>3, <2>4, <2>6, Zenon
<1>4. \A n \in Nat : n \in I
  <2> HIDE DEF I
  <2> QED
    BY <1>2, <1>3, SetInduction
<1>5. Found(g)[Len(h)] = Found(h)[Len(h)]
  BY <1>1, <1>4
<1> QED
  BY <1>5, Zenon DEF DetectSequences

(* A turn takes no sequence away.                                           *)
LEMMA FoundGrows ==
  ASSUME NEW g \in Seq(Transfers), NEW k \in 0 .. Len(g)
  PROVE  Found(g)[k] \subseteq DetectSequences(g)
<1>1. Len(g) \in Nat
  BY LenProperties
<1> DEFINE I == {n \in Nat : k + n <= Len(g) => Found(g)[k] \subseteq Found(g)[k + n]}
<1>2. 0 \in I
  BY <1>1
<1>3. ASSUME NEW n \in Nat, n \in I PROVE n + 1 \in I
  <2> SUFFICES ASSUME k + (n + 1) <= Len(g) PROVE Found(g)[k] \subseteq Found(g)[k + (n + 1)]
    OBVIOUS
  <2>1. PICK m : m = k + n
    OBVIOUS
  <2>2. m \in 0 .. Len(g) /\ m + 1 \in 1 .. Len(g) /\ (m + 1) - 1 = m /\ k + (n + 1) = m + 1
    BY <1>1, <2>1
  <2>3. Found(g)[k] \subseteq Found(g)[m]
    BY <1>1, <1>3, <2>1, <2>2
  <2>4. Found(g)[m + 1] = Paired(g, Found(g)[m], Nth(g, m + 1))
    BY <2>2, FoundFacts
  <2>5. Found(g)[m] \in SUBSET Pairs(g) /\ Nth(g, m + 1) \in DOMAIN g
    BY <2>2, FoundFacts, NthFacts
  <2>6. Found(g)[m] \subseteq Paired(g, Found(g)[m], Nth(g, m + 1))
    <3>1. PICK S : S = Found(g)[m]
      OBVIOUS
    <3>2. PICK x : x = Nth(g, m + 1)
      OBVIOUS
    <3>3. S \in SUBSET Pairs(g) /\ x \in DOMAIN g
      BY <2>5, <3>1, <3>2
    <3>4. S \subseteq Paired(g, S, x)
      BY <3>3, PairedFacts, Zenon
    <3> QED
      BY <3>1, <3>2, <3>4, Zenon
  <2>7. Found(g)[k] \subseteq Found(g)[m + 1]
    BY <2>3, <2>4, <2>6
  <2> QED
    BY <2>2, <2>7
<1>4. \A n \in Nat : n \in I
  <2> HIDE DEF I
  <2> QED
    BY <1>2, <1>3, SetInduction
<1>5. PICK n \in Nat : n = Len(g) - k
  BY <1>1
<1>6. k + n = Len(g) /\ n \in I
  <2>1. k + n = Len(g)
    BY <1>1, <1>5
  <2>2. n \in I
    BY <1>4, Zenon
  <2> QED
    BY <2>1, <2>2, Zenon
<1>7. Found(g)[k] \subseteq Found(g)[k + n]
  BY <1>1, <1>6
<1> QED
  BY <1>6, <1>7, Zenon DEF DetectSequences

(* Transfers newer than all that is read take no sequence away              *)
(* (pattern_engine.py:145-162), however many come and whatever they are,    *)
(* unless the limit pushes out old ones.                                    *)
THEOREM NewerTransfersKeep == Spec => NewerKeepsSequences
<1>1. ASSUME Typed, [Next]_vars, IsPrefix(history, history')
      PROVE  Sequences \subseteq DetectSequences(history')
  <2>1. CASE history' = history
    BY <2>1, Zenon DEF Sequences
  <2>2. CASE history' = PairHistory(rows', now')
    <3>1. history \in Seq(Transfers) /\ history' \in Seq(Transfers) /\ Ordered(history')
      <4>1. /\ rows' \in Seq(Transfers) /\ now' \in Nat /\ \A i \in DOMAIN rows' : rows'[i].at <= now'
            /\ history' \in Seq(Transfers)
        <5>1. Typed'
          BY <1>1, TypedKeeps, Zenon
        <5> QED
          BY <5>1 DEF Typed
      <4> QED
        BY <1>1, <2>2, <4>1, ReadFacts DEF Typed
    <3>2. /\ Len(history) \in Nat /\ Len(history') \in Nat /\ Len(history) <= Len(history')
          /\ DOMAIN history = 1 .. Len(history) /\ DOMAIN history' = 1 .. Len(history')
      BY <1>1, <3>1, LenProperties DEF IsPrefix
    <3>3. ASSUME NEW i \in DOMAIN history PROVE history'[i] = history[i]
      <4>1. SubSeq(history, 1, Len(history)) = SubSeq(history', 1, Len(history))
        BY <1>1 DEF IsPrefix
      <4>2. \A j \in 1 .. Len(history) : history[j] \in Transfers /\ history'[j] \in Transfers
        BY <3>1, <3>2, ElementOfSeq
      <4>3. i \in 1 .. Len(history) - 1 + 1 /\ 1 + i - 1 = i
        BY <3>2
      <4>4. /\ SubSeq(history, 1, Len(history))[i] = history[1 + i - 1]
            /\ SubSeq(history', 1, Len(history))[i] = history'[1 + i - 1]
        BY <3>2, <4>2, <4>3, SubSeqProperties
      <4> QED
        BY <4>1, <4>3, <4>4
    <3>4. \A i \in DOMAIN history, j \in DOMAIN history' \ DOMAIN history : history[i].at <= history'[j].at
      BY <3>1, <3>2, <3>3 DEF Ordered
    <3>5. GoesOn(history, history')
      BY <3>1, <3>2, <3>3, <3>4 DEF GoesOn
    <3>6. Len(history) \in 0 .. Len(history')
      BY <3>2
    <3> QED
      BY <3>1, <3>5, <3>6, SameFound, FoundGrows, Zenon DEF Sequences
  <2> QED
    BY <1>1, <2>1, <2>2 DEF Next, Store, Tick, vars
<1>2. Typed /\ [Next]_vars =>
        [IsPrefix(history, history') => Sequences \subseteq DetectSequences(history')]_vars
  BY <1>1, Zenon
<1> QED
  BY <1>2, AlwaysTyped, PTL DEF Spec, NewerKeepsSequences

-----------------------------------------------------------------------------
(* The look-back and the limit only forget                                  *)

(* The transfers that no sequence of S uses.                                *)
Free(h, S) == DOMAIN h \ Used(S)

Followed(h, x) == {t \in DOMAIN h : MayFollow(h, t, x)}

(* From the free transfers A to A2 with the turn of x, which may follow M:  *)
(* the last free one of M becomes its test, if there is any.                *)
Advances(A, a, A2, a2, M, x) ==
  /\ x \in A
  /\ A \cap M = {} => A2 = A /\ a2 = a
  /\ A \cap M # {} =>
       \E t \in A \cap M : /\ \A u \in A \cap M : u <= t
                           /\ A2 = A \ {t, x}
                           /\ a2 = a + 1

(* With a sequences A are free; with b sequences, found without the oldest  *)
(* transfer, B are free.  Either one less is free, or one sequence less is  *)
(* found and one more is free.                                              *)
Behind(A, a, B, b) ==
  \/ a = b /\ \E e : B = A \ {e}
  \/ a = b + 1 /\ \E e : e \notin A /\ B = A \union {e}

LEMMA StaysBehind ==
  ASSUME NEW A, NEW B, NEW A2, NEW B2, NEW a \in Nat, NEW b \in Nat, NEW a2, NEW b2,
         NEW M \in SUBSET Int, NEW x, x \notin M,
         Behind(A, a, B, b), Advances(A, a, A2, a2, M, x), Advances(B, b, B2, b2, M, x)
  PROVE  Behind(A2, a2, B2, b2)
<1>1. CASE A \cap M = {} /\ B \cap M = {}
  <2>1. A2 = A /\ a2 = a /\ B2 = B /\ b2 = b
    BY <1>1 DEF Advances
  <2> QED
    BY <2>1
<1>2. CASE A \cap M # {} /\ B \cap M = {}
  <2>1. PICK t \in A \cap M : A2 = A \ {t, x} /\ a2 = a + 1
    BY <1>2 DEF Advances
  <2>2. B2 = B /\ b2 = b
    BY <1>2 DEF Advances
  <2>3. a = b /\ B = A \ {t}
    BY <1>2, <2>1 DEF Behind
  <2>4. x \in B
    BY DEF Advances
  <2>5. B2 = A2 \union {x}
    BY <2>1, <2>2, <2>3, <2>4
  <2> QED
    BY <2>1, <2>2, <2>3, <2>5 DEF Behind
<1>3. CASE A \cap M = {} /\ B \cap M # {}
  <2>1. PICK t \in B \cap M : B2 = B \ {t, x} /\ b2 = b + 1
    BY <1>3 DEF Advances
  <2>2. A2 = A /\ a2 = a
    BY <1>3 DEF Advances
  <2>3. a = b + 1 /\ B = A \union {t} /\ t \notin A
    BY <1>3, <2>1 DEF Behind
  <2>4. B2 = A2 \ {x}
    BY <2>1, <2>2, <2>3
  <2> QED
    BY <2>1, <2>2, <2>3, <2>4 DEF Behind
<1>4. CASE A \cap M # {} /\ B \cap M # {}
  <2>1. PICK t \in A \cap M : (\A u \in A \cap M : u <= t) /\ A2 = A \ {t, x} /\ a2 = a + 1
    BY <1>4 DEF Advances
  <2>2. PICK v \in B \cap M : (\A u \in B \cap M : u <= v) /\ B2 = B \ {v, x} /\ b2 = b + 1
    BY <1>4 DEF Advances
  <2>3. t \in Int /\ v \in Int /\ t # x /\ v # x /\ x \in A /\ x \in B
    BY DEF Advances
  <2>4. ASSUME a = b, NEW e, B = A \ {e} PROVE Behind(A2, a2, B2, b2)
    <3>1. CASE t = e
      <4>1. B2 = A2 \ {v}
        BY <2>1, <2>2, <2>4, <3>1
      <4> QED
        BY <2>1, <2>2, <2>4, <4>1 DEF Behind
    <3>2. CASE t # e
      <4>1. t = v
        BY <2>1, <2>2, <2>3, <2>4, <3>2
      <4>2. B2 = A2 \ {e}
        BY <2>1, <2>2, <2>4, <4>1
      <4> QED
        BY <2>1, <2>2, <2>4, <4>2 DEF Behind
    <3> QED
      BY <3>1, <3>2
  <2>5. ASSUME a = b + 1, NEW e, e \notin A, B = A \union {e} PROVE Behind(A2, a2, B2, b2)
    <3>1. a2 = b2 + 1
      BY <2>1, <2>2, <2>5
    <3>2. CASE v = t
      <4>1. e # t /\ e # x /\ e \notin A2
        BY <2>1, <2>3, <2>5
      <4>2. B2 = A2 \union {e}
        BY <2>1, <2>2, <2>5, <3>2, <4>1
      <4> QED
        BY <3>1, <4>1, <4>2 DEF Behind
    <3>3. CASE v # t
      <4>1. v = e /\ v \notin A /\ t \notin A2
        BY <2>1, <2>2, <2>3, <2>5, <3>3
      <4>2. B2 = A2 \union {t}
        BY <2>1, <2>2, <2>3, <2>5, <4>1
      <4> QED
        BY <3>1, <4>1, <4>2 DEF Behind
    <3> QED
      BY <3>2, <3>3
  <2> QED
    BY <2>4, <2>5 DEF Behind
<1> QED
  BY <1>1, <1>2, <1>3, <1>4

(* In a history in the order of its times each transfer is at its place.    *)
LEMMA OrderedPlaces ==
  ASSUME NEW h \in Seq(Transfers), Ordered(h)
  PROVE  /\ \A i, j \in DOMAIN h : Earlier(h, i, j) <=> i < j
         /\ \A k \in 1 .. Len(h) : Nth(h, k) = k
<1>1. DOMAIN h = 1 .. Len(h) /\ Len(h) \in Nat /\ \A i \in DOMAIN h : h[i].at \in Nat
  BY LenProperties, TxFields
<1>2. \A i, j \in DOMAIN h : Earlier(h, i, j) <=> i < j
  <2> SUFFICES ASSUME NEW i \in DOMAIN h, NEW j \in DOMAIN h PROVE Earlier(h, i, j) <=> i < j
    OBVIOUS
  <2>1. i < j \/ i = j \/ j < i
    BY <1>1
  <2>2. i < j => h[i].at <= h[j].at
    BY DEF Ordered
  <2>3. j < i => h[j].at <= h[i].at
    BY DEF Ordered
  <2> QED
    BY <1>1, <2>1, <2>2, <2>3 DEF Earlier
<1>3. ASSUME NEW k \in 1 .. Len(h) PROVE Nth(h, k) = k
  <2>1. Nth(h, k) \in DOMAIN h /\ Cardinality(Before(h, Nth(h, k))) = k - 1
    BY NthFacts
  <2>2. Before(h, Nth(h, k)) = 1 .. Nth(h, k) - 1
    BY <1>1, <1>2, <2>1 DEF Before
  <2>3. Cardinality(1 .. Nth(h, k) - 1) = Nth(h, k) - 1
    <3>1. PICK n \in 1 .. Len(h) : n = Nth(h, k)
      BY <1>1, <2>1
    <3>2. PICK m \in Nat : m = n - 1
      BY <1>1
    <3>3. Cardinality(1 .. m) = IF 1 > m THEN 0 ELSE m - 1 + 1
      BY FS_Interval
    <3> QED
      BY <3>1, <3>2, <3>3
  <2> QED
    BY <1>1, <2>1, <2>2, <2>3
<1> QED
  BY <1>2, <1>3

(* One turn of the search in such a history.                                *)
LEMMA OrderedTurn ==
  ASSUME NEW h \in Seq(Transfers), Ordered(h), NEW k \in Nat, k + 1 <= Len(h)
  PROVE  /\ Cardinality(Found(h)[k]) \in Nat
         /\ Advances(Free(h, Found(h)[k]), Cardinality(Found(h)[k]),
                     Free(h, Found(h)[k + 1]), Cardinality(Found(h)[k + 1]),
                     Followed(h, k + 1), k + 1)
<1>1. PICK S : S = Found(h)[k]
  OBVIOUS
<1>2. PICK x : x = k + 1
  OBVIOUS
<1>3. PICK R : R = Found(h)[k + 1]
  OBVIOUS
<1>4. x \in 1 .. Len(h) /\ DOMAIN h = 1 .. Len(h) /\ (k + 1) - 1 = k /\ k \in 0 .. Len(h)
  BY <1>2, LenProperties
<1>5. Nth(h, k + 1) = x
  BY <1>2, <1>4, OrderedPlaces
<1>6. R = Paired(h, S, x)
  BY <1>1, <1>2, <1>3, <1>4, <1>5, FoundFacts
<1>7. S \in SUBSET Pairs(h) /\ IsFiniteSet(S) /\ Used(S) \subseteq Visited(h, k)
  <2>1. Turn(h, k)
    BY <1>4, EveryTurn
  <2> QED
    BY <1>1, <2>1, Zenon DEF Turn
<1>8. x \notin Used(S)
  BY <1>5, <1>7, NotYetVisited
<1>9. Free(h, S) \cap Followed(h, x) = Tests(h, S, x)
  BY DEF Free, Followed, Tests
<1>10. Cardinality(S) \in Nat
  BY <1>7, FS_CardinalityType
<1>11. x \in Free(h, S)
  BY <1>4, <1>8 DEF Free
<1>12. ASSUME Tests(h, S, x) = {} PROVE R = S
  BY <1>4, <1>6, <1>7, <1>12, PairedFacts
<1>13. ASSUME Tests(h, S, x) # {}
       PROVE  \E t \in Tests(h, S, x) : /\ \A u \in Tests(h, S, x) : u <= t
                                        /\ Free(h, R) = Free(h, S) \ {t, x}
                                        /\ Cardinality(R) = Cardinality(S) + 1
  <2>1. PICK t \in Tests(h, S, x) : /\ \A u \in Tests(h, S, x) : ~Earlier(h, t, u)
                                    /\ R = S \union {[test |-> t, large |-> x]}
    BY <1>4, <1>6, <1>7, <1>13, PairedFacts
  <2>2. Tests(h, S, x) \in SUBSET (DOMAIN h)
    BY DEF Tests
  <2>3. ASSUME NEW u \in Tests(h, S, x) PROVE u <= t
    <3>1. t \in DOMAIN h /\ u \in DOMAIN h /\ ~Earlier(h, t, u)
      BY <2>1, <2>2
    <3>2. ~(t < u)
      BY <3>1, OrderedPlaces
    <3> QED
      BY <1>4, <3>1, <3>2
  <2>4. PICK r : r = [test |-> t, large |-> x]
    OBVIOUS
  <2>5. r.test = t /\ r.large = x /\ R = S \union {r}
    BY <2>1, <2>4
  <2>6. Used(R) = Used(S) \union {t} \union {x}
    BY <2>5, UsedMore, Zenon
  <2>7. r \notin S
    BY <1>8, <2>5 DEF Used
  <2>8. Cardinality(R) = Cardinality(S) + 1
    BY <1>7, <2>5, <2>7, FS_AddElement
  <2>9. Free(h, R) = Free(h, S) \ {t, x}
    BY <2>6 DEF Free
  <2> QED
    BY <2>3, <2>8, <2>9
<1>14. Advances(Free(h, S), Cardinality(S), Free(h, R), Cardinality(R), Followed(h, x), x)
  BY <1>9, <1>11, <1>12, <1>13, Zenon DEF Advances
<1> QED
  BY <1>1, <1>2, <1>3, <1>10, <1>14, Zenon

(* The history g is h without its first transfer.                           *)
Forgets(h, g) ==
  /\ h \in Seq(Transfers) /\ g \in Seq(Transfers) /\ Len(h) = Len(g) + 1
  /\ \A i \in 1 .. Len(g) : g[i] = h[i + 1]
  /\ Ordered(h)

Up(T) == {t + 1 : t \in T}

LEMMA ForgetsFacts ==
  ASSUME NEW h, NEW g, Forgets(h, g)
  PROVE  /\ h \in Seq(Transfers) /\ g \in Seq(Transfers) /\ Ordered(h) /\ Ordered(g)
         /\ Len(g) \in Nat /\ Len(h) = Len(g) + 1
         /\ DOMAIN g = 1 .. Len(g) /\ DOMAIN h = 1 .. Len(g) + 1
         /\ \A t, x \in 1 .. Len(g) : MayFollow(g, t, x) <=> MayFollow(h, t + 1, x + 1)
<1>1. /\ h \in Seq(Transfers) /\ g \in Seq(Transfers) /\ Len(h) = Len(g) + 1
      /\ \A i \in 1 .. Len(g) : g[i] = h[i + 1]
      /\ Ordered(h)
  BY DEF Forgets
<1>2. Len(g) \in Nat /\ DOMAIN g = 1 .. Len(g) /\ DOMAIN h = 1 .. Len(g) + 1
  BY <1>1, LenProperties
<1>3. Ordered(g)
  <2> SUFFICES ASSUME NEW i \in DOMAIN g, NEW j \in DOMAIN g, i < j
               PROVE  g[i].at <= g[j].at
    BY DEF Ordered
  <2>1. i + 1 \in DOMAIN h /\ j + 1 \in DOMAIN h /\ i + 1 < j + 1
    BY <1>2
  <2>2. h[i + 1].at <= h[j + 1].at
    BY <1>1, <2>1 DEF Ordered
  <2> QED
    BY <1>1, <1>2, <2>2
<1>4. ASSUME NEW t \in 1 .. Len(g), NEW x \in 1 .. Len(g)
      PROVE  MayFollow(g, t, x) <=> MayFollow(h, t + 1, x + 1)
  <2>1. g[t] = h[t + 1] /\ g[x] = h[x + 1] /\ (t < x <=> t + 1 < x + 1)
    BY <1>1, <1>2
  <2> QED
    BY <2>1 DEF MayFollow, Earlier
<1> QED
  BY <1>1, <1>2, <1>3, <1>4

(* A turn of g, in the places of h.                                         *)
LEMMA ForgettingTurn ==
  ASSUME NEW h, NEW g, Forgets(h, g), NEW k \in Nat, k + 1 <= Len(g)
  PROVE  /\ Cardinality(Found(g)[k]) \in Nat
         /\ Advances(Up(Free(g, Found(g)[k])), Cardinality(Found(g)[k]),
                     Up(Free(g, Found(g)[k + 1])), Cardinality(Found(g)[k + 1]),
                     Followed(h, k + 2), k + 2)
<1>1. PICK A : A = Free(g, Found(g)[k])
  OBVIOUS
<1>2. PICK A2 : A2 = Free(g, Found(g)[k + 1])
  OBVIOUS
<1>3. PICK a : a = Cardinality(Found(g)[k])
  OBVIOUS
<1>4. PICK a2 : a2 = Cardinality(Found(g)[k + 1])
  OBVIOUS
<1>5. PICK M : M = Followed(g, k + 1)
  OBVIOUS
<1>6. PICK N : N = Followed(h, k + 2)
  OBVIOUS
<1>7. a \in Nat /\ Advances(A, a, A2, a2, M, k + 1)
  BY <1>1, <1>2, <1>3, <1>4, <1>5, ForgetsFacts, OrderedTurn
<1>8. A \in SUBSET (1 .. Len(g)) /\ Len(g) \in Nat /\ k + 1 \in 1 .. Len(g)
  BY <1>1, ForgetsFacts DEF Free
<1>9. \A t \in 1 .. Len(g) : t \in M <=> t + 1 \in N
  <2>1. (k + 1) + 1 = k + 2
    OBVIOUS
  <2> QED
    BY <1>5, <1>6, <1>8, <2>1, ForgetsFacts DEF Followed
<1>10. Up(A) \cap N = Up(A \cap M)
  BY <1>8, <1>9 DEF Up
<1>11. k + 2 \in Up(A)
  BY <1>7 DEF Advances, Up
<1>12. ASSUME Up(A) \cap N = {} PROVE Up(A2) = Up(A) /\ a2 = a
  <2>1. A \cap M = {}
    BY <1>10, <1>12 DEF Up
  <2> QED
    BY <1>7, <2>1 DEF Advances
<1>13. ASSUME Up(A) \cap N # {}
       PROVE  \E t \in Up(A) \cap N : /\ \A u \in Up(A) \cap N : u <= t
                                      /\ Up(A2) = Up(A) \ {t, k + 2}
                                      /\ a2 = a + 1
  <2>1. A \cap M # {}
    BY <1>10, <1>13 DEF Up
  <2>2. PICK t \in A \cap M : /\ \A u \in A \cap M : u <= t
                             /\ A2 = A \ {t, k + 1}
                             /\ a2 = a + 1
    BY <1>7, <2>1 DEF Advances
  <2>3. t + 1 \in Up(A) \cap N
    BY <1>10 DEF Up
  <2>4. \A u \in Up(A) \cap N : u <= t + 1
    BY <1>8, <1>10, <2>2 DEF Up
  <2>5. Up(A2) = Up(A) \ {t + 1, k + 2}
    <3>1. \A u \in A : (u + 1 = t + 1 <=> u = t) /\ (u + 1 = k + 2 <=> u = k + 1)
      BY <1>8
    <3> QED
      BY <2>2, <3>1 DEF Up
  <2> QED
    BY <2>2, <2>3, <2>4, <2>5
<1>14. Advances(Up(A), a, Up(A2), a2, N, k + 2)
  BY <1>11, <1>12, <1>13, Zenon DEF Advances
<1> QED
  BY <1>1, <1>2, <1>3, <1>4, <1>6, <1>7, <1>14, Zenon

(* What h and g have found and left free when both had the same transfers.  *)
SideBySide(h, g, k) ==
  Behind(Free(h, Found(h)[k + 1]), Cardinality(Found(h)[k + 1]),
         Up(Free(g, Found(g)[k])), Cardinality(Found(g)[k]))

LEMMA ForgettingFirst ==
  ASSUME NEW h, NEW g, Forgets(h, g)
  PROVE  SideBySide(h, g, 0)
<1>1. /\ h \in Seq(Transfers) /\ g \in Seq(Transfers) /\ Ordered(h) /\ Ordered(g)
      /\ Len(g) \in Nat /\ Len(h) = Len(g) + 1
      /\ DOMAIN g = 1 .. Len(g) /\ DOMAIN h = 1 .. Len(g) + 1
  BY ForgetsFacts
<1>2. Found(h)[0] = {} /\ Found(g)[0] = {}
  BY <1>1, FoundFacts
<1>3. Used({}) = {} /\ Cardinality({}) = 0
  BY FS_EmptySet DEF Used
<1>4. Followed(h, 1) = {}
  <2> SUFFICES ASSUME NEW t \in DOMAIN h, MayFollow(h, t, 1) PROVE FALSE
    BY DEF Followed
  <2>1. Earlier(h, t, 1) /\ 1 \in DOMAIN h
    BY <1>1 DEF MayFollow
  <2>2. t < 1
    BY <1>1, <2>1, OrderedPlaces
  <2> QED
    BY <1>1, <2>2
<1>5. /\ Free(h, Found(h)[1]) = Free(h, Found(h)[0])
      /\ Cardinality(Found(h)[1]) = Cardinality(Found(h)[0])
  <2>1. 0 \in Nat /\ 0 + 1 <= Len(h) /\ 0 + 1 = 1
    BY <1>1
  <2>2. Advances(Free(h, Found(h)[0]), Cardinality(Found(h)[0]),
                 Free(h, Found(h)[1]), Cardinality(Found(h)[1]), Followed(h, 1), 1)
    BY <1>1, <2>1, OrderedTurn
  <2> QED
    BY <1>4, <2>2 DEF Advances
<1>6. Free(h, Found(h)[1]) = DOMAIN h /\ Free(g, Found(g)[0]) = DOMAIN g
  BY <1>2, <1>3, <1>5 DEF Free
<1>7. Up(DOMAIN g) = DOMAIN h \ {1}
  <2>1. ASSUME NEW i \in 2 .. Len(g) + 1 PROVE \E t \in 1 .. Len(g) : i = t + 1
    <3>1. i - 1 \in 1 .. Len(g) /\ i = (i - 1) + 1
      BY <1>1, <2>1
    <3> QED
      BY <3>1
  <2>2. \A t \in 1 .. Len(g) : t + 1 \in 2 .. Len(g) + 1
    BY <1>1
  <2>3. DOMAIN h \ {1} = 2 .. Len(g) + 1
    BY <1>1
  <2>4. {t + 1 : t \in 1 .. Len(g)} = 2 .. Len(g) + 1
    BY <2>1, <2>2
  <2> QED
    BY <1>1, <2>3, <2>4, Zenon DEF Up
<1>8. 0 + 1 = 1
  OBVIOUS
<1> QED
  BY <1>2, <1>3, <1>5, <1>6, <1>7, <1>8 DEF SideBySide, Behind

LEMMA ForgettingNext ==
  ASSUME NEW h, NEW g, Forgets(h, g), NEW k \in Nat, k + 1 <= Len(g), SideBySide(h, g, k)
  PROVE  SideBySide(h, g, k + 1)
<1>1. /\ h \in Seq(Transfers) /\ Ordered(h) /\ Len(h) = Len(g) + 1 /\ Len(g) \in Nat
      /\ DOMAIN h = 1 .. Len(g) + 1
  BY ForgetsFacts
<1>2. k + 1 \in Nat /\ (k + 1) + 1 = k + 2 /\ (k + 1) + 1 <= Len(h)
  BY <1>1
<1>3. PICK M : M = Followed(h, k + 2)
  OBVIOUS
<1>4. PICK x : x = k + 2
  OBVIOUS
<1>5. M \in SUBSET Int /\ x \notin M
  <2>1. M \in SUBSET (DOMAIN h)
    BY <1>3 DEF Followed
  <2>2. x \in DOMAIN h => ~Earlier(h, x, x)
    BY <1>1, EarlierOrder
  <2> QED
    BY <1>1, <1>3, <1>4, <2>1, <2>2 DEF Followed, MayFollow
<1>6. /\ Cardinality(Found(h)[k + 1]) \in Nat
      /\ Advances(Free(h, Found(h)[k + 1]), Cardinality(Found(h)[k + 1]),
                  Free(h, Found(h)[(k + 1) + 1]), Cardinality(Found(h)[(k + 1) + 1]), M, x)
  BY <1>1, <1>2, <1>3, <1>4, OrderedTurn
<1>7. /\ Cardinality(Found(g)[k]) \in Nat
      /\ Advances(Up(Free(g, Found(g)[k])), Cardinality(Found(g)[k]),
                  Up(Free(g, Found(g)[k + 1])), Cardinality(Found(g)[k + 1]), M, x)
  BY <1>3, <1>4, ForgettingTurn
<1>8. Behind(Free(h, Found(h)[k + 1]), Cardinality(Found(h)[k + 1]),
             Up(Free(g, Found(g)[k])), Cardinality(Found(g)[k]))
  BY DEF SideBySide
<1>9. Behind(Free(h, Found(h)[(k + 1) + 1]), Cardinality(Found(h)[(k + 1) + 1]),
             Up(Free(g, Found(g)[k + 1])), Cardinality(Found(g)[k + 1]))
  BY <1>5, <1>6, <1>7, <1>8, StaysBehind
<1> QED
  BY <1>9 DEF SideBySide

LEMMA ForgettingOne ==
  ASSUME NEW h, NEW g, Forgets(h, g)
  PROVE  /\ Cardinality(DetectSequences(g)) \in Nat /\ Cardinality(DetectSequences(h)) \in Nat
         /\ Cardinality(DetectSequences(g)) <= Cardinality(DetectSequences(h))
<1>1. h \in Seq(Transfers) /\ g \in Seq(Transfers) /\ Len(g) \in Nat /\ Len(h) = Len(g) + 1
  BY ForgetsFacts
<1> DEFINE I == {k \in Nat : k <= Len(g) => SideBySide(h, g, k)}
<1>2. 0 \in I
  BY ForgettingFirst
<1>3. ASSUME NEW k \in Nat, k \in I PROVE k + 1 \in I
  <2>1. k + 1 <= Len(g) => SideBySide(h, g, k + 1)
    BY <1>1, <1>3, ForgettingNext
  <2> QED
    BY <2>1
<1>4. \A k \in Nat : k \in I
  <2> HIDE DEF I
  <2> QED
    BY <1>2, <1>3, SetInduction
<1>5. SideBySide(h, g, Len(g))
  BY <1>1, <1>4
<1>6. /\ Cardinality(DetectSequences(g)) \in Nat /\ Cardinality(DetectSequences(h)) \in Nat
  BY <1>1, DetectedFacts, FS_CardinalityType
<1>7. \/ Cardinality(Found(h)[Len(g) + 1]) = Cardinality(Found(g)[Len(g)])
      \/ Cardinality(Found(h)[Len(g) + 1]) = Cardinality(Found(g)[Len(g)]) + 1
  BY <1>5, Zenon DEF SideBySide, Behind
<1> QED
  BY <1>1, <1>6, <1>7 DEF DetectSequences

(* The rows without their first d, and without one more.                    *)
LEMMA RestForgets ==
  ASSUME NEW r \in Seq(Transfers), NEW d \in Nat, d + 1 <= Len(r)
  PROVE  Forgets(Rest(r, d), Rest(r, d + 1))
<1>1. d \in 0 .. Len(r) /\ d + 1 \in 0 .. Len(r) /\ Len(r) \in Nat
  BY LenProperties
<1>2. /\ Rest(r, d) \in Seq(Transfers) /\ Len(Rest(r, d)) = Len(r) - d
      /\ \A i \in 1 .. Len(r) - d : Rest(r, d)[i] = InOrder(r)[d + i]
      /\ Ordered(Rest(r, d))
  BY <1>1, RestFacts, RestOrdered
<1>3. /\ Rest(r, d + 1) \in Seq(Transfers) /\ Len(Rest(r, d + 1)) = Len(r) - (d + 1)
      /\ \A i \in 1 .. Len(r) - (d + 1) : Rest(r, d + 1)[i] = InOrder(r)[(d + 1) + i]
  BY <1>1, RestFacts
<1>4. ASSUME NEW i \in 1 .. Len(Rest(r, d + 1)) PROVE Rest(r, d + 1)[i] = Rest(r, d)[i + 1]
  <2>1. i \in 1 .. Len(r) - (d + 1) /\ i + 1 \in 1 .. Len(r) - d /\ (d + 1) + i = d + (i + 1)
    BY <1>1, <1>3
  <2> QED
    BY <1>2, <1>3, <2>1
<1>5. PICK h : h = Rest(r, d)
  OBVIOUS
<1>6. PICK g : g = Rest(r, d + 1)
  OBVIOUS
<1>7. h \in Seq(Transfers) /\ g \in Seq(Transfers) /\ Ordered(h)
  BY <1>2, <1>3, <1>5, <1>6, Zenon
<1>8. Len(h) = Len(g) + 1
  BY <1>1, <1>2, <1>3, <1>5, <1>6
<1>9. \A i \in 1 .. Len(g) : g[i] = h[i + 1]
  BY <1>4, <1>5, <1>6, Zenon
<1> QED
  BY <1>5, <1>6, <1>7, <1>8, <1>9, Zenon DEF Forgets

(* The rows without their first d, and without n more.                      *)
LEMMA RestErodes ==
  ASSUME NEW r \in Seq(Transfers), NEW d \in Nat, NEW n \in Nat, d + n <= Len(r)
  PROVE  Cardinality(DetectSequences(Rest(r, d + n))) <= Cardinality(DetectSequences(Rest(r, d)))
<1> DEFINE count(i) == Cardinality(DetectSequences(Rest(r, i)))
           I == {i \in Nat : d + i <= Len(r) => count(d + i) <= count(d)}
<1>1. Len(r) \in Nat
  BY LenProperties
<1>2. ASSUME NEW i \in 0 .. Len(r) PROVE count(i) \in Nat
  <2>1. Rest(r, i) \in Seq(Transfers)
    BY RestFacts
  <2> QED
    BY <2>1, DetectedFacts, FS_CardinalityType
<1>3. 0 \in I
  <2>1. d + 0 = d /\ d \in 0 .. Len(r)
    BY <1>1
  <2>2. count(d) <= count(d)
    BY <1>2, <2>1
  <2> QED
    BY <2>1, <2>2
<1>4. ASSUME NEW i \in Nat, i \in I PROVE i + 1 \in I
  <2> SUFFICES ASSUME d + (i + 1) <= Len(r) PROVE count(d + (i + 1)) <= count(d)
    OBVIOUS
  <2>1. PICK j \in Nat : j = d + i
    OBVIOUS
  <2>2. j + 1 = d + (i + 1) /\ j + 1 <= Len(r) /\ j \in 0 .. Len(r) /\ d \in 0 .. Len(r) /\ j + 1 \in 0 .. Len(r)
    BY <1>1, <2>1
  <2>3. count(j) <= count(d)
    BY <1>1, <1>4, <2>1, <2>2
  <2>4. count(j + 1) <= count(j)
    BY <2>2, RestForgets, ForgettingOne
  <2>5. count(j + 1) \in Nat /\ count(j) \in Nat /\ count(d) \in Nat
    BY <1>2, <2>2
  <2>6. count(j + 1) <= count(d)
    <3> HIDE DEF count
    <3> QED
      BY <2>3, <2>4, <2>5
  <2> QED
    BY <2>2, <2>6
<1>5. \A i \in Nat : i \in I
  <2> HIDE DEF I
  <2> QED
    BY <1>3, <1>4, SetInduction
<1> QED
  BY <1>5

(* A look-back that moves on never finds more sequences in the same rows    *)
(* (repository.py:202-224, pattern_engine.py:135-163), whatever they are    *)
(* and however far it and the limit reach.                                  *)
THEOREM ForgettingFindsNoMore == Spec => ForgettingAddsNone
<1>1. ASSUME Typed, [Next]_vars, rows' = rows
      PROVE  Cardinality(DetectSequences(history')) <= Cardinality(Sequences)
  <2>1. rows \in Seq(Transfers) /\ now \in Nat /\ history = PairHistory(rows, now) /\ history \in Seq(Transfers)
    BY <1>1 DEF Typed
  <2>2. CASE history' = history
    <3>1. Cardinality(DetectSequences(history)) \in Nat
      BY <2>1, DetectedFacts, FS_CardinalityType
    <3>2. Cardinality(DetectSequences(history)) <= Cardinality(DetectSequences(history))
      BY <3>1
    <3> QED
      BY <2>2, <3>2, Zenon DEF Sequences
  <2>3. CASE Tick
    <3>1. history' = PairHistory(rows, now + 1)
      BY <2>3 DEF Tick
    <3>2. now + 1 \in Nat
      BY <2>1
    <3>3. /\ Unread(rows, now) \in 0 .. Len(rows) /\ Unread(rows, now + 1) \in 0 .. Len(rows)
          /\ Unread(rows, now) <= Unread(rows, now + 1)
      BY <2>1, <3>2, UnreadFacts, Zenon
    <3>4. PICK d \in 0 .. Len(rows) : d = Unread(rows, now)
      BY <3>3, Zenon
    <3>5. PICK e \in 0 .. Len(rows) : e = Unread(rows, now + 1)
      BY <3>3, Zenon
    <3>6. d <= e /\ Len(rows) \in Nat
      BY <2>1, <3>3, <3>4, <3>5, LenProperties
    <3>7. d \in Nat /\ e \in Nat /\ e <= Len(rows)
      BY <3>6
    <3>8. e - d \in Nat
      BY <3>6, <3>7
    <3>9. PICK n \in Nat : n = e - d
      BY <3>8, Zenon
    <3>10. d \in Nat /\ d + n = e /\ d + n <= Len(rows)
      BY <3>7, <3>9
    <3>11. history = Rest(rows, d) /\ history' = Rest(rows, d + n)
      BY <2>1, <3>1, <3>4, <3>5, <3>10 DEF PairHistory, Rest
    <3> QED
      BY <2>1, <3>10, <3>11, RestErodes DEF Sequences
  <2>4. ASSUME NEW b \in Batches, Store(b) PROVE history' = history
    <3>1. now' = now /\ history' = PairHistory(rows', now)
      BY <2>4 DEF Store
    <3> QED
      BY <1>1, <2>1, <3>1
  <2> QED
    BY <1>1, <2>2, <2>3, <2>4 DEF Next, vars
<1>2. Typed /\ [Next]_vars =>
        [rows' = rows => Cardinality(DetectSequences(history')) <= Cardinality(Sequences)]_vars
  BY <1>1, Zenon
<1> QED
  BY <1>2, AlwaysTyped, PTL DEF Spec, ForgettingAddsNone

-----------------------------------------------------------------------------
(* The learned band                                                         *)

LEMMA Constants ==
  /\ Ratio.num \in Nat \ {0} /\ Ratio.den \in Nat \ {0} /\ Ratio.num > Ratio.den
  /\ MatchFactor.num \in Nat \ {0} /\ MatchFactor.den \in Nat \ {0}
  /\ BandFactor.num \in Nat \ {0} /\ BandFactor.den \in Nat \ {0} /\ BandFactor.num >= BandFactor.den
  /\ MinTest \in Nat /\ MaxTest \in Nat /\ MinLarge \in Nat
  /\ MaxFollowup \in Nat /\ MinWindow \in Nat /\ WindowFactor \in Nat
  /\ Expiry \in Nat /\ MaxNow \in Nat
<1>1. /\ Ratio \in Fractions /\ MatchFactor \in Fractions /\ BandFactor \in Fractions
      /\ Ratio.num > Ratio.den /\ MatchFactor.num >= MatchFactor.den /\ BandFactor.num >= BandFactor.den
  BY PatternAssumption DEF PatternAssumption
<1>2. /\ MinTest \in Nat /\ MaxTest \in Nat /\ MinLarge \in Nat
      /\ MaxFollowup \in Nat /\ MinWindow \in Nat /\ WindowFactor \in Nat
      /\ Expiry \in Nat /\ MaxNow \in Nat
  BY PatternAssumption DEF PatternAssumption
<1> QED
  BY <1>1, <1>2 DEF Fractions

LEMMA PairFields ==
  ASSUME NEW h \in Seq(Transfers), NEW s \in Pairs(h)
  PROVE  /\ s.test \in DOMAIN h /\ s.large \in DOMAIN h
         /\ TestAmount(h, s) \in Nat \ {0} /\ h[s.large].amount \in Nat \ {0}
         /\ h[s.test].at \in Nat /\ h[s.large].at \in Nat
<1>1. s.test \in DOMAIN h /\ s.large \in DOMAIN h
  BY DEF Pairs
<1> QED
  BY <1>1, TxFields DEF TestAmount

LEMMA AmountSets ==
  ASSUME NEW h \in Seq(Transfers), NEW I \in SUBSET Pairs(h), IsFiniteSet(I)
  PROVE  /\ {TestAmount(h, s) : s \in I} \in SUBSET (Nat \ {0})
         /\ IsFiniteSet({TestAmount(h, s) : s \in I})
         /\ {h[s.large].amount : s \in I} \in SUBSET (Nat \ {0})
<1>1. \A s \in I : TestAmount(h, s) \in Nat \ {0} /\ h[s.large].amount \in Nat \ {0}
  BY PairFields
<1> DEFINE f == [s \in I |-> TestAmount(h, s)]
<1>2. f \in [I -> Int] /\ \A s \in I : f[s] = TestAmount(h, s)
  BY <1>1
<1>3. {f[s] : s \in I} = {TestAmount(h, s) : s \in I}
  BY <1>2
<1>4. IsFiniteSet({f[s] : s \in I})
  <2> HIDE DEF f
  <2> QED
    BY <1>2, ValuesFinite
<1>5. IsFiniteSet({TestAmount(h, s) : s \in I})
  BY <1>3, <1>4, Zenon
<1> QED
  BY <1>1, <1>5

LEMMA BandFacts ==
  ASSUME NEW h \in Seq(Transfers), NEW I \in SUBSET Pairs(h), IsFiniteSet(I), I # {}
  PROVE  /\ MatchLow(h, I) \in Int /\ MatchLow(h, I) >= 1
         /\ MatchHigh(h, I) \in Int
         /\ \A s \in I, a \in MatchLow(h, I) .. MatchHigh(h, I) :
              a \in Nat \ {0} /\ a * Ratio.num <= h[s.large].amount * Ratio.den
<1>1. PICK least : least = Min({TestAmount(h, s) : s \in I})
  OBVIOUS
<1>2. PICK most : most = Max({TestAmount(h, s) : s \in I})
  OBVIOUS
<1>3. PICK large : large = Min({h[s.large].amount : s \in I})
  OBVIOUS
<1>4. least \in Nat /\ most \in Nat
  <2> DEFINE T == {TestAmount(h, s) : s \in I}
  <2>1. T \in SUBSET (Nat \ {0}) /\ IsFiniteSet(T)
    BY AmountSets, Zenon
  <2>2. T # {}
    OBVIOUS
  <2>3. T \in SUBSET Int
    BY <2>1
  <2> HIDE DEF T
  <2>4. Min(T) \in T /\ Max(T) \in T
    BY <2>1, <2>2, <2>3, MinFinite, MaxFinite
  <2>5. least = Min(T) /\ most = Max(T)
    BY <1>1, <1>2 DEF T
  <2> QED
    BY <2>1, <2>4, <2>5
<1>5. large \in Nat /\ \A s \in I : large <= h[s.large].amount
  <2> DEFINE L == {h[s.large].amount : s \in I}
  <2>1. L \in SUBSET Nat /\ L # {} /\ \A s \in I : h[s.large].amount \in L
    BY AmountSets
  <2> HIDE DEF L
  <2>2. Min(L) \in L /\ \A y \in L : Min(L) <= y
    BY <2>1, MinNatural
  <2>3. large = Min(L)
    BY <1>3 DEF L
  <2> QED
    BY <2>1, <2>2, <2>3
<1>6. CeilOver(least, MatchFactor) \in Int /\ FloorTimes(most, MatchFactor) \in Int
  <2>1. -least * MatchFactor.den \in Int /\ most * MatchFactor.num \in Int
    BY <1>4, Constants
  <2>2. (-least * MatchFactor.den) \div MatchFactor.num \in Int /\ (most * MatchFactor.num) \div MatchFactor.den \in Int
    BY <2>1, Constants, QuotientBound
  <2> QED
    BY <2>2 DEF CeilOver, FloorTimes
<1>7. FloorOver(large, Ratio) \in Int /\ \A a \in Int : a <= FloorOver(large, Ratio) => a * Ratio.num <= large * Ratio.den
  <2>1. large * Ratio.den \in Int
    BY <1>5, Constants
  <2> QED
    BY <2>1, Constants, QuotientBound, BelowQuotient DEF FloorOver
<1>8. MatchLow(h, I) = Max({CeilOver(least, MatchFactor), MinTest, 1})
  BY <1>1, Zenon DEF MatchLow
<1>9. MatchHigh(h, I) = Min({FloorTimes(most, MatchFactor), FloorOver(large, Ratio), MaxTest})
  BY <1>2, <1>3, Zenon DEF MatchHigh
<1>10. MatchLow(h, I) \in Int /\ MatchLow(h, I) >= 1
  <2>1. MinTest \in Int /\ 1 \in Int
    BY Constants
  <2>2. MatchLow(h, I) \in Int /\ 1 <= MatchLow(h, I)
    <3>1. PICK u \in Int : u = CeilOver(least, MatchFactor)
      BY <1>6
    <3>2. Max({u, MinTest, 1}) \in Int /\ 1 <= Max({u, MinTest, 1})
      BY <2>1, MaxOfThree, Zenon
    <3> QED
      BY <1>8, <3>1, <3>2, Zenon
  <2> QED
    BY <2>2
<1>11. MatchHigh(h, I) \in Int /\ MatchHigh(h, I) <= FloorOver(large, Ratio)
  <2>1. MaxTest \in Int
    BY Constants
  <2> QED
    <3>1. PICK u \in Int : u = FloorTimes(most, MatchFactor)
      BY <1>6
    <3>2. PICK v \in Int : v = FloorOver(large, Ratio)
      BY <1>7
    <3>3. Min({u, v, MaxTest}) \in Int /\ Min({u, v, MaxTest}) <= v
      BY <2>1, MinOfThree, Zenon
    <3> QED
      BY <1>9, <3>1, <3>2, <3>3, Zenon
<1>12. ASSUME NEW s \in I, NEW a \in MatchLow(h, I) .. MatchHigh(h, I)
       PROVE  a \in Nat \ {0} /\ a * Ratio.num <= h[s.large].amount * Ratio.den
  <2>1. a \in Nat \ {0} /\ a <= FloorOver(large, Ratio)
    BY <1>7, <1>10, <1>11
  <2>2. a * Ratio.num <= large * Ratio.den
    BY <1>7, <2>1
  <2>3. h[s.large].amount \in Int /\ large <= h[s.large].amount
    BY <1>5, PairFields
  <2>4. /\ large * Ratio.den <= h[s.large].amount * Ratio.den
        /\ large * Ratio.den \in Int /\ h[s.large].amount * Ratio.den \in Int
    <3>1. large \in Int /\ Ratio.den \in Nat
      BY <1>5, Constants
    <3> QED
      BY <2>3, <3>1, TimesMonotoneInt, Zenon
  <2>5. a * Ratio.num \in Int
    BY <2>1, Constants
  <2> QED
    BY <2>1, <2>2, <2>4, <2>5
<1> QED
  BY <1>10, <1>11, <1>12

LEMMA ModelFields ==
  ASSUME NEW h, NEW S, NEW n
  PROVE  LET I == SelectTestCluster(h, S, n)
             m == BuildModel(h, S, n)
         IN  /\ m.inliers = I
             /\ m.low = MatchLow(h, I) /\ m.high = MatchHigh(h, I)
             /\ m.window = LearnedWindow(Sorted([s \in I |-> FollowupTime(h, s)]))
             /\ m.p80 = PercentileInt(Sorted([s \in I |-> FollowupTime(h, s)]), [num |-> 4, den |-> 5])
BY DEF BuildModel, ModelOf

LEMMA InliersFinite ==
  ASSUME NEW h \in Seq(Transfers), NEW n
  PROVE  LET I == SelectTestCluster(h, DetectSequences(h), n)
         IN  I \in SUBSET DetectSequences(h) /\ I \in SUBSET Pairs(h) /\ IsFiniteSet(I)
<1>1. SelectTestCluster(h, DetectSequences(h), n) \in SUBSET DetectSequences(h)
  BY DEF SelectTestCluster, Cluster
<1> QED
  BY <1>1, DetectedFacts, FS_Subset

(* Whatever the learned band accepts is small enough for every large        *)
(* transfer it was learned from (pattern_engine.py:282-286), for any        *)
(* fractions, limits and history.                                           *)
THEOREM BandExcludesLarges == Spec => []LargesOutsideBand
<1>1. ASSUME Typed, NEW s \in Model.inliers, NEW a \in Model.low .. Model.high
      PROVE  /\ SubstantiallyLarger(history[s.large].amount, a)
             /\ history[s.large].amount \notin Model.low .. Model.high
  <2> DEFINE I == SelectTestCluster(history, Sequences, now)
             l == history[s.large].amount
  <2>1. Model.inliers = I /\ Model.low = MatchLow(history, I) /\ Model.high = MatchHigh(history, I)
    BY ModelFields, Zenon DEF Model
  <2>2. history \in Seq(Transfers)
    BY <1>1 DEF Typed
  <2>3. I \in SUBSET Pairs(history) /\ IsFiniteSet(I) /\ s \in I
    BY <1>1, <2>1, <2>2, InliersFinite, Zenon DEF Sequences
  <2> HIDE DEF I
  <2>4. \A b \in Model.low .. Model.high : b \in Nat \ {0} /\ b * Ratio.num <= l * Ratio.den
    BY <2>1, <2>2, <2>3, BandFacts
  <2>5. l \in Nat \ {0}
    BY <2>2, <2>3, PairFields
  <2> HIDE DEF l
  <2>6. SubstantiallyLarger(l, a)
    <3>1. a \in Nat \ {0} /\ a * Ratio.num <= l * Ratio.den
      BY <1>1, <2>4
    <3>2. a * Ratio.num \in Int /\ l * Ratio.den \in Int
      BY <2>5, <3>1, Constants
    <3> QED
      BY <3>1, <3>2 DEF SubstantiallyLarger
  <2>7. ~(l * Ratio.num <= l * Ratio.den)
    <3>1. l * (Ratio.num - Ratio.den) > 0
      <4>1. Ratio.num - Ratio.den \in Nat \ {0}
        BY Constants
      <4> QED
        BY <2>5, <4>1
    <3>2. l * Ratio.num = l * Ratio.den + l * (Ratio.num - Ratio.den)
      BY <2>5, Constants
    <3>3. l * Ratio.num \in Int /\ l * Ratio.den \in Int /\ l * (Ratio.num - Ratio.den) \in Int
      BY <2>5, Constants
    <3> QED
      BY <3>1, <3>2, <3>3
  <2>8. l \notin Model.low .. Model.high
    BY <2>4, <2>7
  <2> QED
    BY <2>6, <2>8 DEF l
<1>2. Typed => LargesOutsideBand
  BY <1>1, Zenon DEF LargesOutsideBand
<1> QED
  BY <1>2, AlwaysTyped, PTL

-----------------------------------------------------------------------------
(* The learned window                                                       *)

(* The k-th value in order is not less than k values.                       *)
LEMMA SortedFacts ==
  ASSUME NEW D, IsFiniteSet(D), D # {}, NEW f \in [D -> Nat]
  PROVE  /\ Sorted(f) \in Seq(Nat) /\ Len(Sorted(f)) = Cardinality(D)
         /\ Cardinality(D) \in Nat \ {0}
         /\ \A k \in 1 .. Cardinality(D) :
              /\ Sorted(f)[k] \in Nat
              /\ Cardinality({s \in D : f[s] <= Sorted(f)[k]}) >= k
<1> DEFINE n == Cardinality(D)
           AtMost(v) == {s \in D : f[s] <= v}
           Vs(k) == {v \in {f[s] : s \in D} : Cardinality(AtMost(v)) >= k}
<1>1. n \in Nat \ {0}
  BY FS_CardinalityType, FS_EmptySet
<1>2. PICK top \in D : \A s \in D : f[s] <= f[top]
  <2>1. f \in [D -> Int]
    OBVIOUS
  <2> QED
    BY <2>1, Attained
<1>3. AtMost(f[top]) = D
  BY <1>2
<1>4. ASSUME NEW k \in 1 .. n
      PROVE  Min(Vs(k)) \in Nat /\ Cardinality(AtMost(Min(Vs(k)))) >= k
  <2>1. Cardinality(AtMost(f[top])) >= k
    BY <1>1, <1>3
  <2>2. f[top] \in Vs(k)
    BY <2>1
  <2>3. Vs(k) \in SUBSET Nat /\ Vs(k) # {}
    BY <2>2
  <2>4. Min(Vs(k)) \in Vs(k)
    <3> HIDE DEF Vs
    <3> QED
      BY <2>3, MinNatural
  <2> QED
    BY <2>3, <2>4
<1> HIDE DEF n, AtMost
<1>5. Sorted(f) = [k \in 1 .. n |-> Min(Vs(k))]
  <2>1. DOMAIN f = D
    OBVIOUS
  <2> QED
    BY <2>1, Zenon DEF Sorted, n, AtMost
<1> HIDE DEF Vs
<1>6. Sorted(f) \in Seq(Nat) /\ Len(Sorted(f)) = n
  BY <1>1, <1>4, <1>5
<1>7. \A k \in 1 .. n : Sorted(f)[k] = Min(Vs(k))
  BY <1>5
<1>8. \A k \in 1 .. n : Sorted(f)[k] \in Nat /\ Cardinality(AtMost(Sorted(f)[k])) >= k
  BY <1>4, <1>7
<1> QED
  BY <1>1, <1>6, <1>8, Zenon DEF n, AtMost

(* The last value in order is not less than any.                            *)
LEMMA SortedLast ==
  ASSUME NEW D, IsFiniteSet(D), D # {}, NEW f \in [D -> Nat], NEW s \in D
  PROVE  f[s] <= Sorted(f)[Len(Sorted(f))]
<1> DEFINE v == Sorted(f)[Len(Sorted(f))]
           E == {x \in D : f[x] <= v}
<1>1. Cardinality(E) >= Cardinality(D) /\ Cardinality(D) \in Nat
  BY SortedFacts
<1>2. E \in SUBSET D
  OBVIOUS
<1> HIDE DEF E
<1>3. Cardinality(E) <= Cardinality(D) /\ Cardinality(E) \in Nat /\ (Cardinality(D) = Cardinality(E) => D = E)
  BY <1>2, FS_Subset, FS_CardinalityType
<1>4. s \in E
  BY <1>1, <1>3
<1> QED
  BY <1>4 DEF E

LEMMA MedianType ==
  ASSUME NEW s \in Seq(Nat), Len(s) > 0
  PROVE  MedianInt(s) \in Int
<1>1. PICK n \in Nat \ {0} : n = Len(s)
  BY LenProperties
<1>2. PICK mid : mid = n \div 2
  OBVIOUS
<1>3. mid \in Nat /\ 2 * mid <= n
  BY <1>1, <1>2
<1>4. MedianInt(s) = IF n % 2 = 1 THEN s[mid + 1] ELSE (s[mid] + s[mid + 1]) \div 2
  BY <1>1, <1>2, Zenon DEF MedianInt
<1>5. CASE n % 2 = 1
  <2>1. mid + 1 \in 1 .. Len(s)
    BY <1>1, <1>2, <1>3, <1>5
  <2> QED
    BY <1>4, <1>5, <2>1, ElementOfSeq
<1>6. CASE n % 2 # 1
  <2>1. mid \in 1 .. Len(s) /\ mid + 1 \in 1 .. Len(s)
    BY <1>1, <1>2, <1>3, <1>6
  <2>2. s[mid] \in Nat /\ s[mid + 1] \in Nat
    BY <2>1, ElementOfSeq
  <2> QED
    BY <1>4, <1>6, <2>2
<1> QED
  BY <1>5, <1>6

(* The window covers every follow-up time it was learned from.              *)
LEMMA WindowFacts ==
  ASSUME NEW D, IsFiniteSet(D), NEW f \in [D -> Nat], NEW s \in D, f[s] <= MaxFollowup
  PROVE  f[s] <= LearnedWindow(Sorted(f))
<1>1. PICK T : T = Sorted(f)
  OBVIOUS
<1>2. PICK last : last = T[Len(T)]
  OBVIOUS
<1>3. T \in Seq(Nat) /\ Len(T) \in Nat \ {0} /\ last \in Nat
  BY <1>1, <1>2, SortedFacts
<1>4. f[s] <= last /\ f[s] \in Nat
  BY <1>1, <1>2, SortedLast
<1>5. MedianInt(T) \in Int
  BY <1>3, MedianType
<1>6. 2 * last \in Int /\ MedianInt(T) * WindowFactor \in Int /\ MinWindow \in Int /\ MaxFollowup \in Int
  BY <1>3, <1>5, Constants
<1>7. PICK w : w = Max({2 * last, MedianInt(T) * WindowFactor, MinWindow})
  OBVIOUS
<1>8. w \in Int /\ 2 * last <= w
  BY <1>6, <1>7, MaxOfThree, Zenon
<1>9. Min({MaxFollowup, w}) = IF MaxFollowup <= w THEN MaxFollowup ELSE w
  BY <1>6, <1>8, MinOfTwo
<1>10. LearnedWindow(T) = Min({MaxFollowup, w})
  BY <1>2, <1>7, Zenon DEF LearnedWindow
<1>11. f[s] <= Min({MaxFollowup, w})
  BY <1>3, <1>4, <1>6, <1>8, <1>9
<1> QED
  BY <1>1, <1>10, <1>11

(* The 80th percentile covers four fifths of the values.                    *)
LEMMA PercentileFacts ==
  ASSUME NEW D, IsFiniteSet(D), D # {}, NEW f \in [D -> Nat]
  PROVE  LET p == PercentileInt(Sorted(f), [num |-> 4, den |-> 5])
         IN  5 * Cardinality({s \in D : f[s] <= p}) >= 4 * Cardinality(D)
<1>1. PICK T : T = Sorted(f)
  OBVIOUS
<1>2. PICK n : n = Cardinality(D)
  OBVIOUS
<1>3. n \in Nat \ {0} /\ Len(T) = n
  BY <1>1, <1>2, SortedFacts
<1>4. PICK c : c = CeilOver(n, [num |-> 5, den |-> 4])
  OBVIOUS
<1>5. c = -((-n * 4) \div 5)
  BY <1>4 DEF CeilOver
<1>6. c \in Int /\ 5 * c >= 4 * n
  BY <1>3, <1>5
<1>7. PICK i : i = Min({n, Max({1, c})})
  OBVIOUS
<1>8. i \in 1 .. n /\ 5 * i >= 4 * n
  <2>1. PICK m : m = Max({1, c})
    OBVIOUS
  <2>2. m = IF 1 >= c THEN 1 ELSE c
    BY <1>6, <2>1, MaxOfTwo
  <2>3. m \in Int
    BY <1>6, <2>2
  <2>4. i = IF n <= m THEN n ELSE m
    <3>1. i = Min({n, m}) /\ n \in Int
      BY <1>3, <1>7, <2>1
    <3> QED
      BY <2>3, <3>1, MinOfTwo
  <2> QED
    BY <1>3, <1>6, <2>2, <2>4
<1>9. PercentileInt(T, [num |-> 4, den |-> 5]) = T[i]
  BY <1>3, <1>4, <1>7 DEF PercentileInt
<1>10. Cardinality({s \in D : f[s] <= T[i]}) >= i
  BY <1>1, <1>2, <1>8, SortedFacts
<1>11. PICK E : E = {s \in D : f[s] <= T[i]}
  OBVIOUS
<1>12. Cardinality(E) \in Nat
  <2>1. E \in SUBSET D
    BY <1>11
  <2> QED
    BY <2>1, FS_Subset, FS_CardinalityType
<1>13. 5 * Cardinality(E) >= 4 * n
  <2>1. Cardinality(E) >= i
    BY <1>10, <1>11, Zenon
  <2> QED
    BY <1>3, <1>8, <1>12, <2>1
<1> QED
  BY <1>1, <1>2, <1>9, <1>11, <1>13, Zenon

(* A sender who repeats what was learned is in time                         *)
(* (pattern_engine.py:184-189, 273-279), for any history and settings.      *)
THEOREM RepetitionIsInTime == Spec => []WindowCovers
<1>1. ASSUME Typed, Sequences # {} PROVE WindowCovers
  <2> DEFINE I == SelectTestCluster(history, Sequences, now)
             f == [s \in I |-> FollowupTime(history, s)]
             p == PercentileInt(Sorted(f), [num |-> 4, den |-> 5])
             fast == {s \in I : FollowupTime(history, s) <= p}
  <2>1. Model.inliers = I /\ Model.window = LearnedWindow(Sorted(f)) /\ Model.p80 = p
    BY ModelFields, Zenon DEF Model
  <2>2. history \in Seq(Transfers)
    BY <1>1 DEF Typed
  <2>3. I \in SUBSET Sequences /\ I \in SUBSET Pairs(history) /\ IsFiniteSet(I)
    BY <2>2, InliersFinite, Zenon DEF Sequences
  <2>4. \A s \in I : MayFollow(history, s.test, s.large)
    BY <2>2, <2>3, DetectedFacts DEF Sequences
  <2> HIDE DEF I
  <2>5. \A s \in I : FollowupTime(history, s) \in Nat /\ FollowupTime(history, s) <= MaxFollowup
    <3> SUFFICES ASSUME NEW s \in I
                 PROVE  FollowupTime(history, s) \in Nat /\ FollowupTime(history, s) <= MaxFollowup
      OBVIOUS
    <3>1. Earlier(history, s.test, s.large) /\ history[s.large].at - history[s.test].at <= MaxFollowup
      BY <2>4 DEF MayFollow
    <3>2. history[s.test].at \in Nat /\ history[s.large].at \in Nat
      BY <2>2, <2>3, PairFields
    <3>3. history[s.test].at <= history[s.large].at
      BY <3>1, <3>2 DEF Earlier
    <3> QED
      BY <3>1, <3>2, <3>3 DEF FollowupTime
  <2>6. f \in [I -> Nat] /\ \A s \in I : f[s] = FollowupTime(history, s)
    BY <2>5
  <2> HIDE DEF f, p
  <2>7. \A s \in I : FollowupTime(history, s) <= LearnedWindow(Sorted(f))
    BY <2>3, <2>5, <2>6, WindowFacts
  <2>8. 5 * Cardinality(fast) >= 4 * Cardinality(I)
    <3>1. CASE I = {}
      <4>1. fast = {} /\ Cardinality({}) = 0
        BY <3>1, FS_EmptySet
      <4>2. Cardinality(fast) = 0 /\ Cardinality(I) = 0
        BY <3>1, <4>1, Zenon
      <4> HIDE DEF fast
      <4> QED
        BY <4>2
    <3>2. CASE I # {}
      <4>1. 5 * Cardinality({s \in I : f[s] <= p}) >= 4 * Cardinality(I)
        BY <2>3, <2>6, <3>2, PercentileFacts, Zenon DEF p
      <4>2. {s \in I : f[s] <= p} = fast
        BY <2>6
      <4> QED
        BY <4>1, <4>2, Zenon
    <3> QED
      BY <3>1, <3>2
  <2> QED
    BY <2>1, <2>7, <2>8, Zenon DEF WindowCovers
<1>2. Typed => WindowCovers
  BY <1>1, Zenon DEF WindowCovers
<1> QED
  BY <1>2, AlwaysTyped, PTL

-----------------------------------------------------------------------------
(* Weights                                                                  *)

LEMMA WeightType ==
  ASSUME NEW h \in Seq(Transfers), NEW n \in 0 .. MaxNow, NEW i \in DOMAIN h
  PROVE  Weight(h, i, n) \in Nat \ {0}
<1>1. h[i].at \in Nat
  BY TxFields
<1>2. PICK age : age = Max({0, n - h[i].at})
  OBVIOUS
<1>3. age = IF 0 >= n - h[i].at THEN 0 ELSE n - h[i].at
  BY <1>1, <1>2, MaxOfTwo
<1>4. age \in 0 .. MaxNow
  <2>1. n \in Nat /\ n <= MaxNow /\ MaxNow \in Nat
    BY Constants
  <2> QED
    BY <1>1, <1>3, <2>1
<1>5. Decay \in [0 .. MaxNow -> Nat \ {0}]
  BY PatternAssumption DEF PatternAssumption
<1>6. Weight(h, i, n) = Decay[age]
  BY <1>2, Zenon DEF Weight
<1> QED
  BY <1>4, <1>5, <1>6

Weights(h, n) == [i \in DOMAIN h |-> Weight(h, i, n)]
Picks(h) == [s \in SUBSET (DOMAIN h) |-> CHOOSE x \in s : TRUE]

(* TotalWeight is the sum of the weights.                                   *)
LEMMA TotalIsSum ==
  ASSUME NEW h \in Seq(Transfers), NEW n \in 0 .. MaxNow
  PROVE  \E F : /\ Sums(F, SUBSET (DOMAIN h), Weights(h, n), Picks(h))
                /\ \A I \in SUBSET (DOMAIN h) : TotalWeight(h, I, n) = F[I]
<1> DEFINE D == DOMAIN h
           w == Weights(h, n)
           pick == Picks(h)
<1>1. IsFiniteSet(D)
  BY FiniteDomain
<1>2. w \in [D -> Nat] /\ \A i \in D : w[i] = Weight(h, i, n)
  BY WeightType DEF Weights
<1>3. \A s \in SUBSET D : pick[s] = CHOOSE x \in s : TRUE
  BY Zenon DEF Picks
<1>4. \A s \in SUBSET D : s # {} => pick[s] \in s
  BY <1>3
<1>5. PICK F : Sums(F, SUBSET D, w, pick)
  <2> HIDE DEF D, w, pick
  <2> QED
    BY <1>1, <1>2, <1>4, SumExists
<1>6. \A s \in SUBSET D : F[s] = IF s = {} THEN 0 ELSE w[pick[s]] + F[s \ {pick[s]}]
  BY <1>5, Zenon DEF Sums, SumsUp
<1> HIDE DEF D, w, pick
<1>7. ASSUME NEW I \in SUBSET D PROVE TotalWeight(h, I, n) = F[I]
  <2> DEFINE Eq(f) == [s \in SUBSET I |->
                         IF s = {} THEN 0
                         ELSE Weight(h, CHOOSE x \in s : TRUE, n) + f[s \ {CHOOSE x \in s : TRUE}]]
             f0 == [s \in SUBSET I |-> F[s]]
             G == CHOOSE f : f = Eq(f)
  <2>1. ASSUME NEW s \in SUBSET I, s # {}
        PROVE  /\ pick[s] = CHOOSE x \in s : TRUE
               /\ w[pick[s]] = Weight(h, CHOOSE x \in s : TRUE, n)
               /\ s \ {pick[s]} \in SUBSET I
    <3>1. s \in SUBSET D /\ s \ {pick[s]} \in SUBSET I
      OBVIOUS
    <3>2. pick[s] = CHOOSE x \in s : TRUE
      BY <1>3, <3>1, Zenon
    <3>3. pick[s] \in D
      BY <1>4, <2>1, <3>1
    <3>4. w[pick[s]] = Weight(h, pick[s], n)
      BY <1>2, <3>3
    <3> QED
      BY <3>1, <3>2, <3>4, Zenon
  <2>2. f0 = Eq(f0)
    <3>1. ASSUME NEW s \in SUBSET I
          PROVE  F[s] = IF s = {} THEN 0
                        ELSE Weight(h, CHOOSE x \in s : TRUE, n) + f0[s \ {CHOOSE x \in s : TRUE}]
      <4>1. CASE s = {}
        BY <1>6, <4>1, Zenon
      <4>2. CASE s # {}
        <5>1. PICK r : r = s \ {CHOOSE x \in s : TRUE}
          OBVIOUS
        <5>2. r = s \ {pick[s]} /\ r \in SUBSET I
          BY <2>1, <4>2, <5>1, Zenon
        <5>3. f0[r] = F[r]
          BY <5>2
        <5>4. s \in SUBSET D
          OBVIOUS
        <5>5. F[s] = w[pick[s]] + F[r]
          BY <1>6, <4>2, <5>2, <5>4, Zenon
        <5>6. F[s] = Weight(h, CHOOSE x \in s : TRUE, n) + F[r]
          BY <2>1, <4>2, <5>5, Zenon
        <5> HIDE DEF f0
        <5> QED
          BY <4>2, <5>1, <5>3, <5>6, Zenon
      <4> QED
        BY <4>1, <4>2
    <3> QED
      BY <3>1, Zenon
  <2>3. G = Eq(G)
    <3> HIDE DEF f0, Eq
    <3> QED
      BY <2>2, Zenon
  <2>4. TotalWeight(h, I, n) = G[I]
    BY Zenon DEF TotalWeight, MapThenSumSet, MapThenFoldSet
  <2>5. \A s \in SUBSET I : G[s] = IF s = {} THEN 0
                            ELSE Weight(h, CHOOSE x \in s : TRUE, n) + G[s \ {CHOOSE x \in s : TRUE}]
    <3> HIDE DEF G
    <3> QED
      BY <2>3, Zenon
  <2> HIDE DEF G
  <2>6. SumsUp(G, SUBSET I, w, pick)
    <3> SUFFICES ASSUME NEW s \in SUBSET I
                 PROVE  G[s] = IF s = {} THEN 0 ELSE w[pick[s]] + G[s \ {pick[s]}]
      BY Zenon DEF SumsUp
    <3>1. CASE s = {}
      BY <2>5, <3>1, Zenon
    <3>2. CASE s # {}
      <4>1. G[s] = Weight(h, CHOOSE x \in s : TRUE, n) + G[s \ {CHOOSE x \in s : TRUE}]
        BY <2>5, <3>2, Zenon
      <4>2. pick[s] = (CHOOSE x \in s : TRUE) /\ w[pick[s]] = Weight(h, CHOOSE x \in s : TRUE, n)
        BY <2>1, <3>2, Zenon
      <4> QED
        BY <3>2, <4>1, <4>2, Zenon
    <3> QED
      BY <3>1, <3>2
  <2>7. SumsUp(F, SUBSET I, w, pick)
    BY <1>6 DEF SumsUp
  <2>8. IsFiniteSet(I) /\ \A s \in SUBSET I : s # {} => pick[s] \in s
    BY <1>1, <1>4, FS_Subset
  <2>9. G[I] = F[I]
    <3>1. \A s \in SUBSET I : G[s] = F[s]
      BY <2>6, <2>7, <2>8, SumUnique
    <3> QED
      BY <3>1
  <2> QED
    BY <2>4, <2>9, Zenon
<1> QED
  BY <1>5, <1>7 DEF D, w, pick

LEMMA TotalAdds ==
  ASSUME NEW h \in Seq(Transfers), NEW n \in 0 .. MaxNow
  PROVE  \E F : /\ Adds(F, DOMAIN h, Weights(h, n))
                /\ \A I \in SUBSET (DOMAIN h) : TotalWeight(h, I, n) = F[I]
<1>1. PICK F : /\ Sums(F, SUBSET (DOMAIN h), Weights(h, n), Picks(h))
               /\ \A I \in SUBSET (DOMAIN h) : TotalWeight(h, I, n) = F[I]
  BY TotalIsSum
<1>2. IsFiniteSet(DOMAIN h)
  BY FiniteDomain
<1>3. Weights(h, n) \in [DOMAIN h -> Nat]
  BY WeightType DEF Weights
<1>4. \A s \in SUBSET (DOMAIN h) : s # {} => Picks(h)[s] \in s
  BY DEF Picks
<1>5. Adds(F, DOMAIN h, Weights(h, n))
  BY <1>1, <1>2, <1>3, <1>4, SumAnyOrder
<1> QED
  BY <1>1, <1>5

LEMMA TotalFacts ==
  ASSUME NEW h \in Seq(Transfers), NEW n \in 0 .. MaxNow,
         NEW A \in SUBSET (DOMAIN h), NEW B \in SUBSET (DOMAIN h)
  PROVE  /\ TotalWeight(h, {}, n) = 0
         /\ TotalWeight(h, A, n) \in Nat
         /\ A # {} => TotalWeight(h, A, n) > 0
         /\ A \subseteq B => TotalWeight(h, A, n) <= TotalWeight(h, B, n)
         /\ TotalWeight(h, A \union B, n) <= TotalWeight(h, A, n) + TotalWeight(h, B, n)
<1>1. PICK F : /\ Adds(F, DOMAIN h, Weights(h, n))
               /\ \A I \in SUBSET (DOMAIN h) : TotalWeight(h, I, n) = F[I]
  BY TotalAdds
<1>2. IsFiniteSet(DOMAIN h)
  BY FiniteDomain
<1>3. Weights(h, n) \in [DOMAIN h -> Nat] /\ \A i \in DOMAIN h : Weights(h, n)[i] > 0
  BY WeightType DEF Weights
<1>4. /\ F \in [SUBSET (DOMAIN h) -> Nat] /\ F[{}] = 0
      /\ \A J \in SUBSET (DOMAIN h) : \A y \in J : F[J] = Weights(h, n)[y] + F[J \ {y}]
  BY <1>1, Zenon DEF Adds
<1>5. \A X, Y \in SUBSET (DOMAIN h) : X \cap Y = {} => F[X \union Y] = F[X] + F[Y]
  BY <1>1, <1>2, <1>3, SumOfUnion
<1>6. TotalWeight(h, {}, n) = 0
  <2>1. {} \in SUBSET (DOMAIN h)
    OBVIOUS
  <2> QED
    BY <1>1, <1>4, <2>1, Zenon
<1>7. TotalWeight(h, A, n) = F[A] /\ TotalWeight(h, B, n) = F[B] /\ F[A] \in Nat /\ F[B] \in Nat
  BY <1>1, <1>4
<1>8. ASSUME A # {} PROVE TotalWeight(h, A, n) > 0
  <2>1. PICK y \in A : TRUE
    BY <1>8
  <2>2. F[A] = Weights(h, n)[y] + F[A \ {y}]
    BY <1>4
  <2>3. A \ {y} \in SUBSET (DOMAIN h) /\ y \in DOMAIN h
    OBVIOUS
  <2>4. F[A \ {y}] \in Nat /\ Weights(h, n)[y] > 0 /\ Weights(h, n)[y] \in Nat
    BY <1>3, <1>4, <2>3
  <2> QED
    BY <1>7, <2>2, <2>4
<1>9. PICK C : C = B \ A
  OBVIOUS
<1>10. C \in SUBSET (DOMAIN h) /\ A \cap C = {} /\ A \union C = A \union B /\ C \subseteq B
  BY <1>9
<1>11. F[C] \in Nat /\ F[A \union C] = F[A] + F[C]
  BY <1>4, <1>5, <1>10
<1>12. F[C] <= F[B]
  <2>1. PICK E : E = A \cap B
    OBVIOUS
  <2>2. E \in SUBSET (DOMAIN h) /\ E \cap C = {} /\ E \union C = B
    BY <1>9, <2>1
  <2>3. F[E] \in Nat /\ F[E \union C] = F[E] + F[C]
    BY <1>4, <1>5, <1>10, <2>2
  <2>4. F[B] = F[E] + F[C]
    BY <2>2, <2>3, Zenon
  <2> QED
    BY <1>11, <2>3, <2>4
<1>13. TotalWeight(h, A \union B, n) = F[A] + F[C]
  <2>1. PICK U : U = A \union B
    OBVIOUS
  <2>2. U \in SUBSET (DOMAIN h) /\ U = A \union C
    BY <1>10, <2>1
  <2>3. TotalWeight(h, U, n) = F[U]
    BY <1>1, <2>2
  <2> QED
    BY <1>11, <2>1, <2>2, <2>3, Zenon
<1>14. ASSUME A \subseteq B PROVE TotalWeight(h, A, n) <= TotalWeight(h, B, n)
  <2>1. A \union C = B
    BY <1>10, <1>14
  <2>2. F[B] = F[A] + F[C]
    BY <1>11, <2>1, Zenon
  <2> QED
    BY <1>7, <1>11, <2>2
<1>15. TotalWeight(h, A \union B, n) <= TotalWeight(h, A, n) + TotalWeight(h, B, n)
  BY <1>7, <1>11, <1>12, <1>13
<1> QED
  BY <1>6, <1>7, <1>8, <1>14, <1>15

LEMMA WeightOfFacts ==
  ASSUME NEW h \in Seq(Transfers), NEW n \in 0 .. MaxNow,
         NEW R \in SUBSET Pairs(h), NEW S \in SUBSET Pairs(h)
  PROVE  /\ WeightOf(h, {}, n) = 0
         /\ WeightOf(h, S, n) \in Nat
         /\ R \subseteq S => WeightOf(h, R, n) <= WeightOf(h, S, n)
         /\ WeightOf(h, R \union S, n) <= WeightOf(h, R, n) + WeightOf(h, S, n)
<1> DEFINE Larges(X) == {s.large : s \in X}
<1>1. Larges(R) \in SUBSET (DOMAIN h) /\ Larges(S) \in SUBSET (DOMAIN h)
  BY DEF Pairs
<1>2. Larges({}) = {} /\ Larges(R \union S) = Larges(R) \union Larges(S)
  OBVIOUS
<1>3. R \subseteq S => Larges(R) \subseteq Larges(S)
  OBVIOUS
<1>4. \A X : WeightOf(h, X, n) = TotalWeight(h, Larges(X), n)
  BY Zenon DEF WeightOf
<1> HIDE DEF Larges
<1>5. WeightOf(h, {}, n) = 0
  BY <1>1, <1>2, <1>4, TotalFacts, Zenon
<1>6. WeightOf(h, S, n) \in Nat
  BY <1>1, <1>4, TotalFacts, Zenon
<1>7. R \subseteq S => WeightOf(h, R, n) <= WeightOf(h, S, n)
  BY <1>1, <1>3, <1>4, TotalFacts, Zenon
<1>8. WeightOf(h, R \union S, n) <= WeightOf(h, R, n) + WeightOf(h, S, n)
  BY <1>1, <1>2, <1>4, TotalFacts, Zenon
<1> QED
  BY <1>5, <1>6, <1>7, <1>8

-----------------------------------------------------------------------------
(* The dominant cluster                                                     *)

LEMMA KeyLessIs ==
  ASSUME NEW a \in Int \X Int \X Int, NEW b \in Int \X Int \X Int
  PROVE  KeyLess(a, b) <=> \/ a[1] < b[1]
                           \/ a[1] = b[1] /\ a[2] < b[2]
                           \/ a[1] = b[1] /\ a[2] = b[2] /\ a[3] < b[3]
<1>1. KeyLess(a, b) <=> \/ a[1] < b[1] /\ \A j \in 1 .. 1 - 1 : a[j] = b[j]
                        \/ a[2] < b[2] /\ \A j \in 1 .. 2 - 1 : a[j] = b[j]
                        \/ a[3] < b[3] /\ \A j \in 1 .. 3 - 1 : a[j] = b[j]
  <2>1. 1 .. 3 = {1, 2, 3}
    OBVIOUS
  <2> QED
    BY <2>1, Zenon DEF KeyLess
<1>2. 1 .. 1 - 1 = {} /\ 1 .. 2 - 1 = {1} /\ 1 .. 3 - 1 = {1, 2}
  OBVIOUS
<1> QED
  BY <1>1, <1>2, Zenon

LEMMA ClusterFacts ==
  ASSUME NEW h \in Seq(Transfers), NEW S \in SUBSET Pairs(h), IsFiniteSet(S), NEW c
  PROVE  Cluster(h, S, c) \in SUBSET S /\ Cluster(h, S, c) \in SUBSET Pairs(h) /\ IsFiniteSet(Cluster(h, S, c))
<1>1. Cluster(h, S, c) \in SUBSET S
  BY DEF Cluster
<1> QED
  BY <1>1, FS_Subset

LEMMA InOwnCluster ==
  ASSUME NEW h \in Seq(Transfers), NEW S \in SUBSET Pairs(h), NEW s \in S
  PROVE  s \in Cluster(h, S, TestAmount(h, s))
<1>1. TestAmount(h, s) \in Nat
  BY PairFields
<1>2. PICK a \in Nat : a = TestAmount(h, s)
  BY <1>1
<1>3. a * BandFactor.den <= a * BandFactor.num
  <2>1. BandFactor.den * a <= BandFactor.num * a
    BY Constants, TimesMonotoneInt
  <2> QED
    BY <2>1, Constants
<1>4. InBand(TestAmount(h, s), TestAmount(h, s))
  BY <1>2, <1>3 DEF InBand
<1> QED
  BY <1>4 DEF Cluster

LEMMA KeyType ==
  ASSUME NEW h \in Seq(Transfers), NEW n \in 0 .. MaxNow,
         NEW S \in SUBSET Pairs(h), IsFiniteSet(S), NEW s \in S
  PROVE  Key(h, S, n, s) \in Int \X Int \X Int
<1>1. PICK C : C = Cluster(h, S, TestAmount(h, s))
  OBVIOUS
<1>2. C \in SUBSET S /\ C \in SUBSET Pairs(h) /\ IsFiniteSet(C) /\ s \in C
  BY <1>1, ClusterFacts, InOwnCluster
<1>3. WeightOf(h, C, n) \in Int
  <2>1. WeightOf(h, C, n) \in Nat
    BY <1>2, WeightOfFacts, Zenon
  <2> QED
    BY <2>1
<1>4. Cardinality(C) \in Int
  BY <1>2, FS_CardinalityType
<1>5. Max({h[k.large].at : k \in C}) \in Int
  <2> DEFINE f == [k \in C |-> h[k.large].at]
             T == {h[k.large].at : k \in C}
  <2>1. f \in [C -> Int] /\ \A k \in C : f[k] = h[k.large].at
    BY <1>2, PairFields
  <2>2. {f[k] : k \in C} = T
    BY <2>1
  <2> HIDE DEF f
  <2>3. IsFiniteSet({f[k] : k \in C}) /\ {f[k] : k \in C} \in SUBSET Int
    BY <1>2, <2>1, ValuesFinite
  <2>4. T # {}
    BY <1>2
  <2> HIDE DEF T
  <2>5. IsFiniteSet(T) /\ T \in SUBSET Int
    BY <2>2, <2>3, Zenon
  <2>6. Max(T) \in T
    BY <2>4, <2>5, MaxFinite
  <2>7. Max(T) \in Int
    BY <2>5, <2>6
  <2> QED
    BY <2>7 DEF T
<1>6. Key(h, S, n, s) = <<WeightOf(h, C, n), Cardinality(C), Max({h[k.large].at : k \in C})>>
  BY <1>1, Zenon DEF Key
<1> QED
  BY <1>3, <1>4, <1>5, <1>6

(* Some sequence has the heaviest cluster, and BestCluster is that cluster. *)
LEMMA BestFacts ==
  ASSUME NEW h \in Seq(Transfers), NEW n \in 0 .. MaxNow,
         NEW S \in SUBSET Pairs(h), IsFiniteSet(S), S # {}
  PROVE  \E b \in S : /\ BestCluster(h, S, n) = Cluster(h, S, TestAmount(h, b))
                      /\ \A s \in S : WeightOf(h, Cluster(h, S, TestAmount(h, s)), n)
                                        <= WeightOf(h, Cluster(h, S, TestAmount(h, b)), n)
<1> DEFINE key == [s \in S |-> Key(h, S, n, s)]
<1>1. \A s \in S : key[s] = Key(h, S, n, s)
  OBVIOUS
<1>2. key \in [S -> Int \X Int \X Int]
  BY KeyType
<1> HIDE DEF key
<1>3. PICK e \in S : \A t \in S :
        /\ key[t][1] <= key[e][1]
        /\ key[t][1] = key[e][1] => key[t][2] <= key[e][2]
        /\ key[t][1] = key[e][1] /\ key[t][2] = key[e][2] => key[t][3] <= key[e][3]
  <2> DEFINE f == [s \in S |-> key[s][1]]
             g == [s \in S |-> key[s][2]]
             l == [s \in S |-> key[s][3]]
  <2>1. f \in [S -> Int] /\ g \in [S -> Int] /\ l \in [S -> Int]
    BY <1>2
  <2>2. \A s \in S : f[s] = key[s][1] /\ g[s] = key[s][2] /\ l[s] = key[s][3]
    OBVIOUS
  <2> HIDE DEF f, g, l
  <2>3. PICK e : GreatestBy(e, S, f, g, l)
    BY <2>1, GreatestOfThree
  <2>4. /\ e \in S
        /\ \A t \in S : /\ f[t] <= f[e]
                        /\ f[t] = f[e] => g[t] <= g[e]
                        /\ f[t] = f[e] /\ g[t] = g[e] => l[t] <= l[e]
    BY <2>3, Zenon DEF GreatestBy
  <2> QED
    BY <2>2, <2>4
<1>4. \A s \in S : key[s] \in Int \X Int \X Int /\ key[s][1] \in Int /\ key[s][2] \in Int /\ key[s][3] \in Int
  BY <1>2
<1>5. e \in Best(h, S, n)
  <2>1. ASSUME NEW t \in S, KeyLess(key[e], key[t]) PROVE FALSE
    <3>1. \/ key[e][1] < key[t][1]
          \/ key[e][1] = key[t][1] /\ key[e][2] < key[t][2]
          \/ key[e][1] = key[t][1] /\ key[e][2] = key[t][2] /\ key[e][3] < key[t][3]
      BY <1>4, <2>1, KeyLessIs
    <3> QED
      BY <1>3, <1>4, <3>1
  <2> QED
    BY <1>1, <2>1, Zenon DEF Best
<1>6. PICK B : B = Best(h, S, n)
  OBVIOUS
<1>7. B \in SUBSET S /\ B # {} /\ IsFiniteSet(B)
  <2>1. B \in SUBSET S
    BY <1>6 DEF Best
  <2> QED
    BY <1>5, <1>6, <2>1, FS_Subset
<1>8. \E b \in B : \A t \in B : ~Earlier(h, t.large, b.large)
  <2> DEFINE rank == [s \in B |-> -Cardinality(Before(h, s.large))]
  <2>1. \A s \in B : s.large \in DOMAIN h /\ Cardinality(Before(h, s.large)) \in Nat
    BY <1>7, PairFields, BeforeFinite
  <2>2. rank \in [B -> Int] /\ \A s \in B : rank[s] = -Cardinality(Before(h, s.large))
    BY <2>1
  <2> HIDE DEF rank
  <2>3. PICK b \in B : \A t \in B : rank[t] <= rank[b]
    BY <1>7, <2>2, Attained
  <2>4. ASSUME NEW t \in B, Earlier(h, t.large, b.large) PROVE FALSE
    <3>1. Cardinality(Before(h, t.large)) < Cardinality(Before(h, b.large))
      BY <2>1, <2>4, FewerBefore
    <3> QED
      BY <2>1, <2>2, <2>3, <3>1
  <2> QED
    BY <2>4
<1>9. PICK b : b = CHOOSE s \in B : \A t \in B : ~Earlier(h, t.large, s.large)
  OBVIOUS
<1>10. b \in B
  BY <1>8, <1>9, Zenon
<1>11. BestCluster(h, S, n) = Cluster(h, S, TestAmount(h, b))
  BY <1>6, <1>9, Zenon DEF BestCluster
<1>12. ASSUME NEW s \in S
       PROVE  WeightOf(h, Cluster(h, S, TestAmount(h, s)), n) <= WeightOf(h, Cluster(h, S, TestAmount(h, b)), n)
  <2>1. b \in S /\ ~KeyLess(key[b], key[s])
    BY <1>1, <1>6, <1>10, Zenon DEF Best
  <2>2. key[s][1] <= key[b][1]
    BY <1>4, <2>1, KeyLessIs
  <2>3. \A t \in S : key[t][1] = WeightOf(h, Cluster(h, S, TestAmount(h, t)), n)
    <3>1. \A t : Key(h, S, n, t)[1] = WeightOf(h, Cluster(h, S, TestAmount(h, t)), n)
      BY DEF Key
    <3> QED
      BY <1>1, <3>1, Zenon
  <2> QED
    BY <2>1, <2>2, <2>3
<1> QED
  BY <1>7, <1>10, <1>11, <1>12

(* The weighted median is the least amount up to which lies half the weight. *)
LEMMA MedianFacts ==
  ASSUME NEW h \in Seq(Transfers), NEW n \in 0 .. MaxNow,
         NEW B \in SUBSET Pairs(h), IsFiniteSet(B), B # {}
  PROVE  LET c == WeightedMedian(h, B, n)
         IN  /\ \E s \in B : c = TestAmount(h, s)
             /\ c \in Nat \ {0}
             /\ 2 * WeightOf(h, UpTo(h, B, c), n) >= WeightOf(h, B, n)
             /\ \A s \in B : TestAmount(h, s) < c =>
                  ~(2 * WeightOf(h, UpTo(h, B, TestAmount(h, s)), n) >= WeightOf(h, B, n))
<1> DEFINE A == {TestAmount(h, s) : s \in B}
           V == {x \in A : 2 * WeightOf(h, UpTo(h, B, x), n) >= WeightOf(h, B, n)}
<1>1. A \in SUBSET (Nat \ {0}) /\ IsFiniteSet(A)
  BY AmountSets, Zenon
<1>2. PICK top \in B : \A s \in B : TestAmount(h, s) <= TestAmount(h, top)
  <2> DEFINE f == [s \in B |-> TestAmount(h, s)]
  <2>1. f \in [B -> Int] /\ \A s \in B : f[s] = TestAmount(h, s)
    BY PairFields
  <2> HIDE DEF f
  <2>2. PICK top \in B : \A s \in B : f[s] <= f[top]
    BY <2>1, Attained
  <2> QED
    BY <2>1, <2>2
<1>3. UpTo(h, B, TestAmount(h, top)) = B
  BY <1>2 DEF UpTo
<1>4. 2 * WeightOf(h, UpTo(h, B, TestAmount(h, top)), n) >= WeightOf(h, B, n)
  <2>1. WeightOf(h, B, n) \in Nat
    BY WeightOfFacts, Zenon
  <2>2. 2 * WeightOf(h, B, n) >= WeightOf(h, B, n)
    BY <2>1
  <2> QED
    BY <1>3, <2>2, Zenon
<1>5. V \in SUBSET Nat /\ TestAmount(h, top) \in V
  BY <1>1, <1>4
<1>6. PICK c : c = Min(V)
  OBVIOUS
<1>7. c \in V /\ \A y \in V : c <= y
  <2> HIDE DEF V
  <2> QED
    BY <1>5, <1>6, MinNatural
<1>8. c \in A /\ 2 * WeightOf(h, UpTo(h, B, c), n) >= WeightOf(h, B, n)
  BY <1>7
<1>9. c \in Nat \ {0} /\ \E s \in B : c = TestAmount(h, s)
  BY <1>1, <1>8
<1>10. ASSUME NEW s \in B, TestAmount(h, s) < c,
              2 * WeightOf(h, UpTo(h, B, TestAmount(h, s)), n) >= WeightOf(h, B, n)
       PROVE  FALSE
  <2>1. TestAmount(h, s) \in V
    BY <1>10
  <2>2. TestAmount(h, s) \in Nat
    BY PairFields
  <2> QED
    BY <1>7, <1>9, <1>10, <2>1, <2>2
<1>11. c = WeightedMedian(h, B, n)
  BY <1>6, Zenon DEF WeightedMedian
<1> QED
  BY <1>8, <1>9, <1>10, <1>11, Zenon

(* The refinement around the median keeps half the weight of the cluster.   *)
LEMMA RefineKeepsHalf ==
  ASSUME NEW h \in Seq(Transfers), NEW n \in 0 .. MaxNow,
         NEW S \in SUBSET Pairs(h), IsFiniteSet(S), NEW b \in S,
         NEW B, B = Cluster(h, S, TestAmount(h, b))
  PROVE  2 * WeightOf(h, Cluster(h, S, WeightedMedian(h, B, n)), n) >= WeightOf(h, B, n)
<1> DEFINE amt(s) == TestAmount(h, s)
<1>1. B \in SUBSET S /\ B \in SUBSET Pairs(h) /\ IsFiniteSet(B) /\ b \in B
  BY ClusterFacts, InOwnCluster
<1>2. B # {}
  BY <1>1
<1>3. PICK c : c = WeightedMedian(h, B, n)
  OBVIOUS
<1>4. /\ c \in Nat \ {0}
      /\ 2 * WeightOf(h, UpTo(h, B, c), n) >= WeightOf(h, B, n)
      /\ \A s \in B : TestAmount(h, s) < c =>
           ~(2 * WeightOf(h, UpTo(h, B, TestAmount(h, s)), n) >= WeightOf(h, B, n))
  BY <1>1, <1>2, <1>3, MedianFacts, Zenon
<1>5. \A s \in B : amt(s) \in Nat \ {0} /\ s \in S
  BY <1>1, PairFields
<1>6. \A s \in B : /\ amt(s) * BandFactor.den <= amt(b) * BandFactor.num
                   /\ amt(b) * BandFactor.den <= amt(s) * BandFactor.num
  BY DEF Cluster, InBand
<1>7. \A x, y \in Nat : x <= y => /\ x * BandFactor.den <= y * BandFactor.num
                                  /\ x * BandFactor.num <= y * BandFactor.num
                                  /\ x * BandFactor.den <= y * BandFactor.den
  <2> SUFFICES ASSUME NEW x \in Nat, NEW y \in Nat, x <= y
               PROVE  /\ x * BandFactor.den <= y * BandFactor.num
                      /\ x * BandFactor.num <= y * BandFactor.num
                      /\ x * BandFactor.den <= y * BandFactor.den
    OBVIOUS
  <2>1. PICK p : p = BandFactor.num
    OBVIOUS
  <2>2. PICK q : q = BandFactor.den
    OBVIOUS
  <2>3. p \in Nat /\ q \in Nat /\ q <= p
    BY <2>1, <2>2, Constants
  <2>4. x * p <= y * p /\ x * q <= y * q /\ x * p \in Int /\ x * q \in Int /\ y * p \in Int
    BY <2>3, TimesMonotoneInt
  <2>5. q * x <= p * x
    BY <2>3, TimesMonotoneInt
  <2>6. q * x = x * q /\ p * x = x * p
    BY <2>3
  <2>7. x * q <= y * p
    BY <2>4, <2>5, <2>6
  <2> QED
    BY <2>1, <2>2, <2>4, <2>7, Zenon
<1>8. \A x \in Nat : x * BandFactor.num \in Int /\ x * BandFactor.den \in Int
  BY Constants
<1>9. PICK I : I = Cluster(h, S, c)
  OBVIOUS
<1>10. I \in SUBSET Pairs(h)
  BY <1>9, ClusterFacts
<1>11. PICK low : low = UpTo(h, B, c)
  OBVIOUS
<1>12. PICK high : high = {s \in B : c <= amt(s)}
  OBVIOUS
<1>13. PICK below : below = {s \in B : amt(s) < c}
  OBVIOUS
<1>14. /\ low \in SUBSET Pairs(h) /\ high \in SUBSET Pairs(h) /\ below \in SUBSET Pairs(h)
       /\ below \union high = B /\ below \in SUBSET B
  BY <1>1, <1>4, <1>5, <1>11, <1>12, <1>13 DEF UpTo
<1> DEFINE W(X) == WeightOf(h, X, n)
<1>15. /\ W(B) \in Nat /\ W(I) \in Nat /\ W(low) \in Nat /\ W(high) \in Nat /\ W(below) \in Nat
       /\ W({}) = 0
  BY <1>1, <1>10, <1>14, WeightOfFacts, Zenon
<1>16. CASE amt(b) <= c
  <2>1. high \subseteq I
    <3> SUFFICES ASSUME NEW s \in high PROVE InBand(amt(s), c) /\ s \in S
      BY <1>9 DEF Cluster
    <3>1. s \in B /\ c <= amt(s) /\ amt(s) \in Nat /\ s \in S /\ amt(b) \in Nat
      BY <1>1, <1>5, <1>12
    <3>2. amt(s) * BandFactor.den <= amt(b) * BandFactor.num
      BY <1>6, <3>1
    <3>3. amt(b) * BandFactor.num <= c * BandFactor.num
      BY <1>4, <1>7, <1>16, <3>1
    <3>4. c * BandFactor.den <= amt(s) * BandFactor.num
      BY <1>4, <1>7, <3>1
    <3>5. amt(s) * BandFactor.den \in Int /\ amt(b) * BandFactor.num \in Int /\ c * BandFactor.num \in Int
      BY <1>4, <1>8, <3>1
    <3>6. amt(s) * BandFactor.den <= c * BandFactor.num
      <4> HIDE DEF amt
      <4> QED
        BY <3>2, <3>3, <3>5
    <3> QED
      BY <3>1, <3>4, <3>6 DEF InBand
  <2>2. 2 * W(below) <= W(B)
    <3>1. CASE below = {}
      <4>1. W(below) = 0
        BY <1>15, <3>1, Zenon
      <4> HIDE DEF W
      <4> QED
        BY <1>15, <4>1
    <3>2. CASE below # {}
      <4> DEFINE f == [s \in below |-> amt(s)]
      <4>1. f \in [below -> Int] /\ \A s \in below : f[s] = amt(s)
        BY <1>5, <1>14
      <4>2. IsFiniteSet(below)
        BY <1>1, <1>14, FS_Subset
      <4> HIDE DEF f
      <4>3. PICK t \in below : \A s \in below : f[s] <= f[t]
        BY <3>2, <4>1, <4>2, Attained
      <4>4. \A s \in below : amt(s) <= amt(t)
        BY <4>1, <4>3
      <4>5. t \in B /\ amt(t) < c /\ amt(t) \in Nat
        BY <1>5, <1>13
      <4>6. UpTo(h, B, amt(t)) = below
        BY <1>4, <1>5, <1>13, <4>4, <4>5 DEF UpTo
      <4>7. ~(2 * WeightOf(h, UpTo(h, B, amt(t)), n) >= WeightOf(h, B, n))
        BY <1>4, <4>5
      <4>8. ~(2 * W(below) >= W(B))
        BY <4>6, <4>7, Zenon
      <4> HIDE DEF W
      <4> QED
        BY <1>15, <4>8
    <3> QED
      BY <3>1, <3>2
  <2>3. W(B) <= W(below) + W(high)
    BY <1>14, WeightOfFacts, Zenon
  <2>4. W(high) <= W(I)
    BY <1>10, <1>14, <2>1, WeightOfFacts, Zenon
  <2>5. 2 * W(I) >= W(B)
    <3> HIDE DEF W
    <3> QED
      BY <1>15, <2>2, <2>3, <2>4
  <2> QED
    BY <1>3, <1>9, <2>5, Zenon
<1>17. CASE ~(amt(b) <= c)
  <2>1. low \subseteq I
    <3> SUFFICES ASSUME NEW s \in low PROVE InBand(amt(s), c) /\ s \in S
      BY <1>9 DEF Cluster
    <3>1. s \in B /\ amt(s) <= c /\ amt(s) \in Nat /\ s \in S /\ amt(b) \in Nat
      BY <1>1, <1>5, <1>11 DEF UpTo
    <3>2. amt(b) * BandFactor.den <= amt(s) * BandFactor.num
      BY <1>6, <3>1
    <3>3. c * BandFactor.den <= amt(b) * BandFactor.den
      BY <1>4, <1>7, <1>17, <3>1
    <3>4. amt(s) * BandFactor.den <= c * BandFactor.num
      BY <1>4, <1>7, <3>1
    <3>5. c * BandFactor.den \in Int /\ amt(b) * BandFactor.den \in Int /\ amt(s) * BandFactor.num \in Int
      BY <1>4, <1>8, <3>1
    <3>6. c * BandFactor.den <= amt(s) * BandFactor.num
      <4> HIDE DEF amt
      <4> QED
        BY <3>2, <3>3, <3>5
    <3> QED
      BY <3>1, <3>4, <3>6 DEF InBand
  <2>2. W(low) <= W(I)
    BY <1>10, <1>14, <2>1, WeightOfFacts, Zenon
  <2>3. 2 * W(low) >= W(B)
    BY <1>4, <1>11, Zenon
  <2>4. 2 * W(I) >= W(B)
    <3> HIDE DEF W
    <3> QED
      BY <1>15, <2>2, <2>3
  <2> QED
    BY <1>3, <1>9, <2>4, Zenon
<1> QED
  BY <1>16, <1>17

(* The refinement keeps at least half the weight of every cluster           *)
(* (pattern_engine.py:238-240), for any history, band and half-life.        *)
THEOREM InliersCarryTheWeight == Spec => []InliersDominant
<1>1. ASSUME Typed, Sequences # {}, NEW s \in Sequences
      PROVE  2 * WeightOf(history, Model.inliers, now)
               >= WeightOf(history, Cluster(history, Sequences, TestAmount(history, s)), now)
  <2>1. PICK S : S = Sequences
    OBVIOUS
  <2>2. history \in Seq(Transfers) /\ now \in 0 .. MaxNow
    BY <1>1 DEF Typed
  <2>3. S \in SUBSET Pairs(history) /\ IsFiniteSet(S) /\ S # {} /\ s \in S
    BY <1>1, <2>1, <2>2, DetectedFacts DEF Sequences
  <2>4. PICK b \in S : /\ BestCluster(history, S, now) = Cluster(history, S, TestAmount(history, b))
                       /\ \A u \in S : WeightOf(history, Cluster(history, S, TestAmount(history, u)), now)
                                         <= WeightOf(history, Cluster(history, S, TestAmount(history, b)), now)
    BY <2>2, <2>3, BestFacts
  <2>5. PICK B : B = Cluster(history, S, TestAmount(history, b))
    OBVIOUS
  <2>6. PICK I : I = Cluster(history, S, WeightedMedian(history, B, now))
    OBVIOUS
  <2>7. 2 * WeightOf(history, I, now) >= WeightOf(history, B, now)
    BY <2>2, <2>3, <2>5, <2>6, RefineKeepsHalf
  <2>8. Model.inliers = I
    <3>1. Model.inliers = SelectTestCluster(history, S, now)
      BY <2>1, ModelFields, Zenon DEF Model
    <3> QED
      BY <2>4, <2>5, <2>6, <3>1, Zenon DEF SelectTestCluster
  <2>9. PICK C : C = Cluster(history, S, TestAmount(history, s))
    OBVIOUS
  <2>10. B \in SUBSET Pairs(history) /\ I \in SUBSET Pairs(history) /\ C \in SUBSET Pairs(history)
    BY <2>2, <2>3, <2>5, <2>6, <2>9, ClusterFacts
  <2>11. WeightOf(history, B, now) \in Nat /\ WeightOf(history, I, now) \in Nat /\ WeightOf(history, C, now) \in Nat
    BY <2>2, <2>10, WeightOfFacts, Zenon
  <2>12. WeightOf(history, C, now) <= WeightOf(history, B, now)
    BY <2>3, <2>4, <2>5, <2>9, Zenon
  <2>13. 2 * WeightOf(history, I, now) >= WeightOf(history, C, now)
    BY <2>7, <2>11, <2>12
  <2> QED
    BY <2>1, <2>8, <2>9, <2>13, Zenon
<1>2. Typed => InliersDominant
  BY <1>1, Zenon DEF InliersDominant
<1> QED
  BY <1>2, AlwaysTyped, PTL

-----------------------------------------------------------------------------
(* The passage of time                                                      *)

(* An analysis one unit of time after another one of the same transfers.    *)
Older(h, n) ==
  /\ h \in Seq(Transfers) /\ n \in 0 .. MaxNow /\ n + 1 \in 0 .. MaxNow
  /\ \A i \in DOMAIN h : h[i].at <= n

(* The weights by age are positive.                                        *)
LEMMA DecayType ==
  ASSUME NEW n \in 0 .. MaxNow, n + 1 \in 0 .. MaxNow
  PROVE  Decay[0] \in Nat \ {0} /\ Decay[1] \in Nat \ {0}
<1>1. 0 \in 0 .. MaxNow /\ 1 \in 0 .. MaxNow
  BY Constants
<1> QED
  BY <1>1, PatternAssumption

(* One unit of time scales every weight by the same factor.                 *)
LEMMA WeightScaled ==
  ASSUME NEW h, NEW n, Older(h, n), NEW i \in DOMAIN h
  PROVE  Decay[0] * Weight(h, i, n + 1) = Decay[1] * Weight(h, i, n)
<1>1. h[i].at \in Nat /\ h[i].at <= n /\ n \in Nat /\ MaxNow \in Nat /\ n + 1 <= MaxNow
  BY TxFields, Constants DEF Older
<1>2. PICK a : a = n - h[i].at
  OBVIOUS
<1>3. a \in 0 .. MaxNow - 1 /\ 0 \in 0 .. MaxNow - 1 /\ n + 1 - h[i].at = a + 1 /\ a \in Int /\ a + 1 \in Int
  BY <1>1, <1>2
<1>4. Max({0, a}) = a
  BY <1>3, MaxOfTwo
<1>5. Max({0, a + 1}) = a + 1
  BY <1>3, MaxOfTwo
<1>6. Weight(h, i, n) = Decay[a] /\ Weight(h, i, n + 1) = Decay[a + 1]
  <2>1. Weight(h, i, n) = Decay[Max({0, n - h[i].at})]
    BY Zenon DEF Weight
  <2>2. Weight(h, i, n + 1) = Decay[Max({0, (n + 1) - h[i].at})]
    BY Zenon DEF Weight
  <2>3. n - h[i].at = a /\ (n + 1) - h[i].at = a + 1
    BY <1>1, <1>2, <1>3
  <2> QED
    BY <1>4, <1>5, <2>1, <2>2, <2>3, Zenon
<1>7. Decay[a + 1] * Decay[0] = Decay[a] * Decay[0 + 1]
  BY <1>3, PatternAssumption, Zenon
<1>8. Decay[a] \in Nat /\ Decay[a + 1] \in Nat /\ Decay[0] \in Nat /\ Decay[1] \in Nat
  <2>1. a \in 0 .. MaxNow /\ a + 1 \in 0 .. MaxNow /\ 0 \in 0 .. MaxNow /\ 1 \in 0 .. MaxNow
    BY <1>1, <1>3
  <2> QED
    BY <2>1, PatternAssumption
<1>9. Decay[0] * Decay[a + 1] = Decay[1] * Decay[a]
  BY <1>7, <1>8
<1> QED
  BY <1>6, <1>9, Zenon

(* ... and so every total of weights.                                      *)
LEMMA TotalScaled ==
  ASSUME NEW h, NEW n, Older(h, n), NEW J \in SUBSET (DOMAIN h)
  PROVE  Decay[0] * TotalWeight(h, J, n + 1) = Decay[1] * TotalWeight(h, J, n)
<1>1. h \in Seq(Transfers) /\ n \in 0 .. MaxNow /\ n + 1 \in 0 .. MaxNow
  BY DEF Older
<1>2. PICK m : m = n + 1
  OBVIOUS
<1>3. PICK F : /\ Adds(F, DOMAIN h, Weights(h, n))
               /\ \A I \in SUBSET (DOMAIN h) : TotalWeight(h, I, n) = F[I]
  BY <1>1, TotalAdds, Zenon
<1>4. PICK G : /\ Adds(G, DOMAIN h, Weights(h, m))
               /\ \A I \in SUBSET (DOMAIN h) : TotalWeight(h, I, m) = G[I]
  <2>1. m \in 0 .. MaxNow
    BY <1>1, <1>2
  <2> QED
    BY <1>1, <2>1, TotalAdds, Zenon
<1> DEFINE w == Weights(h, n)
           v == Weights(h, m)
<1>5. w \in [DOMAIN h -> Nat] /\ v \in [DOMAIN h -> Nat]
  BY <1>1, <1>2, WeightType DEF Weights
<1>6. \A i \in DOMAIN h : w[i] = Weight(h, i, n) /\ v[i] = Weight(h, i, m)
  BY Zenon DEF Weights
<1> HIDE DEF w, v
<1>7. \A i \in DOMAIN h : Decay[0] * v[i] = Decay[1] * w[i]
  BY <1>2, <1>6, WeightScaled, Zenon
<1>8. IsFiniteSet(DOMAIN h)
  BY <1>1, FiniteDomain
<1>9. Decay[0] \in Nat /\ Decay[1] \in Nat
  BY <1>1, DecayType
<1>10. Adds(F, DOMAIN h, w) /\ Adds(G, DOMAIN h, v)
  BY <1>3, <1>4 DEF w, v
<1>11. Decay[0] * G[J] = Decay[1] * F[J]
  <2>1. PICK a \in Nat : a = Decay[0]
    BY <1>9
  <2>2. PICK b \in Nat : b = Decay[1]
    BY <1>9
  <2>3. Proportional(DOMAIN h, a, v, G, b, w, F)
    BY <1>5, <1>7, <1>10, <2>1, <2>2, Zenon DEF Proportional
  <2>4. PICK D : D = DOMAIN h
    OBVIOUS
  <2>5. PICK ww : ww = w
    OBVIOUS
  <2>6. PICK vv : vv = v
    OBVIOUS
  <2>7. Proportional(D, a, vv, G, b, ww, F) /\ IsFiniteSet(D) /\ J \in SUBSET D
    BY <1>8, <2>3, <2>4, <2>5, <2>6, Zenon
  <2>8. a * G[J] = b * F[J]
    BY <2>7, SumScaled
  <2> QED
    BY <2>1, <2>2, <2>8, Zenon
<1> QED
  BY <1>2, <1>3, <1>4, <1>11, Zenon

(* So comparisons of weights, also of multiples, do not change.             *)
LEMMA ScaledMultiples ==
  ASSUME NEW d \in Nat \ {0}, NEW e \in Nat \ {0}, NEW p \in Nat, NEW q \in Nat,
         NEW x \in Nat, NEW y \in Nat, NEW x2 \in Nat, NEW y2 \in Nat,
         d * x2 = e * x, d * y2 = e * y
  PROVE  p * x2 >= q * y2 <=> p * x >= q * y
<1>1. /\ p * x \in Int /\ p * x2 \in Int /\ q * y \in Int /\ q * y2 \in Int
  OBVIOUS
<1>2. d * (p * x2) = e * (p * x)
  <2>1. d * (p * x2) = p * (d * x2)
    OBVIOUS
  <2>2. e * (p * x) = p * (e * x)
    OBVIOUS
  <2> QED
    BY <2>1, <2>2, Zenon
<1>3. d * (q * y2) = e * (q * y)
  <2>1. d * (q * y2) = q * (d * y2)
    OBVIOUS
  <2>2. e * (q * y) = q * (e * y)
    OBVIOUS
  <2> QED
    BY <2>1, <2>2, Zenon
<1>4. q * y2 <= p * x2 <=> q * y <= p * x
  <2>1. PICK a \in Int : a = p * x
    BY <1>1
  <2>2. PICK a2 \in Int : a2 = p * x2
    BY <1>1
  <2>3. PICK b \in Int : b = q * y
    BY <1>1
  <2>4. PICK b2 \in Int : b2 = q * y2
    BY <1>1
  <2>5. d * a2 = e * a /\ d * b2 = e * b
    BY <1>2, <1>3, <2>1, <2>2, <2>3, <2>4, Zenon
  <2>6. b2 <= a2 <=> b <= a
    BY <2>5, ScaledOrder
  <2> QED
    BY <2>1, <2>2, <2>3, <2>4, <2>6, Zenon
<1> QED
  BY <1>1, <1>4

(* The large transfers of sequences are transfers of the history.          *)
LEMMA LargesOf ==
  ASSUME NEW h, NEW S \in SUBSET Pairs(h)
  PROVE  {s.large : s \in S} \in SUBSET (DOMAIN h)
BY DEF Pairs

(* The comparisons between weights of sequences are the same as before.    *)
LEMMA SameComparisons ==
  ASSUME NEW h, NEW n, Older(h, n), NEW A \in SUBSET Pairs(h), NEW B \in SUBSET Pairs(h)
  PROVE  /\ WeightOf(h, A, n + 1) < WeightOf(h, B, n + 1) <=> WeightOf(h, A, n) < WeightOf(h, B, n)
         /\ WeightOf(h, A, n + 1) = WeightOf(h, B, n + 1) <=> WeightOf(h, A, n) = WeightOf(h, B, n)
         /\ \A p, q \in Nat : p * WeightOf(h, A, n + 1) >= q * WeightOf(h, B, n + 1)
                                <=> p * WeightOf(h, A, n) >= q * WeightOf(h, B, n)
<1>1. h \in Seq(Transfers) /\ n \in 0 .. MaxNow /\ n + 1 \in 0 .. MaxNow
  BY DEF Older
<1>2. PICK d \in Nat \ {0} : d = Decay[0]
  BY <1>1, DecayType
<1>3. PICK e \in Nat \ {0} : e = Decay[1]
  BY <1>1, DecayType
<1>4. PICK x : x = WeightOf(h, A, n)
  OBVIOUS
<1>5. PICK y : y = WeightOf(h, B, n)
  OBVIOUS
<1>6. PICK x2 : x2 = WeightOf(h, A, n + 1)
  OBVIOUS
<1>7. PICK y2 : y2 = WeightOf(h, B, n + 1)
  OBVIOUS
<1>8. x \in Nat /\ y \in Nat /\ x2 \in Nat /\ y2 \in Nat
  BY <1>1, <1>4, <1>5, <1>6, <1>7, WeightOfFacts, Zenon
<1>9. d * x2 = e * x
  BY <1>2, <1>3, <1>4, <1>6, LargesOf, TotalScaled, Zenon DEF WeightOf
<1>10. d * y2 = e * y
  BY <1>2, <1>3, <1>5, <1>7, LargesOf, TotalScaled, Zenon DEF WeightOf
<1>11. (x2 < y2 <=> x < y) /\ (x2 = y2 <=> x = y)
  BY <1>8, <1>9, <1>10, ScaledOrder
<1>12. \A p, q \in Nat : p * x2 >= q * y2 <=> p * x >= q * y
  BY <1>8, <1>9, <1>10, ScaledMultiples
<1> QED
  BY <1>4, <1>5, <1>6, <1>7, <1>11, <1>12, Zenon

(* The key of a sequence changes only in the weight of its cluster.         *)
LEMMA KeyParts ==
  ASSUME NEW h, NEW S, NEW n, NEW m, NEW s
  PROVE  /\ Key(h, S, n, s)[1] = WeightOf(h, Cluster(h, S, TestAmount(h, s)), n)
         /\ Key(h, S, m, s)[2] = Key(h, S, n, s)[2]
         /\ Key(h, S, m, s)[3] = Key(h, S, n, s)[3]
<1> DEFINE C == Cluster(h, S, TestAmount(h, s))
<1>1. \A k : Key(h, S, k, s) = <<WeightOf(h, C, k), Cardinality(C), Max({h[c.large].at : c \in C})>>
  BY Zenon DEF Key
<1> HIDE DEF C
<1>2. ASSUME NEW k
      PROVE  /\ Key(h, S, k, s)[1] = WeightOf(h, C, k)
             /\ Key(h, S, k, s)[2] = Cardinality(C)
             /\ Key(h, S, k, s)[3] = Max({h[c.large].at : c \in C})
  <2>1. PICK u : u = WeightOf(h, C, k)
    OBVIOUS
  <2>2. PICK v : v = Cardinality(C)
    OBVIOUS
  <2>3. PICK w : w = Max({h[c.large].at : c \in C})
    OBVIOUS
  <2>4. Key(h, S, k, s) = <<u, v, w>>
    BY <1>1, <2>1, <2>2, <2>3, Zenon
  <2>5. Key(h, S, k, s)[1] = u /\ Key(h, S, k, s)[2] = v /\ Key(h, S, k, s)[3] = w
    BY <2>4
  <2> QED
    BY <2>1, <2>2, <2>3, <2>5, Zenon
<1> QED
  BY <1>2, Zenon DEF C

(* So the same clusters are the best ones ...                              *)
LEMMA SameBest ==
  ASSUME NEW h, NEW n, Older(h, n), NEW S \in SUBSET Pairs(h), IsFiniteSet(S)
  PROVE  Best(h, S, n + 1) = Best(h, S, n)
<1>1. h \in Seq(Transfers) /\ n \in 0 .. MaxNow /\ n + 1 \in 0 .. MaxNow
  BY DEF Older
<1>2. ASSUME NEW s \in S, NEW t \in S
      PROVE  KeyLess(Key(h, S, n + 1, s), Key(h, S, n + 1, t)) <=> KeyLess(Key(h, S, n, s), Key(h, S, n, t))
  <2>1. PICK a : a = Key(h, S, n, s)
    OBVIOUS
  <2>2. PICK b : b = Key(h, S, n, t)
    OBVIOUS
  <2>3. PICK a2 : a2 = Key(h, S, n + 1, s)
    OBVIOUS
  <2>4. PICK b2 : b2 = Key(h, S, n + 1, t)
    OBVIOUS
  <2>5. /\ a \in Int \X Int \X Int /\ b \in Int \X Int \X Int
        /\ a2 \in Int \X Int \X Int /\ b2 \in Int \X Int \X Int
    BY <1>1, <2>1, <2>2, <2>3, <2>4, KeyType, Zenon
  <2>6. PICK A : A = Cluster(h, S, TestAmount(h, s))
    OBVIOUS
  <2>7. PICK B : B = Cluster(h, S, TestAmount(h, t))
    OBVIOUS
  <2>8. A \in SUBSET Pairs(h) /\ B \in SUBSET Pairs(h)
    BY <1>1, <2>6, <2>7, ClusterFacts
  <2>9. /\ WeightOf(h, A, n + 1) < WeightOf(h, B, n + 1) <=> WeightOf(h, A, n) < WeightOf(h, B, n)
        /\ WeightOf(h, A, n + 1) = WeightOf(h, B, n + 1) <=> WeightOf(h, A, n) = WeightOf(h, B, n)
    BY <2>8, SameComparisons, Zenon
  <2>10. /\ a[1] = WeightOf(h, A, n) /\ b[1] = WeightOf(h, B, n)
         /\ a2[1] = WeightOf(h, A, n + 1) /\ b2[1] = WeightOf(h, B, n + 1)
         /\ a2[2] = a[2] /\ b2[2] = b[2] /\ a2[3] = a[3] /\ b2[3] = b[3]
    <3>1. PICK m : m = n + 1
      OBVIOUS
    <3>2. \A u : /\ Key(h, S, n, u)[1] = WeightOf(h, Cluster(h, S, TestAmount(h, u)), n)
                 /\ Key(h, S, m, u)[1] = WeightOf(h, Cluster(h, S, TestAmount(h, u)), m)
                 /\ Key(h, S, m, u)[2] = Key(h, S, n, u)[2]
                 /\ Key(h, S, m, u)[3] = Key(h, S, n, u)[3]
      BY KeyParts
    <3> QED
      BY <2>1, <2>2, <2>3, <2>4, <2>6, <2>7, <3>1, <3>2, Zenon
  <2>11. (a2[1] < b2[1] <=> a[1] < b[1]) /\ (a2[1] = b2[1] <=> a[1] = b[1])
    BY <2>9, <2>10, Zenon
  <2>12. KeyLess(a2, b2) <=> KeyLess(a, b)
    <3>1. KeyLess(a, b) <=> \/ a[1] < b[1]
                            \/ a[1] = b[1] /\ a[2] < b[2]
                            \/ a[1] = b[1] /\ a[2] = b[2] /\ a[3] < b[3]
      BY <2>5, KeyLessIs, Zenon
    <3>2. KeyLess(a2, b2) <=> \/ a2[1] < b2[1]
                              \/ a2[1] = b2[1] /\ a2[2] < b2[2]
                              \/ a2[1] = b2[1] /\ a2[2] = b2[2] /\ a2[3] < b2[3]
      BY <2>5, KeyLessIs, Zenon
    <3> QED
      BY <2>10, <2>11, <3>1, <3>2, Zenon
  <2> QED
    BY <2>1, <2>2, <2>3, <2>4, <2>12, Zenon
<1>3. ASSUME NEW s \in S
      PROVE  (\A t \in S : ~KeyLess(Key(h, S, n + 1, s), Key(h, S, n + 1, t)))
               <=> (\A t \in S : ~KeyLess(Key(h, S, n, s), Key(h, S, n, t)))
  BY <1>2, Zenon
<1> QED
  BY <1>3, Zenon DEF Best

(* ... and the same sequences are kept.                                    *)
LEMMA SameInliers ==
  ASSUME NEW h, NEW n, Older(h, n), NEW S \in SUBSET Pairs(h), IsFiniteSet(S)
  PROVE  SelectTestCluster(h, S, n + 1) = SelectTestCluster(h, S, n)
<1>1. h \in Seq(Transfers) /\ n \in 0 .. MaxNow /\ n + 1 \in 0 .. MaxNow
  BY DEF Older
<1>2. BestCluster(h, S, n + 1) = BestCluster(h, S, n)
  BY SameBest, Zenon DEF BestCluster
<1>3. PICK B : B = BestCluster(h, S, n)
  OBVIOUS
<1>4. B \in SUBSET Pairs(h)
  <2>1. \A c : Cluster(h, S, c) \in SUBSET Pairs(h)
    BY DEF Cluster
  <2> QED
    BY <1>3, <2>1, Zenon DEF BestCluster
<1>5. WeightedMedian(h, B, n + 1) = WeightedMedian(h, B, n)
  <2>1. ASSUME NEW c
        PROVE  2 * WeightOf(h, UpTo(h, B, c), n + 1) >= WeightOf(h, B, n + 1)
                 <=> 2 * WeightOf(h, UpTo(h, B, c), n) >= WeightOf(h, B, n)
    <3>1. PICK A : A = UpTo(h, B, c)
      OBVIOUS
    <3>2. A \in SUBSET Pairs(h)
      BY <1>4, <3>1 DEF UpTo
    <3>3. 2 * WeightOf(h, A, n + 1) >= 1 * WeightOf(h, B, n + 1)
            <=> 2 * WeightOf(h, A, n) >= 1 * WeightOf(h, B, n)
      <4>1. 2 \in Nat /\ 1 \in Nat
        OBVIOUS
      <4> QED
        BY <1>4, <3>2, <4>1, SameComparisons, Zenon
    <3>4. WeightOf(h, B, n) \in Nat /\ WeightOf(h, B, n + 1) \in Nat
      BY <1>1, <1>4, WeightOfFacts, Zenon
    <3>5. 1 * WeightOf(h, B, n) = WeightOf(h, B, n) /\ 1 * WeightOf(h, B, n + 1) = WeightOf(h, B, n + 1)
      BY <3>4
    <3> QED
      BY <3>1, <3>3, <3>5, Zenon
  <2>2. {c \in {TestAmount(h, s) : s \in B} : 2 * WeightOf(h, UpTo(h, B, c), n + 1) >= WeightOf(h, B, n + 1)}
          = {c \in {TestAmount(h, s) : s \in B} : 2 * WeightOf(h, UpTo(h, B, c), n) >= WeightOf(h, B, n)}
    BY <2>1, Zenon
  <2> QED
    BY <2>2, Zenon DEF WeightedMedian
<1> QED
  BY <1>2, <1>3, <1>5, Zenon DEF SelectTestCluster

(* Some sequence is kept.                                                  *)
LEMMA ClusterNotEmpty ==
  ASSUME NEW h \in Seq(Transfers), NEW n \in 0 .. MaxNow,
         NEW S \in SUBSET Pairs(h), IsFiniteSet(S), S # {}
  PROVE  SelectTestCluster(h, S, n) # {}
<1>1. PICK b \in S : BestCluster(h, S, n) = Cluster(h, S, TestAmount(h, b))
  BY BestFacts
<1>2. PICK B : B = BestCluster(h, S, n)
  OBVIOUS
<1>3. B \in SUBSET S /\ B \in SUBSET Pairs(h) /\ IsFiniteSet(B) /\ b \in B
  BY <1>1, <1>2, ClusterFacts, InOwnCluster
<1>4. B # {}
  BY <1>3
<1>5. PICK c : c = WeightedMedian(h, B, n)
  OBVIOUS
<1>6. \E s \in B : c = TestAmount(h, s)
  BY <1>3, <1>4, <1>5, MedianFacts, Zenon
<1>7. PICK s \in S : c = TestAmount(h, s)
  BY <1>3, <1>6
<1>8. s \in Cluster(h, S, c)
  BY <1>7, InOwnCluster
<1>9. SelectTestCluster(h, S, n) = Cluster(h, S, c)
  BY <1>2, <1>5, Zenon DEF SelectTestCluster
<1> QED
  BY <1>8, <1>9

(* The band contains a test it was learned from: that of the sequence with  *)
(* the least large transfer.                                                *)
LEMMA BandHoldsTest ==
  ASSUME NEW h \in Seq(Transfers), NEW I \in SUBSET Pairs(h), IsFiniteSet(I), I # {},
         \A s \in I : MayFollow(h, s.test, s.large)
  PROVE  \E s \in I : TestAmount(h, s) \in MatchLow(h, I) .. MatchHigh(h, I)
<1>1. PICK least : least = Min({TestAmount(h, s) : s \in I})
  OBVIOUS
<1>2. PICK most : most = Max({TestAmount(h, s) : s \in I})
  OBVIOUS
<1>3. PICK large : large = Min({h[s.large].amount : s \in I})
  OBVIOUS
<1>4. /\ least \in Nat /\ most \in Nat
      /\ \A s \in I : least <= TestAmount(h, s) /\ TestAmount(h, s) <= most
  <2> DEFINE T == {TestAmount(h, s) : s \in I}
  <2>1. T \in SUBSET (Nat \ {0}) /\ IsFiniteSet(T)
    BY AmountSets, Zenon
  <2>2. T # {} /\ \A s \in I : TestAmount(h, s) \in T
    OBVIOUS
  <2>3. T \in SUBSET Int
    BY <2>1
  <2> HIDE DEF T
  <2>4. Min(T) \in T /\ Max(T) \in T /\ \A y \in T : Min(T) <= y /\ y <= Max(T)
    BY <2>1, <2>2, <2>3, MinFinite, MaxFinite
  <2>5. least = Min(T) /\ most = Max(T)
    BY <1>1, <1>2 DEF T
  <2> QED
    BY <2>1, <2>2, <2>4, <2>5
<1>5. PICK s \in I : large = h[s.large].amount
  <2> DEFINE L == {h[u.large].amount : u \in I}
  <2>1. L \in SUBSET Nat /\ L # {}
    BY AmountSets
  <2>2. \A x \in L : \E u \in I : x = h[u.large].amount
    OBVIOUS
  <2> HIDE DEF L
  <2>3. Min(L) \in L
    BY <2>1, MinNatural
  <2>4. large = Min(L)
    BY <1>3 DEF L
  <2> QED
    BY <2>2, <2>3, <2>4
<1>6. PICK t : t = TestAmount(h, s)
  OBVIOUS
<1>7. t \in Nat \ {0} /\ large \in Nat /\ least <= t /\ t <= most
  BY <1>4, <1>5, <1>6, PairFields
<1>8. /\ MinTest <= t /\ t <= MaxTest
      /\ large * Ratio.den >= t * Ratio.num
  <2>1. h[s.test].amount = t
    BY <1>6 DEF TestAmount
  <2>2. MayFollow(h, s.test, s.large)
    OBVIOUS
  <2>3. MinTest \in Int /\ MaxTest \in Int
    BY Constants
  <2> QED
    BY <1>5, <1>7, <2>1, <2>2, <2>3 DEF MayFollow, SubstantiallyLarger
<1>9. PICK p : p = MatchFactor.num
  OBVIOUS
<1>10. PICK q : q = MatchFactor.den
  OBVIOUS
<1>11. p \in Nat \ {0} /\ q \in Nat \ {0} /\ q <= p
  BY <1>9, <1>10, Constants, PatternAssumption DEF PatternAssumption
<1>12. CeilOver(least, MatchFactor) \in Int /\ CeilOver(least, MatchFactor) <= least
  <2>1. q * least <= p * least /\ q * least \in Int /\ p * least \in Int
    BY <1>4, <1>11, TimesMonotoneInt
  <2>2. -least * q \in Int /\ -least * q >= (-least) * p /\ (-least) * p \in Int
    <3>1. -least * q = -(q * least) /\ (-least) * p = -(p * least)
      BY <1>4, <1>11
    <3> QED
      BY <2>1, <3>1
  <2>3. PICK x \in Int : x = -least * q
    BY <2>2
  <2>4. -least <= x \div p /\ x \div p \in Int
    <3>1. (-least) * p <= x /\ -least \in Int
      BY <1>4, <2>2, <2>3
    <3> QED
      BY <1>11, <3>1, AboveQuotient, QuotientBound
  <2>5. CeilOver(least, MatchFactor) = -(x \div p)
    BY <1>9, <1>10, <2>3, Zenon DEF CeilOver
  <2> QED
    BY <1>4, <2>4, <2>5
<1>13. FloorTimes(most, MatchFactor) \in Int /\ most <= FloorTimes(most, MatchFactor)
  <2>1. q * most <= p * most /\ q * most \in Int /\ p * most \in Int
    BY <1>4, <1>11, TimesMonotoneInt
  <2>2. most * q <= most * p /\ most * p \in Int
    <3>1. most * q = q * most /\ most * p = p * most
      BY <1>4, <1>11
    <3> QED
      BY <2>1, <3>1
  <2>3. PICK x \in Int : x = most * p
    BY <2>2
  <2>4. most <= x \div q /\ x \div q \in Int
    <3>1. most * q <= x /\ most \in Int
      BY <1>4, <2>2, <2>3
    <3> QED
      BY <1>11, <3>1, AboveQuotient, QuotientBound
  <2>5. FloorTimes(most, MatchFactor) = x \div q
    BY <1>9, <1>10, <2>3, Zenon DEF FloorTimes
  <2> QED
    BY <2>4, <2>5
<1>14. FloorOver(large, Ratio) \in Int /\ t <= FloorOver(large, Ratio)
  <2>1. large * Ratio.den \in Int /\ t * Ratio.num \in Int
    BY <1>7, Constants
  <2>2. PICK x \in Int : x = large * Ratio.den
    BY <2>1
  <2>3. PICK y \in Nat \ {0} : y = Ratio.num
    BY Constants
  <2>4. t * y <= x
    BY <1>8, <2>1, <2>2, <2>3
  <2>5. t <= x \div y /\ x \div y \in Int
    BY <1>7, <2>4, AboveQuotient, QuotientBound
  <2>6. FloorOver(large, Ratio) = x \div y
    BY <2>2, <2>3, Zenon DEF FloorOver
  <2> QED
    BY <2>5, <2>6
<1>15. MatchLow(h, I) = Max({CeilOver(least, MatchFactor), MinTest, 1})
  BY <1>1, Zenon DEF MatchLow
<1>16. MatchHigh(h, I) = Min({FloorTimes(most, MatchFactor), FloorOver(large, Ratio), MaxTest})
  BY <1>2, <1>3, Zenon DEF MatchHigh
<1>17. MatchLow(h, I) <= t
  <2>1. CeilOver(least, MatchFactor) <= t /\ 1 <= t /\ t \in Int /\ MinTest \in Int /\ 1 \in Int
    BY <1>4, <1>7, <1>12, Constants
  <2>2. PICK u \in Int : u = CeilOver(least, MatchFactor)
    BY <1>12
  <2>3. Max({u, MinTest, 1}) <= t
    BY <1>8, <2>1, <2>2, ThreeWithin
  <2> QED
    BY <1>15, <2>2, <2>3, Zenon
<1>18. t <= MatchHigh(h, I)
  <2>1. t <= FloorTimes(most, MatchFactor) /\ t \in Int /\ MaxTest \in Int
    BY <1>4, <1>7, <1>13, Constants
  <2>2. PICK u \in Int : u = FloorTimes(most, MatchFactor)
    BY <1>13
  <2>3. PICK v \in Int : v = FloorOver(large, Ratio)
    BY <1>14
  <2>4. t <= Min({u, v, MaxTest})
    BY <1>8, <1>14, <2>1, <2>2, <2>3, ThreeWithin
  <2> QED
    BY <1>16, <2>2, <2>3, <2>4, Zenon
<1>19. MatchLow(h, I) \in Int /\ MatchHigh(h, I) \in Int
  BY BandFacts
<1>20. t \in MatchLow(h, I) .. MatchHigh(h, I)
  BY <1>7, <1>17, <1>18, <1>19
<1> QED
  BY <1>6, <1>20

(* The transfers in the band that are no large ones, and what became of them. *)
Like(h, S, low, high) == {i \in DOMAIN h \ {s.large : s \in S} : h[i].amount \in low .. high}
Hits(h, S, low, high) == Like(h, S, low, high) \cap {s.test : s \in S}
Misses(h, S, low, high, w, n) == {i \in Like(h, S, low, high) \ Hits(h, S, low, high) : IsOver(h, i, n, w)}
Below(part, whole, f) == IF whole > 0 THEN part * f.den < whole * f.num ELSE f.num > 0

(* What a model of the inliers I with that band and window says.            *)
Verdict(h, S, n, m, I, low, high, w) ==
  /\ m.inliers = I /\ m.window = w /\ m.low = low /\ m.high = high
  /\ m.succ = TotalWeight(h, Hits(h, S, low, high), n)
  /\ m.judged = TotalWeight(h, Hits(h, S, low, high) \union Misses(h, S, low, high, w, n), n)
  /\ m.reasons = {r \in Reasons :
       \/ r = "few"          /\ Cardinality(I) < MinSequences
       \/ r = "failing"      /\ Below(m.succ, m.judged, MinSuccess)
       \/ r = "inconsistent" /\ Below(WeightOf(h, I, n), WeightOf(h, S, n), MinInlier)
       \/ r = "expired"      /\ n - Max({h[s.large].at : s \in I}) > Expiry
       \/ r = "overlap"      /\ high < low}
  /\ m.candidate <=> /\ Cardinality(I) >= CandidateSequences
                     /\ m.reasons \cap {"inconsistent", "expired", "overlap"} = {}

(* BuildModel says that.                                                   *)
LEMMA VerdictFields ==
  ASSUME NEW h, NEW S, NEW n
  PROVE  LET I == SelectTestCluster(h, S, n)
         IN  Verdict(h, S, n, BuildModel(h, S, n), I, MatchLow(h, I), MatchHigh(h, I),
                     LearnedWindow(Sorted([s \in I |-> FollowupTime(h, s)])))
BY DEF BuildModel, ModelOf, Verdict, Like, Hits, Misses, Below

(* A share does not rise when the part shrinks in a proportion that the    *)
(* whole at least keeps.                                                   *)
LEMMA AtLeastErodes ==
  ASSUME NEW d \in Nat \ {0}, NEW e \in Nat \ {0}, NEW p \in Nat, NEW q \in Nat,
         NEW x \in Nat, NEW y \in Nat, NEW x2 \in Nat, NEW y2 \in Nat,
         d * x2 = e * x, e * y <= d * y2
  PROVE  /\ x2 * y <= x * y2
         /\ x2 * p >= y2 * q => x * p >= y * q
<1>1. x2 * y <= x * y2
  <2>1. y * (d * x2) = y * (e * x)
    BY Zenon
  <2>2. d * (x2 * y) = y * (d * x2) /\ y * (e * x) = x * (e * y)
    OBVIOUS
  <2>3. x * (e * y) <= x * (d * y2)
    <3>1. (e * y) * x <= (d * y2) * x
      <4>1. e * y \in Nat /\ d * y2 \in Nat
        OBVIOUS
      <4> QED
        BY <4>1, TimesMonotone
    <3> QED
      BY <3>1
  <2>4. x * (d * y2) = d * (x * y2)
    OBVIOUS
  <2>5. d * (x2 * y) <= d * (x * y2)
    BY <2>1, <2>2, <2>3, <2>4
  <2>6. x2 * y \in Int /\ x * y2 \in Int
    OBVIOUS
  <2> QED
    BY <2>5, <2>6, TimesOrder
<1>2. ASSUME x2 * p >= y2 * q PROVE x * p >= y * q
  <2>1. d * (y2 * q) <= d * (x2 * p)
    <3>1. y2 * q \in Int /\ x2 * p \in Int
      OBVIOUS
    <3> QED
      BY <1>2, <3>1, TimesOrder
  <2>2. d * (y2 * q) = q * (d * y2) /\ d * (x2 * p) = p * (d * x2)
    OBVIOUS
  <2>3. p * (d * x2) = p * (e * x)
    BY Zenon
  <2>4. p * (e * x) = e * (x * p) /\ q * (e * y) = e * (y * q)
    OBVIOUS
  <2>5. q * (e * y) <= q * (d * y2)
    <3>1. (e * y) * q <= (d * y2) * q
      <4>1. e * y \in Nat /\ d * y2 \in Nat
        OBVIOUS
      <4> QED
        BY <4>1, TimesMonotone
    <3> QED
      BY <3>1
  <2>6. /\ e * (y * q) \in Int /\ q * (d * y2) \in Int /\ p * (d * x2) \in Int
        /\ e * (x * p) \in Int /\ y * q \in Int /\ x * p \in Int
    OBVIOUS
  <2>7. e * (y * q) <= e * (x * p)
    BY <2>1, <2>2, <2>3, <2>4, <2>5, <2>6
  <2>8. y * q <= x * p
    BY <2>6, <2>7, TimesOrder
  <2> QED
    BY <2>6, <2>8
<1> QED
  BY <1>1, <1>2

(* A share that is too low stays too low.                                  *)
LEMMA ShareErodes ==
  ASSUME NEW d \in Nat \ {0}, NEW e \in Nat \ {0},
         NEW x \in Nat, NEW y \in Nat, NEW x2 \in Nat, NEW y2 \in Nat,
         d * x2 = e * x, e * y <= d * y2, y > 0,
         NEW f, f.num \in Nat, f.den \in Nat, Below(x, y, f)
  PROVE  Below(x2, y2, f)
<1>1. PICK q \in Nat : q = f.num
  OBVIOUS
<1>2. PICK p \in Nat : p = f.den
  OBVIOUS
<1>3. x * p < y * q
  BY <1>1, <1>2 DEF Below
<1>4. ~(x * p >= y * q)
  <2>1. x * p \in Int /\ y * q \in Int
    OBVIOUS
  <2> QED
    BY <1>3, <2>1
<1>5. ~(x2 * p >= y2 * q)
  BY <1>4, AtLeastErodes
<1>6. x2 * p < y2 * q
  <2>1. x2 * p \in Int /\ y2 * q \in Int
    OBVIOUS
  <2> QED
    BY <1>5, <2>1
<1>7. y2 > 0
  <2>1. y2 = 0 => y2 * q = 0 /\ x2 * p >= 0
    OBVIOUS
  <2> QED
    BY <1>5, <2>1
<1> QED
  BY <1>1, <1>2, <1>6, <1>7 DEF Below

(* The learned window is a time.                                           *)
LEMMA WindowType ==
  ASSUME NEW D, IsFiniteSet(D), D # {}, NEW f \in [D -> Nat]
  PROVE  LearnedWindow(Sorted(f)) \in Int
<1>1. PICK T : T = Sorted(f)
  OBVIOUS
<1>2. PICK last : last = T[Len(T)]
  OBVIOUS
<1>3. T \in Seq(Nat) /\ Len(T) \in Nat \ {0} /\ last \in Nat
  BY <1>1, <1>2, SortedFacts
<1>4. MedianInt(T) \in Int
  BY <1>3, MedianType
<1>5. 2 * last \in Int /\ MedianInt(T) * WindowFactor \in Int /\ MinWindow \in Int /\ MaxFollowup \in Int
  BY <1>3, <1>4, Constants
<1>6. PICK w : w = Max({2 * last, MedianInt(T) * WindowFactor, MinWindow})
  OBVIOUS
<1>7. w \in Int
  BY <1>5, <1>6, MaxOfThree, Zenon
<1>8. Min({MaxFollowup, w}) \in Int
  BY <1>5, <1>7, MinOfTwo
<1> QED
  BY <1>1, <1>2, <1>6, <1>8, Zenon DEF LearnedWindow

(* The thresholds are fractions.                                           *)
LEMMA FractionTypes ==
  /\ MinSuccess.num \in Nat /\ MinSuccess.den \in Nat
  /\ MinInlier.num \in Nat /\ MinInlier.den \in Nat
<1>1. MinSuccess \in Fractions /\ MinInlier \in Fractions
  BY PatternAssumption DEF PatternAssumption
<1> QED
  BY <1>1 DEF Fractions

(* A unit of time later the weights are in proportion and more misses count. *)
LEMMA UnitErodes ==
  ASSUME NEW h, NEW n, Older(h, n), NEW S, S = DetectSequences(h), S # {},
         NEW m, m = BuildModel(h, S, n), NEW p, p = BuildModel(h, S, n + 1)
  PROVE  /\ p.inliers = m.inliers /\ p.window = m.window /\ p.low = m.low /\ p.high = m.high
         /\ p.succ * m.judged <= m.succ * p.judged
         /\ m.reasons \subseteq p.reasons
         /\ p.candidate => m.candidate
<1>1. PICK k : k = n + 1
  OBVIOUS
<1>2. h \in Seq(Transfers) /\ n \in 0 .. MaxNow /\ k \in 0 .. MaxNow /\ n \in Nat /\ k = n + 1
  BY <1>1, Constants DEF Older
<1>3. /\ S \in SUBSET Pairs(h) /\ IsFiniteSet(S)
      /\ \A s \in S : MayFollow(h, s.test, s.large)
      /\ \A s, u \in S : s.test # u.large
  BY <1>2, DetectedFacts
<1>4. PICK I : I = SelectTestCluster(h, S, n)
  OBVIOUS
<1>5. I = SelectTestCluster(h, S, k)
  BY <1>1, <1>3, <1>4, SameInliers, Zenon
<1>6. I \in SUBSET S /\ I \in SUBSET Pairs(h) /\ IsFiniteSet(I)
  BY <1>2, <1>4, InliersFinite, Zenon
<1>7. I # {}
  BY <1>2, <1>3, <1>4, ClusterNotEmpty
<1>8. PICK low : low = MatchLow(h, I)
  OBVIOUS
<1>9. PICK high : high = MatchHigh(h, I)
  OBVIOUS
<1>10. PICK w : w = LearnedWindow(Sorted([s \in I |-> FollowupTime(h, s)]))
  OBVIOUS
<1>11. p = BuildModel(h, S, k)
  BY <1>1
<1>12. p.inliers = m.inliers /\ p.window = m.window /\ p.low = m.low /\ p.high = m.high
  <2>1. Verdict(h, S, n, m, I, low, high, w)
    BY <1>4, <1>8, <1>9, <1>10, VerdictFields, Zenon
  <2>2. Verdict(h, S, k, p, I, low, high, w)
    BY <1>5, <1>8, <1>9, <1>10, <1>11, VerdictFields, Zenon
  <2> QED
    BY <2>1, <2>2, Zenon DEF Verdict
<1>13. PICK hits : hits = Hits(h, S, low, high)
  OBVIOUS
<1>14. PICK missed : missed = Misses(h, S, low, high, w, n)
  OBVIOUS
<1>15. PICK later : later = Misses(h, S, low, high, w, k)
  OBVIOUS
<1>16. hits \in SUBSET (DOMAIN h) /\ missed \in SUBSET (DOMAIN h) /\ later \in SUBSET (DOMAIN h)
  BY <1>13, <1>14, <1>15 DEF Like, Hits, Misses
<1>17. w \in Int
  <2> DEFINE f == [s \in I |-> FollowupTime(h, s)]
  <2>1. f \in [I -> Nat]
    <3> SUFFICES ASSUME NEW s \in I PROVE FollowupTime(h, s) \in Nat
      OBVIOUS
    <3>1. MayFollow(h, s.test, s.large) /\ h[s.test].at \in Nat /\ h[s.large].at \in Nat
      BY <1>2, <1>3, <1>6, PairFields
    <3> QED
      BY <3>1 DEF MayFollow, Earlier, FollowupTime
  <2> HIDE DEF f
  <2>2. LearnedWindow(Sorted(f)) \in Int
    BY <1>6, <1>7, <2>1, WindowType
  <2> QED
    BY <1>10, <2>2 DEF f
<1>18. missed \subseteq later
  <2> SUFFICES ASSUME NEW i \in missed PROVE i \in later
    OBVIOUS
  <2>1. i \in Like(h, S, low, high) \ Hits(h, S, low, high) /\ n - h[i].at > w
    BY <1>14 DEF Misses, IsOver
  <2>2. h[i].at \in Nat
    BY <1>2, <1>16, TxFields
  <2>3. k - h[i].at > w
    BY <1>2, <1>17, <2>1, <2>2
  <2> QED
    BY <1>15, <2>1, <2>3 DEF Misses, IsOver
<1>19. hits # {}
  <2>1. PICK s \in I : TestAmount(h, s) \in low .. high
    BY <1>2, <1>3, <1>6, <1>7, <1>8, <1>9, BandHoldsTest
  <2>2. s \in S /\ s.test \in DOMAIN h /\ \A u \in S : s.test # u.large
    BY <1>2, <1>3, <1>6, PairFields
  <2>3. s.test \in Like(h, S, low, high)
    BY <2>1, <2>2 DEF Like, TestAmount
  <2>4. s.test \in Hits(h, S, low, high)
    BY <2>2, <2>3 DEF Hits
  <2> QED
    BY <1>13, <2>4
<1>20. PICK J : J = hits \union missed
  OBVIOUS
<1>21. PICK K : K = hits \union later
  OBVIOUS
<1>22. J \in SUBSET (DOMAIN h) /\ K \in SUBSET (DOMAIN h) /\ J \subseteq K /\ J # {}
  BY <1>16, <1>18, <1>19, <1>20, <1>21
<1>23. PICK d \in Nat \ {0} : d = Decay[0]
  BY <1>2, DecayType
<1>24. PICK e \in Nat \ {0} : e = Decay[1]
  BY <1>2, DecayType
<1>25. PICK x : x = TotalWeight(h, hits, n)
  OBVIOUS
<1>26. PICK x2 : x2 = TotalWeight(h, hits, k)
  OBVIOUS
<1>27. PICK y : y = TotalWeight(h, J, n)
  OBVIOUS
<1>28. PICK z2 : z2 = TotalWeight(h, J, k)
  OBVIOUS
<1>29. PICK y2 : y2 = TotalWeight(h, K, k)
  OBVIOUS
<1>30. x \in Nat /\ x2 \in Nat /\ y \in Nat /\ z2 \in Nat /\ y2 \in Nat
  BY <1>2, <1>16, <1>22, <1>25, <1>26, <1>27, <1>28, <1>29, TotalFacts, Zenon
<1>31. d * x2 = e * x
  BY <1>1, <1>16, <1>23, <1>24, <1>25, <1>26, TotalScaled, Zenon
<1>32. d * z2 = e * y
  BY <1>1, <1>22, <1>23, <1>24, <1>27, <1>28, TotalScaled, Zenon
<1>33. y > 0 /\ z2 <= y2
  BY <1>2, <1>22, <1>27, <1>28, <1>29, TotalFacts, Zenon
<1>34. e * y <= d * y2
  BY <1>30, <1>32, <1>33, TimesOrder
<1>35. PICK last : last = Max({h[s.large].at : s \in I})
  OBVIOUS
<1>36. last \in Int
  <2> DEFINE f == [s \in I |-> h[s.large].at]
             T == {h[s.large].at : s \in I}
  <2>1. f \in [I -> Int] /\ {f[s] : s \in I} = T
    BY <1>2, <1>6, PairFields
  <2>2. T # {}
    BY <1>7
  <2> HIDE DEF f
  <2>3. IsFiniteSet({f[s] : s \in I}) /\ {f[s] : s \in I} \in SUBSET Int
    BY <1>6, <2>1, ValuesFinite
  <2> HIDE DEF T
  <2>4. IsFiniteSet(T) /\ T \in SUBSET Int
    BY <2>1, <2>3, Zenon
  <2>5. Max(T) \in T
    BY <2>2, <2>4, MaxFinite
  <2>6. last = Max(T)
    BY <1>35 DEF T
  <2> QED
    BY <2>4, <2>5, <2>6
<1>37. /\ m.succ = x /\ m.judged = y
       /\ m.reasons = {r \in Reasons :
            \/ r = "few"          /\ Cardinality(I) < MinSequences
            \/ r = "failing"      /\ Below(x, y, MinSuccess)
            \/ r = "inconsistent" /\ Below(WeightOf(h, I, n), WeightOf(h, S, n), MinInlier)
            \/ r = "expired"      /\ n - last > Expiry
            \/ r = "overlap"      /\ high < low}
       /\ m.candidate <=> /\ Cardinality(I) >= CandidateSequences
                          /\ m.reasons \cap {"inconsistent", "expired", "overlap"} = {}
  <2>1. Verdict(h, S, n, m, I, low, high, w)
    BY <1>4, <1>8, <1>9, <1>10, VerdictFields, Zenon
  <2> QED
    BY <1>13, <1>14, <1>20, <1>25, <1>27, <1>35, <2>1, Zenon DEF Verdict
<1>38. /\ p.succ = x2 /\ p.judged = y2
       /\ p.reasons = {r \in Reasons :
            \/ r = "few"          /\ Cardinality(I) < MinSequences
            \/ r = "failing"      /\ Below(x2, y2, MinSuccess)
            \/ r = "inconsistent" /\ Below(WeightOf(h, I, k), WeightOf(h, S, k), MinInlier)
            \/ r = "expired"      /\ k - last > Expiry
            \/ r = "overlap"      /\ high < low}
       /\ p.candidate <=> /\ Cardinality(I) >= CandidateSequences
                          /\ p.reasons \cap {"inconsistent", "expired", "overlap"} = {}
  <2>1. Verdict(h, S, k, p, I, low, high, w)
    BY <1>5, <1>8, <1>9, <1>10, <1>11, VerdictFields, Zenon
  <2> QED
    BY <1>13, <1>15, <1>21, <1>26, <1>29, <1>35, <2>1, Zenon DEF Verdict
<1>39. Below(x, y, MinSuccess) => Below(x2, y2, MinSuccess)
  BY <1>30, <1>31, <1>33, <1>34, FractionTypes, ShareErodes
<1>40. Below(WeightOf(h, I, n), WeightOf(h, S, n), MinInlier)
         => Below(WeightOf(h, I, k), WeightOf(h, S, k), MinInlier)
  <2>1. PICK u : u = WeightOf(h, I, n)
    OBVIOUS
  <2>2. PICK v : v = WeightOf(h, S, n)
    OBVIOUS
  <2>3. PICK u2 : u2 = WeightOf(h, I, k)
    OBVIOUS
  <2>4. PICK v2 : v2 = WeightOf(h, S, k)
    OBVIOUS
  <2>5. u \in Nat /\ v \in Nat /\ u2 \in Nat /\ v2 \in Nat
    BY <1>2, <1>3, <1>6, <2>1, <2>2, <2>3, <2>4, WeightOfFacts, Zenon
  <2>6. d * u2 = e * u
    BY <1>1, <1>6, <1>23, <1>24, <2>1, <2>3, LargesOf, TotalScaled, Zenon DEF WeightOf
  <2>7. d * v2 = e * v
    BY <1>1, <1>3, <1>23, <1>24, <2>2, <2>4, LargesOf, TotalScaled, Zenon DEF WeightOf
  <2>8. e * v <= d * v2
    BY <2>5, <2>7
  <2>9. v > 0
    <3>1. PICK L : L = {s.large : s \in S}
      OBVIOUS
    <3>2. L \in SUBSET (DOMAIN h) /\ L # {} /\ v = TotalWeight(h, L, n)
      BY <1>3, <2>2, <3>1, LargesOf DEF WeightOf
    <3> QED
      BY <1>2, <3>2, TotalFacts
  <2>10. Below(u, v, MinInlier) => Below(u2, v2, MinInlier)
    BY <2>5, <2>6, <2>8, <2>9, FractionTypes, ShareErodes
  <2> QED
    BY <2>1, <2>2, <2>3, <2>4, <2>10, Zenon
<1>41. m.reasons \subseteq p.reasons
  <2>1. n - last > Expiry => k - last > Expiry
    BY <1>2, <1>36, Constants
  <2>2. ASSUME NEW r \in Reasons, r \in m.reasons PROVE r \in p.reasons
    BY <1>37, <1>38, <1>39, <1>40, <2>1, <2>2
  <2>3. m.reasons \subseteq Reasons
    BY <1>37
  <2> QED
    BY <2>2, <2>3
<1>42. ASSUME p.candidate PROVE m.candidate
  BY <1>37, <1>38, <1>41, <1>42
<1>43. p.succ * m.judged <= m.succ * p.judged
  <2>1. x2 * y <= x * y2
    <3>1. 0 \in Nat
      OBVIOUS
    <3> QED
      BY <1>30, <1>31, <1>34, <3>1, AtLeastErodes
  <2> QED
    BY <1>37, <1>38, <2>1, Zenon
<1> QED
  BY <1>12, <1>41, <1>42, <1>43

(* The weights of the model are naturals.                                   *)
LEMMA RateTypes ==
  ASSUME NEW h \in Seq(Transfers), NEW n \in 0 .. MaxNow, NEW S
  PROVE  BuildModel(h, S, n).succ \in Nat /\ BuildModel(h, S, n).judged \in Nat
<1>1. PICK m : m = BuildModel(h, S, n)
  OBVIOUS
<1>2. PICK I : I = SelectTestCluster(h, S, n)
  OBVIOUS
<1>3. PICK low : low = MatchLow(h, I)
  OBVIOUS
<1>4. PICK high : high = MatchHigh(h, I)
  OBVIOUS
<1>5. PICK w : w = LearnedWindow(Sorted([s \in I |-> FollowupTime(h, s)]))
  OBVIOUS
<1>6. /\ m.succ = TotalWeight(h, Hits(h, S, low, high), n)
      /\ m.judged = TotalWeight(h, Hits(h, S, low, high) \union Misses(h, S, low, high, w, n), n)
  <2>1. Verdict(h, S, n, m, I, low, high, w)
    BY <1>1, <1>2, <1>3, <1>4, <1>5, VerdictFields, Zenon
  <2> QED
    BY <2>1, Zenon DEF Verdict
<1>7. /\ Hits(h, S, low, high) \in SUBSET (DOMAIN h)
      /\ Hits(h, S, low, high) \union Misses(h, S, low, high, w, n) \in SUBSET (DOMAIN h)
  BY DEF Like, Hits, Misses
<1> QED
  BY <1>1, <1>6, <1>7, TotalFacts, Zenon

(* Time alone is no evidence: while the same transfers are read, no reason  *)
(* against the pair goes away, the success rate does not rise and the pair  *)
(* does not become a candidate (pattern_engine.py:203-207, 288-348), for    *)
(* any history, any half-life and any thresholds.                           *)
THEOREM TimeIsNoEvidence == Spec => TimeOnlyErodes
<1> DEFINE Erodes == history' = history /\ Sequences # {} =>
                       LET m == Model
                           p == BuildModel(history, Sequences, now')
                       IN  /\ <<p.inliers, p.window, p.low, p.high>> = <<m.inliers, m.window, m.low, m.high>>
                           /\ p.succ * m.judged <= m.succ * p.judged
                           /\ m.reasons \subseteq p.reasons
                           /\ p.candidate => m.candidate
<1>1. ASSUME Typed, [Next]_vars PROVE Erodes
  <2> SUFFICES ASSUME history' = history, Sequences # {}
               PROVE  LET m == Model
                          p == BuildModel(history, Sequences, now')
                      IN  /\ <<p.inliers, p.window, p.low, p.high>> = <<m.inliers, m.window, m.low, m.high>>
                          /\ p.succ * m.judged <= m.succ * p.judged
                          /\ m.reasons \subseteq p.reasons
                          /\ p.candidate => m.candidate
    BY Zenon
  <2>1. PICK m : m = Model
    OBVIOUS
  <2>2. PICK p : p = BuildModel(history, Sequences, now')
    OBVIOUS
  <2>3. CASE now' = now
    <3>1. p = m
      BY <2>1, <2>2, <2>3, Zenon DEF Model
    <3>2. m.succ \in Nat /\ m.judged \in Nat
      BY <1>1, <2>1, RateTypes, Zenon DEF Typed, Model
    <3>3. m.succ * m.judged <= m.succ * m.judged
      BY <3>2
    <3> QED
      BY <2>1, <2>2, <3>1, <3>3, Zenon
  <2>4. CASE Tick
    <3>1. now' = now + 1
      BY <2>4 DEF Tick
    <3>2. Older(history, now)
      <4>1. now < MaxNow /\ now \in 0 .. MaxNow /\ MaxNow \in Nat
        BY <1>1, <2>4, Constants DEF Tick, Typed
      <4>2. now + 1 \in 0 .. MaxNow
        BY <4>1
      <4> QED
        BY <1>1, <4>2 DEF Typed, Older
    <3>3. /\ p.inliers = m.inliers /\ p.window = m.window /\ p.low = m.low /\ p.high = m.high
          /\ p.succ * m.judged <= m.succ * p.judged
          /\ m.reasons \subseteq p.reasons
          /\ p.candidate => m.candidate
      <4>1. m = BuildModel(history, Sequences, now) /\ p = BuildModel(history, Sequences, now + 1)
        BY <2>1, <2>2, <3>1, Zenon DEF Model
      <4>2. PICK S : S = Sequences
        OBVIOUS
      <4>3. S = DetectSequences(history) /\ S # {}
        BY <4>2 DEF Sequences
      <4> QED
        BY <3>2, <4>1, <4>2, <4>3, UnitErodes
    <3>4. <<p.inliers, p.window, p.low, p.high>> = <<m.inliers, m.window, m.low, m.high>>
      BY <3>3, Zenon
    <3> QED
      BY <2>1, <2>2, <3>3, <3>4, Zenon
  <2> QED
    BY <1>1, <2>3, <2>4 DEF Next, vars, Store
<1>2. Typed /\ [Next]_vars => [Erodes]_vars
  BY <1>1, Zenon
<1>3. Spec => [][Erodes]_vars
  BY <1>2, AlwaysTyped, PTL DEF Spec
<1> QED
  BY <1>3 DEF TimeOnlyErodes

=============================================================================
