--------------------------- MODULE CollectorProofs ---------------------------
(* Theorems about Collector, for every value of its constants.              *)
EXTENDS Collector, DataLemmas, SequenceTheorems

(* The start of the window after the one at t.                              *)
LEMMA NextStartType ==
  ASSUME NEW t \in Nat, NEW end \in Nat
  PROVE  /\ NextStart(t, end) \in Nat
         /\ NextStart(t, end) = IF t + Window <= end THEN t + Window ELSE end
<1>1. Window \in Nat
  BY CollectorAssumption DEF CollectorAssumption
<1> QED
  BY <1>1, MinOfTwo DEF NextStart

-----------------------------------------------------------------------------
(* Pages                                                                    *)

LEMMA ItemFacts ==
  /\ IsFiniteSet(Items)
  /\ At \in [Items -> Nat \ {0}]
  /\ Transfers \subseteq Items
BY CollectorAssumption DEF CollectorAssumption, Transfers, ParseEvents

(* A page of items after p is an initial piece of them: it ends with the    *)
(* item at LastOf, and all others after p are younger.                      *)
LEMMA PageFacts ==
  ASSUME listed \subseteq Items, NEW p \in Int, After(p) # {}
  PROVE  LET page == NextPage(p)
         IN  /\ page # {} /\ page \subseteq After(p)
             /\ LastOf(page) \in Int
             /\ \A e \in page : At[e] <= LastOf(page)
             /\ \A e \in After(p) \ page : LastOf(page) < At[e]
<1> DEFINE page == NextPage(p)
           UpTo(e) == {f \in After(p) : At[f] <= At[e]}
<1>1. After(p) \subseteq Items /\ IsFiniteSet(After(p))
  BY ItemFacts, FS_Subset DEF After
<1>2. page \subseteq After(p) /\ IsFiniteSet(page)
  BY <1>1, FS_Subset DEF NextPage
<1>3. page # {}
  <2> DEFINE f == [e \in After(p) |-> -At[e]]
  <2>1. f \in [After(p) -> Int]
    BY <1>1, ItemFacts
  <2>2. PICK e \in After(p) : \A g \in After(p) : f[g] <= f[e]
    <3> HIDE DEF f
    <3> QED
      BY <1>1, <2>1, Attained
  <2>3. \A g \in After(p) : At[e] <= At[g]
    BY <2>2, <1>1, ItemFacts
  <2>4. UpTo(e) = {e}
    <3>1. \A g \in UpTo(e) : At[g] = At[e]
      BY <2>3, <1>1, ItemFacts
    <3>2. \A g \in UpTo(e) : g = e
      BY <3>1, <1>1, CollectorAssumption DEF CollectorAssumption
    <3>3. e \in UpTo(e)
      BY <2>3, <1>1, ItemFacts
    <3> QED
      BY <3>2, <3>3
  <2>5. Cardinality(UpTo(e)) = 1
    BY <2>4, FS_Singleton
  <2>6. PageLimit \in Nat \ {0}
    BY CollectorAssumption DEF CollectorAssumption
  <2>7. e \in page
    BY <2>5, <2>6 DEF NextPage
  <2> QED
    BY <2>7
<1>4. PICK last \in page : \A e \in page : At[e] <= At[last]
  <2> DEFINE f == [e \in page |-> At[e]]
  <2>1. f \in [page -> Int]
    BY <1>1, <1>2, ItemFacts
  <2>2. PICK e \in page : \A g \in page : f[g] <= f[e]
    <3> HIDE DEF f, page
    <3> QED
      BY <1>2, <1>3, <2>1, Attained
  <2> QED
    BY <2>2
<1>5. LastOf(page) = At[last]
  <2>1. {At[e] : e \in page} \in SUBSET Int
    BY <1>1, <1>2, ItemFacts
  <2> HIDE DEF page
  <2> QED
    BY <1>4, <2>1, MaxIs DEF LastOf
<1>6. ASSUME NEW e \in After(p) \ page
      PROVE  At[last] < At[e]
  <2> SUFFICES ASSUME At[e] <= At[last] PROVE FALSE
    BY <1>1, <1>2, ItemFacts
  <2>1. UpTo(e) \subseteq UpTo(last)
    BY <1>1, <1>2, ItemFacts
  <2>2. IsFiniteSet(UpTo(last))
    BY <1>1, FS_Subset
  <2>3. Cardinality(UpTo(e)) <= Cardinality(UpTo(last))
    BY <2>1, <2>2, FS_Subset
  <2>4. Cardinality(UpTo(last)) <= PageLimit
    BY <1>4 DEF NextPage
  <2>5. Cardinality(UpTo(e)) \in Nat /\ Cardinality(UpTo(last)) \in Nat
    BY <2>1, <2>2, FS_Subset, FS_CardinalityType
  <2>6. PageLimit \in Nat
    BY CollectorAssumption DEF CollectorAssumption
  <2>7. Cardinality(UpTo(e)) <= PageLimit
    <3> HIDE DEF UpTo
    <3> QED
      BY <2>3, <2>4, <2>5, <2>6
  <2> QED
    BY <2>7 DEF NextPage
<1>7. At[last] \in Int
  BY <1>1, <1>2, ItemFacts
<1> HIDE DEF page
<1>8. \A e \in After(p) \ page : LastOf(page) < At[e]
  BY <1>5, <1>6
<1>9. \A e \in page : At[e] <= LastOf(page)
  BY <1>4, <1>5
<1>10. LastOf(page) \in Int
  BY <1>5, <1>7
<1> QED
  BY <1>2, <1>3, <1>8, <1>9, <1>10, Zenon DEF page

(* The cursor that a page yields lies within its times.                     *)
LEMMA PageMaxBound ==
  ASSUME NEW page \in SUBSET Items, Readable(page),
         NEW b \in Int, \A e \in page : At[e] <= b
  PROVE  PageMax(page) \in Int /\ PageMax(page) <= b
<1> DEFINE O == Objects(page)
           f == [e \in O |-> TimeRead(Raw[e])]
<1>1. O \subseteq page /\ O # {} /\ IsFiniteSet(O)
  BY ItemFacts, FS_Subset DEF Objects, Readable
<1>2. ASSUME NEW e \in O
      PROVE  TimeRead(Raw[e]) \in Int /\ TimeRead(Raw[e]) <= b
  <2>1. e \in Items /\ At[e] <= b /\ At[e] \in Nat \ {0}
    BY <1>1, ItemFacts
  <2>2. TimeRead(Raw[e]) \in {At[e], 1, 0}
    BY <2>1, CollectorAssumption DEF CollectorAssumption, TimeRead
  <2> QED
    BY <2>1, <2>2
<1>3. f \in [O -> Int]
  BY <1>2
<1>4. PICK top \in O : \A g \in O : f[g] <= f[top]
  <2> HIDE DEF f, O
  <2> QED
    BY <1>1, <1>3, Attained
<1>5. PageMax(page) = TimeRead(Raw[top])
  <2>1. {TimeRead(Raw[e]) : e \in Objects(page)} \in SUBSET Int
    BY <1>2
  <2>2. \A g \in Objects(page) : TimeRead(Raw[g]) <= TimeRead(Raw[top])
    BY <1>4
  <2>3. top \in Objects(page)
    BY <1>4
  <2> QED
    BY <2>1, <2>2, <2>3, MaxIs DEF PageMax
<1> QED
  BY <1>2, <1>5


-----------------------------------------------------------------------------
(* Windows                                                                  *)

Windows == [ready : BOOLEAN, items : SUBSET Items]

LEMMA UnfetchedType == Unfetched \in Windows
BY DEF Unfetched, Windows

LEMMA Concurrent == Concurrency \in Nat \ {0} /\ Window \in Nat \ {0}
BY CollectorAssumption DEF CollectorAssumption

(* Refilling keeps the windows that are there and adds unfetched ones, up   *)
(* to the end of the backfill or the limit of the prefetch.                 *)
LEMMA RefilledFacts ==
  ASSUME NEW pos \in Nat, NEW end \in Nat, NEW pending \in Seq(Windows),
         Len(pending) <= 2 * Concurrency
  PROVE  LET r == Refilled(pos, end, pending)
         IN  /\ r \in Seq(Windows)
             /\ Len(pending) <= Len(r) /\ Len(r) <= 2 * Concurrency
             /\ r = <<>> => end <= pos
             /\ \A i \in 1 .. Len(r) :
                  r[i] = IF i <= Len(pending) THEN pending[i] ELSE Unfetched
<1> DEFINE D == {j \in 1 .. 2 * Concurrency :
                   j <= Len(pending) \/ pos + (j - 1) * Window < end}
           r == Refilled(pos, end, pending)
<1>1. Len(pending) \in Nat /\ DOMAIN pending = 1 .. Len(pending)
  BY LenProperties
<1>2. \A j \in D : \A i \in 1 .. j : i \in D
  <2> SUFFICES ASSUME NEW j \in D, NEW i \in 1 .. j PROVE i \in D
    OBVIOUS
  <2>1. i \in 1 .. 2 * Concurrency /\ j \in 1 .. 2 * Concurrency
    BY Concurrent
  <2>2. CASE j <= Len(pending)
    BY <1>1, <2>1, <2>2
  <2>3. CASE pos + (j - 1) * Window < end
    <3>1. (i - 1) * Window <= (j - 1) * Window
      BY <2>1, Concurrent, TimesMonotone
    <3>2. (i - 1) * Window \in Int /\ (j - 1) * Window \in Int
      BY <2>1, Concurrent, SMT
    <3>3. pos + (i - 1) * Window < end
      BY <2>3, <3>1, <3>2
    <3> QED
      BY <2>1, <3>3
  <2> QED
    BY <2>2, <2>3
<1>3. PICK n \in Nat : D = 1 .. n
  <2>1. CASE D = {}
    <3>1. D = 1 .. 0
      BY <2>1
    <3> QED
      BY <3>1
  <2>2. CASE D # {}
    <3> DEFINE f == [j \in D |-> j]
    <3>1. f \in [D -> Int]
      BY Concurrent
    <3>2. IsFiniteSet(D)
      <4>1. IsFiniteSet(1 .. 2 * Concurrency)
        BY Concurrent, FS_Interval
      <4> QED
        BY <4>1, FS_Subset
    <3>3. PICK n \in D : \A g \in D : f[g] <= f[n]
      <4> HIDE DEF f, D
      <4> QED
        BY <2>2, <3>1, <3>2, Attained
    <3>4. \A g \in D : g <= n
      BY <3>3
    <3>5. n \in Nat
      BY Concurrent
    <3>6. D \subseteq 1 .. n
      BY <3>4, <3>5, Concurrent
    <3>7. 1 .. n \subseteq D
      BY <1>2, <3>3
    <3> HIDE DEF D
    <3> QED
      BY <3>5, <3>6, <3>7
  <2> QED
    BY <2>1, <2>2
<1>4. r = [i \in 1 .. n |-> IF i <= Len(pending) THEN pending[i] ELSE Unfetched]
  BY <1>3, Zenon DEF Refilled
<1>5. \A i \in 1 .. n : (IF i <= Len(pending) THEN pending[i] ELSE Unfetched) \in Windows
  <2> SUFFICES ASSUME NEW i \in 1 .. n
               PROVE  (IF i <= Len(pending) THEN pending[i] ELSE Unfetched) \in Windows
    OBVIOUS
  <2>1. i <= Len(pending) => pending[i] \in Windows
    BY <1>1, ElementOfSeq
  <2> QED
    BY <2>1, UnfetchedType
<1>6. r \in [1 .. n -> Windows]
  BY <1>4, <1>5
<1>7. r \in Seq(Windows)
  BY <1>6, SeqDef
<1>8. Len(r) = n
  <2>1. DOMAIN r = 1 .. n /\ DOMAIN r = 1 .. Len(r) /\ Len(r) \in Nat
    BY <1>6, <1>7, LenProperties
  <2> HIDE DEF r
  <2> QED
    BY <2>1
<1>9. Len(pending) <= n
  <2> SUFFICES ASSUME Len(pending) > 0 PROVE Len(pending) <= n
    BY <1>1
  <2>1. Len(pending) \in D
    BY <1>1, Concurrent
  <2>2. Len(pending) \in 1 .. n
    BY <1>3, <2>1
  <2> QED
    BY <2>2
<1>10. n <= 2 * Concurrency
  <2> SUFFICES ASSUME n > 0 PROVE n <= 2 * Concurrency
    BY Concurrent
  <2>1. n \in D
    BY <1>3
  <2>2. n \in 1 .. 2 * Concurrency
    BY <2>1
  <2> QED
    BY <2>2
<1>11. ASSUME r = <<>> PROVE end <= pos
  <2>1. n = 0
    BY <1>8, <1>11, EmptySeq
  <2>2. 1 \notin D
    BY <1>3, <2>1
  <2>3. ~(pos + (1 - 1) * Window < end)
    BY <2>2, Concurrent
  <2> QED
    BY <2>3, Concurrent
<1>12. \A i \in 1 .. Len(r) : r[i] = IF i <= Len(pending) THEN pending[i] ELSE Unfetched
  BY <1>4, <1>8
<1> HIDE DEF r, D
<1>13. Len(pending) <= Len(r) /\ Len(r) <= 2 * Concurrency
  BY <1>8, <1>9, <1>10
<1> QED
  BY <1>7, <1>11, <1>12, <1>13, Zenon DEF r

-----------------------------------------------------------------------------
(* Where the tasks can be                                                   *)

(* The keys of system_state and the stage of start().                       *)
BootStage ==
  /\ Start <= now
  /\ started = 0 \/ Start <= started
  /\ cursor = None => boot = "down" /\ ~bfDone /\ started = 0 /\ bfEnd = None
  /\ boot \in {"start", "end", "next"} => Start <= started /\ ~bfDone
  /\ boot = "next" => bfEnd = started
  /\ boot \in {"done", "analysed"} => bfEnd = None

(* The live stream's cursor, and the page it is at.                         *)
PollStage ==
  /\ boot # "up" => poll = NoPoll
  /\ boot = "up" => readTo <= cursor
  /\ poll.at = "fetch" => poll.pages < MaxPages
  /\ poll.at \in {"process", "advance"} =>
       poll.page # {} /\ \A e \in poll.page : At[e] <= poll.after

(* The backfill's positions, and the windows it holds.                      *)
BackfillStage ==
  /\ boot # "up" => bf = NoBackfill
  /\ bf.at \in {"run", "stored"} => bf.end = bfEnd
  /\ bf.at = "run" /\ bf.pending = <<>> => bf.end <= bf.pos
  /\ bf.at = "stored" => bf.pending # <<>>

Stages == BootStage /\ PollStage /\ BackfillStage


LEMMA ConstantTypes ==
  /\ History \in Nat /\ Overlap \in Nat /\ MaxCatchup \in Nat /\ Retention \in Nat
  /\ MaxFaults \in Nat
  /\ PageLimit \in Nat \ {0} /\ MaxPages \in Nat \ {0} /\ Window \in Nat \ {0}
  /\ Concurrency \in Nat \ {0} /\ Start \in Nat \ {0}
  /\ Overlap < Start /\ History < Start
BY CollectorAssumption DEF CollectorAssumption

(* The type invariant in parts.                                             *)
SetsTyped ==
  /\ stored \subseteq Items /\ listed \subseteq Items
  /\ late \subseteq Items /\ skipped \subseteq Items
NumbersTyped ==
  /\ cursor \in Nat /\ bfStart \in Nat /\ bfEnd \in Nat /\ bfNext \in Nat
  /\ started \in Nat /\ readTo \in Nat /\ now \in Nat /\ faults \in Nat
FlagsTyped ==
  /\ bfDone \in BOOLEAN /\ bfAnalysed \in BOOLEAN /\ interrupted \in BOOLEAN
  /\ boot \in {"down", "start", "end", "next", "done", "analysed", "load", "up"}
PollStates ==
  [at : {"idle", "fetch", "process", "advance"}, after : Int,
   pages : 0 .. MaxPages, page : SUBSET Items, more : BOOLEAN]
BackfillStates ==
  [at : {"off", "plan", "run", "stored", "complete"}, pos : Nat, end : Nat,
   pending : Seq(Windows)]
PollTyped     == poll \in PollStates
BackfillTyped == bf \in BackfillStates /\ Len(bf.pending) <= 2 * Concurrency

LEMMA TypeParts ==
  TypeOK <=> SetsTyped /\ NumbersTyped /\ FlagsTyped /\ PollTyped /\ BackfillTyped
BY Zenon DEF TypeOK, SetsTyped, NumbersTyped, FlagsTyped, PollTyped, BackfillTyped,
            PollStates, BackfillStates, Windows

LEMMA TypePartsNext ==
  TypeOK' <=> SetsTyped' /\ NumbersTyped' /\ FlagsTyped' /\ PollTyped' /\ BackfillTyped'
BY Zenon DEF TypeOK, SetsTyped, NumbersTyped, FlagsTyped, PollTyped, BackfillTyped,
            PollStates, BackfillStates, Windows

(* The states of the tasks between two rounds of work.                      *)
Off(at) == [NoBackfill EXCEPT !.at = at]

LEMMA NoPollTyped ==
  /\ NoPoll \in PollStates
  /\ NoPoll.at = "idle" /\ NoPoll.after = 0
BY ConstantTypes DEF NoPoll, PollStates

Fetching(after) == [NoPoll EXCEPT !.at = "fetch", !.after = after]

LEMMA FetchingTyped ==
  ASSUME NEW after \in Int
  PROVE  /\ Fetching(after) \in PollStates
         /\ Fetching(after).at = "fetch" /\ Fetching(after).after = after
         /\ Fetching(after).pages = 0
<1>1. Fetching(after) \in PollStates
  BY NoPollTyped DEF Fetching, PollStates
<1>2. /\ Fetching(after).at = "fetch" /\ Fetching(after).after = after
      /\ Fetching(after).pages = NoPoll.pages
  BY NoPollTyped DEF Fetching, PollStates
<1>3. NoPoll.pages = 0
  BY DEF NoPoll
<1> QED
  BY <1>1, <1>2, <1>3

LEMMA OffTyped ==
  ASSUME NEW at \in {"off", "plan", "run", "stored", "complete"}
  PROVE  /\ Off(at) \in BackfillStates /\ Len(Off(at).pending) <= 2 * Concurrency
         /\ Off(at).at = at
<1>1. <<>> \in Seq(Windows) /\ Len(<<>>) = 0
  BY EmptySeq
<1>2. Off(at) = [at |-> at, pos |-> 0, end |-> 0, pending |-> <<>>]
  BY DEF Off, NoBackfill
<1>3. Off(at) \in BackfillStates
  BY <1>1, <1>2 DEF BackfillStates
<1>4. Off(at).at = at /\ Off(at).pending = <<>>
  BY <1>2
<1> HIDE DEF Off
<1>5. Len(Off(at).pending) <= 2 * Concurrency
  BY <1>1, <1>4, ConstantTypes
<1> QED
  BY <1>3, <1>4, <1>5

LEMMA NoBackfillTyped ==
  /\ NoBackfill \in BackfillStates /\ Len(NoBackfill.pending) <= 2 * Concurrency
  /\ NoBackfill.at = "off"
<1>1. NoBackfill = Off("off")
  BY DEF Off, NoBackfill
<1> QED
  BY <1>1, OffTyped

LEMMA InitTyped == Init => TypeOK /\ Stages
<1> SUFFICES ASSUME Init PROVE TypeOK /\ Stages
  OBVIOUS
<1>1. SetsTyped /\ NumbersTyped /\ FlagsTyped
  BY ConstantTypes DEF Init, None, SetsTyped, NumbersTyped, FlagsTyped
<1>2. PollTyped /\ BackfillTyped
  BY ConstantTypes, NoPollTyped, NoBackfillTyped DEF Init, PollTyped, BackfillTyped
<1>3. Stages
  BY ConstantTypes, NoPollTyped, NoBackfillTyped
  DEF Init, None, Stages, BootStage, PollStage, BackfillStage
<1> QED
  BY <1>1, <1>2, <1>3, TypeParts

LEMMA FirstStartKeeps == TypeOK /\ Stages /\ FirstStart => TypeOK' /\ Stages'
<1> SUFFICES ASSUME TypeOK, Stages, FirstStart PROVE TypeOK' /\ Stages'
  OBVIOUS
<1> USE DEF FirstStart, positions, process, world
<1>1. SetsTyped /\ NumbersTyped /\ FlagsTyped /\ PollTyped /\ BackfillTyped
  BY TypeParts
<1>2. SetsTyped' /\ NumbersTyped'
  BY <1>1, ConstantTypes DEF SetsTyped, NumbersTyped, Stages, BootStage
<1>3. FlagsTyped'
  BY <1>1 DEF FlagsTyped
<1>4. PollTyped' /\ BackfillTyped'
  BY <1>1, NoPollTyped, NoBackfillTyped, ConstantTypes DEF PollTyped, BackfillTyped
<1>5. BootStage'
  BY <1>1, ConstantTypes DEF NumbersTyped, Stages, BootStage, None
<1>6. PollStage' /\ BackfillStage'
  BY <1>1, NoPollTyped, NoBackfillTyped, ConstantTypes DEF NumbersTyped, Stages, BootStage, PollStage, BackfillStage
<1> QED
  BY <1>2, <1>3, <1>4, <1>5, <1>6, TypePartsNext DEF Stages

(* The two kinds of key.                                                    *)
WriteHistory   == WriteKey /\ boot \in {"start", "end", "next"}
WriteNoHistory == WriteKey /\ boot \in {"done", "analysed"}

LEMMA WriteKeyKinds == WriteKey => WriteHistory \/ WriteNoHistory
BY DEF WriteKey, NextKey, WriteHistory, WriteNoHistory

LEMMA WriteHistoryKeeps == TypeOK /\ Stages /\ WriteHistory => TypeOK' /\ Stages'
<1> SUFFICES ASSUME TypeOK, Stages, WriteHistory PROVE TypeOK' /\ Stages'
  OBVIOUS
<1> USE DEF WriteHistory, WriteKey, NextKey, positions, process, world
<1>1. SetsTyped /\ NumbersTyped /\ FlagsTyped /\ PollTyped /\ BackfillTyped
  BY TypeParts
<1>2. SetsTyped' /\ NumbersTyped'
  BY <1>1, ConstantTypes DEF SetsTyped, NumbersTyped, Stages, BootStage
<1>3. FlagsTyped'
  <2>1. bfDone' \in BOOLEAN /\ bfAnalysed' \in BOOLEAN /\ interrupted' \in BOOLEAN
    BY <1>1, Zenon DEF FlagsTyped
  <2>2. boot' \in {"end", "next", "load", "analysed"}
    OBVIOUS
  <2> QED
    BY <2>1, <2>2 DEF FlagsTyped
<1>4. PollTyped' /\ BackfillTyped'
  BY <1>1, NoPollTyped, NoBackfillTyped, ConstantTypes DEF PollTyped, BackfillTyped
<1>5. BootStage'
  BY <1>1, ConstantTypes DEF NumbersTyped, Stages, BootStage, None
<1>6. PollStage' /\ BackfillStage'
  BY <1>1, NoPollTyped, NoBackfillTyped, ConstantTypes DEF NumbersTyped, Stages, BootStage, PollStage, BackfillStage
<1> QED
  BY <1>2, <1>3, <1>4, <1>5, <1>6, TypePartsNext DEF Stages

LEMMA WriteNoHistoryKeeps == TypeOK /\ Stages /\ WriteNoHistory => TypeOK' /\ Stages'
<1> SUFFICES ASSUME TypeOK, Stages, WriteNoHistory PROVE TypeOK' /\ Stages'
  OBVIOUS
<1> USE DEF WriteNoHistory, WriteKey, NextKey, positions, process, world
<1>1. SetsTyped /\ NumbersTyped /\ FlagsTyped /\ PollTyped /\ BackfillTyped
  BY TypeParts
<1>2. SetsTyped' /\ NumbersTyped'
  BY <1>1, ConstantTypes DEF SetsTyped, NumbersTyped, Stages, BootStage
<1>3. FlagsTyped'
  <2>1. bfDone' \in BOOLEAN /\ bfAnalysed' \in BOOLEAN /\ interrupted' \in BOOLEAN
    BY <1>1, Zenon DEF FlagsTyped
  <2>2. boot' \in {"end", "next", "load", "analysed"}
    OBVIOUS
  <2> QED
    BY <2>1, <2>2 DEF FlagsTyped
<1>4. PollTyped' /\ BackfillTyped'
  BY <1>1, NoPollTyped, NoBackfillTyped, ConstantTypes DEF PollTyped, BackfillTyped
<1>5. BootStage'
  BY <1>1, ConstantTypes DEF NumbersTyped, Stages, BootStage, None
<1>6. PollStage' /\ BackfillStage'
  BY <1>1, NoPollTyped, NoBackfillTyped, ConstantTypes DEF NumbersTyped, Stages, BootStage, PollStage, BackfillStage
<1> QED
  BY <1>2, <1>3, <1>4, <1>5, <1>6, TypePartsNext DEF Stages

LEMMA LoadKeeps == TypeOK /\ Stages /\ Load => TypeOK' /\ Stages'
<1> SUFFICES ASSUME TypeOK, Stages, Load PROVE TypeOK' /\ Stages'
  OBVIOUS
<1> USE DEF Load, positions, process, world
<1>1. SetsTyped /\ NumbersTyped /\ FlagsTyped /\ PollTyped /\ BackfillTyped
  BY TypeParts
<1>7. bf' = Off("plan")
  BY DEF Off
<1>2. SetsTyped' /\ NumbersTyped'
  BY <1>1, ConstantTypes DEF SetsTyped, NumbersTyped, Stages, BootStage
<1>3. FlagsTyped'
  BY <1>1 DEF FlagsTyped
<1>4. PollTyped' /\ BackfillTyped'
  BY <1>1, <1>7, OffTyped DEF PollTyped, BackfillTyped
<1>5. BootStage'
  BY <1>1, ConstantTypes DEF NumbersTyped, Stages, BootStage, None
<1>6. PollStage' /\ BackfillStage'
  BY <1>1, <1>7, NoPollTyped, OffTyped DEF NumbersTyped, Stages, PollStage, BackfillStage
<1> QED
  BY <1>2, <1>3, <1>4, <1>5, <1>6, TypePartsNext DEF Stages

-----------------------------------------------------------------------------
(* The live stream keeps the types and the stages.                          *)

LEMMA BeginPollKeeps == TypeOK /\ Stages /\ BeginPoll => TypeOK' /\ Stages'
<1> SUFFICES ASSUME TypeOK, Stages, BeginPoll PROVE TypeOK' /\ Stages'
  OBVIOUS
<1> USE DEF BeginPoll, MinTs, world
<1>1. SetsTyped /\ NumbersTyped /\ FlagsTyped /\ PollTyped /\ BackfillTyped
  BY TypeParts
<1>7. ASSUME NEW c \in Nat
      PROVE  /\ Fetching(MinTs(c) - 1) \in PollStates
             /\ Fetching(MinTs(c) - 1).at = "fetch" /\ Fetching(MinTs(c) - 1).pages = 0
  <2>1. MinTs(c) - 1 \in Int
    BY ConstantTypes
  <2> QED
    BY <2>1, FetchingTyped
<1>8. poll' \in PollStates /\ poll'.at = "fetch" /\ poll'.pages = 0
  <2>1. readTo \in Nat /\ now - Overlap \in Nat
    BY <1>1, ConstantTypes DEF NumbersTyped, Stages, BootStage
  <2>2. \E c \in {readTo, now - Overlap} :
          poll' = Fetching(MinTs(c) - 1)
    BY Zenon DEF Fetching
  <2> QED
    BY <1>7, <2>1, <2>2, Zenon
<1>9. readTo' = cursor' \/ UNCHANGED <<cursor, readTo>>
  OBVIOUS
<1>2. SetsTyped' /\ NumbersTyped'
  BY <1>1, ConstantTypes DEF SetsTyped, NumbersTyped, Stages, BootStage
<1>3. FlagsTyped'
  BY <1>1 DEF FlagsTyped
<1>4. PollTyped' /\ BackfillTyped'
  BY <1>1, <1>8 DEF PollTyped, BackfillTyped
<1>5. BootStage'
  BY <1>1, ConstantTypes DEF NumbersTyped, Stages, BootStage, None
<1>6. PollStage' /\ BackfillStage'
  <2>2. readTo' <= cursor'
    <3>1. readTo <= cursor /\ cursor' \in Nat
      BY <1>1, <1>2 DEF NumbersTyped, Stages, PollStage
    <3> QED
      BY <1>9, <3>1
  <2>3. PollStage'
    BY <1>8, <2>2, ConstantTypes DEF PollStage
  <2> QED
    BY <2>3 DEF Stages, BackfillStage
<1> QED
  BY <1>2, <1>3, <1>4, <1>5, <1>6, TypePartsNext DEF Stages

LEMMA FetchPageKeeps == TypeOK /\ Stages /\ FetchPage => TypeOK' /\ Stages'
<1> SUFFICES ASSUME TypeOK, Stages, FetchPage PROVE TypeOK' /\ Stages'
  OBVIOUS
<1> USE DEF FetchPage, positions, world
<1>1. SetsTyped /\ NumbersTyped /\ FlagsTyped /\ PollTyped /\ BackfillTyped
  BY TypeParts
<1>7. /\ poll' \in PollStates
      /\ poll'.at # "fetch"
      /\ poll'.at \in {"process", "advance"} =>
           poll'.page # {} /\ \A e \in poll'.page : At[e] <= poll'.after
  <2>1. CASE After(poll.after) = {}
    BY <2>1, NoPollTyped
  <2>2. CASE After(poll.after) # {}
    <3> DEFINE page == NextPage(poll.after)
    <3>1. poll.after \in Int /\ poll.pages \in 0 .. MaxPages /\ poll.pages < MaxPages
      BY <1>1 DEF PollTyped, PollStates, Stages, PollStage
    <3>2. /\ page # {} /\ page \subseteq After(poll.after)
          /\ LastOf(page) \in Int
          /\ \A e \in page : At[e] <= LastOf(page)
      BY <1>1, <2>2, <3>1, PageFacts DEF SetsTyped
    <3>3. page \subseteq Items
      BY <1>1, <3>2 DEF After, SetsTyped
    <3> HIDE DEF page
    <3>4. poll' = [at |-> "process", after |-> LastOf(page), pages |-> poll.pages + 1,
                   page |-> page, more |-> After(poll.after) # page]
      BY <2>2, Zenon DEF page
    <3>5. (After(poll.after) # page) \in BOOLEAN
      BY Zenon
    <3>6. poll.pages + 1 \in 0 .. MaxPages
      BY <3>1, ConstantTypes
    <3> QED
      BY <3>2, <3>3, <3>4, <3>5, <3>6 DEF PollStates
  <2> QED
    BY <2>1, <2>2
<1>2. SetsTyped' /\ NumbersTyped'
  BY <1>1, ConstantTypes DEF SetsTyped, NumbersTyped, Stages, BootStage
<1>3. FlagsTyped'
  BY <1>1 DEF FlagsTyped
<1>4. PollTyped' /\ BackfillTyped'
  BY <1>1, <1>7 DEF PollTyped, BackfillTyped
<1>5. BootStage'
  BY <1>1, ConstantTypes DEF NumbersTyped, Stages, BootStage, None
<1>6. PollStage' /\ BackfillStage'
  <2>1. boot' = "up"
    BY NoPollTyped DEF Stages, PollStage
  <2>2. PollStage'
    BY <1>7, <2>1 DEF Stages, PollStage
  <2> QED
    BY <2>2 DEF Stages, BackfillStage
<1> QED
  BY <1>2, <1>3, <1>4, <1>5, <1>6, TypePartsNext DEF Stages

LEMMA StorePageKeeps == TypeOK /\ Stages /\ StorePage => TypeOK' /\ Stages'
<1> SUFFICES ASSUME TypeOK, Stages, StorePage PROVE TypeOK' /\ Stages'
  OBVIOUS
<1> USE DEF StorePage, Fault, positions, world
<1>1. SetsTyped /\ NumbersTyped /\ FlagsTyped /\ PollTyped /\ BackfillTyped
  BY TypeParts
<1>2. SetsTyped' /\ NumbersTyped'
  BY <1>1, ItemFacts DEF SetsTyped, NumbersTyped
<1>3. FlagsTyped'
  BY <1>1 DEF FlagsTyped
<1>4. PollTyped' /\ BackfillTyped'
  <2>1. poll' \in PollStates
    BY <1>1, NoPollTyped DEF PollTyped, PollStates
  <2> QED
    BY <1>1, <2>1 DEF PollTyped, BackfillTyped
<1>5. BootStage'
  BY <1>1, ConstantTypes DEF NumbersTyped, Stages, BootStage, None
<1>6. PollStage' /\ BackfillStage'
  <2>1. poll' = NoPoll \/ poll' = [poll EXCEPT !.at = "advance"]
    BY Zenon
  <2>2. boot = "up" /\ UNCHANGED <<boot, readTo, cursor>>
    BY NoPollTyped DEF Stages, PollStage
  <2>3. PollStage'
    BY <1>1, <2>1, <2>2, NoPollTyped DEF PollTyped, PollStates, Stages, PollStage
  <2> QED
    BY <2>3 DEF Stages, BackfillStage
<1> QED
  BY <1>2, <1>3, <1>4, <1>5, <1>6, TypePartsNext DEF Stages

LEMMA PollFailsKeeps == TypeOK /\ Stages /\ PollFails => TypeOK' /\ Stages'
<1> SUFFICES ASSUME TypeOK, Stages, PollFails PROVE TypeOK' /\ Stages'
  OBVIOUS
<1> USE DEF PollFails, Fault, positions, world
<1>1. SetsTyped /\ NumbersTyped /\ FlagsTyped /\ PollTyped /\ BackfillTyped
  BY TypeParts
<1>2. SetsTyped' /\ NumbersTyped'
  BY <1>1, ConstantTypes DEF SetsTyped, NumbersTyped, Stages, BootStage
<1>3. FlagsTyped'
  BY <1>1 DEF FlagsTyped
<1>4. PollTyped' /\ BackfillTyped'
  BY <1>1, NoPollTyped, NoBackfillTyped, ConstantTypes DEF PollTyped, BackfillTyped
<1>5. BootStage'
  BY <1>1, ConstantTypes DEF NumbersTyped, Stages, BootStage, None
<1>6. PollStage' /\ BackfillStage'
  BY NoPollTyped DEF Stages, PollStage, BackfillStage
<1> QED
  BY <1>2, <1>3, <1>4, <1>5, <1>6, TypePartsNext DEF Stages

(* On to the next page, or the end of the poll.                             *)
LEMMA ContinueFacts ==
  ASSUME poll \in PollStates, Continue
  PROVE  /\ poll' \in PollStates /\ poll'.at \in {"idle", "fetch"}
         /\ poll'.at = "fetch" => poll'.pages < MaxPages /\ poll'.after = poll.after
<1>1. CASE poll.more /\ poll.pages < MaxPages
  <2>1. poll' = [poll EXCEPT !.at = "fetch", !.page = {}]
    BY <1>1, Zenon DEF Continue
  <2>2. poll' \in PollStates
    BY <2>1 DEF PollStates
  <2>3. poll'.at = "fetch" /\ poll'.pages = poll.pages /\ poll'.after = poll.after
    BY <2>1 DEF PollStates
  <2> QED
    BY <1>1, <2>2, <2>3
<1>2. CASE ~(poll.more /\ poll.pages < MaxPages)
  <2>1. poll' = NoPoll
    BY <1>2, Zenon DEF Continue
  <2> QED
    BY <2>1, NoPollTyped
<1> QED
  BY <1>1, <1>2

(* The three outcomes of Advance.                                           *)
LEMMA AdvanceFacts ==
  ASSUME TypeOK, Stages, Advance
  PROVE  /\ poll.at = "advance" /\ boot = "up"
         /\ poll' \in PollStates /\ poll'.at \in {"idle", "fetch"}
         /\ poll'.at = "fetch" => poll'.pages < MaxPages /\ poll'.after = poll.after
         /\ \/ UNCHANGED <<cursor, readTo, faults>>
            \/ /\ cursor' \in Nat \ {0} /\ cursor' <= poll.after
               /\ readTo' \in Nat /\ readTo' <= cursor' /\ faults' \in Nat
<1>1. poll.at = "advance" /\ boot = "up"
  BY NoPollTyped DEF Advance, Stages, PollStage
<1>2. NumbersTyped /\ poll \in PollStates
  BY TypeParts DEF PollTyped
<1>3. poll.page \subseteq Items /\ poll.after \in Int /\ \A e \in poll.page : At[e] <= poll.after
  BY <1>1, <1>2 DEF PollStates, Stages, PollStage
<1>4. CASE ~Readable(poll.page)
  <2>1. poll' = NoPoll /\ UNCHANGED <<cursor, readTo, faults>>
    BY <1>4, Zenon DEF Advance
  <2> QED
    BY <1>1, <2>1, NoPollTyped
<1>5. CASE Readable(poll.page)
  <2>1. PageMax(poll.page) \in Int /\ PageMax(poll.page) <= poll.after
    BY <1>3, <1>5, PageMaxBound
  <2>2. CASE PageMax(poll.page) <= readTo
    <3>1. Continue /\ UNCHANGED <<cursor, readTo, faults>>
      BY <1>5, <2>2, Zenon DEF Advance
    <3> QED
      BY <1>1, <1>2, <3>1, ContinueFacts
  <2>3. CASE ~(PageMax(poll.page) <= readTo)
    <3>1. /\ cursor' = PageMax(poll.page)
          /\ \/ readTo' = cursor' /\ Continue /\ UNCHANGED faults
             \/ Fault /\ poll' = NoPoll /\ UNCHANGED readTo
      BY <1>5, <2>3, Zenon DEF Advance
    <3>2. readTo \in Nat /\ faults \in Nat
      BY <1>2 DEF NumbersTyped
    <3>3. cursor' \in Nat \ {0} /\ cursor' <= poll.after /\ readTo <= cursor'
      BY <2>1, <2>3, <3>1, <3>2
    <3>4. readTo' \in Nat /\ readTo' <= cursor' /\ faults' \in Nat
      BY <3>1, <3>2, <3>3 DEF Fault
    <3>5. Continue \/ poll' = NoPoll
      BY <3>1
    <3>6. /\ poll' \in PollStates /\ poll'.at \in {"idle", "fetch"}
          /\ poll'.at = "fetch" => poll'.pages < MaxPages /\ poll'.after = poll.after
      BY <1>2, <3>5, ContinueFacts, NoPollTyped
    <3> QED
      BY <1>1, <3>3, <3>4, <3>6
  <2> QED
    BY <2>2, <2>3
<1> QED
  BY <1>4, <1>5

LEMMA AdvanceKeeps == TypeOK /\ Stages /\ Advance => TypeOK' /\ Stages'
<1> SUFFICES ASSUME TypeOK, Stages, Advance PROVE TypeOK' /\ Stages'
  OBVIOUS
<1> USE DEF world
<1>1. SetsTyped /\ NumbersTyped /\ FlagsTyped /\ PollTyped /\ BackfillTyped
  BY TypeParts
<1>7. UNCHANGED <<stored, bfStart, bfEnd, bfNext, bfDone, bfAnalysed, boot, started, bf,
                  now, listed, late, skipped, interrupted>>
  BY DEF Advance
<1>2. SetsTyped' /\ NumbersTyped'
  BY <1>1, <1>7, AdvanceFacts DEF SetsTyped, NumbersTyped
<1>3. FlagsTyped'
  BY <1>1, <1>7 DEF FlagsTyped
<1>4. PollTyped' /\ BackfillTyped'
  BY <1>1, <1>7, AdvanceFacts DEF PollTyped, BackfillTyped
<1>5. BootStage'
  BY <1>1, <1>7, AdvanceFacts DEF NumbersTyped, Stages, BootStage, None
<1>6. PollStage' /\ BackfillStage'
  <2>1. boot' = "up" /\ readTo' <= cursor'
    BY <1>1, <1>7, AdvanceFacts DEF Stages, PollStage
  <2>2. PollStage'
    BY <2>1, AdvanceFacts DEF PollStage
  <2> QED
    BY <1>7, <2>1, <2>2 DEF Stages, BackfillStage
<1> QED
  BY <1>2, <1>3, <1>4, <1>5, <1>6, TypePartsNext DEF Stages

-----------------------------------------------------------------------------
(* The backfill keeps the types and the stages.                             *)

LEMMA RunningFacts ==
  ASSUME NEW pos \in Nat, NEW end \in Nat, NEW pending \in Seq(Windows),
         Len(pending) <= 2 * Concurrency, NEW b, b = Running(pos, end, pending)
  PROVE  /\ b \in BackfillStates /\ Len(b.pending) <= 2 * Concurrency
         /\ b.at = "run" /\ b.pos = pos /\ b.end = end
         /\ b.pending = <<>> => end <= pos
         /\ \A i \in DOMAIN b.pending :
              b.pending[i] = IF i <= Len(pending) THEN pending[i] ELSE Unfetched
<1> DEFINE r == Refilled(pos, end, pending)
<1>1. r \in Seq(Windows) /\ Len(r) <= 2 * Concurrency /\ (r = <<>> => end <= pos)
  BY RefilledFacts
<1>5. \A i \in DOMAIN r : r[i] = IF i <= Len(pending) THEN pending[i] ELSE Unfetched
  BY <1>1, RefilledFacts, LenProperties
<1> HIDE DEF r
<1>2. b = [at |-> "run", pos |-> pos, end |-> end, pending |-> r]
  BY DEF Running, r
<1>3. b \in BackfillStates
  BY <1>1, <1>2 DEF BackfillStates
<1>4. b.at = "run" /\ b.pos = pos /\ b.end = end /\ b.pending = r
  BY <1>2
<1> QED
  BY <1>1, <1>3, <1>4, <1>5, Zenon

(* The three outcomes of Plan.                                              *)
PlanStart == IF Retention > 0 THEN Max({bfNext, KeepFrom}) ELSE bfNext

LEMMA PlanStartType ==
  ASSUME NumbersTyped
  PROVE  /\ PlanStart \in Nat /\ bfNext <= PlanStart
         /\ PlanStart = bfNext \/ (Retention > 0 /\ PlanStart = KeepFrom)
<1>1. bfNext \in Nat /\ KeepFrom \in Int
  BY ConstantTypes DEF NumbersTyped, KeepFrom
<1>2. Max({bfNext, KeepFrom}) = IF bfNext >= KeepFrom THEN bfNext ELSE KeepFrom
  BY <1>1, MaxOfTwo
<1> QED
  BY <1>1, <1>2 DEF PlanStart

LEMMA PlanKeeps == TypeOK /\ Stages /\ Plan => TypeOK' /\ Stages'
<1> SUFFICES ASSUME TypeOK, Stages, Plan PROVE TypeOK' /\ Stages'
  OBVIOUS
<1> USE DEF world
<1>1. SetsTyped /\ NumbersTyped /\ FlagsTyped /\ PollTyped /\ BackfillTyped
  BY TypeParts
<1>7. /\ bf.at = "plan"
      /\ UNCHANGED <<stored, cursor, bfStart, bfEnd, bfNext, bfAnalysed, boot, started, readTo,
                     poll, now, listed, late, faults, skipped, interrupted>>
  BY DEF Plan
<1>8. boot = "up" /\ bfDone' \in {bfDone, TRUE}
  <2>1. boot = "up"
    BY <1>7, NoBackfillTyped DEF Stages, BackfillStage
  <2> QED
    BY <2>1, Zenon DEF Plan
<1>9. /\ bf' \in BackfillStates /\ Len(bf'.pending) <= 2 * Concurrency
      /\ bf'.at = "run" => bf'.end = bfEnd /\ (bf'.pending = <<>> => bf'.end <= bf'.pos)
      /\ bf'.at # "stored"
  <2>1. <<>> \in Seq(Windows) /\ Len(<<>>) <= 2 * Concurrency
    BY EmptySeq, ConstantTypes
  <2>2. bfEnd \in Nat /\ PlanStart \in Nat
    BY <1>1, PlanStartType DEF NumbersTyped
  <2>3. \/ bf' = Off("off") \/ bf' = Off("complete")
        \/ bf' = Running(PlanStart, bfEnd, <<>>)
    BY Zenon DEF Plan, Off, PlanStart
  <2>4. CASE bf' = Running(PlanStart, bfEnd, <<>>)
    <3>1. PICK none \in Seq(Windows) : none = <<>> /\ Len(none) <= 2 * Concurrency
      BY <2>1
    <3>2. bf' = Running(PlanStart, bfEnd, none)
      BY <2>4, <3>1
    <3>3. Len(none) <= 2 * Concurrency
      BY <3>1
    <3> QED
      BY <2>2, <3>2, <3>3, RunningFacts
  <2>5. CASE bf' = Off("off") \/ bf' = Off("complete")
    BY <2>5, OffTyped
  <2> QED
    BY <2>3, <2>4, <2>5
<1>2. SetsTyped' /\ NumbersTyped'
  BY <1>1, <1>7 DEF SetsTyped, NumbersTyped
<1>3. FlagsTyped'
  BY <1>1, <1>7, <1>8, Zenon DEF FlagsTyped
<1>4. PollTyped' /\ BackfillTyped'
  BY <1>1, <1>7, <1>9 DEF PollTyped, BackfillTyped
<1>5. BootStage'
  BY <1>7, <1>8, NoBackfillTyped DEF Stages, BootStage, BackfillStage
<1>6. PollStage' /\ BackfillStage'
  <2>1. boot = "up"
    BY <1>7, NoBackfillTyped DEF Stages, BackfillStage
  <2> QED
    BY <1>7, <1>9, <2>1 DEF Stages, PollStage, BackfillStage
<1> QED
  BY <1>2, <1>3, <1>4, <1>5, <1>6, TypePartsNext DEF Stages

(* The window that FetchWindow fills.                                       *)
LEMMA FetchWindowFacts ==
  ASSUME TypeOK, NEW i \in 1 .. 2 * Concurrency, FetchWindow(i)
  PROVE  /\ i \in 1 .. Len(bf.pending) /\ bf.pending \in Seq(Windows)
         /\ bf' \in BackfillStates
         /\ bf'.at = "run" /\ bf'.pos = bf.pos /\ bf'.end = bf.end
         /\ Len(bf'.pending) = Len(bf.pending)
         /\ \A j \in 1 .. Len(bf.pending) :
              bf'.pending[j] =
                IF j = i
                THEN [ready |-> TRUE, items |-> InWindow(bf.pos + (i - 1) * Window, bf.end)]
                ELSE bf.pending[j]
<1> DEFINE w == [ready |-> TRUE, items |-> InWindow(bf.pos + (i - 1) * Window, bf.end)]
           seq == [bf.pending EXCEPT ![i] = w]
<1>1. bf \in BackfillStates /\ listed \subseteq Items
  BY TypeParts DEF BackfillTyped, SetsTyped
<1>2. bf.pending \in Seq(Windows)
  BY <1>1 DEF BackfillStates
<1>3. i \in 1 .. Len(bf.pending)
  BY <1>2, LenProperties DEF FetchWindow
<1>4. w \in Windows
  BY <1>1 DEF Windows, InWindow
<1> HIDE DEF w
<1>5. /\ seq \in Seq(Windows) /\ Len(seq) = Len(bf.pending)
      /\ \A j \in 1 .. Len(bf.pending) : seq[j] = IF j = i THEN w ELSE bf.pending[j]
  BY <1>2, <1>3, <1>4, ExceptSeq
<1>6. bf' = [bf EXCEPT !.pending = seq] /\ bf.at = "run"
  BY Zenon DEF FetchWindow, w
<1> HIDE DEF seq
<1>7. bf' \in BackfillStates
  BY <1>1, <1>5, <1>6 DEF BackfillStates
<1>8. bf'.at = "run" /\ bf'.pos = bf.pos /\ bf'.end = bf.end /\ bf'.pending = seq
  BY <1>1, <1>6 DEF BackfillStates
<1> QED
  BY <1>2, <1>3, <1>5, <1>7, <1>8, Zenon DEF w

LEMMA FetchWindowKeeps ==
  ASSUME TypeOK, Stages, NEW i \in 1 .. 2 * Concurrency, FetchWindow(i)
  PROVE  TypeOK' /\ Stages'
<1>1. SetsTyped /\ NumbersTyped /\ FlagsTyped /\ PollTyped /\ BackfillTyped
  BY TypeParts
<1>2. /\ bf.at = "run"
      /\ UNCHANGED <<stored, cursor, bfStart, bfEnd, bfNext, bfDone, bfAnalysed, boot, started,
                     readTo, poll, now, listed, late, faults, skipped, interrupted>>
  BY DEF FetchWindow, positions, world
<1>3. SetsTyped' /\ NumbersTyped' /\ FlagsTyped' /\ PollTyped'
  BY <1>1, <1>2 DEF SetsTyped, NumbersTyped, FlagsTyped, PollTyped
<1>4. BackfillTyped'
  BY <1>1, FetchWindowFacts DEF BackfillTyped
<1>5. BootStage' /\ PollStage'
  BY <1>2 DEF Stages, BootStage, PollStage
<1>6. BackfillStage'
  <2>1. boot = "up"
    BY <1>2, NoBackfillTyped DEF Stages, BackfillStage
  <2>2. bf'.pending # <<>>
    <3>1. i \in 1 .. Len(bf.pending) /\ Len(bf'.pending) = Len(bf.pending)
      BY FetchWindowFacts
    <3>2. Len(<<>>) = 0 /\ Len(bf.pending) # 0
      BY <3>1, EmptySeq
    <3> QED
      BY <3>1, <3>2
  <2>3. bf'.at = "run" /\ bf'.end = bf.end
    BY FetchWindowFacts
  <2> QED
    BY <1>2, <2>1, <2>2, <2>3 DEF Stages, BackfillStage
<1> QED
  BY <1>3, <1>4, <1>5, <1>6, TypePartsNext DEF Stages

LEMMA StoreWindowKeeps == TypeOK /\ Stages /\ StoreWindow => TypeOK' /\ Stages'
<1> SUFFICES ASSUME TypeOK, Stages, StoreWindow PROVE TypeOK' /\ Stages'
  OBVIOUS
<1> USE DEF StoreWindow, Fault, positions, world
<1>1. SetsTyped /\ NumbersTyped /\ FlagsTyped /\ PollTyped /\ BackfillTyped
  BY TypeParts
<1>8. boot = "up"
  BY NoBackfillTyped DEF Stages, BackfillStage
<1>7. bf' = bf \/ bf' = [bf EXCEPT !.at = "stored"]
  BY Zenon
<1>2. SetsTyped' /\ NumbersTyped'
  BY <1>1, ItemFacts DEF SetsTyped, NumbersTyped
<1>3. FlagsTyped'
  BY <1>1 DEF FlagsTyped
<1>4. PollTyped' /\ BackfillTyped'
  BY <1>1, <1>7 DEF PollTyped, BackfillTyped, BackfillStates
<1>5. BootStage'
  BY DEF Stages, BootStage
<1>6. PollStage' /\ BackfillStage'
  <2>1. PollStage'
    BY DEF Stages, PollStage
  <2>2. bf'.pending # <<>> /\ bf'.end = bf.end /\ bf'.at \in {"run", "stored"}
    BY <1>1, <1>7 DEF BackfillTyped, BackfillStates
  <2> QED
    BY <1>8, <2>1, <2>2 DEF Stages, BackfillStage
<1> QED
  BY <1>2, <1>3, <1>4, <1>5, <1>6, TypePartsNext DEF Stages

LEMMA AdvanceWindowKeeps == TypeOK /\ Stages /\ AdvanceWindow => TypeOK' /\ Stages'
<1> SUFFICES ASSUME TypeOK, Stages, AdvanceWindow PROVE TypeOK' /\ Stages'
  OBVIOUS
<1> USE DEF world
<1>1. SetsTyped /\ NumbersTyped /\ FlagsTyped /\ PollTyped /\ BackfillTyped
  BY TypeParts
<1>7. /\ bf.at = "stored"
      /\ UNCHANGED <<stored, cursor, bfStart, bfEnd, bfDone, bfAnalysed, boot, started,
                     readTo, poll, now, listed, late, faults, skipped, interrupted>>
  BY DEF AdvanceWindow
<1>8. boot = "up"
  BY <1>7, NoBackfillTyped DEF Stages, BackfillStage
<1>9. bfNext' \in Nat
  BY <1>1, NextStartType DEF AdvanceWindow, BackfillTyped, BackfillStates
<1>10. /\ bf' \in BackfillStates /\ Len(bf'.pending) <= 2 * Concurrency
       /\ bf'.at = "run" /\ bf'.end = bf.end
       /\ bf'.pending = <<>> => bf'.end <= bf'.pos
  <2>1. bf.pending \in Seq(Windows) /\ bf.end \in Nat /\ Len(bf.pending) <= 2 * Concurrency
    BY <1>1 DEF BackfillTyped, BackfillStates
  <2>2. bf.pending # <<>>
    BY <1>7 DEF Stages, BackfillStage
  <2>3. /\ Tail(bf.pending) \in Seq(Windows)
        /\ Len(Tail(bf.pending)) = Len(bf.pending) - 1 /\ Len(bf.pending) \in Nat
    BY <2>1, <2>2, HeadTailProperties, LenProperties
  <2>4. Len(Tail(bf.pending)) <= 2 * Concurrency
    BY <2>1, <2>3, Concurrent
  <2>5. bf' = Running(bfNext', bf.end, Tail(bf.pending))
    BY DEF AdvanceWindow
  <2>6. PICK rest \in Seq(Windows) :
          rest = Tail(bf.pending) /\ Len(rest) <= 2 * Concurrency
    BY <2>3, <2>4
  <2>7. bf' = Running(bfNext', bf.end, rest) /\ Len(rest) <= 2 * Concurrency
    BY <2>5, <2>6
  <2>8. /\ bf' \in BackfillStates /\ Len(bf'.pending) <= 2 * Concurrency
        /\ bf'.at = "run" /\ bf'.end = bf.end /\ bf'.pos = bfNext'
        /\ bf'.pending = <<>> => bf.end <= bfNext'
    <3>1. PICK p \in Nat : p = bfNext'
      BY <1>9
    <3>2. PICK e \in Nat : e = bf.end
      BY <2>1
    <3>3. PICK b : b = bf'
      OBVIOUS
    <3>4. b = Running(p, e, rest)
      BY <2>7, <3>1, <3>2, <3>3, Zenon
    <3>5. /\ b \in BackfillStates /\ Len(b.pending) <= 2 * Concurrency
          /\ b.at = "run" /\ b.pos = p /\ b.end = e
          /\ b.pending = <<>> => e <= p
      BY <2>7, <3>4, RunningFacts
    <3> QED
      BY <3>1, <3>2, <3>3, <3>5, Zenon
  <2> QED
    BY <2>8, Zenon
<1>2. SetsTyped' /\ NumbersTyped'
  BY <1>1, <1>7, <1>9 DEF SetsTyped, NumbersTyped
<1>3. FlagsTyped'
  BY <1>1, <1>7 DEF FlagsTyped
<1>4. PollTyped' /\ BackfillTyped'
  BY <1>1, <1>7, <1>10 DEF PollTyped, BackfillTyped
<1>5. BootStage'
  BY <1>7, <1>8 DEF Stages, BootStage
<1>6. PollStage' /\ BackfillStage'
  <2>1. PollStage'
    BY <1>7 DEF Stages, PollStage
  <2>2. bf.end = bfEnd
    BY <1>7 DEF Stages, BackfillStage
  <2> QED
    BY <1>7, <1>8, <1>10, <2>1, <2>2 DEF Stages, BackfillStage
<1> QED
  BY <1>2, <1>3, <1>4, <1>5, <1>6, TypePartsNext DEF Stages

LEMMA FinishKeeps == TypeOK /\ Stages /\ Finish => TypeOK' /\ Stages'
<1> SUFFICES ASSUME TypeOK, Stages, Finish PROVE TypeOK' /\ Stages'
  OBVIOUS
<1> USE DEF Finish, world
<1>1. SetsTyped /\ NumbersTyped /\ FlagsTyped /\ PollTyped /\ BackfillTyped
  BY TypeParts
<1>8. boot = "up"
  BY NoBackfillTyped DEF Stages, BackfillStage
<1>2. SetsTyped' /\ NumbersTyped'
  BY <1>1, ConstantTypes DEF SetsTyped, NumbersTyped, Stages, BootStage
<1>3. FlagsTyped'
  BY <1>1 DEF FlagsTyped
<1>4. PollTyped' /\ BackfillTyped'
  BY <1>1 DEF PollTyped, BackfillTyped, BackfillStates
<1>5. BootStage'
  BY <1>8 DEF Stages, BootStage
<1>6. PollStage' /\ BackfillStage'
  <2>1. PollStage'
    BY DEF Stages, PollStage
  <2>2. bf'.at = "complete"
    BY <1>1 DEF BackfillTyped, BackfillStates
  <2> QED
    BY <1>8, <2>1, <2>2 DEF Stages, BackfillStage
<1> QED
  BY <1>2, <1>3, <1>4, <1>5, <1>6, TypePartsNext DEF Stages

LEMMA CompleteKeeps == TypeOK /\ Stages /\ Complete => TypeOK' /\ Stages'
<1> SUFFICES ASSUME TypeOK, Stages, Complete PROVE TypeOK' /\ Stages'
  OBVIOUS
<1> USE DEF Complete, world
<1>1. SetsTyped /\ NumbersTyped /\ FlagsTyped /\ PollTyped /\ BackfillTyped
  BY TypeParts
<1>8. boot = "up"
  BY NoBackfillTyped DEF Stages, BackfillStage
<1>2. SetsTyped' /\ NumbersTyped'
  BY <1>1, ConstantTypes DEF SetsTyped, NumbersTyped, Stages, BootStage
<1>3. FlagsTyped'
  BY <1>1 DEF FlagsTyped
<1>4. PollTyped' /\ BackfillTyped'
  BY <1>1, NoBackfillTyped DEF PollTyped, BackfillTyped
<1>5. BootStage'
  BY <1>8 DEF Stages, BootStage
<1>6. PollStage' /\ BackfillStage'
  BY <1>8, NoBackfillTyped DEF Stages, PollStage, BackfillStage
<1> QED
  BY <1>2, <1>3, <1>4, <1>5, <1>6, TypePartsNext DEF Stages

LEMMA BackfillFailsKeeps == TypeOK /\ Stages /\ BackfillFails => TypeOK' /\ Stages'
<1> SUFFICES ASSUME TypeOK, Stages, BackfillFails PROVE TypeOK' /\ Stages'
  OBVIOUS
<1> USE DEF BackfillFails, Fault, positions, world
<1>1. SetsTyped /\ NumbersTyped /\ FlagsTyped /\ PollTyped /\ BackfillTyped
  BY TypeParts
<1>8. boot = "up"
  BY NoBackfillTyped DEF Stages, BackfillStage
<1>7. bf' = Off("plan")
  BY DEF Off
<1>2. SetsTyped' /\ NumbersTyped'
  BY <1>1, ConstantTypes DEF SetsTyped, NumbersTyped, Stages, BootStage
<1>3. FlagsTyped'
  BY <1>1 DEF FlagsTyped
<1>4. PollTyped' /\ BackfillTyped'
  BY <1>1, <1>7, OffTyped DEF PollTyped, BackfillTyped
<1>5. BootStage'
  BY <1>8 DEF Stages, BootStage
<1>6. PollStage' /\ BackfillStage'
  BY <1>7, <1>8, OffTyped DEF Stages, PollStage, BackfillStage
<1> QED
  BY <1>2, <1>3, <1>4, <1>5, <1>6, TypePartsNext DEF Stages

-----------------------------------------------------------------------------
(* The world keeps the types and the stages.                                *)

LEMMA ListKeeps ==
  ASSUME TypeOK, Stages, NEW e \in Items, List(e)
  PROVE  TypeOK' /\ Stages'
<1>1. SetsTyped /\ NumbersTyped /\ FlagsTyped /\ PollTyped /\ BackfillTyped
  BY TypeParts
<1>2. UNCHANGED <<stored, cursor, bfStart, bfEnd, bfNext, bfDone, bfAnalysed, boot, started,
                  readTo, poll, bf, now, faults, skipped, interrupted>>
  BY DEF List, positions, process
<1>3. listed' \subseteq Items /\ late' \subseteq Items
  BY <1>1 DEF List, SetsTyped
<1>4. SetsTyped' /\ NumbersTyped' /\ FlagsTyped' /\ PollTyped' /\ BackfillTyped'
  BY <1>1, <1>2, <1>3 DEF SetsTyped, NumbersTyped, FlagsTyped, PollTyped, BackfillTyped
<1>5. Stages'
  BY <1>2 DEF Stages, BootStage, PollStage, BackfillStage
<1> QED
  BY <1>4, <1>5, TypePartsNext

LEMMA TickKeeps == TypeOK /\ Stages /\ Tick => TypeOK' /\ Stages'
<1> SUFFICES ASSUME TypeOK, Stages, Tick PROVE TypeOK' /\ Stages'
  OBVIOUS
<1>1. SetsTyped /\ NumbersTyped /\ FlagsTyped /\ PollTyped /\ BackfillTyped
  BY TypeParts
<1>2. UNCHANGED <<stored, cursor, bfStart, bfEnd, bfNext, bfDone, bfAnalysed, boot, started,
                  readTo, poll, bf, listed, late, faults, skipped, interrupted>>
  BY DEF Tick, positions, process
<1>3. now' = now + 1
  BY DEF Tick
<1>4. SetsTyped' /\ NumbersTyped' /\ FlagsTyped' /\ PollTyped' /\ BackfillTyped'
  BY <1>1, <1>2, <1>3 DEF SetsTyped, NumbersTyped, FlagsTyped, PollTyped, BackfillTyped
<1>5. Stages'
  BY <1>1, <1>2, <1>3, ConstantTypes
  DEF NumbersTyped, Stages, BootStage, PollStage, BackfillStage
<1> QED
  BY <1>4, <1>5, TypePartsNext

LEMMA CrashKeeps == TypeOK /\ Stages /\ Crash => TypeOK' /\ Stages'
<1> SUFFICES ASSUME TypeOK, Stages, Crash PROVE TypeOK' /\ Stages'
  OBVIOUS
<1> USE DEF Crash, Fault, positions, world
<1>1. SetsTyped /\ NumbersTyped /\ FlagsTyped /\ PollTyped /\ BackfillTyped
  BY TypeParts
<1>2. SetsTyped' /\ NumbersTyped'
  BY <1>1, ConstantTypes DEF SetsTyped, NumbersTyped, Stages, BootStage
<1>3. FlagsTyped'
  BY <1>1 DEF FlagsTyped
<1>4. PollTyped' /\ BackfillTyped'
  BY <1>1, NoPollTyped, NoBackfillTyped, ConstantTypes DEF PollTyped, BackfillTyped
<1>5. BootStage'
  BY <1>1, ConstantTypes DEF NumbersTyped, Stages, BootStage, None
<1>6. PollStage' /\ BackfillStage'
  BY NoPollTyped, NoBackfillTyped DEF Stages, PollStage, BackfillStage
<1> QED
  BY <1>2, <1>3, <1>4, <1>5, <1>6, TypePartsNext DEF Stages

LEMMA Keeps == TypeOK /\ Stages /\ [Next]_vars => TypeOK' /\ Stages'
<1> SUFFICES ASSUME TypeOK, Stages, [Next]_vars PROVE TypeOK' /\ Stages'
  OBVIOUS
<1>1. CASE UNCHANGED vars
  <2>1. TypeOK'
    BY <1>1 DEF vars, positions, process, world, TypeOK
  <2>2. Stages'
    BY <1>1 DEF vars, positions, process, world, Stages, BootStage, PollStage, BackfillStage
  <2> QED
    BY <2>1, <2>2
<1>2. CASE StartUp
  BY <1>2, FirstStartKeeps, WriteHistoryKeeps, WriteNoHistoryKeeps, WriteKeyKinds, LoadKeeps DEF StartUp
<1>3. CASE LiveStep \/ PollFails
  BY <1>3, BeginPollKeeps, FetchPageKeeps, StorePageKeeps, AdvanceKeeps, PollFailsKeeps
  DEF LiveStep
<1>4. CASE BackfillStep \/ BackfillFails
  BY <1>4, PlanKeeps, FetchWindowKeeps, StoreWindowKeeps, AdvanceWindowKeeps, FinishKeeps,
     CompleteKeeps, BackfillFailsKeeps
  DEF BackfillStep
<1>5. CASE (\E e \in Items : List(e)) \/ Tick \/ Crash
  BY <1>5, ListKeeps, TickKeeps, CrashKeeps
<1> QED
  BY <1>1, <1>2, <1>3, <1>4, <1>5 DEF Next

LEMMA InStages == Spec => [](TypeOK /\ Stages)
BY InitTyped, Keeps, PTL DEF Spec

(* The type invariant of the positions, the page and the windows            *)
(* (tron_listener.py:209-241).                                              *)
THEOREM CollectorTypes == Spec => []TypeOK
BY InStages, PTL

-----------------------------------------------------------------------------
(* Which transfers are still ahead of which stream                          *)

(* The live stream will read e, the page it is at included.                 *)
LiveReaches(e) ==
  \/ cursor = None
  \/ /\ cursor - Overlap <= At[e]
     /\ poll.at \in {"fetch", "advance"} => poll.after < At[e]
     /\ poll.at = "process" => poll.after < At[e] \/ e \in poll.page

(* The fetched ones among the windows from pos to end hold e if it is theirs. *)
Hold(pending, pos, end, e) ==
  \A i \in DOMAIN pending :
    LET t == pos + (i - 1) * Window
    IN  pending[i].ready /\ t <= At[e] /\ At[e] < NextStart(t, end) => e \in pending[i].items

(* The backfill will read e, or will plan to.                               *)
BackfillReaches(e) ==
  /\ ~bfDone
  /\ boot \in {"start", "end", "next"} => started - History <= At[e] /\ At[e] < started
  /\ boot \notin {"start", "end", "next"} => bfNext <= At[e] /\ At[e] < bfEnd
  /\ bf.at \in {"run", "stored"} => bf.pos <= At[e] /\ Hold(bf.pending, bf.pos, bf.end, e)
  /\ bf.at = "stored" => NextStart(bf.pos, bf.end) <= At[e]

Reaches(e) == Forgone(e) \/ interrupted \/ LiveReaches(e) \/ BackfillReaches(e)

Reached == \A e \in (listed \cap Transfers) \ stored : Reaches(e)

(* What is forgone stays so: initialise reads the clock once.               *)
LEMMA ForgoneLasts ==
  ASSUME TypeOK, Stages, [Next]_vars, NEW e \in Items, Forgone(e) \/ interrupted
  PROVE  Forgone(e)' \/ interrupted'
<1>1. NumbersTyped /\ FlagsTyped
  BY TypeParts
<1>2. /\ late \subseteq late' /\ skipped \subseteq skipped' /\ now' \in {now, now + 1}
      /\ interrupted => interrupted'
      /\ started' = started \/ FirstStart
  <2> USE DEF positions, process, world
  <2>1. CASE UNCHANGED vars
    BY <2>1 DEF vars
  <2>2. CASE StartUp
    BY <2>2 DEF StartUp, FirstStart, WriteKey, Load
  <2>3. CASE LiveStep \/ PollFails
    <3>1. CASE BeginPoll
      BY <3>1 DEF BeginPoll
    <3>2. CASE FetchPage \/ StorePage \/ Advance \/ PollFails
      BY <3>2 DEF FetchPage, StorePage, Advance, PollFails
    <3> QED
      BY <2>3, <3>1, <3>2 DEF LiveStep
  <2>4. CASE BackfillStep \/ BackfillFails
    <3>1. UNCHANGED <<late, skipped, now, interrupted, started>>
      BY <2>4 DEF BackfillStep, BackfillFails, Plan, FetchWindow, StoreWindow, AdvanceWindow,
                  Finish, Complete
    <3> QED
      BY <3>1
  <2>5. CASE \E f \in Items : List(f)
    <3>1. PICK f \in Items : List(f)
      BY <2>5
    <3>2. late \subseteq late'
      BY <3>1 DEF List
    <3>3. UNCHANGED <<skipped, now, interrupted, started>>
      BY <3>1 DEF List
    <3> QED
      BY <3>2, <3>3
  <2>6. CASE Tick
    BY <2>6 DEF Tick
  <2>7. CASE Crash
    <3>1. UNCHANGED <<late, skipped, now, started>>
      BY <2>7 DEF Crash
    <3>2. interrupted => interrupted'
      BY <2>7, Zenon DEF Crash
    <3> QED
      BY <3>1, <3>2
  <2> QED
    BY <2>1, <2>2, <2>3, <2>4, <2>5, <2>6, <2>7 DEF Next
<1>3. e \in late' \union skipped' \/ e \notin late \union skipped
  BY <1>2
<1>4. Retention > 0 /\ At[e] < KeepFrom => Retention > 0 /\ At[e] < KeepFrom'
  BY <1>1, <1>2, ConstantTypes, ItemFacts DEF NumbersTyped, KeepFrom
<1>5. started = 0 \/ started' = started
  BY <1>2 DEF FirstStart, Stages, BootStage
<1> QED
  BY <1>2, <1>3, <1>4, <1>5 DEF Forgone

(* What the live stream's position and page may do in a step.               *)
LEMMA LiveChanges ==
  ASSUME [Next]_vars, ~FirstStart
  PROVE  \/ UNCHANGED <<cursor, poll>>
         \/ (UNCHANGED cursor /\ poll' = NoPoll)
         \/ BeginPoll \/ FetchPage \/ StorePage \/ Advance
<1> USE DEF positions, process
<1>1. CASE UNCHANGED vars
  BY <1>1 DEF vars
<1>2. CASE StartUp
  BY <1>2 DEF StartUp, WriteKey, Load
<1>3. CASE LiveStep \/ PollFails
  BY <1>3 DEF LiveStep, PollFails
<1>4. CASE BackfillStep \/ BackfillFails
  <2>1. UNCHANGED <<cursor, poll>>
    BY <1>4 DEF BackfillStep, BackfillFails, Plan, FetchWindow, StoreWindow, AdvanceWindow,
                Finish, Complete
  <2> QED
    BY <2>1
<1>5. CASE \E f \in Items : List(f)
  BY <1>5 DEF List
<1>6. CASE Tick \/ Crash
  BY <1>6 DEF Tick, Crash
<1> QED
  BY <1>1, <1>2, <1>3, <1>4, <1>5, <1>6 DEF Next

LEMMA NoCursorStays ==
  ASSUME TypeOK, Stages, [Next]_vars, ~FirstStart, cursor = None
  PROVE  cursor' = None
<1>1. boot = "down" /\ poll.at = "idle"
  BY NoPollTyped DEF Stages, BootStage, PollStage
<1>2. ~BeginPoll /\ ~FetchPage /\ ~StorePage /\ ~Advance
  BY <1>1 DEF BeginPoll, FetchPage, StorePage, Advance
<1> QED
  BY <1>2, LiveChanges

(* A transfer that the live stream reaches stays in its reach, is stored or *)
(* is in a gap that is skipped.                                             *)
LEMMA LiveStays ==
  ASSUME TypeOK, Stages, Stages', [Next]_vars, cursor # None,
         NEW e \in listed \cap Transfers, e \notin stored', LiveReaches(e), ~FirstStart
  PROVE  LiveReaches(e)' \/ Forgone(e)'
<1>1. /\ SetsTyped /\ NumbersTyped /\ PollTyped /\ e \in Items /\ At[e] \in Nat
      /\ Overlap \in Nat
  BY TypeParts, ItemFacts, ConstantTypes
<1>2. cursor # None /\ cursor - Overlap <= At[e]
  BY DEF LiveReaches, Stages, BootStage
<1>3. CASE UNCHANGED <<cursor, poll>>
  BY <1>3 DEF LiveReaches
<1>4. CASE UNCHANGED cursor /\ poll' = NoPoll
  BY <1>2, <1>4, NoPollTyped DEF LiveReaches
<1>5. CASE BeginPoll
  <2>1. boot = "up" /\ readTo <= cursor /\ now - Overlap \in Nat
    BY <1>1, <1>5, ConstantTypes DEF BeginPoll, Stages, PollStage, BootStage, NumbersTyped
  <2>2. CASE MaxCatchup > 0 /\ now - readTo > MaxCatchup
    <3>1. /\ cursor' = now - Overlap
          /\ poll' = Fetching(MinTs(now - Overlap) - 1)
          /\ skipped' = skipped \union {f \in Items \ stored : At[f] < MinTs(now - Overlap)}
          /\ stored' = stored
      BY <1>5, <2>2, Zenon DEF BeginPoll, Fetching
    <3>2. CASE At[e] < MinTs(now - Overlap)
      <4>1. e \in skipped'
        BY <1>1, <3>1, <3>2
      <4> QED
        BY <4>1 DEF Forgone
    <3>3. CASE ~(At[e] < MinTs(now - Overlap))
      <4>1. MinTs(now - Overlap) - 1 \in Int /\ MinTs(now - Overlap) - 1 < At[e]
        BY <1>1, <2>1, <3>3 DEF MinTs
      <4>2. poll'.at = "fetch" /\ poll'.after < At[e]
        BY <3>1, <4>1, FetchingTyped
      <4>3. cursor' - Overlap <= At[e]
        BY <1>1, <2>1, <3>1, <3>3 DEF MinTs
      <4> QED
        BY <4>2, <4>3 DEF LiveReaches
    <3> QED
      BY <3>2, <3>3
  <2>3. CASE ~(MaxCatchup > 0 /\ now - readTo > MaxCatchup)
    <3>1. poll' = Fetching(MinTs(readTo) - 1) /\ cursor' = cursor
      BY <1>5, <2>3, Zenon DEF BeginPoll, Fetching
    <3>2. MinTs(readTo) - 1 \in Int /\ MinTs(readTo) - 1 < At[e]
      BY <1>1, <1>2, <2>1 DEF MinTs, NumbersTyped
    <3>3. poll'.at = "fetch" /\ poll'.after < At[e]
      BY <3>1, <3>2, FetchingTyped
    <3> QED
      BY <1>2, <3>1, <3>3 DEF LiveReaches
  <2> QED
    BY <2>2, <2>3
<1>6. CASE FetchPage
  <2> DEFINE page == NextPage(poll.after)
  <2>1. UNCHANGED cursor
    BY <1>6 DEF FetchPage, positions
  <2>2. poll.after \in Int /\ poll.after < At[e]
    BY <1>1, <1>2, <1>6 DEF FetchPage, LiveReaches, PollTyped, PollStates
  <2>3. e \in After(poll.after)
    BY <2>2 DEF After
  <2>4. e \in page \/ LastOf(page) < At[e]
    BY <1>1, <2>2, <2>3, PageFacts DEF SetsTyped
  <2> HIDE DEF page
  <2>5. poll' = [at |-> "process", after |-> LastOf(page), pages |-> poll.pages + 1,
                 page |-> page, more |-> After(poll.after) # page]
    BY <1>6, <2>3, Zenon DEF FetchPage, page
  <2>6. poll'.at = "process" /\ poll'.after = LastOf(page) /\ poll'.page = page
    BY <2>5
  <2> QED
    BY <1>2, <2>1, <2>4, <2>6 DEF LiveReaches
<1>7. CASE StorePage
  <2>1. e \notin poll.page
    BY <1>7 DEF StorePage
  <2>2. poll.after < At[e]
    BY <1>2, <1>7, <2>1 DEF StorePage, LiveReaches
  <2>3. UNCHANGED cursor
    BY <1>7 DEF StorePage, positions
  <2>4. poll' = NoPoll \/ poll' = [poll EXCEPT !.at = "advance"]
    BY <1>7, Zenon DEF StorePage
  <2>5. CASE poll' = [poll EXCEPT !.at = "advance"]
    <3>1. poll'.at = "advance" /\ poll'.after = poll.after
      BY <1>1, <2>5 DEF PollTyped, PollStates
    <3> QED
      BY <1>2, <2>2, <2>3, <3>1 DEF LiveReaches
  <2> QED
    BY <1>4, <2>3, <2>4, <2>5
<1>8. CASE Advance
  <2>1. poll.after \in Int /\ poll.after < At[e]
    BY <1>1, <1>2, <1>8, AdvanceFacts DEF LiveReaches, PollTyped, PollStates
  <2>2. poll'.at \in {"idle", "fetch"} /\ (poll'.at = "fetch" => poll'.after = poll.after)
    BY <1>8, AdvanceFacts
  <2>3. cursor' - Overlap <= At[e]
    BY <1>1, <1>2, <1>8, <2>1, AdvanceFacts DEF NumbersTyped
  <2> QED
    BY <2>1, <2>2, <2>3 DEF LiveReaches
<1> QED
  BY <1>3, <1>4, <1>5, <1>6, <1>7, <1>8, LiveChanges

(* What the backfill's positions and windows may do in a step.             *)
LEMMA BackfillChanges ==
  ASSUME [Next]_vars, ~FirstStart
  PROVE  \/ UNCHANGED <<bfDone, boot, started, bfNext, bfEnd, bf>>
         \/ WriteHistory \/ WriteNoHistory \/ Load \/ Crash
         \/ Plan \/ StoreWindow \/ AdvanceWindow \/ Finish \/ Complete \/ BackfillFails
         \/ \E i \in 1 .. 2 * Concurrency : FetchWindow(i)
<1> USE DEF positions, process
<1>1. CASE UNCHANGED vars
  BY <1>1 DEF vars
<1>2. CASE StartUp
  BY <1>2, WriteKeyKinds DEF StartUp
<1>3. CASE LiveStep \/ PollFails
  <2>1. UNCHANGED <<bfDone, boot, started, bfNext, bfEnd, bf>>
    BY <1>3 DEF LiveStep, BeginPoll, FetchPage, StorePage, Advance, PollFails
  <2> QED
    BY <2>1
<1>4. CASE BackfillStep \/ BackfillFails
  BY <1>4 DEF BackfillStep
<1>5. CASE \E f \in Items : List(f)
  BY <1>5 DEF List
<1>6. CASE Tick \/ Crash
  BY <1>6 DEF Tick
<1> QED
  BY <1>1, <1>2, <1>3, <1>4, <1>5, <1>6 DEF Next

(* A transfer that the backfill reaches stays in its reach, is stored, or   *)
(* is too old for the retention, or the first start is interrupted.         *)
LEMMA BackfillStays ==
  ASSUME TypeOK, Stages, TypeOK', [Next]_vars, ~FirstStart,
         NEW e \in listed \cap Transfers, e \notin stored', BackfillReaches(e)
  PROVE  BackfillReaches(e)' \/ Forgone(e)' \/ interrupted'
<1>1. /\ SetsTyped /\ NumbersTyped /\ FlagsTyped /\ BackfillTyped /\ e \in Items /\ At[e] \in Nat
      /\ Window \in Nat /\ History \in Nat /\ Retention \in Nat
  BY TypeParts, ItemFacts, ConstantTypes
<1>2. /\ bf.pos \in Nat /\ bf.end \in Nat /\ bf.pending \in Seq(Windows)
      /\ Len(bf.pending) <= 2 * Concurrency /\ Len(bf.pending) \in Nat
      /\ DOMAIN bf.pending = 1 .. Len(bf.pending)
  <2>1. bf \in BackfillStates /\ Len(bf.pending) <= 2 * Concurrency
    BY <1>1 DEF BackfillTyped
  <2>2. bf.pos \in Nat /\ bf.end \in Nat /\ bf.pending \in Seq(Windows)
    BY <2>1 DEF BackfillStates
  <2> QED
    BY <2>1, <2>2, LenProperties
<1>3. CASE UNCHANGED <<bfDone, boot, started, bfNext, bfEnd, bf>>
  BY <1>3 DEF BackfillReaches
<1>4. CASE WriteHistory
  <2>1. ~bfDone /\ bf.at = "off" /\ UNCHANGED <<bfDone, started, bf>>
    BY <1>4, NoBackfillTyped
    DEF WriteHistory, WriteKey, NextKey, Stages, BackfillStage, BackfillReaches
  <2>2. started - History <= At[e] /\ At[e] < started
    BY <1>4 DEF WriteHistory, WriteKey, NextKey, BackfillReaches
  <2>3. boot' \in {"end", "next"} \/ (bfNext' = started - History /\ bfEnd' = started)
    BY <1>4 DEF WriteHistory, WriteKey, NextKey, Stages, BootStage
  <2> QED
    BY <2>1, <2>2, <2>3 DEF BackfillReaches
<1>5. CASE Load
  <2>1. bf' = Off("plan") /\ boot' = "up" /\ UNCHANGED <<bfDone, started, bfNext, bfEnd>>
    BY <1>5 DEF Load, Off, positions
  <2>2. boot \in {"load", "down"}
    BY <1>5 DEF Load
  <2> QED
    BY <2>1, <2>2, OffTyped DEF BackfillReaches
<1>6. CASE Crash
  <2>1. bf' = NoBackfill /\ boot' = "down" /\ UNCHANGED <<bfDone, bfNext, bfEnd>>
    BY <1>6 DEF Crash, positions
  <2>2. CASE boot \in {"start", "end", "next"}
    BY <1>6, <2>2 DEF Crash
  <2>3. CASE boot \notin {"start", "end", "next"}
    BY <2>1, <2>3, NoBackfillTyped DEF BackfillReaches
  <2> QED
    BY <2>2, <2>3
<1>7. ASSUME bf.at # "off"
      PROVE  boot = "up" /\ ~bfDone /\ bfNext <= At[e] /\ At[e] < bfEnd
  BY <1>7, NoBackfillTyped DEF Stages, BackfillStage, BackfillReaches
<1>8. CASE Complete \/ BackfillFails
  <2>1. UNCHANGED <<bfDone, boot, bfNext, bfEnd>> /\ bf.at # "off"
    BY <1>8 DEF Complete, BackfillFails, positions
  <2>2. bf' = NoBackfill \/ bf' = Off("plan")
    BY <1>8, Zenon DEF Complete, BackfillFails, Off
  <2>3. bf'.at \in {"off", "plan"}
    BY <2>2, NoBackfillTyped, OffTyped
  <2> QED
    BY <1>7, <2>1, <2>3 DEF BackfillReaches
<1>9. CASE Finish
  <2>1. bf.at = "run" /\ bf.end <= bf.pos /\ bf.end = bfEnd
    BY <1>9 DEF Finish, Stages, BackfillStage
  <2>2. bf.pos <= At[e] /\ At[e] < bfEnd
    BY <1>7, <2>1 DEF BackfillReaches
  <2> QED
    BY <1>1, <1>2, <2>1, <2>2
<1>10. CASE Plan
  <2>1. /\ bf.at = "plan"
        /\ UNCHANGED <<boot, bfNext, bfEnd, now>>
    BY <1>10 DEF Plan, world
  <2>2. boot = "up" /\ ~bfDone /\ bfNext <= At[e] /\ At[e] < bfEnd
    BY <1>7, <2>1
  <2>3. KeepFrom \in Int /\ KeepFrom' = KeepFrom
    BY <1>1, <2>1 DEF NumbersTyped, KeepFrom
  <2>4. CASE Retention > 0 /\ bfEnd <= KeepFrom
    <3>1. At[e] < KeepFrom'
      BY <1>1, <2>2, <2>3, <2>4 DEF NumbersTyped
    <3> QED
      BY <2>4, <3>1 DEF Forgone
  <2>5. CASE ~(Retention > 0 /\ bfEnd <= KeepFrom)
    <3>1. bf' = Running(PlanStart, bfEnd, <<>>) /\ bfDone' = bfDone
      BY <1>10, <2>2, <2>5, Zenon DEF Plan, PlanStart
    <3>2. CASE Retention > 0 /\ At[e] < KeepFrom
      BY <2>3, <3>2 DEF Forgone
    <3>3. CASE ~(Retention > 0 /\ At[e] < KeepFrom)
      <4>1. PlanStart \in Nat /\ bfEnd \in Nat /\ PlanStart <= At[e]
        BY <1>1, <2>2, <2>3, <3>3, PlanStartType DEF NumbersTyped
      <4>2. PICK none \in Seq(Windows) : none = <<>> /\ Len(none) = 0
        BY EmptySeq
      <4>3. Len(none) = 0
        BY <4>2
      <4>4. Len(none) <= 2 * Concurrency
        BY <4>2, Concurrent
      <4>5. PlanStart \in Nat /\ bfEnd \in Nat
        BY <4>1
      <4>6. bf' = Running(PlanStart, bfEnd, none)
        BY <3>1, <4>2
      <4>10. bf' \in BackfillStates
        BY <4>4, <4>5, <4>6, RunningFacts
      <4>11. bf'.at = "run"
        BY <4>4, <4>5, <4>6, RunningFacts
      <4>12. bf'.pos = PlanStart
        BY <4>4, <4>5, <4>6, RunningFacts
      <4>13. bf'.end = bfEnd
        BY <4>4, <4>5, <4>6, RunningFacts
      <4>14. \A i \in DOMAIN bf'.pending :
               bf'.pending[i] = IF i <= Len(none) THEN none[i] ELSE Unfetched
        BY <4>4, <4>5, <4>6, RunningFacts
      <4>7. \A i \in DOMAIN bf'.pending : bf'.pending[i] = Unfetched
        <5>1. bf'.pending \in Seq(Windows)
          BY <4>10 DEF BackfillStates
        <5>2. DOMAIN bf'.pending = 1 .. Len(bf'.pending)
          BY <5>1, LenProperties
        <5> QED
          BY <4>3, <4>14, <5>2
      <4>8. \A i \in DOMAIN bf'.pending : ~bf'.pending[i].ready
        BY <4>7 DEF Unfetched
      <4>9. Hold(bf'.pending, bf'.pos, bf'.end, e)
        BY <4>8 DEF Hold
      <4> QED
        BY <2>1, <2>2, <3>1, <4>1, <4>9, <4>11, <4>12, <4>13 DEF BackfillReaches
    <3> QED
      BY <3>2, <3>3
  <2> QED
    BY <2>4, <2>5
<1>11. ASSUME NEW i \in 1 .. 2 * Concurrency, FetchWindow(i)
       PROVE  BackfillReaches(e)'
  <2> DEFINE t(j) == bf.pos + (j - 1) * Window
  <2>1. UNCHANGED <<bfDone, boot, bfNext, bfEnd>> /\ bf.at = "run"
    BY <1>11 DEF FetchWindow, positions
  <2>2. /\ i \in 1 .. Len(bf.pending)
        /\ bf' \in BackfillStates
        /\ bf'.at = "run" /\ bf'.pos = bf.pos /\ bf'.end = bf.end
        /\ Len(bf'.pending) = Len(bf.pending)
        /\ \A j \in 1 .. Len(bf.pending) :
             bf'.pending[j] = IF j = i THEN [ready |-> TRUE, items |-> InWindow(t(i), bf.end)]
                              ELSE bf.pending[j]
    BY <1>11, FetchWindowFacts
  <2>3. DOMAIN bf'.pending = 1 .. Len(bf.pending)
    <3>1. bf'.pending \in Seq(Windows)
      BY <2>2 DEF BackfillStates
    <3> QED
      BY <2>2, <3>1, LenProperties
  <2>4. bf.pos <= At[e] /\ Hold(bf.pending, bf.pos, bf.end, e)
    BY <2>1 DEF BackfillReaches
  <2>5. ASSUME NEW j \in 1 .. Len(bf.pending),
               bf'.pending[j].ready, t(j) <= At[e], At[e] < NextStart(t(j), bf.end)
        PROVE  e \in bf'.pending[j].items
    <3>1. CASE j = i
      <4>1. t(j) \in Nat
        BY <1>2, Concurrent
      <4>2. NextStart(t(j), bf.end) \in Nat
        BY <1>2, <4>1, NextStartType
      <4> HIDE DEF t
      <4>3. e \in InWindow(t(j), bf.end)
        BY <1>1, <2>5, <4>1, <4>2 DEF InWindow
      <4>4. bf'.pending[j].items = InWindow(t(j), bf.end)
        BY <2>2, <3>1
      <4> QED
        BY <4>3, <4>4
    <3>2. CASE j # i
      BY <1>2, <2>2, <2>4, <2>5, <3>2 DEF Hold
    <3> QED
      BY <3>1, <3>2
  <2>6. Hold(bf'.pending, bf'.pos, bf'.end, e)
    BY <2>2, <2>3, <2>5 DEF Hold
  <2> QED
    BY <1>7, <2>1, <2>2, <2>4, <2>6 DEF BackfillReaches
<1>12. CASE StoreWindow
  <2>1. /\ bf.at = "run" /\ bf.pending # <<>> /\ Head(bf.pending).ready
        /\ UNCHANGED <<bfDone, boot, bfNext, bfEnd>>
    BY <1>12 DEF StoreWindow, positions
  <2>2. bf.pos <= At[e] /\ Hold(bf.pending, bf.pos, bf.end, e)
    BY <2>1 DEF BackfillReaches
  <2>3. CASE UNCHANGED bf
    BY <2>1, <2>3, <1>7, <2>2 DEF BackfillReaches
  <2>4. CASE ~UNCHANGED bf
    <3>1. /\ stored' = stored \union (Head(bf.pending).items \cap Transfers)
          /\ bf' = [bf EXCEPT !.at = "stored"]
      BY <1>12, <2>4, Zenon DEF StoreWindow
    <3>2. bf'.at = "stored" /\ bf'.pos = bf.pos /\ bf'.end = bf.end /\ bf'.pending = bf.pending
      BY <1>1, <3>1 DEF BackfillTyped, BackfillStates
    <3>3. Head(bf.pending) = bf.pending[1] /\ 1 \in DOMAIN bf.pending
      <4>1. Len(bf.pending) # 0
        BY <1>2, <2>1, EmptySeq
      <4> QED
        BY <1>2, <4>1
    <3>4. bf.pos + (1 - 1) * Window = bf.pos
      BY <1>1, <1>2
    <3>5. ~(At[e] < NextStart(bf.pos, bf.end))
      BY <2>1, <2>2, <3>1, <3>3, <3>4 DEF Hold
    <3>6. NextStart(bf.pos, bf.end) <= At[e]
      BY <1>1, <1>2, <3>5, NextStartType
    <3> QED
      BY <1>7, <2>1, <2>2, <3>2, <3>6 DEF BackfillReaches
  <2> QED
    BY <2>3, <2>4
<1>13. CASE AdvanceWindow
  <2> DEFINE after == NextStart(bf.pos, bf.end)
             rest == Tail(bf.pending)
  <2>1. /\ bf.at = "stored" /\ UNCHANGED <<bfDone, boot, bfEnd>>
        /\ bfNext' = after /\ bf' = Running(after, bf.end, rest)
    BY <1>13 DEF AdvanceWindow
  <2>2. /\ after <= At[e] /\ Hold(bf.pending, bf.pos, bf.end, e)
        /\ bf.end = bfEnd /\ bf.pending # <<>>
    BY <2>1 DEF BackfillReaches, Stages, BackfillStage
  <2>3. At[e] < bf.end
    BY <1>7, <2>1, <2>2
  <2>4. after \in Nat /\ after = bf.pos + Window
    <3>1. bf.pos \in Nat /\ bf.end \in Nat
      BY <1>2
    <3>2. /\ after \in Nat
          /\ after = IF bf.pos + Window <= bf.end THEN bf.pos + Window ELSE bf.end
      BY <3>1, NextStartType
    <3>3. after # bf.end
      BY <1>1, <2>2, <2>3, <3>1, <3>2
    <3> QED
      BY <3>2, <3>3
  <2>5. /\ rest \in Seq(Windows) /\ Len(rest) = Len(bf.pending) - 1
        /\ \A i \in 1 .. Len(rest) : rest[i] = bf.pending[i + 1]
    BY <1>2, <2>2, HeadTailProperties
  <2>6. Len(rest) <= 2 * Concurrency
    BY <1>2, <2>5, Concurrent
  <2> HIDE DEF after, rest
  <2>12. after \in Nat /\ bf.end \in Nat
    BY <1>2, <2>4
  <2>13. PICK tail \in Seq(Windows) : tail = rest
    BY <2>5
  <2>14. Len(tail) <= 2 * Concurrency
    BY <2>6, <2>13
  <2>15. bf' = Running(after, bf.end, tail)
    BY <2>1, <2>13
  <2>7. bf' \in BackfillStates
    <3>1. Running(after, bf.end, tail) \in BackfillStates
      BY <2>12, <2>14, RunningFacts
    <3> QED
      BY <2>15, <3>1
  <2>16. bf'.at = "run"
    BY <2>12, <2>14, <2>15, RunningFacts
  <2>17. bf'.pos = after
    BY <2>12, <2>14, <2>15, RunningFacts
  <2>18. bf'.end = bf.end
    BY <2>12, <2>14, <2>15, RunningFacts
  <2>19. \A i \in DOMAIN bf'.pending :
           bf'.pending[i] = IF i <= Len(tail) THEN tail[i] ELSE Unfetched
    BY <2>12, <2>14, <2>15, RunningFacts
  <2>8. \A i \in DOMAIN bf'.pending :
          bf'.pending[i] = IF i <= Len(rest) THEN rest[i] ELSE Unfetched
    BY <2>13, <2>19
  <2>9. DOMAIN bf'.pending = 1 .. Len(bf'.pending)
    <3>1. bf'.pending \in Seq(Windows)
      BY <2>7 DEF BackfillStates
    <3> QED
      BY <3>1, LenProperties
  <2>10. ASSUME NEW i \in DOMAIN bf'.pending, bf'.pending[i].ready,
                after + (i - 1) * Window <= At[e],
                At[e] < NextStart(after + (i - 1) * Window, bf.end)
         PROVE  e \in bf'.pending[i].items
    <3>1. i \in Nat /\ i >= 1 /\ bf'.pending[i] = IF i <= Len(rest) THEN rest[i] ELSE Unfetched
      BY <2>8, <2>9
    <3>2. i <= Len(rest)
      BY <2>10, <3>1 DEF Unfetched
    <3>3. bf'.pending[i] = bf.pending[i + 1] /\ i + 1 \in DOMAIN bf.pending
      BY <1>2, <2>5, <3>1, <3>2
    <3>4. after + (i - 1) * Window = bf.pos + ((i + 1) - 1) * Window
      <4>1. (i - 1) * Window + Window = ((i + 1) - 1) * Window
        BY <1>1, <3>1, SMT
      <4>2. (i - 1) * Window \in Int
        BY <1>1, <3>1, SMT
      <4> QED
        BY <1>1, <1>2, <2>4, <4>1, <4>2
    <3> QED
      BY <2>2, <2>10, <3>3, <3>4 DEF Hold
  <2>11. Hold(bf'.pending, bf'.pos, bf'.end, e)
    BY <2>10, <2>17, <2>18 DEF Hold
  <2> QED
    BY <1>7, <2>1, <2>2, <2>11, <2>16, <2>17, <2>18 DEF BackfillReaches
<1>14. CASE WriteNoHistory
  <2>1. boot \in {"done", "analysed"}
    BY <1>14 DEF WriteNoHistory, WriteKey, NextKey
  <2>2. bfEnd = 0 /\ At[e] < bfEnd
    BY <2>1 DEF Stages, BootStage, BackfillReaches, None
  <2> QED
    BY <1>1, <2>2
<1> QED
  BY <1>3, <1>4, <1>5, <1>6, <1>8, <1>9, <1>10, <1>11, <1>12, <1>13, <1>14, BackfillChanges

(* The first start puts every listed transfer ahead of one of the streams, or *)
(* it is older than the history.                                            *)
LEMMA FirstStartReaches ==
  ASSUME TypeOK, Stages, FirstStart, NEW e \in Transfers
  PROVE  LiveReaches(e)' \/ BackfillReaches(e)' \/ Forgone(e)'
<1>1. /\ NumbersTyped /\ e \in Items /\ At[e] \in Nat /\ Start <= now
      /\ History \in Nat /\ Overlap \in Nat /\ Start \in Nat \ {0}
  BY TypeParts, ItemFacts, ConstantTypes DEF Stages, BootStage
<1>2. /\ started' = now /\ cursor' = now - Overlap
      /\ History > 0 => boot' = "start"
      /\ UNCHANGED <<bfDone, poll, bf>>
  BY DEF FirstStart
<1>3. boot = "down" /\ ~bfDone /\ poll.at = "idle" /\ bf.at = "off"
  BY NoPollTyped, NoBackfillTyped
  DEF FirstStart, Stages, BootStage, PollStage, BackfillStage
<1>4. poll'.at = "idle" /\ bf'.at = "off" /\ ~bfDone'
  BY <1>2, <1>3
<1>5. CASE cursor' - Overlap <= At[e]
  BY <1>4, <1>5 DEF LiveReaches
<1>6. CASE At[e] < started' - History
  <2>1. started' # 0
    BY <1>1, <1>2 DEF NumbersTyped
  <2> QED
    BY <1>6, <2>1 DEF Forgone
<1>7. CASE ~(cursor' - Overlap <= At[e]) /\ ~(At[e] < started' - History)
  <2>1. started' - History <= At[e] /\ At[e] < started'
    BY <1>1, <1>2, <1>7 DEF NumbersTyped
  <2>2. boot' = "start"
    BY <1>1, <1>2, <2>1 DEF NumbersTyped
  <2> QED
    BY <1>4, <2>1, <2>2 DEF BackfillReaches
<1> QED
  BY <1>5, <1>6, <1>7

(* An item that the node lists behind the live stream is late.              *)
LEMMA ListReaches ==
  ASSUME TypeOK, Stages, NEW e \in Items, List(e)
  PROVE  LiveReaches(e)' \/ Forgone(e)'
<1>1. NumbersTyped /\ PollTyped /\ At[e] \in Nat /\ Overlap \in Nat
  BY TypeParts, ItemFacts, ConstantTypes
<1>2. UNCHANGED <<cursor, poll>>
  BY DEF List, positions, process
<1>3. CASE cursor # None /\ (At[e] < cursor - Overlap \/ At[e] <= poll.after)
  <2>1. e \in late'
    BY <1>3 DEF List
  <2> QED
    BY <2>1 DEF Forgone
<1>4. CASE cursor = None
  BY <1>2, <1>4 DEF LiveReaches
<1>5. CASE ~(At[e] < cursor - Overlap \/ At[e] <= poll.after)
  <2>1. poll.after \in Int /\ cursor \in Nat
    BY <1>1 DEF PollTyped, PollStates, NumbersTyped
  <2>2. cursor - Overlap <= At[e] /\ poll.after < At[e]
    BY <1>1, <1>5, <2>1
  <2> QED
    BY <1>2, <2>2 DEF LiveReaches
<1> QED
  BY <1>3, <1>4, <1>5

(* What is stored stays stored, and only List adds to what is listed.       *)
LEMMA SetsGrow ==
  ASSUME [Next]_vars
  PROVE  /\ stored \subseteq stored'
         /\ listed' = listed \/ \E e \in Items : List(e) /\ listed' = listed \union {e}
<1> USE DEF positions, process, world
<1>1. CASE UNCHANGED vars
  BY <1>1 DEF vars
<1>2. CASE StartUp
  BY <1>2 DEF StartUp, FirstStart, WriteKey, Load
<1>3. CASE LiveStep \/ PollFails
  <2>1. CASE StorePage
    BY <2>1 DEF StorePage
  <2>2. CASE BeginPoll \/ FetchPage \/ Advance \/ PollFails
    BY <2>2 DEF BeginPoll, FetchPage, Advance, PollFails
  <2> QED
    BY <1>3, <2>1, <2>2 DEF LiveStep
<1>4. CASE BackfillStep \/ BackfillFails
  <2>1. CASE StoreWindow
    <3>1. stored \subseteq stored'
      BY <2>1 DEF StoreWindow
    <3>2. listed' = listed
      BY <2>1 DEF StoreWindow
    <3> QED
      BY <3>1, <3>2
  <2>2. CASE ~StoreWindow
    <3>1. UNCHANGED <<stored, listed>>
      BY <1>4, <2>2 DEF BackfillStep, BackfillFails, Plan, FetchWindow, AdvanceWindow,
                        Finish, Complete
    <3> QED
      BY <3>1
  <2> QED
    BY <2>1, <2>2
<1>5. CASE \E f \in Items : List(f)
  BY <1>5 DEF List
<1>6. CASE Tick \/ Crash
  BY <1>6 DEF Tick, Crash
<1> QED
  BY <1>1, <1>2, <1>3, <1>4, <1>5, <1>6 DEF Next

(* Reached is inductive together with the type invariant and Stages.        *)
LEMMA ReachedKeeps ==
  ASSUME TypeOK, Stages, Reached, TypeOK', Stages', [Next]_vars
  PROVE  Reached'
<1> SUFFICES ASSUME NEW e \in Transfers, e \in listed', e \notin stored'
             PROVE  Reaches(e)'
  BY DEF Reached
<1>1. e \in Items
  BY ItemFacts
<1>2. CASE FirstStart
  BY <1>2, FirstStartReaches DEF Reaches
<1>3. ASSUME ~FirstStart, e \notin listed
      PROVE  Reaches(e)'
  <2>1. PICK f \in Items : List(f) /\ listed' = listed \union {f}
    BY <1>3, SetsGrow
  <2>2. f = e
    BY <1>3, <2>1
  <2> QED
    BY <2>1, <2>2, ListReaches DEF Reaches
<1>4. ASSUME ~FirstStart, e \in listed
      PROVE  Reaches(e)'
  <2>1. e \notin stored
    BY SetsGrow
  <2>2. Forgone(e) \/ interrupted \/ LiveReaches(e) \/ BackfillReaches(e)
    BY <1>4, <2>1 DEF Reached, Reaches
  <2>3. CASE Forgone(e) \/ interrupted
    BY <1>1, <2>3, ForgoneLasts DEF Reaches
  <2>4. CASE cursor = None
    BY <1>4, <2>4, NoCursorStays DEF Reaches, LiveReaches
  <2>5. CASE cursor # None /\ LiveReaches(e)
    BY <1>4, <2>5, LiveStays DEF Reaches
  <2>6. CASE BackfillReaches(e)
    BY <1>4, <2>6, BackfillStays DEF Reaches
  <2> QED
    BY <2>2, <2>3, <2>4, <2>5, <2>6
<1> QED
  BY <1>2, <1>3, <1>4

LEMMA ReachedInit == Init => Reached
BY DEF Init, Reached, Reaches, LiveReaches, None

LEMMA ReachedSuffices ==
  ASSUME TypeOK, Reached
  PROVE  NothingPassed
<1> SUFFICES ASSUME NEW e \in (listed \cap Transfers) \ stored
             PROVE  AheadOfLive(e) \/ AheadOfBackfill(e) \/ Forgone(e) \/ interrupted
  BY DEF NothingPassed, Kept
<1>1. NumbersTyped /\ At[e] \in Nat /\ Overlap \in Nat
  BY TypeParts, ItemFacts, ConstantTypes
<1>2. Forgone(e) \/ interrupted \/ LiveReaches(e) \/ BackfillReaches(e)
  BY DEF Reached, Reaches
<1>3. CASE LiveReaches(e)
  BY <1>1, <1>3 DEF LiveReaches, AheadOfLive, NumbersTyped
<1>4. CASE BackfillReaches(e)
  BY <1>1, <1>4 DEF BackfillReaches, AheadOfBackfill, NumbersTyped
<1> QED
  BY <1>2, <1>3, <1>4

(* No position in the database passes a transfer that is not stored, for    *)
(* any page limit, window, prefetch, overlap and history, and with none:    *)
(* the cursor and the backfill's next position follow the commit of what    *)
(* they pass (tron_listener.py:310-314, 446-459).                           *)
THEOREM NothingIsPassed == Spec => []NothingPassed
<1>1. Init => Reached
  BY ReachedInit
<1>2. TypeOK /\ Stages /\ TypeOK' /\ Stages' /\ Reached /\ [Next]_vars => Reached'
  BY ReachedKeeps
<1>3. TypeOK /\ Reached => NothingPassed
  BY ReachedSuffices
<1> QED
  BY <1>1, <1>2, <1>3, InStages, PTL DEF Spec

=============================================================================
