--------------------------- MODULE PatternEngine ---------------------------
(***************************************************************************)
(* The pattern engine: what the transfers of one sender to one recipient   *)
(* teach about the way the sender tests.  The engine is pure; the state is *)
(* what it is applied to: the pair's rows, which batches of transfers,     *)
(* live or older, extend, and the time of the analysis, which decides how  *)
(* far back it reads.  Amounts are integers as in the code, fractions are  *)
(* exact, and weights are scaled to integers.  The confidence score, and   *)
(* so the one reason against a pair that rests on it, is left out.         *)
(***************************************************************************)
EXTENDS Integers, FiniteSets, SequencesExt

CONSTANTS
  Ratio,          (* MIN_LARGE_TO_TEST_RATIO, a fraction [num, den]              *)
  MatchFactor,    (* TEST_MATCH_FACTOR, a fraction                               *)
  BandFactor,     (* TEST_CLUSTER_BAND_FACTOR, a fraction                        *)
  MinTest, MaxTest, MinLarge,   (* bounds on amounts; MinTest is at least the dust floor *)
  MaxFollowup, MinWindow,       (* times                                         *)
  WindowFactor,   (* FOLLOWUP_WINDOW_MULTIPLIER                                  *)
  Decay,          (* the weight of a transfer by its age, PATTERN_HALF_LIFE_DAYS *)
  Expiry,         (* PATTERN_EXPIRY_DAYS                                         *)
  Lookback,       (* PATTERN_LOOKBACK_DAYS                                       *)
  HistoryLimit,   (* PAIR_HISTORY_LIMIT                                          *)
  CandidateSequences, MinSequences,   (* CANDIDATE_ and MIN_SUCCESSFUL_SEQUENCES *)
  MinSuccess, MinInlier,        (* fractions                                     *)
  Batches,        (* sequences of transfers [ago, amount] that a batch may hold  *)
  MaxBatches, MaxNow            (* bounds                                        *)

Fractions == [num : Nat, den : Nat \ {0}]

ASSUME PatternAssumption ==
  /\ {Ratio, MatchFactor, BandFactor, MinSuccess, MinInlier} \subseteq Fractions
  /\ Ratio.num > Ratio.den                                      \* settings.py:190
  /\ MatchFactor.num >= MatchFactor.den /\ BandFactor.num >= BandFactor.den
  /\ {MinTest, MaxTest, MinLarge, MaxFollowup, MinWindow} \subseteq Nat
  /\ {WindowFactor, Expiry, CandidateSequences, MaxBatches, MaxNow} \subseteq Nat
  /\ {Lookback, HistoryLimit} \subseteq Nat /\ Lookback >= MaxFollowup   \* settings.py:194
  /\ MinSequences \in Nat /\ CandidateSequences <= MinSequences   \* settings.py:192
  /\ Decay \in [0 .. MaxNow -> Nat \ {0}]   \* one factor, at most 1, per unit of time
  /\ \A a, b \in 0 .. MaxNow - 1 :
       Decay[a + 1] <= Decay[a] /\ Decay[a + 1] * Decay[b] = Decay[a] * Decay[b + 1]
  /\ Batches \subseteq Seq([ago : Nat, amount : Nat \ {0}])

VARIABLES
  rows,      (* the pair's confirmed transfers [at, amount]; the index is the id *)
  now,       (* the time of an analysis                                          *)
  history,   (* what an analysis then reads of the rows                          *)
  batches    (* how many batches have come                                       *)

vars == <<rows, now, history, batches>>

-----------------------------------------------------------------------------
(* Sequence detection                                                       *)

Earlier(h, i, j) == h[i].at < h[j].at \/ (h[i].at = h[j].at /\ i < j)

(* large / test >= ratio, exactly                                           *)
SubstantiallyLarger(large, test) == test > 0 /\ large * Ratio.den >= test * Ratio.num

(* Mutant: the search is not confined to the transfers before the large one. *)
MayFollowAnyway(h, t, x) ==
  /\ t # x
  /\ h[x].at - h[t].at <= MaxFollowup
  /\ h[t].amount >= MinTest /\ h[t].amount <= MaxTest
  /\ h[x].amount >= MinLarge
  /\ SubstantiallyLarger(h[x].amount, h[t].amount)

MayFollow(h, t, x) ==
  /\ Earlier(h, t, x)
  /\ h[x].at - h[t].at <= MaxFollowup
  /\ h[t].amount >= MinTest /\ h[t].amount <= MaxTest
  /\ h[x].amount >= MinLarge
  /\ SubstantiallyLarger(h[x].amount, h[t].amount)

(* Mutant: a transfer used as the large side may be a test.                 *)
UsedAsTest(S) == {s.test : s \in S}

Used(S) == {s.test : s \in S} \union {s.large : s \in S}

(* Mutant: the search starts at the oldest transfer.                        *)
LeastRecent(h, T) == CHOOSE t \in T : \A u \in T : ~Earlier(h, u, t)

MostRecent(h, T) == CHOOSE t \in T : \A u \in T : ~Earlier(h, t, u)

(* The k-th transfer in the order of their times.                           *)
Nth(h, k) == CHOOSE i \in DOMAIN h : Cardinality({j \in DOMAIN h : Earlier(h, j, i)}) = k - 1

(* pair_history: what an analysis at time n reads of the rows r, in the     *)
(* order of their times: the part inside the look-back, and of that the     *)
(* newest HistoryLimit.                                                     *)
InOrder(r)    == [k \in DOMAIN r |-> r[Nth(r, k)]]
TooOld(r, n)  == {i \in DOMAIN r : r[i].at < n - Lookback}
Unread(r, n)  == Max({Cardinality(TooOld(r, n)), Len(r) - HistoryLimit})

(* Mutant: the limit keeps the oldest transfers of the look-back.           *)
OldestRead(r, n) ==
  LET from == Cardinality(TooOld(r, n)) + 1
  IN  SubSeq(InOrder(r), from, Min({Len(r), from + HistoryLimit - 1}))

PairHistory(r, n) == SubSeq(InOrder(r), Unread(r, n) + 1, Len(r))

(* A transfer is paired with the most recent unused one that it may follow. *)
Paired(h, S, x) ==
  LET T == {t \in DOMAIN h \ Used(S) : MayFollow(h, t, x)}
  IN  IF T = {} THEN S ELSE S \union {[test |-> MostRecent(h, T), large |-> x]}

(* What is found among the first k transfers.                               *)
Found(h) ==
  LET found[k \in 0 .. Len(h)] == IF k = 0 THEN {} ELSE Paired(h, found[k - 1], Nth(h, k))
  IN  found

DetectSequences(h) == Found(h)[Len(h)]

-----------------------------------------------------------------------------
(* Integer statistics                                                       *)

FloorTimes(x, f) == (x * f.num) \div f.den
FloorOver(x, f)  == (x * f.den) \div f.num
CeilOver(x, f)   == -((-x * f.den) \div f.num)

(* The values of f in ascending order, repeated ones as often as they occur. *)
Sorted(f) ==
  [k \in 1 .. Cardinality(DOMAIN f) |->
     Min({v \in {f[s] : s \in DOMAIN f} : Cardinality({s \in DOMAIN f : f[s] <= v}) >= k})]

MedianInt(s) ==
  LET mid == Len(s) \div 2
  IN  IF Len(s) % 2 = 1 THEN s[mid + 1] ELSE (s[mid] + s[mid + 1]) \div 2

(* Mutant: the index is rounded down.                                       *)
PercentileFloor(s, q) == s[Min({Len(s), Max({1, FloorTimes(Len(s), q)})})]

PercentileInt(s, q) == s[Min({Len(s), Max({1, CeilOver(Len(s), [num |-> q.den, den |-> q.num])})})]

Weight(h, i, n) == Decay[Max({0, n - h[i].at})]

TotalWeight(h, I, n) == MapThenSumSet(LAMBDA i : Weight(h, i, n), I)
WeightOf(h, S, n)    == TotalWeight(h, {s.large : s \in S}, n)

-----------------------------------------------------------------------------
(* The cluster of the test amounts                                          *)

TestAmount(h, s) == h[s.test].amount

(* |log a - log c| <= log band_factor                                       *)
InBand(a, c) == a * BandFactor.den <= c * BandFactor.num /\ c * BandFactor.den <= a * BandFactor.num

Cluster(h, S, c) == {s \in S : InBand(TestAmount(h, s), c)}

(* What the clusters are compared by: weight, members, latest large one.    *)
Key(h, S, n, s) ==
  LET C == Cluster(h, S, TestAmount(h, s))
  IN  <<WeightOf(h, C, n), Cardinality(C), Max({h[k.large].at : k \in C})>>

KeyLess(a, b) == \E i \in 1 .. 3 : a[i] < b[i] /\ \A j \in 1 .. i - 1 : a[j] = b[j]

(* The sequences whose clusters have the greatest key.                      *)
Best(h, S, n) == {s \in S : \A t \in S : ~KeyLess(Key(h, S, n, s), Key(h, S, n, t))}

(* The cluster with the greatest key, the first of those that have it.      *)
BestCluster(h, S, n) ==
  LET first == CHOOSE s \in Best(h, S, n) : \A t \in Best(h, S, n) : ~Earlier(h, t.large, s.large)
  IN  Cluster(h, S, TestAmount(h, first))

(* Mutant: the centre is the least amount of the cluster.                   *)
LeastAmount(h, S, n) == Min({TestAmount(h, s) : s \in S})

UpTo(h, S, c) == {s \in S : TestAmount(h, s) <= c}

WeightedMedian(h, S, n) ==
  Min({c \in {TestAmount(h, s) : s \in S} :
         2 * WeightOf(h, UpTo(h, S, c), n) >= WeightOf(h, S, n)})

(* The sequences around the weighted median of the best cluster.            *)
SelectTestCluster(h, S, n) == Cluster(h, S, WeightedMedian(h, BestCluster(h, S, n), n))

-----------------------------------------------------------------------------
(* The model of the relationship                                            *)

FollowupTime(h, s) == h[s.large].at - h[s.test].at

(* The learned follow-up window; T are the follow-up times, in order.       *)
LearnedWindow(T) ==
  Min({MaxFollowup, Max({2 * T[Len(T)], MedianInt(T) * WindowFactor, MinWindow})})

(* The band of amounts that count as tests from now on.                     *)
MatchLow(h, I)  == Max({CeilOver(Min({TestAmount(h, s) : s \in I}), MatchFactor), MinTest, 1})

(* Mutant: the amount of the large transfers is ignored.                    *)
MatchHighOfTests(h, I) == Min({FloorTimes(Max({TestAmount(h, s) : s \in I}), MatchFactor), MaxTest})

MatchHigh(h, I) ==
  Min({FloorTimes(Max({TestAmount(h, s) : s \in I}), MatchFactor),
       FloorOver(Min({h[s.large].amount : s \in I}), Ratio), MaxTest})

(* Mutant: a test is judged while its window is open.                       *)
IsOpen(h, i, n, window) == n - h[i].at <= window

(* A test-like transfer without a large one counts once its window is over. *)
IsOver(h, i, n, window) == n - h[i].at > window

(* What speaks against the active watchlist, but for a low confidence.      *)
Reasons == {"few", "failing", "inconsistent", "expired", "overlap"}

(* The model learned from the sequences S, of which I are the inliers.      *)
ModelOf(h, S, n, I) ==
  LET times  == Sorted([s \in I |-> FollowupTime(h, s)])
      window == LearnedWindow(times)
      low    == MatchLow(h, I)
      high   == MatchHigh(h, I)
      like   == {i \in DOMAIN h \ {s.large : s \in S} : h[i].amount \in low .. high}
      hits   == like \cap {s.test : s \in S}
      misses == {i \in like \ hits : IsOver(h, i, n, window)}
      succ   == TotalWeight(h, hits, n)
      judged == TotalWeight(h, hits \union misses, n)
      last   == Max({h[s.large].at : s \in I})
      below(part, whole, f) == IF whole > 0 THEN part * f.den < whole * f.num ELSE f.num > 0
      reasons == {r \in Reasons :
        \/ r = "few"          /\ Cardinality(I) < MinSequences
        \/ r = "failing"      /\ below(succ, judged, MinSuccess)
        \/ r = "inconsistent" /\ below(WeightOf(h, I, n), WeightOf(h, S, n), MinInlier)
        \/ r = "expired"      /\ n - last > Expiry
        \/ r = "overlap"      /\ high < low}
  IN  [inliers |-> I, window |-> window, low |-> low, high |-> high,
       p80 |-> PercentileInt(times, [num |-> 4, den |-> 5]),
       succ |-> succ, judged |-> judged, reasons |-> reasons,
       candidate |-> /\ Cardinality(I) >= CandidateSequences
                     /\ reasons \cap {"inconsistent", "expired", "overlap"} = {}]

(* build_model of what detect_sequences finds, which is not empty.          *)
BuildModel(h, S, n) == ModelOf(h, S, n, SelectTestCluster(h, S, n))

-----------------------------------------------------------------------------
(* The world: batches of the live streams and of the backfill, and time     *)

Init ==
  /\ rows = <<>>
  /\ now = 0
  /\ history = <<>>
  /\ batches = 0

Store(b) ==
  /\ batches < MaxBatches
  /\ \A i \in DOMAIN b : b[i].ago <= now
  /\ rows' = rows \o [i \in DOMAIN b |-> [at |-> now - b[i].ago, amount |-> b[i].amount]]
  /\ history' = PairHistory(rows', now)
  /\ batches' = batches + 1
  /\ UNCHANGED now

Tick ==
  /\ now < MaxNow
  /\ now' = now + 1
  /\ history' = PairHistory(rows, now')
  /\ UNCHANGED <<rows, batches>>

Next == (\E b \in Batches : Store(b)) \/ Tick

Spec == Init /\ [][Next]_vars

-----------------------------------------------------------------------------
(* Properties                                                               *)

(* What an analysis finds and learns now.                                   *)
Sequences == DetectSequences(history)
Model     == BuildModel(history, Sequences, now)

(* n sequences are n tests and n other, later and large enough transfers:   *)
(* no tranche and no chain of growing transfers is counted twice            *)
(* (pattern_engine.py:135-163), so that repetition is evidence.             *)
SequencesSound ==
  LET S == Sequences IN
  /\ Cardinality(Used(S)) = 2 * Cardinality(S)
  /\ \A s \in S : MayFollow(history, s.test, s.large)

(* No evidence is overlooked: a transfer that could be a test of a later    *)
(* one is in a sequence, or the later one has a test at least as recent     *)
(* (pattern_engine.py:148-162).                                             *)
NoneMissed ==
  LET S == Sequences IN
  \A t, x \in DOMAIN history :
    MayFollow(history, t, x) =>
      \/ t \in Used(S)
      \/ \E s \in S : s.large = x /\ ~Earlier(history, s.test, t)

(* Whatever the learned band accepts as a test is small enough for every    *)
(* large transfer it was learned from to count as its follow-up, so that    *)
(* none of them is a test itself (pattern_engine.py:282-286).               *)
LargesOutsideBand ==
  Sequences # {} =>
    LET m == Model IN
    \A s \in m.inliers, a \in m.low .. m.high :
      LET l == history[s.large].amount IN SubstantiallyLarger(l, a) /\ l \notin m.low .. m.high

(* The refinement around the weighted median keeps at least half the weight *)
(* of the dominant cluster, whichever amounts it drops or takes in          *)
(* (pattern_engine.py:238-240).                                             *)
InliersDominant ==
  Sequences # {} =>
    LET S == Sequences
        I == Model.inliers
    IN  \A s \in S : 2 * WeightOf(history, I, now)
                       >= WeightOf(history, Cluster(history, S, TestAmount(history, s)), now)

(* A sender who repeats what was learned is in time: the learned window     *)
(* covers every follow-up it was learned from, and the 80th percentile      *)
(* covers four fifths of them (pattern_engine.py:184-189, 273-279).         *)
WindowCovers ==
  Sequences # {} =>
    LET m    == Model
        fast == {s \in m.inliers : FollowupTime(history, s) <= m.p80}
    IN  /\ \A s \in m.inliers : FollowupTime(history, s) <= m.window
        /\ 5 * Cardinality(fast) >= 4 * Cardinality(m.inliers)

(* Time alone is no evidence: as long as an analysis reads the same         *)
(* transfers, the learned band and window stay, the success rate does not   *)
(* rise, no reason against the pair goes away (the confidence aside), and   *)
(* it does not become a candidate (pattern_engine.py:203-207, 288-348).     *)
TimeOnlyErodes ==
  [][history' = history /\ Sequences # {} =>
       LET m == Model
           p == BuildModel(history, Sequences, now')
       IN  /\ <<p.inliers, p.window, p.low, p.high>> = <<m.inliers, m.window, m.low, m.high>>
           /\ p.succ * m.judged <= m.succ * p.judged
           /\ m.reasons \subseteq p.reasons
           /\ p.candidate => m.candidate]_vars

(* A look-back that moves on only forgets: a test that it leaves behind     *)
(* frees its large transfer to be the test of a later one, and so on along  *)
(* the history, but re-evaluating the same rows never finds more sequences  *)
(* than before (repository.py:202-224, pattern_engine.py:135-163).          *)
ForgettingAddsNone ==
  [][rows' = rows => Cardinality(DetectSequences(history')) <= Cardinality(Sequences)]_vars

(* Transfers newer than all that is read take away no sequence that was     *)
(* already detected, unless the limit pushes out old ones                   *)
(* (pattern_engine.py:145-162).                                             *)
NewerKeepsSequences ==
  [][IsPrefix(history, history') => Sequences \subseteq DetectSequences(history')]_vars

=============================================================================
