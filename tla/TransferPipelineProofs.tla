----------------------- MODULE TransferPipelineProofs -----------------------
(* Theorems about TransferPipeline, for every value of its constants.       *)
EXTENDS TransferPipeline, FiniteSetTheorems, WellFoundedInduction, TLAPS

LEMMA IdlePlanTyped == IdlePlan \in Plans /\ AnyTransfer \in Transfers
<1>1. AnyTransfer \in Transfers
  BY PipelineAssumption DEF AnyTransfer
<1> QED
  BY <1>1 DEF IdlePlan, Plans, Verdicts

(* The number of transfers with a property is a natural number.             *)
LEMMA CountTyped ==
  ASSUME NEW S, S \subseteq Transfers
  PROVE  Cardinality(S) \in Nat
BY PipelineAssumption, FS_Subset, FS_CardinalityType

LEMMA RestTyped ==
  ASSUME TypeOK, NEW k \in Tasks, Rest(k)
  PROVE  /\ pc' \in [Tasks -> {"idle", "store", "match", "commit", "stored", "load", "drop"}]
         /\ batch' \in [Tasks -> SUBSET Transfers]
         /\ watch' \in [Tasks -> SUBSET Pairs]
         /\ todo' \in [Tasks -> SUBSET (Transfers \X BOOLEAN)]
         /\ plan' \in [Tasks -> Plans]
BY IdlePlanTyped DEF TypeOK, Rest

LEMMA FaultTyped ==
  ASSUME TypeOK, Fault
  PROVE  faults' \in 0..MaxFaults
BY PipelineAssumption DEF TypeOK, Fault

LEMMA StoreRowsTyped ==
  ASSUME TypeOK, NEW k \in Streams, StoreRows(k)
  PROVE  /\ row' \in [Transfers -> RowStatus]
         /\ processed' \in [Transfers -> BOOLEAN]
         /\ total' \in [Pairs -> Nat]
         /\ fresh' \subseteq Transfers /\ owed' \subseteq Transfers
<1>1. Inserted(k) \subseteq Transfers /\ NeedsMatch(k) \subseteq Transfers
  BY DEF TypeOK, Inserted, NeedsMatch, Tasks
<1>2. row' \in [Transfers -> RowStatus]
  BY DEF TypeOK, StoreRows, RowStatus
<1>3. processed' \in [Transfers -> BOOLEAN]
  BY Zenon DEF TypeOK, StoreRows
<1>4. ASSUME NEW p \in Pairs
      PROVE  total[p] + Cardinality({t \in NewlyConfirmed(k) : PairOf[t] = p}) \in Nat
  <2>1. {t \in NewlyConfirmed(k) : PairOf[t] = p} \subseteq Transfers
    BY DEF TypeOK, NewlyConfirmed, Inserted, Upgraded, Tasks
  <2> QED
    BY <2>1, CountTyped DEF TypeOK
<1>5. total' \in [Pairs -> Nat]
  BY <1>4 DEF StoreRows
<1> QED
  BY <1>1, <1>2, <1>3, <1>5 DEF TypeOK, StoreRows

LEMMA MatchRowsTyped ==
  ASSUME TypeOK, NEW k \in Tasks, MatchRows(plan[k])
  PROVE  /\ tests' \in [Transfers -> TestStatus]
         /\ followups' \subseteq [test : Transfers, large : Transfers]
         /\ confirmAlerts' \subseteq Transfers
         /\ pendingPairs' \subseteq Pairs
         /\ processed' \in [Transfers -> BOOLEAN]
         /\ waived' \subseteq Transfers
<1> DEFINE m == plan[k]
<1>1. m \in Plans /\ m.tx \in Transfers /\ m.test \in Transfers /\ PairOf[m.tx] \in Pairs
  BY PipelineAssumption DEF TypeOK, Plans
<1>2. tests' \in [Transfers -> TestStatus]
  BY DEF TypeOK, MatchRows, TestStatus
<1>3. followups' \subseteq [test : Transfers, large : Transfers]
  BY <1>1 DEF TypeOK, MatchRows
<1>4. confirmAlerts' \subseteq Transfers /\ pendingPairs' \subseteq Pairs
  BY <1>1 DEF TypeOK, MatchRows
<1>5. processed' \in [Transfers -> BOOLEAN] /\ waived' \subseteq Transfers
  BY <1>1 DEF TypeOK, MatchRows
<1> QED
  BY <1>2, <1>3, <1>4, <1>5

(* A nonempty set of transfers has a latest one: the sets                   *)
(* {f \in S : Stamp[e] <= Stamp[f]} are ordered by strict inclusion, which  *)
(* is well founded on finite sets, and a minimal one belongs to a latest e. *)
LEMMA LatestExists ==
  ASSUME NEW S \in SUBSET Transfers, S # {}
  PROVE  \E e \in S : \A f \in S : Stamp[f] <= Stamp[e]
<1> DEFINE After(e) == {f \in S : Stamp[e] <= Stamp[f]}
           Afters == {After(e) : e \in S}
<1>1. \A f \in S : Stamp[f] \in Nat
  BY PipelineAssumption
<1>2. IsFiniteSet(S)
  BY PipelineAssumption, FS_Subset
<1>3. \A e \in S : After(e) \in FiniteSubsetsOf(S)
  <2> SUFFICES ASSUME NEW e \in S PROVE After(e) \in FiniteSubsetsOf(S)
    OBVIOUS
  <2>1. After(e) \in SUBSET S
    OBVIOUS
  <2>2. IsFiniteSet(After(e))
    BY <2>1, <1>2, FS_Subset
  <2> QED
    BY <2>1, <2>2 DEF FiniteSubsetsOf
<1>4. Afters \subseteq FiniteSubsetsOf(S) /\ Afters # {}
  BY <1>3
<1>5. \E U \in Afters : \A V \in Afters : ~(<<V, U>> \in StrictSubsetOrdering(S))
  <2> HIDE DEF Afters
  <2> QED
    BY <1>4, FS_StrictSubsetOrderingWellFounded, WFMin
<1>6. PICK e \in S : \A g \in S : ~(<<After(g), After(e)>> \in StrictSubsetOrdering(S))
  BY <1>5
<1>7. ASSUME NEW f \in S, Stamp[e] < Stamp[f]
      PROVE  FALSE
  <2>1. After(f) \in SUBSET S /\ After(e) \in SUBSET S
    OBVIOUS
  <2>2. After(f) \subseteq After(e)
    BY <1>1, <1>7
  <2>3. e \in After(e) /\ e \notin After(f)
    BY <1>1, <1>7
  <2> HIDE DEF After
  <2>4. <<After(f), After(e)>> \in StrictSubsetOrdering(S)
    BY <2>1, <2>2, <2>3 DEF StrictSubsetOrdering
  <2> QED
    BY <2>4, <1>6
<1> QED
  BY <1>1, <1>7

LEMMA TypeInit == Init => TypeOK
<1> SUFFICES ASSUME Init PROVE TypeOK
  OBVIOUS
<1>1. pc \in [Tasks -> {"idle", "store", "match", "commit", "stored", "load", "drop"}]
      /\ plan \in [Tasks -> Plans]
  BY IdlePlanTyped DEF Init
<1>2. now \in Nat /\ cursor \in Int /\ reach \in Int /\ faults \in 0..MaxFaults
  BY PipelineAssumption DEF Init
<1>3. listed \in [Pairs -> AllListings]
  BY PipelineAssumption DEF Init
<1> QED
  BY <1>1, <1>2, <1>3 DEF Init, TypeOK, RowStatus, TestStatus

(* What the matcher finds is a transfer, so every plan is well formed.      *)
LEMMA PlanMatchTyped ==
  ASSUME TypeOK, NEW k \in Tasks, PlanMatch(k)
  PROVE  plan' \in [Tasks -> Plans]
<1>1. PICK i \in todo[k] :
        LET v == Verdict(i[1], i[2])
            e == IF v = "followup" THEN MostRecent(Completed(i[1])) ELSE AnyTransfer
        IN plan' = [plan EXCEPT ![k] =
             [tx |-> i[1], upgraded |-> i[2], verdict |-> v, test |-> e,
              older |-> IF v = "followup"
                        THEN {f \in PendingFor(i[1]) \ {e} : Stamp[f] <= Stamp[e]}
                        ELSE {}]]
  BY DEF PlanMatch
<1>2. i[1] \in Transfers /\ i[2] \in BOOLEAN
  BY DEF TypeOK
<1>3. Verdict(i[1], i[2]) \in Verdicts
  BY DEF Verdict, TestVerdict, Verdicts
<1>4. ASSUME Verdict(i[1], i[2]) = "followup"
      PROVE  MostRecent(Completed(i[1])) \in Transfers
  <2>1. Completed(i[1]) # {}
    BY <1>4 DEF Verdict, TestVerdict
  <2>2. Completed(i[1]) \subseteq Transfers
    BY DEF Completed, PendingFor
  <2> QED
    BY <1>2, <2>1, <2>2, LatestExists DEF MostRecent
<1>5. PendingFor(i[1]) \subseteq Transfers
  BY DEF PendingFor
<1> QED
  BY <1>1, <1>2, <1>3, <1>4, <1>5, IdlePlanTyped DEF TypeOK, Plans

LEMMA ReachTyped ==
  ASSUME TypeOK, NEW k \in Streams, Fetch(k)
  PROVE  reach' \in Int
<1>1. PICK page \in (SUBSET Offered(k)) \ {{}} :
        reach' = IF k = "confirmed"
                 THEN CHOOSE m \in {Stamp[t] : t \in page} : \A t \in page : Stamp[t] <= m
                 ELSE reach
  BY DEF Fetch
<1>2. page \in SUBSET Transfers /\ page # {}
  BY DEF Offered
<1>3. \E m \in {Stamp[t] : t \in page} : \A t \in page : Stamp[t] <= m
  BY <1>2, LatestExists
<1>4. {Stamp[t] : t \in page} \subseteq Int
  BY <1>2, PipelineAssumption
<1>5. (CHOOSE m \in {Stamp[t] : t \in page} : \A t \in page : Stamp[t] <= m) \in Int
  BY <1>3, <1>4
<1> QED
  BY <1>1, <1>5 DEF TypeOK

LEMMA TypeNext == TypeOK /\ [Next]_vars => TypeOK'
<1> SUFFICES ASSUME TypeOK, [Next]_vars PROVE TypeOK'
  OBVIOUS
<1> USE DEF tables, memory, task, env, history
<1>1. CASE Tick
  BY <1>1, PipelineAssumption DEF TypeOK, Tick
<1>2. ASSUME NEW p \in Pairs, Relist(p) PROVE TypeOK'
  BY <1>2, PipelineAssumption DEF TypeOK, Relist
<1>3. CASE Crash
  <2>1. faults' \in 0..MaxFaults
    BY <1>3, FaultTyped DEF Crash
  <2>2. pendingPairs' \subseteq Pairs
    BY <1>3, PipelineAssumption DEF Crash, Reload, PairsWithPending
  <2>3. plan' \in [Tasks -> Plans]
    BY <1>3, IdlePlanTyped DEF Crash
  <2> QED
    BY <1>3, <2>1, <2>2, <2>3 DEF TypeOK, Crash
<1>4. CASE SkipGap
  <2>1. cursor' \in Int
    BY <1>4, PipelineAssumption DEF TypeOK, SkipGap
  <2> QED
    BY <1>4, <2>1 DEF TypeOK, SkipGap
<1>5. ASSUME NEW k \in Streams, Fetch(k) PROVE TypeOK'
  <2>1. reach' \in Int
    BY <1>5, ReachTyped
  <2>2. watch' \in [Tasks -> SUBSET Pairs]
    BY <1>5 DEF Fetch, TypeOK, MatchPairs
  <2>3. batch' \in [Tasks -> SUBSET Transfers]
    <3>1. PICK page \in SUBSET Offered(k) :
            batch' = [batch EXCEPT ![k] = {t \in page : <<t, Confirmed(k)>> \notin seen}]
      BY <1>5 DEF Fetch
    <3>2. {t \in page : <<t, Confirmed(k)>> \notin seen} \subseteq Transfers
      BY DEF Offered
    <3> QED
      BY <3>1, <3>2 DEF TypeOK
  <2>4. pc' \in [Tasks -> {"idle", "store", "match", "commit", "stored", "load", "drop"}]
    BY <1>5 DEF Fetch, TypeOK
  <2> QED
    BY <1>5, <2>1, <2>2, <2>3, <2>4 DEF TypeOK, Fetch
<1>6. ASSUME NEW k \in Streams, Store(k) PROVE TypeOK'
  <2>1. StoreRows(k) /\ k \in Tasks
    BY <1>6 DEF Store, Tasks
  <2>2. seen' \subseteq Transfers \X BOOLEAN
    BY <1>6, <2>1 DEF TypeOK, Store, Confirmed
  <2>3. NeedsMatch(k) \subseteq Transfers /\ NeedsRematch(k) \subseteq Transfers
    BY <2>1 DEF TypeOK, NeedsMatch, NeedsRematch, Inserted, Upgraded
  <2>4. todo' \in [Tasks -> SUBSET (Transfers \X BOOLEAN)]
    BY <1>6, <2>3 DEF TypeOK, Store
  <2> QED
    BY <1>6, <2>1, <2>2, <2>4, StoreRowsTyped DEF TypeOK, Store, StoreRows
<1>7. ASSUME NEW k \in Streams, StoreFails(k) PROVE TypeOK'
  BY <1>7, RestTyped, FaultTyped DEF TypeOK, StoreFails, Tasks
<1>8. ASSUME NEW k \in Streams, StoreUnacknowledged(k) PROVE TypeOK'
  BY <1>8, RestTyped, FaultTyped, StoreRowsTyped DEF TypeOK, StoreUnacknowledged, StoreRows, Tasks
<1>9. ASSUME NEW k \in Tasks, PlanMatch(k) PROVE TypeOK'
  BY <1>9, PlanMatchTyped DEF TypeOK, PlanMatch
<1>10. ASSUME NEW k \in Tasks, FinishMatch(k) PROVE TypeOK'
  <2>1. MatchRows(plan[k])
    BY <1>10 DEF FinishMatch
  <2>2. listed' \in [Pairs -> AllListings]
    BY <1>10 DEF TypeOK, FinishMatch, AllListings
  <2>3. plan' \in [Tasks -> Plans]
    BY <1>10, IdlePlanTyped DEF TypeOK, FinishMatch
  <2> QED
    BY <1>10, <2>1, <2>2, <2>3, MatchRowsTyped DEF TypeOK, FinishMatch, MatchRows
<1>11. ASSUME NEW k \in Tasks, MayLeavePair(plan[k]) PROVE pendingPairs' \subseteq Pairs
  BY <1>11, PipelineAssumption DEF TypeOK, MayLeavePair, Plans
<1>12. ASSUME NEW k \in Tasks, MatchFails(k) PROVE TypeOK'
  BY <1>11, <1>12, RestTyped, FaultTyped DEF TypeOK, MatchFails
<1>13. ASSUME NEW k \in Tasks, MatchUnacknowledged(k) PROVE TypeOK'
  BY <1>13, RestTyped, FaultTyped, MatchRowsTyped DEF TypeOK, MatchUnacknowledged, MatchRows
<1>14. ASSUME NEW k \in Tasks, MatchRefused(k) PROVE TypeOK'
  <2>1. plan' \in [Tasks -> Plans]
    BY <1>14, IdlePlanTyped DEF TypeOK, MatchRefused
  <2>2. waived' \subseteq Transfers
    BY <1>14 DEF TypeOK, MatchRefused, Plans
  <2> QED
    BY <1>11, <1>14, <2>1, <2>2, FaultTyped DEF TypeOK, MatchRefused
<1>15. ASSUME NEW k \in Tasks, MatchesDone(k) PROVE TypeOK'
  BY <1>15 DEF TypeOK, MatchesDone, AfterMatches
<1>16. CASE AdvanceCursor
  <2>1. cursor' \in Int /\ faults' \in 0..MaxFaults
    BY <1>16, FaultTyped DEF TypeOK, AdvanceCursor, Later
  <2> QED
    BY <1>16, <2>1, RestTyped DEF TypeOK, AdvanceCursor, Tasks
<1>17. CASE ExpireTests
  BY <1>17 DEF TypeOK, ExpireTests, TestStatus
<1>18. CASE LoadUnmatched
  BY <1>18 DEF TypeOK, LoadUnmatched, Unmatched
<1>19. CASE DropUnconfirmed
  <2>1. Maintenance \in Tasks
    BY DEF Tasks
  <2>2. processed' \in [Transfers -> BOOLEAN]
    BY <1>19, Zenon DEF TypeOK, DropUnconfirmed
  <2> QED
    BY <1>19, <2>1, <2>2, RestTyped DEF TypeOK, DropUnconfirmed, RowStatus, TestStatus
<1>20. CASE MaintenanceFails
  BY <1>20, RestTyped, FaultTyped DEF TypeOK, MaintenanceFails, Tasks
<1>21. CASE UNCHANGED vars
  BY <1>21 DEF TypeOK, vars
<1> QED
  BY <1>1, <1>2, <1>3, <1>4, <1>5, <1>6, <1>7, <1>8, <1>9, <1>10, <1>12, <1>13, <1>14,
     <1>15, <1>16, <1>17, <1>18, <1>19, <1>20, <1>21 DEF Next, Matching

(* Type correctness of the pipeline: in particular a matching plan always   *)
(* names real transfers, and totals never go negative.                      *)
THEOREM PipelineTypes == Spec => []TypeOK
BY TypeInit, TypeNext, PTL DEF Spec

-----------------------------------------------------------------------------
(* Test events only move forward.                                           *)

SettledStep == \A t \in Transfers :
  /\ tests[t] \notin {"NONE", "PENDING"} => tests'[t] \notin {"NONE", "PENDING"}
  /\ tests[t] # "NONE" => tests'[t] # "NONE"

LEMMA MatchRowsSettle ==
  ASSUME TypeOK, NEW m, MatchRows(m)
  PROVE  SettledStep
BY DEF TypeOK, MatchRows, CreatesTest, SettledStep

LEMMA TestsMoveForward == TypeOK /\ [Next]_vars => SettledStep
<1> SUFFICES ASSUME TypeOK, [Next]_vars PROVE SettledStep
  OBVIOUS
<1> USE DEF tables, memory, task, env, history
<1>1. CASE UNCHANGED tests
  BY <1>1 DEF SettledStep
<1>2. ASSUME NEW k \in Tasks, FinishMatch(k) \/ MatchUnacknowledged(k) PROVE SettledStep
  BY <1>2, MatchRowsSettle DEF FinishMatch, MatchUnacknowledged
<1>3. CASE ExpireTests
  BY <1>3 DEF TypeOK, ExpireTests, WindowOver, SettledStep
<1>4. CASE DropUnconfirmed
  BY <1>4 DEF TypeOK, DropUnconfirmed, SettledStep
<1>5. CASE Tick \/ (\E p \in Pairs : Relist(p)) \/ Crash \/ SkipGap \/ AdvanceCursor
           \/ LoadUnmatched \/ MaintenanceFails \/ UNCHANGED vars
  BY <1>1, <1>5 DEF Tick, Relist, Crash, SkipGap, AdvanceCursor, LoadUnmatched,
     MaintenanceFails, vars
<1>6. ASSUME NEW k \in Streams,
             Fetch(k) \/ Store(k) \/ StoreFails(k) \/ StoreUnacknowledged(k)
      PROVE  SettledStep
  BY <1>1, <1>6 DEF Fetch, Store, StoreFails, StoreUnacknowledged, StoreRows
<1>7. ASSUME NEW k \in Tasks,
             PlanMatch(k) \/ MatchFails(k) \/ MatchRefused(k) \/ MatchesDone(k)
      PROVE  SettledStep
  BY <1>1, <1>7 DEF PlanMatch, MatchFails, MatchRefused, MatchesDone
<1> QED
  BY <1>2, <1>3, <1>4, <1>5, <1>6, <1>7 DEF Next, Matching

(* A settled test event is never pending again, in every interleaving of    *)
(* the streams, maintenance, errors and restarts: the unconditional status  *)
(* updates of a follow-up may overwrite each other but revive nothing.      *)
THEOREM SettledForGood == Spec => SettledStaysSettled
<1>1. TypeOK /\ [Next]_vars =>
        [\A t \in Transfers : tests[t] \notin {"NONE", "PENDING"}
                                => tests'[t] \notin {"NONE", "PENDING"}]_tests
  BY TestsMoveForward DEF SettledStep
<1> QED
  BY <1>1, PipelineTypes, PTL DEF Spec, SettledStaysSettled

-----------------------------------------------------------------------------
(* pending_pairs covers every pending test.                                 *)

LEMMA MatchRowsCover ==
  ASSUME TypeOK, PendingCovered, NEW k \in Tasks, MatchRows(plan[k])
  PROVE  PendingCovered'
<1> SUFFICES ASSUME NEW t \in Transfers, tests'[t] = "PENDING"
             PROVE  PairOf[t] \in pendingPairs'
  BY DEF PendingCovered
<1>1. CASE CreatesTest(plan[k]) /\ t = plan[k].tx
  BY <1>1 DEF MatchRows
<1>2. CASE ~(CreatesTest(plan[k]) /\ t = plan[k].tx)
  BY <1>2 DEF MatchRows, TypeOK, PendingCovered
<1> QED
  BY <1>1, <1>2

LEMMA PendingCoveredNext == TypeOK /\ PendingCovered /\ [Next]_vars => PendingCovered'
<1> SUFFICES ASSUME TypeOK, PendingCovered, [Next]_vars PROVE PendingCovered'
  OBVIOUS
<1> USE DEF tables, memory, task, env, history
<1>1. CASE UNCHANGED tests /\ pendingPairs \subseteq pendingPairs'
  BY <1>1 DEF PendingCovered
<1>2. ASSUME NEW k \in Tasks, FinishMatch(k) \/ MatchUnacknowledged(k) PROVE PendingCovered'
  BY <1>2, MatchRowsCover DEF FinishMatch, MatchUnacknowledged
<1>3. CASE ExpireTests
  BY <1>3 DEF TypeOK, ExpireTests, PendingCovered
<1>4. CASE DropUnconfirmed
  BY <1>4 DEF TypeOK, DropUnconfirmed, PendingCovered
<1>5. CASE Crash
  BY <1>5 DEF Crash, Reload, PairsWithPending, PendingCovered
<1>6. CASE Tick \/ (\E p \in Pairs : Relist(p)) \/ SkipGap \/ AdvanceCursor
           \/ LoadUnmatched \/ MaintenanceFails \/ UNCHANGED vars
  BY <1>1, <1>6 DEF Tick, Relist, SkipGap, AdvanceCursor, LoadUnmatched,
     MaintenanceFails, vars
<1>7. ASSUME NEW k \in Streams,
             Fetch(k) \/ Store(k) \/ StoreFails(k) \/ StoreUnacknowledged(k)
      PROVE  PendingCovered'
  BY <1>1, <1>7 DEF Fetch, Store, StoreFails, StoreUnacknowledged, StoreRows
<1>8. ASSUME NEW k \in Tasks,
             PlanMatch(k) \/ MatchFails(k) \/ MatchRefused(k) \/ MatchesDone(k)
      PROVE  PendingCovered'
  BY <1>1, <1>8 DEF PlanMatch, MatchFails, MatchRefused, MatchesDone, MayLeavePair
<1> QED
  BY <1>2, <1>3, <1>4, <1>5, <1>6, <1>7, <1>8 DEF Next, Matching

(* The pair of a pending test is always among the pairs that process hands  *)
(* to the matcher; PendingCovered is inductive together with the types.     *)
THEOREM PendingTestsAreWatched == Spec => []PendingCovered
<1>1. Init => PendingCovered
  BY DEF Init, PendingCovered
<1> QED
  BY <1>1, PendingCoveredNext, PipelineTypes, PTL DEF Spec

-----------------------------------------------------------------------------
(* wallet_pairs.total_transfers counts the confirmed rows.                  *)

ConfirmedOf(p) == {t \in Transfers : row[t] = "CONFIRMED" /\ PairOf[t] = p}

LEMMA TotalsExactStore ==
  ASSUME TypeOK, TotalsExact, NEW k \in Streams, StoreRows(k)
  PROVE  TotalsExact'
<1> SUFFICES ASSUME NEW p \in Pairs
             PROVE  total'[p] = Cardinality(ConfirmedOf(p)')
  BY DEF TotalsExact, ConfirmedOf
<1> DEFINE New == {t \in NewlyConfirmed(k) : PairOf[t] = p}
<1>1. NewlyConfirmed(k) \subseteq Transfers
  BY DEF TypeOK, NewlyConfirmed, Inserted, Upgraded, Tasks
<1>2. IsFiniteSet(New) /\ IsFiniteSet(ConfirmedOf(p))
  BY <1>1, PipelineAssumption, FS_Subset DEF ConfirmedOf
<1>3. \A t \in NewlyConfirmed(k) : row[t] # "CONFIRMED"
  BY DEF NewlyConfirmed, Inserted, Upgraded
<1>4. ConfirmedOf(p) \cap New = {}
  BY <1>3 DEF ConfirmedOf
<1>5. ConfirmedOf(p)' = ConfirmedOf(p) \cup New
  <2>1. \A t \in Transfers : row'[t] = "CONFIRMED" <=>
                               (row[t] = "CONFIRMED" \/ t \in NewlyConfirmed(k))
    BY DEF StoreRows, Inserted, TypeOK
  <2> QED
    BY <1>1, <2>1 DEF ConfirmedOf
<1>6. Cardinality(ConfirmedOf(p)') = Cardinality(ConfirmedOf(p)) + Cardinality(New)
  <2>1. Cardinality(ConfirmedOf(p) \cap New) = 0
    BY <1>4, FS_EmptySet
  <2>2. Cardinality(New) \in Nat /\ Cardinality(ConfirmedOf(p)) \in Nat
    BY <1>2, FS_CardinalityType
  <2>3. Cardinality(ConfirmedOf(p) \cup New)
          = Cardinality(ConfirmedOf(p)) + Cardinality(New) - Cardinality(ConfirmedOf(p) \cap New)
    BY <1>2, FS_Union
  <2> QED
    BY <1>5, <2>1, <2>2, <2>3
<1>7. total[p] = Cardinality(ConfirmedOf(p))
  BY DEF TotalsExact, ConfirmedOf
<1> QED
  BY <1>6, <1>7 DEF StoreRows

LEMMA TotalsExactNext == TypeOK /\ TotalsExact /\ [Next]_vars => TotalsExact'
<1> SUFFICES ASSUME TypeOK, TotalsExact, [Next]_vars PROVE TotalsExact'
  OBVIOUS
<1> USE DEF tables, memory, task, env, history
<1>1. CASE UNCHANGED <<row, total>>
  BY <1>1 DEF TotalsExact
<1>2. ASSUME NEW k \in Streams, Store(k) \/ StoreUnacknowledged(k) PROVE TotalsExact'
  BY <1>2, TotalsExactStore DEF Store, StoreUnacknowledged
<1>3. CASE DropUnconfirmed
  <2>1. \A t \in Transfers : row'[t] = "CONFIRMED" <=> row[t] = "CONFIRMED"
    BY <1>3 DEF DropUnconfirmed, Stale, TypeOK
  <2>2. \A p \in Pairs : ConfirmedOf(p)' = ConfirmedOf(p)
    BY <2>1 DEF ConfirmedOf
  <2> QED
    BY <1>3, <2>2 DEF TotalsExact, ConfirmedOf, DropUnconfirmed
<1>4. CASE Tick \/ (\E p \in Pairs : Relist(p)) \/ Crash \/ SkipGap \/ AdvanceCursor
           \/ ExpireTests \/ LoadUnmatched \/ MaintenanceFails \/ UNCHANGED vars
  BY <1>1, <1>4 DEF Tick, Relist, Crash, SkipGap, AdvanceCursor, ExpireTests,
     LoadUnmatched, MaintenanceFails, vars
<1>5. ASSUME NEW k \in Streams, Fetch(k) \/ StoreFails(k) PROVE TotalsExact'
  BY <1>1, <1>5 DEF Fetch, StoreFails
<1>6. ASSUME NEW k \in Tasks, Matching(k) PROVE TotalsExact'
  BY <1>1, <1>6 DEF Matching, PlanMatch, FinishMatch, MatchFails, MatchUnacknowledged,
     MatchRefused, MatchesDone, MatchRows
<1> QED
  BY <1>2, <1>3, <1>4, <1>5, <1>6 DEF Next

(* total_transfers is exact for any number of transfers, streams and        *)
(* faults: the rows a store transaction counts were not CONFIRMED before    *)
(* it and are after it, so the counted sets are disjoint.                   *)
THEOREM PairTotalsExact == Spec => []TotalsExact
<1>1. Init => TotalsExact
  <2> SUFFICES ASSUME Init, NEW p \in Pairs
               PROVE  total[p] = Cardinality(ConfirmedOf(p))
    BY DEF TotalsExact, ConfirmedOf
  <2>1. ConfirmedOf(p) = {}
    BY DEF Init, ConfirmedOf
  <2> QED
    BY <2>1, FS_EmptySet DEF Init
<1> QED
  BY <1>1, TotalsExactNext, PipelineTypes, PTL DEF Spec

-----------------------------------------------------------------------------
(* Follow-ups.  Between PlanMatch and the commit other tasks commit, so     *)
(* what a plan found must still be true enough when it is written.          *)

PlansSound == \A k \in Tasks :
  plan[k].verdict = "followup" =>
    /\ PairOf[plan[k].test] = PairOf[plan[k].tx]
    /\ <<plan[k].tx, plan[k].test>> \in Completes
    /\ Stamp[plan[k].test] <= Stamp[plan[k].tx]
    /\ Stamp[plan[k].tx] <= Stamp[plan[k].test] + Window
    /\ tests[plan[k].test] # "NONE"

LEMMA PlanMatchSound ==
  ASSUME TypeOK, PlansSound, NEW k \in Tasks, PlanMatch(k)
  PROVE  PlansSound'
<1>1. PICK i \in todo[k] :
        LET v == Verdict(i[1], i[2])
            e == IF v = "followup" THEN MostRecent(Completed(i[1])) ELSE AnyTransfer
        IN plan' = [plan EXCEPT ![k] =
             [tx |-> i[1], upgraded |-> i[2], verdict |-> v, test |-> e,
              older |-> IF v = "followup"
                        THEN {f \in PendingFor(i[1]) \ {e} : Stamp[f] <= Stamp[e]}
                        ELSE {}]]
  BY DEF PlanMatch
<1>2. i[1] \in Transfers /\ i[2] \in BOOLEAN
  BY DEF TypeOK
<1>3. UNCHANGED tests
  BY DEF PlanMatch, tables
<1>4. ASSUME Verdict(i[1], i[2]) = "followup"
      PROVE  MostRecent(Completed(i[1])) \in Completed(i[1])
  <2>1. Completed(i[1]) # {}
    BY <1>4 DEF Verdict, TestVerdict
  <2>2. Completed(i[1]) \in SUBSET Transfers
    BY DEF Completed, PendingFor
  <2> QED
    BY <2>1, <2>2, LatestExists DEF MostRecent
<1>5. ASSUME NEW l \in Tasks, l # k PROVE plan'[l] = plan[l]
  BY <1>1, <1>5 DEF TypeOK
<1>6. plan'[k].verdict = Verdict(i[1], i[2]) /\ plan'[k].tx = i[1]
      /\ (plan'[k].verdict = "followup" => plan'[k].test \in Completed(i[1]))
  BY <1>1, <1>4 DEF TypeOK
<1> QED
  BY <1>3, <1>5, <1>6 DEF PlansSound, Completed, PendingFor

LEMMA PlansSoundNext == TypeOK /\ PlansSound /\ [Next]_vars => PlansSound'
<1> SUFFICES ASSUME TypeOK, PlansSound, [Next]_vars PROVE PlansSound'
  OBVIOUS
<1> USE DEF tables, memory, task, env, history
<1>1. SettledStep
  BY TestsMoveForward
<1>2. IdlePlan.verdict # "followup"
  BY DEF IdlePlan
<1>3. \A k \in Tasks : plan[k].test \in Transfers
  BY DEF TypeOK, Plans
<1>4. CASE \A k \in Tasks : plan'[k] \in {plan[k], IdlePlan}
  BY <1>1, <1>2, <1>3, <1>4 DEF PlansSound, SettledStep
<1>5. CASE UNCHANGED plan
  BY <1>4, <1>5
<1>6. ASSUME NEW k \in Tasks, plan' = [plan EXCEPT ![k] = IdlePlan] PROVE PlansSound'
  BY <1>4, <1>6 DEF TypeOK
<1>7. CASE Crash
  BY <1>4, <1>7 DEF Crash
<1>8. CASE Tick \/ (\E p \in Pairs : Relist(p)) \/ SkipGap
           \/ ExpireTests \/ LoadUnmatched \/ UNCHANGED vars
  BY <1>5, <1>8 DEF Tick, Relist, SkipGap, ExpireTests, LoadUnmatched, vars
<1>9. CASE AdvanceCursor \/ DropUnconfirmed \/ MaintenanceFails
  BY <1>6, <1>9 DEF AdvanceCursor, DropUnconfirmed, MaintenanceFails, Rest, Tasks
<1>10. ASSUME NEW k \in Streams,
              Fetch(k) \/ Store(k) \/ StoreFails(k) \/ StoreUnacknowledged(k)
       PROVE  PlansSound'
  BY <1>5, <1>6, <1>10 DEF Fetch, Store, StoreFails, StoreUnacknowledged, Rest, Tasks
<1>11. ASSUME NEW k \in Tasks, Matching(k) PROVE PlansSound'
  BY <1>5, <1>6, <1>11, PlanMatchSound DEF Matching, FinishMatch, MatchFails,
     MatchUnacknowledged, MatchRefused, MatchesDone, Rest
<1> QED
  BY <1>7, <1>8, <1>9, <1>10, <1>11 DEF Next

LEMMA MatchRowsFollowup ==
  ASSUME TypeOK, PlansSound, FollowupsSound, NEW k \in Tasks, MatchRows(plan[k])
  PROVE  FollowupsSound'
<1> DEFINE m == plan[k]
           new == [test |-> m.test, large |-> m.tx]
<1>1. SettledStep
  BY MatchRowsSettle
<1>2. m.tx \in Transfers /\ m.test \in Transfers
  BY DEF TypeOK, Plans
<1>3. \A f \in followups : f.test \in Transfers /\ tests'[f.test] \notin {"NONE", "PENDING"}
  BY <1>1 DEF TypeOK, FollowupsSound, SettledStep
<1>4. CASE ~CreatesFollowup(m)
  BY <1>3, <1>4 DEF FollowupsSound, MatchRows
<1>5. CASE CreatesFollowup(m)
  <2>1. followups' = followups \cup {new}
    BY <1>5 DEF MatchRows
  <2>2. tests'[m.test] = "FOLLOWED_UP"
    BY <1>2, <1>5 DEF MatchRows, CreatesFollowup, CreatesTest
  <2>3. \A f \in followups : f.test # new.test /\ f.large # new.large
    BY <1>5 DEF CreatesFollowup
  <2>4. /\ PairOf[new.test] = PairOf[new.large] /\ <<new.large, new.test>> \in Completes
        /\ Stamp[new.test] <= Stamp[new.large] /\ Stamp[new.large] <= Stamp[new.test] + Window
    BY <1>5 DEF PlansSound, CreatesFollowup
  <2>5. tests'[new.test] \notin {"NONE", "PENDING"}
    BY <2>2
  <2> HIDE DEF new
  <2> QED
    BY <1>3, <2>1, <2>3, <2>4, <2>5 DEF FollowupsSound
<1> QED
  BY <1>4, <1>5

LEMMA FollowupsSoundNext ==
  TypeOK /\ PlansSound /\ FollowupsSound /\ [Next]_vars => FollowupsSound'
<1> SUFFICES ASSUME TypeOK, PlansSound, FollowupsSound, [Next]_vars PROVE FollowupsSound'
  OBVIOUS
<1> USE DEF tables, memory, task, env, history
<1>1. SettledStep
  BY TestsMoveForward
<1>2. CASE UNCHANGED followups
  BY <1>1, <1>2 DEF TypeOK, FollowupsSound, SettledStep
<1>3. ASSUME NEW k \in Tasks, FinishMatch(k) \/ MatchUnacknowledged(k) PROVE FollowupsSound'
  BY <1>3, MatchRowsFollowup DEF FinishMatch, MatchUnacknowledged
<1>4. CASE Tick \/ (\E p \in Pairs : Relist(p)) \/ Crash \/ SkipGap \/ AdvanceCursor
           \/ ExpireTests \/ LoadUnmatched \/ DropUnconfirmed \/ MaintenanceFails
           \/ UNCHANGED vars
  BY <1>2, <1>4 DEF Tick, Relist, Crash, SkipGap, AdvanceCursor, ExpireTests,
     LoadUnmatched, DropUnconfirmed, MaintenanceFails, vars
<1>5. ASSUME NEW k \in Streams,
             Fetch(k) \/ Store(k) \/ StoreFails(k) \/ StoreUnacknowledged(k)
      PROVE  FollowupsSound'
  BY <1>2, <1>5 DEF Fetch, Store, StoreFails, StoreUnacknowledged, StoreRows
<1>6. ASSUME NEW k \in Tasks,
             PlanMatch(k) \/ MatchFails(k) \/ MatchRefused(k) \/ MatchesDone(k)
      PROVE  FollowupsSound'
  BY <1>2, <1>6 DEF PlanMatch, MatchFails, MatchRefused, MatchesDone
<1> QED
  BY <1>3, <1>4, <1>5, <1>6 DEF Next, Matching

(* Every follow-up row is justified and unique per test and per large       *)
(* transfer.  FollowupsSound is not inductive alone: a stale plan could     *)
(* commit anything, so PlansSound says what a plan still guarantees.        *)
THEOREM FollowupsAreSound == Spec => []FollowupsSound
<1>1. Init => PlansSound /\ FollowupsSound
  BY DEF Init, PlansSound, FollowupsSound, IdlePlan
<1> QED
  BY <1>1, PlansSoundNext, FollowupsSoundNext, PipelineTypes, PTL DEF Spec

-----------------------------------------------------------------------------
(* No alert is swallowed, when SEND_CONFIRMATION_ALERTS is off: upgraded    *)
(* transfers are then never matched a second time.                          *)

OnlyFirstMatches == \A k \in Tasks :
  /\ \A i \in todo[k] : ~i[2]
  /\ ~plan[k].upgraded /\ plan[k].verdict # "again"

OwedRows == \A t \in owed : row[t] # "ABSENT"

(* AlertedOrWaived, also of transfers that some task still holds: another   *)
(* task may have matched them meanwhile.                                    *)
ProcessedIsDecided == \A t \in owed \cap InBand :
  processed[t] /\ row[t] # "DROPPED" => tests[t] # "NONE" \/ t \in waived

MatchedOnce == OnlyFirstMatches /\ OwedRows /\ ProcessedIsDecided

LEMMA StoreRowsDecided ==
  ASSUME TypeOK, MatchedOnce, ~ConfirmationAlerts, NEW k \in Streams, StoreRows(k)
  PROVE  OwedRows' /\ ProcessedIsDecided'
<1>1. NeedsRematch(k) = {}
  BY DEF NeedsRematch
<1>2. NeedsMatch(k) \subseteq Inserted(k) /\ Inserted(k) \subseteq Transfers
      /\ \A t \in Inserted(k) : row[t] = "ABSENT"
  BY DEF NeedsMatch, Inserted, TypeOK, Tasks
<1>3. \A t \in Transfers : row'[t] # "ABSENT" <=> (row[t] # "ABSENT" \/ t \in Inserted(k))
  BY <1>2 DEF StoreRows, NewlyConfirmed, Upgraded, TypeOK
<1>4. OwedRows'
  BY <1>2, <1>3 DEF MatchedOnce, OwedRows, StoreRows, TypeOK
<1>5. ASSUME NEW t \in owed' \cap InBand, processed'[t], row'[t] # "DROPPED"
      PROVE  tests'[t] # "NONE" \/ t \in waived'
  <2>1. t \in Transfers /\ UNCHANGED <<tests, waived>>
    BY <1>2, <1>5 DEF StoreRows, TypeOK
  <2>2. t \notin NeedsMatch(k)
    BY <1>2, <1>5, <2>1 DEF StoreRows
  <2>3. t \in owed
    BY <1>5, <2>2 DEF StoreRows
  <2>4. row[t] # "ABSENT" /\ t \notin Inserted(k)
    BY <1>2, <2>3 DEF MatchedOnce, OwedRows
  <2>5. processed[t]
    BY <1>5, <2>1, <2>4 DEF StoreRows
  <2>6. row[t] # "DROPPED"
    BY <1>5, <2>1, <2>4 DEF StoreRows, NewlyConfirmed, Upgraded
  <2> QED
    BY <1>5, <2>1, <2>3, <2>5, <2>6 DEF MatchedOnce, ProcessedIsDecided
<1> QED
  BY <1>4, <1>5 DEF ProcessedIsDecided

LEMMA MatchRowsDecided ==
  ASSUME TypeOK, MatchedOnce, NEW k \in Tasks, MatchRows(plan[k])
  PROVE  OwedRows' /\ ProcessedIsDecided'
<1> DEFINE m == plan[k]
<1>1. m.tx \in Transfers /\ ~m.upgraded
  BY DEF TypeOK, Plans, MatchedOnce, OnlyFirstMatches
<1>2. UNCHANGED <<row, owed>> /\ waived \subseteq waived'
  BY DEF MatchRows
<1>3. SettledStep
  BY MatchRowsSettle
<1>4. OwedRows'
  BY <1>2 DEF MatchedOnce, OwedRows
<1>5. ASSUME NEW t \in owed \cap InBand, processed'[t], row[t] # "DROPPED"
      PROVE  tests'[t] # "NONE" \/ t \in waived'
  <2>1. t \in Transfers
    BY <1>5 DEF TypeOK
  <2>2. CASE t # m.tx
    <3>1. processed[t]
      BY <1>1, <1>5, <2>1, <2>2 DEF MatchRows, TypeOK
    <3> QED
      BY <1>2, <1>3, <1>5, <2>1, <3>1 DEF MatchedOnce, ProcessedIsDecided, SettledStep
  <2>3. CASE t = m.tx /\ m.verdict # "test"
    BY <2>3 DEF MatchRows, MatchedOnce, OnlyFirstMatches
  <2>4. CASE t = m.tx /\ m.verdict = "test"
    BY <1>3, <2>1, <2>4 DEF MatchRows, CreatesTest, SettledStep, TypeOK
  <2> QED
    BY <2>2, <2>3, <2>4
<1> QED
  BY <1>2, <1>4, <1>5 DEF ProcessedIsDecided

LEMMA OnlyFirstMatchesNext ==
  ~ConfirmationAlerts /\ TypeOK /\ OnlyFirstMatches /\ [Next]_vars => OnlyFirstMatches'
<1> SUFFICES ASSUME ~ConfirmationAlerts, TypeOK, OnlyFirstMatches, [Next]_vars
             PROVE  OnlyFirstMatches'
  OBVIOUS
<1> USE DEF tables, memory, task, env, history
<1>1. ~IdlePlan.upgraded /\ IdlePlan.verdict # "again"
  BY DEF IdlePlan
<1>2. CASE \A k \in Tasks : todo'[k] \subseteq todo[k] /\ plan'[k] \in {plan[k], IdlePlan}
  BY <1>1, <1>2 DEF OnlyFirstMatches
<1>3. ASSUME NEW k \in Tasks, Rest(k) PROVE OnlyFirstMatches'
  BY <1>2, <1>3 DEF Rest, TypeOK
<1>4. CASE UNCHANGED <<todo, plan>>
  BY <1>2, <1>4
<1>5. CASE Tick \/ (\E p \in Pairs : Relist(p)) \/ SkipGap \/ ExpireTests
           \/ UNCHANGED vars
  BY <1>4, <1>5 DEF Tick, Relist, SkipGap, ExpireTests, vars
<1>6. CASE Crash
  BY <1>2, <1>6 DEF Crash
<1>7. CASE AdvanceCursor \/ DropUnconfirmed \/ MaintenanceFails
  BY <1>3, <1>7 DEF AdvanceCursor, DropUnconfirmed, MaintenanceFails, Tasks
<1>8. CASE LoadUnmatched
  BY <1>8 DEF LoadUnmatched, OnlyFirstMatches, TypeOK, Tasks
<1>9. ASSUME NEW k \in Streams, Fetch(k) \/ StoreFails(k) \/ StoreUnacknowledged(k)
      PROVE  OnlyFirstMatches'
  BY <1>3, <1>4, <1>9 DEF Fetch, StoreFails, StoreUnacknowledged, Tasks
<1>10. ASSUME NEW k \in Streams, Store(k) PROVE OnlyFirstMatches'
  <2>1. NeedsRematch(k) = {} /\ k \in Tasks
    BY DEF NeedsRematch, Tasks
  <2>2. \A i \in (NeedsMatch(k) \X {FALSE}) \cup (NeedsRematch(k) \X {TRUE}) : ~i[2]
    BY <2>1
  <2>3. \A i \in todo'[k] : ~i[2]
    BY <1>10, <2>1, <2>2 DEF Store, TypeOK
  <2>4. \A l \in Tasks : l # k => todo'[l] = todo[l]
    BY <1>10 DEF Store, TypeOK
  <2> QED
    BY <1>10, <2>3, <2>4 DEF Store, OnlyFirstMatches
<1>11. ASSUME NEW k \in Tasks, PlanMatch(k) PROVE OnlyFirstMatches'
  <2>1. PICK i \in todo[k] : plan'[k].upgraded = i[2] /\ plan'[k].verdict = Verdict(i[1], i[2])
    BY <1>11 DEF PlanMatch, TypeOK
  <2>2. Verdict(i[1], i[2]) # "again"
    BY <2>1 DEF OnlyFirstMatches, Verdict, TestVerdict
  <2>3. \A l \in Tasks : l # k => plan'[l] = plan[l]
    BY <1>11 DEF PlanMatch, TypeOK
  <2> QED
    BY <1>11, <2>1, <2>2, <2>3 DEF PlanMatch, OnlyFirstMatches
<1>12. ASSUME NEW k \in Tasks, FinishMatch(k) \/ MatchRefused(k) PROVE OnlyFirstMatches'
  BY <1>2, <1>12 DEF FinishMatch, MatchRefused, TypeOK
<1>13. ASSUME NEW k \in Tasks, MatchFails(k) \/ MatchUnacknowledged(k) \/ MatchesDone(k)
       PROVE  OnlyFirstMatches'
  BY <1>3, <1>4, <1>13 DEF MatchFails, MatchUnacknowledged, MatchesDone
<1> QED
  BY <1>5, <1>6, <1>7, <1>8, <1>9, <1>10, <1>11, <1>12, <1>13 DEF Next, Matching

LEMMA MatchedOnceNext ==
  ~ConfirmationAlerts /\ TypeOK /\ MatchedOnce /\ [Next]_vars => MatchedOnce'
<1> SUFFICES ASSUME ~ConfirmationAlerts, TypeOK, MatchedOnce, [Next]_vars
             PROVE  OwedRows' /\ ProcessedIsDecided'
  BY OnlyFirstMatchesNext DEF MatchedOnce
<1> USE DEF tables, memory, task, env, history
<1>1. CASE UNCHANGED <<row, processed, tests, owed>> /\ waived \subseteq waived'
  BY <1>1 DEF MatchedOnce, OwedRows, ProcessedIsDecided
<1>2. CASE Tick \/ (\E p \in Pairs : Relist(p)) \/ Crash \/ SkipGap \/ AdvanceCursor
           \/ LoadUnmatched \/ MaintenanceFails \/ UNCHANGED vars
  BY <1>1, <1>2 DEF Tick, Relist, Crash, SkipGap, AdvanceCursor, LoadUnmatched,
     MaintenanceFails, vars
<1>3. ASSUME NEW k \in Streams, Fetch(k) \/ StoreFails(k)
      PROVE  OwedRows' /\ ProcessedIsDecided'
  BY <1>1, <1>3 DEF Fetch, StoreFails
<1>4. ASSUME NEW k \in Streams, Store(k) \/ StoreUnacknowledged(k)
      PROVE  OwedRows' /\ ProcessedIsDecided'
  BY <1>4, StoreRowsDecided DEF Store, StoreUnacknowledged
<1>5. ASSUME NEW k \in Tasks, PlanMatch(k) \/ MatchFails(k) \/ MatchesDone(k)
      PROVE  OwedRows' /\ ProcessedIsDecided'
  BY <1>1, <1>5 DEF PlanMatch, MatchFails, MatchesDone
<1>6. ASSUME NEW k \in Tasks, FinishMatch(k) \/ MatchUnacknowledged(k)
      PROVE  OwedRows' /\ ProcessedIsDecided'
  BY <1>6, MatchRowsDecided DEF FinishMatch, MatchUnacknowledged
<1>7. ASSUME NEW k \in Tasks, MatchRefused(k)
      PROVE  OwedRows' /\ ProcessedIsDecided'
  <2>1. \A t \in Transfers : t # plan[k].tx => processed'[t] = processed[t]
    BY <1>7 DEF MatchRefused, TypeOK
  <2>2. UNCHANGED <<row, tests, owed>> /\ waived' = waived \cup {plan[k].tx}
    BY <1>7 DEF MatchRefused
  <2> QED
    BY <2>1, <2>2 DEF MatchedOnce, OwedRows, ProcessedIsDecided, TypeOK
<1>8. CASE ExpireTests
  BY <1>8, TestsMoveForward DEF ExpireTests, MatchedOnce, OwedRows, ProcessedIsDecided,
     SettledStep, TypeOK
<1>9. CASE DropUnconfirmed
  <2>1. \A t \in Transfers : t \notin Stale => row'[t] = row[t] /\ processed'[t] = processed[t]
    BY <1>9 DEF DropUnconfirmed, TypeOK
  <2>2. \A t \in Transfers : t \in Stale => row'[t] = "DROPPED"
    BY <1>9 DEF DropUnconfirmed
  <2>3. SettledStep /\ UNCHANGED <<owed, waived>>
    BY <1>9, TestsMoveForward DEF DropUnconfirmed
  <2> QED
    BY <2>1, <2>2, <2>3 DEF MatchedOnce, OwedRows, ProcessedIsDecided, SettledStep, TypeOK
<1> QED
  BY <1>2, <1>3, <1>4, <1>5, <1>6, <1>7, <1>8, <1>9 DEF Next, Matching

(* With confirmation alerts off, no crash, database error, lost             *)
(* acknowledgement or race of two tasks swallows the alert of a stored      *)
(* test transfer, for any number of transfers and faults.                   *)
THEOREM NoAlertSwallowed ==
  ASSUME ~ConfirmationAlerts
  PROVE  Spec => []AlertedOrWaived
<1>1. Init => MatchedOnce
  BY DEF Init, MatchedOnce, OnlyFirstMatches, OwedRows, ProcessedIsDecided, IdlePlan
<1>2. MatchedOnce => AlertedOrWaived
  BY DEF MatchedOnce, ProcessedIsDecided, AlertedOrWaived
<1>3. TypeOK /\ MatchedOnce /\ [Next]_vars => MatchedOnce'
  BY MatchedOnceNext
<1> QED
  BY <1>1, <1>2, <1>3, PipelineTypes, PTL DEF Spec

-----------------------------------------------------------------------------
(* The SeenCache never hides a transfer that the tables do not hold, as     *)
(* long as only live streams run and the confirmed stream cannot deliver    *)
(* what maintenance may already have dropped.                               *)

OverlapWithinReach ==
  /\ "backfill" \notin Streams
  /\ Overlap <= DropAfter
  /\ MaxCatchup > 0 => Overlap <= MaxCatchup

DroppedBehind == \A t \in Transfers : row[t] = "DROPPED" => Stamp[t] < cursor - DropAfter

BatchInReach ==
  "confirmed" \in Streams /\ pc["confirmed"] = "store"
    => \A t \in batch["confirmed"] : Stamp[t] >= cursor - Overlap

SeenInv == SeenIsStored /\ DroppedBehind /\ BatchInReach

LEMMA CursorAdvances ==
  OverlapWithinReach /\ TypeOK /\ [Next]_vars => cursor <= cursor'
<1> SUFFICES ASSUME OverlapWithinReach, TypeOK, [Next]_vars PROVE cursor <= cursor'
  OBVIOUS
<1> USE DEF tables, memory, task, env, history
<1>1. CASE UNCHANGED cursor
  BY <1>1 DEF TypeOK
<1>2. CASE SkipGap
  BY <1>2, PipelineAssumption DEF SkipGap, TooFarBehind, TypeOK, OverlapWithinReach
<1>3. CASE AdvanceCursor
  BY <1>3 DEF AdvanceCursor, Later, TypeOK
<1>4. CASE Tick \/ (\E p \in Pairs : Relist(p)) \/ Crash \/ ExpireTests
           \/ LoadUnmatched \/ DropUnconfirmed \/ MaintenanceFails \/ UNCHANGED vars
  BY <1>1, <1>4 DEF Tick, Relist, Crash, ExpireTests, LoadUnmatched, DropUnconfirmed,
     MaintenanceFails, vars
<1>5. ASSUME NEW k \in Streams,
             Fetch(k) \/ Store(k) \/ StoreFails(k) \/ StoreUnacknowledged(k)
      PROVE  cursor <= cursor'
  BY <1>1, <1>5 DEF Fetch, Store, StoreFails, StoreUnacknowledged, StoreRows
<1>6. ASSUME NEW k \in Tasks, Matching(k) PROVE cursor <= cursor'
  BY <1>1, <1>6 DEF Matching, PlanMatch, FinishMatch, MatchFails, MatchUnacknowledged,
     MatchRefused, MatchesDone, MatchRows
<1> QED
  BY <1>2, <1>3, <1>4, <1>5, <1>6 DEF Next

(* Rows never vanish and CONFIRMED is final; only Stale rows are dropped.   *)
RowStep == \A t \in Transfers :
  /\ row[t] # "ABSENT" => row'[t] # "ABSENT"
  /\ row[t] = "CONFIRMED" => row'[t] = "CONFIRMED"
  /\ row'[t] = "DROPPED" => row[t] = "DROPPED" \/ Stamp[t] < cursor - DropAfter

LEMMA RowsAdvance == TypeOK /\ [Next]_vars => RowStep
<1> SUFFICES ASSUME TypeOK, [Next]_vars PROVE RowStep
  OBVIOUS
<1> USE DEF tables, memory, task, env, history
<1>1. CASE UNCHANGED row
  BY <1>1 DEF RowStep
<1>2. ASSUME NEW k \in Streams, StoreRows(k) PROVE RowStep
  BY <1>2 DEF StoreRows, NewlyConfirmed, Inserted, Upgraded, TypeOK, RowStep
<1>3. CASE DropUnconfirmed
  BY <1>3 DEF DropUnconfirmed, Stale, TypeOK, RowStep
<1>4. CASE Tick \/ (\E p \in Pairs : Relist(p)) \/ Crash \/ SkipGap \/ AdvanceCursor
           \/ ExpireTests \/ LoadUnmatched \/ MaintenanceFails \/ UNCHANGED vars
  BY <1>1, <1>4 DEF Tick, Relist, Crash, SkipGap, AdvanceCursor, ExpireTests,
     LoadUnmatched, MaintenanceFails, vars
<1>5. ASSUME NEW k \in Streams,
             Fetch(k) \/ Store(k) \/ StoreFails(k) \/ StoreUnacknowledged(k)
      PROVE  RowStep
  BY <1>1, <1>2, <1>5 DEF Fetch, Store, StoreFails, StoreUnacknowledged
<1>6. ASSUME NEW k \in Tasks, Matching(k) PROVE RowStep
  BY <1>1, <1>6 DEF Matching, PlanMatch, FinishMatch, MatchFails, MatchUnacknowledged,
     MatchRefused, MatchesDone, MatchRows
<1> QED
  BY <1>3, <1>4, <1>5, <1>6 DEF Next

LEMMA BatchInReachNext ==
  OverlapWithinReach /\ TypeOK /\ BatchInReach /\ [Next]_vars => BatchInReach'
<1> SUFFICES ASSUME OverlapWithinReach, TypeOK, BatchInReach, [Next]_vars,
                    "confirmed" \in Streams, pc'["confirmed"] = "store",
                    NEW t \in batch'["confirmed"]
             PROVE  Stamp[t] >= cursor' - Overlap
  BY DEF BatchInReach
<1> USE DEF tables, memory, task, env, history
<1>0. "confirmed" \in Tasks /\ "confirmed" # Maintenance
  BY DEF Tasks, Maintenance
<1>1. CASE UNCHANGED <<pc, batch, cursor>>
  BY <1>1 DEF BatchInReach
<1>2. CASE Fetch("confirmed")
  <2>1. t \in Offered("confirmed")
    BY <1>0, <1>2 DEF Fetch, TypeOK
  <2> QED
    BY <1>2, <2>1 DEF Offered, Fetch
<1>3. ASSUME NEW k \in Tasks, k # "confirmed", UNCHANGED cursor,
             pc'["confirmed"] = pc["confirmed"], batch'["confirmed"] = batch["confirmed"]
      PROVE  Stamp[t] >= cursor' - Overlap
  BY <1>3 DEF BatchInReach
<1>4. ASSUME NEW k \in Tasks, Rest(k), UNCHANGED cursor PROVE Stamp[t] >= cursor' - Overlap
  BY <1>0, <1>3, <1>4 DEF Rest, TypeOK
<1>5. CASE Tick \/ (\E p \in Pairs : Relist(p)) \/ UNCHANGED vars
  BY <1>1, <1>5 DEF Tick, Relist, vars
<1>6. CASE Crash
  BY <1>0, <1>6 DEF Crash
<1>7. CASE SkipGap
  BY <1>7 DEF SkipGap
<1>8. CASE AdvanceCursor
  BY <1>0, <1>8 DEF AdvanceCursor, Rest, TypeOK
<1>9. CASE ExpireTests \/ LoadUnmatched
  BY <1>0, <1>9 DEF ExpireTests, LoadUnmatched, BatchInReach, TypeOK
<1>10. CASE DropUnconfirmed \/ MaintenanceFails
  BY <1>4, <1>10 DEF DropUnconfirmed, MaintenanceFails, Tasks
<1>11. ASSUME NEW k \in Streams, Fetch(k), k # "confirmed"
       PROVE  Stamp[t] >= cursor' - Overlap
  BY <1>0, <1>11 DEF Fetch, BatchInReach, TypeOK, Tasks
<1>12. ASSUME NEW k \in Streams, StoreFails(k) \/ StoreUnacknowledged(k)
       PROVE  Stamp[t] >= cursor' - Overlap
  BY <1>4, <1>12 DEF StoreFails, StoreUnacknowledged, StoreRows, Tasks
<1>13. ASSUME NEW k \in Streams, Store(k) PROVE Stamp[t] >= cursor' - Overlap
  BY <1>0, <1>13 DEF Store, StoreRows, BatchInReach, TypeOK, Tasks
<1>14. ASSUME NEW k \in Tasks, MatchFails(k) \/ MatchUnacknowledged(k)
       PROVE  Stamp[t] >= cursor' - Overlap
  BY <1>4, <1>14 DEF MatchFails, MatchUnacknowledged, MatchRows
<1>15. ASSUME NEW k \in Tasks,
              PlanMatch(k) \/ FinishMatch(k) \/ MatchRefused(k) \/ MatchesDone(k)
       PROVE  Stamp[t] >= cursor' - Overlap
  BY <1>0, <1>15 DEF PlanMatch, FinishMatch, MatchRefused, MatchesDone, AfterMatches,
     MatchRows, BatchInReach, TypeOK
<1> QED
  BY <1>2, <1>5, <1>6, <1>7, <1>8, <1>9, <1>10, <1>11, <1>12, <1>13, <1>14, <1>15
     DEF Next, Matching

LEMMA SeenStore ==
  ASSUME OverlapWithinReach, TypeOK, SeenInv, NEW k \in Streams, Store(k)
  PROVE  \A t \in batch[k] : row'[t] # "ABSENT" /\ (Confirmed(k) => row'[t] = "CONFIRMED")
<1> SUFFICES ASSUME NEW t \in batch[k]
             PROVE  row'[t] # "ABSENT" /\ (Confirmed(k) => row'[t] = "CONFIRMED")
  OBVIOUS
<1>1. t \in Transfers /\ StoreRows(k)
  BY DEF TypeOK, Store, Tasks
<1>2. row'[t] # "ABSENT"
  BY <1>1 DEF StoreRows, Inserted, TypeOK
<1>3. CASE Confirmed(k)
  <2>1. k = "confirmed"
    BY <1>3, PipelineAssumption DEF OverlapWithinReach, Confirmed, AllStreams
  <2>2. Stamp[t] >= cursor - Overlap
    BY <2>1 DEF Store, SeenInv, BatchInReach
  <2>3. row[t] # "DROPPED"
    <3>1. cursor \in Int /\ Stamp[t] \in Int /\ Overlap \in Int /\ DropAfter \in Int
      BY <1>1, PipelineAssumption DEF TypeOK
    <3>2. ~(Stamp[t] < cursor - DropAfter)
      BY <2>2, <3>1 DEF OverlapWithinReach
    <3> QED
      BY <1>1, <3>2 DEF SeenInv, DroppedBehind
  <2>4. row[t] = "CONFIRMED" \/ t \in NewlyConfirmed(k)
    <3>1. row[t] \in {"ABSENT", "UNCONFIRMED", "CONFIRMED"}
      BY <1>1, <2>3 DEF TypeOK, RowStatus
    <3>2. row[t] = "ABSENT" => t \in Inserted(k)
      BY DEF Inserted
    <3>3. row[t] = "UNCONFIRMED" => t \in Upgraded(k)
      BY <1>3 DEF Upgraded
    <3> QED
      BY <2>1, <3>1, <3>2, <3>3 DEF NewlyConfirmed, Confirmed
  <2> QED
    BY <1>1, <1>2, <2>4 DEF StoreRows, Inserted
<1> QED
  BY <1>2, <1>3

LEMMA SeenInvNext == OverlapWithinReach /\ TypeOK /\ SeenInv /\ [Next]_vars => SeenInv'
<1> SUFFICES ASSUME OverlapWithinReach, TypeOK, SeenInv, [Next]_vars PROVE SeenInv'
  OBVIOUS
<1> USE DEF tables, memory, task, env, history
<1>1. RowStep /\ cursor <= cursor' /\ BatchInReach'
  BY RowsAdvance, CursorAdvances, BatchInReachNext DEF SeenInv
<1>2. DroppedBehind'
  <2>1. cursor \in Int /\ cursor' \in Int /\ DropAfter \in Int
    BY TypeNext, PipelineAssumption DEF TypeOK
  <2>2. \A t \in Transfers : Stamp[t] \in Int
    BY PipelineAssumption
  <2> SUFFICES ASSUME NEW t \in Transfers, row'[t] = "DROPPED"
               PROVE  Stamp[t] < cursor' - DropAfter
    BY DEF DroppedBehind
  <2>3. Stamp[t] < cursor - DropAfter
    BY <1>1 DEF SeenInv, DroppedBehind, RowStep
  <2> QED
    BY <1>1, <2>1, <2>2, <2>3
<1>3. ASSUME seen' \subseteq seen PROVE SeenIsStored'
  BY <1>1, <1>3 DEF SeenInv, SeenIsStored, RowStep, TypeOK
<1>4. ASSUME NEW k \in Streams, Store(k) PROVE SeenIsStored'
  <2>1. \A s \in batch[k] \X {Confirmed(k)} :
          row'[s[1]] # "ABSENT" /\ (s[2] => row'[s[1]] = "CONFIRMED")
    BY <1>4, SeenStore
  <2>2. \A s \in seen : row'[s[1]] # "ABSENT" /\ (s[2] => row'[s[1]] = "CONFIRMED")
    BY <1>1 DEF SeenInv, SeenIsStored, RowStep, TypeOK
  <2>3. seen' = seen \cup (batch[k] \X {Confirmed(k)})
    BY <1>4 DEF Store
  <2> QED
    BY <2>1, <2>2, <2>3 DEF SeenIsStored
<1>5. CASE Tick \/ (\E p \in Pairs : Relist(p)) \/ Crash \/ SkipGap \/ AdvanceCursor
           \/ ExpireTests \/ LoadUnmatched \/ DropUnconfirmed \/ MaintenanceFails
           \/ UNCHANGED vars
  <2>1. seen' \subseteq seen
    BY <1>5 DEF Tick, Relist, Crash, SkipGap, AdvanceCursor, ExpireTests,
       LoadUnmatched, DropUnconfirmed, MaintenanceFails, vars
  <2> QED
    BY <1>1, <1>2, <1>3, <2>1 DEF SeenInv
<1>6. ASSUME NEW k \in Streams,
             Fetch(k) \/ Store(k) \/ StoreFails(k) \/ StoreUnacknowledged(k)
      PROVE  SeenInv'
  BY <1>1, <1>2, <1>3, <1>4, <1>6 DEF Fetch, StoreFails, StoreUnacknowledged, SeenInv
<1>7. ASSUME NEW k \in Tasks, Matching(k) PROVE SeenInv'
  BY <1>1, <1>2, <1>3, <1>7 DEF Matching, PlanMatch, FinishMatch, MatchFails,
     MatchUnacknowledged, MatchRefused, MatchesDone, MatchRows, SeenInv
<1> QED
  BY <1>5, <1>6, <1>7 DEF Next

(* With the live streams and the code's relation between the overlap, the   *)
(* drop age and the catch-up limit (6 s, 10 min, 6 h by default), what the  *)
(* SeenCache lets process skip is in the tables, confirmed where it says    *)
(* so.  The backfill stream breaks it, as a run shows.                      *)
THEOREM SeenRowsAreStored ==
  ASSUME OverlapWithinReach
  PROVE  Spec => []SeenIsStored
<1>1. Init => SeenInv
  BY DEF Init, SeenInv, SeenIsStored, DroppedBehind, BatchInReach, Tasks
<1>2. TypeOK /\ SeenInv /\ [Next]_vars => SeenInv'
  BY SeenInvNext
<1>3. SeenInv => SeenIsStored
  BY DEF SeenInv
<1> QED
  BY <1>1, <1>2, <1>3, PipelineTypes, PTL DEF Spec

=============================================================================
