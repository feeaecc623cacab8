-------------------------- MODULE TransferPipeline --------------------------
(***************************************************************************)
(* The path of a USDT transfer through the monitor: the polling streams    *)
(* hand batches of decoded events to Pipeline.process, which stores them   *)
(* in one database transaction and then matches, one short transaction     *)
(* each, the transfers of watched Sender -> Recipient pairs.  The          *)
(* maintenance loop re-matches what a crash or a database error left       *)
(* unmatched, expires test events, and drops transfers that never          *)
(* confirmed.  All of them are asyncio tasks of one process; they          *)
(* interleave at every await, and PostgreSQL runs them READ COMMITTED.     *)
(*                                                                         *)
(* A matching transaction is two steps here: PlanMatch is the lookup in    *)
(* the cache and the SELECTs, FinishMatch the conflict-checked writes and  *)
(* the commit, because other transactions commit in between.               *)
(***************************************************************************)
EXTENDS Integers, FiniteSets

CONSTANTS
  Transfers,          (* on-chain transfers: (transaction_hash, event_index)       *)
  Pairs,              (* (sender, recipient) relationships                         *)
  PairOf,             (* the pair of each transfer                                 *)
  Stamp,              (* the block timestamp of each transfer                      *)
  InBand,             (* transfers whose amount is inside the learned test band    *)
  Completes,          (* <<large, test>>: is_large_followup holds of the amounts   *)
  Streams,            (* which of the three polling streams run                    *)
  Listings,           (* the watchlist states that analysis may give a pair        *)
  LiveFrom,           (* the time of the very first start                          *)
  Overlap,            (* CONFIRMED_OVERLAP_SECONDS                                 *)
  Lookback,           (* UNCONFIRMED_LOOKBACK_SECONDS                              *)
  DropAfter,          (* UNCONFIRMED_DROP_AFTER_MINUTES                            *)
  MaxCatchup,         (* MAX_CATCHUP_HOURS; 0 turns the skip off                   *)
  MaxAge,             (* ALERT_MAX_TX_AGE_MINUTES                                  *)
  Window,             (* followup_window_seconds of the snapshots                  *)
  FloodMax,           (* FLOOD_MAX_TESTS_PER_HOUR                                  *)
  FloodSpan,          (* the hour over which tests are counted                     *)
  ConfirmationAlerts, (* SEND_CONFIRMATION_ALERTS                                  *)
  MaxTime,            (* bound on the clock                                        *)
  MaxFaults           (* bound on crashes and database errors together             *)

AllStreams   == {"unconfirmed", "confirmed", "backfill"}
Maintenance  == "maintenance"
Tasks        == Streams \cup {Maintenance}
AllListings  == {"none", "dormant", "paused", "alerting"}
RowStatus    == {"ABSENT", "UNCONFIRMED", "CONFIRMED", "DROPPED"}
TestStatus   == {"NONE", "PENDING", "FOLLOWED_UP", "SUPERSEDED", "EXPIRED", "CANCELLED"}
Verdicts     == {"idle", "unlisted", "tooOld", "flood", "test", "again", "followup", "nothing"}

ASSUME PipelineAssumption ==
  /\ IsFiniteSet(Transfers) /\ Transfers # {}
  /\ PairOf \in [Transfers -> Pairs]
  /\ Stamp \in [Transfers -> Nat]
  /\ InBand \subseteq Transfers
  /\ Completes \subseteq Transfers \X Transfers
  /\ Streams \subseteq AllStreams
  /\ Listings \subseteq AllListings /\ Listings # {}
  /\ {LiveFrom, Overlap, Lookback, DropAfter, MaxCatchup, MaxAge, Window} \subseteq Nat
  /\ {FloodMax, FloodSpan, MaxTime, MaxFaults} \subseteq Nat
  /\ ConfirmationAlerts \in BOOLEAN

VARIABLES
  (* tables *)
  row,           (* transactions.status, "ABSENT" when there is no row            *)
  processed,     (* transactions.processed                                        *)
  total,         (* wallet_pairs.total_transfers                                  *)
  tests,         (* test_events.status by test transfer; its alert row is         *)
                 (* inserted in the same transaction                              *)
  followups,     (* followup_events rows; the alert row comes with each           *)
  confirmAlerts, (* transfers with a TEST_CONFIRMED alert row                     *)
  cursor,        (* collector_state confirmed cursor                              *)
  (* process memory *)
  seen,          (* SeenCache: <<transfer, confirmed>>                            *)
  pendingPairs,  (* WatchlistCache.pending_pairs                                  *)
  listed,        (* the pair's watchlist state, as the cache has it               *)
  (* tasks *)
  pc, batch, watch, todo, plan,
  reach,         (* largest timestamp of the page the confirmed stream processes  *)
  (* environment *)
  now,
  fresh,         (* rows detected within the last 5 seconds                       *)
  faults,
  (* history, read by no action *)
  owed,          (* transfers ever stored with processed = false                  *)
  waived         (* transfers for which a match decided against a test alert      *)

tables  == <<row, processed, total, tests, followups, confirmAlerts, cursor>>
memory  == <<seen, pendingPairs, listed>>
task    == <<pc, batch, watch, todo, plan, reach>>
env     == <<now, fresh, faults>>
history == <<owed, waived>>
vars    == <<tables, memory, task, env, history>>

Later(a, b) == IF a < b THEN b ELSE a

Confirmed(k) == k # "unconfirmed"
Live(k)      == k # "backfill"

AnyTransfer == CHOOSE t \in Transfers : TRUE
IdlePlan == [tx |-> AnyTransfer, upgraded |-> FALSE, verdict |-> "idle",
             test |-> AnyTransfer, older |-> {}]

PairsWithPending == {PairOf[t] : t \in {e \in Transfers : tests[e] = "PENDING"}}

Init ==
  /\ row = [t \in Transfers |-> "ABSENT"]
  /\ processed = [t \in Transfers |-> FALSE]
  /\ total = [p \in Pairs |-> 0]
  /\ tests = [t \in Transfers |-> "NONE"]
  /\ followups = {}
  /\ confirmAlerts = {}
  /\ cursor = LiveFrom - Overlap
  /\ seen = {}
  /\ pendingPairs = {}
  /\ listed \in [Pairs -> Listings]
  /\ pc = [k \in Tasks |-> "idle"]
  /\ batch = [k \in Tasks |-> {}]
  /\ watch = [k \in Tasks |-> {}]
  /\ todo = [k \in Tasks |-> {}]
  /\ plan = [k \in Tasks |-> IdlePlan]
  /\ reach = LiveFrom - Overlap
  /\ now = LiveFrom
  /\ fresh = {}
  /\ faults = 0
  /\ owed = {}
  /\ waived = {}

-----------------------------------------------------------------------------
(* The environment: time, analysis and the pause commands, process death.   *)

Tick ==
  /\ now < MaxTime \/ fresh # {}
  /\ now' = IF now < MaxTime THEN now + 1 ELSE now
  /\ fresh' = {}
  /\ UNCHANGED <<tables, memory, task, faults, history>>

(* A learned model or a command changes the pair's listing; an entry is     *)
(* never deleted.                                                           *)
Relist(p) ==
  \E l \in Listings :
    /\ l # listed[p]
    /\ l = "none" => listed[p] = "none"
    /\ listed' = [listed EXCEPT ![p] = l]
    /\ UNCHANGED <<tables, seen, pendingPairs, task, env, history>>

Fault == faults < MaxFaults /\ faults' = faults + 1

(* The task abandons what it holds and starts over.                         *)
Rest(k) ==
  /\ pc' = [pc EXCEPT ![k] = "idle"]
  /\ batch' = [batch EXCEPT ![k] = {}]
  /\ watch' = [watch EXCEPT ![k] = {}]
  /\ todo' = [todo EXCEPT ![k] = {}]
  /\ plan' = [plan EXCEPT ![k] = IdlePlan]

(* Definitions named Bug... are wrong on purpose: no action uses one.  Each *)
(* is the mistake that the check of a property has to catch.                *)
BugReloadNothing == pendingPairs' = {}
BugReloadTests == pendingPairs' = {e \in Transfers : tests[e] = "PENDING"}

Reload == pendingPairs' = PairsWithPending

(* The process dies and starts again: the cache is loaded from the tables.  *)
Crash ==
  /\ Fault
  /\ seen' = {}
  /\ Reload
  /\ pc' = [k \in Tasks |-> "idle"]
  /\ batch' = [k \in Tasks |-> {}]
  /\ watch' = [k \in Tasks |-> {}]
  /\ todo' = [k \in Tasks |-> {}]
  /\ plan' = [k \in Tasks |-> IdlePlan]
  /\ reach' = cursor
  /\ UNCHANGED <<tables, listed, now, fresh, history>>

-----------------------------------------------------------------------------
(* Pipeline.process: filter, snapshot of the watched pairs, one transaction *)
(* that stores, confirms and counts, then the matching loop.                *)

TooFarBehind == MaxCatchup > 0 /\ now - cursor > MaxCatchup

(* What one page of each stream may hold.                                   *)
Offered(k) ==
  {t \in Transfers :
     /\ Stamp[t] <= now
     /\ k = "unconfirmed" => Stamp[t] >= now - Lookback
     /\ k = "confirmed"   => Stamp[t] >= cursor - Overlap
     /\ k = "backfill"    => Stamp[t] < LiveFrom}

MatchPairs == {p \in Pairs : listed[p] \in {"paused", "alerting"}} \cup pendingPairs

(* The confirmed stream is hours behind and jumps over the gap.             *)
SkipGap ==
  /\ "confirmed" \in Streams /\ pc["confirmed"] = "idle"
  /\ TooFarBehind
  /\ cursor' = now - Overlap
  /\ UNCHANGED <<row, processed, total, tests, followups, confirmAlerts,
                 memory, task, env, history>>

Fetch(k) ==
  /\ pc[k] = "idle"
  /\ k = "confirmed" => ~TooFarBehind
  /\ \E page \in (SUBSET Offered(k)) \ {{}} :
       LET new == {t \in page : <<t, Confirmed(k)>> \notin seen}
       IN /\ pc' = [pc EXCEPT ![k] = IF new # {} THEN "store" ELSE "stored"]
          /\ k # "confirmed" => new # {}
          /\ batch' = [batch EXCEPT ![k] = new]
          /\ reach' = IF k = "confirmed"
                      THEN CHOOSE m \in {Stamp[t] : t \in page} : \A t \in page : Stamp[t] <= m
                      ELSE reach
  /\ watch' = [watch EXCEPT ![k] = IF Live(k) THEN MatchPairs ELSE {}]
  /\ UNCHANGED <<tables, memory, todo, plan, env, history>>

Inserted(k) == {t \in batch[k] : row[t] = "ABSENT"}

BugUpgraded(k) ==
  IF Confirmed(k) THEN {t \in batch[k] : row[t] # "ABSENT"} ELSE {}

Upgraded(k) ==
  IF Confirmed(k) THEN {t \in batch[k] : row[t] = "UNCONFIRMED"} ELSE {}

NewlyConfirmed(k) == (IF Confirmed(k) THEN Inserted(k) ELSE {}) \cup Upgraded(k)

NeedsMatch(k)   == {t \in Inserted(k) : PairOf[t] \in watch[k]}
NeedsRematch(k) == {t \in Upgraded(k) : ConfirmationAlerts /\ PairOf[t] \in watch[k]}

(* The rows the store transaction writes.                                   *)
StoreRows(k) ==
  /\ row' = [t \in Transfers |->
       IF t \in NewlyConfirmed(k) THEN "CONFIRMED"
       ELSE IF t \in Inserted(k) THEN "UNCONFIRMED" ELSE row[t]]
  /\ processed' = [t \in Transfers |->
       IF t \in Inserted(k) THEN t \notin NeedsMatch(k)
       ELSE processed[t] /\ t \notin NeedsRematch(k)]
  /\ total' = [p \in Pairs |->
       total[p] + Cardinality({t \in NewlyConfirmed(k) : PairOf[t] = p})]
  /\ fresh' = fresh \cup Inserted(k)
  /\ owed' = owed \cup NeedsMatch(k)
  /\ UNCHANGED <<tests, followups, confirmAlerts, cursor, pendingPairs, listed, now, waived>>

Store(k) ==
  /\ pc[k] = "store"
  /\ StoreRows(k)
  /\ seen' = seen \cup (batch[k] \X {Confirmed(k)})
  /\ todo' = [todo EXCEPT ![k] =
       IF Live(k) THEN (NeedsMatch(k) \X {FALSE}) \cup (NeedsRematch(k) \X {TRUE}) ELSE {}]
  /\ pc' = [pc EXCEPT ![k] = "match"]
  /\ batch' = [batch EXCEPT ![k] = {}]
  /\ watch' = [watch EXCEPT ![k] = {}]
  /\ UNCHANGED <<plan, reach, faults>>

(* The transaction rolls back, or commits and the acknowledgement is lost:  *)
(* process raises either way, and the poller starts over.                   *)
StoreFails(k) ==
  /\ pc[k] = "store"
  /\ Fault
  /\ Rest(k)
  /\ UNCHANGED <<tables, memory, reach, now, fresh, history>>

StoreUnacknowledged(k) ==
  /\ pc[k] = "store"
  /\ Fault
  /\ StoreRows(k)
  /\ Rest(k)
  /\ UNCHANGED <<seen, reach>>

-----------------------------------------------------------------------------
(* TransactionMatcher.match                                                 *)

(* Inserted rows are matched before upgraded ones, each in the order of the *)
(* page; maintenance goes by row id, which two streams may fill in any      *)
(* order.                                                                   *)
IsNext(k, i) ==
  /\ i \in todo[k]
  /\ k # Maintenance =>
       \A j \in todo[k] : \/ ~i[2] /\ j[2]
                          \/ i[2] = j[2] /\ Stamp[i[1]] <= Stamp[j[1]]

(* pending_test_events: tests of the pair whose window holds the transfer.  *)
PendingFor(t) ==
  {e \in Transfers \ {t} :
     /\ tests[e] = "PENDING"
     /\ PairOf[e] = PairOf[t]
     /\ Stamp[e] <= Stamp[t] /\ Stamp[t] <= Stamp[e] + Window}

(* select_followup: the most recent pending test the transfer completes.    *)
Completed(t) == {e \in PendingFor(t) : <<t, e>> \in Completes}
MostRecent(S) == CHOOSE e \in S : \A f \in S : Stamp[f] <= Stamp[e]

RecentTests(t) ==
  Cardinality({e \in Transfers : /\ tests[e] # "NONE"
                                 /\ PairOf[e] = PairOf[t]
                                 /\ Stamp[e] >= Stamp[t] - FloodSpan})

TooOld(t) == now - Stamp[t] > MaxAge

(* The amount is in the band of an entry that alerts.                       *)
TestVerdict(t, upgraded) ==
  IF upgraded THEN "again"
  ELSE IF TooOld(t) THEN "tooOld"
  ELSE IF RecentTests(t) >= FloodMax THEN "flood" ELSE "test"

Verdict(t, upgraded) ==
  IF listed[PairOf[t]] = "none" THEN "unlisted"
  ELSE IF listed[PairOf[t]] = "alerting" /\ t \in InBand THEN TestVerdict(t, upgraded)
  ELSE IF Completed(t) # {} /\ ~TooOld(t) THEN "followup" ELSE "nothing"

PlanMatch(k) ==
  /\ pc[k] = "match"
  /\ \E i \in todo[k] :
       /\ IsNext(k, i)
       /\ LET v == Verdict(i[1], i[2])
              e == IF v = "followup" THEN MostRecent(Completed(i[1])) ELSE AnyTransfer
          IN plan' = [plan EXCEPT ![k] =
               [tx |-> i[1], upgraded |-> i[2], verdict |-> v, test |-> e,
                older |-> IF v = "followup"
                          THEN {f \in PendingFor(i[1]) \ {e} : Stamp[f] <= Stamp[e]}
                          ELSE {}]]
  /\ pc' = [pc EXCEPT ![k] = "commit"]
  /\ UNCHANGED <<tables, memory, batch, watch, todo, reach, env, history>>

BugCreatesTest(m) == m.verdict = "test"
CreatesTest(m) == m.verdict = "test" /\ tests[m.tx] = "NONE"

BugCreatesFollowup(m) == m.verdict = "followup"
CreatesFollowup(m) ==
  /\ m.verdict = "followup"
  /\ \A f \in followups : f.test # m.test /\ f.large # m.tx

(* The writes of the matching transaction; ON CONFLICT DO NOTHING makes the *)
(* inserts conditional on what is committed by then, the status updates are *)
(* by id and unconditional.                                                 *)
MatchRows(m) ==
  /\ tests' = [e \in Transfers |->
       IF CreatesTest(m) /\ e = m.tx THEN "PENDING"
       ELSE IF CreatesFollowup(m) /\ e = m.test THEN "FOLLOWED_UP"
       ELSE IF CreatesFollowup(m) /\ e \in m.older THEN "SUPERSEDED" ELSE tests[e]]
  /\ followups' = IF CreatesFollowup(m)
                  THEN followups \cup {[test |-> m.test, large |-> m.tx]} ELSE followups
  /\ confirmAlerts' = IF /\ m.upgraded /\ ConfirmationAlerts
                         /\ m.verdict # "unlisted" /\ tests[m.tx] # "NONE"
                      THEN confirmAlerts \cup {m.tx} ELSE confirmAlerts
  /\ pendingPairs' = IF CreatesTest(m) THEN pendingPairs \cup {PairOf[m.tx]} ELSE pendingPairs
  /\ processed' = [processed EXCEPT ![m.tx] = TRUE]
  /\ waived' = IF m.verdict \in {"test", "again"} THEN waived ELSE waived \cup {m.tx}
  /\ UNCHANGED <<row, total, cursor, seen, now, fresh, owed>>

FinishMatch(k) ==
  /\ pc[k] = "commit"
  /\ MatchRows(plan[k])
  /\ listed' = IF plan[k].verdict = "flood"
               THEN [listed EXCEPT ![PairOf[plan[k].tx]] = "paused"] ELSE listed
  /\ todo' = [todo EXCEPT ![k] = @ \ {<<plan[k].tx, plan[k].upgraded>>}]
  /\ plan' = [plan EXCEPT ![k] = IdlePlan]
  /\ pc' = [pc EXCEPT ![k] = "match"]
  /\ UNCHANGED <<batch, watch, reach, faults>>

(* pending_pairs is written before the commit and not taken back.           *)
MayLeavePair(m) ==
  \/ UNCHANGED pendingPairs
  \/ CreatesTest(m) /\ pendingPairs' = pendingPairs \cup {PairOf[m.tx]}

BugMatchFails(k) ==
  /\ pc[k] = "commit"
  /\ Fault
  /\ MayLeavePair(plan[k])
  /\ processed' = [processed EXCEPT ![plan[k].tx] = TRUE]
  /\ Rest(k)
  /\ UNCHANGED <<row, total, tests, followups, confirmAlerts, cursor, seen, listed,
                 reach, now, fresh, history>>

(* A transient error raises out of match and out of the loop: the rest of   *)
(* the list is left to maintenance.                                         *)
MatchFails(k) ==
  /\ pc[k] = "commit"
  /\ Fault
  /\ MayLeavePair(plan[k])
  /\ Rest(k)
  /\ UNCHANGED <<tables, seen, listed, reach, now, fresh, history>>

(* The same, but the database had committed.                                *)
MatchUnacknowledged(k) ==
  /\ pc[k] = "commit"
  /\ Fault
  /\ MatchRows(plan[k])
  /\ Rest(k)
  /\ UNCHANGED <<listed, reach>>

(* Any other error: rolled back, then marked processed and skipped.         *)
MatchRefused(k) ==
  /\ pc[k] = "commit"
  /\ Fault
  /\ processed' = [processed EXCEPT ![plan[k].tx] = TRUE]
  /\ waived' = waived \cup {plan[k].tx}
  /\ todo' = [todo EXCEPT ![k] = @ \ {<<plan[k].tx, plan[k].upgraded>>}]
  /\ plan' = [plan EXCEPT ![k] = IdlePlan]
  /\ pc' = [pc EXCEPT ![k] = "match"]
  /\ MayLeavePair(plan[k])
  /\ UNCHANGED <<row, total, tests, followups, confirmAlerts, cursor, seen, listed,
                 batch, watch, reach, now, fresh, owed>>

AfterMatches(k) ==
  IF k = Maintenance THEN "drop" ELSE IF k = "confirmed" THEN "stored" ELSE "idle"

MatchesDone(k) ==
  /\ pc[k] = "match" /\ todo[k] = {}
  /\ pc' = [pc EXCEPT ![k] = AfterMatches(k)]
  /\ UNCHANGED <<tables, memory, batch, watch, todo, plan, reach, env, history>>

(* poll_confirmed_once, after the page is processed: persist the cursor.    *)
AdvanceCursor ==
  /\ "confirmed" \in Streams /\ pc["confirmed"] = "stored"
  /\ Rest("confirmed")
  /\ \/ /\ cursor' = Later(cursor, reach)
        /\ UNCHANGED faults
     \/ Fault /\ UNCHANGED cursor
  /\ UNCHANGED <<row, processed, total, tests, followups, confirmAlerts,
                 memory, reach, now, fresh, history>>

-----------------------------------------------------------------------------
(* Maintenance.run_once: expire, re-match, drop; an error ends the cycle.   *)

WindowOver(e) == tests[e] = "PENDING" /\ Stamp[e] + Window < now

ExpireTests ==
  /\ pc[Maintenance] = "idle"
  /\ tests' = [e \in Transfers |-> IF WindowOver(e) THEN "EXPIRED" ELSE tests[e]]
  /\ pc' = [pc EXCEPT ![Maintenance] = "load"]
  /\ UNCHANGED <<row, processed, total, followups, confirmAlerts, cursor, memory,
                 batch, watch, todo, plan, reach, env, history>>

BugUnmatched ==
  {t \in Transfers : row[t] = "CONFIRMED" /\ ~processed[t] /\ t \notin fresh}
Unmatched == {t \in Transfers : row[t] # "ABSENT" /\ ~processed[t] /\ t \notin fresh}

LoadUnmatched ==
  /\ pc[Maintenance] = "load"
  /\ todo' = [todo EXCEPT ![Maintenance] = Unmatched \X {FALSE}]
  /\ pc' = [pc EXCEPT ![Maintenance] = "match"]
  /\ UNCHANGED <<tables, memory, batch, watch, plan, reach, env, history>>

BugStale == {t \in Transfers : row[t] # "ABSENT" /\ Stamp[t] < cursor - DropAfter}
Stale == {t \in Transfers : row[t] = "UNCONFIRMED" /\ Stamp[t] < cursor - DropAfter}

DropUnconfirmed ==
  /\ pc[Maintenance] = "drop"
  /\ row' = [t \in Transfers |-> IF t \in Stale THEN "DROPPED" ELSE row[t]]
  /\ processed' = [t \in Transfers |-> processed[t] \/ t \in Stale]
  /\ tests' = [t \in Transfers |->
       IF t \in Stale /\ tests[t] = "PENDING" THEN "CANCELLED" ELSE tests[t]]
  /\ Rest(Maintenance)
  /\ UNCHANGED <<total, followups, confirmAlerts, cursor, memory, reach, env, history>>

MaintenanceFails ==
  /\ pc[Maintenance] \in {"load", "drop"}
  /\ Fault
  /\ Rest(Maintenance)
  /\ UNCHANGED <<tables, memory, reach, now, fresh, history>>

-----------------------------------------------------------------------------
Matching(k) ==
  PlanMatch(k) \/ FinishMatch(k) \/ MatchFails(k) \/ MatchUnacknowledged(k)
    \/ MatchRefused(k) \/ MatchesDone(k)

Next ==
  \/ Tick
  \/ \E p \in Pairs : Relist(p)
  \/ Crash
  \/ SkipGap
  \/ \E k \in Streams : Fetch(k) \/ Store(k) \/ StoreFails(k) \/ StoreUnacknowledged(k)
  \/ \E k \in Tasks : Matching(k)
  \/ AdvanceCursor
  \/ ExpireTests \/ LoadUnmatched \/ DropUnconfirmed \/ MaintenanceFails

Spec == Init /\ [][Next]_vars

(* The event loop runs every task that is ready, the clock moves, and a     *)
(* poller that has a batch finishes it; what the chain delivers, and which  *)
(* errors occur, is not promised.                                           *)
Fairness ==
  /\ WF_vars(Tick)
  /\ \A k \in Tasks : WF_vars(PlanMatch(k)) /\ WF_vars(FinishMatch(k)) /\ WF_vars(MatchesDone(k))
  /\ \A k \in Streams : WF_vars(Store(k))
  /\ WF_vars(AdvanceCursor)
  /\ WF_vars(ExpireTests) /\ WF_vars(LoadUnmatched) /\ WF_vars(DropUnconfirmed)

FairSpec == Spec /\ Fairness

-----------------------------------------------------------------------------
(* Properties                                                               *)

Plans == [tx : Transfers, upgraded : BOOLEAN, verdict : Verdicts,
          test : Transfers, older : SUBSET Transfers]

(* The variables keep their types.                                          *)
TypeOK ==
  /\ row \in [Transfers -> RowStatus]
  /\ processed \in [Transfers -> BOOLEAN]
  /\ total \in [Pairs -> Nat]
  /\ tests \in [Transfers -> TestStatus]
  /\ followups \subseteq [test : Transfers, large : Transfers]
  /\ confirmAlerts \subseteq Transfers
  /\ cursor \in Int /\ reach \in Int
  /\ seen \subseteq Transfers \X BOOLEAN
  /\ pendingPairs \subseteq Pairs
  /\ listed \in [Pairs -> AllListings]
  /\ pc \in [Tasks -> {"idle", "store", "match", "commit", "stored", "load", "drop"}]
  /\ batch \in [Tasks -> SUBSET Transfers]
  /\ watch \in [Tasks -> SUBSET Pairs]
  /\ todo \in [Tasks -> SUBSET (Transfers \X BOOLEAN)]
  /\ plan \in [Tasks -> Plans]
  /\ now \in Nat /\ faults \in 0..MaxFaults
  /\ fresh \subseteq Transfers /\ owed \subseteq Transfers /\ waived \subseteq Transfers

(* wallet_pairs.total_transfers is the number of confirmed rows of the pair:*)
(* no redelivery, upgrade, rollback, lost acknowledgement or restart counts *)
(* a transfer twice or loses one (upsert_pair_stats runs in the transaction *)
(* that stores, on newly confirmed rows only).                              *)
TotalsExact ==
  \A p \in Pairs :
    total[p] = Cardinality({t \in Transfers : row[t] = "CONFIRMED" /\ PairOf[t] = p})

(* While a test event waits for its large transfer, its pair is in          *)
(* pending_pairs, so process hands every transfer of the pair to the        *)
(* matcher even after the watchlist entry stops alerting.                   *)
PendingCovered ==
  \A t \in Transfers : tests[t] = "PENDING" => PairOf[t] \in pendingPairs

(* The follow-up table: one follow-up per test and per large transfer, the  *)
(* large inside the test's window, of its pair and large enough, and the    *)
(* test no longer pending, whichever tasks raced to match it.               *)
FollowupsSound ==
  \A f \in followups :
    /\ \A g \in followups : f.test = g.test \/ f.large = g.large => f = g
    /\ PairOf[f.test] = PairOf[f.large] /\ <<f.large, f.test>> \in Completes
    /\ Stamp[f.test] <= Stamp[f.large] /\ Stamp[f.large] <= Stamp[f.test] + Window
    /\ tests[f.test] \notin {"NONE", "PENDING"}

(* What the SeenCache says is stored is stored, as confirmed where it says  *)
(* confirmed: the cache never hides from process a transfer the tables do   *)
(* not hold.  Dropped rows would break it.                                  *)
SeenIsStored ==
  \A s \in seen : row[s[1]] # "ABSENT" /\ (s[2] => row[s[1]] = "CONFIRMED")

(* A transfer that was stored for matching and whose amount is in the       *)
(* learned band has a test event (and its alert) once it is processed and   *)
(* no task still holds it, unless a match decided against the alert or the  *)
(* transfer was dropped: no failure or upgrade swallows the alert.          *)
AlertedOrWaived ==
  \A t \in owed \cap InBand :
    /\ processed[t] /\ row[t] # "DROPPED"
    /\ \A k \in Tasks, u \in BOOLEAN : <<t, u>> \notin todo[k]
    => tests[t] # "NONE" \/ t \in waived

(* A test event that was followed up, superseded, expired or cancelled      *)
(* never waits for a large transfer again, and no test event disappears.    *)
SettledStaysSettled ==
  [][\A t \in Transfers :
       tests[t] \notin {"NONE", "PENDING"} => tests'[t] \notin {"NONE", "PENDING"}]_tests

(* Every stored transfer that waits for matching is matched, skipped or     *)
(* dropped, whatever failed on the way.                                     *)
EventuallyMatched ==
  \A t \in Transfers : (row[t] # "ABSENT" /\ ~processed[t]) ~> processed[t]

(* README: tests whose window runs out with no large transfer are EXPIRED.  *)
(* A test is EXPIRED only if no stored transfer of its pair inside its      *)
(* window was large enough.                                                 *)
ExpiredHadNoLarge ==
  \A e, l \in Transfers :
    /\ tests[e] = "EXPIRED" /\ row[l] \in {"UNCONFIRMED", "CONFIRMED"}
    /\ PairOf[e] = PairOf[l] /\ <<l, e>> \in Completes
    => ~(Stamp[e] <= Stamp[l] /\ Stamp[l] <= Stamp[e] + Window)

=============================================================================
