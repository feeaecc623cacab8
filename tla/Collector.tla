------------------------------ MODULE Collector ------------------------------
(***************************************************************************)
(* The collector: how the transfers that the node lists reach the tables.  *)
(* The confirmed live stream pages from its cursor; the historical         *)
(* backfill works through windows, some prefetched; both keep a position   *)
(* in the table system_state that survives a crash.  What process does     *)
(* with a batch is TransferPipeline's; here it stores it or fails.         *)
(***************************************************************************)
EXTENDS EventParser, FiniteSets

CONSTANTS
  Items,        (* everything the contract ever emits                           *)
  At,           (* its time; the node orders by it                              *)
  Raw,          (* how the node shows it, with its own time if that is a number *)
  History,      (* INITIAL_HISTORY_DAYS                                         *)
  Overlap,      (* CONFIRMED_OVERLAP_SECONDS                                    *)
  MaxCatchup,   (* MAX_CATCHUP_HOURS                                            *)
  Retention,    (* RETENTION_DAYS                                               *)
  PageLimit, MaxPages, Window, Concurrency,   (* the settings of those names    *)
  Start,        (* the time of the first start                                  *)
  MaxNow, MaxFaults   (* bounds                                                 *)

ASSUME CollectorAssumption ==
  /\ IsFiniteSet(Items)
  /\ At \in [Items -> Nat \ {0}]
  /\ \A e, f \in Items : At[e] = At[f] => e = f
  /\ Raw \in [Items -> RawItems]
  /\ \A e \in Items : Raw[e].time.kind = "number" => Raw[e].time.n = At[e]
  /\ {History, Overlap, MaxCatchup, Retention, MaxFaults} \subseteq Nat
  /\ {PageLimit, MaxPages, Window, Concurrency, Start, MaxNow} \subseteq Nat \ {0}
  /\ Overlap < Start /\ History < Start /\ Start <= MaxNow

None == 0   \* a key that system_state does not hold

(* The items that become transfers, in whatever batch they arrive.          *)
Transfers == ParseEvents(Items, Raw)

VARIABLES
  (* the database *)
  stored,       (* items stored as transfers                                    *)
  cursor, bfStart, bfEnd, bfNext, bfDone, bfAnalysed,   (* table system_state   *)
  (* the process *)
  boot,         (* how far start() has come                                     *)
  started,      (* now_ms of the first initialise; a later one does not use it  *)
  readTo,       (* stats.confirmed_cursor_ms                                    *)
  poll,         (* where poll_confirmed_once stands                             *)
  bf,           (* where run_backfill stands                                    *)
  (* the world *)
  now,
  listed,       (* items the node lists as confirmed                            *)
  faults,
  (* history *)
  late,         (* items listed when the live stream had read past them         *)
  skipped,      (* items that a skipped gap contains                            *)
  interrupted   (* a crash hit the first start after its first write            *)

positions == <<cursor, bfStart, bfEnd, bfNext, bfDone, bfAnalysed>>
process   == <<boot, started, readTo, poll, bf>>
world     == <<now, listed, late>>
vars      == <<stored, positions, process, world, faults, skipped, interrupted>>

NoPoll     == [at |-> "idle", after |-> 0, pages |-> 0, page |-> {}, more |-> FALSE]
NoBackfill == [at |-> "off", pos |-> 0, end |-> 0, pending |-> <<>>]

Init ==
  /\ stored = {}
  /\ cursor = None /\ bfStart = None /\ bfEnd = None /\ bfNext = None
  /\ bfDone = FALSE /\ bfAnalysed = FALSE
  /\ boot = "down" /\ started = 0 /\ readTo = 0
  /\ poll = NoPoll /\ bf = NoBackfill
  /\ now = Start
  /\ listed = {e \in Items : At[e] + Overlap < Start}
  /\ faults = 0
  /\ late = {} /\ skipped = {} /\ interrupted = FALSE

Fault == faults < MaxFaults /\ faults' = faults + 1

-----------------------------------------------------------------------------
(* initialise: each key in a transaction of its own.                        *)

FirstStart ==
  /\ boot = "down" /\ cursor = None
  /\ started' = now
  /\ cursor' = now - Overlap
  /\ boot' = IF History > 0 THEN "start" ELSE "done"
  /\ UNCHANGED <<stored, bfStart, bfEnd, bfNext, bfDone, bfAnalysed, readTo, poll, bf, world,
                 faults, skipped, interrupted>>

(* What comes after each key: those of the backfill or, without a history,  *)
(* that it is done and analysed.                                            *)
NextKey == [start |-> "end", end |-> "next", next |-> "load",
            done |-> "analysed", analysed |-> "load"]

WriteKey ==
  /\ boot \in DOMAIN NextKey
  /\ boot' = NextKey[boot]
  /\ bfStart' = IF boot = "start" THEN started - History ELSE bfStart
  /\ bfEnd'   = IF boot = "end" THEN started ELSE bfEnd
  /\ bfNext'  = IF boot = "next" THEN started - History ELSE bfNext
  /\ bfDone'  = IF boot = "done" THEN TRUE ELSE bfDone
  /\ bfAnalysed' = IF boot = "analysed" THEN TRUE ELSE bfAnalysed
  /\ UNCHANGED <<stored, cursor, started, readTo, poll, bf, world, faults, skipped, interrupted>>

(* A restart finds the cursor and goes straight to loading it.              *)
Load ==
  /\ \/ boot = "load"
     \/ boot = "down" /\ cursor # None
  /\ boot' = "up"
  /\ readTo' = cursor
  /\ bf' = [NoBackfill EXCEPT !.at = "plan"]
  /\ UNCHANGED <<stored, positions, started, poll, world, faults, skipped, interrupted>>

-----------------------------------------------------------------------------
(* The confirmed live stream                                                *)

(* Mutant: the stream reads on from the cursor itself.                      *)
MinTsOfCursor(c) == c

MinTs(c) == c - Overlap

BeginPoll ==
  /\ boot = "up" /\ poll.at = "idle"
  /\ IF MaxCatchup > 0 /\ now - readTo > MaxCatchup
     THEN LET c == now - Overlap
          IN  /\ cursor' = c /\ readTo' = c
              /\ poll' = [NoPoll EXCEPT !.at = "fetch", !.after = MinTs(c) - 1]
              /\ skipped' = skipped \union {e \in Items \ stored : At[e] < MinTs(c)}
     ELSE /\ poll' = [NoPoll EXCEPT !.at = "fetch", !.after = MinTs(readTo) - 1]
          /\ UNCHANGED <<cursor, readTo, skipped>>
  /\ UNCHANGED <<stored, bfStart, bfEnd, bfNext, bfDone, bfAnalysed, boot, started, bf,
                 world, faults, interrupted>>

(* get_contract_events: the first PageLimit items after a position, in the  *)
(* order of their times.                                                    *)
After(p)    == {e \in listed : At[e] > p}
NextPage(p) == {e \in After(p) :
                  Cardinality({f \in After(p) : At[f] <= At[e]}) <= PageLimit}
LastOf(page) == Max({At[e] : e \in page})

FetchPage ==
  /\ poll.at = "fetch"
  /\ poll' = IF After(poll.after) = {} THEN NoPoll
             ELSE LET page == NextPage(poll.after)
                  IN  [at |-> "process", after |-> LastOf(page),
                       pages |-> poll.pages + 1, page |-> page,
                       more |-> After(poll.after) # page]
  /\ UNCHANGED <<stored, positions, boot, started, readTo, bf, world, faults,
                 skipped, interrupted>>

(* process stores the batch before the cursor moves.                        *)
StorePage ==
  /\ poll.at = "process"
  /\ stored' = stored \union (poll.page \cap Transfers)
  /\ \/ poll' = [poll EXCEPT !.at = "advance"] /\ UNCHANGED faults
     \/ Fault /\ poll' = NoPoll   \* stored, but an error after the commit
  /\ UNCHANGED <<positions, boot, started, readTo, bf, world, skipped, interrupted>>

(* max(int(...)) over the objects of the page, accepted or not: it raises   *)
(* when a time does not read as an integer, or when there is no object.     *)
Objects(page) == {e \in page : Raw[e].object}
Readable(page) == /\ Objects(page) # {}
                  /\ \A e \in Objects(page) : TimeReads(Raw[e])

PageMax(page) == Max({TimeRead(Raw[e]) : e \in Objects(page)})

(* On to the next page, as long as the answer held a fingerprint.           *)
Continue ==
  poll' = IF poll.more /\ poll.pages < MaxPages
          THEN [poll EXCEPT !.at = "fetch", !.page = {}] ELSE NoPoll

Advance ==
  /\ poll.at = "advance"
  /\ IF ~Readable(poll.page)
     THEN poll' = NoPoll /\ UNCHANGED <<cursor, readTo, faults>>
     ELSE IF PageMax(poll.page) <= readTo
     THEN Continue /\ UNCHANGED <<cursor, readTo, faults>>
     ELSE /\ cursor' = PageMax(poll.page)
          /\ \/ /\ readTo' = cursor'
                /\ Continue
                /\ UNCHANGED faults
             \/ Fault /\ poll' = NoPoll /\ UNCHANGED readTo   \* acknowledgement lost
  /\ UNCHANGED <<stored, bfStart, bfEnd, bfNext, bfDone, bfAnalysed, boot, started, bf,
                 world, skipped, interrupted>>

(* The API stays down for all retries of a request, or the database fails:  *)
(* the loop waits and polls again.                                          *)
PollFails ==
  /\ poll.at # "idle"
  /\ Fault
  /\ poll' = NoPoll
  /\ UNCHANGED <<stored, positions, boot, started, readTo, bf, world, skipped, interrupted>>

-----------------------------------------------------------------------------
(* The historical backfill                                                  *)

(* Mutant: the end of the backfill is taken as the last position to read.   *)
NextStartInside(t, end) == Min({t + Window, end - 1})

NextStart(t, end) == Min({t + Window, end})
InWindow(t, end)  == {e \in listed : At[e] \in t .. NextStart(t, end) - 1}

(* The windows that are being fetched, or are fetched and wait their turn.  *)
Unfetched == [ready |-> FALSE, items |-> {}]

(* Mutant: one window too many is prefetched.                               *)
RefilledPast(pos, end, pending) ==
  [i \in {j \in 1 .. 2 * Concurrency + 1 : j <= Len(pending) \/ pos + (j - 1) * Window < end} |->
     IF i <= Len(pending) THEN pending[i] ELSE Unfetched]

Refilled(pos, end, pending) ==
  [i \in {j \in 1 .. 2 * Concurrency : j <= Len(pending) \/ pos + (j - 1) * Window < end} |->
     IF i <= Len(pending) THEN pending[i] ELSE Unfetched]

Running(pos, end, pending) ==
  [at |-> "run", pos |-> pos, end |-> end, pending |-> Refilled(pos, end, pending)]

KeepFrom == now - Retention

(* A period that the retention has overtaken is done without a discovery.   *)
Plan ==
  /\ bf.at = "plan"
  /\ IF bfDone
     THEN bf' = [NoBackfill EXCEPT !.at = IF bfAnalysed THEN "off" ELSE "complete"] /\ UNCHANGED bfDone
     ELSE IF Retention > 0 /\ bfEnd <= KeepFrom
     THEN bf' = [NoBackfill EXCEPT !.at = "complete"] /\ bfDone' = TRUE
     ELSE /\ bf' = Running(IF Retention > 0 THEN Max({bfNext, KeepFrom}) ELSE bfNext,
                           bfEnd, <<>>)
          /\ UNCHANGED bfDone
  /\ UNCHANGED <<stored, cursor, bfStart, bfEnd, bfNext, bfAnalysed, boot, started, readTo,
                 poll, world, faults, skipped, interrupted>>

(* fetch: at most Concurrency windows at a time, started in their order.    *)
FetchWindow(i) ==
  /\ bf.at = "run" /\ i \in DOMAIN bf.pending
  /\ ~bf.pending[i].ready
  /\ Cardinality({j \in 1 .. i - 1 : ~bf.pending[j].ready}) < Concurrency
  /\ bf' = [bf EXCEPT !.pending[i] =
              [ready |-> TRUE, items |-> InWindow(bf.pos + (i - 1) * Window, bf.end)]]
  /\ UNCHANGED <<stored, positions, boot, started, readTo, poll, world, faults,
                 skipped, interrupted>>

(* Mutant: a failed window counts as processed.                             *)
StoreWindowAnyhow ==
  /\ bf.at = "run" /\ bf.pending # <<>> /\ Head(bf.pending).ready
  /\ \/ /\ stored' = stored \union (Head(bf.pending).items \cap Transfers)
        /\ UNCHANGED faults
     \/ Fault /\ UNCHANGED stored
  /\ bf' = [bf EXCEPT !.at = "stored"]
  /\ UNCHANGED <<positions, boot, started, readTo, poll, world, skipped, interrupted>>

(* process the oldest window; a transient error is retried on the spot.     *)
StoreWindow ==
  /\ bf.at = "run" /\ bf.pending # <<>> /\ Head(bf.pending).ready
  /\ \/ /\ stored' = stored \union (Head(bf.pending).items \cap Transfers)
        /\ bf' = [bf EXCEPT !.at = "stored"]
        /\ UNCHANGED faults
     \/ Fault /\ UNCHANGED <<stored, bf>>
  /\ UNCHANGED <<positions, boot, started, readTo, poll, world, skipped, interrupted>>

AdvanceWindow ==
  /\ bf.at = "stored"
  /\ bfNext' = NextStart(bf.pos, bf.end)
  /\ bf' = Running(bfNext', bf.end, Tail(bf.pending))
  /\ UNCHANGED <<stored, cursor, bfStart, bfEnd, bfDone, bfAnalysed, boot, started,
                 readTo, poll, world, faults, skipped, interrupted>>

Finish ==
  /\ bf.at = "run" /\ bf.pending = <<>>
  /\ bfDone' = TRUE
  /\ bf' = [bf EXCEPT !.at = "complete"]
  /\ UNCHANGED <<stored, cursor, bfStart, bfEnd, bfNext, bfAnalysed, boot, started,
                 readTo, poll, world, faults, skipped, interrupted>>

(* on_complete, the pattern discovery, and the key that says it has run     *)
(* (for an overtaken period the key alone).                                 *)
Complete ==
  /\ bf.at = "complete"
  /\ bfAnalysed' = TRUE
  /\ bf' = NoBackfill
  /\ UNCHANGED <<stored, cursor, bfStart, bfEnd, bfNext, bfDone, boot, started,
                 readTo, poll, world, faults, skipped, interrupted>>

(* Any other error ends run_backfill; supervise starts it again.            *)
BackfillFails ==
  /\ bf.at \in {"run", "stored", "complete"}
  /\ Fault
  /\ bf' = [NoBackfill EXCEPT !.at = "plan"]
  /\ UNCHANGED <<stored, positions, boot, started, readTo, poll, world, skipped, interrupted>>

-----------------------------------------------------------------------------
(* The world                                                                *)

(* The node lists an item, possibly after younger ones.                     *)
List(e) ==
  /\ e \in Items \ listed
  /\ At[e] <= now
  /\ listed' = listed \union {e}
  /\ late' = IF cursor # None /\ (At[e] < cursor - Overlap \/ At[e] <= poll.after)
             THEN late \union {e} ELSE late
  /\ UNCHANGED <<stored, positions, process, now, faults, skipped, interrupted>>

Tick ==
  /\ now < MaxNow
  /\ now' = now + 1
  /\ UNCHANGED <<stored, positions, process, listed, late, faults, skipped, interrupted>>

Crash ==
  /\ boot # "down"
  /\ Fault
  /\ boot' = "down" /\ readTo' = 0
  /\ poll' = NoPoll /\ bf' = NoBackfill
  /\ interrupted' = (interrupted \/ boot \in {"start", "end", "next"})
  /\ UNCHANGED <<stored, positions, started, world, skipped>>

StartUp      == FirstStart \/ WriteKey \/ Load
LiveStep     == BeginPoll \/ FetchPage \/ StorePage \/ Advance
BackfillStep == \/ Plan \/ StoreWindow \/ AdvanceWindow \/ Finish \/ Complete
                \/ \E i \in 1 .. 2 * Concurrency : FetchWindow(i)

Next ==
  \/ StartUp \/ LiveStep \/ PollFails \/ BackfillStep \/ BackfillFails
  \/ (\E e \in Items : List(e)) \/ Tick \/ Crash

Spec == Init /\ [][Next]_vars

(* start(), the live loop and the supervised backfill each keep running     *)
(* (main.py:174-217); the node and the clock owe nothing.                   *)
Fairness == WF_vars(StartUp) /\ WF_vars(LiveStep) /\ WF_vars(BackfillStep)

FairSpec == Spec /\ Fairness

-----------------------------------------------------------------------------
(* Properties                                                               *)

(* Type invariant: the keys of system_state and what the tasks hold         *)
(* (tron_listener.py:209-241).                                              *)
TypeOK ==
  /\ stored \subseteq Items /\ listed \subseteq Items
  /\ late \subseteq Items /\ skipped \subseteq Items
  /\ {cursor, bfStart, bfEnd, bfNext, started, readTo, now, faults} \subseteq Nat
  /\ {bfDone, bfAnalysed, interrupted} \subseteq BOOLEAN
  /\ boot \in {"down", "start", "end", "next", "done", "analysed", "load", "up"}
  /\ poll \in [at : {"idle", "fetch", "process", "advance"}, after : Int,
               pages : 0 .. MaxPages, page : SUBSET Items, more : BOOLEAN]
  /\ bf \in [at : {"off", "plan", "run", "stored", "complete"}, pos : Nat, end : Nat,
             pending : Seq([ready : BOOLEAN, items : SUBSET Items])]
  /\ Len(bf.pending) <= 2 * Concurrency

(* What the live stream or the backfill will still read after a crash at    *)
(* this moment, going by the positions in the database alone.               *)
AheadOfLive(e)     == cursor = None \/ At[e] >= cursor - Overlap
AheadOfBackfill(e) == /\ ~bfDone
                      /\ boot \in {"start", "end", "next"} \/ At[e] \in bfNext .. bfEnd - 1

(* Lost for reasons the code accepts or cannot see: listed too late, in a   *)
(* skipped gap, older than the retention or than the history.               *)
Forgone(e) ==
  \/ e \in late \union skipped
  \/ Retention > 0 /\ At[e] < KeepFrom
  \/ started # 0 /\ At[e] < started - History

(* A transfer that the node lists is stored, or one of the two streams      *)
(* still has it ahead, going by the positions in the database.              *)
Kept(e) == e \in stored \/ AheadOfLive(e) \/ AheadOfBackfill(e) \/ Forgone(e)

(* No position in the database ever passes a transfer that is not stored    *)
(* (tron_listener.py:310-314, 446-459), whatever crashes and whatever is    *)
(* prefetched, unless the crash has interrupted the first start between the *)
(* keys it writes (tron_listener.py:258-263).                               *)
NothingPassed == \A e \in listed \cap Transfers : Kept(e) \/ interrupted

(* Items the live stream cannot get past: their time does not read          *)
(* (tron_listener.py:311).                                                  *)
Blocking == {e \in Items : Raw[e].object /\ ~TimeReads(Raw[e])}
Unblocked == {e \in Transfers : \A b \in Blocking : At[e] < At[b]}

(* Every transfer that the node lists is stored in the end: the overlap     *)
(* finds late ones, the backfill hands over to the live stream without a    *)
(* gap, rejected and malformed items hold nothing up.  Only an item whose   *)
(* block_timestamp int() refuses blocks what comes after it.                *)
EventuallyStored ==
  \A e \in Unblocked : e \in listed ~> e \in stored \/ Forgone(e) \/ interrupted

(* The backfill, resumed as often as need be, ends, and the discovery runs  *)
(* after it (tron_listener.py:392-479).                                     *)
BackfillEnds == <>bfAnalysed

=============================================================================
