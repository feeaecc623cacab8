---------------------------- MODULE AnalysisQueue ----------------------------
(***************************************************************************)
(* When a Sender -> Recipient pair is analysed.  New evidence (confirmed    *)
(* transfers that make a test -> large sequence possible) sets the pair's   *)
(* durable needs_analysis flag and puts the pair in a queue for two         *)
(* workers.  The backfill collects old evidence without flags, then         *)
(* analyses it silently; maintenance queues flagged pairs again; /resume    *)
(* analyses a pair at once.  An analysis reads the history, computes, and   *)
(* clears the flag when it commits the model it learned.                    *)
(*                                                                         *)
(* Evidence is counted, not described: an analysis has learned what was     *)
(* stored when it read the history.                                         *)
(***************************************************************************)
EXTENDS Integers, Sequences

CONSTANTS
  Pairs,
  Id,           (* wallet_pairs.id                                                 *)
  NoPair,
  Streams,      (* the polling streams                                             *)
  Workers,      (* the analysis workers                                            *)
  Commands,     (* chats' command handlers, which run /resume                      *)
  MaxLive,      (* bound on the pieces of live evidence of each pair               *)
  MaxOld,       (* bound on the pieces of old evidence of each pair                *)
  MaxFaults     (* bound on crashes and errors                                     *)

Backfill  == "backfill"
Analysers == Workers \cup Commands \cup {Backfill}

ASSUME QueueAssumption ==
  /\ Id \in [Pairs -> Nat \ {0}] /\ \A p, q \in Pairs : Id[p] = Id[q] => p = q
  /\ NoPair \notin Pairs
  /\ Workers \cap Commands = {} /\ Backfill \notin Workers \cup Commands
  /\ MaxLive \in [Pairs -> Nat] /\ MaxOld \in [Pairs -> Nat] /\ MaxFaults \in Nat

VARIABLES
  (* tables *)
  live, old,    (* evidence stored, by the polling streams and by the backfill     *)
  flag,         (* pairs whose needs_analysis is set                               *)
  learned,      (* the evidence behind the watchlist entry of each pair            *)
  history,      (* how far the backfill is, by collector_state                     *)
  (* process memory *)
  queue, queued, inflight, dirty,
  (* tasks *)
  owing,        (* pairs each stream has stored but not yet enqueued               *)
  stage, job,   (* where each analyser stands, and with which pair                 *)
  read,         (* the evidence it has read                                        *)
  rows, last,   (* pairs the backfill analysis has fetched, and its last_id        *)
  (* environment *)
  faults,
  (* what happened, read by no action *)
  hidden,       (* pairs whose flag was cleared by an analysis that had not read   *)
                (* all live evidence                                               *)
  resumed,      (* pairs that /resume has analysed                                 *)
  announced     (* pairs with new evidence applied by an analysis that notifies    *)

tables == <<live, old, flag, learned, history>>
memory == <<queue, queued, inflight, dirty>>
tasks  == <<owing, stage, job, read, rows, last>>
past   == <<hidden, resumed, announced>>
vars   == <<tables, memory, tasks, faults, past>>

Nothing == [live |-> 0, old |-> 0]
Stored(p) == [live |-> live[p], old |-> old[p]]

Init ==
  /\ live = [p \in Pairs |-> 0] /\ old = [p \in Pairs |-> 0]
  /\ flag = {}
  /\ learned = [p \in Pairs |-> Nothing]
  /\ history = "filling"
  /\ queue = <<>> /\ queued = {} /\ inflight = {} /\ dirty = {}
  /\ owing = [s \in Streams |-> {}]
  /\ stage = [a \in Analysers |-> "idle"]
  /\ job = [a \in Analysers |-> NoPair]
  /\ read = [a \in Analysers |-> Nothing]
  /\ rows = {} /\ last = 0
  /\ faults = 0
  /\ hidden = {} /\ resumed = {} /\ announced = {}

Fault == faults < MaxFaults /\ faults' = faults + 1
InQueue(p) == \E i \in DOMAIN queue : queue[i] = p

-----------------------------------------------------------------------------
BugEnqueue(p, busy, marked) ==
  /\ inflight' = busy /\ dirty' = marked
  /\ queued' = IF p \in busy THEN queued ELSE queued \cup {p}
  /\ queue' = IF p \in busy \cup queued THEN queue ELSE Append(queue, p)

(* AnalysisService.enqueue, as the last thing that happens to the queue in  *)
(* a step that leaves busy in flight and marked dirty.                      *)
Enqueue(p, busy, marked) ==
  /\ inflight' = busy
  /\ dirty' = IF p \in busy THEN marked \cup {p} ELSE marked
  /\ queued' = IF p \in busy THEN queued ELSE queued \cup {p}
  /\ queue' = IF p \in busy \cup queued THEN queue ELSE Append(queue, p)

(* A live batch is stored; process is handed the touched pairs whose flag   *)
(* is set, which it enqueues when its matching loop is over (in any order;  *)
(* a crash may fall between).                                               *)
StoreLive(s) ==
  /\ owing[s] = {}
  /\ \E touched \in SUBSET Pairs : \E new \in SUBSET touched :
       /\ \A p \in new : live[p] < MaxLive[p]
       /\ live' = [p \in Pairs |-> IF p \in new THEN live[p] + 1 ELSE live[p]]
       /\ flag' = flag \cup new
       /\ owing' = [owing EXCEPT ![s] = touched \cap flag']
  /\ UNCHANGED <<old, learned, history, memory, stage, job, read, rows, last, faults, past>>

HandOver(s, p) ==
  /\ p \in owing[s]
  /\ owing' = [owing EXCEPT ![s] = @ \ {p}]
  /\ Enqueue(p, inflight, dirty)
  /\ UNCHANGED <<tables, stage, job, read, rows, last, faults, past>>

(* A transient error of the matching loop ends process before it enqueues.  *)
MatchRaises(s) ==
  /\ owing[s] # {}
  /\ Fault
  /\ owing' = [owing EXCEPT ![s] = {}]
  /\ UNCHANGED <<tables, memory, stage, job, read, rows, last, past>>

(* Follow-ups, expired tests, ended pauses and the periodic re-evaluation   *)
(* enqueue pairs of the watchlist.                                          *)
Reevaluate(p) ==
  /\ learned[p] # Nothing
  /\ Enqueue(p, inflight, dirty)
  /\ UNCHANGED <<tables, tasks, faults, past>>

(* sweep_flagged, once the backfill has stored all history                  *)
Sweep(p) ==
  /\ history # "filling" /\ p \in flag
  /\ Enqueue(p, inflight, dirty)
  /\ UNCHANGED <<tables, tasks, faults, past>>

-----------------------------------------------------------------------------
(* _process and analyze_pair                                                *)

Start(a, p) ==
  /\ job' = [job EXCEPT ![a] = p]
  /\ stage' = [stage EXCEPT ![a] = "read"]

BugBegin(a, p) ==
  /\ IF p \in inflight
     THEN dirty' = dirty \cup {p} /\ UNCHANGED <<inflight, job, stage>>
     ELSE inflight' = inflight \cup {p} /\ Start(a, p) /\ UNCHANGED dirty
  /\ UNCHANGED queued

BugBeginTwice(a, p) ==
  /\ queued' = queued \ {p}
  /\ inflight' = inflight \cup {p} /\ Start(a, p) /\ UNCHANGED dirty

Begin(a, p) ==
  /\ queued' = queued \ {p}
  /\ IF p \in inflight
     THEN dirty' = dirty \cup {p} /\ UNCHANGED <<inflight, job, stage>>
     ELSE inflight' = inflight \cup {p} /\ Start(a, p) /\ UNCHANGED dirty

Take(w) ==
  /\ stage[w] = "idle" /\ queue # <<>>
  /\ Begin(w, Head(queue))
  /\ queue' = Tail(queue)
  /\ UNCHANGED <<tables, owing, read, rows, last, faults, past>>

(* /resume calls analyze_pair itself, whoever else analyses the pair.       *)
Resume(c, p) ==
  /\ stage[c] = "idle" /\ learned[p] # Nothing
  /\ Start(c, p)
  /\ resumed' = resumed \cup {p}
  /\ UNCHANGED <<tables, memory, owing, read, rows, last, faults, hidden, announced>>

Read(a) ==
  /\ stage[a] = "read"
  /\ read' = [read EXCEPT ![a] = Stored(job[a])]
  /\ stage' = [stage EXCEPT ![a] = "write"]
  /\ UNCHANGED <<tables, memory, owing, job, rows, last, faults, past>>

(* The transaction commits: the flag is cleared and the model applied.      *)
CommitModel(a) ==
  LET p == job[a] IN
  /\ flag' = flag \ {p}
  /\ learned' = [learned EXCEPT ![p] = read[a]]
  /\ hidden' = IF read[a].live < live[p] THEN hidden \cup {p} ELSE hidden
  /\ announced' = IF /\ a # Backfill
                     /\ read[a].live > learned[p].live \/ read[a].old > learned[p].old
                  THEN announced \cup {p} ELSE announced
  /\ UNCHANGED <<live, old, history, resumed>>

BugLeave(a) ==
  LET p == job[a] IN
  IF a \in Commands THEN UNCHANGED memory
  ELSE inflight' = inflight \ {p} /\ UNCHANGED <<queue, queued, dirty>>

(* _process leaves: a pair that was enqueued meanwhile is queued again.     *)
Leave(a) ==
  LET p == job[a] IN
  IF a \in Commands THEN UNCHANGED memory
  ELSE IF p \in dirty THEN Enqueue(p, inflight \ {p}, dirty \ {p})
  ELSE inflight' = inflight \ {p} /\ UNCHANGED <<queue, queued, dirty>>

Finish(a) ==
  /\ stage[a] = "write"
  /\ CommitModel(a)
  /\ Leave(a)
  /\ stage' = [stage EXCEPT ![a] = IF a = Backfill THEN "fetch" ELSE "idle"]
  /\ job' = [job EXCEPT ![a] = NoPair]
  /\ UNCHANGED <<owing, read, rows, last, faults>>

Rest(a) ==
  /\ stage' = [stage EXCEPT ![a] = "idle"]
  /\ job' = [job EXCEPT ![a] = NoPair]

BugDefer(w) ==
  /\ stage' = [stage EXCEPT ![w] = "retry"]
  /\ job' = [job EXCEPT ![w] = NoPair]

(* A transient error: the worker sleeps, with the pair in hand.             *)
Defer(w) ==
  /\ stage' = [stage EXCEPT ![w] = "retry"]
  /\ UNCHANGED job

(* The analysis raises, with its transaction rolled back or committed.  A   *)
(* worker retries a transient error after a pause and logs any other; a     *)
(* command reports it; an error of the backfill analysis restarts it.       *)
Fails(a) ==
  /\ stage[a] \in {"read", "write"}
  /\ Fault
  /\ \/ UNCHANGED <<tables, past>>
     \/ stage[a] = "write" /\ CommitModel(a)
  /\ Leave(a)
  /\ \/ a \in Workers /\ Defer(a)
     \/ Rest(a)
  /\ rows' = IF a = Backfill THEN {} ELSE rows
  /\ last' = IF a = Backfill THEN 0 ELSE last
  /\ UNCHANGED <<owing, read>>

Retry(w) ==
  /\ stage[w] = "retry"
  /\ Enqueue(job[w], inflight, dirty)
  /\ Rest(w)
  /\ UNCHANGED <<tables, owing, read, rows, last, faults, past>>

-----------------------------------------------------------------------------
(* The backfill and run_backfill_analysis                                   *)

StoreOld(p) ==
  /\ history = "filling" /\ old[p] < MaxOld[p]
  /\ old' = [old EXCEPT ![p] = @ + 1]
  /\ UNCHANGED <<live, flag, learned, history, memory, tasks, faults, past>>

StoredAll ==
  /\ history = "filling"
  /\ history' = "stored"
  /\ UNCHANGED <<live, old, flag, learned, memory, tasks, faults, past>>

(* flag_backfill_candidates                                                 *)
FlagCandidates ==
  /\ history = "stored" /\ stage[Backfill] = "idle"
  /\ flag' = flag \cup {p \in Pairs : Stored(p) # Nothing}
  /\ stage' = [stage EXCEPT ![Backfill] = "fetch"]
  /\ UNCHANGED <<live, old, learned, history, memory, owing, job, read, rows, last, faults, past>>

(* flagged_pairs returns the next pairs by id, up to a limit.               *)
FlaggedAfter == {p \in flag : Id[p] > last}

FetchRows ==
  /\ stage[Backfill] = "fetch" /\ rows = {}
  /\ \E p \in FlaggedAfter : rows' = {q \in FlaggedAfter : Id[q] <= Id[p]}
  /\ UNCHANGED <<tables, memory, owing, stage, job, read, last, faults, past>>

NextRow ==
  /\ stage[Backfill] = "fetch"
  /\ \E p \in rows :
       /\ \A q \in rows : Id[p] <= Id[q]
       /\ rows' = rows \ {p}
       /\ last' = Id[p]
       /\ Begin(Backfill, p)
  /\ UNCHANGED <<tables, queue, owing, read, faults, past>>

(* A database error between two pairs ends the backfill task, which is      *)
(* restarted.                                                               *)
BackfillFails ==
  /\ stage[Backfill] = "fetch"
  /\ Fault
  /\ stage' = [stage EXCEPT ![Backfill] = "idle"]
  /\ rows' = {} /\ last' = 0
  /\ UNCHANGED <<tables, memory, owing, job, read, past>>

AnalysedAll ==
  /\ stage[Backfill] = "fetch" /\ rows = {} /\ FlaggedAfter = {}
  /\ history' = "analysed"
  /\ stage' = [stage EXCEPT ![Backfill] = "idle"]
  /\ UNCHANGED <<live, old, flag, learned, memory, owing, job, read, rows, last, faults, past>>

-----------------------------------------------------------------------------
(* The process dies and starts again; the tables remain.                    *)
Crash ==
  /\ Fault
  /\ queue' = <<>> /\ queued' = {} /\ inflight' = {} /\ dirty' = {}
  /\ owing' = [s \in Streams |-> {}]
  /\ stage' = [a \in Analysers |-> "idle"]
  /\ job' = [a \in Analysers |-> NoPair]
  /\ rows' = {} /\ last' = 0
  /\ UNCHANGED <<tables, read, past>>

Next ==
  \/ \E s \in Streams : StoreLive(s) \/ MatchRaises(s) \/ \E p \in Pairs : HandOver(s, p)
  \/ \E p \in Pairs : Reevaluate(p) \/ Sweep(p) \/ StoreOld(p)
  \/ \E w \in Workers : Take(w) \/ Retry(w)
  \/ \E c \in Commands, p \in Pairs : Resume(c, p)
  \/ \E a \in Analysers : Read(a) \/ Finish(a) \/ Fails(a)
  \/ StoredAll \/ FlagCandidates \/ FetchRows \/ NextRow \/ BackfillFails \/ AnalysedAll
  \/ Crash

Spec == Init /\ [][Next]_vars

(* The tasks keep running, and the backfill, whose windows are a finite     *)
(* list, reaches its end; new evidence is not promised.                     *)
Fairness ==
  /\ \A s \in Streams, p \in Pairs : WF_vars(HandOver(s, p))
  /\ \A p \in Pairs : WF_vars(Sweep(p))
  /\ \A w \in Workers : WF_vars(Take(w)) /\ WF_vars(Retry(w))
  /\ \A a \in Analysers : WF_vars(Read(a)) /\ WF_vars(Finish(a))
  /\ WF_vars(StoredAll) /\ WF_vars(FlagCandidates) /\ WF_vars(FetchRows) /\ WF_vars(NextRow) /\ WF_vars(AnalysedAll)

FairSpec == Spec /\ Fairness

-----------------------------------------------------------------------------
(* Properties                                                               *)

(* The variables keep their types.                                          *)
TypeOK ==
  /\ live \in [Pairs -> Nat] /\ old \in [Pairs -> Nat]
  /\ \A p \in Pairs : live[p] <= MaxLive[p] /\ old[p] <= MaxOld[p]
  /\ flag \subseteq Pairs
  /\ learned \in [Pairs -> [live : Nat, old : Nat]]
  /\ history \in {"filling", "stored", "analysed"}
  /\ queue \in Seq(Pairs)
  /\ queued \subseteq Pairs /\ inflight \subseteq Pairs /\ dirty \subseteq Pairs
  /\ owing \in [Streams -> SUBSET Pairs]
  /\ stage \in [Analysers -> {"idle", "fetch", "read", "write", "retry"}]
  /\ job \in [Analysers -> Pairs \cup {NoPair}]
  /\ read \in [Analysers -> [live : Nat, old : Nat]]
  /\ rows \subseteq Pairs /\ last \in Nat
  /\ faults \in 0..MaxFaults
  /\ hidden \subseteq Pairs /\ resumed \subseteq Pairs /\ announced \subseteq Pairs

Busy(a) == stage[a] \in {"read", "write"}

(* analysis.py: a pair is never analysed by two workers at once (nor by a   *)
(* worker and the backfill); the in-flight set is exactly what they work on.*)
OneAtATime ==
  /\ \A a, b \in Workers \cup {Backfill} : Busy(a) /\ Busy(b) /\ job[a] = job[b] => a = b
  /\ inflight = {job[a] : a \in {b \in Workers \cup {Backfill} : Busy(b)}}

(* No pair is locked out of analysis: enqueue ignores a pair that is queued *)
(* or only marks one that is in flight, so a queued pair must be in the     *)
(* queue, and a mark must have an analysis that will see it.                *)
NoneLockedOut == (\A p \in queued : InQueue(p)) /\ dirty \subseteq inflight

Scheduled(p) ==
  \/ p \in flag \/ InQueue(p) \/ p \in dirty
  \/ \E s \in Streams : p \in owing[s]
  \/ \E a \in Analysers : job[a] = p /\ stage[a] \in {"read", "retry"}
  \/ \E a \in Analysers : job[a] = p /\ stage[a] = "write" /\ read[a].live = live[p]

(* Live evidence that the watchlist does not reflect is scheduled for       *)
(* analysis.  Only an analysis that overlaps the store, and so clears the   *)
(* flag without having read the evidence, together with a fault or a        *)
(* /resume, can lose it.                                                    *)
EvidenceScheduled == \A p \in Pairs :
  \/ learned[p].live = live[p]
  \/ Scheduled(p)
  \/ p \in hidden /\ (faults > 0 \/ p \in resumed)

(* It is analysed in the end.                                               *)
EvidenceLearned == \A p \in Pairs :
  learned[p].live < live[p] ~>
    learned[p].live = live[p] \/ (p \in hidden /\ (faults > 0 \/ p \in resumed))

(* README: individual alerts for history are suppressed (unless             *)
(* BACKFILL_NOTIFY_INDIVIDUAL): a pair without live evidence is announced   *)
(* only in the summary.                                                     *)
HistoryIsSilent == \A p \in announced : live[p] > 0

=============================================================================
