------------------------------ MODULE Watchlist ------------------------------
(***************************************************************************)
(* The watchlist entry of one Sender -> Recipient pair: its row in the     *)
(* database, the snapshot of it in the WatchlistCache, and the tasks that  *)
(* write both.  An analysis (taken from the queue, or run by /resume)      *)
(* applies the model it has learned; a matching task pauses the entry when *)
(* tests flood in; the operator pauses and resumes it.  Each writes the    *)
(* row in one transaction, and the cache in a later step.                  *)
(***************************************************************************)
EXTENDS Integers, FiniteSets, Sequences

CONSTANTS
  Matchers,           (* tasks that may decide on a flood pause                 *)
  FloodPause,         (* FLOOD_PAUSE_MINUTES                                    *)
  NotifyNewPatterns,  (* NOTIFY_NEW_PATTERNS                                    *)
  AlertOnWeakened,    (* ALERT_ON_WEAKENED                                      *)
  Script,             (* the commands the operator sends, in order              *)
  MaxNow, MaxActivations, MaxFaults   (* bounds                                 *)

Queue    == "queue"      \* the worker that holds the pair: one at a time
Operator == "operator"   \* the command loop: one command after the other

ASSUME WatchlistAssumption ==
  /\ Queue \notin Matchers /\ Operator \notin Matchers
  /\ {MaxActivations, MaxFaults} \subseteq Nat
  /\ {FloodPause, MaxNow} \subseteq Nat \ {0}
  /\ {NotifyNewPatterns, AlertOnWeakened} \subseteq BOOLEAN
  /\ Script \in Seq({"/pause", "/resume"})

Analysts == {Queue, Operator}
Tasks    == Analysts \union Matchers
Statuses == {"ABSENT", "CANDIDATE", "ACTIVE", "WEAKENED", "EXPIRED", "PAUSED"}
NoTime   == 0
Times    == 1 .. MaxNow

(* What an analysis learns: how far the evidence qualifies.  "expired": no  *)
(* sequence for PATTERN_EXPIRY_DAYS; "weak": none of the others, or none    *)
(* left in the window (no model) since a recent one.                        *)
Models == {"expired", "weak", "candidate", "active"}

VARIABLES
  entry,      (* the row of table watchlist                                     *)
  cache,      (* the snapshot in WatchlistCache                                 *)
  outbox,     (* watchlist alerts inserted, by dedup_key                        *)
  queued,     (* the analysis queue holds the pair                              *)
  job,        (* what each task is in the middle of                             *)
  now,        (* the clock                                                      *)
  muted,      (* /pause has succeeded and no /resume since                      *)
  overridden, (* a flood pause has replaced that manual pause                   *)
  wasPaused,  (* the entry has been paused since it was last CANDIDATE, ...     *)
  quiet,      (* activations of silent analyses                                 *)
  faults,
  commands    (* how many commands of Script have been sent                     *)

vars == <<entry, cache, outbox, queued, job, now, muted, overridden, wasPaused,
          quiet, faults, commands>>
history == <<muted, overridden, wasPaused, quiet>>

Absent == [status |-> "ABSENT", manual |-> FALSE, until |-> NoTime,
           count |-> 0]
Idle   == [at |-> "idle"]

(* Mutant: the snapshot forgets the operator's pause.                       *)
SnapshotWithoutManual(e) == [status |-> e.status, until |-> e.until]

(* WatchlistSnapshot.from_entry                                             *)
Snapshot(e) == [status |-> e.status, manual |-> e.manual, until |-> e.until]

Init ==
  /\ entry = Absent
  /\ cache = Snapshot(Absent)
  /\ outbox = {}
  /\ queued = FALSE
  /\ job = [t \in Tasks |-> Idle]
  /\ now = 1
  /\ muted = FALSE /\ overridden = FALSE /\ wasPaused = FALSE
  /\ quiet = 0
  /\ faults = 0 /\ commands = 0

-----------------------------------------------------------------------------
(* decide_status                                                            *)

(* Mutant: a pause counts only as long as its time runs.                    *)
IsPausedByTime(e, t) == e.status = "PAUSED" /\ e.until > t

IsPaused(e, t) == e.status = "PAUSED" /\ (e.manual \/ e.until > t)

(* "ABSENT" stands for None: no entry is made.                              *)
Decide(e, m, t) ==
  IF e.status = "ABSENT" /\ m \in {"expired", "weak"} THEN "ABSENT"
  ELSE IF IsPaused(e, t) THEN "PAUSED"
  ELSE IF m = "expired" THEN "EXPIRED"
  ELSE IF m = "active" THEN "ACTIVE"
  ELSE IF m = "candidate" /\ e.count = 0 THEN "CANDIDATE"
  ELSE "WEAKENED"

(* apply_model: leaving PAUSED is a resume, never an activation.            *)
IsResumed(e) == e.status = "PAUSED"

(* Mutants: a resume counts as an activation; only a CANDIDATE activates.   *)
IsAnyActivation(e, s)       == s = "ACTIVE" /\ e.status # "ACTIVE"
IsCandidateActivation(e, s) == s = "ACTIVE" /\ e.status = "CANDIDATE"

IsActivation(e, s) == s = "ACTIVE" /\ e.status # "ACTIVE" /\ ~IsResumed(e)

Applied(e, m, t) ==
  LET s == Decide(e, m, t)
  IN  [status |-> s,
       manual |-> e.manual,
       until  |-> IF IsResumed(e) /\ s # "PAUSED" THEN NoTime ELSE e.until,
       count  |-> IF IsActivation(e, s) THEN e.count + 1 ELSE e.count]

Activated(n) == [type |-> "WATCHLIST_ACTIVATED", n |-> n]
NewPattern   == [type |-> "NEW_PATTERN", n |-> 0]

(* _notify: e is the entry before, f the entry after.                       *)
Notified(e, f) ==
  IF IsResumed(e) THEN {}
  ELSE IF f.status = "ACTIVE" /\ e.status # "ACTIVE" THEN {Activated(f.count)}
  ELSE IF e.status = "ABSENT" /\ f.status = "CANDIDATE" /\ NotifyNewPatterns
       THEN {NewPattern} ELSE {}

-----------------------------------------------------------------------------
(* Steps shared by the tasks.                                               *)

Busy(t, at) == job[t].at = at
SetJob(t, j) == job' = [job EXCEPT ![t] = j]

(* A transaction that writes e and its acknowledgement; lost, the           *)
(* exception skips cache.put, and the worker enqueues the pair again.       *)
Commit(t, e) ==
  /\ entry' = e
  /\ \/ /\ SetJob(t, [at |-> "putting", snap |-> Snapshot(e)])
        /\ UNCHANGED <<queued, faults>>
     \/ /\ faults < MaxFaults
        /\ faults' = faults + 1
        /\ SetJob(t, Idle)
        /\ queued' = (queued \/ t = Queue)

(* The transaction is rolled back: a database error, or a second insert of  *)
(* the pair, which uq_watchlist_pair refuses.                               *)
Fails(t) ==
  /\ job[t].at \in {"analysing", "flooded"}
  /\ faults < MaxFaults
  /\ faults' = faults + 1
  /\ SetJob(t, Idle)
  /\ queued' \in {queued, queued \/ t = Queue}
  /\ UNCHANGED <<entry, cache, outbox, now, history, commands>>

(* cache.put, after the commit.                                             *)
Put(t) ==
  /\ Busy(t, "putting")
  /\ cache' = job[t].snap
  /\ SetJob(t, Idle)
  /\ UNCHANGED <<entry, outbox, queued, now, history, faults, commands>>

-----------------------------------------------------------------------------
(* Analyses                                                                 *)

Enqueue ==
  /\ ~queued
  /\ queued' = TRUE
  /\ UNCHANGED <<entry, cache, outbox, job, now, history, faults, commands>>

(* A worker takes the pair; the backfill analysis does too, silently.       *)
Take ==
  /\ queued /\ Busy(Queue, "idle")
  /\ queued' = FALSE
  /\ \E silent \in BOOLEAN :
       SetJob(Queue, [at |-> "analysing", since |-> now, silent |-> silent])
  /\ UNCHANGED <<entry, cache, outbox, now, history, faults, commands>>

(* The analysis transaction, judged by the time at which it began.          *)
Analyse(t) ==
  /\ Busy(t, "analysing")
  /\ \E m \in Models :
       LET f == Applied(entry, m, job[t].since)
       IN  /\ f.count <= MaxActivations
           /\ IF f.status = "ABSENT"
              THEN /\ SetJob(t, Idle)
                   /\ UNCHANGED <<entry, outbox, queued, faults, wasPaused, quiet>>
              ELSE /\ Commit(t, f)
                   /\ outbox' = IF job[t].silent THEN outbox
                                ELSE outbox \union Notified(entry, f)
                   /\ quiet' = IF job[t].silent /\ IsActivation(entry, f.status)
                               THEN quiet + 1 ELSE quiet
                   /\ wasPaused' = (wasPaused /\ f.status \in {"PAUSED", "ACTIVE"})
  /\ UNCHANGED <<cache, now, muted, overridden, commands>>

(* Maintenance: pauses that have ended, and the periodic re-evaluation.     *)
EndPauses ==
  /\ cache.status = "PAUSED" /\ ~cache.manual
  /\ cache.until # NoTime /\ cache.until <= now
  /\ Enqueue

(* Mutant: paused pairs are left to EndPauses.                              *)
ReevaluateUnpaused ==
  /\ cache.status \notin {"ABSENT", "EXPIRED", "PAUSED"}
  /\ Enqueue

Reevaluate ==
  /\ cache.status \notin {"ABSENT", "EXPIRED"}
  /\ Enqueue

-----------------------------------------------------------------------------
(* The flood pause: decided on the cached snapshot, written to the row.     *)

(* match_test_transfer lets the transfer through.                           *)
Matches(snap, t) ==
  \/ snap.status = "ACTIVE"
  \/ snap.status = "WEAKENED" /\ AlertOnWeakened
  \/ snap.status = "PAUSED" /\ ~snap.manual /\ snap.until # NoTime /\ snap.until <= t

SeeFlood(t) ==
  /\ Busy(t, "idle")
  /\ Matches(cache, now)
  /\ SetJob(t, [at |-> "flooded", since |-> now])
  /\ UNCHANGED <<entry, cache, outbox, queued, now, history, faults, commands>>

Paused(e, until) ==
  [e EXCEPT !.status = "PAUSED", !.until = until, !.manual = (until = NoTime)]

PauseFlood(t) ==
  /\ Busy(t, "flooded")
  /\ Commit(t, Paused(entry, job[t].since + FloodPause))
  /\ overridden' = (overridden \/ muted)
  /\ wasPaused' = TRUE
  /\ UNCHANGED <<cache, outbox, now, muted, quiet, commands>>

-----------------------------------------------------------------------------
(* Commands                                                                 *)

Command(c) ==
  /\ Busy(Operator, "idle")
  /\ entry.status # "ABSENT"   \* else the command changes nothing
  /\ commands < Len(Script) /\ Script[commands + 1] = c
  /\ commands' = commands + 1

PauseCommand ==
  /\ Command("/pause")
  /\ Commit(Operator, Paused(entry, NoTime))
  /\ muted' = TRUE
  /\ overridden' = FALSE
  /\ wasPaused' = TRUE
  /\ UNCHANGED <<cache, outbox, now, quiet>>

(* resume leaves the status to the analysis that follows it.                *)
ResumeCommand ==
  /\ Command("/resume")
  /\ entry' = [entry EXCEPT !.manual = FALSE, !.until = now]
  /\ muted' = FALSE
  /\ overridden' = FALSE
  /\ SetJob(Operator, [at |-> "resumed"])
  /\ UNCHANGED <<cache, outbox, queued, now, wasPaused, quiet, faults>>

AnalyseResumed ==
  /\ Busy(Operator, "resumed")
  /\ SetJob(Operator, [at |-> "analysing", since |-> now, silent |-> FALSE])
  /\ UNCHANGED <<entry, cache, outbox, queued, now, history, faults, commands>>

-----------------------------------------------------------------------------
(* The process dies; start() loads the cache from the table.                *)
Crash ==
  /\ faults < MaxFaults
  /\ faults' = faults + 1
  /\ cache' = Snapshot(entry)
  /\ queued' = FALSE
  /\ job' = [t \in Tasks |-> Idle]
  /\ UNCHANGED <<entry, outbox, now, history, commands>>

Tick ==
  /\ now < MaxNow
  /\ now' = now + 1
  /\ UNCHANGED <<entry, cache, outbox, queued, job, history, faults, commands>>

Next ==
  \/ Enqueue \/ Take \/ EndPauses \/ Reevaluate
  \/ \E t \in Analysts : Analyse(t)
  \/ \E t \in Tasks : Put(t) \/ Fails(t)
  \/ \E t \in Matchers : SeeFlood(t) \/ PauseFlood(t)
  \/ PauseCommand \/ ResumeCommand \/ AnalyseResumed
  \/ Crash \/ Tick

Spec == Init /\ [][Next]_vars

(* The tasks of run_forever keep running, maintenance runs every cycle, and *)
(* time goes on; nothing makes evidence, floods or commands come.           *)
Fairness ==
  /\ WF_vars(Take) /\ WF_vars(EndPauses) /\ WF_vars(Reevaluate) /\ WF_vars(Tick)
  /\ \A t \in Analysts : WF_vars(Analyse(t))
  /\ \A t \in Tasks : WF_vars(Put(t))
  /\ \A t \in Matchers : WF_vars(PauseFlood(t))
  /\ WF_vars(AnalyseResumed)

FairSpec == Spec /\ Fairness

-----------------------------------------------------------------------------
(* Properties                                                               *)

Snapshots == [status : Statuses, manual : BOOLEAN, until : Nat]
Jobs ==
  {Idle, [at |-> "resumed"]}
    \union [at : {"analysing"}, since : Times, silent : BOOLEAN]
    \union [at : {"flooded"}, since : Times]
    \union [at : {"putting"}, snap : Snapshots]

(* Type invariant: the shapes of the row, the snapshot and the tasks' jobs  *)
(* (manager.py, model.py).                                                  *)
TypeOK ==
  /\ entry \in [status : Statuses, manual : BOOLEAN, until : Nat, count : Nat]
  /\ cache \in Snapshots
  /\ outbox \subseteq [type : {"WATCHLIST_ACTIVATED", "NEW_PATTERN"}, n : Nat]
  /\ queued \in BOOLEAN
  /\ job \in [Tasks -> Jobs]
  /\ now \in Times
  /\ muted \in BOOLEAN /\ overridden \in BOOLEAN /\ wasPaused \in BOOLEAN
  /\ {quiet, faults, commands} \subseteq Nat

(* The flood pause is the only way out of a manual pause but /resume: no    *)
(* analysis, re-evaluation, clock, crash or late cache.put unmutes a pair   *)
(* that the operator has paused (decide_status, apply_model).  A task that  *)
(* matched before /pause may still turn it into a flood pause, which ends   *)
(* by itself (pipeline.py:115), although the bot has answered "Use /resume  *)
(* to re-enable" (bot.py:321).                                              *)
ManualPauseHolds ==
  muted /\ ~overridden => entry.status = "PAUSED" /\ entry.manual

(* Each activation that is counted is announced once under its own          *)
(* dedup_key, silent ones aside: insert_alert never swallows the            *)
(* announcement of a later activation as a duplicate of an earlier one      *)
(* (manager.py:104-106, 178-182).                                           *)
ActivationsAnnounced ==
  Cardinality({a \in outbox : a.type = "WATCHLIST_ACTIVATED"}) + quiet = entry.count

(* An ACTIVE entry whose activation was neither counted nor announced was   *)
(* paused before it qualified (manager.py:103): no other path makes an      *)
(* entry ACTIVE without an activation.                                      *)
UncountedWasPaused == entry.status = "ACTIVE" /\ entry.count = 0 => wasPaused

(* Whatever the order in which snapshots are put, and whatever failed after *)
(* a commit, the cache mirrors the row again in the end (model.py:3-5).     *)
(* Excepted: a late put of EXPIRED, which the periodic re-evaluation skips  *)
(* (maintenance.py:70), and an entry whose first put was lost.              *)
CacheHeals ==
  cache # Snapshot(entry) ~>
    cache = Snapshot(entry) \/ cache.status \in {"ABSENT", "EXPIRED"}

(* A timed pause that has run out is lifted, or replaced by a new one       *)
(* (maintenance.py:68), with the same exception.                            *)
PauseEnds ==
  \A u \in Times :
    (entry.status = "PAUSED" /\ ~entry.manual /\ entry.until = u /\ u <= now)
      ~> \/ ~(entry.status = "PAUSED" /\ ~entry.manual /\ entry.until = u)
         \/ cache.status \in {"ABSENT", "EXPIRED"}

=============================================================================
