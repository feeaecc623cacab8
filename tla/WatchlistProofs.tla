--------------------------- MODULE WatchlistProofs ---------------------------
(***************************************************************************)
(* Theorems about Watchlist, for every set of matching tasks, script of    *)
(* commands and bound.                                                     *)
(***************************************************************************)
EXTENDS Watchlist, FiniteSetTheorems, TLAPS

-----------------------------------------------------------------------------
(* Types                                                                    *)

Entries == [status : Statuses, manual : BOOLEAN, until : Nat, count : Nat]

(* A snapshot is one, and so is what a commit puts.                         *)
LEMMA SnapshotType ==
  ASSUME NEW e \in Entries
  PROVE  Snapshot(e) \in Snapshots
BY DEF Entries, Snapshot, Snapshots

(* A decision is a status, for any entry, evidence and time.                *)
LEMMA DecideType ==
  ASSUME NEW e, NEW m, NEW t
  PROVE  Decide(e, m, t) \in Statuses
BY DEF Decide, Statuses

(* Applying a model leaves a well-formed row.                               *)
LEMMA AppliedType ==
  ASSUME NEW e \in Entries, NEW m, NEW t
  PROVE  Applied(e, m, t) \in Entries
<1> DEFINE s == Decide(e, m, t)
<1>1. s \in Statuses
  BY DecideType
<1>2. e.manual \in BOOLEAN /\ e.until \in Nat /\ e.count \in Nat
  BY DEF Entries
<1>3. (IF IsResumed(e) /\ s # "PAUSED" THEN NoTime ELSE e.until) \in Nat
  BY <1>2 DEF NoTime
<1>4. (IF IsActivation(e, s) THEN e.count + 1 ELSE e.count) \in Nat
  BY <1>2
<1> QED
  BY <1>1, <1>2, <1>3, <1>4 DEF Applied, Entries

(* So does pausing it.                                                      *)
LEMMA PausedType ==
  ASSUME NEW e \in Entries, NEW u \in Nat
  PROVE  Paused(e, u) \in Entries
BY DEF Paused, Entries, Statuses

(* What a commit does to the variables it writes.                           *)
LEMMA CommitType ==
  ASSUME TypeOK, NEW t \in Tasks, NEW e \in Entries, Commit(t, e)
  PROVE  /\ entry' \in Entries
         /\ queued' \in BOOLEAN
         /\ job' \in [Tasks -> Jobs]
         /\ faults' \in Nat
<1>1. [at |-> "putting", snap |-> Snapshot(e)] \in Jobs
  BY SnapshotType DEF Jobs
<1>2. Idle \in Jobs
  BY DEF Jobs
<1>3. job' \in [Tasks -> Jobs]
  BY <1>1, <1>2 DEF TypeOK, Commit, SetJob
<1>4. faults' \in Nat
  BY DEF TypeOK, Commit
<1>5. queued' \in BOOLEAN
  BY DEF TypeOK, Commit
<1> QED
  BY <1>3, <1>4, <1>5 DEF Commit

(* The row, the snapshot and the jobs keep their shapes.                    *)
THEOREM WatchlistTypes == Spec => []TypeOK
<1> USE WatchlistAssumption DEF WatchlistAssumption
<1>1. Init => TypeOK
  <2> SUFFICES ASSUME Init PROVE TypeOK
    OBVIOUS
  <2>1. Absent \in Entries
    BY DEF Absent, Entries, Statuses, NoTime
  <2>2. cache \in Snapshots
    BY <2>1, SnapshotType DEF Init
  <2>3. job \in [Tasks -> Jobs]
    BY DEF Init, Jobs
  <2>4. now \in Times
    BY DEF Init, Times
  <2>5. muted \in BOOLEAN /\ overridden \in BOOLEAN /\ wasPaused \in BOOLEAN /\ queued \in BOOLEAN
    BY Zenon DEF Init
  <2>6. outbox \subseteq [type : {"WATCHLIST_ACTIVATED", "NEW_PATTERN"}, n : Nat]
    BY DEF Init
  <2>7. {quiet, faults, commands} \subseteq Nat
    BY DEF Init
  <2> QED
    BY <2>1, <2>2, <2>3, <2>4, <2>5, <2>6, <2>7 DEF Init, TypeOK, Entries
<1>2. TypeOK /\ [Next]_vars => TypeOK'
  <2> SUFFICES ASSUME TypeOK, [Next]_vars PROVE TypeOK'
    OBVIOUS
  <2>1. CASE Enqueue
    BY <2>1 DEF Enqueue, TypeOK, history
  <2>2. CASE Take
    <3>1. PICK silent \in BOOLEAN :
            job' = [job EXCEPT ![Queue] = [at |-> "analysing", since |-> now, silent |-> silent]]
      BY <2>2 DEF Take, SetJob
    <3>2. [at |-> "analysing", since |-> now, silent |-> silent] \in Jobs
      BY DEF TypeOK, Jobs
    <3>3. job' \in [Tasks -> Jobs]
      BY <3>1, <3>2 DEF TypeOK
    <3> QED
      BY <2>2, <3>3 DEF Take, TypeOK, history
  <2>3. CASE EndPauses
    BY <2>3 DEF EndPauses, Enqueue, TypeOK, history
  <2>4. CASE Reevaluate
    BY <2>4 DEF Reevaluate, Enqueue, TypeOK, history
  <2>5. ASSUME NEW t \in Analysts, Analyse(t)
        PROVE  TypeOK'
    <3>1. PICK m \in Models :
            LET f == Applied(entry, m, job[t].since)
            IN  /\ f.count <= MaxActivations
                /\ IF f.status = "ABSENT"
                   THEN /\ SetJob(t, Idle)
                        /\ UNCHANGED <<entry, outbox, queued, faults, wasPaused, quiet>>
                   ELSE /\ Commit(t, f)
                        /\ outbox' = IF job[t].silent THEN outbox
                                     ELSE outbox \union Notified(entry, f)
                        /\ quiet' = IF job[t].silent /\ IsActivation(entry, f.status)
                                    THEN quiet + 1 ELSE quiet
                        /\ wasPaused' = (wasPaused /\ f.status \in {"PAUSED", "ACTIVE"})
      BY <2>5 DEF Analyse
    <3> DEFINE f == Applied(entry, m, job[t].since)
    <3>2. f \in Entries
      BY AppliedType DEF TypeOK, Entries
    <3>3. UNCHANGED <<cache, now, muted, overridden, commands>>
      BY <2>5 DEF Analyse
    <3>4. t \in Tasks
      BY DEF Tasks
    <3>5. CASE f.status = "ABSENT"
      <4>1. job' \in [Tasks -> Jobs]
        BY <3>1, <3>5 DEF SetJob, TypeOK, Jobs
      <4> QED
        BY <3>1, <3>3, <3>5, <4>1 DEF TypeOK
    <3>6. CASE f.status # "ABSENT"
      <4>1. /\ entry' \in Entries /\ queued' \in BOOLEAN
            /\ job' \in [Tasks -> Jobs] /\ faults' \in Nat
        BY <3>1, <3>2, <3>4, <3>6, CommitType
      <4>2. Notified(entry, f) \subseteq [type : {"WATCHLIST_ACTIVATED", "NEW_PATTERN"}, n : Nat]
        BY <3>2 DEF Notified, Activated, NewPattern, Entries
      <4>3. outbox' \subseteq [type : {"WATCHLIST_ACTIVATED", "NEW_PATTERN"}, n : Nat]
        BY <3>1, <3>6, <4>2 DEF TypeOK
      <4>4. quiet' \in Nat
        BY <3>1, <3>6 DEF TypeOK
      <4>5. wasPaused' \in BOOLEAN
        BY <3>1, <3>6 DEF TypeOK
      <4> QED
        BY <3>3, <4>1, <4>3, <4>4, <4>5 DEF TypeOK, Entries
    <3> QED
      BY <3>5, <3>6
  <2>6. ASSUME NEW t \in Tasks, Put(t)
        PROVE  TypeOK'
    <3>1. job[t].at = "putting" /\ job[t] \in Jobs
      BY <2>6 DEF Put, Busy, TypeOK
    <3>2. job[t].snap \in Snapshots
      BY <3>1 DEF Jobs, Idle
    <3>3. job' \in [Tasks -> Jobs]
      BY <2>6 DEF Put, SetJob, TypeOK, Jobs
    <3> QED
      BY <2>6, <3>2, <3>3 DEF Put, TypeOK, history
  <2>7. ASSUME NEW t \in Tasks, Fails(t)
        PROVE  TypeOK'
    <3>1. job' \in [Tasks -> Jobs]
      BY <2>7 DEF Fails, SetJob, TypeOK, Jobs
    <3>2. queued' \in BOOLEAN
      BY <2>7 DEF Fails, TypeOK
    <3> QED
      BY <2>7, <3>1, <3>2 DEF Fails, TypeOK, history
  <2>8. ASSUME NEW t \in Matchers, SeeFlood(t)
        PROVE  TypeOK'
    <3>1. [at |-> "flooded", since |-> now] \in Jobs
      BY DEF Jobs, TypeOK
    <3>2. job' \in [Tasks -> Jobs]
      BY <2>8, <3>1 DEF SeeFlood, SetJob, TypeOK
    <3> QED
      BY <2>8, <3>2 DEF SeeFlood, TypeOK, history
  <2>9. ASSUME NEW t \in Matchers, PauseFlood(t)
        PROVE  TypeOK'
    <3>1. job[t].at = "flooded" /\ job[t] \in Jobs
      BY <2>9 DEF PauseFlood, Busy, TypeOK, Tasks
    <3>2. job[t].since \in Nat
      BY <3>1 DEF Jobs, Idle, Times
    <3>3. Paused(entry, job[t].since + FloodPause) \in Entries
      <4>1. job[t].since + FloodPause \in Nat
        BY <3>2
      <4> QED
        BY <4>1, PausedType DEF TypeOK, Entries
    <3>4. /\ entry' \in Entries /\ queued' \in BOOLEAN
          /\ job' \in [Tasks -> Jobs] /\ faults' \in Nat
      BY <2>9, <3>3, CommitType DEF PauseFlood, Tasks
    <3>5. overridden' \in BOOLEAN /\ wasPaused' \in BOOLEAN
      BY <2>9 DEF PauseFlood, TypeOK
    <3>6. UNCHANGED <<cache, outbox, now, muted, quiet, commands>>
      BY <2>9 DEF PauseFlood
    <3> QED
      BY <3>4, <3>5, <3>6 DEF TypeOK, Entries
  <2>10. CASE PauseCommand
    <3>1. Paused(entry, NoTime) \in Entries
      BY PausedType DEF TypeOK, Entries, NoTime
    <3>2. /\ entry' \in Entries /\ queued' \in BOOLEAN
          /\ job' \in [Tasks -> Jobs] /\ faults' \in Nat
      BY <2>10, <3>1, CommitType DEF PauseCommand, Tasks, Analysts
    <3>3. muted' \in BOOLEAN /\ overridden' \in BOOLEAN /\ wasPaused' \in BOOLEAN
      BY <2>10, Zenon DEF PauseCommand
    <3>4. commands' \in Nat
      BY <2>10 DEF PauseCommand, Command, TypeOK
    <3>5. UNCHANGED <<cache, outbox, now, quiet>>
      BY <2>10 DEF PauseCommand
    <3> QED
      BY <3>2, <3>3, <3>4, <3>5 DEF TypeOK, Entries
  <2>11. CASE ResumeCommand
    <3>1. [at |-> "resumed"] \in Jobs
      BY DEF Jobs
    <3>2. job' \in [Tasks -> Jobs]
      BY <2>11, <3>1 DEF ResumeCommand, SetJob, TypeOK
    <3>3. entry \in Entries /\ now \in Nat
      BY DEF TypeOK, Entries, Times
    <3>4. [entry EXCEPT !.manual = FALSE, !.until = now] \in Entries
      BY <3>3 DEF Entries
    <3>5. entry' \in Entries
      BY <2>11, <3>4 DEF ResumeCommand
    <3>6. muted' \in BOOLEAN /\ overridden' \in BOOLEAN
      BY <2>11, Zenon DEF ResumeCommand
    <3>7. commands' \in Nat
      BY <2>11 DEF ResumeCommand, Command, TypeOK
    <3>8. UNCHANGED <<cache, outbox, queued, now, wasPaused, quiet, faults>>
      BY <2>11 DEF ResumeCommand
    <3> QED
      BY <3>2, <3>5, <3>6, <3>7, <3>8 DEF TypeOK, Entries
  <2>12. CASE AnalyseResumed
    <3>1. [at |-> "analysing", since |-> now, silent |-> FALSE] \in Jobs
      BY DEF Jobs, TypeOK
    <3>2. job' \in [Tasks -> Jobs]
      BY <2>12, <3>1 DEF AnalyseResumed, SetJob, TypeOK
    <3> QED
      BY <2>12, <3>2 DEF AnalyseResumed, TypeOK, history
  <2>13. CASE Crash
    <3>1. Snapshot(entry) \in Snapshots
      BY SnapshotType DEF TypeOK, Entries
    <3>2. job' \in [Tasks -> Jobs]
      BY <2>13 DEF Crash, Jobs
    <3>3. queued' \in BOOLEAN
      BY <2>13, Zenon DEF Crash
    <3>4. faults' \in Nat /\ cache' = Snapshot(entry)
      BY <2>13 DEF Crash, TypeOK
    <3>5. UNCHANGED <<entry, outbox, now, history, commands>>
      BY <2>13 DEF Crash
    <3> QED
      BY <3>1, <3>2, <3>3, <3>4, <3>5 DEF TypeOK, history
  <2>14. CASE Tick
    <3>1. now' \in Times
      BY <2>14 DEF Tick, TypeOK, Times
    <3> QED
      BY <2>14, <3>1 DEF Tick, TypeOK, history
  <2>15. CASE UNCHANGED vars
    BY <2>15 DEF vars, TypeOK
  <2> QED
    BY <2>1, <2>2, <2>3, <2>4, <2>5, <2>6, <2>7, <2>8, <2>9, <2>10, <2>11, <2>12, <2>13,
       <2>14, <2>15 DEF Next
<1> QED
  BY <1>1, <1>2, PTL DEF Spec

-----------------------------------------------------------------------------
(* Pauses and activations                                                   *)

(* The steps that leave the row, the outbox and the history alone.          *)
Aside == UNCHANGED <<entry, outbox, history>>

(* What an analysis that has something to commit does.                      *)
Analysed(m, since, silent) ==
  LET f == Applied(entry, m, since)
  IN  /\ entry' = f /\ f.status # "ABSENT"
      /\ outbox' = IF silent THEN outbox ELSE outbox \union Notified(entry, f)
      /\ quiet' = IF silent /\ IsActivation(entry, f.status) THEN quiet + 1 ELSE quiet
      /\ wasPaused' = (wasPaused /\ f.status \in {"PAUSED", "ACTIVE"})
      /\ UNCHANGED <<muted, overridden>>

(* The other steps that write the row.                                      *)
FloodPaused ==
  /\ \E u \in Nat : entry' = Paused(entry, u) /\ u # NoTime
  /\ overridden' = (overridden \/ muted) /\ wasPaused' = TRUE
  /\ UNCHANGED <<outbox, muted, quiet>>

OperatorPaused ==
  /\ entry' = Paused(entry, NoTime)
  /\ muted' = TRUE /\ overridden' = FALSE /\ wasPaused' = TRUE
  /\ UNCHANGED <<outbox, quiet>>

OperatorResumed ==
  /\ \E u \in Nat : entry' = [entry EXCEPT !.manual = FALSE, !.until = u]
  /\ muted' = FALSE /\ overridden' = FALSE
  /\ UNCHANGED <<outbox, wasPaused, quiet>>

(* Every step writes the row in one of these ways, or leaves it alone.      *)
LEMMA StepWrites ==
  ASSUME TypeOK, [Next]_vars
  PROVE  \/ Aside
         \/ \E m \in Models, since \in Nat, silent \in BOOLEAN : Analysed(m, since, silent)
         \/ FloodPaused \/ OperatorPaused \/ OperatorResumed
<1> USE DEF Aside
<1>1. CASE Enqueue \/ Take \/ EndPauses \/ Reevaluate \/ AnalyseResumed \/ Crash \/ Tick
  BY <1>1 DEF Enqueue, Take, EndPauses, Reevaluate, AnalyseResumed, Crash, Tick, history
<1>2. ASSUME NEW t \in Tasks, Put(t) \/ Fails(t)
      PROVE  Aside
  BY <1>2 DEF Put, Fails
<1>3. ASSUME NEW t \in Matchers, SeeFlood(t)
      PROVE  Aside
  BY <1>3 DEF SeeFlood
<1>4. ASSUME NEW t \in Analysts, Analyse(t)
      PROVE  \/ Aside
             \/ \E m \in Models, since \in Nat, silent \in BOOLEAN : Analysed(m, since, silent)
  <2>1. PICK m \in Models :
          LET f == Applied(entry, m, job[t].since)
          IN  /\ f.count <= MaxActivations
              /\ IF f.status = "ABSENT"
                 THEN /\ SetJob(t, Idle)
                      /\ UNCHANGED <<entry, outbox, queued, faults, wasPaused, quiet>>
                 ELSE /\ Commit(t, f)
                      /\ outbox' = IF job[t].silent THEN outbox
                                   ELSE outbox \union Notified(entry, f)
                      /\ quiet' = IF job[t].silent /\ IsActivation(entry, f.status)
                                  THEN quiet + 1 ELSE quiet
                      /\ wasPaused' = (wasPaused /\ f.status \in {"PAUSED", "ACTIVE"})
    BY <1>4 DEF Analyse
  <2> DEFINE f == Applied(entry, m, job[t].since)
  <2>2. UNCHANGED <<muted, overridden>>
    BY <1>4 DEF Analyse
  <2>3. job[t].at = "analysing" /\ job[t] \in Jobs
    BY <1>4 DEF Analyse, Busy, TypeOK, Tasks
  <2>4. job[t].since \in Nat /\ job[t].silent \in BOOLEAN
    BY <2>3 DEF Jobs, Idle, Times
  <2>5. CASE f.status = "ABSENT"
    BY <2>1, <2>2, <2>5 DEF history
  <2>6. CASE f.status # "ABSENT"
    <3>1. Analysed(m, job[t].since, job[t].silent)
      BY <2>1, <2>2, <2>6 DEF Analysed, Commit
    <3> QED
      BY <2>4, <3>1
  <2> QED
    BY <2>5, <2>6
<1>5. ASSUME NEW t \in Matchers, PauseFlood(t)
      PROVE  FloodPaused
  <2>1. job[t].at = "flooded" /\ job[t] \in Jobs
    BY <1>5 DEF PauseFlood, Busy, TypeOK, Tasks
  <2>2. job[t].since + FloodPause \in Nat \ {NoTime}
    BY <2>1, WatchlistAssumption DEF Jobs, Idle, Times, NoTime, WatchlistAssumption
  <2> QED
    BY <1>5, <2>2 DEF PauseFlood, Commit, FloodPaused
<1>6. CASE PauseCommand
  BY <1>6 DEF PauseCommand, Commit, OperatorPaused
<1>7. CASE ResumeCommand
  <2>1. now \in Nat
    BY DEF TypeOK, Times
  <2>2. entry' = [entry EXCEPT !.manual = FALSE, !.until = now]
    BY <1>7 DEF ResumeCommand
  <2>3. muted' = FALSE /\ overridden' = FALSE /\ UNCHANGED <<outbox, wasPaused, quiet>>
    BY <1>7, Zenon DEF ResumeCommand
  <2> QED
    BY <2>1, <2>2, <2>3, Zenon DEF OperatorResumed
<1>8. CASE UNCHANGED vars
  BY <1>8 DEF vars, history
<1> HIDE DEF Aside
<1>9. CASE Next
  <2>1. \/ Enqueue \/ Take \/ EndPauses \/ Reevaluate \/ AnalyseResumed \/ Crash \/ Tick
        \/ PauseCommand \/ ResumeCommand
        \/ \E t \in Analysts : Analyse(t)
        \/ \E t \in Tasks : Put(t) \/ Fails(t)
        \/ \E t \in Matchers : SeeFlood(t) \/ PauseFlood(t)
    BY <1>9 DEF Next
  <2> QED
    BY <1>1, <1>2, <1>3, <1>4, <1>5, <1>6, <1>7, <2>1
<1> QED
  BY <1>8, <1>9

(* A manual pause ends only by /resume or by a flood pause that a task      *)
(* decided before it.                                                       *)
THEOREM ManualPausesHold == Spec => []ManualPauseHolds
<1>1. Init => ManualPauseHolds
  BY DEF Init, ManualPauseHolds
<1>2. TypeOK /\ ManualPauseHolds /\ [Next]_vars => ManualPauseHolds'
  <2> SUFFICES ASSUME TypeOK, ManualPauseHolds, [Next]_vars, muted', ~overridden'
               PROVE  entry'.status = "PAUSED" /\ entry'.manual
    BY DEF ManualPauseHolds
  <2>1. entry \in Entries
    BY DEF TypeOK, Entries
  <2>2. CASE Aside
    BY <2>2 DEF Aside, ManualPauseHolds, history
  <2>3. ASSUME NEW m \in Models, NEW since \in Nat, NEW silent \in BOOLEAN,
               Analysed(m, since, silent)
        PROVE  entry'.status = "PAUSED" /\ entry'.manual
    <3>1. entry.status = "PAUSED" /\ entry.manual
      BY <2>3 DEF Analysed, ManualPauseHolds
    <3>2. Decide(entry, m, since) = "PAUSED"
      BY <3>1 DEF Decide, IsPaused
    <3> QED
      BY <2>3, <3>1, <3>2 DEF Analysed, Applied
  <2>4. CASE FloodPaused
    BY <2>4 DEF FloodPaused
  <2>5. CASE OperatorPaused
    BY <2>1, <2>5 DEF OperatorPaused, Paused, Entries
  <2>6. CASE OperatorResumed
    BY <2>6 DEF OperatorResumed
  <2> QED
    BY <2>2, <2>3, <2>4, <2>5, <2>6, StepWrites
<1> QED
  BY <1>1, <1>2, WatchlistTypes, PTL DEF Spec

(* The strengthening: the entry is PAUSED only while that is recorded.      *)
PausesRecorded ==
  /\ entry.status = "PAUSED" => wasPaused
  /\ UncountedWasPaused

(* An ACTIVE entry without an activation has been paused.                   *)
THEOREM UncountedWerePaused == Spec => []UncountedWasPaused
<1>1. Init => PausesRecorded
  BY DEF Init, PausesRecorded, UncountedWasPaused, Absent
<1>2. TypeOK /\ PausesRecorded /\ [Next]_vars => PausesRecorded'
  <2> SUFFICES ASSUME TypeOK, PausesRecorded, [Next]_vars
               PROVE  PausesRecorded'
    OBVIOUS
  <2> USE DEF PausesRecorded, UncountedWasPaused
  <2>1. entry \in Entries
    BY DEF TypeOK, Entries
  <2>2. CASE Aside
    BY <2>2 DEF Aside, history
  <2>3. ASSUME NEW m \in Models, NEW since \in Nat, NEW silent \in BOOLEAN,
               Analysed(m, since, silent)
        PROVE  PausesRecorded'
    <3> DEFINE s == Decide(entry, m, since)
    <3>1. entry'.status = s
      BY <2>3 DEF Analysed, Applied
    <3>2. entry'.count = IF IsActivation(entry, s) THEN entry.count + 1 ELSE entry.count
      BY <2>3 DEF Analysed, Applied
    <3>3. s = "PAUSED" => entry.status = "PAUSED"
      BY DEF Decide, IsPaused
    <3>4. s = "ACTIVE" /\ entry'.count = 0
            => entry.status = "PAUSED" \/ (entry.status = "ACTIVE" /\ entry.count = 0)
      BY <2>1, <3>2 DEF IsActivation, IsResumed, Entries
    <3>5. s \in {"PAUSED", "ACTIVE"} /\ wasPaused => wasPaused'
      BY <2>3, <3>1 DEF Analysed
    <3> HIDE DEF s
    <3>6. s = "PAUSED" => wasPaused'
      BY <3>3, <3>5
    <3>7. s = "ACTIVE" /\ entry'.count = 0 => wasPaused'
      BY <3>4, <3>5
    <3> QED
      BY <3>1, <3>6, <3>7
  <2>4. CASE FloodPaused \/ OperatorPaused
    BY <2>4 DEF FloodPaused, OperatorPaused
  <2>5. CASE OperatorResumed
    BY <2>1, <2>5 DEF OperatorResumed, Entries
  <2> QED
    BY <2>2, <2>3, <2>4, <2>5, StepWrites
<1>3. PausesRecorded => UncountedWasPaused
  BY DEF PausesRecorded
<1> QED
  BY <1>1, <1>2, <1>3, WatchlistTypes, PTL DEF Spec

(* Every activation that is counted, and not silent, has an alert of its    *)
(* own: the alerts carry the numbers up to the count.                       *)
Announced(alerts) == {a \in alerts : a.type = "WATCHLIST_ACTIVATED"}

Numbered ==
  /\ IsFiniteSet(outbox)
  /\ \A a \in Announced(outbox) : a.n <= entry.count
  /\ ActivationsAnnounced

(* An analysis that is not silent announces just the activation it counts.  *)
LEMMA NotifiesActivations ==
  ASSUME NEW e \in Entries, NEW m, NEW t, Applied(e, m, t).status # "ABSENT"
  PROVE  LET f == Applied(e, m, t)
         IN  /\ IsFiniteSet(Notified(e, f))
             /\ Announced(Notified(e, f)) =
                  IF IsActivation(e, f.status) THEN {Activated(f.count)} ELSE {}
<1> DEFINE f == Applied(e, m, t)
<1>1. CASE IsActivation(e, f.status)
  <2>1. Notified(e, f) = {Activated(f.count)}
    BY <1>1 DEF IsActivation, Notified
  <2>2. Announced({Activated(f.count)}) = {Activated(f.count)}
    BY DEF Announced, Activated
  <2>3. IsFiniteSet({Activated(f.count)})
    BY FS_Singleton
  <2> QED
    BY <1>1, <2>1, <2>2, <2>3, Zenon
<1>2. CASE ~IsActivation(e, f.status)
  <2>1. Notified(e, f) \in {{}, {NewPattern}}
    BY <1>2 DEF IsActivation, Notified
  <2>2. Announced({NewPattern}) = {} /\ Announced({}) = {}
    BY DEF Announced, NewPattern
  <2>3. IsFiniteSet({NewPattern}) /\ IsFiniteSet({})
    BY FS_Singleton, FS_EmptySet
  <2>4. IsFiniteSet(Notified(e, f)) /\ Announced(Notified(e, f)) = {}
    BY <2>1, <2>2, <2>3
  <2> QED
    BY <1>2, <2>4, Zenon
<1> QED
  BY <1>1, <1>2

(* Announced and silent activations together are the counted ones.          *)
THEOREM EveryActivationAnnounced == Spec => []ActivationsAnnounced
<1>1. Init => Numbered
  BY FS_EmptySet DEF Init, Numbered, Announced, ActivationsAnnounced, Absent
<1>2. TypeOK /\ Numbered /\ [Next]_vars => Numbered'
  <2> SUFFICES ASSUME TypeOK, Numbered, [Next]_vars
               PROVE  Numbered'
    OBVIOUS
  <2>1. entry \in Entries /\ entry.count \in Nat /\ quiet \in Nat
    BY DEF TypeOK, Entries
  <2>2. Cardinality(Announced(outbox)) + quiet = entry.count
    BY DEF Numbered, ActivationsAnnounced, Announced
  <2>3. ASSUME outbox' = outbox, quiet' = quiet, entry'.count = entry.count
        PROVE  Numbered'
    BY <2>3 DEF Numbered, ActivationsAnnounced, Announced
  <2>4. ASSUME NEW m \in Models, NEW since \in Nat, NEW silent \in BOOLEAN,
               Analysed(m, since, silent)
        PROVE  Numbered'
    <3> DEFINE f     == Applied(entry, m, since)
               new   == Announced(Notified(entry, f))
    <3>1. entry' = f /\ f.status # "ABSENT"
      BY <2>4 DEF Analysed
    <3>2. /\ IsFiniteSet(Notified(entry, f))
          /\ new = IF IsActivation(entry, f.status) THEN {Activated(f.count)} ELSE {}
      BY <2>1, <3>1, NotifiesActivations
    <3>3. f.count = IF IsActivation(entry, f.status) THEN entry.count + 1 ELSE entry.count
      BY DEF Applied
    <3>4. IsFiniteSet(Announced(outbox))
      BY FS_Subset DEF Numbered, Announced
    <3>5. CASE silent
      <4>1. outbox' = outbox
        BY <2>4, <3>5 DEF Analysed
      <4>2. quiet' = IF IsActivation(entry, f.status) THEN quiet + 1 ELSE quiet
        BY <2>4, <3>5 DEF Analysed
      <4>3. Cardinality(Announced(outbox)) + quiet' = f.count
        <5>1. Cardinality(Announced(outbox)) \in Nat
          BY <3>4, FS_CardinalityType
        <5> QED
          BY <2>1, <2>2, <3>3, <4>2, <5>1
      <4>4. \A a \in Announced(outbox) : a.n <= f.count
        <5>1. \A a \in Announced(outbox) : a.n \in Nat
          BY DEF TypeOK, Announced
        <5> QED
          BY <2>1, <3>3, <5>1 DEF Numbered
      <4> QED
        BY <3>1, <4>1, <4>3, <4>4 DEF Numbered, ActivationsAnnounced, Announced
    <3>6. CASE ~silent
      <4>1. outbox' = outbox \union Notified(entry, f) /\ quiet' = quiet
        BY <2>4, <3>6 DEF Analysed
      <4>2. Announced(outbox') = Announced(outbox) \union new
        BY <4>1 DEF Announced
      <4>3. IsFiniteSet(outbox')
        BY <3>2, <4>1, FS_Union DEF Numbered
      <4>4. CASE IsActivation(entry, f.status)
        <5>1. new = {Activated(entry.count + 1)} /\ f.count = entry.count + 1
          BY <3>2, <3>3, <4>4
        <5>2. Activated(entry.count + 1) \notin Announced(outbox)
          BY <2>1 DEF Numbered, Activated
        <5>3. Cardinality(Announced(outbox) \union new) = Cardinality(Announced(outbox)) + 1
          BY <3>4, <5>1, <5>2, FS_AddElement
        <5>4. Cardinality(Announced(outbox)) \in Nat
          BY <3>4, FS_CardinalityType
        <5>5. Cardinality(Announced(outbox')) + quiet' = f.count
          <6>1. quiet' = quiet
            BY <4>1
          <6>2. f.count = entry.count + 1
            BY <5>1
          <6>3. Cardinality(Announced(outbox')) = Cardinality(Announced(outbox)) + 1
            BY <4>2, <5>3, Zenon
          <6> HIDE DEF f, new
          <6> QED
            BY <2>1, <2>2, <5>4, <6>1, <6>2, <6>3
        <5>6. \A a \in Announced(outbox') : a.n <= f.count
          <6>1. \A a \in Announced(outbox) : a.n \in Nat /\ a.n <= entry.count
            BY DEF TypeOK, Announced, Numbered
          <6>2. \A a \in new : a.n = f.count
            BY <5>1 DEF Activated
          <6> QED
            BY <2>1, <4>2, <5>1, <6>1, <6>2
        <5> QED
          BY <3>1, <4>3, <5>5, <5>6 DEF Numbered, ActivationsAnnounced, Announced
      <4>5. CASE ~IsActivation(entry, f.status)
        <5>1. Announced(outbox') = Announced(outbox) /\ f.count = entry.count
          BY <3>2, <3>3, <4>2, <4>5
        <5>2. Cardinality(Announced(outbox')) + quiet' = f.count
          <6>1. quiet' = quiet
            BY <4>1
          <6>2. f.count = entry.count
            BY <5>1
          <6>3. Cardinality(Announced(outbox')) = Cardinality(Announced(outbox))
            BY <5>1, Zenon
          <6> HIDE DEF f
          <6> QED
            BY <2>2, <6>1, <6>2, <6>3, Zenon
        <5>3. \A a \in Announced(outbox') : a.n <= f.count
          BY <5>1 DEF Numbered
        <5> QED
          BY <3>1, <4>3, <5>2, <5>3 DEF Numbered, ActivationsAnnounced, Announced
      <4> QED
        BY <4>4, <4>5
    <3> QED
      BY <3>5, <3>6
  <2>5. CASE Aside
    BY <2>3, <2>5 DEF Aside, history
  <2>6. CASE FloodPaused \/ OperatorPaused
    BY <2>1, <2>3, <2>6 DEF FloodPaused, OperatorPaused, Paused, Entries
  <2>7. CASE OperatorResumed
    BY <2>1, <2>3, <2>7 DEF OperatorResumed, Entries
  <2> QED
    BY <2>4, <2>5, <2>6, <2>7, StepWrites
<1>3. Numbered => ActivationsAnnounced
  BY DEF Numbered
<1> QED
  BY <1>1, <1>2, <1>3, WatchlistTypes, PTL DEF Spec

=============================================================================
