------------------------- MODULE AnalysisQueueProofs -------------------------
(* Theorems about AnalysisQueue, for any pairs, tasks, evidence and faults. *)
EXTENDS AnalysisQueue, TLAPS

(***************************************************************************)
(* The inductive invariant                                                  *)
(***************************************************************************)

Exclusive == Workers \cup {Backfill}

(* Who can be at which stage; an analyser with work has a pair, and has not *)
(* read more than is stored.                                                *)
Stages ==
  /\ \A a \in Analysers : stage[a] \in {"read", "write", "retry"} => job[a] \in Pairs
  /\ \A a \in Analysers : stage[a] = "retry" => a \in Workers
  /\ \A a \in Analysers : stage[a] = "fetch" => a = Backfill
  /\ \A a \in Analysers : stage[a] = "write" => read[a].live <= live[job[a]]

(* OneAtATime, pair by pair                                                 *)
Alone ==
  /\ \A a, b \in Exclusive : Busy(a) /\ Busy(b) /\ job[a] = job[b] => a = b
  /\ \A p \in Pairs : p \in inflight <=> \E a \in Exclusive : Busy(a) /\ job[a] = p

Commanded == \A c \in Commands : Busy(c) => job[c] \in resumed

(* The flag is cleared only by an analysis that has read the evidence, or   *)
(* that leaves the pair in hidden.                                          *)
Durable == \A p \in Pairs : learned[p].live = live[p] \/ p \in flag \/ p \in hidden

Owed(p) == \E s \in Streams : p \in owing[s]

(* Without faults and /resume, evidence that the running analysis has not   *)
(* read is on its way to the dirty set...                                   *)
Overlapped == faults = 0 =>
  \A p \in Pairs \ resumed, a \in Exclusive :
    stage[a] = "write" /\ job[a] = p /\ read[a].live < live[p] => p \in dirty \/ Owed(p)

(* ... and evidence that is not learned is scheduled.                       *)
Pursued == faults = 0 =>
  \A p \in Pairs \ resumed : learned[p].live = live[p] \/ Scheduled(p)

IInv == TypeOK /\ Stages /\ Alone /\ NoneLockedOut /\ Commanded /\ Durable /\ Overlapped /\ Pursued

-----------------------------------------------------------------------------
(* The queue                                                                *)

MemoryTyped ==
  /\ queue \in Seq(Pairs)
  /\ queued \subseteq Pairs /\ inflight \subseteq Pairs /\ dirty \subseteq Pairs

(* What is in the queue stays there; the pair is in it or marked.           *)
LEMMA EnqueueKeeps ==
  ASSUME MemoryTyped, NoneLockedOut, NEW p \in Pairs, NEW busy, NEW marked,
         busy \subseteq Pairs, marked \subseteq busy, Enqueue(p, busy, marked)
  PROVE  /\ MemoryTyped' /\ NoneLockedOut'
         /\ inflight' = busy /\ marked \subseteq dirty'
         /\ \A q \in Pairs : InQueue(q) => InQueue(q)'
         /\ p \in dirty' \/ InQueue(p)'
<1> USE DEF MemoryTyped
<1>1. MemoryTyped'
  BY DEF Enqueue
<1>2. \A q \in Pairs : InQueue(q) => InQueue(q)'
  BY DEF Enqueue, InQueue
<1>3. p \notin busy => InQueue(p)'
  <2>1. CASE p \in queued
    BY <2>1, <1>2 DEF Enqueue, NoneLockedOut
  <2>2. CASE p \notin queued /\ p \notin busy
    <3>1. queue' = Append(queue, p)
      BY <2>2 DEF Enqueue
    <3>2. Len(queue) + 1 \in DOMAIN queue' /\ queue'[Len(queue) + 1] = p
      BY <3>1
    <3> QED
      BY <3>2 DEF InQueue
  <2> QED
    BY <2>1, <2>2
<1>4. inflight' = busy /\ marked \subseteq dirty' /\ dirty' \subseteq busy
  BY DEF Enqueue
<1>5. p \in busy => p \in dirty'
  BY DEF Enqueue
<1>6. \A q \in queued' : InQueue(q)'
  BY <1>2, <1>3 DEF Enqueue, NoneLockedOut
<1> QED
  BY <1>1, <1>2, <1>3, <1>4, <1>5, <1>6 DEF NoneLockedOut

(* Taking the head leaves the rest in the queue.                            *)
LEMMA TailKeeps ==
  ASSUME queue \in Seq(Pairs), queue # <<>>, queue' = Tail(queue)
  PROVE  /\ Head(queue) \in Pairs /\ queue' \in Seq(Pairs)
         /\ \A q \in Pairs : InQueue(q) => q = Head(queue) \/ InQueue(q)'
<1>1. Head(queue) \in Pairs /\ queue' \in Seq(Pairs)
  OBVIOUS
<1>2. ASSUME NEW i \in DOMAIN queue, i # 1
      PROVE  i - 1 \in DOMAIN queue' /\ queue'[i - 1] = queue[i]
  BY <1>2
<1>3. ASSUME NEW q \in Pairs, InQueue(q), q # Head(queue) PROVE InQueue(q)'
  <2>1. PICK i \in DOMAIN queue : queue[i] = q
    BY <1>3 DEF InQueue
  <2>2. i # 1
    BY <1>3, <2>1
  <2> QED
    BY <1>2, <2>1, <2>2 DEF InQueue
<1> QED
  BY <1>1, <1>3

LEMMA InQueueTyped ==
  ASSUME MemoryTyped, NEW q, InQueue(q) PROVE q \in Pairs
BY DEF MemoryTyped, InQueue

(* Starting an analysis, or marking the pair when another one runs          *)
LEMMA BeginKeeps ==
  ASSUME MemoryTyped, NoneLockedOut, NEW a, NEW p \in Pairs, Begin(a, p)
  PROVE  /\ queued' = queued \ {p} /\ inflight' \subseteq Pairs /\ dirty' \subseteq Pairs
         /\ dirty' \subseteq inflight' /\ dirty \subseteq dirty'
BY DEF MemoryTyped, NoneLockedOut, Begin, Start

(* Leaving one: a mark becomes a place in the queue, the others stay.       *)
LEMMA LeaveKeeps ==
  ASSUME MemoryTyped, NoneLockedOut, NEW a \in Analysers, job[a] \in Pairs, Leave(a)
  PROVE  /\ MemoryTyped' /\ NoneLockedOut'
         /\ inflight' = IF a \in Commands THEN inflight ELSE inflight \ {job[a]}
         /\ \A q \in Pairs : InQueue(q) => InQueue(q)'
         /\ \A q \in dirty : q \in dirty' \/ InQueue(q)'
<1>1. CASE a \in Commands
  BY <1>1 DEF Leave, memory, MemoryTyped, NoneLockedOut, InQueue
<1>2. CASE a \notin Commands /\ job[a] \notin dirty
  BY <1>2 DEF Leave, MemoryTyped, NoneLockedOut, InQueue
<1>3. CASE a \notin Commands /\ job[a] \in dirty
  <2>1. Enqueue(job[a], inflight \ {job[a]}, dirty \ {job[a]})
    BY <1>3 DEF Leave
  <2>2. inflight \ {job[a]} \subseteq Pairs /\ dirty \ {job[a]} \subseteq inflight \ {job[a]}
    BY DEF MemoryTyped, NoneLockedOut
  <2> QED
    BY <1>3, <2>1, <2>2, EnqueueKeeps
<1> QED
  BY <1>1, <1>2, <1>3

-----------------------------------------------------------------------------
(* Types, stages and the queue                                              *)

Shape == TypeOK /\ Stages /\ NoneLockedOut

LEMMA ShapeInit == Init => Shape
BY QueueAssumption
   DEF Init, Shape, TypeOK, Stages, NoneLockedOut, Nothing, Analysers, InQueue

LEMMA CommitTyped ==
  ASSUME TypeOK, Stages, NEW a \in Analysers, stage[a] = "write", CommitModel(a)
  PROVE  /\ flag' \subseteq Pairs /\ learned' \in [Pairs -> [live : Nat, old : Nat]]
         /\ hidden' \subseteq Pairs /\ resumed' = resumed /\ announced' \subseteq Pairs
         /\ UNCHANGED <<live, old, history>>
<1>1. job[a] \in Pairs
  BY DEF Stages
<1> QED
  BY <1>1 DEF TypeOK, CommitModel

LEMMA StoredTyped ==
  ASSUME TypeOK, NEW p \in Pairs PROVE Stored(p) \in [live : Nat, old : Nat]
BY DEF TypeOK, Stored

LEMMA ShapeNext == Shape /\ [Next]_vars => Shape'
<1> SUFFICES ASSUME Shape, [Next]_vars PROVE Shape'
  OBVIOUS
<1> USE DEF tables, memory, past
<1>a. TypeOK /\ Stages /\ NoneLockedOut /\ MemoryTyped
  BY DEF Shape, TypeOK, MemoryTyped
<1>f. ASSUME Fault PROVE faults' \in 0..MaxFaults
  BY <1>a, <1>f, QueueAssumption DEF Fault, TypeOK
<1>m. ASSUME MemoryTyped', NoneLockedOut', TypeOK,
             UNCHANGED <<tables, rows, last, stage, job, read, faults, past>>,
             owing' \in [Streams -> SUBSET Pairs]
      PROVE  Shape'
  BY <1>a, <1>m DEF Shape, TypeOK, Stages, MemoryTyped
<1>1. ASSUME NEW s \in Streams, StoreLive(s) PROVE Shape'
  <2>1. PICK touched \in SUBSET Pairs, new \in SUBSET Pairs :
          /\ \A p \in new : live[p] < MaxLive[p]
          /\ live' = [p \in Pairs |-> IF p \in new THEN live[p] + 1 ELSE live[p]]
          /\ flag' = flag \cup new
          /\ owing' = [owing EXCEPT ![s] = touched \cap flag']
    BY <1>1 DEF StoreLive
  <2>2. /\ live' \in [Pairs -> Nat]
        /\ \A p \in Pairs : live[p] <= live'[p] /\ live'[p] <= MaxLive[p]
    BY <1>a, <2>1, QueueAssumption DEF TypeOK
  <2>3. owing' \in [Streams -> SUBSET Pairs] /\ flag' \subseteq Pairs
    BY <1>a, <2>1 DEF TypeOK
  <2>4. TypeOK'
    BY <1>1, <1>a, <2>2, <2>3 DEF StoreLive, TypeOK
  <2>5. Stages'
    BY <1>1, <1>a, <2>2 DEF StoreLive, Stages, TypeOK
  <2>6. NoneLockedOut'
    BY <1>1, <1>a DEF StoreLive, NoneLockedOut, InQueue
  <2> QED
    BY <2>4, <2>5, <2>6 DEF Shape
<1>2. ASSUME NEW s \in Streams, MatchRaises(s) PROVE Shape'
  <2>1. TypeOK'
    BY <1>2, <1>a, <1>f DEF MatchRaises, TypeOK
  <2> QED
    BY <1>2, <1>a, <2>1 DEF MatchRaises, Shape, Stages, NoneLockedOut, InQueue
<1>3. ASSUME NEW s \in Streams, NEW p \in Pairs, HandOver(s, p) PROVE Shape'
  <2>1. MemoryTyped' /\ NoneLockedOut'
    BY <1>3, <1>a, EnqueueKeeps DEF HandOver, NoneLockedOut, MemoryTyped
  <2> QED
    BY <1>3, <1>a, <1>m, <2>1 DEF HandOver, TypeOK
<1>4. ASSUME NEW p \in Pairs, Reevaluate(p) \/ Sweep(p) PROVE Shape'
  <2>1. MemoryTyped' /\ NoneLockedOut'
    BY <1>4, <1>a, EnqueueKeeps DEF Reevaluate, Sweep, NoneLockedOut, MemoryTyped
  <2> QED
    BY <1>4, <1>a, <1>m, <2>1 DEF Reevaluate, Sweep, TypeOK, tasks
<1>5. ASSUME NEW p \in Pairs, StoreOld(p) PROVE Shape'
  <2>1. old' \in [Pairs -> Nat] /\ \A q \in Pairs : old'[q] <= MaxOld[q]
    BY <1>5, <1>a, QueueAssumption DEF StoreOld, TypeOK
  <2> QED
    BY <1>5, <1>a, <2>1 DEF StoreOld, Shape, TypeOK, Stages, NoneLockedOut, InQueue, tasks
<1>6. ASSUME NEW w \in Workers, Take(w) PROVE Shape'
  <2>1. Head(queue) \in Pairs /\ queue' \in Seq(Pairs)
    BY <1>6, <1>a, TailKeeps DEF Take, MemoryTyped
  <2>2. /\ queued' = queued \ {Head(queue)} /\ inflight' \subseteq Pairs
        /\ dirty' \subseteq Pairs /\ dirty' \subseteq inflight'
    BY <1>6, <1>a, <2>1, BeginKeeps DEF Take
  <2>3. NoneLockedOut'
    BY <1>6, <1>a, <2>2, TailKeeps DEF Take, NoneLockedOut, MemoryTyped
  <2>4. /\ job' \in [Analysers -> Pairs \cup {NoPair}]
        /\ stage' \in [Analysers -> {"idle", "fetch", "read", "write", "retry"}]
        /\ Stages'
    BY <1>6, <1>a, <2>1 DEF Take, Begin, Start, TypeOK, Stages, Analysers
  <2> QED
    BY <1>6, <1>a, <2>1, <2>2, <2>3, <2>4 DEF Take, Shape, TypeOK
<1>7. ASSUME NEW w \in Workers, Retry(w) PROVE Shape'
  <2>1. w \in Analysers /\ job[w] \in Pairs
    BY <1>7, <1>a DEF Retry, Stages, Analysers
  <2>2. MemoryTyped' /\ NoneLockedOut'
    BY <1>7, <1>a, <2>1, EnqueueKeeps DEF Retry, NoneLockedOut, MemoryTyped
  <2>3. Stages'
    BY <1>7, <1>a DEF Retry, Rest, Stages, TypeOK
  <2> QED
    BY <1>7, <1>a, <2>2, <2>3 DEF Retry, Rest, Shape, TypeOK, MemoryTyped
<1>8. ASSUME NEW c \in Commands, NEW p \in Pairs, Resume(c, p) PROVE Shape'
  BY <1>8, <1>a DEF Resume, Start, Shape, TypeOK, Stages, NoneLockedOut, InQueue, Analysers
<1>9. ASSUME NEW a \in Analysers, Read(a) PROVE Shape'
  <2>1. job[a] \in Pairs /\ Stored(job[a]) \in [live : Nat, old : Nat]
    BY <1>9, <1>a, StoredTyped DEF Read, Stages
  <2>2. TypeOK'
    BY <1>9, <1>a, <2>1 DEF Read, TypeOK
  <2>3. Stages'
    BY <1>9, <1>a, <2>1 DEF Read, Stages, TypeOK, Stored
  <2> QED
    BY <1>9, <1>a, <2>2, <2>3 DEF Read, Shape, NoneLockedOut, InQueue
<1>10. ASSUME NEW a \in Analysers, Finish(a) PROVE Shape'
  <2>1. job[a] \in Pairs
    BY <1>10, <1>a DEF Finish, Stages
  <2>2. MemoryTyped' /\ NoneLockedOut'
    BY <1>10, <1>a, <2>1, LeaveKeeps DEF Finish
  <2>3. /\ flag' \subseteq Pairs /\ learned' \in [Pairs -> [live : Nat, old : Nat]]
        /\ hidden' \subseteq Pairs /\ resumed' = resumed /\ announced' \subseteq Pairs
        /\ UNCHANGED <<live, old, history>>
    BY <1>10, <1>a, CommitTyped DEF Finish
  <2>4. TypeOK'
    BY <1>10, <1>a, <2>2, <2>3 DEF Finish, TypeOK, MemoryTyped
  <2>5. Stages'
    BY <1>10, <1>a, <2>3 DEF Finish, Stages, TypeOK
  <2> QED
    BY <2>2, <2>4, <2>5 DEF Shape
<1>11. ASSUME NEW a \in Analysers, Fails(a) PROVE Shape'
  <2>1. job[a] \in Pairs
    BY <1>11, <1>a DEF Fails, Stages
  <2>2. MemoryTyped' /\ NoneLockedOut'
    BY <1>11, <1>a, <2>1, LeaveKeeps DEF Fails
  <2>3. /\ flag' \subseteq Pairs /\ learned' \in [Pairs -> [live : Nat, old : Nat]]
        /\ hidden' \subseteq Pairs /\ resumed' = resumed /\ announced' \subseteq Pairs
        /\ UNCHANGED <<live, old, history>>
    BY <1>11, <1>a, CommitTyped DEF Fails, TypeOK
  <2>4. /\ job' \in [Analysers -> Pairs \cup {NoPair}]
        /\ stage' \in [Analysers -> {"idle", "fetch", "read", "write", "retry"}]
    BY <1>11, <1>a DEF Fails, Defer, Rest, TypeOK
  <2>5. TypeOK'
    BY <1>11, <1>a, <1>f, <2>2, <2>3, <2>4 DEF Fails, TypeOK, MemoryTyped
  <2>6. Stages'
    <3>1. CASE a \in Workers /\ Defer(a)
      BY <1>11, <1>a, <2>1, <2>3, <3>1 DEF Fails, Defer, Stages, TypeOK
    <3>2. CASE Rest(a)
      BY <1>11, <1>a, <2>1, <2>3, <3>2 DEF Fails, Rest, Stages, TypeOK
    <3> QED
      BY <1>11, <3>1, <3>2 DEF Fails
  <2> QED
    BY <2>2, <2>5, <2>6 DEF Shape
<1>12. CASE StoredAll
  BY <1>12, <1>a DEF StoredAll, Shape, TypeOK, Stages, NoneLockedOut, InQueue, tasks
<1>13. CASE FlagCandidates
  BY <1>13, <1>a DEF FlagCandidates, Shape, TypeOK, Stages, NoneLockedOut, InQueue, Analysers
<1>14. CASE FetchRows
  BY <1>14, <1>a DEF FetchRows, FlaggedAfter, Shape, TypeOK, Stages, NoneLockedOut, InQueue
<1>15. CASE NextRow
  <2>1. PICK p \in rows : rows' = rows \ {p} /\ last' = Id[p] /\ Begin(Backfill, p)
    BY <1>15 DEF NextRow
  <2>2. p \in Pairs /\ Id[p] \in Nat
    BY <1>a, QueueAssumption DEF TypeOK
  <2>3. /\ queued' = queued \ {p} /\ inflight' \subseteq Pairs
        /\ dirty' \subseteq Pairs /\ dirty' \subseteq inflight'
    BY <1>a, <2>1, <2>2, BeginKeeps
  <2>4. NoneLockedOut'
    BY <1>15, <1>a, <2>3 DEF NextRow, NoneLockedOut, InQueue
  <2>5. /\ job' \in [Analysers -> Pairs \cup {NoPair}]
        /\ stage' \in [Analysers -> {"idle", "fetch", "read", "write", "retry"}]
        /\ Stages'
    BY <1>15, <1>a, <2>1, <2>2 DEF NextRow, Begin, Start, TypeOK, Stages, Analysers
  <2> QED
    BY <1>15, <1>a, <2>1, <2>2, <2>3, <2>4, <2>5 DEF NextRow, Shape, TypeOK
<1>16. CASE BackfillFails
  <2>1. TypeOK'
    BY <1>16, <1>a, <1>f DEF BackfillFails, TypeOK
  <2> QED
    BY <1>16, <1>a, <2>1 DEF BackfillFails, Shape, TypeOK, Stages, NoneLockedOut, InQueue
<1>17. CASE AnalysedAll
  BY <1>17, <1>a DEF AnalysedAll, Shape, TypeOK, Stages, NoneLockedOut, InQueue
<1>18. CASE Crash
  <2>1. TypeOK'
    BY <1>18, <1>a, <1>f DEF Crash, TypeOK
  <2> QED
    BY <1>18, <1>a, <2>1 DEF Crash, Shape, Stages, NoneLockedOut, InQueue
<1>19. CASE UNCHANGED vars
  BY <1>19, <1>a DEF vars, tasks, Shape, TypeOK, Stages, NoneLockedOut, InQueue
<1> QED
  BY <1>1, <1>2, <1>3, <1>4, <1>5, <1>6, <1>7, <1>8, <1>9, <1>10, <1>11, <1>12,
     <1>13, <1>14, <1>15, <1>16, <1>17, <1>18, <1>19 DEF Next

(* Type correctness of the analysis service.                                *)
THEOREM AnalysisTypes == Spec => []TypeOK
<1>1. Shape => TypeOK
  BY DEF Shape
<1> QED
  BY <1>1, ShapeInit, ShapeNext, PTL DEF Spec

(* A queued pair is in the queue and a mark has an analysis that will see   *)
(* it, so enqueue never locks a pair out.                                   *)
THEOREM NoPairIsLockedOut == Spec => []NoneLockedOut
<1>1. Shape => NoneLockedOut
  BY DEF Shape
<1> QED
  BY <1>1, ShapeInit, ShapeNext, PTL DEF Spec

-----------------------------------------------------------------------------
(* One analysis at a time                                                   *)

LEMMA AloneInit == Init => Alone
BY DEF Init, Alone, Busy, Analysers, Exclusive

LEMMA AloneNext == Shape /\ Alone /\ [Next]_vars => Alone'
<1> SUFFICES ASSUME Shape, Alone, [Next]_vars PROVE Alone'
  OBVIOUS
<1> USE DEF tables, past, Busy
<1>a. TypeOK /\ Stages /\ NoneLockedOut /\ MemoryTyped
  BY DEF Shape, TypeOK, MemoryTyped
<1>e. Exclusive \subseteq Analysers /\ Exclusive \cap Commands = {} /\ Workers \subseteq Exclusive
  BY QueueAssumption DEF Exclusive, Analysers
<1>same. ASSUME UNCHANGED <<inflight, stage, job>> PROVE Alone'
  BY <1>same DEF Alone
(* An analyser that is not busy begins, or marks the pair.                  *)
<1>begin. ASSUME NEW a \in Exclusive, NEW p \in Pairs, ~Busy(a), Begin(a, p) PROVE Alone'
  <2>1. CASE p \in inflight
    BY <1>begin, <1>same, <2>1 DEF Begin
  <2>2. CASE p \notin inflight
    <3>1. inflight' = inflight \cup {p} /\ Busy(a)' /\ job'[a] = p
      BY <1>begin, <1>a, <1>e, <2>2 DEF Begin, Start, TypeOK
    <3>2. \A b \in Exclusive \ {a} : stage'[b] = stage[b] /\ job'[b] = job[b]
      BY <1>begin, <1>a, <1>e, <2>2 DEF Begin, Start, TypeOK
    <3>3. \A b \in Exclusive : ~(Busy(b) /\ job[b] = p)
      BY <1>begin, <2>2 DEF Alone
    <3>4. \A b, d \in Exclusive : Busy(b)' /\ Busy(d)' /\ job'[b] = job'[d] => b = d
      BY <3>1, <3>2, <3>3 DEF Alone
    <3>5. \A q \in Pairs : q \in inflight' <=> \E b \in Exclusive : Busy(b)' /\ job'[b] = q
      BY <1>begin, <3>1, <3>2 DEF Alone
    <3> QED
      BY <3>4, <3>5 DEF Alone
  <2> QED
    BY <2>1, <2>2
(* An analyser leaves its pair.                                             *)
<1>leave. ASSUME NEW a \in Analysers, Busy(a), Leave(a),
                 ~Busy(a)', \A b \in Analysers \ {a} : stage'[b] = stage[b] /\ job'[b] = job[b]
          PROVE  Alone'
  <2>1. job[a] \in Pairs
    BY <1>leave, <1>a DEF Stages
  <2>2. inflight' = IF a \in Commands THEN inflight ELSE inflight \ {job[a]}
    BY <1>leave, <1>a, <2>1, LeaveKeeps
  <2>3. CASE a \in Commands
    BY <1>leave, <1>e, <2>2, <2>3 DEF Alone
  <2>4. CASE a \in Exclusive
    BY <1>leave, <1>e, <2>1, <2>2, <2>4 DEF Alone
  <2> QED
    BY <2>3, <2>4 DEF Exclusive, Analysers
<1>1. ASSUME NEW s \in Streams,
             StoreLive(s) \/ MatchRaises(s) \/ \E p \in Pairs : HandOver(s, p)
      PROVE  Alone'
  BY <1>1, <1>same DEF StoreLive, MatchRaises, HandOver, Enqueue, memory
<1>2. ASSUME NEW p \in Pairs, Reevaluate(p) \/ Sweep(p) \/ StoreOld(p) PROVE Alone'
  BY <1>2, <1>same DEF Reevaluate, Sweep, StoreOld, Enqueue, memory, tasks
<1>3. ASSUME NEW w \in Workers, Take(w) PROVE Alone'
  BY <1>3, <1>a, <1>e, <1>begin, TailKeeps DEF Take, MemoryTyped
<1>4. ASSUME NEW w \in Workers, Retry(w) PROVE Alone'
  <2>1. inflight' = inflight
    BY <1>4 DEF Retry, Enqueue
  <2>2. \A a \in Analysers : Busy(a)' <=> Busy(a)
    BY <1>4, <1>a DEF Retry, Rest, TypeOK
  <2>3. \A a \in Analysers : Busy(a) => job'[a] = job[a]
    BY <1>4, <1>a DEF Retry, Rest, TypeOK
  <2> QED
    BY <1>e, <2>1, <2>2, <2>3 DEF Alone
<1>5. ASSUME NEW c \in Commands, NEW p \in Pairs, Resume(c, p) PROVE Alone'
  BY <1>5, <1>a, <1>e DEF Resume, Start, Alone, TypeOK, memory
<1>6. ASSUME NEW a \in Analysers, Read(a) PROVE Alone'
  BY <1>6, <1>a, <1>e DEF Read, Alone, TypeOK, memory
<1>7. ASSUME NEW a \in Analysers, Finish(a) PROVE Alone'
  BY <1>7, <1>a, <1>leave DEF Finish, TypeOK
<1>8. ASSUME NEW a \in Analysers, Fails(a) PROVE Alone'
  BY <1>8, <1>a, <1>leave DEF Fails, Defer, Rest, TypeOK
<1>9. CASE StoredAll \/ FetchRows
  BY <1>9, <1>same DEF StoredAll, FetchRows, memory, tasks
<1>10. CASE FlagCandidates \/ BackfillFails \/ AnalysedAll
  <2>1. \A a \in Exclusive : (Busy(a)' <=> Busy(a)) /\ job'[a] = job[a]
    BY <1>10, <1>a, <1>e DEF FlagCandidates, BackfillFails, AnalysedAll, TypeOK
  <2>2. inflight' = inflight
    BY <1>10 DEF FlagCandidates, BackfillFails, AnalysedAll, memory
  <2> QED
    BY <2>1, <2>2 DEF Alone
<1>11. CASE NextRow
  <2>1. PICK p \in rows : Begin(Backfill, p)
    BY <1>11 DEF NextRow
  <2> QED
    BY <1>11, <1>a, <1>begin, <2>1 DEF NextRow, Exclusive, TypeOK
<1>12. CASE Crash
  BY <1>12, <1>e DEF Crash, Alone
<1>13. CASE UNCHANGED vars
  BY <1>13, <1>same DEF vars, memory, tasks
<1> QED
  BY <1>1, <1>2, <1>3, <1>4, <1>5, <1>6, <1>7, <1>8, <1>9, <1>10, <1>11, <1>12, <1>13 DEF Next

(* A pair is never analysed by two of the workers and the backfill at once, *)
(* and the in-flight set is exactly what they are working on.               *)
THEOREM NeverTwoAtOnce == Spec => []OneAtATime
<1>1. Shape /\ Alone => OneAtATime
  <2> SUFFICES ASSUME Shape, Alone PROVE OneAtATime
    OBVIOUS
  <2>1. \A a \in Exclusive : Busy(a) => job[a] \in Pairs
    BY DEF Shape, Stages, Busy, Exclusive, Analysers
  <2>2. inflight = {job[a] : a \in {b \in Exclusive : Busy(b)}}
    <3>1. \A p \in inflight : p \in Pairs
      BY DEF Shape, TypeOK
    <3> QED
      BY <2>1, <3>1, Zenon DEF Alone
  <2> QED
    BY <2>2 DEF Alone, OneAtATime, Exclusive
<1> QED
  BY <1>1, ShapeInit, ShapeNext, AloneInit, AloneNext, PTL DEF Spec

-----------------------------------------------------------------------------
(* The durable flag                                                         *)

LEMMA CommandedNext == Shape /\ Commanded /\ [Next]_vars => Commanded'
<1> SUFFICES ASSUME Shape, Commanded, [Next]_vars PROVE Commanded'
  OBVIOUS
<1> USE DEF past, Busy, Commanded
<1>a. TypeOK /\ Stages
  BY DEF Shape
<1>e. Commands \subseteq Analysers /\ Commands \cap Workers = {} /\ Backfill \notin Commands
  BY QueueAssumption DEF Analysers
<1>1. ASSUME NEW s \in Streams,
             StoreLive(s) \/ MatchRaises(s) \/ \E p \in Pairs : HandOver(s, p)
      PROVE  Commanded'
  BY <1>1 DEF StoreLive, MatchRaises, HandOver
<1>2. ASSUME NEW p \in Pairs, Reevaluate(p) \/ Sweep(p) \/ StoreOld(p) PROVE Commanded'
  BY <1>2 DEF Reevaluate, Sweep, StoreOld, tasks
<1>3. ASSUME NEW w \in Workers, Take(w) \/ Retry(w) PROVE Commanded'
  BY <1>3, <1>a, <1>e DEF Take, Begin, Start, Retry, Rest, TypeOK
<1>4. ASSUME NEW c \in Commands, NEW p \in Pairs, Resume(c, p) PROVE Commanded'
  BY <1>4, <1>a, <1>e DEF Resume, Start, TypeOK
<1>5. ASSUME NEW a \in Analysers, Read(a) PROVE Commanded'
  BY <1>5, <1>a, <1>e DEF Read, TypeOK
<1>6. ASSUME NEW a \in Analysers, Finish(a) PROVE Commanded'
  BY <1>6, <1>a, <1>e DEF Finish, CommitModel, TypeOK
<1>7. ASSUME NEW a \in Analysers, Fails(a) PROVE Commanded'
  <2>1. resumed' = resumed
    BY <1>7 DEF Fails, CommitModel
  <2> QED
    BY <1>7, <1>a, <1>e, <2>1 DEF Fails, Defer, Rest, TypeOK
<1>8. CASE StoredAll \/ FetchRows \/ FlagCandidates \/ BackfillFails \/ AnalysedAll
  BY <1>8, <1>a, <1>e DEF StoredAll, FetchRows, FlagCandidates, BackfillFails, AnalysedAll, TypeOK, tasks
<1>9. CASE NextRow
  BY <1>9, <1>a, <1>e DEF NextRow, Begin, Start, TypeOK
<1>10. CASE Crash \/ UNCHANGED vars
  BY <1>10, <1>e DEF Crash, vars, tasks
<1> QED
  BY <1>1, <1>2, <1>3, <1>4, <1>5, <1>6, <1>7, <1>8, <1>9, <1>10 DEF Next

(* Who clears the flag has learned all live evidence, or is on record.      *)
LEMMA CommitDurable ==
  ASSUME TypeOK, Stages, Durable, NEW a \in Analysers, stage[a] = "write", CommitModel(a)
  PROVE  Durable'
<1>1. job[a] \in Pairs /\ read[a].live \in Nat /\ read[a].live <= live[job[a]] /\ live[job[a]] \in Nat
  BY DEF Stages, TypeOK
<1>2. read[a].live < live[job[a]] \/ read[a].live = live[job[a]]
  BY <1>1
<1> QED
  BY <1>1, <1>2 DEF CommitModel, Durable, TypeOK

LEMMA DurableNext == Shape /\ Durable /\ [Next]_vars => Durable'
<1> SUFFICES ASSUME Shape, Durable, [Next]_vars PROVE Durable'
  OBVIOUS
<1> USE DEF tables, past
<1>a. TypeOK /\ Stages
  BY DEF Shape
<1>1. ASSUME NEW s \in Streams, StoreLive(s) PROVE Durable'
  BY <1>1, <1>a DEF StoreLive, Durable, TypeOK
<1>2. ASSUME NEW s \in Streams, MatchRaises(s) \/ \E p \in Pairs : HandOver(s, p) PROVE Durable'
  BY <1>2 DEF MatchRaises, HandOver, Durable
<1>3. ASSUME NEW p \in Pairs, Reevaluate(p) \/ Sweep(p) \/ StoreOld(p) PROVE Durable'
  BY <1>3 DEF Reevaluate, Sweep, StoreOld, Durable
<1>4. ASSUME NEW w \in Workers, Take(w) \/ Retry(w) PROVE Durable'
  BY <1>4 DEF Take, Retry, Durable
<1>5. ASSUME NEW c \in Commands, NEW p \in Pairs, Resume(c, p) PROVE Durable'
  BY <1>5 DEF Resume, Durable
<1>6. ASSUME NEW a \in Analysers, Read(a) \/ Finish(a) PROVE Durable'
  BY <1>6, <1>a, CommitDurable DEF Read, Finish, Durable
<1>7. ASSUME NEW a \in Analysers, Fails(a) PROVE Durable'
  BY <1>7, <1>a, CommitDurable DEF Fails, Durable
<1>8. CASE StoredAll \/ FetchRows \/ FlagCandidates \/ BackfillFails \/ AnalysedAll \/ NextRow
  BY <1>8 DEF StoredAll, FetchRows, FlagCandidates, BackfillFails, AnalysedAll, NextRow, Durable
<1>9. CASE Crash \/ UNCHANGED vars
  BY <1>9 DEF Crash, vars, Durable
<1> QED
  BY <1>1, <1>2, <1>3, <1>4, <1>5, <1>6, <1>7, <1>8, <1>9 DEF Next

-----------------------------------------------------------------------------
(* Evidence stays scheduled                                                 *)

Core == Shape /\ Alone /\ Commanded

LEMMA NoFault == TypeOK /\ Fault => faults' # 0
BY QueueAssumption DEF TypeOK, Fault

(* Only the analysis of a pair, and the end of the process, take a mark.    *)
LEMMA LeaveKeepsMarks ==
  ASSUME Shape, NEW a \in Analysers, job[a] \in Pairs, Leave(a), NEW p \in Pairs, p # job[a]
  PROVE  p \in dirty => p \in dirty'
BY DEF Leave, Enqueue, memory

LEMMA OverlappedNext == Core /\ Overlapped /\ [Next]_vars => Overlapped'
<1> SUFFICES ASSUME Core, Overlapped, [Next]_vars, faults' = 0,
                    NEW p \in Pairs \ resumed', NEW a \in Exclusive,
                    stage'[a] = "write", job'[a] = p, read'[a].live < live'[p]
             PROVE  p \in dirty' \/ Owed(p)'
  BY DEF Overlapped
<1> USE DEF tables, past, Busy
<1>a. TypeOK /\ Stages /\ NoneLockedOut /\ MemoryTyped /\ Shape /\ Alone /\ Commanded
  BY DEF Core, Shape, TypeOK, MemoryTyped
<1>e. a \in Analysers /\ a \notin Commands
  BY QueueAssumption DEF Exclusive, Analysers
<1>before. ASSUME faults = 0, p \notin resumed, stage[a] = "write", job[a] = p, read[a].live < live[p]
           PROVE  (p \in dirty \/ Owed(p)) /\ p \in inflight
  BY <1>before, <1>a DEF Overlapped, Alone
<1>1. ASSUME NEW s \in Streams, StoreLive(s) PROVE p \in dirty' \/ Owed(p)'
  <2>1. PICK touched \in SUBSET Pairs, new \in SUBSET Pairs :
          /\ new \subseteq touched
          /\ live' = [q \in Pairs |-> IF q \in new THEN live[q] + 1 ELSE live[q]]
          /\ flag' = flag \cup new
          /\ owing' = [owing EXCEPT ![s] = touched \cap flag']
    BY <1>1 DEF StoreLive
  <2>2. CASE p \in new
    <3>1. p \in owing'[s]
      BY <1>a, <2>1, <2>2 DEF TypeOK
    <3> QED
      BY <3>1 DEF Owed
  <2>3. CASE p \notin new
    <3>1. p \in dirty \/ Owed(p)
      BY <1>1, <1>before, <2>1, <2>3 DEF StoreLive, memory
    <3>2. Owed(p) => Owed(p)'
      BY <1>1, <1>a, <2>1 DEF StoreLive, Owed, TypeOK
    <3> QED
      BY <1>1, <3>1, <3>2 DEF StoreLive, memory
  <2> QED
    BY <2>2, <2>3
<1>2. ASSUME NEW s \in Streams, NEW q \in Pairs, HandOver(s, q) PROVE p \in dirty' \/ Owed(p)'
  <2>1. (p \in dirty \/ Owed(p)) /\ p \in inflight
    BY <1>2, <1>before DEF HandOver
  <2>2. dirty \subseteq dirty' /\ (q \in inflight => q \in dirty')
    BY <1>2 DEF HandOver, Enqueue
  <2>3. p # q /\ Owed(p) => Owed(p)'
    BY <1>2, <1>a DEF HandOver, Owed, TypeOK
  <2> QED
    BY <2>1, <2>2, <2>3
<1>3. ASSUME NEW s \in Streams, MatchRaises(s) PROVE FALSE
  BY <1>3, <1>a, NoFault DEF MatchRaises
<1>4. ASSUME NEW q \in Pairs, Reevaluate(q) \/ Sweep(q) \/ StoreOld(q)
      PROVE  p \in dirty' \/ Owed(p)'
  <2>1. dirty \subseteq dirty' /\ owing' = owing
    BY <1>4 DEF Reevaluate, Sweep, StoreOld, Enqueue, memory, tasks
  <2> QED
    BY <1>4, <1>before, <2>1 DEF Reevaluate, Sweep, StoreOld, tasks, Owed
<1>5. ASSUME NEW b \in Exclusive, NEW q, stage[b] \in {"idle", "fetch"}, Begin(b, q),
             UNCHANGED <<owing, read, live, faults, resumed>>
      PROVE  p \in dirty' \/ Owed(p)'
  <2>1. a # b \/ q \in inflight
    BY <1>5, <1>a, <1>e DEF Begin, Start, TypeOK
  <2>2. stage[a] = "write" /\ job[a] = p
    BY <1>5, <1>a, <1>e, <2>1 DEF Begin, Start, TypeOK
  <2>3. dirty \subseteq dirty'
    BY <1>5 DEF Begin
  <2> QED
    BY <1>5, <1>before, <2>2, <2>3 DEF Owed
<1>6. ASSUME NEW w \in Workers, Take(w) PROVE p \in dirty' \/ Owed(p)'
  BY <1>6, <1>5 DEF Take, Exclusive
<1>7. ASSUME NEW w \in Workers, Retry(w) PROVE p \in dirty' \/ Owed(p)'
  <2>1. stage[a] = "write" /\ job[a] = p
    BY <1>7, <1>a, <1>e DEF Retry, Rest, TypeOK
  <2>2. dirty \subseteq dirty'
    BY <1>7 DEF Retry, Enqueue
  <2> QED
    BY <1>7, <1>before, <2>1, <2>2 DEF Retry, Owed
<1>8. ASSUME NEW c \in Commands, NEW q \in Pairs, Resume(c, q) PROVE p \in dirty' \/ Owed(p)'
  <2>1. stage[a] = "write" /\ job[a] = p
    BY <1>8, <1>a, <1>e DEF Resume, Start, TypeOK
  <2> QED
    BY <1>8, <1>before, <2>1 DEF Resume, Owed, memory
<1>9. ASSUME NEW b \in Analysers, Read(b) PROVE p \in dirty' \/ Owed(p)'
  <2>1. a # b
    BY <1>9, <1>a, <1>e DEF Read, Stored, TypeOK
  <2>2. stage[a] = "write" /\ job[a] = p /\ read'[a] = read[a]
    BY <1>9, <1>a, <1>e, <2>1 DEF Read, TypeOK
  <2> QED
    BY <1>9, <1>before, <2>2 DEF Read, Owed, memory
<1>10. ASSUME NEW b \in Analysers, Finish(b) PROVE p \in dirty' \/ Owed(p)'
  <2>1. a # b
    BY <1>10, <1>a, <1>e DEF Finish, TypeOK
  <2>2. stage[a] = "write" /\ job[a] = p
    BY <1>10, <1>a, <1>e, <2>1 DEF Finish, TypeOK
  <2>3. p \notin resumed /\ live' = live
    BY <1>10 DEF Finish, CommitModel
  <2>4. job[b] # p
    BY <1>10, <1>a, <2>1, <2>2, <2>3 DEF Finish, Commanded, Alone, Exclusive, Analysers
  <2>5. job[b] \in Pairs
    BY <1>10, <1>a DEF Finish, Stages
  <2>6. p \in dirty => p \in dirty'
    BY <1>10, <1>a, <2>4, <2>5, LeaveKeepsMarks DEF Finish
  <2> QED
    BY <1>10, <1>before, <2>2, <2>3, <2>6 DEF Finish, Owed
<1>11. ASSUME NEW b \in Analysers, Fails(b) PROVE FALSE
  BY <1>11, <1>a, NoFault DEF Fails
<1>12. CASE StoredAll \/ FetchRows
  BY <1>12, <1>before DEF StoredAll, FetchRows, Owed, memory, tasks
<1>13. CASE FlagCandidates \/ AnalysedAll
  <2>1. stage[a] = "write" /\ job[a] = p
    BY <1>13, <1>a, <1>e DEF FlagCandidates, AnalysedAll, TypeOK
  <2> QED
    BY <1>13, <1>before, <2>1 DEF FlagCandidates, AnalysedAll, Owed, memory
<1>14. CASE NextRow
  <2>1. PICK q \in rows : Begin(Backfill, q)
    BY <1>14 DEF NextRow
  <2> QED
    BY <1>14, <1>5, <2>1 DEF NextRow, Exclusive
<1>15. CASE BackfillFails \/ Crash
  BY <1>15, <1>a, NoFault DEF BackfillFails, Crash
<1>16. CASE UNCHANGED vars
  BY <1>16, <1>before DEF vars, Owed, memory, tasks
<1> QED
  BY <1>1, <1>2, <1>3, <1>4, <1>6, <1>7, <1>8, <1>9, <1>10, <1>11, <1>12, <1>13, <1>14,
     <1>15, <1>16 DEF Next

(* Pending or running analyses that have not missed the evidence of p       *)
Pursuing(a, p) ==
  /\ job[a] = p
  /\ \/ stage[a] \in {"read", "retry"}
     \/ stage[a] = "write" /\ read[a].live = live[p]

LEMMA ScheduledParts == \A p \in Pairs :
  Scheduled(p) <=>
    p \in flag \/ InQueue(p) \/ p \in dirty \/ Owed(p) \/ \E a \in Analysers : Pursuing(a, p)
BY DEF Scheduled, Owed, Pursuing

LEMMA PursuedNext == Core /\ Overlapped /\ Pursued /\ [Next]_vars => Pursued'
<1> SUFFICES ASSUME Core, Overlapped, Pursued, [Next]_vars, faults' = 0, NEW p \in Pairs \ resumed'
             PROVE  learned'[p].live = live'[p] \/ Scheduled(p)'
  BY DEF Pursued
<1> DEFINE Goal == learned'[p].live = live'[p] \/ Scheduled(p)'
<1> USE DEF tables, past, Busy
<1>a. TypeOK /\ Stages /\ NoneLockedOut /\ MemoryTyped /\ Shape /\ Alone /\ Commanded
  BY DEF Core, Shape, TypeOK, MemoryTyped
<1>before. faults = 0 /\ p \notin resumed => learned[p].live = live[p] \/ Scheduled(p)
  BY DEF Pursued
<1>parts. /\ Scheduled(p) => \/ p \in flag \/ InQueue(p) \/ p \in dirty \/ Owed(p)
                              \/ \E a \in Analysers : Pursuing(a, p)
          /\ \/ p \in flag' \/ InQueue(p)' \/ p \in dirty' \/ Owed(p)'
             \/ \E a \in Analysers : Pursuing(a, p)'
             => Scheduled(p)'
  BY ScheduledParts DEF Scheduled, Owed, Pursuing
(* A step that leaves the tables and reads alone and takes nothing away     *)
<1>keep. ASSUME UNCHANGED <<learned, live, faults>>, resumed \subseteq resumed',
                p \in flag => p \in flag',
                InQueue(p) => Scheduled(p)', p \in dirty => Scheduled(p)', Owed(p) => Scheduled(p)',
                \A a \in Analysers : Pursuing(a, p) => Scheduled(p)'
         PROVE  Goal
  BY <1>keep, <1>before, <1>parts
(* Another pair is put in the queue, or marked.                             *)
<1>queue. ASSUME NEW q \in Pairs, Enqueue(q, inflight, dirty)
          PROVE  /\ InQueue(p) => Scheduled(p)'
                 /\ p \in dirty => Scheduled(p)'
                 /\ p = q => Scheduled(p)'
  <2>1. /\ InQueue(p) => InQueue(p)'
        /\ dirty \subseteq dirty'
        /\ p = q => p \in dirty' \/ InQueue(p)'
    BY <1>queue, <1>a, EnqueueKeeps DEF NoneLockedOut, MemoryTyped
  <2> QED
    BY <2>1, <1>parts
<1>1. ASSUME NEW s \in Streams, StoreLive(s) PROVE Goal
  <2>1. PICK touched \in SUBSET Pairs, new \in SUBSET Pairs :
          /\ live' = [q \in Pairs |-> IF q \in new THEN live[q] + 1 ELSE live[q]]
          /\ flag' = flag \cup new
          /\ owing' = [owing EXCEPT ![s] = touched \cap flag']
    BY <1>1 DEF StoreLive
  <2>2. CASE p \in new
    BY <1>parts, <2>1, <2>2
  <2>3. CASE p \notin new
    <3>1. live'[p] = live[p] /\ learned' = learned /\ faults' = faults /\ resumed' = resumed
      BY <1>1, <2>1, <2>3 DEF StoreLive
    <3>2. p \in flag => p \in flag'
      BY <2>1
    <3>3. (InQueue(p) => InQueue(p)') /\ (p \in dirty => p \in dirty')
      BY <1>1 DEF StoreLive, memory, InQueue
    <3>4. Owed(p) => Owed(p)'
      BY <1>1, <1>a, <2>1 DEF StoreLive, Owed, TypeOK
    <3>5. \A a \in Analysers : Pursuing(a, p) => Pursuing(a, p)'
      BY <1>1, <3>1 DEF StoreLive, Pursuing
    <3> QED
      BY <1>before, <1>parts, <3>1, <3>2, <3>3, <3>4, <3>5
  <2> QED
    BY <2>2, <2>3
<1>2. ASSUME NEW s \in Streams, NEW q \in Pairs, HandOver(s, q) PROVE Goal
  <2>1. Enqueue(q, inflight, dirty)
    BY <1>2 DEF HandOver
  <2>2. p # q /\ Owed(p) => Owed(p)'
    BY <1>2, <1>a DEF HandOver, Owed, TypeOK
  <2>3. \A a \in Analysers : Pursuing(a, p) => Pursuing(a, p)'
    BY <1>2 DEF HandOver, Pursuing
  <2>4. UNCHANGED <<learned, live, faults, resumed, flag>>
    BY <1>2 DEF HandOver
  <2> QED
    BY <1>keep, <1>queue, <1>parts, <2>1, <2>2, <2>3, <2>4
<1>3. ASSUME NEW s \in Streams, MatchRaises(s) PROVE FALSE
  BY <1>3, <1>a, NoFault DEF MatchRaises
<1>4. ASSUME NEW q \in Pairs, Reevaluate(q) \/ Sweep(q) PROVE Goal
  <2>1. Enqueue(q, inflight, dirty)
    BY <1>4 DEF Reevaluate, Sweep
  <2>2. UNCHANGED <<learned, live, faults, resumed, flag, owing, job, stage, read>>
    BY <1>4 DEF Reevaluate, Sweep, tasks
  <2>3. (Owed(p) => Owed(p)') /\ \A a \in Analysers : Pursuing(a, p) => Pursuing(a, p)'
    BY <2>2 DEF Owed, Pursuing
  <2> QED
    BY <1>keep, <1>queue, <1>parts, <2>1, <2>2, <2>3
<1>same. ASSUME UNCHANGED <<learned, live, flag, faults, resumed, queue, dirty, owing, job, stage, read>>
         PROVE  Goal
  <2>1. Scheduled(p) => Scheduled(p)'
    BY <1>same DEF Scheduled, InQueue
  <2> QED
    BY <1>same, <1>before, <2>1
<1>5. ASSUME NEW q \in Pairs, StoreOld(q) PROVE Goal
  BY <1>5, <1>same DEF StoreOld, memory, tasks
(* An analyser that has nothing in hand begins.                             *)
<1>begin. ASSUME NEW a \in Analysers, NEW q \in Pairs, stage[a] \in {"idle", "fetch"}, Begin(a, q),
                 UNCHANGED <<owing, read, live>>
          PROVE  /\ p \in dirty => Scheduled(p)'
                 /\ Owed(p) => Scheduled(p)'
                 /\ \A b \in Analysers : Pursuing(b, p) => Scheduled(p)'
                 /\ p = q => Scheduled(p)'
  <2>1. dirty \subseteq dirty'
    BY <1>begin DEF Begin
  <2>2. Owed(p) => Owed(p)'
    BY <1>begin DEF Owed
  <2>3. \A b \in Analysers : Pursuing(b, p) => Pursuing(b, p)'
    BY <1>begin, <1>a DEF Begin, Start, Pursuing, TypeOK
  <2>4. p = q => p \in dirty' \/ Pursuing(a, p)'
    BY <1>begin, <1>a DEF Begin, Start, Pursuing, TypeOK
  <2> QED
    BY <1>begin, <1>parts, <2>1, <2>2, <2>3, <2>4
<1>6. ASSUME NEW w \in Workers, Take(w) PROVE Goal
  <2>1. Head(queue) \in Pairs /\ (InQueue(p) => p = Head(queue) \/ InQueue(p)')
    BY <1>6, <1>a, TailKeeps DEF Take, MemoryTyped
  <2>2. UNCHANGED <<learned, live, faults, resumed, flag, owing, read>>
    BY <1>6 DEF Take
  <2>3. w \in Analysers /\ stage[w] = "idle" /\ Begin(w, Head(queue))
    BY <1>6 DEF Take, Analysers
  <2>4. /\ p \in dirty => Scheduled(p)'
        /\ Owed(p) => Scheduled(p)'
        /\ \A b \in Analysers : Pursuing(b, p) => Scheduled(p)'
        /\ p = Head(queue) => Scheduled(p)'
    BY <1>begin, <2>1, <2>2, <2>3
  <2> QED
    BY <1>keep, <1>parts, <2>4, <2>1, <2>2
<1>7. ASSUME NEW w \in Workers, Retry(w) PROVE Goal
  <2>1. w \in Analysers /\ job[w] \in Pairs /\ Enqueue(job[w], inflight, dirty)
    BY <1>7, <1>a DEF Retry, Stages, Analysers
  <2>2. UNCHANGED <<learned, live, faults, resumed, flag, owing, read>>
    BY <1>7 DEF Retry
  <2>3. Owed(p) => Owed(p)'
    BY <2>2 DEF Owed
  <2>4. \A a \in Analysers \ {w} : Pursuing(a, p) => Pursuing(a, p)'
    BY <1>7, <1>a DEF Retry, Rest, Pursuing, TypeOK
  <2>5. Pursuing(w, p) => p = job[w]
    BY DEF Pursuing
  <2> QED
    BY <1>keep, <1>queue, <1>parts, <2>1, <2>2, <2>3, <2>4, <2>5
<1>8. ASSUME NEW c \in Commands, NEW q \in Pairs, Resume(c, q) PROVE Goal
  <2>1. UNCHANGED <<learned, live, faults, flag, owing, read, queue, dirty>> /\ resumed \subseteq resumed'
    BY <1>8 DEF Resume, memory
  <2>2. (Owed(p) => Owed(p)') /\ (InQueue(p) => InQueue(p)')
    BY <2>1 DEF Owed, InQueue
  <2>3. \A a \in Analysers : Pursuing(a, p) => Pursuing(a, p)'
    BY <1>8, <1>a DEF Resume, Start, Pursuing, TypeOK
  <2> QED
    BY <1>keep, <1>parts, <2>1, <2>2, <2>3
<1>9. ASSUME NEW a \in Analysers, Read(a) PROVE Goal
  <2>1. UNCHANGED <<learned, live, faults, resumed, flag, owing, queue, dirty>>
    BY <1>9 DEF Read, memory
  <2>2. (Owed(p) => Owed(p)') /\ (InQueue(p) => InQueue(p)')
    BY <2>1 DEF Owed, InQueue
  <2>3. \A b \in Analysers : Pursuing(b, p) => Pursuing(b, p)'
    BY <1>9, <1>a DEF Read, Stored, Pursuing, TypeOK
  <2> QED
    BY <1>keep, <1>parts, <2>1, <2>2, <2>3
<1>10. ASSUME NEW a \in Analysers, Finish(a) PROVE Goal
  <2>1. job[a] \in Pairs /\ stage[a] = "write" /\ Leave(a)
    BY <1>10, <1>a DEF Finish, Stages
  <2>2. UNCHANGED <<live, faults, resumed, owing>>
    BY <1>10 DEF Finish, CommitModel
  <2>3. /\ InQueue(p) => InQueue(p)'
        /\ p \in dirty => p \in dirty' \/ InQueue(p)'
    BY <1>a, <2>1, LeaveKeeps
  <2>4. Owed(p) => Owed(p)'
    BY <2>2 DEF Owed
  <2>5. CASE job[a] = p
    <3>1. a \in Exclusive
      BY <1>a, <2>1, <2>2, <2>5 DEF Commanded, Exclusive, Analysers
    <3>2. learned'[p] = read[a]
      BY <1>10, <1>a, <2>1, <2>5 DEF Finish, CommitModel, TypeOK
    <3>3. read[a].live = live[p] \/ read[a].live < live[p]
      BY <1>a, <2>1, <2>5 DEF Stages, TypeOK
    <3>4. read[a].live < live[p] => p \in dirty \/ Owed(p)
      BY <2>1, <2>2, <2>5, <3>1 DEF Overlapped
    <3> QED
      BY <1>parts, <2>2, <2>3, <2>4, <3>2, <3>3, <3>4
  <2>6. CASE job[a] # p
    <3>1. learned'[p] = learned[p] /\ (p \in flag => p \in flag')
      BY <1>10, <1>a, <2>1, <2>6 DEF Finish, CommitModel, TypeOK
    <3>2. \A b \in Analysers : Pursuing(b, p) => Pursuing(b, p)'
      BY <1>10, <1>a, <2>2, <2>6 DEF Finish, Pursuing, TypeOK
    <3> QED
      BY <1>before, <1>parts, <2>2, <2>3, <2>4, <3>1, <3>2
  <2> QED
    BY <2>5, <2>6
<1>11. ASSUME NEW a \in Analysers, Fails(a) PROVE FALSE
  BY <1>11, <1>a, NoFault DEF Fails
<1>12. CASE StoredAll \/ FetchRows
  BY <1>12, <1>same DEF StoredAll, FetchRows, memory, tasks
<1>13. CASE FlagCandidates \/ AnalysedAll
  <2>1. /\ UNCHANGED <<learned, live, faults, resumed, owing, read, queue, dirty>>
        /\ flag \subseteq flag'
    BY <1>13 DEF FlagCandidates, AnalysedAll, memory
  <2>2. (Owed(p) => Owed(p)') /\ (InQueue(p) => InQueue(p)')
    BY <2>1 DEF Owed, InQueue
  <2>3. \A a \in Analysers : Pursuing(a, p) => Pursuing(a, p)'
    BY <1>13, <1>a DEF FlagCandidates, AnalysedAll, Pursuing, TypeOK
  <2> QED
    BY <1>keep, <1>parts, <2>1, <2>2, <2>3
<1>14. CASE NextRow
  <2>1. PICK q \in rows : Begin(Backfill, q)
    BY <1>14 DEF NextRow
  <2>2. UNCHANGED <<learned, live, faults, resumed, flag, owing, read, queue>>
    BY <1>14 DEF NextRow
  <2>3. q \in Pairs /\ Backfill \in Analysers /\ stage[Backfill] = "fetch"
    BY <1>14, <1>a DEF NextRow, TypeOK, Analysers
  <2>4. InQueue(p) => InQueue(p)'
    BY <2>2 DEF InQueue
  <2>5. /\ p \in dirty => Scheduled(p)'
        /\ Owed(p) => Scheduled(p)'
        /\ \A b \in Analysers : Pursuing(b, p) => Scheduled(p)'
        /\ p = q => Scheduled(p)'
    BY <1>begin, <2>1, <2>2, <2>3
  <2> QED
    BY <1>keep, <1>parts, <2>5, <2>2, <2>4
<1>15. CASE BackfillFails \/ Crash
  BY <1>15, <1>a, NoFault DEF BackfillFails, Crash
<1>16. CASE UNCHANGED vars
  BY <1>16, <1>same DEF vars, memory, tasks
<1> QED
  BY <1>1, <1>2, <1>3, <1>4, <1>5, <1>6, <1>7, <1>8, <1>9, <1>10, <1>11, <1>12, <1>13, <1>14,
     <1>15, <1>16 DEF Next

LEMMA IInvInit == Init => IInv
<1> SUFFICES ASSUME Init PROVE IInv
  OBVIOUS
<1>1. Shape /\ Alone
  BY ShapeInit, AloneInit
<1>2. Commanded
  BY DEF Init, Commanded, Busy, Analysers
<1>3. Durable /\ Pursued
  BY DEF Init, Durable, Pursued, Nothing
<1>4. Overlapped
  BY DEF Init, Overlapped, Exclusive, Analysers
<1> QED
  BY <1>1, <1>2, <1>3, <1>4 DEF IInv, Shape

LEMMA IInvNext == IInv /\ [Next]_vars => IInv'
<1> SUFFICES ASSUME IInv, [Next]_vars PROVE IInv'
  OBVIOUS
<1>1. Shape /\ Core /\ Alone /\ Commanded /\ Durable /\ Overlapped /\ Pursued
  BY DEF IInv, Core, Shape
<1> QED
  BY <1>1, ShapeNext, AloneNext, CommandedNext, DurableNext, OverlappedNext, PursuedNext
     DEF IInv, Shape

(* Live evidence the watchlist does not reflect is scheduled for analysis,  *)
(* unless an analysis overlapped the store and there was a fault or a       *)
(* /resume of the pair.                                                     *)
THEOREM EvidenceStaysScheduled == Spec => []EvidenceScheduled
<1>1. IInv => EvidenceScheduled
  <2> SUFFICES ASSUME IInv, NEW p \in Pairs
               PROVE  \/ learned[p].live = live[p]
                      \/ Scheduled(p)
                      \/ p \in hidden /\ (faults > 0 \/ p \in resumed)
    BY DEF EvidenceScheduled
  <2>1. faults = 0 \/ faults > 0
    BY QueueAssumption DEF IInv, TypeOK
  <2>2. CASE faults = 0 /\ p \notin resumed
    BY <2>2 DEF IInv, Pursued
  <2>3. CASE faults > 0 \/ p \in resumed
    BY <2>3 DEF IInv, Durable, Scheduled
  <2> QED
    BY <2>1, <2>2, <2>3
<1> QED
  BY <1>1, IInvInit, IInvNext, PTL DEF Spec

=============================================================================
