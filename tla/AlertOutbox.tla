----------------------------- MODULE AlertOutbox -----------------------------
(***************************************************************************)
(* The alert outbox: matcher, watchlist and system messages insert rows    *)
(* into alerts; one AlertDispatcher task claims the most urgent due row,   *)
(* sends it to every chat of every bot, and records the outcome.  Claim,   *)
(* sends and record are separate steps: the process may die, or the        *)
(* database fail, between any two.                                         *)
(***************************************************************************)
EXTENDS Integers, FiniteSets

CONSTANTS
  Alerts,       (* alert rows that may ever be inserted (by dedup_key)             *)
  Rank,         (* the order of (priority, id)                                     *)
  Muted,        (* alerts of muted_alert_types                                     *)
  Texts,        (* titled message texts                                            *)
  TextOf,       (* the text of each alert; two alerts may share one                *)
  Dests,        (* chats                                                           *)
  ChannelOf,    (* the bot that serves each chat                                   *)
  Nobody,       (* no alert                                                        *)
  MaxAttempts,  (* ALERT_MAX_ATTEMPTS                                              *)
  MaxCrashes, MaxLosses, MaxDbFaults   (* bounds on faults                         *)

Channels == {ChannelOf[d] : d \in Dests}
Statuses == {"ABSENT", "PENDING", "SENDING", "SENT", "FAILED", "SUPPRESSED"}

ASSUME OutboxAssumption ==
  /\ IsFiniteSet(Alerts) /\ Nobody \notin Alerts
  /\ Rank \in [Alerts -> Nat]
  /\ \A a, b \in Alerts : Rank[a] = Rank[b] => a = b
  /\ Muted \subseteq Alerts
  /\ TextOf \in [Alerts -> Texts]
  /\ \A d \in Dests : d \in DOMAIN ChannelOf
  /\ MaxAttempts \in Nat \ {0}
  /\ {MaxCrashes, MaxLosses, MaxDbFaults} \subseteq Nat

VARIABLES
  (* the alerts table *)
  status,       (* "ABSENT" before the insert                                      *)
  attempts,
  waiting,      (* rows whose next_attempt_at lies in the future                   *)
  (* the dispatcher's memory *)
  phase,        (* where send_one stands                                           *)
  current,      (* the alert it has claimed                                        *)
  left,         (* chats it still has to try in this attempt                       *)
  errors,       (* bots with an error in this attempt                              *)
  channelsDone, (* _channels_done: <<alert, bot>>                                  *)
  delivered,    (* TelegramSink._delivered: <<chat, text>>                         *)
  (* environment *)
  copies,       (* messages that reached each chat, by text                        *)
  crashes, losses, dbFaults

table  == <<status, attempts, waiting>>
memory == <<phase, current, left, errors, channelsDone, delivered>>
world  == <<copies, crashes, losses, dbFaults>>
vars   == <<table, memory, world>>

Init ==
  /\ status = [a \in Alerts |-> "ABSENT"]
  /\ attempts = [a \in Alerts |-> 0]
  /\ waiting = {}
  /\ phase = "idle"
  /\ current = Nobody
  /\ left = {}
  /\ errors = {}
  /\ channelsDone = {}
  /\ delivered = {}
  /\ copies = [c \in Dests \X Texts |-> 0]
  /\ crashes = 0 /\ losses = 0 /\ dbFaults = 0

-----------------------------------------------------------------------------
(* insert_alert, in whatever transaction; a second insert of the key does   *)
(* nothing.                                                                 *)
Insert(a) ==
  /\ status[a] = "ABSENT"
  /\ status' = [status EXCEPT ![a] = "PENDING"]
  /\ UNCHANGED <<attempts, waiting, memory, world>>

Elapse(a) ==
  /\ a \in waiting
  /\ waiting' = waiting \ {a}
  /\ UNCHANGED <<status, attempts, memory, world>>

Due == {a \in Alerts : status[a] = "PENDING" /\ a \notin waiting}
IsNextDue(a) == a \in Due /\ \A b \in Due : Rank[a] <= Rank[b]

Suppress(a) ==
  /\ phase = "idle" /\ IsNextDue(a) /\ a \in Muted
  /\ status' = [status EXCEPT ![a] = "SUPPRESSED"]
  /\ UNCHANGED <<attempts, waiting, memory, world>>

ClaimRow(a) ==
  /\ phase = "idle" /\ IsNextDue(a) /\ a \notin Muted
  /\ status' = [status EXCEPT ![a] = "SENDING"]
  /\ attempts' = [attempts EXCEPT ![a] = @ + 1]
  /\ UNCHANGED waiting

(* Chats that still need this alert: those of bots not done with it, but    *)
(* not the chats that an earlier attempt of the same text reached.          *)
ToTry(a) == {d \in Dests : <<a, ChannelOf[d]>> \notin channelsDone
                             /\ <<d, TextOf[a]>> \notin delivered}

Claim(a) ==
  /\ ClaimRow(a)
  /\ phase' = "deliver"
  /\ current' = a
  /\ left' = ToTry(a)
  /\ errors' = {}
  /\ UNCHANGED <<channelsDone, delivered, world>>

(* The claim commits and its acknowledgement is lost: send_one raises.      *)
ClaimUnacknowledged(a) ==
  /\ dbFaults < MaxDbFaults
  /\ dbFaults' = dbFaults + 1
  /\ ClaimRow(a)
  /\ UNCHANGED <<memory, copies, crashes, losses>>

-----------------------------------------------------------------------------
(* _deliver and TelegramSink.send                                           *)

Reached(d) == copies' = [copies EXCEPT ![<<d, TextOf[current]>>] = @ + 1]

BugTryAccepted(d) ==
  /\ phase = "deliver" /\ d \in left
  /\ Reached(d)
  /\ left' = left \ {d}
  /\ UNCHANGED <<table, phase, current, errors, channelsDone, delivered,
                 crashes, losses, dbFaults>>

TryAccepted(d) ==
  /\ phase = "deliver" /\ d \in left
  /\ Reached(d)
  /\ delivered' = delivered \cup {<<d, TextOf[current]>>}
  /\ left' = left \ {d}
  /\ UNCHANGED <<table, phase, current, errors, channelsDone, crashes, losses, dbFaults>>

BugAbandons(d) ==
  /\ errors' = errors \cup {d}
  /\ left' = left \ {d}

(* A SendError is kept for the end and the next chat is tried; any other    *)
(* error ends the bot's attempt.                                            *)
Abandons(d) ==
  /\ errors' = errors \cup {ChannelOf[d]}
  /\ left' \in {left \ {d}, {e \in left : ChannelOf[e] # ChannelOf[d]}}

TryRefused(d) ==
  /\ phase = "deliver" /\ d \in left
  /\ Abandons(d)
  /\ UNCHANGED <<table, phase, current, channelsDone, delivered, world>>

(* The chat gets the message but the answer is lost.                        *)
TryLost(d) ==
  /\ phase = "deliver" /\ d \in left
  /\ losses < MaxLosses
  /\ losses' = losses + 1
  /\ Reached(d)
  /\ Abandons(d)
  /\ UNCHANGED <<table, phase, current, channelsDone, delivered, crashes, dbFaults>>

BugAllReached == errors # Channels
AllReached == errors = {}

(* A bot that reached all its chats forgets the text and is done with the   *)
(* alert; when all are, the alert is.                                       *)
EndDelivery ==
  /\ phase = "deliver" /\ left = {}
  /\ LET good == {c \in Channels : <<current, c>> \notin channelsDone /\ c \notin errors}
     IN /\ delivered' = {e \in delivered : ~(ChannelOf[e[1]] \in good /\ e[2] = TextOf[current])}
        /\ channelsDone' = IF AllReached THEN {e \in channelsDone : e[1] # current}
                           ELSE channelsDone \cup ({current} \X good)
  /\ phase' = IF AllReached THEN "sent" ELSE "refused"
  /\ UNCHANGED <<table, current, left, errors, world>>

-----------------------------------------------------------------------------
(* The transaction that records the outcome                                 *)

Release ==
  /\ phase' = "idle"
  /\ current' = Nobody
  /\ errors' = {}
  /\ UNCHANGED <<left, channelsDone, delivered>>

RecordSent ==
  /\ phase = "sent"
  /\ status' = [status EXCEPT ![current] = "SENT"]
  /\ Release
  /\ UNCHANGED <<attempts, waiting, world>>

BugGivesUp == attempts[current] > MaxAttempts
GivesUp == attempts[current] >= MaxAttempts

RecordRefused ==
  /\ phase = "refused"
  /\ status' = [status EXCEPT ![current] = IF GivesUp THEN "FAILED" ELSE "PENDING"]
  /\ waiting' = waiting \cup {current}
  /\ Release
  /\ UNCHANGED <<attempts, world>>

(* The transaction rolls back; run() logs the error and goes on.            *)
RecordFails ==
  /\ phase \in {"sent", "refused"}
  /\ dbFaults < MaxDbFaults
  /\ dbFaults' = dbFaults + 1
  /\ Release
  /\ UNCHANGED <<table, copies, crashes, losses>>

BugRequeued == status
Requeued == [a \in Alerts |-> IF status[a] = "SENDING" THEN "PENDING" ELSE status[a]]

(* The process dies and starts again; recover() runs before the dispatcher. *)
Crash ==
  /\ crashes < MaxCrashes
  /\ crashes' = crashes + 1
  /\ status' = Requeued
  /\ phase' = "idle" /\ current' = Nobody
  /\ left' = {} /\ errors' = {} /\ channelsDone' = {} /\ delivered' = {}
  /\ UNCHANGED <<attempts, waiting, copies, losses, dbFaults>>

-----------------------------------------------------------------------------
Dispatch ==
  \/ \E a \in Alerts : Suppress(a) \/ Claim(a)
  \/ \E d \in Dests : TryAccepted(d) \/ TryRefused(d)
  \/ EndDelivery \/ RecordSent \/ RecordRefused

Next ==
  \/ \E a \in Alerts : Insert(a) \/ Elapse(a) \/ ClaimUnacknowledged(a)
  \/ Dispatch
  \/ \E d \in Dests : TryLost(d)
  \/ RecordFails
  \/ Crash

Spec == Init /\ [][Next]_vars

(* The dispatcher task keeps running and back-offs end.                     *)
FairSpec == Spec /\ WF_vars(Dispatch) /\ \A a \in Alerts : WF_vars(Elapse(a))

-----------------------------------------------------------------------------
(* Properties                                                               *)

(* The variables keep their types.                                          *)
TypeOK ==
  /\ status \in [Alerts -> Statuses]
  /\ attempts \in [Alerts -> Nat]
  /\ waiting \subseteq Alerts
  /\ phase \in {"idle", "deliver", "sent", "refused"}
  /\ current \in Alerts \cup {Nobody}
  /\ left \subseteq Dests
  /\ errors \subseteq Channels
  /\ channelsDone \subseteq Alerts \X Channels
  /\ delivered \subseteq Dests \X Texts
  /\ copies \in [Dests \X Texts -> Nat]
  /\ crashes \in 0..MaxCrashes /\ losses \in 0..MaxLosses /\ dbFaults \in 0..MaxDbFaults

(* The outbox keeps the promise of AlertDelivery: in particular a row is    *)
(* SENT only when every chat of every bot has a copy for it, although       *)
(* chats and bots reached by an earlier attempt are skipped, and although   *)
(* alerts with equal texts share the memory of who was reached.             *)
Promised == [a \in Alerts |->
  IF status[a] = "ABSENT" THEN "new"
  ELSE IF status[a] \in {"PENDING", "SENDING"} THEN "open"
  ELSE IF status[a] = "SENT" THEN "sent" ELSE "dropped"]
Promise == INSTANCE AlertDelivery WITH state <- Promised
KeepsPromise == Promise!Spec

(* A chat that got an alert gets it again only after a crash, which forgets *)
(* who was reached, or a lost answer; never because another chat or bot     *)
(* failed (TelegramSink), nor because the database did.                     *)
NoNeedlessCopy == \A d \in Dests, x \in Texts :
  LET tried == {a \in Alerts : TextOf[a] = x /\ attempts[a] > 0}
  IN copies[<<d, x>>] <= Cardinality(tried) * (1 + crashes) + losses

(* ALERT_MAX_ATTEMPTS bounds the attempts, except that a crash or a         *)
(* database error during the last one grants another after the restart.     *)
AttemptsBounded == \A a \in Alerts : attempts[a] <= MaxAttempts + crashes

(* Every accepted alert is sent, given up or suppressed.                    *)
EventuallySettled ==
  \A a \in Alerts : status[a] = "PENDING" ~> status[a] \in {"SENT", "FAILED", "SUPPRESSED"}

(* README: alerts are re-sent until they are delivered.                     *)
ResentUntilDelivered ==
  \A a \in Alerts : status[a] = "PENDING" ~>
    \/ status[a] \in {"SENT", "FAILED", "SUPPRESSED"}
    \/ \A d \in Dests : copies[<<d, TextOf[a]>>] > 0

=============================================================================
